----------------------------- MODULE FlagEditor -----------------------------
(***************************************************************************)
(* The flag editor (flagd-ui): a browser tab that reads the whole flag     *)
(* file, changes it and writes it back, the two routes that do this on the *)
(* server, and the tabs of others, which may save anything at any time.    *)
(* The tab shows the basic view (a menu per flag) or the advanced one (the *)
(* file as text, checked against two schemas before it is saved).          *)
(*                                                                         *)
(* A configuration is a model value with a length: all that matters of it  *)
(* is whether two are equal and which is longer, because a write empties   *)
(* the file first and then stores its text from the start.                 *)
(***************************************************************************)
EXTENDS Naturals

CONSTANTS Configs,    \* flag configurations that pass the schema check
          Length,     \* of the text of each of them, and of null
          Saves,      \* the clicks on "save" that send something
          Null,       \* the JSON value null
          Nothing,    \* an empty file; what was not read, or not edited
          Error,      \* what read-file answers when it cannot parse the file
          Junk,       \* a text that does not parse, or fails the check
          MaxEvents   \* bounds the edits, the pages opened, and the failures of
                      \* the network, the proxy, the server and the disk

Contents == Configs \cup {Null}

ASSUME LengthAssumption == Length \in [Contents -> Nat \ {0}]
ASSUME MarksDiffer == /\ Configs \cap {Null, Nothing, Error, Junk} = {}
                      /\ Null \notin {Nothing, Error, Junk}
                      /\ Nothing # Error /\ Junk \notin {Nothing, Error}
ASSUME BoundsAssumption == MaxEvents \in Nat

VARIABLES
  file,      \* the text written last, and the size: what is longer is a rest
  write,     \* each save: who sent what, where it is, and who hears of it
  damage,    \* history: what has happened to a write between its two steps
  early,     \* history: a page was saved that had read nothing
  view,      \* what the tab shows: basic, advanced, or crashed
  read,      \* originalFlagData of the basic view, flagData of the advanced one
  edit,      \* flagData of the basic view, the text of the advanced one, if edited
  synced,    \* flagDataIsSynced of the advanced view
  isLoading, \* the spinner that covers the tab
  asked,     \* the reads under way that were not served yet
  served,    \* those that were: how many with which outcome, and whether overtaken
  schemas,   \* the pairs of schema requests under way
  validate,  \* whether the schemas are compiled
  behind,    \* history: the file was changed, and the tab will not look again
  unsure,    \* history: what the text was compared with may not be the file
  cutOff,    \* history: a call died that would have taken the spinner away
  events     \* counts edits, pages opened, and failures

server == <<file, write, damage, early>>
page == <<view, read, edit, synced>>
reads == <<asked, served>>
checks == <<schemas, validate>>
history == <<behind, unsure, cutOff>>
vars == <<server, page, reads, checks, isLoading, history, events>>

Outcomes == [what : Contents \cup {Error}, old : BOOLEAN]
NoneServed == [o \in Outcomes |-> 0]

\* A pair of schema requests: both are under way, or one after the other has
\* come, or the last one after the other has failed.
Pairs == {"both", "one", "last"}
NoPair == [p \in Pairs |-> 0]

Unused == [from |-> "elsewhere", data |-> Null, at |-> "unused", hears |-> "nobody"]

Event == events < MaxEvents /\ events' = events + 1

-----------------------------------------------------------------------------
(* Opening a page. *)

\* The component is mounted: it has read nothing, asks for the file and, in the
\* advanced view, for the schemas, under the spinner.
Opens(v) == IF v = "advanced" THEN [NoPair EXCEPT !["both"] = 1] ELSE NoPair

Init ==
  /\ \E c \in Configs : file = [text |-> c, size |-> Length[c]]
  /\ write = [s \in Saves |-> Unused]
  /\ damage = {}
  /\ early = FALSE
  /\ view \in {"basic", "advanced"}
  /\ read = Nothing
  /\ edit = Nothing
  /\ synced = TRUE
  /\ isLoading = (view = "advanced")
  /\ asked = 1
  /\ served = NoneServed
  /\ schemas = Opens(view)
  /\ validate = FALSE
  /\ behind = FALSE
  /\ unsure = FALSE
  /\ cutOff = FALSE
  /\ events = 0

Mount(v) ==
  /\ Event
  /\ view' = v
  /\ read' = Nothing
  /\ edit' = Nothing
  /\ synced' = TRUE
  /\ isLoading' = (v = "advanced")
  /\ asked' = 1
  /\ served' = NoneServed
  /\ behind' = FALSE
  /\ unsure' = FALSE
  /\ UNCHANGED <<file, damage, early>>

\* Who hears of the saves under way from now on.
Redirect(who) == write' = [s \in Saves |->
  IF write[s].hears # "nobody" THEN [write[s] EXCEPT !.hears = who] ELSE write[s]]

\* A link of the navigation bar, which the spinner covers.  What the old view
\* has under way may still take the spinner away, and compile the schemas.
Navigate(v) ==
  /\ view \in {"basic", "advanced"} \ {v}
  /\ ~ isLoading
  /\ Mount(v)
  /\ Redirect("layout")
  /\ schemas' = [p \in Pairs |-> schemas[p] + Opens(v)[p]]
  /\ UNCHANGED <<validate, cutOff>>

\* The browser loads the page again.
Reload ==
  LET v == IF view = "crashed" THEN "basic" ELSE view IN
  /\ Mount(v)
  /\ Redirect("nobody")
  /\ schemas' = Opens(v)
  /\ validate' = FALSE
  /\ cutOff' = FALSE

-----------------------------------------------------------------------------
(* The schemas. *)

\* A request ends, of a pair in state p, which becomes q.
Ends(p, q) ==
  /\ schemas[p] > 0
  /\ schemas' = [r \in Pairs |-> IF r = p THEN schemas[r] - 1
                                 ELSE IF r = q THEN schemas[r] + 1 ELSE schemas[r]]

\* It has come: the spinner goes away, and with the second of two that have
\* come the check is compiled.
SchemaComes ==
  /\ \/ (Ends("both", "one") \/ Ends("last", "gone")) /\ UNCHANGED validate
     \/ Ends("one", "gone") /\ validate' = TRUE
  /\ isLoading' = FALSE
  /\ UNCHANGED <<server, page, reads, history, events>>

\* It fails: nothing takes the spinner away.
SchemaFails ==
  /\ Ends("both", "last") \/ Ends("one", "gone") \/ Ends("last", "gone")
  /\ Event
  /\ cutOff' = TRUE
  /\ UNCHANGED <<server, page, reads, validate, isLoading, behind, unsure>>

-----------------------------------------------------------------------------
(* The server: read-file and write-to-file. *)

Open(s) == write[s].at = "open"
Broken == file.text = Nothing \/ file.size > Length[file.text]

\* readFileSync and JSON.parse: one look at the file.
Look == IF Broken THEN Error ELSE file.text

ServeRead ==
  /\ asked > 0
  /\ asked' = asked - 1
  /\ served' = [served EXCEPT ![[what |-> Look, old |-> FALSE]] = @ + 1]
  /\ UNCHANGED <<server, page, checks, isLoading, history, events>>

\* History: save s changes the file.  The reads that were served are overtaken,
\* and the tab will not look again unless it waits for this save.
FileChanges(s) ==
  /\ served' = [o \in Outcomes |->
       IF o.old THEN served[o] + served[[o EXCEPT !.old = FALSE]] ELSE 0]
  /\ behind' = (behind \/ write[s].hears # "page")
  /\ unsure' = (unsure \/ write[s].hears # "page")
  /\ UNCHANGED <<page, asked, checks, isLoading, cutOff, events>>

\* Mutant: the file is opened without emptying it.
OpenFile_Keeps(s) ==
  /\ write[s].at = "sent"
  /\ write' = [write EXCEPT ![s].at = "open"]
  /\ UNCHANGED <<file, damage, early>>
  /\ FileChanges(s)

\* fs.writeFile opens the file, which empties it ...
OpenFile(s) ==
  /\ write[s].at = "sent"
  /\ write' = [write EXCEPT ![s].at = "open"]
  /\ file' = [text |-> Nothing, size |-> 0]
  /\ damage' = IF \E r \in Saves : Open(r) /\ Length[write[r].data] # Length[write[s].data]
               THEN damage \cup {"overlap"} ELSE damage
  /\ UNCHANGED early
  /\ FileChanges(s)

\* ... and stores the text from the start: what was longer keeps its rest.
StoreText(s) ==
  /\ Open(s)
  /\ write' = [write EXCEPT ![s].at = "stored"]
  /\ file' = [text |-> write[s].data,
              size |-> IF file.size > Length[write[s].data] THEN file.size
                                                            ELSE Length[write[s].data]]
  /\ UNCHANGED <<damage, early>>
  /\ FileChanges(s)

\* The disk or the process fails, before or in the middle of the write.
WriteFails(s) ==
  /\ write[s].at \in {"sent", "open"}
  /\ Event
  /\ write' = [write EXCEPT ![s].at = "failed"]
  /\ damage' = IF Open(s) THEN damage \cup {"cut"} ELSE damage
  /\ UNCHANGED <<file, early, page, reads, checks, isLoading, history>>

\* Another tab saves what it shows: null if it has read nothing.
Elsewhere(s) ==
  /\ write[s] = Unused
  /\ \E data \in Contents :
       /\ write' = [write EXCEPT ![s] = [Unused EXCEPT !.data = data, !.at = "sent"]]
       /\ early' = (early \/ data = Null)
  /\ UNCHANGED <<file, damage, page, reads, checks, isLoading, history, events>>

-----------------------------------------------------------------------------
(* Reading. *)

\* A read ends.
Hear(o) ==
  /\ served[o] > 0
  /\ served' = [served EXCEPT ![o] = @ - 1]
  /\ UNCHANGED <<server, synced, asked, checks, isLoading, unsure, cutOff, events>>

\* Whatever it brings replaces what the basic view shows, edits included; an
\* error has no flags, and rendering it crashes the page.
readFile_Basic(o) ==
  /\ view \in {"basic", "crashed"}
  /\ Hear(o)
  /\ IF o.what = Error \/ view = "crashed"
     THEN view' = "crashed" /\ UNCHANGED <<read, edit, behind>>
     ELSE read' = o.what /\ edit' = Nothing /\ behind' = o.old /\ UNCHANGED view

\* The text area of the advanced view keeps what was typed, unless null takes
\* the text area away.
readFile_Advanced(o) ==
  /\ view = "advanced"
  /\ Hear(o)
  /\ read' = o.what
  /\ edit' = IF o.what = Null THEN Nothing ELSE edit
  /\ behind' = o.old
  /\ UNCHANGED view

\* The call is rejected: an alert, and the page stays as it is.
ReadRejected ==
  /\ asked > 0
  /\ asked' = asked - 1
  /\ Event
  /\ behind' = TRUE
  /\ UNCHANGED <<server, page, served, checks, isLoading, unsure, cutOff>>

-----------------------------------------------------------------------------
(* Editing and saving. *)

\* What the view shows: null if it has read nothing.
Shown == IF edit # Nothing THEN edit ELSE IF read = Nothing THEN Null ELSE read

\* Whether a save of the tab is under way.
Waits == \E s \in Saves : write[s].hears # "nobody"

Quiet == asked = 0 /\ served = NoneServed /\ ~ Waits

updateFlagData(c) ==
  /\ view = "basic" /\ ~ isLoading
  /\ Shown \in Configs \ {c}
  /\ Event
  /\ edit' = IF c = read THEN Nothing ELSE c
  /\ UNCHANGED <<server, view, read, synced, reads, checks, isLoading, history>>

\* Mutant: whatever is typed is unsaved.
handleTextAreaChange_Unsaved(text) ==
  /\ view = "advanced" /\ ~ isLoading
  /\ Shown \notin {Null, text}
  /\ Event
  /\ edit' = text
  /\ synced' = FALSE
  /\ unsure' = ~ Quiet
  /\ UNCHANGED <<server, view, read, reads, checks, isLoading, behind, cutOff>>

\* The text is compared with what has been read so far.
handleTextAreaChange(text) ==
  /\ view = "advanced" /\ ~ isLoading
  /\ Shown \notin {Null, text}
  /\ Event
  /\ edit' = text
  /\ synced' = (text = read)
  /\ unsure' = ~ Quiet
  /\ UNCHANGED <<server, view, read, reads, checks, isLoading, behind, cutOff>>

\* POST write-to-file, under the spinner.
Send ==
  /\ ~ isLoading
  /\ \E s \in Saves :
       /\ write[s] = Unused
       /\ write' = [write EXCEPT ![s] =
            [from |-> view, data |-> Shown, at |-> "sent", hears |-> "page"]]
  /\ isLoading' = TRUE
  /\ UNCHANGED <<file, damage, page, reads, checks, behind, cutOff, events>>

save ==
  /\ view = "basic"
  /\ Send
  /\ early' = (early \/ read = Nothing)
  /\ UNCHANGED unsure

\* Without the compiled check it throws; a text that fails the check is refused.
update ==
  /\ view = "advanced"
  /\ validate
  /\ Shown \in Configs
  /\ Send
  /\ unsure' = Waits
  /\ UNCHANGED early

\* The call of save s ends.
Ended(s) ==
  /\ write[s].hears # "nobody"
  /\ write' = [write EXCEPT ![s].hears = "nobody"]
  /\ UNCHANGED <<file, damage, early, view, read, edit, served, checks>>

\* Mutant: the file is not read again.
ReloadData_Not == UNCHANGED asked

\* setReloadData(true), which the effect that reads the file sets back, and so
\* runs again: the file is read twice.  A page that has crashed has no effects.
ReloadData == asked' = IF view = "crashed" THEN asked ELSE asked + 2

\* Whatever the answer says, it counts as saved.
SaveAnswered(s) ==
  /\ write[s].at \in {"stored", "failed"}
  /\ Ended(s)
  /\ isLoading' = FALSE
  /\ IF write[s].hears = "page"
     THEN /\ ReloadData
          /\ synced' = TRUE
          /\ unsure' = (unsure \/ write[s].at = "failed")
     ELSE UNCHANGED <<asked, synced, unsure>>
  /\ UNCHANGED <<behind, cutOff, events>>

\* Mutant: the catch of the advanced view leaves the spinner on.
SaveGivenUp_Spins(s) ==
  /\ Event
  /\ Ended(s)
  /\ isLoading' = (isLoading /\ write[s].from = "advanced")
  /\ IF write[s].from = "basic" /\ write[s].hears = "page"
     THEN ReloadData /\ UNCHANGED <<behind, unsure>>
     ELSE behind' = TRUE /\ unsure' = TRUE /\ UNCHANGED asked
  /\ UNCHANGED <<synced, cutOff>>

\* The proxy answers in its place, with a text.  The basic view does not look
\* at it; for the advanced view it is an error.
SaveGivenUp(s) ==
  /\ Event
  /\ Ended(s)
  /\ isLoading' = FALSE
  /\ IF write[s].from = "basic" /\ write[s].hears = "page"
     THEN ReloadData /\ UNCHANGED <<behind, unsure>>
     ELSE behind' = TRUE /\ unsure' = TRUE /\ UNCHANGED asked
  /\ UNCHANGED <<synced, cutOff>>

\* The call is rejected: the basic view leaves the spinner on.
SaveRejected(s) ==
  /\ Event
  /\ Ended(s)
  /\ IF write[s].from = "basic"
     THEN cutOff' = TRUE /\ UNCHANGED isLoading
     ELSE isLoading' = FALSE /\ UNCHANGED cutOff
  /\ behind' = TRUE
  /\ unsure' = TRUE
  /\ UNCHANGED <<asked, synced>>

-----------------------------------------------------------------------------
User ==
  \/ \E v \in {"basic", "advanced"} : Navigate(v)
  \/ Reload
  \/ \E c \in Configs : updateFlagData(c)
  \/ \E text \in Configs \cup {Junk} : handleTextAreaChange(text)
  \/ save \/ update

TabHears ==
  \/ SchemaComes \/ ServeRead
  \/ \E o \in Outcomes : readFile_Basic(o) \/ readFile_Advanced(o)

SaveProceeds(s) == OpenFile(s) \/ StoreText(s) \/ SaveAnswered(s)

SaveDisturbed(s) == WriteFails(s) \/ SaveGivenUp(s) \/ SaveRejected(s)

Next ==
  \/ User
  \/ TabHears \/ SchemaFails \/ ReadRejected
  \/ \E s \in Saves : SaveProceeds(s) \/ SaveDisturbed(s) \/ Elsewhere(s)

Spec == Init /\ [][Next]_vars

-----------------------------------------------------------------------------
(* Properties *)

Writes == [from : {"basic", "advanced", "elsewhere"}, data : Contents,
           at : {"unused", "sent", "open", "stored", "failed"},
           hears : {"nobody", "page", "layout"}]

\* The types, and a file that is never shorter than the text in it.
TypeOK ==
  /\ file \in [text : Contents \cup {Nothing}, size : Nat]
  /\ file.text # Nothing => file.size >= Length[file.text]
  /\ write \in [Saves -> Writes]
  /\ damage \subseteq {"overlap", "cut"}
  /\ early \in BOOLEAN
  /\ view \in {"basic", "advanced", "crashed"}
  /\ read \in Contents \cup {Nothing, Error}
  /\ edit \in Configs \cup {Nothing, Junk}
  /\ synced \in BOOLEAN
  /\ isLoading \in BOOLEAN
  /\ asked \in Nat
  /\ served \in [Outcomes -> Nat]
  /\ schemas \in [Pairs -> Nat]
  /\ validate \in BOOLEAN
  /\ behind \in BOOLEAN
  /\ unsure \in BOOLEAN
  /\ cutOff \in BOOLEAN
  /\ events \in 0..MaxEvents

\* A tab that waits for nothing has read the file as it is - unless it was
\* changed from elsewhere, or the answer heard last was overtaken: after its
\* own save a tab looks again (BasicView.tsx, AdvancedView.tsx: reloadData).
QuietPageIsCurrent ==
  view # "crashed" /\ Quiet /\ ~ behind => read = Look

\* The advanced view says "Unsaved changes" if its text is not the file it has
\* read - unless, since the text was typed or saved, the file was changed from
\* elsewhere, the save failed or was not confirmed, or another call of the tab
\* was under way: an answer of read-file does not bring the hint up to date
\* (AdvancedView.tsx: flagDataIsSynced).
HintIsHonest ==
  view = "advanced" /\ Quiet /\ ~ behind /\ ~ unsure
    => synced = (edit = Nothing \/ edit = read)

\* The file is null only after a basic page was saved before it had read it:
\* no failed read and no broken file ends up there (BasicView.tsx: save).
NullIsAnEarlySave == file.text = Null => early

\* When no write is between its two steps, the file parses - unless one died
\* there, or two writes of different length have overlapped (write-to-file).
BrokenIsDamaged == Broken => damage # {} \/ \E s \in Saves : Open(s)

\* A flag file that flagd cannot use has one of these causes, all of them writes.
FileIsExplained == NullIsAnEarlySave /\ BrokenIsDamaged

\* The spinner, which makes the page unusable, stays on without a call that
\* may end it only after the rejection of one: a save of the basic view, or
\* a schema (BasicView.tsx: save; AdvancedView.tsx: requestSchemas).
SpinnerHasReason == isLoading => cutOff \/ Waits \/ \E p \in Pairs : schemas[p] > 0
=============================================================================
