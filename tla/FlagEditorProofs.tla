-------------------------- MODULE FlagEditorProofs --------------------------
(***************************************************************************)
(* Proofs about FlagEditor, for any configurations, lengths, saves and     *)
(* number of events.                                                       *)
(***************************************************************************)
EXTENDS FlagEditor, TLAPS

-----------------------------------------------------------------------------
(* The inductive invariants.                                               *)

\* A basic page that is not crashed shows configurations only.
PageFits ==
  view = "basic" => read \in Contents \cup {Nothing} /\ edit \in Configs \cup {Nothing}

Types == TypeOK /\ PageFits

\* Wherever null can be on its way to the file, a page was saved too early.
NullTraced ==
  /\ file.text = Null => early
  /\ read = Null => early
  /\ \A s \in Saves : write[s].at # "unused" /\ write[s].data = Null => early
  /\ \A o \in Outcomes : served[o] > 0 /\ o.what = Null => early

\* Without damage the file is as long as its text, and the open writes, which
\* are of one length, can make it no longer.
Whole ==
  /\ \A r, s \in Saves : Open(r) /\ Open(s) => Length[write[r].data] = Length[write[s].data]
  /\ \A s \in Saves : Open(s) => file.size <= Length[write[s].data]
  /\ file.text # Nothing => file.size = Length[file.text]
  /\ file.text = Nothing => \E s \in Saves : Open(s)

WholeUnlessDamaged == damage = {} => Whole

\* What was served since the file last changed is the file as it is.
FreshReads == \A o \in Outcomes : served[o] > 0 /\ ~ o.old => o.what = Look

\* A page that is not current has a read under way, or will ask for one when its
\* save is answered.
Coming ==
  \/ asked > 0
  \/ \E o \in Outcomes : served[o] > 0
  \/ \E s \in Saves : write[s].hears = "page"

Current == view # "crashed" /\ ~ behind => read = Look \/ Coming

\* The tab's only save, s, brings the text of the advanced view to the file.
SavesText(s) ==
  /\ write[s].hears = "page"
  /\ write[s].data \in Configs /\ edit \in {Nothing, write[s].data}
  /\ \A r \in Saves : r # s => write[r].hears = "nobody"
  /\ write[s].at = "open" => file.text = Nothing /\ file.size = 0
  /\ write[s].at = "stored" =>
       file.text = write[s].data /\ file.size = Length[write[s].data]

\* The page hears of its own saves: a view that is left hears of none.
OwnSaves ==
  view = "advanced" =>
    \A s \in Saves : write[s].hears = "page" => write[s].from # "basic"

\* The hint tells of a page without edits, of one that has not called since the
\* last edit, of one that saves, or of one that has saved what it shows.
HintTold ==
  view = "advanced" /\ ~ unsure =>
    \/ edit = Nothing /\ synced
    \/ edit # Nothing /\ Quiet /\ synced = (edit = read)
    \/ \E s \in Saves : SavesText(s)
    \/ ~ Waits /\ synced /\ edit \in Configs /\ Look = edit

-----------------------------------------------------------------------------
(* Types.                                                                  *)

\* Every content has a length.
LEMMA LengthType == \A c \in Contents : Length[c] \in Nat /\ Length[c] > 0
BY LengthAssumption

\* What an outcome holds, and that a fresh one is an outcome.
LEMMA OutcomeTypes ==
  \A o \in Outcomes : /\ o.what \in Contents \cup {Error}
                      /\ [o EXCEPT !.old = FALSE] \in Outcomes
                      /\ [o EXCEPT !.old = FALSE].what = o.what
BY DEF Outcomes

\* Who looks at the file sees a content or an error.
LEMMA LookType == ASSUME TypeOK PROVE Look \in Contents \cup {Error}
BY DEF TypeOK, Look, Broken

\* A page asks for a number of pairs of schemas when it opens.
LEMMA OpensType == \A v : Opens(v) \in [Pairs -> Nat]
BY DEF Opens, NoPair, Pairs

\* No read is served at first.
LEMMA NoneServedType == NoneServed \in [Outcomes -> Nat]
BY DEF NoneServed

\* A save that is not in use is a write.
LEMMA UnusedType == Unused \in Writes
BY DEF Unused, Writes, Contents

\* Events stay within their bound.
LEMMA EventType ==
  ASSUME TypeOK, Event PROVE events' \in 0..MaxEvents
BY BoundsAssumption DEF TypeOK, Event

\* Opening a page.
LEMMA MountTypes ==
  ASSUME Types, NEW v \in {"basic", "advanced"}, Mount(v)
  PROVE  /\ view' = v /\ read' = Nothing /\ edit' = Nothing /\ synced' = TRUE
         /\ isLoading' \in BOOLEAN /\ asked' \in Nat /\ served' \in [Outcomes -> Nat]
         /\ behind' = FALSE /\ unsure' = FALSE /\ events' \in 0..MaxEvents
         /\ UNCHANGED <<file, damage, early>>
BY NoneServedType, EventType DEF Types, Mount

\* Redirecting the answers of saves keeps their types.
LEMMA RedirectTypes ==
  ASSUME TypeOK, NEW who \in {"nobody", "page", "layout"}, Redirect(who)
  PROVE  write' \in [Saves -> Writes]
<1> SUFFICES ASSUME NEW s \in Saves
             PROVE  (IF write[s].hears # "nobody" THEN [write[s] EXCEPT !.hears = who]
                                                  ELSE write[s]) \in Writes
  BY DEF Redirect
<1>1. write[s] \in Writes BY DEF TypeOK
<1> QED BY <1>1 DEF Writes

\* A change of the file.
LEMMA FileChangesTypes ==
  ASSUME Types, NEW s \in Saves, FileChanges(s)
  PROVE  /\ served' \in [Outcomes -> Nat]
         /\ behind' \in BOOLEAN /\ unsure' \in BOOLEAN
         /\ UNCHANGED <<page, asked, checks, isLoading, cutOff, events>>
<1>1. served \in [Outcomes -> Nat] BY DEF Types, TypeOK
<1>2. \A o \in Outcomes :
        (IF o.old THEN served[o] + served[[o EXCEPT !.old = FALSE]] ELSE 0) \in Nat
  <2> TAKE o \in Outcomes
  <2>1. [o EXCEPT !.old = FALSE] \in Outcomes BY OutcomeTypes
  <2>2. served[o] \in Nat /\ served[[o EXCEPT !.old = FALSE]] \in Nat BY <1>1, <2>1
  <2> QED BY <2>2
<1>3. served' \in [Outcomes -> Nat] BY <1>2 DEF FileChanges
<1>4. behind \in BOOLEAN /\ unsure \in BOOLEAN BY DEF Types, TypeOK
<1> QED BY <1>3, <1>4 DEF FileChanges

\* The initial states are of their types.
LEMMA TypesInit == Init => Types
<1> SUFFICES ASSUME Init PROVE Types OBVIOUS
<1>1. file \in [text : Contents \cup {Nothing}, size : Nat]
      /\ (file.text # Nothing => file.size >= Length[file.text])
  BY LengthType DEF Init, Contents
<1>2. write \in [Saves -> Writes] BY UnusedType DEF Init
<1>3. schemas \in [Pairs -> Nat] BY OpensType DEF Init
<1>4. served \in [Outcomes -> Nat] BY NoneServedType DEF Init
<1>5. events \in 0..MaxEvents BY BoundsAssumption DEF Init
<1> QED BY <1>1, <1>2, <1>3, <1>4, <1>5 DEF Init, Types, TypeOK, PageFits

\* What a page shows, and may save, is a content.
LEMMA ShownTypes ==
  ASSUME Types, view = "basic" \/ Shown \in Configs
  PROVE  Shown \in Contents
<1>1. CASE Shown \in Configs BY <1>1 DEF Contents
<1>2. CASE view = "basic"
  BY <1>2 DEF Types, PageFits, Shown, Contents
<1> QED BY <1>1, <1>2

\* Sending a save keeps the types.
LEMMA SendTypes ==
  ASSUME Types, Send, view \in {"basic", "advanced"}, Shown \in Contents
  PROVE  /\ write' \in [Saves -> Writes] /\ isLoading' = TRUE
         /\ UNCHANGED <<file, damage, page, reads, checks, behind, cutOff, events>>
<1>1. PICK s \in Saves : write' = [write EXCEPT ![s] =
            [from |-> view, data |-> Shown, at |-> "sent", hears |-> "page"]]
  BY DEF Send
<1>2. [from |-> view, data |-> Shown, at |-> "sent", hears |-> "page"] \in Writes
  BY DEF Writes
<1>3. write \in [Saves -> Writes] BY DEF Types, TypeOK
<1> HIDE DEF Writes
<1>4. write' \in [Saves -> Writes] BY <1>1, <1>2, <1>3
<1> QED BY <1>4 DEF Send

\* A save that has ended keeps the types.
LEMMA EndedTypes ==
  ASSUME Types, NEW s \in Saves, Ended(s)
  PROVE  /\ write' \in [Saves -> Writes]
         /\ UNCHANGED <<file, damage, early, view, read, edit, served, checks>>
<1>1. write[s] \in Writes /\ write \in [Saves -> Writes] BY DEF Types, TypeOK
<1>2. [write[s] EXCEPT !.hears = "nobody"] \in Writes BY <1>1 DEF Writes
<1>3. write' = [write EXCEPT ![s] = [write[s] EXCEPT !.hears = "nobody"]] BY DEF Ended
<1>4. write' \in [Saves -> Writes] BY <1>1, <1>2, <1>3
<1> QED BY <1>4 DEF Ended

\* A write of save s that gets to another place.
LEMMA PlaceTypes ==
  ASSUME Types, NEW s \in Saves, NEW place \in {"open", "stored", "failed"},
         write' = [write EXCEPT ![s].at = place]
  PROVE  write' \in [Saves -> Writes]
<1>1. write[s] \in Writes /\ write \in [Saves -> Writes] BY DEF Types, TypeOK
<1>2. [write[s] EXCEPT !.at = place] \in Writes BY <1>1 DEF Writes
<1>3. write' = [write EXCEPT ![s] = [write[s] EXCEPT !.at = place]] OBVIOUS
<1> QED BY <1>1, <1>2, <1>3

\* Reloading asks for reads.
LEMMA ReloadDataType ==
  ASSUME Types, ReloadData PROVE asked' \in Nat
BY DEF Types, TypeOK, ReloadData

\* A schema request that ends leaves a number of pairs.
LEMMA EndsType ==
  ASSUME Types, NEW p \in Pairs, NEW q, Ends(p, q)
  PROVE  schemas' \in [Pairs -> Nat]
<1>1. schemas \in [Pairs -> Nat] BY DEF Types, TypeOK
<1>2. \A r \in Pairs : (IF r = p THEN schemas[r] - 1
                        ELSE IF r = q THEN schemas[r] + 1 ELSE schemas[r]) \in Nat
  <2> TAKE r \in Pairs
  <2>1. schemas[r] \in Nat /\ schemas[p] > 0 BY <1>1 DEF Ends
  <2> QED BY <2>1
<1> QED BY <1>2 DEF Ends

\* Every step keeps the types.
LEMMA TypesNext == Types /\ [Next]_vars => Types'
<1> SUFFICES ASSUME Types, [Next]_vars PROVE Types' OBVIOUS
<1> USE DEF Types
<1>1. ASSUME NEW v \in {"basic", "advanced"}, Navigate(v) PROVE Types'
  <2>1. Mount(v) /\ write' \in [Saves -> Writes] /\ UNCHANGED <<validate, cutOff>>
    BY <1>1, RedirectTypes DEF Navigate
  <2>2. schemas' \in [Pairs -> Nat]
    <3>1. \A p \in Pairs : schemas[p] \in Nat /\ Opens(v)[p] \in Nat
      BY OpensType DEF TypeOK
    <3> QED BY <1>1, <3>1 DEF Navigate
  <2> QED BY <2>1, <2>2, MountTypes DEF TypeOK, PageFits
<1>2. CASE Reload
  <2>1. PICK v \in {"basic", "advanced"} :
          /\ Mount(v) /\ Redirect("nobody") /\ schemas' = Opens(v)
          /\ validate' = FALSE /\ cutOff' = FALSE
    BY <1>2 DEF Reload, TypeOK
  <2>2. write' \in [Saves -> Writes] /\ schemas' \in [Pairs -> Nat]
    BY <2>1, RedirectTypes, OpensType
  <2> QED BY <2>1, <2>2, MountTypes DEF TypeOK, PageFits
<1>3. ASSUME NEW c \in Configs, updateFlagData(c) PROVE Types'
  <2>1. edit' \in Configs \cup {Nothing} /\ events' \in 0..MaxEvents
    BY <1>3, EventType DEF updateFlagData
  <2> QED BY <1>3, <2>1
        DEF updateFlagData, TypeOK, PageFits, server, reads, checks, history
<1>4. ASSUME NEW text \in Configs \cup {Junk}, handleTextAreaChange(text) PROVE Types'
  <2>1. events' \in 0..MaxEvents BY <1>4, EventType DEF handleTextAreaChange
  <2> QED BY <1>4, <2>1
        DEF handleTextAreaChange, TypeOK, PageFits, server, reads, checks
<1>5. CASE save
  <2>1. Shown \in Contents BY <1>5, ShownTypes DEF save
  <2>2. /\ write' \in [Saves -> Writes] /\ isLoading' = TRUE
        /\ UNCHANGED <<file, damage, page, reads, checks, behind, cutOff, events>>
    BY <1>5, <2>1, SendTypes DEF save
  <2> QED BY <1>5, <2>2 DEF save, TypeOK, PageFits, page, reads, checks
<1>6. CASE update
  <2>1. Shown \in Contents BY <1>6, ShownTypes DEF update
  <2>2. /\ write' \in [Saves -> Writes] /\ isLoading' = TRUE
        /\ UNCHANGED <<file, damage, page, reads, checks, behind, cutOff, events>>
    BY <1>6, <2>1, SendTypes DEF update
  <2>3. unsure' \in BOOLEAN BY <1>6 DEF update, Waits
  <2> QED BY <1>6, <2>2, <2>3 DEF update, TypeOK, PageFits, page, reads, checks
<1>7. CASE SchemaComes
  <2>1. schemas' \in [Pairs -> Nat] BY <1>7, EndsType DEF SchemaComes, Pairs
  <2>2. /\ validate' \in BOOLEAN /\ isLoading' = FALSE
        /\ UNCHANGED <<server, page, reads, history, events>>
    BY <1>7 DEF SchemaComes, TypeOK
  <2> QED BY <2>1, <2>2
        DEF TypeOK, PageFits, server, page, reads, history
<1>8. CASE SchemaFails
  <2>1. schemas' \in [Pairs -> Nat] BY <1>8, EndsType DEF SchemaFails, Pairs
  <2>2. events' \in 0..MaxEvents BY <1>8, EventType DEF SchemaFails
  <2> QED BY <1>8, <2>1, <2>2
        DEF SchemaFails, TypeOK, PageFits, server, page, reads
<1>9. CASE ServeRead
  <2>1. [what |-> Look, old |-> FALSE] \in Outcomes BY LookType DEF Outcomes
  <2>2. served' \in [Outcomes -> Nat]
    <3>1. served \in [Outcomes -> Nat] BY DEF TypeOK
    <3>2. served[[what |-> Look, old |-> FALSE]] + 1 \in Nat BY <2>1, <3>1
    <3>3. served' = [served EXCEPT ![[what |-> Look, old |-> FALSE]] =
                       served[[what |-> Look, old |-> FALSE]] + 1]
      BY <1>9 DEF ServeRead
    <3> QED BY <2>1, <3>1, <3>2, <3>3
  <2>3. asked' \in Nat BY <1>9 DEF ServeRead, TypeOK
  <2> QED BY <1>9, <2>2, <2>3
        DEF ServeRead, TypeOK, PageFits, server, page, checks, history
<1>10. ASSUME NEW o \in Outcomes, readFile_Basic(o) \/ readFile_Advanced(o) PROVE Types'
  <2>1. served' \in [Outcomes -> Nat]
    BY <1>10 DEF readFile_Basic, readFile_Advanced, Hear, TypeOK
  <2>2. o.what \in Contents \cup {Error} /\ o.old \in BOOLEAN BY DEF Outcomes
  <2>3. CASE readFile_Basic(o)
    BY <2>1, <2>2, <2>3 DEF readFile_Basic, Hear, TypeOK, PageFits, server, checks
  <2>4. CASE readFile_Advanced(o)
    BY <2>1, <2>2, <2>4 DEF readFile_Advanced, Hear, TypeOK, PageFits, server, checks
  <2> QED BY <1>10, <2>3, <2>4
<1>11. CASE ReadRejected
  <2>1. events' \in 0..MaxEvents BY <1>11, EventType DEF ReadRejected
  <2>2. asked' \in Nat BY <1>11 DEF ReadRejected, TypeOK
  <2> QED BY <1>11, <2>1, <2>2
        DEF ReadRejected, TypeOK, PageFits, server, page, checks
<1>12. ASSUME NEW s \in Saves, OpenFile(s) PROVE Types'
  <2>1. write' \in [Saves -> Writes] BY <1>12, PlaceTypes DEF OpenFile
  <2>2. damage' \subseteq {"overlap", "cut"} BY <1>12 DEF OpenFile, TypeOK
  <2>3. FileChanges(s) BY <1>12 DEF OpenFile
  <2>4. file' \in [text : Contents \cup {Nothing}, size : Nat] /\ file'.text = Nothing
    BY <1>12 DEF OpenFile
  <2> QED BY <1>12, <2>1, <2>2, <2>3, <2>4, FileChangesTypes
        DEF OpenFile, TypeOK, PageFits, page, checks
<1>13. ASSUME NEW s \in Saves, StoreText(s) PROVE Types'
  <2>1. write' \in [Saves -> Writes] BY <1>13, PlaceTypes DEF StoreText
  <2>2. FileChanges(s) BY <1>13 DEF StoreText
  <2>3. write[s].data \in Contents BY DEF TypeOK, Writes
  <2>4. Length[write[s].data] \in Nat /\ file.size \in Nat BY <2>3, LengthType DEF TypeOK
  <2>5. /\ file' \in [text : Contents \cup {Nothing}, size : Nat]
        /\ file'.size >= Length[file'.text]
    BY <1>13, <2>3, <2>4 DEF StoreText
  <2> QED BY <1>13, <2>1, <2>2, <2>5, FileChangesTypes
        DEF StoreText, TypeOK, PageFits, page, checks
<1>14. ASSUME NEW s \in Saves, WriteFails(s) PROVE Types'
  <2>1. write' \in [Saves -> Writes] BY <1>14, PlaceTypes DEF WriteFails
  <2>2. events' \in 0..MaxEvents BY <1>14, EventType DEF WriteFails
  <2> QED BY <1>14, <2>1, <2>2
        DEF WriteFails, TypeOK, PageFits, page, reads, checks, history
<1>15. ASSUME NEW s \in Saves, Elsewhere(s) PROVE Types'
  <2>1. PICK data \in Contents :
          /\ write' = [write EXCEPT ![s] = [Unused EXCEPT !.data = data, !.at = "sent"]]
          /\ early' = (early \/ data = Null)
    BY <1>15 DEF Elsewhere
  <2>2. [Unused EXCEPT !.data = data, !.at = "sent"] \in Writes BY DEF Unused, Writes
  <2>3. write' \in [Saves -> Writes] BY <2>1, <2>2 DEF TypeOK
  <2>4. early' \in BOOLEAN BY <2>1
  <2> QED BY <1>15, <2>3, <2>4
        DEF Elsewhere, TypeOK, PageFits, page, reads, checks, history
<1>16. ASSUME NEW s \in Saves, SaveAnswered(s) PROVE Types'
  <2>1. /\ write' \in [Saves -> Writes]
        /\ UNCHANGED <<file, damage, early, view, read, edit, served, checks>>
    BY <1>16, EndedTypes DEF SaveAnswered
  <2>2. asked' \in Nat /\ synced' \in BOOLEAN /\ unsure' \in BOOLEAN
    BY <1>16, ReloadDataType DEF SaveAnswered, TypeOK
  <2> QED BY <1>16, <2>1, <2>2 DEF SaveAnswered, TypeOK, PageFits, checks
<1>17. ASSUME NEW s \in Saves, SaveGivenUp(s) PROVE Types'
  <2>1. /\ write' \in [Saves -> Writes]
        /\ UNCHANGED <<file, damage, early, view, read, edit, served, checks>>
    BY <1>17, EndedTypes DEF SaveGivenUp
  <2>2. asked' \in Nat /\ behind' \in BOOLEAN /\ unsure' \in BOOLEAN
    BY <1>17, ReloadDataType DEF SaveGivenUp, TypeOK
  <2>3. events' \in 0..MaxEvents BY <1>17, EventType DEF SaveGivenUp
  <2> QED BY <1>17, <2>1, <2>2, <2>3 DEF SaveGivenUp, TypeOK, PageFits, checks
<1>18. ASSUME NEW s \in Saves, SaveRejected(s) PROVE Types'
  <2>1. /\ write' \in [Saves -> Writes]
        /\ UNCHANGED <<file, damage, early, view, read, edit, served, checks>>
    BY <1>18, EndedTypes DEF SaveRejected
  <2>2. events' \in 0..MaxEvents BY <1>18, EventType DEF SaveRejected
  <2> QED BY <1>18, <2>1, <2>2 DEF SaveRejected, TypeOK, PageFits, checks
<1>19. CASE UNCHANGED vars
  BY <1>19 DEF vars, server, page, reads, checks, history, TypeOK, PageFits
<1> QED
  BY <1>1, <1>2, <1>3, <1>4, <1>5, <1>6, <1>7, <1>8, <1>9, <1>10, <1>11, <1>12,
     <1>13, <1>14, <1>15, <1>16, <1>17, <1>18, <1>19
  DEF Next, User, TabHears, SaveProceeds, SaveDisturbed

\* Types are kept: what reaches the file is a configuration or null, never the
\* error of a failed read or a text that does not parse.
THEOREM TypeCorrect == Spec => []TypeOK
<1>1. Types => TypeOK BY DEF Types
<1> QED BY <1>1, TypesInit, TypesNext, PTL DEF Spec

-----------------------------------------------------------------------------
(* The spinner.                                                            *)

\* The spinner has its reason at first.
LEMMA SpinnerInit == Init => SpinnerHasReason
<1> SUFFICES ASSUME Init, isLoading PROVE \E p \in Pairs : schemas[p] > 0
  BY DEF SpinnerHasReason
<1>1. schemas["both"] = 1 BY DEF Init, Opens, NoPair, Pairs
<1> QED BY <1>1 DEF Pairs

\* A new page spins only for its schemas.
LEMMA OpensSpins ==
  ASSUME NEW v, v = "advanced" PROVE Opens(v)["both"] = 1 /\ "both" \in Pairs
BY DEF Opens, NoPair, Pairs

\* A step of a write leaves alone who hears of it.
LEMMA WaitsKept ==
  ASSUME TypeOK, NEW s \in Saves, NEW place,
         write' = [write EXCEPT ![s].at = place]
  PROVE  Waits' = Waits
<1>1. \A r \in Saves : write'[r].hears = write[r].hears
  BY DEF TypeOK, Writes
<1> QED BY <1>1 DEF Waits

\* Every step keeps the spinner explained.
LEMMA SpinnerNext ==
  Types /\ SpinnerHasReason /\ [Next]_vars => SpinnerHasReason'
<1> SUFFICES ASSUME Types, SpinnerHasReason, [Next]_vars, isLoading'
             PROVE  cutOff' \/ Waits' \/ \E p \in Pairs : schemas'[p] > 0
  BY DEF SpinnerHasReason
<1>a. TypeOK BY DEF Types
<1>b. ASSUME isLoading' = isLoading, cutOff' = cutOff, Waits' = Waits, schemas' = schemas
      PROVE  cutOff' \/ Waits' \/ \E p \in Pairs : schemas'[p] > 0
  BY <1>b DEF SpinnerHasReason
<1>1. ASSUME NEW v \in {"basic", "advanced"}, Navigate(v)
      PROVE  \E p \in Pairs : schemas'[p] > 0
  <2>1. v = "advanced" BY <1>1 DEF Navigate, Mount
  <2>2. Opens(v)["both"] = 1 /\ "both" \in Pairs BY <2>1, OpensSpins
  <2>3. schemas["both"] \in Nat BY <1>a, <2>2 DEF TypeOK
  <2>4. schemas'["both"] = schemas["both"] + Opens(v)["both"] BY <1>1, <2>2 DEF Navigate
  <2> QED BY <2>2, <2>3, <2>4
<1>2. CASE Reload
  <2>1. PICK v \in {"basic", "advanced"} : Mount(v) /\ schemas' = Opens(v)
    BY <1>2, <1>a DEF Reload, TypeOK
  <2>2. v = "advanced" BY <2>1 DEF Mount
  <2> QED BY <2>1, <2>2, OpensSpins
<1>3. ASSUME NEW c \in Configs, updateFlagData(c) PROVE FALSE
  BY <1>3 DEF updateFlagData
<1>4. ASSUME NEW text, handleTextAreaChange(text) PROVE FALSE
  BY <1>4 DEF handleTextAreaChange
<1>5. CASE save \/ update
  <2>1. PICK s \in Saves : write' = [write EXCEPT ![s] =
          [from |-> view, data |-> Shown, at |-> "sent", hears |-> "page"]]
    BY <1>5 DEF save, update, Send
  <2>2. write'[s].hears = "page" BY <2>1, <1>a DEF TypeOK
  <2> QED BY <2>2 DEF Waits
<1>6. CASE SchemaComes BY <1>6 DEF SchemaComes
<1>7. CASE SchemaFails BY <1>7 DEF SchemaFails
<1>8. CASE ServeRead BY <1>8, <1>b DEF ServeRead, server, checks, history, Waits
<1>9. ASSUME NEW o \in Outcomes, readFile_Basic(o) \/ readFile_Advanced(o)
      PROVE  cutOff' \/ Waits' \/ \E p \in Pairs : schemas'[p] > 0
  BY <1>9, <1>b DEF readFile_Basic, readFile_Advanced, Hear, server, checks, Waits
<1>10. CASE ReadRejected BY <1>10, <1>b DEF ReadRejected, server, checks, Waits
<1>11. ASSUME NEW s \in Saves, OpenFile(s) \/ StoreText(s)
       PROVE  cutOff' \/ Waits' \/ \E p \in Pairs : schemas'[p] > 0
  <2>1. Waits' = Waits BY <1>11, <1>a, WaitsKept DEF OpenFile, StoreText
  <2>2. FileChanges(s) BY <1>11 DEF OpenFile, StoreText
  <2> QED BY <1>b, <2>1, <2>2 DEF FileChanges, checks
<1>12. ASSUME NEW s \in Saves, WriteFails(s)
       PROVE  cutOff' \/ Waits' \/ \E p \in Pairs : schemas'[p] > 0
  <2>1. Waits' = Waits BY <1>12, <1>a, WaitsKept DEF WriteFails
  <2> QED BY <1>12, <1>b, <2>1 DEF WriteFails, checks, history
<1>13. ASSUME NEW s \in Saves, Elsewhere(s)
       PROVE  cutOff' \/ Waits' \/ \E p \in Pairs : schemas'[p] > 0
  <2>1. PICK data \in Contents :
          write' = [write EXCEPT ![s] = [Unused EXCEPT !.data = data, !.at = "sent"]]
    BY <1>13 DEF Elsewhere
  <2>2. write[s].hears = "nobody" BY <1>13 DEF Elsewhere, Unused
  <2>3. write'[s].hears = "nobody" BY <2>1, <1>a DEF TypeOK, Unused
  <2>4. \A r \in Saves : write'[r].hears = write[r].hears
    BY <2>1, <2>2, <2>3, <1>a DEF TypeOK
  <2>5. Waits' = Waits BY <2>4 DEF Waits
  <2> QED BY <1>13, <1>b, <2>5 DEF Elsewhere, checks, history
<1>14. ASSUME NEW s \in Saves, SaveAnswered(s) \/ SaveGivenUp(s) PROVE FALSE
  BY <1>14 DEF SaveAnswered, SaveGivenUp
<1>15. ASSUME NEW s \in Saves, SaveRejected(s) PROVE cutOff'
  BY <1>15 DEF SaveRejected
<1>16. CASE UNCHANGED vars
  BY <1>16, <1>b DEF vars, server, checks, history, Waits
<1> QED
  BY <1>1, <1>2, <1>3, <1>4, <1>5, <1>6, <1>7, <1>8, <1>9, <1>10, <1>11, <1>12,
     <1>13, <1>14, <1>15, <1>16
  DEF Next, User, TabHears, SaveProceeds, SaveDisturbed

\* The spinner that covers the page always has a call under way that may end it,
\* or a call was rejected: whatever pages are opened and saves overlap.
THEOREM SpinnerExplained == Spec => []SpinnerHasReason
<1>1. Spec => [](Types /\ SpinnerHasReason)
  BY TypesInit, TypesNext, SpinnerInit, SpinnerNext, PTL DEF Spec
<1> QED BY <1>1, PTL

-----------------------------------------------------------------------------
(* Null.                                                                   *)

\* Nothing is null at first.
LEMMA NullInit == Init => NullTraced
<1> SUFFICES ASSUME Init PROVE NullTraced OBVIOUS
<1>1. file.text # Null BY MarksDiffer DEF Init
<1>2. read # Null BY MarksDiffer DEF Init
<1>3. \A s \in Saves : write[s].at = "unused" BY DEF Init, Unused
<1>4. \A o \in Outcomes : served[o] = 0 BY DEF Init, NoneServed
<1> QED BY <1>1, <1>2, <1>3, <1>4 DEF NullTraced

\* The parts of the trace.
TracedFile == file.text = Null => early
TracedPage == read = Null => early
TracedSaves == \A s \in Saves : write[s].at # "unused" /\ write[s].data = Null => early
TracedReads == \A o \in Outcomes : served[o] > 0 /\ o.what = Null => early

\* The places null can be in, one by one.
LEMMA TracedParts == NullTraced <=> TracedFile /\ TracedPage /\ TracedSaves /\ TracedReads
BY DEF NullTraced, TracedFile, TracedPage, TracedSaves, TracedReads

\* A change of the file does not change what the reads have brought.
LEMMA FileChangesTraces ==
  ASSUME Types, TracedReads, NEW s \in Saves, FileChanges(s), early' = early
  PROVE  TracedReads'
<1> SUFFICES ASSUME NEW o \in Outcomes, served'[o] > 0, o.what = Null PROVE early
  BY DEF TracedReads
<1>1. served'[o] = IF o.old THEN served[o] + served[[o EXCEPT !.old = FALSE]] ELSE 0
  BY DEF FileChanges
<1>2. /\ [o EXCEPT !.old = FALSE] \in Outcomes
      /\ [o EXCEPT !.old = FALSE].what = Null
      /\ served[o] \in Nat /\ served[[o EXCEPT !.old = FALSE]] \in Nat
  BY OutcomeTypes DEF Types, TypeOK
<1>3. served[o] > 0 \/ served[[o EXCEPT !.old = FALSE]] > 0 BY <1>1, <1>2
<1> QED BY <1>2, <1>3 DEF TracedReads

\* The saves stay what they are but for their place, and who hears of them.
LEMMA PlaceTraces ==
  ASSUME Types, TracedSaves, early' = early, NEW s \in Saves, write[s].at # "unused",
         \/ \E place : write' = [write EXCEPT ![s].at = place]
         \/ \E who : write' = [write EXCEPT ![s].hears = who]
  PROVE  TracedSaves'
<1>1. \A r \in Saves : /\ write'[r].data = write[r].data
                       /\ write'[r].at # "unused" => write[r].at # "unused"
  BY DEF Types, TypeOK, Writes
<1> QED BY <1>1 DEF TracedSaves

\* Redirecting the answers of saves leaves null where it was.
LEMMA RedirectTraces ==
  ASSUME Types, TracedSaves, early' = early, NEW who, Redirect(who)
  PROVE  TracedSaves'
<1>1. \A r \in Saves : write'[r].data = write[r].data /\ write'[r].at = write[r].at
  BY DEF Redirect, Types, TypeOK, Writes
<1> QED BY <1>1 DEF TracedSaves

\* A save of the tab.
LEMMA SendTraces ==
  ASSUME Types, TracedSaves, Send, early => early', Shown = Null => early'
  PROVE  TracedSaves'
<1>1. PICK s \in Saves : write' = [write EXCEPT ![s] =
          [from |-> view, data |-> Shown, at |-> "sent", hears |-> "page"]]
  BY DEF Send
<1>2. \A r \in Saves : r # s => write'[r] = write[r]
  BY <1>1 DEF Types, TypeOK
<1>3. write'[s].data = Shown BY <1>1 DEF Types, TypeOK
<1> QED BY <1>2, <1>3 DEF TracedSaves

\* Every step keeps null traced.
LEMMA NullNext == Types /\ NullTraced /\ [Next]_vars => NullTraced'
<1> SUFFICES ASSUME Types, NullTraced, [Next]_vars PROVE NullTraced' OBVIOUS
<1>a. TracedFile /\ TracedPage /\ TracedSaves /\ TracedReads BY TracedParts
<1>b. ASSUME TracedFile', TracedPage', TracedSaves', TracedReads' PROVE NullTraced'
  BY <1>b, TracedParts DEF NullTraced, TracedFile, TracedPage, TracedSaves, TracedReads
<1>c. ASSUME UNCHANGED file, early => early' PROVE TracedFile'
  BY <1>a, <1>c DEF TracedFile
<1>d. ASSUME UNCHANGED read, early => early' PROVE TracedPage'
  BY <1>a, <1>d DEF TracedPage
<1>e. ASSUME UNCHANGED write, early => early' PROVE TracedSaves'
  BY <1>a, <1>e DEF TracedSaves
<1>f. ASSUME UNCHANGED served, early => early' PROVE TracedReads'
  BY <1>a, <1>f DEF TracedReads
<1>1. ASSUME NEW v \in {"basic", "advanced"}, NEW who, Mount(v), Redirect(who)
      PROVE  NullTraced'
  <2>1. UNCHANGED <<file, early>> /\ read' = Nothing /\ served' = NoneServed
    BY <1>1 DEF Mount
  <2>2. TracedPage' BY <2>1, MarksDiffer DEF TracedPage
  <2>3. TracedReads' BY <2>1 DEF TracedReads, NoneServed
  <2>4. TracedSaves' BY <1>1, <1>a, <2>1, RedirectTraces
  <2> QED BY <1>b, <1>c, <2>1, <2>2, <2>3, <2>4
<1>2. ASSUME NEW v \in {"basic", "advanced"}, Navigate(v) PROVE NullTraced'
  BY <1>1, <1>2 DEF Navigate
<1>3. CASE Reload
  <2>1. PICK v \in {"basic", "advanced"} : Mount(v) /\ Redirect("nobody")
    BY <1>3 DEF Reload, Types, TypeOK
  <2> QED BY <1>1, <2>1
<1>4. ASSUME NEW c \in Configs, updateFlagData(c) PROVE NullTraced'
  BY <1>4, <1>b, <1>c, <1>d, <1>e, <1>f DEF updateFlagData, server, reads
<1>5. ASSUME NEW text, handleTextAreaChange(text) PROVE NullTraced'
  BY <1>5, <1>b, <1>c, <1>d, <1>e, <1>f DEF handleTextAreaChange, server, reads
<1>6. CASE save
  <2>1. Send /\ early' = (early \/ read = Nothing) BY <1>6 DEF save
  <2>2. edit # Null
    BY <1>6, MarksDiffer DEF save, Types, PageFits
  <2>3. Shown = Null => early'
    BY <2>1, <2>2, <1>a DEF Shown, TracedPage
  <2>4. TracedSaves' BY <1>a, <2>1, <2>3, SendTraces
  <2>5. UNCHANGED <<file, read, served>> BY <2>1 DEF Send, page, reads
  <2> QED BY <1>b, <1>c, <1>d, <1>f, <2>1, <2>4, <2>5
<1>7. CASE update
  <2>1. Send /\ early' = early /\ Shown # Null BY <1>7, MarksDiffer DEF update
  <2>2. TracedSaves' BY <1>a, <2>1, SendTraces
  <2>3. UNCHANGED <<file, read, served>> BY <2>1 DEF Send, page, reads
  <2> QED BY <1>b, <1>c, <1>d, <1>f, <2>1, <2>2, <2>3
<1>8. CASE SchemaComes \/ SchemaFails \/ ReadRejected \/ UNCHANGED vars
  <2>1. UNCHANGED <<file, early, write, read, served>>
    BY <1>8 DEF SchemaComes, SchemaFails, ReadRejected, vars, server, page, reads
  <2> QED BY <1>b, <1>c, <1>d, <1>e, <1>f, <2>1
<1>9. CASE ServeRead
  <2>1. UNCHANGED <<file, early, write, read>> BY <1>9 DEF ServeRead, server, page
  <2>2. Look = Null => early
    BY <1>a, MarksDiffer DEF Look, TracedFile
  <2>3. TracedReads'
    <3> SUFFICES ASSUME NEW o \in Outcomes, served'[o] > 0, o.what = Null PROVE early
      BY <2>1 DEF TracedReads
    <3>1. CASE o = [what |-> Look, old |-> FALSE] BY <3>1, <2>2
    <3>2. CASE o # [what |-> Look, old |-> FALSE]
      <4>1. served'[o] = served[o] BY <1>9, <3>2 DEF ServeRead, Types, TypeOK
      <4> QED BY <4>1, <1>a DEF TracedReads
    <3> QED BY <3>1, <3>2
  <2> QED BY <1>b, <1>c, <1>d, <1>e, <2>1, <2>3
<1>10. ASSUME NEW o \in Outcomes, readFile_Basic(o) \/ readFile_Advanced(o)
       PROVE  NullTraced'
  <2>1. Hear(o) BY <1>10 DEF readFile_Basic, readFile_Advanced
  <2>2. UNCHANGED <<file, early, write>> BY <2>1 DEF Hear, server
  <2>3. o.what = Null => early BY <1>a, <2>1 DEF Hear, TracedReads
  <2>4. read' = read \/ read' = o.what BY <1>10 DEF readFile_Basic, readFile_Advanced
  <2>5. TracedPage' BY <1>a, <2>2, <2>3, <2>4 DEF TracedPage
  <2>6. TracedReads'
    <3>1. \A q \in Outcomes : served[q] \in Nat BY DEF Types, TypeOK
    <3>2. \A q \in Outcomes : served'[q] > 0 => served[q] > 0
      BY <2>1, <3>1 DEF Hear, Types, TypeOK
    <3> QED BY <1>a, <2>2, <3>2 DEF TracedReads
  <2> QED BY <1>b, <1>c, <1>e, <2>2, <2>5, <2>6
<1>11. ASSUME NEW s \in Saves, OpenFile(s) PROVE NullTraced'
  <2>1. FileChanges(s) /\ early' = early /\ file'.text = Nothing /\ read' = read
    BY <1>11 DEF OpenFile, FileChanges, page
  <2>2. TracedFile' BY <2>1, MarksDiffer DEF TracedFile
  <2>3. TracedSaves' BY <1>11, <1>a, <2>1, PlaceTraces DEF OpenFile
  <2>4. TracedReads' BY <1>a, <2>1, FileChangesTraces
  <2> QED BY <1>b, <1>d, <2>1, <2>2, <2>3, <2>4
<1>12. ASSUME NEW s \in Saves, StoreText(s) PROVE NullTraced'
  <2>1. /\ FileChanges(s) /\ early' = early /\ file'.text = write[s].data
        /\ read' = read /\ write[s].at # "unused"
    BY <1>12 DEF StoreText, FileChanges, page, Open
  <2>2. TracedFile' BY <1>a, <2>1 DEF TracedFile, TracedSaves
  <2>3. TracedSaves' BY <1>12, <1>a, <2>1, PlaceTraces DEF StoreText
  <2>4. TracedReads' BY <1>a, <2>1, FileChangesTraces
  <2> QED BY <1>b, <1>d, <2>1, <2>2, <2>3, <2>4
<1>13. ASSUME NEW s \in Saves, WriteFails(s) PROVE NullTraced'
  <2>1. UNCHANGED <<file, early, read, served>> BY <1>13 DEF WriteFails, page, reads
  <2>2. TracedSaves' BY <1>13, <1>a, <2>1, PlaceTraces DEF WriteFails
  <2> QED BY <1>b, <1>c, <1>d, <1>f, <2>1, <2>2
<1>14. ASSUME NEW s \in Saves, Elsewhere(s) PROVE NullTraced'
  <2>1. PICK data \in Contents :
          /\ write' = [write EXCEPT ![s] = [Unused EXCEPT !.data = data, !.at = "sent"]]
          /\ early' = (early \/ data = Null)
    BY <1>14 DEF Elsewhere
  <2>2. write'[s].data = data BY <2>1 DEF Types, TypeOK, Unused
  <2>3. \A r \in Saves : r # s => write'[r] = write[r] BY <2>1 DEF Types, TypeOK
  <2>4. TracedSaves' BY <1>a, <2>1, <2>2, <2>3 DEF TracedSaves
  <2>5. UNCHANGED <<file, read, served>> BY <1>14 DEF Elsewhere, page, reads
  <2> QED BY <1>b, <1>c, <1>d, <1>f, <2>1, <2>4, <2>5
<1>15. ASSUME NEW s \in Saves, SaveAnswered(s) \/ SaveGivenUp(s) \/ SaveRejected(s)
       PROVE  NullTraced'
  <2>1. Ended(s) BY <1>15 DEF SaveAnswered, SaveGivenUp, SaveRejected
  <2>2. UNCHANGED <<file, early, read, served>> BY <2>1 DEF Ended
  <2>3. \A r \in Saves : write'[r].data = write[r].data /\ write'[r].at = write[r].at
    BY <2>1 DEF Ended, Types, TypeOK, Writes
  <2>4. TracedSaves' BY <1>a, <2>2, <2>3 DEF TracedSaves
  <2> QED BY <1>b, <1>c, <1>d, <1>f, <2>2, <2>4
<1> QED
  BY <1>2, <1>3, <1>4, <1>5, <1>6, <1>7, <1>8, <1>9, <1>10, <1>11, <1>12,
     <1>13, <1>14, <1>15
  DEF Next, User, TabHears, SaveProceeds, SaveDisturbed

\* All flags are replaced by null only when a page was saved before it had read
\* them: no order of reads, saves and failures gets null there otherwise.
THEOREM NullExplained == Spec => []NullIsAnEarlySave
<1>1. NullTraced => NullIsAnEarlySave BY DEF NullTraced, NullIsAnEarlySave
<1>2. Spec => [](Types /\ NullTraced)
  BY TypesInit, TypesNext, NullInit, NullNext, PTL DEF Spec
<1> QED BY <1>1, <1>2, PTL

-----------------------------------------------------------------------------
(* The file.                                                               *)

\* The file is whole at first.
LEMMA WholeInit == Init => WholeUnlessDamaged
<1> SUFFICES ASSUME Init PROVE Whole BY DEF WholeUnlessDamaged
<1>1. file.text # Nothing /\ file.size = Length[file.text] BY MarksDiffer DEF Init
<1>2. \A s \in Saves : ~ Open(s) BY DEF Init, Open, Unused
<1> QED BY <1>1, <1>2 DEF Whole

\* A step that leaves the file and the open writes alone.
LEMMA WholeKept ==
  ASSUME Whole, UNCHANGED file,
         \A s \in Saves : /\ Open(s)' <=> Open(s)
                          /\ Open(s) => write'[s].data = write[s].data
  PROVE  Whole'
BY DEF Whole, Open

\* Every step keeps the file whole unless it was damaged.
LEMMA WholeNext == Types /\ WholeUnlessDamaged /\ [Next]_vars => WholeUnlessDamaged'
<1> SUFFICES ASSUME Types, WholeUnlessDamaged, [Next]_vars, damage' = {} PROVE Whole'
  BY DEF WholeUnlessDamaged
<1>a. ASSUME UNCHANGED <<file, damage>>,
             \A s \in Saves : /\ write'[s].at = "open" <=> write[s].at = "open"
                              /\ Open(s) => write'[s].data = write[s].data
      PROVE  Whole'
  BY <1>a, WholeKept DEF WholeUnlessDamaged, Open
<1>b. \A s \in Saves : write[s].data \in Contents /\ Length[write[s].data] \in Nat
  BY LengthType DEF Types, TypeOK, Writes
<1>c. file.size \in Nat BY DEF Types, TypeOK
<1>1. ASSUME NEW v \in {"basic", "advanced"}, NEW who, Mount(v), Redirect(who)
      PROVE  Whole'
  <2>1. \A s \in Saves : write'[s].at = write[s].at /\ write'[s].data = write[s].data
    BY <1>1 DEF Redirect, Types, TypeOK, Writes
  <2> QED BY <1>1, <1>a, <2>1 DEF Mount
<1>2. ASSUME NEW v \in {"basic", "advanced"}, Navigate(v) PROVE Whole'
  BY <1>1, <1>2 DEF Navigate
<1>3. CASE Reload
  <2>1. PICK v \in {"basic", "advanced"} : Mount(v) /\ Redirect("nobody")
    BY <1>3 DEF Reload, Types, TypeOK
  <2> QED BY <1>1, <2>1
<1>4. CASE \/ \E c \in Configs : updateFlagData(c)
           \/ \E text \in Configs \cup {Junk} : handleTextAreaChange(text)
           \/ TabHears \/ SchemaFails \/ ReadRejected \/ UNCHANGED vars
  <2>1. UNCHANGED <<file, damage, write>>
    BY <1>4 DEF updateFlagData, handleTextAreaChange, TabHears, SchemaComes, ServeRead,
                readFile_Basic, readFile_Advanced, Hear, SchemaFails, ReadRejected,
                vars, server
  <2> QED BY <1>a, <2>1
\* A save that begins is not open yet.
<1>5. ASSUME NEW s \in Saves, NEW d, write[s] = Unused, write' = [write EXCEPT ![s] = d],
             d.at = "sent", UNCHANGED <<file, damage>>
      PROVE  Whole'
  <2>1. write'[s].at = "sent" /\ write[s].at = "unused"
    BY <1>5 DEF Types, TypeOK, Unused
  <2>2. \A r \in Saves : r # s => write'[r] = write[r] BY <1>5 DEF Types, TypeOK
  <2> QED BY <1>5, <1>a, <2>1, <2>2 DEF Open
<1>6. CASE save \/ update
  <2>1. Send BY <1>6 DEF save, update
  <2>2. PICK s \in Saves :
          /\ write[s] = Unused
          /\ write' = [write EXCEPT ![s] =
               [from |-> view, data |-> Shown, at |-> "sent", hears |-> "page"]]
    BY <2>1 DEF Send
  <2>3. UNCHANGED <<file, damage>> BY <2>1 DEF Send
  <2> QED BY <1>5, <2>2, <2>3
<1>7. ASSUME NEW s \in Saves, Elsewhere(s) PROVE Whole'
  <2>1. PICK data \in Contents :
          write' = [write EXCEPT ![s] = [Unused EXCEPT !.data = data, !.at = "sent"]]
    BY <1>7 DEF Elsewhere
  <2>2. [Unused EXCEPT !.data = data, !.at = "sent"].at = "sent" BY DEF Unused
  <2>3. write[s] = Unused /\ UNCHANGED <<file, damage>> BY <1>7 DEF Elsewhere
  <2> QED BY <1>5, <2>1, <2>2, <2>3
\* The file is emptied: the writes that are open must be of this one's length.
<1>8. ASSUME NEW s \in Saves, OpenFile(s) PROVE Whole'
  <2>1. /\ damage = {}
        /\ \A r \in Saves : Open(r) => Length[write[r].data] = Length[write[s].data]
    BY <1>8 DEF OpenFile
  <2>2. file'.text = Nothing /\ file'.size = 0 BY <1>8 DEF OpenFile
  <2>3. \A r \in Saves : write'[r].data = write[r].data
    BY <1>8 DEF OpenFile, Types, TypeOK, Writes
  <2>4. \A r \in Saves : write'[r].at = "open" <=> r = s \/ Open(r)
    BY <1>8 DEF OpenFile, Open, Types, TypeOK, Writes
  <2>5. \A r \in Saves : 0 <= Length[write[r].data] BY <1>b
  <2>6. \A r \in Saves :
          write'[r].at = "open" => Length[write'[r].data] = Length[write[s].data]
    BY <2>1, <2>3, <2>4
  <2> QED BY <2>2, <2>3, <2>4, <2>5, <2>6 DEF Whole, Open
\* The text is stored, over a file that is no longer than it.
<1>9. ASSUME NEW s \in Saves, StoreText(s) PROVE Whole'
  <2>1. Whole /\ Open(s) BY <1>9 DEF StoreText, WholeUnlessDamaged
  <2>2. file.size <= Length[write[s].data] BY <2>1 DEF Whole
  <2>3. file'.text = write[s].data /\ file'.size = Length[write[s].data]
    BY <1>9, <1>b, <1>c, <2>2 DEF StoreText
  <2>4. file'.text # Nothing BY <1>b, <2>3, MarksDiffer DEF Contents
  <2>5. \A r \in Saves : write'[r].data = write[r].data
    BY <1>9 DEF StoreText, Types, TypeOK, Writes
  <2>6. \A r \in Saves : write'[r].at = "open" => Open(r)
    BY <1>9 DEF StoreText, Open, Types, TypeOK, Writes
  <2>7. \A r \in Saves : Open(r) => Length[write[r].data] = Length[write[s].data]
    BY <2>1 DEF Whole
  <2>8. \A r \in Saves : Length[write[r].data] <= Length[write[r].data] BY <1>b
  <2> QED BY <2>3, <2>4, <2>5, <2>6, <2>7, <2>8 DEF Whole, Open
\* A write that was not open yet fails; one that was open would be damage.
<1>10. ASSUME NEW s \in Saves, WriteFails(s) PROVE Whole'
  <2>1. ~ Open(s) /\ UNCHANGED <<file, damage>> BY <1>10 DEF WriteFails
  <2>2. \A r \in Saves : /\ write'[r].at = "open" <=> write[r].at = "open"
                         /\ write'[r].data = write[r].data
    BY <1>10, <2>1 DEF WriteFails, Open, Types, TypeOK, Writes
  <2> QED BY <1>a, <2>1, <2>2
<1>11. ASSUME NEW s \in Saves, SaveAnswered(s) \/ SaveGivenUp(s) \/ SaveRejected(s)
       PROVE  Whole'
  <2>1. Ended(s) BY <1>11 DEF SaveAnswered, SaveGivenUp, SaveRejected
  <2>2. \A r \in Saves : write'[r].data = write[r].data /\ write'[r].at = write[r].at
    BY <2>1 DEF Ended, Types, TypeOK, Writes
  <2> QED BY <1>a, <2>1, <2>2 DEF Ended
<1> QED
  BY <1>2, <1>3, <1>4, <1>6, <1>7, <1>8, <1>9, <1>10, <1>11
  DEF Next, User, SaveProceeds, SaveDisturbed

\* Between two writes the file parses, unless a write died after it had emptied
\* the file or overlapped with a write of another length.
THEOREM DamageExplained == Spec => []BrokenIsDamaged
<1>1. Types /\ WholeUnlessDamaged => BrokenIsDamaged
  <2> SUFFICES ASSUME Types, WholeUnlessDamaged, Broken, damage = {}
               PROVE  \E s \in Saves : Open(s)
    BY DEF BrokenIsDamaged
  <2>1. file.size \in Nat BY DEF Types, TypeOK
  <2> QED BY <2>1 DEF WholeUnlessDamaged, Whole, Broken
<1>2. Spec => [](Types /\ WholeUnlessDamaged)
  BY TypesInit, TypesNext, WholeInit, WholeNext, PTL DEF Spec
<1> QED BY <1>1, <1>2, PTL

\* Whatever is wrong with the file, a write of these kinds did it.
THEOREM FileExplained == Spec => []FileIsExplained
<1>1. NullIsAnEarlySave /\ BrokenIsDamaged => FileIsExplained BY DEF FileIsExplained
<1> QED BY <1>1, NullExplained, DamageExplained, PTL

-----------------------------------------------------------------------------
(* The reads.                                                              *)

\* No page is out of date at first.
LEMMA ReadsInit == Init => FreshReads /\ Current
BY DEF Init, FreshReads, Current, Coming, NoneServed

\* Who looks at an unchanged file sees the same.
LEMMA LookKept == ASSUME UNCHANGED file PROVE Look' = Look
BY DEF Look, Broken

\* Fresh reads stay fresh while the file does not change and no other is served.
LEMMA FreshKept ==
  ASSUME FreshReads, UNCHANGED file, \A o \in Outcomes : served'[o] > 0 => served[o] > 0
  PROVE  FreshReads'
BY LookKept DEF FreshReads

\* A page stays as current as it was while neither it nor the file changes.
LEMMA CurrentKept ==
  ASSUME Current, UNCHANGED <<file, view, read, asked, served>>, behind => behind',
         \A s \in Saves : write[s].hears = "page" => write'[s].hears = "page"
  PROVE  Current'
BY LookKept DEF Current, Coming

\* A step of a write leaves alone who hears of it, and of what.
LEMMA PlaceKeeps ==
  ASSUME TypeOK, NEW s \in Saves, NEW place, write' = [write EXCEPT ![s].at = place]
  PROVE  /\ \A r \in Saves : write'[r].hears = write[r].hears /\ write'[r].data = write[r].data
         /\ \A r \in Saves : r # s => write'[r] = write[r]
         /\ write'[s].at = place
BY DEF TypeOK, Writes

\* A change of the file overtakes every read that was served; the page that does
\* not wait for it is behind.
LEMMA ReadsOvertaken ==
  ASSUME Types, NEW s \in Saves, FileChanges(s),
         \A r \in Saves : write'[r].hears = write[r].hears
  PROVE  FreshReads' /\ Current'
<1>1. \A o \in Outcomes : served'[o] > 0 => o.old BY DEF FileChanges
<1>2. FreshReads' BY <1>1 DEF FreshReads
<1>3. ~ behind' => write'[s].hears = "page" BY DEF FileChanges
<1> QED BY <1>2, <1>3 DEF Current, Coming

\* A new page asks for the file.
LEMMA ReadsMounted ==
  ASSUME NEW v, Mount(v) PROVE FreshReads' /\ Current'
BY DEF Mount, FreshReads, Current, Coming, NoneServed

\* An answer is heard.
LEMMA ReadsHeard ==
  ASSUME Types, FreshReads, Current, NEW o \in Outcomes,
         readFile_Basic(o) \/ readFile_Advanced(o)
  PROVE  FreshReads' /\ Current'
<1>1. Hear(o) BY DEF readFile_Basic, readFile_Advanced
<1>2. served \in [Outcomes -> Nat] BY DEF Types, TypeOK
<1>3. UNCHANGED file /\ \A q \in Outcomes : served'[q] > 0 => served[q] > 0
  BY <1>1, <1>2 DEF Hear, server
<1>4. FreshReads' BY <1>3, FreshKept
<1>5. view' # "crashed" => read' = o.what /\ behind' = o.old
  BY DEF readFile_Basic, readFile_Advanced
<1>6. ~ o.old => o.what = Look BY <1>1 DEF Hear, FreshReads
<1>7. Look' = Look BY <1>3, LookKept
<1> QED BY <1>4, <1>5, <1>6, <1>7 DEF Current

\* The call of a save ends: the page asks again, or is behind.
LEMMA ReadsAfterSave ==
  ASSUME Types, FreshReads, Current, NEW s \in Saves,
         SaveAnswered(s) \/ SaveGivenUp(s) \/ SaveRejected(s)
  PROVE  FreshReads' /\ Current'
<1>1. Ended(s) BY DEF SaveAnswered, SaveGivenUp, SaveRejected
<1>2. UNCHANGED <<file, view, read, served>> BY <1>1 DEF Ended
<1>3. FreshReads' BY <1>2, FreshKept
<1>4. \A r \in Saves : r # s => write'[r] = write[r] BY <1>1 DEF Ended, Types, TypeOK
<1>5. asked \in Nat BY DEF Types, TypeOK
<1>6. CASE behind' BY <1>3, <1>6 DEF Current
<1>7. CASE ReloadData
  <2>1. view' # "crashed" => asked' > 0 BY <1>2, <1>5, <1>7 DEF ReloadData
  <2> QED BY <1>3, <2>1 DEF Current, Coming
<1>8. CASE write[s].hears # "page" /\ UNCHANGED <<asked, behind>>
  <2>1. \A r \in Saves : write[r].hears = "page" => write'[r].hears = "page"
    BY <1>4, <1>8
  <2> QED BY <1>2, <1>3, <1>8, <2>1, CurrentKept
<1> QED BY <1>6, <1>7, <1>8 DEF SaveAnswered, SaveGivenUp, SaveRejected

\* Every step keeps reads fresh, and stale pages with a read or a save to come.
LEMMA ReadsNext ==
  ASSUME Types, FreshReads, Current, [Next]_vars PROVE FreshReads' /\ Current'
<1>1. TypeOK BY DEF Types
<1>2. ASSUME UNCHANGED <<file, view, read, reads, behind>>,
             \A s \in Saves : write[s].hears = "page" => write'[s].hears = "page"
      PROVE  FreshReads' /\ Current'
  BY <1>2, FreshKept, CurrentKept DEF reads
<1>3. CASE (\E v \in {"basic", "advanced"} : Navigate(v)) \/ Reload
  BY <1>3, ReadsMounted DEF Navigate, Reload
<1>4. ASSUME NEW s \in Saves, NEW new, write[s] = Unused, write' = [write EXCEPT ![s] = new],
             UNCHANGED <<file, view, read, reads, behind>>
      PROVE  FreshReads' /\ Current'
  <2>1. write[s].hears # "page" BY <1>4 DEF Unused
  <2>2. \A r \in Saves : write[r].hears = "page" => write'[r].hears = "page"
    BY <1>1, <1>4, <2>1 DEF TypeOK
  <2> QED BY <1>2, <1>4, <2>2
<1>5. CASE save \/ update
  <2>1. Send BY <1>5 DEF save, update
  <2>2. UNCHANGED <<file, view, read, reads, behind>> BY <2>1 DEF Send, page
  <2>3. \E s \in Saves : write[s] = Unused /\ \E new : write' = [write EXCEPT ![s] = new]
    BY <2>1 DEF Send
  <2> QED BY <1>4, <2>2, <2>3
<1>6. CASE \/ \E c \in Configs : updateFlagData(c)
           \/ \E text \in Configs \cup {Junk} : handleTextAreaChange(text)
           \/ SchemaComes \/ SchemaFails \/ UNCHANGED vars
  <2>1. UNCHANGED <<file, view, read, reads, behind, write>>
    BY <1>6 DEF updateFlagData, handleTextAreaChange, SchemaComes, SchemaFails, vars, server,
                page, history
  <2> QED BY <1>2, <2>1
<1>7. CASE ServeRead
  <2> DEFINE new == [what |-> Look, old |-> FALSE]
  <2>1. new \in Outcomes /\ new.what = Look BY <1>1, LookType DEF Outcomes
  <2>2. served \in [Outcomes -> Nat] BY <1>1 DEF TypeOK
  <2>3. /\ UNCHANGED <<file, view, read, behind>>
        /\ served' = [served EXCEPT ![new] = served[new] + 1]
    BY <1>7 DEF ServeRead, server, page, history
  <2>4. served'[new] > 0 BY <2>1, <2>2, <2>3
  <2>5. \A o \in Outcomes : o # new => served'[o] = served[o] BY <2>2, <2>3
  <2>6. Look' = Look BY <2>3, LookKept
  <2>7. FreshReads'
    <3> SUFFICES ASSUME NEW o \in Outcomes, served'[o] > 0, ~ o.old PROVE o.what = Look'
      BY DEF FreshReads
    <3>1. CASE o = new BY <2>1, <2>6, <3>1
    <3>2. CASE o # new BY <2>5, <2>6, <3>2 DEF FreshReads
    <3> QED BY <3>1, <3>2
  <2>8. Current' BY <2>1, <2>4 DEF Current, Coming
  <2> QED BY <2>7, <2>8
<1>8. ASSUME NEW o \in Outcomes, readFile_Basic(o) \/ readFile_Advanced(o)
      PROVE  FreshReads' /\ Current'
  BY <1>8, ReadsHeard
<1>9. CASE ReadRejected
  <2>1. UNCHANGED <<file, served>> /\ behind' BY <1>9 DEF ReadRejected, server
  <2> QED BY <2>1, FreshKept DEF Current
<1>10. ASSUME NEW s \in Saves, OpenFile(s) \/ StoreText(s) PROVE FreshReads' /\ Current'
  <2>1. FileChanges(s) BY <1>10 DEF OpenFile, StoreText
  <2>2. \A r \in Saves : write'[r].hears = write[r].hears
    BY <1>1, <1>10, PlaceKeeps DEF OpenFile, StoreText
  <2> QED BY <2>1, <2>2, ReadsOvertaken
<1>11. ASSUME NEW s \in Saves, WriteFails(s) PROVE FreshReads' /\ Current'
  <2>1. \A r \in Saves : write'[r].hears = write[r].hears
    BY <1>1, <1>11, PlaceKeeps DEF WriteFails
  <2> QED BY <1>2, <1>11, <2>1 DEF WriteFails, page, history
<1>12. ASSUME NEW s \in Saves, Elsewhere(s) PROVE FreshReads' /\ Current'
  <2>1. UNCHANGED <<file, view, read, reads, behind>>
    BY <1>12 DEF Elsewhere, page, history
  <2>2. write[s] = Unused /\ \E new : write' = [write EXCEPT ![s] = new]
    BY <1>12 DEF Elsewhere
  <2> QED BY <1>4, <2>1, <2>2
<1>13. ASSUME NEW s \in Saves, SaveAnswered(s) \/ SaveGivenUp(s) \/ SaveRejected(s)
       PROVE  FreshReads' /\ Current'
  BY <1>13, ReadsAfterSave
<1> QED BY <1>3, <1>5, <1>6, <1>7, <1>8, <1>9, <1>10, <1>11, <1>12, <1>13
  DEF Next, User, TabHears, SaveProceeds, SaveDisturbed

\* A tab that waits for nothing has read the file as it is, unless the change was
\* made elsewhere or the read that brought it was overtaken: for any saves that
\* overlap, any damage and any number of failures (BasicView.tsx: reloadData).
THEOREM QuietIsCurrent == Spec => []QuietPageIsCurrent
<1>1. Current => QuietPageIsCurrent
  <2> SUFFICES ASSUME Current, view # "crashed", Quiet, ~ behind PROVE read = Look
    BY DEF QuietPageIsCurrent
  <2>1. ~ Coming
    BY DEF Quiet, NoneServed, Coming, Waits
  <2> QED BY <2>1 DEF Current
<1>2. Spec => [](Types /\ FreshReads /\ Current)
  BY TypesInit, TypesNext, ReadsInit, ReadsNext, PTL DEF Spec
<1> QED BY <1>1, <1>2, PTL

-----------------------------------------------------------------------------
(* The hint.                                                               *)

\* No hint is shown at first.
LEMMA HintInit == Init => OwnSaves /\ HintTold
BY DEF Init, OwnSaves, HintTold, Unused

\* A page that waits for none of its saves and shows its text, and a step that
\* changes neither.
LEMMA HintKept ==
  ASSUME TypeOK, HintTold, UNCHANGED <<file, view, read, edit, synced, reads, write>>,
         unsure => unsure'
  PROVE  HintTold'
<1>1. Quiet' = Quiet /\ Waits' = Waits BY DEF Quiet, Waits, reads
<1>2. \A s \in Saves : SavesText(s) => SavesText(s)' BY DEF SavesText
<1> QED BY <1>1, <1>2, LookKept DEF HintTold

\* A save of another tab begins, or fails before it has changed the file.
LEMMA HintUnheard ==
  ASSUME Types, HintTold, NEW s \in Saves, UNCHANGED <<file, view, read, edit, synced, reads>>,
         unsure => unsure', \A r \in Saves : r # s => write'[r] = write[r],
         write'[s].hears = write[s].hears,
         write[s].hears # "nobody" =>
           write'[s].data = write[s].data /\ write'[s].at \notin {"open", "stored"}
  PROVE  HintTold'
<1>1. \A r \in Saves : write'[r].hears = write[r].hears OBVIOUS
<1>2. Quiet' = Quiet /\ Waits' = Waits BY <1>1 DEF Quiet, Waits, reads
<1>3. \A r \in Saves : SavesText(r) => SavesText(r)' BY <1>1 DEF SavesText
<1> QED BY <1>2, <1>3, LookKept DEF HintTold

\* The file is changed: by another save, and the hint is unsure, or by the tab's.
LEMMA HintChanges ==
  ASSUME Types, HintTold, NEW s \in Saves, OpenFile(s) \/ StoreText(s)
  PROVE  HintTold'
<1>1. /\ FileChanges(s) /\ UNCHANGED <<view, read, edit, synced>>
  BY DEF OpenFile, StoreText, FileChanges, page
<1>2. /\ \A r \in Saves : write'[r].hears = write[r].hears /\ write'[r].data = write[r].data
      /\ \A r \in Saves : r # s => write'[r] = write[r]
  BY PlaceKeeps DEF Types, OpenFile, StoreText
<1>3. CASE write[s].hears # "page" BY <1>1, <1>3 DEF FileChanges, HintTold
<1>4. CASE write[s].hears = "page"
  <2>1. Waits /\ ~ Quiet BY <1>4 DEF Waits, Quiet
  <2>2. ASSUME NEW r \in Saves, SavesText(r) PROVE SavesText(r)'
    <3>1. r = s BY <1>4, <2>2 DEF SavesText
    <3>2. CASE OpenFile(s)
      <4>1. write'[s].at = "open" /\ file'.text = Nothing /\ file'.size = 0
        BY <3>2, PlaceKeeps DEF Types, OpenFile
      <4> QED BY <1>1, <1>2, <2>2, <3>1, <4>1 DEF SavesText
    <3>3. CASE StoreText(s)
      <4>1. write'[s].at = "stored" BY <3>3, PlaceKeeps DEF Types, StoreText
      <4>2. file.size = 0 BY <2>2, <3>1, <3>3 DEF SavesText, StoreText, Open
      <4>3. Length[write[s].data] \in Nat
        BY LengthType DEF Types, TypeOK, Writes
      <4>4. file'.text = write[s].data /\ file'.size = Length[write[s].data]
        BY <3>3, <4>2, <4>3 DEF StoreText
      <4> QED BY <1>1, <1>2, <2>2, <3>1, <4>1, <4>4 DEF SavesText
    <3> QED BY <3>2, <3>3
  <2>3. unsure' = unsure BY <1>1, <1>4 DEF FileChanges, Types, TypeOK
  <2> QED BY <1>1, <2>1, <2>2, <2>3 DEF HintTold
<1> QED BY <1>3, <1>4

\* The text is compared with what was read.
LEMMA HintTyped ==
  ASSUME Types, NEW text \in Configs \cup {Junk}, handleTextAreaChange(text)
  PROVE  HintTold'
<1>1. /\ edit' = text /\ read' = read /\ synced' = (text = read) /\ unsure' = ~ Quiet
      /\ UNCHANGED <<write, asked, served>>
  BY DEF handleTextAreaChange, server, reads
<1>2. text # Nothing BY MarksDiffer
<1>3. Quiet' = Quiet BY <1>1 DEF Quiet, Waits
<1> QED BY <1>1, <1>2, <1>3 DEF HintTold

\* The text is sent.
LEMMA HintSent ==
  ASSUME Types, HintTold, update PROVE HintTold'
<1>1. CASE Waits BY <1>1 DEF update, HintTold
<1>2. CASE ~ Waits
  <2>1. PICK s \in Saves : write' = [write EXCEPT ![s] =
          [from |-> view, data |-> Shown, at |-> "sent", hears |-> "page"]]
    BY DEF update, Send
  <2>2. /\ write'[s].hears = "page" /\ write'[s].data = Shown /\ write'[s].at = "sent"
        /\ \A r \in Saves : r # s => write'[r].hears = "nobody"
    BY <1>2, <2>1 DEF Types, TypeOK, Waits
  <2>3. Shown \in Configs /\ edit' = edit BY DEF update, Send, page
  <2>4. edit' \in {Nothing, Shown} BY <2>3 DEF Shown
  <2>5. SavesText(s)' BY <2>2, <2>3, <2>4 DEF SavesText
  <2> QED BY <2>5 DEF HintTold
<1> QED BY <1>1, <1>2

\* An answer is heard: a page that waits for nothing hears none.
LEMMA HintHeard ==
  ASSUME Types, HintTold, NEW o \in Outcomes, readFile_Advanced(o) PROVE HintTold'
<1>1. /\ served[o] > 0 /\ UNCHANGED <<file, write, view, synced, unsure>>
      /\ edit' \in {Nothing, edit}
  BY DEF readFile_Advanced, Hear, server
<1>2. ~ Quiet BY <1>1 DEF Quiet, NoneServed
<1>3. Waits' = Waits BY <1>1 DEF Waits
<1>4. \A s \in Saves : SavesText(s) => SavesText(s)' BY <1>1 DEF SavesText
<1> QED BY <1>1, <1>2, <1>3, <1>4, LookKept DEF HintTold

\* The answer to a save is heard.
LEMMA HintAnswered ==
  ASSUME Types, HintTold, NEW s \in Saves, SaveAnswered(s) PROVE HintTold'
<1>1. /\ UNCHANGED <<file, view, read, edit, served>> /\ write[s].at \in {"stored", "failed"}
      /\ write[s].hears # "nobody"
      /\ write' = [write EXCEPT ![s].hears = "nobody"]
  BY DEF SaveAnswered, Ended
<1>2. /\ \A r \in Saves : r # s => write'[r] = write[r]
      /\ write'[s].hears = "nobody"
  BY <1>1 DEF Types, TypeOK, Writes
<1>3. ~ Quiet /\ Waits BY <1>1 DEF Quiet, Waits
<1>4. CASE write[s].hears # "page"
  <2>1. UNCHANGED <<synced, unsure>> BY <1>4 DEF SaveAnswered
  <2>2. \A r \in Saves : SavesText(r) => r # s BY <1>4 DEF SavesText
  <2>3. \A r \in Saves : SavesText(r) => SavesText(r)'
    BY <1>1, <1>2, <2>2 DEF SavesText
  <2> QED BY <1>1, <1>3, <2>1, <2>3 DEF HintTold
<1>5. CASE write[s].hears = "page"
  <2>1. synced' = TRUE /\ unsure' = (unsure \/ write[s].at = "failed")
    BY <1>5 DEF SaveAnswered
  <2>2. SUFFICES ASSUME view = "advanced", ~ unsure', edit # Nothing
                 PROVE  ~ Waits' /\ edit \in Configs /\ Look' = edit
    BY <1>1, <2>1 DEF HintTold
  <2>3. ~ unsure /\ write[s].at = "stored" BY <1>1, <2>1, <2>2
  <2>4. SavesText(s)
    BY <1>3, <1>5, <2>2, <2>3 DEF HintTold, SavesText
  <2>5. ~ Waits' BY <1>2, <2>4 DEF Waits, SavesText
  <2>6. edit \in Configs /\ edit = write[s].data BY <2>2, <2>4 DEF SavesText
  <2>7. file.text = edit /\ file.size = Length[edit] BY <2>3, <2>4, <2>6 DEF SavesText
  <2>8. Length[edit] \in Nat BY <2>6, LengthType DEF Contents
  <2>9. Look = edit BY <2>6, <2>7, <2>8, MarksDiffer DEF Look, Broken
  <2> QED BY <1>1, <2>5, <2>6, <2>9, LookKept
<1> QED BY <1>4, <1>5

\* Every step keeps the account of the own saves.
LEMMA OwnSavesNext == ASSUME Types, OwnSaves, [Next]_vars PROVE OwnSaves'
<1>1. TypeOK BY DEF Types
<1>2. ASSUME NEW who \in {"nobody", "layout"}, Redirect(who) PROVE OwnSaves'
  <2>1. \A s \in Saves : write'[s].hears # "page"
    BY <1>1, <1>2 DEF Redirect, TypeOK, Writes
  <2> QED BY <2>1 DEF OwnSaves
<1>3. CASE (\E v \in {"basic", "advanced"} : Navigate(v)) \/ Reload
  BY <1>2, <1>3 DEF Navigate, Reload
<1>4. ASSUME view' = "advanced" => view = "advanced",
             \A s \in Saves : write'[s].hears = "page" =>
               write[s].hears = "page" /\ write'[s].from = write[s].from
      PROVE  OwnSaves'
  BY <1>4 DEF OwnSaves
<1>5. CASE save \/ update
  <2>1. PICK s \in Saves : write' = [write EXCEPT ![s] =
          [from |-> view, data |-> Shown, at |-> "sent", hears |-> "page"]]
    BY <1>5 DEF save, update, Send
  <2>2. write'[s].from = view /\ \A r \in Saves : r # s => write'[r] = write[r]
    BY <1>1, <2>1 DEF TypeOK
  <2>3. view' = view BY <1>5 DEF save, update, Send, page
  <2> QED BY <2>2, <2>3 DEF OwnSaves
<1>6. CASE \/ \E c \in Configs : updateFlagData(c)
           \/ \E text \in Configs \cup {Junk} : handleTextAreaChange(text)
           \/ TabHears \/ SchemaFails \/ ReadRejected \/ UNCHANGED vars
  <2>1. write' = write /\ (view' = "advanced" => view = "advanced")
    BY <1>6 DEF updateFlagData, handleTextAreaChange, TabHears, SchemaComes, ServeRead, Hear,
       readFile_Basic, readFile_Advanced, SchemaFails, ReadRejected, vars, server, page
  <2> QED BY <1>4, <2>1
<1>7. ASSUME NEW s \in Saves, OpenFile(s) \/ StoreText(s) \/ WriteFails(s) PROVE OwnSaves'
  <2>1. view' = view BY <1>7 DEF OpenFile, StoreText, WriteFails, FileChanges, page
  <2>2. \A r \in Saves : write'[r].hears = write[r].hears /\ write'[r].from = write[r].from
    BY <1>1, <1>7 DEF OpenFile, StoreText, WriteFails, TypeOK, Writes
  <2> QED BY <1>4, <2>1, <2>2
<1>8. ASSUME NEW s \in Saves, Elsewhere(s) PROVE OwnSaves'
  <2>1. PICK data \in Contents :
          write' = [write EXCEPT ![s] = [Unused EXCEPT !.data = data, !.at = "sent"]]
    BY <1>8 DEF Elsewhere
  <2>2. write'[s].hears = "nobody" /\ \A r \in Saves : r # s => write'[r] = write[r]
    BY <1>1, <2>1 DEF TypeOK, Unused
  <2> QED BY <1>4, <1>8, <2>2 DEF Elsewhere, page
<1>9. ASSUME NEW s \in Saves, SaveAnswered(s) \/ SaveGivenUp(s) \/ SaveRejected(s)
      PROVE  OwnSaves'
  <2>1. Ended(s) BY <1>9 DEF SaveAnswered, SaveGivenUp, SaveRejected
  <2>2. write'[s].hears = "nobody" /\ \A r \in Saves : r # s => write'[r] = write[r]
    BY <1>1, <2>1 DEF Ended, TypeOK, Writes
  <2> QED BY <1>4, <2>1, <2>2 DEF Ended
<1> QED BY <1>3, <1>5, <1>6, <1>7, <1>8, <1>9 DEF Next, User, SaveProceeds, SaveDisturbed

\* Every step keeps the hint explained.
LEMMA HintNext == ASSUME Types, OwnSaves, HintTold, [Next]_vars PROVE HintTold'
<1>1. TypeOK BY DEF Types
<1>2. CASE (\E v \in {"basic", "advanced"} : Navigate(v)) \/ Reload
  BY <1>2 DEF Navigate, Reload, Mount, HintTold
<1>3. CASE save \/ (\E c \in Configs : updateFlagData(c))
           \/ \E o \in Outcomes : readFile_Basic(o)
  <2>1. view' # "advanced"
    BY <1>3 DEF save, Send, page, updateFlagData, readFile_Basic
  <2> QED BY <2>1 DEF HintTold
<1>4. ASSUME NEW text \in Configs \cup {Junk}, handleTextAreaChange(text) PROVE HintTold'
  BY <1>4, HintTyped
<1>5. CASE update BY <1>5, HintSent
<1>6. CASE SchemaComes \/ SchemaFails \/ UNCHANGED vars
  <2>1. UNCHANGED <<file, view, read, edit, synced, reads, write, unsure>>
    BY <1>6 DEF SchemaComes, SchemaFails, vars, server, page, history
  <2> QED BY <1>1, <2>1, HintKept
<1>7. CASE ServeRead \/ ReadRejected
  <2>1. /\ UNCHANGED <<file, view, read, edit, synced, write, unsure>> /\ asked > 0
    BY <1>7 DEF ServeRead, ReadRejected, server, page, history
  <2>2. ~ Quiet /\ Waits' = Waits BY <1>1, <2>1 DEF Quiet, Waits, TypeOK
  <2>3. \A s \in Saves : SavesText(s) => SavesText(s)' BY <2>1 DEF SavesText
  <2> QED BY <2>1, <2>2, <2>3, LookKept DEF HintTold
<1>8. ASSUME NEW o \in Outcomes, readFile_Advanced(o) PROVE HintTold'
  BY <1>8, HintHeard
<1>9. ASSUME NEW s \in Saves, OpenFile(s) \/ StoreText(s) PROVE HintTold'
  BY <1>9, HintChanges
<1>10. ASSUME NEW s \in Saves, WriteFails(s) PROVE HintTold'
  <2>1. UNCHANGED <<file, view, read, edit, synced, reads, unsure>>
    BY <1>10 DEF WriteFails, page, history
  <2>2. /\ \A r \in Saves : write'[r].hears = write[r].hears /\ write'[r].data = write[r].data
        /\ \A r \in Saves : r # s => write'[r] = write[r]
        /\ write'[s].at = "failed"
    BY <1>1, <1>10, PlaceKeeps DEF WriteFails
  <2> QED BY <2>1, <2>2, HintUnheard
<1>11. ASSUME NEW s \in Saves, Elsewhere(s) PROVE HintTold'
  <2>1. UNCHANGED <<file, view, read, edit, synced, reads, unsure>>
    BY <1>11 DEF Elsewhere, page, history
  <2>2. PICK data \in Contents :
          write' = [write EXCEPT ![s] = [Unused EXCEPT !.data = data, !.at = "sent"]]
    BY <1>11 DEF Elsewhere
  <2>3. write[s].hears = "nobody" BY <1>11 DEF Elsewhere, Unused
  <2>4. write'[s].hears = "nobody" /\ \A r \in Saves : r # s => write'[r] = write[r]
    BY <1>1, <2>2 DEF TypeOK, Unused
  <2> QED BY <2>1, <2>3, <2>4, HintUnheard
<1>12. ASSUME NEW s \in Saves, SaveAnswered(s) PROVE HintTold'
  BY <1>12, HintAnswered
\* The call is not confirmed: the hint is unsure, or the view is the basic one.
<1>13. ASSUME NEW s \in Saves, SaveGivenUp(s) \/ SaveRejected(s) PROVE HintTold'
  <2>1. view' = view BY <1>13 DEF SaveGivenUp, SaveRejected, Ended
  <2> QED BY <1>13, <2>1 DEF SaveGivenUp, SaveRejected, OwnSaves, HintTold
<1> QED BY <1>2, <1>3, <1>4, <1>5, <1>6, <1>7, <1>8, <1>9, <1>10, <1>11, <1>12, <1>13
  DEF Next, User, TabHears, SaveProceeds, SaveDisturbed

\* "Unsaved changes" is shown of a text that is not the file as it was read, for any
\* order of edits, saves and reads: the hint is wrong only after the file was changed
\* elsewhere, a save was not confirmed, or a call was under way at the edit
\* (AdvancedView.tsx: flagDataIsSynced).
THEOREM HintTells == Spec => []HintIsHonest
<1>1. Current /\ HintTold => HintIsHonest
  <2> SUFFICES ASSUME Current, HintTold, view = "advanced", Quiet, ~ behind, ~ unsure
               PROVE  synced = (edit = Nothing \/ edit = read)
    BY DEF HintIsHonest
  <2>1. ~ Coming /\ ~ Waits BY DEF Quiet, NoneServed, Coming, Waits
  <2>2. read = Look BY <2>1 DEF Current
  <2>3. \A s \in Saves : ~ SavesText(s) BY <2>1 DEF Waits, SavesText
  <2> QED BY <2>1, <2>2, <2>3 DEF HintTold
<1>2. Spec => [](Types /\ FreshReads /\ Current /\ OwnSaves /\ HintTold)
  BY TypesInit, TypesNext, ReadsInit, ReadsNext, HintInit, OwnSavesNext, HintNext, PTL DEF Spec
<1> QED BY <1>1, <1>2, PTL
=============================================================================
