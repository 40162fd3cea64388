--------------------------- MODULE Recommendation ---------------------------
(***************************************************************************)
(* The recommendation service: what it recommends beside some products,    *)
(* and the list of ids that its threads share while the flag               *)
(* recommendationCacheFailure is on.                                       *)
(*                                                                         *)
(* A list is told by its length: every list that is not empty begins with  *)
(* the whole catalogue.  CPython may switch threads at a call, so the      *)
(* first assignment to the list is one step with what the second reads.    *)
(***************************************************************************)
EXTENDS Naturals, FiniteSets, FiniteSetsExt

CONSTANTS Requests,      \* those being served, each by a thread
          Products,      \* the catalogue
          max_responses,
          MaxMisses      \* bound: misses of the cache

ASSUME ProductsAssumption == IsFiniteSet(Products) /\ Products # {}
ASSUME MissesAssumption == max_responses \in Nat /\ MaxMisses \in Nat

VARIABLES stage,      \* where each request is
          asked,      \* the products it names
          response,   \* what it is answered
          held,       \* length of the list it read to make it grow
          cached_ids, \* length of the list
          first_run,
          misses,     \* counts the misses
          served,     \* history: a miss has been answered
          after       \* history: whether one had when the request came

listVars ==
  <<stage, asked, response, held, cached_ids, first_run, misses, served, after>>

Catalogue == Cardinality(Products)

ListInit ==
  /\ stage = [r \in Requests |-> "idle"]
  /\ asked = [r \in Requests |-> {}] /\ response = [r \in Requests |-> {}]
  /\ held = [r \in Requests |-> 0]
  /\ cached_ids = 0 /\ first_run = TRUE
  /\ misses = 0 /\ served = FALSE /\ after = [r \in Requests |-> FALSE]

\* The ids are joined without a separator and split at commas.  A text with commas,
\* which arrives letter by letter, is understood; of a list, only a single id is.
Joined(ids, form) == IF form = "text" \/ Cardinality(ids) = 1 THEN ids ELSE {}

\* Mutant: each id is a parameter of its own.
Sent_List == "list"

\* URLSearchParams, in the page, writes an array as one text with commas.
Sent == "text"

AskRecommendations(r, ids) ==
  /\ stage[r] = "idle"
  /\ stage' = [stage EXCEPT ![r] = "asked"]
  /\ asked' = [asked EXCEPT ![r] = ids]
  /\ after' = [after EXCEPT ![r] = served]
  /\ UNCHANGED <<response, held, cached_ids, first_run, misses, served>>

\* The answers made of a list of that length.
Sample(length, excluded) ==
  LET filtered == (IF length = 0 THEN {} ELSE Products) \ excluded
      num_return == IF Cardinality(filtered) < max_responses THEN Cardinality(filtered)
                    ELSE max_responses
  IN kSubset(num_return, filtered)

Answer(r, length) ==
  /\ \E ids \in Sample(length, Joined(asked[r], Sent)) :
       response' = [response EXCEPT ![r] = ids]
  /\ stage' = [stage EXCEPT ![r] = "answered"]

\* The flag is off.
WithoutCache(r) ==
  /\ stage[r] = "asked"
  /\ stage' = [stage EXCEPT ![r] = "list"]
  /\ UNCHANGED <<asked, response, held, cached_ids, first_run, misses, served, after>>

\* The flag is on.  Of two requests one misses, and the first one does.
Miss(r) ==
  /\ stage[r] = "asked" /\ misses < MaxMisses
  /\ first_run' = FALSE
  /\ misses' = misses + 1
  /\ stage' = [stage EXCEPT ![r] = "miss"]
  /\ UNCHANGED <<asked, response, held, cached_ids, served, after>>

Hit(r) ==
  /\ stage[r] = "asked" /\ ~first_run
  /\ stage' = [stage EXCEPT ![r] = "hit"]
  /\ UNCHANGED <<asked, response, held, cached_ids, first_run, misses, served, after>>

\* ListProducts fails, and so does the request.
ListFails(r) ==
  /\ stage[r] \in {"list", "miss"}
  /\ stage' = [stage EXCEPT ![r] = "failed"]
  /\ UNCHANGED <<asked, response, held, cached_ids, first_run, misses, served, after>>

ListProducts(r) ==
  /\ stage[r] = "list"
  /\ Answer(r, Catalogue)
  /\ UNCHANGED <<asked, held, cached_ids, first_run, misses, served, after>>

\* cached_ids = cached_ids + response_ids, and the next statement reads it.
Extend(r) ==
  /\ stage[r] = "miss"
  /\ cached_ids' = cached_ids + Catalogue
  /\ held' = [held EXCEPT ![r] = cached_ids']
  /\ stage' = [stage EXCEPT ![r] = "grow"]
  /\ UNCHANGED <<asked, response, first_run, misses, served, after>>

\* The length of cached_ids + cached_ids[:len(cached_ids) // 4].
Quartered(length) == length + length \div 4

\* Mutant: the list is read again for the second assignment.
Grow_Rereads(r) ==
  /\ stage[r] = "grow"
  /\ cached_ids' = Quartered(cached_ids)
  /\ held' = [held EXCEPT ![r] = 0]
  /\ Answer(r, cached_ids')
  /\ served' = TRUE
  /\ UNCHANGED <<asked, first_run, misses, after>>

\* What others have assigned since the list was read is overwritten.
Grow(r) ==
  /\ stage[r] = "grow"
  /\ cached_ids' = Quartered(held[r])
  /\ held' = [held EXCEPT ![r] = 0]
  /\ Answer(r, cached_ids')
  /\ served' = TRUE
  /\ UNCHANGED <<asked, first_run, misses, after>>

AnswerHit(r) ==
  /\ stage[r] = "hit"
  /\ Answer(r, cached_ids)
  /\ UNCHANGED <<asked, held, cached_ids, first_run, misses, served, after>>

Recommend(r) ==
  \/ WithoutCache(r) \/ Miss(r) \/ Hit(r)
  \/ ListFails(r) \/ ListProducts(r) \/ Extend(r) \/ Grow(r) \/ AnswerHit(r)

-----------------------------------------------------------------------------
(* Properties.                                                             *)

\* What is recommended are as many other products as there are, up to five; never
\* one the page is shown beside.  It may be fewer, though, for a shopper who asked
\* before the service had once answered from its list: until then another request
\* may find the list empty.
OffersOthers ==
  \A r \in Requests :
    stage[r] = "answered" =>
      LET others == Products \ asked[r]
      IN /\ response[r] \subseteq others
         /\ Cardinality(response[r]) <= max_responses
         /\ after[r] => response[r] = others \/ Cardinality(response[r]) = max_responses

\* The length of the list after some misses, one after the other.
Sequentially[k \in Nat] ==
  IF k = 0 THEN 0 ELSE Quartered(Sequentially[k - 1] + Catalogue)

\* However misses overlap or fail, they make the list no longer than as many would
\* one after the other: what a miss takes a quarter of is the list it assigned itself,
\* so an overlap loses additions or cuts the list, and never compounds them.
ListGrowsSlowly == cached_ids <= Sequentially[misses]
=============================================================================
