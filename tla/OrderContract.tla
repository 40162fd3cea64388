--------------------------- MODULE OrderContract ---------------------------
(***************************************************************************)
(* What PlaceOrder promises about money and goods, whatever fails on the   *)
(* way: the abstract specification module Checkout implements.             *)
(*                                                                         *)
(* Each order is paid at most once and sent at most once, after it was     *)
(* paid and with the goods it was paid for; and each answer says what has  *)
(* happened and what can no longer happen.  There is no way back: nothing  *)
(* refunds a charge or recalls a parcel.                                   *)
(***************************************************************************)
CONSTANTS Requests,   \* the orders
          Units       \* the goods

VARIABLES paid,       \* what each order was charged for, per transaction
          sent,       \* what each order shipped, per parcel
          answer      \* what PlaceOrder answered

vars == <<paid, sent, answer>>

Init ==
  /\ paid = [r \in Requests |-> << >>]
  /\ sent = [r \in Requests |-> << >>]
  /\ answer = [r \in Requests |-> "none"]

\* The card is charged, perhaps after the order was given up - but not after an
\* answer that says the charge is over.
Pay(r) ==
  /\ paid[r] = << >>
  /\ answer[r] \in {"none", "Internal", "lost"}
  /\ \E goods \in SUBSET Units : paid' = [paid EXCEPT ![r] = <<goods>>]
  /\ UNCHANGED <<sent, answer>>

\* What was paid for is shipped, unless the order was refused before shipping.
Send(r) ==
  /\ sent[r] = << >>
  /\ paid[r] # << >>
  /\ answer[r] \in {"none", "Unavailable", "lost"}
  /\ sent' = [sent EXCEPT ![r] = paid[r]]
  /\ UNCHANGED <<paid, answer>>

Answer(r) ==
  /\ answer[r] = "none"
  /\ \/ answer' = [answer EXCEPT ![r] = "ok"] /\ sent[r] # << >>
     \/ answer' = [answer EXCEPT ![r] = "Internal"] /\ sent[r] = << >>
     \/ answer' = [answer EXCEPT ![r] = "Unavailable"] /\ paid[r] # << >>
  /\ UNCHANGED <<paid, sent>>

\* The service dies with some orders unanswered.
Lose(orders) ==
  /\ \A r \in orders : answer[r] = "none"
  /\ answer' = [r \in Requests |-> IF r \in orders THEN "lost" ELSE answer[r]]
  /\ UNCHANGED <<paid, sent>>

Next ==
  \/ \E r \in Requests : Pay(r) \/ Send(r) \/ Answer(r)
  \/ \E orders \in SUBSET Requests : Lose(orders)

Spec == Init /\ [][Next]_vars
=============================================================================
