---------------------------- MODULE CartContract ----------------------------
(***************************************************************************)
(* What the cart service promises of its carts, as far as checkout needs   *)
(* it.  A unit stands for what one AddItem call adds.  A call stores the   *)
(* cart it has read with its unit in it, so what others did in between is  *)
(* undone; but no unit gets into a cart that was not read or added, none   *)
(* is added twice, and no user's call touches another user's cart.         *)
(***************************************************************************)
CONSTANTS Users, Units

VARIABLES cart,    \* the units each user's cart holds
          added,   \* the units ever stored
          adding   \* the calls that have read a cart: their unit and what they saw

vars == <<cart, added, adding>>

Init ==
  /\ cart = [u \in Users |-> {}]
  /\ added = {}
  /\ adding = {}

Read(u, x) ==
  /\ x \notin added \cup {a.unit : a \in adding}
  /\ adding' = adding \cup {[user |-> u, unit |-> x, seen |-> cart[u]]}
  /\ UNCHANGED <<cart, added>>

Store(a) ==
  /\ adding' = adding \ {a}
  /\ cart' = [cart EXCEPT ![a.user] = a.seen \cup {a.unit}]
  /\ added' = added \cup {a.unit}

\* The call fails before it has stored anything.
Drop(a) == adding' = adding \ {a} /\ UNCHANGED <<cart, added>>

\* Carts are emptied, expire, or are lost with the server they are on.
Empty(users) ==
  /\ cart' = [u \in Users |-> IF u \in users THEN {} ELSE cart[u]]
  /\ UNCHANGED <<added, adding>>

Next ==
  \/ \E u \in Users, x \in Units : Read(u, x)
  \/ \E a \in adding : Store(a) \/ Drop(a)
  \/ \E users \in SUBSET Users : Empty(users)

Spec == Init /\ [][Next]_vars
=============================================================================
