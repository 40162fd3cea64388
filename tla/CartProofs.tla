----------------------------- MODULE CartProofs -----------------------------
(***************************************************************************)
(* Proofs about the cart service: CartStore, for any users, products,      *)
(* calls and quantities, and CartConnection, for any threads and any       *)
(* number of faults.                                                       *)
(***************************************************************************)
EXTENDS CartStore, CartConnection, FiniteSetTheorems, TLAPS

-----------------------------------------------------------------------------
(* CartStore: its arithmetic, and carts that are sound.                    *)

\* What is wrapped is an int32.
LEMMA WrapType == ASSUME NEW n \in Int PROVE Wrap(n) \in Int32
<1>1. (n + IntHalf) % (2 * IntHalf) \in 0..(2 * IntHalf - 1)
  BY IntHalfAssumption
<1> QED BY <1>1, IntHalfAssumption DEF Wrap, Int32

\* A cart whose products are on one line each.
Sound(cart) ==
  /\ cart \in Carts \cup {None}
  /\ \A p \in Products : Single(LinesOf(cart, p))

\* Adding to a product's line leaves a sound cart sound.
LEMMA AddLineSound ==
  ASSUME NEW cart \in Carts, Sound(cart), NEW p \in Products, NEW n \in Int32
  PROVE  /\ AddLine(cart, p, n) \in SUBSET Lines
         /\ \A q \in Products :
              Single({line \in AddLine(cart, p, n) : line.product = q})
<1> DEFINE old == LinesOf(cart, p)
<1>1. cart.lines \in SUBSET Lines /\ old \subseteq cart.lines
  BY DEF Carts, LinesOf
<1>2. CASE old = {}
  <2>1. AddLine(cart, p, n) = cart.lines \cup {[product |-> p, quantity |-> n]}
    BY <1>2 DEF AddLine
  <2>2. [product |-> p, quantity |-> n] \in Lines BY DEF Lines
  <2>3. \A line \in cart.lines : line.product # p BY <1>2 DEF LinesOf
  <2> QED BY <1>1, <2>1, <2>2, <2>3 DEF Sound, Single, LinesOf
<1>3. CASE old # {}
  <2>1. PICK one \in old : old = {one} BY <1>3 DEF Sound, Single
  <2> DEFINE new == [one EXCEPT !.quantity = Wrap(@ + n)]
  <2>2. one \in Lines /\ one.product = p /\ one.quantity \in Int /\ n \in Int
    BY <1>1, <2>1, IntHalfAssumption DEF Lines, LinesOf, Int32
  <2>3. new \in Lines /\ new.product = p BY <2>2, WrapType DEF Lines
  <2>4. AddLine(cart, p, n) = (cart.lines \ old) \cup {new}
    BY <1>3, <2>1 DEF AddLine
  <2>5. \A line \in cart.lines \ old : line.product # p BY DEF LinesOf
  <2> HIDE DEF new, old
  <2> QED BY <1>1, <2>3, <2>4, <2>5 DEF Sound, Single, LinesOf
<1> QED BY <1>2, <1>3

-----------------------------------------------------------------------------
(* The inductive invariant.                                                *)

\* Only a call that is past its store has its item stored.
StoredCalls ==
  \A c \in added : at[c] \in {"KeyExpire", "end"} \/ status[c] = "error"

AllSound ==
  /\ \A u \in Users : Sound(stored[u])
  /\ \A c \in Calls : Sound(held[c])

IInv == TypeOK /\ StoredCalls /\ AllSound

\* That nothing is stored is sound.
LEMMA NoneIsSound == Sound(None)
BY DEF Sound, None, LinesOf, Single

\* A cart without lines is sound.
LEMMA EmptyCartIsSound == EmptyCart \in Carts /\ Sound(EmptyCart)
BY DEF Sound, EmptyCart, LinesOf, Single, Carts

\* What a call is asked for.
LEMMA RequestTypes ==
  ASSUME TypeOK, NEW c \in Calls
  PROVE  /\ request[c] \in Requests
         /\ request[c].user \in Users
         /\ request[c].op = "add" =>
              request[c].product \in Products /\ request[c].quantity \in Int32
<1>1. request[c] \in Requests BY DEF TypeOK
<1> QED BY <1>1, QuantitiesAssumption DEF Requests, Int32

\* What a call writes back is a sound cart.
LEMMA WrittenIsSound ==
  ASSUME IInv, NEW c \in Calls, request[c].op = "add" => Addable(c)
  PROVE  Written(c) \in Carts /\ Sound(Written(c))
<1>1. CASE request[c].op # "add"
  BY <1>1, EmptyCartIsSound DEF Written
<1>2. CASE request[c].op = "add"
  <2> DEFINE base == IF held[c] = None THEN NewCart(request[c].user) ELSE held[c]
             lines == AddLine(base, request[c].product, request[c].quantity)
  <2>1. /\ request[c].user \in Users /\ request[c].product \in Products
        /\ request[c].quantity \in Int32
    BY <1>2, RequestTypes DEF IInv
  <2>2. base \in Carts /\ Sound(base)
    <3>1. held[c] \in Carts \cup {None} /\ Sound(held[c])
      BY DEF IInv, TypeOK, AllSound
    <3>2. NewCart(request[c].user) \in Carts /\ Sound(NewCart(request[c].user))
      BY <2>1 DEF NewCart, Carts, Sound, LinesOf, Single
    <3> QED BY <3>1, <3>2
  <2>3. /\ lines \in SUBSET Lines
        /\ \A q \in Products : Single({line \in lines : line.product = q})
    BY <2>1, <2>2, AddLineSound
  <2>4. Written(c) = [base EXCEPT !.lines = lines, !.units = @ \cup {c}]
    BY <1>2 DEF Written, WithItem
  <2> HIDE DEF base, lines
  <2>5. Written(c) \in Carts /\ Written(c).lines = lines
    BY <2>2, <2>3, <2>4 DEF Carts
  <2> QED BY <2>3, <2>5 DEF Sound, LinesOf
<1> QED BY <1>1, <1>2

\* Nothing is stored or held at first.
LEMMA InvInit == Init => IInv
BY NoneIsSound DEF Init, IInv, TypeOK, StoredCalls, AllSound

\* A command that writes, whether its call succeeds or not.
LEMMA HashSetKeeps ==
  ASSUME IInv, NEW c \in Calls, request[c].op = "add" => Addable(c),
         HashSet(request[c].user, Written(c))
  PROVE  /\ stored' \in [Users -> Carts \cup {None}]
         /\ \A u \in Users : Sound(stored'[u])
         /\ expires' = expires
<1>1. request[c].user \in Users BY RequestTypes DEF IInv
<1>2. Written(c) \in Carts /\ Sound(Written(c)) BY WrittenIsSound
<1> QED BY <1>1, <1>2 DEF IInv, TypeOK, AllSound, HashSet

\* Every command keeps the carts sound.
LEMMA InvNext == IInv /\ [Next]_vars => IInv'
<1> SUFFICES ASSUME IInv, [Next]_vars PROVE IInv' OBVIOUS
<1>1. TypeOK /\ StoredCalls /\ AllSound BY DEF IInv
<1> USE <1>1 DEF IInv, StoredCalls, AllSound
<1>2. ASSUME NEW c \in Calls, Begin(c) PROVE IInv'
  BY <1>2 DEF Begin, Goto, TypeOK
<1>3. ASSUME NEW c \in Calls, GetHash(c) PROVE IInv'
  <2>1. request[c].user \in Users BY RequestTypes
  <2> QED BY <1>3, <2>1 DEF GetHash, Running, Goto, Return, TypeOK
<1>4. ASSUME NEW c \in Calls, SetHash(c) PROVE IInv'
  <2>1. /\ stored' \in [Users -> Carts \cup {None}] /\ expires' = expires
        /\ \A u \in Users : Sound(stored'[u])
    BY <1>4, HashSetKeeps DEF SetHash
  <2> QED BY <1>4, <2>1 DEF SetHash, Running, Goto, TypeOK
<1>5. ASSUME NEW c \in Calls, SetExpiry(c) PROVE IInv'
  <2>1. request[c].user \in Users BY RequestTypes
  <2> QED BY <1>5, <2>1 DEF SetExpiry, KeyExpire, Running, Return, TypeOK
<1>6. ASSUME NEW c \in Calls, Fail(c) PROVE IInv'
  <2>1. request[c].user \in Users BY RequestTypes
  <2>2. /\ status' = [status EXCEPT ![c] = "error"]
        /\ UNCHANGED <<request, at, held>>
        /\ added' \in {added, added \cup {c}}
    BY <1>6 DEF Fail
  <2>3. /\ stored' \in [Users -> Carts \cup {None}] /\ expires' \in SUBSET Users
        /\ \A u \in Users : Sound(stored'[u])
    <3>1. CASE HashSet(request[c].user, Written(c)) /\ (request[c].op = "add" => Addable(c))
      BY <3>1, HashSetKeeps DEF TypeOK
    <3>2. CASE KeyExpire(request[c].user) BY <2>1, <3>2 DEF KeyExpire, TypeOK
    <3>3. CASE UNCHANGED <<stored, expires>> BY <3>3 DEF TypeOK
    <3> QED BY <1>6, <3>1, <3>2, <3>3 DEF Fail
  <2> QED BY <2>2, <2>3 DEF TypeOK
<1>7. ASSUME NEW users \in SUBSET Users, Lose(users) PROVE IInv'
  BY <1>7, NoneIsSound DEF Lose, TypeOK
<1>8. CASE UNCHANGED vars BY <1>8 DEF vars, TypeOK
<1> QED BY <1>2, <1>3, <1>4, <1>5, <1>6, <1>7, <1>8 DEF Next

\* At any time every cart that is stored in Valkey, or held by a call that will write it
\* back, has one line per product.
THEOREM Invariant == Spec => []IInv
<1> QED BY InvInit, InvNext, PTL DEF Spec

\* The variables keep their types, quantities their 32 bits.
THEOREM TypeCorrect == Spec => []TypeOK
<1>1. IInv => TypeOK BY DEF IInv
<1> QED BY <1>1, Invariant, PTL

\* No interleaving of calls puts a product on two lines of a cart, so
\* SingleOrDefault never throws.
THEOREM CartsSound == Spec => []OneLinePerProduct
<1>1. IInv => OneLinePerProduct
  BY DEF IInv, AllSound, Sound, OneLinePerProduct
<1> QED BY <1>1, Invariant, PTL

-----------------------------------------------------------------------------
(* Expiry.                                                                 *)

\* A call that has stored a cart and not set its expiry, or failed around it.
Owes(c, u) ==
  /\ request[c].user = u
  /\ at[c] = "KeyExpire" \/ (at[c] = "HashSet" /\ status[c] = "error")

\* A cart that stays is one for which a call still owes the expiry.
LEMMA StayIsOwed ==
  OnlyFailuresStay <=>
    \A u \in Users : stored[u] # None /\ u \notin expires => \E c \in Calls : Owes(c, u)
BY DEF OnlyFailuresStay, Owes

\* A store leaves its call owing the expiry.
LEMMA StoreOwes ==
  ASSUME IInv, OnlyFailuresStay, NEW c \in Calls, HashSet(request[c].user, Written(c)),
         Owes(c, request[c].user)', UNCHANGED request,
         \A d \in Calls \ {c} : at'[d] = at[d] /\ status'[d] = status[d]
  PROVE  OnlyFailuresStay'
<1> SUFFICES ASSUME NEW u \in Users, stored'[u] # None, u \notin expires'
             PROVE  \E d \in Calls : Owes(d, u)'
  BY DEF OnlyFailuresStay, Owes
<1>1. CASE u = request[c].user BY <1>1 DEF Owes
<1>2. CASE u # request[c].user
  <2>1. stored'[u] = stored[u] /\ expires' = expires
    BY <1>2 DEF HashSet, IInv, TypeOK
  <2>2. PICK d \in Calls : Owes(d, u) BY <2>1, StayIsOwed
  <2>3. d # c BY <1>2, <2>2 DEF Owes
  <2> QED BY <2>2, <2>3 DEF Owes
<1> QED BY <1>1, <1>2

\* A step that leaves carts and expiry alone, and those who owe.
LEMMA StaysOwed ==
  ASSUME OnlyFailuresStay, UNCHANGED <<stored, expires>>,
         \A c \in Calls, u \in Users : Owes(c, u) => Owes(c, u)'
  PROVE  OnlyFailuresStay'
BY DEF OnlyFailuresStay, Owes

\* The expiry of a cart is set: it is no longer owed for that user.
LEMMA ExpiryPaid ==
  ASSUME IInv, OnlyFailuresStay, NEW c \in Calls, KeyExpire(request[c].user),
         UNCHANGED request,
         \A d \in Calls \ {c} : at'[d] = at[d] /\ status'[d] = status[d]
  PROVE  OnlyFailuresStay'
<1> SUFFICES ASSUME NEW u \in Users, stored'[u] # None, u \notin expires'
             PROVE  \E d \in Calls : Owes(d, u)'
  BY DEF OnlyFailuresStay, Owes
<1>1. stored' = stored BY DEF KeyExpire
<1>2. u # request[c].user /\ u \notin expires BY <1>1 DEF KeyExpire
<1>3. PICK d \in Calls : Owes(d, u) BY <1>1, <1>2, StayIsOwed
<1>4. d # c BY <1>2, <1>3 DEF Owes
<1> QED BY <1>3, <1>4 DEF Owes

\* Every command leaves the expiry of a cart owed until it is set or has failed.
LEMMA StayNext == IInv /\ OnlyFailuresStay /\ [Next]_vars => OnlyFailuresStay'
<1> SUFFICES ASSUME IInv, OnlyFailuresStay, [Next]_vars PROVE OnlyFailuresStay' OBVIOUS
<1>t. TypeOK BY DEF IInv
<1>1. ASSUME NEW c \in Calls, Begin(c) \/ GetHash(c) PROVE OnlyFailuresStay'
  <2>1. UNCHANGED <<stored, expires, request>> BY <1>1 DEF Begin, GetHash
  <2>2. ASSUME NEW d \in Calls, NEW u \in Users, Owes(d, u) PROVE Owes(d, u)'
    <3>1. d # c BY <1>1, <2>2 DEF Owes, Begin, GetHash, Running
    <3>2. at'[d] = at[d] /\ status'[d] = status[d]
      BY <1>1, <3>1, <1>t DEF Begin, GetHash, Goto, Return, TypeOK
    <3> QED BY <2>1, <2>2, <3>2 DEF Owes
  <2> QED BY <2>1, <2>2, StaysOwed
<1>2. ASSUME NEW c \in Calls, SetHash(c) PROVE OnlyFailuresStay'
  <2>1. /\ at' = [at EXCEPT ![c] = "KeyExpire"] /\ UNCHANGED <<status, request>>
        /\ HashSet(request[c].user, Written(c))
    BY <1>2 DEF SetHash, Goto
  <2>2. Owes(c, request[c].user)' BY <2>1, <1>t DEF Owes, TypeOK
  <2>3. \A d \in Calls \ {c} : at'[d] = at[d] /\ status'[d] = status[d]
    BY <2>1, <1>t DEF TypeOK
  <2> QED BY <2>1, <2>2, <2>3, StoreOwes
<1>3. ASSUME NEW c \in Calls, SetExpiry(c) PROVE OnlyFailuresStay'
  <2>1. KeyExpire(request[c].user) /\ UNCHANGED request BY <1>3 DEF SetExpiry
  <2>2. \A d \in Calls \ {c} : at'[d] = at[d] /\ status'[d] = status[d]
    BY <1>3, <1>t DEF SetExpiry, Return, TypeOK
  <2> QED BY <2>1, <2>2, ExpiryPaid
<1>4. ASSUME NEW c \in Calls, Fail(c) PROVE OnlyFailuresStay'
  <2>1. /\ status' = [status EXCEPT ![c] = "error"] /\ UNCHANGED <<request, at>>
    BY <1>4 DEF Fail
  <2>2. \A d \in Calls \ {c} : at'[d] = at[d] /\ status'[d] = status[d]
    BY <2>1, <1>t DEF TypeOK
  <2>3. CASE UNCHANGED <<stored, expires>>
    <3>1. ASSUME NEW d \in Calls, NEW u \in Users, Owes(d, u) PROVE Owes(d, u)'
      <4>1. status'[d] = status[d] \/ status'[d] = "error" BY <2>1, <1>t DEF TypeOK
      <4> QED BY <2>1, <3>1, <4>1 DEF Owes
    <3> QED BY <2>3, <3>1, StaysOwed
  <2>4. CASE at[c] = "HashSet" /\ HashSet(request[c].user, Written(c))
    <3>1. Owes(c, request[c].user)' BY <2>1, <2>4, <1>t DEF Owes, TypeOK
    <3> QED BY <2>1, <2>2, <2>4, <3>1, StoreOwes
  <2>5. CASE KeyExpire(request[c].user) BY <2>1, <2>2, <2>5, ExpiryPaid
  <2> QED BY <1>4, <2>3, <2>4, <2>5 DEF Fail
<1>5. ASSUME NEW users \in SUBSET Users, Lose(users) PROVE OnlyFailuresStay'
  <2> SUFFICES ASSUME NEW u \in Users, stored'[u] # None, u \notin expires'
               PROVE  \E d \in Calls : Owes(d, u)'
    BY DEF OnlyFailuresStay, Owes
  <2>1. u \notin users /\ stored'[u] = stored[u] /\ u \notin expires BY <1>5 DEF Lose
  <2>2. PICK d \in Calls : Owes(d, u) BY <2>1, StayIsOwed
  <2> QED BY <1>5, <2>2 DEF Lose, Owes
<1>6. CASE UNCHANGED vars BY <1>6, StaysOwed DEF vars, Owes
<1> QED BY <1>1, <1>2, <1>3, <1>4, <1>5, <1>6 DEF Next

\* A cart without an expiry is one whose call is about to set it, or has failed:
\* of AddItemAsync and EmptyCartAsync, whose two commands are not one.
THEOREM StayExplained == Spec => []OnlyFailuresStay
<1>1. Init => OnlyFailuresStay BY DEF Init, OnlyFailuresStay
<1>2. Spec => [](IInv /\ OnlyFailuresStay)
  BY <1>1, InvInit, InvNext, StayNext, PTL DEF Spec
<1> QED BY <1>2, PTL

-----------------------------------------------------------------------------
(* Names.                                                                  *)

\* The carts calls have read are named like those that are stored.
HeldNamed ==
  \A c \in Calls :
    held[c] = None \/ held[c].user = request[c].user
      \/ (held[c].user = "" /\ Emptied(request[c].user))

\* Only AddItem and EmptyCart calls get to write.
Writers == \A c \in Calls : at[c] = "HashSet" => request[c].op # "get"

Names == NamedUnlessEmptied /\ HeldNamed /\ Writers

\* That an EmptyCart call has stored its cart, or failed, stays so.
LEMMA EmptiedStays ==
  ASSUME IInv, [Next]_vars, NEW u, Emptied(u) PROVE Emptied(u)'
<1> DEFINE Has(c) == /\ request[c].op = "empty" /\ request[c].user = u
                     /\ \/ at[c] \in {"KeyExpire", "end"}
                        \/ at[c] = "HashSet" /\ status[c] = "error"
<1>t. TypeOK BY DEF IInv
<1>1. PICK c \in Calls : Has(c) BY DEF Emptied
<1>2. SUFFICES Has(c)' BY DEF Emptied
<1>3. request' = request
  BY DEF Next, vars, Begin, GetHash, SetHash, SetExpiry, Fail, Lose
<1>4. ASSUME at'[c] = at[c], status'[c] = status[c] PROVE Has(c)' BY <1>1, <1>3, <1>4
<1>5. ASSUME NEW d \in Calls, Begin(d) \/ GetHash(d) \/ SetHash(d) PROVE Has(c)'
  <2>1. d # c BY <1>1, <1>5 DEF Begin, GetHash, SetHash, Running
  <2> QED BY <1>4, <1>5, <2>1, <1>t DEF Begin, GetHash, SetHash, Goto, Return, TypeOK
<1>6. ASSUME NEW d \in Calls, SetExpiry(d) PROVE Has(c)'
  <2>1. CASE d = c BY <1>1, <1>3, <1>6, <2>1, <1>t DEF SetExpiry, Return, TypeOK
  <2>2. CASE d # c BY <1>4, <1>6, <2>2, <1>t DEF SetExpiry, Return, TypeOK
  <2> QED BY <2>1, <2>2
<1>7. ASSUME NEW d \in Calls, Fail(d) PROVE Has(c)'
  <2>1. at' = at /\ (status'[c] = status[c] \/ status'[c] = "error")
    BY <1>7, <1>t DEF Fail, TypeOK
  <2> QED BY <1>1, <1>3, <2>1
<1>8. ASSUME NEW users \in SUBSET Users, Lose(users) PROVE Has(c)'
  BY <1>4, <1>8 DEF Lose
<1>9. CASE UNCHANGED vars BY <1>4, <1>9 DEF vars
<1> QED BY <1>5, <1>6, <1>7, <1>8, <1>9 DEF Next

\* What a call writes is named after its user, or after nobody when the user's
\* cart has been emptied or the call has just done so.
LEMMA WrittenNamed ==
  ASSUME IInv, HeldNamed, NEW c \in Calls, request[c].op # "get"
  PROVE  \/ Written(c).user = request[c].user
         \/ /\ Written(c).user = ""
            /\ request[c].op = "empty" \/ Emptied(request[c].user)
<1>1. request[c].op = "add" \/ request[c].op = "empty"
  BY RequestTypes DEF IInv, Requests
<1>2. CASE request[c].op = "empty" BY <1>2 DEF Written, EmptyCart
<1>3. CASE request[c].op = "add"
  <2>1. CASE held[c] = None
    BY <1>3, <2>1 DEF Written, WithItem, NewCart
  <2>2. CASE held[c] # None
    <3>1. held[c] \in Carts BY <2>2 DEF IInv, TypeOK
    <3>2. Written(c).user = held[c].user
      BY <1>3, <2>2, <3>1 DEF Written, WithItem, Carts
    <3> QED BY <2>2, <3>2 DEF HeldNamed
  <2> QED BY <2>1, <2>2
<1> QED BY <1>1, <1>2, <1>3

\* A step that reads no cart keeps the names of those that were read.
LEMMA HeldStays ==
  ASSUME IInv, HeldNamed, [Next]_vars, UNCHANGED <<request, held>> PROVE HeldNamed'
<1> SUFFICES ASSUME NEW c \in Calls
             PROVE  held[c] = None \/ held[c].user = request[c].user
                      \/ (held[c].user = "" /\ Emptied(request[c].user)')
  BY DEF HeldNamed
<1>1. Emptied(request[c].user) => Emptied(request[c].user)'
  <2>1. PICK u : u = request[c].user OBVIOUS
  <2>2. Emptied(u) => Emptied(u)' BY EmptiedStays
  <2> QED BY <2>1, <2>2 DEF Emptied
<1> QED BY <1>1 DEF HeldNamed

\* A step that writes no cart keeps the names of those that are stored.
LEMMA StoredStays ==
  ASSUME IInv, NamedUnlessEmptied, [Next]_vars,
         \A u \in Users : stored'[u] = stored[u] \/ stored'[u] = None
  PROVE  NamedUnlessEmptied'
<1> SUFFICES ASSUME NEW u \in Users
             PROVE  stored'[u] = None \/ stored'[u].user = u
                      \/ (stored'[u].user = "" /\ Emptied(u)')
  BY DEF NamedUnlessEmptied
<1>1. Emptied(u) => Emptied(u)' BY EmptiedStays
<1> QED BY <1>1 DEF NamedUnlessEmptied

\* A store, by a call that then has done so or has failed at it.
LEMMA StoreNamed ==
  ASSUME IInv, Names, [Next]_vars, NEW c \in Calls, at[c] = "HashSet",
         HashSet(request[c].user, Written(c)), request' = request,
         at'[c] = "KeyExpire" \/ (at'[c] = "HashSet" /\ status'[c] = "error")
  PROVE  NamedUnlessEmptied'
<1> SUFFICES ASSUME NEW u \in Users
             PROVE  stored'[u] = None \/ stored'[u].user = u
                      \/ (stored'[u].user = "" /\ Emptied(u)')
  BY DEF NamedUnlessEmptied
<1>0. stored \in [Users -> Carts \cup {None}] BY DEF IInv, TypeOK
<1>1. Emptied(u) => Emptied(u)' BY EmptiedStays
<1>2. CASE u # request[c].user
  <2>1. stored'[u] = stored[u] BY <1>0, <1>2 DEF HashSet
  <2> QED BY <1>1, <2>1 DEF Names, NamedUnlessEmptied
<1>3. CASE u = request[c].user
  <2>1. stored'[u] = Written(c) BY <1>0, <1>3 DEF HashSet
  <2>2. request[c].op # "get" BY DEF Names, Writers
  <2>3. request[c].op = "empty" => Emptied(u)' BY <1>3 DEF Emptied
  <2>4. \/ Written(c).user = u
        \/ Written(c).user = "" /\ (request[c].op = "empty" \/ Emptied(u))
    BY <1>3, <2>2, WrittenNamed DEF Names
  <2> QED BY <1>1, <2>1, <2>3, <2>4
<1> QED BY <1>2, <1>3

\* Every command keeps the names explained.
LEMMA NamesNext == IInv /\ Names /\ [Next]_vars => Names'
<1> SUFFICES ASSUME IInv, Names, [Next]_vars PROVE Names' OBVIOUS
<1>t. TypeOK /\ NamedUnlessEmptied /\ HeldNamed /\ Writers BY DEF IInv, Names
<1>1. ASSUME NEW c \in Calls, Begin(c) PROVE Names'
  <2>1. UNCHANGED <<request, held, stored>> BY <1>1 DEF Begin
  <2>2. Writers' BY <1>1, <1>t DEF Begin, Goto, TypeOK, Writers
  <2> QED BY <1>t, <2>1, <2>2, HeldStays, StoredStays DEF Names
<1>2. ASSUME NEW c \in Calls, GetHash(c) PROVE Names'
  <2>1. UNCHANGED <<request, stored>> BY <1>2 DEF GetHash
  <2>2. Writers' BY <1>2, <1>t DEF GetHash, Goto, Return, TypeOK, Writers
  <2>3. request[c].user \in Users BY <1>t, RequestTypes
  <2>4. \A d \in Calls : Emptied(request[d].user) => Emptied(request[d].user)'
    <3> TAKE d \in Calls
    <3>1. PICK u : u = request[d].user OBVIOUS
    <3>2. Emptied(u) => Emptied(u)' BY EmptiedStays
    <3> QED BY <2>1, <3>1, <3>2 DEF Emptied
  <2>5. held'[c] = stored[request[c].user]
    BY <1>2, <1>t DEF GetHash, TypeOK
  <2>6. \A d \in Calls \ {c} : held'[d] = held[d] BY <1>2, <1>t DEF GetHash, TypeOK
  <2>7. HeldNamed'
    <3> SUFFICES ASSUME NEW d \in Calls
                 PROVE  held'[d] = None \/ held'[d].user = request[d].user
                          \/ (held'[d].user = "" /\ Emptied(request[d].user)')
      BY <2>1 DEF HeldNamed
    <3>1. CASE d = c BY <1>t, <2>3, <2>4, <2>5, <3>1 DEF NamedUnlessEmptied
    <3>2. CASE d # c BY <1>t, <2>4, <2>6, <3>2 DEF HeldNamed
    <3> QED BY <3>1, <3>2
  <2> QED BY <1>t, <2>1, <2>2, <2>7, StoredStays DEF Names
<1>3. ASSUME NEW c \in Calls, SetHash(c) PROVE Names'
  <2>1. /\ UNCHANGED <<request, held>> /\ at[c] = "HashSet" /\ at'[c] = "KeyExpire"
        /\ HashSet(request[c].user, Written(c))
    BY <1>3, <1>t DEF SetHash, Goto, TypeOK
  <2>2. Writers' BY <1>3, <1>t DEF SetHash, Goto, TypeOK, Writers
  <2> QED BY <1>t, <2>1, <2>2, HeldStays, StoreNamed DEF Names
<1>4. ASSUME NEW c \in Calls, SetExpiry(c) PROVE Names'
  <2>1. UNCHANGED <<request, held, stored>> BY <1>4 DEF SetExpiry, KeyExpire
  <2>2. Writers' BY <1>4, <1>t DEF SetExpiry, Return, TypeOK, Writers
  <2> QED BY <1>t, <2>1, <2>2, HeldStays, StoredStays DEF Names
<1>5. ASSUME NEW c \in Calls, Fail(c) PROVE Names'
  <2>1. UNCHANGED <<request, held, at>> /\ status'[c] = "error"
    BY <1>5, <1>t DEF Fail, TypeOK
  <2>2. Writers' BY <1>t, <2>1 DEF Writers
  <2>3. CASE at[c] = "HashSet" /\ HashSet(request[c].user, Written(c))
    BY <1>t, <2>1, <2>2, <2>3, HeldStays, StoreNamed DEF Names
  <2>4. CASE stored' = stored
    BY <1>t, <2>1, <2>2, <2>4, HeldStays, StoredStays DEF Names
  <2> QED BY <1>5, <2>3, <2>4 DEF Fail, KeyExpire
<1>6. ASSUME NEW users \in SUBSET Users, Lose(users) PROVE Names'
  <2>1. UNCHANGED <<request, held, at>> BY <1>6 DEF Lose
  <2>2. Writers' BY <1>t, <2>1 DEF Writers
  <2>3. \A u \in Users : stored'[u] = stored[u] \/ stored'[u] = None BY <1>6 DEF Lose
  <2> QED BY <1>t, <2>1, <2>2, <2>3, HeldStays, StoredStays DEF Names
<1>7. CASE UNCHANGED vars
  <2>1. UNCHANGED <<request, held, stored, at>> BY <1>7 DEF vars
  <2>2. Writers' BY <1>t, <2>1 DEF Writers
  <2> QED BY <1>t, <2>1, <2>2, HeldStays, StoredStays DEF Names
<1> QED BY <1>1, <1>2, <1>3, <1>4, <1>5, <1>6, <1>7 DEF Next

\* A stored cart names its user, or nobody after an EmptyCart call; never somebody
\* else, whatever interleaves.
THEOREM NamesExplained == Spec => []NamedUnlessEmptied
<1>1. Init => Names
  BY DEF Init, Names, NamedUnlessEmptied, HeldNamed, Writers
<1>2. Names => NamedUnlessEmptied BY DEF Names
<1>3. Spec => [](IInv /\ Names) BY <1>1, InvInit, InvNext, NamesNext, PTL DEF Spec
<1> QED BY <1>2, <1>3, PTL

\* Both together: every stored cart is well-formed.
THEOREM CartsStayWellFormed == Spec => []CartsWellFormed
<1>1. OneLinePerProduct /\ NamedUnlessEmptied => CartsWellFormed BY DEF CartsWellFormed
<1> QED BY <1>1, CartsSound, NamesExplained, PTL

-----------------------------------------------------------------------------
(* The service implements CartContract.                                    *)

CartOf == [u \in Users |-> stored[u].units]

\* The addition an AddItem call at HashSet stands for.
AdditionOf(c) == [user |-> request[c].user, unit |-> c, seen |-> held[c].units]

Adders == {c \in Calls : at[c] = "HashSet" /\ Running(c) /\ request[c].op = "add"}

\* The additions by the calls that made them.
LEMMA AdditionsAre == Additions = {AdditionOf(c) : c \in Adders}
BY DEF Additions, AdditionOf, Adders

\* The initial states are those of the contract.
LEMMA ContractInit == Init => Contract!Init
BY DEF Init, Contract!Init, Additions, None

\* A call that leaves HashSet takes its addition, and only its own, with it.
LEMMA LeaveHashSet ==
  ASSUME NEW c \in Adders, Adders' = Adders \ {c}, UNCHANGED <<request, held>>
  PROVE  AdditionOf(c) \in Additions /\ Additions' = Additions \ {AdditionOf(c)}
<1>1. \A d \in Adders : AdditionOf(d)' = AdditionOf(d) BY DEF AdditionOf
<1>2. \A d \in Adders : AdditionOf(d) = AdditionOf(c) => d = c BY DEF AdditionOf
<1>3. Additions' = {AdditionOf(d)' : d \in Adders'}
  BY DEF Additions, AdditionOf, Adders
<1> QED BY <1>1, <1>2, <1>3, AdditionsAre

\* Additions change only with the calls that make them.
LEMMA SameAdditions ==
  ASSUME Adders' = Adders, UNCHANGED request,
         \A c \in Adders : held'[c] = held[c]
  PROVE  Additions' = Additions
<1>1. \A d \in Adders : AdditionOf(d)' = AdditionOf(d) BY DEF AdditionOf
<1>2. Additions' = {AdditionOf(d)' : d \in Adders'}
  BY DEF Additions, AdditionOf, Adders
<1> QED BY <1>1, <1>2, AdditionsAre

\* A store, by a call that then succeeds or fails.
LEMMA WriteStep ==
  ASSUME IInv, NEW c \in Calls, at[c] = "HashSet", Running(c),
         HashSet(request[c].user, Written(c)),
         added' = IF request[c].op = "add" THEN added \cup {c} ELSE added,
         Adders' = Adders \ {c}, UNCHANGED <<request, held>>
  PROVE  Contract!Next
<1>1. request[c].user \in Users BY RequestTypes DEF IInv
<1>2. CartOf' = [CartOf EXCEPT ![request[c].user] = Written(c).units]
  BY <1>1 DEF IInv, TypeOK, HashSet, CartOf
<1>3. CASE request[c].op = "add"
  <2>1. c \in Adders BY <1>3 DEF Adders
  <2>2. Written(c).units = held[c].units \cup {c}
    <3>1. held[c] \in Carts \cup {None} BY DEF IInv, TypeOK
    <3>2. NewCart(request[c].user).units = {} /\ None.units = {} BY DEF NewCart, None
    <3> QED BY <1>3, <3>1, <3>2 DEF Written, WithItem, Carts, NewCart
  <2>3. PICK a \in Additions : a = AdditionOf(c) BY <2>1, LeaveHashSet
  <2>4. Contract!Store(a)
    <3>1. a.user = request[c].user /\ a.unit = c /\ a.seen = held[c].units
      BY <2>3 DEF AdditionOf
    <3>2. Additions' = Additions \ {a} BY <2>1, <2>3, LeaveHashSet
    <3>3. added' = added \cup {c} BY <1>3
    <3> QED BY <1>2, <2>2, <3>1, <3>2, <3>3 DEF Contract!Store, CartOf
  <2> QED BY <2>4 DEF Contract!Next
<1>4. CASE request[c].op # "add"
  <2>1. c \notin Adders BY <1>4 DEF Adders
  <2>2. Additions' = Additions BY <2>1, SameAdditions
  <2>3. Written(c).units = {} BY <1>4 DEF Written, EmptyCart
  <2>4. PICK u \in Users : u = request[c].user BY <1>1
  <2>5. Contract!Empty({u})
    BY <1>2, <1>4, <2>2, <2>3, <2>4 DEF Contract!Empty, CartOf
  <2> QED BY <2>5 DEF Contract!Next
<1> QED BY <1>3, <1>4

\* Every command is a step of the contract, or none.
LEMMA ContractStep == IInv /\ [Next]_vars => [Contract!Next]_(Contract!vars)
<1> SUFFICES ASSUME IInv, [Next]_vars
             PROVE  Contract!Next \/ (CartOf' = CartOf /\ added' = added /\ Additions' = Additions)
  BY DEF Contract!vars, CartOf
<1>1. TypeOK /\ StoredCalls BY DEF IInv
<1>2. ASSUME NEW c \in Calls, Begin(c)
      PROVE  CartOf' = CartOf /\ added' = added /\ Additions' = Additions
  <2>1. Adders' = Adders
    BY <1>1, <1>2 DEF Begin, Goto, Adders, Running, TypeOK
  <2> QED BY <1>2, <2>1, SameAdditions DEF Begin, CartOf
<1>3. ASSUME NEW c \in Calls, GetHash(c)
      PROVE  Contract!Next \/ (CartOf' = CartOf /\ added' = added /\ Additions' = Additions)
  <2>1. CartOf' = CartOf /\ added' = added BY <1>3 DEF GetHash, CartOf
  <2>2. c \notin Adders BY <1>3 DEF GetHash, Adders
  <2>3. \A d \in Adders : held'[d] = held[d]
    BY <1>1, <1>3, <2>2 DEF GetHash, Adders, TypeOK
  <2>4. CASE request[c].op # "add"
    <3>1. Adders' = Adders
      BY <1>1, <1>3, <2>2, <2>4 DEF GetHash, Goto, Return, Running, Adders, TypeOK
    <3> QED BY <1>3, <2>1, <2>3, <3>1, SameAdditions DEF GetHash
  <2>5. CASE request[c].op = "add"
    <3>1. Adders' = Adders \cup {c}
      BY <1>1, <1>3, <2>5 DEF GetHash, Goto, Running, Adders, TypeOK
    <3>2. \A d \in Adders : AdditionOf(d)' = AdditionOf(d)
      BY <1>3, <2>3 DEF AdditionOf, GetHash
    <3>3. Additions' = Additions \cup {AdditionOf(c)'}
      <4>1. Additions' = {AdditionOf(d)' : d \in Adders'}
  BY DEF Additions, AdditionOf, Adders
      <4> QED BY <3>1, <3>2, <4>1, AdditionsAre
    <3>4. AdditionOf(c)' = [user |-> request[c].user, unit |-> c,
                            seen |-> CartOf[request[c].user]]
      BY <1>1, <1>3, RequestTypes DEF AdditionOf, CartOf, GetHash, TypeOK
    <3>5. c \notin added \cup {a.unit : a \in Additions}
      <4>1. c \notin added
        BY <1>1, <1>3 DEF GetHash, Running, StoredCalls
      <4>2. \A a \in Additions : a.unit # c
        BY <2>2, AdditionsAre DEF AdditionOf
      <4> QED BY <4>1, <4>2
    <3>6. Contract!Read(request[c].user, c)
      BY <2>1, <3>3, <3>4, <3>5 DEF Contract!Read, CartOf
    <3>7. request[c].user \in Users BY <1>1, RequestTypes
    <3> QED BY <3>6, <3>7 DEF Contract!Next
  <2> QED BY <2>4, <2>5
<1>4. ASSUME NEW c \in Calls, SetHash(c) PROVE Contract!Next
  <2>1. Adders' = Adders \ {c}
    BY <1>1, <1>4 DEF SetHash, Goto, Running, Adders, TypeOK
  <2> QED BY <1>4, <2>1, WriteStep DEF SetHash
<1>5. ASSUME NEW c \in Calls, SetExpiry(c)
      PROVE  CartOf' = CartOf /\ added' = added /\ Additions' = Additions
  <2>1. Adders' = Adders
    BY <1>1, <1>5 DEF SetExpiry, Return, Running, Adders, TypeOK
  <2> QED BY <1>5, <2>1, SameAdditions DEF SetExpiry, KeyExpire, CartOf
<1>6. ASSUME NEW c \in Calls, Fail(c)
      PROVE  Contract!Next \/ (CartOf' = CartOf /\ added' = added /\ Additions' = Additions)
  <2>1. Adders' = Adders \ {c} /\ UNCHANGED <<request, held>> /\ Running(c)
    BY <1>1, <1>6 DEF Fail, Running, Adders, TypeOK
  <2>2. CASE /\ at[c] = "HashSet" /\ HashSet(request[c].user, Written(c))
             /\ added' = IF request[c].op = "add" THEN added \cup {c} ELSE added
    BY <2>1, <2>2, WriteStep
  <2>3. CASE UNCHANGED <<stored, added>>
    <3>1. CASE c \in Adders
      <4>1. Contract!Drop(AdditionOf(c))
        BY <2>1, <2>3, <3>1, LeaveHashSet DEF Contract!Drop
      <4> QED BY <2>1, <3>1, <4>1, LeaveHashSet DEF Contract!Next
    <3>2. CASE c \notin Adders
      BY <2>1, <2>3, <3>2, SameAdditions DEF CartOf
    <3> QED BY <3>1, <3>2
  <2> QED BY <1>6, <2>2, <2>3 DEF Fail, KeyExpire
<1>7. ASSUME NEW users \in SUBSET Users, Lose(users) PROVE Contract!Next
  <2>1. Adders' = Adders BY <1>7 DEF Lose, Adders, Running
  <2>2. Additions' = Additions BY <1>7, <2>1, SameAdditions DEF Lose
  <2>3. Contract!Empty(users)
    BY <1>7, <2>2 DEF Lose, Contract!Empty, None
  <2> QED BY <2>3 DEF Contract!Next
<1>8. CASE UNCHANGED vars
  <2>1. Adders' = Adders BY <1>8 DEF vars, Adders, Running
  <2> QED BY <1>8, <2>1, SameAdditions DEF vars, CartOf
<1> QED BY <1>2, <1>3, <1>4, <1>5, <1>6, <1>7, <1>8 DEF Next

\* The cart service, with its non-atomic AddItem, failing commands and expiring
\* keys, implements the contract checkout relies on.
THEOREM ImplementsCartContract == Spec => ContractKept
<1>1. Spec => Contract!Init /\ [][Contract!Next]_(Contract!vars)
  BY ContractInit, ContractStep, Invariant, PTL DEF Spec
<1> QED BY <1>1 DEF ContractKept, Contract!Spec
-----------------------------------------------------------------------------
(* Sums.  The library adds the numbers of a set up in an order of its own, *)
(* by a recursive function whose existence is part of what is to be shown. *)

\* Induction over the subsets of a finite set, with the sets the induction
\* hypothesis holds of as a set.
LEMMA SubsetInduction ==
  ASSUME NEW S, IsFiniteSet(S), NEW T, {} \in T,
         \A s \in SUBSET S : s # {} /\ (\A x \in s : s \ {x} \in T) => s \in T
  PROVE  SUBSET S \subseteq T
<1> DEFINE Left == (SUBSET S) \ T
<1> SUFFICES ASSUME Left # {} PROVE FALSE OBVIOUS
<1>1. IsWellFoundedOn(StrictSubsetOrdering(S), FiniteSubsetsOf(S))
  BY FS_StrictSubsetOrderingWellFounded
<1>2. Left \subseteq FiniteSubsetsOf(S)
  BY FS_Subset DEF FiniteSubsetsOf
<1> HIDE DEF Left
<1>3. PICK m \in Left : \A y \in Left : ~ (<<y, m>> \in StrictSubsetOrdering(S))
  BY <1>1, <1>2, WFMin
<1> USE DEF Left
<1>4. \A x \in m : m \ {x} \in T
  <2> TAKE x \in m
  <2>1. m \ {x} \in SUBSET S /\ m \in SUBSET S /\ m \ {x} # m OBVIOUS
  <2>2. <<m \ {x}, m>> \in StrictSubsetOrdering(S)
    BY <2>1 DEF StrictSubsetOrdering
  <2> QED BY <1>3, <2>1, <2>2
<1> QED BY <1>4

First(s) == CHOOSE x \in s : TRUE

\* g is what the library's fold computes for the subsets of S, of which it removes
\* the first element of each.
Adds(req, S, g) ==
  g = [s \in SUBSET S |-> IF s = {} THEN 0 ELSE req[First(s)].quantity + g[s \ {First(s)}]]

\* What the calls of s add, as LinesAddUp has it.
SumOf(req, s) == MapThenSumSet(LAMBDA c : req[c].quantity, s)

\* The first of a set is in it.
LEMMA FirstIn == ASSUME NEW s, s # {} PROVE First(s) \in s
BY DEF First

\* What the definition of the library comes to.
LEMMA SumIs ==
  ASSUME NEW req, NEW S, NEW g, Adds(req, S, g)
  PROVE  \E h : Adds(req, S, h) /\ SumOf(req, S) = h[S]
BY Zenon DEF SumOf, Adds, First, MapThenSumSet, MapThenFoldSet

\* What a sum over subsets is, one call at a time.
LEMMA AddsAt ==
  ASSUME NEW req, NEW S, NEW g, Adds(req, S, g)
  PROVE  /\ g[{}] = 0
         /\ \A s \in SUBSET S : s # {} => g[s] = req[First(s)].quantity + g[s \ {First(s)}]
BY DEF Adds

\* Such a sum is an integer.
LEMMA AddsInt ==
  ASSUME NEW req, NEW S, IsFiniteSet(S), NEW g, Adds(req, S, g),
         \A x \in S : req[x].quantity \in Int
  PROVE  \A s \in SUBSET S : g[s] \in Int
<1> DEFINE T == {s \in SUBSET S : g[s] \in Int}
<1>1. {} \in T BY AddsAt
<1>2. ASSUME NEW s \in SUBSET S, s # {}, \A x \in s : s \ {x} \in T PROVE s \in T
  <2>1. First(s) \in s BY <1>2, FirstIn
  <2>2. g[s] = req[First(s)].quantity + g[s \ {First(s)}] BY <1>2 DEF Adds
  <2>3. req[First(s)].quantity \in Int /\ g[s \ {First(s)}] \in Int BY <1>2, <2>1
  <2> QED BY <2>2, <2>3
<1> HIDE DEF T
<1>3. SUBSET S \subseteq T BY <1>1, <1>2, SubsetInduction
<1> QED BY <1>3 DEF T

Agree(S, g, h) == \A s \in SUBSET S : g[s] = h[s]

\* The fold agrees with any other on the sets both are for.
LEMMA AddsAgree ==
  ASSUME NEW req, NEW S, IsFiniteSet(S), NEW R, NEW g, NEW h, S \subseteq R,
         Adds(req, S, g), Adds(req, R, h)
  PROVE  Agree(S, g, h)
<1> DEFINE T == {s \in SUBSET S : g[s] = h[s]}
<1>g. \A s \in SUBSET S : s # {} => g[s] = req[First(s)].quantity + g[s \ {First(s)}]
  BY DEF Adds
<1>h. \A s \in SUBSET R : s # {} => h[s] = req[First(s)].quantity + h[s \ {First(s)}]
  BY DEF Adds
<1>1. {} \in T BY AddsAt
<1>2. ASSUME NEW s \in SUBSET S, s # {}, \A x \in s : s \ {x} \in T PROVE s \in T
  <2>1. First(s) \in s BY <1>2, FirstIn
  <2>2. g[s] = req[First(s)].quantity + g[s \ {First(s)}] BY <1>2, <1>g
  <2>3. h[s] = req[First(s)].quantity + h[s \ {First(s)}] BY <1>2, <1>h
  <2>4. g[s \ {First(s)}] = h[s \ {First(s)}] BY <1>2, <2>1
  <2> QED BY <2>2, <2>3, <2>4
<1> HIDE DEF T
<1>3. SUBSET S \subseteq T BY <1>1, <1>2, SubsetInduction
<1> QED BY <1>3 DEF T, Agree

\* Any element may be the one added last.
LEMMA AddsAny ==
  ASSUME NEW req, NEW S, IsFiniteSet(S), NEW g, Adds(req, S, g),
         \A x \in S : req[x].quantity \in Int
  PROVE  \A s \in SUBSET S : \A x \in s : g[s] = req[x].quantity + g[s \ {x}]
<1> DEFINE T == {s \in SUBSET S : \A x \in s : g[s] = req[x].quantity + g[s \ {x}]}
<1>1. {} \in T OBVIOUS
<1>2. ASSUME NEW s \in SUBSET S, s # {}, \A x \in s : s \ {x} \in T PROVE s \in T
  <2> DEFINE y == First(s)
  <2>1. y \in s BY <1>2, FirstIn
  <2>2. g[s] = req[y].quantity + g[s \ {y}] BY <1>2, AddsAt
  <2> HIDE DEF y
  <2> SUFFICES ASSUME NEW x \in s, x # y PROVE g[s] = req[x].quantity + g[s \ {x}]
    BY <2>2
  <2>3. g[s \ {y}] = req[x].quantity + g[(s \ {y}) \ {x}] BY <1>2, <2>1
  <2>4. g[s \ {x}] = req[y].quantity + g[(s \ {x}) \ {y}] BY <1>2, <2>1
  <2>5. (s \ {x}) \ {y} = (s \ {y}) \ {x} /\ (s \ {x}) \ {y} \in SUBSET S OBVIOUS
  <2>6. req[x].quantity \in Int /\ req[y].quantity \in Int /\ g[(s \ {x}) \ {y}] \in Int
    BY <2>1, <2>5, AddsInt
  <2>7. g[s] = req[y].quantity + (req[x].quantity + g[(s \ {x}) \ {y}]) BY <2>2, <2>3, <2>5
  <2> QED BY <2>4, <2>6, <2>7
<1> HIDE DEF T
<1>3. SUBSET S \subseteq T BY <1>1, <1>2, SubsetInduction
<1> QED BY <1>3 DEF T

Fold(req, S) == CHOOSE g : Adds(req, S, g)

\* There is such a function.
LEMMA AddsExists ==
  ASSUME NEW req, NEW S, IsFiniteSet(S)
  PROVE  Adds(req, S, Fold(req, S))
<1> DEFINE T == {s \in SUBSET S : \A r \in SUBSET s : Adds(req, r, Fold(req, r))}
<1>1. {} \in T
  <2>1. Adds(req, {}, [s \in SUBSET {} |-> 0]) BY DEF Adds
  <2>2. Adds(req, {}, Fold(req, {})) BY <2>1 DEF Fold
  <2> QED BY <2>2
<1>2. ASSUME NEW s \in SUBSET S, s # {}, \A x \in s : s \ {x} \in T PROVE s \in T
  <2>1. \A r \in SUBSET s : r # s => Adds(req, r, Fold(req, r))
    <3> SUFFICES ASSUME NEW r \in SUBSET s, r # s PROVE Adds(req, r, Fold(req, r)) OBVIOUS
    <3>1. PICK x \in s : x \notin r OBVIOUS
    <3>2. r \in SUBSET (s \ {x}) BY <3>1
    <3> QED BY <1>2, <3>2
  <2> DEFINE value(r) == Fold(req, r)[r]
             g == [r \in SUBSET s |->
                     IF r = {} THEN 0 ELSE req[First(r)].quantity + value(r \ {First(r)})]
  <2>2. \A r \in SUBSET s : r # s => g[r] = value(r)
    <3> SUFFICES ASSUME NEW r \in SUBSET s, r # s PROVE g[r] = value(r) OBVIOUS
    <3>1. Adds(req, r, Fold(req, r)) BY <2>1
    <3>2. CASE r = {} BY <3>1, <3>2, AddsAt
    <3>3. CASE r # {}
      <4> DEFINE t == r \ {First(r)}
      <4>1. value(r) = req[First(r)].quantity + Fold(req, r)[t] BY <3>1, <3>3, AddsAt
      <4>2. t \in SUBSET r /\ t \in SUBSET s /\ t # s BY <3>3, FirstIn
      <4>3. IsFiniteSet(t) BY <4>2, FS_Subset
      <4>4. Adds(req, t, Fold(req, t)) BY <2>1, <4>2
      <4> HIDE DEF t
      <4>5. Fold(req, t)[t] = Fold(req, r)[t]
        <5>1. Agree(t, Fold(req, t), Fold(req, r)) BY <3>1, <4>2, <4>3, <4>4, AddsAgree
        <5> QED BY <5>1 DEF Agree
      <4>6. g[r] = req[First(r)].quantity + Fold(req, t)[t] BY <3>3 DEF t
      <4> QED BY <4>1, <4>5, <4>6
    <3> QED BY <3>2, <3>3
  <2>3. \A r \in SUBSET s : r # {} =>
          r \ {First(r)} \in SUBSET s /\ r \ {First(r)} # s
    BY FirstIn
  <2>4. g = [r \in SUBSET s |->
                     IF r = {} THEN 0 ELSE req[First(r)].quantity + g[r \ {First(r)}]]
    <3> HIDE DEF value
    <3>1. \A r \in SUBSET s : r # {} => value(r \ {First(r)}) = g[r \ {First(r)}]
      BY <2>2, <2>3
    <3> QED BY <3>1
  <2> HIDE DEF g
  <2>5. Adds(req, s, g) BY <2>4 DEF Adds
  <2>6. Adds(req, s, Fold(req, s)) BY <2>5 DEF Fold
  <2> QED BY <2>1, <2>6
<1> HIDE DEF T
<1>3. SUBSET S \subseteq T BY <1>1, <1>2, SubsetInduction
<1> QED BY <1>3 DEF T

\* The sum over calls is the fold over all of them.
LEMMA SumIsFold ==
  ASSUME NEW req, NEW S, IsFiniteSet(S)
  PROVE  SumOf(req, S) = Fold(req, S)[S]
<1>1. PICK h : Adds(req, S, h) /\ SumOf(req, S) = h[S] BY AddsExists, SumIs
<1> QED BY <1>1, AddsExists, AddsAgree DEF Agree

\* The sum over no calls is 0.
LEMMA SumEmpty == ASSUME NEW req PROVE SumOf(req, {}) = 0
<1>1. IsFiniteSet({}) BY FS_EmptySet
<1> QED BY <1>1, SumIsFold, AddsExists, AddsAt

\* One call more adds its quantity, whichever call it is.
LEMMA SumOneMore ==
  ASSUME NEW req, NEW s, IsFiniteSet(s), NEW x, x \notin s,
         req[x].quantity \in Int, \A y \in s : req[y].quantity \in Int
  PROVE  /\ SumOf(req, s) \in Int
         /\ SumOf(req, s \cup {x}) = req[x].quantity + SumOf(req, s)
<1> DEFINE S == s \cup {x}
<1>1. IsFiniteSet(S) BY FS_AddElement
<1>2. S \ {x} = s /\ s \subseteq S /\ \A y \in S : req[y].quantity \in Int OBVIOUS
<1>3. Adds(req, S, Fold(req, S)) /\ Adds(req, s, Fold(req, s)) BY <1>1, AddsExists
<1>4. Fold(req, s)[s] = Fold(req, S)[s] /\ Fold(req, s)[s] \in Int
  <2> HIDE DEF S
  <2>1. Fold(req, s)[s] = Fold(req, S)[s]
    <3>1. s \subseteq S BY <1>2
    <3>2. PICK g, h : g = Fold(req, s) /\ h = Fold(req, S) OBVIOUS
    <3>3. Adds(req, s, g) /\ Adds(req, S, h) BY <1>3, <3>2
    <3>4. Agree(s, g, h) BY <3>1, <3>3, AddsAgree
    <3> QED BY <3>2, <3>4 DEF Agree
  <2>2. Fold(req, s)[s] \in Int BY <1>3, AddsInt
  <2> QED BY <2>1, <2>2
<1>5. Fold(req, S)[S] = req[x].quantity + Fold(req, S)[S \ {x}] BY <1>1, <1>2, <1>3, AddsAny
<1> QED BY <1>1, <1>2, <1>4, <1>5, SumIsFold

-----------------------------------------------------------------------------
(* Quantities wrap around.                                                 *)

\* Numbers of 32 bits that differ by a multiple of 2^32 are the same.
LEMMA WrapUnique ==
  ASSUME NEW a \in Int32, NEW b \in Int32, NEW k \in Int, a - b = k * (2 * IntHalf)
  PROVE  a = b
<1> USE IntHalfAssumption
<1> DEFINE M == 2 * IntHalf
<1>1. a - b < M /\ -M < a - b /\ M \in Nat BY DEF Int32
<1> HIDE DEF M
<1>2. CASE k >= 1
  <2>1. k * M >= M BY <1>1, <1>2
  <2> QED BY <1>1, <2>1 DEF M
<1>3. CASE k <= -1
  <2>1. k * M <= -M BY <1>1, <1>3
  <2> QED BY <1>1, <2>1 DEF M
<1>4. CASE k = 0 BY <1>4 DEF Int32
<1> QED BY <1>2, <1>3, <1>4

\* Wrapping takes multiples of 2^32 off.
LEMMA WrapTakes ==
  ASSUME NEW n \in Int
  PROVE  \E k \in Int : n - Wrap(n) = k * (2 * IntHalf)
<1> USE IntHalfAssumption
<1> DEFINE M == 2 * IntHalf
<1>1. M \in Nat \ {0} OBVIOUS
<1> HIDE DEF M
<1>2. \A a \in Int : \E k \in Int : a = k * M + (a % M)
  <2> TAKE a \in Int
  <2>1. a \div M \in Int /\ a = M * (a \div M) + (a % M) BY <1>1
  <2>2. M * (a \div M) = (a \div M) * M BY <1>1, <2>1
  <2> QED BY <2>1, <2>2
<1>3. PICK k \in Int : n + IntHalf = k * M + ((n + IntHalf) % M) BY <1>2
<1>4. (n + IntHalf) % M \in Int /\ k * M \in Int BY <1>1
<1>5. n - Wrap(n) = k * M BY <1>3, <1>4 DEF Wrap, M
<1> QED BY <1>5 DEF M

\* An int32 wraps to itself.
LEMMA WrapSame == ASSUME NEW n \in Int32 PROVE Wrap(n) = n
<1>1. n \in Int BY IntHalfAssumption DEF Int32
<1>2. PICK k \in Int : n - Wrap(n) = k * (2 * IntHalf) BY <1>1, WrapTakes
<1> QED BY <1>1, <1>2, WrapType, WrapUnique

\* Wrapping a part of a sum does not change the wrapped sum.
LEMMA WrapAdds ==
  ASSUME NEW m \in Int, NEW n \in Int
  PROVE  Wrap(Wrap(m) + n) = Wrap(m + n)
<1> DEFINE M == 2 * IntHalf
           w == Wrap(m)
           a == Wrap(w + n)
           b == Wrap(m + n)
<1>1. w \in Int32 /\ w \in Int BY WrapType, IntHalfAssumption DEF Int32
<1> HIDE DEF w
<1>2. PICK i \in Int : m - w = i * M BY WrapTakes DEF w
<1>3. a \in Int32 /\ a \in Int /\ b \in Int32 /\ b \in Int
  BY <1>1, WrapType, IntHalfAssumption DEF Int32
<1>4. PICK j \in Int : (w + n) - a = j * M BY <1>1, WrapTakes
<1>5. PICK k \in Int : (m + n) - b = k * M BY WrapTakes
<1>6. M \in Int BY IntHalfAssumption
<1> HIDE DEF M, a, b
<1>7. a - b = (k - j - i) * M
  <2>1. (k - j - i) * M = k * M - j * M - i * M BY <1>6
  <2>2. i * M \in Int /\ j * M \in Int /\ k * M \in Int BY <1>6
  <2> QED BY <1>1, <1>2, <1>3, <1>4, <1>5, <2>1, <2>2
<1>8. a = b BY <1>3, <1>7, WrapUnique DEF M
<1> QED BY <1>8 DEF a, b, w

-----------------------------------------------------------------------------
(* The lines of a cart are the sums of what its calls added.               *)

CallsFor(req, calls, p) == {c \in calls : req[c].product = p}

\* What the line of product p says when the calls have added to it.
Quantity(req, calls, p) ==
  IF CallsFor(req, calls, p) = {} THEN {}
  ELSE {Wrap(SumOf(req, CallsFor(req, calls, p)))}

QuantitiesOf(lines, p) == {line.quantity : line \in {l \in lines : l.product = p}}

\* What the line of a product says when n is added to it, or to no line.
Raised(quantities, n) ==
  IF quantities = {} THEN {n} ELSE {Wrap(m + n) : m \in quantities}

\* A cart whose lines add up, of calls whose items were stored.
AddsUp(cart, req, done) ==
  /\ IsFiniteSet(cart.units) /\ cart.units \subseteq done
  /\ \A p \in Products : QuantitiesOf(cart.lines, p) = Quantity(req, cart.units, p)

CartsAddUp ==
  /\ \A c \in added : request[c].op = "add"
  /\ \A u \in Users : AddsUp(stored[u], request, added)
  /\ \A c \in Calls : AddsUp(held[c], request, added)

\* What is stored adds up if what is stored and held does.
LEMMA AddUpLines == CartsAddUp => LinesAddUp
<1> SUFFICES ASSUME CartsAddUp, NEW u \in Users, NEW p \in Products
             PROVE  LET calls == {c \in stored[u].units : request[c].product = p}
                    IN {line.quantity : line \in LinesOf(stored[u], p)} =
                         IF calls = {} THEN {}
                         ELSE {Wrap(MapThenSumSet(LAMBDA c : request[c].quantity, calls))}
  BY DEF LinesAddUp
<1>1. QuantitiesOf(stored[u].lines, p) = Quantity(request, stored[u].units, p)
  BY DEF CartsAddUp, AddsUp
<1> QED BY <1>1, Zenon DEF QuantitiesOf, Quantity, CallsFor, LinesOf, SumOf

\* A cart without lines adds up.
LEMMA EmptyAddsUp ==
  ASSUME NEW cart, cart.lines = {}, cart.units = {}, NEW req, NEW done
  PROVE  AddsUp(cart, req, done)
BY FS_EmptySet DEF AddsUp, QuantitiesOf, Quantity, CallsFor

\* More calls may have stored their items meanwhile.
LEMMA StillAddsUp ==
  ASSUME NEW cart, NEW req, NEW done, AddsUp(cart, req, done), NEW more, done \subseteq more
  PROVE  AddsUp(cart, req, more)
BY DEF AddsUp

\* AddLine adds the quantity to the line of its product, and to no other.
LEMMA AddLineQuantities ==
  ASSUME NEW cart \in Carts, Sound(cart), NEW p \in Products, NEW n \in Int32,
         NEW q \in Products
  PROVE  /\ q # p => QuantitiesOf(AddLine(cart, p, n), q) = QuantitiesOf(cart.lines, q)
         /\ q = p => QuantitiesOf(AddLine(cart, p, n), q) =
                       Raised(QuantitiesOf(cart.lines, q), n)
<1> DEFINE old == LinesOf(cart, p)
<1>1. cart.lines \in SUBSET Lines /\ old \subseteq cart.lines
  BY DEF Carts, LinesOf
<1>2. CASE old = {}
  <2> DEFINE new == [product |-> p, quantity |-> n]
  <2>1. AddLine(cart, p, n) = cart.lines \cup {new} BY <1>2 DEF AddLine
  <2>2. \A line \in cart.lines : line.product # p BY <1>2 DEF LinesOf
  <2>3. new.product = p /\ new.quantity = n OBVIOUS
  <2> HIDE DEF new
  <2>4. CASE q # p
    <3>1. {l \in AddLine(cart, p, n) : l.product = q} = {l \in cart.lines : l.product = q}
      BY <2>1, <2>3, <2>4
    <3> QED BY <2>4, <3>1 DEF QuantitiesOf
  <2>5. CASE q = p
    <3>1. {l \in AddLine(cart, p, n) : l.product = q} = {new} BY <2>1, <2>2, <2>3, <2>5
    <3>2. Raised(QuantitiesOf(cart.lines, p), n) = {n}
      BY <2>2 DEF QuantitiesOf, Raised
    <3>3. QuantitiesOf(AddLine(cart, p, n), q) = {new.quantity}
      BY <3>1 DEF QuantitiesOf
    <3> QED BY <2>3, <2>5, <3>2, <3>3
  <2> QED BY <2>4, <2>5
<1>3. CASE old # {}
  <2>1. PICK one \in old : old = {one} BY <1>3 DEF Sound, Single
  <2> DEFINE new == [one EXCEPT !.quantity = Wrap(@ + n)]
  <2>2. one \in Lines /\ one.product = p BY <1>1, <2>1 DEF LinesOf
  <2>3. new.product = p /\ new.quantity = Wrap(one.quantity + n) BY <2>2 DEF Lines
  <2>4. AddLine(cart, p, n) = (cart.lines \ old) \cup {new}
    BY <1>3, <2>1 DEF AddLine
  <2>5. \A line \in cart.lines \ old : line.product # p BY DEF LinesOf
  <2>6. {l \in cart.lines : l.product = p} = {one} BY <2>1 DEF LinesOf
  <2> HIDE DEF new
  <2>7. CASE q # p
    <3>1. {l \in AddLine(cart, p, n) : l.product = q} = {l \in cart.lines : l.product = q}
      BY <2>3, <2>4, <2>7 DEF LinesOf
    <3> QED BY <2>7, <3>1 DEF QuantitiesOf
  <2>8. CASE q = p
    <3>1. {l \in AddLine(cart, p, n) : l.product = q} = {new} BY <2>3, <2>4, <2>5, <2>8
    <3>2. QuantitiesOf(cart.lines, p) = {one.quantity} BY <2>6 DEF QuantitiesOf
    <3>3. QuantitiesOf(AddLine(cart, p, n), q) = {new.quantity}
      BY <3>1 DEF QuantitiesOf
    <3>4. Raised({one.quantity}, n) = {Wrap(one.quantity + n)} BY DEF Raised
    <3> QED BY <2>3, <2>8, <3>2, <3>3, <3>4
  <2> QED BY <2>7, <2>8
<1> QED BY <1>2, <1>3

\* One call more adds its quantity to what the line of its product says.
LEMMA QuantityOneMore ==
  ASSUME NEW req, NEW calls, IsFiniteSet(calls), NEW c, c \notin calls,
         req[c].quantity \in Int32, \A d \in calls : req[d].quantity \in Int32,
         NEW q
  PROVE  /\ q # req[c].product =>
              Quantity(req, calls \cup {c}, q) = Quantity(req, calls, q)
         /\ q = req[c].product =>
              Quantity(req, calls \cup {c}, q) =
                Raised(Quantity(req, calls, q), req[c].quantity)
<1> DEFINE n == req[c].quantity
           before == CallsFor(req, calls, q)
           sum == SumOf(req, before)
<1>1. before \subseteq calls /\ IsFiniteSet(before) /\ c \notin before
  BY FS_Subset DEF CallsFor
<1>2. n \in Int /\ \A d \in before : req[d].quantity \in Int
  BY <1>1, IntHalfAssumption DEF Int32
<1>3. CASE q # req[c].product
  <2>1. CallsFor(req, calls \cup {c}, q) = before BY <1>3 DEF CallsFor
  <2> QED BY <1>3, <2>1 DEF Quantity
<1>4. CASE q = req[c].product
  <2>1. CallsFor(req, calls \cup {c}, q) = before \cup {c} BY <1>4 DEF CallsFor
  <2> HIDE DEF before
  <2>2. /\ sum \in Int
        /\ SumOf(req, before \cup {c}) = n + sum
    BY <1>1, <1>2, SumOneMore
  <2>3. Quantity(req, calls \cup {c}, q) = {Wrap(n + sum)}
    BY <2>1, <2>2 DEF Quantity
  <2>4. CASE before = {}
    <3>1. sum = 0 BY <2>4, SumEmpty
    <3>2. Raised(Quantity(req, calls, q), n) = {n}
      BY <2>4 DEF Quantity, before, Raised
    <3>3. Wrap(n + sum) = n BY <1>2, <3>1, WrapSame
    <3> QED BY <1>4, <2>3, <3>2, <3>3
  <2>5. CASE before # {}
    <3>1. Quantity(req, calls, q) = {Wrap(sum)} BY <2>5 DEF Quantity, before
    <3>2. Wrap(Wrap(sum) + n) = Wrap(n + sum)
      <4>1. sum + n = n + sum BY <1>2, <2>2
      <4> QED BY <1>2, <2>2, <4>1, WrapAdds
    <3>3. Raised({Wrap(sum)}, n) = {Wrap(Wrap(sum) + n)} BY DEF Raised
    <3> QED BY <1>4, <2>3, <3>1, <3>2, <3>3
  <2> QED BY <2>4, <2>5
<1> QED BY <1>3, <1>4

\* What a call writes adds up when what it has read does and its item is not in it.
LEMMA WrittenAddsUp ==
  ASSUME IInv, CartsAddUp, NEW c \in Calls, c \notin added,
         request[c].op = "add" => Addable(c),
         NEW more, more = IF request[c].op = "add" THEN added \cup {c} ELSE added
  PROVE  AddsUp(Written(c), request, more)
<1>1. CASE request[c].op # "add"
  <2>1. Written(c) = EmptyCart BY <1>1 DEF Written
  <2> QED BY <2>1, EmptyAddsUp DEF EmptyCart
<1>2. CASE request[c].op = "add"
  <2> DEFINE base == IF held[c] = None THEN NewCart(request[c].user) ELSE held[c]
             p == request[c].product
             n == request[c].quantity
             lines == AddLine(base, p, n)
             units == base.units \cup {c}
  <2>1. request[c].user \in Users /\ p \in Products /\ n \in Int32
    BY <1>2, RequestTypes DEF IInv
  <2>2. base \in Carts /\ Sound(base)
    <3>1. held[c] \in Carts \cup {None} /\ Sound(held[c])
      BY DEF IInv, TypeOK, AllSound
    <3>2. NewCart(request[c].user) \in Carts /\ Sound(NewCart(request[c].user))
      BY <2>1 DEF NewCart, Carts, Sound, LinesOf, Single
    <3> QED BY <3>1, <3>2
  <2>3. AddsUp(base, request, added)
    <3>1. AddsUp(NewCart(request[c].user), request, added)
      BY EmptyAddsUp DEF NewCart
    <3> QED BY <3>1 DEF CartsAddUp
  <2>4. IsFiniteSet(base.units) /\ base.units \subseteq added /\ c \notin base.units
    BY <2>3 DEF AddsUp
  <2>5. \A d \in base.units : request[d].quantity \in Int32
    <3> TAKE d \in base.units
    <3>1. d \in Calls /\ request[d].op = "add"
      BY <2>4 DEF CartsAddUp, IInv, TypeOK
    <3> QED BY <3>1, RequestTypes DEF IInv
  <2>6. Written(c) = [base EXCEPT !.lines = lines, !.units = @ \cup {c}]
    BY <1>2 DEF Written, WithItem
  <2> HIDE DEF base
  <2>7. Written(c).lines = lines /\ Written(c).units = units
    BY <2>2, <2>6 DEF Carts
  <2>8. ASSUME NEW q \in Products
        PROVE  QuantitiesOf(lines, q) = Quantity(request, units, q)
    <3>1. QuantitiesOf(base.lines, q) = Quantity(request, base.units, q)
          /\ QuantitiesOf(base.lines, p) = Quantity(request, base.units, p)
      BY <2>1, <2>3, <2>8 DEF AddsUp
    <3>2. CASE q # p
      <4>1. QuantitiesOf(lines, q) = QuantitiesOf(base.lines, q)
        BY <2>1, <2>2, <2>8, <3>2, AddLineQuantities
      <4>2. Quantity(request, units, q) = Quantity(request, base.units, q)
        BY <2>1, <2>4, <2>5, <3>2, QuantityOneMore
      <4> QED BY <3>1, <4>1, <4>2
    <3>3. CASE q = p
      <4>1. QuantitiesOf(lines, q) = Raised(QuantitiesOf(base.lines, q), n)
        BY <2>1, <2>2, <2>8, <3>3, AddLineQuantities
      <4>2. Quantity(request, units, q) = Raised(Quantity(request, base.units, q), n)
        BY <2>1, <2>4, <2>5, <3>3, QuantityOneMore
      <4> QED BY <3>1, <4>1, <4>2
    <3> QED BY <3>2, <3>3
  <2>9. IsFiniteSet(units) BY <2>4, FS_AddElement
  <2> HIDE DEF lines
  <2> QED BY <1>2, <2>4, <2>7, <2>8, <2>9 DEF AddsUp
<1> QED BY <1>1, <1>2

\* A store, whether its call then succeeds or fails.
LEMMA StoreAddsUp ==
  ASSUME IInv, CartsAddUp, NEW c \in Calls, at[c] = "HashSet", Running(c),
         request[c].op = "add" => Addable(c),
         HashSet(request[c].user, Written(c)),
         added' = IF request[c].op = "add" THEN added \cup {c} ELSE added,
         UNCHANGED <<request, held>>
  PROVE  CartsAddUp'
<1>1. c \notin added BY DEF IInv, StoredCalls, Running
<1>2. AddsUp(Written(c), request, added') BY <1>1, WrittenAddsUp
<1>3. request[c].user \in Users BY RequestTypes DEF IInv
<1>4. \A u \in Users :
        stored'[u] = IF u = request[c].user THEN Written(c) ELSE stored[u]
  BY <1>3 DEF HashSet, IInv, TypeOK
<1>5. added \subseteq added' OBVIOUS
<1>6. \A u \in Users : AddsUp(stored'[u], request, added')
  <2> TAKE u \in Users
  <2>1. AddsUp(stored[u], request, added') BY <1>5, StillAddsUp DEF CartsAddUp
  <2> QED BY <1>2, <1>4, <2>1
<1>7. \A d \in Calls : AddsUp(held[d], request, added')
  BY <1>5, StillAddsUp DEF CartsAddUp
<1>8. \A d \in added' : request[d].op = "add" BY DEF CartsAddUp
<1>9. /\ \A u \in Users : AddsUp(stored'[u], request', added')
      /\ \A d \in Calls : AddsUp(held'[d], request', added')
      /\ \A d \in added' : request'[d].op = "add"
  BY <1>6, <1>7, <1>8
<1> QED BY <1>9 DEF CartsAddUp

\* A step that stores nothing: a call may read a cart, and carts may be lost.
LEMMA KeepsAddUp ==
  ASSUME CartsAddUp, UNCHANGED <<request, added>>,
         \A u \in Users : stored'[u] \in {stored[u], None},
         \A c \in Calls : held'[c] = held[c] \/ \E u \in Users : held'[c] = stored[u]
  PROVE  CartsAddUp'
<1>1. AddsUp(None, request, added) BY EmptyAddsUp DEF None
<1>2. /\ \A u \in Users : AddsUp(stored'[u], request', added')
      /\ \A d \in Calls : AddsUp(held'[d], request', added')
      /\ \A d \in added' : request'[d].op = "add"
  BY <1>1 DEF CartsAddUp
<1> QED BY <1>2 DEF CartsAddUp

\* No lines add up at first.
LEMMA AddUpInit == Init => CartsAddUp
<1> SUFFICES ASSUME Init PROVE CartsAddUp OBVIOUS
<1>1. AddsUp(None, request, added) BY EmptyAddsUp DEF None
<1> QED BY <1>1 DEF Init, CartsAddUp

\* Every command keeps lines the sums of the calls in them.
LEMMA AddUpNext == IInv /\ CartsAddUp /\ [Next]_vars => CartsAddUp'
<1> SUFFICES ASSUME IInv, CartsAddUp, [Next]_vars PROVE CartsAddUp' OBVIOUS
<1>1. ASSUME NEW c \in Calls, Begin(c) \/ SetExpiry(c) PROVE CartsAddUp'
  BY <1>1, KeepsAddUp DEF Begin, SetExpiry, KeyExpire
<1>2. ASSUME NEW c \in Calls, GetHash(c) PROVE CartsAddUp'
  <2>1. request[c].user \in Users BY RequestTypes DEF IInv
  <2>2. \A d \in Calls : held'[d] = held[d] \/ held'[d] = stored[request[c].user]
    BY <1>2 DEF GetHash, IInv, TypeOK
  <2> QED BY <1>2, <2>1, <2>2, KeepsAddUp DEF GetHash
<1>3. ASSUME NEW c \in Calls, SetHash(c) PROVE CartsAddUp'
  BY <1>3, StoreAddsUp DEF SetHash
<1>4. ASSUME NEW c \in Calls, Fail(c) PROVE CartsAddUp'
  <2>1. CASE /\ at[c] = "HashSet" /\ (request[c].op = "add" => Addable(c))
             /\ HashSet(request[c].user, Written(c))
             /\ added' = IF request[c].op = "add" THEN added \cup {c} ELSE added
    BY <1>4, <2>1, StoreAddsUp DEF Fail
  <2>2. CASE UNCHANGED <<stored, added>> BY <1>4, <2>2, KeepsAddUp DEF Fail
  <2> QED BY <1>4, <2>1, <2>2 DEF Fail, KeyExpire
<1>5. ASSUME NEW users \in SUBSET Users, Lose(users) PROVE CartsAddUp'
  BY <1>5, KeepsAddUp DEF Lose
<1>6. CASE UNCHANGED vars BY <1>6, KeepsAddUp DEF vars
<1> QED BY <1>1, <1>2, <1>3, <1>4, <1>5, <1>6 DEF Next

\* The lines of a stored cart are the sums of what the AddItem calls in it added,
\* 32 bits wide, however calls interleave, fail and are overwritten: no quantity
\* is counted twice, and none without its call.
THEOREM LinesAlwaysAddUp == Spec => []LinesAddUp
<1>1. Spec => [](IInv /\ CartsAddUp)
  BY InvInit, InvNext, AddUpInit, AddUpNext, PTL DEF Spec
<1> QED BY <1>1, AddUpLines, PTL

-----------------------------------------------------------------------------
(* CartConnection.  The argument keeps books: every connection, every      *)
(* failure event not yet handled, and the right to open one more           *)
(* connection (Credit) are paid for by one fault each, but for the first.  *)

\* Where the holder of the lock is.
Stage == IF lock = Nobody THEN "free" ELSE thread[lock]

\* Only the holder of the lock is inside.
OneInside == \A c \in Threads : thread[c] \in Inside <=> lock = c

\* The handlers of a connection are set one after the other, under the lock.
HandlersInv ==
  /\ Stage \in {"free", "connect"} => onRestored = onFailed
  /\ Stage \in {"test", "restored"} =>
       current # 0 /\ onRestored = onFailed /\ current \notin onFailed
  /\ Stage = "failed" =>
       current # 0 /\ onRestored = onFailed \cup {current} /\ current \notin onFailed
  /\ Stage = "open" =>
       current # 0 /\ onRestored = onFailed /\ current \in onFailed

\* Events are of connections with handlers, and a new fault makes a new event.
EventsInv ==
  /\ IsFiniteSet(events)
  /\ \A e \in events : e.of \in onRestored /\ e.fault <= faults

\* Nothing sets the flag before a connection was tested.
OpenedInv == opened => onRestored # {}

Failures == {e \in events : e.kind = "failed"}

\* One more connection may be opened without a further fault.
Credit ==
  IF \/ Stage = "connect"
     \/ Stage = "test" /\ current \notin up
     \/ Stage = "free" /\ ~(opened /\ current \in onFailed)
  THEN 1 ELSE 0

Books == current + Cardinality(Failures) + Credit <= 1 + faults

ConnectionInv == ConnectionTypeOK /\ OneInside /\ HandlersInv /\ EventsInv /\ OpenedInv /\ Books

-----------------------------------------------------------------------------
(* The stages.                                                             *)

\* A thread that is inside holds the lock.
LEMMA HolderStage ==
  ASSUME OneInside, NEW c \in Threads, thread[c] \in Inside
  PROVE  lock = c /\ Stage = thread[c] /\ lock # Nobody
BY ThreadsAssumption DEF OneInside, Stage

\* A call outside the lock moves, and stays outside.
LEMMA OutsideMoves ==
  ASSUME ConnectionTypeOK, OneInside, NEW c \in Threads, NEW place \in {"idle", "wait", "use"},
         thread[c] \in {"idle", "wait", "use"}, Move(c, place), lock' = lock
  PROVE  OneInside' /\ Stage' = Stage
<1>1. lock # c BY DEF OneInside, Inside
<1>2. thread' = [thread EXCEPT ![c] = place] BY DEF Move
<1>3. \A d \in Threads : d # c => thread'[d] = thread[d] BY <1>2 DEF ConnectionTypeOK
<1>4. thread'[c] = place BY <1>2 DEF ConnectionTypeOK
<1>5. OneInside' BY <1>1, <1>3, <1>4 DEF OneInside, Inside
<1>6. Stage' = Stage BY <1>1, <1>3 DEF Stage, ConnectionTypeOK
<1> QED BY <1>5, <1>6

\* The holder of the lock moves on, inside.
LEMMA InsideMoves ==
  ASSUME ConnectionTypeOK, OneInside, NEW c \in Threads, NEW place \in Inside,
         thread[c] \in Inside, Move(c, place), lock' = lock
  PROVE  OneInside' /\ Stage = thread[c] /\ Stage' = place
<1>1. lock = c /\ Stage = thread[c] /\ lock # Nobody BY HolderStage
<1>2. thread' = [thread EXCEPT ![c] = place] BY DEF Move
<1>3. \A d \in Threads : d # c => thread'[d] = thread[d] BY <1>2 DEF ConnectionTypeOK
<1>4. thread'[c] = place BY <1>2 DEF ConnectionTypeOK
<1>5. OneInside' BY <1>1, <1>3, <1>4 DEF OneInside
<1>6. Stage' = place BY <1>1, <1>4 DEF Stage
<1> QED BY <1>1, <1>5, <1>6

\* The holder of the lock releases it.
LEMMA Leaves ==
  ASSUME ConnectionTypeOK, OneInside, NEW c \in Threads, NEW place \in {"idle", "use"},
         thread[c] \in Inside, Move(c, place), lock' = Nobody
  PROVE  OneInside' /\ Stage = thread[c] /\ Stage' = "free"
<1>1. lock = c /\ Stage = thread[c] BY HolderStage
<1>2. thread' = [thread EXCEPT ![c] = place] BY DEF Move
<1>3. \A d \in Threads : d # c => thread'[d] = thread[d] BY <1>2 DEF ConnectionTypeOK
<1>4. thread'[c] = place BY <1>2 DEF ConnectionTypeOK
<1>5. \A d \in Threads : thread'[d] \notin Inside
  BY <1>1, <1>3, <1>4 DEF OneInside, Inside
<1>6. OneInside' BY <1>5, ThreadsAssumption DEF OneInside
<1>7. Stage' = "free" BY DEF Stage
<1> QED BY <1>1, <1>6, <1>7

\* A call gets the free lock.
LEMMA Enters ==
  ASSUME ConnectionTypeOK, OneInside, NEW c \in Threads, lock = Nobody, lock' = c,
         Move(c, "connect")
  PROVE  OneInside' /\ Stage = "free" /\ Stage' = "connect"
<1>1. thread' = [thread EXCEPT ![c] = "connect"] BY DEF Move
<1>2. \A d \in Threads : d # c => thread'[d] = thread[d] BY <1>1 DEF ConnectionTypeOK
<1>3. thread'[c] = "connect" BY <1>1 DEF ConnectionTypeOK
<1>4. \A d \in Threads : thread[d] \notin Inside BY ThreadsAssumption DEF OneInside
<1>5. OneInside' BY <1>2, <1>3, <1>4 DEF OneInside, Inside
<1>6. c # Nobody BY ThreadsAssumption
<1>7. Stage = "free" /\ Stage' = "connect" BY <1>3, <1>6 DEF Stage
<1> QED BY <1>5, <1>7

\* The client library moves no call.
LEMMA StageUntouched ==
  ASSUME OneInside, UNCHANGED <<thread, lock>> PROVE OneInside' /\ Stage' = Stage
BY DEF OneInside, Stage

-----------------------------------------------------------------------------
(* The steps.                                                              *)

\* The failures that are not yet handled can be counted.
LEMMA CountType == ASSUME EventsInv PROVE Cardinality(Failures) \in Nat
<1>1. Failures \subseteq events BY DEF Failures
<1>2. IsFiniteSet(Failures) BY <1>1, FS_Subset DEF EventsInv
<1> QED BY <1>2, FS_CardinalityType

\* Without new events the books are kept if nothing is spent twice.
LEMMA SameEvents ==
  ASSUME ConnectionTypeOK, EventsInv, Books, events' = events, faults' \in Nat, current' \in Nat,
         current' + Credit' + faults <= current + Credit + faults'
  PROVE  Books'
<1>1. Failures' = Failures BY DEF Failures
<1>2. Cardinality(Failures) \in Nat /\ current \in Nat /\ faults \in Nat
  BY CountType, MaxFaultsAssumption DEF ConnectionTypeOK, Connections
<1>3. Credit \in Nat /\ Credit' \in Nat BY DEF Credit
<1>4. current + Cardinality(Failures) + Credit <= 1 + faults BY DEF Books
<1>5. \A c, d, k, l, n, f, g \in Nat :
        c + n + k <= 1 + f /\ d + l + f <= c + k + g => d + n + l <= 1 + g
  OBVIOUS
<1>6. current' + Cardinality(Failures) + Credit' <= 1 + faults'
  BY <1>2, <1>3, <1>4, <1>5
<1> QED BY <1>1, <1>6 DEF Books

\* Nothing is connected, and nothing is spent.
LEMMA ConnectionInvInit == ConnectionInit => ConnectionInv
<1> SUFFICES ASSUME ConnectionInit PROVE ConnectionInv OBVIOUS
<1> USE DEF ConnectionInit
<1>1. ConnectionTypeOK
  <2>1. thread \in [Threads -> {"idle", "wait", "use"} \cup Inside] OBVIOUS
  <2>2. faults \in 0..MaxFaults BY MaxFaultsAssumption
  <2>3. events \subseteq Events /\ up \subseteq 1..current OBVIOUS
  <2>4. onRestored \subseteq 1..current /\ onFailed \subseteq onRestored OBVIOUS
  <2> QED BY <2>1, <2>2, <2>3, <2>4 DEF ConnectionTypeOK
<1>2. OneInside BY ThreadsAssumption DEF OneInside, Inside
<1>3. Stage = "free" BY DEF Stage
<1>4. HandlersInv /\ OpenedInv BY <1>3 DEF HandlersInv, OpenedInv
<1>5. EventsInv BY FS_EmptySet DEF EventsInv
<1>6. Failures = {} BY DEF Failures
<1>7. Cardinality(Failures) = 0 BY <1>6, FS_EmptySet
<1>8. Credit <= 1 /\ Credit \in Nat BY DEF Credit
<1>9. Books BY <1>7, <1>8 DEF Books
<1> QED BY <1>1, <1>2, <1>4, <1>5, <1>9 DEF ConnectionInv

\* A call outside the lock touches nothing that the invariant is about.
LEMMA OutsideKeeps ==
  ASSUME ConnectionInv, NEW c \in Threads, NEW place \in {"idle", "wait", "use"},
         thread[c] \in {"idle", "wait", "use"}, Move(c, place),
         UNCHANGED <<lock, storeVars, linkVars>>
  PROVE  ConnectionInv'
<1> USE DEF ConnectionInv, storeVars, linkVars
<1>1. OneInside' /\ Stage' = Stage BY OutsideMoves
<1>2. ConnectionTypeOK' BY DEF ConnectionTypeOK, Move
<1>3. HandlersInv' BY <1>1 DEF HandlersInv
<1>4. EventsInv' /\ OpenedInv' BY DEF EventsInv, OpenedInv
<1>5. Credit' = Credit /\ Failures' = Failures BY <1>1 DEF Credit, Failures
<1>6. Books' BY <1>5 DEF Books
<1> QED BY <1>1, <1>2, <1>3, <1>4, <1>6

\* A thread that gets the lock, or finds the flag set meanwhile, keeps the books.
LEMMA EnterKeeps == ASSUME ConnectionInv, NEW c \in Threads, Enter(c) PROVE ConnectionInv'
<1>1. CASE opened /\ UNCHANGED lock /\ Move(c, "use")
  BY <1>1, OutsideKeeps DEF Enter
<1>2. CASE ~opened /\ lock' = c /\ Move(c, "connect")
  <2> USE DEF ConnectionInv, Enter, storeVars, linkVars
  <2>1. OneInside' /\ Stage = "free" /\ Stage' = "connect" BY <1>2, Enters
  <2>2. ConnectionTypeOK' BY <1>2 DEF ConnectionTypeOK, Move, Inside
  <2>3. HandlersInv' BY <2>1 DEF HandlersInv
  <2>4. EventsInv' /\ OpenedInv' BY DEF EventsInv, OpenedInv
  <2>5. Credit' = Credit BY <1>2, <2>1 DEF Credit
  <2>6. Failures' = Failures BY DEF Failures
  <2>7. Books' BY <2>5, <2>6 DEF Books
  <2> QED BY <2>1, <2>2, <2>3, <2>4, <2>7
<1> QED BY <1>1, <1>2 DEF Enter

\* A new connection is paid for by the credit.
LEMMA ConnectKeeps == ASSUME ConnectionInv, NEW c \in Threads, Connect(c) PROVE ConnectionInv'
<1> USE DEF Connect
<1>1. OneInside' /\ Stage = "connect" /\ Stage' = "test"
  BY InsideMoves DEF ConnectionInv, Inside
<1>2. current \in Nat /\ faults \in Nat /\ MaxFaults \in Nat
  BY MaxFaultsAssumption DEF ConnectionInv, ConnectionTypeOK, Connections
<1>3. Credit = 1 BY <1>1 DEF Credit
<1>4. current' = current + 1 /\ current' \in Nat BY <1>2
<1>5. \/ current' \in up' /\ up' = up \cup {current'} /\ faults' = faults
      \/ up' = up /\ faults' = faults + 1 /\ faults < MaxFaults
  BY DEF Fault
<1>6. faults' \in Nat BY <1>2, <1>5
<1>7. Credit' = 0 \/ Credit' = 1 BY DEF Credit
<1>8. current' + Credit' + faults <= current + Credit + faults'
  <2>1. CASE current' \in up' /\ faults' = faults
    <3>1. Credit' = 0 BY <1>1, <2>1 DEF Credit
    <3> QED BY <1>2, <1>3, <1>4, <2>1, <3>1
  <2>2. CASE faults' = faults + 1 BY <1>2, <1>3, <1>4, <1>7, <2>2
  <2> QED BY <1>5, <2>1, <2>2
<1>9. Books' BY <1>4, <1>6, <1>8, SameEvents DEF ConnectionInv
<1>10. current' <= MaxFaults + 1
  <2>1. current + Cardinality(Failures) + 1 <= 1 + faults BY <1>3 DEF ConnectionInv, Books
  <2>2. Cardinality(Failures) \in Nat BY CountType DEF ConnectionInv
  <2>3. faults <= MaxFaults BY DEF ConnectionInv, ConnectionTypeOK
  <2> QED BY <1>2, <1>4, <2>1, <2>2, <2>3
<1>11. ConnectionTypeOK'
  <2>1. current' \in Connections BY <1>2, <1>4, <1>10 DEF Connections
  <2>2. 1..current \subseteq 1..current' BY <1>2, <1>4
  <2>3. up' \subseteq 1..current'
    <3>1. current' \in 1..current' BY <1>2, <1>4
    <3>2. up \subseteq 1..current' BY <2>2 DEF ConnectionInv, ConnectionTypeOK
    <3> QED BY <1>5, <3>1, <3>2
  <2>4. faults' \in 0..MaxFaults BY <1>2, <1>5 DEF ConnectionInv, ConnectionTypeOK
  <2> QED BY <2>1, <2>2, <2>3, <2>4 DEF ConnectionInv, ConnectionTypeOK, Move, Inside
<1>12. HandlersInv'
  <2>1. current' \notin onFailed BY <1>2, <1>4 DEF ConnectionInv, ConnectionTypeOK
  <2>2. onRestored = onFailed BY <1>1 DEF ConnectionInv, HandlersInv
  <2> QED BY <1>1, <1>2, <1>4, <2>1, <2>2 DEF HandlersInv
<1>13. EventsInv'
  <2>1. \A e \in events : e.fault \in Nat BY DEF ConnectionInv, ConnectionTypeOK, Events
  <2> QED BY <1>2, <1>5, <2>1 DEF ConnectionInv, EventsInv
<1>14. OpenedInv' BY DEF ConnectionInv, OpenedInv
<1> QED BY <1>1, <1>9, <1>11, <1>12, <1>13, <1>14 DEF ConnectionInv

\* A test that succeeds keeps the books.
LEMMA TestKeeps == ASSUME ConnectionInv, NEW c \in Threads, Test(c) PROVE ConnectionInv'
<1> USE DEF ConnectionInv, Test, storeVars, linkVars
<1>1. OneInside' /\ Stage = "test" /\ Stage' = "restored" BY InsideMoves DEF Inside
<1>2. ConnectionTypeOK' BY DEF ConnectionTypeOK, Move, Inside
<1>3. HandlersInv' BY <1>1 DEF HandlersInv
<1>4. EventsInv' /\ OpenedInv' BY DEF EventsInv, OpenedInv
<1>5. Credit = 0 /\ Credit' = 0 BY <1>1 DEF Credit
<1>6. Failures' = Failures BY DEF Failures
<1>7. Books' BY <1>5, <1>6 DEF Books
<1> QED BY <1>1, <1>2, <1>3, <1>4, <1>7

\* A test that fails leaves the lock, and the credit for another connection.
LEMMA ThrowKeeps == ASSUME ConnectionInv, NEW c \in Threads, Throw(c) PROVE ConnectionInv'
<1> USE DEF ConnectionInv, Throw, storeVars
<1>1. OneInside' /\ Stage = "test" /\ Stage' = "free" BY Leaves DEF Inside
<1>2. faults \in Nat /\ current \in Nat /\ MaxFaults \in Nat
  BY MaxFaultsAssumption DEF ConnectionTypeOK, Connections
<1>3. \/ current \notin up /\ faults' = faults
      \/ faults < MaxFaults /\ faults' = faults + 1
  BY DEF Fault
<1>4. ConnectionTypeOK'
  <2>1. faults' \in 0..MaxFaults BY <1>2, <1>3 DEF ConnectionTypeOK
  <2> QED BY <2>1 DEF ConnectionTypeOK, Move
<1>5. HandlersInv' BY <1>1 DEF HandlersInv
<1>6. EventsInv'
  <2>1. \A e \in events : e.fault \in Nat BY DEF ConnectionTypeOK, Events
  <2> QED BY <1>2, <1>3, <2>1 DEF EventsInv
<1>7. OpenedInv' BY DEF OpenedInv
<1>8. Credit' = 0 \/ Credit' = 1 BY DEF Credit
<1>9. Credit = 0 \/ Credit = 1 BY DEF Credit
<1>10. current' + Credit' + faults <= current + Credit + faults'
  <2>1. CASE current \notin up /\ faults' = faults
    <3>1. Credit = 1 BY <1>1, <2>1 DEF Credit
    <3> QED BY <1>2, <1>8, <2>1, <3>1
  <2>2. CASE faults' = faults + 1 BY <1>2, <1>8, <1>9, <2>2
  <2> QED BY <1>3, <2>1, <2>2
<1>11. faults' \in Nat /\ current' \in Nat BY <1>2, <1>3
<1>12. Books' BY <1>10, <1>11, SameEvents
<1> QED BY <1>1, <1>4, <1>5, <1>6, <1>7, <1>12

\* Setting the first handler keeps the books.
LEMMA HandleRestoredKeeps ==
  ASSUME ConnectionInv, NEW c \in Threads, HandleRestored(c) PROVE ConnectionInv'
<1> USE DEF ConnectionInv, HandleRestored, linkVars
<1>1. OneInside' /\ Stage = "restored" /\ Stage' = "failed" BY InsideMoves DEF Inside
<1>2. current # 0 /\ onRestored = onFailed /\ current \notin onFailed
  BY <1>1 DEF HandlersInv
<1>3. ConnectionTypeOK'
  <2>1. current \in 1..current
    BY <1>2, MaxFaultsAssumption DEF ConnectionTypeOK, Connections
  <2>2. onRestored' \subseteq 1..current' /\ onFailed' \subseteq onRestored'
    BY <2>1 DEF ConnectionTypeOK
  <2> QED BY <2>2 DEF ConnectionTypeOK, Move, Inside
<1>4. HandlersInv' BY <1>1, <1>2 DEF HandlersInv
<1>5. EventsInv' /\ OpenedInv' BY DEF EventsInv, OpenedInv
<1>6. Credit = 0 /\ Credit' = 0 BY <1>1 DEF Credit
<1>7. Failures' = Failures BY DEF Failures
<1>8. Books' BY <1>6, <1>7 DEF Books
<1> QED BY <1>1, <1>3, <1>4, <1>5, <1>8

\* Setting the second handler keeps the books.
LEMMA HandleFailedKeeps ==
  ASSUME ConnectionInv, NEW c \in Threads, HandleFailed(c) PROVE ConnectionInv'
<1> USE DEF ConnectionInv, HandleFailed, linkVars
<1>1. OneInside' /\ Stage = "failed" /\ Stage' = "open" BY InsideMoves DEF Inside
<1>2. current # 0 /\ onRestored = onFailed \cup {current} /\ current \notin onFailed
  BY <1>1 DEF HandlersInv
<1>3. ConnectionTypeOK' BY <1>2 DEF ConnectionTypeOK, Move, Inside
<1>4. HandlersInv' BY <1>1, <1>2 DEF HandlersInv
<1>5. EventsInv' /\ OpenedInv' BY DEF EventsInv, OpenedInv
<1>6. Credit = 0 /\ Credit' = 0 BY <1>1 DEF Credit
<1>7. Failures' = Failures BY DEF Failures
<1>8. Books' BY <1>6, <1>7 DEF Books
<1> QED BY <1>1, <1>3, <1>4, <1>5, <1>8

\* Setting the flag keeps the books.
LEMMA OpenKeeps == ASSUME ConnectionInv, NEW c \in Threads, Open(c) PROVE ConnectionInv'
<1> USE DEF ConnectionInv, Open, linkVars
<1>1. OneInside' /\ Stage = "open" /\ Stage' = "free" BY Leaves DEF Inside
<1>2. onRestored = onFailed /\ current \in onFailed BY <1>1 DEF HandlersInv
<1>3. ConnectionTypeOK' BY DEF ConnectionTypeOK, Move
<1>4. HandlersInv' BY <1>1, <1>2 DEF HandlersInv
<1>5. EventsInv' /\ OpenedInv' BY <1>2 DEF EventsInv, OpenedInv
<1>6. Credit = 0 /\ Credit' = 0 BY <1>1, <1>2 DEF Credit
<1>7. Failures' = Failures BY DEF Failures
<1>8. Books' BY <1>6, <1>7 DEF Books
<1> QED BY <1>1, <1>3, <1>4, <1>5, <1>8

-----------------------------------------------------------------------------
(* The steps of the client library.                                        *)

\* A link that breaks pays for the event it raises.
LEMMA BreakKeeps == ASSUME ConnectionInv, NEW conn \in Connections, Break(conn) PROVE ConnectionInv'
<1> USE DEF ConnectionInv, Break, storeVars
<1>1. OneInside' /\ Stage' = Stage BY StageUntouched
<1>2. /\ faults \in Nat /\ current \in Nat /\ MaxFaults \in Nat
      /\ faults < MaxFaults /\ faults' = faults + 1
  BY MaxFaultsAssumption DEF ConnectionTypeOK, Connections, Fault
<1>3. \A e \in events : e.fault \in Nat /\ e.fault <= faults
  BY DEF ConnectionTypeOK, Events, EventsInv
<1> DEFINE new == [kind |-> "failed", of |-> conn, fault |-> faults']
<1>4. \/ conn \in onFailed /\ events' = events \cup {new}
      \/ conn \notin onFailed /\ events' = events
  BY DEF Raise
<1>5. ConnectionTypeOK'
  <2>1. faults' \in 0..MaxFaults BY <1>2
  <2>2. new \in Events BY <2>1 DEF Events
  <2>3. events' \subseteq Events BY <1>4, <2>2 DEF ConnectionTypeOK
  <2>4. up' \subseteq 1..current' BY DEF ConnectionTypeOK
  <2> QED BY <2>1, <2>3, <2>4 DEF ConnectionTypeOK
<1>6. HandlersInv' BY <1>1 DEF HandlersInv
<1>7. EventsInv'
  <2>1. IsFiniteSet(events') BY <1>4, FS_AddElement DEF EventsInv
  <2>2. \A e \in events' : e.of \in onRestored' /\ e.fault <= faults'
    <3> SUFFICES ASSUME NEW e \in events'
                 PROVE  e.of \in onRestored' /\ e.fault <= faults'
      OBVIOUS
    <3>1. CASE e \in events BY <1>2, <1>3, <3>1 DEF EventsInv
    <3>2. CASE e = new /\ conn \in onFailed
      BY <1>2, <3>2 DEF ConnectionTypeOK
    <3> QED BY <1>4, <3>1, <3>2
  <2> QED BY <2>1, <2>2 DEF EventsInv
<1>8. OpenedInv' BY DEF OpenedInv
<1>9. (Credit = 0 \/ Credit = 1) /\ (Credit' = 0 \/ Credit' = 1) BY DEF Credit
<1>10. current + Cardinality(Failures) + Credit <= 1 + faults BY DEF Books
<1>11. Cardinality(Failures) \in Nat BY CountType
<1>12. CASE conn \in onFailed /\ events' = events \cup {new}
  <2>1. Failures' = Failures \cup {new} BY <1>12 DEF Failures
  <2>2. new \notin Failures BY <1>2, <1>3 DEF Failures
  <2>3. IsFiniteSet(Failures) BY FS_Subset DEF EventsInv, Failures
  <2>4. Cardinality(Failures') = Cardinality(Failures) + 1
    BY <2>1, <2>2, <2>3, FS_AddElement
  <2>5. Stage = "test" => conn # current BY <1>12 DEF HandlersInv
  <2>6. Credit' = Credit BY <1>1, <2>5 DEF Credit
  <2>7. current' + Cardinality(Failures') + Credit' <= 1 + faults'
    BY <1>2, <1>9, <1>10, <1>11, <2>4, <2>6
  <2>8. Books' BY <2>7 DEF Books
  <2> QED BY <1>1, <1>5, <1>6, <1>7, <1>8, <2>8
<1>13. CASE conn \notin onFailed /\ events' = events
  <2>1. current' + Credit' + faults <= current + Credit + faults'
    BY <1>2, <1>9
  <2>2. faults' \in Nat /\ current' \in Nat BY <1>2
  <2>3. Books' BY <1>13, <2>1, <2>2, SameEvents
  <2> QED BY <1>1, <1>5, <1>6, <1>7, <1>8, <2>3
<1> QED BY <1>4, <1>12, <1>13

\* A link that is restored keeps the books.
LEMMA RestoreKeeps ==
  ASSUME ConnectionInv, NEW conn \in Connections, Restore(conn) PROVE ConnectionInv'
<1> USE DEF ConnectionInv, Restore, storeVars
<1>1. OneInside' /\ Stage' = Stage BY StageUntouched
<1> DEFINE new == [kind |-> "restored", of |-> conn, fault |-> faults']
<1>2. \/ conn \in onRestored /\ events' = events \cup {new}
      \/ events' = events
  BY DEF Raise
<1>3. faults \in Nat /\ current \in Nat
  BY MaxFaultsAssumption DEF ConnectionTypeOK, Connections
<1>4. ConnectionTypeOK'
  <2>1. new \in Events BY DEF Events, ConnectionTypeOK
  <2>2. events' \subseteq Events BY <1>2, <2>1 DEF ConnectionTypeOK
  <2> QED BY <2>2 DEF ConnectionTypeOK
<1>5. HandlersInv' BY <1>1 DEF HandlersInv
<1>6. EventsInv'
  <2>1. IsFiniteSet(events) BY DEF EventsInv
  <2>2. IsFiniteSet(events \cup {new}) BY <2>1, FS_AddElement
  <2>3. IsFiniteSet(events') BY <1>2, <2>1, <2>2
  <2>4. \A e \in events' : e.of \in onRestored' /\ e.fault <= faults'
    BY <1>2, <1>3 DEF EventsInv
  <2> QED BY <2>3, <2>4 DEF EventsInv
<1>7. OpenedInv' BY DEF OpenedInv
<1>8. Failures' = Failures BY <1>2 DEF Failures
<1>9. Credit' = Credit \/ (Credit = 1 /\ Credit' = 0) BY <1>1 DEF Credit
<1>10. Books'
  <2>1. Credit = 0 \/ Credit = 1 BY DEF Credit
  <2>2. Cardinality(Failures) \in Nat BY CountType
  <2>3. current + Cardinality(Failures) + Credit <= 1 + faults BY DEF Books
  <2>4. current' + Cardinality(Failures) + Credit' <= 1 + faults'
    BY <1>3, <1>9, <2>1, <2>2, <2>3
  <2> QED BY <1>8, <2>4 DEF Books
<1> QED BY <1>1, <1>4, <1>5, <1>6, <1>7, <1>10

\* A handled event is spent: a failure becomes the credit for a connection.
LEMMA HandleKeeps == ASSUME ConnectionInv, NEW event \in events, Handle(event) PROVE ConnectionInv'
<1> USE DEF ConnectionInv, Handle
<1>1. OneInside' /\ Stage' = Stage BY StageUntouched
<1>2. faults \in Nat /\ current \in Nat
  BY MaxFaultsAssumption DEF ConnectionTypeOK, Connections
<1>3. ConnectionTypeOK' BY DEF ConnectionTypeOK
<1>4. HandlersInv' BY <1>1 DEF HandlersInv
<1>5. EventsInv' BY FS_RemoveElement DEF EventsInv
<1>6. OpenedInv' BY DEF OpenedInv, EventsInv
<1>7. (Credit = 0 \/ Credit = 1) /\ (Credit' = 0 \/ Credit' = 1) BY DEF Credit
<1>8. current + Cardinality(Failures) + Credit <= 1 + faults BY DEF Books
<1>9. Cardinality(Failures) \in Nat BY CountType
<1>10. Books'
  <2>1. CASE event.kind = "failed"
    <3>1. Failures' = Failures \ {event} BY DEF Failures
    <3>2. event \in Failures BY <2>1 DEF Failures
    <3>3. IsFiniteSet(Failures) BY FS_Subset DEF EventsInv, Failures
    <3>4. Cardinality(Failures') = Cardinality(Failures) - 1
      BY <3>1, <3>2, <3>3, FS_RemoveElement
    <3>5. current' + Cardinality(Failures') + Credit' <= 1 + faults'
      BY <1>2, <1>7, <1>8, <1>9, <3>4
    <3> QED BY <3>5 DEF Books
  <2>2. CASE event.kind = "restored"
    <3>1. Failures' = Failures BY <2>2 DEF Failures
    <3>2. Credit' = Credit \/ (Credit = 1 /\ Credit' = 0)
      BY <1>1, <2>2 DEF Credit
    <3>3. current' + Cardinality(Failures') + Credit' <= 1 + faults'
      BY <1>2, <1>7, <1>8, <1>9, <3>1, <3>2
    <3> QED BY <3>3 DEF Books
  <2> QED BY <2>1, <2>2 DEF ConnectionTypeOK, Events
<1> QED BY <1>1, <1>3, <1>4, <1>5, <1>6, <1>10

-----------------------------------------------------------------------------
(* The theorems.                                                           *)

\* Every step keeps the books.
LEMMA ConnectionInvNext == ConnectionInv /\ [ConnectionNext]_connectionVars => ConnectionInv'
<1> SUFFICES ASSUME ConnectionInv, [ConnectionNext]_connectionVars PROVE ConnectionInv' OBVIOUS
<1>1. ASSUME NEW c \in Threads, EnsureRedisConnected(c) PROVE ConnectionInv'
  <2>1. CASE opened BY <1>1, <2>1, OutsideKeeps DEF EnsureRedisConnected
  <2>2. CASE ~opened BY <1>1, <2>2, OutsideKeeps DEF EnsureRedisConnected
  <2> QED BY <2>1, <2>2
<1>2. ASSUME NEW c \in Threads, Enter(c) PROVE ConnectionInv' BY <1>2, EnterKeeps
<1>3. ASSUME NEW c \in Threads, Establish(c) PROVE ConnectionInv'
  BY <1>3, ConnectKeeps, TestKeeps, ThrowKeeps, HandleRestoredKeeps,
     HandleFailedKeeps, OpenKeeps DEF Establish
<1>4. ASSUME NEW c \in Threads, Use(c) PROVE ConnectionInv' BY <1>4, OutsideKeeps DEF Use
<1>5. ASSUME NEW conn \in Connections, Break(conn) \/ Restore(conn) PROVE ConnectionInv'
  BY <1>5, BreakKeeps, RestoreKeeps
<1>6. ASSUME NEW event \in events, Handle(event) PROVE ConnectionInv' BY <1>6, HandleKeeps
<1>7. ASSUME UNCHANGED connectionVars PROVE ConnectionInv'
  <2> USE <1>7 DEF connectionVars, ConnectionInv
  <2>1. OneInside' /\ Stage' = Stage BY StageUntouched
  <2>2. ConnectionTypeOK' BY DEF ConnectionTypeOK
  <2>3. HandlersInv' BY <2>1 DEF HandlersInv
  <2>4. EventsInv' /\ OpenedInv' BY DEF EventsInv, OpenedInv
  <2>5. Credit' = Credit /\ Failures' = Failures BY <2>1 DEF Credit, Failures
  <2>6. Books' BY <2>5 DEF Books
  <2> QED BY <2>1, <2>2, <2>3, <2>4, <2>6
<1> QED BY <1>1, <1>2, <1>3, <1>4, <1>5, <1>6, <1>7 DEF ConnectionNext

\* The books balance in every reachable state, for any set of calls and any number
\* of failures: of the lock and the handlers of EnsureRedisConnected.
THEOREM ConnectionInvariant == ConnectionSpec => []ConnectionInv
BY ConnectionInvInit, ConnectionInvNext, PTL DEF ConnectionSpec

\* The variables keep their types.
THEOREM ConnectionTypeCorrect == ConnectionSpec => []ConnectionTypeOK
<1>1. ConnectionInv => ConnectionTypeOK BY DEF ConnectionInv
<1> QED BY <1>1, ConnectionInvariant, PTL

\* No more connections are opened than the first and one for each failure, however
\* calls and handlers interleave.
THEOREM ConnectionsBounded == ConnectionSpec => []OneConnectionPerFault
<1>1. ConnectionInv => OneConnectionPerFault
  <2> SUFFICES ASSUME ConnectionInv PROVE OneConnectionPerFault OBVIOUS
  <2>1. Credit = 0 \/ Credit = 1 BY DEF Credit
  <2>2. Cardinality(Failures) \in Nat BY CountType DEF ConnectionInv
  <2>3. current \in Nat /\ faults \in Nat
    BY MaxFaultsAssumption DEF ConnectionInv, ConnectionTypeOK, Connections
  <2>4. current + Cardinality(Failures) + Credit <= 1 + faults BY DEF ConnectionInv, Books
  <2> QED BY <2>1, <2>2, <2>3, <2>4 DEF OneConnectionPerFault
<1> QED BY <1>1, ConnectionInvariant, PTL

\* Until something fails every link is up, there is nothing to handle, and the flag
\* is set only while nobody opens a connection.
QuietInv ==
  faults = 0 => up = 1..current /\ events = {} /\ (opened => lock = Nobody)

\* Every step keeps it so.
LEMMA QuietNext ==
  ConnectionInv /\ QuietInv /\ [ConnectionNext]_connectionVars => QuietInv'
<1> SUFFICES ASSUME ConnectionInv, QuietInv, [ConnectionNext]_connectionVars, faults' = 0
             PROVE  up' = 1..current' /\ events' = {} /\ (opened' => lock' = Nobody)
  BY DEF QuietInv
<1>0. faults \in Nat /\ current \in Nat
  BY MaxFaultsAssumption DEF ConnectionInv, ConnectionTypeOK, Connections
<1> DEFINE Quiet == up = 1..current /\ events = {} /\ (opened => lock = Nobody)
<1>1. ASSUME faults = 0 PROVE Quiet BY <1>1 DEF QuietInv
<1>2. ~Fault BY <1>0 DEF Fault
<1>3. ASSUME NEW c \in Threads, EnsureRedisConnected(c) \/ Enter(c) \/ Use(c)
      PROVE  up' = 1..current' /\ events' = {} /\ (opened' => lock' = Nobody)
  <2>1. UNCHANGED <<storeVars, linkVars>> /\ (lock' = lock \/ ~opened)
    BY <1>3 DEF EnsureRedisConnected, Enter, Use
  <2> QED BY <1>1, <2>1 DEF storeVars, linkVars
<1>4. ASSUME NEW c \in Threads, Establish(c)
      PROVE  up' = 1..current' /\ events' = {} /\ (opened' => lock' = Nobody)
  <2>1. CASE Connect(c)
    <3>1. current' = current + 1 /\ up' = up \cup {current'} /\ faults' = faults
      BY <1>2, <2>1 DEF Connect
    <3>2. Quiet BY <1>1, <3>1
    <3>3. UNCHANGED <<lock, opened, events>> BY <2>1 DEF Connect
    <3> QED BY <1>0, <3>1, <3>2, <3>3
  <2>2. CASE Throw(c)
    <3>1. UNCHANGED <<current, up, events, faults>> /\ lock' = Nobody
      BY <1>2, <2>2 DEF Throw, storeVars
    <3> QED BY <1>1, <3>1
  <2>3. CASE Test(c) \/ HandleRestored(c) \/ HandleFailed(c) \/ Open(c)
    <3>1. /\ UNCHANGED <<current, up, events, faults>>
          /\ UNCHANGED <<opened, lock>> \/ lock' = Nobody
      BY <2>3 DEF Test, HandleRestored, HandleFailed, Open, storeVars, linkVars
    <3> QED BY <1>1, <3>1
  <2> QED BY <1>4, <2>1, <2>2, <2>3 DEF Establish
<1>5. ASSUME NEW conn \in Connections, Break(conn) \/ Restore(conn) PROVE FALSE
  <2>1. CASE Break(conn) BY <1>2, <2>1 DEF Break
  <2>2. CASE Restore(conn)
    <3>1. faults = 0 /\ conn \in (1..current) \ up BY <2>2 DEF Restore
    <3> QED BY <1>1, <3>1
  <2> QED BY <1>5, <2>1, <2>2
<1>6. ASSUME NEW event \in events, Handle(event) PROVE FALSE
  <2>1. faults = 0 BY <1>6 DEF Handle
  <2> QED BY <1>1, <1>6, <2>1
<1>7. CASE UNCHANGED connectionVars BY <1>1, <1>7 DEF connectionVars
<1> QED BY <1>3, <1>4, <1>5, <1>6, <1>7 DEF ConnectionNext

\* Calls use a connection whose failure would not clear the flag only after
\* something failed, and after two failures once nobody is opening one.
THEOREM UntestedIsRare == ConnectionSpec => []UntestedTakesFaults
<1>1. ASSUME ConnectionInv, opened, lock = Nobody, current \notin onFailed
      PROVE  faults >= 2
  <2>1. Stage = "free" BY <1>1 DEF Stage
  <2>2. onFailed # {} BY <1>1, <2>1 DEF ConnectionInv, HandlersInv, OpenedInv
  <2>3. PICK conn \in onFailed : conn \in 1..current /\ conn # current
    BY <1>1, <2>2 DEF ConnectionInv, ConnectionTypeOK
  <2>4. current \in Nat /\ faults \in Nat
    BY <1>1, MaxFaultsAssumption DEF ConnectionInv, ConnectionTypeOK, Connections
  <2>5. current >= 2 BY <2>3, <2>4
  <2>6. Credit = 1 BY <1>1, <2>1 DEF Credit
  <2>7. Cardinality(Failures) \in Nat BY <1>1, CountType DEF ConnectionInv
  <2>8. current + Cardinality(Failures) + 1 <= 1 + faults
    BY <1>1, <2>6 DEF ConnectionInv, Books
  <2> QED BY <2>4, <2>5, <2>7, <2>8
<1>2. ASSUME ConnectionInv, QuietInv, opened, lock # Nobody PROVE faults >= 1
  <2>1. faults \in Nat BY <1>2, MaxFaultsAssumption DEF ConnectionInv, ConnectionTypeOK
  <2>2. faults # 0 BY <1>2 DEF QuietInv
  <2> QED BY <2>1, <2>2
<1>3. ConnectionInv /\ QuietInv => UntestedTakesFaults
  BY <1>1, <1>2 DEF UntestedTakesFaults
<1>4. ConnectionInit => QuietInv BY DEF ConnectionInit, QuietInv
<1> QED
  BY <1>3, <1>4, QuietNext, ConnectionInvariant, PTL DEF ConnectionSpec
=============================================================================
