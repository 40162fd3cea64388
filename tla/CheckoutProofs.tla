--------------------------- MODULE CheckoutProofs ---------------------------
(***************************************************************************)
(* Proofs about Checkout, for any users, requests, units and failures.     *)
(*                                                                         *)
(* The inductive invariant says, for each place a handler can be at and    *)
(* for each call that may still be in flight, what the payment and the     *)
(* shipping service have done for the request.                             *)
(***************************************************************************)
EXTENDS Checkout, TLAPS

\* Until the charge succeeds or fails nothing has happened.
EarlyOrder(r) ==
  pc[r] \in {"idle", "getCart", "prepare", "charge"} =>
    charges[r] = << >> /\ parcels[r] = << >>

ChargedOrder(r) ==
  pc[r] = "ship" => charges[r] = <<snap[r]>> /\ parcels[r] = << >>

ShippedOrder(r) ==
  pc[r] \in {"empty", "email", "publish"} =>
    charges[r] = <<snap[r]>> /\ parcels[r] = <<snap[r]>>

\* Only an ended order has an answer.
AnsweredOrder(r) == result[r] = "none" <=> pc[r] # "done"

\* What a call still in flight will find.
LateCharge(r) ==
  <<r, "charge">> \in inFlight =>
    /\ result[r] \in {"Internal", "lost"}
    /\ charges[r] = << >> /\ parcels[r] = << >>

LateShip(r) ==
  <<r, "ship">> \in inFlight =>
    /\ result[r] \in {"Unavailable", "lost"}
    /\ charges[r] = <<snap[r]>> /\ parcels[r] = << >>

LateAfter(r) ==
  <<r, "empty">> \in inFlight \/ <<r, "email">> \in inFlight =>
    charges[r] = <<snap[r]>> /\ parcels[r] = <<snap[r]>>

\* The ledgers of an order: nothing, charged, or charged and shipped.
Ledgers(r) ==
  \/ charges[r] = << >> /\ parcels[r] = << >>
  \/ charges[r] = <<snap[r]>> /\ parcels[r] = << >>
  \/ charges[r] = <<snap[r]>> /\ parcels[r] = <<snap[r]>>

Answers(r) ==
  /\ result[r] = "ok" => parcels[r] = <<snap[r]>>
  /\ result[r] = "Internal" => parcels[r] = << >>
  /\ result[r] = "Unavailable" => charges[r] = <<snap[r]>>

Announced(r) == r \in emptied \cup emails \cup handed => parcels[r] = <<snap[r]>>

\* What an order read was put in a cart before, so AddItem cannot add it again.
SnapIsOld(r) == snap[r] \subseteq added

OrderInv(r) ==
  /\ EarlyOrder(r) /\ ChargedOrder(r) /\ ShippedOrder(r) /\ AnsweredOrder(r)
  /\ LateCharge(r) /\ LateShip(r) /\ LateAfter(r)
  /\ Ledgers(r) /\ Answers(r) /\ Announced(r) /\ SnapIsOld(r)

\* Carts, and what AddItem calls have read of them, hold stored units; the units
\* of these calls are new, and none of them will bring back what was sold unless
\* its user's cart was emptied in the meantime.
CartsInv ==
  /\ \A u \in Users : cart[u] \subseteq added
  /\ \A a \in adding : a.seen \subseteq added /\ a.unit \notin added
  /\ \A a, b \in adding : a.unit = b.unit => a = b
  /\ \A r \in emptied, a \in adding :
       a.user = UserOf[r] => a.user \in overtaken \/ snap[r] \cap a.seen = {}
  /\ NoResale

IInv == TypeOK /\ CartsInv /\ \A r \in Requests : OrderInv(r)

-----------------------------------------------------------------------------
(* Types.                                                                  *)

\* The initial states are of their types.
LEMMA TypeInit == Init => TypeOK
BY UserOfAssumption DEF Init, TypeOK, Places, Results, Calls

ServiceTypes ==
  /\ cart \in [Users -> SUBSET Units] /\ added \in SUBSET Units
  /\ adding \in SUBSET Additions /\ overtaken \in SUBSET Users
  /\ emptied \in SUBSET Requests
  /\ charges \in [Requests -> Seq(SUBSET Units)]
  /\ parcels \in [Requests -> Seq(SUBSET Units)]
  /\ emails \in SUBSET Requests /\ handed \in SUBSET Requests

CartTypes ==
  /\ cart \in [Users -> SUBSET Units] /\ added \in SUBSET Units
  /\ adding \in SUBSET Additions /\ overtaken \in SUBSET Users
  /\ emptied \in SUBSET Requests

\* Emptying a cart keeps the types of carts.
LEMMA EmptyUserCartType ==
  ASSUME TypeOK, NEW r \in Requests, EmptyUserCart(r) PROVE CartTypes'
BY UserOfAssumption DEF TypeOK, CartTypes, EmptyUserCart, Overtake

\* A charge keeps the types of the services.
LEMMA ChargeCardType ==
  ASSUME TypeOK, NEW r \in Requests, ChargeCard(r) PROVE ServiceTypes'
<1>1. Append(charges[r], snap[r]) \in Seq(SUBSET Units)
  BY DEF TypeOK
<1> QED BY <1>1 DEF TypeOK, ServiceTypes, ChargeCard, cartVars

\* A parcel keeps the types of the services.
LEMMA ShipOrderType ==
  ASSUME TypeOK, NEW r \in Requests, ShipOrder(r) PROVE ServiceTypes'
<1>1. Append(parcels[r], snap[r]) \in Seq(SUBSET Units)
  BY DEF TypeOK
<1> QED BY <1>1 DEF TypeOK, ServiceTypes, ShipOrder, cartVars

\* A call that is executed late keeps the types of the services.
LEMMA ExecuteType ==
  ASSUME TypeOK, NEW r \in Requests, NEW call, Execute(r, call)
  PROVE  ServiceTypes'
<1>1. CASE call = "charge" /\ ChargeCard(r) BY <1>1, ChargeCardType
<1>2. CASE call = "ship" /\ ShipOrder(r) BY <1>2, ShipOrderType
<1>3. CASE EmptyUserCart(r)
  BY <1>3, EmptyUserCartType DEF TypeOK, CartTypes, ServiceTypes, EmptyUserCart
<1>4. CASE SendConfirmation(r)
  BY <1>4 DEF TypeOK, ServiceTypes, SendConfirmation, cartVars
<1> QED BY <1>1, <1>2, <1>3, <1>4 DEF Execute

\* Every step keeps the types.
LEMMA TypeNext == TypeOK /\ [Next]_vars => TypeOK'
<1> SUFFICES ASSUME TypeOK, [Next]_vars PROVE TypeOK'
  OBVIOUS
<1> USE UserOfAssumption
<1> USE DEF TypeOK, Places, Results, Calls, Effects, cartVars
<1>1. ASSUME NEW r \in Requests, PlaceOrder(r) PROVE TypeOK'
  BY <1>1 DEF PlaceOrder, Goto, Return, serviceVars
<1>2. ASSUME NEW r \in Requests, GetUserCart(r) PROVE TypeOK'
  BY <1>2 DEF GetUserCart, Succeeds, Errs, Goto, Return, serviceVars
<1>3. ASSUME NEW r \in Requests, PrepareOrder(r) PROVE TypeOK'
  BY <1>3 DEF PrepareOrder, Succeeds, Errs, Goto, Return, serviceVars
<1>4. ASSUME NEW r \in Requests, Charge(r) PROVE TypeOK'
  <2>1. ServiceTypes'
    BY <1>4, ChargeCardType DEF Charge, ServiceTypes, serviceVars
  <2> QED BY <1>4, <2>1 DEF ServiceTypes, Charge, Succeeds, Errs, Goto, Return
<1>5. ASSUME NEW r \in Requests, Ship(r) PROVE TypeOK'
  <2>1. ServiceTypes'
    BY <1>5, ShipOrderType DEF Ship, ServiceTypes, serviceVars
  <2> QED BY <1>5, <2>1 DEF ServiceTypes, Ship, Succeeds, Errs, Goto, Return
<1>6. ASSUME NEW r \in Requests, EmptyCart(r) PROVE TypeOK'
  <2>1. CartTypes' /\ UNCHANGED <<charges, parcels, emails, handed>>
    BY <1>6, EmptyUserCartType DEF EmptyCart, EmptyUserCart, CartTypes, serviceVars
  <2> QED BY <1>6, <2>1 DEF CartTypes, EmptyCart, Succeeds, Errs, Goto
<1>7. ASSUME NEW r \in Requests, Email(r) PROVE TypeOK'
  BY <1>7 DEF Email, SendConfirmation, Succeeds, Errs, Goto, Return, serviceVars
<1>8. ASSUME NEW r \in Requests, Publish(r) PROVE TypeOK'
  BY <1>8 DEF Publish, Return
<1>9. CASE Crash
  BY <1>9 DEF Crash, serviceVars
<1>10. CASE Deliver
  <2>1. ServiceTypes'
    BY <1>10, ExecuteType DEF Deliver, ServiceTypes, serviceVars
  <2> QED BY <1>10, <2>1 DEF ServiceTypes, Deliver, handlerVars
<1>11. ASSUME NEW u \in Users, ClearCart(u) PROVE TypeOK'
  BY <1>11 DEF ClearCart, handlerVars
<1>12. ASSUME NEW u \in Users, NEW x \in Units, AddItem(u, x) PROVE TypeOK'
  <2>1. [user |-> u, unit |-> x, seen |-> cart[u]] \in Additions
    BY DEF Additions
  <2> QED BY <1>12, <2>1 DEF AddItem, handlerVars
<1>13. ASSUME NEW a \in adding, StoreItem(a) PROVE TypeOK'
  <2>1. a.user \in Users /\ a.unit \in Units /\ a.seen \subseteq Units
    BY DEF Additions
  <2>2. CartTypes' BY <1>13, <2>1 DEF StoreItem, CartTypes
  <2> QED BY <1>13, <2>2 DEF StoreItem, CartTypes, handlerVars
<1>14. CASE UNCHANGED vars
  BY <1>14 DEF vars, handlerVars, serviceVars
<1> QED
  BY <1>1, <1>2, <1>3, <1>4, <1>5, <1>6, <1>7, <1>8, <1>9, <1>10, <1>11,
     <1>12, <1>13, <1>14 DEF Next, CallReturns

\* Every variable keeps its type, for any constants.
THEOREM TypeCorrect == Spec => []TypeOK
<1> QED BY TypeInit, TypeNext, PTL DEF Spec

-----------------------------------------------------------------------------
(* The inductive invariant.                                                *)

\* No order has cost or sent anything at first.
LEMMA InvInit == Init => IInv
<1> SUFFICES ASSUME Init PROVE IInv OBVIOUS
<1>1. TypeOK BY TypeInit
<1>2. ASSUME NEW r \in Requests PROVE OrderInv(r)
  BY DEF Init, OrderInv, EarlyOrder, ChargedOrder, ShippedOrder, AnsweredOrder,
     LateCharge, LateShip, LateAfter, Ledgers, Answers, Announced, SnapIsOld
<1>3. CartsInv
  BY DEF Init, CartsInv, NoResale
<1> QED BY <1>1, <1>2, <1>3 DEF IInv

\* What is the same about a request before and after a step that is not its own.
Untouched(q) ==
  /\ pc'[q] = pc[q] /\ snap'[q] = snap[q] /\ result'[q] = result[q]
  /\ charges'[q] = charges[q] /\ parcels'[q] = parcels[q]
  /\ \A call : <<q, call>> \in inFlight' => <<q, call>> \in inFlight
  /\ q \in emptied' \cup emails' \cup handed' => q \in emptied \cup emails \cup handed
  /\ added \subseteq added'

\* An order that a step does not touch keeps its invariant.
LEMMA UntouchedKeeps ==
  ASSUME NEW q \in Requests, OrderInv(q), Untouched(q) PROVE OrderInv(q)'
<1>1. EarlyOrder(q)' /\ ChargedOrder(q)' /\ ShippedOrder(q)' /\ AnsweredOrder(q)'
  BY DEF OrderInv, Untouched, EarlyOrder, ChargedOrder, ShippedOrder, AnsweredOrder
<1>2. LateCharge(q)' /\ LateShip(q)' /\ LateAfter(q)'
  BY DEF OrderInv, Untouched, LateCharge, LateShip, LateAfter
<1>3. Ledgers(q)' /\ Answers(q)' /\ Announced(q)' /\ SnapIsOld(q)'
  BY DEF OrderInv, Untouched, Ledgers, Answers, Announced, SnapIsOld
<1> QED BY <1>1, <1>2, <1>3 DEF OrderInv

\* A handler's step leaves the other requests alone.
OnlyOf(r) == \A q \in Requests \ {r} : Untouched(q)

\* A handler touches its own order only.
LEMMA HandlerLocality ==
  ASSUME TypeOK, NEW r \in Requests,
         PlaceOrder(r) \/ CallReturns(r) \/ Publish(r)
  PROVE  OnlyOf(r)
<1> SUFFICES ASSUME NEW q \in Requests, q # r PROVE Untouched(q)
  BY DEF OnlyOf
<1> USE DEF TypeOK, Untouched, serviceVars, cartVars, Goto, Return
<1>1. CASE PlaceOrder(r) BY <1>1 DEF PlaceOrder
<1>2. CASE GetUserCart(r) BY <1>2 DEF GetUserCart, Succeeds, Errs
<1>3. CASE PrepareOrder(r) BY <1>3 DEF PrepareOrder, Succeeds, Errs
<1>4. CASE Charge(r) BY <1>4 DEF Charge, ChargeCard, Succeeds, Errs
<1>5. CASE Ship(r) BY <1>5 DEF Ship, ShipOrder, Succeeds, Errs
<1>6. CASE EmptyCart(r)
  BY <1>6 DEF EmptyCart, EmptyUserCart, Overtake, Succeeds, Errs
<1>7. CASE Email(r) BY <1>7 DEF Email, SendConfirmation, Succeeds, Errs
<1>8. CASE Publish(r) BY <1>8 DEF Publish
<1> QED BY <1>1, <1>2, <1>3, <1>4, <1>5, <1>6, <1>7, <1>8 DEF CallReturns

\* A sequence with one element, appended to the empty one.
LEMMA AppendFirst == ASSUME NEW x PROVE Append(<< >>, x) = <<x>>
OBVIOUS

\* A sequence of one is not empty.
LEMMA OneIsNotEmpty == ASSUME NEW x PROVE <<x>> # << >>
OBVIOUS

\* Every step of a handler keeps what is known of its own order.
LEMMA HandlerKeepsOwn ==
  ASSUME IInv, NEW r \in Requests,
         PlaceOrder(r) \/ CallReturns(r) \/ Publish(r)
  PROVE  OrderInv(r)'
<1> DEFINE Parts == /\ EarlyOrder(r) /\ ChargedOrder(r) /\ ShippedOrder(r)
                    /\ AnsweredOrder(r) /\ LateCharge(r) /\ LateShip(r)
                    /\ LateAfter(r) /\ Ledgers(r) /\ Answers(r)
                    /\ Announced(r) /\ SnapIsOld(r)
<1>1. TypeOK /\ Parts BY DEF IInv, OrderInv
<1>2. cart[UserOf[r]] \subseteq added BY UserOfAssumption DEF IInv, CartsInv
<1>3. Append(<< >>, snap[r]) = <<snap[r]>> /\ <<snap[r]>> # << >>
  BY AppendFirst, OneIsNotEmpty
<1> USE <1>1, <1>3
<1> USE DEF TypeOK, serviceVars, cartVars, Goto, Return, EarlyOrder, ChargedOrder,
        ShippedOrder, AnsweredOrder, LateCharge, LateShip, LateAfter, Ledgers,
        Answers, Announced, SnapIsOld, OrderInv
<1>4. CASE PlaceOrder(r) BY <1>4 DEF PlaceOrder
<1>5. CASE GetUserCart(r) BY <1>2, <1>5 DEF GetUserCart, Succeeds, Errs, Effects
<1>6. CASE PrepareOrder(r) BY <1>6 DEF PrepareOrder, Succeeds, Errs, Effects
<1>7. CASE Charge(r) BY <1>7 DEF Charge, ChargeCard, Succeeds, Errs
<1>8. CASE Ship(r) BY <1>8 DEF Ship, ShipOrder, Succeeds, Errs
<1>9. CASE EmptyCart(r)
  BY <1>9 DEF EmptyCart, EmptyUserCart, Overtake, Succeeds, Errs
<1>10. CASE Email(r) BY <1>10 DEF Email, SendConfirmation, Succeeds, Errs
<1>11. CASE Publish(r) BY <1>11 DEF Publish
<1> QED BY <1>4, <1>5, <1>6, <1>7, <1>8, <1>9, <1>10, <1>11 DEF CallReturns

\* So does the end of the process, for every order.
LEMMA CrashKeeps ==
  ASSUME IInv, Crash, NEW r \in Requests PROVE OrderInv(r)'
<1>1. TypeOK /\ OrderInv(r) BY DEF IInv
<1>2. CASE ~Active(r)
  <2>1. Untouched(r)
    BY <1>1, <1>2 DEF TypeOK, Crash, Untouched, Active, serviceVars, cartVars
  <2> QED BY <1>1, <2>1, UntouchedKeeps
<1>3. CASE Active(r)
  BY <1>1, <1>3 DEF Crash, Active, TypeOK, serviceVars, cartVars, Effects, Places, Calls,
     OrderInv, EarlyOrder, ChargedOrder, ShippedOrder, AnsweredOrder, LateCharge,
     LateShip, LateAfter, Ledgers, Answers, Announced, SnapIsOld
<1> QED BY <1>2, <1>3

\* So does a call that arrives late.
LEMMA DeliverKeeps ==
  ASSUME IInv, Deliver, NEW q \in Requests PROVE OrderInv(q)'
<1>1. TypeOK /\ OrderInv(q) BY DEF IInv
<1>2. PICK r \in Requests, call \in Effects :
        /\ <<r, call>> \in inFlight
        /\ inFlight' = inFlight \ {<<r, call>>}
        /\ Execute(r, call) \/ UNCHANGED serviceVars
        /\ UNCHANGED handlerVars
  <2>1. PICK late \in inFlight :
          /\ inFlight' = inFlight \ {late}
          /\ Execute(late[1], late[2]) \/ UNCHANGED serviceVars
          /\ UNCHANGED handlerVars
    BY DEF Deliver
  <2>2. PICK r \in Requests, call \in Effects : late = <<r, call>>
    BY <1>1, <2>1 DEF TypeOK
  <2> QED BY <2>1, <2>2
<1>3. OrderInv(r) BY DEF IInv
<1>4. CASE q # r \/ UNCHANGED serviceVars
  <2>1. Untouched(q)
    BY <1>1, <1>2, <1>4 DEF TypeOK, Untouched, Execute, ChargeCard, ShipOrder,
       EmptyUserCart, Overtake, SendConfirmation, serviceVars, cartVars, handlerVars
  <2> QED BY <1>1, <2>1, UntouchedKeeps
<1>5. CASE q = r /\ Execute(r, call)
  <2>1. Append(<< >>, snap[r]) = <<snap[r]>> /\ <<snap[r]>> # << >>
    BY AppendFirst, OneIsNotEmpty
  <2> USE <1>1, <1>2, <1>3, <1>5, <2>1
  <2> USE DEF TypeOK, handlerVars, cartVars, OrderInv, EarlyOrder, ChargedOrder,
          ShippedOrder, AnsweredOrder, LateCharge, LateShip, LateAfter, Ledgers,
          Answers, Announced, SnapIsOld
  <2>2. CASE call = "charge" /\ ChargeCard(r) BY <2>2 DEF ChargeCard
  <2>3. CASE call = "ship" /\ ShipOrder(r) BY <2>3 DEF ShipOrder
  <2>4. CASE call = "empty" /\ EmptyUserCart(r)
    BY <2>4 DEF EmptyUserCart, Overtake
  <2>5. CASE call = "email" /\ SendConfirmation(r) BY <2>5 DEF SendConfirmation
  <2> QED BY <2>2, <2>3, <2>4, <2>5 DEF Execute
<1> QED BY <1>2, <1>4, <1>5

\* And what the shopper does meanwhile.
LEMMA ShopperKeeps ==
  ASSUME IInv,
         \/ \E u \in Users : ClearCart(u) \/ \E x \in Units : AddItem(u, x)
         \/ \E a \in adding : StoreItem(a),
         NEW r \in Requests
  PROVE  OrderInv(r)'
<1>1. TypeOK /\ OrderInv(r) BY DEF IInv
<1>2. Untouched(r)
  BY <1>1 DEF TypeOK, Untouched, ClearCart, AddItem, StoreItem, handlerVars
<1> QED BY <1>1, <1>2, UntouchedKeeps

\* Only StoreItem puts units in a cart: a new one, and those it has seen; an
\* order whose EmptyCart is executed takes all units out, those it read included.
LEMMA CartsKeep == ASSUME IInv, Next PROVE CartsInv'
<1>1. TypeOK /\ CartsInv BY DEF IInv
<1>2. \A r \in Requests : SnapIsOld(r) /\ Announced(r) /\ EarlyOrder(r)
  BY DEF IInv, OrderInv
<1> USE <1>1 DEF TypeOK, CartsInv, NoResale, serviceVars, cartVars
<1>3. CASE UNCHANGED <<snap, cartVars>> BY <1>3
<1>4. ASSUME NEW r \in Requests, EmptyUserCart(r), UNCHANGED snap
      PROVE  CartsInv'
  <2> USE <1>4, UserOfAssumption DEF EmptyUserCart, Overtake
  <2>1. NoResale' OBVIOUS
  <2>2. \A q \in emptied', a \in adding' :
          a.user = UserOf[q] => a.user \in overtaken' \/ snap'[q] \cap a.seen = {}
    OBVIOUS
  <2> QED BY <2>1, <2>2
<1>5. ASSUME NEW r \in Requests, PlaceOrder(r) \/ CallReturns(r) \/ Publish(r)
      PROVE  CartsInv'
  <2>1. CASE GetUserCart(r)
    <3>1. pc[r] = "getCart" BY <2>1 DEF GetUserCart, Succeeds, Errs
    <3>2. r \notin emptied
      BY <1>2, <3>1, OneIsNotEmpty DEF Announced, EarlyOrder
    <3> QED BY <2>1, <3>2 DEF GetUserCart
  <2>2. CASE EmptyCart(r)
    BY <2>2, <1>3, <1>4 DEF EmptyCart
  <2>3. CASE PlaceOrder(r) \/ PrepareOrder(r) \/ Charge(r) \/ Ship(r)
             \/ Email(r) \/ Publish(r)
    <3>1. UNCHANGED <<snap, cartVars>>
      BY <2>3 DEF PlaceOrder, PrepareOrder, Charge, ChargeCard, Ship, ShipOrder,
         Email, SendConfirmation, Publish
    <3> QED BY <1>3, <3>1
  <2> QED BY <1>5, <2>1, <2>2, <2>3 DEF CallReturns
<1>6. CASE Crash BY <1>6, <1>3 DEF Crash
<1>7. CASE Deliver
  <2>1. PICK r \in Requests, call \in Effects :
          /\ Execute(r, call) \/ UNCHANGED serviceVars
          /\ UNCHANGED handlerVars
    BY <1>7 DEF Deliver
  <2>2. CASE EmptyUserCart(r) BY <1>4, <2>1, <2>2 DEF handlerVars
  <2>3. CASE ~EmptyUserCart(r)
    <3>1. UNCHANGED <<snap, cartVars>>
      BY <2>1, <2>3 DEF Execute, ChargeCard, ShipOrder, SendConfirmation, handlerVars
    <3> QED BY <1>3, <3>1
  <2> QED BY <2>2, <2>3
<1>8. ASSUME NEW u \in Users, ClearCart(u) PROVE CartsInv'
  BY <1>8, UserOfAssumption DEF ClearCart, handlerVars
<1>9. ASSUME NEW u \in Users, NEW x \in Units, AddItem(u, x) PROVE CartsInv'
  <2> DEFINE new == [user |-> u, unit |-> x, seen |-> cart[u]]
  <2>1. \A a \in adding' : a \in adding \/ a = new BY <1>9 DEF AddItem
  <2>2. new.user = u /\ new.unit = x /\ new.seen = cart[u] OBVIOUS
  <2>3. x \notin added /\ \A a \in adding : a.unit # x BY <1>9 DEF AddItem
  <2>4. UNCHANGED <<snap, cart, added, emptied, overtaken>>
    BY <1>9 DEF AddItem, handlerVars
  <2> HIDE DEF new
  <2>5. \A a \in adding' : a.seen \subseteq added' /\ a.unit \notin added'
    BY <2>1, <2>2, <2>3, <2>4
  <2>6. \A a, b \in adding' : a.unit = b.unit => a = b
    BY <2>1, <2>2, <2>3
  <2>7. \A r \in emptied', a \in adding' :
          a.user = UserOf[r] => a.user \in overtaken' \/ snap'[r] \cap a.seen = {}
    BY <2>1, <2>2, <2>4
  <2> QED BY <2>4, <2>5, <2>6, <2>7
<1>10. ASSUME NEW a \in adding, StoreItem(a) PROVE CartsInv'
  <2>1. a.user \in Users BY DEF Additions
  <2>2. \A r \in Requests : a.unit \notin snap[r] BY <1>2 DEF SnapIsOld
  <2>3. /\ adding' = adding \ {a} /\ UNCHANGED <<snap, emptied, overtaken>>
        /\ \/ /\ cart' = [cart EXCEPT ![a.user] = a.seen \cup {a.unit}]
              /\ added' = added \cup {a.unit}
           \/ UNCHANGED <<cart, added>>
    BY <1>10 DEF StoreItem, handlerVars
  <2>4. NoResale'
    <3> SUFFICES ASSUME NEW q \in emptied, UserOf[q] \notin overtaken
                 PROVE  snap[q] \cap cart'[UserOf[q]] = {}
      BY <2>3
    <3>1. q \in Requests /\ UserOf[q] \in Users /\ snap[q] \cap cart[UserOf[q]] = {}
      BY UserOfAssumption
    <3>2. CASE cart'[UserOf[q]] = cart[UserOf[q]] BY <3>1, <3>2
    <3>3. CASE UserOf[q] = a.user /\ cart'[a.user] = a.seen \cup {a.unit}
      BY <2>2, <3>1, <3>3
    <3> QED BY <2>1, <2>3, <3>1, <3>2, <3>3
  <2>5. \A b \in adding' : b.seen \subseteq added' /\ b.unit \notin added'
    BY <2>3
  <2>6. \A u \in Users : cart'[u] \subseteq added' BY <2>1, <2>3
  <2>7. \A r \in emptied', b \in adding' :
          b.user = UserOf[r] => b.user \in overtaken' \/ snap'[r] \cap b.seen = {}
    BY <2>3
  <2>8. \A b, c \in adding' : b.unit = c.unit => b = c BY <2>3
  <2> QED BY ONLY <2>4, <2>5, <2>6, <2>7, <2>8 DEF CartsInv
<1> QED BY <1>5, <1>6, <1>7, <1>8, <1>9, <1>10 DEF Next

\* Every step keeps what each order may have cost and sent.
LEMMA InvNext == IInv /\ [Next]_vars => IInv'
<1> SUFFICES ASSUME IInv, [Next]_vars PROVE IInv' OBVIOUS
<1>1. TypeOK' BY TypeNext DEF IInv
<1>2. CASE Next
  <2>1. CartsInv' BY <1>2, CartsKeep
  <2>2. ASSUME NEW q \in Requests PROVE OrderInv(q)'
    <3>1. ASSUME NEW r \in Requests, PlaceOrder(r) \/ CallReturns(r) \/ Publish(r)
          PROVE  OrderInv(q)'
      <4>1. CASE q = r BY <3>1, <4>1, HandlerKeepsOwn
      <4>2. CASE q # r
        <5>1. Untouched(q) BY <3>1, <4>2, HandlerLocality DEF IInv, OnlyOf
        <5> QED BY <5>1, UntouchedKeeps DEF IInv
      <4> QED BY <4>1, <4>2
    <3>2. CASE Crash BY <3>2, CrashKeeps
    <3>3. CASE Deliver BY <3>3, DeliverKeeps
    <3>4. CASE \/ \E u \in Users : ClearCart(u) \/ \E x \in Units : AddItem(u, x)
               \/ \E a \in adding : StoreItem(a)
      BY <3>4, ShopperKeeps
    <3> QED BY <1>2, <3>1, <3>2, <3>3, <3>4 DEF Next
  <2> QED BY <1>1, <2>1, <2>2 DEF IInv
<1>3. CASE UNCHANGED vars
  <2>1. ASSUME NEW q \in Requests PROVE OrderInv(q)'
    <3>1. Untouched(q) BY <1>3 DEF vars, handlerVars, serviceVars, cartVars, Untouched
    <3> QED BY <3>1, UntouchedKeeps DEF IInv
  <2>2. CartsInv'
    BY <1>3 DEF IInv, CartsInv, NoResale, vars, handlerVars, serviceVars, cartVars
  <2> QED BY <1>1, <2>1, <2>2 DEF IInv
<1> QED BY <1>2, <1>3

\* At any time payment and shipping have done for an order what the place of its handler,
\* and the calls in flight, allow.
THEOREM Invariant == Spec => []IInv
<1> QED BY InvInit, InvNext, PTL DEF Spec

-----------------------------------------------------------------------------
(* What follows.                                                           *)

\* None or one is at most one.
LEMMA ZeroOrOne == ASSUME NEW n, n = 0 \/ n = 1 PROVE n <= 1
OBVIOUS

\* The invariant gives the parts of the properties on ledgers and answers.
LEMMA InvImplies ==
  IInv => AtMostOnce /\ ShippedAsCharged /\ AnswerTellsLedger /\ AnnouncedIsShipped
<1> SUFFICES ASSUME IInv, NEW r \in Requests
    PROVE  /\ Len(charges[r]) <= 1 /\ Len(parcels[r]) <= 1
           /\ \A i \in DOMAIN parcels[r] :
                i \in DOMAIN charges[r] /\ parcels[r][i] = charges[r][i]
           /\ result[r] = "ok" => charges[r] = <<snap[r]>> /\ parcels[r] = <<snap[r]>>
           /\ result[r] = "Internal" => parcels[r] = << >>
           /\ result[r] = "Unavailable" => charges[r] = <<snap[r]>>
           /\ r \in emails \cup handed => parcels[r] = <<snap[r]>>
  BY DEF IInv, TypeOK, AtMostOnce, ShippedAsCharged, AnswerTellsLedger, AnnouncedIsShipped
<1>1. Ledgers(r) /\ Answers(r) /\ Announced(r) BY DEF IInv, OrderInv
<1>2. <<snap[r]>> # << >> /\ Len(<<snap[r]>>) = 1 /\ Len(<< >>) = 0
  OBVIOUS
<1>3. ASSUME NEW i \in DOMAIN << >> PROVE FALSE OBVIOUS
<1>4. Len(charges[r]) <= 1 /\ Len(parcels[r]) <= 1
  <2>1. /\ Len(charges[r]) = 0 \/ Len(charges[r]) = 1
        /\ Len(parcels[r]) = 0 \/ Len(parcels[r]) = 1
    BY <1>1, <1>2, Zenon DEF Ledgers
  <2> QED BY <2>1, ZeroOrOne
<1>5. \A i \in DOMAIN parcels[r] :
        i \in DOMAIN charges[r] /\ parcels[r][i] = charges[r][i]
  BY <1>1, <1>3 DEF Ledgers
<1>6. parcels[r] = <<snap[r]>> => charges[r] = <<snap[r]>>
  BY <1>1, <1>2 DEF Ledgers
<1> QED BY <1>1, <1>4, <1>5, <1>6 DEF Answers, Announced

\* No order is charged or shipped twice, by calls executed late or not, and what is
\* shipped was charged, and is what was charged for.
THEOREM LedgersMatch == Spec => []LedgersAgree
<1>1. IInv => LedgersAgree BY InvImplies DEF LedgersAgree
<1> QED BY <1>1, Invariant, PTL

\* The answer of PlaceOrder tells what the till and the warehouse have seen, and a
\* confirmation or a message to the topic is of an order that was shipped.
THEOREM WordsBorneOut == Spec => []WordsAreTrue
<1>1. IInv => WordsAreTrue BY InvImplies DEF WordsAreTrue
<1> QED BY <1>1, Invariant, PTL

\* A cart that an order has settled is not sold again.
THEOREM SettledCartsStay == Spec => []NoResale
<1>1. IInv => NoResale BY DEF IInv, CartsInv
<1> QED BY <1>1, Invariant, PTL

\* Units leave a cart only by the shopper, an AddItem, or an order that was
\* charged and shipped.
THEOREM CartsSafe == Spec => CartEmptiedForShipped
<1>1. IInv /\ [Next]_vars =>
        [\A u \in Users :
           ~(cart[u] \subseteq cart'[u]) =>
             \/ ClearCart(u)
             \/ \E a \in adding : a.user = u /\ StoreItem(a)
             \/ \E r \in Requests : /\ UserOf[r] = u
                                    /\ EmptyUserCart(r)
                                    /\ charges[r] = <<snap[r]>>
                                    /\ parcels[r] = <<snap[r]>>]_vars
  <2> SUFFICES ASSUME IInv, Next, NEW u \in Users,
                      ~(cart[u] \subseteq cart'[u]), ~ClearCart(u),
                      ~\E a \in adding : a.user = u /\ StoreItem(a)
               PROVE  \E r \in Requests : /\ UserOf[r] = u
                                         /\ EmptyUserCart(r)
                                         /\ charges[r] = <<snap[r]>>
                                         /\ parcels[r] = <<snap[r]>>
    OBVIOUS
  <2>1. TypeOK /\ \A r \in Requests : OrderInv(r) BY DEF IInv
  <2> USE DEF serviceVars, cartVars
  <2>2. ASSUME NEW r \in Requests, EmptyUserCart(r)
        PROVE  UserOf[r] = u
    BY <2>1, <2>2, UserOfAssumption DEF TypeOK, EmptyUserCart
  <2>3. ASSUME NEW r \in Requests, PlaceOrder(r) \/ CallReturns(r) \/ Publish(r)
        PROVE  EmptyCart(r) /\ EmptyUserCart(r)
    BY <2>3 DEF CallReturns, PlaceOrder, GetUserCart, PrepareOrder, Charge,
       ChargeCard, Ship, ShipOrder, EmptyCart, Email, SendConfirmation, Publish
  <2>4. ASSUME NEW r \in Requests, EmptyCart(r), EmptyUserCart(r)
        PROVE  charges[r] = <<snap[r]>> /\ parcels[r] = <<snap[r]>>
    BY <2>1, <2>4 DEF EmptyCart, Succeeds, Errs, OrderInv, ShippedOrder
  <2>5. CASE Deliver
    <3>1. PICK late \in inFlight : Execute(late[1], late[2]) \/ UNCHANGED serviceVars
      BY <2>5 DEF Deliver
    <3>2. PICK r \in Requests, call \in Effects : late = <<r, call>>
      BY <2>1, <3>1 DEF TypeOK
    <3>3. call = "empty" /\ EmptyUserCart(r)
      <4>1. cart' # cart OBVIOUS
      <4>2. Execute(r, call) BY <3>1, <3>2, <4>1
      <4> QED BY <4>1, <4>2 DEF Execute, ChargeCard, ShipOrder, SendConfirmation
    <3>4. charges[r] = <<snap[r]>> /\ parcels[r] = <<snap[r]>>
      BY <2>1, <3>1, <3>2, <3>3 DEF OrderInv, LateAfter
    <3> QED BY <2>2, <3>3, <3>4
  <2>6. CASE Crash BY <2>6 DEF Crash
  <2>7. ASSUME NEW v \in Users, ClearCart(v) PROVE FALSE
    BY <2>1, <2>7 DEF TypeOK, ClearCart
  <2>8. ASSUME NEW v \in Users, NEW x \in Units, AddItem(v, x) PROVE FALSE
    BY <2>1, <2>8 DEF TypeOK, AddItem
  <2>9. ASSUME NEW a \in adding, StoreItem(a) PROVE FALSE
    BY <2>1, <2>9 DEF TypeOK, Additions, StoreItem
  <2> QED BY <2>2, <2>3, <2>4, <2>5, <2>6, <2>7, <2>8, <2>9 DEF Next
<1> QED BY <1>1, Invariant, PTL DEF Spec, CartEmptiedForShipped

-----------------------------------------------------------------------------
(* Checkout implements OrderContract.                                      *)

\* The initial states are those of the contract.
LEMMA ContractInit == Init => Contract!Init
BY DEF Init, Contract!Init

\* An executed call is a step of the contract.
LEMMA ChargeIsPay ==
  ASSUME TypeOK, NEW r \in Requests, ChargeCard(r), charges[r] = << >>,
         result[r] \in {"none", "Internal", "lost"}, UNCHANGED result
  PROVE  Contract!Pay(r)
<1>1. Append(<< >>, snap[r]) = <<snap[r]>> BY AppendFirst
<1>2. snap[r] \in SUBSET Units BY DEF TypeOK
<1> QED BY <1>1, <1>2 DEF ChargeCard, Contract!Pay

\* A parcel sent for an order that is charged is a Send of the contract.
LEMMA ShipIsSend ==
  ASSUME TypeOK, NEW r \in Requests, ShipOrder(r), charges[r] = <<snap[r]>>,
         parcels[r] = << >>, result[r] \in {"none", "Unavailable", "lost"},
         UNCHANGED result
  PROVE  Contract!Send(r)
<1>1. Append(<< >>, snap[r]) = <<snap[r]>> BY AppendFirst
<1>2. <<snap[r]>> # << >> BY OneIsNotEmpty
<1> QED BY <1>1, <1>2 DEF ShipOrder, Contract!Send

\* Every step is a step of the contract, or none.
LEMMA ContractStep == IInv /\ [Next]_vars => [Contract!Next]_(Contract!vars)
<1> SUFFICES ASSUME IInv, [Next]_vars
             PROVE  Contract!Next \/ UNCHANGED <<charges, parcels, result>>
  BY DEF Contract!vars
<1>1. TypeOK /\ \A r \in Requests : OrderInv(r) BY DEF IInv
<1> USE DEF serviceVars, cartVars
<1>2. ASSUME NEW r \in Requests, PlaceOrder(r) \/ CallReturns(r) \/ Publish(r)
      PROVE  Contract!Next \/ UNCHANGED <<charges, parcels, result>>
  <2> USE <1>1 DEF TypeOK
  <2>1. /\ EarlyOrder(r) /\ ChargedOrder(r) /\ ShippedOrder(r) /\ AnsweredOrder(r)
        /\ <<snap[r]>> # << >>
    BY OneIsNotEmpty DEF OrderInv
  <2>2. ASSUME NEW a \in Results, Return(r, a), UNCHANGED <<charges, parcels>>,
               result[r] = "none",
               \/ a = "ok" /\ parcels[r] # << >>
               \/ a = "Internal" /\ parcels[r] = << >>
               \/ a = "Unavailable" /\ charges[r] # << >>
        PROVE  Contract!Next
    BY <2>2 DEF Return, Contract!Next, Contract!Answer
  <2>3. CASE PlaceOrder(r)
    BY <2>1, <2>2, <2>3 DEF PlaceOrder, Goto, EarlyOrder, AnsweredOrder, Results
  <2>4. CASE GetUserCart(r)
    BY <2>1, <2>2, <2>4 DEF GetUserCart, Succeeds, Errs, Goto, EarlyOrder,
       AnsweredOrder, Results
  <2>5. CASE PrepareOrder(r)
    BY <2>1, <2>2, <2>5 DEF PrepareOrder, Succeeds, Errs, Goto, EarlyOrder,
       AnsweredOrder, Results
  <2>6. CASE Charge(r)
    <3>1. pc[r] = "charge" BY <2>6 DEF Charge, Succeeds, Errs
    <3>2. result[r] = "none" /\ charges[r] = << >> /\ parcels[r] = << >>
      BY <2>1, <3>1 DEF AnsweredOrder, EarlyOrder
    <3>3. CASE ChargeCard(r) /\ Goto(r, "ship")
      BY <3>2, <3>3, ChargeIsPay DEF Goto, Contract!Next
    <3>4. CASE Return(r, "Internal") /\ UNCHANGED serviceVars
      BY <2>2, <3>2, <3>4 DEF Results
    <3> QED BY <2>6, <3>3, <3>4 DEF Charge
  <2>7. CASE Ship(r)
    <3>1. pc[r] = "ship" BY <2>7 DEF Ship, Succeeds, Errs
    <3>2. result[r] = "none" /\ charges[r] = <<snap[r]>> /\ parcels[r] = << >>
      BY <2>1, <3>1 DEF AnsweredOrder, ChargedOrder
    <3>3. CASE ShipOrder(r) /\ Goto(r, "empty")
      BY <3>2, <3>3, ShipIsSend DEF Goto, Contract!Next
    <3>4. CASE Return(r, "Unavailable") /\ UNCHANGED serviceVars
      BY <2>1, <2>2, <3>2, <3>4 DEF Results
    <3> QED BY <2>7, <3>3, <3>4 DEF Ship
  <2>8. CASE EmptyCart(r)
    BY <2>8 DEF EmptyCart, EmptyUserCart, Goto
  <2>9. CASE Email(r)
    BY <2>1, <2>2, <2>9 DEF Email, SendConfirmation, Succeeds, Errs, Goto,
       ShippedOrder, AnsweredOrder, Results
  <2>10. CASE Publish(r)
    BY <2>1, <2>2, <2>10 DEF Publish, ShippedOrder, AnsweredOrder, Results
  <2> QED BY <1>2, <2>3, <2>4, <2>5, <2>6, <2>7, <2>8, <2>9, <2>10 DEF CallReturns
<1>3. CASE Crash
  <2>1. Contract!Lose({r \in Requests : Active(r)})
    BY <1>1, <1>3 DEF Crash, Active, OrderInv, AnsweredOrder, Contract!Lose
  <2> QED BY <2>1 DEF Contract!Next
<1>4. CASE Deliver
  <2>1. PICK late \in inFlight :
          /\ Execute(late[1], late[2]) \/ UNCHANGED serviceVars
          /\ UNCHANGED handlerVars
    BY <1>4 DEF Deliver
  <2>2. PICK r \in Requests, call \in Effects : late = <<r, call>>
    BY <1>1, <2>1 DEF TypeOK
  <2>3. LateCharge(r) /\ LateShip(r) /\ UNCHANGED result
    BY <1>1, <2>1 DEF OrderInv, handlerVars
  <2>4. CASE call = "charge" /\ ChargeCard(r)
    <3>1. Contract!Pay(r)
      BY <1>1, <2>1, <2>2, <2>3, <2>4, ChargeIsPay DEF LateCharge
    <3> QED BY <3>1 DEF Contract!Next
  <2>5. CASE call = "ship" /\ ShipOrder(r)
    <3>1. Contract!Send(r)
      BY <1>1, <2>1, <2>2, <2>3, <2>5, ShipIsSend DEF LateShip
    <3> QED BY <3>1 DEF Contract!Next
  <2>6. CASE EmptyUserCart(r) \/ SendConfirmation(r) \/ UNCHANGED serviceVars
    BY <2>3, <2>6 DEF EmptyUserCart, SendConfirmation
  <2> QED BY <2>1, <2>2, <2>4, <2>5, <2>6 DEF Execute
<1>5. CASE \/ \E u \in Users : ClearCart(u) \/ \E x \in Units : AddItem(u, x)
           \/ \E a \in adding : StoreItem(a)
  BY <1>5 DEF ClearCart, AddItem, StoreItem, handlerVars
<1>6. CASE UNCHANGED vars BY <1>6 DEF vars, handlerVars
<1> QED BY <1>2, <1>3, <1>4, <1>5, <1>6 DEF Next

\* PlaceOrder implements the contract between shopper, till and warehouse: each
\* of its behaviours, crashes and late calls included, is one of OrderContract's.
THEOREM ImplementsContract == Spec => ContractKept
<1>1. Spec => Contract!Init /\ [][Contract!Next]_(Contract!vars)
  BY ContractInit, ContractStep, Invariant, PTL DEF Spec
<1> QED BY <1>1 DEF ContractKept, Contract!Spec

-----------------------------------------------------------------------------
(* Checkout's carts follow CartContract.                                   *)

\* Emptying the cart is a step that the contract of the carts allows.
LEMMA EmptyIsEmpty ==
  ASSUME TypeOK, NEW r \in Requests, EmptyUserCart(r) PROVE CartService!Next
<1>1. CartService!Empty({UserOf[r]})
  BY UserOfAssumption DEF TypeOK, EmptyUserCart, CartService!Empty
<1> QED BY <1>1, UserOfAssumption DEF CartService!Next

\* Every step is a step of the contract of the carts, or none.
LEMMA CartServiceStep == TypeOK /\ [Next]_vars => [CartService!Next]_(CartService!vars)
<1> SUFFICES ASSUME TypeOK, [Next]_vars
             PROVE  CartService!Next \/ UNCHANGED <<cart, added, adding>>
  BY DEF CartService!vars
<1> USE DEF serviceVars, cartVars
<1>1. ASSUME NEW r \in Requests, PlaceOrder(r) \/ CallReturns(r) \/ Publish(r)
      PROVE  EmptyUserCart(r) \/ UNCHANGED <<cart, added, adding>>
  BY <1>1 DEF CallReturns, PlaceOrder, GetUserCart, PrepareOrder, Charge,
     ChargeCard, Ship, ShipOrder, EmptyCart, Email, SendConfirmation, Publish
<1>2. CASE Deliver
  <2>1. PICK late \in inFlight : Execute(late[1], late[2]) \/ UNCHANGED serviceVars
    BY <1>2 DEF Deliver
  <2>2. PICK r \in Requests, call \in Effects : late = <<r, call>>
    BY <2>1 DEF TypeOK
  <2>3. EmptyUserCart(r) \/ UNCHANGED <<cart, added, adding>>
    BY <2>1, <2>2 DEF Execute, ChargeCard, ShipOrder, SendConfirmation
  <2> QED BY <2>3, EmptyIsEmpty
<1>3. CASE Crash BY <1>3 DEF Crash
<1>4. ASSUME NEW u \in Users, ClearCart(u) PROVE CartService!Next
  <2>1. CartService!Empty({u}) BY <1>4 DEF TypeOK, ClearCart, CartService!Empty
  <2> QED BY <2>1 DEF CartService!Next
<1>5. ASSUME NEW u \in Users, NEW x \in Units, AddItem(u, x) PROVE CartService!Next
  BY <1>5 DEF AddItem, CartService!Next, CartService!Read
<1>6. ASSUME NEW a \in adding, StoreItem(a) PROVE CartService!Next
  <2>1. CartService!Store(a) \/ CartService!Drop(a)
    BY <1>6 DEF StoreItem, CartService!Store, CartService!Drop
  <2> QED BY <2>1 DEF CartService!Next
<1>7. CASE UNCHANGED vars BY <1>7 DEF vars
<1> QED BY <1>1, <1>2, <1>3, <1>4, <1>5, <1>6, <1>7, EmptyIsEmpty DEF Next

\* Checkout assumes nothing of the cart service that its contract does not give:
\* every behaviour of the carts in this model is one of CartContract's.
THEOREM AssumesCartContract == Spec => CartsKept
<1>1. Init => CartService!Init BY DEF Init, CartService!Init
<1>2. Spec => CartService!Init /\ [][CartService!Next]_(CartService!vars)
  BY <1>1, CartServiceStep, TypeCorrect, PTL DEF Spec
<1> QED BY <1>2 DEF CartsKept, CartService!Spec
=============================================================================
