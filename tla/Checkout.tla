------------------------------ MODULE Checkout ------------------------------
(***************************************************************************)
(* The PlaceOrder handler of the checkout service, run concurrently by one *)
(* goroutine per request, and what its calls do at the cart, payment,      *)
(* shipping, email and Kafka services.                                     *)
(*                                                                         *)
(* A unit of merchandise stands for what one AddItem call puts in a cart,  *)
(* so a cart is a set of units and "the same thing sold twice" is a unit   *)
(* in two charges.  Amounts are computed from the units (module Money),    *)
(* so a charge or a parcel is represented by the units it is for.          *)
(*                                                                         *)
(* A call either succeeds, or the handler sees an error.  An error says    *)
(* nothing about the callee: the call may still be in flight and executed  *)
(* later (inFlight), or never.  The error may be that the client is gone,  *)
(* after which no call of the request is sent any more (gone).             *)
(***************************************************************************)
EXTENDS Naturals, Sequences

CONSTANTS Users,        \* user (session) ids
          Requests,     \* PlaceOrder calls, each made once
          UserOf,       \* the user_id of each request
          Units,        \* bound: what AddItem calls may put in carts
          KafkaEnabled  \* KAFKA_ADDR is set (kafkaBrokerSvcAddr # "")

ASSUME UserOfAssumption == UserOf \in [Requests -> Users]
ASSUME KafkaAssumption == KafkaEnabled \in BOOLEAN

VARIABLES pc,        \* where each request's handler is
          snap,      \* the cart each handler read (prep.cartItems)
          result,    \* what the handler returned
          gone,      \* the request's context is cancelled
          inFlight,  \* calls whose caller no longer waits for them
          cart,      \* the cart service's carts
          added,     \* units that were ever stored in a cart
          adding,    \* AddItem calls that have read the cart, not stored it
          emptied,   \* requests whose EmptyCart call was executed
          overtaken, \* users whose cart was emptied during an AddItem
          charges,   \* payment service: the transactions made per request
          parcels,   \* shipping service: the shipments made per request
          emails,    \* requests whose confirmation was sent
          handed     \* requests whose order was given to the Kafka producer

handlerVars == <<pc, snap, result, gone>>
cartVars == <<cart, added, adding, emptied, overtaken>>
serviceVars == <<cartVars, charges, parcels, emails, handed>>
vars == <<handlerVars, inFlight, serviceVars>>

Calls == {"getCart", "prepare", "charge", "ship", "empty", "email"}
Effects == {"charge", "ship", "empty", "email"}
Places == Calls \cup {"idle", "publish", "done"}
Results == {"none", "ok", "Internal", "Unavailable", "lost"}

Active(r) == pc[r] \notin {"idle", "done"}

\* An AddItem call of a user, with the cart it has read.
Additions == [user : Users, unit : Units, seen : SUBSET Units]

TypeOK ==
  /\ pc \in [Requests -> Places]
  /\ snap \in [Requests -> SUBSET Units]
  /\ result \in [Requests -> Results]
  /\ gone \in [Requests -> BOOLEAN]
  /\ inFlight \in SUBSET (Requests \X Effects)
  /\ cart \in [Users -> SUBSET Units]
  /\ added \in SUBSET Units
  /\ adding \in SUBSET Additions
  /\ overtaken \in SUBSET Users
  /\ emptied \in SUBSET Requests
  /\ charges \in [Requests -> Seq(SUBSET Units)]
  /\ parcels \in [Requests -> Seq(SUBSET Units)]
  /\ emails \in SUBSET Requests
  /\ handed \in SUBSET Requests

Init ==
  /\ pc = [r \in Requests |-> "idle"]
  /\ snap = [r \in Requests |-> {}]
  /\ result = [r \in Requests |-> "none"]
  /\ gone = [r \in Requests |-> FALSE]
  /\ inFlight = {}
  /\ cart = [u \in Users |-> {}]
  /\ added = {} /\ adding = {}
  /\ emptied = {} /\ overtaken = {}
  /\ charges = [r \in Requests |-> << >>]
  /\ parcels = [r \in Requests |-> << >>]
  /\ emails = {}
  /\ handed = {}

-----------------------------------------------------------------------------
(* What an executed call does at its service.                              *)

\* payment/charge.js makes one transaction per call it accepts.
ChargeCard(r) ==
  /\ charges' = [charges EXCEPT ![r] = Append(@, snap[r])]
  /\ UNCHANGED <<cartVars, parcels, emails, handed>>

\* Mutant: the cart is read again for shipping.
ShipOrder_Reread(r) ==
  /\ parcels' = [parcels EXCEPT ![r] = Append(@, cart[UserOf[r]])]
  /\ UNCHANGED <<cartVars, charges, emails, handed>>

\* shipping makes one tracking id per call.
ShipOrder(r) ==
  /\ parcels' = [parcels EXCEPT ![r] = Append(@, snap[r])]
  /\ UNCHANGED <<cartVars, charges, emails, handed>>

\* The request's EmptyCart is executed, perhaps in the middle of an AddItem.
Overtake(r) ==
  /\ emptied' = emptied \cup {r}
  /\ overtaken' = overtaken \cup {a.user : a \in {b \in adding : b.user = UserOf[r]}}

\* Mutant: the cart is emptied only if it is still the one that was read.
EmptyUserCart_IfUnchanged(r) ==
  /\ cart' = IF cart[UserOf[r]] = snap[r] THEN [cart EXCEPT ![UserOf[r]] = {}] ELSE cart
  /\ Overtake(r)
  /\ UNCHANGED <<added, adding, charges, parcels, emails, handed>>

\* The cart service stores an empty cart, whatever the cart holds by then.
EmptyUserCart(r) ==
  /\ cart' = [cart EXCEPT ![UserOf[r]] = {}]
  /\ Overtake(r)
  /\ UNCHANGED <<added, adding, charges, parcels, emails, handed>>

SendConfirmation(r) ==
  /\ emails' = emails \cup {r}
  /\ UNCHANGED <<cartVars, charges, parcels, handed>>

Execute(r, call) ==
  \/ call = "charge" /\ ChargeCard(r)
  \/ call = "ship" /\ ShipOrder(r)
  \/ call = "empty" /\ EmptyUserCart(r)
  \/ call = "email" /\ SendConfirmation(r)

-----------------------------------------------------------------------------
(* The handler.                                                            *)

Goto(r, place) == pc' = [pc EXCEPT ![r] = place] /\ UNCHANGED result

Return(r, res) ==
  /\ pc' = [pc EXCEPT ![r] = "done"]
  /\ result' = [result EXCEPT ![r] = res]

\* The call the handler waits for succeeds: it was sent, executed, answered.
Succeeds(r, call) ==
  /\ pc[r] = call
  /\ ~gone[r]
  /\ UNCHANGED <<gone, inFlight>>

\* The handler sees an error.  Under a cancelled context the call is not sent;
\* otherwise the error may be the cancellation itself, and the call may still
\* reach its service.
Errs(r, call) ==
  /\ pc[r] = call
  /\ \/ gone[r] /\ UNCHANGED <<gone, inFlight>>
     \/ /\ ~gone[r]
        /\ gone' \in {gone, [gone EXCEPT ![r] = TRUE]}
        /\ inFlight' \in {inFlight,
                          inFlight \cup ({<<r, call>>} \cap (Requests \X Effects))}

\* A PlaceOrder request arrives and gets an order id, or none (uuid.NewUUID).
PlaceOrder(r) ==
  /\ pc[r] = "idle"
  /\ Goto(r, "getCart") \/ Return(r, "Internal")
  /\ UNCHANGED <<snap, gone, inFlight>> /\ UNCHANGED serviceVars

\* Mutant: reading the cart for an order takes the units out of it.
GetUserCart_Takes(r) ==
  /\ Succeeds(r, "getCart")
  /\ snap' = [snap EXCEPT ![r] = cart[UserOf[r]]]
  /\ Goto(r, "prepare")
  /\ EmptyUserCart(r)

\* getUserCart
GetUserCart(r) ==
  \/ /\ Succeeds(r, "getCart")
     /\ snap' = [snap EXCEPT ![r] = cart[UserOf[r]]]
     /\ Goto(r, "prepare")
     /\ UNCHANGED serviceVars
  \/ /\ Errs(r, "getCart")
     /\ Return(r, "Internal")
     /\ UNCHANGED snap /\ UNCHANGED serviceVars

\* prepOrderItems, quoteShipping, convertCurrency and the total: queries only.
PrepareOrder(r) ==
  /\ \/ Succeeds(r, "prepare") /\ Goto(r, "charge")
     \/ Errs(r, "prepare") /\ Return(r, "Internal")
  /\ UNCHANGED snap /\ UNCHANGED serviceVars

\* Mutant: a failed charge does not stop the order.
Charge_ErrorIgnored(r) ==
  /\ \/ Succeeds(r, "charge") /\ ChargeCard(r)
     \/ Errs(r, "charge") /\ UNCHANGED serviceVars
  /\ Goto(r, "ship")
  /\ UNCHANGED snap

\* chargeCard: an error ends the order.
Charge(r) ==
  /\ \/ Succeeds(r, "charge") /\ ChargeCard(r) /\ Goto(r, "ship")
     \/ Errs(r, "charge") /\ Return(r, "Internal") /\ UNCHANGED serviceVars
  /\ UNCHANGED snap

\* Mutant: a failed shipment does not stop the order.
Ship_ErrorIgnored(r) ==
  /\ \/ Succeeds(r, "ship") /\ ShipOrder(r)
     \/ Errs(r, "ship") /\ UNCHANGED serviceVars
  /\ Goto(r, "empty")
  /\ UNCHANGED snap

\* shipOrder: an error ends the order; the charge stays.
Ship(r) ==
  /\ \/ Succeeds(r, "ship") /\ ShipOrder(r) /\ Goto(r, "empty")
     \/ Errs(r, "ship") /\ Return(r, "Unavailable") /\ UNCHANGED serviceVars
  /\ UNCHANGED snap

\* Mutant: a failed EmptyCart is repeated until it succeeds.
EmptyCart_Retried(r) ==
  /\ \/ Succeeds(r, "empty") /\ EmptyUserCart(r) /\ Goto(r, "email")
     \/ Errs(r, "empty") /\ UNCHANGED serviceVars /\ Goto(r, "empty")
  /\ UNCHANGED snap

\* _ = cs.emptyUserCart(...): an error is ignored.
EmptyCart(r) ==
  /\ \/ Succeeds(r, "empty") /\ EmptyUserCart(r)
     \/ Errs(r, "empty") /\ UNCHANGED serviceVars
  /\ Goto(r, "email")
  /\ UNCHANGED snap

\* sendOrderConfirmation: an error is logged.
Email(r) ==
  /\ \/ Succeeds(r, "email") /\ SendConfirmation(r)
     \/ Errs(r, "email") /\ UNCHANGED serviceVars
  /\ IF KafkaEnabled THEN Goto(r, "publish") ELSE Return(r, "ok")
  /\ UNCHANGED snap

\* sendToPostProcessor gives the order to the producer, or finds the context
\* cancelled (module PostProcessor has the detail); the order is answered
\* either way.
Publish(r) ==
  /\ pc[r] = "publish"
  /\ Return(r, "ok")
  /\ \/ handed' = handed \cup {r} /\ UNCHANGED gone
     \/ handed' = handed /\ gone' = [gone EXCEPT ![r] = TRUE]
  /\ UNCHANGED <<snap, inFlight, cartVars, charges, parcels, emails>>

\* The handler gets past the call it is waiting for.
CallReturns(r) ==
  \/ GetUserCart(r) \/ PrepareOrder(r) \/ Charge(r) \/ Ship(r)
  \/ EmptyCart(r) \/ Email(r)

\* Mutant: a request that has already been answered is answered again.
Crash_AnswersAgain ==
  LET lost == {r \in Requests : pc[r] # "idle"}
  IN /\ lost # {}
     /\ pc' = [r \in Requests |-> IF r \in lost THEN "done" ELSE pc[r]]
     /\ result' = [r \in Requests |-> IF r \in lost THEN "lost" ELSE result[r]]
     /\ inFlight' \in {inFlight \cup {<<r, pc[r]>> : r \in late} : late \in SUBSET lost}
     /\ UNCHANGED <<snap, gone>> /\ UNCHANGED serviceVars

\* The process dies: a panic (money.Must), or its container is stopped.  Every
\* handler is lost with it; calls already sent may still be executed.
Crash ==
  LET lost == {r \in Requests : Active(r)}
      sent == {<<r, pc[r]>> : r \in {q \in lost : ~gone[q]}} \cap (Requests \X Effects)
  IN /\ lost # {}
     /\ pc' = [r \in Requests |-> IF r \in lost THEN "done" ELSE pc[r]]
     /\ result' = [r \in Requests |-> IF r \in lost THEN "lost" ELSE result[r]]
     /\ inFlight' \in {inFlight \cup late : late \in SUBSET sent}
     /\ UNCHANGED <<snap, gone>> /\ UNCHANGED serviceVars

-----------------------------------------------------------------------------
(* The rest of the system.                                                 *)

\* A call nobody waits for reaches its service, or never does.
Deliver ==
  \E late \in inFlight :
    /\ inFlight' = inFlight \ {late}
    /\ Execute(late[1], late[2]) \/ UNCHANGED serviceVars
    /\ UNCHANGED handlerVars

\* The shopper adds something: AddItemAsync reads the cart ...
AddItem(u, x) ==
  /\ x \notin added \cup {a.unit : a \in adding}
  /\ adding' = adding \cup {[user |-> u, unit |-> x, seen |-> cart[u]]}
  /\ UNCHANGED <<cart, added, emptied, overtaken, charges, parcels, emails, handed>>
  /\ UNCHANGED <<handlerVars, inFlight>>

\* Mutant: the call is repeated although its item was stored.
StoreItem_Repeated(a) ==
  /\ \/ /\ cart' = [cart EXCEPT ![a.user] = a.seen \cup {a.unit}]
        /\ added' = added \cup {a.unit}
        /\ UNCHANGED adding
     \/ adding' = adding \ {a} /\ UNCHANGED <<cart, added>>
  /\ UNCHANGED <<emptied, overtaken, charges, parcels, emails, handed>>
  /\ UNCHANGED <<handlerVars, inFlight>>

\* ... and stores what it has read with the item in it, over whatever the cart
\* holds by then; or it fails.
StoreItem(a) ==
  /\ adding' = adding \ {a}
  /\ \/ /\ cart' = [cart EXCEPT ![a.user] = a.seen \cup {a.unit}]
        /\ added' = added \cup {a.unit}
     \/ UNCHANGED <<cart, added>>
  /\ UNCHANGED <<emptied, overtaken, charges, parcels, emails, handed>>
  /\ UNCHANGED <<handlerVars, inFlight>>

\* The shopper empties the cart, or it expires after 60 idle minutes.
ClearCart(u) ==
  /\ cart[u] # {}
  /\ cart' = [cart EXCEPT ![u] = {}]
  /\ UNCHANGED <<added, adding, emptied, overtaken, charges, parcels, emails, handed>>
  /\ UNCHANGED <<handlerVars, inFlight>>

Next ==
  \/ \E r \in Requests : PlaceOrder(r) \/ CallReturns(r) \/ Publish(r)
  \/ Crash
  \/ Deliver
  \/ \E u \in Users : ClearCart(u) \/ \E x \in Units : AddItem(u, x)
  \/ \E a \in adding : StoreItem(a)

\* Every call a handler waits for returns, with an answer or with an error.
\* Nothing is assumed of Publish, which may wait for ever (PostProcessor).
Fairness == \A r \in Requests : WF_vars(CallReturns(r))

Spec == Init /\ [][Next]_vars
FairSpec == Spec /\ Fairness

-----------------------------------------------------------------------------
(* Properties.                                                             *)

\* An order is charged at most once and shipped at most once, calls executed
\* after their caller gave up included: PlaceOrder never repeats a call
\* (payment and shipping would not recognise a repeated one).
AtMostOnce == \A r \in Requests : Len(charges[r]) <= 1 /\ Len(parcels[r]) <= 1

\* What is shipped was charged before, and is exactly what was charged, however
\* the cart changed while the order was in progress: PlaceOrder charges and
\* ships the one cart it read.
ShippedAsCharged ==
  \A r \in Requests : \A i \in DOMAIN parcels[r] :
    i \in DOMAIN charges[r] /\ parcels[r][i] = charges[r][i]

\* The till and the warehouse agree about each order.
LedgersAgree == AtMostOnce /\ ShippedAsCharged

\* What the answer tells the client about the ledgers, now and for ever after:
\* OK - charged and shipped what was read; Internal - nothing ships, though a
\* charge may; Unavailable - the card was charged and no parcel is certain.
AnswerTellsLedger ==
  \A r \in Requests :
    /\ result[r] = "ok" => charges[r] = <<snap[r]>> /\ parcels[r] = <<snap[r]>>
    /\ result[r] = "Internal" => parcels[r] = << >>
    /\ result[r] = "Unavailable" => charges[r] = <<snap[r]>>

\* A confirmation is sent, and an order published, only for what was shipped.
AnnouncedIsShipped ==
  \A r \in emails \cup handed : parcels[r] = <<snap[r]>>

\* Whatever an order says, in its answer, its confirmation or the topic, the
\* ledgers bear out.
WordsAreTrue == AnswerTellsLedger /\ AnnouncedIsShipped

\* Once an order's EmptyCart has been executed the units it charged are out of
\* the cart for good, so no later order can sell them again - unless it was
\* executed in the middle of an AddItem of that shopper, which puts them back.
NoResale ==
  \A r \in emptied : UserOf[r] \in overtaken \/ snap[r] \cap cart[UserOf[r]] = {}

\* But for the shopper (and an AddItem that had read the cart before), a
\* shopper's units leave the cart only for an order of that shopper that was
\* charged and shipped, even when the EmptyCart call arrives late.
CartEmptiedForShipped ==
  [][\A u \in Users :
       ~(cart[u] \subseteq cart'[u]) =>
         \/ ClearCart(u)
         \/ \E a \in adding : a.user = u /\ StoreItem(a)
         \/ \E r \in Requests : /\ UserOf[r] = u
                                /\ EmptyUserCart(r)
                                /\ charges[r] = <<snap[r]>>
                                /\ parcels[r] = <<snap[r]>>]_vars

\* The money and the goods follow the contract, whatever fails when: what the
\* PlaceOrder handler does, with its calls executed late or never, implements
\* OrderContract.
Contract == INSTANCE OrderContract
            WITH paid <- charges, sent <- parcels, answer <- result
ContractKept == Contract!Spec

\* All that is assumed here of the cart service is what it promises: the carts of
\* this model follow the contract that CartStore implements.
CartService == INSTANCE CartContract
CartsKept == CartService!Spec

\* Every order that was placed ends, or gets as far as the Kafka producer:
\* no failing call is repeated or waited for twice.
EveryOrderSettles == \A r \in Requests : Active(r) ~> pc[r] \in {"publish", "done"}
=============================================================================
