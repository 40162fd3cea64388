----------------------------- MODULE Storefront -----------------------------
(***************************************************************************)
(* One tab of the web shop (frontend): the shopper's clicks, the /api      *)
(* routes they call, the copy of the cart the page keeps, and the pages    *)
(* the shopper is sent to.  The services behind the routes are not         *)
(* repeated here: the cart service does what CartContract promises, and    *)
(* checkout what OrderContract promises - the specifications CartStore and *)
(* Checkout are shown to implement.                                        *)
(*                                                                         *)
(* A unit is what one click on "Add To Cart" adds.  An answer may be late, *)
(* an error, or not come (the proxy gives up after 15 seconds while the    *)
(* route goes on); a page may be left, and the cart may change elsewhere.  *)
(***************************************************************************)
EXTENDS Naturals, Sequences, FiniteSets

CONSTANTS Me,          \* the shopper
          Units,       \* the clicks on "Add To Cart"
          Left,        \* what an earlier visit has left in the cart
          Submits,     \* the clicks on "Place Order"
          Empties,     \* the clicks on "Empty Cart"
          Currencies,  \* the keys under which the page keeps the cart
          MyCurrency,  \* the one the session names
          NoCart,      \* no cart yet
          MaxEvents    \* bounds the clicks, the choices of a currency included, with
                       \* the calls that fail or are late and the changes elsewhere

ASSUME ClicksDiffer == /\ Units \cap Submits = {}
                       /\ Units \cap Empties = {}
                       /\ Submits \cap Empties = {}
ASSUME LeftAssumption == Left \subseteq Units
ASSUME CurrencyAssumption == MyCurrency \in Currencies
ASSUME NoCartAssumption == \A items \in SUBSET Units : NoCart # items
ASSUME BoundsAssumption == MaxEvents \in Nat
ASSUME PagesAssumption == {"product", "cart"} \cap Submits = {}

VARIABLES
  cart, added, adding,   \* the cart service (CartContract)
  paid, sent, answer,    \* checkout (OrderContract)
  snap,      \* the cart each order was made of
  emptied,   \* whether the call that empties the cart was executed, was lost
  at,        \* where the route that serves each click is
  heard,     \* what the page knows of each click
  selected,  \* selectedCurrency
  data,      \* the cart kept per currency
  fetch,     \* the GET /api/cart under way per currency
  page,      \* the page shown: the product, the cart, or the order of a submit
  events,    \* counts clicks, calls that failed or were late, and changes elsewhere
  knew,      \* history: the orders known to be complete at each submit
  revived    \* history: the units an overtaken addition put back

services == <<cart, added, adding, paid, sent, answer, snap, emptied>>
browser == <<selected, data, fetch, page>>
vars == <<services, at, heard, browser, events, knew, revived>>

Clicks == Units \cup Submits \cup Empties

Cart == INSTANCE CartContract WITH Users <- {Me}
Order == INSTANCE OrderContract WITH Requests <- Submits

Idle == [at |-> "idle", items |-> {}, behind |-> FALSE]
Asked == [at |-> "asked", items |-> {}, behind |-> FALSE]
Served(items) == [at |-> "served", items |-> items, behind |-> FALSE]

Init ==
  /\ cart = [u \in {Me} |-> Left]
  /\ added = Left
  /\ adding = {}
  /\ Order!Init
  /\ snap = [s \in Submits |-> NoCart]
  /\ emptied = [k \in Submits \cup Empties |-> "no"]
  /\ at = [k \in Clicks |-> IF k \in Left THEN "elsewhere" ELSE "idle"]
  /\ heard = [k \in Clicks |-> "nothing"]
  /\ selected = MyCurrency
  /\ data = [c \in Currencies |-> NoCart]
  /\ fetch = [c \in Currencies |-> IF c = MyCurrency THEN Asked ELSE Idle]
  /\ page = "product"
  /\ events = 0
  /\ knew = [s \in Submits |-> {}]
  /\ revived = {}

\* Bounds what the shopper does and what goes wrong.
Event == events < MaxEvents /\ events' = events + 1

-----------------------------------------------------------------------------
(* The cart the page keeps. *)

\* What the page shows: no cart yet looks like an empty one.
Shown == IF data[selected] = NoCart THEN {} ELSE data[selected].items

\* History: the cart has changed and nothing will make the page look again.
\* The fetches that were served before the change are behind as well.
Behind(kept) == [c \in Currencies |->
  IF kept[c] = NoCart THEN NoCart ELSE [kept[c] EXCEPT !.behind = TRUE]]
Outrun(fetches) == [c \in Currencies |->
  [fetches[c] EXCEPT !.behind = (fetches[c].at = "served")]]
Unnoticed == data' = Behind(data) /\ fetch' = Outrun(fetch)

\* Mutant: the answer of a fetch that is under way is trusted (cancelRefetch: false).
refetch_Trusts(c) == IF fetch[c].at # "idle" THEN fetch[c] ELSE Asked

\* invalidateQueries starts the fetch of the cart on display again - unless it
\* is the first one: without data, the running fetch is kept as it is.
refetch(c) == IF data[c] = NoCart /\ fetch[c].at # "idle"
              THEN Outrun(fetch)[c] ELSE Asked

\* onSuccess of every mutation: all kept carts are out of date, the one on
\* display is fetched again.
invalidate ==
  /\ data' = data
  /\ fetch' = [Outrun(fetch) EXCEPT ![selected] = refetch(selected)]

\* Another currency is another key: useQuery fetches that cart, unless this is
\* already done.
onSelectCurrency(c) ==
  /\ c # selected
  /\ Event
  /\ selected' = c
  /\ fetch' = [fetch EXCEPT ![c] = IF @.at = "idle" THEN Asked ELSE @]
  /\ UNCHANGED <<services, at, heard, data, page, knew, revived>>

\* The shopper comes back to the tab: the cart on display is fetched again.
Focus ==
  /\ fetch[selected].at = "idle"
  /\ fetch' = [fetch EXCEPT ![selected] = Asked]
  /\ UNCHANGED <<services, at, heard, selected, data, page, events, knew, revived>>

\* GET /api/cart reads the cart, and only then looks up the products in it.
getCart(c) ==
  /\ fetch[c].at = "asked"
  /\ fetch' = [fetch EXCEPT ![c] = Served(cart[Me])]
  /\ UNCHANGED <<services, at, heard, selected, data, page, events, knew, revived>>

\* Mutant: an empty cart is taken for no answer.
Fetched_Empty(c) ==
  /\ fetch[c].at = "served"
  /\ data' = IF fetch[c].items = {} THEN data ELSE
       [data EXCEPT ![c] = [items |-> fetch[c].items, behind |-> fetch[c].behind]]
  /\ fetch' = [fetch EXCEPT ![c] = Idle]
  /\ UNCHANGED <<services, at, heard, selected, page, events, knew, revived>>

\* The page hears it.
Fetched(c) ==
  /\ fetch[c].at = "served"
  /\ data' = [data EXCEPT ![c] = [items |-> fetch[c].items, behind |-> fetch[c].behind]]
  /\ fetch' = [fetch EXCEPT ![c] = Idle]
  /\ UNCHANGED <<services, at, heard, selected, page, events, knew, revived>>

\* The fetch and its retries have failed; what was kept is kept.
FetchFails(c) ==
  /\ fetch[c].at # "idle"
  /\ Event
  /\ fetch' = [fetch EXCEPT ![c] = Idle]
  /\ data' = [data EXCEPT ![c] = Behind(data)[c]]
  /\ UNCHANGED <<services, at, heard, selected, page, knew, revived>>

-----------------------------------------------------------------------------
(* What the shopper does. *)

\* request(): a call leaves for its route, and the page waits for the answer.
request(k, route) ==
  /\ at[k] = "idle"
  /\ Event
  /\ at' = [at EXCEPT ![k] = route]
  /\ heard' = [heard EXCEPT ![k] = "waiting"]

onAddItem(u) ==
  /\ page = "product"
  /\ request(u, "adding")
  /\ UNCHANGED <<services, browser, knew, revived>>

\* The cart page has its buttons while it shows something; none is ever disabled.
CartDetail == page = "cart" /\ Shown # {}

onEmptyCart(k) ==
  /\ CartDetail
  /\ request(k, "emptying")
  /\ UNCHANGED <<services, browser, knew, revived>>

onPlaceOrder(s) ==
  /\ CartDetail
  /\ request(s, "placing")
  /\ knew' = [knew EXCEPT ![s] = {t \in Submits : heard[t] = "ok"}]
  /\ UNCHANGED <<services, browser, revived>>

\* A link to the home page, a product or the cart.
Visit(p) ==
  /\ page # p
  /\ page' = p
  /\ UNCHANGED <<services, at, heard, selected, data, fetch, events, knew, revived>>

-----------------------------------------------------------------------------
(* The routes. *)

\* A call of a route's gateway: it resolves with the answer or rejects, and a
\* route that fails answers 500 with a text that is no JSON.
Goes(k, next) == at' = [at EXCEPT ![k] = next]
Fails(k) == Goes(k, "error") /\ Event

\* A change of the cart by click k: if the page has given up waiting for it,
\* nothing will make the page look again.
CartChanges(k) ==
  /\ IF heard[k] = "error" THEN Unnoticed ELSE UNCHANGED <<data, fetch>>
  /\ UNCHANGED <<heard, selected, page, events, knew>>

\* POST /api/cart: addItem, of which the cart service reads the cart first ...
addItem(u) ==
  /\ at[u] = "adding"
  /\ Cart!Read(Me, u)
  /\ Goes(u, "storing")
  /\ UNCHANGED <<paid, sent, answer, snap, emptied, heard, browser, events, knew, revived>>

\* ... and then stores it, also when the call has been given up ...
addItemStores(u) ==
  /\ at[u] \in {"storing", "error"}
  /\ \E a \in adding :
       /\ a.unit = u
       /\ Cart!Store(a)
       /\ revived' = revived \cup (a.seen \ cart[Me])
  /\ IF at[u] = "storing" THEN Goes(u, "answering") ELSE at' = at
  /\ CartChanges(u)
  /\ UNCHANGED <<paid, sent, answer, snap, emptied>>

\* ... and getCart, whose failure is an error of an addition that was made.
addItemAnswers(u) ==
  /\ \/ at[u] = "answering" /\ Goes(u, "ok") /\ UNCHANGED events
     \/ at[u] \in {"adding", "storing", "answering"} /\ Fails(u)
  /\ UNCHANGED <<services, heard, browser, knew, revived>>

\* DELETE /api/cart.
emptyCart(k) ==
  /\ at[k] = "emptying"
  /\ emptied[k] = "no"
  /\ Cart!Empty({Me})
  /\ emptied' = [emptied EXCEPT ![k] = "done"]
  /\ CartChanges(k)
  /\ UNCHANGED <<paid, sent, answer, snap, at, revived>>

emptyCartAnswers(k) ==
  /\ at[k] = "emptying"
  /\ \/ emptied[k] = "done" /\ Goes(k, "ok") /\ UNCHANGED events
     \/ Fails(k)
  /\ UNCHANGED <<services, heard, browser, knew, revived>>

\* POST /api/checkout: checkout reads the cart ...
placeOrderReads(s) ==
  /\ at[s] = "placing"
  /\ snap[s] = NoCart
  /\ snap' = [snap EXCEPT ![s] = cart[Me]]
  /\ UNCHANGED <<cart, added, adding, paid, sent, answer, emptied,
                 at, heard, browser, events, knew, revived>>

\* ... charges and ships what it read, as its contract says ...
placeOrderDelivers(s) ==
  /\ at[s] = "placing" /\ snap[s] # NoCart
  /\ \/ Order!Pay(s) /\ paid'[s] = <<snap[s]>>
     \/ Order!Send(s)
  /\ UNCHANGED <<cart, added, adding, snap, emptied,
                 at, heard, browser, events, knew, revived>>

\* ... empties the cart once the parcel has left, an error of which it ignores ...
placeOrderEmpties(s) ==
  /\ answer[s] = "none" /\ sent[s] # << >>
  /\ emptied[s] = "no"
  /\ \/ /\ Cart!Empty({Me})
        /\ emptied' = [emptied EXCEPT ![s] = "done"]
        /\ CartChanges(s)
     \/ /\ emptied' = [emptied EXCEPT ![s] = "lost"]
        /\ Event
        /\ UNCHANGED <<cart, added, adding, heard, browser, knew>>
  /\ UNCHANGED <<paid, sent, answer, snap, at, revived>>

\* Mutant: the answer does not wait for the cart to be emptied.
placeOrder_NoWait(s) ==
  /\ at[s] = "placing"
  /\ Order!Answer(s) \/ Order!Lose({s})
  /\ IF answer'[s] = "ok" THEN Goes(s, "looking") /\ UNCHANGED events ELSE Fails(s)
  /\ UNCHANGED <<cart, added, adding, snap, emptied, heard, browser, knew, revived>>

\* ... and answers.
placeOrder(s) ==
  /\ at[s] = "placing"
  /\ Order!Answer(s) \/ Order!Lose({s})
  /\ IF answer'[s] = "ok" THEN emptied[s] # "no" /\ Goes(s, "looking") /\ UNCHANGED events
                         ELSE Fails(s)
  /\ UNCHANGED <<cart, added, adding, snap, emptied, heard, browser, knew, revived>>

\* Mutant: the lookups start while the order is being placed.
getProducts_Early(s) ==
  /\ at[s] \in {"placing", "looking"}
  /\ (Goes(s, "ok") /\ UNCHANGED events) \/ Fails(s)
  /\ UNCHANGED <<services, heard, browser, knew, revived>>

\* The route looks up the products of the order: one failure is an error of
\* an order that was placed.
getProducts(s) ==
  /\ at[s] = "looking"
  /\ (Goes(s, "ok") /\ UNCHANGED events) \/ Fails(s)
  /\ UNCHANGED <<services, heard, browser, knew, revived>>

-----------------------------------------------------------------------------
(* What the page hears. *)

\* Whether click k has changed the cart.
Changed(k) == IF k \in Units THEN k \in added ELSE emptied[k] = "done"

\* An error is nowhere caught: no cart is fetched and no page shown.
Rejected(k) ==
  /\ heard[k] = "waiting"
  /\ heard' = [heard EXCEPT ![k] = "error"]
  /\ IF Changed(k) THEN Unnoticed ELSE UNCHANGED <<data, fetch>>
  /\ UNCHANGED <<services, at, selected, page, knew, revived>>

\* A text that is no JSON rejects; so does an answer that does not come.
Refused(k) == at[k] = "error" /\ Rejected(k) /\ UNCHANGED events
TimesOut(k) == at[k] # "error" /\ Rejected(k) /\ Event

\* The page an answer leads to, wherever the shopper is by now.
push(k) == IF k \in Units THEN "cart" ELSE IF k \in Submits THEN k ELSE page

Answered(k) ==
  /\ heard[k] = "waiting"
  /\ at[k] = "ok"
  /\ heard' = [heard EXCEPT ![k] = "ok"]
  /\ invalidate
  /\ page' = push(k)
  /\ UNCHANGED <<services, at, selected, events, knew, revived>>

-----------------------------------------------------------------------------
(* Elsewhere: another tab or device of the session, or the cart expires. *)

Elsewhere ==
  /\ Event
  /\ \/ Cart!Empty({Me}) /\ UNCHANGED at
     \/ \E u \in Units :
          /\ at[u] = "idle"
          /\ Goes(u, "elsewhere")
          /\ cart' = [cart EXCEPT ![Me] = @ \cup {u}]
          /\ added' = added \cup {u}
          /\ UNCHANGED adding
  /\ Unnoticed
  /\ UNCHANGED <<paid, sent, answer, snap, emptied, heard, selected, page, knew, revived>>

-----------------------------------------------------------------------------
Shopper ==
  \/ \E u \in Units : onAddItem(u)
  \/ \E k \in Empties : onEmptyCart(k)
  \/ \E s \in Submits : onPlaceOrder(s)
  \/ \E p \in {"product", "cart"} : Visit(p)
  \/ \E c \in Currencies : onSelectCurrency(c)
  \/ Focus

RouteStep(k) ==
  \/ k \in Units /\ (addItem(k) \/ addItemStores(k) \/ addItemAnswers(k))
  \/ k \in Empties /\ (emptyCart(k) \/ emptyCartAnswers(k))
  \/ k \in Submits /\ \/ placeOrderReads(k) \/ placeOrderDelivers(k)
                      \/ placeOrderEmpties(k) \/ placeOrder(k) \/ getProducts(k)

Hears(k) == Refused(k) \/ Answered(k)

FetchStep(c) == getCart(c) \/ Fetched(c)

Next ==
  \/ Shopper
  \/ Elsewhere
  \/ \E k \in Clicks : RouteStep(k) \/ Hears(k) \/ TimesOut(k)
  \/ \E c \in Currencies : FetchStep(c) \/ FetchFails(c)

Spec == Init /\ [][Next]_vars

\* Fetches end.  Nothing is assumed of the shopper,
\* nor of the routes: a click may never be answered.
FairSpec == Spec /\ \A c \in Currencies : WF_vars(FetchStep(c))

-----------------------------------------------------------------------------
(* Properties *)
\* The page waits for nothing.
Quiet ==
  /\ fetch[selected].at = "idle"
  /\ \A k \in Clicks : heard[k] # "waiting"

\* A page that waits for nothing shows the cart as it is, through any mix of
\* additions, orders and changes of the currency - unless the last change was
\* made elsewhere, was reported as an error, could not be fetched, or was
\* confirmed while a fetch that was served before it could not be restarted:
\* the first fetch of a currency, or the fetch of a currency not on display
\* (Cart.provider.tsx: onSuccess, useQuery).
ShownIsTheCart ==
  Quiet /\ data[selected] # NoCart /\ ~ data[selected].behind => Shown = cart[Me]

\* Whoever sees "Your order is complete!" has paid for exactly what the parcel
\* contains, and it has left.
CompleteMeansSent ==
  page \in Submits => sent[page] = <<snap[page]>> /\ paid[page] = <<snap[page]>>

\* What an order sold that the page knew to be complete is not sold again by a
\* later submit, unless emptying the cart failed, or an addition that had read
\* the cart before put it back.
NoSecondSale ==
  \A t \in Submits : \A s \in knew[t] :
    sent[s] # << >> /\ sent[t] # << >> /\ emptied[s] # "lost"
      => sent[s][1] \cap sent[t][1] \subseteq revived

\* If the shopper keeps coming back to the tab, the page comes to show the cart,
\* whatever was late, lost or changed elsewhere.
Converges == []<><<Focus>>_vars => <>[](Shown = cart[Me])
=============================================================================
