-------------------------- MODULE StorefrontProofs --------------------------
(***************************************************************************)
(* Proofs about the web shop: the tab a shopper fills and orders a cart    *)
(* in, for any number of clicks and currencies and without a bound on what *)
(* goes wrong, and what its pages show beside products, for any number of  *)
(* them.                                                                   *)
(*                                                                         *)
(* The invariant of the tab has four parts: the types; the orders, whose   *)
(* route, ledger and answer keep step; the units, which are added once and *)
(* come back only with an overtaken addition; and the kept carts, of which *)
(* each that is out of date is marked, or fetched, or about to be.  The    *)
(* pages' two services have an invariant each that counts the requests at  *)
(* each place: what those may still add is part of the bound.              *)
(***************************************************************************)
EXTENDS Storefront, ProductPage, FiniteSetTheorems, WellFoundedInduction, TLAPS

Stages == {"idle", "adding", "storing", "answering", "emptying", "placing",
           "looking", "ok", "error", "elsewhere"}
Additions == [user : {Me}, unit : Units, seen : SUBSET Units]
KeptCart == [items : SUBSET Units, behind : BOOLEAN]
Fetches == [at : {"idle", "asked", "served"}, items : SUBSET Units, behind : BOOLEAN]

Types ==
  /\ cart \in [{Me} -> SUBSET Units]
  /\ added \in SUBSET Units
  /\ adding \in SUBSET Additions
  /\ paid \in [Submits -> Seq(SUBSET Units)]
  /\ sent \in [Submits -> Seq(SUBSET Units)]
  /\ answer \in [Submits -> {"none", "ok", "Internal", "Unavailable", "lost"}]
  /\ snap \in [Submits -> {NoCart} \cup SUBSET Units]
  /\ emptied \in [Submits \cup Empties -> {"no", "done", "lost"}]
  /\ at \in [Clicks -> Stages]
  /\ heard \in [Clicks -> {"nothing", "waiting", "ok", "error"}]
  /\ selected \in Currencies
  /\ data \in [Currencies -> {NoCart} \cup KeptCart]
  /\ fetch \in [Currencies -> Fetches]
  /\ knew \in [Submits -> SUBSET Submits]
  /\ revived \in SUBSET Units

-----------------------------------------------------------------------------
(* The orders.                                                             *)

\* Order s was charged what it read, and shipped what it was charged, if at all;
\* an answer that says so, and the page it leads to, come after.
OrderTold(s) ==
  /\ at[s] # "elsewhere"
  /\ at[s] = "idle" => snap[s] = NoCart
  /\ paid[s] # << >> => snap[s] # NoCart /\ paid[s] = <<snap[s]>>
  /\ sent[s] # << >> => sent[s] = paid[s]
  /\ emptied[s] # "no" => sent[s] # << >>
  /\ at[s] \in {"looking", "ok"} =>
       sent[s] # << >> /\ emptied[s] # "no" /\ answer[s] # "none"
  /\ page = s => sent[s] # << >>

OrdersTold == \A s \in Submits : OrderTold(s)

\* What the page knows of a click is no more than there is to know.
ClickTold(k) ==
  /\ heard[k] = "nothing" => at[k] \in {"idle", "elsewhere"}
  /\ heard[k] = "ok" => at[k] = "ok"

ClicksTold == \A k \in Clicks : ClickTold(k)

-----------------------------------------------------------------------------
(* The units.                                                              *)

\* An addition under way brings a new unit, and else only what was once added.
AdditionsNew ==
  /\ cart[Me] \subseteq added
  /\ \A a \in adding : a.seen \subseteq added /\ a.unit \notin added
  /\ \A a, b \in adding : a.unit = b.unit => a = b
  /\ \A u \in Units :
       at[u] \in {"idle", "adding"} => u \notin added /\ \A a \in adding : a.unit # u
  /\ \A s \in Submits : snap[s] # NoCart => snap[s] \subseteq added

\* What an order sold is out of the cart once the cart was emptied, and so out of
\* what is read for a later order, but for what was put back.
SoldIsGone ==
  \A s \in Submits : emptied[s] = "done" => snap[s] \cap cart[Me] \subseteq revived

SoldIsNotRead ==
  \A t \in Submits : \A s \in knew[t] :
    /\ emptied[s] # "no"
    /\ emptied[s] = "done" /\ snap[t] # NoCart => snap[s] \cap snap[t] \subseteq revived

-----------------------------------------------------------------------------
(* The kept carts.                                                         *)

\* The page waits for the answer of a click that has changed the cart.
Due == \E k \in Clicks : heard[k] = "waiting" /\ Changed(k)

FetchesTold ==
  \A c \in Currencies :
    fetch[c].at = "served" /\ ~fetch[c].behind => fetch[c].items = cart[Me] \/ Due

DataTold ==
  data[selected] # NoCart /\ ~data[selected].behind =>
    \/ data[selected].items = cart[Me]
    \/ Due
    \/ fetch[selected].at # "idle"

IInv == Types /\ OrdersTold /\ ClicksTold /\ AdditionsNew /\ SoldIsGone /\ SoldIsNotRead
          /\ FetchesTold /\ DataTold

-----------------------------------------------------------------------------
(* Types.                                                                  *)

\* The initial states are of their types.
LEMMA TypesInit == Init => Types
<1> SUFFICES ASSUME Init PROVE Types
  OBVIOUS
<1> USE ClicksDiffer, LeftAssumption, CurrencyAssumption
<1>1. /\ cart \in [{Me} -> SUBSET Units] /\ added \in SUBSET Units
      /\ adding \in SUBSET Additions /\ revived \in SUBSET Units
  BY DEF Init
<1>2. << >> \in Seq(SUBSET Units) OBVIOUS
<1>3. /\ paid \in [Submits -> Seq(SUBSET Units)] /\ sent \in [Submits -> Seq(SUBSET Units)]
      /\ answer \in [Submits -> {"none", "ok", "Internal", "Unavailable", "lost"}]
      /\ knew \in [Submits -> SUBSET Submits]
      /\ snap \in [Submits -> {NoCart} \cup SUBSET Units]
  BY <1>2 DEF Init, Order!Init
<1>4. /\ emptied \in [Submits \cup Empties -> {"no", "done", "lost"}]
      /\ at \in [Clicks -> Stages]
      /\ heard \in [Clicks -> {"nothing", "waiting", "ok", "error"}]
  BY DEF Init, Stages
<1>5. /\ selected \in Currencies
      /\ data \in [Currencies -> {NoCart} \cup KeptCart]
      /\ fetch \in [Currencies -> Fetches]
  BY DEF Init, Idle, Asked, Fetches
<1> QED BY <1>1, <1>3, <1>4, <1>5 DEF Types

\* Marking what is shown as behind keeps its type.
LEMMA BehindType ==
  ASSUME Types
  PROVE  /\ Behind(data) \in [Currencies -> {NoCart} \cup KeptCart]
         /\ Outrun(fetch) \in [Currencies -> Fetches]
BY DEF Types, Behind, Outrun, KeptCart, Fetches

CartTypes == cart \in [{Me} -> SUBSET Units] /\ added \in SUBSET Units
               /\ adding \in SUBSET Additions
OrderTypes ==
  /\ paid \in [Submits -> Seq(SUBSET Units)] /\ sent \in [Submits -> Seq(SUBSET Units)]
  /\ answer \in [Submits -> {"none", "ok", "Internal", "Unavailable", "lost"}]
  /\ snap \in [Submits -> {NoCart} \cup SUBSET Units]
  /\ emptied \in [Submits \cup Empties -> {"no", "done", "lost"}]
ClickTypes ==
  /\ at \in [Clicks -> Stages]
  /\ heard \in [Clicks -> {"nothing", "waiting", "ok", "error"}]
BrowserTypes ==
  /\ selected \in Currencies
  /\ data \in [Currencies -> {NoCart} \cup KeptCart] /\ fetch \in [Currencies -> Fetches]
HistoryTypes == knew \in [Submits -> SUBSET Submits] /\ revived \in SUBSET Units

\* Every step keeps the types of the carts.
LEMMA CartTypesNext == ASSUME Types, Next PROVE CartTypes'
<1> USE DEF Types, CartTypes
<1>1. ASSUME NEW k \in Units, addItem(k) PROVE CartTypes'
  BY <1>1 DEF addItem, Cart!Read, Additions
<1>2. ASSUME NEW k \in Units, addItemStores(k) PROVE CartTypes'
  BY <1>2 DEF addItemStores, Cart!Store, Additions
<1>3. ASSUME NEW k \in Empties, emptyCart(k) PROVE CartTypes'
  BY <1>3 DEF emptyCart, Cart!Empty
<1>4. ASSUME NEW k \in Submits, placeOrderEmpties(k) PROVE CartTypes'
  BY <1>4 DEF placeOrderEmpties, Cart!Empty
<1>5. CASE Elsewhere BY <1>5 DEF Elsewhere, Cart!Empty
<1>6. CASE UNCHANGED <<cart, added, adding>> BY <1>6
<1> QED BY <1>1, <1>2, <1>3, <1>4, <1>5, <1>6
  DEF Next, Shopper, onAddItem, onEmptyCart, onPlaceOrder, Visit, onSelectCurrency, Focus,
      RouteStep, addItemAnswers, emptyCartAnswers, placeOrderReads, placeOrderDelivers,
      placeOrder, getProducts, Hears, Refused, TimesOut, Rejected, Answered, FetchStep, getCart,
      Fetched, FetchFails, services

\* Every step keeps the types of the orders.
LEMMA OrderTypesNext == ASSUME Types, Next PROVE OrderTypes'
<1> USE DEF Types, OrderTypes
<1>1. ASSUME NEW k \in Empties, emptyCart(k) PROVE OrderTypes'
  BY <1>1 DEF emptyCart
<1>2. ASSUME NEW s \in Submits, placeOrderReads(s) PROVE OrderTypes'
  BY <1>2 DEF placeOrderReads
<1>3. ASSUME NEW s \in Submits, placeOrderDelivers(s) PROVE OrderTypes'
  <2>1. \A goods \in SUBSET Units : <<goods>> \in Seq(SUBSET Units) OBVIOUS
  <2> QED BY <1>3, <2>1 DEF placeOrderDelivers, Order!Pay, Order!Send
<1>4. ASSUME NEW s \in Submits, placeOrderEmpties(s) PROVE OrderTypes'
  BY <1>4 DEF placeOrderEmpties
<1>5. ASSUME NEW s \in Submits, placeOrder(s) PROVE OrderTypes'
  BY <1>5 DEF placeOrder, Order!Answer, Order!Lose
<1>6. CASE UNCHANGED <<paid, sent, answer, snap, emptied>> BY <1>6
<1> QED BY <1>1, <1>2, <1>3, <1>4, <1>5, <1>6
  DEF Next, Shopper, onAddItem, onEmptyCart, onPlaceOrder, Visit, onSelectCurrency, Focus,
      RouteStep, addItem, addItemStores, addItemAnswers, emptyCartAnswers,
      getProducts, Hears, Refused, TimesOut, Rejected, Answered, FetchStep, getCart,
      Fetched, FetchFails, services, Elsewhere

\* Every step keeps the types of the clicks.
LEMMA ClickTypesNext == ASSUME Types, Next PROVE ClickTypes'
<1>1. /\ heard \in [Clicks -> {"nothing", "waiting", "ok", "error"}]
      /\ at \in [Clicks -> Stages] /\ at' \in [Clicks -> Stages]
  <2> USE DEF Types, Stages
  <2>1. ASSUME Shopper PROVE at' \in [Clicks -> Stages]
    BY <2>1 DEF Shopper, onAddItem, onEmptyCart, onPlaceOrder, Visit, onSelectCurrency, Focus,
                request
  <2>a. ASSUME NEW k, NEW there \in Stages, Goes(k, there) PROVE at' \in [Clicks -> Stages]
    BY <2>a DEF Goes
  <2>2. ASSUME NEW k \in Units, addItem(k) \/ addItemStores(k) \/ addItemAnswers(k)
        PROVE  at' \in [Clicks -> Stages]
    <3>1. CASE addItem(k) BY <3>1, <2>a DEF addItem
    <3>2. CASE addItemStores(k)
      <4>1. Goes(k, "answering") \/ at' = at BY <3>2 DEF addItemStores
      <4> QED BY <4>1, <2>a
    <3>3. CASE addItemAnswers(k)
      <4>1. Goes(k, "ok") \/ Goes(k, "error") BY <3>3 DEF addItemAnswers, Fails
      <4> QED BY <4>1, <2>a
    <3> QED BY <2>2, <3>1, <3>2, <3>3
  <2>3. ASSUME NEW k \in Empties, emptyCart(k) \/ emptyCartAnswers(k)
        PROVE  at' \in [Clicks -> Stages]
    BY <2>3 DEF emptyCart, emptyCartAnswers, Goes, Fails
  <2>4. ASSUME NEW s \in Submits, \/ placeOrderReads(s) \/ placeOrderDelivers(s)
                                  \/ placeOrderEmpties(s) \/ placeOrder(s) \/ getProducts(s)
        PROVE  at' \in [Clicks -> Stages]
    BY <2>4 DEF placeOrderReads, placeOrderDelivers, placeOrderEmpties, placeOrder, getProducts,
                Goes, Fails
  <2>5. CASE Elsewhere BY <2>5 DEF Elsewhere, Goes
  <2>6. CASE UNCHANGED at BY <2>6
  <2> QED BY <2>1, <2>2, <2>3, <2>4, <2>5, <2>6
    DEF Next, RouteStep, Hears, Refused, TimesOut, Rejected, Answered, FetchStep, getCart,
        Fetched, FetchFails
<1>2. heard' \in [Clicks -> {"nothing", "waiting", "ok", "error"}]
  BY <1>1 DEF Next, Shopper, onAddItem, onEmptyCart, onPlaceOrder, Visit, onSelectCurrency,
        Focus, RouteStep, addItem, addItemStores, addItemAnswers, emptyCart, emptyCartAnswers,
        placeOrderReads, placeOrderDelivers, placeOrderEmpties, placeOrder, CartChanges,
        getProducts, Hears, Refused, TimesOut, Rejected, Answered, FetchStep, getCart,
        Fetched, FetchFails, Elsewhere, Clicks, request
<1> QED BY <1>1, <1>2 DEF ClickTypes

\* Every step keeps the types of what the browser has.
LEMMA BrowserTypesNext == ASSUME Types, Next PROVE BrowserTypes'
<1> USE DEF Types, BrowserTypes
<1>1. ASSUME NEW c \in Currencies, onSelectCurrency(c) PROVE BrowserTypes'
  BY <1>1 DEF onSelectCurrency, Asked, Fetches
<1>2. CASE Focus BY <1>2 DEF Focus, Asked, Fetches
<1>3. ASSUME NEW c \in Currencies, FetchStep(c) PROVE BrowserTypes'
  <2>1. CASE getCart(c)
    <3>1. Served(cart[Me]) \in Fetches BY DEF Served, Fetches
    <3> QED BY <2>1, <3>1 DEF getCart
  <2>2. CASE Fetched(c)
    <3>1. Idle \in Fetches BY DEF Idle, Fetches
    <3>2. [items |-> fetch[c].items, behind |-> fetch[c].behind] \in KeptCart
      BY DEF Fetches, KeptCart
    <3> QED BY <2>2, <3>1, <3>2 DEF Fetched
  <2> QED BY <1>3, <2>1, <2>2 DEF FetchStep
<1>4. ASSUME NEW c \in Currencies, FetchFails(c) PROVE BrowserTypes'
  BY <1>4, BehindType DEF FetchFails, Idle, Fetches
<1>5. CASE Unnoticed /\ UNCHANGED selected
  BY <1>5, BehindType DEF Unnoticed
<1>6. ASSUME NEW k \in Clicks, Answered(k) PROVE BrowserTypes'
  <2>1. refetch(selected) \in Fetches
    BY BehindType DEF refetch, Asked, Fetches
  <2> QED BY <1>6, <2>1, BehindType DEF Answered, invalidate
<1>7. CASE UNCHANGED <<selected, data, fetch>> BY <1>7
<1> QED BY <1>1, <1>2, <1>3, <1>4, <1>5, <1>6, <1>7
  DEF Next, Shopper, onAddItem, onEmptyCart, onPlaceOrder, Visit, CartChanges,
      RouteStep, addItem, addItemStores, addItemAnswers, emptyCart, emptyCartAnswers,
      placeOrderReads, placeOrderDelivers, placeOrderEmpties, placeOrder,
      getProducts, Hears, Refused, TimesOut, Rejected, Elsewhere, browser

\* Every step keeps the types of the history.
LEMMA HistoryTypesNext == ASSUME Types, Next PROVE HistoryTypes'
<1> USE DEF Types, HistoryTypes
<1>1. ASSUME NEW k \in Units, addItemStores(k) PROVE HistoryTypes'
  BY <1>1 DEF addItemStores, CartChanges, Additions
<1>2. ASSUME NEW s \in Submits, onPlaceOrder(s) PROVE HistoryTypes'
  BY <1>2 DEF onPlaceOrder
<1>3. CASE UNCHANGED <<knew, revived>> BY <1>3
<1> QED BY <1>1, <1>2, <1>3
  DEF Next, Shopper, onAddItem, onEmptyCart, Visit, onSelectCurrency, Focus, CartChanges,
      RouteStep, addItem, addItemAnswers, emptyCart, emptyCartAnswers,
      placeOrderReads, placeOrderDelivers, placeOrderEmpties, placeOrder,
      getProducts, Hears, Refused, TimesOut, Rejected, Answered, FetchStep, getCart,
      Fetched, FetchFails, Elsewhere

\* Every step keeps the types.
LEMMA TypesNext == ASSUME Types, [Next]_vars PROVE Types'
<1>1. CASE Next
  BY <1>1, CartTypesNext, OrderTypesNext, ClickTypesNext, BrowserTypesNext, HistoryTypesNext
  DEF Types, CartTypes, OrderTypes, ClickTypes, BrowserTypes, HistoryTypes
<1>2. CASE UNCHANGED vars BY <1>2 DEF Types, vars, services, browser
<1> QED BY <1>1, <1>2

\* Whatever the shopper does and whatever fails, the variables keep their types
\* (Storefront.tla, all actions).
THEOREM TypeCorrect == Spec => []Types
BY TypesInit, TypesNext, PTL DEF Spec

-----------------------------------------------------------------------------
(* The orders keep step.                                                   *)

\* No order is placed at first.
LEMMA OrdersToldInit == Init => OrdersTold
BY ClicksDiffer, LeftAssumption, PagesAssumption
   DEF Init, Order!Init, OrdersTold, OrderTold, Clicks

\* Every step keeps orders at the stages of their clicks.
LEMMA OrdersToldNext == ASSUME Types, OrdersTold, [Next]_vars PROVE OrdersTold'
<1> SUFFICES ASSUME NEW s \in Submits PROVE OrderTold(s)'
  BY DEF OrdersTold
<1>1. OrderTold(s) BY DEF OrdersTold
<1> USE ClicksDiffer, PagesAssumption DEF Types, Clicks
<1>2. ASSUME NEW r \in Submits, onPlaceOrder(r) PROVE OrderTold(s)'
  BY <1>1, <1>2 DEF OrderTold, onPlaceOrder, request, services, browser
<1>3. ASSUME NEW r \in Submits, placeOrderReads(r) PROVE OrderTold(s)'
  BY <1>1, <1>3, NoCartAssumption DEF OrderTold, placeOrderReads, browser
<1>4. ASSUME NEW r \in Submits, placeOrderDelivers(r) PROVE OrderTold(s)'
  <2>1. CASE Order!Pay(r) /\ paid'[r] = <<snap[r]>>
    BY <1>1, <1>4, <2>1 DEF OrderTold, placeOrderDelivers, Order!Pay, browser
  <2>2. CASE Order!Send(r)
    BY <1>1, <1>4, <2>2 DEF OrderTold, placeOrderDelivers, Order!Send, browser
  <2> QED BY <1>4, <2>1, <2>2 DEF placeOrderDelivers
<1>5. ASSUME NEW r \in Submits, placeOrderEmpties(r) PROVE OrderTold(s)'
  BY <1>1, <1>5 DEF OrderTold, placeOrderEmpties, CartChanges, browser
<1>6. ASSUME NEW r \in Submits, placeOrder(r) PROVE OrderTold(s)'
  <2>1. CASE r = s
    BY <1>1, <1>6, <2>1
    DEF OrderTold, placeOrder, Order!Answer, Order!Lose, Goes, Fails, browser
  <2>2. CASE r # s
    BY <1>1, <1>6, <2>2
    DEF OrderTold, placeOrder, Order!Answer, Order!Lose, Goes, Fails, browser
  <2> QED BY <2>1, <2>2
<1>7. ASSUME NEW r \in Submits, getProducts(r) PROVE OrderTold(s)'
  BY <1>1, <1>7 DEF OrderTold, getProducts, Goes, Fails, services, browser
<1>8. ASSUME NEW p \in {"product", "cart"}, Visit(p) PROVE OrderTold(s)'
  BY <1>1, <1>8 DEF OrderTold, Visit, services
<1>9. ASSUME NEW k \in Clicks, Answered(k) PROVE OrderTold(s)'
  <2>1. page' = s => page = s \/ (k = s /\ at[s] = "ok")
    BY <1>9 DEF Answered, push
  <2> QED BY <1>1, <1>9, <2>1 DEF OrderTold, Answered, services
<1>10. CASE /\ UNCHANGED <<paid, sent, answer, snap, page>>
            /\ at'[s] = at[s] /\ emptied'[s] = emptied[s]
  BY <1>1, <1>10 DEF OrderTold
<1> HIDE DEF Types
<1>11. ASSUME NEW u \in Units, onAddItem(u) \/ addItem(u) \/ addItemStores(u) \/ addItemAnswers(u)
       PROVE  OrderTold(s)'
  <2>1. u # s /\ at \in [Clicks -> Stages] /\ s \in Clicks BY DEF Types
  <2>2. at'[s] = at[s]
    BY <1>11, <2>1 DEF onAddItem, request, addItem, addItemStores, addItemAnswers, Goes, Fails
  <2>3. UNCHANGED <<paid, sent, answer, snap, page, emptied>>
    BY <1>11 DEF onAddItem, addItem, addItemStores, addItemAnswers, CartChanges, services,
                 browser
  <2> QED BY <1>10, <2>2, <2>3
<1>12. ASSUME NEW k \in Empties, onEmptyCart(k) \/ emptyCart(k) \/ emptyCartAnswers(k)
       PROVE  OrderTold(s)'
  <2>1. k # s /\ at \in [Clicks -> Stages] /\ s \in Clicks
        /\ emptied \in [Submits \cup Empties -> {"no", "done", "lost"}]
    BY DEF Types
  <2>2. at'[s] = at[s] /\ emptied'[s] = emptied[s]
    BY <1>12, <2>1 DEF onEmptyCart, request, emptyCart, emptyCartAnswers, Goes, Fails, services
  <2>3. UNCHANGED <<paid, sent, answer, snap, page>>
    BY <1>12 DEF onEmptyCart, emptyCart, emptyCartAnswers, CartChanges, services, browser
  <2> QED BY <1>10, <2>2, <2>3
<1>13. CASE Elsewhere
  <2>1. at \in [Clicks -> Stages] /\ s \in Clicks BY DEF Types
  <2>2. at'[s] = at[s] BY <1>13, <2>1 DEF Elsewhere, Goes
  <2> QED BY <1>10, <1>13, <2>2 DEF Elsewhere
<1>14. CASE UNCHANGED <<services, at, page>>
  BY <1>10, <1>14 DEF services
<1> QED BY <1>2, <1>3, <1>4, <1>5, <1>6, <1>7, <1>8, <1>9, <1>11, <1>12, <1>13, <1>14
  DEF Next, Shopper, onSelectCurrency, Focus, RouteStep, Hears, Refused, TimesOut, Rejected,
      FetchStep, getCart, Fetched, FetchFails, vars, browser

-----------------------------------------------------------------------------
(* What the page knows of its clicks.                                      *)

\* Nothing is clicked at first.
LEMMA ClicksToldInit == Init => ClicksTold
BY DEF Init, ClicksTold, ClickTold

\* Every step keeps what a page knows true.
LEMMA ClicksToldNext == ASSUME Types, ClicksTold, [Next]_vars PROVE ClicksTold'
<1> SUFFICES ASSUME NEW k \in Clicks PROVE ClickTold(k)'
  BY DEF ClicksTold
<1>1. ClickTold(k) BY DEF ClicksTold
<1>2. /\ at \in [Clicks -> Stages] /\ Units \subseteq Clicks /\ Submits \subseteq Clicks
      /\ Empties \subseteq Clicks /\ heard \in [Clicks -> {"nothing", "waiting", "ok", "error"}]
  BY DEF Types, Clicks
<1>3. ASSUME NEW j \in Clicks, NEW route \in Stages, request(j, route) PROVE ClickTold(k)'
  BY <1>1, <1>2, <1>3 DEF request, ClickTold
<1>4. ASSUME NEW j \in Clicks, NEW there \in Stages, Goes(j, there), UNCHANGED heard,
             at[j] \notin {"idle", "elsewhere", "ok"}
      PROVE  ClickTold(k)'
  BY <1>1, <1>2, <1>4 DEF Goes, ClickTold
<1>5. CASE UNCHANGED <<at, heard>> BY <1>1, <1>5 DEF ClickTold
<1>6. ASSUME Shopper PROVE ClickTold(k)'
  BY <1>2, <1>3, <1>5, <1>6 DEF Shopper, onAddItem, onEmptyCart, onPlaceOrder, Visit,
     onSelectCurrency, Focus, Stages
<1>7. ASSUME NEW u \in Units, addItem(u) \/ addItemStores(u) \/ addItemAnswers(u)
      PROVE  ClickTold(k)'
  <2>1. CASE addItem(u)
    BY <1>2, <1>4, <2>1 DEF addItem, Stages
  <2>2. CASE addItemStores(u)
    <3>1. UNCHANGED heard BY <2>2 DEF addItemStores, CartChanges
    <3>2. (at[u] = "storing" /\ Goes(u, "answering")) \/ UNCHANGED at
      BY <2>2 DEF addItemStores
    <3> QED BY <1>2, <1>4, <1>5, <3>1, <3>2 DEF Stages
  <2>3. CASE addItemAnswers(u)
    BY <1>2, <1>4, <2>3 DEF addItemAnswers, Fails, Stages
  <2> QED BY <1>7, <2>1, <2>2, <2>3
<1>8. ASSUME NEW j \in Empties, emptyCart(j) \/ emptyCartAnswers(j) PROVE ClickTold(k)'
  BY <1>2, <1>4, <1>5, <1>8 DEF emptyCart, emptyCartAnswers, Fails, Stages, CartChanges
<1>9. ASSUME NEW r \in Submits, \/ placeOrderReads(r) \/ placeOrderDelivers(r)
                                \/ placeOrderEmpties(r) \/ placeOrder(r) \/ getProducts(r)
      PROVE  ClickTold(k)'
  <2>1. CASE placeOrder(r) \/ getProducts(r)
    BY <1>2, <1>4, <2>1 DEF placeOrder, getProducts, Fails, Stages
  <2>2. CASE placeOrderReads(r) \/ placeOrderDelivers(r) \/ placeOrderEmpties(r)
    BY <1>5, <2>2 DEF placeOrderReads, placeOrderDelivers, placeOrderEmpties, CartChanges
  <2> QED BY <1>9, <2>1, <2>2
<1>10. ASSUME NEW j \in Clicks, Hears(j) \/ TimesOut(j) PROVE ClickTold(k)'
  BY <1>1, <1>2, <1>10 DEF Hears, TimesOut, Refused, Rejected, Answered, ClickTold
<1>11. CASE Elsewhere
  BY <1>1, <1>2, <1>11 DEF Elsewhere, Goes, ClickTold
<1>12. ASSUME NEW c \in Currencies, FetchStep(c) \/ FetchFails(c) PROVE ClickTold(k)'
  BY <1>5, <1>12 DEF FetchStep, getCart, Fetched, FetchFails
<1> QED BY <1>5, <1>6, <1>7, <1>8, <1>9, <1>10, <1>11, <1>12 DEF Next, RouteStep, vars

-----------------------------------------------------------------------------
(* The units.                                                              *)

\* No addition is running at first.
LEMMA AdditionsNewInit == Init => AdditionsNew
BY ClicksDiffer, LeftAssumption DEF Init, AdditionsNew, Clicks

\* A step that touches neither the cart, nor what orders read, nor where the
\* additions are, leaves the units alone.
LEMMA AdditionsFramed ==
  ASSUME AdditionsNew, UNCHANGED <<cart, added, adding, snap>>,
         \A u \in Units : at'[u] \in {"idle", "adding"} => at[u] \in {"idle", "adding"}
  PROVE  AdditionsNew'
BY DEF AdditionsNew

\* A cart that is emptied leaves the running additions new.
LEMMA AdditionsEmptied ==
  ASSUME AdditionsNew, Cart!Empty({Me}), UNCHANGED <<at, snap>>
  PROVE  AdditionsNew'
BY DEF AdditionsNew, Cart!Empty

\* Every step keeps the units of running additions new.
LEMMA AdditionsNewNext == ASSUME Types, AdditionsNew, [Next]_vars PROVE AdditionsNew'
<1>1. /\ at \in [Clicks -> Stages] /\ Units \subseteq Clicks /\ Submits \subseteq Clicks
      /\ Empties \subseteq Clicks /\ cart \in [{Me} -> SUBSET Units]
  BY DEF Types, Clicks
<1>2. ASSUME NEW u \in Units, addItem(u) PROVE AdditionsNew'
  <2> DEFINE new == [user |-> Me, unit |-> u, seen |-> cart[Me]]
  <2>1. /\ u \notin added /\ \A a \in adding : a.unit # u
        /\ adding' = adding \cup {new}
        /\ UNCHANGED <<cart, added, snap>>
        /\ at' = [at EXCEPT ![u] = "storing"]
    BY <1>2 DEF addItem, Cart!Read, Goes
  <2>2. new.unit = u /\ new.seen = cart[Me] OBVIOUS
  <2>3. /\ cart'[Me] \subseteq added'
        /\ \A s \in Submits : snap'[s] # NoCart => snap'[s] \subseteq added'
    BY <2>1 DEF AdditionsNew
  <2>4. \A a \in adding' : a.seen \subseteq added' /\ a.unit \notin added'
    BY <2>1, <2>2 DEF AdditionsNew
  <2>5. \A a, b \in adding' : a.unit = b.unit => a = b
    BY <2>1, <2>2 DEF AdditionsNew
  <2>6. \A v \in Units : at'[v] \in {"idle", "adding"} =>
                           v \notin added' /\ \A a \in adding' : a.unit # v
    <3> SUFFICES ASSUME NEW v \in Units, at'[v] \in {"idle", "adding"}
                 PROVE  v \notin added' /\ \A a \in adding' : a.unit # v
      OBVIOUS
    <3>1. v # u /\ at[v] \in {"idle", "adding"} BY <1>1, <2>1
    <3> QED BY <2>1, <2>2, <3>1 DEF AdditionsNew
  <2> QED BY <2>3, <2>4, <2>5, <2>6 DEF AdditionsNew
<1>3. ASSUME NEW u \in Units, addItemStores(u) PROVE AdditionsNew'
  <2>1. PICK a \in adding : a.unit = u /\ Cart!Store(a)
    BY <1>3 DEF addItemStores
  <2>2. a.user = Me BY DEF Types, Additions
  <2>3. /\ adding' = adding \ {a} /\ added' = added \cup {u}
        /\ cart'[Me] = a.seen \cup {u} /\ snap' = snap
    BY <1>1, <1>3, <2>1, <2>2 DEF Cart!Store, addItemStores
  <2>4. /\ cart'[Me] \subseteq added'
        /\ \A s \in Submits : snap'[s] # NoCart => snap'[s] \subseteq added'
        /\ \A b \in adding' : b.seen \subseteq added' /\ b.unit \notin added'
        /\ \A b, d \in adding' : b.unit = d.unit => b = d
    BY <2>1, <2>3 DEF AdditionsNew
  <2>5. \A v \in Units : at'[v] \in {"idle", "adding"} =>
                           v \notin added' /\ \A b \in adding' : b.unit # v
    <3> SUFFICES ASSUME NEW v \in Units, at'[v] \in {"idle", "adding"}
                 PROVE  v \notin added' /\ \A b \in adding' : b.unit # v
      OBVIOUS
    <3>1. at[v] \in {"idle", "adding"} BY <1>1, <1>3 DEF addItemStores, Goes
    <3>2. v # u BY <2>1, <3>1 DEF AdditionsNew
    <3> QED BY <2>3, <3>1, <3>2 DEF AdditionsNew
  <2> QED BY <2>4, <2>5 DEF AdditionsNew
<1>4. ASSUME NEW u \in Units, addItemAnswers(u) PROVE AdditionsNew'
  BY <1>1, <1>4, AdditionsFramed DEF addItemAnswers, Goes, Fails, services
<1>5. ASSUME NEW k \in Empties, emptyCart(k) PROVE AdditionsNew'
  BY <1>5, AdditionsEmptied DEF emptyCart
<1>6. ASSUME NEW k \in Empties, emptyCartAnswers(k) PROVE AdditionsNew'
  BY <1>1, <1>6, AdditionsFramed DEF emptyCartAnswers, Goes, Fails, services
<1>7. ASSUME NEW s \in Submits, placeOrderReads(s) PROVE AdditionsNew'
  <2>1. \A r \in Submits : snap'[r] = snap[r] \/ snap'[r] = cart[Me]
    BY <1>7 DEF placeOrderReads, Types
  <2> QED BY <1>7, <2>1 DEF placeOrderReads, AdditionsNew
<1>8. ASSUME NEW s \in Submits, placeOrderEmpties(s) PROVE AdditionsNew'
  BY <1>8, AdditionsEmptied, AdditionsFramed DEF placeOrderEmpties
<1>9. ASSUME NEW s \in Submits, placeOrderDelivers(s) \/ placeOrder(s) \/ getProducts(s)
      PROVE  AdditionsNew'
  BY <1>1, <1>9, AdditionsFramed
  DEF placeOrderDelivers, placeOrder, getProducts, Goes, Fails, services
<1>10. CASE Elsewhere
  <2>1. CASE Cart!Empty({Me}) /\ UNCHANGED at
    BY <1>10, <2>1, AdditionsEmptied DEF Elsewhere
  <2>2. ASSUME NEW u \in Units, at[u] = "idle", Goes(u, "elsewhere"),
               cart' = [cart EXCEPT ![Me] = @ \cup {u}], added' = added \cup {u},
               UNCHANGED <<adding, snap>>
        PROVE  AdditionsNew'
    <3>1. cart'[Me] = cart[Me] \cup {u} BY <1>1, <2>2
    <3>2. u \notin added /\ \A a \in adding : a.unit # u
      BY <2>2 DEF AdditionsNew
    <3>3. /\ cart'[Me] \subseteq added'
          /\ \A s \in Submits : snap'[s] # NoCart => snap'[s] \subseteq added'
          /\ \A b \in adding' : b.seen \subseteq added' /\ b.unit \notin added'
          /\ \A b, d \in adding' : b.unit = d.unit => b = d
      BY <2>2, <3>1, <3>2 DEF AdditionsNew
    <3>4. \A v \in Units : at'[v] \in {"idle", "adding"} =>
                             v \notin added' /\ \A b \in adding' : b.unit # v
      BY <1>1, <2>2 DEF AdditionsNew, Goes
    <3> QED BY <3>3, <3>4 DEF AdditionsNew
  <2> QED BY <1>10, <2>1, <2>2 DEF Elsewhere
<1>11. ASSUME Shopper PROVE AdditionsNew'
  <2>1. UNCHANGED services
    BY <1>11 DEF Shopper, onAddItem, onEmptyCart, onPlaceOrder, Visit, onSelectCurrency, Focus
  <2>2. at' = at \/ \E k \in Clicks, route \in Stages : request(k, route)
    BY <1>1, <1>11 DEF Shopper, onAddItem, onEmptyCart, onPlaceOrder, Visit, onSelectCurrency,
       Focus, Stages
  <2>3. \A u \in Units : at'[u] \in {"idle", "adding"} => at[u] \in {"idle", "adding"}
    BY <1>1, <2>2 DEF request
  <2> QED BY <2>1, <2>3, AdditionsFramed DEF services
<1>12. CASE UNCHANGED <<services, at>> BY <1>12, AdditionsFramed DEF services
<1> QED BY <1>2, <1>3, <1>4, <1>5, <1>6, <1>7, <1>8, <1>9, <1>10, <1>11, <1>12
  DEF Next, RouteStep, Hears, Refused, TimesOut, Rejected, Answered, FetchStep, getCart,
      Fetched, FetchFails, vars

\* Nothing is sold at first.
LEMMA SoldInit == Init => SoldIsGone /\ SoldIsNotRead
BY DEF Init, SoldIsGone, SoldIsNotRead

\* An order that emptied the cart has read it before.
LEMMA EmptiedAfterRead ==
  ASSUME OrdersTold, AdditionsNew, NEW s \in Submits, emptied[s] # "no"
  PROVE  snap[s] # NoCart /\ snap[s] \subseteq added
BY DEF OrdersTold, OrderTold, AdditionsNew

\* A step that makes no order read or empty the cart, and puts back into it only
\* what it marks, or what was not sold.
LEMMA SoldKept ==
  ASSUME SoldIsGone, SoldIsNotRead, UNCHANGED <<emptied, snap, knew>>,
         revived \subseteq revived',
         \A s \in Submits : emptied[s] = "done" =>
            snap[s] \cap cart'[Me] \subseteq cart[Me] \cup revived'
  PROVE  SoldIsGone' /\ SoldIsNotRead'
BY DEF SoldIsGone, SoldIsNotRead

\* A step that empties the cart for k, or tries to.
LEMMA SoldEmptied ==
  ASSUME Types, SoldIsGone, SoldIsNotRead, UNCHANGED <<snap, knew, revived>>,
         NEW k \in Submits \cup Empties, emptied[k] = "no",
         \/ cart'[Me] = {} /\ emptied' = [emptied EXCEPT ![k] = "done"]
         \/ cart' = cart /\ emptied' = [emptied EXCEPT ![k] = "lost"]
  PROVE  SoldIsGone' /\ SoldIsNotRead'
<1>1. emptied \in [Submits \cup Empties -> {"no", "done", "lost"}]
      /\ knew \in [Submits -> SUBSET Submits]
  BY DEF Types
<1>2. \A s \in Submits : emptied[s] # "no" => emptied'[s] = emptied[s]
  BY <1>1
<1>3. SoldIsGone' BY <1>1 DEF SoldIsGone
<1>4. SoldIsNotRead' BY <1>1, <1>2 DEF SoldIsNotRead
<1> QED BY <1>3, <1>4

\* Every step keeps what was sold out of the cart, and of what is read of it.
LEMMA SoldNext ==
  ASSUME Types, OrdersTold, ClicksTold, AdditionsNew, SoldIsGone, SoldIsNotRead, [Next]_vars
  PROVE  SoldIsGone' /\ SoldIsNotRead'
<1>1. /\ cart \in [{Me} -> SUBSET Units] /\ snap \in [Submits -> {NoCart} \cup SUBSET Units]
      /\ emptied \in [Submits \cup Empties -> {"no", "done", "lost"}]
      /\ knew \in [Submits -> SUBSET Submits] /\ Submits \subseteq Clicks
  BY DEF Types, Clicks
<1>2. ASSUME NEW r \in Submits, onPlaceOrder(r) PROVE SoldIsGone' /\ SoldIsNotRead'
  <2>1. /\ at[r] = "idle" /\ knew' = [knew EXCEPT ![r] = {t \in Submits : heard[t] = "ok"}]
        /\ UNCHANGED services /\ UNCHANGED revived
    BY <1>2 DEF onPlaceOrder, request
  <2>2. snap[r] = NoCart BY <2>1 DEF OrdersTold, OrderTold
  <2>3. \A s \in Submits : heard[s] = "ok" => emptied[s] # "no"
    BY <1>1 DEF ClicksTold, ClickTold, OrdersTold, OrderTold
  <2>4. SoldIsGone' BY <2>1 DEF SoldIsGone, services
  <2>5. SoldIsNotRead'
    <3> SUFFICES ASSUME NEW t \in Submits, NEW s \in knew'[t]
                 PROVE  /\ emptied[s] # "no"
                        /\ emptied[s] = "done" /\ snap[t] # NoCart =>
                             snap[s] \cap snap[t] \subseteq revived
      BY <2>1 DEF SoldIsNotRead, services
    <3>1. CASE t = r BY <1>1, <2>1, <2>2, <2>3, <3>1
    <3>2. CASE t # r BY <1>1, <2>1, <3>2 DEF SoldIsNotRead
    <3> QED BY <3>1, <3>2
  <2> QED BY <2>4, <2>5
<1>3. ASSUME NEW r \in Submits, placeOrderReads(r) PROVE SoldIsGone' /\ SoldIsNotRead'
  <2>1. /\ snap[r] = NoCart /\ snap' = [snap EXCEPT ![r] = cart[Me]]
        /\ UNCHANGED <<cart, emptied, knew, revived>>
    BY <1>3 DEF placeOrderReads
  <2>2. emptied[r] = "no" BY <2>1, EmptiedAfterRead
  <2>3. \A s \in Submits : emptied[s] # "no" => snap'[s] = snap[s]
    BY <1>1, <2>1, <2>2
  <2>4. SoldIsGone' BY <2>1, <2>3 DEF SoldIsGone
  <2>5. SoldIsNotRead'
    <3> SUFFICES ASSUME NEW t \in Submits, NEW s \in knew[t]
                 PROVE  /\ emptied[s] # "no"
                        /\ emptied[s] = "done" /\ snap'[t] # NoCart =>
                             snap'[s] \cap snap'[t] \subseteq revived
      BY <2>1 DEF SoldIsNotRead
    <3>1. s \in Submits /\ emptied[s] # "no" BY <1>1 DEF SoldIsNotRead
    <3>2. snap'[s] = snap[s] BY <2>3, <3>1
    <3>3. CASE t = r
      <4>1. snap'[t] = cart[Me] BY <1>1, <2>1, <3>3
      <4> QED BY <3>1, <3>2, <4>1 DEF SoldIsGone
    <3>4. CASE t # r
      <4>1. snap'[t] = snap[t] BY <1>1, <2>1, <3>4
      <4> QED BY <3>1, <3>2, <4>1 DEF SoldIsNotRead
    <3> QED BY <3>3, <3>4
  <2> QED BY <2>4, <2>5
<1>4. ASSUME NEW r \in Submits, placeOrderEmpties(r) PROVE SoldIsGone' /\ SoldIsNotRead'
  BY <1>4, SoldEmptied DEF placeOrderEmpties, Cart!Empty, CartChanges
<1>5. ASSUME NEW k \in Empties, emptyCart(k) PROVE SoldIsGone' /\ SoldIsNotRead'
  BY <1>5, SoldEmptied DEF emptyCart, Cart!Empty, CartChanges
<1>6. ASSUME NEW u \in Units, addItemStores(u) PROVE SoldIsGone' /\ SoldIsNotRead'
  <2>1. PICK a \in adding : /\ a.unit = u /\ Cart!Store(a)
                            /\ revived' = revived \cup (a.seen \ cart[Me])
    BY <1>6 DEF addItemStores
  <2>2. a.user = Me BY DEF Types, Additions
  <2>3. cart'[Me] = a.seen \cup {u} /\ u \notin added
    BY <1>1, <2>1, <2>2 DEF Cart!Store, AdditionsNew
  <2>4. \A s \in Submits : emptied[s] = "done" =>
           snap[s] \cap cart'[Me] \subseteq cart[Me] \cup revived'
    BY <2>1, <2>3, EmptiedAfterRead
  <2> QED BY <1>6, <2>1, <2>4, SoldKept DEF addItemStores, CartChanges
<1>7. CASE Elsewhere
  <2>1. UNCHANGED <<emptied, snap, knew, revived>> BY <1>7 DEF Elsewhere
  <2>2. CASE Cart!Empty({Me})
    BY <2>1, <2>2, SoldKept DEF Cart!Empty
  <2>3. ASSUME NEW u \in Units, at[u] = "idle", cart' = [cart EXCEPT ![Me] = @ \cup {u}]
        PROVE  SoldIsGone' /\ SoldIsNotRead'
    <3>1. u \notin added /\ cart'[Me] = cart[Me] \cup {u}
      BY <1>1, <2>3 DEF AdditionsNew
    <3>2. \A s \in Submits : emptied[s] = "done" =>
             snap[s] \cap cart'[Me] \subseteq cart[Me] \cup revived'
      BY <3>1, EmptiedAfterRead
    <3> QED BY <2>1, <3>2, SoldKept
  <2> QED BY <1>7, <2>2, <2>3 DEF Elsewhere
<1>8. CASE UNCHANGED <<cart, emptied, snap, knew, revived>>
  BY <1>8 DEF SoldIsGone, SoldIsNotRead
<1> QED BY <1>2, <1>3, <1>4, <1>5, <1>6, <1>7, <1>8
  DEF Next, Shopper, onAddItem, onEmptyCart, Visit, onSelectCurrency, Focus, RouteStep,
      addItem, Cart!Read, addItemAnswers, emptyCartAnswers, placeOrderDelivers, placeOrder,
      getProducts, Hears, Refused, TimesOut, Rejected, Answered, FetchStep, getCart,
      Fetched, FetchFails, services, vars

-----------------------------------------------------------------------------
(* The kept carts.                                                         *)

KeptTold == FetchesTold /\ DataTold

\* Nothing is kept at first.
LEMMA KeptToldInit == Init => KeptTold
BY CurrencyAssumption DEF Init, KeptTold, FetchesTold, DataTold, Idle, Asked

\* What the page waits for stays due.
LEMMA DueStays ==
  ASSUME Types, UNCHANGED <<added, emptied>>,
         \A k \in Clicks : heard[k] = "waiting" /\ Changed(k) => heard'[k] = "waiting", Due
  PROVE  Due'
BY DEF Due, Changed

\* What is kept stays explained while the carts, the cache and the waiting clicks are.
LEMMA KeptFramed ==
  ASSUME Types, KeptTold, UNCHANGED <<cart, added, emptied, data, fetch, selected>>,
         \A k \in Clicks : heard[k] = "waiting" /\ Changed(k) => heard'[k] = "waiting"
  PROVE  KeptTold'
BY DueStays DEF KeptTold, FetchesTold, DataTold

\* A change that nothing will make the page notice is marked wherever it matters.
LEMMA KeptUnnoticed ==
  ASSUME Types, Unnoticed, UNCHANGED selected PROVE KeptTold'
<1>1. \A c \in Currencies : data'[c] # NoCart => data'[c].behind
  BY DEF Types, Unnoticed, Behind, KeptCart
<1>2. \A c \in Currencies : fetch'[c].at = "served" => fetch'[c].behind
  BY DEF Types, Unnoticed, Outrun, Fetches
<1> QED BY <1>1, <1>2 DEF KeptTold, FetchesTold, DataTold, Types

\* A change of the cart by a click is marked, or the page waits for its answer.
LEMMA KeptChanges ==
  ASSUME Types, ClicksTold, NEW k \in Clicks, CartChanges(k), Changed(k)',
         at[k] \notin {"idle", "elsewhere", "ok"}
  PROVE  KeptTold'
<1>1. heard[k] \in {"waiting", "error"}
  BY DEF Types, ClicksTold, ClickTold
<1>2. CASE heard[k] = "error"
  BY <1>2, KeptUnnoticed DEF CartChanges
<1>3. CASE heard[k] = "waiting"
  <2>1. Due' BY <1>3 DEF Due, CartChanges
  <2> QED BY <2>1 DEF KeptTold, FetchesTold, DataTold
<1> QED BY <1>1, <1>2, <1>3

\* A step of a fetch keeps what is kept explained.
LEMMA KeptFetches ==
  ASSUME Types, KeptTold, NEW c \in Currencies, FetchStep(c) \/ FetchFails(c)
  PROVE  KeptTold'
<1>1. /\ data \in [Currencies -> {NoCart} \cup KeptCart] /\ fetch \in [Currencies -> Fetches]
      /\ selected \in Currencies /\ selected' = selected
      /\ UNCHANGED <<cart, added, emptied, heard>>
  BY DEF Types, FetchStep, getCart, Fetched, FetchFails, services
<1>2. Due => Due' BY <1>1, DueStays
<1>3. CASE getCart(c)
  <2>1. /\ data' = data
        /\ fetch' = [fetch EXCEPT ![c] = [at |-> "served", items |-> cart[Me], behind |-> FALSE]]
    BY <1>3 DEF getCart, Served
  <2>2. FetchesTold' BY <1>1, <1>2, <2>1 DEF KeptTold, FetchesTold
  <2>3. DataTold' BY <1>1, <1>2, <2>1 DEF KeptTold, DataTold
  <2> QED BY <2>2, <2>3 DEF KeptTold
<1>4. CASE Fetched(c)
  <2>1. /\ data' = [data EXCEPT ![c] = [items |-> fetch[c].items, behind |-> fetch[c].behind]]
        /\ fetch' = [fetch EXCEPT ![c] = [at |-> "idle", items |-> {}, behind |-> FALSE]]
        /\ fetch[c].at = "served"
    BY <1>4 DEF Fetched, Idle
  <2>2. FetchesTold' BY <1>1, <1>2, <2>1 DEF KeptTold, FetchesTold
  <2>3. CASE c = selected
    <3>1. data'[selected] = [items |-> fetch[c].items, behind |-> fetch[c].behind]
      BY <1>1, <2>1, <2>3
    <3> QED BY <1>1, <1>2, <2>1, <2>2, <2>3, <3>1 DEF KeptTold, DataTold, FetchesTold
  <2>4. CASE c # selected
    <3>1. data'[selected] = data[selected] /\ fetch'[selected] = fetch[selected]
      BY <1>1, <2>1, <2>4
    <3> QED BY <1>1, <1>2, <2>2, <3>1 DEF KeptTold, DataTold
  <2> QED BY <2>3, <2>4
<1>5. CASE FetchFails(c)
  <2>1. /\ data' = [data EXCEPT ![c] = Behind(data)[c]]
        /\ fetch' = [fetch EXCEPT ![c] = [at |-> "idle", items |-> {}, behind |-> FALSE]]
    BY <1>5 DEF FetchFails, Idle
  <2>2. FetchesTold' BY <1>1, <1>2, <2>1 DEF KeptTold, FetchesTold
  <2>3. CASE c = selected
    <3>1. data'[selected] # NoCart => data'[selected].behind
      BY <1>1, <2>1, <2>3 DEF Behind, KeptCart
    <3> QED BY <1>1, <2>2, <3>1 DEF KeptTold, DataTold
  <2>4. CASE c # selected
    <3>1. data'[selected] = data[selected] /\ fetch'[selected] = fetch[selected]
      BY <1>1, <2>1, <2>4
    <3> QED BY <1>1, <1>2, <2>2, <3>1 DEF KeptTold, DataTold
  <2> QED BY <2>3, <2>4
<1> QED BY <1>3, <1>4, <1>5 DEF FetchStep

\* Every step keeps what is kept, and out of date, due for another look.
LEMMA KeptToldNext ==
  ASSUME Types, OrdersTold, ClicksTold, KeptTold, [Next]_vars PROVE KeptTold'
<1>1. /\ data \in [Currencies -> {NoCart} \cup KeptCart] /\ fetch \in [Currencies -> Fetches]
      /\ selected \in Currencies /\ heard \in [Clicks -> {"nothing", "waiting", "ok", "error"}]
      /\ emptied \in [Submits \cup Empties -> {"no", "done", "lost"}]
      /\ Units \subseteq Clicks /\ Submits \subseteq Clicks /\ Empties \subseteq Clicks
  BY DEF Types, Clicks
<1>2. ASSUME NEW k \in Clicks, NEW route, request(k, route), UNCHANGED <<services, browser>>
      PROVE  KeptTold'
  BY <1>1, <1>2, KeptFramed DEF request, services, browser
<1>3. ASSUME NEW c \in Currencies, onSelectCurrency(c) PROVE KeptTold'
  <2>1. /\ selected' = c /\ data' = data /\ UNCHANGED <<cart, added, emptied, heard>>
        /\ fetch' = [fetch EXCEPT ![c] = IF @.at = "idle" THEN Asked ELSE @]
    BY <1>3 DEF onSelectCurrency, services
  <2>2. Due => Due' BY <2>1, DueStays
  <2>3. fetch'[c].at # "idle" BY <1>1, <2>1 DEF Asked
  <2>4. FetchesTold' BY <1>1, <2>1, <2>2 DEF KeptTold, FetchesTold, Asked
  <2> QED BY <2>1, <2>3, <2>4 DEF KeptTold, DataTold
<1>4. CASE Focus
  <2>1. /\ UNCHANGED <<selected, data, cart, added, emptied, heard>>
        /\ fetch' = [fetch EXCEPT ![selected] = Asked]
    BY <1>4 DEF Focus, services
  <2>2. Due => Due' BY <2>1, DueStays
  <2>3. fetch'[selected].at # "idle" BY <1>1, <2>1 DEF Asked
  <2>4. FetchesTold' BY <1>1, <2>1, <2>2 DEF KeptTold, FetchesTold, Asked
  <2> QED BY <2>1, <2>3, <2>4 DEF KeptTold, DataTold
<1>5. ASSUME NEW u \in Units, addItemStores(u) PROVE KeptTold'
  <2>1. u \in added' BY <1>5 DEF addItemStores, Cart!Store
  <2>2. CartChanges(u) /\ at[u] \in {"storing", "error"} BY <1>5 DEF addItemStores
  <2> QED BY <1>1, <2>1, <2>2, KeptChanges DEF Changed
<1>6. ASSUME NEW k \in Empties, emptyCart(k) PROVE KeptTold'
  <2>1. emptied'[k] = "done" /\ k \notin Units
    BY <1>1, <1>6, ClicksDiffer DEF emptyCart
  <2>2. CartChanges(k) /\ at[k] = "emptying" BY <1>6 DEF emptyCart
  <2> QED BY <1>1, <2>1, <2>2, KeptChanges DEF Changed
<1>7. ASSUME NEW s \in Submits, placeOrderEmpties(s) PROVE KeptTold'
  <2>1. CASE emptied' = [emptied EXCEPT ![s] = "done"] /\ CartChanges(s)
    <3>1. emptied'[s] = "done" /\ s \notin Units BY <1>1, <2>1, ClicksDiffer
    <3>2. at[s] \notin {"idle", "elsewhere", "ok"}
      BY <1>7 DEF placeOrderEmpties, OrdersTold, OrderTold
    <3> QED BY <1>1, <2>1, <3>1, <3>2, KeptChanges DEF Changed
  <2>2. CASE emptied' = [emptied EXCEPT ![s] = "lost"]
             /\ UNCHANGED <<cart, added, heard, browser>>
    <3>1. Due => Due'
      <4>1. emptied[s] = "no" BY <1>7 DEF placeOrderEmpties
      <4>2. \A k \in Clicks : Changed(k) => Changed(k)'
        BY <1>1, <2>2, <4>1 DEF Changed, Clicks
      <4> QED BY <2>2, <4>2 DEF Due
    <3> QED BY <2>2, <3>1 DEF KeptTold, FetchesTold, DataTold, browser
  <2> QED BY <1>7, <2>1, <2>2 DEF placeOrderEmpties
<1>8. ASSUME NEW k \in Clicks, Rejected(k) PROVE KeptTold'
  <2>1. CASE Changed(k)
    BY <1>8, <2>1, KeptUnnoticed DEF Rejected
  <2>2. CASE ~Changed(k)
    BY <1>1, <1>8, <2>2, KeptFramed DEF Rejected, services
  <2> QED BY <2>1, <2>2
<1>9. ASSUME NEW k \in Clicks, Answered(k) PROVE KeptTold'
  <2>1. /\ data' = data /\ selected' = selected
        /\ fetch' = [Outrun(fetch) EXCEPT ![selected] = refetch(selected)]
    BY <1>9 DEF Answered, invalidate
  <2>2. \A c \in Currencies : Outrun(fetch)[c].at = "served" => Outrun(fetch)[c].behind
    BY <1>1 DEF Outrun, Fetches
  <2>3. fetch'[selected] = refetch(selected)
        /\ \A c \in Currencies : c # selected => fetch'[c] = Outrun(fetch)[c]
    BY <1>1, <2>1 DEF Outrun
  <2>4. FetchesTold' BY <1>1, <2>2, <2>3 DEF FetchesTold, refetch, Asked
  <2>5. DataTold' BY <2>1, <2>3 DEF DataTold, refetch, Asked
  <2> QED BY <2>4, <2>5 DEF KeptTold
<1>10. CASE Elsewhere
  BY <1>10, KeptUnnoticed DEF Elsewhere
<1>11. CASE UNCHANGED <<cart, added, emptied, heard, browser>>
  BY <1>11, KeptFramed DEF browser
<1>12. ASSUME Shopper PROVE KeptTold'
  <2>1. ASSUME NEW u \in Units, onAddItem(u) PROVE KeptTold'
    BY <1>1, <1>2, <2>1 DEF onAddItem
  <2>2. ASSUME NEW k \in Empties, onEmptyCart(k) PROVE KeptTold'
    BY <1>1, <1>2, <2>2 DEF onEmptyCart
  <2>3. ASSUME NEW s \in Submits, onPlaceOrder(s) PROVE KeptTold'
    BY <1>1, <1>2, <2>3 DEF onPlaceOrder
  <2>4. ASSUME NEW p, Visit(p) PROVE KeptTold'
    BY <2>4, KeptFramed DEF Visit, services
  <2> QED BY <1>3, <1>4, <1>12, <2>1, <2>2, <2>3, <2>4 DEF Shopper
<1> QED BY <1>5, <1>6, <1>7, <1>8, <1>9, <1>10, <1>11, <1>12, KeptFetches
  DEF Next, RouteStep, addItem, Cart!Read, addItemAnswers, emptyCartAnswers, placeOrderReads,
      placeOrderDelivers, placeOrder, getProducts, Hears, Refused, TimesOut, services, vars,
      browser

-----------------------------------------------------------------------------
(* The invariant.                                                          *)

\* The initial states satisfy the invariant.
LEMMA IInvInit == Init => IInv
BY TypesInit, OrdersToldInit, ClicksToldInit, AdditionsNewInit, SoldInit, KeptToldInit
   DEF IInv, KeptTold

\* Every step keeps it.
LEMMA IInvNext == IInv /\ [Next]_vars => IInv'
BY TypesNext, OrdersToldNext, ClicksToldNext, AdditionsNewNext, SoldNext, KeptToldNext
   DEF IInv, KeptTold

\* The four parts hold throughout (Storefront.tla, all actions).
THEOREM IInvAlways == Spec => []IInv
BY IInvInit, IInvNext, PTL DEF Spec

\* A page that waits for nothing, and knows of nothing it missed, shows the cart
\* of the cart service, for any number of clicks, currencies and failures
\* (Cart.provider.tsx: useQuery, onSuccess).
THEOREM ShowsTheCart == Spec => []ShownIsTheCart
<1>1. IInv => ShownIsTheCart
  <2> SUFFICES ASSUME IInv, Quiet, data[selected] # NoCart, ~data[selected].behind
               PROVE  Shown = cart[Me]
    BY DEF ShownIsTheCart
  <2>1. ~Due BY DEF Quiet, Due
  <2>2. data[selected].items = cart[Me] BY <2>1 DEF IInv, DataTold, Quiet
  <2> QED BY <2>2 DEF Shown
<1> QED BY <1>1, IInvAlways, PTL

\* Whoever sees the page of an order has paid for exactly what the parcel holds
\* (CartDetail.tsx: onPlaceOrder; main.go: PlaceOrder).
THEOREM CompleteIsSent == Spec => []CompleteMeansSent
<1>1. IInv => CompleteMeansSent
  BY DEF IInv, OrdersTold, OrderTold, CompleteMeansSent
<1> QED BY <1>1, IInvAlways, PTL

\* No unit is sold by two orders of which the second was placed when the page knew
\* the first to be complete, but for an emptying that was lost and an addition
\* that put the unit back (main.go: PlaceOrder, emptyUserCart).
THEOREM SoldOnce == Spec => []NoSecondSale
<1>1. IInv => NoSecondSale
  <2> SUFFICES ASSUME IInv, NEW t \in Submits, NEW s \in knew[t],
                      sent[s] # << >>, sent[t] # << >>, emptied[s] # "lost"
               PROVE  sent[s][1] \cap sent[t][1] \subseteq revived
    BY DEF NoSecondSale
  <2>1. s \in Submits BY DEF IInv, Types
  <2>2. emptied[s] = "done" BY <2>1 DEF IInv, Types, SoldIsNotRead
  <2>3. sent[s] = <<snap[s]>> /\ sent[t] = <<snap[t]>> /\ snap[t] # NoCart
    BY <2>1 DEF IInv, OrdersTold, OrderTold
  <2> QED BY <2>2, <2>3 DEF IInv, SoldIsNotRead
<1> QED BY <1>1, IInvAlways, PTL

-----------------------------------------------------------------------------
(* The load of the ad service.                                             *)

Places == {"idle", "create", "return", "execute", "spawn", "set", "stop"}

LoadTypes ==
  /\ place \in [Threads -> Places]
  /\ mine \in [Threads -> Threads \cup {None}]
  /\ instance \in Threads \cup {None}
  /\ running \in [Threads -> BOOLEAN]
  /\ sets \in [Threads -> Nat]
  /\ \A t \in Threads :
       /\ place[t] = "return" => instance # None
       /\ place[t] \in {"execute", "spawn", "set", "stop"} => mine[t] # None

\* The requests at that place with load l in their hands.
Around(where, l) == {t \in Threads : place[t] = where /\ mine[t] = l}
Num(where, l) == Cardinality(Around(where, l))

\* Those that may still start workers before the switch is off once more.
Starters(l) == Cardinality(Threads) - Num("stop", l)

\* The sets that may come while nobody else turns the switch: of those that have
\* found it off or, while it is off, of those that may.
ToCome(l) == IF running[l] THEN Num("spawn", l) ELSE Starters(l) - Num("set", l)

\* A request that turns the switch off takes part no more until it has stopped the
\* workers, so the next round has a starter less.
LoadFits(l) ==
  LET n == Cardinality(Threads)
  IN 2 * (sets[l] + ToCome(l)) + Starters(l) * (Starters(l) - 1) <= n * (n + 1)

LoadInv == LoadTypes /\ \A l \in Threads : LoadFits(l)

\* A set that gains or loses one element, or none.
LEMMA CountMoves ==
  ASSUME NEW S, IsFiniteSet(S), NEW A \in SUBSET S, NEW B \in SUBSET S, NEW x \in S,
         \A y \in S : y # x => (y \in A <=> y \in B)
  PROVE  /\ Cardinality(A) \in Nat /\ Cardinality(B) \in Nat
         /\ (x \in A <=> x \in B) => Cardinality(B) = Cardinality(A)
         /\ x \notin A /\ x \in B => Cardinality(B) = Cardinality(A) + 1
         /\ x \in A /\ x \notin B => Cardinality(B) = Cardinality(A) - 1
<1>1. IsFiniteSet(A) /\ IsFiniteSet(B) BY FS_Subset
<1>2. Cardinality(A) \in Nat /\ Cardinality(B) \in Nat BY <1>1, FS_CardinalityType
<1>3. (x \in A <=> x \in B) => A = B OBVIOUS
<1>4. x \notin A /\ x \in B => B = A \cup {x} OBVIOUS
<1>5. x \in A /\ x \notin B => B = A \ {x} OBVIOUS
<1>6. Cardinality(A \cup {x}) = IF x \in A THEN Cardinality(A) ELSE Cardinality(A) + 1
  BY <1>1, FS_AddElement
<1>7. Cardinality(A \ {x}) = IF x \in A THEN Cardinality(A) - 1 ELSE Cardinality(A)
  BY <1>1, FS_RemoveElement
<1> QED BY <1>2, <1>3, <1>4, <1>5, <1>6, <1>7

\* A request moves, and no other.
LEMMA NumMoves ==
  ASSUME NEW t \in Threads, NEW where, NEW l \in Threads,
         \A u \in Threads : u # t => place'[u] = place[u] /\ mine'[u] = mine[u]
  PROVE  LET before == place[t] = where /\ mine[t] = l
             later  == place'[t] = where /\ mine'[t] = l
         IN /\ (before <=> later) => Num(where, l)' = Num(where, l)
            /\ ~before /\ later => Num(where, l)' = Num(where, l) + 1
            /\ before /\ ~later => Num(where, l)' = Num(where, l) - 1
<1> DEFINE A == Around(where, l)
           B == Around(where, l)'
<1>1. A \in SUBSET Threads /\ B \in SUBSET Threads BY DEF Around
<1>2. \A u \in Threads : u # t => (u \in A <=> u \in B) BY DEF Around
<1>3. (t \in A <=> place[t] = where /\ mine[t] = l)
      /\ (t \in B <=> place'[t] = where /\ mine'[t] = l)
  BY DEF Around
<1>4. Num(where, l) = Cardinality(A) /\ Num(where, l)' = Cardinality(B) BY DEF Num
<1> HIDE DEF A, B
<1>5. /\ (t \in A <=> t \in B) => Cardinality(B) = Cardinality(A)
      /\ t \notin A /\ t \in B => Cardinality(B) = Cardinality(A) + 1
      /\ t \in A /\ t \notin B => Cardinality(B) = Cardinality(A) - 1
  BY <1>1, <1>2, CountMoves, ThreadsAssumption
<1> QED BY <1>3, <1>4, <1>5

\* No request is at two places.
LEMMA NumsFit ==
  ASSUME NEW l \in Threads
  PROVE  /\ Cardinality(Threads) \in Nat
         /\ Num("spawn", l) \in Nat /\ Num("set", l) \in Nat /\ Num("stop", l) \in Nat
         /\ Num("spawn", l) + Num("set", l) + Num("stop", l) <= Cardinality(Threads)
<1> DEFINE A == Around("spawn", l)
           B == Around("set", l)
           C == Around("stop", l)
<1>1. /\ A \subseteq Threads /\ B \subseteq Threads /\ C \subseteq Threads
      /\ A \cap B = {} /\ (A \cup B) \cap C = {}
  BY DEF Around
<1>2. Num("spawn", l) = Cardinality(A) /\ Num("set", l) = Cardinality(B)
      /\ Num("stop", l) = Cardinality(C)
  BY DEF Num
<1> HIDE DEF A, B, C
<1>3. IsFiniteSet(Threads) BY ThreadsAssumption
<1>4. IsFiniteSet(A) /\ IsFiniteSet(B) /\ IsFiniteSet(C) BY <1>1, <1>3, FS_Subset
<1>5. /\ Cardinality(A) \in Nat /\ Cardinality(B) \in Nat /\ Cardinality(C) \in Nat
      /\ Cardinality(Threads) \in Nat
  BY <1>3, <1>4, FS_CardinalityType
<1>6. Cardinality({}) = 0 BY FS_EmptySet
<1>7. IsFiniteSet(A \cup B)
      /\ Cardinality(A \cup B) = Cardinality(A) + Cardinality(B) - Cardinality(A \cap B)
  BY <1>4, FS_Union
<1>8. Cardinality((A \cup B) \cup C)
        = Cardinality(A \cup B) + Cardinality(C) - Cardinality((A \cup B) \cap C)
  BY <1>4, <1>7, FS_Union
<1>9. Cardinality((A \cup B) \cup C) <= Cardinality(Threads)
  <2>1. (A \cup B) \cup C \in SUBSET Threads BY <1>1
  <2> QED BY <1>3, <2>1, FS_Subset
<1>z. Cardinality(A \cap B) = 0 /\ Cardinality((A \cup B) \cap C) = 0
  BY <1>1, <1>6, Zenon
<1>10. Cardinality(A \cup B) = Cardinality(A) + Cardinality(B)
  BY <1>5, <1>7, <1>z
<1>11. Cardinality((A \cup B) \cup C) = Cardinality(A \cup B) + Cardinality(C)
  BY <1>5, <1>8, <1>10, <1>z
<1> QED BY <1>2, <1>5, <1>9, <1>10, <1>11

\* The workers of a thread are counted by natural numbers.
LEMMA NumType == ASSUME NEW where, NEW l \in Threads
                 PROVE  Num(where, l) \in Nat /\ Num(where, l)' \in Nat
<1>1. Around(where, l) \in SUBSET Threads /\ Around(where, l)' \in SUBSET Threads
  BY DEF Around
<1>2. IsFiniteSet(Threads) BY ThreadsAssumption
<1>3. \A S \in SUBSET Threads : Cardinality(S) \in Nat
  BY <1>2, FS_Subset, FS_CardinalityType
<1> QED BY <1>1, <1>3 DEF Num

\* Every step keeps the types of the load generator.
LEMMA LoadTypesNext == ASSUME LoadTypes, [PageNext]_pageVars PROVE LoadTypes'
<1>1. CASE UNCHANGED loadVars BY <1>1 DEF LoadTypes, loadVars
<1>2. ASSUME NEW p \in Pages, OpenAds(p) PROVE LoadTypes'
  BY <1>2, OneThreadEach DEF OpenAds, AskAds, GoOn, LoadTypes, Places
<1>3. ASSUME NEW t \in Threads, ServeAds(t) PROVE LoadTypes'
  <2>0. None \notin Threads BY ThreadsAssumption
  <2>1. CASE Create(t) BY <2>0, <2>1 DEF Create, GoOn, LoadTypes, Places
  <2>2. CASE getInstance(t) BY <2>2 DEF getInstance, GoOn, LoadTypes, Places
  <2>3. CASE SwitchOn(t) BY <2>3 DEF SwitchOn, GoOn, Leave, LoadTypes, Places
  <2>4. CASE spawnLoadWorkers(t) BY <2>4 DEF spawnLoadWorkers, GoOn, LoadTypes, Places
  <2>5. CASE SetRunning(t) BY <2>5 DEF SetRunning, GoOn, Leave, LoadTypes, Places
  <2>6. CASE SwitchOff(t) BY <2>6 DEF SwitchOff, GoOn, LoadTypes, Places
  <2>7. CASE stopWorkers(t) BY <2>7 DEF stopWorkers, GoOn, Leave, LoadTypes, Places
  <2> QED BY <1>3, <2>1, <2>2, <2>3, <2>4, <2>5, <2>6, <2>7 DEF ServeAds
<1> QED
  BY <1>1, <1>2, <1>3, OneThreadEach
  DEF PageNext, pageVars, OpenRecommendations, Settle, Retry, ServiceRecommends,
      ServiceSwitches

\* One round more, with all requests that may start workers and one fewer.
LEMMA RoundsFit ==
  ASSUME NEW n \in Nat, NEW m \in Nat, m + 1 <= n, NEW k \in Int, k <= m + 1
  PROVE  2 * (0 + k) + (m + 1) * ((m + 1) - 1) <= n * (n + 1)
<1> DEFINE d == n - (m + 1)
<1>1. d \in Nat /\ n = m + 1 + d OBVIOUS
<1> HIDE DEF d
<1>2. n * (n + 1) = (m + 1) * (m + 2) + d * (2 * m + 3) + d * d BY <1>1
<1>3. d * (2 * m + 3) \in Nat /\ d * d \in Nat BY <1>1
<1>4. 2 * (m + 1) + (m + 1) * m = (m + 1) * (m + 2) OBVIOUS
<1> QED BY <1>2, <1>3, <1>4

\* A request keeps the workers, and those to come, within the bound.
LEMMA LoadFitsNext ==
  ASSUME LoadTypes, NEW t \in Threads, ServeAds(t), NEW l \in Threads, LoadFits(l)
  PROVE  LoadFits(l)'
<1> DEFINE n == Cardinality(Threads)
           s == Num("spawn", l)
           q == Num("set", l)
           m == Starters(l)
<1>1. /\ n \in Nat /\ s \in Nat /\ q \in Nat /\ m \in Nat
      /\ s + q <= m /\ m <= n /\ m = n - Num("stop", l)
  BY NumsFit DEF Starters
<1>2. sets[l] \in Nat /\ running[l] \in BOOLEAN BY DEF LoadTypes
<1>3. 2 * (sets[l] + IF running[l] THEN s ELSE m - q) + m * (m - 1) <= n * (n + 1)
  BY DEF LoadFits, ToCome
<1>4. ASSUME \A u \in Threads : u # t => place'[u] = place[u] /\ mine'[u] = mine[u],
             NEW where
      PROVE  /\ (place[t] = where /\ mine[t] = l <=> place'[t] = where /\ mine'[t] = l)
                  => Num(where, l)' = Num(where, l)
             /\ ~(place[t] = where /\ mine[t] = l) /\ place'[t] = where /\ mine'[t] = l
                  => Num(where, l)' = Num(where, l) + 1
             /\ place[t] = where /\ mine[t] = l /\ ~(place'[t] = where /\ mine'[t] = l)
                  => Num(where, l)' = Num(where, l) - 1
  BY <1>4, NumMoves
<1>5. LoadFits(l)' <=>
        2 * (sets'[l] + IF running'[l] THEN s' ELSE m' - q') + m' * (m' - 1) <= n * (n + 1)
  BY DEF LoadFits, ToCome
<1>6. m' = n - Num("stop", l)' BY DEF Starters
<1> HIDE DEF n, s, q, m
<1>7. \A u \in Threads : u # t => place'[u] = place[u] /\ mine'[u] = mine[u]
  BY DEF ServeAds, Create, getInstance, SwitchOn, spawnLoadWorkers, SetRunning,
         SwitchOff, stopWorkers, GoOn, Leave, LoadTypes
<1>8. CASE mine[t] # l \/ place[t] \in {"create", "return"}
  <2>1. sets'[l] = sets[l] /\ running'[l] = running[l]
    BY <1>8 DEF ServeAds, Create, getInstance, SwitchOn, spawnLoadWorkers, SetRunning,
         SwitchOff, stopWorkers, GoOn, Leave, LoadTypes
  <2>2. ASSUME NEW where \in {"spawn", "set", "stop"} PROVE Num(where, l)' = Num(where, l)
    <3>1. ~(place[t] = where /\ mine[t] = l) BY <1>8
    <3>2. ~(place'[t] = where /\ mine'[t] = l)
      BY <1>8 DEF ServeAds, Create, getInstance, SwitchOn, spawnLoadWorkers, SetRunning,
         SwitchOff, stopWorkers, GoOn, Leave, LoadTypes
    <3> QED BY <1>4, <1>7, <3>1, <3>2
  <2>3. s' = s /\ q' = q /\ m' = m BY <1>1, <1>6, <2>2 DEF s, q
  <2> QED BY <1>3, <1>5, <2>1, <2>3
<1>9. ASSUME mine[t] = l, SwitchOn(t) PROVE LoadFits(l)'
  <2>1. CASE ~running[l] /\ GoOn(t, "spawn") /\ UNCHANGED mine
    <3>1. place[t] = "execute" /\ place'[t] = "spawn" /\ mine'[t] = l
      BY <1>9, <2>1 DEF SwitchOn, GoOn, LoadTypes
    <3>2. s' = s + 1 /\ q' = q /\ Num("stop", l)' = Num("stop", l)
      BY <1>4, <1>7, <1>9, <3>1 DEF s, q
    <3>3. sets' = sets /\ running' = running BY <1>9 DEF SwitchOn
    <3> QED BY <1>1, <1>3, <1>5, <1>6, <2>1, <3>2, <3>3
  <2>2. CASE running[l] /\ Leave(t)
    <3>1. place[t] = "execute" /\ place'[t] = "idle"
      BY <1>9, <2>2 DEF SwitchOn, GoOn, Leave, LoadTypes
    <3>2. s' = s /\ q' = q /\ Num("stop", l)' = Num("stop", l)
      BY <1>4, <1>7, <3>1 DEF s, q
    <3>3. sets' = sets /\ running' = running BY <1>9 DEF SwitchOn
    <3> QED BY <1>1, <1>3, <1>5, <1>6, <3>2, <3>3
  <2> QED BY <1>9, <2>1, <2>2 DEF SwitchOn
<1>10. ASSUME mine[t] = l, spawnLoadWorkers(t) PROVE LoadFits(l)'
  <2>1. place[t] = "spawn" /\ place'[t] = "set" /\ mine'[t] = l
    BY <1>10 DEF spawnLoadWorkers, GoOn, LoadTypes
  <2>2. s' = s - 1 /\ q' = q + 1 /\ Num("stop", l)' = Num("stop", l)
    BY <1>4, <1>7, <1>10, <2>1 DEF s, q
  <2>3. sets'[l] = sets[l] + 1 /\ running' = running
    BY <1>10 DEF spawnLoadWorkers, LoadTypes
  <2> QED BY <1>1, <1>2, <1>3, <1>5, <1>6, <2>2, <2>3
<1>11. ASSUME mine[t] = l, SetRunning(t) PROVE LoadFits(l)'
  <2>1. place[t] = "set" /\ place'[t] = "idle"
    BY <1>11 DEF SetRunning, GoOn, Leave, LoadTypes
  <2>2. s' = s /\ q' = q - 1 /\ Num("stop", l)' = Num("stop", l)
    BY <1>4, <1>7, <1>11, <2>1 DEF s, q
  <2>3. sets' = sets /\ running'[l] = TRUE BY <1>11 DEF SetRunning, LoadTypes
  <2> QED BY <1>1, <1>2, <1>3, <1>5, <1>6, <2>2, <2>3
<1>12. ASSUME mine[t] = l, SwitchOff(t) PROVE LoadFits(l)'
  <2>1. place[t] = "execute" /\ place'[t] = "stop" /\ mine'[t] = l
    BY <1>12 DEF SwitchOff, GoOn, LoadTypes
  <2>2. s' = s /\ q' = q /\ Num("stop", l)' = Num("stop", l) + 1
    BY <1>4, <1>7, <1>12, <2>1 DEF s, q
  <2>3. sets' = sets /\ running'[l] = FALSE BY <1>12 DEF SwitchOff, LoadTypes
  <2>4. m' = m - 1
    <3>1. Num("stop", l) \in Nat BY NumsFit
    <3> QED BY <1>1, <1>6, <2>2, <3>1
  <2>5. m' * (m' - 1) = m * (m - 1) - 2 * (m - 1) BY <1>1, <2>4
  <2>6. m * (m - 1) \in Int BY <1>1
  <2> QED BY <1>1, <1>2, <1>3, <1>5, <2>2, <2>3, <2>4, <2>5, <2>6
<1>13. ASSUME mine[t] = l, stopWorkers(t) PROVE LoadFits(l)'
  <2>1. place[t] = "stop" /\ place'[t] = "idle"
    BY <1>13 DEF stopWorkers, GoOn, Leave, LoadTypes
  <2>2. s' = s /\ q' = q /\ Num("stop", l)' = Num("stop", l) - 1
    BY <1>4, <1>7, <1>13, <2>1 DEF s, q
  <2>3. sets'[l] = 0 /\ running' = running BY <1>13 DEF stopWorkers, LoadTypes
  <2>4. m' = m + 1
    <3>1. Num("stop", l) \in Nat BY NumsFit
    <3> QED BY <1>1, <1>6, <2>2, <3>1
  <2>5. m + 1 <= n
    <3>1. Num("stop", l)' \in Nat BY NumType
    <3> QED BY <1>1, <1>6, <2>4, <3>1
  <2> DEFINE k == IF running[l] THEN s ELSE (m + 1) - q
  <2>6. k \in Int /\ k <= m + 1 BY <1>1
  <2>7. 2 * (0 + k) + (m + 1) * ((m + 1) - 1) <= n * (n + 1)
    <3> HIDE DEF k
    <3> QED BY <1>1, <2>5, <2>6, RoundsFit
  <2> QED BY <1>5, <2>2, <2>3, <2>4, <2>7
<1> QED
  BY <1>8, <1>9, <1>10, <1>11, <1>12, <1>13
  DEF ServeAds, Create, getInstance

\* No workers run at first.
LEMMA LoadInvInit == ASSUME PageInit PROVE LoadInv
<1>1. LoadTypes BY DEF PageInit, LoadInit, LoadTypes, Places
<1>2. ASSUME NEW l \in Threads PROVE LoadFits(l)
  <2>1. \A where \in {"spawn", "set", "stop"} : Around(where, l) = {}
    BY DEF PageInit, LoadInit, Around
  <2>2. Num("spawn", l) = 0 /\ Num("set", l) = 0 /\ Num("stop", l) = 0
    BY <2>1, FS_EmptySet DEF Num
  <2>3. Cardinality(Threads) \in Nat BY FS_CardinalityType, ThreadsAssumption
  <2>4. PICK n \in Nat : n = Cardinality(Threads) BY <2>3
  <2>5. sets[l] = 0 /\ ToCome(l) = n /\ Starters(l) = n
    BY <2>2, <2>4 DEF PageInit, LoadInit, ToCome, Starters
  <2>6. 2 * (0 + n) + n * (n - 1) <= n * (n + 1) OBVIOUS
  <2> QED BY <2>4, <2>5, <2>6 DEF LoadFits
<1> QED BY <1>1, <1>2 DEF LoadInv

\* Every step keeps the workers within the bound.
LEMMA LoadInvNext == ASSUME LoadInv, [PageNext]_pageVars PROVE LoadInv'
<1>1. LoadTypes' BY LoadTypesNext DEF LoadInv
<1>2. ASSUME NEW l \in Threads PROVE LoadFits(l)'
  <2>0. LoadTypes /\ LoadFits(l) BY DEF LoadInv
  <2>1. ASSUME NEW t \in Threads, ServeAds(t) PROVE LoadFits(l)'
    BY <2>0, <2>1, LoadFitsNext
  <2>2. ASSUME NEW p \in Threads, OpenAds(p) PROVE LoadFits(l)'
    <3>1. sets' = sets /\ running' = running /\ mine' = mine BY <2>2 DEF OpenAds, AskAds
    <3>2. \A where \in {"spawn", "set", "stop"} : Around(where, l)' = Around(where, l)
      BY <2>0, <2>2 DEF OpenAds, AskAds, GoOn, LoadTypes, Around
    <3> QED BY <2>0, <3>1, <3>2 DEF LoadFits, ToCome, Starters, Num
  <2>3. CASE UNCHANGED loadVars
    BY <2>0, <2>3 DEF loadVars, LoadFits, ToCome, Starters, Num, Around
  <2> QED
    BY <2>1, <2>2, <2>3, OneThreadEach
    DEF PageNext, pageVars, OpenRecommendations, Settle, Retry, ServiceRecommends,
        ServiceSwitches
<1> QED BY <1>1, <1>2 DEF LoadInv

\* The bound on workers to come bounds those that run.
LEMMA LoadInvBounds == LoadInv => LoadIsBounded
<1> SUFFICES ASSUME LoadInv, NEW l \in Threads
             PROVE  2 * sets[l] <= Cardinality(Threads) * (Cardinality(Threads) + 1)
  BY DEF LoadIsBounded
<1>1. PICK n \in Nat, m \in Nat, c \in Nat :
        n = Cardinality(Threads) /\ m = Starters(l) /\ c = ToCome(l)
  BY NumsFit DEF ToCome, Starters, LoadInv, LoadTypes
<1>2. 2 * (sets[l] + c) + m * (m - 1) <= n * (n + 1)
  BY <1>1 DEF LoadInv, LoadFits
<1>3. m * (m - 1) >= 0
  <2>1. CASE m = 0 BY <2>1
  <2>2. CASE m > 0 
    <3>1. PICK i \in Nat : i = m - 1 BY <2>2
    <3>2. m * i \in Nat BY <3>1
    <3> QED BY <3>1, <3>2
  <2> QED BY <2>1, <2>2
<1>4. sets[l] \in Nat BY DEF LoadInv, LoadTypes
<1> QED BY <1>1, <1>2, <1>3, <1>4

\* However many requests for ads overlap, a load never has more sets of workers than
\* one of each request, one fewer after each delayed stop, and so on down
\* (CPULoad.java: execute, spawnLoadWorkers, stopWorkers).
THEOREM LoadBounded == PageSpec => []LoadIsBounded
<1> QED BY LoadInvInit, LoadInvNext, LoadInvBounds, PTL DEF PageSpec

-----------------------------------------------------------------------------
(* What is recommended.                                                    *)

Phases == {"idle", "asked", "list", "miss", "hit", "grow", "answered", "failed"}

ListTypes ==
  /\ stage \in [Requests -> Phases]
  /\ asked \in [Requests -> SUBSET Products]
  /\ response \in [Requests -> SUBSET Products]
  /\ held \in [Requests -> Nat]
  /\ cached_ids \in Nat /\ misses \in Nat
  /\ served \in BOOLEAN /\ after \in [Requests -> BOOLEAN]

\* The list is not empty again once it was not.
ListFilled ==
  /\ served => cached_ids > 0
  /\ \A r \in Requests : after[r] => served
  /\ \A r \in Requests : stage[r] = "grow" => held[r] > 0

\* An answer is made of all other products, or enough of them, if there was a list.
Offers(r) ==
  stage[r] = "answered" =>
    LET others == Products \ asked[r]
    IN /\ response[r] \subseteq others
       /\ Cardinality(response[r]) <= max_responses
       /\ after[r] => response[r] = others \/ Cardinality(response[r]) = max_responses

OffersInv == ListTypes /\ ListFilled /\ \A r \in Requests : Offers(r)

\* The catalogue has products.
LEMMA CatalogueCounts == Catalogue \in Nat /\ Catalogue > 0
BY FS_CardinalityType, FS_EmptySet, ProductsAssumption DEF Catalogue

\* A sample has the size asked for, or all that is left.
LEMMA SamplesFit ==
  ASSUME NEW length \in Nat, NEW excluded \in SUBSET Products,
         NEW ids \in Sample(length, excluded)
  PROVE  /\ ids \subseteq Products \ excluded
         /\ Cardinality(ids) <= max_responses
         /\ length > 0 => ids = Products \ excluded \/ Cardinality(ids) = max_responses
<1> DEFINE filtered == (IF length = 0 THEN {} ELSE Products) \ excluded
           num == IF Cardinality(filtered) < max_responses THEN Cardinality(filtered)
                  ELSE max_responses
<1>1. ids \in SUBSET filtered /\ Cardinality(ids) = num BY DEF Sample, kSubset
<1>2. filtered \subseteq Products \ excluded /\ (length > 0 => filtered = Products \ excluded)
  OBVIOUS
<1>3. IsFiniteSet(filtered)
  <2>1. filtered \in SUBSET Products OBVIOUS
  <2> HIDE DEF filtered
  <2> QED BY <2>1, FS_Subset, ProductsAssumption
<1> HIDE DEF filtered
<1>4. Cardinality(filtered) \in Nat BY <1>3, FS_CardinalityType
<1>5. Cardinality(filtered) = Cardinality(ids) => filtered = ids BY <1>1, <1>3, FS_Subset
<1>6. max_responses \in Nat BY MissesAssumption
<1> QED BY <1>1, <1>2, <1>4, <1>5, <1>6

\* So has an answer.
LEMMA AnswersFit ==
  ASSUME ListTypes, NEW r \in Requests, NEW length \in Nat, Answer(r, length)
  PROVE  /\ stage' = [stage EXCEPT ![r] = "answered"]
         /\ \E ids \in SUBSET Products :
              /\ response' = [response EXCEPT ![r] = ids]
              /\ ids \subseteq Products \ asked[r]
              /\ Cardinality(ids) <= max_responses
              /\ length > 0 => ids = Products \ asked[r] \/ Cardinality(ids) = max_responses
<1>1. PICK ids \in Sample(length, Joined(asked[r], Sent)) :
        response' = [response EXCEPT ![r] = ids]
  BY DEF Answer
<1>2. Joined(asked[r], Sent) = asked[r] /\ asked[r] \in SUBSET Products
  BY DEF Joined, Sent, ListTypes
<1>3. /\ ids \subseteq Products \ asked[r]
      /\ Cardinality(ids) <= max_responses
      /\ length > 0 => ids = Products \ asked[r] \/ Cardinality(ids) = max_responses
  BY <1>1, <1>2, SamplesFit
<1> QED BY <1>1, <1>3 DEF Answer

\* What an answer leaves to show.
LEMMA OffersAnswer ==
  ASSUME OffersInv, NEW r \in Requests, NEW length \in Nat, Answer(r, length),
         UNCHANGED <<asked, after>>, after[r] => length > 0
  PROVE  \A q \in Requests : Offers(q)'
<1>1. ListTypes BY DEF OffersInv
<1>2. PICK ids \in SUBSET Products :
        /\ stage' = [stage EXCEPT ![r] = "answered"]
        /\ response' = [response EXCEPT ![r] = ids]
        /\ ids \subseteq Products \ asked[r]
        /\ Cardinality(ids) <= max_responses
        /\ length > 0 => ids = Products \ asked[r] \/ Cardinality(ids) = max_responses
  BY <1>1, AnswersFit
<1>3. Offers(r)' BY <1>1, <1>2 DEF Offers, ListTypes
<1>4. ASSUME NEW q \in Requests, q # r PROVE Offers(q)'
  BY <1>2, <1>4 DEF Offers, ListTypes, OffersInv
<1> QED BY <1>3, <1>4

\* An answer from a list that is not empty keeps the offers.
LEMMA OffersAnswered ==
  ASSUME OffersInv, NEW r \in Requests, NEW length \in Nat, Answer(r, length),
         after[r] => length > 0, UNCHANGED <<asked, misses, after>>,
         cached_ids' \in Nat, cached_ids > 0 => cached_ids' > 0,
         held' \in [Requests -> Nat], \A q \in Requests : q # r => held'[q] = held[q],
         served' \in BOOLEAN, served' => served \/ cached_ids' > 0, served => served'
  PROVE  OffersInv'
<1>0. ListTypes /\ ListFilled BY DEF OffersInv
<1>1. PICK ids \in SUBSET Products :
        /\ stage' = [stage EXCEPT ![r] = "answered"]
        /\ response' = [response EXCEPT ![r] = ids]
  BY <1>0, AnswersFit
<1>2. stage' \in [Requests -> Phases] /\ response' \in [Requests -> SUBSET Products]
  BY <1>0, <1>1 DEF ListTypes, Phases
<1>3. ListTypes' BY <1>0, <1>2 DEF ListTypes
<1>4. ListFilled'
  <2>1. served' => cached_ids' > 0 BY <1>0 DEF ListFilled
  <2>2. \A q \in Requests : after'[q] => served' BY <1>0 DEF ListFilled
  <2>3. \A q \in Requests : stage'[q] = "grow" => held'[q] > 0
    BY <1>0, <1>1 DEF ListFilled, ListTypes
  <2> QED BY <2>1, <2>2, <2>3 DEF ListFilled
<1>5. \A q \in Requests : Offers(q)' BY OffersAnswer
<1> QED BY <1>3, <1>4, <1>5 DEF OffersInv

\* A step of a request keeps the offers.
LEMMA OffersRecommend ==
  ASSUME OffersInv, NEW r \in Requests, Recommend(r)
  PROVE  OffersInv'
<1>. ListTypes /\ ListFilled /\ \A q \in Requests : Offers(q) BY DEF OffersInv
<1>0. Catalogue \in Nat /\ Catalogue > 0 BY CatalogueCounts
<1>1. CASE WithoutCache(r) \/ Miss(r) \/ Hit(r) \/ ListFails(r)
  <2>1. ListTypes'
    BY <1>1 DEF WithoutCache, Miss, Hit, ListFails, ListTypes, Phases
  <2>2. ListFilled'
    BY <1>1 DEF WithoutCache, Miss, Hit, ListFails, ListTypes, ListFilled
  <2>3. \A q \in Requests : Offers(q)'
    BY <1>1 DEF WithoutCache, Miss, Hit, ListFails, ListTypes, Offers
  <2> QED BY <2>1, <2>2, <2>3 DEF OffersInv
<1>2. CASE Extend(r)
  <2>1. ListTypes' BY <1>0, <1>2 DEF Extend, ListTypes, Phases
  <2>2. ListFilled' BY <1>0, <1>2 DEF Extend, ListTypes, ListFilled
  <2>3. \A q \in Requests : Offers(q)' BY <1>2 DEF Extend, ListTypes, Offers
  <2> QED BY <2>1, <2>2, <2>3 DEF OffersInv
<1>4. CASE ListProducts(r)
  <2>1. Answer(r, Catalogue) /\ UNCHANGED <<asked, held, cached_ids, misses, served, after>>
    BY <1>4 DEF ListProducts
  <2>2. cached_ids \in Nat /\ held \in [Requests -> Nat] /\ served \in BOOLEAN
    BY DEF ListTypes
  <2> QED BY <1>0, <2>1, <2>2, OffersAnswered
<1>5. CASE AnswerHit(r)
  <2>1. Answer(r, cached_ids) /\ UNCHANGED <<asked, held, cached_ids, misses, served, after>>
    BY <1>5 DEF AnswerHit
  <2>2. cached_ids \in Nat /\ held \in [Requests -> Nat] /\ served \in BOOLEAN
    BY DEF ListTypes
  <2>3. after[r] => cached_ids > 0 BY DEF ListFilled
  <2> QED BY <2>1, <2>2, <2>3, OffersAnswered
<1>6. CASE Grow(r)
  <2>1. PICK h \in Nat : h = held[r] BY DEF ListTypes
  <2>2. h > 0 BY <1>6, <2>1 DEF Grow, ListFilled
  <2>3. h + h \div 4 \in Nat /\ h + h \div 4 > 0 BY <2>2
  <2>4. /\ Answer(r, cached_ids') /\ cached_ids' = h + h \div 4
        /\ held' = [held EXCEPT ![r] = 0]
        /\ served' = TRUE /\ UNCHANGED <<asked, misses, after>>
    BY <1>6, <2>1 DEF Grow, Quartered
  <2>5. held' \in [Requests -> Nat] /\ \A q \in Requests : q # r => held'[q] = held[q]
    BY <2>4 DEF ListTypes
  <2>6. PICK length \in Nat : length = cached_ids' BY <2>3, <2>4
  <2> QED BY <2>3, <2>4, <2>5, <2>6, OffersAnswered
<1> QED BY <1>1, <1>2, <1>4, <1>5, <1>6 DEF Recommend

\* Nothing is offered at first.
LEMMA OffersInit == ASSUME PageInit PROVE OffersInv
BY DEF PageInit, ListInit, OffersInv, ListTypes, ListFilled, Offers, Phases

\* Every step keeps the offers.
LEMMA OffersNext == ASSUME OffersInv, [PageNext]_pageVars PROVE OffersInv'
<1>1. CASE UNCHANGED listVars
  BY <1>1 DEF listVars, OffersInv, ListTypes, ListFilled, Offers
<1>2. ASSUME NEW p \in Requests, OpenRecommendations(p) PROVE OffersInv'
  BY <1>2, BesideAssumption
  DEF OpenRecommendations, AskRecommendations, OffersInv, ListTypes, ListFilled, Offers, Phases
<1>3. ASSUME NEW p \in Requests, Settle(p) PROVE OffersInv'
  BY <1>3 DEF Settle, OffersInv, ListTypes, ListFilled, Offers, Phases
<1>4. ASSUME NEW p \in Requests, Retry(p) PROVE OffersInv'
  BY <1>4 DEF Retry, OffersInv, ListTypes, ListFilled, Offers, Phases
<1>5. ASSUME NEW p \in Requests, ServiceRecommends(p) PROVE OffersInv'
  BY <1>5, OffersRecommend DEF ServiceRecommends
<1> QED
  BY <1>1, <1>2, <1>3, <1>4, <1>5, OneThreadEach
  DEF PageNext, pageVars, OpenAds, ServiceSwitches

\* A page is recommended other products, at most so many, and so many if there are
\* as many and the page asked after the service had once answered from its list:
\* for any catalogue and pages (recommendation_server.py: get_product_list).
THEOREM OthersOffered == PageSpec => []OffersOthers
<1>1. OffersInv => OffersOthers BY DEF OffersInv, Offers, OffersOthers
<1> QED BY <1>1, OffersInit, OffersNext, PTL DEF PageSpec

-----------------------------------------------------------------------------
(* The length of the list.  Sequentially is a recursive function, whose    *)
(* existence is part of what is to be shown; the induction is over sets.   *)

\* Induction over the subsets of a finite set, with the sets the induction
\* hypothesis holds of as a set.
LEMMA SubsetInduction ==
  ASSUME NEW S, IsFiniteSet(S), NEW T, {} \in T,
         \A s \in SUBSET S : s # {} /\ (\A x \in s : s \ {x} \in T) => s \in T
  PROVE  SUBSET S \subseteq T
<1> DEFINE Others == (SUBSET S) \ T
<1> SUFFICES ASSUME Others # {} PROVE FALSE OBVIOUS
<1>1. IsWellFoundedOn(StrictSubsetOrdering(S), FiniteSubsetsOf(S))
  BY FS_StrictSubsetOrderingWellFounded
<1>2. Others \subseteq FiniteSubsetsOf(S)
  BY FS_Subset DEF FiniteSubsetsOf
<1> HIDE DEF Others
<1>3. PICK m \in Others : \A y \in Others : ~ (<<y, m>> \in StrictSubsetOrdering(S))
  BY <1>1, <1>2, WFMin
<1> USE DEF Others
<1>4. \A x \in m : m \ {x} \in T
  <2> TAKE x \in m
  <2>1. m \ {x} \in SUBSET S /\ m \in SUBSET S /\ m \ {x} # m OBVIOUS
  <2>2. <<m \ {x}, m>> \in StrictSubsetOrdering(S)
    BY <2>1 DEF StrictSubsetOrdering
  <2> QED BY <1>3, <2>1, <2>2
<1> QED BY <1>4

\* A finite set of numbers has a least one.
LEMMA LeastOfFinite ==
  ASSUME NEW S \in SUBSET Nat, IsFiniteSet(S), S # {}
  PROVE  \E m \in S : \A y \in S : m <= y
<1> DEFINE T == {s \in SUBSET S : s = {} \/ \E m \in s : \A y \in s : m <= y}
<1>1. {} \in T OBVIOUS
<1>2. ASSUME NEW s \in SUBSET S, s # {}, \A x \in s : s \ {x} \in T PROVE s \in T
  <2>1. PICK x \in s : x \in Nat BY <1>2
  <2>2. s \ {x} \in T BY <1>2
  <2>3. CASE s \ {x} = {} BY <2>1, <2>3
  <2>4. CASE s \ {x} # {}
    <3>1. PICK m \in s \ {x} : m \in Nat /\ \A y \in s \ {x} : m <= y BY <2>2, <2>4
    <3>2. CASE m <= x BY <3>1, <3>2
    <3>3. CASE x <= m
      <4>1. \A y \in s : y \in Nat OBVIOUS
      <4>2. \A y \in s : x <= y BY <2>1, <3>1, <3>3, <4>1
      <4> QED BY <4>2
    <3> QED BY <2>1, <3>1, <3>2, <3>3
  <2> QED BY <2>3, <2>4
<1> HIDE DEF T
<1>3. S \in T BY <1>1, <1>2, SubsetInduction
<1> QED BY <1>3 DEF T

\* Induction over the natural numbers, with the numbers the claim holds of as a set.
LEMMA Induction ==
  ASSUME NEW T, \A i \in Nat : (\A m \in 0..(i - 1) : m \in T) => i \in T
  PROVE  \A i \in Nat : i \in T
<1> SUFFICES ASSUME NEW i \in Nat, i \notin T PROVE FALSE OBVIOUS
<1> DEFINE S == {m \in 0..i : m \notin T}
<1>1. IsFiniteSet(S)
  <2>1. IsFiniteSet(0..i) BY FS_Interval
  <2> QED BY <2>1, FS_Subset
<1>2. S \in SUBSET Nat /\ i \in S OBVIOUS
<1>3. PICK m \in S : \A y \in S : m <= y
  <2> HIDE DEF S
  <2> QED BY <1>1, <1>2, LeastOfFinite
<1>4. \A y \in 0..(m - 1) : y \in T BY <1>3
<1> QED BY <1>3, <1>4

\* A miss does not shorten a list, and leaves the longer of two lists the longer.
LEMMA QuarteredGrows ==
  ASSUME NEW m \in Nat, NEW n \in Nat, m <= n
  PROVE  /\ Quartered(m) \in Nat /\ Quartered(n) \in Nat
         /\ m <= Quartered(m) /\ Quartered(m) <= Quartered(n)
<1>1. m \div 4 \in Nat /\ n \div 4 \in Nat /\ m \div 4 <= n \div 4 OBVIOUS
<1> QED BY <1>1 DEF Quartered

\* A miss that none overlaps.
Missed(length) == Quartered(length + Catalogue)

\* It does not shorten the list either.
LEMMA MissedGrows ==
  ASSUME NEW m \in Nat, NEW n \in Nat, m <= n
  PROVE  Missed(m) \in Nat /\ m <= Missed(m) /\ Missed(m) <= Missed(n)
<1>1. PICK c \in Nat : c = Catalogue BY CatalogueCounts
<1>2. m + c \in Nat /\ n + c \in Nat /\ m + c <= n + c OBVIOUS
<1>3. Quartered(m + c) \in Nat /\ m + c <= Quartered(m + c)
      /\ Quartered(m + c) <= Quartered(n + c)
  BY <1>2, QuarteredGrows
<1>4. m <= Quartered(m + c) BY <1>3
<1> QED BY <1>1, <1>3, <1>4 DEF Missed

\* f is the length of the list after up to N misses.
Lengthens(f, N) == /\ f \in [0..N -> Nat] /\ f[0] = 0
                   /\ \A i \in 0..N : i # 0 => f[i] = Missed(f[i - 1])

\* The recursion determines it.
LEMMA LengthensOnce ==
  ASSUME NEW f, NEW g, NEW M \in Nat, NEW N \in Nat, M <= N,
         Lengthens(f, M), Lengthens(g, N)
  PROVE  \A i \in 0..M : f[i] = g[i]
<1> DEFINE T == {i \in Nat : i <= M => f[i] = g[i]}
<1>1. ASSUME NEW i \in Nat, \A m \in 0..(i - 1) : m \in T PROVE i \in T
  <2> SUFFICES ASSUME i <= M PROVE f[i] = g[i] OBVIOUS
  <2>1. CASE i = 0 BY <2>1 DEF Lengthens
  <2>2. CASE i # 0
    <3>1. f[i] = Missed(f[i - 1]) /\ g[i] = Missed(g[i - 1]) BY <2>2 DEF Lengthens
    <3>2. f[i - 1] = g[i - 1] BY <1>1, <2>2
    <3> QED BY <3>1, <3>2
  <2> QED BY <2>1, <2>2
<1> HIDE DEF T
<1>2. \A i \in Nat : i \in T BY <1>1, Induction
<1> QED BY <1>2 DEF T

\* There are lengths after any number of misses.
LEMMA LengthensExists ==
  ASSUME NEW N \in Nat PROVE \E f : Lengthens(f, N)
<1> DEFINE T == {i \in Nat : \E f : Lengthens(f, i)}
<1>1. ASSUME NEW i \in Nat, \A m \in 0..(i - 1) : m \in T PROVE i \in T
  <2>1. CASE i = 0
    <3>1. Lengthens([k \in 0..i |-> 0], i) BY <2>1 DEF Lengthens
    <3> QED BY <3>1
  <2>2. CASE i # 0
    <3>1. i - 1 \in T /\ i - 1 \in Nat
      <4>1. i - 1 \in 0..(i - 1) BY <2>2
      <4> HIDE DEF T
      <4> QED BY <1>1, <4>1
    <3>2. PICK g : Lengthens(g, i - 1) BY <3>1
    <3> DEFINE f == [k \in 0..i |-> IF k = i THEN Missed(g[i - 1]) ELSE g[k]]
    <3>3. PICK v \in Nat : v = g[i - 1] BY <3>1, <3>2 DEF Lengthens
    <3>4. Missed(v) \in Nat BY MissedGrows
    <3>5. f \in [0..i -> Nat]
      <4>1. \A k \in 0..i : k # i => k \in 0..(i - 1) OBVIOUS
      <4> QED BY <3>2, <3>3, <3>4, <4>1 DEF Lengthens
    <3>6. f[0] = 0 BY <2>2, <3>2 DEF Lengthens
    <3>7. ASSUME NEW k \in 0..i, k # 0 PROVE f[k] = Missed(f[k - 1])
      <4>1. f[k - 1] = g[k - 1] BY <3>7
      <4>2. CASE k = i BY <4>1, <4>2
      <4>3. CASE k # i
        <5>1. k \in 0..(i - 1) BY <4>3
        <5>2. g[k] = Missed(g[k - 1]) BY <3>2, <3>7, <5>1 DEF Lengthens
        <5> QED BY <4>1, <4>3, <5>2
      <4> QED BY <4>2, <4>3
    <3> HIDE DEF f
    <3>8. Lengthens(f, i) BY <3>5, <3>6, <3>7 DEF Lengthens
    <3> QED BY <3>8
  <2> QED BY <2>1, <2>2
<1> HIDE DEF T
<1>2. \A i \in Nat : i \in T BY <1>1, Induction
<1> QED BY <1>2 DEF T

\* They are what the recursion says.
LEMMA SequentiallyAt ==
  /\ Sequentially \in [Nat -> Nat] /\ Sequentially[0] = 0
  /\ \A k \in Nat : Sequentially[k + 1] = Missed(Sequentially[k])
<1> DEFINE Solves(f) ==
             f = [k \in Nat |-> IF k = 0 THEN 0 ELSE Quartered(f[k - 1] + Catalogue)]
           upTo == [N \in Nat |-> CHOOSE f : Lengthens(f, N)]
           f == [k \in Nat |-> upTo[k][k]]
<1>1. \A N \in Nat : Lengthens(upTo[N], N)
  <2> TAKE N \in Nat
  <2>1. \E g : Lengthens(g, N) BY LengthensExists
  <2>2. upTo[N] = CHOOSE g : Lengthens(g, N) OBVIOUS
  <2> QED BY <2>1, <2>2
<1> HIDE DEF upTo
<1>2. ASSUME NEW k \in Nat, k # 0 PROVE f[k] = Missed(f[k - 1])
  <2>1. k - 1 \in Nat /\ k - 1 <= k BY <1>2
  <2>2. Lengthens(upTo[k], k) /\ Lengthens(upTo[k - 1], k - 1) BY <1>1, <2>1
  <2>3. \A i \in 0..(k - 1) : upTo[k - 1][i] = upTo[k][i] BY <2>1, <2>2, LengthensOnce
  <2>4. upTo[k][k] = Missed(upTo[k][k - 1]) BY <1>2, <2>2 DEF Lengthens
  <2> QED BY <2>1, <2>3, <2>4
<1>3. f[0] = 0
  <2>1. Lengthens(upTo[0], 0) BY <1>1
  <2> QED BY <2>1 DEF Lengthens
<1>4. Solves(f)
  <2>1. \A k \in Nat : f[k] = IF k = 0 THEN 0 ELSE Quartered(f[k - 1] + Catalogue)
    BY <1>2, <1>3 DEF Missed
  <2>2. f = [k \in Nat |-> f[k]] OBVIOUS
  <2> HIDE DEF f
  <2> QED BY <2>1, <2>2
<1> HIDE DEF f
<1>5. Sequentially = CHOOSE g : Solves(g) BY Zenon DEF Sequentially
<1>6. Solves(Sequentially) BY <1>4, <1>5
<1> DEFINE p == Sequentially
<1> HIDE DEF p
<1>7. p = [k \in Nat |-> IF k = 0 THEN 0 ELSE Quartered(p[k - 1] + Catalogue)]
  BY <1>6 DEF p
<1>8. p[0] = 0 BY <1>7
<1>9. \A k \in Nat : p[k + 1] = Missed(p[k])
  <2> TAKE k \in Nat
  <2>1. k + 1 \in Nat /\ k + 1 # 0 /\ (k + 1) - 1 = k OBVIOUS
  <2> QED BY <1>7, <2>1 DEF Missed
<1> DEFINE T == {k \in Nat : p[k] \in Nat}
<1>10. ASSUME NEW i \in Nat, \A m \in 0..(i - 1) : m \in T PROVE i \in T
  <2>1. CASE i = 0 BY <1>8, <2>1
  <2>2. CASE i # 0
    <3>1. PICK j \in Nat : i = j + 1 BY <2>2
    <3>2. j \in T
      <4>1. j \in 0..(i - 1) BY <3>1
      <4> HIDE DEF T
      <4> QED BY <1>10, <4>1
    <3>3. PICK v \in Nat : v = p[j] BY <3>2
    <3>4. p[i] = Missed(v) BY <1>9, <3>1, <3>3
    <3>5. Missed(v) \in Nat BY MissedGrows
    <3> QED BY <3>4, <3>5
  <2> QED BY <2>1, <2>2
<1> HIDE DEF T
<1>11. \A k \in Nat : k \in T BY <1>10, Induction
<1>12. p \in [Nat -> Nat]
  <2>1. \A k \in Nat : p[k] \in Nat BY <1>11 DEF T
  <2>2. DOMAIN p = Nat /\ p = [k \in DOMAIN p |-> p[k]] BY <1>7
  <2> QED BY <2>1, <2>2
<1> QED BY <1>8, <1>9, <1>12 DEF p

\* More misses make no shorter list.
LEMMA MoreIsLonger ==
  ASSUME NEW a \in Nat, NEW n \in Nat, a <= n
  PROVE  Sequentially[a] <= Sequentially[n]
<1> DEFINE T == {i \in Nat : Sequentially[a] <= Sequentially[a + i]}
<1>1. ASSUME NEW i \in Nat, \A m \in 0..(i - 1) : m \in T PROVE i \in T
  <2>1. CASE i = 0
    <3>1. a + i = a BY <2>1
    <3>2. Sequentially[a] \in Nat BY SequentiallyAt
    <3> QED BY <3>1, <3>2
  <2>2. CASE i # 0
    <3>1. PICK j \in Nat : i = j + 1 BY <2>2
    <3>2. j \in T
      <4>1. j \in 0..(i - 1) BY <3>1
      <4> HIDE DEF T
      <4> QED BY <1>1, <4>1
    <3>3. PICK k \in Nat : k = a + j /\ a + i = k + 1 BY <3>1
    <3>4. PICK v \in Nat, w \in Nat : v = Sequentially[a] /\ w = Sequentially[k]
      BY SequentiallyAt
    <3>5. v <= w BY <3>2, <3>3, <3>4
    <3>6. Sequentially[a + i] = Missed(w) BY <3>3, <3>4, SequentiallyAt
    <3>7. Missed(w) \in Nat /\ w <= Missed(w) BY MissedGrows
    <3>8. v <= Missed(w) BY <3>5, <3>7
    <3> QED BY <3>4, <3>6, <3>8
  <2> QED BY <2>1, <2>2
<1> HIDE DEF T
<1>2. \A i \in Nat : i \in T BY <1>1, Induction
<1>3. PICK d \in Nat : n = a + d
  <2>1. n - a \in Nat /\ n = a + (n - a) OBVIOUS
  <2> QED BY <2>1
<1> QED BY <1>2, <1>3 DEF T

\* The requests at that stage.
Those(where) == {r \in Requests : stage[r] = where}
Count(where) == Cardinality(Those(where))

\* Misses whose catalogue was added to the list, or will not be.
Added == misses - Count("miss")

\* A list of that length is no longer than after as many misses.
Within(length, a) == length <= Sequentially[a]

\* A list that was read is one whose quarter is not too much either: what a request
\* overwrites the list with is bounded when it reads it.
GrowthInv ==
  /\ Within(cached_ids, Added)
  /\ \A r \in Requests : stage[r] = "grow" => Within(Quartered(held[r]), Added)

\* One more miss bounds what fewer do.
LEMMA WithinLater ==
  ASSUME NEW length \in Nat, NEW a \in Nat, Within(length, a)
  PROVE  Within(length, a + 1)
<1>1. a + 1 \in Nat /\ a <= a + 1 OBVIOUS
<1>2. PICK v \in Nat, w \in Nat : v = Sequentially[a] /\ w = Sequentially[a + 1]
  BY <1>1, SequentiallyAt
<1>3. v <= w BY <1>1, <1>2, MoreIsLonger
<1> QED BY <1>2, <1>3 DEF Within

\* A miss that adds the catalogue to a list within the bound is within the next one,
\* with the quarter it will take.
LEMMA WithinExtended ==
  ASSUME NEW length \in Nat, NEW a \in Nat, Within(length, a)
  PROVE  /\ length + Catalogue \in Nat
         /\ Within(length + Catalogue, a + 1)
         /\ Within(Quartered(length + Catalogue), a + 1)
<1>1. PICK c \in Nat : c = Catalogue BY CatalogueCounts
<1>2. PICK v \in Nat : v = Sequentially[a] /\ Sequentially[a + 1] = Missed(v)
  BY SequentiallyAt
<1>3. length <= v BY <1>2 DEF Within
<1>4. length + c \in Nat /\ v + c \in Nat /\ length + c <= v + c BY <1>3
<1>5. /\ Quartered(length + c) \in Nat /\ length + c <= Quartered(length + c)
      /\ Quartered(length + c) <= Quartered(v + c) /\ Quartered(v + c) \in Nat
  BY <1>4, QuarteredGrows
<1>6. length + c <= Quartered(v + c) BY <1>4, <1>5
<1>7. Missed(v) = Quartered(v + c) BY <1>1 DEF Missed
<1> QED BY <1>1, <1>2, <1>4, <1>5, <1>6, <1>7 DEF Within

\* A request moves on, and no other.
LEMMA CountsMove ==
  ASSUME NEW r \in Requests, stage \in [Requests -> Phases], NEW to \in Phases,
         stage' = [stage EXCEPT ![r] = to], NEW where
  PROVE  /\ Count(where) \in Nat
         /\ (stage[r] = where <=> to = where) => Count(where)' = Count(where)
         /\ stage[r] # where /\ to = where => Count(where)' = Count(where) + 1
         /\ stage[r] = where /\ to # where => Count(where)' = Count(where) - 1
<1> DEFINE A == Those(where)
           B == Those(where)'
<1>1. A \in SUBSET Requests /\ B \in SUBSET Requests BY DEF Those
<1>2. \A q \in Requests : q # r => (q \in A <=> q \in B) BY DEF Those
<1>3. (r \in A <=> stage[r] = where) /\ (r \in B <=> to = where) BY DEF Those
<1>4. Count(where) = Cardinality(A) /\ Count(where)' = Cardinality(B) BY DEF Count
<1> HIDE DEF A, B
<1>5. IsFiniteSet(Requests) BY ThreadsAssumption, OneThreadEach
<1>6. /\ Cardinality(A) \in Nat
      /\ (r \in A <=> r \in B) => Cardinality(B) = Cardinality(A)
      /\ r \notin A /\ r \in B => Cardinality(B) = Cardinality(A) + 1
      /\ r \in A /\ r \notin B => Cardinality(B) = Cardinality(A) - 1
  BY <1>1, <1>2, <1>5, CountMoves
<1> QED BY <1>3, <1>4, <1>6

\* Requests are counted by natural numbers.
LEMMA CountType == ASSUME NEW where PROVE Count(where) \in Nat
<1>1. IsFiniteSet(Requests) BY ThreadsAssumption, OneThreadEach
<1>2. Those(where) \in SUBSET Requests BY DEF Those
<1> QED BY <1>1, <1>2, FS_Subset, FS_CardinalityType DEF Count

\* Every request that has missed is counted.
CountsInv == Added \in Nat

\* The misses that are done do not exceed those counted.
LEMMA CountsAre ==
  ASSUME ListTypes, CountsInv
  PROVE  Added \in Nat /\ Added <= misses /\ cached_ids \in Nat /\ misses \in Nat
<1>1. Count("miss") \in Nat BY CountType
<1> QED BY <1>1 DEF CountsInv, ListTypes, Added

\* Nothing happens to the misses.
LEMMA GrowthStays ==
  ASSUME ListTypes, CountsInv, GrowthInv, UNCHANGED <<cached_ids, misses, held>>,
         NEW r \in Requests, NEW to \in Phases \ {"miss", "grow"},
         stage' = [stage EXCEPT ![r] = to], stage[r] # "miss"
  PROVE  GrowthInv' /\ CountsInv'
<1>1. Count("miss")' = Count("miss") BY CountsMove DEF ListTypes
<1>2. Added' = Added BY <1>1 DEF Added
<1>3. \A q \in Requests : stage'[q] = "grow" => stage[q] = "grow" BY DEF ListTypes
<1> QED BY <1>2, <1>3 DEF GrowthInv, Within, CountsInv

\* A step of a request keeps the bound on lists.
LEMMA GrowthRecommend ==
  ASSUME ListTypes, CountsInv, GrowthInv, NEW r \in Requests, Recommend(r)
  PROVE  GrowthInv' /\ CountsInv'
<1>0. stage \in [Requests -> Phases] /\ held \in [Requests -> Nat]
  BY DEF ListTypes
<1>a. PICK a \in Nat, n \in Nat : a = Added /\ n = cached_ids BY CountsAre
<1>b. Within(n, a)
      /\ \A q \in Requests : stage[q] = "grow" => Within(Quartered(held[q]), a)
  BY <1>a DEF GrowthInv
<1>c. \A q \in Requests : held[q] \in Nat /\ Quartered(held[q]) \in Nat
  BY <1>0, QuarteredGrows
<1>1. CASE WithoutCache(r) \/ Hit(r)
  <2>1. PICK to \in {"list", "hit"} : stage' = [stage EXCEPT ![r] = to]
    BY <1>1 DEF WithoutCache, Hit
  <2>2. stage[r] = "asked" /\ UNCHANGED <<cached_ids, misses, held>>
    BY <1>1 DEF WithoutCache, Hit
  <2> QED BY <2>1, <2>2, GrowthStays DEF Phases
<1>2. CASE ListProducts(r) \/ AnswerHit(r)
  <2>1. stage' = [stage EXCEPT ![r] = "answered"] /\ stage[r] \in {"list", "hit"}
        /\ UNCHANGED <<cached_ids, misses, held>>
    BY <1>2 DEF ListProducts, AnswerHit, Answer
  <2> QED BY <2>1, GrowthStays DEF Phases
<1>3. CASE Miss(r)
  <2>1. stage[r] = "asked" /\ stage' = [stage EXCEPT ![r] = "miss"]
        /\ misses' = misses + 1 /\ UNCHANGED <<cached_ids, held>>
    BY <1>3 DEF Miss
  <2>2. Count("miss")' = Count("miss") + 1 /\ Count("miss") \in Nat
    BY <1>0, <2>1, CountsMove DEF Phases
  <2>3. Added' = Added BY <2>1, <2>2 DEF Added, ListTypes
  <2>4. \A q \in Requests : stage'[q] = "grow" => stage[q] = "grow" BY <1>0, <2>1
  <2> QED BY <2>1, <2>3, <2>4 DEF GrowthInv, Within, CountsInv
<1>4. CASE ListFails(r)
  <2>1. stage[r] \in {"list", "miss"} /\ stage' = [stage EXCEPT ![r] = "failed"]
        /\ UNCHANGED <<cached_ids, misses, held>>
    BY <1>4 DEF ListFails
  <2>2. CASE stage[r] = "list" BY <2>1, <2>2, GrowthStays DEF Phases
  <2>3. CASE stage[r] = "miss"
    <3>1. Count("miss")' = Count("miss") - 1 /\ Count("miss") \in Nat
      BY <1>0, <2>1, <2>3, CountsMove DEF Phases
    <3>2. Added' = a + 1 BY <1>a, <2>1, <3>1 DEF Added, ListTypes
    <3>3. \A q \in Requests : stage'[q] = "grow" => stage[q] = "grow" BY <1>0, <2>1
    <3>4. Within(n, a + 1) BY <1>b, WithinLater
    <3>5. \A q \in Requests : stage'[q] = "grow" => Within(Quartered(held[q]), a + 1)
      BY <1>b, <1>c, <3>3, WithinLater
    <3>6. a + 1 \in Nat OBVIOUS
    <3> QED BY <1>a, <2>1, <3>2, <3>4, <3>5, <3>6 DEF GrowthInv, Within, CountsInv
  <2> QED BY <2>1, <2>2, <2>3
<1>5. CASE Extend(r)
  <2>1. stage[r] = "miss" /\ stage' = [stage EXCEPT ![r] = "grow"]
        /\ cached_ids' = n + Catalogue /\ held' = [held EXCEPT ![r] = n + Catalogue]
        /\ misses' = misses
    BY <1>5, <1>a DEF Extend
  <2>2. Count("miss")' = Count("miss") - 1 /\ Count("miss") \in Nat
    BY <1>0, <2>1, CountsMove DEF Phases
  <2>3. Added' = a + 1 BY <1>a, <2>1, <2>2 DEF Added, ListTypes
  <2>4. Within(n + Catalogue, a + 1) /\ Within(Quartered(n + Catalogue), a + 1)
    BY <1>b, WithinExtended
  <2>5. \A q \in Requests : stage'[q] = "grow" => Within(Quartered(held'[q]), a + 1)
    <3> TAKE q \in Requests
    <3>1. CASE q = r
      <4>1. held'[q] = n + Catalogue BY <1>0, <2>1, <3>1
      <4> QED BY <2>4, <4>1
    <3>2. CASE q # r
      <4>1. held'[q] = held[q] /\ (stage'[q] = "grow" => stage[q] = "grow")
        BY <1>0, <2>1, <3>2
      <4> QED BY <1>b, <1>c, <4>1, WithinLater
    <3> QED BY <3>1, <3>2
  <2>6. a + 1 \in Nat OBVIOUS
  <2> QED BY <2>1, <2>3, <2>4, <2>5, <2>6 DEF GrowthInv, Within, CountsInv
<1>6. CASE Grow(r)
  <2>1. stage[r] = "grow" /\ stage' = [stage EXCEPT ![r] = "answered"]
        /\ cached_ids' = Quartered(held[r]) /\ held' = [held EXCEPT ![r] = 0]
        /\ misses' = misses
    BY <1>6 DEF Grow, Answer
  <2>2. Count("miss")' = Count("miss") BY <1>0, <2>1, CountsMove DEF Phases
  <2>3. Added' = a BY <1>a, <2>1, <2>2 DEF Added
  <2>4. Within(Quartered(held[r]), a) BY <1>b, <2>1
  <2>5. \A q \in Requests : stage'[q] = "grow" => Within(Quartered(held'[q]), a)
    <3> TAKE q \in Requests
    <3> HAVE stage'[q] = "grow"
    <3>1. q # r BY <1>0, <2>1
    <3>2. held'[q] = held[q] /\ stage[q] = "grow" BY <1>0, <2>1, <3>1
    <3> QED BY <1>b, <3>2
  <2> QED BY <2>1, <2>3, <2>4, <2>5 DEF GrowthInv, Within, CountsInv
<1> QED BY <1>1, <1>2, <1>3, <1>4, <1>5, <1>6 DEF Recommend

\* The list is empty at first.
LEMMA GrowthInit == ASSUME PageInit PROVE GrowthInv /\ CountsInv
<1>1. Those("miss") = {} BY DEF PageInit, ListInit, Those
<1>2. Count("miss") = 0 BY <1>1, FS_EmptySet DEF Count
<1>3. Added = 0 BY <1>2 DEF PageInit, ListInit, Added
<1>4. Within(0, 0) BY SequentiallyAt DEF Within
<1>5. cached_ids = 0 /\ \A r \in Requests : stage[r] # "grow" BY DEF PageInit, ListInit
<1> QED BY <1>3, <1>4, <1>5 DEF GrowthInv, CountsInv

\* Every step keeps the lists within what the misses done allow.
LEMMA GrowthNext ==
  ASSUME ListTypes, CountsInv, GrowthInv, [PageNext]_pageVars
  PROVE  GrowthInv' /\ CountsInv'
<1>1. CASE UNCHANGED listVars
  BY <1>1 DEF listVars, GrowthInv, CountsInv, Within, Added, Count, Those
<1>2. ASSUME NEW r \in Requests,
             OpenRecommendations(r) \/ Settle(r) \/ Retry(r)
      PROVE  GrowthInv' /\ CountsInv'
  <2>1. PICK to \in {"asked", "idle"} : stage' = [stage EXCEPT ![r] = to]
    BY <1>2 DEF OpenRecommendations, AskRecommendations, Settle, Retry
  <2>2. stage[r] \in {"idle", "answered", "failed"} /\ UNCHANGED <<cached_ids, misses, held>>
    BY <1>2 DEF OpenRecommendations, AskRecommendations, Settle, Retry
  <2> QED BY <2>1, <2>2, GrowthStays DEF Phases
<1>3. ASSUME NEW r \in Requests, ServiceRecommends(r) PROVE GrowthInv' /\ CountsInv'
  BY <1>3, GrowthRecommend DEF ServiceRecommends
<1> QED
  BY <1>1, <1>2, <1>3, OneThreadEach
  DEF PageNext, pageVars, OpenAds, ServiceSwitches

\* The list the recommendation service keeps is no longer than as many misses make
\* it one after the other, for any catalogue, requests and overlap of their misses
\* (recommendation_server.py: cached_ids).
THEOREM ListStaysSlow == PageSpec => []ListGrowsSlowly
<1>1. ListTypes /\ CountsInv /\ GrowthInv => ListGrowsSlowly
  <2> SUFFICES ASSUME ListTypes, CountsInv, GrowthInv PROVE ListGrowsSlowly OBVIOUS
  <2>1. PICK a \in Nat, n \in Nat, all \in Nat :
          a = Added /\ n = cached_ids /\ all = misses /\ a <= all
    BY CountsAre
  <2>2. PICK v \in Nat, w \in Nat : v = Sequentially[a] /\ w = Sequentially[all]
    BY SequentiallyAt
  <2>3. n <= v BY <2>1, <2>2 DEF GrowthInv, Within
  <2>4. v <= w BY <2>1, <2>2, MoreIsLonger
  <2> QED BY <2>1, <2>2, <2>3, <2>4 DEF ListGrowsSlowly
<1>2. PageSpec => []ListTypes
  <2>1. OffersInv => ListTypes BY DEF OffersInv
  <2> QED BY <2>1, OffersInit, OffersNext, PTL DEF PageSpec
<1> QED BY <1>1, <1>2, GrowthInit, GrowthNext, PTL DEF PageSpec
=============================================================================
