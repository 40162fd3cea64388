# Verification of the demo shop

TLA+ models, TLC runs and TLAPS proofs for the microservice shop under
`ultimate-devops-project-demo/src/`: a web shop of some twenty services in a
dozen languages, talking gRPC, HTTP and Kafka. Paths below are relative to that
directory unless they start with `pb/` or `kubernetes/`.

Contents: 1 the system, 2 what is hard about it, 3 the modules, 4 the runs,
5 fairness, 6 the proofs, 7 what the code does otherwise than it says,
8 what is not modelled, 9 what could follow, 10 how to run everything.

## 1. The system

| component | state it keeps | operations | talks to |
|---|---|---|---|
| checkout (`checkout/main.go`) | none between requests; one goroutine per order; one shared Kafka producer | `PlaceOrder` | cart, product-catalog, currency, shipping, payment, email, Kafka, flagd |
| money (`checkout/money/money.go`) | none | `Sum`, `MultiplySlow`, `Negate`, predicates | used by checkout |
| order producer (`checkout/kafka/producer.go`, `sendToPostProcessor`) | the producer's channels, shared by all orders; a goroutine draining errors | hand over, wait for the outcome, overload the queue | Kafka |
| cart (`cart/src`) | one hash per user in Valkey, 60 minutes to live; a connection and a flag | `AddItem`, `GetCart`, `EmptyCart`, reconnect | Valkey, flagd |
| payment (`payment/charge.js`) | counters | `Charge` | flagd |
| shipping (`shipping/src`) | none | `GetQuote`, `ShipOrder` | quote |
| quote (`quote/app`) | none | `POST /getquote` | - |
| currency (`currency/src/server.cpp`) | a map of rates, inserted into by lookups | `GetSupportedCurrencies`, `Convert` | - |
| email (`email/email_server.rb`) | none | `POST /send_order_confirmation` | - |
| accounting (`accounting/Consumer.cs`) | its position in the `orders` topic | consume | Kafka |
| fraud-detection (`.../frauddetection/main.kt`) | its position in the topic, a count | poll and fold | Kafka, flagd |
| product-catalog (`product-catalog/main.go`) | the catalogue, read at start | list, get, search | flagd |
| recommendation (`recommendation/recommendation_server.py`) | a list of product ids shared by the threads | `ListRecommendations` | product-catalog, flagd |
| ad (`ad/src/main/java`) | ads; a CPU load generator and a GC trigger switched by flags | `GetAds` | flagd |
| flagd-ui (`flagd-ui`) | the flag file | load, edit, save | flagd's file |
| frontend (`frontend`), react-native-app | the session, a client-side cart cache | pages and `/api` routes | all of the above |

An order runs through almost all of them. The storefront asks checkout to place
it; checkout reads the shopper's cart, looks up and converts the price of each
line, asks shipping for a quote, adds everything up, charges the card, ships the
parcel, empties the cart, mails a confirmation and gives the order to a Kafka
producer; accounting and fraud-detection read it from the topic. All calls are
synchronous except the last: the topic is the only buffer between services. The
cart in Valkey is the only state two services change: checkout empties it while
the storefront fills it. Feature flags, served by flagd from a file that
flagd-ui edits, are read in the middle of operations to make them fail or slow.

## 2. What is hard about it

* **A saga without compensation.** `PlaceOrder` makes seven kinds of calls and
  undoes nothing. What matters is what an order may have cost and sent when it
  ends in each possible way - including when a call that was reported as failed
  is executed after all, and when the process dies (`money.Must` panics).
  *Correct means:* paid at most once, sent at most once, sent only after it was
  paid, with what it was paid for, and every answer is true for ever.
* **Read - modify - write of a cart** by concurrent calls, one Valkey command at
  a time, the expiry being a command of its own. *Correct means:* a lost update
  loses whole additions and never mixes carts; whatever remains adds up; a cart
  that never expires can only be left by a failure.
* **The two together.** The cart an order empties is not the cart it read.
  *Correct means:* nothing leaves a cart unsold on behalf of an order that did
  not ship, and what was sold does not come back, except by an `AddItem` that was
  under way.
* **Money.** Units and nanos with matching signs, carries and borrows, a product
  by repeated addition, `uint32(quantity)`. *Correct means:* exact to the nano,
  and no panic.
* **Three kinds of receivers on two channels.** Handlers, overload goroutines and
  the error logger receive from the shared producer whatever comes next.
  *Correct means:* nobody waits for ever.
* **Offsets.** One consumer stores an offset before it processes, the other
  commits when it polls again; both are killed, one is evicted, and a record may
  not parse. *Correct means:* no order is passed over without a cause, and each
  cause costs so many; none holds up those after it for ever.
* **Reconnecting.** One flag says whether the cart service has a connection; all
  calls and the event handlers of every connection ever made set it. *Correct
  means:* no storm of connections, no use of an unready one without a failure,
  nobody waits for ever.
* **A copy of the cart in the browser.** Clicks, fetches and orders overlap, are
  answered in any order, late or not at all, and every mutation invalidates what
  is shown. *Correct means:* a page that waits for nothing shows the cart; "Your
  order is complete!" is true; what a page knows to be sold is not sold again.
* **One file, many editors.** flagd-ui reads, changes and overwrites all flags at
  once; a write empties the file first. *Correct means:* a page at rest shows the
  file, a hint about unsaved changes is true, a damaged file has a known cause,
  and the page does not stay covered.
* **Prices through doubles.** A quote and each price pass two or three services
  that compute with doubles, unsigned counts and saturating casts. *Correct
  means:* what is charged is what was shown, up to what the arithmetic may cost.
* **A table, a list and a switch without a lock** in the currency, the
  recommendation and the ad service. *Correct means:* the damage of overlapping
  requests is bounded, named, and - for the load - undone.
* **Messages with defaults.** What is at its default does not travel, undefined
  fields are written as zeros, and a number that is too large throws while an
  answer is read. *Correct means:* what is read is what was meant.

`PROJECT.json` lists the hazards at their lines with the properties that cover them.
Three more that no property is about: `IsPositive` is true of some amounts that are
not valid, as `||` binds weaker than `&&` (money.go:39; `PositiveMostlyValid` says
exactly when); the test of a new connection writes the key "cart", where the cart of
a user of that name would be (ValkeyCartStore.cs:102); and the delay of
`GarbageCollectionTrigger` (section 8).

## 3. The modules

Notation: an operator `X_Something` marked *Mutant* directly above a definition
`X` is `X` with one plausible bug. Nothing uses it; it records which bug each
property notices.

### `Checkout` - `PlaceOrder` and the services it calls

| model | code |
|---|---|
| `pc[r]`, one action per call: `GetUserCart`, `PrepareOrder`, `Charge`, `Ship`, `EmptyCart`, `Email`, `Publish` | `PlaceOrder` (main.go:242-327), in its order; an error returns `Internal` or `Unavailable`, or is ignored (`EmptyCart`, `Email`), as there |
| `snap[r]` | `prep.cartItems`, read once |
| `Succeeds` / `Errs` | a unary call that is answered / that returns an error to the handler |
| `inFlight`, `Deliver` | calls whose caller stopped waiting; each is executed later or never |
| `gone[r]` | the request's context is cancelled; the client sends nothing more |
| `charges`, `parcels`, `emails`, `handed` | what payment, shipping, email and the producer did: one entry per executed call, as none of them recognises a repeated call |
| `AddItem`, `StoreItem`, `ClearCart` | the storefront's calls on the same cart, meanwhile |
| `Crash` | a panic, or the end of the container: all handlers at once |

A *unit* of merchandise stands for what one `AddItem` call adds, so a cart is a
set and "sold twice" means "in two charges". Lines and quantities are the matter
of `CartStore`, amounts that of `OrderTotal`.

`OrderContract` is the abstract specification: three variables, five actions,
nothing about calls. `Checkout` is shown to implement it (`ContractKept`) with
`paid <- charges, sent <- parcels, answer <- result`.

### `CartContract` - the link between checkout and cart

What checkout needs of the cart service, as a specification of its own.
`CartStore` implements it (`ContractKept` there), and the carts inside `Checkout`
behave as it says (`CartsKept`): the model of checkout assumes nothing about
carts that the model of the cart service does not deliver.

### `CartStore` - the cart service

One action per Valkey command of `AddItemAsync`, `GetCartAsync` and
`EmptyCartAsync` (`GetHash`, `SetHash`, `SetExpiry`), each of which may `Fail`
with or without having been executed; `Lose` is expiry and the loss of the
server. Carts have lines with int32 quantities that wrap (`Wrap`), and the ghost
field `units`, the calls whose item is in the cart. The user id in a stored cart
is kept, because the code does not always store one.

### `CartConnection` - how the cart service keeps its connection

| model | code |
|---|---|
| `Begin`, `Enter` | `EnsureRedisConnected` (ValkeyCartStore.cs:72-120): the flag read without the lock, and again with it |
| `Connect`, `Test`, `Throw` | `ConnectionMultiplexer.Connect`, which with `abortConnect=false` also returns unconnected; the `IsConnected` check and the small test, or an exception |
| `HandleRestored`, `HandleFailed`, `Open` | the two handlers and the flag, one statement after the other |
| `Handle` | a handler that runs: it sets the flag, whichever connection it belongs to |
| `Break`, `Restore`, `Raise` | the client library: links fail and come back, events are handled late and in any order |

`current` numbers the connections; older ones are never disposed and stay in
`up`, `onRestored`, `onFailed` and `events`. The `fault` of an event only tells
the events of different failures apart. Everything between two calls to
EnsureRedisConnected is the action `Use`; what it does is in `CartStore`, where a
call without a connection is a call that fails.

### `Money`, `OrderTotal`, `Pricing`, `PricedOrder` - what is charged

`Money` has each function of `money.go` as an operator over records of units and
nanos, with `NanosMod` for 10^9. `OrderTotal` is the loop of `PlaceOrder` and the
loop of `MultiplySlow`, one addition per step; `pc = "panic"` is `Must`. The ghost
`due` is what the order is worth in nanos, `whole` says that every amount so far
was zero or at least one unit.

`Pricing` is where amounts come from:

| model | code |
|---|---|
| `ItemCount`, `GetQuote` | the u32 sum of the quantities (shipping_service.rs:65); the request may fail |
| `calculateQuote` | a random price per item in tenths, times the items (quote/app/routes.php:28) |
| `create_quote_from_float`, `CentsOf` | the floor, and the cents by way of a saturating i32 (quote.rs:73) |
| `getDouble`, `Loops`, `Truncated`, `Converted` | the digits of nanos read as decimals without their leading zeros, as many as the loop counts; `getUnitsAndNanos` (server.cpp:144-165) |
| `table`, `RatesOf` | `currency_conversion`, as a set of entries of a code and a rate; of two entries of one code either may be found |
| `LookupFrom`, `LookupTo`, `Insert` | `currency_conversion[code]`, which inserts the rate 0 for a code it misses. A lookup that overlaps an insertion may miss a code that is there, and so add a second entry for it, for all later lookups; insertions that overlap may lose any entries |

A double is the value it stands for, give or take one part in `Precision`: a
conversion rounds a few times, by 2^-53 each, so 2^50 is on the safe side. Where
the code truncates one, the model chooses between the whole numbers it can come
to (`Truncated`) - more than one nano apart for large amounts, such as the dearest
product in rupiah - or, for cents, falls short. The ghosts `raced` and `torn` tell
the calls that looked up after two threads met in the table; a restart makes a new
one. What a data race may do to the process beyond that - a crash - is `Restart`,
which fails the calls under way.

`PricedOrder` composes `Pricing` with `OrderTotal` as `PlaceOrder` does: the price
of each line, the quote, its conversion, and then the addition, whose inputs are
no longer arbitrary but what the services answered. Other clients convert
amounts meanwhile, in unlisted currencies too. An order that got an amount that is
no number goes no further.

### `PostProcessor` - handing orders to Kafka

The nested `select` of `sendToPostProcessor`, the goroutine of
`CreateKafkaProducer`, the overload goroutines of `kafkaQueueProblems`, and
sarama's asynchronous producer as an external component: a bounded queue, and
two unbuffered channels with at most one outcome on offer each (`offer`).
`drained` counts outcomes the error logger took, `walked` handlers that left
without theirs; the ghosts `sent` and `asked` are how often each message was handed
to the producer, and what its handler read from the flag. `Checkout` abstracts all this to its action `Publish`.

### `OrderConsumers` - accounting and fraud-detection

Both consume the same topic, of `end` records, of which those in `broken` do not
parse. accounting: `Consume` (which stores the offset), `ProcessMessage` (which
catches what the parser throws, logs an error and goes on), the commit timer,
kills. fraud-detection: `Poll` (which commits the position reached so far), `Fold`
one record, with a second's sleep under `kafkaQueueProblems`, eviction after
`Patience` sleeps, `Rejoin`, kills; and `ParseFails`: the exception leaves the fold
and the loop (main.kt:64), `use` closes the consumer, and the close commits the
position the client has, which is the end of the batch (`skipped` are the records it
so passes over) unless the client was put out of its group. The process ends with
the exception, and its container starts it again. A group without a committed
offset starts at the beginning for accounting (`AutoOffsetReset.Earliest`) and at
the end for fraud-detection (the default).

### `Storefront` - a tab of the web shop

| model | code |
|---|---|
| `onSelectCurrency`, the clicks, `page` | pages/product, components/Cart, CartDropdown: the clicks, and where they lead |
| `data`, `fetch`, `invalidate`, `refetch` | the react-query cache of Cart.provider.tsx, one entry per currency; an invalidation restarts a fetch, except the first one |
| `at`, the route actions | /api/cart and /api/checkout: what they call, in order, and the errors they answer |
| `heard` | what `request` makes of an answer (Request.ts): an error is a text that is no JSON, so `onSuccess` is skipped |
| `events` | bounds clicks, errors, late calls and changes from elsewhere |

The services behind the routes are `CartContract` and `OrderContract`, by
`INSTANCE`: the tab is checked against what the other modules are shown to
deliver, and against nothing more. The ghost `behind` marks what is shown but will
not be looked at again; `revived` the units an overtaken addition put back.

### `FlagEditor` - flagd-ui

The two views (`BasicView.tsx`, `AdvancedView.tsx`), their reads and saves, the
links between them, the spinner, and the two routes. A write is two steps, as
`writeFile` empties a file before it stores the text; a crash or a full disk may
come between them, and another write. A configuration is a model value with a
length: all that matters of two texts is whether they are equal and which is
longer. `Elsewhere` is another tab or a text editor.

### `Message`, `Wire` - the generated messages

A message type is a function from field names to number, kind and multiplicity
(the table of `demo.ts`), and the six operators the generator writes for each of
its 33 types are defined once over that table, in `Message`. For a field that
holds a message they call the code of the inner type, as the generated code does:
the inner code is a parameter (`InnerEncode`, `InnerDecode`, ...), and `Wire`
instantiates `Message` four times, each level on top of the one below - messages
of demo.proto nest three deep (a `PlaceOrderResponse` holds an order, which holds
items, which hold money). So no operator is recursive, and the code of one level
can be reasoned about by what the level below promises.

`Wire` has the types, the services and the travel of a message. One behaviour is
one half of one call: an object is written and read; the service's library may
reorder fields, spell out defaults and send fields of a newer schema (at the top
level of a response); a response goes through JSON and back. Texts are sequences
of letters; UTF-8, varints and base64 are left to the library. Numbers are taken
to fit the width of their field; what is beyond `MaxSafe` is the long that
JavaScript cannot hold, which is the width that matters here.

### `CPULoad`, `Recommendation`, `ProductPage` - beside a product

`CPULoad` has the singleton, the switch and the workers of the ad service's load
generator statement by statement, `Recommendation` the list that the
recommendation service's threads share under the cache-leak flag. `ProductPage`
composes them as Ad.provider.tsx does: each page asks both at the same time, and
again after a failure. A list of ids is told by its length, since each that is not
empty begins with the whole catalogue; a list is read and assigned where CPython
can switch threads. Whether a flag is on is a choice at each evaluation.

### Who uses whom

```
                      Storefront
             uses |               | uses
            OrderContract     CartContract
                 ^ implements   ^       ^ implements
                 +-- Checkout --+       +---- CartStore (CartConnection
                      |       \ carts as assumed        below it)
     amounts abstracted      Publish abstracted
                      |             |
             PricedOrder        PostProcessor --(topic)--> OrderConsumers
             |         |
      OrderTotal    Pricing           ProductPage
             |         |              |         |
             +- Money -+        CPULoad    Recommendation

      FlagEditor (the flags all services read)    Wire (what travels)
                                                    |
                                       Message, level on level
```

## 4. The runs

| run | instance | checks | shows |
|---|---|---|---|
| `checkout_one` | one shopper, two orders, two units, Kafka on | `TypeOK LedgersAgree WordsAreTrue NoResale ContractKept CartsKept` | two orders that race on one cart, with additions, late and lost calls, cancellation and crashes |
| `checkout_live` | two shoppers, an order each, no Kafka, fair | `CartEmptiedForShipped EveryOrderSettles` | an order touches no other shopper's cart, and every order ends |
| `priced_order` | one order of up to two lines, another client; three decimals | `ChargedExactly PanicsOnlyOnFractions ConvertsClosely ChargedAsShown` | from catalogue and quote to the charge: the sum is exact, the amounts summed are off by what each property says |
| `publish` | three orders, one buffered message, one copy each, fair | `OutcomesBalance OnlyWhatWasSent ReturnsWhileBalanced` | when exactly handlers can hang, and that nothing comes of a message more often than it was sent |
| `publish_drained` | two orders, errors, no cancellation, fair | violates `EveryOrderReturns` | section 7 |
| `cart_race` | two users, two products, three calls of any kind | `CartsWellFormed LinesAddUp OnlyFailuresStay ContractKept` | all mixes of three concurrent calls |
| `cart_connection` | three threads, three failures, fair | `OneConnectionPerFault UntestedTakesFaults EveryCallReturns` | late handlers of old connections confuse the flag, but only so far |
| `consumers` | three records of which any may not parse, a kill, two records a poll, patience 1 | `EveryOrderAccounted NothingSkipped EveryOrderLogged EveryOrderScreened` | what a kill and a record that does not parse cost each service, and that neither stops it for ever |
| `storefront` | two units (one left from an earlier visit), two submits, one "Empty Cart", two currencies, three events, fair | `ShownIsTheCart CompleteMeansSent NoSecondSale Converges` | clicks, fetches and orders in any order, with errors and lost answers |
| `flags` | two configurations, two saves, three events | `QuietPageIsCurrent HintIsHonest FileIsExplained SpinnerHasReason` | one tab and everybody else on one file |
| `wire` | every call of the API; each field of its messages once at each telling value | `ReadAsMeant UnreadableIsUnsafe` | each type is read as it is written, by either side |
| `product_page` | two pages, four products, two cache misses, fair | `LoadIsBounded ListGrowsSlowly OffersOthers LoadEnds` | what overlapping requests can make of an unlocked switch and list |

A property that joins two others (`LedgersAgree`, `WordsAreTrue`, `CartsWellFormed`,
`OnlyWhatWasSent`, `FileIsExplained`) names its parts, each stated above it. Type
invariants are proved for every value of the constants (section 6), so only the
core's is checked as well.

Why the bounds are enough for what is asked:

* *Two orders, two units.* Two orders interfere only through the cart of one
  shopper (`checkout_one`) or not at all (`checkout_live`); one unit is the thing
  sold, the other the thing added meanwhile. Each request is one `PlaceOrder` call
  and a resubmission is another request. The proofs cover any number.
* *Three cart calls.* A lost update needs two additions, a third call can read,
  empty or add in between; two users make mixing visible. `IntHalf = 3` makes two
  additions overflow.
* *Three decimals, a price with a leading zero and one of whole units, and a
  precision of 2000*: two dollars are four thousand nanos here by the time they are
  converted, so the double of the larger price may be off by more than one nano and
  that of the smaller may not, as in the code. `WordMod = U32Mod = 4` lets -1 wrap
  to three additions and a cart of 3 and 1 be quoted for none; `MaxInt32 = 137`
  makes the larger quotes saturate; a line of 0, one of -1 and one of 2 are the
  others. The other client converts the smaller price between all codes, the
  unlisted one too, between any two steps of the order, so that the table is
  damaged before, during and after its lookups.
* *Three orders, Capacity 1.* The bound of `ReturnsWhileBalanced` is tight:
  `Capacity` handlers that leave strand as many outcomes and stop nobody, one more
  stops the producer. Capacity 1 needs three handlers for both sides.
* *Three failures.* One is the least that makes a call use a connection that is not
  ready, and two are after the call that opens it is done (both bounds of
  `UntestedTakesFaults` are tight: the run fails with either raised), a third
  happens after that; three threads are one that holds the lock, one that waits and
  one that uses.
* *Three records in the topic*, a batch of two, one sleep of patience and one kill:
  a batch can be too long, just right, or interrupted, with an order before and
  behind it; a record that does not parse can be first or last in it. The two
  services share nothing but the topic, so the one kill, of either, meets every
  state of each; the theorems have any number.
* *Two submits, two units, three events*: the second submit is the one that could
  sell twice; a unit in the cart and one added meanwhile tell "sold" from "left";
  three events are an error, a late answer and a change elsewhere.
* *Two configurations and two saves*: one text longer than the other, and two
  writes that overlap; three events are an edit, a page opened and a failure, or
  an edit before and after a save.
* *One telling value at a time* (`wire`): the code of a field does not look at
  another field, so a field that is undefined, at its default, negative or too
  large can only go wrong by itself; `MaxSafe = 9` stands for 2^53 - 1.
* *Two pages* (`product_page`) make the least overlap; the bound of
  `LoadIsBounded` is tight for two threads (three sets of workers), and that of
  `ListGrowsSlowly` is what two misses one after the other make (eleven ids of four
  products); two that overlap are all it takes to break it (twelve, `Grow_Rereads`).

`CHECK_DEADLOCK FALSE` stands where everything that the instance can do comes to
an end (requests are made once); `OrderConsumers`, `CartConnection` and
`ProductPage` are checked for deadlock.

Symmetry is used for units, calls and products in runs without liveness only.

## 5. Fairness

* `Checkout`: `WF(CallReturns(r))` - each call a handler waits for ends, with an
  answer *or an error*; grpc-go and net/http end calls when the connection breaks,
  and nothing else is assumed: not that calls succeed, nor that late calls arrive,
  nor anything of `Publish`, which really may wait for ever. `EveryOrderSettles`
  therefore ends at `publish`.
* `PostProcessor`: a goroutine whose channel is ready proceeds - each on its own,
  since the Go scheduler runs them independently - and the producer settles what
  it has accepted as soon as the previous outcome of that kind was received.
  Entering, cancelling and crashing are not fair.
* `OrderConsumers`: the loops of both services run (`while` loops that only an
  exception ends, after which the container is started again), and while there are
  records `poll` returns some at last. The commit timer, the flag and kills are not
  fair; kills are bounded by `MaxKills`.
* `CartConnection`: a thread runs (`WF` of `Establish` and `Use`), and one that
  waits for the lock gets it if it stays free - weak fairness: a monitor promises
  no turn. Commands end because the client library gives them a timeout. Handlers
  and the restoring of links are not fair. Failures are finite in number.
* `Storefront`: fetches end, because the browser gives a fetch an answer or an
  error. Nothing is assumed of the shopper or of the routes - a click may never be
  answered; `Converges` therefore asks that the shopper keeps coming back to the
  tab, which fetches the cart again.
* `ProductPage`: the threads of the ad service run, and there are always visitors
  (the load generator is one). `LoadEnds` asks that no request finds the flag on
  from some time on.
* `CartStore`, `OrderTotal`, `PricedOrder`, `FlagEditor`, `Wire`: safety only, no
  fairness. (That the spinner of the editor goes away follows from
  `SpinnerHasReason` if calls end.)

## 6. The proofs

All theorems hold for every value of the constants that satisfies the named
`ASSUME`s: finite `Orders`, positive moduli, quantities that are int32, names of
pages that are no orders. Those of `Pricing` say what the code and its data say:
the catalogue has no negative prices and no more nanos than a unit
(`CatalogueAssumption`), `NanosMod` is a power of ten (`DigitsAssumption`), rates
are positive (`RatesAssumption`; they are decimals in the table and integers here,
as only their ratios matter and one factor makes all of them whole), a quote is made
per item (`QuotesAssumption`), and a cart is a list of quantities
(`CartsAssumption`).

| module | theorems | inductive invariant, and why it is needed |
|---|---|---|
| `CheckoutProofs` | `TypeCorrect`, `LedgersMatch`, `WordsBorneOut`, `SettledCartsStay`, `CartsSafe`, `ImplementsContract`, `AssumesCartContract` | `IInv`: for each place a handler can be at, and *for each call that may be in flight*, what payment and shipping have done (`EarlyOrder` ... `LateAfter`). A late charge is harmless only because its order was answered `Internal` or lost and nothing was shipped - this is the strengthening. `CartsInv`: units of running additions are new, so only an overtaken addition can bring back what was sold. |
| `CartProofs`: the store | `TypeCorrect`, `CartsSound`, `StayExplained`, `NamesExplained`, `CartsStayWellFormed`, `LinesAlwaysAddUp`, `ImplementsCartContract` | `IInv`: not only the stored carts but every cart a call *holds* has one line per product (`AllSound`), because it will be written back; `StoredCalls`: what is stored was stored by a call past its write. `Names`: the same for the user's name (`HeldNamed`). `CartsAddUp`: stored and held carts alike have lines that are the sums of the calls in them; that adding to what was wrapped and wrapping again is wrapping the sum (`WrapAdds`) lets a call add to what overflowed before. |
| - its connection | `ConnectionTypeCorrect`, `ConnectionsBounded`, `UntestedIsRare` | `ConnectionInv` keeps books: each connection, each failure event not yet handled and the right to open one more (`Credit`) are paid for by one fault each (`Books`). That a late event of an old failure can open at most one connection is only visible if the event itself is counted. `HandlersInv` says whose handlers are set at each place under the lock, `QuietInv` that the flag is down while a connection is opened as long as nothing failed. |
| `PricedOrderProofs`: the amounts | `SumIsExact`, `SumMostlyValid`, `NegationCancels`, `PositiveMostlyValid` | no state: laws of the operators of `Money`, with the exact condition where a law fails. |
| - the total | `TypeCorrect`, `ChargeIsExact`, `WholeAmountsNeverPanic` | of `OrderTotal`'s `Spec`, whose prices are arbitrary. `BooksInv`: at each step total plus what the multiplication in progress still adds is what is due. `WholeInv`: whole amounts are closed under `Sum` (`GoodSum`). |
| - with the services | `PricedIsOrderTotal`, `PricedChargeIsExact`, `PricedPanicsOnlyOnFractions`, `PricedConvertsClosely`, `PricedChargedAsShown` | of `PricedSpec`, which implements `Spec`, so that the theorems on the total carry over. `CallsInv`: until threads meet in the table, insertions are only of codes it lacks, and the rates stay; after that an entry has its listed rate or 0, whatever was lost (`RatesKept`); so a call has read the rates, or 0 and is `torn`. That a truncated double is close in both directions (`TruncatedClosely`) survives the sum over items and lines because `Close` is linear (`ManyClose`, `SumsClose`). `OrderCallsInv` ties each line and the quote to its call. `SumInv`: what is due is the quote and the lines so far *at the prices answered* - without it the charge is exact, but of amounts nobody relates to what was shown. |
| `OrderEventsProofs`: the producer | `TypeCorrect`, `BooksBalance`, `TopicIsHonest`, `OutcomesAreSentOnes`, `NothingUnsent` | `Sound`: a message is sent once before its copies, and copies sent and to come are what the flag said (`SentForTheFlag`); of each message what is queued, stored, offered and taken never exceeds what was handed over, counted by `sent` (`WithinSent`) - the log alone is not inductive, as it grows from the queue. |
| - the consumers | `ConsumersTypeCorrect`, `OrdersAccounted`, `NoOrderSkipped` | `AccountingInv`: commits never pass what was consumed, and all consumed is logged, refused, dropped or in hand. `FraudInv`: what is below a saved offset was screened or a close has skipped it (`SavedInv`), so resuming there skips nothing; and a batch is no longer than `MaxPoll`, which bounds what a close can pass over. |
| `FlagEditorProofs` | `TypeCorrect`, `SpinnerExplained`, `NullExplained`, `DamageExplained`, `FileExplained`, `QuietIsCurrent`, `HintTells` | `NullTraced`: null is traced through every place it can wait in - a page, a save, a file - back to a page that had read nothing. `WholeUnlessDamaged`: without damage the size of the file is that of the text written last, save between the two steps of a write. `Current`: a page that does not show the file has a read or a save coming (`Coming`), and what was served since the last change is the file (`FreshReads`). `HintTold` lists the four ways a hint can be true, one of which is a save on its way (`SavesText`). |
| `StorefrontProofs`: the tab | `TypeCorrect`, `IInvAlways`, `ShowsTheCart`, `CompleteIsSent`, `SoldOnce` | `OrdersTold`, `ClicksTold`: what checkout has done at each stage of an order's click, and that the page knows no more. `AdditionsNew`, `SoldIsGone`, `SoldIsNotRead`: what an order sold is neither in the cart nor read by an order that knew of it, but for what an overtaken addition put back. `FetchesTold`, `DataTold`: a cart that is shown or served, and out of date without being marked so, belongs to a page that still waits for the answer of the click that changed it (`Due`). |
| - beside a product | `LoadBounded`, `OthersOffered`, `ListStaysSlow` | of `ProductPage`'s `PageSpec`. `LoadFits`: the sets of workers that run and those that may still come (`ToCome`) fit a bound that shrinks with each request that has turned the switch off and not yet stopped the workers; the sets alone are not inductive, as two requests that found the switch off each add one later. `GrowthInv`: the shared list is bounded by what the misses that have added to it make one after the other (`Added`), and so is, *with its quarter*, each list a request holds, because that is what it will overwrite the shared one with. `OffersInv`: the list is not empty again. |
| `MessageProofs` | `Level`, `CarriedReads`, `ArrivingOf` | no state: the operators of `Message`, below. |
| `WireProofs` | `Invariant`, `ReadCorrect`, `UnreadableCorrect` | `IInv`: what travels are fields that carry the writer's object (`Travels`) - that the words decode to it is not inductive, as an edit looks into the words; that a response can be written at all (`Writer`), because it was filled in; and what toJSON made of what was read (`Reader`). |

The generated messages are proved about level by level, in `MessageProofs`. What
a level promises is `Faithful`: an object that can be written is written as
words that read as the object filled in, are unreadable exactly when a long in
it is unsafe, and what was filled in survives JSON; `Level` derives it for any
table of fields from the same promise of the inner code (`InnerFaithful`).
`WireProofs` applies it four times, from a level without messages on, and shows
that each type of demo.proto is one the levels have code for (`MethodTypes`).
Two lemmas carry the weight: `ArrivingOf`, that the reader's loop finds the
joints of what the writer joined - an induction over its turns, since the
position of a turn depends on the lengths read before - and `CarriedReads`, that
decode sees of the words only the fields of each tag in their order. The second
is why a library may reorder, spell out and extend: each liberty keeps `Carries`
(`SwapCarries`, `SpelledOutCarries`, `NewFieldCarries`), any number of times.
The theorems need nothing of `Objects` but that they are objects of their types
(`ObjectsAssumption`), so the samples of `wire` stand for all.

A refinement is proved in two steps: initial states map to initial states
(`ContractInit`), each step maps to a step or a stutter (`ContractStep`), by cases
on the actions of `Next`.

Sums over lines and calls are folds of the community modules; `Tens`, `Loops`
and `Sequentially` are recursive functions. The induction theorems of the library take
an operator as a parameter, which no installed prover can instantiate; so the
proofs state induction over sets: a set of numbers that holds 0 and the
successors of its members holds every number (`Induction`, from
`LeastOfFinite`), a set of subsets that is closed under one element more holds
every finite subset (`SubsetInduction`). `Climb` is the same for the turns of a
reader. `RecursExists`, `RecursUnique` and `SequentiallyAt` show from it that
recursive functions are defined, `SumOneMore` that a sum grows by what is added.

Model-checked only is everything under fairness (`EveryOrderSettles`,
`EveryCallReturns`, `ReturnsWhileBalanced`, `EveryOrderLogged`,
`EveryOrderScreened`, `Converges`, `LoadEnds`), which is out of the prover's
reach. Every invariant and every action property that a run checks is proved for
all values of the constants.

## 7. Where the code does otherwise than it says

* **The error logger steals outcomes** (`publish_drained`, checkout/main.go:521).
  Two receivers on `Errors()`: when the goroutine wins, the handler waits for ever
  unless its client has a deadline, after the card was charged.

Behaviour that no document denies, and that the models keep:

* An order that fails in shipping has been paid; two orders of one cart are both
  charged and shipped; an addition that reads the cart before an order empties it
  puts everything back.
* An order whose amounts are below one unit may charge an amount with mixed signs,
  or panic and take every order in the process with it (money.go:95, main.go:274):
  `WholeAmountsNeverPanic` says that amounts that are zero or at least one unit are
  safe, and the catalogue has no others.
* A price whose decimals begin with a zero is charged dearer by up to ninety
  cents: the flashlight shown at 57.08 costs 57.80 (server.cpp:149).
* A currency that somebody asked for once is listed from then on, and everything is
  free in it (server.cpp:199). If threads meet in the table at that moment, a listed
  currency may get the rate 0 as well: until the service is restarted, conversions
  to it are free and conversions from it are no amounts.
* A conversion into a currency of large amounts is right to the precision of a
  double only, several nanos for the dearest product in rupiah (server.cpp:159).
* A success that a handler logs may be another order's (main.go:514).
* `EmptyCart` stores a cart of nobody, and `AddItem` fills it without setting
  `UserId`, which cart/tests/CartServiceTests.cs:139 expects of a cart that was
  never emptied.
* While `kafkaQueueProblems` is on, a backlog larger than the poll interval allows
  makes fraud-detection read the same batch for ever.
* A record that does not parse costs accounting nothing but that record
  (Consumer.cs:67), and fraud-detection the rest of its batch, which the close on
  the way out commits unread (main.kt:54, 64).
* A kill costs accounting the order in its hand; a connection that breaks before
  its handlers are set is not noticed; a handler of a replaced connection that is
  restored makes calls use one whose replacement failed, or is not ready yet.
* The shopper is told of an error for an order that was placed, when a lookup after
  it fails or an amount is beyond 2^53 units; a second submit before the first is
  answered sells the same cart.
* A save of the flag editor undoes whatever others saved since the page read the
  file, and writes null when the page has read nothing.
* The CPU load of a singleton that another thread has replaced is never stopped;
  until the recommendation service's first answer from its list, other requests
  may be recommended nothing.

## 8. Not modelled, and why

* Telemetry, logging, health checks, configuration and start-up: they change
  nothing a property speaks of.
* product-catalog: a list that is only read, a constant of the modules that use it.
  load-generator: the environment of every model does more than it can. Proxy,
  dashboards, collectors, manifests: no program logic. `kubernetes/` contributes
  two facts, one replica of each consumer and containers that restart.
* The card checks of payment: they decide only whether a charge throws.
* The ad service's choice of ads and its garbage collections: they change nothing a
  later request sees. The delay of `GarbageCollectionTrigger` never applies, as each
  request makes a trigger of its own.
* Markup, forms and styles of the frontend: no state beyond what `Storefront` and
  `ProductPage` have. Speculative details of the browser's cache - garbage
  collection of unused entries, retries of fetches - are folded into "a fetch ends
  with an answer or an error".
* The screens of react-native-app: the same provider and gateway as the frontend's,
  but written for another version of react-query than the one it installs
  (providers/Cart.provider.tsx:45), so what they do is not determined by the source.
* Texts, UTF-8, varints: left to the library below `Wire`.
* Several brokers, partitions or consumers per group: the deployment has one of
  each.
* The bits of floating point: `Pricing` has values and the outcomes of a
  truncation, not the IEEE operations.

## 9. What could follow

* A composition of `PostProcessor` with `OrderConsumers` over one topic, and of
  `FlagEditor` with a service that reads the flag: both ends exist, and the
  properties that span them (an announced order is screened; a save reaches the
  services) need the second half of each model's state.
* `Checkout` with `CartStore` as a whole is not planned: the contract between them
  is checked and proved on both sides.

## 10. Running it

In this directory, `tlc -config X.cfg M` for each row of section 4 (the names of
module and configuration are in `PROJECT.json`), `tlapm M.tla` for the eight
proof modules. Each run takes from a second to two minutes, the proofs of a module
no more than a few.
