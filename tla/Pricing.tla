------------------------------- MODULE Pricing -------------------------------
(***************************************************************************)
(* What things cost: a shipping quote on its way from the quote service    *)
(* through the shipping service, and the currency service, which converts  *)
(* it and the prices of the catalogue.                                     *)
(*                                                                         *)
(* The services compute with doubles.  A double is modelled by the value   *)
(* it stands for, and a truncation of one by the whole numbers it may give *)
(* when the double is off that value by one part in Precision.             *)
(*                                                                         *)
(* The table of rates is shared by the threads of the currency service     *)
(* without a lock, and looking up a code it lacks inserts it.  A lookup    *)
(* that overlaps an insertion may miss a code that is there, and insert it *)
(* anew with the rate 0.                                                   *)
(***************************************************************************)
EXTENDS Money, Functions, TLC

CONSTANTS Calls,     \* requests: a conversion, or a quote and its conversion
          Digits,    \* 9 in the code: decimals of an amount
          Precision, \* some 2^50: a conversion's roundings, a few of 2^-53 each
          Catalogue, \* the prices that are converted
          Carts,     \* the quantities of the lines that are quoted
          PerItem,   \* rand(400, 1000), in tenths of a unit
          U32Mod,    \* 2^32: the items are counted in a u32
          MaxInt32,  \* 2^31 - 1: the cents are computed in an i32
          Rates,     \* the rates the table starts with, per euro
          Unlisted   \* codes clients ask for that it lacks

Codes == DOMAIN Rates \cup Unlisted

Tens[k \in Nat] == IF k = 0 THEN 1 ELSE 10 * Tens[k - 1]

ASSUME DigitsAssumption == Digits \in Nat /\ Digits >= 2 /\ NanosMod = Tens[Digits]
ASSUME PrecisionAssumption == Precision \in Nat \ {0}
ASSUME CatalogueAssumption ==
  \A price \in Catalogue : price.units \in Nat /\ price.nanos \in 0..(NanosMod - 1)
ASSUME QuotesAssumption ==
  PerItem \subseteq Nat /\ PerItem # {} /\ U32Mod \in Nat \ {0} /\ MaxInt32 \in Nat
ASSUME RatesAssumption ==
  "USD" \in DOMAIN Rates /\ Unlisted \cap DOMAIN Rates = {}
  /\ \A code \in DOMAIN Rates : Rates[code] \in Nat \ {0}

VARIABLES at,      \* where each call is
          count,   \* items it was quoted for
          quote,   \* what the quote service answered, in tenths
          cart,    \* the quantities quoted, or NoCart
          from,    \* the amount to convert
          to,      \* the currency to convert it to
          rate,    \* the rate of its currency
          answer,  \* the amount converted
          table,   \* currency_conversion: entries, a code and its rate each
          raced,   \* since the service started, a lookup overlapped an insertion
          torn     \* so it was at a lookup of the call

pricingVars == <<at, count, quote, cart, from, to, rate, answer, table, raced, torn>>

NoCart == << >>
NoAmount == Amount(0, 0, "none")

\* What (long) makes of an infinite or undefined double.
Garbage == Amount(0, 0, "garbage")

\* The table as the service starts with it.
Listed == {<<code, Rates[code]>> : code \in DOMAIN Rates}

PricingInit ==
  /\ at = [c \in Calls |-> "idle"]
  /\ count = [c \in Calls |-> 0] /\ quote = [c \in Calls |-> 0]
  /\ cart = [c \in Calls |-> NoCart]
  /\ from = [c \in Calls |-> NoAmount] /\ to = [c \in Calls |-> "USD"]
  /\ rate = [c \in Calls |-> 0] /\ answer = [c \in Calls |-> NoAmount]
  /\ table = Listed
  /\ raced = FALSE /\ torn = [c \in Calls |-> FALSE]

-----------------------------------------------------------------------------
(* The shipping cost: shipping asks quote.                                 *)

\* fold(0, |accum, item| accum + item.quantity as u32), which wraps in a release.
ItemCount(quantities) ==
  FoldFunction(LAMBDA q, sum : (sum + (q % U32Mod)) % U32Mod, 0, quantities)

GetQuote(c) ==
  /\ at[c] = "idle"
  /\ \E quantities \in Carts, code \in Codes :
       /\ cart' = [cart EXCEPT ![c] = quantities]
       /\ count' = [count EXCEPT ![c] = ItemCount(quantities)]
       /\ to' = [to EXCEPT ![c] = code]
  /\ at' = [at EXCEPT ![c] = "quote"]
  /\ UNCHANGED <<quote, from, rate, answer, table, raced, torn>>

\* round($costPerItem * $numberOfItems, 2), a multiple of a tenth.
calculateQuote(c) ==
  /\ at[c] = "quote"
  /\ \E costPerItem \in PerItem :
       quote' = [quote EXCEPT ![c] = costPerItem * count[c]]
  /\ at' = [at EXCEPT ![c] = "quoted"]
  /\ UNCHANGED <<count, cart, from, to, rate, answer, table, raced, torn>>

\* The quote service is down, or answers with what is no number.
QuoteFails(c) ==
  /\ at[c] = "quote"
  /\ at' = [at EXCEPT ![c] = "failed"]
  /\ UNCHANGED <<count, quote, cart, from, to, rate, answer, table, raced, torn>>

\* (value * 100) as i32, which saturates.  Only halves are exact as doubles: any
\* other tenth times a hundred may fall short of the whole number it stands for.
CentsOf(tenths) ==
  LET exact == 10 * tenths
      AsInt32(n) == IF n > MaxInt32 THEN MaxInt32 ELSE n
  IN {AsInt32(exact)} \cup (IF tenths % 5 = 0 THEN {} ELSE {AsInt32(exact - 1)})

\* The dollars are the floor; the cents are computed anew.
create_quote_from_float(tenths) ==
  {Amount(tenths \div 10, (cents % 100) * (NanosMod \div 100), "USD") :
     cents \in CentsOf(tenths)}

\* The quote becomes an amount, which the caller has converted.
Cost(c) ==
  /\ at[c] = "quoted"
  /\ \E amount \in create_quote_from_float(quote[c]) :
       from' = [from EXCEPT ![c] = amount]
  /\ at' = [at EXCEPT ![c] = "from"]
  /\ UNCHANGED <<count, quote, cart, to, rate, answer, table, raced, torn>>

-----------------------------------------------------------------------------
(* The currency service.                                                   *)

\* A price is to be converted, in a call of its own each time.
ConvertPrice(c) ==
  /\ at[c] \in {"idle", "answered", "failed"} /\ cart[c] = NoCart
  /\ \E price \in Catalogue, code \in Codes :
       /\ from' = [from EXCEPT ![c] = price]
       /\ to' = [to EXCEPT ![c] = code]
  /\ at' = [at EXCEPT ![c] = "from"]
  /\ rate' = [rate EXCEPT ![c] = 0] /\ answer' = [answer EXCEPT ![c] = NoAmount]
  /\ torn' = [torn EXCEPT ![c] = FALSE]
  /\ UNCHANGED <<count, quote, cart, table, raced>>

Inserting == {c \in Calls : at[c] \in {"insert from", "insert to"}}

\* The whole numbers that a double for n / d may be truncated to: it is off by one
\* part in Precision at most, so a nano or more once n / d is that many nanos.
Truncated(n, d) ==
  LET q == n \div d
      reach == n \div (d * Precision) + 1
  IN {k \in (q - reach)..(q + reach) :
        /\ k * d * Precision <= n * (Precision + 1)
        /\ (k + 1) * d * Precision > n * (Precision - 1)}

\* The loop takes a digit of nanos and divides by ten, once for each digit: so often.
Loops[n \in Nat] == IF n = 0 THEN 0 ELSE 1 + Loops[n \div 10]

\* In nanos.  A digit for each time the loop divides by ten: it reads nanos as the
\* decimals after the point, without their leading zeros.
getDouble(money) ==
  money.units * NanosMod + money.nanos * Tens[Digits - Loops[money.nanos]]

\* Mutant: the rates are applied the wrong way round.
Converted_Swapped(money, r, s, code) ==
  IF r = 0 THEN {Garbage}
  ELSE {Amount(worth \div NanosMod, worth % NanosMod, code) :
          worth \in IF s = 0 THEN {0} ELSE Truncated(getDouble(money) * r, s)}

\* getDouble(from) / rate * to_rate, as units and nanos.  Dividing by zero gives
\* an infinite or undefined double.
Converted(money, r, s, code) ==
  IF r = 0 THEN {Garbage}
  ELSE {Amount(worth \div NanosMod, worth % NanosMod, code) :
          worth \in Truncated(getDouble(money) * s, r)}

\* The rates a lookup may find for a code, none if it must miss.  Which of two
\* entries of one code comes first changes whenever the table grows.
RatesOf(code) == {entry[2] : entry \in {e \in table : e[1] = code}}

Overlapped(c) == Inserting \ {c} # {}

MayMiss(c, code) == RatesOf(code) = {} \/ Overlapped(c)

UseFrom(c, r) ==
  /\ rate' = [rate EXCEPT ![c] = r]
  /\ at' = [at EXCEPT ![c] = "to"]

UseTo(c, r) ==
  /\ \E amount \in Converted(from[c], rate[c], r, to[c]) :
       answer' = [answer EXCEPT ![c] = amount]
  /\ at' = [at EXCEPT ![c] = "answered"]

NoteOverlap(c) ==
  /\ raced' = (raced \/ Overlapped(c))
  /\ torn' = [torn EXCEPT ![c] = @ \/ raced']

\* currency_conversion[from_code]
LookupFrom(c) ==
  /\ at[c] = "from"
  /\ \/ \E r \in RatesOf(from[c].code) : UseFrom(c, r)
     \/ /\ MayMiss(c, from[c].code)
        /\ at' = [at EXCEPT ![c] = "insert from"]
        /\ UNCHANGED rate
  /\ NoteOverlap(c)
  /\ UNCHANGED <<count, quote, cart, from, to, answer, table>>

\* currency_conversion[to_code]
LookupTo(c) ==
  /\ at[c] = "to"
  /\ \/ \E r \in RatesOf(to[c]) : UseTo(c, r)
     \/ /\ MayMiss(c, to[c])
        /\ at' = [at EXCEPT ![c] = "insert to"]
        /\ UNCHANGED answer
  /\ NoteOverlap(c)
  /\ UNCHANGED <<count, quote, cart, from, to, rate, table>>

\* operator[] inserts 0.  Insertions that overlap may lose entries.
Insert(c, code) ==
  \/ table' = table \cup {<<code, 0>>}
  \/ Overlapped(c) /\ table' \in SUBSET (table \cup {<<code, 0>>})

InsertFrom(c) ==
  /\ at[c] = "insert from"
  /\ Insert(c, from[c].code)
  /\ UseFrom(c, 0)
  /\ NoteOverlap(c)
  /\ UNCHANGED <<count, quote, cart, from, to, answer>>

InsertTo(c) ==
  /\ at[c] = "insert to"
  /\ Insert(c, to[c])
  /\ UseTo(c, 0)
  /\ NoteOverlap(c)
  /\ UNCHANGED <<count, quote, cart, from, to, rate>>

\* The currency service is killed, or torn apart by overlapping insertions.
Restart ==
  /\ at' = [c \in Calls |-> IF at[c] \in {"from", "to", "insert from", "insert to"}
                            THEN "failed" ELSE at[c]]
  /\ table' = Listed /\ raced' = FALSE
  /\ <<at', table'>> # <<at, table>>
  /\ UNCHANGED <<count, quote, cart, from, to, rate, answer, torn>>

\* Everything the services do about a call.
Serve(c) ==
  \/ calculateQuote(c) \/ QuoteFails(c) \/ Cost(c)
  \/ LookupFrom(c) \/ LookupTo(c) \/ InsertFrom(c) \/ InsertTo(c)

-----------------------------------------------------------------------------
(* Properties.                                                             *)

TotalOf(numbers) == FoldFunction(LAMBDA x, sum : sum + x, 0, numbers)

HasLeadingZero(money) == money.nanos > 0 /\ 10 * money.nanos < NanosMod

\* What an amount may be read too high by: its decimals without their leading zeros.
Misreading(money) == IF HasLeadingZero(money) THEN NanosMod ELSE 0

\* The amount m at rate r is worth the answer at rate s: short by less than one nano,
\* and either way by one part in Precision of what was read.
Close(m, amount, r, s) ==
  LET exact == Worth(m) * s
      gain == Worth(amount) * r - exact
      misread == Misreading(m) * s
  IN /\ (gain + r) * Precision > -exact
     /\ (gain - misread) * Precision <= exact + misread

\* A conversion between currencies with rates is right to the precision of doubles
\* and one nano, except that an amount whose decimals start with a zero (the
\* catalogue has one) comes out dearer, by less than a unit.  It is anything else
\* only after two threads met in the table of rates, then or at any time since the
\* service started, and then it is nothing or no amount at all.
ConvertsClosely ==
  \A c \in Calls :
    at[c] = "answered" /\ {from[c].code, to[c]} \subseteq DOMAIN Rates
      => \/ Close(from[c], answer[c], Rates[from[c].code], Rates[to[c]])
         \/ torn[c] /\ answer[c] \in {Garbage, Amount(0, 0, to[c])}
=============================================================================
