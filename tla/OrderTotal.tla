----------------------------- MODULE OrderTotal -----------------------------
(***************************************************************************)
(* How PlaceOrder computes what it charges: the shipping cost, then each   *)
(* line's cost times its quantity, every multiplication done by repeated   *)
(* addition, and every addition panicking (money.Must) when an operand is  *)
(* not valid.                                                              *)
(***************************************************************************)
EXTENDS Money

CONSTANTS Prices,     \* what Convert returns: valid amounts, not negative
          Quantities, \* the int32 quantities of cart lines
          WordMod,    \* 2^32 in the code: uint32(quantity)
          Lines,      \* bound: lines of an order
          Code        \* the user's currency

Price == [units : Nat, nanos : 0..(NanosMod - 1), code : {Code}]

ASSUME PricesAssumption == Prices \subseteq Price
ASSUME QuantitiesAssumption ==
  Quantities \subseteq Int /\ WordMod \in Nat \ {0} /\ Lines \in Nat
  /\ \A quantity \in Quantities : quantity < WordMod
ASSUME CodeAssumption == Code # "error"

VARIABLES pc,      \* "shipping", "lines", "multiply", "charge" or "panic"
          total,   \* total
          cost,    \* the line's cost (m in MultiplySlow)
          out,     \* the product so far (out in MultiplySlow)
          n,       \* additions left (n in MultiplySlow)
          line,    \* lines added so far
          due,     \* what the order is worth, in nanos
          whole    \* every amount added was zero or at least one unit

vars == <<pc, total, cost, out, n, line, due, whole>>

Zero == Amount(0, 0, Code)

Init ==
  /\ pc = "shipping"
  /\ total = Zero /\ cost = Zero /\ out = Zero
  /\ n = 0 /\ line = 0 /\ due = 0
  /\ whole = TRUE

\* total = money.Must(money.Sum(total, amount)), or the process panics.
AddToTotal(amount, next) ==
  LET sum == Sum(total, amount)
  IN IF sum = Err THEN pc' = "panic" /\ UNCHANGED total
                  ELSE pc' = next /\ total' = sum

IsWhole(amount) == amount.units > 0 \/ IsZero(amount)

AddShipping(shipping) ==
  /\ pc = "shipping"
  /\ AddToTotal(shipping, "lines")
  /\ due' = Worth(shipping)
  /\ whole' = IsWhole(shipping)
  /\ UNCHANGED <<cost, out, n, line>>

\* MultiplySlow(m, n) adds m to itself while n > 1, so n = 0 counts as once.
Times(word) == IF word = 0 THEN 1 ELSE word

\* MultiplySlow(it.Cost, uint32(quantity)) begins.
NextLine(price, quantity) ==
  /\ pc = "lines"
  /\ line < Lines
  /\ pc' = "multiply"
  /\ cost' = price /\ out' = price
  /\ n' = quantity % WordMod
  /\ due' = due + Times(quantity % WordMod) * Worth(price)
  /\ whole' = (whole /\ IsWhole(price))
  /\ UNCHANGED <<total, line>>

\* Mutant: the sum so far is doubled.
MultiplyStep_Doubles ==
  /\ pc = "multiply"
  /\ n > 1
  /\ LET sum == Sum(out, out)
     IN IF sum = Err THEN pc' = "panic" /\ UNCHANGED out
                     ELSE pc' = pc /\ out' = sum
  /\ n' = n - 1
  /\ UNCHANGED <<total, cost, line, due, whole>>

\* out = Must(Sum(out, m)); n--
MultiplyStep ==
  /\ pc = "multiply"
  /\ n > 1
  /\ LET sum == Sum(out, cost)
     IN IF sum = Err THEN pc' = "panic" /\ UNCHANGED out
                     ELSE pc' = pc /\ out' = sum
  /\ n' = n - 1
  /\ UNCHANGED <<total, cost, line, due, whole>>

AddLine ==
  /\ pc = "multiply"
  /\ n <= 1
  /\ AddToTotal(out, "lines")
  /\ line' = line + 1
  /\ UNCHANGED <<cost, out, n, due, whole>>

\* All lines are in: chargeCard(total).
Charge ==
  /\ pc = "lines"
  /\ pc' = "charge"
  /\ UNCHANGED <<total, cost, out, n, line, due, whole>>

Next ==
  \/ \E shipping \in Prices : AddShipping(shipping)
  \/ \E price \in Prices, quantity \in Quantities : NextLine(price, quantity)
  \/ MultiplyStep \/ AddLine \/ Charge

Spec == Init /\ [][Next]_vars

-----------------------------------------------------------------------------
TypeOK ==
  /\ pc \in {"shipping", "lines", "multiply", "charge", "panic"}
  /\ total \in AnyMoney({Code}) /\ out \in AnyMoney({Code})
  /\ cost \in Price
  /\ n \in Nat /\ line \in Nat /\ due \in Int /\ whole \in BOOLEAN

\* What is charged is worth exactly the shipping and the lines: whatever the
\* carries and borrows on the way, no nano is lost or gained.
ChargedExactly == pc = "charge" => Worth(total) = due

\* Placing an order panics, and takes the process with it, only when an amount
\* of less than one unit was added; amounts of whole units never do.
PanicsOnlyOnFractions == whole => pc # "panic" /\ IsValid(total)
=============================================================================
