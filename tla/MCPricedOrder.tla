--------------------------- MODULE MCPricedOrder ---------------------------
(* One order of up to two lines, beside one other client; amounts of three  *)
(* decimals, and doubles that are off by more than a nano above two units.  *)
EXTENDS PricedOrder

CONSTANT other

SomeCalls == 0..Lines \cup {other}

\* Per euro: a dollar is not a whole number of euros.
SomeRates == "EUR" :> 2 @@ "USD" :> 3

\* Below one unit and with a leading zero, and whole.
SomePrices == {Amount(0, 80, "USD"), Amount(2, 0, "USD")}

\* What the other client has converted.
OnePrice == {Amount(0, 80, "USD")}

\* What conversions may answer.
SomeAmounts == [units : 0..9, nanos : 0..(NanosMod - 1), code : {Code}]

\* A quote whose cents fit an i32 and one whose cents do not, quantities that wrap
\* around, and two lines of as many items as wrap around.
SomeCarts == {<<1>>, <<2>>, <<0>>, <<-1>>, <<3, 1>>}
SomeQuantities == -1..3
=============================================================================
