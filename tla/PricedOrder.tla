----------------------------- MODULE PricedOrder -----------------------------
(***************************************************************************)
(* What an order costs, from the catalogue and the quote to the charge:    *)
(* PlaceOrder has the price of each line converted, then the shipping      *)
(* quoted and converted, and adds them up.  Other clients use the same     *)
(* services meanwhile.                                                     *)
(*                                                                         *)
(* Call 0 is the order's quote, and call i the price of its i-th line.     *)
(***************************************************************************)
EXTENDS OrderTotal, Pricing, Sequences

CONSTANT Elsewhere  \* bound: the amounts other clients convert

ASSUME CallsAssumption == 0..Lines \subseteq Calls
ASSUME ElsewhereAssumption == Elsewhere \subseteq Catalogue
ASSUME CartsAssumption == Carts \subseteq Seq(Quantities)

VARIABLE order   \* the quantities of the cart's lines

totalVars == <<pc, total, cost, out, n, line, due, whole>>
allVars == <<order, totalVars, pricingVars>>

Others == Calls \ (0..Lines)

PricedInit ==
  /\ order \in Carts /\ Len(order) <= Lines
  /\ Init /\ PricingInit

\* prepOrderItems: one price after the other.
PriceLine(i) ==
  /\ \A j \in 1..(i - 1) : at[j] = "answered"
  /\ at[i] = "idle" /\ ConvertPrice(i) /\ from'[i].code = "USD" /\ to'[i] = Code
  /\ UNCHANGED <<order, totalVars>>

\* quoteShipping, of the same lines.
QuoteShipping ==
  /\ \A i \in DOMAIN order : at[i] = "answered"
  /\ GetQuote(0) /\ cart'[0] = order /\ to'[0] = Code
  /\ UNCHANGED <<order, totalVars>>

\* Bound: the other clients have amounts converted, and ask for no quotes.
OthersAsk ==
  /\ \E c \in Others : ConvertPrice(c) /\ from'[c] \in Elsewhere
  /\ UNCHANGED <<order, totalVars>>

ServicesAnswer ==
  /\ Restart \/ \E c \in Calls : Serve(c)
  /\ UNCHANGED <<order, totalVars>>

\* Mutant: every line is added at the price of the first.
AddItUp_FirstPrice ==
  /\ at[0] = "answered"
  /\ answer[0] \in Prices /\ \A i \in DOMAIN order : answer[i] \in Prices
  /\ \/ AddShipping(answer[0])
     \/ line < Len(order) /\ NextLine(answer[1], order[line + 1])
     \/ MultiplyStep \/ AddLine
     \/ line = Len(order) /\ Charge
  /\ UNCHANGED <<order, pricingVars>>

\* Once nothing failed.  An order with a price that is garbage goes no further
\* here: the sum of such an amount is not modelled.
AddItUp ==
  /\ at[0] = "answered"
  /\ answer[0] \in Prices /\ \A i \in DOMAIN order : answer[i] \in Prices
  /\ \/ AddShipping(answer[0])
     \/ line < Len(order) /\ NextLine(answer[line + 1], order[line + 1])
     \/ MultiplyStep \/ AddLine
     \/ line = Len(order) /\ Charge
  /\ UNCHANGED <<order, pricingVars>>

PricedNext ==
  \/ \E i \in DOMAIN order : PriceLine(i)
  \/ QuoteShipping \/ OthersAsk \/ ServicesAnswer \/ AddItUp

PricedSpec == PricedInit /\ [][PricedNext]_allVars

-----------------------------------------------------------------------------
(* Properties.                                                             *)

\* The pages show a shopper who pays in dollars the prices of the catalogue as they
\* are, while PlaceOrder has them converted to dollars all the same.  Such an order
\* is charged what the prices, and shipping for the items as they are counted, add
\* up to, give or take the precision of doubles.  It is short of that by a nano for
\* each item and for the quote, and a cent of the quote, unless threads met in the
\* table of rates.  It is more by less than a dollar for each item whose price has
\* decimals that start with a zero (the catalogue has one), and for a quote whose
\* cents do, and never more for another reason.  Of a quote whose cents are beyond
\* an i32 the cents may be any, so that it is off by less than a dollar.
ChargedAsShown ==
  \E costPerItem \in PerItem :
  LET lines == DOMAIN order
      shown == TotalOf([i \in lines |-> order[i] * Worth(from[i])])
                 + ItemCount(order) * costPerItem * (NanosMod \div 10)
      gain == Worth(total) - shown
      nanos == TotalOf(order) + 1
      saturated == 10 * quote[0] > MaxInt32
      cents == IF saturated THEN NanosMod ELSE NanosMod \div 100
      misread == TotalOf([i \in lines |-> order[i] * Misreading(from[i])])
                   + Misreading(from[0]) + (IF saturated THEN NanosMod ELSE 0)
  IN pc = "charge" /\ Code = "USD" /\ (\A i \in lines : order[i] > 0)
       => /\ \/ (gain + nanos + cents) * Precision >= -(shown + cents)
             \/ \E c \in lines \cup {0} : torn[c]
          /\ (gain - misread) * Precision <= shown + misread
=============================================================================
