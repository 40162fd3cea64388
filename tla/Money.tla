-------------------------------- MODULE Money --------------------------------
(***************************************************************************)
(* The money package of checkout: amounts of a whole number of units and a *)
(* fraction in nanos, of a currency.                                       *)
(*                                                                         *)
(* NanosMod is 10^9 in the code.  Nothing depends on its value but that    *)
(* two valid nanos add up without overflowing an int32.                    *)
(***************************************************************************)
EXTENDS Integers

CONSTANT NanosMod
ASSUME NanosModAssumption == NanosMod \in Nat \ {0}

AnyMoney(Codes) == [units : Int, nanos : Int, code : Codes]

\* What an amount is worth, in nanos.
Worth(m) == m.units * NanosMod + m.nanos

-----------------------------------------------------------------------------

SignMatches(m) ==
  m.nanos = 0 \/ m.units = 0 \/ ((m.nanos < 0) <=> (m.units < 0))

ValidNanos(nanos) == -(NanosMod - 1) <= nanos /\ nanos <= NanosMod - 1

IsValid(m) == SignMatches(m) /\ ValidNanos(m.nanos)

IsZero(m) == m.units = 0 /\ m.nanos = 0

\* && binds tighter than ||: validity is asked of whole units only.
IsPositive(m) == (IsValid(m) /\ m.units > 0) \/ (m.units = 0 /\ m.nanos > 0)
IsNegative(m) == (IsValid(m) /\ m.units < 0) \/ (m.units = 0 /\ m.nanos < 0)

AreSameCurrency(l, r) == l.code = r.code /\ l.code # ""

AreEquals(l, r) == l.code = r.code /\ l.units = r.units /\ l.nanos = r.nanos

Negate(m) == [m EXCEPT !.units = -m.units, !.nanos = -m.nanos]

-----------------------------------------------------------------------------

\* Go's / and % on the sum of two valid nanos: they truncate towards zero.
CarryOf(nanos) ==
  IF nanos >= NanosMod THEN 1 ELSE IF nanos <= -NanosMod THEN -1 ELSE 0

\* Sum returns a value or an error; Err stands for the error.
Err == [units |-> 0, nanos |-> 0, code |-> "error"]

\* Mutant: an amount of whole units counts as one of different signs.
SameSign_Strict(units, nanos) ==
  \/ units = 0 /\ nanos = 0
  \/ units > 0 /\ nanos > 0
  \/ units < 0 /\ nanos < 0

SameSign(units, nanos) ==
  \/ units = 0 /\ nanos = 0
  \/ units > 0 /\ nanos >= 0
  \/ units < 0 /\ nanos <= 0

Amount(units, nanos, code) == [units |-> units, nanos |-> nanos, code |-> code]

\* units > 0 is the only case that borrows down, so units = 0 borrows up.
AddParts(units, nanos, code) ==
  IF SameSign(units, nanos)
  THEN Amount(units + CarryOf(nanos), nanos - CarryOf(nanos) * NanosMod, code)
  ELSE IF units > 0
       THEN Amount(units - 1, nanos + NanosMod, code)
       ELSE Amount(units + 1, nanos - NanosMod, code)

Sum(l, r) ==
  IF ~IsValid(l) \/ ~IsValid(r) \/ l.code # r.code
  THEN Err
  ELSE AddParts(l.units + r.units, l.nanos + r.nanos, l.code)
=============================================================================
