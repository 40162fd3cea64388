-------------------------- MODULE PricedOrderProofs --------------------------
(***************************************************************************)
(* Proofs about what an order costs, for every NanosMod, prices, quantities *)
(* and number of lines: the laws of money, the sum PlaceOrder makes of     *)
(* amounts it is given, and the same of the amounts the services answer    *)
(* while other clients use them.                                           *)
(***************************************************************************)
EXTENDS PricedOrder, FiniteSetTheorems, TLAPS

-----------------------------------------------------------------------------
(* The money package, for amounts of any size.                             *)

\* Multiplication distributes over addition and subtraction.
LEMMA Distribute ==
  ASSUME NEW a \in Int, NEW b \in Int, NEW m \in Int
  PROVE  (a + b) * m = a * m + b * m /\ (a - b) * m = a * m - b * m
OBVIOUS

\* What AddParts makes of two sums is worth what they are, whichever branch.
LEMMA PartsWorth ==
  ASSUME NEW u \in Int, NEW v \in Int, NEW c
  PROVE  /\ AddParts(u, v, c) \in AnyMoney({c})
         /\ Worth(AddParts(u, v, c)) = u * NanosMod + v
<1> USE NanosModAssumption
<1>1. /\ (u + 1) * NanosMod = u * NanosMod + NanosMod
      /\ (u - 1) * NanosMod = u * NanosMod - NanosMod
      /\ (u + 0) * NanosMod = u * NanosMod
      /\ (u + -1) * NanosMod = u * NanosMod - NanosMod
  BY Distribute
<1>2. CarryOf(v) \in {-1, 0, 1} BY DEF CarryOf
<1>3. CASE SameSign(u, v)
  BY <1>1, <1>2, <1>3 DEF AddParts, Amount, Worth, AnyMoney
<1>4. CASE ~SameSign(u, v)
  BY <1>1, <1>4 DEF AddParts, Amount, Worth, AnyMoney
<1> QED BY <1>3, <1>4

\* Sum adds worth, for every pair of amounts it accepts.
LEMMA SumWorth ==
  ASSUME NEW C, NEW l \in AnyMoney(C), NEW r \in AnyMoney(C), Sum(l, r) # Err
  PROVE  Sum(l, r) \in AnyMoney({l.code}) /\ Worth(Sum(l, r)) = Worth(l) + Worth(r)
<1>1. l.units \in Int /\ l.nanos \in Int /\ r.units \in Int /\ r.nanos \in Int
  BY DEF AnyMoney
<1>2. Sum(l, r) = AddParts(l.units + r.units, l.nanos + r.nanos, l.code)
  BY DEF Sum
<1>3. (l.units + r.units) * NanosMod = l.units * NanosMod + r.units * NanosMod
  BY <1>1, Distribute, NanosModAssumption
<1>4. Worth(Sum(l, r)) = (l.units + r.units) * NanosMod + (l.nanos + r.nanos)
      /\ Sum(l, r) \in AnyMoney({l.code})
  <2>1. l.units + r.units \in Int /\ l.nanos + r.nanos \in Int
    BY <1>1
  <2>. QED
    BY ONLY <1>2, <2>1, PartsWorth, Zenon
<1>5. Worth(l) = l.units * NanosMod + l.nanos /\ Worth(r) = r.units * NanosMod + r.nanos
  BY DEF Worth
<1>6. ASSUME NEW a \in Int, NEW b \in Int, NEW c \in Int, NEW d \in Int
      PROVE  (a + b) + (c + d) = (a + c) + (b + d)
  OBVIOUS
<1>7. l.units * NanosMod \in Int /\ r.units * NanosMod \in Int
  BY <1>1, NanosModAssumption
<1> QED BY <1>1, <1>3, <1>4, <1>5, <1>6, <1>7

\* A sum without an error does not depend on the order of its terms.
LEMMA SumCommutes ==
  ASSUME NEW C, NEW l \in AnyMoney(C), NEW r \in AnyMoney(C), Sum(l, r) # Err
  PROVE  Sum(r, l) = Sum(l, r)
<1>1. IsValid(l) /\ IsValid(r) /\ l.code = r.code
  BY DEF Sum
<1>2. l.units + r.units = r.units + l.units /\ l.nanos + r.nanos = r.nanos + l.nanos
  BY DEF AnyMoney
<1>. QED
  BY <1>1, <1>2 DEF Sum

\* money.Sum adds what the amounts are worth, in either order, whatever the signs,
\* carries and borrows.
THEOREM SumIsExact ==
  \A C : \A l, r \in AnyMoney(C) :
    Sum(l, r) # Err => Worth(Sum(l, r)) = Worth(l) + Worth(r) /\ Sum(r, l) = Sum(l, r)
BY SumWorth, SumCommutes

\* The sum is again valid unless whole units cancel out and leave less than one
\* unit - the one case in which money.Sum makes what it will not accept again.
THEOREM SumMostlyValid ==
  \A C : \A l, r \in AnyMoney(C) :
    IsValid(l) /\ IsValid(r) /\ l.code = r.code =>
      (IsValid(Sum(l, r)) <=>
        \/ l.units + r.units # 0
        \/ l.nanos + r.nanos = 0
        \/ l.nanos + r.nanos >= NanosMod)
<1> SUFFICES ASSUME NEW C, NEW l \in AnyMoney(C), NEW r \in AnyMoney(C),
                    IsValid(l), IsValid(r), l.code = r.code
             PROVE  IsValid(Sum(l, r)) <=>
                      \/ l.units + r.units # 0
                      \/ l.nanos + r.nanos = 0
                      \/ l.nanos + r.nanos >= NanosMod
  OBVIOUS
<1> USE NanosModAssumption
<1> DEFINE u == l.units + r.units
           v == l.nanos + r.nanos
<1>1. /\ l.units \in Int /\ l.nanos \in Int /\ r.units \in Int /\ r.nanos \in Int
      /\ SignMatches(l) /\ SignMatches(r) /\ ValidNanos(l.nanos) /\ ValidNanos(r.nanos)
  BY DEF AnyMoney, IsValid
<1>2. u \in Int /\ v \in Int /\ -2 * (NanosMod - 1) <= v /\ v <= 2 * (NanosMod - 1)
  BY <1>1 DEF ValidNanos
<1>3. Sum(l, r) = AddParts(u, v, l.code)
  BY DEF Sum
<1> HIDE DEF u, v
<1>4. CASE SameSign(u, v)
  <2>1. AddParts(u, v, l.code) = Amount(u + CarryOf(v), v - CarryOf(v) * NanosMod, l.code)
    BY <1>4 DEF AddParts
  <2>2. CASE v >= NanosMod
    <3>1. CarryOf(v) = 1 /\ u > 0
      BY <1>2, <1>4, <2>2 DEF CarryOf, SameSign
    <3>. QED
      BY <1>2, <1>3, <2>1, <2>2, <3>1 DEF IsValid, SignMatches, ValidNanos, Amount, u, v
  <2>3. CASE v <= -NanosMod
    <3>1. CarryOf(v) = -1 /\ u < 0
      BY <1>2, <1>4, <2>3 DEF CarryOf, SameSign
    <3>. QED
      BY <1>2, <1>3, <2>1, <2>3, <3>1 DEF IsValid, SignMatches, ValidNanos, Amount, u, v
  <2>4. CASE -NanosMod < v /\ v < NanosMod
    <3>1. CarryOf(v) = 0
      BY <1>2, <2>4 DEF CarryOf
    <3>2. u + 0 = u /\ v - 0 * NanosMod = v
      BY <1>2
    <3>3. Sum(l, r) = Amount(u, v, l.code)
      BY <1>3, <2>1, <3>1, <3>2
    <3>. QED
      BY <1>2, <1>4, <2>4, <3>3
         DEF IsValid, SignMatches, ValidNanos, SameSign, Amount, u, v
  <2>. QED
    BY <1>2, <2>2, <2>3, <2>4
<1>5. CASE ~SameSign(u, v) /\ u > 0
  <2>1. Sum(l, r) = Amount(u - 1, v + NanosMod, l.code)
    BY <1>3, <1>5 DEF AddParts
  <2>2. v < 0 /\ v > -NanosMod
    BY <1>1, <1>2, <1>5 DEF SameSign, SignMatches, ValidNanos, u, v
  <2>. QED
    BY <1>2, <1>5, <2>1, <2>2 DEF IsValid, SignMatches, ValidNanos, Amount, u, v
<1>6. CASE ~SameSign(u, v) /\ u < 0
  <2>1. Sum(l, r) = Amount(u + 1, v - NanosMod, l.code)
    BY <1>2, <1>3, <1>6 DEF AddParts
  <2>2. v > 0 /\ v < NanosMod
    BY <1>1, <1>2, <1>6 DEF SameSign, SignMatches, ValidNanos, u, v
  <2>. QED
    BY <1>2, <1>6, <2>1, <2>2 DEF IsValid, SignMatches, ValidNanos, Amount, u, v
<1>7. CASE ~SameSign(u, v) /\ u = 0
  <2>1. Sum(l, r) = Amount(1, v - NanosMod, l.code)
    BY <1>2, <1>3, <1>7 DEF AddParts
  <2>2. v # 0
    BY <1>2, <1>7 DEF SameSign
  <2>. QED
    BY <1>2, <1>7, <2>1, <2>2 DEF IsValid, SignMatches, ValidNanos, Amount, u, v
<1>. QED
  BY <1>2, <1>4, <1>5, <1>6, <1>7

\* What is valid is valid when negated, and the two cancel out: money.Negate.
THEOREM NegationCancels ==
  \A C : \A m \in AnyMoney(C) :
    IsValid(m) => IsValid(Negate(m)) /\ IsZero(Sum(m, Negate(m)))
<1> SUFFICES ASSUME NEW C, NEW m \in AnyMoney(C), IsValid(m)
             PROVE  IsValid(Negate(m)) /\ IsZero(Sum(m, Negate(m)))
  OBVIOUS
<1> USE NanosModAssumption
<1>1. m.units \in Int /\ m.nanos \in Int /\ m \in [units : Int, nanos : Int, code : C]
  BY DEF AnyMoney
<1>2. /\ Negate(m).units = -m.units /\ Negate(m).nanos = -m.nanos
      /\ Negate(m).code = m.code
  BY <1>1 DEF Negate
<1>3. IsValid(Negate(m))
  BY <1>1, <1>2 DEF IsValid, SignMatches, ValidNanos
<1>4. Sum(m, Negate(m)) = AddParts(0, 0, m.code)
  <2>1. m.units + Negate(m).units = 0 /\ m.nanos + Negate(m).nanos = 0
    BY <1>1, <1>2
  <2>. QED
    BY ONLY IsValid(m), <1>2, <1>3, <2>1 DEF Sum
<1>5. AddParts(0, 0, m.code) = Amount(0, 0, m.code)
  BY DEF AddParts, SameSign, CarryOf, Amount
<1>. QED
  BY <1>3, <1>4, <1>5 DEF IsZero, Amount

\* "IsPositive returns true if the specified money value is valid and is positive":
\* the one exception are amounts of no units and too many nanos.
THEOREM PositiveMostlyValid ==
  \A C : \A m \in AnyMoney(C) :
    IsPositive(m) <=> /\ Worth(m) > 0
                      /\ IsValid(m) \/ (m.units = 0 /\ m.nanos >= NanosMod)
<1> SUFFICES ASSUME NEW C, NEW m \in AnyMoney(C)
             PROVE  IsPositive(m) <=> /\ Worth(m) > 0
                                      /\ IsValid(m) \/ (m.units = 0 /\ m.nanos >= NanosMod)
  OBVIOUS
<1> USE NanosModAssumption
<1>1. m.units \in Int /\ m.nanos \in Int /\ Worth(m) = m.units * NanosMod + m.nanos
  BY DEF AnyMoney, Worth
<1>2. CASE m.units = 0
  <2>1. Worth(m) = m.nanos
    BY <1>1, <1>2
  <2>. QED
    BY <1>1, <1>2, <2>1 DEF IsPositive, IsValid, SignMatches, ValidNanos
<1>3. CASE m.units > 0
  <2>1. m.units * NanosMod \in Int /\ m.units * NanosMod > 0
    BY <1>1, <1>3
  <2>2. IsValid(m) => Worth(m) > 0
    BY <1>1, <1>3, <2>1 DEF IsValid, SignMatches
  <2>. QED
    BY <1>1, <1>3, <2>2 DEF IsPositive
<1>4. CASE m.units < 0
  <2>1. m.units * NanosMod \in Int /\ m.units * NanosMod < 0
    BY <1>1, <1>4
  <2>2. IsValid(m) => Worth(m) <= 0
    BY <1>1, <1>4, <2>1 DEF IsValid, SignMatches
  <2>. QED
    BY <1>1, <1>4, <2>2 DEF IsPositive
<1>. QED
  BY <1>1, <1>2, <1>3, <1>4

-----------------------------------------------------------------------------
(* The total, of any amounts.                                              *)

Ours == AnyMoney({Code})

\* Sums of our amounts are our amounts.
LEMMA OurSum ==
  ASSUME NEW l \in Ours, NEW r \in Ours, Sum(l, r) # Err
  PROVE  Sum(l, r) \in Ours /\ Worth(Sum(l, r)) = Worth(l) + Worth(r)
<1>1. l.code = Code
  BY DEF Ours, AnyMoney
<1>. QED
  BY <1>1, SumWorth DEF Ours

\* An amount of the shop is worth an integer number of nanos.
LEMMA WorthIsInt == ASSUME NEW m \in Ours PROVE Worth(m) \in Int
BY NanosModAssumption DEF Ours, AnyMoney, Worth

-----------------------------------------------------------------------------
(* The loop invariant: what is still to be added, in worth.                *)

\* What the additions left in MultiplySlow will add to out.
Rest == IF n = 0 THEN 0 ELSE (n - 1) * Worth(cost)

Books ==
  /\ pc = "shipping" => total = Zero
  /\ pc = "multiply" => due = Worth(total) + (Worth(out) + Rest)
  /\ pc \in {"lines", "charge"} => due = Worth(total)

BooksInv == TypeOK /\ Books

\* Prices and zero are amounts of the shop.
LEMMA PriceIsOurs == Price \subseteq Ours /\ Prices \subseteq Ours /\ Zero \in Ours
BY PricesAssumption, NanosModAssumption DEF Price, Ours, AnyMoney, Zero, Amount

\* Nothing is added at first.
LEMMA BooksInit == Init => BooksInv
<1> SUFFICES ASSUME Init PROVE BooksInv OBVIOUS
<1>1. Zero \in Price
  BY NanosModAssumption DEF Zero, Amount, Price
<1> QED BY <1>1, PriceIsOurs DEF Init, BooksInv, TypeOK, Books, Ours

\* Adding an accepted amount to the total.
LEMMA TotalGrows ==
  ASSUME TypeOK, NEW amount \in Ours, NEW next \in {"lines"}, AddToTotal(amount, next)
  PROVE  \/ pc' = "panic" /\ total' = total
         \/ /\ pc' = next /\ total' \in Ours
            /\ Worth(total') = Worth(total) + Worth(amount)
<1>1. total \in Ours BY DEF TypeOK, Ours
<1> QED BY <1>1, OurSum DEF AddToTotal

\* Every step keeps the total and what is still to add at what is due.
LEMMA BooksNext == BooksInv /\ [Next]_vars => BooksInv'
<1> SUFFICES ASSUME BooksInv, [Next]_vars PROVE BooksInv' OBVIOUS
<1>1. /\ TypeOK /\ Books
      /\ total \in Ours /\ out \in Ours /\ cost \in Ours /\ cost \in Price
      /\ Worth(total) \in Int /\ Worth(out) \in Int /\ Worth(cost) \in Int
  BY PriceIsOurs, WorthIsInt DEF BooksInv, TypeOK, Ours
<1>2. ASSUME NEW shipping \in Prices, AddShipping(shipping) PROVE BooksInv'
  <2>1. shipping \in Ours /\ Worth(shipping) \in Int BY PriceIsOurs, WorthIsInt
  <2>2. total = Zero /\ Worth(Zero) = 0
    BY <1>1, <1>2, NanosModAssumption DEF AddShipping, Books, Worth, Zero, Amount
  <2>3. whole' \in BOOLEAN BY <1>2 DEF AddShipping, IsWhole, IsZero
  <2>4. \/ pc' = "panic" /\ total' = total
        \/ pc' = "lines" /\ total' \in Ours /\ Worth(total') = Worth(shipping)
    BY <1>1, <1>2, <2>1, <2>2, TotalGrows DEF AddShipping
  <2> QED BY <1>1, <1>2, <2>1, <2>3, <2>4 DEF BooksInv, TypeOK, Books, AddShipping, Ours
<1>3. ASSUME NEW price \in Prices, NEW quantity \in Quantities, NextLine(price, quantity)
      PROVE  BooksInv'
  <2> DEFINE word == quantity % WordMod
  <2>1. price \in Ours /\ price \in Price /\ Worth(price) \in Int
    BY PriceIsOurs, PricesAssumption, WorthIsInt
  <2>2. word \in Nat BY QuantitiesAssumption
  <2> HIDE DEF word
  <2>3. /\ pc' = "multiply" /\ pc = "lines" /\ cost' = price /\ out' = price
        /\ n' = word /\ due' = due + Times(word) * Worth(price)
        /\ total' = total /\ line' = line /\ whole' \in BOOLEAN
    BY <1>1, <1>3 DEF NextLine, word, IsWhole, IsZero, TypeOK
  <2>4. Times(word) * Worth(price) = Worth(price) + Rest'
    <3>1. Worth(cost)' = Worth(price) BY <2>3 DEF Worth
    <3>2. CASE word = 0 BY <2>1, <2>3, <3>2 DEF Times, Rest
    <3>3. CASE word # 0
      <4>1. word * Worth(price) = Worth(price) + (word - 1) * Worth(price)
        <5>1. (word - 1) * Worth(price) = word * Worth(price) - 1 * Worth(price)
          BY <2>1, <2>2, Distribute
        <5>2. word * Worth(price) \in Int BY <2>1, <2>2
        <5> QED BY <2>1, <5>1, <5>2
      <4> QED BY <2>3, <3>1, <3>3, <4>1 DEF Times, Rest
    <3> QED BY <3>2, <3>3
  <2>5. due = Worth(total) /\ due \in Int BY <1>1, <2>3 DEF Books, TypeOK
  <2>6. Times(word) * Worth(price) \in Int BY <2>1, <2>2 DEF Times
  <2>7. Worth(out)' = Worth(price) /\ Worth(total)' = Worth(total)
    BY <2>3 DEF Worth
  <2>8. Books' BY <2>3, <2>4, <2>5, <2>7 DEF Books
  <2> QED BY <1>1, <2>1, <2>2, <2>3, <2>5, <2>6, <2>8 DEF BooksInv, TypeOK, Ours
<1>4. CASE MultiplyStep
  <2>1. pc = "multiply" /\ n > 1 /\ n \in Nat /\ n' = n - 1 /\ n' \in Nat
        /\ UNCHANGED <<total, cost, line, due, whole>>
    BY <1>1, <1>4 DEF MultiplyStep, TypeOK
  <2>2. CASE Sum(out, cost) = Err
    BY <1>1, <1>4, <2>1, <2>2 DEF MultiplyStep, BooksInv, TypeOK, Books, Ours
  <2>3. CASE Sum(out, cost) # Err
    <3>1. pc' = pc /\ out' \in Ours /\ Worth(out)' = Worth(out) + Worth(cost)
      BY <1>1, <1>4, <2>3, OurSum DEF MultiplyStep, Worth
    <3>2. /\ Rest' = (n - 2) * Worth(cost) /\ Rest = (n - 1) * Worth(cost)
          /\ Rest \in Int
      BY <1>1, <2>1 DEF Rest, Worth
    <3>3. (n - 1) * Worth(cost) = (n - 2) * Worth(cost) + 1 * Worth(cost)
      BY <1>1, <2>1, Distribute
    <3>4. (n - 2) * Worth(cost) \in Int BY <1>1, <2>1
    <3>5. Worth(out)' + Rest' = Worth(out) + Rest
      BY <1>1, <3>1, <3>2, <3>3, <3>4
    <3>6. Books' BY <1>1, <2>1, <3>1, <3>5 DEF Books, Worth
    <3> QED BY <1>1, <2>1, <3>1, <3>6 DEF BooksInv, TypeOK, Ours
  <2> QED BY <2>2, <2>3
<1>5. CASE AddLine
  <2>1. pc = "multiply" /\ n <= 1 /\ n \in Nat /\ line' = line + 1 /\ line' \in Nat
        /\ UNCHANGED <<cost, out, n, due, whole>>
    BY <1>1, <1>5 DEF AddLine, TypeOK
  <2>2. Rest = 0
    <3>1. CASE n = 0 BY <3>1 DEF Rest
    <3>2. CASE n = 1 BY <1>1, <3>2 DEF Rest
    <3> QED BY <2>1, <3>1, <3>2
  <2>3. due = Worth(total) + Worth(out) BY <1>1, <2>1, <2>2 DEF Books
  <2>4. \/ pc' = "panic" /\ total' = total
        \/ pc' = "lines" /\ total' \in Ours /\ Worth(total)' = due
    BY <1>1, <1>5, <2>3, TotalGrows DEF AddLine, Worth
  <2> QED BY <1>1, <2>1, <2>4 DEF BooksInv, TypeOK, Books, Ours
<1>6. CASE Charge
  BY <1>1, <1>6 DEF Charge, BooksInv, TypeOK, Books, Worth
<1>7. CASE UNCHANGED vars
  BY <1>1, <1>7 DEF vars, BooksInv, TypeOK, Books, Rest, Worth
<1> QED BY <1>2, <1>3, <1>4, <1>5, <1>6, <1>7 DEF Next

\* What PlaceOrder charges is worth exactly the shipping and the lines, for any
\* prices, quantities and number of lines.
THEOREM ChargeIsExact == Spec => []ChargedExactly
<1>1. BooksInv => ChargedExactly
  BY DEF BooksInv, Books, ChargedExactly
<1> QED BY <1>1, BooksInit, BooksNext, PTL DEF Spec

\* The variables keep their types: the amounts on the way stay amounts of units
\* and nanos, whatever carries and signs their addition meets.
THEOREM TypeCorrect == Spec => []TypeOK
<1>1. BooksInv => TypeOK BY DEF BooksInv
<1> QED BY <1>1, BooksInit, BooksNext, PTL DEF Spec

-----------------------------------------------------------------------------
(* Whole amounts stay valid, so adding them never panics.                  *)

Good(m) == m \in Price /\ IsWhole(m)

\* Whole amounts are closed under Sum, which does not fail on them.
LEMMA GoodSum ==
  ASSUME NEW l, NEW r, Good(l), Good(r)
  PROVE  Sum(l, r) # Err /\ Good(Sum(l, r))
<1> USE NanosModAssumption
<1>1. /\ l.units \in Nat /\ l.nanos \in Nat /\ l.nanos <= NanosMod - 1 /\ l.code = Code
      /\ r.units \in Nat /\ r.nanos \in Nat /\ r.nanos <= NanosMod - 1 /\ r.code = Code
      /\ l.units > 0 \/ l.nanos = 0
      /\ r.units > 0 \/ r.nanos = 0
  BY DEF Good, Price, IsWhole, IsZero
<1>2. IsValid(l) /\ IsValid(r)
  BY <1>1 DEF IsValid, SignMatches, ValidNanos
<1> DEFINE u == l.units + r.units
           v == l.nanos + r.nanos
<1>3. u \in Nat /\ v \in Nat /\ v <= 2 * NanosMod - 2 /\ (u > 0 \/ v = 0)
  BY <1>1
<1>4. Sum(l, r) = AddParts(u, v, Code) BY <1>1, <1>2 DEF Sum
<1> HIDE DEF u, v
<1>5. SameSign(u, v) BY <1>3 DEF SameSign
<1>6. AddParts(u, v, Code) =
        Amount(u + CarryOf(v), v - CarryOf(v) * NanosMod, Code)
  BY <1>5 DEF AddParts
<1>7. CASE v >= NanosMod
  <2>1. CarryOf(v) = 1 BY <1>3, <1>7 DEF CarryOf
  <2> QED BY <1>3, <1>4, <1>6, <1>7, <2>1, CodeAssumption
          DEF Amount, Good, Price, IsWhole, Err
<1>8. CASE v < NanosMod
  <2>1. CarryOf(v) = 0
    <3>1. ~(v <= -NanosMod) BY <1>3
    <3> QED BY <1>8, <1>3, <3>1 DEF CarryOf
  <2>2. v - 0 * NanosMod = v /\ u + 0 = u BY <1>3
  <2> QED BY <1>3, <1>4, <1>6, <1>8, <2>1, <2>2, CodeAssumption
          DEF Amount, Good, Price, IsWhole, IsZero, Err
<1> QED BY <1>3, <1>7, <1>8

WholeInv ==
  /\ pc = "shipping" => whole
  /\ whole => pc # "panic" /\ Good(total) /\ Good(out) /\ Good(cost)

\* The amounts are whole at first.
LEMMA WholeInit == Init => WholeInv
BY NanosModAssumption
   DEF Init, WholeInv, Good, Price, IsWhole, IsZero, Zero, Amount

\* Every step keeps the amounts whole.
LEMMA WholeNext == WholeInv /\ [Next]_vars => WholeInv'
<1>7. ASSUME WholeInv, [Next]_vars, pc' = "shipping" PROVE whole'
  BY <1>7 DEF WholeInv, Next, vars, AddShipping, AddToTotal, NextLine, MultiplyStep,
     AddLine, Charge
<1> SUFFICES ASSUME WholeInv, [Next]_vars, whole'
             PROVE  pc' # "panic" /\ Good(total') /\ Good(out') /\ Good(cost')
  BY <1>7 DEF WholeInv
<1>1. ASSUME NEW shipping \in Prices, AddShipping(shipping)
      PROVE  pc' # "panic" /\ Good(total') /\ Good(out') /\ Good(cost')
  <2>1. Good(shipping) BY <1>1, PricesAssumption DEF AddShipping, Good
  <2>2. Good(out) /\ Good(cost) /\ Good(total)
    BY <1>1 DEF AddShipping, WholeInv
  <2> QED BY <1>1, <2>1, <2>2, GoodSum DEF AddShipping, AddToTotal
<1>2. ASSUME NEW price \in Prices, NEW quantity \in Quantities, NextLine(price, quantity)
      PROVE  pc' # "panic" /\ Good(total') /\ Good(out') /\ Good(cost')
  BY <1>2, PricesAssumption DEF NextLine, WholeInv, Good
<1>3. CASE MultiplyStep BY <1>3, GoodSum DEF MultiplyStep, WholeInv
<1>4. CASE AddLine BY <1>4, GoodSum DEF AddLine, AddToTotal, WholeInv
<1>5. CASE Charge BY <1>5 DEF Charge, WholeInv
<1>6. CASE UNCHANGED vars BY <1>6 DEF vars, WholeInv
<1> QED BY <1>1, <1>2, <1>3, <1>4, <1>5, <1>6 DEF Next

\* The checkout process panics over an order only if it has an amount of less
\* than one unit; otherwise every total on the way is valid.
THEOREM WholeAmountsNeverPanic == Spec => []PanicsOnlyOnFractions
<1>1. WholeInv => PanicsOnlyOnFractions
  BY NanosModAssumption DEF WholeInv, PanicsOnlyOnFractions, Good, Price, IsWhole,
     IsZero, IsValid, SignMatches, ValidNanos
<1> QED BY <1>1, WholeInit, WholeNext, PTL DEF Spec

-----------------------------------------------------------------------------
(* The order as the services price it.                                     *)

\* The cart is one that was drawn, of int32 quantities; its lines are counted up.
OrderInv == order \in Carts /\ Len(order) <= Lines /\ line \in Nat

\* The order is a cart that fits at first.
LEMMA OrderInvInit == PricedInit => OrderInv
BY DEF PricedInit, Init, OrderInv

\* Every step leaves the order as it is.
LEMMA OrderInvNext == OrderInv /\ [PricedNext]_allVars => OrderInv'
<1> SUFFICES ASSUME OrderInv, [PricedNext]_allVars PROVE OrderInv' OBVIOUS
<1>1. CASE AddItUp
  BY <1>1 DEF AddItUp, AddShipping, NextLine, MultiplyStep, AddLine, Charge, OrderInv
<1>2. CASE UNCHANGED <<order, totalVars>>
  BY <1>2 DEF totalVars, OrderInv
<1> QED
  BY <1>1, <1>2 DEF PricedNext, PriceLine, QuoteShipping, OthersAsk, ServicesAnswer, allVars

\* A step of the priced order adds something up, or leaves the sum alone.
LEMMA PricedStep == OrderInv /\ [PricedNext]_allVars => [Next]_vars
<1> SUFFICES ASSUME OrderInv, [PricedNext]_allVars PROVE [Next]_vars OBVIOUS
<1>1. CASE AddItUp
  <2>1. CASE AddShipping(answer[0]) BY <1>1, <2>1 DEF AddItUp, Next
  <2>2. CASE line < Len(order) /\ NextLine(answer[line + 1], order[line + 1])
    <3>1. order \in Seq(Quantities) BY CartsAssumption DEF OrderInv
    <3>2. line + 1 \in DOMAIN order BY <2>2, <3>1 DEF OrderInv
    <3>3. order[line + 1] \in Quantities BY <3>1, <3>2
    <3>4. answer[line + 1] \in Prices BY <1>1, <3>2 DEF AddItUp
    <3> QED BY <2>2, <3>3, <3>4 DEF Next
  <2> QED BY <1>1, <2>1, <2>2 DEF AddItUp, Next
<1>2. CASE UNCHANGED <<order, totalVars>> BY <1>2 DEF totalVars, vars
<1> QED
  BY <1>1, <1>2 DEF PricedNext, PriceLine, QuoteShipping, OthersAsk, ServicesAnswer, allVars

\* Pricing an order line by line, with other clients at the same services, is
\* adding up amounts that were given: nothing the services do meanwhile touches
\* the sum.
THEOREM PricedIsOrderTotal == PricedSpec => Spec
<1>1. PricedInit => Init BY DEF PricedInit
<1> QED BY <1>1, OrderInvInit, OrderInvNext, PricedStep, PTL DEF PricedSpec, Spec

\* What PlaceOrder charges for an order that the services priced is worth the quote
\* and the lines, to the nano, whatever other clients had converted meanwhile.
THEOREM PricedChargeIsExact == PricedSpec => []ChargedExactly
BY PricedIsOrderTotal, ChargeIsExact, PTL

\* PlaceOrder panics over an order that the services priced only if one of the
\* answers is an amount of less than one unit.
THEOREM PricedPanicsOnlyOnFractions == PricedSpec => []PanicsOnlyOnFractions
BY PricedIsOrderTotal, WholeAmountsNeverPanic, PTL
-----------------------------------------------------------------------------
(* Recursive functions over the natural numbers.  Their existence is part  *)
(* of what is to be shown; the induction is over sets.                     *)

\* Induction over the subsets of a finite set, with the sets the induction
\* hypothesis holds of as a set.
LEMMA SubsetInduction ==
  ASSUME NEW S, IsFiniteSet(S), NEW T, {} \in T,
         \A s \in SUBSET S : s # {} /\ (\A x \in s : s \ {x} \in T) => s \in T
  PROVE  SUBSET S \subseteq T
<1> DEFINE Left == (SUBSET S) \ T
<1> SUFFICES ASSUME Left # {} PROVE FALSE OBVIOUS
<1>1. IsWellFoundedOn(StrictSubsetOrdering(S), FiniteSubsetsOf(S))
  BY FS_StrictSubsetOrderingWellFounded
<1>2. Left \subseteq FiniteSubsetsOf(S)
  BY FS_Subset DEF FiniteSubsetsOf
<1> HIDE DEF Left
<1>3. PICK m \in Left : \A y \in Left : ~ (<<y, m>> \in StrictSubsetOrdering(S))
  BY <1>1, <1>2, WFMin
<1> USE DEF Left
<1>4. \A x \in m : m \ {x} \in T
  <2> TAKE x \in m
  <2>1. m \ {x} \in SUBSET S /\ m \in SUBSET S /\ m \ {x} # m OBVIOUS
  <2>2. <<m \ {x}, m>> \in StrictSubsetOrdering(S)
    BY <2>1 DEF StrictSubsetOrdering
  <2> QED BY <1>3, <2>1, <2>2
<1> QED BY <1>4

\* A finite set of numbers has a least one.
LEMMA LeastOfFinite ==
  ASSUME NEW S \in SUBSET Nat, IsFiniteSet(S), S # {}
  PROVE  \E m \in S : \A y \in S : m <= y
<1> DEFINE T == {s \in SUBSET S : s = {} \/ \E m \in s : \A y \in s : m <= y}
<1>1. {} \in T OBVIOUS
<1>2. ASSUME NEW s \in SUBSET S, s # {}, \A x \in s : s \ {x} \in T PROVE s \in T
  <2>1. PICK x \in s : x \in Nat BY <1>2
  <2>2. s \ {x} \in T BY <1>2
  <2>3. CASE s \ {x} = {} BY <2>1, <2>3
  <2>4. CASE s \ {x} # {}
    <3>1. PICK m \in s \ {x} : m \in Nat /\ \A y \in s \ {x} : m <= y BY <2>2, <2>4
    <3>2. CASE m <= x BY <3>1, <3>2
    <3>3. CASE x <= m
      <4>1. \A y \in s : y \in Nat OBVIOUS
      <4>2. \A y \in s : x <= y BY <2>1, <3>1, <3>3, <4>1
      <4> QED BY <4>2
    <3> QED BY <2>1, <3>1, <3>2, <3>3
  <2> QED BY <2>3, <2>4
<1> HIDE DEF T
<1>3. S \in T BY <1>1, <1>2, SubsetInduction
<1> QED BY <1>3 DEF T

\* Induction over the natural numbers, with the numbers the claim holds of as a set.
LEMMA Induction ==
  ASSUME NEW T, \A i \in Nat : (\A m \in 0..(i - 1) : m \in T) => i \in T
  PROVE  \A i \in Nat : i \in T
<1> SUFFICES ASSUME NEW i \in Nat, i \notin T PROVE FALSE OBVIOUS
<1> DEFINE S == {m \in 0..i : m \notin T}
<1>1. IsFiniteSet(S)
  <2>1. IsFiniteSet(0..i) BY FS_Interval
  <2> QED BY <2>1, FS_Subset
<1>2. S \in SUBSET Nat /\ i \in S OBVIOUS
<1>3. PICK m \in S : \A y \in S : m <= y
  <2> HIDE DEF S
  <2> QED BY <1>1, <1>2, LeastOfFinite
<1>4. \A y \in 0..(m - 1) : y \in T BY <1>3
<1> QED BY <1>3, <1>4

\* A product of natural numbers is one.
LEMMA ProductIsNat == ASSUME NEW m \in Nat, NEW i \in Nat PROVE m * i \in Nat
OBVIOUS

\* The functions below are all of this kind.
Descends(p) == \A i \in Nat \ {0} : p[i] \in 0..(i - 1)

Recurs(f, p, b, c, d, N) ==
  \A i \in 0..N : f[i] = IF i = 0 THEN b ELSE c * f[p[i]] + d

\* A recursion over a smaller number determines its function.
LEMMA RecursUnique ==
  ASSUME NEW p, Descends(p),
         NEW b, NEW c, NEW d, NEW M \in Nat, NEW N \in Nat, NEW f, NEW g,
         M <= N, Recurs(f, p, b, c, d, M), Recurs(g, p, b, c, d, N)
  PROVE  \A i \in 0..M : f[i] = g[i]
<1> DEFINE T == {i \in Nat : i <= M => f[i] = g[i]}
<1>1. ASSUME NEW i \in Nat, \A m \in 0..(i - 1) : m \in T PROVE i \in T
  <2> SUFFICES ASSUME i <= M PROVE f[i] = g[i] OBVIOUS
  <2>1. /\ f[i] = IF i = 0 THEN b ELSE c * f[p[i]] + d
        /\ g[i] = IF i = 0 THEN b ELSE c * g[p[i]] + d
    BY DEF Recurs
  <2>2. CASE i = 0 BY <2>1, <2>2
  <2>3. CASE i # 0
    <3>1. p[i] \in 0..(i - 1) /\ p[i] <= M BY <2>3 DEF Descends
    <3>2. f[p[i]] = g[p[i]] BY <1>1, <3>1
    <3> QED BY <2>1, <2>3, <3>2
  <2> QED BY <2>2, <2>3
<1> HIDE DEF T
<1>2. \A i \in Nat : i \in T BY <1>1, Induction
<1> QED BY <1>2 DEF T

\* A recursion over a smaller number has a function.
LEMMA RecursExists ==
  ASSUME NEW p, Descends(p),
         NEW b \in Nat, NEW c \in Nat, NEW d \in Nat
  PROVE  \E f \in [Nat -> Nat] : \A N \in Nat : Recurs(f, p, b, c, d, N)
<1> DEFINE T == {N \in Nat : \E f \in [0..N -> Nat] : Recurs(f, p, b, c, d, N)}
<1>1. ASSUME NEW N \in Nat, \A m \in 0..(N - 1) : m \in T PROVE N \in T
  <2>1. CASE N = 0
    <3>1. Recurs([i \in 0..N |-> b], p, b, c, d, N) BY <2>1 DEF Recurs
    <3> QED BY <3>1
  <2>2. CASE N # 0
    <3>0. N - 1 \in T
      <4>1. N - 1 \in 0..(N - 1) BY <2>2
      <4> HIDE DEF T
      <4> QED BY <1>1, <4>1
    <3>1. PICK g \in [0..(N - 1) -> Nat] : Recurs(g, p, b, c, d, N - 1) BY <3>0
    <3> DEFINE f == [i \in 0..N |-> IF i = N THEN c * g[p[N]] + d ELSE g[i]]
    <3>2. p[N] \in 0..(N - 1) BY <2>2 DEF Descends
    <3>3. f \in [0..N -> Nat]
      <4>1. g[p[N]] \in Nat BY <3>1, <3>2
      <4>2. PICK v \in Nat : v = g[p[N]] BY <4>1
      <4>3. c * v \in Nat BY ProductIsNat
      <4>4. c * g[p[N]] + d \in Nat BY <4>2, <4>3
      <4>5. \A i \in 0..N : i # N => i \in 0..(N - 1) OBVIOUS
      <4> QED BY <4>4, <4>5
    <3>4. ASSUME NEW i \in 0..N
          PROVE  f[i] = IF i = 0 THEN b ELSE c * f[p[i]] + d
      <4>1. CASE i = N
        <5>1. f[p[N]] = g[p[N]] BY <3>2
        <5> QED BY <2>2, <4>1, <5>1
      <4>2. CASE i # N
        <5>1. i \in 0..(N - 1) BY <4>2
        <5>2. g[i] = IF i = 0 THEN b ELSE c * g[p[i]] + d BY <3>1, <5>1 DEF Recurs
        <5>3. i # 0 => f[p[i]] = g[p[i]]
          <6>1. i # 0 => p[i] \in 0..(i - 1) BY <5>1 DEF Descends
          <6> QED BY <5>1, <6>1
        <5> QED BY <4>2, <5>1, <5>2, <5>3
      <4> QED BY <4>1, <4>2
    <3> HIDE DEF f
    <3>5. Recurs(f, p, b, c, d, N) BY <3>4 DEF Recurs
    <3> QED BY <3>3, <3>5
  <2> QED BY <2>1, <2>2
<1> HIDE DEF T
<1>2. \A N \in Nat : N \in T BY <1>1, Induction
<1> DEFINE upTo == [N \in Nat |-> CHOOSE f \in [0..N -> Nat] : Recurs(f, p, b, c, d, N)]
           f == [i \in Nat |-> upTo[i][i]]
<1>3. ASSUME NEW N \in Nat PROVE upTo[N] \in [0..N -> Nat] /\ Recurs(upTo[N], p, b, c, d, N)
  <2>1. \E g \in [0..N -> Nat] : Recurs(g, p, b, c, d, N) BY <1>2 DEF T
  <2>2. upTo[N] = CHOOSE g \in [0..N -> Nat] : Recurs(g, p, b, c, d, N) OBVIOUS
  <2> QED BY <2>1, <2>2
<1> HIDE DEF upTo
<1>4. f \in [Nat -> Nat]
  <2>1. ASSUME NEW i \in Nat PROVE upTo[i][i] \in Nat
    <3>1. i \in 0..i /\ upTo[i] \in [0..i -> Nat] BY <1>3
    <3> QED BY <3>1
  <2> QED BY <2>1
<1>5. ASSUME NEW i \in Nat
      PROVE  f[i] = IF i = 0 THEN b ELSE c * f[p[i]] + d
  <2>1. upTo[i][i] = IF i = 0 THEN b ELSE c * upTo[i][p[i]] + d
    <3>1. i \in 0..i OBVIOUS
    <3>2. Recurs(upTo[i], p, b, c, d, i) BY <1>3
    <3> QED BY <3>1, <3>2 DEF Recurs
  <2>2. i # 0 => upTo[i][p[i]] = f[p[i]]
    <3> SUFFICES ASSUME i # 0 PROVE upTo[i][p[i]] = f[p[i]] OBVIOUS
    <3>1. p[i] \in 0..(i - 1) /\ p[i] \in Nat /\ p[i] <= i BY DEF Descends
    <3>2. PICK k \in Nat : k = p[i] BY <3>1
    <3>3. Recurs(upTo[k], p, b, c, d, k) /\ Recurs(upTo[i], p, b, c, d, i) BY <1>3
    <3>4. \A m \in 0..k : upTo[k][m] = upTo[i][m]
      <4>1. k <= i BY <3>1, <3>2
      <4> QED BY <3>3, <4>1, RecursUnique
    <3>5. k \in 0..k BY <3>2
    <3> QED BY <3>1, <3>2, <3>4, <3>5
  <2> QED BY <2>1, <2>2
<1> HIDE DEF f
<1>6. \A N \in Nat : Recurs(f, p, b, c, d, N) BY <1>5 DEF Recurs
<1> QED BY <1>4, <1>6, Zenon

-----------------------------------------------------------------------------
(* Powers of ten, and the loop of getDouble.                               *)

\* The powers of ten are what their recursion says.
LEMMA TensAt ==
  /\ Tens \in [Nat -> Nat] /\ Tens[0] = 1
  /\ \A k \in Nat : Tens[k + 1] = 10 * Tens[k]
<1> DEFINE p == [i \in Nat |-> IF i = 0 THEN 0 ELSE i - 1]
           Solves(f) == f = [k \in Nat |-> IF k = 0 THEN 1 ELSE 10 * f[k - 1]]
<1>1. PICK f \in [Nat -> Nat] : \A N \in Nat : Recurs(f, p, 1, 10, 0, N)
  <2>1. Descends(p) BY DEF Descends
  <2>2. 0 \in Nat /\ 1 \in Nat /\ 10 \in Nat OBVIOUS
  <2> HIDE DEF p
  <2> QED BY <2>1, <2>2, RecursExists, Zenon
<1>2. Solves(f)
  <2> SUFFICES ASSUME NEW k \in Nat
               PROVE  f[k] = IF k = 0 THEN 1 ELSE 10 * f[k - 1]
    BY <1>1
  <2>0. Recurs(f, p, 1, 10, 0, k) /\ k \in 0..k BY <1>1
  <2>1. f[k] = IF k = 0 THEN 1 ELSE 10 * f[p[k]] + 0 BY <2>0 DEF Recurs
  <2>2. k # 0 => p[k] = k - 1 /\ k - 1 \in Nat OBVIOUS
  <2>3. k # 0 => f[k - 1] \in Nat BY <1>1, <2>2
  <2> QED BY <2>1, <2>2, <2>3
<1>3. Tens = CHOOSE g : Solves(g) BY Zenon DEF Tens
<1>4. Solves(Tens) BY <1>2, <1>3
<1> HIDE DEF p
<1>5. DOMAIN Tens = Nat BY <1>4
<1>6. \A k \in Nat : Tens[k] = IF k = 0 THEN 1 ELSE 10 * Tens[k - 1] BY <1>4
<1>7. Tens[0] = 1 BY <1>6
<1>8. \A k \in Nat : Tens[k + 1] = 10 * Tens[k]
  <2> TAKE k \in Nat
  <2>1. k + 1 \in Nat /\ k + 1 # 0 /\ (k + 1) - 1 = k OBVIOUS
  <2> QED BY <1>6, <2>1
<1>9. \A k \in Nat : Tens[k] \in Nat
  <2> DEFINE T == {k \in Nat : Tens[k] \in Nat}
  <2>1. ASSUME NEW k \in Nat, \A m \in 0..(k - 1) : m \in T PROVE k \in T
    <3>1. CASE k = 0 BY <1>7, <3>1
    <3>2. CASE k # 0
      <4>1. k - 1 \in 0..(k - 1) /\ k - 1 \in Nat BY <3>2
      <4>2. Tens[k - 1] \in Nat BY <2>1, <4>1
      <4>3. Tens[k] = 10 * Tens[k - 1] BY <1>6, <3>2
      <4> QED BY <4>2, <4>3
    <3> QED BY <3>1, <3>2
  <2> HIDE DEF T
  <2>2. \A k \in Nat : k \in T BY <2>1, Induction
  <2> QED BY <2>2 DEF T
<1>10. Tens \in [Nat -> Nat]
  <2>1. Tens = [k \in Nat |-> Tens[k]] BY <1>4
  <2> QED BY <1>9, <2>1
<1> QED BY <1>7, <1>8, <1>10

\* The rounds of the loop that counts digits are what their recursion says.
LEMMA LoopsAt ==
  /\ Loops \in [Nat -> Nat] /\ Loops[0] = 0
  /\ \A i \in Nat \ {0} : Loops[i] = Loops[i \div 10] + 1
<1> DEFINE p == [i \in Nat |-> i \div 10]
           Solves(f) == f = [i \in Nat |-> IF i = 0 THEN 0 ELSE 1 + f[i \div 10]]
<1>1. PICK f \in [Nat -> Nat] : \A N \in Nat : Recurs(f, p, 0, 1, 1, N)
  <2>1. Descends(p) BY DEF Descends
  <2>2. 0 \in Nat /\ 1 \in Nat /\ 10 \in Nat OBVIOUS
  <2> HIDE DEF p
  <2> QED BY <2>1, <2>2, RecursExists, Zenon
<1>2. Solves(f)
  <2> SUFFICES ASSUME NEW i \in Nat
               PROVE  f[i] = IF i = 0 THEN 0 ELSE 1 + f[i \div 10]
    BY <1>1
  <2>0. Recurs(f, p, 0, 1, 1, i) /\ i \in 0..i BY <1>1
  <2>1. f[i] = IF i = 0 THEN 0 ELSE 1 * f[p[i]] + 1 BY <2>0 DEF Recurs
  <2>2. p[i] = i \div 10 /\ i \div 10 \in Nat OBVIOUS
  <2>3. f[i \div 10] \in Nat BY <1>1, <2>2
  <2> QED BY <2>1, <2>2, <2>3
<1>3. Loops = CHOOSE g : Solves(g) BY Zenon DEF Loops
<1>4. Solves(Loops) BY <1>2, <1>3
<1> HIDE DEF p
<1>6. \A i \in Nat : Loops[i] = IF i = 0 THEN 0 ELSE 1 + Loops[i \div 10] BY <1>4
<1>7. Loops[0] = 0 BY <1>6
<1>9. \A i \in Nat : Loops[i] \in Nat
  <2> DEFINE T == {i \in Nat : Loops[i] \in Nat}
  <2>1. ASSUME NEW i \in Nat, \A m \in 0..(i - 1) : m \in T PROVE i \in T
    <3>1. CASE i = 0 BY <1>7, <3>1
    <3>2. CASE i # 0
      <4>1. i \div 10 \in 0..(i - 1) BY <3>2
      <4>2. Loops[i \div 10] \in Nat BY <2>1, <4>1
      <4>3. Loops[i] = 1 + Loops[i \div 10] BY <1>6, <3>2
      <4> QED BY <4>2, <4>3
    <3> QED BY <3>1, <3>2
  <2> HIDE DEF T
  <2>2. \A i \in Nat : i \in T BY <2>1, Induction
  <2> QED BY <2>2 DEF T
<1>10. Loops \in [Nat -> Nat]
  <2>1. Loops = [i \in Nat |-> Loops[i]] BY <1>4
  <2> QED BY <1>9, <2>1
<1>11. \A i \in Nat \ {0} : Loops[i] = Loops[i \div 10] + 1
  <2> TAKE i \in Nat \ {0}
  <2>1. i \div 10 \in Nat /\ Loops[i] = 1 + Loops[i \div 10] BY <1>6
  <2>2. Loops[i \div 10] \in Nat BY <1>9, <2>1
  <2> QED BY <2>1, <2>2
<1> QED BY <1>7, <1>10, <1>11

\* A power of ten is positive.
LEMMA TensPositive == \A k \in Nat : Tens[k] \in Nat /\ Tens[k] >= 1
<1> DEFINE T == {k \in Nat : Tens[k] >= 1}
<1>1. ASSUME NEW k \in Nat, \A m \in 0..(k - 1) : m \in T PROVE k \in T
  <2>1. CASE k = 0 BY <2>1, TensAt
  <2>2. CASE k # 0
    <3>1. k - 1 \in 0..(k - 1) /\ k - 1 \in Nat /\ (k - 1) + 1 = k BY <2>2
    <3>2. Tens[k] = 10 * Tens[k - 1] /\ Tens[k - 1] \in Nat BY <3>1, TensAt
    <3>3. Tens[k - 1] >= 1 BY <1>1, <3>1
    <3> QED BY <3>2, <3>3
  <2> QED BY <2>1, <2>2
<1> HIDE DEF T
<1>2. \A k \in Nat : k \in T BY <1>1, Induction
<1> QED BY <1>2, TensAt DEF T

\* The powers of ten multiply.
LEMMA TensAdd == \A a, b \in Nat : Tens[a + b] = Tens[a] * Tens[b]
<1> SUFFICES ASSUME NEW a \in Nat PROVE \A b \in Nat : Tens[a + b] = Tens[a] * Tens[b]
  OBVIOUS
<1> DEFINE T == {b \in Nat : Tens[a + b] = Tens[a] * Tens[b]}
<1>1. ASSUME NEW b \in Nat, \A m \in 0..(b - 1) : m \in T PROVE b \in T
  <2>1. CASE b = 0
    <3>1. a + b = a /\ Tens[b] = 1 /\ Tens[a] \in Nat BY <2>1, TensAt
    <3>2. PICK t \in Nat : t = Tens[a] BY <3>1
    <3>3. t * 1 = t OBVIOUS
    <3> QED BY <3>1, <3>2, <3>3
  <2>2. CASE b # 0
    <3>1. b - 1 \in 0..(b - 1) /\ b - 1 \in Nat /\ (b - 1) + 1 = b
          /\ a + b = (a + (b - 1)) + 1 /\ a + (b - 1) \in Nat
      BY <2>2
    <3>2. Tens[a + b] = 10 * Tens[a + (b - 1)] /\ Tens[b] = 10 * Tens[b - 1]
      BY <3>1, TensAt
    <3>3. Tens[a + (b - 1)] = Tens[a] * Tens[b - 1] BY <1>1, <3>1
    <3>4. PICK s \in Nat, t \in Nat : s = Tens[a] /\ t = Tens[b - 1] BY <3>1, TensAt
    <3>5. 10 * (s * t) = s * (10 * t) OBVIOUS
    <3> QED BY <3>2, <3>3, <3>4, <3>5
  <2> QED BY <2>1, <2>2
<1> HIDE DEF T
<1>2. \A b \in Nat : b \in T BY <1>1, Induction
<1> QED BY <1>2 DEF T

\* The powers of ten grow tenfold.
LEMMA TensGrow ==
  ASSUME NEW a \in Nat, NEW b \in Nat, a < b
  PROVE  10 * Tens[a] <= Tens[b]
<1>1. b - (a + 1) \in Nat /\ a + 1 \in Nat /\ b = (a + 1) + (b - (a + 1)) OBVIOUS
<1>2. Tens[b] = Tens[a + 1] * Tens[b - (a + 1)] BY <1>1, TensAdd
<1>3. PICK s \in Nat, t \in Nat :
        s = Tens[a + 1] /\ t = Tens[b - (a + 1)] /\ t >= 1
  BY <1>1, TensPositive
<1>4. s <= s * t BY <1>3
<1>5. Tens[a + 1] = 10 * Tens[a] BY TensAt
<1> QED BY <1>2, <1>3, <1>4, <1>5

\* The loop divides once for each digit.
LEMMA LoopsAreDigits ==
  \A i \in Nat \ {0} : i < Tens[Loops[i]] /\ Tens[Loops[i]] <= 10 * i
<1> DEFINE T == {i \in Nat : i # 0 => i < Tens[Loops[i]] /\ Tens[Loops[i]] <= 10 * i}
<1>1. ASSUME NEW i \in Nat, \A m \in 0..(i - 1) : m \in T PROVE i \in T
  <2> SUFFICES ASSUME i # 0 PROVE i < Tens[Loops[i]] /\ Tens[Loops[i]] <= 10 * i
    OBVIOUS
  <2> DEFINE m == i \div 10
  <2>1. m \in 0..(i - 1) /\ m \in Nat /\ 10 * m <= i /\ i <= 10 * m + 9 OBVIOUS
  <2>2. Loops[i] = Loops[m] + 1 /\ Loops[m] \in Nat BY <2>1, LoopsAt
  <2>3. Tens[Loops[i]] = 10 * Tens[Loops[m]] /\ Tens[Loops[m]] \in Nat
    BY <2>2, TensAt
  <2>4. CASE m = 0
    <3>1. Tens[Loops[m]] = 1 BY <2>4, LoopsAt, TensAt
    <3> QED BY <2>1, <2>3, <2>4, <3>1
  <2>5. CASE m # 0
    <3>1. m < Tens[Loops[m]] /\ Tens[Loops[m]] <= 10 * m
      <4>1. m \in T BY <1>1, <2>1
      <4> QED BY <2>5, <4>1
    <3> HIDE DEF m
    <3> QED BY <2>1, <2>3, <3>1
  <2> QED BY <2>4, <2>5
<1> HIDE DEF T
<1>2. \A i \in Nat : i \in T BY <1>1, Induction
<1> QED BY <1>2 DEF T

\* Amounts as the services exchange them.
Plain(m) == m.units \in Nat /\ m.nanos \in 0..(NanosMod - 1)

\* getDouble gives what the amount is worth, unless its decimals start with a zero:
\* then more, by less than one unit.
LEMMA ReadsDecimals ==
  ASSUME NEW m, Plain(m)
  PROVE  /\ getDouble(m) \in Nat /\ Worth(m) \in Nat
         /\ HasLeadingZero(m) =>
              Worth(m) < getDouble(m) /\ getDouble(m) < Worth(m) + NanosMod
         /\ ~HasLeadingZero(m) => getDouble(m) = Worth(m)
<1> USE NanosModAssumption, DigitsAssumption
<1>1. PICK u \in Nat, i \in Nat : u = m.units /\ i = m.nanos /\ i < NanosMod
  BY DEF Plain
<1>2. PICK U \in Nat : U = u * NanosMod BY ProductIsNat
<1>3. CASE i = 0
  <2>1. getDouble(m) = U + 0 * Tens[Digits] /\ Worth(m) = U + 0
    <3>1. Digits - 0 = Digits OBVIOUS
    <3> QED BY <1>1, <1>2, <1>3, <3>1, LoopsAt DEF getDouble, Worth
  <2>2. Tens[Digits] \in Nat BY TensAt
  <2>3. ~HasLeadingZero(m) BY <1>1, <1>3 DEF HasLeadingZero
  <2> QED BY <1>2, <2>1, <2>2, <2>3
<1>4. CASE i # 0
  <2> DEFINE l == Loops[i]
  <2>1. l \in Nat /\ i < Tens[l] /\ Tens[l] <= 10 * i /\ Tens[l] \in Nat
    BY <1>4, LoopsAt, LoopsAreDigits, TensAt
  <2>2. getDouble(m) = U + i * Tens[Digits - l] /\ Worth(m) = U + i
    BY <1>1, <1>2 DEF getDouble, Worth
  <2> HIDE DEF l
  <2>3. l <= Digits
    <3> SUFFICES ASSUME Digits < l PROVE FALSE BY <2>1
    <3>1. 10 * NanosMod <= Tens[l] BY <2>1, TensGrow
    <3> QED BY <1>1, <2>1, <3>1
  <2>4. PICK k \in Nat : k = Digits - l BY <2>1, <2>3
  <2>5. PICK s \in Nat, t \in Nat : s = Tens[l] /\ t = Tens[k] /\ t >= 1
    BY <2>1, TensPositive
  <2>6. NanosMod = s * t
    <3>1. l + k = Digits BY <2>1, <2>4
    <3> QED BY <2>1, <2>5, <3>1, TensAdd
  <2>7. i < s /\ s <= 10 * i BY <2>1, <2>5
  <2>8. PICK d \in Nat : d = i * t BY ProductIsNat
  <2>9. d < NanosMod BY <1>4, <2>5, <2>6, <2>7, <2>8
  <2>10. getDouble(m) = U + d BY <2>2, <2>4, <2>5, <2>8
  <2>11. CASE 10 * i < NanosMod
    <3>1. HasLeadingZero(m) BY <1>1, <1>4, <2>11 DEF HasLeadingZero
    <3>2. l < Digits
      <4> SUFFICES ASSUME l = Digits PROVE FALSE BY <2>1, <2>3
      <4> QED BY <2>1, <2>11
    <3>3. t >= 10
      <4>1. k > 0 BY <2>1, <2>4, <3>2
      <4>2. 10 * Tens[0] <= Tens[k] BY <4>1, TensGrow
      <4> QED BY <2>5, <4>2, TensAt
    <3>4. d > i BY <1>4, <2>8, <3>3
    <3> QED BY <1>2, <2>2, <2>8, <2>9, <2>10, <3>1, <3>4
  <2>12. CASE ~(10 * i < NanosMod)
    <3>1. ~HasLeadingZero(m) BY <1>1, <2>12 DEF HasLeadingZero
    <3>2. l = Digits
      <4> SUFFICES ASSUME l < Digits PROVE FALSE BY <2>1, <2>3
      <4>1. 10 * Tens[l] <= Tens[Digits] BY <2>1, TensGrow
      <4> QED BY <2>1, <2>12, <4>1
    <3>3. t = 1 BY <2>1, <2>4, <2>5, <3>2, TensAt
    <3>4. d = i BY <2>8, <3>3
    <3> QED BY <1>2, <2>2, <2>8, <2>10, <3>1, <3>4
  <2> QED BY <2>11, <2>12
<1> QED BY <1>3, <1>4

-----------------------------------------------------------------------------
(* Folds: what TotalOf and ItemCount give for any lines.                   *)

First(s) == CHOOSE x \in s : TRUE

\* g is what the library's fold computes for the subsets of S.
Adds(f, S, g) ==
  g = [s \in SUBSET S |-> IF s = {} THEN 0 ELSE g[s \ {First(s)}] + f[First(s)]]

\* The first of a set is in it.
LEMMA FirstIn == ASSUME NEW s, s # {} PROVE First(s) \in s
BY DEF First

\* What a sum over subsets is, one term at a time.
LEMMA AddsAt ==
  ASSUME NEW f, NEW S, NEW g, Adds(f, S, g)
  PROVE  /\ g[{}] = 0
         /\ \A s \in SUBSET S : s # {} => g[s] = g[s \ {First(s)}] + f[First(s)]
BY DEF Adds

\* Such a sum is an integer.
LEMMA AddsInt ==
  ASSUME NEW f, NEW S, IsFiniteSet(S), NEW g, Adds(f, S, g),
         \A x \in S : f[x] \in Int
  PROVE  \A s \in SUBSET S : g[s] \in Int
<1> DEFINE T == {s \in SUBSET S : g[s] \in Int}
<1>1. {} \in T BY AddsAt
<1>2. ASSUME NEW s \in SUBSET S, s # {}, \A x \in s : s \ {x} \in T PROVE s \in T
  <2>1. First(s) \in s BY <1>2, FirstIn
  <2>2. g[s] = g[s \ {First(s)}] + f[First(s)] BY <1>2, AddsAt
  <2>3. f[First(s)] \in Int /\ g[s \ {First(s)}] \in Int BY <1>2, <2>1
  <2> QED BY <2>2, <2>3
<1> HIDE DEF T
<1>3. SUBSET S \subseteq T BY <1>1, <1>2, SubsetInduction
<1> QED BY <1>3 DEF T

Agree(S, g, h) == \A s \in SUBSET S : g[s] = h[s]

\* The fold agrees with any other on the sets both are for.
LEMMA AddsAgree ==
  ASSUME NEW f, NEW S, IsFiniteSet(S), NEW R, NEW g, NEW h, S \subseteq R,
         Adds(f, S, g), Adds(f, R, h)
  PROVE  Agree(S, g, h)
<1> DEFINE T == {s \in SUBSET S : g[s] = h[s]}
<1>g. \A s \in SUBSET S : s # {} => g[s] = g[s \ {First(s)}] + f[First(s)]
  BY DEF Adds
<1>h. \A s \in SUBSET R : s # {} => h[s] = h[s \ {First(s)}] + f[First(s)]
  BY DEF Adds
<1>1. {} \in T BY AddsAt
<1>2. ASSUME NEW s \in SUBSET S, s # {}, \A x \in s : s \ {x} \in T PROVE s \in T
  <2>1. First(s) \in s BY <1>2, FirstIn
  <2>2. g[s] = g[s \ {First(s)}] + f[First(s)] BY <1>2, <1>g
  <2>3. h[s] = h[s \ {First(s)}] + f[First(s)] BY <1>2, <1>h
  <2>4. g[s \ {First(s)}] = h[s \ {First(s)}] BY <1>2, <2>1
  <2> QED BY <2>2, <2>3, <2>4
<1> HIDE DEF T
<1>3. SUBSET S \subseteq T BY <1>1, <1>2, SubsetInduction
<1> QED BY <1>3 DEF T, Agree

\* Any element may be the one added last.
InAnyOrder(f, S, g) == \A s \in SUBSET S : \A x \in s : g[s] = g[s \ {x}] + f[x]

\* It may be taken in any order.
LEMMA AddsAny ==
  ASSUME NEW f, NEW S, IsFiniteSet(S), NEW g, Adds(f, S, g),
         \A x \in S : f[x] \in Int
  PROVE  InAnyOrder(f, S, g)
<1> DEFINE T == {s \in SUBSET S : \A x \in s : g[s] = g[s \ {x}] + f[x]}
<1>1. {} \in T OBVIOUS
<1>2. ASSUME NEW s \in SUBSET S, s # {}, \A x \in s : s \ {x} \in T PROVE s \in T
  <2> DEFINE y == First(s)
  <2>1. y \in s BY <1>2, FirstIn
  <2>2. g[s] = g[s \ {y}] + f[y] BY <1>2, AddsAt
  <2> HIDE DEF y
  <2> SUFFICES ASSUME NEW x \in s, x # y PROVE g[s] = g[s \ {x}] + f[x]
    BY <2>2
  <2>3. g[s \ {y}] = g[(s \ {y}) \ {x}] + f[x] BY <1>2, <2>1
  <2>4. g[s \ {x}] = g[(s \ {x}) \ {y}] + f[y] BY <1>2, <2>1
  <2>5. (s \ {x}) \ {y} = (s \ {y}) \ {x} /\ (s \ {x}) \ {y} \in SUBSET S OBVIOUS
  <2>6. f[x] \in Int /\ f[y] \in Int /\ g[(s \ {x}) \ {y}] \in Int
    BY <2>1, <2>5, AddsInt
  <2>7. g[s] = (g[(s \ {x}) \ {y}] + f[x]) + f[y] BY <2>2, <2>3, <2>5
  <2> QED BY <2>4, <2>6, <2>7
<1> HIDE DEF T
<1>3. SUBSET S \subseteq T BY <1>1, <1>2, SubsetInduction
<1> QED BY <1>3 DEF T, InAnyOrder

Fold(f, S) == CHOOSE g : Adds(f, S, g)

\* There is such a function.
LEMMA AddsExists ==
  ASSUME NEW f, NEW S, IsFiniteSet(S)
  PROVE  Adds(f, S, Fold(f, S))
<1> DEFINE T == {s \in SUBSET S : \A r \in SUBSET s : Adds(f, r, Fold(f, r))}
<1>1. {} \in T
  <2>1. Adds(f, {}, [s \in SUBSET {} |-> 0]) BY DEF Adds
  <2>2. Adds(f, {}, Fold(f, {})) BY <2>1 DEF Fold
  <2> QED BY <2>2
<1>2. ASSUME NEW s \in SUBSET S, s # {}, \A x \in s : s \ {x} \in T PROVE s \in T
  <2>1. \A r \in SUBSET s : r # s => Adds(f, r, Fold(f, r))
    <3> SUFFICES ASSUME NEW r \in SUBSET s, r # s PROVE Adds(f, r, Fold(f, r)) OBVIOUS
    <3>1. PICK x \in s : x \notin r OBVIOUS
    <3>2. r \in SUBSET (s \ {x}) BY <3>1
    <3> QED BY <1>2, <3>2
  <2> DEFINE value(r) == Fold(f, r)[r]
             g == [r \in SUBSET s |->
                     IF r = {} THEN 0 ELSE value(r \ {First(r)}) + f[First(r)]]
  <2>2. \A r \in SUBSET s : r # s => g[r] = value(r)
    <3> SUFFICES ASSUME NEW r \in SUBSET s, r # s PROVE g[r] = value(r) OBVIOUS
    <3>1. Adds(f, r, Fold(f, r)) BY <2>1
    <3>2. CASE r = {} BY <3>1, <3>2, AddsAt
    <3>3. CASE r # {}
      <4> DEFINE t == r \ {First(r)}
      <4>1. value(r) = Fold(f, r)[t] + f[First(r)] BY <3>1, <3>3, AddsAt
      <4>2. t \in SUBSET r /\ t \in SUBSET s /\ t # s BY <3>3, FirstIn
      <4>3. IsFiniteSet(t) BY <4>2, FS_Subset
      <4>4. Adds(f, t, Fold(f, t)) BY <2>1, <4>2
      <4> HIDE DEF t
      <4>5. Fold(f, t)[t] = Fold(f, r)[t]
        <5>1. Agree(t, Fold(f, t), Fold(f, r)) BY <3>1, <4>2, <4>3, <4>4, AddsAgree
        <5> QED BY <5>1 DEF Agree
      <4>6. g[r] = Fold(f, t)[t] + f[First(r)] BY <3>3 DEF t
      <4> QED BY <4>1, <4>5, <4>6
    <3> QED BY <3>2, <3>3
  <2>3. \A r \in SUBSET s : r # {} =>
          r \ {First(r)} \in SUBSET s /\ r \ {First(r)} # s
    BY FirstIn
  <2>4. g = [r \in SUBSET s |->
                     IF r = {} THEN 0 ELSE g[r \ {First(r)}] + f[First(r)]]
    <3> HIDE DEF value
    <3>1. \A r \in SUBSET s : r # {} => value(r \ {First(r)}) = g[r \ {First(r)}]
      BY <2>2, <2>3
    <3> QED BY <3>1
  <2> HIDE DEF g
  <2>5. Adds(f, s, g) BY <2>4 DEF Adds
  <2>6. Adds(f, s, Fold(f, s)) BY <2>5 DEF Fold
  <2> QED BY <2>1, <2>6
<1> HIDE DEF T
<1>3. SUBSET S \subseteq T BY <1>1, <1>2, SubsetInduction
<1> QED BY <1>3 DEF T

\* What the functions of a set's elements add up to.
SumOf(f, S) == Fold(f, S)[S]

\* The total of a function is the sum over its domain.
LEMMA TotalIsSum ==
  ASSUME NEW f, IsFiniteSet(DOMAIN f)
  PROVE  TotalOf(f) = SumOf(f, DOMAIN f)
<1>1. \E h : Adds(f, DOMAIN f, h) /\ TotalOf(f) = h[DOMAIN f]
  <2>1. \E h : Adds(f, DOMAIN f, h) BY AddsExists
  <2> QED BY <2>1, Zenon DEF Adds, First, TotalOf, FoldFunction, FoldFunctionOnSet, MapThenFoldSet
<1>2. PICK h : Adds(f, DOMAIN f, h) /\ TotalOf(f) = h[DOMAIN f] BY <1>1
<1> QED BY <1>2, AddsExists, AddsAgree DEF SumOf, Agree

\* The fold satisfies the equation of the sum.
LEMMA FoldAt ==
  ASSUME NEW f, NEW S, IsFiniteSet(S), NEW g, g = Fold(f, S)
  PROVE  \A s \in SUBSET S : s # {} => g[s] = g[s \ {First(s)}] + f[First(s)]
<1>1. Adds(f, S, g) BY AddsExists
<1> QED BY <1>1 DEF Adds

\* A sum of no terms is 0.
LEMMA SumEmpty == ASSUME NEW f PROVE SumOf(f, {}) = 0
<1>1. IsFiniteSet({}) BY FS_EmptySet
<1> QED BY <1>1, AddsExists, AddsAt DEF SumOf

\* A sum of integers is one.
LEMMA SumInt ==
  ASSUME NEW f, NEW S, IsFiniteSet(S), \A x \in S : f[x] \in Int
  PROVE  SumOf(f, S) \in Int
BY AddsExists, AddsInt DEF SumOf

\* A term more adds its value to the sum.
LEMMA SumOneMore ==
  ASSUME NEW f, NEW s, IsFiniteSet(s), NEW x, x \notin s,
         f[x] \in Int, \A y \in s : f[y] \in Int
  PROVE  SumOf(f, s \cup {x}) = SumOf(f, s) + f[x]
<1> DEFINE S == s \cup {x}
<1>1. IsFiniteSet(S) BY FS_AddElement
<1>2. S \ {x} = s /\ s \subseteq S /\ \A y \in S : f[y] \in Int OBVIOUS
<1>3. Adds(f, S, Fold(f, S)) /\ Adds(f, s, Fold(f, s)) BY <1>1, AddsExists
<1>4. Fold(f, s)[s] = Fold(f, S)[s]
  <2> HIDE DEF S
  <2>1. s \subseteq S BY <1>2
  <2>2. PICK g, h : g = Fold(f, s) /\ h = Fold(f, S) OBVIOUS
  <2>3. Adds(f, s, g) /\ Adds(f, S, h) BY <1>3, <2>2
  <2>4. Agree(s, g, h) BY <2>1, <2>3, AddsAgree
  <2> QED BY <2>2, <2>4 DEF Agree
<1>5. Fold(f, S)[S] = Fold(f, S)[S \ {x}] + f[x]
  <2>1. x \in S /\ S \in SUBSET S OBVIOUS
  <2> HIDE DEF S
  <2>2. PICK g : g = Fold(f, S) OBVIOUS
  <2>3. Adds(f, S, g) BY <1>3, <2>2
  <2>4. InAnyOrder(f, S, g) BY <1>1, <1>2, <2>3, AddsAny
  <2> QED BY <2>1, <2>2, <2>4 DEF InAnyOrder
<1> QED BY <1>2, <1>4, <1>5 DEF SumOf

\* A remainder is determined by its range.
LEMMA ModUnique ==
  ASSUME NEW M \in Nat \ {0}, NEW a \in Int, NEW r \in 0..(M - 1), NEW q \in Int,
         a = M * q + r
  PROVE  a % M = r
<1>1. a = M * (a \div M) + (a % M) /\ a % M \in 0..(M - 1) /\ a \div M \in Int OBVIOUS
<1>2. PICK p \in Int, v \in 0..(M - 1) : p = a \div M /\ v = a % M BY <1>1
<1>3. M * p + v = M * q + r BY <1>1, <1>2
<1>4. v - r = M * (q - p) BY <1>3
<1>5. PICK z \in Int : z = q - p OBVIOUS
<1>6. v - r = M * z BY <1>4, <1>5
<1>7. CASE z >= 1
  <2>1. M * z >= M BY <1>7
  <2> QED BY <1>6, <2>1
<1>8. CASE z <= -1
  <2>1. M * z <= -M BY <1>8
  <2> QED BY <1>6, <2>1
<1>9. CASE z = 0 BY <1>2, <1>6, <1>9
<1> QED BY <1>7, <1>8, <1>9

\* Remainders may be added before or after they are taken.
LEMMA ModAdds ==
  ASSUME NEW M \in Nat \ {0}, NEW a \in Int, NEW b \in Int
  PROVE  ((a % M) + (b % M)) % M = (a + b) % M
<1>1. /\ a = M * (a \div M) + (a % M) /\ a % M \in 0..(M - 1) /\ a \div M \in Int
      /\ b = M * (b \div M) + (b % M) /\ b % M \in 0..(M - 1) /\ b \div M \in Int
  OBVIOUS
<1>2. PICK p \in Int, q \in Int, u \in 0..(M - 1), v \in 0..(M - 1) :
        p = a \div M /\ u = a % M /\ q = b \div M /\ v = b % M
  BY <1>1
<1>3. a = M * p + u /\ b = M * q + v BY <1>1, <1>2
<1>4. PICK z \in Int, w \in 0..(M - 1) : u + v = M * z + w /\ (u + v) % M = w
  <2>1. u + v \in Int OBVIOUS
  <2>2. /\ u + v = M * ((u + v) \div M) + ((u + v) % M)
        /\ (u + v) % M \in 0..(M - 1) /\ (u + v) \div M \in Int
    BY <2>1
  <2> QED BY <2>2
<1>5. a + b = M * (p + q + z) + w BY <1>3, <1>4
<1>6. p + q + z \in Int /\ a + b \in Int OBVIOUS
<1>7. (a + b) % M = w BY <1>5, <1>6, ModUnique
<1> QED BY <1>2, <1>4, <1>7

\* The word that counts items has a positive modulus.
LEMMA WordOfItems == U32Mod \in Nat \ {0}
BY QuotesAssumption

\* As ItemCount adds up: every sum wraps.
Counts(f, S, g) ==
  g = [s \in SUBSET S |->
         IF s = {} THEN 0
         ELSE (g[s \ {First(s)}] + (f[First(s)] % U32Mod)) % U32Mod]

\* What the wrapping count of items is, one line at a time.
LEMMA CountsAt ==
  ASSUME NEW f, NEW S, NEW g, Counts(f, S, g)
  PROVE  /\ g[{}] = 0
         /\ \A s \in SUBSET S : s # {} =>
              g[s] = (g[s \ {First(s)}] + (f[First(s)] % U32Mod)) % U32Mod
BY DEF Counts

\* Wrapping all the way is wrapping in the end.
LEMMA CountsWrap ==
  ASSUME NEW f, NEW S, IsFiniteSet(S), \A x \in S : f[x] \in Int,
         NEW g, Counts(f, S, g)
  PROVE  \A s \in SUBSET S : g[s] = Fold(f, S)[s] % U32Mod
<1> DEFINE T == {s \in SUBSET S : g[s] = Fold(f, S)[s] % U32Mod}
<1>1. PICK h : h = Fold(f, S) OBVIOUS
<1>2. Adds(f, S, h) BY <1>1, AddsExists
<1>3. \A s \in SUBSET S : h[s] \in Int BY <1>2, AddsInt
<1>h. \A s \in SUBSET S : s # {} => h[s] = h[s \ {First(s)}] + f[First(s)]
  BY <1>2 DEF Adds
<1>g. \A s \in SUBSET S : s # {} =>
        g[s] = (g[s \ {First(s)}] + (f[First(s)] % U32Mod)) % U32Mod
  BY DEF Counts
<1>4. {} \in T
  <2>1. h[{}] = 0 /\ g[{}] = 0 BY <1>2, AddsAt, CountsAt
  <2>2. 0 % U32Mod = 0 BY QuotesAssumption
  <2> QED BY <1>1, <2>1, <2>2
<1>5. ASSUME NEW s \in SUBSET S, s # {}, \A x \in s : s \ {x} \in T PROVE s \in T
  <2>1. First(s) \in s /\ First(s) \in S BY <1>5, FirstIn
  <2>2. h[s] = h[s \ {First(s)}] + f[First(s)] BY <1>h, <1>5
  <2>3. g[s] = (g[s \ {First(s)}] + (f[First(s)] % U32Mod)) % U32Mod
    BY <1>5, <1>g
  <2>4. g[s \ {First(s)}] = h[s \ {First(s)}] % U32Mod BY <1>1, <1>5, <2>1
  <2>5. h[s \ {First(s)}] \in Int /\ f[First(s)] \in Int BY <1>3, <2>1
  <2>6. g[s] = h[s] % U32Mod BY <2>2, <2>3, <2>4, <2>5, ModAdds, WordOfItems
  <2> QED BY <1>1, <2>6
<1> HIDE DEF T
<1>6. SUBSET S \subseteq T BY <1>4, <1>5, SubsetInduction
<1> QED BY <1>6 DEF T

\* There is such a count.
LEMMA CountsExists ==
  ASSUME NEW f, NEW S, IsFiniteSet(S), \A x \in S : f[x] \in Int
  PROVE  \E g : Counts(f, S, g)
<1>1. PICK h : h = Fold(f, S) OBVIOUS
<1>2. Adds(f, S, h) BY <1>1, AddsExists
<1>3. \A s \in SUBSET S : h[s] \in Int BY <1>2, AddsInt
<1>h. \A s \in SUBSET S : s # {} => h[s] = h[s \ {First(s)}] + f[First(s)]
  BY <1>2 DEF Adds
<1> DEFINE g == [s \in SUBSET S |-> h[s] % U32Mod]
<1>4. ASSUME NEW s \in SUBSET S
      PROVE  g[s] = IF s = {} THEN 0
                    ELSE (g[s \ {First(s)}] + (f[First(s)] % U32Mod)) % U32Mod
  <2>1. CASE s = {}
    <3>1. h[{}] = 0 BY <1>2, AddsAt
    <3>2. 0 % U32Mod = 0 BY QuotesAssumption
    <3> QED BY <2>1, <3>1, <3>2
  <2>2. CASE s # {}
    <3>1. First(s) \in S /\ s \ {First(s)} \in SUBSET S BY <2>2, FirstIn
    <3>2. h[s] = h[s \ {First(s)}] + f[First(s)] BY <1>h, <2>2
    <3>3. h[s \ {First(s)}] \in Int /\ f[First(s)] \in Int BY <1>3, <3>1
    <3>4. h[s] % U32Mod
            = ((h[s \ {First(s)}] % U32Mod) + (f[First(s)] % U32Mod)) % U32Mod
      BY <3>2, <3>3, ModAdds, WordOfItems
    <3>5. g[s] = h[s] % U32Mod /\ g[s \ {First(s)}] = h[s \ {First(s)}] % U32Mod
      BY <3>1
    <3> HIDE DEF g
    <3> QED BY <2>2, <3>4, <3>5
  <2> QED BY <2>1, <2>2
<1>5. g = [s \in SUBSET S |->
             IF s = {} THEN 0
             ELSE (g[s \ {First(s)}] + (f[First(s)] % U32Mod)) % U32Mod]
  BY <1>4
<1> HIDE DEF g
<1> QED BY <1>5 DEF Counts

\* The u32 that counts the items is their number, wrapped around once.
LEMMA ItemCountWraps ==
  ASSUME NEW q \in Seq(Quantities)
  PROVE  /\ TotalOf(q) = SumOf(q, DOMAIN q) /\ TotalOf(q) \in Int
         /\ ItemCount(q) = TotalOf(q) % U32Mod
         /\ ItemCount(q) \in Nat
<1>1. IsFiniteSet(DOMAIN q) /\ \A x \in DOMAIN q : q[x] \in Int
  <2>1. DOMAIN q = 1..Len(q) /\ Len(q) \in Nat OBVIOUS
  <2>2. IsFiniteSet(DOMAIN q) BY <2>1, FS_Interval
  <2>3. \A x \in DOMAIN q : q[x] \in Quantities OBVIOUS
  <2> QED BY <2>2, <2>3, QuantitiesAssumption
<1>2. TotalOf(q) = SumOf(q, DOMAIN q) /\ TotalOf(q) \in Int
  BY <1>1, TotalIsSum, SumInt
<1>3. \E h : Counts(q, DOMAIN q, h) /\ ItemCount(q) = h[DOMAIN q]
  <2>1. \E h : Counts(q, DOMAIN q, h) BY <1>1, CountsExists
  <2> QED
    BY <2>1, Zenon
       DEF Counts, First, ItemCount, FoldFunction, FoldFunctionOnSet, MapThenFoldSet
<1>4. PICK h : Counts(q, DOMAIN q, h) /\ ItemCount(q) = h[DOMAIN q] BY <1>3
<1>5. ItemCount(q) = SumOf(q, DOMAIN q) % U32Mod BY <1>1, <1>4, CountsWrap DEF SumOf
<1>6. ItemCount(q) \in Nat BY <1>2, <1>5, QuotesAssumption
<1> QED BY <1>2, <1>5, <1>6

-----------------------------------------------------------------------------
(* One conversion.                                                         *)

\* A truncated quotient is less than one unit short, and either way no further off
\* than one part in Precision.
LEMMA TruncatedClosely ==
  ASSUME NEW a \in Nat, NEW d \in Nat \ {0}, NEW w \in Truncated(a, d)
  PROVE  /\ w \in Nat
         /\ (w * d - a) * Precision <= a /\ (w * d - a + d) * Precision > -a
<1>1. PICK P \in Nat \ {0} : P = Precision BY PrecisionAssumption
<1>2. w \in Int
  <2>1. a \div d \in Int /\ d * P \in Nat \ {0} BY <1>1
  <2>2. a \div (d * P) + 1 \in Int BY <2>1
  <2> QED BY <1>1, <2>1, <2>2 DEF Truncated
<1>3. w * d * P <= a * (P + 1) /\ (w + 1) * d * P > a * (P - 1)
  BY <1>1 DEF Truncated
<1>4. PICK g \in Int : g = w * d BY <1>2
<1>5. (w + 1) * d = g + d BY <1>2, <1>4
<1>6. g * P <= a * P + a /\ (g + d) * P > a * P - a BY <1>1, <1>3, <1>4, <1>5
<1>7. (g - a) * P = g * P - a * P /\ (g - a + d) * P = (g + d) * P - a * P
  BY <1>1, <1>4
<1>8. w >= 0
  <2> SUFFICES ASSUME w <= -1 PROVE FALSE BY <1>2
  <2>1. (w + 1) * d <= 0 BY <1>2
  <2>2. PICK e \in Int : e = g + d /\ e <= 0 BY <1>4, <1>5, <2>1
  <2>3. e * P <= 0 BY <1>1, <2>2
  <2>4. a * P >= a
    <3>1. a * P >= a * 1 BY <1>1
    <3> QED BY <3>1
  <2> QED BY <1>1, <1>6, <2>2, <2>3, <2>4
<1> QED BY <1>1, <1>2, <1>4, <1>6, <1>7, <1>8

\* An amount split into units and nanos is worth the same.
LEMMA WorthOfParts ==
  ASSUME NEW w \in Nat, NEW code
  PROVE  Worth(Amount(w \div NanosMod, w % NanosMod, code)) = w
<1>1. w = NanosMod * (w \div NanosMod) + (w % NanosMod) /\ w \div NanosMod \in Nat
  BY NanosModAssumption
<1>2. (w \div NanosMod) * NanosMod = NanosMod * (w \div NanosMod)
  BY <1>1, NanosModAssumption
<1> QED BY <1>1, <1>2 DEF Worth, Amount

\* What a conversion answers is worth a whole number of nanos close to the amount
\* as getDouble reads it.
LEMMA ConvertedWorth ==
  ASSUME NEW m, Plain(m), NEW r \in Nat \ {0}, NEW s \in Nat \ {0}, NEW code,
         NEW amount \in Converted(m, r, s, code)
  PROVE  \E w \in Truncated(getDouble(m) * s, r) : Worth(amount) = w /\ w \in Nat
<1>1. PICK w \in Truncated(getDouble(m) * s, r) :
        amount = Amount(w \div NanosMod, w % NanosMod, code)
  BY DEF Converted
<1>2. getDouble(m) * s \in Nat
  <2>1. getDouble(m) \in Nat BY ReadsDecimals
  <2> QED BY <2>1, ProductIsNat
<1>3. w \in Nat
  <2>1. PICK a \in Nat : a = getDouble(m) * s BY <1>2
  <2> QED BY <2>1, TruncatedClosely
<1> QED BY <1>1, <1>3, WorthOfParts

\* What is close to an amount read a little high is close to the amount.
LEMMA CloseThough ==
  ASSUME NEW g \in Int, NEW a \in Nat, NEW u \in Nat, NEW y \in Nat, NEW m \in Nat,
         NEW r \in Nat, a = u + y, y <= m,
         (g - a) * Precision <= a, (g - a + r) * Precision > -a
  PROVE  /\ (g - u + r) * Precision > -u
         /\ (g - u - m) * Precision <= u + m
<1>1. PICK P \in Nat \ {0} : P = Precision BY PrecisionAssumption
<1>2. PICK z \in Nat : m = y + z
  <2>1. m - y \in Nat /\ m = y + (m - y) OBVIOUS
  <2> QED BY <2>1
<1>3. y * P >= y /\ z * P >= 0
  <2>1. y * P >= y * 1 BY <1>1
  <2> QED BY <1>1, <2>1
<1>4. (g - u + r) * P = (g - a + r) * P + y * P BY <1>1
<1>5. (g - u - m) * P = (g - a) * P - z * P BY <1>1, <1>2
<1> QED BY <1>1, <1>2, <1>3, <1>4, <1>5

\* Convert is as close as doubles are, but for a leading zero.
LEMMA ConvertedClosely ==
  ASSUME NEW m, Plain(m), NEW r \in Nat \ {0}, NEW s \in Nat \ {0}, NEW code,
         NEW amount \in Converted(m, r, s, code)
  PROVE  Close(m, amount, r, s)
<1>1. PICK d \in Nat, v \in Nat : d = getDouble(m) /\ v = Worth(m) BY ReadsDecimals
<1>2. PICK N \in Nat \ {0} : N = NanosMod BY NanosModAssumption
<1>3. PICK a \in Nat : a = d * s BY ProductIsNat
<1>4. PICK w \in Nat : w \in Truncated(a, r) /\ Worth(amount) = w
  BY <1>1, <1>3, ConvertedWorth
<1>5. PICK g \in Nat : g = w * r BY ProductIsNat
<1>6. (g - a) * Precision <= a /\ (g - a + r) * Precision > -a
  BY <1>4, <1>5, TruncatedClosely
<1>7. PICK u \in Nat : u = v * s BY ProductIsNat
<1>8. PICK z \in Nat : d = v + z /\ z <= Misreading(m)
  <2>1. CASE HasLeadingZero(m)
    <3>1. v < d /\ d < v + N BY <1>1, <1>2, <2>1, ReadsDecimals
    <3>2. d - v \in Nat /\ d = v + (d - v) /\ d - v <= N BY <3>1
    <3> QED BY <1>2, <2>1, <3>2 DEF Misreading
  <2>2. CASE ~HasLeadingZero(m)
    <3>1. d = v + 0 BY <1>1, <2>2, ReadsDecimals
    <3> QED BY <2>2, <3>1 DEF Misreading
  <2> QED BY <2>1, <2>2
<1>9. PICK e \in Nat : e = Misreading(m) BY <1>2 DEF Misreading
<1>10. PICK y \in Nat, x \in Nat : y = z * s /\ x = e * s BY ProductIsNat
<1>11. a = u + y BY <1>3, <1>7, <1>8, <1>10
<1>12. y <= x BY <1>8, <1>9, <1>10
<1>13. (g - u + r) * Precision > -u /\ (g - u - x) * Precision <= u + x
  <2>1. r \in Nat /\ g \in Int OBVIOUS
  <2> QED BY <1>6, <1>11, <1>12, <2>1, CloseThough, Zenon
<1>14. Worth(amount) * r = g /\ Worth(m) * s = u /\ Misreading(m) * s = x
  BY <1>1, <1>4, <1>5, <1>7, <1>9, <1>10
<1> QED BY <1>13, <1>14, Zenon DEF Close

\* A hundredth of a unit is a whole number of nanos.
LEMMA Hundredths ==
  /\ NanosMod \div 100 \in Nat \ {0} /\ NanosMod = 100 * (NanosMod \div 100)
  /\ NanosMod \div 10 = 10 * (NanosMod \div 100)
<1> USE NanosModAssumption, DigitsAssumption
<1>1. Tens[1] = 10 /\ Tens[2] = 100
  <2>1. PICK z \in Nat, e \in Nat : z = 0 /\ e = 1 OBVIOUS
  <2>2. Tens[z + 1] = 10 * Tens[z] /\ Tens[e + 1] = 10 * Tens[e] BY TensAt
  <2>3. z + 1 = 1 /\ e + 1 = 2 BY <2>1
  <2>4. Tens[1] = 10 BY <2>1, <2>2, <2>3, TensAt
  <2> QED BY <2>1, <2>2, <2>3, <2>4
<1>2. PICK k \in Nat : Digits = 2 + k
  <2>1. Digits - 2 \in Nat /\ Digits = 2 + (Digits - 2) OBVIOUS
  <2> QED BY <2>1
<1>3. NanosMod = 100 * Tens[k]
  <2>1. PICK e \in Nat : e = 2 OBVIOUS
  <2>2. Tens[e + k] = Tens[e] * Tens[k] BY TensAdd
  <2> QED BY <1>1, <1>2, <2>1, <2>2
<1>4. PICK t \in Nat : t = Tens[k] /\ t >= 1 BY <1>2, TensPositive
<1> QED BY <1>3, <1>4

\* A quote is an amount of whole cents.
LEMMA QuoteIsPlain ==
  ASSUME NEW tenths \in Nat, NEW amount \in create_quote_from_float(tenths)
  PROVE  Plain(amount) /\ amount.code = "USD"
<1>1. PICK cents \in CentsOf(tenths) :
        amount = Amount(tenths \div 10, (cents % 100) * (NanosMod \div 100), "USD")
  BY DEF create_quote_from_float
<1>2. cents \in Int
  <2>1. 10 * tenths \in Int /\ 10 * tenths - 1 \in Int /\ MaxInt32 \in Int
    BY QuotesAssumption
  <2> QED BY <2>1 DEF CentsOf
<1>3. PICK v \in 0..99 : v = cents % 100 BY <1>2
<1>4. PICK h \in Nat \ {0} : h = NanosMod \div 100 /\ NanosMod = 100 * h BY Hundredths
<1>5. v * h \in 0..(NanosMod - 1)
  <2>1. v * h <= 99 * h BY <1>3, <1>4
  <2>2. v * h \in Nat BY <1>3, <1>4, ProductIsNat
  <2> QED BY <1>4, <2>1, <2>2
<1>6. tenths \div 10 \in Nat OBVIOUS
<1> QED BY <1>1, <1>3, <1>4, <1>5, <1>6 DEF Plain, Amount

-----------------------------------------------------------------------------
(* The inductive invariant of the calls.                                   *)

\* The table holds the rates it starts with and zeros; as long as no lookup overlaps
\* an insertion, each listed code has its rate alone.
RatesKept ==
  /\ \A entry \in table :
       entry[2] = 0 \/ (entry[1] \in DOMAIN Rates /\ entry[2] = Rates[entry[1]])
  /\ ~raced => \A code \in DOMAIN Rates : RatesOf(code) = {Rates[code]}

Asked == {"from", "to", "insert from", "insert to", "answered"}

\* A call inserts a listed code only after a lookup overlapped an insertion, and
\* what it read before any did is the rate.
CallInv(c) ==
  /\ at[c] = "insert from" /\ from[c].code \in DOMAIN Rates => torn[c] /\ raced
  /\ at[c] = "insert to" /\ to[c] \in DOMAIN Rates => torn[c] /\ raced
  /\ at[c] \in Asked => Plain(from[c])
  /\ at[c] \in {"to", "insert to"} /\ from[c].code \in DOMAIN Rates
       => rate[c] = Rates[from[c].code] \/ (torn[c] /\ rate[c] = 0)
  /\ at[c] = "answered" /\ {from[c].code, to[c]} \subseteq DOMAIN Rates
       => \/ answer[c] \in Converted(from[c], Rates[from[c].code], Rates[to[c]], to[c])
          \/ torn[c] /\ answer[c] \in {Garbage, Amount(0, 0, to[c])}
  /\ count[c] \in Nat /\ quote[c] \in Nat

Functions ==
  /\ DOMAIN at = Calls /\ DOMAIN count = Calls /\ DOMAIN quote = Calls
  /\ DOMAIN cart = Calls /\ DOMAIN from = Calls /\ DOMAIN to = Calls
  /\ DOMAIN rate = Calls /\ DOMAIN answer = Calls /\ DOMAIN torn = Calls

CallsInv == RatesKept /\ Functions /\ \A c \in Calls : CallInv(c)

\* What a step of one call leaves to another.
SameCall(d) ==
  /\ at'[d] = at[d] /\ count'[d] = count[d] /\ quote'[d] = quote[d]
  /\ cart'[d] = cart[d] /\ from'[d] = from[d] /\ to'[d] = to[d]
  /\ rate'[d] = rate[d] /\ answer'[d] = answer[d] /\ torn'[d] = torn[d]

\* A call that a step leaves alone keeps its invariant.
LEMMA CallInvSame ==
  ASSUME NEW d, CallInv(d), SameCall(d), raced => raced'
  PROVE  CallInv(d)'
BY DEF CallInv, SameCall, Asked

\* A request: a price or a quote.
Ask(c) == ConvertPrice(c) \/ GetQuote(c)

\* A step of one call leaves the others alone.
LEMMA OneCall ==
  ASSUME Functions, NEW c \in Calls, Ask(c) \/ Serve(c)
  PROVE  Functions' /\ (raced => raced') /\ \A d \in Calls \ {c} : SameCall(d)
<1>1. CASE ConvertPrice(c) BY <1>1 DEF ConvertPrice, Functions, SameCall
<1>2. CASE GetQuote(c) BY <1>2 DEF GetQuote, Functions, SameCall
<1>3. CASE calculateQuote(c) BY <1>3 DEF calculateQuote, Functions, SameCall
<1>4. CASE QuoteFails(c) BY <1>4 DEF QuoteFails, Functions, SameCall
<1>5. CASE Cost(c) BY <1>5 DEF Cost, Functions, SameCall
<1>6. CASE LookupFrom(c)
  BY <1>6 DEF LookupFrom, UseFrom, NoteOverlap, Functions, SameCall
<1>7. CASE LookupTo(c) BY <1>7 DEF LookupTo, UseTo, NoteOverlap, Functions, SameCall
<1>8. CASE InsertFrom(c)
  BY <1>8 DEF InsertFrom, UseFrom, NoteOverlap, Functions, SameCall
<1>9. CASE InsertTo(c) BY <1>9 DEF InsertTo, UseTo, NoteOverlap, Functions, SameCall
<1> QED
  BY <1>1, <1>2, <1>3, <1>4, <1>5, <1>6, <1>7, <1>8, <1>9 DEF Ask, Serve

\* What the table may give for a listed code.
LEMMA ListedRates ==
  ASSUME RatesKept, NEW code \in DOMAIN Rates, NEW r \in RatesOf(code)
  PROVE  r = Rates[code] \/ (raced /\ r = 0)
<1>1. PICK entry \in table : entry[1] = code /\ entry[2] = r BY DEF RatesOf
<1>2. r = Rates[code] \/ r = 0 BY <1>1 DEF RatesKept
<1>3. ~raced => r = Rates[code] BY DEF RatesKept
<1> QED BY <1>2, <1>3

\* A listed code is missed only once a lookup overlapped an insertion.
LEMMA ListedMissed ==
  ASSUME RatesKept, NEW c, NEW code \in DOMAIN Rates, MayMiss(c, code)
  PROVE  raced \/ Overlapped(c)
BY DEF MayMiss, RatesKept

\* A code inserted into the table changes no rate, unless it is there already or
\* another insertion overlaps.
LEMMA InsertKeeps ==
  ASSUME RatesKept, NEW c, NEW code, Insert(c, code), raced' = (raced \/ Overlapped(c)),
         code \in DOMAIN Rates => raced
  PROVE  RatesKept'
<1>1. table' \subseteq table \cup {<<code, 0>>} BY DEF Insert
<1>2. \A entry \in table' :
        entry[2] = 0 \/ (entry[1] \in DOMAIN Rates /\ entry[2] = Rates[entry[1]])
  <2>1. <<code, 0>>[2] = 0 OBVIOUS
  <2> QED BY <1>1, <2>1 DEF RatesKept
<1>3. ASSUME ~raced', NEW x \in DOMAIN Rates PROVE RatesOf(x)' = {Rates[x]}
  <2>1. table' = table \cup {<<code, 0>>} BY <1>3 DEF Insert
  <2>2. x # code BY <1>3
  <2>3. <<code, 0>>[1] # x BY <2>2
  <2>4. {e \in table' : e[1] = x} = {e \in table : e[1] = x} BY <2>1, <2>3
  <2>5. RatesOf(x)' = RatesOf(x) BY <2>4 DEF RatesOf
  <2> QED BY <1>3, <2>5 DEF RatesKept
<1> QED BY <1>2, <1>3 DEF RatesKept

\* The table starts with the rates.
LEMMA ListedIsKept ==
  ASSUME NEW x \in DOMAIN Rates
  PROVE  {entry[2] : entry \in {e \in Listed : e[1] = x}} = {Rates[x]}
<1> DEFINE found == {e \in Listed : e[1] = x}
<1>1. <<x, Rates[x]>> \in found BY DEF Listed
<1>2. \A e \in found : e[2] = Rates[x] BY DEF Listed
<1>3. <<x, Rates[x]>>[2] = Rates[x] OBVIOUS
<1> HIDE DEF found
<1>4. {entry[2] : entry \in found} = {Rates[x]} BY <1>1, <1>2, <1>3
<1> QED BY <1>4 DEF found

\* So it does again after a restart.
LEMMA StartKeeps ==
  /\ table = Listed => RatesKept
  /\ table' = Listed => RatesKept'
<1>1. \A entry \in Listed : entry[1] \in DOMAIN Rates /\ entry[2] = Rates[entry[1]]
  BY DEF Listed
<1> QED BY <1>1, ListedIsKept DEF RatesKept, RatesOf

\* No call is under way at first.
LEMMA CallsInit == PricedInit => CallsInv
<1>1. PricedInit => RatesKept BY StartKeeps DEF PricedInit, PricingInit
<1> QED BY <1>1 DEF PricedInit, PricingInit, CallsInv, Functions, CallInv, Asked

\* A conversion with a rate of zero gives nothing, or no amount.
LEMMA ZeroRates ==
  ASSUME NEW m, Plain(m), NEW r \in Nat, NEW s \in Nat, NEW code,
         NEW amount \in Converted(m, r, s, code), r = 0 \/ s = 0
  PROVE  amount \in {Garbage, Amount(0, 0, code)}
<1>1. CASE r = 0 BY <1>1 DEF Converted
<1>2. CASE r # 0 /\ s = 0
  <2>1. PICK w \in Truncated(getDouble(m) * s, r) :
          amount = Amount(w \div NanosMod, w % NanosMod, code)
    BY <1>2 DEF Converted
  <2>2. PICK d \in Nat : d = getDouble(m) BY ReadsDecimals
  <2>3. d * s = 0 BY <1>2
  <2>4. w \in Nat /\ (w * r - 0) * Precision <= 0
    BY <1>2, <2>1, <2>2, <2>3, TruncatedClosely
  <2>5. w = 0
    <3>1. PICK g \in Nat : g = w * r BY <2>4, ProductIsNat
    <3>2. g <= 0 BY <2>4, <3>1, PrecisionAssumption
    <3> QED BY <1>2, <2>4, <3>1, <3>2
  <2>6. 0 \div NanosMod = 0 /\ 0 % NanosMod = 0 BY NanosModAssumption
  <2> QED BY <2>1, <2>5, <2>6
<1> QED BY <1>1, <1>2

\* What a call uses as the rate of the amount's currency.
LEMMA FromUsed ==
  ASSUME CallsInv, NEW c \in Calls, NEW r, UseFrom(c, r), at[c] \in {"from", "insert from"},
         UNCHANGED <<count, quote, from, to>>, DOMAIN torn' = Calls,
         from[c].code \in DOMAIN Rates => r = Rates[from[c].code] \/ (torn'[c] /\ r = 0)
  PROVE  CallInv(c)'
<1>1. CallInv(c) /\ DOMAIN at = Calls /\ DOMAIN rate = Calls
  BY DEF CallsInv, Functions
<1>2. at'[c] = "to" /\ rate'[c] = r BY <1>1 DEF UseFrom
<1> QED BY <1>1, <1>2 DEF CallInv, Asked, Plain

\* What it answers with the rate of the other currency.
LEMMA ToUsed ==
  ASSUME CallsInv, NEW c \in Calls, NEW s, UseTo(c, s), at[c] \in {"to", "insert to"},
         UNCHANGED <<count, quote, from, to>>, torn[c] => torn'[c],
         to[c] \in DOMAIN Rates => s = Rates[to[c]] \/ (torn'[c] /\ s = 0)
  PROVE  CallInv(c)'
<1>1. CallInv(c) /\ DOMAIN at = Calls /\ DOMAIN answer = Calls
  BY DEF CallsInv, Functions
<1>2. at'[c] = "answered" /\ answer'[c] \in Converted(from[c], rate[c], s, to[c])
  BY <1>1 DEF UseTo
<1>3. Plain(from[c]) BY <1>1 DEF CallInv, Asked
<1>4. ASSUME from[c].code \in DOMAIN Rates, to[c] \in DOMAIN Rates
      PROVE  \/ answer'[c] \in Converted(from[c], Rates[from[c].code], Rates[to[c]], to[c])
             \/ torn'[c] /\ answer'[c] \in {Garbage, Amount(0, 0, to[c])}
  <2>1. rate[c] = Rates[from[c].code] \/ (torn[c] /\ rate[c] = 0)
    BY <1>1, <1>4 DEF CallInv
  <2>2. s = Rates[to[c]] \/ (torn'[c] /\ s = 0) BY <1>4
  <2>3. CASE rate[c] = Rates[from[c].code] /\ s = Rates[to[c]] BY <1>2, <2>3
  <2>4. CASE torn'[c] /\ (rate[c] = 0 \/ s = 0)
    <3>0. Rates[from[c].code] \in Nat /\ Rates[to[c]] \in Nat
      BY <1>4, RatesAssumption
    <3>1. rate[c] \in Nat /\ s \in Nat
      <4>1. 0 \in Nat OBVIOUS
      <4> QED BY <2>1, <2>2, <3>0, <4>1, Zenon
    <3>2. rate[c] = 0 \/ s = 0 BY <2>4, Zenon
    <3>3. PICK r \in Nat : r = rate[c] BY <3>1, Zenon
    <3>4. PICK t \in Nat : t = s BY <3>1, Zenon
    <3>5. PICK m : m = from[c] OBVIOUS
    <3>6. PICK code : code = to[c] OBVIOUS
    <3>7. PICK a : a = answer'[c] OBVIOUS
    <3>8. Plain(m) BY <1>3, <3>5, Zenon
    <3>9. a \in Converted(m, r, t, code)
      BY <1>2, <3>3, <3>4, <3>5, <3>6, <3>7, Zenon
    <3>10. r = 0 \/ t = 0 BY <3>2, <3>3, <3>4, Zenon
    <3>11. a \in {Garbage, Amount(0, 0, code)}
      BY <3>8, <3>9, <3>10, ZeroRates, Zenon
    <3> QED BY <2>4, <3>6, <3>7, <3>11, Zenon
  <2> QED BY <2>1, <2>2, <2>3, <2>4
<1> QED BY <1>1, <1>2, <1>3, <1>4 DEF CallInv, Asked, Plain

\* One step of one call keeps what is invariant of it.
LEMMA OwnStep ==
  ASSUME CallsInv, NEW c \in Calls, Ask(c) \/ Serve(c)
  PROVE  CallInv(c)' /\ RatesKept'
<1> USE DEF CallsInv, Functions
<1>0. CallInv(c) OBVIOUS
<1>k. UNCHANGED <<table, raced>> => RatesKept' BY DEF RatesKept, RatesOf
<1>1. CASE ConvertPrice(c)
  <2>1. Plain(from'[c]) BY <1>1, CatalogueAssumption DEF ConvertPrice, Plain
  <2>2. at'[c] = "from" /\ count'[c] \in Nat /\ quote'[c] \in Nat
    BY <1>0, <1>1 DEF ConvertPrice, CallInv
  <2>3. RatesKept' BY <1>1, <1>k DEF ConvertPrice
  <2> QED BY <2>1, <2>2, <2>3 DEF CallInv, Asked, Plain
<1>2. CASE GetQuote(c)
  <2>1. count'[c] \in Nat /\ quote'[c] \in Nat
    <3>1. PICK quantities \in Carts : count'[c] = ItemCount(quantities)
      BY <1>2 DEF GetQuote
    <3>2. quantities \in Seq(Quantities) BY CartsAssumption
    <3>3. count'[c] \in Nat BY <3>1, <3>2, ItemCountWraps
    <3>4. quote' = quote BY <1>2 DEF GetQuote
    <3> QED BY <1>0, <3>3, <3>4 DEF CallInv
  <2>2. at'[c] = "quote" /\ RatesKept' BY <1>2, <1>k DEF GetQuote
  <2> QED BY <2>1, <2>2 DEF CallInv, Asked
<1>3. CASE calculateQuote(c)
  <2>1. quote'[c] \in Nat
    <3>1. PICK costPerItem \in PerItem : quote'[c] = costPerItem * count[c]
      BY <1>3 DEF calculateQuote
    <3>2. costPerItem \in Nat /\ count[c] \in Nat BY <1>0, QuotesAssumption DEF CallInv
    <3> QED BY <3>1, <3>2, ProductIsNat
  <2>2. at'[c] = "quoted" /\ count'[c] \in Nat /\ RatesKept'
    BY <1>0, <1>3, <1>k DEF calculateQuote, CallInv
  <2> QED BY <2>1, <2>2 DEF CallInv, Asked
<1>4. CASE QuoteFails(c)
  <2>1. at'[c] = "failed" /\ count'[c] \in Nat /\ quote'[c] \in Nat /\ RatesKept'
    BY <1>0, <1>4, <1>k DEF QuoteFails, CallInv
  <2> QED BY <2>1 DEF CallInv, Asked
<1>5. CASE Cost(c)
  <2>1. PICK amount \in create_quote_from_float(quote[c]) : from'[c] = amount
    BY <1>5 DEF Cost
  <2>2. Plain(from'[c])
    <3>1. quote[c] \in Nat BY <1>0 DEF CallInv
    <3>2. Plain(amount) BY <2>1, <3>1, QuoteIsPlain
    <3> QED BY <2>1, <3>2 DEF Plain
  <2>3. at'[c] = "from" /\ count'[c] \in Nat /\ quote'[c] \in Nat /\ RatesKept'
    BY <1>0, <1>5, <1>k DEF Cost, CallInv
  <2> QED BY <2>2, <2>3 DEF CallInv, Asked, Plain
<1>6. CASE LookupFrom(c)
  <2>1. /\ raced' = (raced \/ Overlapped(c)) /\ torn'[c] = (torn[c] \/ raced')
        /\ DOMAIN torn' = Calls /\ UNCHANGED <<table, count, quote, from, to>>
    BY <1>6 DEF LookupFrom, NoteOverlap
  <2>2. RatesKept'
    <3>1. raced => raced' BY <2>1
    <3> QED BY <2>1, <3>1 DEF RatesKept, RatesOf
  <2>3. ASSUME NEW r \in RatesOf(from[c].code), UseFrom(c, r) PROVE CallInv(c)'
    <3>1. from[c].code \in DOMAIN Rates => r = Rates[from[c].code] \/ (torn'[c] /\ r = 0)
      BY <2>1, <2>3, ListedRates
    <3>2. at[c] = "from" BY <1>6 DEF LookupFrom
    <3> QED BY <2>1, <2>3, <3>1, <3>2, FromUsed
  <2>4. ASSUME MayMiss(c, from[c].code), at' = [at EXCEPT ![c] = "insert from"]
        PROVE  CallInv(c)'
    <3>1. from[c].code \in DOMAIN Rates => raced' BY <2>1, <2>4, ListedMissed
    <3>2. at'[c] = "insert from" /\ at[c] = "from" BY <1>6, <2>4 DEF LookupFrom
    <3> QED BY <1>0, <2>1, <3>1, <3>2 DEF CallInv, Asked, Plain
  <2> QED BY <1>6, <2>2, <2>3, <2>4 DEF LookupFrom
<1>7. CASE LookupTo(c)
  <2>1. /\ raced' = (raced \/ Overlapped(c)) /\ torn'[c] = (torn[c] \/ raced')
        /\ UNCHANGED <<table, count, quote, from, to, rate>>
    BY <1>7 DEF LookupTo, NoteOverlap
  <2>2. RatesKept'
    <3>1. raced => raced' BY <2>1
    <3> QED BY <2>1, <3>1 DEF RatesKept, RatesOf
  <2>3. ASSUME NEW r \in RatesOf(to[c]), UseTo(c, r) PROVE CallInv(c)'
    <3>1. to[c] \in DOMAIN Rates => r = Rates[to[c]] \/ (torn'[c] /\ r = 0)
      BY <2>1, <2>3, ListedRates
    <3>2. at[c] = "to" BY <1>7 DEF LookupTo
    <3> QED BY <2>1, <2>3, <3>1, <3>2, ToUsed
  <2>4. ASSUME MayMiss(c, to[c]), at' = [at EXCEPT ![c] = "insert to"]
        PROVE  CallInv(c)'
    <3>1. to[c] \in DOMAIN Rates => raced' BY <2>1, <2>4, ListedMissed
    <3>2. at'[c] = "insert to" /\ at[c] = "to" BY <1>7, <2>4 DEF LookupTo
    <3> QED BY <1>0, <2>1, <3>1, <3>2 DEF CallInv, Asked, Plain
  <2> QED BY <1>7, <2>2, <2>3, <2>4 DEF LookupTo
<1>8. CASE InsertFrom(c)
  <2>1. /\ raced' = (raced \/ Overlapped(c)) /\ torn'[c] = (torn[c] \/ raced')
        /\ DOMAIN torn' = Calls /\ UNCHANGED <<count, quote, from, to>>
        /\ UseFrom(c, 0) /\ Insert(c, from[c].code) /\ at[c] = "insert from"
    BY <1>8 DEF InsertFrom, NoteOverlap
  <2>2. from[c].code \in DOMAIN Rates => torn[c] /\ raced BY <1>0, <2>1 DEF CallInv
  <2>3. RatesKept' BY <2>1, <2>2, InsertKeeps
  <2>4. CallInv(c)' BY <2>1, <2>2, FromUsed
  <2> QED BY <2>3, <2>4
<1>9. CASE InsertTo(c)
  <2>1. /\ raced' = (raced \/ Overlapped(c)) /\ torn'[c] = (torn[c] \/ raced')
        /\ UNCHANGED <<count, quote, from, to>>
        /\ UseTo(c, 0) /\ Insert(c, to[c]) /\ at[c] = "insert to"
    BY <1>9 DEF InsertTo, NoteOverlap
  <2>2. to[c] \in DOMAIN Rates => torn[c] /\ raced BY <1>0, <2>1 DEF CallInv
  <2>3. RatesKept' BY <2>1, <2>2, InsertKeeps
  <2>4. CallInv(c)' BY <2>1, <2>2, ToUsed
  <2> QED BY <2>3, <2>4
<1> QED
  BY <1>1, <1>2, <1>3, <1>4, <1>5, <1>6, <1>7, <1>8, <1>9 DEF Ask, Serve

\* Every step of a call keeps the calls and the rates.
LEMMA CallsNext == CallsInv /\ ((\E c \in Calls : Ask(c) \/ Serve(c)) \/ Restart) => CallsInv'
<1> SUFFICES ASSUME CallsInv, (\E c \in Calls : Ask(c) \/ Serve(c)) \/ Restart
             PROVE  CallsInv'
  OBVIOUS
<1>1. ASSUME NEW c \in Calls, Ask(c) \/ Serve(c) PROVE CallsInv'
  <2>1. CallInv(c)' /\ RatesKept' BY <1>1, OwnStep
  <2>2. Functions' /\ (raced => raced') /\ \A d \in Calls \ {c} : SameCall(d)
    BY <1>1, OneCall DEF CallsInv
  <2>3. ASSUME NEW d \in Calls PROVE CallInv(d)'
    <3>1. CASE d = c BY <2>1, <3>1
    <3>2. CASE d # c
      <4>1. CallInv(d) /\ SameCall(d) BY <2>2, <3>2 DEF CallsInv
      <4> QED BY <2>2, <4>1, CallInvSame
    <3> QED BY <3>1, <3>2
  <2> QED BY <2>1, <2>2, <2>3 DEF CallsInv
<1>2. CASE Restart
  <2>1. RatesKept' BY <1>2, StartKeeps DEF Restart
  <2>2. Functions' BY <1>2 DEF Restart, CallsInv, Functions
  <2>3. ASSUME NEW d \in Calls PROVE CallInv(d)'
    <3>1. CallInv(d) BY DEF CallsInv
    <3>2. at'[d] = "failed" \/ (at'[d] = at[d] /\ at[d] \notin {"insert from", "insert to"})
      BY <1>2 DEF Restart
    <3>3. UNCHANGED <<count, quote, from, to, rate, answer, torn>> BY <1>2 DEF Restart
    <3> QED BY <3>1, <3>2, <3>3 DEF CallInv, Asked, Plain
  <2> QED BY <2>1, <2>2, <2>3 DEF CallsInv
<1> QED BY <1>1, <1>2

\* Every step of the priced order asks for one answer, serves one call, restarts
\* the currency service or leaves the services alone.
LEMMA PricedStepOfCalls ==
  OrderInv /\ [PricedNext]_allVars =>
    \/ \E c \in Calls : Ask(c) \/ Serve(c)
    \/ Restart \/ UNCHANGED pricingVars
<1> SUFFICES ASSUME OrderInv, [PricedNext]_allVars
             PROVE  \/ \E c \in Calls : Ask(c) \/ Serve(c)
                    \/ Restart \/ UNCHANGED pricingVars
  OBVIOUS
<1>1. ASSUME NEW i \in DOMAIN order, PriceLine(i) PROVE i \in Calls /\ Ask(i)
  <2>1. i \in 0..Lines BY CartsAssumption, QuantitiesAssumption DEF OrderInv
  <2> QED BY <1>1, <2>1, CallsAssumption DEF PriceLine, Ask
<1>2. CASE QuoteShipping
  <2>1. 0 \in 0..Lines BY QuantitiesAssumption
  <2> QED BY <1>2, <2>1, CallsAssumption DEF QuoteShipping, Ask
<1>3. CASE OthersAsk BY <1>3 DEF OthersAsk, Others, Ask
<1>4. CASE ServicesAnswer BY <1>4 DEF ServicesAnswer
<1>5. CASE AddItUp \/ UNCHANGED allVars BY <1>5 DEF AddItUp, allVars
<1> QED BY <1>1, <1>2, <1>3, <1>4, <1>5 DEF PricedNext

\* Every step keeps them.
LEMMA CallsStep == CallsInv /\ OrderInv /\ [PricedNext]_allVars => CallsInv'
<1>1. ASSUME CallsInv, UNCHANGED pricingVars PROVE CallsInv'
  <2>1. RatesKept' BY <1>1 DEF CallsInv, pricingVars, RatesKept, RatesOf
  <2>2. Functions' BY <1>1 DEF CallsInv, pricingVars, Functions
  <2>3. ASSUME NEW c \in Calls PROVE CallInv(c)'
    <3>1. CallInv(c) /\ SameCall(c) /\ (raced => raced')
      BY <1>1 DEF CallsInv, pricingVars, SameCall
    <3> QED BY <3>1, CallInvSame
  <2> QED BY <2>1, <2>2, <2>3 DEF CallsInv
<1> QED BY <1>1, CallsNext, PricedStepOfCalls

\* At any time the calls have read what the table says, unless an insertion tore it.
LEMMA CallsAlways == PricedSpec => [](CallsInv /\ OrderInv)
<1>1. PricedInit => CallsInv /\ OrderInv BY CallsInit, OrderInvInit
<1>2. (CallsInv /\ OrderInv) /\ [PricedNext]_allVars => (CallsInv /\ OrderInv)'
  BY CallsStep, OrderInvNext
<1> QED BY <1>1, <1>2, PTL DEF PricedSpec

\* A conversion between currencies with rates is right to the precision of doubles
\* and one nano, for any rates and amounts, any number of calls that insert codes
\* meanwhile and any restarts, but for decimals that start with a zero; after threads
\* met in the table it is that, nothing, or no amount.
THEOREM PricedConvertsClosely == PricedSpec => []ConvertsClosely
<1>1. ASSUME CallsInv, NEW c \in Calls, at[c] = "answered",
             {from[c].code, to[c]} \subseteq DOMAIN Rates
      PROVE  \/ Close(from[c], answer[c], Rates[from[c].code], Rates[to[c]])
             \/ torn[c] /\ answer[c] \in {Garbage, Amount(0, 0, to[c])}
  <2>1. CallInv(c) BY <1>1 DEF CallsInv
  <2>2. Plain(from[c]) BY <1>1, <2>1 DEF CallInv, Asked
  <2>3. \/ answer[c] \in Converted(from[c], Rates[from[c].code], Rates[to[c]], to[c])
        \/ torn[c] /\ answer[c] \in {Garbage, Amount(0, 0, to[c])}
    BY <1>1, <2>1 DEF CallInv
  <2>4. Rates[from[c].code] \in Nat \ {0} /\ Rates[to[c]] \in Nat \ {0}
    BY <1>1, RatesAssumption
  <2> QED BY <2>2, <2>3, <2>4, ConvertedClosely
<1>2. CallsInv => ConvertsClosely BY <1>1 DEF ConvertsClosely
<1> QED BY <1>2, CallsAlways, PTL

-----------------------------------------------------------------------------
(* The whole order: what is charged beside what is shown.                  *)

\* Multiplication distributes over addition.
LEMMA Multiples ==
  ASSUME NEW k \in Int, NEW e \in Int, NEW f \in Int
  PROVE  k * (e + f) = k * e + k * f
OBVIOUS

\* What holds of each line, of three amounts in fixed proportions, holds all in all.
LEMMA SumsAtLeast ==
  ASSUME NEW S, IsFiniteSet(S), NEW a, NEW w, NEW q,
         NEW I \in Int, NEW J \in Int, NEW K \in Int,
         \A x \in S : /\ a[x] \in Int /\ w[x] \in Int /\ q[x] \in Int
                      /\ I * a[x] + J * w[x] + K * q[x] >= 0
  PROVE  I * SumOf(a, S) + J * SumOf(w, S) + K * SumOf(q, S) >= 0
<1> DEFINE T == {s \in SUBSET S :
                   I * Fold(a, S)[s] + J * Fold(w, S)[s] + K * Fold(q, S)[s] >= 0}
<1>1. PICK A, W, Q : A = Fold(a, S) /\ W = Fold(w, S) /\ Q = Fold(q, S)
  OBVIOUS
<1>2. Adds(a, S, A) /\ Adds(w, S, W) /\ Adds(q, S, Q)
  BY <1>1, AddsExists
<1>3. /\ \A s \in SUBSET S : A[s] \in Int
      /\ \A s \in SUBSET S : W[s] \in Int
      /\ \A s \in SUBSET S : Q[s] \in Int
  BY <1>2, AddsInt
<1>a. \A s \in SUBSET S : s # {} => A[s] = A[s \ {First(s)}] + a[First(s)]
  BY <1>1, FoldAt
<1>w. \A s \in SUBSET S : s # {} => W[s] = W[s \ {First(s)}] + w[First(s)]
  BY <1>1, FoldAt
<1>q. \A s \in SUBSET S : s # {} => Q[s] = Q[s \ {First(s)}] + q[First(s)]
  BY <1>1, FoldAt
<1>4. {} \in T
  <2>1. A[{}] = 0 /\ W[{}] = 0 /\ Q[{}] = 0 BY <1>2, AddsAt
  <2>2. I * 0 + J * 0 + K * 0 = 0 OBVIOUS
  <2> QED BY <1>1, <2>1, <2>2
<1>5. ASSUME NEW s \in SUBSET S, s # {}, \A x \in s : s \ {x} \in T PROVE s \in T
  <2>1. PICK x \in s : x = First(s) /\ x \in S BY <1>5, FirstIn
  <2>2. PICK t \in SUBSET S : t = s \ {x} OBVIOUS
  <2>3. A[s] = A[t] + a[x] /\ W[s] = W[t] + w[x] /\ Q[s] = Q[t] + q[x]
    BY <1>5, <1>a, <1>w, <1>q, <2>1, <2>2
  <2>4. I * A[t] + J * W[t] + K * Q[t] >= 0 BY <1>1, <1>5, <2>2
  <2>5. PICK b \in Int, c \in Int, d \in Int, e \in Int, f \in Int, g \in Int :
          b = A[t] /\ c = W[t] /\ d = Q[t] /\ e = a[x] /\ f = w[x] /\ g = q[x]
    BY <1>3, <2>1, Zenon
  <2>6. I * e + J * f + K * g >= 0 BY <2>1, <2>5
  <2>7. /\ I * (b + e) = I * b + I * e /\ J * (c + f) = J * c + J * f
        /\ K * (d + g) = K * d + K * g
    BY Multiples
  <2>8. I * (b + e) + J * (c + f) + K * (d + g) >= 0
    <3>1. I * b + J * c + K * d >= 0 BY <2>4, <2>5
    <3>2. /\ I * b \in Int /\ J * c \in Int /\ K * d \in Int
          /\ I * e \in Int /\ J * f \in Int /\ K * g \in Int
      OBVIOUS
    <3> QED BY <2>6, <2>7, <3>1, <3>2
  <2> QED BY <1>1, <2>3, <2>5, <2>8
<1> HIDE DEF T
<1>6. S \in T BY <1>4, <1>5, SubsetInduction
<1> QED BY <1>6 DEF T, SumOf

\* What a step of the services does to its call.
LEMMA ServesCall ==
  ASSUME Functions, NEW c \in Calls, Serve(c)
  PROVE  /\ at[c] \in {"quote", "quoted", "from", "to", "insert from", "insert to"}
         /\ at'[c] # "idle" /\ to'[c] = to[c] /\ count'[c] = count[c]
         /\ at[c] = "quote" =>
              \/ at'[c] = "failed"
              \/ /\ at'[c] = "quoted"
                 /\ \E p \in PerItem : quote'[c] = p * count[c]
         /\ at[c] = "quoted" => /\ at'[c] = "from" /\ quote'[c] = quote[c]
                                /\ from'[c] \in create_quote_from_float(quote[c])
         /\ at[c] \in Asked => /\ at'[c] \in Asked
                               /\ from'[c] = from[c] /\ quote'[c] = quote[c]
<1> USE DEF Functions, Asked
<1>1. CASE calculateQuote(c) BY <1>1 DEF calculateQuote
<1>2. CASE QuoteFails(c) BY <1>2 DEF QuoteFails
<1>3. CASE Cost(c) BY <1>3 DEF Cost
<1>4. CASE LookupFrom(c) BY <1>4 DEF LookupFrom, UseFrom
<1>5. CASE LookupTo(c) BY <1>5 DEF LookupTo, UseTo
<1>6. CASE InsertFrom(c) BY <1>6 DEF InsertFrom, UseFrom
<1>7. CASE InsertTo(c) BY <1>7 DEF InsertTo, UseTo
<1> QED BY <1>1, <1>2, <1>3, <1>4, <1>5, <1>6, <1>7 DEF Serve

\* The call of a line converts a price from dollars to the order's currency.
LineCall(i) ==
  /\ at[i] \in {"idle", "failed"} \cup Asked
  /\ at[i] # "idle" => from[i].code = "USD" /\ to[i] = Code

\* The first call quotes the order's items.
QuoteCall ==
  /\ at[0] # "idle" => to[0] = Code /\ count[0] = ItemCount(order)
  /\ at[0] \in {"quoted"} \cup Asked => \E p \in PerItem : quote[0] = p * count[0]
  /\ at[0] \in Asked => from[0] \in create_quote_from_float(quote[0])

OrderCallsInv == QuoteCall /\ \A i \in DOMAIN order : LineCall(i)

Mine == {0} \cup DOMAIN order

\* The calls of the order are calls.
LEMMA MineAreCalls ==
  ASSUME OrderInv
  PROVE  Mine \subseteq 0..Lines /\ Mine \subseteq Calls /\ 0 \notin DOMAIN order
<1>1. order \in Seq(Quantities) BY CartsAssumption DEF OrderInv
<1>2. DOMAIN order = 1..Len(order) BY <1>1
<1>3. Mine \subseteq 0..Lines /\ 0 \notin DOMAIN order
  BY <1>1, <1>2, QuantitiesAssumption DEF Mine, OrderInv
<1> QED BY <1>3, CallsAssumption

\* A step as one of the order's calls sees it.
LEMMA MineStep ==
  ASSUME CallsInv, OrderInv, [PricedNext]_allVars, NEW c \in Mine
  PROVE  /\ order' = order
         /\ \/ c \in DOMAIN order /\ PriceLine(c)
            \/ c = 0 /\ QuoteShipping
            \/ Serve(c)
            \/ Restart
            \/ SameCall(c)
<1> USE MineAreCalls
<1>0. c \in Calls /\ c \notin Others BY DEF Others
<1>1. ASSUME NEW i \in DOMAIN order, PriceLine(i) PROVE i = c \/ SameCall(c)
  <2>1. i \in Calls /\ Ask(i) BY <1>1 DEF PriceLine, Ask, Mine
  <2> QED BY <1>0, <2>1, OneCall DEF CallsInv
<1>2. CASE QuoteShipping
  <2>1. 0 \in Calls /\ Ask(0) BY <1>2 DEF QuoteShipping, Ask, Mine
  <2> QED BY <1>0, <1>2, <2>1, OneCall DEF CallsInv, QuoteShipping
<1>3. CASE OthersAsk
  <2>1. PICK d \in Others : ConvertPrice(d) BY <1>3 DEF OthersAsk
  <2>2. d \in Calls /\ Ask(d) /\ d # c BY <1>0, <2>1 DEF Others, Ask
  <2> QED BY <1>0, <1>3, <2>2, OneCall DEF CallsInv, OthersAsk
<1>4. CASE ServicesAnswer
  <2>1. ASSUME NEW d \in Calls, Serve(d) PROVE d = c \/ SameCall(c)
    BY <1>0, <2>1, OneCall DEF CallsInv
  <2> QED BY <1>4, <2>1 DEF ServicesAnswer
<1>5. CASE AddItUp \/ UNCHANGED allVars
  BY <1>5 DEF AddItUp, allVars, pricingVars, SameCall
<1> QED BY <1>1, <1>2, <1>3, <1>4, <1>5 DEF PricedNext, PriceLine

\* An answer that an order has got stays.
LEMMA AnsweredStays ==
  ASSUME CallsInv, OrderInv, [PricedNext]_allVars, NEW c \in Mine, at[c] = "answered"
  PROVE  order' = order /\ SameCall(c)
<1>1. c \in Calls BY MineAreCalls
<1>2. ~PriceLine(c) BY DEF PriceLine
<1>3. c = 0 => ~QuoteShipping BY DEF QuoteShipping, GetQuote
<1>4. ~Serve(c) BY <1>1, ServesCall DEF CallsInv
<1>5. Restart => SameCall(c) BY <1>1 DEF Restart, SameCall, CallsInv, Functions
<1> QED BY <1>2, <1>3, <1>4, <1>5, MineStep

\* Every step keeps a line tied to its call.
LEMMA LineCallNext ==
  ASSUME CallsInv, OrderInv, [PricedNext]_allVars, NEW i \in DOMAIN order, LineCall(i)
  PROVE  LineCall(i)'
<1>0. i \in Mine /\ i \in Calls /\ i # 0 BY MineAreCalls DEF Mine
<1>1. CASE PriceLine(i)
  BY <1>0, <1>1 DEF PriceLine, ConvertPrice, LineCall, Asked, CallsInv, Functions
<1>2. CASE Serve(i)
  BY <1>0, <1>2, ServesCall DEF LineCall, CallsInv, Asked
<1>3. CASE Restart
  BY <1>0, <1>3 DEF Restart, LineCall, CallsInv, Functions, Asked
<1>4. CASE SameCall(i) BY <1>4 DEF SameCall, LineCall, Asked
<1> QED BY <1>0, <1>1, <1>2, <1>3, <1>4, MineStep

\* Every step keeps the quote tied to its call.
LEMMA QuoteCallNext ==
  ASSUME CallsInv, OrderInv, [PricedNext]_allVars, QuoteCall
  PROVE  QuoteCall'
<1>0. 0 \in Mine /\ 0 \in Calls /\ 0 \notin DOMAIN order BY MineAreCalls DEF Mine
<1>1. order' = order BY <1>0, MineStep
<1>2. CASE QuoteShipping
  <2>1. cart'[0] = order /\ to'[0] = Code /\ at'[0] = "quote"
    BY <1>0, <1>2 DEF QuoteShipping, GetQuote, CallsInv, Functions
  <2>2. PICK quantities \in Carts : /\ cart' = [cart EXCEPT ![0] = quantities]
                                    /\ count' = [count EXCEPT ![0] = ItemCount(quantities)]
    BY <1>2 DEF QuoteShipping, GetQuote
  <2>3. quantities = order /\ count'[0] = ItemCount(quantities)
    BY <1>0, <2>1, <2>2 DEF CallsInv, Functions
  <2> QED BY <1>1, <2>1, <2>3 DEF QuoteCall, Asked
<1>3. CASE Serve(0)
  <2> USE <1>0, <1>1, <1>3, ServesCall DEF CallsInv
  <2>1. at'[0] # "idle" /\ to'[0] = Code /\ count'[0] = ItemCount(order')
    BY DEF QuoteCall
  <2>2. at'[0] \in {"quoted"} \cup Asked => \E p \in PerItem : quote'[0] = p * count'[0]
    BY DEF QuoteCall, Asked
  <2>3. at'[0] \in Asked => from'[0] \in create_quote_from_float(quote'[0])
    BY DEF QuoteCall, Asked
  <2> QED BY <2>1, <2>2, <2>3 DEF QuoteCall, Asked
<1>4. CASE Restart
  <2>1. at'[0] = "failed" \/ at'[0] = at[0] BY <1>0, <1>4 DEF Restart
  <2>2. at'[0] # "idle" => at[0] # "idle" BY <1>0, <1>4 DEF Restart
  <2>3. UNCHANGED <<count, quote, from, to>> BY <1>4 DEF Restart
  <2> QED BY <1>1, <2>1, <2>2, <2>3 DEF QuoteCall, Asked
<1>5. CASE SameCall(0)
  BY <1>1, <1>5 DEF SameCall, QuoteCall, Asked
<1> QED BY <1>0, <1>2, <1>3, <1>4, <1>5, MineStep

\* No line has a call at first.
LEMMA OrderCallsInit == PricedInit => OrderCallsInv
<1> SUFFICES ASSUME PricedInit PROVE OrderCallsInv OBVIOUS
<1>1. OrderInv BY OrderInvInit
<1>2. \A c \in Mine : at[c] = "idle"
  BY <1>1, MineAreCalls DEF PricedInit, PricingInit
<1> QED BY <1>2 DEF OrderCallsInv, QuoteCall, LineCall, Mine, Asked

\* Every step keeps lines and quote tied to their calls.
LEMMA OrderCallsNext ==
  CallsInv /\ OrderInv /\ OrderCallsInv /\ [PricedNext]_allVars => OrderCallsInv'
<1> SUFFICES ASSUME CallsInv, OrderInv, OrderCallsInv, [PricedNext]_allVars
             PROVE  OrderCallsInv'
  OBVIOUS
<1>1. order' = order
  <2>1. 0 \in Mine BY DEF Mine
  <2> QED BY <2>1, MineStep
<1>2. QuoteCall' BY QuoteCallNext DEF OrderCallsInv
<1>3. \A i \in DOMAIN order : LineCall(i)' BY LineCallNext DEF OrderCallsInv
<1> QED BY <1>1, <1>2, <1>3 DEF OrderCallsInv

LineWorth(i) == Times(order[i] % WordMod) * Worth(answer[i])
LineWorths == [i \in DOMAIN order |-> LineWorth(i)]

\* Shipping is quoted after the lines are priced.
LinesFirst == at[0] # "idle" => \A i \in DOMAIN order : at[i] = "answered"

\* What is due is the quote and the lines so far, at the prices that were answered.
DueInv ==
  pc # "shipping" =>
    /\ \A c \in Mine : at[c] = "answered" /\ answer[c] \in Prices
    /\ pc \in {"lines", "charge"} =>
         line <= Len(order) /\ due = Worth(answer[0]) + SumOf(LineWorths, 1..line)
    /\ pc = "multiply" =>
         line < Len(order) /\ due = Worth(answer[0]) + SumOf(LineWorths, 1..(line + 1))
    /\ pc = "charge" => line = Len(order)

SumInv == LinesFirst /\ DueInv /\ (pc = "shipping" => line = 0)

\* Every step keeps the lines answered before the quote is asked for.
LEMMA LinesFirstNext ==
  ASSUME CallsInv, OrderInv, LinesFirst, [PricedNext]_allVars
  PROVE  LinesFirst'
<1>0. 0 \in Mine /\ 0 \in Calls BY MineAreCalls DEF Mine
<1>1. order' = order BY <1>0, MineStep
<1>2. ASSUME NEW i \in DOMAIN order, at[i] = "answered" PROVE at'[i] = "answered"
  BY <1>2, AnsweredStays DEF Mine, SameCall
<1>3. CASE QuoteShipping
  <2>1. \A i \in DOMAIN order : at[i] = "answered" BY <1>3 DEF QuoteShipping
  <2> QED BY <1>1, <1>2, <2>1 DEF LinesFirst
<1>4. CASE Serve(0) \/ Restart \/ SameCall(0)
  <2>1. at[0] = "idle" => at'[0] = "idle"
    <3>1. at[0] = "idle" => ~Serve(0) BY <1>0, ServesCall DEF CallsInv
    <3> QED BY <1>0, <1>4, <3>1 DEF Restart, SameCall
  <2> QED BY <1>1, <1>2, <2>1 DEF LinesFirst
<1>5. 0 \notin DOMAIN order BY MineAreCalls
<1> QED BY <1>0, <1>3, <1>4, <1>5, MineStep

\* What the lines and the quote are worth are integers.
LEMMA LineWorthsInt ==
  ASSUME OrderInv, \A c \in Mine : answer[c] \in Prices
  PROVE  /\ \A i \in DOMAIN order : LineWorth(i) \in Int /\ LineWorths[i] = LineWorth(i)
         /\ DOMAIN order = 1..Len(order) /\ Len(order) \in Nat
         /\ Worth(answer[0]) \in Int
<1>1. order \in Seq(Quantities) BY CartsAssumption DEF OrderInv
<1>2. \A c \in Mine : Worth(answer[c]) \in Int BY PriceIsOurs, WorthIsInt
<1>3. ASSUME NEW i \in DOMAIN order PROVE LineWorth(i) \in Int
  <2>0. order[i] \in Quantities BY <1>1
  <2>1. order[i] \in Int /\ WordMod \in Nat \ {0} BY <2>0, QuantitiesAssumption
  <2>2. Times(order[i] % WordMod) \in Int BY <2>1 DEF Times
  <2>3. PICK a \in Int, b \in Int : a = Times(order[i] % WordMod) /\ b = Worth(answer[i])
    BY <1>2, <2>2 DEF Mine
  <2>4. a * b \in Int OBVIOUS
  <2> QED BY <2>3, <2>4 DEF LineWorth
<1>4. \A i \in DOMAIN order : LineWorths[i] = LineWorth(i) BY DEF LineWorths
<1> QED BY <1>1, <1>2, <1>3, <1>4 DEF Mine

\* The lines so far and the next.
LEMMA LineMore ==
  ASSUME OrderInv, \A c \in Mine : answer[c] \in Prices, line < Len(order)
  PROVE  /\ SumOf(LineWorths, 1..(line + 1)) = SumOf(LineWorths, 1..line) + LineWorth(line + 1)
         /\ SumOf(LineWorths, 1..line) \in Int /\ LineWorth(line + 1) \in Int
<1>1. line \in Nat /\ line + 1 \in DOMAIN order /\ 1..line \subseteq DOMAIN order
  <2>1. DOMAIN order = 1..Len(order) /\ Len(order) \in Nat BY LineWorthsInt
  <2>2. line \in Nat /\ line < Len(order) BY DEF OrderInv
  <2> QED BY <2>1, <2>2
<1>2. IsFiniteSet(1..line) /\ line + 1 \notin 1..line /\ 1..(line + 1) = 1..line \cup {line + 1}
  <2>1. line \in Int /\ 1 \in Int BY <1>1
  <2>2. IsFiniteSet(1..line) BY <2>1, FS_Interval
  <2>3. line + 1 \notin 1..line /\ 1..(line + 1) = 1..line \cup {line + 1} BY <1>1
  <2> QED BY <2>2, <2>3
<1>3. PICK f : f = LineWorths OBVIOUS
<1>4. f[line + 1] \in Int /\ (\A y \in 1..line : f[y] \in Int) /\ f[line + 1] = LineWorth(line + 1)
  BY <1>1, <1>3, LineWorthsInt
<1>5. SumOf(f, 1..line) \in Int BY <1>2, <1>4, SumInt
<1>6. SumOf(f, 1..line \cup {line + 1}) = SumOf(f, 1..line) + f[line + 1]
  <2>1. PICK s, x : s = 1..line /\ x = line + 1 OBVIOUS
  <2>2. IsFiniteSet(s) /\ x \notin s /\ f[x] \in Int /\ \A y \in s : f[y] \in Int
    BY <1>2, <1>4, <2>1
  <2>3. SumOf(f, s \cup {x}) = SumOf(f, s) + f[x] BY <2>2, SumOneMore
  <2> QED BY <2>1, <2>3
<1> QED BY <1>2, <1>3, <1>4, <1>5, <1>6

\* Every step keeps what is due at the prices answered.
LEMMA SumNext ==
  CallsInv /\ OrderInv /\ SumInv /\ [PricedNext]_allVars => SumInv'
<1> SUFFICES ASSUME CallsInv, OrderInv, SumInv, [PricedNext]_allVars PROVE SumInv'
  OBVIOUS
<1>1. LinesFirst' BY LinesFirstNext DEF SumInv
<1>2. CASE AddItUp
  <2>1. /\ UNCHANGED <<order, pricingVars>> /\ at[0] = "answered"
        /\ \A c \in Mine : answer[c] \in Prices
    BY <1>2 DEF AddItUp, Mine
  <2>2. \A c \in Mine : at[c] = "answered" BY <2>1 DEF Mine, SumInv, LinesFirst
  <2>3. /\ order' = order /\ answer' = answer /\ at' = at /\ Mine' = Mine
        /\ LineWorths' = LineWorths
    BY <2>1 DEF pricingVars, Mine, LineWorths, LineWorth, Worth
  <2>4. Worth(answer[0])' = Worth(answer[0]) BY <2>3 DEF Worth
  <2>5. line \in Nat /\ Len(order) \in Nat BY <2>1, LineWorthsInt DEF OrderInv
  <2>6. CASE AddShipping(answer[0])
    <3>1. pc' \in {"lines", "panic"} /\ line' = 0 /\ due' = Worth(answer[0])
      BY <2>6 DEF AddShipping, AddToTotal, SumInv
    <3>2. SumOf(LineWorths, 1..0) = 0
      <4>1. 1..0 = {} OBVIOUS
      <4> QED BY <4>1, SumEmpty
    <3>3. Worth(answer[0]) \in Int BY <2>1, LineWorthsInt
    <3>4. due' = Worth(answer[0]) + SumOf(LineWorths, 1..0) BY <3>1, <3>2, <3>3
    <3> QED BY <1>1, <2>1, <2>2, <2>3, <2>4, <2>5, <3>1, <3>4 DEF SumInv, DueInv
  <2>7. CASE line < Len(order) /\ NextLine(answer[line + 1], order[line + 1])
    <3>1. /\ pc = "lines" /\ pc' = "multiply" /\ line' = line
          /\ due' = due + LineWorth(line + 1)
      BY <2>7 DEF NextLine, LineWorth
    <3>2. due = Worth(answer[0]) + SumOf(LineWorths, 1..line) BY <3>1 DEF SumInv, DueInv
    <3>3. Worth(answer[0]) \in Int BY <2>1, LineWorthsInt
    <3>4. due' = Worth(answer[0]) + SumOf(LineWorths, 1..(line + 1))
      BY <2>1, <2>7, <3>1, <3>2, <3>3, LineMore
    <3> QED BY <1>1, <2>1, <2>2, <2>3, <2>4, <2>7, <3>1, <3>4 DEF SumInv, DueInv
  <2>8. CASE MultiplyStep
    <3>1. /\ pc = "multiply" /\ pc' \in {"multiply", "panic"}
          /\ line' = line /\ due' = due
      BY <2>8 DEF MultiplyStep
    <3> QED BY <1>1, <2>1, <2>2, <2>3, <2>4, <3>1 DEF SumInv, DueInv
  <2>9. CASE AddLine
    <3>1. /\ pc = "multiply" /\ pc' \in {"lines", "panic"}
          /\ line' = line + 1 /\ due' = due
      BY <2>9 DEF AddLine, AddToTotal
    <3>2. line + 1 <= Len(order) BY <2>5, <3>1 DEF SumInv, DueInv
    <3> QED BY <1>1, <2>1, <2>2, <2>3, <2>4, <3>1, <3>2 DEF SumInv, DueInv
  <2>10. CASE line = Len(order) /\ Charge
    <3>1. pc = "lines" /\ pc' = "charge" /\ line' = line /\ due' = due
      BY <2>10 DEF Charge
    <3> QED BY <1>1, <2>1, <2>2, <2>3, <2>4, <2>10, <3>1 DEF SumInv, DueInv
  <2> QED BY <1>2, <2>6, <2>7, <2>8, <2>9, <2>10 DEF AddItUp
<1>3. CASE UNCHANGED <<order, totalVars>>
  <2>1. pc' = pc /\ line' = line /\ due' = due /\ order' = order
    BY <1>3 DEF totalVars
  <2>2. CASE pc = "shipping" BY <1>1, <2>1, <2>2 DEF SumInv, DueInv
  <2>3. CASE pc # "shipping"
    <3>1. \A c \in Mine : at[c] = "answered" BY <2>3 DEF SumInv, DueInv
    <3>2. \A c \in Mine : at'[c] = at[c] /\ answer'[c] = answer[c]
      BY <3>1, AnsweredStays DEF SameCall
    <3>3. Mine' = Mine BY <2>1 DEF Mine
    <3>4. LineWorths' = LineWorths
      <4>1. \A i \in DOMAIN order : LineWorth(i)' = LineWorth(i)
        BY <2>1, <3>2 DEF Mine, LineWorth, Worth
      <4> QED BY <2>1, <4>1 DEF LineWorths
    <3>5. Worth(answer[0])' = Worth(answer[0]) BY <3>2 DEF Mine, Worth
    <3> QED BY <1>1, <2>1, <2>3, <3>2, <3>3, <3>4, <3>5 DEF SumInv, DueInv
  <2> QED BY <2>2, <2>3
<1> QED
  BY <1>2, <1>3 DEF PricedNext, PriceLine, QuoteShipping, OthersAsk, ServicesAnswer, allVars

\* What is charged and what was shown are this close, with nanos short, and what was
\* misread beside: each bound a sum of multiples, so that bounds add up.
NotShort(a, w, nanos) == Precision * a + (1 - Precision) * w + Precision * nanos >= 0
NotOver(a, w, misread) ==
  -Precision * a + (Precision + 1) * w + (Precision + 1) * misread >= 0

\* A conversion to the same currency.
LEMMA SameCurrency ==
  ASSUME NEW m, Plain(m), NEW r \in Nat \ {0}, NEW amount, Close(m, amount, r, r),
         Worth(amount) \in Int
  PROVE  NotShort(Worth(amount), Worth(m), 1) /\ NotOver(Worth(amount), Worth(m), Misreading(m))
<1>1. PICK v \in Nat : v = Worth(m) BY ReadsDecimals
<1>2. PICK w \in Int : w = Worth(amount) OBVIOUS
<1>3. PICK e \in Nat : e = Misreading(m) BY NanosModAssumption DEF Misreading
<1>4. PICK P \in Nat \ {0} : P = Precision BY PrecisionAssumption
<1>5. /\ (w * r - v * r + r) * P > -(v * r)
      /\ (w * r - v * r - e * r) * P <= v * r + e * r
  BY <1>1, <1>2, <1>3, <1>4 DEF Close
<1>6. P * w + (1 - P) * v + P * 1 >= 0
  <2>1. PICK x \in Int : x = P * w + (1 - P) * v + P OBVIOUS
  <2>2. (w * r - v * r + r) * P + v * r = x * r BY <2>1
  <2>3. x * r > 0
    <3>1. /\ (w * r - v * r + r) * P \in Int /\ v * r \in Int OBVIOUS
    <3> QED BY <1>5, <2>2, <3>1
  <2>4. x >= 0
    <3> SUFFICES ASSUME x <= -1 PROVE FALSE OBVIOUS
    <3>1. x * r <= 0 OBVIOUS
    <3> QED BY <2>3, <3>1
  <2> QED BY <2>1, <2>4
<1>7. -P * w + (P + 1) * v + (P + 1) * e >= 0
  <2>1. PICK x \in Int : x = -P * w + (P + 1) * v + (P + 1) * e OBVIOUS
  <2>2. (v * r + e * r) - (w * r - v * r - e * r) * P = x * r BY <2>1
  <2>3. x * r >= 0
    <3>1. /\ (w * r - v * r - e * r) * P \in Int /\ v * r \in Int /\ e * r \in Int OBVIOUS
    <3> QED BY <1>5, <2>2, <3>1
  <2>4. x >= 0
    <3> SUFFICES ASSUME x <= -1 PROVE FALSE OBVIOUS
    <3>1. x * r <= (-1) * r OBVIOUS
    <3> QED BY <2>3, <3>1
  <2> QED BY <2>1, <2>4
<1> QED BY <1>1, <1>2, <1>3, <1>4, <1>6, <1>7 DEF NotShort, NotOver

\* A quote is what it is quoted at, or a cent less; or anything within its dollar
\* when its cents do not fit.
LEMMA QuoteWorth ==
  ASSUME NEW tenths \in Nat, NEW amount \in create_quote_from_float(tenths)
  PROVE  /\ Worth(amount) \in Int /\ tenths * (NanosMod \div 10) \in Int
         /\ 10 * tenths <= MaxInt32 =>
              /\ tenths * (NanosMod \div 10) - NanosMod \div 100 <= Worth(amount)
              /\ Worth(amount) <= tenths * (NanosMod \div 10)
         /\ tenths * (NanosMod \div 10) - NanosMod <= Worth(amount)
         /\ Worth(amount) <= tenths * (NanosMod \div 10) + NanosMod
<1>1. PICK cents \in CentsOf(tenths) :
        amount = Amount(tenths \div 10, (cents % 100) * (NanosMod \div 100), "USD")
  BY DEF create_quote_from_float
<1>2. PICK h \in Nat \ {0} :
        h = NanosMod \div 100 /\ NanosMod = 100 * h /\ NanosMod \div 10 = 10 * h
  BY Hundredths
<1>3. PICK q \in Nat, v \in 0..9 :
        q = tenths \div 10 /\ tenths = 10 * q + v /\ v % 5 = tenths % 5
  OBVIOUS
<1>4. Worth(amount) = q * NanosMod + (cents % 100) * h
  BY <1>1, <1>2, <1>3 DEF Worth, Amount
<1>5. q * NanosMod = 100 * (q * h) BY <1>2
<1>6. tenths * (10 * h) = 100 * (q * h) + 10 * (v * h) BY <1>3
<1>7. PICK x \in Nat, y \in Nat : x = q * h /\ y = v * h BY <1>2, <1>3, ProductIsNat
<1>8. cents \in Int
  <2>1. 10 * tenths \in Int /\ 10 * tenths - 1 \in Int /\ MaxInt32 \in Int
    BY QuotesAssumption
  <2> QED BY <2>1 DEF CentsOf
<1>9. PICK k \in 0..99 : k = cents % 100 BY <1>8
<1>10. PICK z \in Nat : z = k * h /\ z <= 100 * h
  <2>1. k * h \in Nat /\ k * h <= 100 * h BY ProductIsNat
  <2> QED BY <2>1
<1>11. y <= 9 * h BY <1>3, <1>7
<1>12. ASSUME 10 * tenths <= MaxInt32
       PROVE  100 * x + 10 * y - h <= 100 * x + z /\ z <= 10 * y
  <2>1. CASE cents = 10 * tenths
    <3>1. k = 10 * v BY <1>3, <1>9, <2>1
    <3>2. (10 * v) * h = 10 * (v * h) BY <1>3
    <3> QED BY <1>2, <1>7, <1>10, <3>1, <3>2
  <2>2. CASE cents = 10 * tenths - 1 /\ tenths % 5 # 0
    <3>1. v # 0 BY <1>3, <2>2
    <3>2. k = 10 * v - 1 BY <1>3, <1>9, <2>2, <3>1
    <3>3. (10 * v - 1) * h = 10 * (v * h) - h BY <1>3
    <3> QED BY <1>2, <1>7, <1>10, <3>2, <3>3
  <2>3. ~(10 * tenths > MaxInt32) /\ ~(10 * tenths - 1 > MaxInt32)
    BY <1>12, QuotesAssumption
  <2> QED BY <1>1, <2>1, <2>2, <2>3 DEF CentsOf
<1>13. Worth(amount) = 100 * x + z /\ tenths * (NanosMod \div 10) = 100 * x + 10 * y
  BY <1>2, <1>4, <1>5, <1>6, <1>7, <1>9, <1>10
<1> QED BY <1>2, <1>7, <1>10, <1>11, <1>12, <1>13

-----------------------------------------------------------------------------
ShownWorths == [i \in DOMAIN order |-> order[i] * Worth(from[i])]
Misreads == [i \in DOMAIN order |-> order[i] * Misreading(from[i])]

\* When an order in dollars is compared with what its shopper was shown.
Comparable == pc = "charge" /\ Code = "USD" /\ \A i \in DOMAIN order : order[i] > 0

\* No call of the order met an insertion.
Untorn == \A c \in DOMAIN order \cup {0} : ~torn[c]

\* Nothing at all is not over.
LEMMA NothingIsNotOver ==
  ASSUME NEW w \in Nat, NEW e \in Nat
  PROVE  NotOver(0, w, e)
<1>1. PICK P \in Nat : P = Precision BY PrecisionAssumption
<1>2. (P + 1) * w \in Nat /\ (P + 1) * e \in Nat BY ProductIsNat
<1>3. -P * 0 = 0 OBVIOUS
<1> QED BY <1>1, <1>2, <1>3 DEF NotOver

\* Each amount comes back as it was, or not at all, but for the precision, a nano
\* and a leading zero.
LEMMA ComesBack ==
  ASSUME CallsInv, OrderInv, OrderCallsInv, SumInv, Comparable, NEW c \in Mine
  PROVE  /\ Worth(from[c]) \in Nat /\ Worth(answer[c]) \in Int /\ Misreading(from[c]) \in Nat
         /\ Untorn => NotShort(Worth(answer[c]), Worth(from[c]), 1)
         /\ NotOver(Worth(answer[c]), Worth(from[c]), Misreading(from[c]))
<1>1. c \in Calls /\ CallInv(c) BY MineAreCalls DEF CallsInv
<1>2. at[c] = "answered" /\ answer[c] \in Prices /\ (Untorn => ~torn[c])
  BY DEF SumInv, DueInv, Comparable, Mine, Untorn
<1>3. from[c].code = "USD" /\ to[c] = "USD"
  <2>1. CASE c = 0
    <3>1. quote[0] \in Nat /\ from[0] \in create_quote_from_float(quote[0])
      BY <1>1, <1>2, <2>1 DEF OrderCallsInv, QuoteCall, CallInv, Asked
    <3>2. from[0].code = "USD" BY <3>1, QuoteIsPlain
    <3> QED BY <1>2, <2>1, <3>2 DEF OrderCallsInv, QuoteCall, Comparable
  <2>2. CASE c \in DOMAIN order
    BY <1>2, <2>2 DEF OrderCallsInv, LineCall, Comparable
  <2> QED BY <2>1, <2>2 DEF Mine
<1>4. Rates["USD"] \in Nat \ {0} /\ "USD" \in DOMAIN Rates BY RatesAssumption
<1>5. /\ Plain(from[c])
      /\ \/ answer[c] \in Converted(from[c], Rates["USD"], Rates["USD"], "USD")
         \/ torn[c] /\ answer[c] \in {Garbage, Amount(0, 0, "USD")}
  BY <1>1, <1>2, <1>3, <1>4 DEF CallInv, Asked
<1>6. Worth(from[c]) \in Nat /\ Misreading(from[c]) \in Nat
  BY <1>5, ReadsDecimals, NanosModAssumption DEF Misreading
<1>7. Worth(answer[c]) \in Int
  <2>1. answer[c].units \in Nat /\ answer[c].nanos \in Int
    BY <1>2, PricesAssumption DEF Price
  <2> QED BY <2>1, NanosModAssumption DEF Worth
<1>8. CASE answer[c] \in Converted(from[c], Rates["USD"], Rates["USD"], "USD")
  <2>1. Close(from[c], answer[c], Rates["USD"], Rates["USD"])
    BY <1>4, <1>5, <1>8, ConvertedClosely
  <2> QED BY <1>4, <1>5, <1>6, <1>7, <2>1, SameCurrency
<1>9. CASE torn[c] /\ answer[c] \in {Garbage, Amount(0, 0, "USD")}
  <2>1. answer[c].units = 0 /\ answer[c].nanos = 0 BY <1>9 DEF Garbage, Amount
  <2>2. Worth(answer[c]) = 0 BY <2>1, NanosModAssumption DEF Worth
  <2> QED BY <1>2, <1>6, <1>7, <1>9, <2>2, NothingIsNotOver
<1> QED BY <1>5, <1>8, <1>9

\* So do several of the same.
LEMMA ManyClose ==
  ASSUME NEW k \in Nat, NEW a \in Int, NEW w \in Int, NEW e \in Int
  PROVE  /\ NotShort(a, w, 1) => NotShort(k * a, k * w, k)
         /\ NotOver(a, w, e) => NotOver(k * a, k * w, k * e)
<1>1. PICK P \in Nat : P = Precision BY PrecisionAssumption
<1>2. ASSUME P * a + (1 - P) * w + P * 1 >= 0
      PROVE  P * (k * a) + (1 - P) * (k * w) + P * k >= 0
  <2>1. PICK x \in Nat : x = P * a + (1 - P) * w + P * 1 BY <1>2
  <2>2. P * (k * a) + (1 - P) * (k * w) + P * k = k * x BY <2>1
  <2>3. k * x \in Nat BY ProductIsNat
  <2> QED BY <2>2, <2>3
<1>3. ASSUME -P * a + (P + 1) * w + (P + 1) * e >= 0
      PROVE  -P * (k * a) + (P + 1) * (k * w) + (P + 1) * (k * e) >= 0
  <2>1. PICK x \in Nat : x = -P * a + (P + 1) * w + (P + 1) * e BY <1>3
  <2>2. -P * (k * a) + (P + 1) * (k * w) + (P + 1) * (k * e) = k * x BY <2>1
  <2>3. k * x \in Nat BY ProductIsNat
  <2> QED BY <2>2, <2>3
<1> QED BY <1>1, <1>2, <1>3 DEF NotShort, NotOver

\* A line is charged as it was shown, but for the nanos of a conversion and a leading zero.
LEMMA LinesComeBack ==
  ASSUME CallsInv, OrderInv, OrderCallsInv, SumInv, Comparable, NEW i \in DOMAIN order
  PROVE  /\ LineWorths[i] \in Int /\ ShownWorths[i] \in Nat
         /\ order[i] \in Nat /\ Misreads[i] \in Nat
         /\ Untorn => NotShort(LineWorths[i], ShownWorths[i], order[i])
         /\ NotOver(LineWorths[i], ShownWorths[i], Misreads[i])
<1>1. PICK k \in Nat : k = order[i] /\ k > 0 /\ Times(order[i] % WordMod) = k
  <2>1. order[i] \in Quantities BY CartsAssumption DEF OrderInv
  <2>2. order[i] \in Int /\ order[i] < WordMod /\ WordMod \in Nat \ {0} /\ order[i] > 0
    BY <2>1, QuantitiesAssumption DEF Comparable
  <2>3. order[i] % WordMod = order[i] BY <2>2
  <2> QED BY <2>2, <2>3 DEF Times
<1>2. i \in Mine BY DEF Mine
<1>3. PICK a \in Int, w \in Nat, e \in Nat :
        a = Worth(answer[i]) /\ w = Worth(from[i]) /\ e = Misreading(from[i])
  BY <1>2, ComesBack
<1>4. LineWorths[i] = k * a /\ ShownWorths[i] = k * w /\ Misreads[i] = k * e
  BY <1>1, <1>3 DEF LineWorths, LineWorth, ShownWorths, Misreads
<1>5. (Untorn => NotShort(a, w, 1)) /\ NotOver(a, w, e) BY <1>2, <1>3, ComesBack
<1>6. k * w \in Nat /\ k * e \in Nat /\ k * a \in Int BY ProductIsNat
<1> QED BY <1>1, <1>4, <1>5, <1>6, ManyClose

\* The lines all in all, and their number.
LEMMA AllLinesComeBack ==
  ASSUME CallsInv, OrderInv, OrderCallsInv, SumInv, Comparable
  PROVE  LET S == DOMAIN order
         IN /\ SumOf(LineWorths, S) \in Int /\ TotalOf(ShownWorths) \in Int
            /\ TotalOf(order) \in Int /\ TotalOf(Misreads) \in Int
            /\ Untorn => NotShort(SumOf(LineWorths, S), TotalOf(ShownWorths), TotalOf(order))
            /\ NotOver(SumOf(LineWorths, S), TotalOf(ShownWorths), TotalOf(Misreads))
<1> DEFINE S == DOMAIN order
<1>1. order \in Seq(Quantities) BY CartsAssumption DEF OrderInv
<1>2. IsFiniteSet(S)
  <2>1. S = 1..Len(order) /\ Len(order) \in Nat BY <1>1
  <2> QED BY <2>1, FS_Interval
<1>3. DOMAIN ShownWorths = S /\ DOMAIN Misreads = S BY DEF ShownWorths, Misreads
<1>4. /\ TotalOf(ShownWorths) = SumOf(ShownWorths, S)
      /\ TotalOf(Misreads) = SumOf(Misreads, S)
      /\ TotalOf(order) = SumOf(order, S)
  BY <1>2, <1>3, TotalIsSum
<1>5. PICK a, w, q, m :
        a = LineWorths /\ w = ShownWorths /\ q = order /\ m = Misreads
  OBVIOUS
<1>6. PICK P \in Int : P = Precision BY PrecisionAssumption
<1>7. \A x \in S : /\ a[x] \in Int /\ w[x] \in Int /\ q[x] \in Int /\ m[x] \in Int
                   /\ Untorn => NotShort(a[x], w[x], q[x])
                   /\ NotOver(a[x], w[x], m[x])
  BY <1>5, LinesComeBack
<1> HIDE DEF S
<1>8. /\ SumOf(a, S) \in Int /\ SumOf(w, S) \in Int
      /\ SumOf(q, S) \in Int /\ SumOf(m, S) \in Int
  BY <1>2, <1>7, SumInt
<1>9. ASSUME Untorn PROVE NotShort(SumOf(a, S), SumOf(w, S), SumOf(q, S))
  <2>1. \A x \in S : P * a[x] + (1 - P) * w[x] + P * q[x] >= 0
    BY <1>6, <1>7, <1>9 DEF NotShort
  <2>2. 1 - P \in Int OBVIOUS
  <2>3. P * SumOf(a, S) + (1 - P) * SumOf(w, S) + P * SumOf(q, S) >= 0
    BY <1>2, <1>7, <2>1, <2>2, SumsAtLeast
  <2> QED BY <1>6, <2>3 DEF NotShort
<1>10. NotOver(SumOf(a, S), SumOf(w, S), SumOf(m, S))
  <2>1. PICK k \in Int, j \in Int : k = -P /\ j = P + 1 OBVIOUS
  <2>2. \A e \in Int : -P * e = k * e BY <2>1
  <2>3. \A x \in S : k * a[x] + j * w[x] + j * m[x] >= 0
    BY <1>6, <1>7, <2>1, <2>2 DEF NotOver
  <2>4. k * SumOf(a, S) + j * SumOf(w, S) + j * SumOf(m, S) >= 0
    BY <1>2, <1>7, <2>3, SumsAtLeast
  <2> QED BY <1>6, <1>8, <2>1, <2>2, <2>4 DEF NotOver
<1> QED BY <1>4, <1>5, <1>8, <1>9, <1>10 DEF S

\* The quote is for every item counted.
Shipping(p) == ItemCount(order) * p * (NanosMod \div 10)
Saturated == 10 * quote[0] > MaxInt32
QuoteShort == IF Saturated THEN NanosMod ELSE NanosMod \div 100
QuoteOver == IF Saturated THEN NanosMod ELSE 0

\* What is converted of the quote is what the items counted cost, but for the cents.
LEMMA QuotedWorth ==
  ASSUME CallsInv, OrderInv, OrderCallsInv, SumInv, Comparable
  PROVE  \E p \in PerItem :
           /\ Shipping(p) \in Int
           /\ Shipping(p) - QuoteShort <= Worth(from[0])
           /\ Worth(from[0]) <= Shipping(p) + QuoteOver
<1>1. 0 \in Mine /\ at[0] = "answered" BY DEF Mine, SumInv, DueInv, Comparable
<1>2. PICK p \in PerItem : quote[0] = p * count[0]
  BY <1>1 DEF OrderCallsInv, QuoteCall, Asked
<1>3. /\ count[0] = ItemCount(order) /\ from[0] \in create_quote_from_float(quote[0])
      /\ quote[0] \in Nat /\ count[0] \in Nat
  <2>1. CallInv(0) BY <1>1, MineAreCalls DEF CallsInv
  <2> QED BY <1>1, <2>1 DEF OrderCallsInv, QuoteCall, Asked, CallInv
<1>4. PICK items \in Nat : items = ItemCount(order) BY <1>3
<1>5. p \in Nat BY QuotesAssumption
<1>6. PICK tenths \in Nat : tenths = quote[0] /\ tenths = items * p
  BY <1>2, <1>3, <1>4, <1>5
<1>7. Shipping(p) = tenths * (NanosMod \div 10) BY <1>4, <1>6 DEF Shipping
<1>8. QuoteShort \in Int /\ QuoteOver \in Int
  BY Hundredths, NanosModAssumption DEF QuoteShort, QuoteOver
<1>9. /\ Worth(from[0]) \in Int /\ Shipping(p) \in Int
      /\ ~Saturated => /\ Shipping(p) - NanosMod \div 100 <= Worth(from[0])
                       /\ Worth(from[0]) <= Shipping(p)
      /\ Shipping(p) - NanosMod <= Worth(from[0])
      /\ Worth(from[0]) <= Shipping(p) + NanosMod
  <2>1. ~Saturated => 10 * tenths <= MaxInt32 BY <1>6, QuotesAssumption DEF Saturated
  <2> QED BY <1>3, <1>6, <1>7, <2>1, QuoteWorth
<1>10. /\ Shipping(p) - QuoteShort <= Worth(from[0])
       /\ Worth(from[0]) <= Shipping(p) + QuoteOver
  <2>1. CASE Saturated BY <1>9, <2>1 DEF QuoteShort, QuoteOver
  <2>2. CASE ~Saturated BY <1>9, <2>2 DEF QuoteShort, QuoteOver
  <2> QED BY <2>1, <2>2
<1> QED BY <1>9, <1>10

\* Two sums that are close, of amounts close to what was shown, are close to it.
LEMMA SumsClose ==
  ASSUME NEW l \in Int, NEW w \in Int, NEW items \in Int, NEW m \in Int,
         NEW a \in Int, NEW f \in Int, NEW e \in Int, NEW s \in Int,
         NEW short \in Nat, NEW over \in Nat, over <= short,
         s - short <= f, f <= s + over
  PROVE  /\ NotShort(l, w, items) /\ NotShort(a, f, 1) =>
              (l + a - (w + s) + (items + 1) + short) * Precision >= -(w + s + short)
         /\ NotOver(l, w, m) /\ NotOver(a, f, e) =>
              (l + a - (w + s) - (m + e + over)) * Precision <= w + s + (m + e + over)
<1>1. PICK P \in Nat \ {0} : P = Precision BY PrecisionAssumption
<1>2. ASSUME P * l + (1 - P) * w + P * items >= 0, P * a + (1 - P) * f + P * 1 >= 0
      PROVE  (l + a - (w + s) + (items + 1) + short) * P >= -(w + s + short)
  <2>1. PICK z \in Nat : f = s - short + z
    <3>1. f - s + short \in Nat /\ f = s - short + (f - s + short) OBVIOUS
    <3> QED BY <3>1
  <2>2. (l + a - (w + s) + (items + 1) + short) * P
          = (P * l + (1 - P) * w + P * items) + (P * a + (1 - P) * f + P * 1)
              + z * P - (w + f)
    BY <2>1
  <2>3. z * P \in Nat BY ProductIsNat
  <2>4. f <= s + short OBVIOUS
  <2>5. PICK x \in Int, y \in Int, t \in Nat :
          /\ x = P * l + (1 - P) * w + P * items /\ y = P * a + (1 - P) * f + P * 1
          /\ t = z * P
    BY <2>3
  <2>6. x >= 0 /\ y >= 0 BY <1>2, <2>5
  <2>7. x + y + t - (w + f) >= -(w + s + short) BY <2>4, <2>6
  <2> QED BY <2>2, <2>5, <2>7
<1>3. ASSUME -P * l + (P + 1) * w + (P + 1) * m >= 0,
             -P * a + (P + 1) * f + (P + 1) * e >= 0
      PROVE  (l + a - (w + s) - (m + e + over)) * P <= w + s + (m + e + over)
  <2>1. PICK z \in Nat : s = f - over + z
    <3>1. s - f + over \in Nat /\ s = f - over + (s - f + over) OBVIOUS
    <3> QED BY <3>1
  <2>2. w + s + (m + e + over) - (l + a - (w + s) - (m + e + over)) * P
          = (-P * l + (P + 1) * w + (P + 1) * m) + (-P * a + (P + 1) * f + (P + 1) * e)
              + z * (P + 1)
    BY <2>1
  <2>3. z * (P + 1) \in Nat BY ProductIsNat
  <2>4. PICK x \in Int, y \in Int, t \in Nat :
          /\ x = -P * l + (P + 1) * w + (P + 1) * m
          /\ y = -P * a + (P + 1) * f + (P + 1) * e
          /\ t = z * (P + 1)
    BY <2>3
  <2>5. x >= 0 /\ y >= 0 BY <1>3, <2>4
  <2>6. PICK g \in Int : g = (l + a - (w + s) - (m + e + over)) * P OBVIOUS
  <2>7. w + s + (m + e + over) - g >= 0 BY <2>2, <2>4, <2>5, <2>6
  <2> QED BY <2>6, <2>7
<1> QED BY <1>1, <1>2, <1>3 DEF NotShort, NotOver

\* So the order is close to what was shown, with a quote of some price per item.
LEMMA AllComesBack ==
  ASSUME CallsInv, OrderInv, OrderCallsInv, SumInv, ChargedExactly, Comparable
  PROVE  \E p \in PerItem :
           LET gain == Worth(total) - (TotalOf(ShownWorths) + Shipping(p))
               misread == TotalOf(Misreads) + Misreading(from[0]) + QuoteOver
           IN /\ Untorn => (gain + (TotalOf(order) + 1) + QuoteShort) * Precision
                             >= -(TotalOf(ShownWorths) + Shipping(p) + QuoteShort)
              /\ (gain - misread) * Precision
                   <= TotalOf(ShownWorths) + Shipping(p) + misread
<1>1. Worth(total) = Worth(answer[0]) + SumOf(LineWorths, DOMAIN order)
  <2>1. DOMAIN order = 1..line
    <3>1. order \in Seq(Quantities) BY CartsAssumption DEF OrderInv
    <3> QED BY <3>1 DEF SumInv, DueInv, Comparable
  <2> QED BY <2>1 DEF SumInv, DueInv, Comparable, ChargedExactly
<1>2. PICK p \in PerItem :
        /\ Shipping(p) \in Int
        /\ Shipping(p) - QuoteShort <= Worth(from[0])
        /\ Worth(from[0]) <= Shipping(p) + QuoteOver
  BY QuotedWorth
<1>3. 0 \in Mine BY DEF Mine
<1>4. PICK s \in Int, a \in Int, f \in Nat, e \in Nat :
        /\ s = Shipping(p) /\ a = Worth(answer[0])
        /\ f = Worth(from[0]) /\ e = Misreading(from[0])
  BY <1>2, <1>3, ComesBack
<1>5. PICK l \in Int, w \in Int, items \in Int, m \in Int :
        /\ l = SumOf(LineWorths, DOMAIN order) /\ w = TotalOf(ShownWorths)
        /\ items = TotalOf(order) /\ m = TotalOf(Misreads)
  BY AllLinesComeBack
<1>6. PICK short \in Nat, over \in Nat :
        short = QuoteShort /\ over = QuoteOver /\ over <= short
  <2>1. NanosMod \in Nat /\ NanosMod \div 100 \in Nat BY Hundredths, NanosModAssumption
  <2> QED BY <2>1 DEF QuoteShort, QuoteOver
<1>7. s - short <= f /\ f <= s + over BY <1>2, <1>4, <1>6
<1>8. (Untorn => NotShort(l, w, items)) /\ NotOver(l, w, m) BY <1>5, AllLinesComeBack
<1>9. (Untorn => NotShort(a, f, 1)) /\ NotOver(a, f, e) BY <1>3, <1>4, ComesBack
<1>10. /\ Untorn => (l + a - (w + s) + (items + 1) + short) * Precision >= -(w + s + short)
       /\ (l + a - (w + s) - (m + e + over)) * Precision <= w + s + (m + e + over)
  <2>0. f \in Int /\ e \in Int OBVIOUS
  <2>1. /\ NotShort(l, w, items) /\ NotShort(a, f, 1) =>
              (l + a - (w + s) + (items + 1) + short) * Precision >= -(w + s + short)
        /\ NotOver(l, w, m) /\ NotOver(a, f, e) =>
              (l + a - (w + s) - (m + e + over)) * Precision <= w + s + (m + e + over)
    BY <1>6, <1>7, <2>0, SumsClose, Zenon
  <2> QED BY <1>8, <1>9, <2>1, Zenon
<1>11. Worth(total) = l + a BY <1>1, <1>4, <1>5
<1> QED BY <1>2, <1>4, <1>5, <1>6, <1>10, <1>11

\* Nothing is due at first.
LEMMA SumInit == PricedInit => SumInv
<1> SUFFICES ASSUME PricedInit PROVE SumInv OBVIOUS
<1>1. 0 \in Calls
  <2>1. OrderInv BY OrderInvInit
  <2> QED BY <2>1, MineAreCalls DEF Mine
<1> QED BY <1>1 DEF PricedInit, Init, PricingInit, SumInv, LinesFirst, DueInv

\* An order in dollars is charged what its shopper was shown, to the precision of
\* doubles: short of it by a nano for each item and for the quote and a cent of the
\* quote at most, unless threads met in the table of rates, and above it only where
\* decimals start with a zero or the cents do not fit - for any catalogue, rates and
\* carts, whatever other clients have converted meanwhile.
THEOREM PricedChargedAsShown == PricedSpec => []ChargedAsShown
<1>1. CallsInv /\ OrderInv /\ OrderCallsInv /\ SumInv /\ ChargedExactly => ChargedAsShown
  <2> SUFFICES ASSUME CallsInv, OrderInv, OrderCallsInv, SumInv, ChargedExactly
               PROVE  ChargedAsShown
    OBVIOUS
  <2>1. CASE Comparable
    <3>1. PICK p \in PerItem :
            LET gain == Worth(total) - (TotalOf(ShownWorths) + Shipping(p))
                misread == TotalOf(Misreads) + Misreading(from[0]) + QuoteOver
            IN /\ Untorn => (gain + (TotalOf(order) + 1) + QuoteShort) * Precision
                              >= -(TotalOf(ShownWorths) + Shipping(p) + QuoteShort)
               /\ (gain - misread) * Precision
                    <= TotalOf(ShownWorths) + Shipping(p) + misread
      BY <2>1, AllComesBack
    <3> QED
      BY <3>1, Zenon
         DEF ChargedAsShown, ShownWorths, Misreads, Shipping, Saturated, QuoteShort,
             QuoteOver, Untorn
  <2>2. CASE ~Comparable
    <3>1. PICK p \in PerItem : TRUE BY QuotesAssumption
    <3> QED BY <2>2, <3>1 DEF Comparable, ChargedAsShown
  <2> QED BY <2>1, <2>2
<1>2. PricedInit => OrderCallsInv /\ SumInv BY OrderCallsInit, SumInit
<1>3. (CallsInv /\ OrderInv) /\ (OrderCallsInv /\ SumInv) /\ [PricedNext]_allVars
        => (OrderCallsInv /\ SumInv)'
  BY OrderCallsNext, SumNext
<1> QED BY <1>1, <1>2, <1>3, CallsAlways, PricedChargeIsExact, PTL DEF PricedSpec
=============================================================================
