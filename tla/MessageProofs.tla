--------------------------- MODULE MessageProofs ---------------------------
(***************************************************************************)
(* The generated code of one level keeps its promise when the code of the  *)
(* level below keeps it: an object that is filled in, encoded, carried     *)
(* with the liberties of another library and decoded is read as it was     *)
(* meant, and decode throws only for a long that is unsafe (Level).        *)
(*                                                                         *)
(* The words of a message do not matter to decode, only the fields they    *)
(* hold, and of these, for each field of the type, those with its tag in   *)
(* their order.  Carries says so of an object and the fields that arrive;  *)
(* encode establishes it, the liberties keep it, and what decode returns   *)
(* follows from it.  That the loop of the reader takes words apart at the  *)
(* places where they were joined is an induction over the turns, for which *)
(* Climb stands.                                                           *)
(***************************************************************************)
EXTENDS Message, SequenceTheorems, WellFoundedInduction, TLAPS

\* Induction over the natural numbers, with the numbers the claim holds of as a set.
LEMMA Climb ==
  ASSUME NEW T, 0 \in T, \A n \in Nat : n \in T => n + 1 \in T
  PROVE  \A n \in Nat : n \in T
<1> DEFINE R == {p \in Nat \X Nat : p[1] < p[2]}
<1> SUFFICES ASSUME Nat \ T # {} PROVE FALSE OBVIOUS
<1>1. IsWellFoundedOn(R, Nat) BY NatLessThanWellFounded, Zenon DEF OpToRel
<1>2. Nat \ T \subseteq Nat OBVIOUS
<1> HIDE DEF R
<1>3. PICK n \in Nat \ T : \A y \in Nat \ T : ~(<<y, n>> \in R)
  BY <1>1, <1>2, WFMin, Zenon
<1>4. n # 0 /\ n - 1 \in Nat OBVIOUS
<1>5. n - 1 \notin T BY <1>4
<1>6. <<n - 1, n>> \in R BY <1>4 DEF R
<1> QED BY <1>3, <1>4, <1>5, <1>6

-----------------------------------------------------------------------------
(* FlattenSeq: its recursive function exists, and it joins sequences.      *)

\* f joins the first sequences of s.
Joins(f, s) ==
  /\ DOMAIN f = 0 .. Len(s)
  /\ f[0] = <<>>
  /\ \A k \in 1 .. Len(s) : f[k] = f[k - 1] \o s[k]

\* For every sequence of sequences there is a function that joins its beginnings.
LEMMA JoinsExists ==
  ASSUME NEW S, NEW s \in Seq(Seq(S))
  PROVE  \E f \in [0 .. Len(s) -> Seq(S)] : Joins(f, s)
<1> DEFINE Good(n, f) == /\ f \in [0 .. n -> Seq(S)]
                         /\ f[0] = <<>>
                         /\ \A k \in 1 .. n : f[k] = f[k - 1] \o s[k]
           T == {n \in Nat : n <= Len(s) => \E f : Good(n, f)}
<1>0. Len(s) \in Nat OBVIOUS
<1>1. 0 \in T
  <2>1. Good(0, [k \in 0 .. 0 |-> <<>>])
    <3> DEFINE e == <<>>
    <3>2. e \in Seq(S) OBVIOUS
    <3> HIDE DEF e
    <3>3. [k \in 0 .. 0 |-> e] \in [0 .. 0 -> Seq(S)] BY <3>2, Zenon
    <3>4. 0 \in 0 .. 0 /\ 1 .. 0 = {} OBVIOUS
    <3>5. [k \in 0 .. 0 |-> e][0] = e BY <3>4, Zenon
    <3> QED BY <3>3, <3>4, <3>5, Zenon DEF e
  <2>2. 0 \in Nat OBVIOUS
  <2> QED BY <2>1, <2>2, Zenon
<1>2. ASSUME NEW n \in Nat, n \in T PROVE n + 1 \in T
  <2>0. n + 1 \in Nat /\ (n + 1 <= Len(s) => n <= Len(s)) BY <1>0
  <2> SUFFICES ASSUME n + 1 <= Len(s) PROVE \E f : Good(n + 1, f) BY <2>0, Zenon
  <2>1. PICK f : Good(n, f) BY <1>2, <2>0, Zenon
  <2> DEFINE g == [k \in 0 .. n + 1 |-> IF k = n + 1 THEN f[n] \o s[n + 1] ELSE f[k]]
  <2>2. s[n + 1] \in Seq(S) BY <1>0, ElementOfSeq
  <2>3. f[n] \in Seq(S) BY <2>1
  <2>4. f[n] \o s[n + 1] \in Seq(S) BY <2>2, <2>3
  <2>5. g \in [0 .. n + 1 -> Seq(S)]
    <3>1. \A k \in 0 .. n + 1 : k # n + 1 => k \in 0 .. n OBVIOUS
    <3> QED BY <2>1, <2>4, <3>1
  <2>6. g[0] = <<>> BY <2>1
  <2>7. ASSUME NEW k \in 1 .. n + 1 PROVE g[k] = g[k - 1] \o s[k]
    <3>1. k - 1 \in 0 .. n + 1 /\ k - 1 # n + 1 /\ g[k - 1] = f[k - 1] OBVIOUS
    <3>2. CASE k = n + 1
      <4>1. k - 1 = n BY <3>2
      <4>2. n + 1 \in 0 .. n + 1 OBVIOUS
      <4>3. g[n + 1] = f[n] \o s[n + 1] BY <4>2, Zenon
      <4>4. g[k - 1] = f[n] BY <3>1, <4>1, Zenon
      <4> HIDE DEF g
      <4> QED BY <3>2, <4>3, <4>4, Zenon
    <3>3. CASE k # n + 1
      <4>1. k \in 1 .. n BY <3>3
      <4>2. f[k] = f[k - 1] \o s[k] BY <2>1, <4>1
      <4>3. g[k] = f[k] BY <3>3
      <4> QED BY <3>1, <4>2, <4>3
    <3> QED BY <3>2, <3>3
  <2> HIDE DEF g
  <2>8. Good(n + 1, g) BY <2>5, <2>6, <2>7
  <2> QED BY <2>8
<1> HIDE DEF T
<1>3. \A n \in Nat : n \in T BY <1>1, <1>2, Climb
<1>4. Len(s) \in T BY <1>0, <1>3
<1>5. PICK f : Good(Len(s), f)
  <2>1. Len(s) <= Len(s) BY <1>0
  <2> QED BY <1>4, <2>1, Zenon DEF T
<1> QED BY <1>5 DEF Joins

\* What the function joins is what FlattenSeq returns.
LEMMA FlattenJoins ==
  ASSUME NEW S, NEW s \in Seq(Seq(S))
  PROVE  \E f \in [0 .. Len(s) -> Seq(S)] : Joins(f, s) /\ FlattenSeq(s) = f[Len(s)]
<1>0. Len(s) \in Nat OBVIOUS
<1>1. PICK f \in [0 .. Len(s) -> Seq(S)] : Joins(f, s) BY JoinsExists
<1>2. CASE Len(s) = 0
  <2>1. s = <<>> BY <1>2
  <2>2. FlattenSeq(s) = s BY <1>2, Zenon DEF FlattenSeq
  <2>3. f[Len(s)] = <<>> BY <1>1, <1>2, Zenon DEF Joins
  <2> QED BY <1>1, <2>1, <2>2, <2>3
<1>3. CASE Len(s) # 0
  <2> DEFINE Step(h) == [i \in 1 .. Len(s) |-> IF i = 1 THEN s[i] ELSE h[i - 1] \o s[i]]
             g == [i \in 1 .. Len(s) |-> f[i]]
             h == CHOOSE h : h = Step(h)
  <2>1. g = Step(g)
    <3>1. ASSUME NEW i \in 1 .. Len(s)
          PROVE  g[i] = IF i = 1 THEN s[i] ELSE g[i - 1] \o s[i]
      <4>1. f[i] = f[i - 1] \o s[i] BY <1>1 DEF Joins
      <4>2. CASE i = 1
        <5>1. f[i - 1] = <<>> BY <1>1, <4>2 DEF Joins
        <5>2. s[i] \in Seq(S) BY ElementOfSeq
        <5> QED BY <4>1, <4>2, <5>1, <5>2
      <4>3. CASE i # 1
        <5>1. i - 1 \in 1 .. Len(s) BY <1>0, <4>3
        <5> QED BY <4>1, <4>3, <5>1
      <4> QED BY <4>2, <4>3
    <3> QED BY <3>1
  <2>2. h = Step(h)
    <3> HIDE DEF Step, g
    <3>1. \E x : x = Step(x) BY <2>1
    <3> QED BY <3>1, Zenon
  <2>3. FlattenSeq(s) = h[Len(s)] BY <1>3, Zenon DEF FlattenSeq
  <2>4. \A i \in 1 .. Len(s) : h[i] = IF i = 1 THEN s[i] ELSE h[i - 1] \o s[i]
    <3> HIDE DEF h
    <3> QED BY <2>2
  <2> HIDE DEF h, g
  <2> DEFINE T == {n \in Nat : n \in 1 .. Len(s) => h[n] = f[n]}
  <2>5. 0 \in T OBVIOUS
  <2>6. ASSUME NEW n \in Nat, n \in T PROVE n + 1 \in T
    <3> SUFFICES ASSUME n + 1 \in 1 .. Len(s) PROVE h[n + 1] = f[n + 1] OBVIOUS
    <3>0. (n + 1) - 1 = n OBVIOUS
    <3>1. f[n + 1] = f[n] \o s[n + 1] BY <1>1, <3>0, Zenon DEF Joins
    <3>2. CASE n = 0
      <4>1. f[n] = <<>> BY <1>1, <3>2 DEF Joins
      <4>2. s[n + 1] \in Seq(S) BY ElementOfSeq
      <4>3. h[n + 1] = s[n + 1] BY <2>4, <3>2
      <4> QED BY <3>1, <4>1, <4>2, <4>3
    <3>3. CASE n # 0
      <4>1. n \in 1 .. Len(s) BY <1>0, <3>3
      <4>2. h[n] = f[n] BY <2>6, <4>1
      <4>3. n + 1 # 1 BY <3>3
      <4>4. h[n + 1] = h[n] \o s[n + 1] BY <2>4, <3>0, <4>3, Zenon
      <4> QED BY <3>1, <4>2, <4>4
    <3> QED BY <3>2, <3>3
  <2> HIDE DEF T
  <2>7. \A n \in Nat : n \in T BY <2>5, <2>6, Climb
  <2>8. h[Len(s)] = f[Len(s)] BY <1>0, <1>3, <2>7 DEF T
  <2> QED BY <1>1, <2>3, <2>8
<1> QED BY <1>2, <1>3

\* Concatenation by its length and its elements.
Concatenates(c, a, b) ==
  /\ Len(c) = Len(a) + Len(b)
  /\ \A i \in 1 .. Len(a) + Len(b) : c[i] = IF i <= Len(a) THEN a[i] ELSE b[i - Len(a)]

\* What a concatenation is, element by element.
LEMMA ConcatIs ==
  ASSUME NEW S, NEW a \in Seq(S), NEW b \in Seq(S)
  PROVE  a \o b \in Seq(S) /\ Concatenates(a \o b, a, b)
  BY DEF Concatenates

IsJoin(s, a, b) == s = a \o b

\* Concatenation is associative, with its results given by name.
LEMMA Associative ==
  ASSUME NEW S, NEW a \in Seq(S), NEW b \in Seq(S), NEW c \in Seq(S),
         NEW ab, IsJoin(ab, a, b), NEW bc, IsJoin(bc, b, c),
         NEW abc, IsJoin(abc, ab, c)
  PROVE  IsJoin(abc, a, bc)
  BY ConcatAssociative DEF IsJoin

Begins(s, u) == Len(s) <= Len(u) /\ \A k \in 1 .. Len(s) : u[k] = s[k]
SameUpTo(n, f, g) == \A k \in 0 .. n : f[k] = g[k]

\* Two sequences of sequences join alike as far as one begins the other.
LEMMA JoinsAgree ==
  ASSUME NEW S, NEW s \in Seq(S), NEW u \in Seq(S), Begins(s, u),
         NEW f, Joins(f, s), NEW g, Joins(g, u)
  PROVE  SameUpTo(Len(s), f, g)
<1> DEFINE T == {n \in Nat : n <= Len(s) => f[n] = g[n]}
<1>0. Len(s) \in Nat /\ Len(u) \in Nat /\ Len(s) <= Len(u) BY DEF Begins
<1>1. 0 \in T BY DEF Joins
<1>2. ASSUME NEW n \in Nat, n \in T PROVE n + 1 \in T
  <2> SUFFICES ASSUME n + 1 <= Len(s) PROVE f[n + 1] = g[n + 1] OBVIOUS
  <2>1. (n + 1) - 1 = n /\ n + 1 \in 1 .. Len(s) /\ n + 1 \in 1 .. Len(u) BY <1>0
  <2>2. f[n + 1] = f[n] \o s[n + 1] BY <2>1, Zenon DEF Joins
  <2>3. g[n + 1] = g[n] \o u[n + 1] BY <2>1, Zenon DEF Joins
  <2>4. f[n] = g[n] BY <1>0, <1>2
  <2>5. u[n + 1] = s[n + 1] BY <2>1, Zenon DEF Begins
  <2> QED BY <2>2, <2>3, <2>4, <2>5, Zenon
<1> HIDE DEF T
<1>3. \A n \in Nat : n \in T BY <1>1, <1>2, Climb
<1> QED BY <1>0, <1>3 DEF T, SameUpTo

\* Sequences over a set are joined to a sequence over that set.
LEMMA FlattenType ==
  ASSUME NEW S, NEW s \in Seq(Seq(S))
  PROVE  FlattenSeq(s) \in Seq(S)
<1>1. PICK f \in [0 .. Len(s) -> Seq(S)] : FlattenSeq(s) = f[Len(s)] BY FlattenJoins
<1>2. Len(s) \in 0 .. Len(s) OBVIOUS
<1> QED BY <1>1, <1>2

\* FlattenSeq distributes over concatenation.
LEMMA FlattenConcat ==
  ASSUME NEW S, NEW s \in Seq(Seq(S)), NEW t \in Seq(Seq(S))
  PROVE  FlattenSeq(s \o t) = FlattenSeq(s) \o FlattenSeq(t)
<1> DEFINE u == s \o t
<1>0. /\ Len(s) \in Nat /\ Len(t) \in Nat /\ u \in Seq(Seq(S))
      /\ Len(u) = Len(s) + Len(t)
      /\ \A i \in 1 .. Len(s) : u[i] = s[i]
      /\ \A i \in 1 .. Len(t) : u[Len(s) + i] = t[i]
  OBVIOUS
<1> HIDE DEF u
<1>1. PICK f \in [0 .. Len(s) -> Seq(S)] : Joins(f, s) /\ FlattenSeq(s) = f[Len(s)]
  BY FlattenJoins
<1>2. PICK g \in [0 .. Len(t) -> Seq(S)] : Joins(g, t) /\ FlattenSeq(t) = g[Len(t)]
  BY FlattenJoins
<1>3. PICK h \in [0 .. Len(u) -> Seq(S)] : Joins(h, u) /\ FlattenSeq(u) = h[Len(u)]
  BY <1>0, FlattenJoins
<1>4. Len(s) \in 0 .. Len(s) /\ f[Len(s)] \in Seq(S)
  <2>1. Len(s) \in 0 .. Len(s) BY <1>0
  <2> QED BY <2>1, Zenon
<1>5. f[Len(s)] = h[Len(s)]
  <2>1. Begins(s, u) BY <1>0 DEF Begins
  <2>2. SameUpTo(Len(s), f, h) BY <1>0, <1>1, <1>3, <2>1, JoinsAgree, Zenon
  <2> QED BY <1>4, <2>2, Zenon DEF SameUpTo
<1> DEFINE T == {n \in Nat : n <= Len(t) => h[Len(s) + n] = f[Len(s)] \o g[n]}
<1>6. 0 \in T
  <2>1. Len(s) + 0 = Len(s) /\ g[0] = <<>> BY <1>0, <1>2 DEF Joins
  <2>2. f[Len(s)] \o <<>> = f[Len(s)] BY <1>4
  <2> QED BY <1>5, <2>1, <2>2
<1>7. ASSUME NEW n \in Nat, n \in T PROVE n + 1 \in T
  <2>0. n + 1 \in Nat /\ (n + 1 <= Len(t) => n <= Len(t)) BY <1>0
  <2> SUFFICES ASSUME n + 1 <= Len(t) PROVE h[Len(s) + (n + 1)] = f[Len(s)] \o g[n + 1]
    BY <2>0, Zenon
  <2>1. /\ (n + 1) - 1 = n /\ n + 1 \in 1 .. Len(t) /\ n \in 0 .. Len(t)
        /\ Len(s) + (n + 1) \in 1 .. Len(u) /\ (Len(s) + (n + 1)) - 1 = Len(s) + n
    BY <1>0
  <2>2. h[Len(s) + (n + 1)] = h[Len(s) + n] \o u[Len(s) + (n + 1)]
    BY <1>3, <2>1, Zenon DEF Joins
  <2>3. u[Len(s) + (n + 1)] = t[n + 1] BY <1>0, <2>1, Zenon
  <2>4. IsJoin(h[Len(s) + n], f[Len(s)], g[n]) BY <1>7, <2>0, Zenon DEF IsJoin
  <2>5. IsJoin(g[n + 1], g[n], t[n + 1]) BY <1>2, <2>1, Zenon DEF Joins, IsJoin
  <2>6. g[n] \in Seq(S) /\ t[n + 1] \in Seq(S) BY <2>1, ElementOfSeq
  <2>7. IsJoin(h[Len(s) + (n + 1)], h[Len(s) + n], t[n + 1])
    BY <2>2, <2>3, Zenon DEF IsJoin
  <2>8. IsJoin(h[Len(s) + (n + 1)], f[Len(s)], g[n + 1])
    BY <1>4, <2>4, <2>5, <2>6, <2>7, Associative
  <2> QED BY <2>8, Zenon DEF IsJoin
<1> HIDE DEF T
<1>8. Len(t) \in T BY <1>0, <1>6, <1>7, Climb
<1>9. h[Len(s) + Len(t)] = f[Len(s)] \o g[Len(t)] BY <1>0, <1>8 DEF T
<1> QED BY <1>0, <1>1, <1>2, <1>3, <1>9, Zenon DEF u

\* One sequence joins to itself.
LEMMA FlattenSingle ==
  ASSUME NEW S, NEW x \in Seq(S)
  PROVE  FlattenSeq(<<x>>) = x
<1> DEFINE s == <<x>>
<1>1. s \in Seq(Seq(S)) /\ Len(s) = 1 /\ s[1] = x OBVIOUS
<1> HIDE DEF s
<1>2. PICK f \in [0 .. Len(s) -> Seq(S)] : Joins(f, s) /\ FlattenSeq(s) = f[Len(s)]
  BY <1>1, FlattenJoins
<1>3. f[1] = f[1 - 1] \o s[1] /\ f[0] = <<>> BY <1>1, <1>2 DEF Joins
<1>4. FlattenSeq(s) = <<>> \o x BY <1>1, <1>2, <1>3
<1>5. <<>> \o x = x OBVIOUS
<1> QED BY <1>4, <1>5 DEF s

-----------------------------------------------------------------------------
(* The fields of one tag.                                                  *)

Kept(f, fields) == [i \in DOMAIN fields |->
                      IF fields[i][1] = Tag(f) THEN <<fields[i]>> ELSE <<>>]

Keeps(k, f, fields) ==
  /\ Len(k) = Len(fields)
  /\ \A i \in 1 .. Len(fields) :
        k[i] = IF fields[i][1] = Tag(f) THEN <<fields[i]>> ELSE <<>>

\* Kept gives, for each field that arrives, a sequence of that field or of none.
LEMMA KeptType ==
  ASSUME NEW S, NEW fields \in Seq(S), NEW f
  PROVE  Kept(f, fields) \in Seq(Seq(S)) /\ Keeps(Kept(f, fields), f, fields)
<1>1. \A i \in 1 .. Len(fields) :
        (IF fields[i][1] = Tag(f) THEN <<fields[i]>> ELSE <<>>) \in Seq(S)
  <2> TAKE i \in 1 .. Len(fields)
  <2>1. fields[i] \in S BY ElementOfSeq
  <2>2. <<fields[i]>> \in Seq(S) /\ <<>> \in Seq(S) BY <2>1
  <2> QED BY <2>2
<1>2. DOMAIN fields = 1 .. Len(fields) /\ Len(fields) \in Nat OBVIOUS
<1> QED BY <1>1, <1>2 DEF Kept, Keeps

\* The fields of one tag are a sequence of fields.
LEMMA HitsType ==
  ASSUME NEW S, NEW fields \in Seq(S), NEW f
  PROVE  Hits(f, fields) \in Seq(S)
<1>1. Hits(f, fields) = FlattenSeq(Kept(f, fields)) BY Zenon DEF Hits, Kept
<1> QED BY <1>1, KeptType, FlattenType

\* The fields of one tag in two sequences are those of the first, then those of the second.
LEMMA HitsConcat ==
  ASSUME NEW S, NEW a \in Seq(S), NEW b \in Seq(S), NEW f
  PROVE  Hits(f, a \o b) = Hits(f, a) \o Hits(f, b)
<1>1. Kept(f, a) \in Seq(Seq(S)) /\ Kept(f, b) \in Seq(Seq(S)) BY KeptType
<1> DEFINE c == a \o b
<1>2. c \in Seq(S) /\ Concatenates(c, a, b) BY ConcatIs
<1>3. Kept(f, c) = Kept(f, a) \o Kept(f, b)
  <2> HIDE DEF c
  <2> DEFINE l == Kept(f, c)
             ka == Kept(f, a)
             kb == Kept(f, b)
             r == ka \o kb
  <2>1. l \in Seq(Seq(S)) /\ Keeps(l, f, c) BY <1>2, KeptType
  <2>2. Keeps(ka, f, a) /\ Keeps(kb, f, b) BY KeptType
  <2>3. ka \in Seq(Seq(S)) /\ kb \in Seq(Seq(S)) BY <1>1
  <2> HIDE DEF l, ka, kb
  <2>4. r \in Seq(Seq(S)) /\ Concatenates(r, ka, kb) BY <2>3, ConcatIs
  <2> HIDE DEF r
  <2>5. Len(l) = Len(a) + Len(b) /\ Len(r) = Len(a) + Len(b)
    BY <1>2, <2>1, <2>2, <2>4, Zenon DEF Keeps, Concatenates
  <2>6. Len(a) \in Nat /\ Len(b) \in Nat OBVIOUS
  <2>7. ASSUME NEW i \in 1 .. Len(a) + Len(b) PROVE l[i] = r[i]
    <3>1. CASE i <= Len(a)
      <4>1. i \in 1 .. Len(a) BY <2>6, <3>1
      <4> QED BY <1>2, <2>1, <2>2, <2>4, <3>1, <4>1, Zenon DEF Keeps, Concatenates
    <3>2. CASE ~(i <= Len(a))
      <4>1. i - Len(a) \in 1 .. Len(b) BY <2>6, <3>2
      <4>2. Len(ka) = Len(a) /\ Len(kb) = Len(b) BY <2>2, Zenon DEF Keeps
      <4>3. r[i] = kb[i - Len(a)] BY <2>4, <3>2, <4>2 DEF Concatenates
      <4>4. c[i] = b[i - Len(a)] BY <1>2, <3>2 DEF Concatenates
      <4>5. i \in 1 .. Len(c) BY <1>2 DEF Concatenates
      <4> QED BY <2>1, <2>2, <4>1, <4>3, <4>4, <4>5, Zenon DEF Keeps
    <3> QED BY <3>1, <3>2
  <2>8. l = r BY <2>1, <2>4, <2>5, <2>7, SeqEqual
  <2> QED BY <2>8 DEF l, r, ka, kb
<1>4. FlattenSeq(Kept(f, a) \o Kept(f, b)) = FlattenSeq(Kept(f, a)) \o FlattenSeq(Kept(f, b))
  BY <1>1, FlattenConcat
<1> QED BY <1>3, <1>4, Zenon DEF Hits, Kept

\* Induction over sequences, with those the claim holds of as a set.
LEMMA Lengthen ==
  ASSUME NEW S, NEW T, <<>> \in T, \A s \in Seq(S), e \in S : s \in T => s \o <<e>> \in T
  PROVE  \A s \in Seq(S) : s \in T
<1> DEFINE U == {n \in Nat : \A s \in Seq(S) : Len(s) = n => s \in T}
<1>1. 0 \in U
  <2>1. \A s \in Seq(S) : Len(s) = 0 => s = <<>> OBVIOUS
  <2> QED BY <2>1
<1>2. ASSUME NEW n \in Nat, n \in U PROVE n + 1 \in U
  <2>1. ASSUME NEW s \in Seq(S), Len(s) = n + 1 PROVE s \in T
    <3>1. s # <<>> BY <2>1
    <3>2. PICK r \in Seq(S), e \in S : s = Append(r, e) BY <3>1, SequenceEmptyOrAppend
    <3>3. s = r \o <<e>> BY <3>2, AppendIsConcat
    <3>4. Len(s) = Len(r) + 1 /\ Len(r) \in Nat BY <3>2, AppendProperties
    <3>5. Len(r) = n BY <2>1, <3>4
    <3>6. r \in T BY <1>2, <3>5
    <3> QED BY <3>3, <3>6
  <2> QED BY <2>1
<1> HIDE DEF U
<1>3. \A n \in Nat : n \in U BY <1>1, <1>2, Climb
<1>4. \A s \in Seq(S) : Len(s) \in Nat OBVIOUS
<1> QED BY <1>3, <1>4 DEF U

\* Where nothing arrives, no field has a tag.
LEMMA HitsEmpty == \A f : Hits(f, <<>>) = <<>>
  BY DEF Hits, FlattenSeq

\* A single field is its own hit, or there is none.
LEMMA HitsSingle ==
  ASSUME NEW S, NEW e \in S, NEW f
  PROVE  Hits(f, <<e>>) = IF e[1] = Tag(f) THEN <<e>> ELSE <<>>
<1> DEFINE one == IF e[1] = Tag(f) THEN <<e>> ELSE <<>>
<1>1. <<e>> \in Seq(S) /\ Len(<<e>>) = 1 /\ <<e>>[1] = e OBVIOUS
<1>2. one \in Seq(S) OBVIOUS
<1>3. Kept(f, <<e>>) \in Seq(Seq(S)) /\ Keeps(Kept(f, <<e>>), f, <<e>>) BY <1>1, KeptType
<1>4. Len(Kept(f, <<e>>)) = 1 /\ Kept(f, <<e>>)[1] = one
  <2>1. 1 \in 1 .. 1 OBVIOUS
  <2> QED BY <1>1, <1>3, <2>1, Zenon DEF Keeps
<1> HIDE DEF one
<1>5. Kept(f, <<e>>) = <<one>>
  <2>1. <<one>> \in Seq(Seq(S)) /\ Len(<<one>>) = 1 /\ <<one>>[1] = one BY <1>2
  <2> QED BY <1>3, <1>4, <2>1, SeqEqual
<1>6. FlattenSeq(<<one>>) = one BY <1>2, FlattenSingle
<1>7. Hits(f, <<e>>) = FlattenSeq(Kept(f, <<e>>)) BY Zenon DEF Hits, Kept
<1> QED BY <1>5, <1>6, <1>7, Zenon DEF one

\* All the fields are of the tag, or none is.
AllOf(f, fields) == \A i \in DOMAIN fields : fields[i][1] = Tag(f)
NoneOf(f, fields) == \A i \in DOMAIN fields : fields[i][1] # Tag(f)

\* The values of a sequence.
Items(s) == {s[i] : i \in DOMAIN s}

\* What is appended to a sequence is added to its elements.
LEMMA ItemsConcat ==
  ASSUME NEW S, NEW a \in Seq(S), NEW e \in S
  PROVE  Items(a \o <<e>>) = Items(a) \cup {e}
<1> DEFINE c == a \o <<e>>
<1>1. /\ DOMAIN a = 1 .. Len(a) /\ DOMAIN c = 1 .. Len(a) + 1
      /\ \A i \in 1 .. Len(a) : c[i] = a[i]
      /\ c[Len(a) + 1] = e /\ Len(a) \in Nat
  OBVIOUS
<1> HIDE DEF c
<1>2. ASSUME NEW x \in Items(c) PROVE x \in Items(a) \cup {e}
  <2>1. PICK i \in 1 .. Len(a) + 1 : x = c[i] BY <1>1 DEF Items
  <2>2. CASE i = Len(a) + 1 BY <1>1, <2>1, <2>2
  <2>3. CASE i # Len(a) + 1
    <3>1. i \in 1 .. Len(a) BY <1>1, <2>3
    <3> QED BY <1>1, <2>1, <3>1 DEF Items
  <2> QED BY <2>2, <2>3
<1>3. ASSUME NEW x \in Items(a) PROVE x \in Items(c)
  <2>1. PICK i \in 1 .. Len(a) : x = a[i] BY <1>1 DEF Items
  <2>2. i \in 1 .. Len(a) + 1 /\ x = c[i] BY <1>1, <2>1
  <2> QED BY <1>1, <2>2 DEF Items
<1>4. e \in Items(c)
  <2>1. Len(a) + 1 \in 1 .. Len(a) + 1 BY <1>1
  <2> QED BY <1>1, <2>1 DEF Items
<1> QED BY <1>2, <1>3, <1>4 DEF c

\* The fields of one tag are those that have it: all of them, or none, when all or none do.
LEMMA HitsItems ==
  ASSUME NEW S, NEW f
  PROVE  \A fields \in Seq(S) :
            /\ Items(Hits(f, fields)) = {e \in Items(fields) : e[1] = Tag(f)}
            /\ AllOf(f, fields) => Hits(f, fields) = fields
            /\ NoneOf(f, fields) => Hits(f, fields) = <<>>
<1> DEFINE Good(s) == /\ Items(Hits(f, s)) = {e \in Items(s) : e[1] = Tag(f)}
                      /\ AllOf(f, s) => Hits(f, s) = s
                      /\ NoneOf(f, s) => Hits(f, s) = <<>>
           T == {s \in Seq(S) : Good(s)}
<1>1. <<>> \in T
  <2>1. <<>> \in Seq(S) /\ Items(<<>>) = {} BY DEF Items
  <2> QED BY <2>1, HitsEmpty
<1>2. ASSUME NEW s \in Seq(S), NEW e \in S, s \in T PROVE s \o <<e>> \in T
  <2>0. Good(s) BY <1>2
  <2>1. <<e>> \in Seq(S) /\ s \o <<e>> \in Seq(S) OBVIOUS
  <2>2. Hits(f, s \o <<e>>) = Hits(f, s) \o Hits(f, <<e>>) BY <2>1, HitsConcat
  <2>3. Items(s \o <<e>>) = Items(s) \cup {e} BY ItemsConcat
  <2>4. Hits(f, s) \in Seq(S) BY HitsType
  <2>5. DOMAIN s = 1 .. Len(s) /\ DOMAIN (s \o <<e>>) = 1 .. Len(s) + 1
        /\ (\A i \in 1 .. Len(s) : (s \o <<e>>)[i] = s[i]) /\ (s \o <<e>>)[Len(s) + 1] = e
        /\ Len(s) \in Nat
    OBVIOUS
  <2>6. /\ AllOf(f, s \o <<e>>) => AllOf(f, s) /\ e[1] = Tag(f)
        /\ NoneOf(f, s \o <<e>>) => NoneOf(f, s) /\ e[1] # Tag(f)
    <3> DEFINE c == s \o <<e>>
    <3> HIDE DEF c
    <3>1. /\ DOMAIN c = 1 .. Len(s) + 1
          /\ (\A i \in 1 .. Len(s) : c[i] = s[i]) /\ c[Len(s) + 1] = e
      BY <2>5 DEF c
    <3>2. \A i \in 1 .. Len(s) : i \in 1 .. Len(s) + 1 BY <2>5
    <3>3. Len(s) + 1 \in 1 .. Len(s) + 1 BY <2>5
    <3>4. AllOf(f, c) => AllOf(f, s) /\ e[1] = Tag(f)
      BY <2>5, <3>1, <3>2, <3>3, Zenon DEF AllOf
    <3>5. NoneOf(f, c) => NoneOf(f, s) /\ e[1] # Tag(f)
      BY <2>5, <3>1, <3>2, <3>3, Zenon DEF NoneOf
    <3> QED BY <3>4, <3>5 DEF c
  <2>7. CASE e[1] = Tag(f)
    <3>1. Hits(f, s \o <<e>>) = Hits(f, s) \o <<e>> BY <2>2, <2>7, HitsSingle
    <3>2. Items(Hits(f, s) \o <<e>>) = Items(Hits(f, s)) \cup {e}
      BY <2>4, ItemsConcat
    <3>3. Items(Hits(f, s \o <<e>>)) = {x \in Items(s \o <<e>>) : x[1] = Tag(f)}
      <4>1. Items(Hits(f, s \o <<e>>)) = Items(Hits(f, s)) \cup {e} BY <3>1, <3>2, Zenon
      <4> QED BY <2>0, <2>3, <2>7, <4>1
    <3>4. AllOf(f, s \o <<e>>) => Hits(f, s \o <<e>>) = s \o <<e>>
      BY <2>0, <2>6, <3>1, Zenon
    <3> QED BY <2>1, <2>6, <2>7, <3>3, <3>4, Zenon
  <2>8. CASE e[1] # Tag(f)
    <3>1. Hits(f, s) \o <<>> = Hits(f, s) BY <2>4
    <3>2. Hits(f, <<e>>) = <<>> BY <2>8, HitsSingle
    <3>3. Hits(f, s \o <<e>>) = Hits(f, s) BY <2>2, <3>1, <3>2, Zenon
    <3>4. Items(Hits(f, s \o <<e>>)) = {x \in Items(s \o <<e>>) : x[1] = Tag(f)}
      BY <2>0, <2>3, <2>8, <3>3
    <3>5. NoneOf(f, s \o <<e>>) => Hits(f, s \o <<e>>) = <<>>
      BY <2>0, <2>6, <3>3, Zenon
    <3> QED BY <2>1, <2>6, <2>8, <3>4, <3>5, Zenon
  <2> QED BY <2>7, <2>8
<1> HIDE DEF T
<1>3. \A s \in Seq(S) : s \in T BY <1>1, <1>2, Lengthen
<1> QED BY <1>3 DEF T

-----------------------------------------------------------------------------
(* Arriving: it takes apart what FlattenSeq joined.                        *)

\* A field as it travels: a tag, and a number or a length and as many words.
Frame(e) ==
  /\ Len(e) >= 2
  /\ e[1] # 0 /\ e[1] % 8 # 4
  /\ Len(e) = IF e[1] % 8 = 2 THEN 2 + e[2] ELSE 2
Frames == {e \in Seq(Int) : Frame(e)}

\* One turn of the reader, and the function that Arriving defines.
Ended(words, pos) == \/ pos >= Len(words)
                     \/ words[pos + 1] = 0
                     \/ words[pos + 1] % 8 = 4
After(words, pos) == pos + (IF words[pos + 1] % 8 = 2 THEN 2 + words[pos + 2] ELSE 2)
Turn(words, was) ==
  IF Ended(words, was.pos) THEN was
  ELSE [pos    |-> After(words, was.pos),
        fields |-> Append(was.fields, SubSeq(words, was.pos + 1, After(words, was.pos)))]
Start == [pos |-> 0, fields |-> <<>>]
Reads(words, h) == [turn \in Nat |-> IF turn = 0 THEN Start ELSE Turn(words, h[turn - 1])]
Reader(words) == CHOOSE h : h = Reads(words, h)

\* Arriving is what its reader has read after as many turns as there are words.
LEMMA ArrivingReads == \A words : Arriving(words) = Reader(words)[Len(words)].fields
  BY Zenon DEF Arriving, Reader, Reads, Turn, Start, After, Ended

\* What begins a sequence begins it with another one behind it.
LEMMA BeginsLonger ==
  ASSUME NEW S, NEW a \in Seq(S), NEW b \in Seq(S), NEW d \in Seq(S),
         NEW c, Begins(a, b), Concatenates(c, b, d)
  PROVE  Begins(a, c)
<1>1. Len(a) \in Nat /\ Len(b) \in Nat /\ Len(d) \in Nat OBVIOUS
<1>2. Len(a) <= Len(b) /\ Len(c) = Len(b) + Len(d) BY DEF Begins, Concatenates
<1>3. \A i \in 1 .. Len(a) : /\ i \in 1 .. Len(b)
                             /\ i \in 1 .. Len(b) + Len(d) /\ i <= Len(b)
  BY <1>1, <1>2
<1>4. \A i \in 1 .. Len(a) : c[i] = a[i] BY <1>3, Zenon DEF Begins, Concatenates
<1>5. Len(a) <= Len(c) BY <1>1, <1>2
<1> QED BY <1>4, <1>5 DEF Begins

\* What is joined begins with what was joined before.
LEMMA JoinsBegin ==
  ASSUME NEW S, NEW s \in Seq(Seq(S)), NEW f \in [0 .. Len(s) -> Seq(S)], Joins(f, s),
         NEW k \in 0 .. Len(s)
  PROVE  Begins(f[k], f[Len(s)])
<1> DEFINE T == {m \in Nat : k + m <= Len(s) => Begins(f[k], f[k + m])}
<1>0. Len(s) \in Nat /\ k \in Nat /\ f[k] \in Seq(S) OBVIOUS
<1>1. 0 \in T BY <1>0 DEF Begins
<1>2. ASSUME NEW m \in Nat, m \in T PROVE m + 1 \in T
  <2> SUFFICES ASSUME k + (m + 1) <= Len(s) PROVE Begins(f[k], f[k + (m + 1)]) OBVIOUS
  <2> DEFINE n == k + (m + 1)
  <2>1. n \in 1 .. Len(s) /\ n - 1 = k + m /\ k + m \in 0 .. Len(s) BY <1>0
  <2>2. f[n] = f[k + m] \o s[n] BY <2>1, Zenon DEF Joins
  <2>3. s[n] \in Seq(S) /\ f[k + m] \in Seq(S) BY <2>1, ElementOfSeq
  <2>4. Concatenates(f[n], f[k + m], s[n]) BY <2>2, <2>3, ConcatIs
  <2>5. Begins(f[k], f[k + m]) BY <1>0, <1>2, <2>1
  <2> HIDE DEF n
  <2>6. Len(f[k]) \in Nat /\ Len(f[k + m]) \in Nat /\ Len(s[n]) \in Nat BY <1>0, <2>3
  <2>7. Begins(f[k], f[n])
    <3> DEFINE a == f[k]  b == f[k + m]  c == f[n]  d == s[n]
    <3>1. /\ a \in Seq(S) /\ b \in Seq(S) /\ d \in Seq(S)
          /\ Begins(a, b) /\ Concatenates(c, b, d)
      BY <1>0, <2>3, <2>4, <2>5
    <3> HIDE DEF a, b, c, d
    <3>2. Begins(a, c) BY <3>1, BeginsLonger
    <3> QED BY <3>2 DEF a, c
  <2> QED BY <2>7 DEF n
<1> HIDE DEF T
<1>3. \A m \in Nat : m \in T BY <1>1, <1>2, Climb
<1>4. Len(s) - k \in T /\ k + (Len(s) - k) = Len(s)
  <2>1. Len(s) - k \in Nat /\ k + (Len(s) - k) = Len(s) BY <1>0
  <2> QED BY <1>3, <2>1
<1> QED BY <1>0, <1>4 DEF T

\* A turn of the reader takes the frame in front of it.
LEMMA TurnTakes ==
  ASSUME NEW words \in Seq(Int), NEW e \in Frames, NEW pos \in Nat, NEW fields,
         pos + Len(e) <= Len(words), \A i \in 1 .. Len(e) : words[pos + i] = e[i]
  PROVE  Turn(words, [pos |-> pos, fields |-> fields])
           = [pos |-> pos + Len(e), fields |-> Append(fields, e)]
<1>1. e \in Seq(Int) /\ Frame(e) BY DEF Frames
<1>2. Len(e) \in Nat /\ Len(e) >= 2 /\ Len(words) \in Nat BY <1>1 DEF Frame
<1>3. words[pos + 1] = e[1] /\ words[pos + 2] = e[2] BY <1>2
<1>4. ~Ended(words, pos)
  <2>1. ~(pos >= Len(words)) BY <1>2
  <2> QED BY <1>1, <1>3, <2>1, Zenon DEF Ended, Frame
<1>5. After(words, pos) = pos + Len(e)
  <2>1. Len(e) = IF words[pos + 1] % 8 = 2 THEN 2 + words[pos + 2] ELSE 2
    BY <1>1, <1>3, Zenon DEF Frame
  <2> QED BY <2>1, Zenon DEF After
<1>6. SubSeq(words, pos + 1, pos + Len(e)) = e
  <2> DEFINE p == SubSeq(words, pos + 1, pos + Len(e))
  <2>1. p \in Seq(Int) /\ Len(p) = Len(e) /\ \A i \in 1 .. Len(e) : p[i] = words[pos + i]
    BY <1>2
  <2> HIDE DEF p
  <2>2. \A i \in 1 .. Len(p) : p[i] = e[i] BY <2>1
  <2>3. p = e BY <1>1, <2>1, <2>2, SeqEqual
  <2> QED BY <2>3 DEF p
<1> QED BY <1>4, <1>5, <1>6, Zenon DEF Turn

\* The reader takes the joined frames one by one.
THEOREM ArrivingOf ==
  ASSUME NEW F \in Seq(Frames)
  PROVE  Arriving(FlattenSeq(F)) = F
<1>0. Len(F) \in Nat /\ F \in Seq(Seq(Int)) BY DEF Frames
<1>1. PICK f \in [0 .. Len(F) -> Seq(Int)] : Joins(f, F) /\ FlattenSeq(F) = f[Len(F)]
  BY <1>0, FlattenJoins
<1> DEFINE words == FlattenSeq(F)
           At(k) == [pos |-> Len(f[k]), fields |-> SubSeq(F, 1, k)]
           End == [pos |-> Len(words), fields |-> F]
           g == [k \in Nat |-> IF k <= Len(F) THEN At(k) ELSE End]
<1>2. words \in Seq(Int) /\ Len(words) \in Nat BY <1>0, <1>1
<1>3. At(0) = Start
  <2>1. f[0] = <<>> BY <1>1 DEF Joins
  <2>2. SubSeq(F, 1, 0) = <<>> BY <1>0
  <2> QED BY <2>1, <2>2 DEF Start
<1>4. At(Len(F)) = End
  <2>1. SubSeq(F, 1, Len(F)) = F BY <1>0
  <2> QED BY <1>1, <2>1
<1>5. ASSUME NEW k \in 1 .. Len(F)
      PROVE  /\ At(k) = Turn(words, At(k - 1))
             /\ Len(f[k]) >= Len(f[k - 1]) + 2
  <2>1. k - 1 \in 0 .. Len(F) /\ k \in 0 .. Len(F) /\ k - 1 \in Nat BY <1>0
  <2>2. F[k] \in Frames BY ElementOfSeq
  <2>3. F[k] \in Seq(Int) /\ Len(F[k]) \in Nat /\ Len(F[k]) >= 2 BY <2>2 DEF Frames, Frame
  <2>4. f[k] = f[k - 1] \o F[k] BY <1>1, Zenon DEF Joins
  <2>5. f[k] \in Seq(Int) /\ f[k - 1] \in Seq(Int) BY <1>1, <2>1
  <2>6. Concatenates(f[k], f[k - 1], F[k]) BY <2>3, <2>4, <2>5, ConcatIs
  <2>7. Begins(f[k], words) BY <1>0, <1>1, <2>1, JoinsBegin
  <2> DEFINE a == f[k - 1]  b == f[k]  e == F[k]  pos == Len(f[k - 1])
  <2>8. /\ a \in Seq(Int) /\ b \in Seq(Int) /\ e \in Seq(Int) /\ e \in Frames
        /\ pos = Len(a) /\ pos \in Nat /\ Len(e) \in Nat
        /\ Concatenates(b, a, e) /\ Begins(b, words)
    BY <2>2, <2>3, <2>5, <2>6, <2>7
  <2> HIDE DEF a, b, e, pos, words
  <2>9. Len(b) = pos + Len(e) /\ Len(b) <= Len(words) BY <2>8 DEF Concatenates, Begins
  <2>10. ASSUME NEW i \in 1 .. Len(e) PROVE words[pos + i] = e[i]
    <3>1. pos + i \in 1 .. Len(a) + Len(e) /\ ~(pos + i <= Len(a)) /\ (pos + i) - Len(a) = i
          /\ pos + i \in 1 .. Len(b)
      BY <2>8, <2>9
    <3>2. b[pos + i] = e[i] BY <2>8, <3>1, Zenon DEF Concatenates
    <3> QED BY <2>8, <3>1, <3>2, Zenon DEF Begins
  <2>11. Turn(words, [pos |-> pos, fields |-> SubSeq(F, 1, k - 1)])
           = [pos |-> pos + Len(e), fields |-> Append(SubSeq(F, 1, k - 1), e)]
    BY <1>2, <2>8, <2>9, <2>10, TurnTakes
  <2>12. Append(SubSeq(F, 1, k - 1), e) = SubSeq(F, 1, k)
    <3>1. SubSeq(F, 1, k - 1) \in Seq(Frames) /\ SubSeq(F, 1, k) \in Seq(Frames)
      BY <1>0, <2>1
    <3> QED BY <1>0, <2>1 DEF e
  <2>13. Len(b) >= pos + 2 BY <2>3, <2>8, <2>9 DEF e
  <2> QED BY <2>9, <2>11, <2>12, <2>13, Zenon DEF a, b, pos
<1>6. \A k \in Nat : k <= Len(F) => k <= Len(f[k])
  <2> DEFINE T == {k \in Nat : k <= Len(F) => k <= Len(f[k])}
  <2>1. 0 \in T BY <1>1 DEF Joins
  <2>2. ASSUME NEW k \in Nat, k \in T PROVE k + 1 \in T
    <3> SUFFICES ASSUME k + 1 <= Len(F) PROVE k + 1 <= Len(f[k + 1]) OBVIOUS
    <3>1. k + 1 \in 1 .. Len(F) /\ (k + 1) - 1 = k /\ k <= Len(F) BY <1>0
    <3>2. Len(f[k + 1]) >= Len(f[k]) + 2 BY <1>5, <3>1
    <3>3. f[k] \in Seq(Int) /\ f[k + 1] \in Seq(Int)
      <4>1. k \in 0 .. Len(F) /\ k + 1 \in 0 .. Len(F) BY <1>0, <3>1
      <4> QED BY <1>1, <4>1
    <3>4. Len(f[k]) \in Nat /\ Len(f[k + 1]) \in Nat BY <3>3
    <3>5. k <= Len(f[k]) BY <2>2, <3>1
    <3> QED BY <3>2, <3>4, <3>5
  <2> HIDE DEF T
  <2>3. \A k \in Nat : k \in T BY <2>1, <2>2, Climb
  <2> QED BY <2>3 DEF T
<1>7. Len(F) <= Len(words)
  <2>1. Len(F) <= Len(F) BY <1>0
  <2> QED BY <1>0, <1>1, <1>6, <2>1, Zenon
<1>8. Turn(words, End) = End
  <2>1. Ended(words, Len(words))
    <3>1. Len(words) >= Len(words) BY <1>2
    <3> QED BY <3>1, Zenon DEF Ended
  <2>2. End.pos = Len(words) OBVIOUS
  <2> HIDE DEF End
  <2> QED BY <2>1, <2>2, Zenon DEF Turn
<1>9. \A k \in Nat : (k <= Len(F) => g[k] = At(k)) /\ (k >= Len(F) => g[k] = End)
  <2>1. \A k \in Nat : k <= Len(F) /\ k >= Len(F) => k = Len(F) BY <1>0
  <2>2. \A k \in Nat : k <= Len(F) \/ k >= Len(F) BY <1>0
  <2> HIDE DEF At, End
  <2>3. \A k \in Nat : g[k] = IF k <= Len(F) THEN At(k) ELSE End BY Zenon
  <2> HIDE DEF g
  <2> QED BY <1>4, <2>1, <2>2, <2>3, Zenon
<1> HIDE DEF At, End, g, words
<1>10. ASSUME NEW k \in Nat PROVE g[k] = IF k = 0 THEN Start ELSE Turn(words, g[k - 1])
  <2>1. CASE k = 0
    <3>1. 0 <= Len(F) /\ 0 \in Nat BY <1>0
    <3> QED BY <1>3, <1>9, <2>1, <3>1, Zenon
  <2>2. CASE k # 0 /\ k <= Len(F)
    <3>1. k \in 1 .. Len(F) /\ k - 1 \in Nat /\ k - 1 <= Len(F) BY <1>0, <2>2
    <3>2. g[k] = At(k) /\ g[k - 1] = At(k - 1) BY <1>9, <2>2, <3>1, Zenon
    <3> QED BY <1>5, <2>2, <3>1, <3>2, Zenon
  <2>3. CASE ~(k <= Len(F))
    <3>1. k # 0 /\ k >= Len(F) /\ k - 1 \in Nat /\ k - 1 >= Len(F) BY <1>0, <2>3
    <3>2. g[k] = End /\ g[k - 1] = End BY <1>9, <3>1, Zenon
    <3> QED BY <1>8, <3>1, <3>2, Zenon
  <2> QED BY <2>1, <2>2, <2>3
<1>11. g = Reads(words, g)
  <2>1. g = [k \in Nat |-> g[k]]
    BY DEF g
  <2>2. [k \in Nat |-> g[k]] = [k \in Nat |-> IF k = 0 THEN Start ELSE Turn(words, g[k - 1])]
    BY <1>10, Zenon
  <2> QED BY <2>1, <2>2, Zenon DEF Reads
<1> DEFINE h == Reader(words)
<1>12. h = Reads(words, h)
  <2>1. \E x : x = Reads(words, x) BY <1>11, Zenon
  <2> QED BY <2>1, Zenon DEF Reader
<1>13. \A k \in Nat : h[k] = IF k = 0 THEN Start ELSE Turn(words, h[k - 1])
  <2> HIDE DEF h
  <2> QED BY <1>12, Zenon DEF Reads
<1> HIDE DEF h
<1>14. \A k \in Nat : h[k] = g[k]
  <2> DEFINE T == {k \in Nat : h[k] = g[k]}
  <2>1. 0 \in T
    <3>1. 0 \in Nat OBVIOUS
    <3> QED BY <1>10, <1>13, <3>1, Zenon
  <2>2. ASSUME NEW k \in Nat, k \in T PROVE k + 1 \in T
    <3>1. k + 1 \in Nat /\ k + 1 # 0 /\ (k + 1) - 1 = k OBVIOUS
    <3>2. h[k] = g[k] BY <2>2
    <3>3. h[k + 1] = Turn(words, h[k]) BY <1>13, <3>1, Zenon
    <3>4. g[k + 1] = Turn(words, g[k]) BY <1>10, <3>1, Zenon
    <3> QED BY <3>1, <3>2, <3>3, <3>4, Zenon
  <2> HIDE DEF T
  <2>3. \A k \in Nat : k \in T BY <2>1, <2>2, Climb
  <2> QED BY <2>3 DEF T
<1>15. h[Len(words)] = End BY <1>2, <1>7, <1>9, <1>14
<1>16. Arriving(words) = End.fields BY <1>15, ArrivingReads, Zenon DEF h
<1> QED BY <1>16 DEF End, words

-----------------------------------------------------------------------------
(* One field, written and read.                                            *)

\* What one level of the generated code promises: an object stays one when it is
\* filled in, JSON gives a filled one back, a filled one can be written, and what is
\* written is read as the filled object, unless a long in it is unsafe.
InnerFaithful ==
  \A t, o : InnerType(t) /\ InnerObject(t, o) =>
    /\ InnerObject(t, InnerFill(t, o))
    /\ InnerFill(t, InnerToJSON(t, InnerFill(t, o))) = InnerFill(t, o)
    /\ ~InnerUnwritable(t, InnerFill(t, o))
    /\ InnerUnsafe(t, InnerFill(t, o)) <=> InnerUnsafe(t, o)
    /\ ~InnerUnwritable(t, o) =>
         /\ InnerEncode(t, o) \in Seq(Int)
         /\ InnerDecode(t, InnerEncode(t, o)) = InnerFill(t, o)
         /\ InnerUnreadable(t, InnerEncode(t, o)) <=> InnerUnsafe(t, o)
Faithful ==
  \A t, o : IsType(t) /\ IsObject(t, o) =>
    /\ IsObject(t, Fill(t, o))
    /\ Fill(t, toJSON(t, Fill(t, o))) = Fill(t, o)
    /\ ~Unwritable(t, Fill(t, o))
    /\ Unsafe(t, Fill(t, o)) <=> Unsafe(t, o)
    /\ ~Unwritable(t, o) =>
         /\ encode(t, o) \in Seq(Int)
         /\ decode(t, encode(t, o)) = Fill(t, o)
         /\ Unreadable(t, encode(t, o)) <=> Unsafe(t, o)

\* A field of a type.
IsField(f) ==
  /\ f.number \in Numbers
  /\ f.kind \in Kinds
  /\ f.many \in BOOLEAN
  /\ f.many => f.kind \in {"string", "message"}
  /\ f.kind = "message" => InnerType(f.type)

\* A value that can be written, what is read of it, and when reading throws.
CanPut(f, v) == IsValue(f, v) /\ (f.kind = "message" => ~InnerUnwritable(f.type, v))
Filled(f, v) == IF f.kind = "message" THEN InnerFill(f.type, v) ELSE v
Throws(f, e) ==
  \/ f.kind = "int64" /\ longToNumberThrows(e[2])
  \/ f.kind = "message" /\ InnerUnreadable(f.type, Payload(e))

\* A tag ends no message and tells whether a length follows.
LEMMA TagReads ==
  ASSUME NEW f, f.number \in Numbers
  PROVE  /\ Tag(f) \in Int /\ Tag(f) # 0 /\ Tag(f) % 8 # 4
         /\ Tag(f) % 8 = 2 <=> Delimited(f)
<1>1. f.number \in Int /\ f.number >= 1 BY DEF Numbers
<1>2. CASE Delimited(f)
  <2>1. Tag(f) = 8 * f.number + 2 BY <1>2, Zenon DEF Tag
  <2> QED BY <1>1, <1>2, <2>1
<1>3. CASE ~Delimited(f)
  <2>1. Tag(f) = 8 * f.number + 0 BY <1>3, Zenon DEF Tag
  <2> QED BY <1>1, <1>3, <2>1
<1> QED BY <1>2, <1>3

\* Fields of different numbers have different tags.
LEMMA TagsDiffer ==
  ASSUME NEW f, f.number \in Numbers, NEW g, g.number \in Numbers, f.number # g.number
  PROVE  Tag(f) # Tag(g)
<1>1. f.number \in Int /\ g.number \in Int BY DEF Numbers
<1> DEFINE a == IF Delimited(f) THEN 2 ELSE 0
           b == IF Delimited(g) THEN 2 ELSE 0
<1>2. a \in {0, 2} /\ b \in {0, 2} BY Zenon
<1>3. Tag(f) = 8 * f.number + a /\ Tag(g) = 8 * g.number + b BY Zenon DEF Tag
<1> DEFINE x == f.number  y == g.number
<1>4. x \in Int /\ y \in Int /\ x # y BY <1>1
<1>5. Tag(f) = 8 * x + a /\ Tag(g) = 8 * y + b BY <1>3
<1> HIDE DEF a, b, x, y
<1>6. 8 * x + a # 8 * y + b
  <2>1. (8 * x + 2) % 8 = 2 /\ (8 * y + 2) % 8 = 2 BY <1>4
  <2>2. (8 * x + 0) % 8 = 0 /\ (8 * y + 0) % 8 = 0 BY <1>4
  <2>3. CASE a = b
    <3>1. a \in Int BY <1>2
    <3> QED BY <1>4, <2>3, <3>1
  <2>4. CASE a = 0 /\ b = 2 BY <2>1, <2>2, <2>4
  <2>5. CASE a = 2 /\ b = 0 BY <2>1, <2>2, <2>5
  <2> QED BY <1>2, <2>3, <2>4, <2>5
<1> QED BY <1>5, <1>6

\* A length and as many words behind a tag are a frame, whose payload they are.
LEMMA FrameOfBody ==
  ASSUME NEW tag \in Int, tag # 0, tag % 8 = 2, NEW body \in Seq(Int)
  PROVE  LET e == <<tag, Len(body)>> \o body
         IN  e \in Frames /\ e[1] = tag /\ e[2] = Len(body) /\ Payload(e) = body
<1> DEFINE e == <<tag, Len(body)>> \o body
<1>0. Len(body) \in Nat OBVIOUS
<1>1. <<tag, Len(body)>> \in Seq(Int) /\ Len(<<tag, Len(body)>>) = 2
  BY <1>0
<1>2. /\ e \in Seq(Int) /\ Len(e) = 2 + Len(body) /\ e[1] = tag /\ e[2] = Len(body)
      /\ \A i \in 1 .. Len(body) : e[2 + i] = body[i]
  BY <1>0, <1>1
<1> HIDE DEF e
<1>3. Frame(e) BY <1>0, <1>2 DEF Frame
<1>4. Payload(e) = body
  <2> DEFINE p == SubSeq(e, 3, Len(e))
  <2>1. p \in Seq(Int) /\ Len(p) = Len(body) /\ \A i \in 1 .. Len(body) : p[i] = e[2 + i]
    BY <1>0, <1>2
  <2> HIDE DEF p
  <2>2. \A i \in 1 .. Len(p) : p[i] = body[i] BY <1>2, <2>1
  <2>3. p = body BY <2>1, <2>2, SeqEqual
  <2> QED BY <2>3 DEF Payload, p
<1> QED BY <1>2, <1>3, <1>4 DEF Frames, e

\* A number behind a tag is a frame.
LEMMA FrameOfNumber ==
  ASSUME NEW tag \in Int, tag # 0, tag % 8 # 2, tag % 8 # 4, NEW v \in Int
  PROVE  <<tag, v>> \in Frames
<1>1. <<tag, v>> \in Seq(Int) /\ Len(<<tag, v>>) = 2 /\ <<tag, v>>[1] = tag OBVIOUS
<1> DEFINE e == <<tag, v>>
<1> HIDE DEF e
<1>2. Frame(e) BY <1>1 DEF Frame, e
<1> QED BY <1>1, <1>2 DEF Frames, e

\* What is put for a value is a frame of the field, and is read as the value.
PutReads(f, v, e) ==
  /\ e \in Frames
  /\ e[1] = Tag(f)
  /\ Take(f, e) = Filled(f, v)
  /\ Throws(f, e) <=> UnsafeValue(f, v)

\* What is put for a value is one field of its tag, and reads as that value, unless
\* it throws, which it does exactly for an unsafe value.
LEMMA PutIsRead ==
  ASSUME InnerFaithful, NEW f, IsField(f), NEW v, CanPut(f, v)
  PROVE  PutReads(f, v, Put(f, v))
<1>0. Tag(f) \in Int /\ Tag(f) # 0 /\ Tag(f) % 8 # 4 /\ (Tag(f) % 8 = 2 <=> Delimited(f))
  BY TagReads DEF IsField
<1>1. CASE f.kind = "message"
  <2> DEFINE body == InnerEncode(f.type, v)
             e == <<Tag(f), Len(body)>> \o body
  <2>1. InnerType(f.type) /\ InnerObject(f.type, v) /\ ~InnerUnwritable(f.type, v)
    BY <1>1, Zenon DEF IsField, IsValue, CanPut
  <2>2. /\ body \in Seq(Int)
        /\ InnerDecode(f.type, body) = InnerFill(f.type, v)
        /\ InnerUnreadable(f.type, body) <=> InnerUnsafe(f.type, v)
    BY <2>1, Zenon DEF InnerFaithful
  <2>3. Delimited(f) BY <1>1 DEF Delimited
  <2>4. Put(f, v) = e BY <1>1, <2>3 DEF Put, Body
  <2>5. f.kind # "int64" BY <1>1
  <2> HIDE DEF body
  <2>6. e \in Frames /\ e[1] = Tag(f) /\ Payload(e) = body
    BY <1>0, <2>2, <2>3, FrameOfBody
  <2> HIDE DEF e
  <2>7. Take(f, e) = InnerFill(f.type, v) BY <1>1, <2>2, <2>6 DEF Take
  <2>8. Filled(f, v) = InnerFill(f.type, v) BY <1>1 DEF Filled
  <2>9. Throws(f, e) <=> UnsafeValue(f, v)
    BY <1>1, <2>2, <2>5, <2>6, Zenon DEF Throws, UnsafeValue
  <2> QED BY <2>4, <2>6, <2>7, <2>8, <2>9, Zenon DEF PutReads
<1>2. CASE f.kind = "string"
  <2> DEFINE e == <<Tag(f), Len(v)>> \o v
  <2>1. v \in Seq(Int) BY <1>2 DEF IsValue, CanPut
  <2>2. Delimited(f) BY <1>2 DEF Delimited
  <2>3. f.kind # "message" /\ f.kind # "int64" BY <1>2
  <2>4. Put(f, v) = e
    <3>1. Body(f, v) = v BY <2>3, Zenon DEF Body
    <3>2. f.kind # "bool" BY <1>2
    <3>3. Put(f, v) = <<Tag(f), Len(Body(f, v))>> \o Body(f, v)
      BY <2>2, <3>2, Zenon DEF Put
    <3> QED BY <3>1, <3>3, Zenon
  <2>5. e \in Frames /\ e[1] = Tag(f) /\ Payload(e) = v BY <1>0, <2>1, <2>2, FrameOfBody
  <2> HIDE DEF e
  <2>6. Take(f, e) = v BY <1>2, <2>5 DEF Take
  <2>7. Filled(f, v) = v BY <2>3 DEF Filled
  <2>8. ~Throws(f, e) /\ ~UnsafeValue(f, v) BY <2>3, Zenon DEF Throws, UnsafeValue
  <2> QED BY <2>4, <2>5, <2>6, <2>7, <2>8, Zenon DEF PutReads
<1>3. CASE f.kind \in {"int32", "int64", "bool"}
  <2> DEFINE x == IF f.kind = "bool" THEN (IF v THEN 1 ELSE 0) ELSE v
             e == <<Tag(f), x>>
  <2>1. ~Delimited(f) /\ f.kind # "message" /\ f.kind # "string" BY <1>3 DEF Delimited
  <2>2. Put(f, v) = e
    <3>1. CASE f.kind = "bool" BY <2>1, <3>1 DEF Put
    <3>2. CASE f.kind # "bool" BY <2>1, <3>2 DEF Put
    <3> QED BY <3>1, <3>2
  <2>3. x \in Int
    <3>1. CASE f.kind = "bool" BY <3>1
    <3>2. CASE f.kind # "bool" BY <1>3, <3>2 DEF IsValue, CanPut
    <3> QED BY <3>1, <3>2
  <2>4. e[1] = Tag(f) /\ e[2] = x OBVIOUS
  <2>5. Filled(f, v) = v BY <2>1 DEF Filled
  <2>6. f.kind # "bool" => x = v OBVIOUS
  <2>7. f.kind = "bool" => (x # 0) = v
    <3> SUFFICES ASSUME f.kind = "bool" PROVE (x # 0) = v OBVIOUS
    <3>1. v \in BOOLEAN BY DEF IsValue, CanPut
    <3>2. CASE v = TRUE
      <4>1. x = 1 BY <3>2
      <4>2. x # 0 BY <4>1
      <4> QED BY <3>2, <4>2, Zenon
    <3>3. CASE v = FALSE
      <4>1. x = 0 BY <3>3
      <4> QED BY <3>3, <4>1, Zenon
    <3> QED BY <3>1, <3>2, <3>3
  <2> HIDE DEF x
  <2>8. e \in Frames BY <1>0, <2>1, <2>3, FrameOfNumber
  <2> HIDE DEF e
  <2>9. Take(f, e) = v
    <3>1. CASE f.kind = "bool"
      <4>1. Take(f, e) = (e[2] # 0) BY <3>1 DEF Take
      <4> QED BY <2>4, <2>7, <3>1, <4>1
    <3>2. CASE f.kind # "bool"
      <4>1. Take(f, e) = e[2] BY <2>1, <3>2 DEF Take
      <4> QED BY <2>4, <2>6, <3>2, <4>1
    <3> QED BY <3>1, <3>2
  <2>10. Throws(f, e) <=> UnsafeValue(f, v)
    <3>1. CASE f.kind = "int64"
      <4>1. e[2] = v BY <2>4, <2>6, <3>1
      <4> QED BY <2>1, <3>1, <4>1 DEF Throws, UnsafeValue, longToNumberThrows
    <3>2. CASE f.kind # "int64" BY <2>1, <3>2, Zenon DEF Throws, UnsafeValue
    <3> QED BY <3>1, <3>2
  <2> QED BY <2>2, <2>4, <2>5, <2>8, <2>9, <2>10, Zenon DEF PutReads
<1> QED BY <1>1, <1>2, <1>3 DEF IsField, Kinds

-----------------------------------------------------------------------------
(* The values of a field, written and read.                                *)

\* A function on an interval from 1 is a sequence.
LEMMA SequenceIs ==
  ASSUME NEW n \in Nat, NEW S, NEW w, w = [i \in 1 .. n |-> w[i]], \A i \in 1 .. n : w[i] \in S
  PROVE  w \in Seq(S) /\ Len(w) = n
<1>1. w \in [1 .. n -> S] OBVIOUS
<1> QED BY <1>1

\* A list is a function on an interval from 1.
LEMMA ListIs ==
  ASSUME NEW v, IsList(v)
  PROVE  /\ Len(v) \in Nat /\ DOMAIN v = 1 .. Len(v)
         /\ v = [i \in 1 .. Len(v) |-> v[i]]
<1> DEFINE S == {v[i] : i \in DOMAIN v}
<1>1. v \in Seq(S) BY DEF IsList
<1> HIDE DEF S
<1> QED BY <1>1

\* So is an empty one, and one of a single element.
LEMMA ListOfOne == \A v : IsList(<<v>>) /\ DOMAIN <<v>> = {1} /\ <<v>>[1] = v
<1> SUFFICES ASSUME NEW v PROVE IsList(<<v>>) /\ DOMAIN <<v>> = {1} /\ <<v>>[1] = v OBVIOUS
<1>1. DOMAIN <<v>> = {1} /\ <<v>>[1] = v OBVIOUS
<1>2. {<<v>>[i] : i \in DOMAIN <<v>>} = {v} OBVIOUS
<1>3. <<v>> \in Seq({v}) OBVIOUS
<1> QED BY <1>1, <1>2, <1>3, Zenon DEF IsList

\* The empty list is a list.
LEMMA ListOfNone == IsList(<<>>) /\ DOMAIN <<>> = {}
<1>1. DOMAIN <<>> = {} OBVIOUS
<1>2. \A S : <<>> \in Seq(S) OBVIOUS
<1> QED BY <1>1, <1>2, Zenon DEF IsList

\* What is written for a field, by how the object gives it.
WrittenAs(t, o, n, w) ==
  \/ n \in DOMAIN o /\ t[n].many /\ w = o[n]
  \/ n \in DOMAIN o /\ ~t[n].many /\ w = <<o[n]>>
  \/ n \in DOMAIN o /\ ~t[n].many /\ t[n].kind # "message" /\ o[n] = Default(t[n]) /\ w = <<>>
  \/ n \notin DOMAIN o /\ ~t[n].many /\ t[n].kind = "message" /\ w = <<>>
  \/ n \notin DOMAIN o /\ ~t[n].many /\ t[n].kind \in {"int32", "bool"} /\ w = <<Default(t[n])>>
CanPutAll(f, w) == IsList(w) /\ \A i \in DOMAIN w : CanPut(f, w[i])

\* The fields of a type are fields.
LEMMA FieldOfType ==
  ASSUME NEW t, IsType(t), NEW n \in DOMAIN t
  PROVE  IsField(t[n])
  BY Zenon DEF IsType, IsField

\* The default of a number or a boolean is a value of it.
LEMMA DefaultIs ==
  ASSUME NEW f, IsField(f), ~f.many
  PROVE  /\ f.kind = "string" => Default(f) = <<>>
         /\ f.kind = "bool" => Default(f) = FALSE
         /\ f.kind \in {"int32", "int64"} => Default(f) = 0
         /\ f.kind # "message" => CanPut(f, Default(f)) /\ IsValue(f, Default(f))
<1>1. CASE f.kind = "string"
  <2>1. Default(f) = <<>> BY <1>1, Zenon DEF Default
  <2>2. f.kind # "bool" /\ f.kind \notin {"int32", "int64"} /\ f.kind # "message" BY <1>1
  <2>3. <<>> \in Seq(Int) OBVIOUS
  <2> QED BY <1>1, <2>1, <2>2, <2>3, Zenon DEF CanPut, IsValue
<1>2. CASE f.kind = "bool"
  <2>1. f.kind # "string" /\ f.kind \notin {"int32", "int64"} /\ f.kind # "message" BY <1>2
  <2>2. Default(f) = FALSE BY <1>2, <2>1, Zenon DEF Default
  <2>3. FALSE \in BOOLEAN OBVIOUS
  <2> QED BY <1>2, <2>1, <2>2, <2>3, Zenon DEF CanPut, IsValue
<1>3. CASE f.kind \in {"int32", "int64"}
  <2>1. f.kind # "string" /\ f.kind # "bool" /\ f.kind # "message" BY <1>3
  <2>2. Default(f) = 0 BY <2>1, Zenon DEF Default
  <2>3. 0 \in Int OBVIOUS
  <2> QED BY <1>3, <2>1, <2>2, <2>3, Zenon DEF CanPut, IsValue
<1>4. CASE f.kind = "message"
  <2>1. f.kind # "string" /\ f.kind # "bool" /\ f.kind \notin {"int32", "int64"} BY <1>4
  <2> QED BY <1>4, <2>1, Zenon
<1> QED BY <1>1, <1>2, <1>3, <1>4 DEF IsField, Kinds

\* It is no unsafe long.
LEMMA DefaultSafe ==
  ASSUME MaxSafe \in Nat, NEW f, IsField(f), ~f.many, f.kind # "message"
  PROVE  ~UnsafeValue(f, Default(f))
<1>1. CASE f.kind = "int64"
  <2>1. Default(f) = 0 BY <1>1, DefaultIs
  <2> QED BY <1>1, <2>1 DEF UnsafeValue
<1>2. CASE f.kind # "int64" BY <1>2, Zenon DEF UnsafeValue
<1> QED BY <1>1, <1>2

\* A field of an object that can be written is written so.
LEMMA WrittenIs ==
  ASSUME NEW t, IsType(t), NEW o, IsObject(t, o), ~Unwritable(t, o), NEW n \in DOMAIN t
  PROVE  WrittenAs(t, o, n, Written(t, o, n)) /\ CanPutAll(t[n], Written(t, o, n))
<1> DEFINE f == t[n]
           w == Written(t, o, n)
<1>0. IsField(f) BY FieldOfType
<1>1. CASE n \in DOMAIN o /\ f.many
  <2>1. w = o[n] BY <1>1, Zenon DEF Written
  <2>2. IsList(o[n]) /\ \A i \in DOMAIN o[n] : IsValue(f, o[n][i])
    BY <1>1, Zenon DEF IsObject
  <2>3. \A i \in DOMAIN o[n] : f.kind = "message" => ~InnerUnwritable(f.type, o[n][i])
    BY <1>1, Zenon DEF Unwritable
  <2> QED BY <1>1, <2>1, <2>2, <2>3, Zenon DEF WrittenAs, CanPutAll, CanPut
<1>2. CASE n \in DOMAIN o /\ ~f.many
  <2>1. IsValue(f, o[n]) BY <1>2, Zenon DEF IsObject
  <2>2. f.kind = "message" => ~InnerUnwritable(f.type, o[n])
    BY <1>2, Zenon DEF Unwritable
  <2>3. CanPut(f, o[n]) BY <2>1, <2>2 DEF CanPut
  <2>4. CASE f.kind # "message" /\ o[n] = Default(f)
    <3>1. w = <<>> BY <1>2, <2>4, Zenon DEF Written
    <3>2. CanPutAll(f, <<>>) BY ListOfNone, Zenon DEF CanPutAll
    <3> QED BY <1>2, <2>4, <3>1, <3>2, Zenon DEF WrittenAs
  <2>5. CASE ~(f.kind # "message" /\ o[n] = Default(f))
    <3>1. w = <<o[n]>> BY <1>2, <2>5, Zenon DEF Written
    <3>2. CanPutAll(f, <<o[n]>>) BY <2>3, ListOfOne, Zenon DEF CanPutAll
    <3> QED BY <1>2, <3>1, <3>2, Zenon DEF WrittenAs
  <2> QED BY <2>4, <2>5
<1>3. CASE n \notin DOMAIN o
  <2>1. ~f.many /\ f.kind \notin {"string", "int64"} BY <1>3, Zenon DEF Unwritable
  <2>2. CASE f.kind = "message"
    <3>1. w = <<>> BY <1>3, <2>2, Zenon DEF Written
    <3>2. CanPutAll(f, <<>>) BY ListOfNone, Zenon DEF CanPutAll
    <3> QED BY <1>3, <2>1, <2>2, <3>1, <3>2, Zenon DEF WrittenAs
  <2>3. CASE f.kind # "message"
    <3>1. w = <<Default(f)>> BY <1>3, <2>3, Zenon DEF Written
    <3>2. CanPut(f, Default(f)) BY <1>0, <2>1, <2>3, DefaultIs
    <3>3. CanPutAll(f, <<Default(f)>>) BY <3>2, ListOfOne, Zenon DEF CanPutAll
    <3>4. f.kind \in {"int32", "bool"} BY <1>0, <2>1, <2>3 DEF IsField, Kinds
    <3> QED BY <1>3, <2>1, <3>1, <3>3, <3>4, Zenon DEF WrittenAs
  <2> QED BY <2>2, <2>3
<1> QED BY <1>1, <1>2, <1>3

\* What is sent of a field: a frame for each of its values.
SentOf(f, w) == [i \in DOMAIN w |-> Put(f, w[i])]
Sent(t, o, n) == SentOf(t[n], Written(t, o, n))
SentReads(f, w, s) ==
  /\ s \in Seq(Frames)
  /\ DOMAIN s = DOMAIN w /\ DOMAIN w = 1 .. Len(w) /\ Len(s) = Len(w) /\ Len(w) \in Nat
  /\ AllOf(f, s)
  /\ \A i \in DOMAIN w : PutReads(f, w[i], s[i])

\* What is sent for the values of a field is a sequence of fields, each of which reads as
\* its value.
LEMMA SentIs ==
  ASSUME InnerFaithful, NEW f, IsField(f), NEW w, CanPutAll(f, w)
  PROVE  SentReads(f, w, SentOf(f, w))
<1> DEFINE s == SentOf(f, w)
<1>1. IsList(w) /\ \A i \in DOMAIN w : CanPut(f, w[i]) BY Zenon DEF CanPutAll
<1>2. Len(w) \in Nat /\ DOMAIN w = 1 .. Len(w) BY <1>1, ListIs
<1>3. DOMAIN s = DOMAIN w /\ \A i \in DOMAIN w : s[i] = Put(f, w[i]) BY Zenon DEF SentOf
<1>4. s = [i \in 1 .. Len(w) |-> s[i]] BY <1>2, Zenon DEF SentOf
<1> HIDE DEF s
<1>5. \A i \in DOMAIN w : PutReads(f, w[i], s[i]) BY <1>1, <1>3, PutIsRead
<1>6. \A i \in 1 .. Len(w) : s[i] \in Frames BY <1>2, <1>5, Zenon DEF PutReads
<1>7. s \in Seq(Frames) /\ Len(s) = Len(w) BY <1>2, <1>4, <1>6, SequenceIs
<1>8. AllOf(f, s) BY <1>3, <1>5, Zenon DEF AllOf, PutReads
<1> QED BY <1>2, <1>3, <1>5, <1>7, <1>8, Zenon DEF SentReads, s

\* The fields of joined sequences are those of the one that has them all.
LEMMA HitsOfOne ==
  ASSUME NEW f, NEW S, NEW s \in Seq(Seq(S)), NEW k \in 1 .. Len(s), AllOf(f, s[k]),
         \A i \in 1 .. Len(s) : i # k => NoneOf(f, s[i])
  PROVE  Hits(f, FlattenSeq(s)) = s[k]
<1>0. Len(s) \in Nat /\ k \in Nat OBVIOUS
<1>1. PICK j \in [0 .. Len(s) -> Seq(S)] : Joins(j, s) /\ FlattenSeq(s) = j[Len(s)]
  BY FlattenJoins
<1>2. \A i \in 1 .. Len(s) : s[i] \in Seq(S) BY ElementOfSeq
<1>3. Hits(f, s[k]) = s[k] BY <1>2, HitsItems
<1>4. \A i \in 1 .. Len(s) : i # k => Hits(f, s[i]) = <<>> BY <1>2, HitsItems
<1> DEFINE Good(m) == Hits(f, j[m]) = IF m < k THEN <<>> ELSE s[k]
           T == {m \in Nat : m <= Len(s) => Good(m)}
<1>5. 0 \in T
  <2>1. j[0] = <<>> BY <1>1, Zenon DEF Joins
  <2>2. Hits(f, j[0]) = <<>> BY <2>1, HitsEmpty, Zenon
  <2>3. 0 < k BY <1>0
  <2> QED BY <2>2, <2>3
<1>6. ASSUME NEW m \in Nat, m \in T PROVE m + 1 \in T
  <2> SUFFICES ASSUME m + 1 <= Len(s) PROVE Good(m + 1) OBVIOUS
  <2>1. m + 1 \in 1 .. Len(s) /\ (m + 1) - 1 = m /\ m \in 0 .. Len(s) /\ m <= Len(s)
    BY <1>0
  <2>2. Good(m) BY <1>6, <2>1
  <2>3. j[m + 1] = j[m] \o s[m + 1] BY <1>1, <2>1, Zenon DEF Joins
  <2>4. j[m] \in Seq(S) /\ s[m + 1] \in Seq(S)
    BY <1>1, <1>2, <2>1
  <2>5. Hits(f, j[m + 1]) = Hits(f, j[m]) \o Hits(f, s[m + 1])
    <3>1. Hits(f, j[m] \o s[m + 1]) = Hits(f, j[m]) \o Hits(f, s[m + 1])
      BY <2>4, HitsConcat
    <3> QED BY <2>3, <3>1, Zenon
  <2>6. \A a \in Seq(S) : a \o <<>> = a /\ <<>> \o a = a OBVIOUS
  <2>7. <<>> \in Seq(S) /\ s[k] \in Seq(S) BY <1>2
  <2>8. CASE m + 1 = k
    <3>1. m < k /\ ~(m + 1 < k) BY <2>8
    <3> QED BY <1>3, <2>2, <2>5, <2>6, <2>7, <2>8, <3>1, Zenon
  <2>9. CASE m + 1 # k
    <3>1. m < k <=> m + 1 < k BY <1>0, <2>9
    <3>2. Hits(f, s[m + 1]) = <<>> BY <1>4, <2>1, <2>9
    <3>3. Hits(f, j[m]) \in Seq(S) BY <2>4, HitsType
    <3>4. Hits(f, j[m + 1]) = Hits(f, j[m]) BY <2>5, <2>6, <3>2, <3>3, Zenon
    <3> QED BY <2>2, <3>1, <3>4, Zenon
  <2> QED BY <2>8, <2>9
<1> HIDE DEF T
<1>7. \A m \in Nat : m \in T BY <1>5, <1>6, Climb
<1>8. Good(Len(s))
  <2>1. Len(s) \in T /\ Len(s) <= Len(s) BY <1>0, <1>7
  <2> QED BY <2>1 DEF T
<1>9. ~(Len(s) < k) BY <1>0
<1> QED BY <1>1, <1>8, <1>9, Zenon

-----------------------------------------------------------------------------
(* A message, written and read.                                            *)

Parts(t, o) == [number \in Numbers |-> EncodeField(t, o, number)]
Fields(t, o) == FlattenSeq(Parts(t, o))

\* The fields carry an object: of each of the type's there is what was sent, or a default
\* in the place of nothing.
SpelledOut(f) == << <<Tag(f), 0>> >>
CarriesField(t, o, n, hits) ==
  \/ hits = Sent(t, o, n)
  \/ /\ ~t[n].many /\ t[n].kind # "message"
     /\ Sent(t, o, n) = <<>> /\ hits = SpelledOut(t[n])
Carries(t, o, fields) ==
  /\ fields \in Seq(Frames)
  /\ \A n \in DOMAIN t : CarriesField(t, o, n, Hits(t[n], fields))

\* The fields of a number are what was sent of the field that has it.
LEMMA EncodeFieldIs ==
  ASSUME NEW t, IsType(t), NEW o, NEW n \in DOMAIN t
  PROVE  EncodeField(t, o, t[n].number) = Sent(t, o, n)
<1> DEFINE Has(k) == t[k].number = t[n].number
           m == CHOOSE k \in DOMAIN t : Has(k)
<1>1. m \in DOMAIN t /\ Has(m) BY Zenon
<1>2. m = n
  <2> HIDE DEF m
  <2> QED BY <1>1, Zenon DEF IsType
<1>3. EncodeField(t, o, t[n].number)
        = [i \in DOMAIN Written(t, o, m) |-> Put(t[m], Written(t, o, m)[i])]
  BY <1>1, Zenon DEF EncodeField
<1> HIDE DEF m
<1> QED BY <1>2, <1>3, Zenon DEF Sent, SentOf

\* Nothing is sent for a number that no field has.
LEMMA NoFieldOf ==
  ASSUME NEW t, NEW o, NEW number, \A n \in DOMAIN t : t[n].number # number
  PROVE  EncodeField(t, o, number) = <<>>
  BY Zenon DEF EncodeField

\* encode sends what each field has, and the fields carry the object.
LEMMA EncodeCarries ==
  ASSUME InnerFaithful, NEW t, IsType(t), NEW o, IsObject(t, o), ~Unwritable(t, o)
  PROVE  Carries(t, o, Fields(t, o))
<1> DEFINE s == Parts(t, o)
<1>1. \A n \in DOMAIN t : /\ IsField(t[n])
                          /\ SentReads(t[n], Written(t, o, n), Sent(t, o, n))
  BY FieldOfType, WrittenIs, SentIs, Zenon DEF Sent
<1>2. \A k \in 1 .. 6 : s[k] = EncodeField(t, o, k) BY Zenon DEF Parts, Numbers
<1>3. s = [k \in 1 .. 6 |-> s[k]] BY Zenon DEF Parts, Numbers
<1> HIDE DEF s
<1>4. ASSUME NEW k \in 1 .. 6 PROVE s[k] \in Seq(Frames)
  <2>1. CASE \E n \in DOMAIN t : t[n].number = k
    <3>1. PICK n \in DOMAIN t : t[n].number = k BY <2>1
    <3>2. s[k] = Sent(t, o, n) BY <1>2, <3>1, EncodeFieldIs
    <3> QED BY <1>1, <3>2, Zenon DEF SentReads
  <2>2. CASE ~\E n \in DOMAIN t : t[n].number = k
    <3>1. s[k] = <<>> BY <1>2, <2>2, NoFieldOf
    <3> QED BY <3>1
  <2> QED BY <2>1, <2>2
<1>5. s \in Seq(Seq(Frames)) /\ Len(s) = 6 BY <1>3, <1>4, SequenceIs
<1>6. ASSUME NEW n \in DOMAIN t PROVE Hits(t[n], FlattenSeq(s)) = Sent(t, o, n)
  <2> DEFINE k == t[n].number
  <2>1. k \in 1 .. 6 BY <1>1 DEF IsField, Numbers
  <2>2. s[k] = Sent(t, o, n) BY <1>2, <2>1, EncodeFieldIs
  <2>3. AllOf(t[n], s[k]) BY <1>1, <2>2, Zenon DEF SentReads
  <2>4. ASSUME NEW i \in 1 .. 6, i # k PROVE NoneOf(t[n], s[i])
    <3>1. CASE \E m \in DOMAIN t : t[m].number = i
      <4>1. PICK m \in DOMAIN t : t[m].number = i BY <3>1
      <4>2. s[i] = Sent(t, o, m) BY <1>2, <4>1, EncodeFieldIs
      <4>3. AllOf(t[m], s[i]) BY <1>1, <4>2, Zenon DEF SentReads
      <4>4. Tag(t[m]) # Tag(t[n])
        <5>1. t[m].number \in Numbers /\ t[n].number \in Numbers BY <1>1 DEF IsField
        <5> QED BY <2>4, <4>1, <5>1, TagsDiffer
      <4> QED BY <4>3, <4>4, Zenon DEF AllOf, NoneOf
    <3>2. CASE ~\E m \in DOMAIN t : t[m].number = i
      <4>1. s[i] = <<>> BY <1>2, <3>2, NoFieldOf
      <4> QED BY <4>1 DEF NoneOf
    <3> QED BY <3>1, <3>2
  <2> HIDE DEF k
  <2>5. Hits(t[n], FlattenSeq(s)) = s[k] BY <1>5, <2>1, <2>3, <2>4, HitsOfOne
  <2> QED BY <2>2, <2>5
<1>7. FlattenSeq(s) \in Seq(Frames) BY <1>5, FlattenType
<1> QED BY <1>6, <1>7, Zenon DEF Carries, CarriesField, Fields, s

\* A default that is spelled out is read as the default.
LEMMA SpelledOutReads ==
  ASSUME MaxSafe \in Nat, NEW f, IsField(f), ~f.many, f.kind # "message"
  PROVE  LET e == <<Tag(f), 0>>
         IN  e \in Frames /\ Take(f, e) = Default(f) /\ ~Throws(f, e)
<1> DEFINE e == <<Tag(f), 0>>
<1>0. Tag(f) \in Int /\ Tag(f) # 0 /\ Tag(f) % 8 # 4 BY TagReads DEF IsField
<1>1. e \in Seq(Int) /\ Len(e) = 2 /\ e[1] = Tag(f) /\ e[2] = 0 BY <1>0
<1>2. SubSeq(e, 3, 2) = <<>> BY <1>1
<1> HIDE DEF e
<1>3. e \in Frames
  <2>1. Frame(e) BY <1>0, <1>1 DEF Frame
  <2> QED BY <1>1, <2>1 DEF Frames
<1>4. Payload(e) = <<>> BY <1>1, <1>2 DEF Payload
<1>5. Take(f, e) = Default(f)
  <2>1. CASE f.kind = "string"
    <3>1. Take(f, e) = Payload(e)
      <4>1. f.kind # "message" BY <2>1
      <4> QED BY <2>1, <4>1, Zenon DEF Take
    <3> QED BY <1>4, <2>1, <3>1, DefaultIs
  <2>2. CASE f.kind = "bool"
    <3>1. f.kind # "string" BY <2>2
    <3>2. Take(f, e) = (e[2] # 0) BY <2>2, <3>1, Zenon DEF Take
    <3>3. Default(f) = FALSE BY <2>2, DefaultIs
    <3>4. (e[2] # 0) = FALSE BY <1>1, Zenon
    <3> QED BY <3>2, <3>3, <3>4, Zenon
  <2>3. CASE f.kind \in {"int32", "int64"}
    <3>1. f.kind # "string" /\ f.kind # "bool" /\ f.kind # "message" BY <2>3
    <3>2. Take(f, e) = e[2] BY <3>1, Zenon DEF Take
    <3>3. Default(f) = 0 BY <2>3, DefaultIs
    <3> QED BY <1>1, <3>2, <3>3
  <2> QED BY <2>1, <2>2, <2>3 DEF IsField, Kinds
<1>6. ~Throws(f, e) BY <1>1 DEF Throws, longToNumberThrows
<1> QED BY <1>3, <1>5, <1>6 DEF e

\* What decode makes of the occurrences of a field.
Decoded(f, hits) ==
  CASE f.many -> [i \in DOMAIN hits |-> Take(f, hits[i])]
    [] ~f.many /\ hits = <<>> -> Default(f)
    [] OTHER -> Take(f, hits[Len(hits)])
FilledAt(t, o, n) == IF n \in DOMAIN o THEN FillField(t[n], o[n]) ELSE Default(t[n])
UnsafeAt(t, o, n) ==
  /\ n \in DOMAIN o
  /\ IF t[n].many THEN \E i \in DOMAIN o[n] : UnsafeValue(t[n], o[n][i])
                  ELSE UnsafeValue(t[n], o[n])
ReadsAs(t, o, n, hits) ==
  /\ (n \in Plain(t) \/ hits # <<>>) <=> n \in Plain(t) \cup DOMAIN o
  /\ n \in Plain(t) \cup DOMAIN o => Decoded(t[n], hits) = FilledAt(t, o, n)
  /\ (\E i \in DOMAIN hits : Throws(t[n], hits[i])) <=> UnsafeAt(t, o, n)

\* A field of one value is read as the value, filled in.
LEMMA OneReads ==
  ASSUME NEW f, IsField(f), ~f.many, NEW v, NEW hits, SentReads(f, <<v>>, hits)
  PROVE  /\ hits # <<>>
         /\ Decoded(f, hits) = Filled(f, v)
         /\ (\E i \in DOMAIN hits : Throws(f, hits[i])) <=> UnsafeValue(f, v)
<1>1. DOMAIN hits = {1} /\ <<v>>[1] = v BY ListOfOne, Zenon DEF SentReads
<1>2. Len(hits) = 1 BY DEF SentReads
<1>3. PutReads(f, v, hits[1]) BY <1>1, ListOfOne, Zenon DEF SentReads
<1>4. hits # <<>> BY <1>1, ListOfNone
<1>5. Decoded(f, hits) = Take(f, hits[1]) BY <1>2, <1>4, Zenon DEF Decoded
<1> QED BY <1>1, <1>3, <1>4, <1>5, Zenon DEF PutReads

\* A field of none has its default.
LEMMA NoneReads ==
  ASSUME NEW f, ~f.many, NEW hits, SentReads(f, <<>>, hits)
  PROVE  hits = <<>> /\ DOMAIN hits = {} /\ Decoded(f, hits) = Default(f)
<1>1. DOMAIN hits = {} BY ListOfNone, Zenon DEF SentReads
<1>2. hits \in Seq(Frames) /\ Len(hits) = 0 BY DEF SentReads
<1>3. hits = <<>> BY <1>2
<1> QED BY <1>1, <1>3, Zenon DEF Decoded

\* A value that is no message stays as it is.
LEMMA FillFieldIs ==
  ASSUME NEW f, IsField(f), NEW v
  PROVE  /\ ~f.many => FillField(f, v) = Filled(f, v)
         /\ f.many /\ IsList(v) => FillField(f, v) = [i \in DOMAIN v |-> Filled(f, v[i])]
<1>1. ASSUME ~f.many PROVE FillField(f, v) = Filled(f, v)
  BY <1>1, Zenon DEF FillField, Filled
<1>2. ASSUME f.many, IsList(v) PROVE FillField(f, v) = [i \in DOMAIN v |-> Filled(f, v[i])]
  <2>1. CASE f.kind = "message" BY <1>2, <2>1, Zenon DEF FillField, Filled
  <2>2. CASE f.kind # "message"
    <3>1. v = [i \in DOMAIN v |-> v[i]] BY <1>2, ListIs
    <3>2. FillField(f, v) = v BY <2>2, Zenon DEF FillField
    <3>3. \A i \in DOMAIN v : Filled(f, v[i]) = v[i] BY <2>2, Zenon DEF Filled
    <3> QED BY <3>1, <3>2, <3>3, Zenon
  <2> QED BY <2>1, <2>2
<1> QED BY <1>1, <1>2

\* A field that carries what the object has is read so.
LEMMA FieldReads ==
  ASSUME MaxSafe \in Nat, InnerFaithful,
         NEW t, IsType(t), NEW o, IsObject(t, o), ~Unwritable(t, o), NEW n \in DOMAIN t,
         NEW hits, CarriesField(t, o, n, hits)
  PROVE  ReadsAs(t, o, n, hits)
<1> DEFINE f == t[n]
           w == Written(t, o, n)
<1>0. IsField(f) BY FieldOfType
<1>1. WrittenAs(t, o, n, w) /\ CanPutAll(f, w) BY WrittenIs
<1>2. SentReads(f, w, Sent(t, o, n)) BY <1>0, <1>1, SentIs, Zenon DEF Sent
<1>3. n \in Plain(t) <=> f.many \/ f.kind # "message" BY Zenon DEF Plain
<1> HIDE DEF f, w
<1>4. CASE n \in DOMAIN o /\ f.many /\ w = o[n]
  <2>1. SentReads(f, o[n], hits)
    BY <1>2, <1>4, Zenon DEF CarriesField, f
  <2>2. DOMAIN hits = DOMAIN o[n] /\ \A i \in DOMAIN o[n] : PutReads(f, o[n][i], hits[i])
    BY <2>1, Zenon DEF SentReads
  <2>3. IsList(o[n]) BY <1>1, <1>4, Zenon DEF CanPutAll
  <2>4. Decoded(f, hits) = [i \in DOMAIN o[n] |-> Filled(f, o[n][i])]
    <3>1. Decoded(f, hits) = [i \in DOMAIN o[n] |-> Take(f, hits[i])]
      BY <1>4, <2>2, Zenon DEF Decoded
    <3>2. \A i \in DOMAIN o[n] : Take(f, hits[i]) = Filled(f, o[n][i])
      BY <2>2, Zenon DEF PutReads
    <3> QED BY <3>1, <3>2, Zenon
  <2>5. FilledAt(t, o, n) = [i \in DOMAIN o[n] |-> Filled(f, o[n][i])]
    BY <1>0, <1>4, <2>3, FillFieldIs, Zenon DEF FilledAt, f
  <2>6. (\E i \in DOMAIN hits : Throws(f, hits[i])) <=> UnsafeAt(t, o, n)
    BY <1>4, <2>2, Zenon DEF UnsafeAt, PutReads, f
  <2> QED BY <1>3, <1>4, <2>4, <2>5, <2>6, Zenon DEF ReadsAs, f
<1>5. CASE n \in DOMAIN o /\ ~f.many /\ w = <<o[n]>>
  <2>1. hits = Sent(t, o, n)
    <3>1. DOMAIN Sent(t, o, n) = {1} BY <1>2, <1>5, ListOfOne, Zenon DEF SentReads
    <3>2. Sent(t, o, n) # <<>> BY <3>1, ListOfNone
    <3> QED BY <3>2, Zenon DEF CarriesField
  <2>2. SentReads(f, <<o[n]>>, hits) BY <1>2, <1>5, <2>1, Zenon
  <2>3. /\ hits # <<>>
        /\ Decoded(f, hits) = Filled(f, o[n])
        /\ (\E i \in DOMAIN hits : Throws(f, hits[i])) <=> UnsafeValue(f, o[n])
    BY <1>0, <1>5, <2>2, OneReads
  <2>4. FilledAt(t, o, n) = Filled(f, o[n])
    BY <1>0, <1>5, FillFieldIs, Zenon DEF FilledAt, f
  <2>5. UnsafeAt(t, o, n) <=> UnsafeValue(f, o[n]) BY <1>5, Zenon DEF UnsafeAt, f
  <2> QED BY <1>5, <2>3, <2>4, <2>5, Zenon DEF ReadsAs, f
<1>6. CASE n \in DOMAIN o /\ ~f.many /\ f.kind # "message" /\ o[n] = Default(f) /\ w = <<>>
  <2>1. FilledAt(t, o, n) = Default(f)
    <3>1. FilledAt(t, o, n) = Filled(f, o[n])
      BY <1>0, <1>6, FillFieldIs, Zenon DEF FilledAt, f
    <3> QED BY <1>6, <3>1, Zenon DEF Filled
  <2>2. ~UnsafeAt(t, o, n)
    <3>1. ~UnsafeValue(f, Default(f)) BY <1>0, <1>6, DefaultSafe
    <3> QED BY <1>6, <3>1, Zenon DEF UnsafeAt, f
  <2>3. CASE hits = Sent(t, o, n)
    <3>1. SentReads(f, <<>>, hits) BY <1>2, <1>6, <2>3, Zenon
    <3>2. hits = <<>> /\ DOMAIN hits = {} /\ Decoded(f, hits) = Default(f)
      BY <1>6, <3>1, NoneReads
    <3> QED BY <1>3, <1>6, <2>1, <2>2, <3>2, Zenon DEF ReadsAs, f
  <2>4. CASE hits = SpelledOut(f)
    <3> DEFINE e == <<Tag(f), 0>>
    <3>1. Take(f, e) = Default(f) /\ ~Throws(f, e) BY <1>0, <1>6, SpelledOutReads
    <3> HIDE DEF e
    <3>2. hits = <<e>> BY <2>4, Zenon DEF SpelledOut, e
    <3>3. DOMAIN hits = {1} /\ hits[1] = e /\ Len(hits) = 1 BY <3>2
    <3>4. hits # <<>> BY <3>3, ListOfNone
    <3>5. Decoded(f, hits) = Default(f) BY <1>6, <3>1, <3>3, <3>4, Zenon DEF Decoded
    <3>6. ~\E i \in DOMAIN hits : Throws(f, hits[i]) BY <3>1, <3>3
    <3> QED BY <1>3, <1>6, <2>1, <2>2, <3>5, <3>6, Zenon DEF ReadsAs, f
  <2> QED BY <2>3, <2>4, Zenon DEF CarriesField, f
<1>7. CASE n \notin DOMAIN o /\ ~f.many /\ f.kind = "message" /\ w = <<>>
  <2>1. hits = Sent(t, o, n) BY <1>7, Zenon DEF CarriesField, f
  <2>2. SentReads(f, <<>>, hits) BY <1>2, <1>7, <2>1, Zenon
  <2>3. hits = <<>> /\ DOMAIN hits = {} BY <1>7, <2>2, NoneReads
  <2>4. ~UnsafeAt(t, o, n) BY <1>7, Zenon DEF UnsafeAt
  <2> QED BY <1>3, <1>7, <2>3, <2>4, Zenon DEF ReadsAs, f
<1>8. CASE n \notin DOMAIN o /\ ~f.many /\ f.kind \in {"int32", "bool"} /\ w = <<Default(f)>>
  <2>1. f.kind # "message" BY <1>8
  <2>2. hits = Sent(t, o, n)
    <3>1. DOMAIN Sent(t, o, n) = {1} BY <1>2, <1>8, ListOfOne, Zenon DEF SentReads
    <3>2. Sent(t, o, n) # <<>> BY <3>1, ListOfNone
    <3> QED BY <3>2, Zenon DEF CarriesField
  <2>3. SentReads(f, <<Default(f)>>, hits) BY <1>2, <1>8, <2>2, Zenon
  <2>4. /\ hits # <<>>
        /\ Decoded(f, hits) = Filled(f, Default(f))
        /\ (\E i \in DOMAIN hits : Throws(f, hits[i])) <=> UnsafeValue(f, Default(f))
    BY <1>0, <1>8, <2>3, OneReads
  <2>5. Filled(f, Default(f)) = Default(f) BY <2>1, Zenon DEF Filled
  <2>6. ~UnsafeValue(f, Default(f)) BY <1>0, <1>8, <2>1, DefaultSafe
  <2>7. FilledAt(t, o, n) = Default(f) BY <1>8, Zenon DEF FilledAt, f
  <2>8. ~UnsafeAt(t, o, n) BY <1>8, Zenon DEF UnsafeAt
  <2> QED BY <1>3, <2>1, <2>4, <2>5, <2>6, <2>7, <2>8, Zenon DEF ReadsAs, f
<1> QED BY <1>1, <1>4, <1>5, <1>6, <1>7, <1>8, Zenon DEF WrittenAs, f

\* Fields that carry an object are read as the object, filled in; reading throws exactly
\* when a long in the object is unsafe.
THEOREM CarriedReads ==
  ASSUME MaxSafe \in Nat, InnerFaithful,
         NEW t, IsType(t), NEW o, IsObject(t, o), ~Unwritable(t, o),
         NEW fields, Carries(t, o, fields)
  PROVE  /\ FlattenSeq(fields) \in Seq(Int)
         /\ Arriving(FlattenSeq(fields)) = fields
         /\ decode(t, FlattenSeq(fields)) = Fill(t, o)
         /\ Unreadable(t, FlattenSeq(fields)) <=> Unsafe(t, o)
<1> DEFINE words == FlattenSeq(fields)
<1>0. fields \in Seq(Frames) BY Zenon DEF Carries
<1>1. Arriving(words) = fields BY <1>0, ArrivingOf
<1>2. words \in Seq(Int)
  <2>1. fields \in Seq(Seq(Int)) BY <1>0 DEF Frames
  <2> QED BY <2>1, FlattenType
<1>3. \A n \in DOMAIN t : ReadsAs(t, o, n, Hits(t[n], fields))
  <2>1. \A n \in DOMAIN t : CarriesField(t, o, n, Hits(t[n], fields)) BY Zenon DEF Carries
  <2> QED BY <2>1, FieldReads
<1>4. DOMAIN o \subseteq DOMAIN t /\ Plain(t) \subseteq DOMAIN t BY Zenon DEF IsObject, Plain
<1> HIDE DEF words
<1>5. decode(t, words) = Fill(t, o)
  <2> DEFINE S == {k \in DOMAIN t : k \in Plain(t) \/ Hits(t[k], fields) # <<>>}
  <2>1. S = Plain(t) \cup DOMAIN o
    <3>1. \A k \in DOMAIN t :
            (k \in Plain(t) \/ Hits(t[k], fields) # <<>>) <=> k \in Plain(t) \cup DOMAIN o
      BY <1>3, Zenon DEF ReadsAs
    <3> QED BY <1>4, <3>1, Zenon
  <2>2. decode(t, words) = [n \in S |-> Decoded(t[n], Hits(t[n], fields))]
    BY <1>1, Zenon DEF decode, Decoded
  <2>3. Fill(t, o) = [n \in Plain(t) \cup DOMAIN o |-> FilledAt(t, o, n)]
    BY Zenon DEF Fill, FilledAt
  <2>4. \A n \in Plain(t) \cup DOMAIN o :
          Decoded(t[n], Hits(t[n], fields)) = FilledAt(t, o, n)
    BY <1>3, <1>4, Zenon DEF ReadsAs
  <2> HIDE DEF S
  <2> QED BY <2>1, <2>2, <2>3, <2>4, Zenon
<1>6. Unreadable(t, words) <=> Unsafe(t, o)
  <2>1. Unsafe(t, o) <=> \E n \in DOMAIN t : UnsafeAt(t, o, n)
    BY <1>4, Zenon DEF Unsafe, UnsafeAt
  <2>2. ASSUME NEW n \in DOMAIN t
        PROVE  (\E i \in DOMAIN fields : fields[i][1] = Tag(t[n]) /\ Throws(t[n], fields[i]))
                 <=> UnsafeAt(t, o, n)
    <3> DEFINE hits == Hits(t[n], fields)
    <3>1. Items(hits) = {e \in Items(fields) : e[1] = Tag(t[n])} BY <1>0, HitsItems
    <3>2. (\E i \in DOMAIN hits : Throws(t[n], hits[i])) <=> UnsafeAt(t, o, n)
      BY <1>3, Zenon DEF ReadsAs
    <3> HIDE DEF hits
    <3>3. (\E i \in DOMAIN hits : Throws(t[n], hits[i]))
            <=> \E e \in Items(hits) : Throws(t[n], e)
      BY Zenon DEF Items
    <3>4. (\E i \in DOMAIN fields : fields[i][1] = Tag(t[n]) /\ Throws(t[n], fields[i]))
            <=> \E e \in Items(fields) : e[1] = Tag(t[n]) /\ Throws(t[n], e)
      BY Zenon DEF Items
    <3>5. (\E e \in Items(hits) : Throws(t[n], e))
            <=> \E e \in Items(fields) : e[1] = Tag(t[n]) /\ Throws(t[n], e)
      BY <3>1, Zenon
    <3> QED BY <3>2, <3>3, <3>4, <3>5, Zenon
  <2>3. Unreadable(t, words)
          <=> \E n \in DOMAIN t : \E i \in DOMAIN fields :
                 fields[i][1] = Tag(t[n]) /\ Throws(t[n], fields[i])
    BY <1>1, Zenon DEF Unreadable, Throws
  <2> QED BY <2>1, <2>2, <2>3, Zenon
<1> QED BY <1>1, <1>2, <1>5, <1>6 DEF words

-----------------------------------------------------------------------------
(* An object, filled in.                                                   *)

JSONed(f, v) == IF f.kind = "message" THEN InnerToJSON(f.type, v) ELSE v

\* A value that is filled in is one that can be written, as safe as it was, and JSON gives
\* it back.
LEMMA FilledIs ==
  ASSUME InnerFaithful, NEW f, IsField(f), NEW v, IsValue(f, v)
  PROVE  /\ CanPut(f, Filled(f, v))
         /\ UnsafeValue(f, Filled(f, v)) <=> UnsafeValue(f, v)
         /\ Filled(f, JSONed(f, Filled(f, v))) = Filled(f, v)
<1>1. CASE f.kind = "message"
  <2> DEFINE x == InnerFill(f.type, v)
  <2>1. InnerType(f.type) /\ InnerObject(f.type, v) BY <1>1, Zenon DEF IsField, IsValue
  <2>2. /\ InnerObject(f.type, x) /\ ~InnerUnwritable(f.type, x)
        /\ InnerUnsafe(f.type, x) <=> InnerUnsafe(f.type, v)
        /\ InnerFill(f.type, InnerToJSON(f.type, x)) = x
    BY <2>1, Zenon DEF InnerFaithful
  <2>3. Filled(f, v) = x BY <1>1, Zenon DEF Filled
  <2>4. Filled(f, JSONed(f, x)) = x BY <1>1, <2>2, Zenon DEF Filled, JSONed
  <2>5. f.kind # "int64" /\ f.kind # "string" /\ f.kind # "bool"
        /\ f.kind \notin {"int32", "int64"}
    BY <1>1
  <2> HIDE DEF x
  <2>6. CanPut(f, x) BY <1>1, <2>2, <2>5, Zenon DEF CanPut, IsValue
  <2>7. UnsafeValue(f, x) <=> UnsafeValue(f, v)
    BY <1>1, <2>2, <2>5, Zenon DEF UnsafeValue
  <2> QED BY <2>3, <2>4, <2>6, <2>7, Zenon
<1>2. CASE f.kind # "message" BY <1>2, Zenon DEF Filled, JSONed, CanPut
<1> QED BY <1>1, <1>2

\* So is a field's list, or its only value.
CanPutField(f, v) == IF f.many THEN CanPutAll(f, v) ELSE CanPut(f, v)
UnsafeField(f, v) ==
  IF f.many THEN \E i \in DOMAIN v : UnsafeValue(f, v[i]) ELSE UnsafeValue(f, v)
IsFieldValue(f, v) ==
  IF f.many THEN IsList(v) /\ \A i \in DOMAIN v : IsValue(f, v[i]) ELSE IsValue(f, v)

\* What toJSON makes of a field, element by element.
LEMMA JSONFieldIs ==
  ASSUME NEW f, IsField(f), NEW v
  PROVE  /\ ~f.many => JSONField(f, v) = JSONed(f, v)
         /\ f.many /\ IsList(v) => JSONField(f, v) = [i \in DOMAIN v |-> JSONed(f, v[i])]
<1>1. ASSUME ~f.many PROVE JSONField(f, v) = JSONed(f, v)
  BY <1>1, Zenon DEF JSONField, JSONed
<1>2. ASSUME f.many, IsList(v) PROVE JSONField(f, v) = [i \in DOMAIN v |-> JSONed(f, v[i])]
  <2>1. CASE f.kind = "message" BY <1>2, <2>1, Zenon DEF JSONField, JSONed
  <2>2. CASE f.kind # "message"
    <3>1. v = [i \in DOMAIN v |-> v[i]] BY <1>2, ListIs
    <3>2. JSONField(f, v) = v BY <2>2, Zenon DEF JSONField
    <3>3. \A i \in DOMAIN v : JSONed(f, v[i]) = v[i] BY <2>2, Zenon DEF JSONed
    <3> QED BY <3>1, <3>2, <3>3, Zenon
  <2> QED BY <2>1, <2>2
<1> QED BY <1>1, <1>2

\* What is made of a list element by element is a list.
LEMMA ListMap ==
  ASSUME NEW v, IsList(v), NEW w, w = [i \in DOMAIN v |-> w[i]]
  PROVE  IsList(w)
<1>1. Len(v) \in Nat /\ DOMAIN v = 1 .. Len(v) BY ListIs
<1> DEFINE S == {w[i] : i \in DOMAIN w}
<1>2. w = [i \in 1 .. Len(v) |-> w[i]] BY <1>1, Zenon
<1>3. DOMAIN w = 1 .. Len(v) BY <1>2, Zenon
<1>4. \A i \in 1 .. Len(v) : w[i] \in S BY <1>3, Zenon
<1>5. w \in Seq(S)
  <2> HIDE DEF S
  <2> QED BY <1>1, <1>2, <1>4, SequenceIs
<1> QED BY <1>5, Zenon DEF IsList

\* A filled-in field can be put, is as safe as it was, and is what fromJSON makes of its
\* toJSON.
LEMMA FilledField ==
  ASSUME InnerFaithful, NEW f, IsField(f), NEW v, IsFieldValue(f, v)
  PROVE  /\ CanPutField(f, FillField(f, v))
         /\ UnsafeField(f, FillField(f, v)) <=> UnsafeField(f, v)
         /\ FillField(f, JSONField(f, FillField(f, v))) = FillField(f, v)
<1>1. CASE ~f.many
  <2>1. IsValue(f, v) BY <1>1, Zenon DEF IsFieldValue
  <2>2. FillField(f, v) = Filled(f, v) BY <1>1, FillFieldIs
  <2>3. FillField(f, JSONField(f, Filled(f, v))) = Filled(f, JSONed(f, Filled(f, v)))
    BY <1>1, FillFieldIs, JSONFieldIs
  <2>4. /\ CanPut(f, Filled(f, v))
        /\ UnsafeValue(f, Filled(f, v)) <=> UnsafeValue(f, v)
        /\ Filled(f, JSONed(f, Filled(f, v))) = Filled(f, v)
    BY <2>1, FilledIs
  <2> QED BY <1>1, <2>2, <2>3, <2>4, Zenon DEF CanPutField, UnsafeField
<1>2. CASE f.many
  <2>1. IsList(v) /\ \A i \in DOMAIN v : IsValue(f, v[i]) BY <1>2, Zenon DEF IsFieldValue
  <2> DEFINE w == [i \in DOMAIN v |-> Filled(f, v[i])]
             j == [i \in DOMAIN w |-> JSONed(f, w[i])]
  <2>2. FillField(f, v) = w BY <1>2, <2>1, FillFieldIs
  <2>3. \A i \in DOMAIN v :
          /\ CanPut(f, Filled(f, v[i]))
          /\ UnsafeValue(f, Filled(f, v[i])) <=> UnsafeValue(f, v[i])
          /\ Filled(f, JSONed(f, Filled(f, v[i]))) = Filled(f, v[i])
    BY <2>1, FilledIs
  <2>4. DOMAIN w = DOMAIN v /\ w = [i \in DOMAIN v |-> w[i]]
        /\ \A i \in DOMAIN v : w[i] = Filled(f, v[i])
    BY Zenon
  <2> HIDE DEF w
  <2>5. IsList(w) BY <2>1, <2>4, ListMap
  <2>6. DOMAIN j = DOMAIN v /\ j = [i \in DOMAIN w |-> j[i]]
        /\ \A i \in DOMAIN v : j[i] = JSONed(f, w[i])
    BY <2>4, Zenon
  <2>7. JSONField(f, w) = j BY <1>2, <2>5, JSONFieldIs
  <2> HIDE DEF j
  <2>8. IsList(j) BY <2>5, <2>6, ListMap
  <2>9. FillField(f, j) = [i \in DOMAIN j |-> Filled(f, j[i])] BY <1>2, <2>8, FillFieldIs
  <2>10. FillField(f, j) = w
    <3>1. \A i \in DOMAIN v : Filled(f, j[i]) = w[i] BY <2>3, <2>4, <2>6, Zenon
    <3> QED BY <2>4, <2>6, <2>9, <3>1, Zenon
  <2>11. CanPutAll(f, w) BY <2>3, <2>4, <2>5, Zenon DEF CanPutAll
  <2>12. (\E i \in DOMAIN w : UnsafeValue(f, w[i])) <=> \E i \in DOMAIN v : UnsafeValue(f, v[i])
    BY <2>3, <2>4, Zenon
  <2> QED BY <1>2, <2>2, <2>7, <2>10, <2>11, <2>12, Zenon DEF CanPutField, UnsafeField
<1> QED BY <1>1, <1>2

\* A field that the object gives is filled in, one that it does not give has its default.
LEMMA FilledAtIs ==
  ASSUME MaxSafe \in Nat, InnerFaithful, NEW t, IsType(t), NEW o, IsObject(t, o),
         NEW n \in Plain(t) \cup DOMAIN o
  PROVE  /\ n \in DOMAIN t /\ IsField(t[n])
         /\ CanPutField(t[n], FilledAt(t, o, n))
         /\ UnsafeField(t[n], FilledAt(t, o, n)) <=> UnsafeAt(t, o, n)
         /\ n \in DOMAIN o =>
              FillField(t[n], JSONField(t[n], FilledAt(t, o, n))) = FilledAt(t, o, n)
         /\ n \notin DOMAIN o => n \in Plain(t) /\ FilledAt(t, o, n) = Default(t[n])
<1> DEFINE f == t[n]
<1>1. n \in DOMAIN t BY Zenon DEF IsObject, Plain
<1>2. IsField(f) BY <1>1, FieldOfType
<1>3. CASE n \in DOMAIN o
  <2>1. IsFieldValue(f, o[n]) BY <1>3, Zenon DEF IsObject, IsFieldValue
  <2>2. FilledAt(t, o, n) = FillField(f, o[n]) BY <1>3, Zenon DEF FilledAt
  <2>3. UnsafeAt(t, o, n) <=> UnsafeField(f, o[n]) BY <1>3, Zenon DEF UnsafeAt, UnsafeField
  <2>4. /\ CanPutField(f, FillField(f, o[n]))
        /\ UnsafeField(f, FillField(f, o[n])) <=> UnsafeField(f, o[n])
        /\ FillField(f, JSONField(f, FillField(f, o[n]))) = FillField(f, o[n])
    BY <1>2, <2>1, FilledField
  <2> HIDE DEF f
  <2> QED BY <1>1, <1>2, <1>3, <2>2, <2>3, <2>4, Zenon DEF f
<1>4. CASE n \notin DOMAIN o
  <2>1. n \in Plain(t) BY <1>4
  <2>2. FilledAt(t, o, n) = Default(f) BY <1>4, Zenon DEF FilledAt
  <2>3. ~UnsafeAt(t, o, n) BY <1>4, Zenon DEF UnsafeAt
  <2>4. CanPutField(f, Default(f)) /\ ~UnsafeField(f, Default(f))
    <3>1. CASE f.many
      <4>0. f.kind # "bool" BY <1>2, <3>1 DEF IsField
      <4>1. Default(f) = <<>> BY <3>1, <4>0, Zenon DEF Default
      <4>2. CanPutAll(f, <<>>) /\ ~\E i \in DOMAIN <<>> : UnsafeValue(f, <<>>[i])
        BY ListOfNone, Zenon DEF CanPutAll
      <4> QED BY <3>1, <4>1, <4>2, Zenon DEF CanPutField, UnsafeField
    <3>2. CASE ~f.many
      <4>1. f.kind # "message" BY <2>1, <3>2, Zenon DEF Plain
      <4>2. CanPut(f, Default(f)) BY <1>2, <3>2, <4>1, DefaultIs
      <4>3. ~UnsafeValue(f, Default(f)) BY <1>2, <3>2, <4>1, DefaultSafe
      <4> QED BY <3>2, <4>2, <4>3, Zenon DEF CanPutField, UnsafeField
    <3> QED BY <3>1, <3>2
  <2> HIDE DEF f
  <2> QED BY <1>1, <1>2, <1>4, <2>1, <2>2, <2>3, <2>4, Zenon DEF f
<1> QED BY <1>3, <1>4

\* An object that is filled in is one of its type that can be written, as safe as it was.
LEMMA FillIs ==
  ASSUME MaxSafe \in Nat, InnerFaithful, NEW t, IsType(t), NEW o, IsObject(t, o)
  PROVE  /\ IsObject(t, Fill(t, o))
         /\ ~Unwritable(t, Fill(t, o))
         /\ Unsafe(t, Fill(t, o)) <=> Unsafe(t, o)
         /\ Fill(t, toJSON(t, Fill(t, o))) = Fill(t, o)
<1> DEFINE D == Plain(t) \cup DOMAIN o
           m == Fill(t, o)
           x(n) == FilledAt(t, o, n)
<1>1. DOMAIN m = D /\ (\A n \in D : m[n] = x(n)) /\ m = [n \in D |-> x(n)]
  BY Zenon DEF Fill, FilledAt
<1>2. \A n \in D :
         /\ n \in DOMAIN t /\ IsField(t[n])
         /\ CanPutField(t[n], x(n))
         /\ UnsafeField(t[n], x(n)) <=> UnsafeAt(t, o, n)
         /\ n \in DOMAIN o => FillField(t[n], JSONField(t[n], x(n))) = x(n)
         /\ n \notin DOMAIN o => n \in Plain(t) /\ x(n) = Default(t[n])
  BY FilledAtIs
<1>3. \A n \in DOMAIN o : n \in D BY Zenon
<1>4. \A n \in DOMAIN t : n \notin D => ~t[n].many /\ t[n].kind = "message" BY Zenon DEF Plain
<1>5. \A n \in DOMAIN o : n \in DOMAIN t BY Zenon DEF IsObject
<1>6. Plain(t) \subseteq D BY Zenon
<1> HIDE DEF D, m, x
<1>7. IsObject(t, m)
  <2>1. DOMAIN m \subseteq DOMAIN t BY <1>1, <1>2, Zenon
  <2>2. ASSUME NEW n \in D
        PROVE  IF t[n].many THEN IsList(m[n]) /\ \A i \in DOMAIN m[n] : IsValue(t[n], m[n][i])
                            ELSE IsValue(t[n], m[n])
    <3>1. m[n] = x(n) /\ CanPutField(t[n], x(n)) BY <1>1, <1>2, Zenon
    <3> QED BY <3>1, Zenon DEF CanPutField, CanPutAll, CanPut
  <2> QED BY <1>1, <2>1, <2>2, Zenon DEF IsObject
<1>8. ~Unwritable(t, m)
  <2> SUFFICES ASSUME NEW n \in DOMAIN t
               PROVE  ~IF n \in DOMAIN m
                       THEN /\ t[n].kind = "message"
                            /\ IF t[n].many
                               THEN \E i \in DOMAIN m[n] : InnerUnwritable(t[n].type, m[n][i])
                               ELSE InnerUnwritable(t[n].type, m[n])
                       ELSE t[n].many \/ t[n].kind \in {"string", "int64"}
    BY Zenon DEF Unwritable
  <2>1. CASE n \in D
    <3>1. m[n] = x(n) /\ CanPutField(t[n], x(n)) BY <1>1, <1>2, <2>1, Zenon
    <3> QED BY <1>1, <2>1, <3>1, Zenon DEF CanPutField, CanPutAll, CanPut
  <2>2. CASE n \notin D
    <3>1. ~t[n].many /\ t[n].kind = "message" BY <1>4, <2>2, Zenon
    <3>2. t[n].kind \notin {"string", "int64"} BY <3>1
    <3> QED BY <1>1, <2>2, <3>1, <3>2, Zenon
  <2> QED BY <2>1, <2>2
<1>9. Unsafe(t, m) <=> Unsafe(t, o)
  <2>1. Unsafe(t, m) <=> \E n \in D : UnsafeField(t[n], x(n))
    BY <1>1, Zenon DEF Unsafe, UnsafeField
  <2>2. Unsafe(t, o) <=> \E n \in DOMAIN o : UnsafeAt(t, o, n)
    BY Zenon DEF Unsafe, UnsafeAt
  <2>3. \A n \in D : UnsafeAt(t, o, n) => n \in DOMAIN o BY Zenon DEF UnsafeAt
  <2> QED BY <1>2, <1>3, <2>1, <2>2, <2>3, Zenon
<1>10. Fill(t, toJSON(t, m)) = m
  <2> DEFINE j == toJSON(t, m)
             J == {k \in D : k \in Plain(t) => m[k] # Default(t[k])}
  <2>1. DOMAIN j = J /\ \A n \in J : j[n] = JSONField(t[n], m[n])
    BY <1>1, Zenon DEF toJSON
  <2>2. Fill(t, j) = [n \in Plain(t) \cup DOMAIN j |-> FilledAt(t, j, n)]
    BY Zenon DEF Fill, FilledAt
  <2> HIDE DEF j
  <2>3. Plain(t) \cup DOMAIN j = D
    <3>1. \A n \in D : n \in Plain(t) \/ n \in J BY Zenon
    <3>2. \A n \in J : n \in D BY Zenon
    <3> HIDE DEF J
    <3> QED BY <1>6, <2>1, <3>1, <3>2, Zenon
  <2>4. ASSUME NEW n \in D PROVE FilledAt(t, j, n) = x(n)
    <3>1. CASE n \in J
      <4>1. n \in DOMAIN o
        <5>1. SUFFICES ASSUME n \notin DOMAIN o PROVE FALSE OBVIOUS
        <5>2. n \in Plain(t) /\ x(n) = Default(t[n]) BY <1>2, <5>1, Zenon
        <5> QED BY <1>1, <3>1, <5>2, Zenon
      <4>2. j[n] = JSONField(t[n], x(n)) BY <1>1, <2>1, <3>1, Zenon
      <4>3. FilledAt(t, j, n) = FillField(t[n], j[n])
        <5> HIDE DEF J
        <5> QED BY <2>1, <3>1, Zenon DEF FilledAt
      <4> HIDE DEF J
      <4> QED BY <1>2, <4>1, <4>2, <4>3, Zenon
    <3>2. CASE n \notin J
      <4>1. m[n] = Default(t[n]) BY <3>2, Zenon
      <4>2. FilledAt(t, j, n) = Default(t[n])
        <5> HIDE DEF J
        <5> QED BY <2>1, <3>2, Zenon DEF FilledAt
      <4> HIDE DEF J
      <4> QED BY <1>1, <4>1, <4>2, Zenon
    <3> QED BY <3>1, <3>2
  <2> HIDE DEF J
  <2> QED BY <1>1, <2>2, <2>3, <2>4, Zenon DEF j
<1> QED BY <1>7, <1>8, <1>9, <1>10, Zenon DEF m

-----------------------------------------------------------------------------
(* The promise of a level.                                                 *)

\* If the code of the inner types reads what it writes, so does the code of a type that
\* holds them: for every table of fields and every object, what encode writes decodes to
\* the object filled in, throws exactly for an unsafe long, and survives JSON.
THEOREM Level ==
  ASSUME MaxSafe \in Nat, InnerFaithful
  PROVE  Faithful
<1> SUFFICES ASSUME NEW t, NEW o, IsType(t), IsObject(t, o)
             PROVE  /\ IsObject(t, Fill(t, o))
                    /\ Fill(t, toJSON(t, Fill(t, o))) = Fill(t, o)
                    /\ ~Unwritable(t, Fill(t, o))
                    /\ Unsafe(t, Fill(t, o)) <=> Unsafe(t, o)
                    /\ ~Unwritable(t, o) =>
                         /\ encode(t, o) \in Seq(Int)
                         /\ decode(t, encode(t, o)) = Fill(t, o)
                         /\ Unreadable(t, encode(t, o)) <=> Unsafe(t, o)
  BY Zenon DEF Faithful
<1>1. /\ IsObject(t, Fill(t, o))
      /\ ~Unwritable(t, Fill(t, o))
      /\ Unsafe(t, Fill(t, o)) <=> Unsafe(t, o)
      /\ Fill(t, toJSON(t, Fill(t, o))) = Fill(t, o)
  BY FillIs
<1>2. ASSUME ~Unwritable(t, o)
      PROVE  /\ encode(t, o) \in Seq(Int)
             /\ decode(t, encode(t, o)) = Fill(t, o)
             /\ Unreadable(t, encode(t, o)) <=> Unsafe(t, o)
  <2>1. Carries(t, o, Fields(t, o)) BY <1>2, EncodeCarries
  <2>2. encode(t, o) = FlattenSeq(Fields(t, o)) BY Zenon DEF encode, Fields, Parts
  <2> QED BY <1>2, <2>1, <2>2, CarriedReads
<1> QED BY <1>1, <1>2, Zenon

-----------------------------------------------------------------------------
(* The liberties of another library.                                       *)

\* A sequence is its first elements and the others.
LEMMA Split ==
  ASSUME NEW S, NEW s \in Seq(S), NEW i \in 0 .. Len(s)
  PROVE  /\ SubSeq(s, 1, i) \in Seq(S) /\ SubSeq(s, i + 1, Len(s)) \in Seq(S)
         /\ s = SubSeq(s, 1, i) \o SubSeq(s, i + 1, Len(s))
<1> DEFINE a == SubSeq(s, 1, i)
           b == SubSeq(s, i + 1, Len(s))
<1>0. Len(s) \in Nat /\ i \in Nat /\ i <= Len(s) OBVIOUS
<1>1. a \in Seq(S) /\ Len(a) = i /\ \A k \in 1 .. i : a[k] = s[k] BY <1>0
<1>2. b \in Seq(S) /\ Len(b) = Len(s) - i /\ \A k \in 1 .. Len(s) - i : b[k] = s[i + k]
  BY <1>0
<1> DEFINE c == a \o b
<1>3. c \in Seq(S) /\ Concatenates(c, a, b) BY <1>1, <1>2, ConcatIs
<1> HIDE DEF a, b, c
<1>4. Len(c) = Len(s) BY <1>0, <1>1, <1>2, <1>3 DEF Concatenates
<1>5. ASSUME NEW k \in 1 .. Len(c) PROVE c[k] = s[k]
  <2>1. k \in 1 .. Len(a) + Len(b) BY <1>0, <1>1, <1>2, <1>4
  <2>2. c[k] = IF k <= Len(a) THEN a[k] ELSE b[k - Len(a)]
    BY <1>3, <2>1 DEF Concatenates
  <2>3. CASE k <= Len(a)
    <3>1. k \in 1 .. i BY <1>1, <2>3
    <3> QED BY <1>1, <2>2, <2>3, <3>1
  <2>4. CASE ~(k <= Len(a))
    <3>1. k - i \in 1 .. Len(s) - i /\ i + (k - i) = k BY <1>0, <1>1, <1>4, <2>4
    <3>2. b[k - i] = s[k] BY <1>2, <3>1
    <3> QED BY <1>1, <2>2, <2>4, <3>2
  <2> QED BY <2>3, <2>4
<1>6. c = s BY <1>3, <1>4, <1>5, SeqEqual
<1> QED BY <1>1, <1>2, <1>6 DEF a, b, c

\* Two fields of different tags in either order are the same fields of each tag.
LEMMA HitsOfPair ==
  ASSUME NEW S, NEW x \in S, NEW y \in S, x[1] # y[1], NEW f
  PROVE  Hits(f, <<x>> \o <<y>>) = Hits(f, <<y>> \o <<x>>)
<1>1. <<x>> \in Seq(S) /\ <<y>> \in Seq(S) OBVIOUS
<1>2. Hits(f, <<x>> \o <<y>>) = Hits(f, <<x>>) \o Hits(f, <<y>>) BY <1>1, HitsConcat
<1>3. Hits(f, <<y>> \o <<x>>) = Hits(f, <<y>>) \o Hits(f, <<x>>) BY <1>1, HitsConcat
<1>4. Hits(f, <<x>>) \in Seq(S) /\ Hits(f, <<y>>) \in Seq(S) BY <1>1, HitsType
<1>5. Hits(f, <<x>>) = <<>> \/ Hits(f, <<y>>) = <<>>
  <2>1. CASE x[1] # Tag(f) BY <2>1, HitsSingle
  <2>2. CASE y[1] # Tag(f) BY <2>2, HitsSingle
  <2> QED BY <2>1, <2>2
<1>6. \A a \in Seq(S) : a \o <<>> = <<>> \o a OBVIOUS
<1> QED BY <1>2, <1>3, <1>4, <1>5, <1>6, Zenon

\* So they are between others.
Swapped(s, i) == [s EXCEPT ![i] = s[i + 1], ![i + 1] = s[i]]

\* Two fields of different tags that change places leave those of every tag as they were.
LEMMA SwapHits ==
  ASSUME NEW S, NEW s \in Seq(S), NEW i \in 1 .. Len(s) - 1, s[i][1] # s[i + 1][1], NEW f
  PROVE  Swapped(s, i) \in Seq(S) /\ Hits(f, Swapped(s, i)) = Hits(f, s)
<1> DEFINE a == SubSeq(s, 1, i - 1)
           b == SubSeq(s, i + 2, Len(s))
           x == s[i]
           y == s[i + 1]
           one == <<x>> \o <<y>>
           two == <<y>> \o <<x>>
<1>0. Len(s) \in Nat /\ i \in Nat /\ i >= 1 /\ i + 1 <= Len(s)
      /\ i \in 1 .. Len(s) /\ i + 1 \in 1 .. Len(s)
  OBVIOUS
<1>1. x \in S /\ y \in S BY <1>0, ElementOfSeq
<1>2. a \in Seq(S) /\ Len(a) = i - 1 /\ (\A k \in 1 .. i - 1 : a[k] = s[k]) BY <1>0
<1>3. b \in Seq(S) /\ Len(b) = Len(s) - (i + 1)
      /\ (\A k \in 1 .. Len(s) - (i + 1) : b[k] = s[i + 1 + k])
  BY <1>0
<1>4. /\ one \in Seq(S) /\ Len(one) = 2 /\ one[1] = x /\ one[2] = y
      /\ two \in Seq(S) /\ Len(two) = 2 /\ two[1] = y /\ two[2] = x
  BY <1>1
<1>5. Hits(f, one) = Hits(f, two) BY <1>1, HitsOfPair
<1> DEFINE w == Swapped(s, i)
<1>6. w \in Seq(S) /\ Len(w) = Len(s) /\ w[i] = y /\ w[i + 1] = x
      /\ \A k \in 1 .. Len(s) : k # i /\ k # i + 1 => w[k] = s[k]
  BY <1>0, <1>1 DEF Swapped
<1> HIDE DEF a, b, x, y, one, two, w
<1>7. ASSUME NEW u \in Seq(S), NEW p \in Seq(S), Len(u) = Len(s), Len(p) = 2,
             u[i] = p[1], u[i + 1] = p[2],
             \A k \in 1 .. Len(s) : k # i /\ k # i + 1 => u[k] = s[k]
      PROVE  u = (a \o p) \o b
  <2> DEFINE ap == a \o p
             c == ap \o b
  <2>1. ap \in Seq(S) /\ Concatenates(ap, a, p) BY <1>2, <1>7, ConcatIs
  <2>2. c \in Seq(S) /\ Concatenates(c, ap, b) BY <1>3, <2>1, ConcatIs
  <2> HIDE DEF ap, c
  <2>3. Len(ap) = i + 1 BY <1>0, <1>2, <1>7, <2>1 DEF Concatenates
  <2>4. Len(c) = Len(s) BY <1>0, <1>3, <2>2, <2>3 DEF Concatenates
  <2>5. ASSUME NEW k \in 1 .. Len(u) PROVE u[k] = c[k]
    <3>0. k \in Nat /\ k \in 1 .. Len(s) BY <1>0, <1>7
    <3>1. CASE k < i
      <4>1. k \in 1 .. i - 1 /\ k <= i + 1 /\ k <= i - 1 /\ k # i /\ k # i + 1
            /\ k \in 1 .. Len(a) + Len(p) /\ k \in 1 .. Len(ap) + Len(b)
        BY <1>0, <1>2, <1>3, <1>7, <2>3, <3>0, <3>1
      <4>2. c[k] = ap[k] BY <2>2, <2>3, <4>1, Zenon DEF Concatenates
      <4>3. ap[k] = a[k] BY <1>2, <2>1, <4>1, Zenon DEF Concatenates
      <4> QED BY <1>2, <1>7, <3>0, <4>1, <4>2, <4>3, Zenon
    <3>2. CASE k = i \/ k = i + 1
      <4>1. k <= i + 1 /\ ~(k <= i - 1) /\ k - (i - 1) = (IF k = i THEN 1 ELSE 2)
            /\ k \in 1 .. Len(a) + Len(p) /\ k \in 1 .. Len(ap) + Len(b)
        BY <1>0, <1>2, <1>3, <1>7, <2>3, <3>0, <3>2
      <4>2. c[k] = ap[k] BY <2>2, <2>3, <4>1, Zenon DEF Concatenates
      <4>3. ap[k] = p[k - (i - 1)] BY <1>2, <2>1, <4>1, Zenon DEF Concatenates
      <4>4. i # i + 1 BY <1>0
      <4> QED BY <1>7, <3>2, <4>1, <4>2, <4>3, <4>4, Zenon
    <3>3. CASE k > i + 1
      <4>1. ~(k <= i + 1) /\ k # i /\ k # i + 1 /\ k \in 1 .. Len(ap) + Len(b)
            /\ k - (i + 1) \in 1 .. Len(s) - (i + 1) /\ i + 1 + (k - (i + 1)) = k
        BY <1>0, <1>3, <2>3, <3>0, <3>3
      <4>2. c[k] = b[k - (i + 1)] BY <2>2, <2>3, <4>1, Zenon DEF Concatenates
      <4>3. b[k - (i + 1)] = s[k] BY <1>3, <4>1, Zenon
      <4> QED BY <1>7, <3>0, <4>1, <4>2, <4>3, Zenon
    <3> QED BY <1>0, <3>0, <3>1, <3>2, <3>3
  <2>6. u = c BY <1>7, <2>2, <2>4, <2>5, SeqEqual
  <2> QED BY <2>6 DEF c, ap
<1>8. s = (a \o one) \o b
  <2>1. s[i] = one[1] /\ s[i + 1] = one[2] BY <1>4 DEF x, y
  <2> QED BY <1>4, <1>7, <2>1
<1>9. w = (a \o two) \o b BY <1>4, <1>6, <1>7
<1>10. \A p \in Seq(S) : Hits(f, (a \o p) \o b) = (Hits(f, a) \o Hits(f, p)) \o Hits(f, b)
  <2> SUFFICES ASSUME NEW p \in Seq(S)
               PROVE  Hits(f, (a \o p) \o b) = (Hits(f, a) \o Hits(f, p)) \o Hits(f, b)
    OBVIOUS
  <2> DEFINE ap == a \o p
  <2>1. ap \in Seq(S) BY <1>2
  <2>2. Hits(f, ap) = Hits(f, a) \o Hits(f, p) BY <1>2, HitsConcat
  <2> HIDE DEF ap
  <2>3. Hits(f, ap \o b) = Hits(f, ap) \o Hits(f, b) BY <1>3, <2>1, HitsConcat
  <2> QED BY <2>2, <2>3, Zenon DEF ap
<1>11. Hits(f, w) = Hits(f, s) BY <1>4, <1>5, <1>8, <1>9, <1>10, Zenon
<1> QED BY <1>6, <1>11, Zenon DEF w

\* Fields in another order carry the same.
LEMMA SwapCarries ==
  ASSUME NEW t, NEW o, NEW fields, Carries(t, o, fields),
         NEW i \in 1 .. Len(fields) - 1, fields[i][1] # fields[i + 1][1]
  PROVE  Carries(t, o, Swapped(fields, i))
<1>1. fields \in Seq(Frames) BY Zenon DEF Carries
<1>2. \A f : /\ Swapped(fields, i) \in Seq(Frames)
             /\ Hits(f, Swapped(fields, i)) = Hits(f, fields)
  BY <1>1, SwapHits
<1> QED BY <1>2, Zenon DEF Carries

\* So they do with a default spelled out that they have not.
LEMMA SpelledOutCarries ==
  ASSUME NEW t, IsType(t), NEW o, NEW fields, Carries(t, o, fields),
         NEW n \in Plain(t), ~t[n].many, Hits(t[n], fields) = <<>>
  PROVE  Carries(t, o, fields \o SpelledOut(t[n]))
<1> DEFINE f == t[n]
           e == <<Tag(f), 0>>
           more == fields \o <<e>>
<1>0. n \in DOMAIN t /\ f.kind # "message" BY Zenon DEF Plain
<1>1. IsField(f) BY <1>0, FieldOfType
<1>2. fields \in Seq(Frames) BY Zenon DEF Carries
<1>3. Tag(f) \in Int /\ Tag(f) # 0 /\ Tag(f) % 8 # 4 BY <1>1, TagReads DEF IsField
<1>4. e \in Frames /\ e[1] = Tag(f)
  <2>1. e \in Seq(Int) /\ Len(e) = 2 /\ e[1] = Tag(f) /\ e[2] = 0 BY <1>3
  <2> HIDE DEF e
  <2>2. Frame(e) BY <1>3, <2>1 DEF Frame
  <2> QED BY <2>1, <2>2 DEF Frames
<1> HIDE DEF e
<1>5. <<e>> \in Seq(Frames) /\ more \in Seq(Frames) BY <1>2, <1>4
<1>6. ASSUME NEW m \in DOMAIN t PROVE CarriesField(t, o, m, Hits(t[m], more))
  <2>1. Hits(t[m], more) = Hits(t[m], fields) \o Hits(t[m], <<e>>)
    BY <1>2, <1>5, HitsConcat
  <2>2. Hits(t[m], <<e>>) = IF e[1] = Tag(t[m]) THEN <<e>> ELSE <<>> BY <1>4, HitsSingle
  <2>3. CarriesField(t, o, m, Hits(t[m], fields)) BY Zenon DEF Carries
  <2>4. Hits(t[m], fields) \in Seq(Frames) BY <1>2, HitsType
  <2>5. CASE m = n
    <3>1. Hits(t[m], more) = <<e>>
      <4>1. <<>> \o <<e>> = <<e>> OBVIOUS
      <4> QED BY <1>4, <2>1, <2>2, <2>5, <4>1, Zenon DEF f
    <3>2. SpelledOut(f) # <<>> /\ SpelledOut(f) = <<e>>
      <4>1. SpelledOut(f) = <<e>> BY Zenon DEF SpelledOut, e
      <4>2. <<e>> # <<>> OBVIOUS
      <4> QED BY <4>1, <4>2, Zenon
    <3>3. Sent(t, o, n) = <<>> BY <2>3, <2>5, <3>2, Zenon DEF CarriesField, f
    <3> QED BY <1>0, <2>5, <3>1, <3>2, <3>3, Zenon DEF CarriesField, f
  <2>6. CASE m # n
    <3>1. t[m].number # f.number BY <1>0, <2>6, Zenon DEF IsType
    <3>2. t[m].number \in Numbers /\ f.number \in Numbers
      BY <1>0, Zenon DEF IsType
    <3>3. Tag(f) # Tag(t[m]) BY <3>1, <3>2, TagsDiffer
    <3>4. Hits(t[m], fields) \o <<>> = Hits(t[m], fields) BY <2>4
    <3> QED BY <1>4, <2>1, <2>2, <2>3, <3>3, <3>4, Zenon
  <2> QED BY <2>5, <2>6
<1>7. SpelledOut(f) = <<e>> BY Zenon DEF SpelledOut, e
<1> HIDE DEF f
<1> QED BY <1>5, <1>6, <1>7, Zenon DEF Carries, f

\* So they do with a field among them that the type does not have.
LEMMA NewFieldCarries ==
  ASSUME NEW t, IsType(t), NEW o, NEW fields, Carries(t, o, fields),
         NEW i \in 1 .. Len(fields) + 1,
         NEW e \in {<<8 * NewField, 1>>, <<8 * NewField + 2, 2, 10, 0>>}
  PROVE  Carries(t, o, InsertAt(fields, i, e))
<1> DEFINE a == SubSeq(fields, 1, i - 1)
           b == SubSeq(fields, i, Len(fields))
           more == InsertAt(fields, i, e)
<1>1. fields \in Seq(Frames) /\ Len(fields) \in Nat BY DEF Carries
<1>2. e \in Frames /\ e[1] \in {120, 122}
  <2>1. CASE e = <<8 * NewField, 1>>
    <3>1. e \in Seq(Int) /\ Len(e) = 2 /\ e[1] = 120 /\ e[2] = 1 BY <2>1 DEF NewField
    <3>2. Frame(e) BY <3>1 DEF Frame
    <3> QED BY <3>1, <3>2 DEF Frames
  <2>2. CASE e = <<8 * NewField + 2, 2, 10, 0>>
    <3>1. e \in Seq(Int) /\ Len(e) = 4 /\ e[1] = 122 /\ e[2] = 2 BY <2>2 DEF NewField
    <3>2. Frame(e) BY <3>1 DEF Frame
    <3> QED BY <3>1, <3>2 DEF Frames
  <2> QED BY <2>1, <2>2
<1>3. /\ a \in Seq(Frames) /\ b \in Seq(Frames)
      /\ fields = a \o b
  <2>1. i - 1 \in 0 .. Len(fields) /\ (i - 1) + 1 = i BY <1>1
  <2> QED BY <1>1, <2>1, Split
<1>4. <<e>> \in Seq(Frames) BY <1>2
<1> DEFINE ae == a \o <<e>>
<1>5. more = ae \o b BY Zenon DEF InsertAt
<1> HIDE DEF a, b, more
<1>6. ae \in Seq(Frames) /\ more = ae \o b BY <1>3, <1>4, <1>5
<1>7. more \in Seq(Frames)
  <2> HIDE DEF ae, more
  <2> QED BY <1>3, <1>6
<1>8. ASSUME NEW n \in DOMAIN t PROVE Hits(t[n], more) = Hits(t[n], fields)
  <2>1. Hits(t[n], <<e>>) = <<>>
    <3>1. t[n].number \in Numbers BY Zenon DEF IsType
    <3>2. t[n].number \in 1 .. 6 BY <3>1 DEF Numbers
    <3>3. Tag(t[n]) # 120 /\ Tag(t[n]) # 122
      <4>1. CASE Delimited(t[n])
        <5>1. Tag(t[n]) = 8 * t[n].number + 2 BY <4>1, Zenon DEF Tag
        <5> QED BY <3>2, <5>1
      <4>2. CASE ~Delimited(t[n])
        <5>1. Tag(t[n]) = 8 * t[n].number + 0 BY <4>2, Zenon DEF Tag
        <5> QED BY <3>2, <5>1
      <4> QED BY <4>1, <4>2
    <3>4. e[1] # Tag(t[n]) BY <1>2, <3>3
    <3> QED BY <1>2, <3>4, HitsSingle
  <2>2. Hits(t[n], ae) = Hits(t[n], a) \o Hits(t[n], <<e>>) BY <1>3, <1>4, HitsConcat
  <2>3. Hits(t[n], a) \in Seq(Frames) BY <1>3, HitsType
  <2>4. Hits(t[n], a) \o <<>> = Hits(t[n], a) BY <2>3
  <2> HIDE DEF ae, more
  <2>5. Hits(t[n], ae \o b) = Hits(t[n], ae) \o Hits(t[n], b) BY <1>3, <1>6, HitsConcat
  <2>6. Hits(t[n], a \o b) = Hits(t[n], a) \o Hits(t[n], b) BY <1>3, HitsConcat
  <2> QED BY <1>3, <1>6, <2>1, <2>2, <2>4, <2>5, <2>6, Zenon
<1> HIDE DEF more
<1>9. \A n \in DOMAIN t : CarriesField(t, o, n, Hits(t[n], fields)) BY Zenon DEF Carries
<1> QED BY <1>7, <1>8, <1>9, Zenon DEF Carries, more
=============================================================================
