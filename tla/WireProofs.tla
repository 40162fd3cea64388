----------------------------- MODULE WireProofs -----------------------------
(***************************************************************************)
(* Whatever a program of the demo sends or is sent is read as it was meant *)
(* (ReadAsMeant), and a response that cannot be read is one that holds an  *)
(* unsafe long (UnreadableIsUnsafe).                                       *)
(*                                                                         *)
(* MessageProofs shows of one level of the generated code that it keeps    *)
(* its promise when the level below it does.  Here the levels of module    *)
(* Wire are put on top of each other, and the types of demo.proto are      *)
(* shown to be types of theirs.  The inductive invariant says that what    *)
(* travels are fields that carry the writer's object: they are when encode *)
(* wrote them, and stay so whatever liberties a library takes.             *)
(***************************************************************************)
EXTENDS Wire, TLAPS

\* What is proved of the code of each level.
FlatProofs == INSTANCE MessageProofs WITH
    InnerType <- LAMBDA t : FALSE, InnerObject <- Never,
    InnerFill <- Nothing, InnerToJSON <- Nothing,
    InnerUnwritable <- Never, InnerEncode <- Nothing,
    InnerUnreadable <- Never, InnerDecode <- Nothing, InnerUnsafe <- Never
NestedProofs == INSTANCE MessageProofs WITH
    InnerType <- Flat!IsType, InnerObject <- Flat!IsObject,
    InnerFill <- Flat!Fill, InnerToJSON <- Flat!toJSON,
    InnerUnwritable <- Flat!Unwritable, InnerEncode <- Flat!encode,
    InnerUnreadable <- Flat!Unreadable, InnerDecode <- Flat!decode,
    InnerUnsafe <- Flat!Unsafe
DeepProofs == INSTANCE MessageProofs WITH
    InnerType <- Nested!IsType, InnerObject <- Nested!IsObject,
    InnerFill <- Nested!Fill, InnerToJSON <- Nested!toJSON,
    InnerUnwritable <- Nested!Unwritable, InnerEncode <- Nested!encode,
    InnerUnreadable <- Nested!Unreadable, InnerDecode <- Nested!decode,
    InnerUnsafe <- Nested!Unsafe
TopProofs == INSTANCE MessageProofs WITH
    InnerType <- Deep!IsType, InnerObject <- Deep!IsObject,
    InnerFill <- Deep!Fill, InnerToJSON <- Deep!toJSON,
    InnerUnwritable <- Deep!Unwritable, InnerEncode <- Deep!encode,
    InnerUnreadable <- Deep!Unreadable, InnerDecode <- Deep!decode,
    InnerUnsafe <- Deep!Unsafe

-----------------------------------------------------------------------------
(* The operators of those instances are those of Wire's.                   *)

\* FlatProofs is about the generated code that is Flat's.
LEMMA SameFlat ==
  /\ \A t : FlatProofs!IsType(t) <=> Flat!IsType(t)
  /\ \A t, o : FlatProofs!IsObject(t, o) <=> Flat!IsObject(t, o)
  /\ \A t, o : FlatProofs!Fill(t, o) = Flat!Fill(t, o)
  /\ \A t, o : FlatProofs!toJSON(t, o) = Flat!toJSON(t, o)
  /\ \A t, o : FlatProofs!Unwritable(t, o) <=> Flat!Unwritable(t, o)
  /\ \A t, o : FlatProofs!Unsafe(t, o) <=> Flat!Unsafe(t, o)
  /\ \A t, o : FlatProofs!encode(t, o) = Flat!encode(t, o)
  /\ \A t, w : FlatProofs!decode(t, w) = Flat!decode(t, w)
  /\ \A t, w : FlatProofs!Unreadable(t, w) <=> Flat!Unreadable(t, w)
<1>1. \A t : FlatProofs!IsType(t) <=> Flat!IsType(t)
  BY Zenon DEF FlatProofs!IsType, Flat!IsType, FlatProofs!Numbers, Flat!Numbers,
         FlatProofs!Kinds, Flat!Kinds
<1>2. \A t, o : FlatProofs!IsObject(t, o) <=> Flat!IsObject(t, o)
  BY Zenon DEF FlatProofs!IsObject, Flat!IsObject, FlatProofs!IsList, Flat!IsList,
         FlatProofs!IsValue, Flat!IsValue
<1>3. \A t : FlatProofs!Plain(t) = Flat!Plain(t)
  BY Zenon DEF FlatProofs!Plain, Flat!Plain
<1>4. \A f : FlatProofs!Default(f) = Flat!Default(f) /\ FlatProofs!Tag(f) = Flat!Tag(f)
  BY Zenon DEF FlatProofs!Default, Flat!Default, FlatProofs!Tag, Flat!Tag,
         FlatProofs!Delimited, Flat!Delimited
<1>5. \A t, o : FlatProofs!Fill(t, o) = Flat!Fill(t, o)
  BY Zenon DEF FlatProofs!Fill, Flat!Fill, FlatProofs!FillField, Flat!FillField,
         FlatProofs!Plain, Flat!Plain, FlatProofs!Default, Flat!Default
<1>6. \A t, o : FlatProofs!toJSON(t, o) = Flat!toJSON(t, o)
  BY Zenon DEF FlatProofs!toJSON, Flat!toJSON, FlatProofs!JSONField, Flat!JSONField,
         FlatProofs!Plain, Flat!Plain, FlatProofs!Default, Flat!Default
<1>7. \A t, o : FlatProofs!Unwritable(t, o) <=> Flat!Unwritable(t, o)
  BY Zenon DEF FlatProofs!Unwritable, Flat!Unwritable
<1>8. \A t, o : FlatProofs!Unsafe(t, o) <=> Flat!Unsafe(t, o)
  BY Zenon DEF FlatProofs!Unsafe, Flat!Unsafe, FlatProofs!UnsafeValue, Flat!UnsafeValue
<1>9. \A s : FlatProofs!FlattenSeq(s) = Flat!FlattenSeq(s)
  BY Zenon DEF FlatProofs!FlattenSeq, Flat!FlattenSeq
<1>10. \A f, v : FlatProofs!Put(f, v) = Flat!Put(f, v)
  BY Zenon DEF FlatProofs!Put, Flat!Put, FlatProofs!Body, Flat!Body, FlatProofs!Tag, Flat!Tag,
         FlatProofs!Delimited, Flat!Delimited
<1>11. \A t, o, n : FlatProofs!Written(t, o, n) = Flat!Written(t, o, n)
  BY Zenon DEF FlatProofs!Written, Flat!Written, FlatProofs!Default, Flat!Default
<1>12. ASSUME NEW t, NEW o, NEW number
       PROVE  FlatProofs!EncodeField(t, o, number) = Flat!EncodeField(t, o, number)
  <2> DEFINE m == CHOOSE n \in DOMAIN t : t[n].number = number
             w == Flat!Written(t, o, m)
  <2>1. CASE \E n \in DOMAIN t : t[n].number = number
    <3>1. FlatProofs!EncodeField(t, o, number) = [i \in DOMAIN w |-> FlatProofs!Put(t[m], w[i])]
      BY <1>11, <2>1, Zenon DEF FlatProofs!EncodeField
    <3>2. Flat!EncodeField(t, o, number) = [i \in DOMAIN w |-> Flat!Put(t[m], w[i])]
      BY <2>1, Zenon DEF Flat!EncodeField
    <3> HIDE DEF m, w
    <3> QED BY <1>10, <3>1, <3>2, Zenon
  <2>2. CASE ~\E n \in DOMAIN t : t[n].number = number
    BY <2>2, Zenon DEF FlatProofs!EncodeField, Flat!EncodeField
  <2> QED BY <2>1, <2>2
<1>13. \A t, o : FlatProofs!encode(t, o) = Flat!encode(t, o)
  BY <1>9, <1>12, Zenon DEF FlatProofs!encode, Flat!encode, FlatProofs!Numbers, Flat!Numbers
<1>14. \A w : FlatProofs!Arriving(w) = Flat!Arriving(w)
  BY Zenon DEF FlatProofs!Arriving, Flat!Arriving
<1>15. \A f, s : FlatProofs!Hits(f, s) = Flat!Hits(f, s)
  BY <1>4, <1>9, Zenon DEF FlatProofs!Hits, Flat!Hits
<1>16. \A f, e : FlatProofs!Take(f, e) = Flat!Take(f, e) /\ FlatProofs!Payload(e) = Flat!Payload(e)
  BY Zenon DEF FlatProofs!Take, Flat!Take, FlatProofs!Payload, Flat!Payload
<1>17. ASSUME NEW t, NEW w PROVE FlatProofs!decode(t, w) = Flat!decode(t, w)
  <2> DEFINE a == Flat!Arriving(w)
             h(n) == Flat!Hits(t[n], a)
             K == {k \in DOMAIN t : k \in Flat!Plain(t) \/ h(k) # <<>>}
             x(n) == CASE t[n].many -> [i \in DOMAIN h(n) |-> Flat!Take(t[n], h(n)[i])]
                       [] ~t[n].many /\ h(n) = <<>> -> Flat!Default(t[n])
                       [] OTHER -> Flat!Take(t[n], h(n)[Len(h(n))])
  <2>1. Flat!decode(t, w) = [n \in K |-> x(n)] BY Zenon DEF Flat!decode
  <2>2. FlatProofs!decode(t, w)
          = [n \in {k \in DOMAIN t : k \in Flat!Plain(t) \/ FlatProofs!Hits(t[k], a) # <<>>} |->
               CASE t[n].many -> [i \in DOMAIN FlatProofs!Hits(t[n], a) |->
                                     FlatProofs!Take(t[n], FlatProofs!Hits(t[n], a)[i])]
                 [] ~t[n].many /\ FlatProofs!Hits(t[n], a) = <<>> -> FlatProofs!Default(t[n])
                 [] OTHER -> FlatProofs!Take(t[n], FlatProofs!Hits(t[n], a)[Len(FlatProofs!Hits(t[n], a))])]
    BY <1>3, <1>14, Zenon DEF FlatProofs!decode
  <2> HIDE DEF a
  <2>3. \A n : FlatProofs!Hits(t[n], a) = h(n) BY <1>15, Zenon
  <2> QED BY <1>4, <1>16, <2>1, <2>2, <2>3, Zenon
<1>18. ASSUME NEW t, NEW w PROVE FlatProofs!Unreadable(t, w) <=> Flat!Unreadable(t, w)
  <2> DEFINE a == Flat!Arriving(w)
             Bad(n, e) == \/ t[n].kind = "int64" /\ Flat!longToNumberThrows(e[2])
                          \/ t[n].kind = "message" /\ Never(t[n].type, Flat!Payload(e))
  <2>1. Flat!Unreadable(t, w)
          <=> \E n \in DOMAIN t : \E i \in DOMAIN a : a[i][1] = Flat!Tag(t[n]) /\ Bad(n, a[i])
    BY Zenon DEF Flat!Unreadable
  <2>2. FlatProofs!Unreadable(t, w)
          <=> \E n \in DOMAIN t : \E i \in DOMAIN a : a[i][1] = FlatProofs!Tag(t[n]) /\ Bad(n, a[i])
    BY <1>14, Zenon DEF FlatProofs!Unreadable, FlatProofs!Payload, Flat!Payload,
                        FlatProofs!longToNumberThrows, Flat!longToNumberThrows
  <2> HIDE DEF a, Bad
  <2> QED BY <1>4, <2>1, <2>2, Zenon
<1> QED BY <1>1, <1>2, <1>5, <1>6, <1>7, <1>8, <1>12, <1>13, <1>17, <1>18, Zenon

\* NestedProofs is about the generated code that is Nested's.
LEMMA SameNested ==
  /\ \A t : NestedProofs!IsType(t) <=> Nested!IsType(t)
  /\ \A t, o : NestedProofs!IsObject(t, o) <=> Nested!IsObject(t, o)
  /\ \A t, o : NestedProofs!Fill(t, o) = Nested!Fill(t, o)
  /\ \A t, o : NestedProofs!toJSON(t, o) = Nested!toJSON(t, o)
  /\ \A t, o : NestedProofs!Unwritable(t, o) <=> Nested!Unwritable(t, o)
  /\ \A t, o : NestedProofs!Unsafe(t, o) <=> Nested!Unsafe(t, o)
  /\ \A t, o : NestedProofs!encode(t, o) = Nested!encode(t, o)
  /\ \A t, w : NestedProofs!decode(t, w) = Nested!decode(t, w)
  /\ \A t, w : NestedProofs!Unreadable(t, w) <=> Nested!Unreadable(t, w)
<1>1. \A t : NestedProofs!IsType(t) <=> Nested!IsType(t)
  BY Zenon DEF NestedProofs!IsType, Nested!IsType, NestedProofs!Numbers, Nested!Numbers,
         NestedProofs!Kinds, Nested!Kinds
<1>2. \A t, o : NestedProofs!IsObject(t, o) <=> Nested!IsObject(t, o)
  BY Zenon DEF NestedProofs!IsObject, Nested!IsObject, NestedProofs!IsList, Nested!IsList,
         NestedProofs!IsValue, Nested!IsValue
<1>3. \A t : NestedProofs!Plain(t) = Nested!Plain(t)
  BY Zenon DEF NestedProofs!Plain, Nested!Plain
<1>4. \A f : NestedProofs!Default(f) = Nested!Default(f) /\ NestedProofs!Tag(f) = Nested!Tag(f)
  BY Zenon DEF NestedProofs!Default, Nested!Default, NestedProofs!Tag, Nested!Tag,
         NestedProofs!Delimited, Nested!Delimited
<1>5. \A t, o : NestedProofs!Fill(t, o) = Nested!Fill(t, o)
  BY Zenon DEF NestedProofs!Fill, Nested!Fill, NestedProofs!FillField, Nested!FillField,
         NestedProofs!Plain, Nested!Plain, NestedProofs!Default, Nested!Default
<1>6. \A t, o : NestedProofs!toJSON(t, o) = Nested!toJSON(t, o)
  BY Zenon DEF NestedProofs!toJSON, Nested!toJSON, NestedProofs!JSONField, Nested!JSONField,
         NestedProofs!Plain, Nested!Plain, NestedProofs!Default, Nested!Default
<1>7. \A t, o : NestedProofs!Unwritable(t, o) <=> Nested!Unwritable(t, o)
  BY Zenon DEF NestedProofs!Unwritable, Nested!Unwritable
<1>8. \A t, o : NestedProofs!Unsafe(t, o) <=> Nested!Unsafe(t, o)
  BY Zenon DEF NestedProofs!Unsafe, Nested!Unsafe, NestedProofs!UnsafeValue, Nested!UnsafeValue
<1>9. \A s : NestedProofs!FlattenSeq(s) = Nested!FlattenSeq(s)
  BY Zenon DEF NestedProofs!FlattenSeq, Nested!FlattenSeq
<1>10. \A f, v : NestedProofs!Put(f, v) = Nested!Put(f, v)
  BY Zenon DEF NestedProofs!Put, Nested!Put, NestedProofs!Body, Nested!Body, NestedProofs!Tag,
         Nested!Tag, NestedProofs!Delimited, Nested!Delimited
<1>11. \A t, o, n : NestedProofs!Written(t, o, n) = Nested!Written(t, o, n)
  BY Zenon DEF NestedProofs!Written, Nested!Written, NestedProofs!Default, Nested!Default
<1>12. ASSUME NEW t, NEW o, NEW number
       PROVE  NestedProofs!EncodeField(t, o, number) = Nested!EncodeField(t, o, number)
  <2> DEFINE m == CHOOSE n \in DOMAIN t : t[n].number = number
             w == Nested!Written(t, o, m)
  <2>1. CASE \E n \in DOMAIN t : t[n].number = number
    <3>1. NestedProofs!EncodeField(t, o, number) = [i \in DOMAIN w |-> NestedProofs!Put(t[m], w[i])]
      BY <1>11, <2>1, Zenon DEF NestedProofs!EncodeField
    <3>2. Nested!EncodeField(t, o, number) = [i \in DOMAIN w |-> Nested!Put(t[m], w[i])]
      BY <2>1, Zenon DEF Nested!EncodeField
    <3> HIDE DEF m, w
    <3> QED BY <1>10, <3>1, <3>2, Zenon
  <2>2. CASE ~\E n \in DOMAIN t : t[n].number = number
    BY <2>2, Zenon DEF NestedProofs!EncodeField, Nested!EncodeField
  <2> QED BY <2>1, <2>2
<1>13. \A t, o : NestedProofs!encode(t, o) = Nested!encode(t, o)
  BY <1>9, <1>12, Zenon DEF NestedProofs!encode, Nested!encode, NestedProofs!Numbers,
         Nested!Numbers
<1>14. \A w : NestedProofs!Arriving(w) = Nested!Arriving(w)
  BY Zenon DEF NestedProofs!Arriving, Nested!Arriving
<1>15. \A f, s : NestedProofs!Hits(f, s) = Nested!Hits(f, s)
  BY <1>4, <1>9, Zenon DEF NestedProofs!Hits, Nested!Hits
<1>16. \A f, e : NestedProofs!Take(f, e) = Nested!Take(f, e) /\ NestedProofs!Payload(e) = Nested!Payload(e)
  BY Zenon DEF NestedProofs!Take, Nested!Take, NestedProofs!Payload, Nested!Payload
<1>17. ASSUME NEW t, NEW w PROVE NestedProofs!decode(t, w) = Nested!decode(t, w)
  <2> DEFINE a == Nested!Arriving(w)
             h(n) == Nested!Hits(t[n], a)
             K == {k \in DOMAIN t : k \in Nested!Plain(t) \/ h(k) # <<>>}
             x(n) == CASE t[n].many -> [i \in DOMAIN h(n) |-> Nested!Take(t[n], h(n)[i])]
                       [] ~t[n].many /\ h(n) = <<>> -> Nested!Default(t[n])
                       [] OTHER -> Nested!Take(t[n], h(n)[Len(h(n))])
  <2>1. Nested!decode(t, w) = [n \in K |-> x(n)] BY Zenon DEF Nested!decode
  <2>2. NestedProofs!decode(t, w)
          = [n \in {k \in DOMAIN t : k \in Nested!Plain(t) \/ NestedProofs!Hits(t[k], a) # <<>>} |->
               CASE t[n].many -> [i \in DOMAIN NestedProofs!Hits(t[n], a) |->
                                     NestedProofs!Take(t[n], NestedProofs!Hits(t[n], a)[i])]
                 [] ~t[n].many /\ NestedProofs!Hits(t[n], a) = <<>> -> NestedProofs!Default(t[n])
                 [] OTHER -> NestedProofs!Take(t[n], NestedProofs!Hits(t[n], a)[Len(NestedProofs!Hits(t[n], a))])]
    BY <1>3, <1>14, Zenon DEF NestedProofs!decode
  <2> HIDE DEF a
  <2>3. \A n : NestedProofs!Hits(t[n], a) = h(n) BY <1>15, Zenon
  <2> QED BY <1>4, <1>16, <2>1, <2>2, <2>3, Zenon
<1>18. ASSUME NEW t, NEW w PROVE NestedProofs!Unreadable(t, w) <=> Nested!Unreadable(t, w)
  <2> DEFINE a == Nested!Arriving(w)
             Bad(n, e) == \/ t[n].kind = "int64" /\ Nested!longToNumberThrows(e[2])
                          \/ t[n].kind = "message" /\ Flat!Unreadable(t[n].type, Nested!Payload(e))
  <2>1. Nested!Unreadable(t, w)
          <=> \E n \in DOMAIN t : \E i \in DOMAIN a : a[i][1] = Nested!Tag(t[n]) /\ Bad(n, a[i])
    BY Zenon DEF Nested!Unreadable
  <2>2. NestedProofs!Unreadable(t, w)
          <=> \E n \in DOMAIN t : \E i \in DOMAIN a : a[i][1] = NestedProofs!Tag(t[n]) /\ Bad(n, a[i])
    BY <1>14, Zenon DEF NestedProofs!Unreadable, NestedProofs!Payload, Nested!Payload,
                        NestedProofs!longToNumberThrows, Nested!longToNumberThrows
  <2> HIDE DEF a, Bad
  <2> QED BY <1>4, <2>1, <2>2, Zenon
<1> QED BY <1>1, <1>2, <1>5, <1>6, <1>7, <1>8, <1>12, <1>13, <1>17, <1>18, Zenon

\* DeepProofs is about the generated code that is Deep's.
LEMMA SameDeep ==
  /\ \A t : DeepProofs!IsType(t) <=> Deep!IsType(t)
  /\ \A t, o : DeepProofs!IsObject(t, o) <=> Deep!IsObject(t, o)
  /\ \A t, o : DeepProofs!Fill(t, o) = Deep!Fill(t, o)
  /\ \A t, o : DeepProofs!toJSON(t, o) = Deep!toJSON(t, o)
  /\ \A t, o : DeepProofs!Unwritable(t, o) <=> Deep!Unwritable(t, o)
  /\ \A t, o : DeepProofs!Unsafe(t, o) <=> Deep!Unsafe(t, o)
  /\ \A t, o : DeepProofs!encode(t, o) = Deep!encode(t, o)
  /\ \A t, w : DeepProofs!decode(t, w) = Deep!decode(t, w)
  /\ \A t, w : DeepProofs!Unreadable(t, w) <=> Deep!Unreadable(t, w)
<1>1. \A t : DeepProofs!IsType(t) <=> Deep!IsType(t)
  BY Zenon DEF DeepProofs!IsType, Deep!IsType, DeepProofs!Numbers, Deep!Numbers,
         DeepProofs!Kinds, Deep!Kinds
<1>2. \A t, o : DeepProofs!IsObject(t, o) <=> Deep!IsObject(t, o)
  BY Zenon DEF DeepProofs!IsObject, Deep!IsObject, DeepProofs!IsList, Deep!IsList,
         DeepProofs!IsValue, Deep!IsValue
<1>3. \A t : DeepProofs!Plain(t) = Deep!Plain(t)
  BY Zenon DEF DeepProofs!Plain, Deep!Plain
<1>4. \A f : DeepProofs!Default(f) = Deep!Default(f) /\ DeepProofs!Tag(f) = Deep!Tag(f)
  BY Zenon DEF DeepProofs!Default, Deep!Default, DeepProofs!Tag, Deep!Tag,
         DeepProofs!Delimited, Deep!Delimited
<1>5. \A t, o : DeepProofs!Fill(t, o) = Deep!Fill(t, o)
  BY Zenon DEF DeepProofs!Fill, Deep!Fill, DeepProofs!FillField, Deep!FillField,
         DeepProofs!Plain, Deep!Plain, DeepProofs!Default, Deep!Default
<1>6. \A t, o : DeepProofs!toJSON(t, o) = Deep!toJSON(t, o)
  BY Zenon DEF DeepProofs!toJSON, Deep!toJSON, DeepProofs!JSONField, Deep!JSONField,
         DeepProofs!Plain, Deep!Plain, DeepProofs!Default, Deep!Default
<1>7. \A t, o : DeepProofs!Unwritable(t, o) <=> Deep!Unwritable(t, o)
  BY Zenon DEF DeepProofs!Unwritable, Deep!Unwritable
<1>8. \A t, o : DeepProofs!Unsafe(t, o) <=> Deep!Unsafe(t, o)
  BY Zenon DEF DeepProofs!Unsafe, Deep!Unsafe, DeepProofs!UnsafeValue, Deep!UnsafeValue
<1>9. \A s : DeepProofs!FlattenSeq(s) = Deep!FlattenSeq(s)
  BY Zenon DEF DeepProofs!FlattenSeq, Deep!FlattenSeq
<1>10. \A f, v : DeepProofs!Put(f, v) = Deep!Put(f, v)
  BY Zenon DEF DeepProofs!Put, Deep!Put, DeepProofs!Body, Deep!Body, DeepProofs!Tag, Deep!Tag,
         DeepProofs!Delimited, Deep!Delimited
<1>11. \A t, o, n : DeepProofs!Written(t, o, n) = Deep!Written(t, o, n)
  BY Zenon DEF DeepProofs!Written, Deep!Written, DeepProofs!Default, Deep!Default
<1>12. ASSUME NEW t, NEW o, NEW number
       PROVE  DeepProofs!EncodeField(t, o, number) = Deep!EncodeField(t, o, number)
  <2> DEFINE m == CHOOSE n \in DOMAIN t : t[n].number = number
             w == Deep!Written(t, o, m)
  <2>1. CASE \E n \in DOMAIN t : t[n].number = number
    <3>1. DeepProofs!EncodeField(t, o, number) = [i \in DOMAIN w |-> DeepProofs!Put(t[m], w[i])]
      BY <1>11, <2>1, Zenon DEF DeepProofs!EncodeField
    <3>2. Deep!EncodeField(t, o, number) = [i \in DOMAIN w |-> Deep!Put(t[m], w[i])]
      BY <2>1, Zenon DEF Deep!EncodeField
    <3> HIDE DEF m, w
    <3> QED BY <1>10, <3>1, <3>2, Zenon
  <2>2. CASE ~\E n \in DOMAIN t : t[n].number = number
    BY <2>2, Zenon DEF DeepProofs!EncodeField, Deep!EncodeField
  <2> QED BY <2>1, <2>2
<1>13. \A t, o : DeepProofs!encode(t, o) = Deep!encode(t, o)
  BY <1>9, <1>12, Zenon DEF DeepProofs!encode, Deep!encode, DeepProofs!Numbers, Deep!Numbers
<1>14. \A w : DeepProofs!Arriving(w) = Deep!Arriving(w)
  BY Zenon DEF DeepProofs!Arriving, Deep!Arriving
<1>15. \A f, s : DeepProofs!Hits(f, s) = Deep!Hits(f, s)
  BY <1>4, <1>9, Zenon DEF DeepProofs!Hits, Deep!Hits
<1>16. \A f, e : DeepProofs!Take(f, e) = Deep!Take(f, e) /\ DeepProofs!Payload(e) = Deep!Payload(e)
  BY Zenon DEF DeepProofs!Take, Deep!Take, DeepProofs!Payload, Deep!Payload
<1>17. ASSUME NEW t, NEW w PROVE DeepProofs!decode(t, w) = Deep!decode(t, w)
  <2> DEFINE a == Deep!Arriving(w)
             h(n) == Deep!Hits(t[n], a)
             K == {k \in DOMAIN t : k \in Deep!Plain(t) \/ h(k) # <<>>}
             x(n) == CASE t[n].many -> [i \in DOMAIN h(n) |-> Deep!Take(t[n], h(n)[i])]
                       [] ~t[n].many /\ h(n) = <<>> -> Deep!Default(t[n])
                       [] OTHER -> Deep!Take(t[n], h(n)[Len(h(n))])
  <2>1. Deep!decode(t, w) = [n \in K |-> x(n)] BY Zenon DEF Deep!decode
  <2>2. DeepProofs!decode(t, w)
          = [n \in {k \in DOMAIN t : k \in Deep!Plain(t) \/ DeepProofs!Hits(t[k], a) # <<>>} |->
               CASE t[n].many -> [i \in DOMAIN DeepProofs!Hits(t[n], a) |->
                                     DeepProofs!Take(t[n], DeepProofs!Hits(t[n], a)[i])]
                 [] ~t[n].many /\ DeepProofs!Hits(t[n], a) = <<>> -> DeepProofs!Default(t[n])
                 [] OTHER -> DeepProofs!Take(t[n], DeepProofs!Hits(t[n], a)[Len(DeepProofs!Hits(t[n], a))])]
    BY <1>3, <1>14, Zenon DEF DeepProofs!decode
  <2> HIDE DEF a
  <2>3. \A n : DeepProofs!Hits(t[n], a) = h(n) BY <1>15, Zenon
  <2> QED BY <1>4, <1>16, <2>1, <2>2, <2>3, Zenon
<1>18. ASSUME NEW t, NEW w PROVE DeepProofs!Unreadable(t, w) <=> Deep!Unreadable(t, w)
  <2> DEFINE a == Deep!Arriving(w)
             Bad(n, e) == \/ t[n].kind = "int64" /\ Deep!longToNumberThrows(e[2])
                          \/ t[n].kind = "message" /\ Nested!Unreadable(t[n].type, Deep!Payload(e))
  <2>1. Deep!Unreadable(t, w)
          <=> \E n \in DOMAIN t : \E i \in DOMAIN a : a[i][1] = Deep!Tag(t[n]) /\ Bad(n, a[i])
    BY Zenon DEF Deep!Unreadable
  <2>2. DeepProofs!Unreadable(t, w)
          <=> \E n \in DOMAIN t : \E i \in DOMAIN a : a[i][1] = DeepProofs!Tag(t[n]) /\ Bad(n, a[i])
    BY <1>14, Zenon DEF DeepProofs!Unreadable, DeepProofs!Payload, Deep!Payload,
                        DeepProofs!longToNumberThrows, Deep!longToNumberThrows
  <2> HIDE DEF a, Bad
  <2> QED BY <1>4, <2>1, <2>2, Zenon
<1> QED BY <1>1, <1>2, <1>5, <1>6, <1>7, <1>8, <1>12, <1>13, <1>17, <1>18, Zenon

\* TopProofs is about the generated code that is Wire's.
LEMMA SameTop ==
  /\ \A t : TopProofs!IsType(t) <=> IsType(t)
  /\ \A t, o : TopProofs!IsObject(t, o) <=> IsObject(t, o)
  /\ \A t, o : TopProofs!Fill(t, o) = Fill(t, o)
  /\ \A t, o : TopProofs!toJSON(t, o) = toJSON(t, o)
  /\ \A t, o : TopProofs!Unwritable(t, o) <=> Unwritable(t, o)
  /\ \A t, o : TopProofs!Unsafe(t, o) <=> Unsafe(t, o)
  /\ \A t, o : TopProofs!encode(t, o) = encode(t, o)
  /\ \A t, w : TopProofs!decode(t, w) = decode(t, w)
  /\ \A t, w : TopProofs!Unreadable(t, w) <=> Unreadable(t, w)
<1>1. \A t : TopProofs!IsType(t) <=> IsType(t)
  BY Zenon DEF TopProofs!IsType, IsType, TopProofs!Numbers, Numbers, TopProofs!Kinds, Kinds
<1>2. \A t, o : TopProofs!IsObject(t, o) <=> IsObject(t, o)
  BY Zenon DEF TopProofs!IsObject, IsObject, TopProofs!IsList, IsList, TopProofs!IsValue,
         IsValue
<1>3. \A t : TopProofs!Plain(t) = Plain(t)
  BY Zenon DEF TopProofs!Plain, Plain
<1>4. \A f : TopProofs!Default(f) = Default(f) /\ TopProofs!Tag(f) = Tag(f)
  BY Zenon DEF TopProofs!Default, Default, TopProofs!Tag, Tag, TopProofs!Delimited, Delimited
<1>5. \A t, o : TopProofs!Fill(t, o) = Fill(t, o)
  BY Zenon DEF TopProofs!Fill, Fill, TopProofs!FillField, FillField, TopProofs!Plain, Plain,
         TopProofs!Default, Default
<1>6. \A t, o : TopProofs!toJSON(t, o) = toJSON(t, o)
  BY Zenon DEF TopProofs!toJSON, toJSON, TopProofs!JSONField, JSONField, TopProofs!Plain,
         Plain, TopProofs!Default, Default
<1>7. \A t, o : TopProofs!Unwritable(t, o) <=> Unwritable(t, o)
  BY Zenon DEF TopProofs!Unwritable, Unwritable
<1>8. \A t, o : TopProofs!Unsafe(t, o) <=> Unsafe(t, o)
  BY Zenon DEF TopProofs!Unsafe, Unsafe, TopProofs!UnsafeValue, UnsafeValue
<1>9. \A s : TopProofs!FlattenSeq(s) = FlattenSeq(s)
  BY Zenon DEF TopProofs!FlattenSeq, FlattenSeq
<1>10. \A f, v : TopProofs!Put(f, v) = Put(f, v)
  BY Zenon DEF TopProofs!Put, Put, TopProofs!Body, Body, TopProofs!Tag, Tag,
         TopProofs!Delimited, Delimited
<1>11. \A t, o, n : TopProofs!Written(t, o, n) = Written(t, o, n)
  BY Zenon DEF TopProofs!Written, Written, TopProofs!Default, Default
<1>12. ASSUME NEW t, NEW o, NEW number
       PROVE  TopProofs!EncodeField(t, o, number) = EncodeField(t, o, number)
  <2> DEFINE m == CHOOSE n \in DOMAIN t : t[n].number = number
             w == Written(t, o, m)
  <2>1. CASE \E n \in DOMAIN t : t[n].number = number
    <3>1. TopProofs!EncodeField(t, o, number) = [i \in DOMAIN w |-> TopProofs!Put(t[m], w[i])]
      BY <1>11, <2>1, Zenon DEF TopProofs!EncodeField
    <3>2. EncodeField(t, o, number) = [i \in DOMAIN w |-> Put(t[m], w[i])]
      BY <2>1, Zenon DEF EncodeField
    <3> HIDE DEF m, w
    <3> QED BY <1>10, <3>1, <3>2, Zenon
  <2>2. CASE ~\E n \in DOMAIN t : t[n].number = number
    BY <2>2, Zenon DEF TopProofs!EncodeField, EncodeField
  <2> QED BY <2>1, <2>2
<1>13. \A t, o : TopProofs!encode(t, o) = encode(t, o)
  BY <1>9, <1>12, Zenon DEF TopProofs!encode, encode, TopProofs!Numbers, Numbers
<1>14. \A w : TopProofs!Arriving(w) = Arriving(w)
  BY Zenon DEF TopProofs!Arriving, Arriving
<1>15. \A f, s : TopProofs!Hits(f, s) = Hits(f, s)
  BY <1>4, <1>9, Zenon DEF TopProofs!Hits, Hits
<1>16. \A f, e : TopProofs!Take(f, e) = Take(f, e) /\ TopProofs!Payload(e) = Payload(e)
  BY Zenon DEF TopProofs!Take, Take, TopProofs!Payload, Payload
<1>17. ASSUME NEW t, NEW w PROVE TopProofs!decode(t, w) = decode(t, w)
  <2> DEFINE a == Arriving(w)
             h(n) == Hits(t[n], a)
             K == {k \in DOMAIN t : k \in Plain(t) \/ h(k) # <<>>}
             x(n) == CASE t[n].many -> [i \in DOMAIN h(n) |-> Take(t[n], h(n)[i])]
                       [] ~t[n].many /\ h(n) = <<>> -> Default(t[n])
                       [] OTHER -> Take(t[n], h(n)[Len(h(n))])
  <2>1. decode(t, w) = [n \in K |-> x(n)] BY Zenon DEF decode
  <2>2. TopProofs!decode(t, w)
          = [n \in {k \in DOMAIN t : k \in Plain(t) \/ TopProofs!Hits(t[k], a) # <<>>} |->
               CASE t[n].many -> [i \in DOMAIN TopProofs!Hits(t[n], a) |->
                                     TopProofs!Take(t[n], TopProofs!Hits(t[n], a)[i])]
                 [] ~t[n].many /\ TopProofs!Hits(t[n], a) = <<>> -> TopProofs!Default(t[n])
                 [] OTHER -> TopProofs!Take(t[n], TopProofs!Hits(t[n], a)[Len(TopProofs!Hits(t[n], a))])]
    BY <1>3, <1>14, Zenon DEF TopProofs!decode
  <2> HIDE DEF a
  <2>3. \A n : TopProofs!Hits(t[n], a) = h(n) BY <1>15, Zenon
  <2> QED BY <1>4, <1>16, <2>1, <2>2, <2>3, Zenon
<1>18. ASSUME NEW t, NEW w PROVE TopProofs!Unreadable(t, w) <=> Unreadable(t, w)
  <2> DEFINE a == Arriving(w)
             Bad(n, e) == \/ t[n].kind = "int64" /\ longToNumberThrows(e[2])
                          \/ t[n].kind = "message" /\ Deep!Unreadable(t[n].type, Payload(e))
  <2>1. Unreadable(t, w)
          <=> \E n \in DOMAIN t : \E i \in DOMAIN a : a[i][1] = Tag(t[n]) /\ Bad(n, a[i])
    BY Zenon DEF Unreadable
  <2>2. TopProofs!Unreadable(t, w)
          <=> \E n \in DOMAIN t : \E i \in DOMAIN a : a[i][1] = TopProofs!Tag(t[n]) /\ Bad(n, a[i])
    BY <1>14, Zenon DEF TopProofs!Unreadable, TopProofs!Payload, Payload,
                        TopProofs!longToNumberThrows, longToNumberThrows
  <2> HIDE DEF a, Bad
  <2> QED BY <1>4, <2>1, <2>2, Zenon
<1> QED BY <1>1, <1>2, <1>5, <1>6, <1>7, <1>8, <1>12, <1>13, <1>17, <1>18, Zenon

-----------------------------------------------------------------------------
(* The types of demo.proto are types that the generated code is for.       *)

IsField(f) ==
  /\ f.number \in 1 .. 6
  /\ f.kind \in {"string", "int32", "int64", "bool", "message"}
  /\ f.many \in BOOLEAN
  /\ f.many => f.kind \in {"string", "message"}
Formed(t) ==
  /\ \A n \in DOMAIN t : IsField(t[n])
  /\ \A m, n \in DOMAIN t : t[m].number = t[n].number => m = n

\* The fields as the schema declares them.
LEMMA FieldsAre ==
  \A number \in 1 .. 6 :
    /\ \A f \in {String(number), Int32(number), Int64(number), Bool(number), Strings(number)} :
         IsField(f) /\ f.number = number /\ f.kind # "message"
    /\ \A type : \A f \in {One(number, type), Many(number, type)} :
         IsField(f) /\ f.number = number /\ f.kind = "message" /\ f.type = type
  BY DEF IsField, String, Int32, Int64, Bool, Strings, One, Many, Field

\* Types by how deep messages nest in them.
FlatTypes ==
    {CartItem, EmptyCartRequest, GetCartRequest, Empty, ListRecommendationsRequest,
      ListRecommendationsResponse, Money, GetProductRequest, SearchProductsRequest, Address,
      ShipOrderResponse, GetSupportedCurrenciesResponse, CreditCardInfo, ChargeResponse,
      AdRequest, Ad, Flag, GetFlagRequest, CreateFlagRequest, UpdateFlagRequest,
      UpdateFlagResponse, ListFlagsRequest, DeleteFlagRequest, DeleteFlagResponse}
NestedTypes ==
    {AddItemRequest, Cart, Product, GetQuoteRequest, GetQuoteResponse, ShipOrderRequest,
      CurrencyConversionRequest, ChargeRequest, OrderItem, PlaceOrderRequest, AdResponse,
      GetFlagResponse, CreateFlagResponse, ListFlagsResponse}
DeepTypes == {ListProductsResponse, SearchProductsResponse, OrderResult}
TopTypes == {SendOrderConfirmationRequest, PlaceOrderResponse}

\* A type is one of the generated code of its depth.
LEMMA TypeByDepth ==
  ASSUME NEW t, Formed(t)
  PROVE  /\ (\A n \in DOMAIN t : t[n].kind # "message") => Flat!IsType(t)
         /\ (\A n \in DOMAIN t : t[n].kind = "message" => Flat!IsType(t[n].type))
              => Nested!IsType(t)
         /\ (\A n \in DOMAIN t : t[n].kind = "message" => Nested!IsType(t[n].type))
              => Deep!IsType(t)
         /\ (\A n \in DOMAIN t : t[n].kind = "message" => Deep!IsType(t[n].type))
              => IsType(t)
<1>1. \A n \in DOMAIN t :
        /\ t[n].number \in 1 .. 6
        /\ t[n].kind \in {"string", "int32", "int64", "bool", "message"}
        /\ t[n].many \in BOOLEAN
        /\ t[n].many => t[n].kind \in {"string", "message"}
        /\ \A m \in DOMAIN t : t[m].number = t[n].number => m = n
  BY Zenon DEF Formed, IsField
<1>2. (\A n \in DOMAIN t : t[n].kind # "message") => Flat!IsType(t)
  BY <1>1, Zenon DEF Flat!IsType, Flat!Numbers, Flat!Kinds
<1>3. (\A n \in DOMAIN t : t[n].kind = "message" => Flat!IsType(t[n].type))
        => Nested!IsType(t)
  BY <1>1, Zenon DEF Nested!IsType, Nested!Numbers, Nested!Kinds
<1>4. (\A n \in DOMAIN t : t[n].kind = "message" => Nested!IsType(t[n].type))
        => Deep!IsType(t)
  BY <1>1, Zenon DEF Deep!IsType, Deep!Numbers, Deep!Kinds
<1>5. (\A n \in DOMAIN t : t[n].kind = "message" => Deep!IsType(t[n].type))
        => IsType(t)
  BY <1>1, Zenon DEF IsType, Numbers, Kinds
<1> QED BY <1>2, <1>3, <1>4, <1>5

\* The generated code for deeper messages is there for the others, too.
LEMMA TypeDeeper ==
  /\ \A t : Flat!IsType(t) => Nested!IsType(t)
  /\ \A t : Nested!IsType(t) => Deep!IsType(t)
  /\ \A t : Deep!IsType(t) => IsType(t)
<1>1. \A t : Flat!IsType(t) => Nested!IsType(t)
  BY Zenon DEF Flat!IsType, Nested!IsType, Flat!Numbers, Nested!Numbers, Flat!Kinds,
         Nested!Kinds
<1>2. \A t : Nested!IsType(t) => Deep!IsType(t)
  BY <1>1, Zenon DEF Nested!IsType, Deep!IsType, Nested!Numbers, Deep!Numbers,
                     Nested!Kinds, Deep!Kinds
<1>3. \A t : Deep!IsType(t) => IsType(t)
  BY <1>2, Zenon DEF Deep!IsType, IsType, Deep!Numbers, Numbers, Deep!Kinds, Kinds
<1> QED BY <1>1, <1>2, <1>3

\* The types that hold no message.
LEMMA FlatTypesAre == \A t \in FlatTypes : Flat!IsType(t)
<1> DEFINE Good(t) == Formed(t) /\ \A n \in DOMAIN t : t[n].kind # "message"
<1>1. Good(CartItem) BY FieldsAre DEF Formed, CartItem
<1>2. Good(EmptyCartRequest) BY FieldsAre DEF Formed, EmptyCartRequest
<1>3. Good(GetCartRequest) BY FieldsAre DEF Formed, GetCartRequest
<1>4. Good(Empty) BY FieldsAre DEF Formed, Empty
<1>5. Good(ListRecommendationsRequest) BY FieldsAre DEF Formed, ListRecommendationsRequest
<1>6. Good(ListRecommendationsResponse) BY FieldsAre DEF Formed, ListRecommendationsResponse
<1>7. Good(Money) BY FieldsAre DEF Formed, Money
<1>8. Good(GetProductRequest) BY FieldsAre DEF Formed, GetProductRequest
<1>9. Good(SearchProductsRequest) BY FieldsAre DEF Formed, SearchProductsRequest
<1>10. Good(Address) BY FieldsAre DEF Formed, Address
<1>11. Good(ShipOrderResponse) BY FieldsAre DEF Formed, ShipOrderResponse
<1>12. Good(GetSupportedCurrenciesResponse) BY FieldsAre DEF Formed, GetSupportedCurrenciesResponse
<1>13. Good(CreditCardInfo) BY FieldsAre DEF Formed, CreditCardInfo
<1>14. Good(ChargeResponse) BY FieldsAre DEF Formed, ChargeResponse
<1>15. Good(AdRequest) BY FieldsAre DEF Formed, AdRequest
<1>16. Good(Ad) BY FieldsAre DEF Formed, Ad
<1>17. Good(Flag) BY FieldsAre DEF Formed, Flag
<1>18. Good(GetFlagRequest) BY FieldsAre DEF Formed, GetFlagRequest
<1>19. Good(CreateFlagRequest) BY FieldsAre DEF Formed, CreateFlagRequest
<1>20. Good(UpdateFlagRequest) BY FieldsAre DEF Formed, UpdateFlagRequest
<1>21. Good(UpdateFlagResponse) BY FieldsAre DEF Formed, UpdateFlagResponse
<1>22. Good(ListFlagsRequest) BY FieldsAre DEF Formed, ListFlagsRequest
<1>23. Good(DeleteFlagRequest) BY FieldsAre DEF Formed, DeleteFlagRequest
<1>24. Good(DeleteFlagResponse) BY FieldsAre DEF Formed, DeleteFlagResponse
<1> HIDE DEF Good
<1>25. \A t \in FlatTypes : Good(t)
  BY <1>1, <1>2, <1>3, <1>4, <1>5, <1>6, <1>7, <1>8, <1>9, <1>10, <1>11, <1>12, <1>13,
      <1>14, <1>15, <1>16, <1>17, <1>18, <1>19, <1>20, <1>21, <1>22, <1>23, <1>24 DEF FlatTypes
<1> QED BY <1>25, TypeByDepth DEF Good

\* The types that hold such messages.
LEMMA NestedTypesAre == \A t \in NestedTypes : Nested!IsType(t)
<1> DEFINE Good(t) ==
             Formed(t) /\ \A n \in DOMAIN t : t[n].kind = "message" => t[n].type \in FlatTypes
<1>1. Good(AddItemRequest)
  <2>1. CartItem \in FlatTypes BY Zenon DEF FlatTypes
  <2> QED BY <2>1, FieldsAre DEF Formed, AddItemRequest
<1>2. Good(Cart)
  <2>1. CartItem \in FlatTypes BY Zenon DEF FlatTypes
  <2> QED BY <2>1, FieldsAre DEF Formed, Cart
<1>3. Good(Product)
  <2>1. Money \in FlatTypes BY Zenon DEF FlatTypes
  <2> QED BY <2>1, FieldsAre DEF Formed, Product
<1>4. Good(GetQuoteRequest)
  <2>1. Address \in FlatTypes /\ CartItem \in FlatTypes BY Zenon DEF FlatTypes
  <2> QED BY <2>1, FieldsAre DEF Formed, GetQuoteRequest
<1>5. Good(GetQuoteResponse)
  <2>1. Money \in FlatTypes BY Zenon DEF FlatTypes
  <2> QED BY <2>1, FieldsAre DEF Formed, GetQuoteResponse
<1>6. Good(ShipOrderRequest)
  <2>1. Address \in FlatTypes /\ CartItem \in FlatTypes BY Zenon DEF FlatTypes
  <2> QED BY <2>1, FieldsAre DEF Formed, ShipOrderRequest
<1>7. Good(CurrencyConversionRequest)
  <2>1. Money \in FlatTypes BY Zenon DEF FlatTypes
  <2> QED BY <2>1, FieldsAre DEF Formed, CurrencyConversionRequest
<1>8. Good(ChargeRequest)
  <2>1. Money \in FlatTypes /\ CreditCardInfo \in FlatTypes BY Zenon DEF FlatTypes
  <2> QED BY <2>1, FieldsAre DEF Formed, ChargeRequest
<1>9. Good(OrderItem)
  <2>1. CartItem \in FlatTypes /\ Money \in FlatTypes BY Zenon DEF FlatTypes
  <2> QED BY <2>1, FieldsAre DEF Formed, OrderItem
<1>10. Good(PlaceOrderRequest)
  <2>1. Address \in FlatTypes /\ CreditCardInfo \in FlatTypes BY Zenon DEF FlatTypes
  <2> QED BY <2>1, FieldsAre DEF Formed, PlaceOrderRequest
<1>11. Good(AdResponse)
  <2>1. Ad \in FlatTypes BY Zenon DEF FlatTypes
  <2> QED BY <2>1, FieldsAre DEF Formed, AdResponse
<1>12. Good(GetFlagResponse)
  <2>1. Flag \in FlatTypes BY Zenon DEF FlatTypes
  <2> QED BY <2>1, FieldsAre DEF Formed, GetFlagResponse
<1>13. Good(CreateFlagResponse)
  <2>1. Flag \in FlatTypes BY Zenon DEF FlatTypes
  <2> QED BY <2>1, FieldsAre DEF Formed, CreateFlagResponse
<1>14. Good(ListFlagsResponse)
  <2>1. Flag \in FlatTypes BY Zenon DEF FlatTypes
  <2> QED BY <2>1, FieldsAre DEF Formed, ListFlagsResponse
<1> HIDE DEF Good
<1>15. \A t \in NestedTypes : Good(t)
  BY <1>1, <1>2, <1>3, <1>4, <1>5, <1>6, <1>7, <1>8, <1>9, <1>10, <1>11, <1>12, <1>13,
      <1>14 DEF NestedTypes
<1> QED BY <1>15, FlatTypesAre, TypeByDepth DEF Good

\* The types that hold those.
LEMMA DeepTypesAre == \A t \in DeepTypes : Deep!IsType(t)
<1> DEFINE Good(t) ==
             /\ Formed(t)
             /\ \A n \in DOMAIN t : t[n].kind = "message" =>
                   t[n].type \in FlatTypes \cup NestedTypes
<1>0. /\ Product \in NestedTypes /\ OrderItem \in NestedTypes
      /\ Money \in FlatTypes /\ Address \in FlatTypes
  BY Zenon DEF FlatTypes, NestedTypes
<1>1. Good(ListProductsResponse) BY <1>0, FieldsAre DEF Formed, ListProductsResponse
<1>2. Good(SearchProductsResponse) BY <1>0, FieldsAre DEF Formed, SearchProductsResponse
<1>3. Good(OrderResult) BY <1>0, FieldsAre DEF Formed, OrderResult
<1> HIDE DEF Good
<1>4. \A t \in DeepTypes : Good(t) BY <1>1, <1>2, <1>3 DEF DeepTypes
<1>5. \A t \in FlatTypes \cup NestedTypes : Nested!IsType(t)
  BY FlatTypesAre, NestedTypesAre, TypeDeeper
<1> QED BY <1>4, <1>5, TypeByDepth DEF Good

\* The types that hold an order.
LEMMA TopTypesAre == \A t \in TopTypes : IsType(t)
<1> DEFINE Good(t) ==
             Formed(t) /\ \A n \in DOMAIN t : t[n].kind = "message" => t[n].type \in DeepTypes
<1>0. OrderResult \in DeepTypes BY Zenon DEF DeepTypes
<1>1. Good(SendOrderConfirmationRequest)
  BY <1>0, FieldsAre DEF Formed, SendOrderConfirmationRequest
<1>2. Good(PlaceOrderResponse) BY <1>0, FieldsAre DEF Formed, PlaceOrderResponse
<1> HIDE DEF Good
<1>3. \A t \in TopTypes : Good(t) BY <1>1, <1>2 DEF TopTypes
<1> QED BY <1>3, DeepTypesAre, TypeByDepth DEF Good

\* Every request and every response of the services is of such a type.
LEMMA MethodTypes ==
  \A service \in Services : \A method \in service :
    IsType(method["request"]) /\ IsType(method["response"])
<1> DEFINE Types == FlatTypes \cup NestedTypes \cup DeepTypes \cup TopTypes
           Good(method) == method["request"] \in Types /\ method["response"] \in Types
<1>1. \A t \in Types : IsType(t)
  BY FlatTypesAre, NestedTypesAre, DeepTypesAre, TopTypesAre, TypeDeeper
<1>2. \A request \in Types : \A response \in Types : Good(Rpc(request, response))
  <2> HIDE DEF Types
  <2> QED BY DEF Rpc
<1>3. \A method \in CartService : Good(method)
  <2>1. {AddItemRequest, Empty, GetCartRequest, Cart, EmptyCartRequest} \subseteq Types
    BY Zenon DEF FlatTypes, NestedTypes, DeepTypes, TopTypes
  <2> HIDE DEF Types, Good
  <2> QED BY <1>2, <2>1 DEF CartService
<1>4. \A method \in RecommendationService : Good(method)
  <2>1. {ListRecommendationsRequest, ListRecommendationsResponse} \subseteq Types
    BY Zenon DEF FlatTypes, NestedTypes, DeepTypes, TopTypes
  <2> HIDE DEF Types, Good
  <2> QED BY <1>2, <2>1 DEF RecommendationService
<1>5. \A method \in ProductCatalogService : Good(method)
  <2>1. {Empty, ListProductsResponse, GetProductRequest, Product, SearchProductsRequest,
      SearchProductsResponse} \subseteq Types
    BY Zenon DEF FlatTypes, NestedTypes, DeepTypes, TopTypes
  <2> HIDE DEF Types, Good
  <2> QED BY <1>2, <2>1 DEF ProductCatalogService
<1>6. \A method \in ShippingService : Good(method)
  <2>1. {GetQuoteRequest, GetQuoteResponse, ShipOrderRequest, ShipOrderResponse} \subseteq Types
    BY Zenon DEF FlatTypes, NestedTypes, DeepTypes, TopTypes
  <2> HIDE DEF Types, Good
  <2> QED BY <1>2, <2>1 DEF ShippingService
<1>7. \A method \in CurrencyService : Good(method)
  <2>1. {Empty, GetSupportedCurrenciesResponse, CurrencyConversionRequest, Money} \subseteq Types
    BY Zenon DEF FlatTypes, NestedTypes, DeepTypes, TopTypes
  <2> HIDE DEF Types, Good
  <2> QED BY <1>2, <2>1 DEF CurrencyService
<1>8. \A method \in PaymentService : Good(method)
  <2>1. {ChargeRequest, ChargeResponse} \subseteq Types
    BY Zenon DEF FlatTypes, NestedTypes, DeepTypes, TopTypes
  <2> HIDE DEF Types, Good
  <2> QED BY <1>2, <2>1 DEF PaymentService
<1>9. \A method \in EmailService : Good(method)
  <2>1. {SendOrderConfirmationRequest, Empty} \subseteq Types
    BY Zenon DEF FlatTypes, NestedTypes, DeepTypes, TopTypes
  <2> HIDE DEF Types, Good
  <2> QED BY <1>2, <2>1 DEF EmailService
<1>10. \A method \in CheckoutService : Good(method)
  <2>1. {PlaceOrderRequest, PlaceOrderResponse} \subseteq Types
    BY Zenon DEF FlatTypes, NestedTypes, DeepTypes, TopTypes
  <2> HIDE DEF Types, Good
  <2> QED BY <1>2, <2>1 DEF CheckoutService
<1>11. \A method \in AdService : Good(method)
  <2>1. {AdRequest, AdResponse} \subseteq Types
    BY Zenon DEF FlatTypes, NestedTypes, DeepTypes, TopTypes
  <2> HIDE DEF Types, Good
  <2> QED BY <1>2, <2>1 DEF AdService
<1>12. \A method \in FeatureFlagService : Good(method)
  <2>1. {GetFlagRequest, GetFlagResponse, CreateFlagRequest, CreateFlagResponse,
      UpdateFlagRequest, UpdateFlagResponse, ListFlagsRequest, ListFlagsResponse,
      DeleteFlagRequest, DeleteFlagResponse} \subseteq Types
    BY Zenon DEF FlatTypes, NestedTypes, DeepTypes, TopTypes
  <2> HIDE DEF Types, Good
  <2> QED BY <1>2, <2>1 DEF FeatureFlagService
<1> HIDE DEF Types, Good
<1>13. \A service \in Services : \A method \in service : Good(method)
  BY <1>3, <1>4, <1>5, <1>6, <1>7, <1>8, <1>9, <1>10, <1>11, <1>12 DEF Services
<1> QED BY <1>1, <1>13 DEF Good

-----------------------------------------------------------------------------
(* The promise of the generated code, level by level.                      *)

\* A message in which no message nests is read as it was meant.
LEMMA FlatFaithful == FlatProofs!Faithful
<1>1. FlatProofs!InnerFaithful BY Zenon DEF FlatProofs!InnerFaithful
<1>2. MaxSafe \in Nat BY BoundsAssumption
<1> QED BY <1>1, <1>2, FlatProofs!Level

\* So is one in which such messages nest.
LEMMA NestedFaithful == NestedProofs!Faithful
<1>1. NestedProofs!InnerFaithful
  BY FlatFaithful, SameFlat, Zenon DEF FlatProofs!Faithful, NestedProofs!InnerFaithful
<1>2. MaxSafe \in Nat BY BoundsAssumption
<1> QED BY <1>1, <1>2, NestedProofs!Level

\* So is one a level deeper.
LEMMA DeepFaithful == DeepProofs!Faithful
<1>1. DeepProofs!InnerFaithful
  BY NestedFaithful, SameNested, Zenon DEF NestedProofs!Faithful, DeepProofs!InnerFaithful
<1>2. MaxSafe \in Nat BY BoundsAssumption
<1> QED BY <1>1, <1>2, DeepProofs!Level

\* So messages that nest in any message are read as they were meant.
LEMMA InnerIsFaithful == TopProofs!InnerFaithful
  BY DeepFaithful, SameDeep, Zenon DEF DeepProofs!Faithful, TopProofs!InnerFaithful

\* What Next does with the fields is what the lemmas are about.
LEMMA SameFields ==
  /\ \A s : TopProofs!FlattenSeq(s) = FlattenSeq(s)
  /\ \A w : TopProofs!Arriving(w) = Arriving(w)
  /\ \A f, s : TopProofs!Hits(f, s) = Hits(f, s)
  /\ \A t : TopProofs!Plain(t) = Plain(t)
  /\ \A f : TopProofs!SpelledOut(f) = << <<Tag(f), 0>> >>
  /\ \A s, i, e : TopProofs!InsertAt(s, i, e) = InsertAt(s, i, e)
<1>1. \A s : TopProofs!FlattenSeq(s) = FlattenSeq(s)
  BY Zenon DEF TopProofs!FlattenSeq, FlattenSeq
<1>2. \A w : TopProofs!Arriving(w) = Arriving(w)
  BY Zenon DEF TopProofs!Arriving, Arriving
<1>3. \A f : TopProofs!Tag(f) = Tag(f)
  BY Zenon DEF TopProofs!Tag, Tag, TopProofs!Delimited, Delimited
<1>4. \A f, s : TopProofs!Hits(f, s) = Hits(f, s)
  BY <1>1, <1>3, Zenon DEF TopProofs!Hits, Hits
<1>5. \A t : TopProofs!Plain(t) = Plain(t)
  BY Zenon DEF TopProofs!Plain, Plain
<1>6. \A f : TopProofs!SpelledOut(f) = << <<Tag(f), 0>> >>
  BY <1>3, Zenon DEF TopProofs!SpelledOut
<1>7. \A s, i, e : TopProofs!InsertAt(s, i, e) = InsertAt(s, i, e)
  BY Zenon DEF TopProofs!InsertAt, InsertAt
<1> QED BY <1>1, <1>2, <1>4, <1>5, <1>6, <1>7

\* The fields that carry an object, as they travel.
Carries(t, o, fields) == TopProofs!Carries(t, o, fields)
IsMessage(t, o) == IsType(t) /\ IsObject(t, o)

\* The object filled in is one of its type that can be written, as safe as it was, and
\* JSON gives it back.
LEMMA Filling ==
  ASSUME NEW t, NEW o, IsMessage(t, o)
  PROVE  /\ IsMessage(t, Fill(t, o))
         /\ ~Unwritable(t, Fill(t, o))
         /\ Unsafe(t, Fill(t, o)) <=> Unsafe(t, o)
         /\ Fill(t, toJSON(t, Fill(t, o))) = Fill(t, o)
<1>1. MaxSafe \in Nat /\ TopProofs!InnerFaithful BY BoundsAssumption, InnerIsFaithful
<1>2. TopProofs!IsType(t) /\ TopProofs!IsObject(t, o) BY SameTop, Zenon DEF IsMessage
<1>3. /\ TopProofs!IsObject(t, TopProofs!Fill(t, o))
      /\ ~TopProofs!Unwritable(t, TopProofs!Fill(t, o))
      /\ TopProofs!Unsafe(t, TopProofs!Fill(t, o)) <=> TopProofs!Unsafe(t, o)
      /\ TopProofs!Fill(t, TopProofs!toJSON(t, TopProofs!Fill(t, o))) = TopProofs!Fill(t, o)
  BY <1>1, <1>2, TopProofs!FillIs
<1> QED BY <1>3, SameTop, Zenon DEF IsMessage

\* What encode writes are fields that carry the object.
LEMMA Writing ==
  ASSUME NEW t, NEW o, IsMessage(t, o), ~Unwritable(t, o)
  PROVE  /\ encode(t, o) = FlattenSeq(Arriving(encode(t, o)))
         /\ Carries(t, o, Arriving(encode(t, o)))
<1> DEFINE fields == TopProofs!Fields(t, o)
<1>1. MaxSafe \in Nat /\ TopProofs!InnerFaithful BY BoundsAssumption, InnerIsFaithful
<1>2. TopProofs!IsType(t) /\ TopProofs!IsObject(t, o) /\ ~TopProofs!Unwritable(t, o)
  BY SameTop, Zenon DEF IsMessage
<1>3. TopProofs!Carries(t, o, fields) BY <1>1, <1>2, TopProofs!EncodeCarries
<1>4. TopProofs!Arriving(TopProofs!FlattenSeq(fields)) = fields
  BY <1>1, <1>2, <1>3, TopProofs!CarriedReads
<1>5. TopProofs!encode(t, o) = TopProofs!FlattenSeq(fields)
  BY Zenon DEF TopProofs!encode, TopProofs!Fields, TopProofs!Parts
<1> HIDE DEF fields
<1>6. encode(t, o) = FlattenSeq(fields) /\ Arriving(encode(t, o)) = fields
  BY <1>4, <1>5, SameTop, SameFields, Zenon
<1> QED BY <1>3, <1>6, Zenon DEF Carries

\* Fields that carry an object arrive as they were sent, and are read as the object.
LEMMA Reading ==
  ASSUME NEW t, NEW o, IsMessage(t, o), ~Unwritable(t, o), NEW fields, Carries(t, o, fields)
  PROVE  /\ Arriving(FlattenSeq(fields)) = fields
         /\ decode(t, FlattenSeq(fields)) = Fill(t, o)
         /\ Unreadable(t, FlattenSeq(fields)) <=> Unsafe(t, o)
<1>1. MaxSafe \in Nat /\ TopProofs!InnerFaithful BY BoundsAssumption, InnerIsFaithful
<1>2. TopProofs!IsType(t) /\ TopProofs!IsObject(t, o) /\ ~TopProofs!Unwritable(t, o)
  BY SameTop, Zenon DEF IsMessage
<1>3. TopProofs!Carries(t, o, fields) BY Zenon DEF Carries
<1>4. /\ TopProofs!Arriving(TopProofs!FlattenSeq(fields)) = fields
      /\ TopProofs!decode(t, TopProofs!FlattenSeq(fields)) = TopProofs!Fill(t, o)
      /\ TopProofs!Unreadable(t, TopProofs!FlattenSeq(fields)) <=> TopProofs!Unsafe(t, o)
  BY <1>1, <1>2, <1>3, TopProofs!CarriedReads
<1> QED BY <1>4, SameTop, SameFields, Zenon

\* A library's liberties leave fields that carry the object.
LEMMA Liberties ==
  ASSUME NEW t, IsType(t), NEW o, NEW fields, Carries(t, o, fields)
  PROVE  /\ \A i \in 1 .. Len(fields) - 1 :
              fields[i][1] # fields[i + 1][1] =>
                Carries(t, o, [fields EXCEPT ![i] = fields[i + 1], ![i + 1] = fields[i]])
         /\ \A n \in Plain(t) :
              ~t[n].many /\ Hits(t[n], fields) = <<>> =>
                Carries(t, o, fields \o << <<Tag(t[n]), 0>> >>)
         /\ \A i \in 1 .. Len(fields) + 1 :
            \A field \in {<<8 * NewField, 1>>, <<8 * NewField + 2, 2, 10, 0>>} :
              Carries(t, o, InsertAt(fields, i, field))
<1>1. TopProofs!IsType(t) /\ TopProofs!Carries(t, o, fields) BY SameTop, Zenon DEF Carries
<1>2. \A i \in 1 .. Len(fields) - 1 :
        fields[i][1] # fields[i + 1][1] =>
          TopProofs!Carries(t, o, TopProofs!Swapped(fields, i))
  BY <1>1, TopProofs!SwapCarries
<1>3. \A n \in TopProofs!Plain(t) :
        ~t[n].many /\ TopProofs!Hits(t[n], fields) = <<>> =>
          TopProofs!Carries(t, o, fields \o TopProofs!SpelledOut(t[n]))
  BY <1>1, TopProofs!SpelledOutCarries
<1>4. \A i \in 1 .. Len(fields) + 1 :
      \A field \in {<<8 * TopProofs!NewField, 1>>, <<8 * TopProofs!NewField + 2, 2, 10, 0>>} :
        TopProofs!Carries(t, o, TopProofs!InsertAt(fields, i, field))
  BY <1>1, TopProofs!NewFieldCarries
<1>5. TopProofs!NewField = NewField BY DEF TopProofs!NewField, NewField
<1>6. \A i : TopProofs!Swapped(fields, i)
               = [fields EXCEPT ![i] = fields[i + 1], ![i + 1] = fields[i]]
  BY Zenon DEF TopProofs!Swapped
<1>7. \A i \in 1 .. Len(fields) - 1 :
        fields[i][1] # fields[i + 1][1] =>
          Carries(t, o, [fields EXCEPT ![i] = fields[i + 1], ![i + 1] = fields[i]])
  BY <1>2, <1>6, Zenon DEF Carries
<1>8. \A n \in Plain(t) :
        ~t[n].many /\ Hits(t[n], fields) = <<>> =>
          Carries(t, o, fields \o << <<Tag(t[n]), 0>> >>)
  BY <1>3, SameFields, Zenon DEF Carries
<1>9. \A i \in 1 .. Len(fields) + 1 :
      \A field \in {<<8 * NewField, 1>>, <<8 * NewField + 2, 2, 10, 0>>} :
        Carries(t, o, InsertAt(fields, i, field))
  BY <1>4, <1>5, SameFields, Zenon DEF Carries
<1> QED BY <1>7, <1>8, <1>9

-----------------------------------------------------------------------------
(* The behaviours: what travels carries the object from the moment it is   *)
(* written, whatever liberties are taken with it.                          *)

Travels ==
  /\ ~Unwritable(Type, object)
  /\ words = FlattenSeq(Arriving(words))
  /\ Carries(Type, object, Arriving(words))

Writer ==
  /\ half \in {"request", "response"}
  /\ IsMessage(Type, object)
  /\ half = "request" => ~Unsafe(Type, object)
  /\ half = "response" => ~Unwritable(Type, object)
Reader ==
  /\ phase \in {"read", "json", "parsed"} => got = Fill(Type, object)
  /\ phase = "json" => json = toJSON(Type, got)
  /\ phase = "parsed" => json = got
  /\ phase = "unreadable" => Unsafe(Type, object)
  /\ phase = "read" => ~Unsafe(Type, object)
IInv ==
  /\ Writer
  /\ phase = "written" => Travels
  /\ Reader

\* A behaviour starts from an object of a type of the services.
LEMMA InvInit == Init => IInv
<1> SUFFICES ASSUME Init PROVE IInv OBVIOUS
<1>1. PICK service \in Services : rpc \in service BY Zenon DEF Init
<1>2. half \in {"request", "response"} /\ phase = "made" BY Zenon DEF Init
<1>3. PICK o \in Objects(Type) :
        IF half = "request" THEN ~Unsafe(Type, o) /\ object = o
                            ELSE object = fromPartial(Type, o)
  BY Zenon DEF Init
<1>4. IsType(Type) BY <1>1, <1>2, MethodTypes, Zenon DEF Type
<1>5. IsObject(Type, o)
  <2>1. \A t \in {rpc.request, rpc.response} : \A x \in Objects(t) : IsObject(t, x)
    BY <1>1, ObjectsAssumption, Zenon
  <2>2. Type \in {rpc.request, rpc.response}
    <3>1. CASE half = "request" BY <3>1 DEF Type
    <3>2. CASE half = "response" BY <3>2 DEF Type
    <3> QED BY <1>2, <3>1, <3>2
  <2> QED BY <1>3, <2>1, <2>2
<1>6. Writer
  <2>1. CASE half = "request"
    <3>1. ~Unsafe(Type, o) /\ object = o BY <1>3, <2>1, Zenon
    <3>2. half # "response" BY <2>1
    <3> QED BY <1>2, <1>4, <1>5, <3>1, <3>2, Zenon DEF Writer, IsMessage
  <2>2. CASE half = "response"
    <3>1. half # "request" BY <2>2
    <3>2. object = Fill(Type, o) BY <1>3, <3>1, Zenon DEF fromPartial
    <3>3. IsMessage(Type, o) BY <1>4, <1>5, Zenon DEF IsMessage
    <3>4. IsMessage(Type, object) /\ ~Unwritable(Type, object) BY <3>2, <3>3, Filling, Zenon
    <3> QED BY <1>2, <3>1, <3>4, Zenon DEF Writer
  <2> QED BY <1>2, <2>1, <2>2
<1>7. phase \notin {"read", "json", "parsed", "unreadable", "written"} BY <1>2
<1>8. Reader BY <1>7 DEF Reader
<1> QED BY <1>6, <1>7, <1>8 DEF IInv

\* What is written by a step is read by a later one.
LEMMA EditTravels ==
  ASSUME IInv, phase = "written", NEW fields, Carries(Type, object, fields),
         words' = FlattenSeq(fields), UNCHANGED <<rpc, half, object, phase, got, json>>
  PROVE  IInv'
<1>1. IsMessage(Type, object) /\ ~Unwritable(Type, object)
  BY Zenon DEF IInv, Writer, Travels
<1>2. Arriving(FlattenSeq(fields)) = fields BY <1>1, Reading
<1>3. Travels'
  <2>1. words' = FlattenSeq(Arriving(words')) /\ Carries(Type, object, Arriving(words'))
    BY <1>2, Zenon
  <2>2. Type' = Type BY DEF Type
  <2> QED BY <1>1, <2>1, <2>2, Zenon DEF Travels
<1>4. Writer' /\ Reader' BY DEF IInv, Writer, Reader, Type
<1> QED BY <1>3, <1>4 DEF IInv

\* Every step keeps the invariant.
LEMMA InvNext == IInv /\ [Next]_vars => IInv'
<1> SUFFICES ASSUME IInv, [Next]_vars PROVE IInv' OBVIOUS
<1>0. IsMessage(Type, object) /\ half \in {"request", "response"} BY DEF IInv, Writer
<1>1. CASE UNCHANGED vars
  BY <1>1 DEF vars, IInv, Writer, Reader, Travels, Type
<1>2. CASE create
  <2>1. /\ half = "request" /\ phase = "made" /\ UNCHANGED <<rpc, half, phase>>
        /\ object' = Fill(Type, object)
    BY <1>2, Zenon DEF create, fromPartial
  <2>2. Type' = Type BY <2>1 DEF Type
  <2>3. IsMessage(Type, object') /\ ~Unsafe(Type, object')
    BY <1>0, <2>1, Filling DEF IInv, Writer
  <2>4. half # "response" /\ phase \notin {"read", "json", "parsed", "unreadable", "written"}
    BY <2>1
  <2>5. Writer' BY <2>1, <2>2, <2>3, <2>4 DEF Writer
  <2>6. Reader' BY <2>1, <2>4 DEF Reader
  <2> QED BY <2>1, <2>4, <2>5, <2>6 DEF IInv
<1>3. ASSUME phase' = "written", words' = encode(Type, object), ~Unwritable(Type, object),
             UNCHANGED <<rpc, half, object>>
      PROVE  IInv'
  <2>1. Type' = Type BY <1>3 DEF Type
  <2>2. Travels' BY <1>0, <1>3, <2>1, Writing, Zenon DEF Travels
  <2>3. Writer' BY <1>3, <2>1 DEF IInv, Writer
  <2>4. Reader' BY <1>3 DEF Reader
  <2> QED BY <2>2, <2>3, <2>4 DEF IInv
<1>4. CASE requestSerialize
  <2>1. CASE Unwritable(Type, object)
    <3>1. phase' = "unwritable" /\ UNCHANGED <<rpc, half, object>>
      BY <1>4, <2>1, Zenon DEF requestSerialize
    <3>2. Writer' BY <3>1 DEF IInv, Writer, Type
    <3>3. Reader' BY <3>1 DEF Reader
    <3> QED BY <3>1, <3>2, <3>3 DEF IInv
  <2>2. CASE ~Unwritable(Type, object)
    BY <1>3, <1>4, <2>2, Zenon DEF requestSerialize
  <2> QED BY <2>1, <2>2
<1>5. CASE ServiceWrites
  <2>1. ~Unwritable(Type, object) BY <1>5, Zenon DEF ServiceWrites, IInv, Writer
  <2> QED BY <1>3, <1>5, <2>1, Zenon DEF ServiceWrites
<1>6. ASSUME phase = "written", phase' = "read", got' = decode(Type, words),
             ~Unsafe(Type, object), UNCHANGED <<rpc, half, object>>
      PROVE  IInv'
  <2>1. Type' = Type BY <1>6 DEF Type
  <2>2. got' = Fill(Type, object)
    <3>1. Travels BY <1>6 DEF IInv
    <3>2. decode(Type, FlattenSeq(Arriving(words))) = Fill(Type, object)
      BY <1>0, <3>1, Reading DEF Travels
    <3> QED BY <1>6, <3>1, <3>2, Zenon DEF Travels
  <2>3. Writer' BY <1>6, <2>1 DEF IInv, Writer
  <2>4. Reader' BY <1>6, <2>1, <2>2 DEF Reader
  <2>5. phase' # "written" BY <1>6
  <2> QED BY <2>3, <2>4, <2>5 DEF IInv
<1>7. CASE ServiceReads
  <2>1. ~Unsafe(Type, object) BY <1>7, Zenon DEF ServiceReads, IInv, Writer
  <2> QED BY <1>6, <1>7, <2>1, Zenon DEF ServiceReads
<1>8. CASE responseDeserialize
  <2>1. phase = "written" /\ UNCHANGED <<rpc, half, object>>
    BY <1>8, Zenon DEF responseDeserialize
  <2>2. Travels BY <2>1 DEF IInv
  <2>3. Unreadable(Type, words) <=> Unsafe(Type, object)
    <3>1. Unreadable(Type, FlattenSeq(Arriving(words))) <=> Unsafe(Type, object)
      BY <1>0, <2>2, Reading DEF Travels
    <3> QED BY <2>2, <3>1, Zenon DEF Travels
  <2>4. CASE Unreadable(Type, words)
    <3>1. phase' = "unreadable" BY <1>8, <2>4, Zenon DEF responseDeserialize
    <3>2. Writer' BY <2>1 DEF IInv, Writer, Type
    <3>3. Unsafe(Type, object)' BY <2>1, <2>3, <2>4 DEF Type
    <3>4. Reader' BY <3>1, <3>3 DEF Reader
    <3> QED BY <3>1, <3>2, <3>4 DEF IInv
  <2>5. CASE ~Unreadable(Type, words)
    BY <1>6, <1>8, <2>1, <2>3, <2>5, Zenon DEF responseDeserialize
  <2> QED BY <2>4, <2>5
<1>9. CASE ServiceReorders
  <2> DEFINE fields == Arriving(words)
  <2>1. PICK i \in 1 .. Len(fields) - 1 :
          /\ fields[i][1] # fields[i + 1][1]
          /\ Edit([fields EXCEPT ![i] = fields[i + 1], ![i + 1] = fields[i]])
    BY <1>9, Zenon DEF ServiceReorders
  <2>2. phase = "written" BY <1>9, Zenon DEF ServiceReorders, Editable
  <2>3. Carries(Type, object, fields) BY <2>2, Zenon DEF IInv, Travels
  <2> HIDE DEF fields
  <2>4. Carries(Type, object, [fields EXCEPT ![i] = fields[i + 1], ![i + 1] = fields[i]])
    BY <1>0, <2>1, <2>3, Liberties, Zenon DEF IsMessage
  <2> QED BY <2>1, <2>2, <2>4, EditTravels, Zenon DEF Edit
<1>10. CASE ServiceSpellsOut
  <2> DEFINE fields == Arriving(words)
  <2>1. PICK n \in Plain(Type) :
          /\ ~Type[n].many /\ Hits(Type[n], fields) = <<>>
          /\ Edit(fields \o << <<Tag(Type[n]), 0>> >>)
    BY <1>10, Zenon DEF ServiceSpellsOut
  <2>2. phase = "written" BY <1>10, Zenon DEF ServiceSpellsOut, Editable
  <2>3. Carries(Type, object, fields) BY <2>2, Zenon DEF IInv, Travels
  <2> HIDE DEF fields
  <2>4. Carries(Type, object, fields \o << <<Tag(Type[n]), 0>> >>)
    BY <1>0, <2>1, <2>3, Liberties, Zenon DEF IsMessage
  <2> QED BY <2>1, <2>2, <2>4, EditTravels, Zenon DEF Edit
<1>11. CASE ServiceExtends
  <2> DEFINE fields == Arriving(words)
  <2>1. PICK i \in 1 .. Len(fields) + 1,
             field \in {<<8 * NewField, 1>>, <<8 * NewField + 2, 2, 10, 0>>} :
          Edit(InsertAt(fields, i, field))
    BY <1>11, Zenon DEF ServiceExtends
  <2>2. phase = "written" BY <1>11, Zenon DEF ServiceExtends, Editable
  <2>3. Carries(Type, object, fields) BY <2>2, Zenon DEF IInv, Travels
  <2> HIDE DEF fields
  <2>4. Carries(Type, object, InsertAt(fields, i, field))
    BY <1>0, <2>1, <2>3, Liberties, Zenon DEF IsMessage
  <2> QED BY <2>1, <2>2, <2>4, EditTravels, Zenon DEF Edit
<1>12. CASE Stringify
  <2>1. /\ phase = "read" /\ phase' = "json" /\ json' = toJSON(Type, got)
        /\ UNCHANGED <<rpc, half, object, got>>
    BY <1>12, Zenon DEF Stringify
  <2>2. Type' = Type BY <2>1 DEF Type
  <2>3. Writer' BY <2>1, <2>2 DEF IInv, Writer
  <2>4. Reader' BY <2>1, <2>2 DEF IInv, Reader
  <2> QED BY <2>1, <2>3, <2>4 DEF IInv
<1>13. CASE Parse
  <2>1. /\ phase = "json" /\ phase' = "parsed" /\ json' = Fill(Type, json)
        /\ UNCHANGED <<rpc, half, object, got>>
    BY <1>13, Zenon DEF Parse, fromJSON
  <2>2. Type' = Type BY <2>1 DEF Type
  <2>3. got = Fill(Type, object) /\ json = toJSON(Type, got) BY <2>1 DEF IInv, Reader
  <2>4. json' = got BY <1>0, <2>1, <2>3, Filling, Zenon
  <2>5. Writer' BY <2>1, <2>2 DEF IInv, Writer
  <2>6. Reader' BY <2>1, <2>2, <2>3, <2>4 DEF Reader
  <2> QED BY <2>1, <2>5, <2>6 DEF IInv
<1> QED
  BY <1>1, <1>2, <1>4, <1>5, <1>7, <1>8, <1>9, <1>10, <1>11, <1>12, <1>13 DEF Next

\* Every reachable state satisfies the invariant.
THEOREM Invariant == Spec => []IInv
  BY InvInit, InvNext, PTL DEF Spec

\* What is read is what was meant: the reader has the message create would have made of
\* the writer's object, and JSON gives it back.
THEOREM ReadCorrect == Spec => []ReadAsMeant
<1>1. IInv => ReadAsMeant BY DEF IInv, Reader, ReadAsMeant, fromPartial
<1> QED BY <1>1, Invariant, PTL

\* A response cannot be read exactly when an amount in it is beyond the integers a number
\* holds.
THEOREM UnreadableCorrect == Spec => []UnreadableIsUnsafe
<1>1. IInv => UnreadableIsUnsafe BY DEF IInv, Reader, UnreadableIsUnsafe
<1> QED BY <1>1, Invariant, PTL
=============================================================================
