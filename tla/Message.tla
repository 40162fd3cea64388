------------------------------ MODULE Message ------------------------------
(***************************************************************************)
(* The code ts-proto 1.181.1 generates for one message type of             *)
(* pb/demo.proto (react-native-app/protos/demo.ts is a copy of it; the     *)
(* frontend generates its own at build time): createBase, encode, decode,  *)
(* fromJSON, toJSON and fromPartial.                                       *)
(*                                                                         *)
(* A type is a function from the names of its fields to their number, kind *)
(* and multiplicity, and the code is defined once over that table.  For a  *)
(* message in a message it calls the code of the inner type: here the      *)
(* operators of the CONSTANTS, for which module Wire puts those of the     *)
(* level below.                                                            *)
(*                                                                         *)
(* A message is a function on the names that have a value: a name outside  *)
(* its domain is a property that is undefined.  A text is a sequence of    *)
(* letters (integers), and what travels is a sequence of words: a tag,     *)
(* then a number, or a length and as many words.                           *)
(***************************************************************************)
EXTENDS Integers, SequencesExt

CONSTANTS
    MaxSafe,              \* Number.MAX_SAFE_INTEGER, scaled down
    InnerType(_),         \* the types an inner message may have
    InnerObject(_, _),    \* what may be given for a message of a type
    InnerFill(_, _),      \* fromPartial, and fromJSON, of the inner types
    InnerToJSON(_, _),    \* their toJSON
    InnerUnwritable(_, _),\* whether their encode throws ...
    InnerEncode(_, _),    \* ... and what it writes
    InnerUnreadable(_, _),\* whether their decode throws ...
    InnerDecode(_, _),    \* ... and what it makes of the words
    InnerUnsafe(_, _)     \* whether a long of an inner message is no safe integer

---------------------------------------------------------------------------
(* Fields: number, kind, the type of a message, and whether it repeats.    *)
Field(number, kind, type, many) ==
    [number |-> number, kind |-> kind, type |-> type, many |-> many]

String(number)     == Field(number, "string", <<>>, FALSE)
Int32(number)      == Field(number, "int32", <<>>, FALSE)
Int64(number)      == Field(number, "int64", <<>>, FALSE)
Bool(number)       == Field(number, "bool", <<>>, FALSE)
Strings(number)    == Field(number, "string", <<>>, TRUE)
One(number, type)  == Field(number, "message", type, FALSE)
Many(number, type) == Field(number, "message", type, TRUE)

Numbers == 1 .. 6          \* those that the fields of demo.proto have
NewField == 15             \* one of a field that a newer schema adds
Kinds == {"string", "int32", "int64", "bool", "message"}

\* A type that the generator accepts, and whose inner types it has code for.
IsType(t) ==
    \A n \in DOMAIN t :
        /\ t[n].number \in Numbers
        /\ t[n].kind \in Kinds
        /\ t[n].many \in BOOLEAN
        /\ t[n].many => t[n].kind \in {"string", "message"}
        /\ t[n].kind = "message" => InnerType(t[n].type)
        /\ \A m \in DOMAIN t : t[m].number = t[n].number => m = n

\* A value of a field, or of an element of its list, as TypeScript types it.  Numbers
\* are those that fit the width of their field, which travel as they are.
IsValue(f, v) ==
    /\ f.kind = "string" => v \in Seq(Int)
    /\ f.kind \in {"int32", "int64"} => v \in Int
    /\ f.kind = "bool" => v \in BOOLEAN
    /\ f.kind = "message" => InnerObject(f.type, v)
IsList(v) == v \in Seq({v[i] : i \in DOMAIN v})

\* DeepPartial: an object of the type, of which any property may be undefined.
IsObject(t, o) ==
    /\ DOMAIN o \subseteq DOMAIN t
    /\ \A n \in DOMAIN o :
          IF t[n].many THEN IsList(o[n]) /\ \A i \in DOMAIN o[n] : IsValue(t[n], o[n][i])
                       ELSE IsValue(t[n], o[n])

---------------------------------------------------------------------------
(* createBase: the value a field has until it is given one.                *)
Default(f) ==
    CASE f.many \/ f.kind = "string" -> <<>>
      [] f.kind = "bool"             -> FALSE
      [] OTHER                       -> 0

\* The fields of a type that always hold a value: all but single messages.
Plain(t) == {n \in DOMAIN t : t[n].many \/ t[n].kind # "message"}

\* A list element by element, and a message through the code of its type; any
\* other value as it is.
FillField(f, v) ==
    CASE f.kind = "message" /\ f.many  -> [i \in DOMAIN v |-> InnerFill(f.type, v[i])]
      [] f.kind = "message" /\ ~f.many -> InnerFill(f.type, v)
      [] OTHER                         -> v
Fill(t, o) ==
    [n \in Plain(t) \cup DOMAIN o |->
        IF n \in DOMAIN o THEN FillField(t[n], o[n]) ELSE Default(t[n])]

fromPartial(t, o) == Fill(t, o)

fromJSON(t, o) == Fill(t, o)

JSONField(f, v) ==
    CASE f.kind = "message" /\ f.many  -> [i \in DOMAIN v |-> InnerToJSON(f.type, v[i])]
      [] f.kind = "message" /\ ~f.many -> InnerToJSON(f.type, v)
      [] OTHER                         -> v
toJSON(t, m) ==
    [n \in {k \in DOMAIN m : k \in Plain(t) => m[k] # Default(t[k])}
        |-> JSONField(t[n], m[n])]

---------------------------------------------------------------------------
(* What travels.                                                           *)
Delimited(f) == f.kind \in {"string", "message"}
Tag(f) == 8 * f.number + (IF Delimited(f) THEN 2 ELSE 0)

Body(f, v) == IF f.kind = "message" THEN InnerEncode(f.type, v) ELSE v
Put(f, v) ==
    CASE Delimited(f)    -> <<Tag(f), Len(Body(f, v))>> \o Body(f, v)
      [] f.kind = "bool" -> <<Tag(f), IF v THEN 1 ELSE 0>>
      [] OTHER           -> <<Tag(f), v>>

\* Mutant: the test against the default is made for each text of a list.
Written_SkipsEmpty(t, o, n) ==
    CASE n \notin DOMAIN o ->
            IF t[n].kind = "message" THEN <<>> ELSE <<Default(t[n])>>
      [] n \in DOMAIN o /\ t[n].many ->
            SelectSeq(o[n], LAMBDA v : t[n].kind = "message" \/ v # <<>>)
      [] OTHER ->
            IF t[n].kind # "message" /\ o[n] = Default(t[n]) THEN <<>> ELSE <<o[n]>>

\* The values that are written for a field.  A message that is not set and a
\* default are not; an int32 or a boolean that is undefined differs from its
\* default, and is written as 0.
Written(t, o, n) ==
    CASE n \notin DOMAIN o ->
            IF t[n].kind = "message" THEN <<>> ELSE <<Default(t[n])>>
      [] n \in DOMAIN o /\ t[n].many -> o[n]
      [] OTHER ->
            IF t[n].kind # "message" /\ o[n] = Default(t[n]) THEN <<>> ELSE <<o[n]>>

\* The fields go out in the order of their numbers.
EncodeField(t, o, number) ==
    IF \E n \in DOMAIN t : t[n].number = number
    THEN LET n == CHOOSE n \in DOMAIN t : t[n].number = number
             values == Written(t, o, n)
         IN  [i \in DOMAIN values |-> Put(t[n], values[i])]
    ELSE <<>>
encode(t, o) ==
    FlattenSeq(FlattenSeq([number \in Numbers |-> EncodeField(t, o, number)]))

\* encode throws: it iterates a list, measures a text or splits a long that is
\* undefined.
Unwritable(t, o) ==
    \E n \in DOMAIN t :
        IF n \in DOMAIN o
        THEN /\ t[n].kind = "message"
             /\ IF t[n].many
                THEN \E i \in DOMAIN o[n] : InnerUnwritable(t[n].type, o[n][i])
                ELSE InnerUnwritable(t[n].type, o[n])
        ELSE t[n].many \/ t[n].kind \in {"string", "int64"}

\* The fields of a message as they arrive: while (reader.pos < end), each turn reads
\* one.  A group's end or a zero tag ends it, too.
Arriving(words) ==
    LET ended(pos) == \/ pos >= Len(words)
                      \/ words[pos + 1] = 0
                      \/ words[pos + 1] % 8 = 4
        next(pos) == pos + (IF words[pos + 1] % 8 = 2 THEN 2 + words[pos + 2] ELSE 2)
        reader[turn \in Nat] ==
            IF turn = 0 THEN [pos |-> 0, fields |-> <<>>]
            ELSE LET was == reader[turn - 1]
                 IN  IF ended(was.pos) THEN was
                     ELSE [pos    |-> next(was.pos),
                           fields |-> Append(was.fields,
                                             SubSeq(words, was.pos + 1, next(was.pos)))]
    IN  reader[Len(words)].fields

\* Those of one field, by its tag.
Hits(f, fields) ==
    FlattenSeq([i \in DOMAIN fields |->
                   IF fields[i][1] = Tag(f) THEN <<fields[i]>> ELSE <<>>])

Payload(e) == SubSeq(e, 3, Len(e))
Take(f, e) ==
    CASE f.kind = "message" -> InnerDecode(f.type, Payload(e))
      [] f.kind = "string"  -> Payload(e)
      [] f.kind = "bool"    -> e[2] # 0
      [] OTHER              -> e[2]
\* Every occurrence of a list's field is pushed; of any other the last one stays.
decode(t, words) ==
    LET fields == Arriving(words)
    IN  [n \in {k \in DOMAIN t : k \in Plain(t) \/ Hits(t[k], fields) # <<>>} |->
            LET hits == Hits(t[n], fields)
            IN  CASE t[n].many -> [i \in DOMAIN hits |-> Take(t[n], hits[i])]
                  [] ~t[n].many /\ hits = <<>> -> Default(t[n])
                  [] OTHER -> Take(t[n], hits[Len(hits)])]

\* Mutant: only the upper limit is tested.
longToNumberThrows_Above(long) == long > MaxSafe

longToNumberThrows(long) == long > MaxSafe \/ long < -MaxSafe

\* decode throws: some long on its way is beyond the integers a number holds.
Unreadable(t, words) ==
    LET fields == Arriving(words)
    IN  \E n \in DOMAIN t : \E i \in DOMAIN fields :
            /\ fields[i][1] = Tag(t[n])
            /\ \/ t[n].kind = "int64" /\ longToNumberThrows(fields[i][2])
               \/ t[n].kind = "message" /\ InnerUnreadable(t[n].type, Payload(fields[i]))

\* Some amount in the object is beyond the integers a number holds exactly.
UnsafeValue(f, v) ==
    \/ f.kind = "int64" /\ (v > MaxSafe \/ v < -MaxSafe)
    \/ f.kind = "message" /\ InnerUnsafe(f.type, v)
Unsafe(t, o) ==
    \E n \in DOMAIN o :
        IF t[n].many THEN \E i \in DOMAIN o[n] : UnsafeValue(t[n], o[n][i])
                     ELSE UnsafeValue(t[n], o[n])
=============================================================================
