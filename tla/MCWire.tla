------------------------------ MODULE MCWire ------------------------------
(* Sample objects: every field has a telling value, except that one field   *)
(* anywhere in the object, or in a message it holds, is undefined or has    *)
(* another value of its kind.                                               *)
EXTENDS Wire

Values(f) ==
    CASE f.kind = "string" -> {<<>>, <<1>>, <<2, 1>>}
      [] f.kind = "int32"  -> {-1, 0, 1}
      [] f.kind = "int64"  -> {-MaxSafe - 1, -MaxSafe, 0, 1, MaxSafe, MaxSafe + 1}
      [] f.kind = "bool"   -> BOOLEAN

RECURSIVE Usual(_)
UsualValue(f) ==
    CASE f.kind = "message" -> Usual(f.type)
      [] f.kind = "string"  -> <<1>>
      [] f.kind = "bool"    -> TRUE
      [] OTHER              -> 1
Usual(t) ==
    [n \in DOMAIN t |-> IF t[n].many THEN <<UsualValue(t[n])>> ELSE UsualValue(t[n])]

RECURSIVE MCObjects(_)
Others(f) ==
    LET values == IF f.kind = "message" THEN MCObjects(f.type) ELSE Values(f)
    IN  IF f.many THEN {<<>>} \cup {<<v>> : v \in values}
                        \cup {<<v, UsualValue(f)>> : v \in values}
                  ELSE values
MCObjects(t) ==
    {<<>>, Usual(t)}
    \cup UNION {{[Usual(t) EXCEPT ![n] = v] : v \in Others(t[n])} : n \in DOMAIN t}
    \cup {[k \in DOMAIN t \ {n} |-> Usual(t)[k]] : n \in DOMAIN t}
=============================================================================
