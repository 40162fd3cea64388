------------------------- MODULE OrderEventsProofs -------------------------
(***************************************************************************)
(* Proofs about the orders topic: PostProcessor, which writes it, for any  *)
(* set of orders, buffers of any size and any number of copies; and        *)
(* OrderConsumers, which read it, for a topic of any length, any number of *)
(* kills, any records that do not parse and any configuration of the Kafka *)
(* clients.  accounting loses one order at most to each kill; and what     *)
(* fraud-detection commits without having screened it is a record that     *)
(* does not parse, or behind one in its batch.                             *)
(***************************************************************************)
EXTENDS PostProcessor, OrderConsumers, FiniteSetTheorems, FunctionTheorems, TLAPS

-----------------------------------------------------------------------------
(* Counting.                                                               *)

\* One element more is one more.
LEMMA Grows ==
  ASSUME NEW S, IsFiniteSet(S), NEW x, x \notin S
  PROVE  IsFiniteSet(S \cup {x}) /\ Cardinality(S \cup {x}) = Cardinality(S) + 1
BY FS_AddElement

\* One element less is one less.
LEMMA Shrinks ==
  ASSUME NEW S, IsFiniteSet(S), NEW x, x \in S
  PROVE  IsFiniteSet(S \ {x}) /\ Cardinality(S \ {x}) = Cardinality(S) - 1
BY FS_RemoveElement

\* A finite set has a natural number of elements.
LEMMA CountNat == ASSUME NEW S, IsFiniteSet(S) PROVE Cardinality(S) \in Nat
BY FS_CardinalityType

\* Where a message stands in a sequence.
Places(s, m) == {i \in DOMAIN s : s[i] = m}
Count(s, m) == Cardinality(Places(s, m))

\* A message stands at finitely many places.
LEMMA PlacesFinite ==
  ASSUME NEW s \in Seq(Orders), NEW m
  PROVE  IsFiniteSet(Places(s, m)) /\ Count(s, m) \in Nat
<1>1. Places(s, m) \in SUBSET (1..Len(s)) BY DEF Places
<1>2. IsFiniteSet(1..Len(s)) BY FS_Interval
<1> QED BY <1>1, <1>2, FS_Subset, CountNat DEF Count

\* No message is in the empty sequence.
LEMMA EmptyCount == ASSUME NEW m PROVE Count(<< >>, m) = 0
<1>1. Places(<< >>, m) = {} BY DEF Places
<1> QED BY <1>1, FS_EmptySet DEF Count

\* A message more at the end.
LEMMA AppendCount ==
  ASSUME NEW s \in Seq(Orders), NEW x \in Orders, NEW m
  PROVE  /\ x = m => Count(Append(s, x), m) = Count(s, m) + 1
         /\ x # m => Count(Append(s, x), m) = Count(s, m)
<1> DEFINE n == Len(s) + 1
<1>1. /\ Len(s) \in Nat /\ DOMAIN s = 1..Len(s) /\ DOMAIN Append(s, x) = 1..n
      /\ \A i \in 1..Len(s) : Append(s, x)[i] = s[i]
      /\ Append(s, x)[n] = x
  OBVIOUS
<1>2. n \notin Places(s, m) BY <1>1 DEF Places
<1>3. x = m => Places(Append(s, x), m) = Places(s, m) \cup {n} BY <1>1 DEF Places
<1>4. x # m => Places(Append(s, x), m) = Places(s, m) BY <1>1 DEF Places
<1>5. Cardinality(Places(s, m) \cup {n}) = Cardinality(Places(s, m)) + 1
  BY <1>2, PlacesFinite, Grows
<1> QED BY <1>3, <1>4, <1>5 DEF Count

\* The first message less: the others move up by one place.
LEMMA TailCount ==
  ASSUME NEW s \in Seq(Orders), s # << >>, NEW m
  PROVE  /\ Head(s) = m => Count(s, m) = Count(Tail(s), m) + 1
         /\ Head(s) # m => Count(s, m) = Count(Tail(s), m)
<1> DEFINE t == Tail(s)
           P == Places(t, m)
           Q == Places(s, m) \ {1}
           f == [i \in P |-> i + 1]
<1>1. /\ Len(s) \in Nat /\ Len(s) > 0 /\ DOMAIN s = 1..Len(s) /\ t \in Seq(Orders)
      /\ DOMAIN t = 1..(Len(s) - 1) /\ Head(s) = s[1]
      /\ \A i \in 1..(Len(s) - 1) : t[i] = s[i + 1]
  OBVIOUS
<1>2. IsFiniteSet(P) /\ IsFiniteSet(Places(s, m)) BY <1>1, PlacesFinite
<1>3. f \in Bijection(P, Q)
  <2>1. \A i \in P : i \in 1..(Len(s) - 1) /\ s[i + 1] = m BY <1>1 DEF Places
  <2>2. \A i \in P : i + 1 \in Q BY <1>1, <2>1 DEF Places
  <2>3. \A i, j \in P : f[i] = f[j] => i = j BY <2>1
  <2>4. \A q \in Q : q - 1 \in P /\ f[q - 1] = q
    <3> TAKE q \in Q
    <3>1. q \in 2..Len(s) /\ s[q] = m BY <1>1 DEF Places
    <3>2. q - 1 \in 1..(Len(s) - 1) /\ t[q - 1] = s[q] BY <1>1, <3>1
    <3>3. q - 1 \in P BY <1>1, <3>1, <3>2 DEF Places
    <3> QED BY <3>1, <3>3
  <2> QED BY <2>2, <2>3, <2>4, Fun_IsBij
<1>4. Cardinality(Q) = Cardinality(P)
  BY <1>2, <1>3, FS_Bijection, Fun_ExistsBij
<1>5. Head(s) = m => 1 \in Places(s, m) BY <1>1 DEF Places
<1>6. Head(s) # m => Places(s, m) = Q BY <1>1 DEF Places
<1>7. Head(s) = m => Cardinality(Q) = Cardinality(Places(s, m)) - 1
  BY <1>2, <1>5, Shrinks
<1>8. Cardinality(P) \in Nat /\ Cardinality(Places(s, m)) \in Nat BY <1>2, CountNat
<1> HIDE DEF P, Q
<1>9. Count(s, m) = Cardinality(Places(s, m)) /\ Count(t, m) = Cardinality(P)
  BY DEF Count, P
<1>10. CASE Head(s) = m BY <1>4, <1>7, <1>8, <1>9, <1>10
<1>11. CASE Head(s) # m BY <1>4, <1>6, <1>9, <1>11
<1> QED BY <1>10, <1>11

-----------------------------------------------------------------------------
(* Types.                                                                  *)

\* The initial states are of their types.
LEMMA TypeInit == Init => TypeOK
BY CapacityAssumption, CopiesAssumption DEF Init, TypeOK

\* A handler that finishes keeps the types.
LEMMA FinishTypes ==
  ASSUME TypeOK, NEW h \in Orders, Finish(h)
  PROVE  /\ at' = [at EXCEPT ![h] = "returned"]
         /\ pushing' \in [Orders -> 0..Copies]
         /\ pushing'[h] \in {0, Copies}
         /\ \A m \in Orders \ {h} : pushing'[m] = pushing[m]
         /\ asked' \in [Orders -> {0, Copies}] /\ asked'[h] = pushing'[h]
         /\ \A m \in Orders \ {h} : asked'[m] = asked[m]
BY CopiesAssumption DEF TypeOK, Finish

\* Every step keeps the types.
LEMMA TypeNext == TypeOK /\ [Next]_vars => TypeOK'
<1> SUFFICES ASSUME TypeOK, [Next]_vars PROVE TypeOK' OBVIOUS
<1>1. ASSUME NEW h \in Orders, Enter(h) \/ SendCancelled(h) PROVE TypeOK'
  BY <1>1 DEF Enter, SendCancelled, TypeOK
<1>2. ASSUME NEW h \in Orders, Send(h) PROVE TypeOK'
  <2>1. queue' \in Seq(Orders) /\ Len(queue') <= Capacity
    BY <1>2, CapacityAssumption DEF Send, Room, TypeOK
  <2> QED BY <1>2, <2>1 DEF Send, TypeOK
<1>3. ASSUME NEW h \in Orders, NEW kind \in Kinds, Receive(h, kind) PROVE TypeOK'
  <2>1. offer[kind] \in Orders BY <1>3 DEF Receive, TypeOK
  <2>2. got' \in [Orders -> (Kinds \X Orders) \cup {Nothing}]
    BY <1>3, <2>1 DEF Receive, TypeOK
  <2>3. Finish(h) BY <1>3 DEF Receive
  <2> QED BY <1>3, <2>2, <2>3, FinishTypes DEF Receive, TypeOK
<1>4. ASSUME NEW h \in Orders, WaitCancelled(h) PROVE TypeOK'
  <2>1. Finish(h) BY <1>4 DEF WaitCancelled
  <2>2. walked' \in Nat BY <1>4 DEF WaitCancelled, TypeOK
  <2> QED BY <1>4, <2>1, <2>2, FinishTypes DEF WaitCancelled, TypeOK
<1>5. ASSUME NEW m \in Orders, SendCopy(m) PROVE TypeOK'
  <2>1. queue' \in Seq(Orders) /\ Len(queue') <= Capacity
    BY <1>5, CapacityAssumption DEF SendCopy, Room, TypeOK
  <2>2. pushing' \in [Orders -> 0..Copies]
    BY <1>5, CopiesAssumption DEF SendCopy, TypeOK
  <2> QED BY <1>5, <2>1, <2>2 DEF SendCopy, TypeOK
<1>6. CASE ReceiveCopy BY <1>6 DEF ReceiveCopy, TypeOK, Kinds
<1>7. CASE Drain BY <1>7 DEF Drain, TypeOK, Kinds
<1>8. ASSUME NEW kind \in Kinds, NEW stored \in BOOLEAN, SettleAs(kind, stored)
      PROVE  TypeOK'
  <2>1. Head(queue) \in Orders /\ Tail(queue) \in Seq(Orders)
        /\ Len(Tail(queue)) = Len(queue) - 1 /\ Len(queue) \in Nat
    BY <1>8 DEF SettleAs, TypeOK
  <2>2. queue' \in Seq(Orders) /\ Len(queue') <= Capacity
    BY <1>8, <2>1, CapacityAssumption DEF SettleAs, TypeOK
  <2>3. log' \in Seq(Orders) BY <1>8, <2>1 DEF SettleAs, TypeOK
  <2>4. offer' \in [Kinds -> Orders \cup {None}] BY <1>8, <2>1 DEF SettleAs, TypeOK
  <2> QED BY <1>8, <2>2, <2>3, <2>4 DEF SettleAs, TypeOK
<1>9. CASE Crash
  <2>1. at' \in [Orders -> {"idle", "sending", "waiting", "returned"}]
    BY <1>9 DEF Crash
  <2>2. queue' \in Seq(Orders) /\ Len(queue') <= Capacity
    BY <1>9, CapacityAssumption DEF Crash
  <2> QED BY <1>9, <2>1, <2>2, CopiesAssumption DEF Crash, TypeOK
<1>10. CASE UNCHANGED vars BY <1>10 DEF vars, TypeOK
<1> QED BY <1>1, <1>2, <1>3, <1>4, <1>5, <1>6, <1>7, <1>8, <1>9, <1>10
        DEF Next, Settle, Kinds

\* The variables keep their types: in particular the producer never holds more
\* messages than it buffers.
THEOREM TypeCorrect == Spec => []TypeOK
BY TypeInit, TypeNext, PTL DEF Spec

-----------------------------------------------------------------------------
(* The books of the channels.                                              *)

\* Waiting and Held, of any state of the handlers and the channels.
WaitingIn(a) == {h \in Orders : a[h] = "waiting"}
HeldIn(o, kind) == IF o[kind] = None THEN 0 ELSE 1
HeldInBoth(o) == HeldIn(o, "success") + HeldIn(o, "error")

\* Finitely many handlers wait.
LEMMA WaitingFinite ==
  ASSUME NEW a
  PROVE  IsFiniteSet(WaitingIn(a)) /\ Cardinality(WaitingIn(a)) \in Nat
<1>1. WaitingIn(a) \in SUBSET Orders BY DEF WaitingIn
<1> QED BY <1>1, OrdersAssumption, FS_Subset, CountNat

\* A handler that begins to wait is one more.
LEMMA OneMoreWaits ==
  ASSUME NEW a, NEW b, NEW h \in Orders, a[h] # "waiting", b[h] = "waiting",
         \A g \in Orders \ {h} : b[g] = a[g]
  PROVE  Cardinality(WaitingIn(b)) = Cardinality(WaitingIn(a)) + 1
<1>1. WaitingIn(b) = WaitingIn(a) \cup {h} /\ h \notin WaitingIn(a) BY DEF WaitingIn
<1> QED BY <1>1, WaitingFinite, Grows

\* A handler that ends to wait is one less.
LEMMA OneLessWaits ==
  ASSUME NEW a, NEW b, NEW h \in Orders, a[h] = "waiting", b[h] # "waiting",
         \A g \in Orders \ {h} : b[g] = a[g]
  PROVE  Cardinality(WaitingIn(b)) = Cardinality(WaitingIn(a)) - 1
<1>1. WaitingIn(b) = WaitingIn(a) \ {h} /\ h \in WaitingIn(a) BY DEF WaitingIn
<1> QED BY <1>1, WaitingFinite, Shrinks

\* As many wait as before if the same do.
LEMMA SameWait ==
  ASSUME NEW a, NEW b,
         \A g \in Orders : (a[g] = "waiting") <=> (b[g] = "waiting")
  PROVE  Cardinality(WaitingIn(b)) = Cardinality(WaitingIn(a))
<1>1. WaitingIn(b) = WaitingIn(a) BY DEF WaitingIn
<1> QED BY <1>1

\* Where no handler waits their number is 0.
LEMMA NobodyWaits ==
  ASSUME NEW a, \A g \in Orders : a[g] # "waiting"
  PROVE  Cardinality(WaitingIn(a)) = 0
<1>1. WaitingIn(a) = {} BY DEF WaitingIn
<1> QED BY <1>1, FS_EmptySet

\* OutcomesBalance with its parts named.
Balance(a, n, g, q, o, d) ==
  Cardinality(WaitingIn(a)) + n + g = Len(q) + HeldInBoth(o) + d

\* The property as a statement on the values of the variables ...
LEMMA BalanceDef ==
  ASSUME TypeOK
  PROVE  OutcomesBalance <=> Balance(at, listening, walked, queue, offer, drained)
<1>1. HeldInBoth(offer) = Held("success") + Held("error") /\ Waiting = WaitingIn(at)
  BY DEF HeldInBoth, HeldIn, Held, Waiting, WaitingIn
<1>2. Held("success") \in Nat /\ Held("error") \in Nat BY DEF Held
<1>3. Len(queue) \in Nat /\ drained \in Nat BY DEF TypeOK
<1> QED BY <1>1, <1>2, <1>3 DEF OutcomesBalance, Balance, Outcomes

\* ... and on those after a step.
LEMMA BalanceDefNext ==
  ASSUME TypeOK'
  PROVE  OutcomesBalance'
           <=> Balance(at', listening', walked', queue', offer', drained')
<1>1. /\ HeldInBoth(offer') = (Held("success") + Held("error"))'
      /\ Waiting' = WaitingIn(at')
  BY DEF HeldInBoth, HeldIn, Held, Waiting, WaitingIn
<1>2. Held("success")' \in Nat /\ Held("error")' \in Nat BY DEF Held
<1>3. Len(queue') \in Nat /\ drained' \in Nat BY DEF TypeOK
<1> QED BY <1>1, <1>2, <1>3 DEF OutcomesBalance, Balance, Outcomes

\* Taking the outcome held on one channel leaves the other alone.
LEMMA OneTaken ==
  ASSUME NEW o, NEW p, NEW kind \in Kinds, DOMAIN o = Kinds,
         o[kind] # None, p = [o EXCEPT ![kind] = None]
  PROVE  HeldInBoth(p) = HeldInBoth(o) - 1
<1>1. CASE kind = "success"
  <2>1. p["success"] = None /\ p["error"] = o["error"] BY <1>1 DEF Kinds
  <2> QED BY <1>1, <2>1 DEF HeldInBoth, HeldIn
<1>2. CASE kind = "error"
  <2>1. p["error"] = None /\ p["success"] = o["success"] BY <1>2 DEF Kinds
  <2> QED BY <1>2, <2>1 DEF HeldInBoth, HeldIn
<1> QED BY <1>1, <1>2 DEF Kinds

\* An outcome that is offered is one more.
LEMMA OneOffered ==
  ASSUME NEW o, NEW p, NEW kind \in Kinds, NEW m, DOMAIN o = Kinds,
         o[kind] = None, m # None, p = [o EXCEPT ![kind] = m]
  PROVE  HeldInBoth(p) = HeldInBoth(o) + 1
<1>1. CASE kind = "success"
  <2>1. p["success"] = m /\ p["error"] = o["error"] BY <1>1 DEF Kinds
  <2> QED BY <1>1, <2>1 DEF HeldInBoth, HeldIn
<1>2. CASE kind = "error"
  <2>1. p["error"] = m /\ p["success"] = o["success"] BY <1>2 DEF Kinds
  <2> QED BY <1>2, <2>1 DEF HeldInBoth, HeldIn
<1> QED BY <1>1, <1>2 DEF Kinds

\* The books balance at first.
LEMMA BalanceInit == Init => OutcomesBalance
<1> SUFFICES ASSUME Init PROVE OutcomesBalance OBVIOUS
<1>1. Cardinality(WaitingIn(at)) = 0 BY NobodyWaits DEF Init
<1>2. HeldIn(offer, "success") = 0 /\ HeldIn(offer, "error") = 0
  BY DEF Init, HeldIn, Kinds
<1> QED BY <1>1, <1>2, TypeInit, BalanceDef DEF Init, Balance, HeldInBoth

\* Every step keeps outcomes and waiting handlers in balance.
LEMMA BalanceNext == TypeOK /\ OutcomesBalance /\ [Next]_vars => OutcomesBalance'
<1> SUFFICES ASSUME TypeOK, OutcomesBalance, [Next]_vars
             PROVE  Balance(at', listening', walked', queue', offer', drained')
  BY BalanceDefNext, TypeNext
<1> DEFINE W == Cardinality(WaitingIn(at))
           V == Cardinality(WaitingIn(at'))
           H == HeldInBoth(offer)
           G == HeldInBoth(offer')
<1>a. W + listening + walked = Len(queue) + H + drained
  <2>1. Len(queue) \in Nat /\ drained \in Nat BY DEF TypeOK
  <2> QED BY <2>1, BalanceDef DEF Balance
<1>b. W \in Nat /\ V \in Nat /\ H \in Nat /\ G \in Nat
  BY WaitingFinite DEF HeldInBoth, HeldIn
<1>c. listening \in Nat /\ walked \in Nat /\ Len(queue) \in Nat /\ drained \in Nat
  BY DEF TypeOK
<1>d. SUFFICES V + listening' + walked' = Len(queue') + G + drained'
  <2>1. TypeOK' BY TypeNext
  <2>2. Len(queue') \in Nat /\ drained' \in Nat BY <2>1 DEF TypeOK
  <2> QED BY <1>d, <2>2 DEF Balance
<1>e. DOMAIN offer = Kinds /\ DOMAIN at = Orders /\ queue \in Seq(Orders)
  BY DEF TypeOK
<1> HIDE DEF W, V, H, G
<1>1. ASSUME NEW h \in Orders, Enter(h) \/ SendCancelled(h)
      PROVE  V + listening' + walked' = Len(queue') + G + drained'
  <2>1. V = W BY <1>1, <1>e, SameWait DEF Enter, SendCancelled, V, W
  <2>2. G = H BY <1>1 DEF Enter, SendCancelled, G, H
  <2> QED BY <1>1, <1>a, <2>1, <2>2 DEF Enter, SendCancelled
<1>2. ASSUME NEW h \in Orders, Send(h)
      PROVE  V + listening' + walked' = Len(queue') + G + drained'
  <2>1. V = W + 1 BY <1>2, <1>e, OneMoreWaits DEF Send, V, W
  <2>2. G = H BY <1>2 DEF Send, G, H
  <2>3. Len(queue') = Len(queue) + 1 BY <1>2, <1>e DEF Send
  <2>4. listening' = listening /\ walked' = walked /\ drained' = drained
    BY <1>2 DEF Send
  <2> QED BY <1>a, <1>b, <1>c, <2>1, <2>2, <2>3, <2>4
<1>3. ASSUME NEW h \in Orders, NEW kind \in Kinds, Receive(h, kind)
      PROVE  V + listening' + walked' = Len(queue') + G + drained'
  <2>1. V = W - 1 BY <1>3, <1>e, OneLessWaits DEF Receive, Finish, V, W
  <2>2. offer[kind] # None /\ offer' = [offer EXCEPT ![kind] = None]
    BY <1>3 DEF Receive
  <2>3. G = H - 1 BY <1>e, <2>2, OneTaken DEF G, H
  <2> QED BY <1>3, <1>a, <1>b, <1>c, <2>1, <2>3 DEF Receive
<1>4. ASSUME NEW h \in Orders, WaitCancelled(h)
      PROVE  V + listening' + walked' = Len(queue') + G + drained'
  <2>1. V = W - 1 BY <1>4, <1>e, OneLessWaits DEF WaitCancelled, Finish, V, W
  <2>2. G = H BY <1>4 DEF WaitCancelled, G, H
  <2> QED BY <1>4, <1>a, <1>b, <1>c, <2>1, <2>2 DEF WaitCancelled
<1>5. ASSUME NEW m \in Orders, SendCopy(m)
      PROVE  V + listening' + walked' = Len(queue') + G + drained'
  <2>1. V = W /\ G = H BY <1>5 DEF SendCopy, V, W, G, H
  <2>2. Len(queue') = Len(queue) + 1 BY <1>5, <1>e DEF SendCopy
  <2> QED BY <1>5, <1>a, <1>b, <1>c, <2>1, <2>2 DEF SendCopy
<1>6. CASE ReceiveCopy
  <2>1. V = W BY <1>6 DEF ReceiveCopy, V, W
  <2>2. /\ "success" \in Kinds /\ offer["success"] # None
        /\ offer' = [offer EXCEPT !["success"] = None]
    BY <1>6 DEF ReceiveCopy, Kinds
  <2>3. G = H - 1 BY <1>e, <2>2, OneTaken DEF G, H
  <2> QED BY <1>6, <1>a, <1>b, <1>c, <2>1, <2>3 DEF ReceiveCopy
<1>7. CASE Drain
  <2>1. V = W BY <1>7 DEF Drain, V, W
  <2>2. /\ "error" \in Kinds /\ offer["error"] # None
        /\ offer' = [offer EXCEPT !["error"] = None]
    BY <1>7 DEF Drain, Kinds
  <2>3. G = H - 1 BY <1>e, <2>2, OneTaken DEF G, H
  <2> QED BY <1>7, <1>a, <1>b, <1>c, <2>1, <2>3 DEF Drain
<1>8. ASSUME NEW kind \in Kinds, NEW stored \in BOOLEAN, SettleAs(kind, stored)
      PROVE  V + listening' + walked' = Len(queue') + G + drained'
  <2>1. V = W BY <1>8 DEF SettleAs, V, W
  <2>2. Head(queue) \in Orders /\ Len(queue') = Len(queue) - 1
    BY <1>8, <1>e DEF SettleAs
  <2>3. Head(queue) # None BY <2>2, OrdersAssumption
  <2>4. offer[kind] = None /\ offer' = [offer EXCEPT ![kind] = Head(queue)]
    BY <1>8 DEF SettleAs
  <2>5. G = H + 1 BY <1>e, <2>3, <2>4, OneOffered DEF G, H
  <2>6. listening' = listening /\ walked' = walked /\ drained' = drained
    BY <1>8 DEF SettleAs
  <2> QED BY <1>a, <1>b, <1>c, <2>1, <2>2, <2>5, <2>6
<1>9. CASE Crash
  <2>1. \A g \in Orders : at'[g] # "waiting" BY <1>9 DEF Crash
  <2>2. V = 0 BY <2>1, NobodyWaits DEF V
  <2>3. G = 0 BY <1>9 DEF Crash, G, HeldInBoth, HeldIn, Kinds
  <2> QED BY <1>9, <2>2, <2>3 DEF Crash
<1>10. CASE UNCHANGED vars
  <2>1. V = W /\ G = H BY <1>10 DEF vars, V, W, G, H
  <2> QED BY <1>10, <1>a, <2>1 DEF vars
<1> QED BY <1>1, <1>2, <1>3, <1>4, <1>5, <1>6, <1>7, <1>8, <1>9, <1>10
        DEF Next, Settle, Kinds

\* The books of the two channels balance whatever the handlers, the copies, the
\* error logger and the producer do.
THEOREM BooksBalance == Spec => []OutcomesBalance
<1>1. TypeOK /\ OutcomesBalance /\ [Next]_vars => (TypeOK /\ OutcomesBalance)'
  BY TypeNext, BalanceNext
<1> QED BY TypeInit, BalanceInit, <1>1, PTL DEF Spec

-----------------------------------------------------------------------------
(* What was sent bounds what is stored and what comes back.                *)

\* The outcomes of a message that handlers took, and those held on the channels.
TakenBy(g, m) == {h \in Orders : g[h] \in Kinds \X {m}}
OfferedOn(o, m) == {kind \in Kinds : o[kind] = m}
Taken(g, m) == Cardinality(TakenBy(g, m))
Offered(o, m) == Cardinality(OfferedOn(o, m))

\* A handler hands its message over once, then pushes the copies that the flag it
\* read asks for: none before it has returned.
SentForTheFlag ==
  \A m \in Orders :
    /\ at[m] \in {"idle", "sending"} => sent[m] = 0 /\ pushing[m] = 0 /\ asked[m] = 0
    /\ at[m] = "waiting" => sent[m] = 1 /\ pushing[m] = 0
    /\ sent[m] + pushing[m] <= 1 + asked[m]

WithinSent(n, l, q, g, o) ==
  \A m \in Orders :
    /\ Count(l, m) + Count(q, m) <= n[m]
    /\ Taken(g, m) + Offered(o, m) + Count(q, m) <= n[m]

Sound == TypeOK /\ SentForTheFlag /\ WithinSent(sent, log, queue, got, offer)

\* Finitely many handlers have taken an outcome of a message.
LEMMA TakenFinite ==
  ASSUME NEW g, NEW m
  PROVE  IsFiniteSet(TakenBy(g, m)) /\ Taken(g, m) \in Nat
<1>1. TakenBy(g, m) \in SUBSET Orders BY DEF TakenBy
<1> QED BY <1>1, OrdersAssumption, FS_Subset, CountNat DEF Taken

\* A message is offered on finitely many channels.
LEMMA OfferedFinite ==
  ASSUME NEW o, NEW m
  PROVE  IsFiniteSet(OfferedOn(o, m)) /\ Offered(o, m) \in Nat
<1>1. OfferedOn(o, m) \in SUBSET Kinds BY DEF OfferedOn
<1>2. IsFiniteSet({}) BY FS_EmptySet
<1>3. IsFiniteSet({} \cup {"success"}) BY <1>2, FS_AddElement
<1>4. IsFiniteSet({} \cup {"success"} \cup {"error"}) BY <1>3, FS_AddElement
<1>5. Kinds = {} \cup {"success"} \cup {"error"} BY DEF Kinds
<1>6. IsFiniteSet(Kinds) BY <1>4, <1>5
<1> QED BY <1>1, <1>6, FS_Subset, CountNat DEF Offered

\* A handler that takes one outcome takes one outcome of its message.
LEMMA TakesOne ==
  ASSUME NEW g \in [Orders -> (Kinds \X Orders) \cup {Nothing}], NEW f,
         NEW h \in Orders, NEW kind \in Kinds, NEW x \in Orders, NEW m \in Orders,
         f = [g EXCEPT ![h] = <<kind, x>>]
  PROVE  /\ x = m => Taken(f, m) <= Taken(g, m) + 1
         /\ x # m => Taken(f, m) <= Taken(g, m)
<1>1. \A k \in Orders \ {h} : f[k] = g[k] OBVIOUS
<1>2. f[h] = <<kind, x>> OBVIOUS
<1>3. TakenBy(f, m) \subseteq TakenBy(g, m) \cup {h} BY <1>1 DEF TakenBy
<1>4. x # m => TakenBy(f, m) \subseteq TakenBy(g, m) BY <1>1, <1>2 DEF TakenBy
<1>5. IsFiniteSet(TakenBy(g, m) \cup {h})
      /\ Cardinality(TakenBy(g, m) \cup {h}) <= Cardinality(TakenBy(g, m)) + 1
  <2>1. CASE h \in TakenBy(g, m)
    <3>1. TakenBy(g, m) \cup {h} = TakenBy(g, m) BY <2>1
    <3> QED BY <3>1, TakenFinite DEF Taken
  <2>2. CASE h \notin TakenBy(g, m)
    <3>1. Cardinality(TakenBy(g, m)) \in Nat BY TakenFinite DEF Taken
    <3>2. IsFiniteSet(TakenBy(g, m) \cup {h})
          /\ Cardinality(TakenBy(g, m) \cup {h}) = Cardinality(TakenBy(g, m)) + 1
      BY <2>2, TakenFinite, Grows
    <3> QED BY <3>1, <3>2
  <2> QED BY <2>1, <2>2
<1>6. Cardinality(TakenBy(f, m)) <= Cardinality(TakenBy(g, m) \cup {h})
  BY <1>3, <1>5, FS_Subset
<1>7. x # m => Cardinality(TakenBy(f, m)) <= Cardinality(TakenBy(g, m))
  BY <1>4, TakenFinite, FS_Subset
<1>8. Cardinality(TakenBy(f, m)) \in Nat /\ Cardinality(TakenBy(g, m)) \in Nat
      /\ Cardinality(TakenBy(g, m) \cup {h}) \in Nat
  BY <1>5, TakenFinite, CountNat DEF Taken
<1> QED BY <1>5, <1>6, <1>7, <1>8 DEF Taken

\* Taking the outcome of one channel, and offering one.
LEMMA OfferTaken ==
  ASSUME NEW o, NEW p, NEW kind \in Kinds, NEW m \in Orders, DOMAIN o = Kinds,
         p = [o EXCEPT ![kind] = None]
  PROVE  /\ o[kind] = m => Offered(p, m) = Offered(o, m) - 1
         /\ o[kind] # m => Offered(p, m) = Offered(o, m)
<1>1. \A k \in Kinds \ {kind} : p[k] = o[k] OBVIOUS
<1>2. p[kind] # m BY OrdersAssumption
<1>3. OfferedOn(p, m) = OfferedOn(o, m) \ {kind} BY <1>1, <1>2 DEF OfferedOn
<1>4. o[kind] = m => kind \in OfferedOn(o, m) BY DEF OfferedOn
<1>5. o[kind] # m => OfferedOn(p, m) = OfferedOn(o, m) BY <1>3 DEF OfferedOn
<1>6. kind \in OfferedOn(o, m)
        => Cardinality(OfferedOn(o, m) \ {kind}) = Cardinality(OfferedOn(o, m)) - 1
  BY OfferedFinite, Shrinks
<1> QED BY <1>3, <1>4, <1>5, <1>6 DEF Offered

\* An offer counts for its own message only.
LEMMA OfferMade ==
  ASSUME NEW o, NEW p, NEW kind \in Kinds, NEW x \in Orders, NEW m \in Orders,
         DOMAIN o = Kinds, o[kind] = None, p = [o EXCEPT ![kind] = x]
  PROVE  /\ x = m => Offered(p, m) = Offered(o, m) + 1
         /\ x # m => Offered(p, m) = Offered(o, m)
<1>1. \A k \in Kinds \ {kind} : p[k] = o[k] OBVIOUS
<1>2. p[kind] = x OBVIOUS
<1>3. o[kind] # m BY OrdersAssumption
<1>4. kind \notin OfferedOn(o, m) BY <1>3 DEF OfferedOn
<1>5. x = m => OfferedOn(p, m) = OfferedOn(o, m) \cup {kind}
  BY <1>1, <1>2 DEF OfferedOn
<1>6. x # m => OfferedOn(p, m) = OfferedOn(o, m) BY <1>1, <1>2, <1>3 DEF OfferedOn
<1>7. Cardinality(OfferedOn(o, m) \cup {kind}) = Cardinality(OfferedOn(o, m)) + 1
  BY <1>4, OfferedFinite, Grows
<1> QED BY <1>5, <1>6, <1>7 DEF Offered

\* Where nothing is offered the number is 0.
LEMMA NothingOffered ==
  ASSUME NEW o, NEW m \in Orders, \A kind \in Kinds : o[kind] = None
  PROVE  Offered(o, m) = 0
<1>1. OfferedOn(o, m) = {} BY OrdersAssumption DEF OfferedOn
<1> QED BY <1>1, FS_EmptySet DEF Offered

\* Where nothing is taken the number is 0.
LEMMA NothingTaken ==
  ASSUME NEW g, NEW m \in Orders, \A h \in Orders : g[h] = Nothing
  PROVE  Taken(g, m) = 0
<1>1. TakenBy(g, m) = {} BY OrdersAssumption DEF TakenBy, Nothing
<1> QED BY <1>1, FS_EmptySet DEF Taken

\* The numbers of a message are numbers.
LEMMA FlagTypes ==
  ASSUME TypeOK, NEW m \in Orders
  PROVE  /\ sent[m] \in Nat /\ pushing[m] \in Nat /\ asked[m] \in Nat
         /\ at[m] \in {"idle", "sending", "waiting", "returned"}
<1>1. pushing[m] \in 0..Copies /\ sent[m] \in Nat BY DEF TypeOK
<1>2. asked[m] \in {0, Copies} BY DEF TypeOK
<1>3. at[m] \in {"idle", "sending", "waiting", "returned"} BY DEF TypeOK
<1> QED BY <1>1, <1>2, <1>3, CopiesAssumption

\* A handler that returns has handed its message over once, if it waited, and
\* pushes what the flag asks for.
LEMMA FinishKeepsFlag ==
  ASSUME TypeOK, SentForTheFlag, NEW h \in Orders, at[h] = "waiting", Finish(h), sent' = sent
  PROVE  SentForTheFlag'
<1>1. /\ at' = [at EXCEPT ![h] = "returned"] /\ asked'[h] = pushing'[h]
      /\ pushing'[h] \in 0..Copies
      /\ \A m \in Orders \ {h} : pushing'[m] = pushing[m] /\ asked'[m] = asked[m]
  BY FinishTypes, CopiesAssumption
<1>2. ASSUME NEW m \in Orders \ {h}
      PROVE  at'[m] = at[m] /\ sent'[m] = sent[m] /\ pushing'[m] = pushing[m] /\ asked'[m] = asked[m]
  BY <1>1 DEF TypeOK
<1>3. at'[h] = "returned" /\ sent'[h] = 1 BY <1>1 DEF TypeOK, SentForTheFlag
<1>4. sent'[h] + pushing'[h] <= 1 + asked'[h] BY <1>1, <1>3, CopiesAssumption
<1> QED BY <1>2, <1>3, <1>4 DEF SentForTheFlag

\* Every step hands over no more than the handler and the flag it read ask for.
LEMMA FlagNext == TypeOK /\ SentForTheFlag /\ [Next]_vars => SentForTheFlag'
<1> SUFFICES ASSUME TypeOK, SentForTheFlag, [Next]_vars PROVE SentForTheFlag' OBVIOUS
<1>a. \A m \in Orders : /\ sent[m] \in Nat /\ pushing[m] \in Nat /\ asked[m] \in Nat
                        /\ at[m] \in {"idle", "sending", "waiting", "returned"}
  BY FlagTypes
<1>1. ASSUME NEW h \in Orders, Enter(h) \/ SendCancelled(h) PROVE SentForTheFlag'
  BY <1>1 DEF Enter, SendCancelled, TypeOK, SentForTheFlag
<1>2. ASSUME NEW h \in Orders, Send(h) PROVE SentForTheFlag'
  <2>1. /\ at[h] = "sending" /\ at'[h] = "waiting" /\ sent'[h] = sent[h] + 1
        /\ \A m \in Orders \ {h} : sent'[m] = sent[m] /\ at'[m] = at[m]
        /\ pushing' = pushing /\ asked' = asked
    BY <1>2 DEF Send, TypeOK
  <2>2. sent'[h] = 1 /\ pushing'[h] = 0 /\ asked'[h] = 0
    BY <2>1 DEF SentForTheFlag
  <2> QED BY <2>1, <2>2 DEF SentForTheFlag
<1>3. ASSUME NEW h \in Orders, NEW kind \in Kinds, Receive(h, kind) PROVE SentForTheFlag'
  BY <1>3, FinishKeepsFlag DEF Receive
<1>4. ASSUME NEW h \in Orders, WaitCancelled(h) PROVE SentForTheFlag'
  BY <1>4, FinishKeepsFlag DEF WaitCancelled
<1>5. ASSUME NEW h \in Orders, SendCopy(h) PROVE SentForTheFlag'
  <2>1. at[h] = "returned" BY <1>a, <1>5 DEF SendCopy, SentForTheFlag
  <2>2. /\ sent'[h] = sent[h] + 1 /\ pushing'[h] = pushing[h] - 1
        /\ \A m \in Orders \ {h} : sent'[m] = sent[m] /\ pushing'[m] = pushing[m]
        /\ at' = at /\ asked' = asked
    BY <1>5 DEF SendCopy, TypeOK
  <2>3. sent'[h] + pushing'[h] <= 1 + asked'[h] BY <1>a, <2>2 DEF SentForTheFlag
  <2> QED BY <2>1, <2>2, <2>3 DEF SentForTheFlag
<1>6. CASE ReceiveCopy \/ Drain BY <1>6 DEF ReceiveCopy, Drain, SentForTheFlag
<1>7. CASE Settle BY <1>7 DEF Settle, SettleAs, SentForTheFlag
<1>8. CASE Crash
  <2>1. ASSUME NEW m \in Orders
        PROVE  /\ at'[m] \in {"idle", "returned"} /\ (at'[m] = "idle" => at[m] = "idle")
               /\ pushing'[m] = 0 /\ sent'[m] = sent[m] /\ asked'[m] = asked[m]
    BY <1>8 DEF Crash
  <2>2. ASSUME NEW m \in Orders PROVE sent'[m] + pushing'[m] <= 1 + asked'[m]
    BY <1>a, <2>1 DEF SentForTheFlag
  <2> QED BY <2>1, <2>2 DEF SentForTheFlag
<1>9. CASE UNCHANGED vars BY <1>9 DEF vars, SentForTheFlag
<1> QED BY <1>1, <1>2, <1>3, <1>4, <1>5, <1>6, <1>7, <1>8, <1>9 DEF Next

\* The counts of a message before and after a step.
LEMMA Counts ==
  ASSUME Sound, TypeOK', NEW m \in Orders
  PROVE  /\ Count(log, m) \in Nat /\ Count(queue, m) \in Nat
         /\ Taken(got, m) \in Nat /\ Offered(offer, m) \in Nat
         /\ sent[m] \in Nat
         /\ Count(log', m) \in Nat /\ Count(queue', m) \in Nat
         /\ Taken(got', m) \in Nat /\ Offered(offer', m) \in Nat
         /\ Count(log, m) + Count(queue, m) <= sent[m]
         /\ Taken(got, m) + Offered(offer, m) + Count(queue, m)
              <= sent[m]
<1>1. /\ Count(log, m) + Count(queue, m) <= sent[m]
      /\ Taken(got, m) + Offered(offer, m) + Count(queue, m) <= sent[m]
  BY DEF Sound, WithinSent
<1>2. sent[m] \in Nat BY DEF Sound, TypeOK
<1>3. Count(log, m) \in Nat /\ Count(queue, m) \in Nat BY PlacesFinite DEF Sound, TypeOK
<1>4. Count(log', m) \in Nat /\ Count(queue', m) \in Nat BY PlacesFinite DEF TypeOK
<1>5. /\ Taken(got, m) \in Nat /\ Offered(offer, m) \in Nat
      /\ Taken(got', m) \in Nat /\ Offered(offer', m) \in Nat
  BY TakenFinite, OfferedFinite
<1> QED BY <1>1, <1>2, <1>3, <1>4, <1>5

\* Nothing is handed over at first.
LEMMA SoundInit == Init => Sound
<1> SUFFICES ASSUME Init PROVE Sound OBVIOUS
<1>1. TypeOK BY TypeInit
<1>2. SentForTheFlag BY CopiesAssumption DEF Init, SentForTheFlag
<1>3. ASSUME NEW m \in Orders
      PROVE  /\ Count(log, m) + Count(queue, m) <= sent[m]
             /\ Taken(got, m) + Offered(offer, m) + Count(queue, m)
                  <= sent[m]
  <2>1. Count(log, m) = 0 /\ Count(queue, m) = 0 BY EmptyCount DEF Init
  <2>2. Taken(got, m) = 0 BY NothingTaken DEF Init
  <2>3. Offered(offer, m) = 0 BY NothingOffered DEF Init
  <2>4. sent[m] = 0 BY DEF Init
  <2> QED BY <2>1, <2>2, <2>3, <2>4
<1> QED BY <1>1, <1>2, <1>3 DEF Sound, WithinSent

\* Every step keeps what was received within what was handed over.
LEMMA SoundNext == Sound /\ [Next]_vars => Sound'
<1> SUFFICES ASSUME Sound, [Next]_vars PROVE Sound' OBVIOUS
<1> DEFINE L(m) == Count(log, m)
           Q(m) == Count(queue, m)
           T(m) == Taken(got, m)
           O(m) == Offered(offer, m)
           S(m) == sent[m]
           LL(m) == Count(log', m)
           QQ(m) == Count(queue', m)
           TT(m) == Taken(got', m)
           OO(m) == Offered(offer', m)
           SS(m) == sent'[m]
           Fits == \A m \in Orders : /\ LL(m) + QQ(m) <= SS(m)
                                     /\ TT(m) + OO(m) + QQ(m) <= SS(m)
<1>a. TypeOK' BY TypeNext DEF Sound
<1>b. SUFFICES Fits
  <2>1. SentForTheFlag' BY FlagNext DEF Sound
  <2> QED BY <1>a, <1>b, <2>1 DEF Sound, WithinSent
<1>c. \A m \in Orders :
        /\ L(m) \in Nat /\ Q(m) \in Nat /\ T(m) \in Nat /\ O(m) \in Nat /\ S(m) \in Nat
        /\ LL(m) \in Nat /\ QQ(m) \in Nat /\ TT(m) \in Nat /\ OO(m) \in Nat
        /\ L(m) + Q(m) <= S(m) /\ T(m) + O(m) + Q(m) <= S(m)
  BY <1>a, Counts
<1>d. /\ TypeOK /\ SentForTheFlag /\ DOMAIN offer = Kinds /\ DOMAIN at = Orders
      /\ queue \in Seq(Orders) /\ log \in Seq(Orders)
      /\ got \in [Orders -> (Kinds \X Orders) \cup {Nothing}]
      /\ sent \in [Orders -> Nat]
  BY DEF Sound, TypeOK
<1>e. \A m \in Orders : SS(m) \in Nat BY <1>a DEF TypeOK
<1> HIDE DEF L, Q, T, O, S, LL, QQ, TT, OO, SS
<1>1. ASSUME NEW h \in Orders, Enter(h) \/ SendCancelled(h) PROVE Fits
  <2>1. \A m \in Orders : /\ LL(m) = L(m) /\ QQ(m) = Q(m) /\ TT(m) = T(m)
                          /\ OO(m) = O(m) /\ SS(m) = S(m)
    BY <1>1 DEF Enter, SendCancelled, L, Q, T, O, S, LL, QQ, TT, OO, SS
  <2> QED BY <1>c, <2>1
<1>3. ASSUME NEW h \in Orders, Send(h) PROVE Fits
  <2>2. \A m \in Orders : LL(m) = L(m) /\ TT(m) = T(m) /\ OO(m) = O(m)
    BY <1>3 DEF Send, L, T, O, LL, TT, OO
  <2>3. queue' = Append(queue, h) BY <1>3 DEF Send
  <2>4. QQ(h) = Q(h) + 1 /\ \A m \in Orders \ {h} : QQ(m) = Q(m)
    BY <1>d, <2>3, AppendCount DEF Q, QQ
  <2>5. SS(h) = S(h) + 1 BY <1>3, <1>d DEF Send, S, SS
  <2>6. \A m \in Orders \ {h} : SS(m) = S(m) BY <1>3, <1>d DEF Send, S, SS
  <2>7. ASSUME NEW m \in Orders
        PROVE  LL(m) + QQ(m) <= SS(m) /\ TT(m) + OO(m) + QQ(m) <= SS(m)
    <3>1. CASE m = h BY <1>c, <2>2, <2>4, <2>5, <3>1
    <3>2. CASE m # h BY <1>c, <2>2, <2>4, <2>6, <3>2
    <3> QED BY <3>1, <3>2
  <2> QED BY <2>7
<1>4. ASSUME NEW h \in Orders, NEW kind \in Kinds, Receive(h, kind) PROVE Fits
  <2>2. \A m \in Orders : SS(m) = S(m) BY <1>4 DEF Receive, S, SS
  <2>3. PICK x \in Orders : x = offer[kind] BY <1>4, <1>d DEF Receive, TypeOK
  <2>4. got' = [got EXCEPT ![h] = <<kind, x>>] /\ offer' = [offer EXCEPT ![kind] = None]
    BY <1>4, <2>3 DEF Receive
  <2>5. \A m \in Orders : LL(m) = L(m) /\ QQ(m) = Q(m)
    BY <1>4 DEF Receive, L, Q, LL, QQ
  <2>6. \A m \in Orders : /\ x = m => TT(m) <= T(m) + 1
                          /\ x # m => TT(m) <= T(m)
    BY <1>d, <2>4, TakesOne DEF T, TT
  <2>7. \A m \in Orders : /\ x = m => OO(m) = O(m) - 1
                          /\ x # m => OO(m) = O(m)
    <3>1. ASSUME NEW m \in Orders
          PROVE  /\ x = m => Offered(offer', m) = Offered(offer, m) - 1
                 /\ x # m => Offered(offer', m) = Offered(offer, m)
      <4>1. DOMAIN offer = Kinds BY <1>d
      <4>2. offer' = [offer EXCEPT ![kind] = None] BY <2>4
      <4>3. /\ offer[kind] = m => Offered(offer', m) = Offered(offer, m) - 1
            /\ offer[kind] # m => Offered(offer', m) = Offered(offer, m)
        BY <4>1, <4>2, OfferTaken
      <4> QED BY <2>3, <4>3
    <3> QED BY <3>1 DEF O, OO
  <2>8. ASSUME NEW m \in Orders
        PROVE  LL(m) + QQ(m) <= SS(m) /\ TT(m) + OO(m) + QQ(m) <= SS(m)
    <3>1. CASE m = x BY <1>c, <2>2, <2>5, <2>6, <2>7, <3>1
    <3>2. CASE m # x BY <1>c, <2>2, <2>5, <2>6, <2>7, <3>2
    <3> QED BY <3>1, <3>2
  <2> QED BY <2>8
<1>5. ASSUME NEW h \in Orders, WaitCancelled(h) PROVE Fits
  <2>1. \A m \in Orders : /\ LL(m) = L(m) /\ QQ(m) = Q(m) /\ TT(m) = T(m)
                          /\ OO(m) = O(m) /\ SS(m) = S(m)
    BY <1>5 DEF WaitCancelled, L, Q, T, O, S, LL, QQ, TT, OO, SS
  <2> QED BY <1>c, <2>1
<1>6. ASSUME NEW h \in Orders, SendCopy(h) PROVE Fits
  <2>4. \A m \in Orders : LL(m) = L(m) /\ TT(m) = T(m) /\ OO(m) = O(m)
    BY <1>6 DEF SendCopy, L, T, O, LL, TT, OO
  <2>5. queue' = Append(queue, h) BY <1>6 DEF SendCopy
  <2>6. QQ(h) = Q(h) + 1 /\ \A m \in Orders \ {h} : QQ(m) = Q(m)
    BY <1>d, <2>5, AppendCount DEF Q, QQ
  <2>7. SS(h) = S(h) + 1 BY <1>6, <1>d DEF SendCopy, S, SS
  <2>8. \A m \in Orders \ {h} : SS(m) = S(m) BY <1>6, <1>d DEF SendCopy, S, SS
  <2>9. ASSUME NEW m \in Orders
        PROVE  LL(m) + QQ(m) <= SS(m) /\ TT(m) + OO(m) + QQ(m) <= SS(m)
    <3>1. CASE m = h BY <1>c, <2>4, <2>6, <2>7, <3>1
    <3>2. CASE m # h BY <1>c, <2>4, <2>6, <2>8, <3>2
    <3> QED BY <3>1, <3>2
  <2> QED BY <2>9
<1>7. ASSUME NEW kind \in Kinds, offer' = [offer EXCEPT ![kind] = None],
             UNCHANGED <<got, queue, log, sent>>
      PROVE  Fits
  <2>2. \A m \in Orders : /\ LL(m) = L(m) /\ QQ(m) = Q(m) /\ TT(m) = T(m)
                          /\ SS(m) = S(m)
    BY <1>7 DEF L, Q, T, S, LL, QQ, TT, SS
  <2>3. \A m \in Orders : OO(m) = O(m) - 1 \/ OO(m) = O(m)
    <3>1. ASSUME NEW m \in Orders
          PROVE  Offered(offer', m) = Offered(offer, m) - 1
                 \/ Offered(offer', m) = Offered(offer, m)
      <4>1. DOMAIN offer = Kinds BY <1>d
      <4>2. offer' = [offer EXCEPT ![kind] = None] BY <1>7
      <4>3. /\ offer[kind] = m => Offered(offer', m) = Offered(offer, m) - 1
            /\ offer[kind] # m => Offered(offer', m) = Offered(offer, m)
        BY <4>1, <4>2, OfferTaken
      <4> QED BY <4>3
    <3> QED BY <3>1 DEF O, OO
  <2> QED BY <1>c, <2>2, <2>3
<1>8. ASSUME NEW kind \in Kinds, NEW stored \in BOOLEAN, SettleAs(kind, stored)
      PROVE  Fits
  <2>2. \A m \in Orders : TT(m) = T(m) /\ SS(m) = S(m)
    BY <1>8 DEF SettleAs, T, S, TT, SS
  <2>3. PICK x \in Orders : x = Head(queue) BY <1>8, <1>d DEF SettleAs
  <2>4. /\ queue # << >> /\ queue' = Tail(queue) /\ offer[kind] = None
        /\ offer' = [offer EXCEPT ![kind] = x]
        /\ log' = Append(log, x) \/ log' = log
    BY <1>8, <2>3 DEF SettleAs
  <2>5. \A m \in Orders : /\ x = m => Q(m) = QQ(m) + 1
                          /\ x # m => Q(m) = QQ(m)
    BY <1>d, <2>3, <2>4, TailCount DEF Q, QQ
  <2>6. \A m \in Orders : /\ x = m => OO(m) = O(m) + 1
                          /\ x # m => OO(m) = O(m)
    <3>1. ASSUME NEW m \in Orders
          PROVE  /\ x = m => Offered(offer', m) = Offered(offer, m) + 1
                 /\ x # m => Offered(offer', m) = Offered(offer, m)
      <4>1. DOMAIN offer = Kinds BY <1>d
      <4>2. offer[kind] = None /\ offer' = [offer EXCEPT ![kind] = x] BY <2>4
      <4> QED BY <4>1, <4>2, OfferMade
    <3> QED BY <3>1 DEF O, OO
  <2>7. \A m \in Orders : /\ x = m => LL(m) = L(m) + 1 \/ LL(m) = L(m)
                          /\ x # m => LL(m) = L(m)
    <3>1. CASE log' = Append(log, x) BY <1>d, <3>1, AppendCount DEF L, LL
    <3>2. CASE log' = log BY <3>2 DEF L, LL
    <3> QED BY <2>4, <3>1, <3>2
  <2>8. ASSUME NEW m \in Orders
        PROVE  LL(m) + QQ(m) <= SS(m) /\ TT(m) + OO(m) + QQ(m) <= SS(m)
    <3>1. CASE m = x BY <1>c, <2>2, <2>5, <2>6, <2>7, <3>1
    <3>2. CASE m # x BY <1>c, <2>2, <2>5, <2>6, <2>7, <3>2
    <3> QED BY <3>1, <3>2
  <2> QED BY <2>8
<1>9. CASE Crash
  <2>2. \A m \in Orders : LL(m) = L(m) /\ TT(m) = T(m) /\ SS(m) = S(m)
    BY <1>9 DEF Crash, L, T, S, LL, TT, SS
  <2>3. \A m \in Orders : QQ(m) = 0 BY <1>9, EmptyCount DEF Crash, QQ
  <2>4. \A m \in Orders : OO(m) = 0 BY <1>9, NothingOffered DEF Crash, OO
  <2> QED BY <1>c, <2>2, <2>3, <2>4
<1>10. CASE UNCHANGED vars
  <2>2. \A m \in Orders : /\ LL(m) = L(m) /\ QQ(m) = Q(m) /\ TT(m) = T(m)
                          /\ OO(m) = O(m) /\ SS(m) = S(m)
    BY <1>10 DEF vars, L, Q, T, O, S, LL, QQ, TT, OO, SS
  <2> QED BY <1>c, <2>2
<1> HIDE DEF Fits
<1>11. ASSUME ReceiveCopy \/ Drain PROVE Fits
  <2>1. "success" \in Kinds /\ "error" \in Kinds BY DEF Kinds
  <2> QED BY <1>7, <1>11, <2>1 DEF ReceiveCopy, Drain
<1> QED BY <1>1, <1>3, <1>4, <1>5, <1>6, <1>8, <1>9, <1>10, <1>11
        DEF Next, Settle, Kinds

\* The producer never has, stores or tells of more than was handed over.
LEMMA SoundAlways == Spec => []Sound
BY SoundInit, SoundNext, PTL DEF Spec

\* The topic never holds an order more often than it was handed over, by its
\* handler and by the copies of the flag that this handler read, crashes included.
THEOREM TopicIsHonest == Spec => []TopicHoldsWhatWasSent
<1>1. ASSUME Sound PROVE TopicHoldsWhatWasSent
  <2>1. ASSUME NEW m \in Orders
        PROVE  /\ Count(log, m) + Count(queue, m) <= sent[m]
               /\ sent[m] <= 1 + asked[m]
               /\ at[m] \in {"idle", "sending"} => sent[m] = 0
    <3>1. Count(log, m) + Count(queue, m) <= sent[m] BY <1>1 DEF Sound, WithinSent
    <3>2. sent[m] \in Nat /\ pushing[m] \in Nat /\ asked[m] \in Nat
      BY <1>1, FlagTypes DEF Sound
    <3>3. sent[m] <= 1 + asked[m] BY <1>1, <3>2 DEF Sound, SentForTheFlag
    <3>4. at[m] \in {"idle", "sending"} => sent[m] = 0 BY <1>1 DEF Sound, SentForTheFlag
    <3> QED BY <3>1, <3>3, <3>4
  <2> QED BY <2>1 DEF TopicHoldsWhatWasSent, Count, Places
<1> QED BY <1>1, SoundAlways, PTL

\* No message has more outcomes, taken or to come, than it was handed over.
THEOREM OutcomesAreSentOnes == Spec => []OutcomesTakenOnce
<1>1. ASSUME Sound PROVE OutcomesTakenOnce
  <2>1. \A m \in Orders : Taken(got, m) + Offered(offer, m) + Count(queue, m) <= sent[m]
    BY <1>1 DEF Sound, WithinSent
  <2> QED BY <2>1
         DEF OutcomesTakenOnce, Count, Places, Taken, TakenBy, Offered, OfferedOn
<1> QED BY <1>1, SoundAlways, PTL

\* Neither the topic nor the channels hold more than was handed over, and copies
\* are handed over for the flag only.
THEOREM NothingUnsent == Spec => []OnlyWhatWasSent
<1>1. TopicHoldsWhatWasSent /\ OutcomesTakenOnce => OnlyWhatWasSent BY DEF OnlyWhatWasSent
<1> QED BY <1>1, TopicIsHonest, OutcomesAreSentOnes, PTL

-----------------------------------------------------------------------------
(* accounting.                                                             *)

\* The order in hand is the last one read; the committed offset is no further.
ReadInv ==
  /\ inHand # 0 => inHand = consumed
  /\ committed <= consumed
  /\ IsFiniteSet(dropped)

AccountingInv == TopicTypeOK /\ AccountingTypeOK /\ ReadInv /\ EveryOrderAccounted

\* Dropping one more order costs one more kill.
LEMMA DropOne ==
  ASSUME NEW S, IsFiniteSet(S), NEW x, NEW k \in Nat, Cardinality(S) <= k
  PROVE  IsFiniteSet(S \cup ({x} \ {0})) /\ Cardinality(S \cup ({x} \ {0})) <= k + 1
<1>1. CASE x = 0
  <2>1. S \cup ({x} \ {0}) = S
    BY <1>1
  <2>2. Cardinality(S) \in Nat
    BY FS_CardinalityType
  <2>3. Cardinality(S) <= k + 1
    BY <2>2
  <2>. QED
    BY ONLY IsFiniteSet(S), <2>1, <2>3, Zenon
<1>2. CASE x # 0
  <2>1. S \cup ({x} \ {0}) = S \cup {x}
    BY <1>2
  <2>2. /\ IsFiniteSet(S \cup {x})
        /\ \/ Cardinality(S \cup {x}) = Cardinality(S)
           \/ Cardinality(S \cup {x}) = Cardinality(S) + 1
    BY FS_AddElement, Zenon
  <2>3. Cardinality(S) \in Nat
    BY FS_CardinalityType
  <2>4. Cardinality(S \cup {x}) <= k + 1
    BY <2>2, <2>3
  <2>. QED
    BY ONLY <2>1, <2>2, <2>4, Zenon
<1>. QED
  BY <1>1, <1>2

\* A kill of either service leaves the topic as it is.
LEMMA KillTopic ==
  ASSUME TopicTypeOK, Kill
  PROVE  /\ TopicTypeOK' /\ end' = end /\ broken' = broken
         /\ kills' = kills + 1 /\ kills \in Nat
BY BoundsAssumption DEF TopicTypeOK, Kill

\* A kill of accounting drops the order in its hand, and pays for it.
LEMMA RestartAccountingKeeps ==
  ASSUME AccountingInv, RestartAccounting
  PROVE  AccountingInv'
<1>1. /\ TopicTypeOK' /\ end' = end /\ broken' = broken
      /\ kills' = kills + 1 /\ kills \in Nat
  BY KillTopic DEF AccountingInv, RestartAccounting
<1>2. AccountingTypeOK'
  BY <1>1, BoundsAssumption
     DEF AccountingInv, TopicTypeOK, AccountingTypeOK, ReadInv, RestartAccounting
<1>3. IsFiniteSet(dropped') /\ Cardinality(dropped') <= kills'
  <2>1. IsFiniteSet(dropped) /\ Cardinality(dropped) <= kills
    BY DEF AccountingInv, ReadInv, EveryOrderAccounted
  <2>2. dropped' = dropped \cup ({inHand} \ {0})
    BY DEF RestartAccounting
  <2>3. /\ IsFiniteSet(dropped \cup ({inHand} \ {0}))
        /\ Cardinality(dropped \cup ({inHand} \ {0})) <= kills + 1
    BY ONLY <1>1, <2>1, DropOne, Zenon
  <2>. QED
    BY ONLY <1>1, <2>2, <2>3, Zenon
<1>4. 1..consumed' \subseteq 1..consumed
  BY DEF AccountingInv, AccountingTypeOK, TopicTypeOK, ReadInv, RestartAccounting
<1>5. 1..consumed' \subseteq logged' \cup refused' \cup dropped' \cup {inHand'}
  <2> SUFFICES ASSUME NEW order \in 1..consumed'
               PROVE  order \in logged \cup refused \cup dropped'
    BY DEF RestartAccounting
  <2>1. order \in logged \cup refused \cup dropped \cup {inHand} /\ order # 0
    BY <1>4 DEF AccountingInv, EveryOrderAccounted
  <2>. QED
    BY <2>1 DEF RestartAccounting
<1>6. ReadInv'
  BY <1>2, <1>3 DEF AccountingInv, ReadInv, RestartAccounting, AccountingTypeOK, TopicTypeOK
<1>7. logged' \cap broken' = {} /\ refused' \subseteq broken'
  BY <1>1 DEF AccountingInv, EveryOrderAccounted, RestartAccounting
<1>. QED
  BY <1>1, <1>2, <1>3, <1>5, <1>6, <1>7 DEF AccountingInv, EveryOrderAccounted

\* What the other service, the flag and a kill of the other service do.
LEMMA AccountingUntouched ==
  ASSUME AccountingInv, UNCHANGED accountingVars, TopicTypeOK',
         broken \subseteq broken', broken' \subseteq broken \cup {end + 1}, end \in Nat, end' \in Nat, end <= end', kills \in Nat, kills' \in Nat, kills <= kills'
  PROVE  AccountingInv'
<1>1. AccountingTypeOK' /\ ReadInv'
  BY DEF AccountingInv, AccountingTypeOK, ReadInv, accountingVars
<1>2. EveryOrderAccounted'
  <2>1. 1..consumed' \subseteq logged' \cup refused' \cup dropped' \cup {inHand'}
    BY DEF AccountingInv, EveryOrderAccounted, accountingVars
  <2>4. end + 1 \notin logged
    BY DEF AccountingInv, AccountingTypeOK
  <2>5. logged' \cap broken' = {} /\ refused' \subseteq broken'
    BY <2>4 DEF AccountingInv, EveryOrderAccounted, accountingVars
  <2>2. Cardinality(dropped) \in Nat /\ dropped' = dropped
    BY FS_CardinalityType DEF AccountingInv, ReadInv, accountingVars
  <2>3. Cardinality(dropped) <= kills'
    BY <2>2 DEF AccountingInv, EveryOrderAccounted
  <2>. QED
    BY <2>1, <2>2, <2>3, <2>5 DEF EveryOrderAccounted
<1>. QED
  BY <1>1, <1>2 DEF AccountingInv

\* At any time accounting has logged or dropped all it has read but the order in its hand,
\* however early the timer of its client commits.
THEOREM AccountingInvariant == ConsumersSpec => []AccountingInv
<1> USE BoundsAssumption
<1>1. ConsumersInit => AccountingInv
  <2> SUFFICES ASSUME ConsumersInit PROVE AccountingInv
    OBVIOUS
  <2>1. TopicTypeOK /\ end \in Nat
    <3>1. kills \in 0..MaxKills /\ end \in Nat
      BY DEF ConsumersInit
    <3>. QED
      BY <3>1 DEF ConsumersInit, TopicTypeOK
  <2>2. AccountingTypeOK
    BY <2>1 DEF ConsumersInit, AccountingTypeOK
  <2>3. IsFiniteSet(dropped) /\ Cardinality(dropped) = 0 /\ kills = 0
    BY FS_EmptySet DEF ConsumersInit
  <2>4. ReadInv
    BY <2>3 DEF ConsumersInit, ReadInv
  <2>5. EveryOrderAccounted
    <3>1. 1..consumed = {}
      BY DEF ConsumersInit
    <3>. QED
      BY <2>3, <3>1 DEF ConsumersInit, EveryOrderAccounted
  <2>. QED
    BY <2>1, <2>2, <2>4, <2>5 DEF AccountingInv
<1>2. AccountingInv /\ [ConsumersNext]_consumerVars => AccountingInv'
  <2> SUFFICES ASSUME AccountingInv, [ConsumersNext]_consumerVars
               PROVE  AccountingInv'
    OBVIOUS
  <2>1. TopicTypeOK /\ end \in Nat /\ kills \in Nat
    BY DEF AccountingInv, TopicTypeOK
  <2>2. CASE Publish
    BY <2>1, <2>2, AccountingUntouched DEF TopicTypeOK, Publish
  <2>3. CASE ToggleFlag
    BY <2>1, <2>3, AccountingUntouched DEF TopicTypeOK, ToggleFlag
  <2>4. CASE Consume
    BY <2>4 DEF AccountingInv, TopicTypeOK, AccountingTypeOK, ReadInv,
                EveryOrderAccounted, Consume, topicVars
  <2>5. CASE ProcessMessage
    <3>1. TopicTypeOK' /\ end' = end /\ broken' = broken /\ kills' = kills
      BY <2>1, <2>5 DEF TopicTypeOK, ProcessMessage, topicVars
    <3>2. inHand \in 1..end
      BY <2>1, <2>5 DEF AccountingInv, AccountingTypeOK, ProcessMessage
    <3>8. logged' \subseteq 1..end /\ refused' \subseteq 1..end
      BY <2>5, <3>2 DEF AccountingInv, AccountingTypeOK, ProcessMessage
    <3>3. AccountingTypeOK'
      BY <2>1, <2>5, <3>1, <3>8 DEF AccountingInv, AccountingTypeOK, ProcessMessage
    <3>4. ReadInv'
      BY <2>5 DEF AccountingInv, ReadInv, ProcessMessage
    <3>5. 1..consumed' \subseteq logged' \cup refused' \cup dropped' \cup {inHand'}
      BY <2>5 DEF AccountingInv, EveryOrderAccounted, ProcessMessage
    <3>6. logged' \cap broken' = {} /\ refused' \subseteq broken'
      BY <2>5, <3>1 DEF AccountingInv, EveryOrderAccounted, ProcessMessage
    <3>7. Cardinality(dropped') <= kills'
      BY <2>5, <3>1 DEF AccountingInv, EveryOrderAccounted, ProcessMessage
    <3>. QED
      BY <3>1, <3>3, <3>4, <3>5, <3>6, <3>7 DEF AccountingInv, EveryOrderAccounted
  <2>6. CASE AutoCommit
    BY <2>6 DEF AccountingInv, TopicTypeOK, AccountingTypeOK, ReadInv,
                EveryOrderAccounted, AutoCommit, topicVars
  <2>7. CASE RestartAccounting
    BY <2>7, RestartAccountingKeeps
  <2>8. CASE PollLoop
    <3>1. UNCHANGED accountingVars /\ UNCHANGED topicVars
      BY <2>8 DEF PollLoop, Poll, Fold, ParseFails, Rejoin, Resume
    <3>. QED
      BY <2>1, <3>1, AccountingUntouched DEF TopicTypeOK, topicVars
  <2>9. CASE RestartFraud
    <3>1. UNCHANGED accountingVars
      BY <2>9 DEF RestartFraud, Resume
    <3>. QED
      BY <2>1, <2>9, <3>1, KillTopic, AccountingUntouched DEF RestartFraud
  <2>10. CASE UNCHANGED consumerVars
    BY <2>1, <2>10, AccountingUntouched DEF TopicTypeOK, topicVars, consumerVars
  <2>. QED
    BY <2>2, <2>3, <2>4, <2>5, <2>6, <2>7, <2>8, <2>9, <2>10 DEF ConsumersNext, StartListening
<1>. QED
  BY <1>1, <1>2, PTL DEF ConsumersSpec

\* An order that accounting has read past is logged, as an order or as one that
\* does not parse, or a kill took it: Consumer.StartListening and ProcessMessage.
THEOREM OrdersAccounted == ConsumersSpec => []EveryOrderAccounted
<1>1. AccountingInv => EveryOrderAccounted
  BY DEF AccountingInv
<1>. QED
  BY <1>1, AccountingInvariant, PTL

-----------------------------------------------------------------------------
(* fraud-detection.                                                        *)

\* A committed offset is in what was read past, and not before the start.
SavedInv ==
  hasSaved => since <= saved /\ \A order \in (since + 1)..saved : order \in screened \cup skipped

\* Saved offsets are needed beside NothingSkipped for the service to start again
\* from them, the size of a batch for what a close may commit past.
FraudInv ==
  /\ TopicTypeOK /\ FraudTypeOK
  /\ SavedInv
  /\ NothingSkipped
  /\ since <= next /\ position <= next + MaxPoll

\* Where the group resumes keeps the invariant, whoever makes it resume, when
\* what it resumes from does.
LEMMA ResumeKeeps ==
  ASSUME FraudInv, Resume, TopicTypeOK', end' = end, broken' = broken,
         hasSaved' \in BOOLEAN, saved' \in 0..end, skipped' \subseteq 1..end,
         hasSaved' => /\ since <= saved'
                      /\ \A order \in (since + 1)..saved' : order \in screened \cup skipped',
         \A order \in skipped' : \E bad \in broken : bad <= order /\ order < bad + MaxPoll
  PROVE  FraudInv'
<1>1. FraudTypeOK' /\ position' = next' /\ MaxPoll \in Nat
  <2>1. end \in Nat /\ position' \in 0..end /\ since' \in 0..end /\ next' = position'
    BY DEF FraudInv, TopicTypeOK, FraudTypeOK, Resume
  <2>2. next' \in 0..position'
    BY <2>1
  <2>. QED
    BY <2>1, <2>2, BoundsAssumption DEF FraudInv, FraudTypeOK, Resume
<1>2. position' <= next' + MaxPoll
  <2>1. next' \in Nat
    BY DEF FraudInv, TopicTypeOK, FraudTypeOK, Resume
  <2>2. MaxPoll \in Nat
    BY BoundsAssumption
  <2>3. \A a, b \in Nat : a <= a + b
    OBVIOUS
  <2>. QED
    BY <1>1, <2>1, <2>2, <2>3
<1>3. screened' = screened
  BY DEF Resume
<1>4. CASE hasSaved'
  <2>1. next' = saved' /\ since' = since
    BY <1>4 DEF Resume
  <2>2. SavedInv'
    BY <1>3, <2>1 DEF SavedInv
  <2>3. NothingSkipped'
    BY <1>3, <1>4, <2>1 DEF FraudInv, NothingSkipped
  <2>. QED
    BY <1>1, <1>2, <1>4, <2>1, <2>2, <2>3 DEF FraudInv
<1>5. CASE ~hasSaved'
  <2>1. next' = end /\ since' = end
    BY <1>5 DEF Resume
  <2>2. SavedInv'
    BY <1>5 DEF SavedInv
  <2>3. (since' + 1)..next' = {} /\ since' <= next'
    BY <2>1 DEF FraudInv, TopicTypeOK
  <2>4. NothingSkipped'
    BY <1>3, <2>3 DEF FraudInv, NothingSkipped
  <2>. QED
    BY <1>1, <1>2, <2>2, <2>3, <2>4 DEF FraudInv
<1>. QED
  BY <1>4, <1>5

\* The close that a record makes which does not parse commits past the rest of
\* its batch, which is no longer than a poll returns.
LEMMA ParseFailsKeeps ==
  ASSUME FraudInv, ParseFails
  PROVE  FraudInv'
<1>1. TopicTypeOK' /\ end' = end /\ broken' = broken /\ end \in Nat /\ MaxPoll \in Nat
  BY BoundsAssumption DEF FraudInv, TopicTypeOK, ParseFails, topicVars
<1>2. position \in 0..end /\ next \in Nat /\ since \in Nat /\ since <= next
  BY <1>1 DEF FraudInv, FraudTypeOK
<1>3. CASE UNCHANGED <<hasSaved, saved, skipped>>
  <2>1. /\ hasSaved' => /\ since <= saved'
                        /\ \A order \in (since + 1)..saved' : order \in screened \cup skipped'
        /\ \A order \in skipped' : \E bad \in broken : bad <= order /\ order < bad + MaxPoll
        /\ hasSaved' \in BOOLEAN /\ saved' \in 0..end /\ skipped' \subseteq 1..end
    BY <1>3 DEF FraudInv, FraudTypeOK, SavedInv, NothingSkipped
  <2>. QED
    BY <1>1, <2>1, ResumeKeeps DEF ParseFails
<1>4. CASE hasSaved' = TRUE /\ saved' = position /\ skipped' = skipped \cup ((next + 1)..position)
  <2>1. skipped' \subseteq 1..end
    <3>1. skipped \subseteq 1..end
      BY DEF FraudInv, FraudTypeOK
    <3>2. (next + 1)..position \subseteq 1..end
      BY <1>1, <1>2
    <3>. QED
      BY <1>4, <3>1, <3>2
  <2>2. \A order \in (since + 1)..position : order \in screened \cup skipped'
    <3> SUFFICES ASSUME NEW order \in (since + 1)..position
                 PROVE  order \in screened \cup skipped'
      OBVIOUS
    <3>1. order \in (since + 1)..next \/ order \in (next + 1)..position
      BY <1>2
    <3>. QED
      BY <1>4, <3>1 DEF FraudInv, NothingSkipped
  <2>3. \A order \in skipped' : \E bad \in broken : bad <= order /\ order < bad + MaxPoll
    <3> SUFFICES ASSUME NEW order \in skipped'
                 PROVE  \E bad \in broken : bad <= order /\ order < bad + MaxPoll
      OBVIOUS
    <3>1. CASE order \in skipped
      BY <3>1 DEF FraudInv, NothingSkipped
    <3>2. CASE order \in (next + 1)..position
      <4>1. next + 1 \in broken /\ position <= next + MaxPoll
        BY DEF FraudInv, ParseFails
      <4>2. next + 1 <= order /\ order < (next + 1) + MaxPoll
        BY <1>1, <1>2, <3>2, <4>1
      <4>. QED
        BY <4>1, <4>2
    <3>. QED
      BY <1>4, <3>1, <3>2
  <2>4. since <= saved' /\ saved' \in 0..end /\ hasSaved' \in BOOLEAN
    BY <1>2, <1>4 DEF ParseFails
  <2>. QED
    BY <1>1, <1>4, <2>1, <2>2, <2>3, <2>4, ResumeKeeps DEF ParseFails
<1>. QED
  BY <1>3, <1>4 DEF ParseFails, Close

\* A poll commits no more than was folded.
LEMMA PollKeeps ==
  ASSUME FraudInv, Poll
  PROVE  FraudInv'
<1>1. TopicTypeOK' /\ end' = end /\ broken' = broken
  BY DEF FraudInv, TopicTypeOK, Poll, topicVars
<1>2. end \in Nat /\ position' \in 0..end /\ position <= position'
  BY BoundsAssumption DEF FraudInv, TopicTypeOK, FraudTypeOK, Poll, Fetch
<1>3. FraudTypeOK'
  <2>1. next \in 0..position' /\ 0 \in Nat
    BY <1>2 DEF FraudInv, FraudTypeOK, Poll
  <2>2. hasSaved' \in BOOLEAN /\ saved' \in 0..end
    BY DEF FraudInv, FraudTypeOK, Poll
  <2>. QED
    BY <1>1, <1>2, <2>1, <2>2 DEF FraudInv, FraudTypeOK, Poll
<1>4. SavedInv' /\ (since <= next)'
  BY DEF FraudInv, FraudTypeOK, SavedInv, NothingSkipped, Poll
<1>5. NothingSkipped'
  BY <1>1 DEF FraudInv, NothingSkipped, Poll
<1>6. position' <= next' + MaxPoll
  BY <1>2, BoundsAssumption DEF FraudInv, FraudTypeOK, TopicTypeOK, Poll, Fetch
<1>. QED
  BY <1>1, <1>3, <1>4, <1>5, <1>6 DEF FraudInv

\* Folding a record screens it.
LEMMA FoldKeeps ==
  ASSUME FraudInv, Fold
  PROVE  FraudInv'
<1>1. /\ TopicTypeOK' /\ end' = end /\ broken' = broken
      /\ end \in Nat /\ MaxPoll \in Nat
  BY BoundsAssumption DEF FraudInv, TopicTypeOK, Fold, topicVars
<1>2. FraudTypeOK'
  <2>1. next + 1 \in 1..end /\ next + 1 \in 0..position
    BY <1>1 DEF FraudInv, FraudTypeOK, Fold
  <2>2. slept' \in Nat /\ evicted' \in BOOLEAN
    BY DEF FraudInv, FraudTypeOK, Fold, Sleep
  <2>. QED
    BY <1>1, <2>1, <2>2 DEF FraudInv, FraudTypeOK, Fold
<1>3. NothingSkipped'
  <2>1. \A order \in (since + 1)..(next + 1) : order \in screened' \cup skipped
    BY DEF FraudInv, FraudTypeOK, NothingSkipped, Fold
  <2>2. screened' \cap broken = {}
    BY DEF FraudInv, NothingSkipped, Fold
  <2>. QED
    BY <1>1, <2>1, <2>2 DEF FraudInv, NothingSkipped, Fold
<1>4. SavedInv' /\ (since <= next)' /\ position' <= next' + MaxPoll
  BY <1>1 DEF FraudInv, FraudTypeOK, SavedInv, Fold
<1>. QED
  BY <1>1, <1>2, <1>3, <1>4 DEF FraudInv

\* More orders, and whatever accounting does.
LEMMA FraudUntouched ==
  ASSUME FraudInv, UNCHANGED fraudVars, TopicTypeOK',
         broken \subseteq broken', broken' \subseteq broken \cup {end + 1}, end \in Nat, end' \in Nat, end <= end'
  PROVE  FraudInv'
<1>1. FraudTypeOK'
  BY DEF FraudInv, FraudTypeOK, fraudVars
<1>2. SavedInv' /\ (since <= next)' /\ position' <= next' + MaxPoll
  BY DEF FraudInv, SavedInv, fraudVars
<1>3. end + 1 \notin screened
  BY DEF FraudInv, FraudTypeOK
<1>4. NothingSkipped'
  BY <1>3 DEF FraudInv, NothingSkipped, fraudVars
<1>. QED
  BY <1>1, <1>2, <1>4 DEF FraudInv

\* At any time fraud-detection has screened what it has read, but for what a close
\* committed past, and committed no more.
THEOREM FraudInvariant == ConsumersSpec => []FraudInv
<1> USE BoundsAssumption
<1>1. ConsumersInit => FraudInv
  <2> SUFFICES ASSUME ConsumersInit PROVE FraudInv
    OBVIOUS
  <2>1. TopicTypeOK /\ end \in Nat
    <3>1. kills \in 0..MaxKills /\ end \in Nat
      BY DEF ConsumersInit
    <3>. QED
      BY <3>1 DEF ConsumersInit, TopicTypeOK
  <2>2. FraudTypeOK
    <3>1. end \in 0..end /\ next \in 0..position /\ saved \in 0..end
      BY <2>1 DEF ConsumersInit
    <3>. QED
      BY <3>1 DEF ConsumersInit, FraudTypeOK
  <2>3. SavedInv /\ NothingSkipped /\ since <= next /\ position <= next + MaxPoll
    BY <2>1 DEF ConsumersInit, SavedInv, NothingSkipped
  <2>. QED
    BY <2>1, <2>2, <2>3 DEF FraudInv
<1>2. FraudInv /\ [ConsumersNext]_consumerVars => FraudInv'
  <2> SUFFICES ASSUME FraudInv, [ConsumersNext]_consumerVars
               PROVE  FraudInv'
    OBVIOUS
  <2>1. TopicTypeOK /\ end \in Nat
    BY DEF FraudInv, TopicTypeOK
  <2>2. CASE Publish
    BY <2>1, <2>2, FraudUntouched DEF TopicTypeOK, Publish
  <2>3. CASE ToggleFlag
    BY <2>1, <2>3, FraudUntouched DEF TopicTypeOK, ToggleFlag
  <2>4. CASE StartListening \/ AutoCommit
    <3>1. UNCHANGED fraudVars /\ UNCHANGED topicVars
      BY <2>4 DEF StartListening, Consume, ProcessMessage, AutoCommit
    <3>. QED
      BY <2>1, <3>1, FraudUntouched DEF TopicTypeOK, topicVars
  <2>5. CASE RestartAccounting
    <3>1. UNCHANGED fraudVars
      BY <2>5 DEF RestartAccounting
    <3>. QED
      BY <2>1, <2>5, <3>1, KillTopic, FraudUntouched DEF RestartAccounting
  <2>6. CASE Poll
    BY <2>6, PollKeeps
  <2>7. CASE Fold
    BY <2>7, FoldKeeps
  <2>8. CASE ParseFails
    BY <2>8, ParseFailsKeeps
  <2>9. CASE Rejoin \/ RestartFraud
    <3>1. TopicTypeOK' /\ end' = end /\ broken' = broken
      BY <2>1, <2>9, KillTopic DEF Rejoin, RestartFraud, TopicTypeOK, topicVars
    <3>2. UNCHANGED <<hasSaved, saved, skipped>> /\ Resume
      BY <2>9 DEF Rejoin, RestartFraud
    <3>3. /\ hasSaved' => /\ since <= saved'
                          /\ \A order \in (since + 1)..saved' : order \in screened \cup skipped'
          /\ \A order \in skipped' : \E bad \in broken : bad <= order /\ order < bad + MaxPoll
          /\ hasSaved' \in BOOLEAN /\ saved' \in 0..end /\ skipped' \subseteq 1..end
      BY <3>2 DEF FraudInv, FraudTypeOK, SavedInv, NothingSkipped
    <3>. QED
      BY <3>1, <3>2, <3>3, ResumeKeeps
  <2>10. CASE UNCHANGED consumerVars
    BY <2>1, <2>10, FraudUntouched DEF TopicTypeOK, topicVars, consumerVars
  <2>. QED
    BY <2>2, <2>3, <2>4, <2>5, <2>6, <2>7, <2>8, <2>9, <2>10 DEF ConsumersNext, PollLoop
<1>. QED
  BY <1>1, <1>2, PTL DEF ConsumersSpec

\* What fraud-detection has read past since it last started without an offset it
\* has screened, but for a record that does not parse and those that came after
\* it in its batch: main.kt, the poll loop and the close on the way out of it.
THEOREM NoOrderSkipped == ConsumersSpec => []NothingSkipped
<1>1. FraudInv => NothingSkipped
  BY DEF FraudInv
<1>. QED
  BY <1>1, FraudInvariant, PTL

\* Every variable keeps its type.
THEOREM ConsumersTypeCorrect == ConsumersSpec => []ConsumersTypeOK
<1>1. AccountingInv /\ FraudInv => ConsumersTypeOK
  BY DEF AccountingInv, FraudInv, ConsumersTypeOK
<1>. QED
  BY <1>1, AccountingInvariant, FraudInvariant, PTL
=============================================================================
