---------------------------- MODULE PostProcessor ----------------------------
(***************************************************************************)
(* How checkout publishes orders: the handlers in sendToPostProcessor, the *)
(* goroutine that drains the producer's errors, the goroutines the         *)
(* kafkaQueueProblems flag starts, and the one asynchronous producer they  *)
(* all share.                                                              *)
(*                                                                         *)
(* Go channels carry the outcomes: whoever receives next gets the next     *)
(* outcome, whichever message it is for.  The producer is sarama's: it     *)
(* queues messages, settles them in order, and holds each outcome until    *)
(* somebody receives it, because Successes() and Errors() are unbuffered.  *)
(* RequiredAcks is NoResponse, so a success may be of a message the broker *)
(* never stored.                                                           *)
(***************************************************************************)
EXTENDS Naturals, Sequences, FiniteSets

CONSTANTS Orders,     \* handlers that publish, one order each
          Capacity,   \* bound: messages the producer buffers
          Copies,     \* value of kafkaQueueProblems when it is on
          MayFail,    \* the producer may report an error
          MayCancel   \* a client may go away

None == "none"

ASSUME OrdersAssumption == IsFiniteSet(Orders) /\ None \notin Orders
ASSUME CapacityAssumption == Capacity \in Nat \ {0}
ASSUME CopiesAssumption == Copies \in Nat
ASSUME MayAssumption == MayFail \in BOOLEAN /\ MayCancel \in BOOLEAN

VARIABLES at,         \* where each handler is
          got,        \* the outcome each handler took: <<kind, message>>
          pushing,    \* goroutines about to send a copy, per message
          listening,  \* goroutines waiting for a success
          queue,      \* messages the producer has accepted
          offer,      \* the outcome held on each channel
          log,        \* the topic
          drained,    \* outcomes taken by the error logger
          walked,     \* handlers that left without an outcome
          sent,       \* times each message was handed to the producer
          asked       \* value of kafkaQueueProblems each handler read

vars ==
  <<at, got, pushing, listening, queue, offer, log, drained, walked, sent, asked>>

Kinds == {"success", "error"}
Nothing == <<None, None>>

TypeOK ==
  /\ at \in [Orders -> {"idle", "sending", "waiting", "returned"}]
  /\ got \in [Orders -> (Kinds \X Orders) \cup {Nothing}]
  /\ pushing \in [Orders -> 0..Copies]
  /\ listening \in Nat
  /\ queue \in Seq(Orders) /\ Len(queue) <= Capacity
  /\ offer \in [Kinds -> Orders \cup {None}]
  /\ log \in Seq(Orders)
  /\ drained \in Nat /\ walked \in Nat
  /\ sent \in [Orders -> Nat] /\ asked \in [Orders -> {0, Copies}]

Init ==
  /\ at = [h \in Orders |-> "idle"]
  /\ got = [h \in Orders |-> Nothing]
  /\ pushing = [h \in Orders |-> 0]
  /\ listening = 0
  /\ queue = << >>
  /\ offer = [k \in Kinds |-> None]
  /\ log = << >>
  /\ drained = 0 /\ walked = 0
  /\ sent = [h \in Orders |-> 0] /\ asked = [h \in Orders |-> 0]

-----------------------------------------------------------------------------
(* The handlers.                                                           *)

Enter(h) ==
  /\ at[h] = "idle"
  /\ at' = [at EXCEPT ![h] = "sending"]
  /\ UNCHANGED <<got, pushing, listening, queue, offer, log, drained, walked, sent, asked>>

Room == Len(queue) < Capacity

\* case cs.KafkaProducerClient.Input() <- &msg
Send(h) ==
  /\ at[h] = "sending"
  /\ Room
  /\ queue' = Append(queue, h)
  /\ sent' = [sent EXCEPT ![h] = @ + 1]
  /\ at' = [at EXCEPT ![h] = "waiting"]
  /\ UNCHANGED <<got, pushing, listening, offer, log, drained, walked, asked>>

\* The outer case <-ctx.Done(): nothing was sent, the flag is not read.
SendCancelled(h) ==
  /\ MayCancel
  /\ at[h] = "sending"
  /\ at' = [at EXCEPT ![h] = "returned"]
  /\ UNCHANGED <<got, pushing, listening, queue, offer, log, drained, walked, sent, asked>>

\* Mutant: the loop that starts the goroutines runs once more (i <= ffValue).
Finish_OneMore(h) ==
  /\ at' = [at EXCEPT ![h] = "returned"]
  /\ \E ffValue \in {0, Copies} : /\ asked' = [asked EXCEPT ![h] = ffValue]
                                 /\ pushing' = [pushing EXCEPT ![h] = ffValue + 1]

\* After the inner select: overload the queue if kafkaQueueProblems is on.
Finish(h) ==
  /\ at' = [at EXCEPT ![h] = "returned"]
  /\ \E ffValue \in {0, Copies} : /\ asked' = [asked EXCEPT ![h] = ffValue]
                                 /\ pushing' = [pushing EXCEPT ![h] = ffValue]

\* case <-Successes() or case <-Errors()
Receive(h, kind) ==
  /\ at[h] = "waiting"
  /\ offer[kind] # None
  /\ got' = [got EXCEPT ![h] = <<kind, offer[kind]>>]
  /\ offer' = [offer EXCEPT ![kind] = None]
  /\ Finish(h)
  /\ UNCHANGED <<listening, queue, log, drained, walked, sent>>

\* The inner case <-ctx.Done(): nobody will wait for this outcome.
WaitCancelled(h) ==
  /\ MayCancel
  /\ at[h] = "waiting"
  /\ walked' = walked + 1
  /\ Finish(h)
  /\ UNCHANGED <<got, listening, queue, offer, log, drained, sent>>

-----------------------------------------------------------------------------
(* The other goroutines of checkout.                                       *)

\* Mutant: the goroutine does not wait for the outcome of its copy.
SendCopy_NoWait(m) ==
  /\ pushing[m] > 0
  /\ Room
  /\ pushing' = [pushing EXCEPT ![m] = @ - 1]
  /\ queue' = Append(queue, m)
  /\ sent' = [sent EXCEPT ![m] = @ + 1]
  /\ UNCHANGED <<at, got, listening, offer, log, drained, walked, asked>>

\* One of the goroutines sends its copy of the message ...
SendCopy(m) ==
  /\ pushing[m] > 0
  /\ Room
  /\ pushing' = [pushing EXCEPT ![m] = @ - 1]
  /\ queue' = Append(queue, m)
  /\ sent' = [sent EXCEPT ![m] = @ + 1]
  /\ listening' = listening + 1
  /\ UNCHANGED <<at, got, offer, log, drained, walked, asked>>

\* Mutant: the goroutine goes on receiving successes.
ReceiveCopy_Loops ==
  /\ listening > 0
  /\ offer["success"] # None
  /\ offer' = [offer EXCEPT !["success"] = None]
  /\ UNCHANGED <<at, got, pushing, listening, queue, log, drained, walked, sent, asked>>

\* ... and waits for a success, whatever becomes of the copy.
ReceiveCopy ==
  /\ listening > 0
  /\ offer["success"] # None
  /\ listening' = listening - 1
  /\ offer' = [offer EXCEPT !["success"] = None]
  /\ UNCHANGED <<at, got, pushing, queue, log, drained, walked, sent, asked>>

\* The goroutine CreateKafkaProducer starts logs every error it receives.
Drain ==
  /\ offer["error"] # None
  /\ offer' = [offer EXCEPT !["error"] = None]
  /\ drained' = drained + 1
  /\ UNCHANGED <<at, got, pushing, listening, queue, log, walked, sent, asked>>

-----------------------------------------------------------------------------
(* The producer and the broker.                                            *)

SettleAs(kind, stored) ==
  /\ queue # << >>
  /\ offer[kind] = None
  /\ offer' = [offer EXCEPT ![kind] = Head(queue)]
  /\ queue' = Tail(queue)
  /\ log' = IF stored THEN Append(log, Head(queue)) ELSE log
  /\ UNCHANGED <<at, got, pushing, listening, drained, walked, sent, asked>>

\* A success, stored by the broker or swallowed; or an error.
Settle ==
  \/ \E stored \in BOOLEAN : SettleAs("success", stored)
  \/ MayFail /\ SettleAs("error", FALSE)

\* Checkout dies with its handlers, its goroutines and what is not yet settled.
Crash ==
  /\ at' = [h \in Orders |-> IF at[h] = "idle" THEN "idle" ELSE "returned"]
  /\ at' # at
  /\ pushing' = [h \in Orders |-> 0]
  /\ queue' = << >>
  /\ offer' = [k \in Kinds |-> None]
  /\ listening' = 0 /\ drained' = 0 /\ walked' = 0
  /\ UNCHANGED <<got, log, sent, asked>>

Next ==
  \/ \E h \in Orders :
       \/ Enter(h) \/ Send(h) \/ SendCancelled(h) \/ WaitCancelled(h)
       \/ SendCopy(h)
       \/ \E kind \in Kinds : Receive(h, kind)
  \/ ReceiveCopy \/ Drain \/ Settle \/ Crash

\* Each goroutine proceeds when its channel is ready, and the producer settles
\* what it has accepted as soon as the previous outcome was received.
Fairness ==
  /\ \A h \in Orders : /\ WF_vars(Send(h))
                       /\ WF_vars(SendCopy(h))
                       /\ WF_vars(\E kind \in Kinds : Receive(h, kind))
  /\ WF_vars(ReceiveCopy) /\ WF_vars(Drain) /\ WF_vars(Settle)

Spec == Init /\ [][Next]_vars
FairSpec == Spec /\ Fairness

-----------------------------------------------------------------------------
(* Properties.                                                             *)

Waiting == {h \in Orders : at[h] = "waiting"}
Held(kind) == IF offer[kind] = None THEN 0 ELSE 1
Outcomes == Len(queue) + Held("success") + Held("error")

\* The books of the two channels: everybody who waits for an outcome, less the
\* outcomes still to come, is an outcome the error logger took, unless a handler
\* left early.  So each drained error strands one waiter for ever, and each
\* handler that leaves strands one outcome.
OutcomesBalance ==
  Cardinality(Waiting) + listening + walked = Outcomes + drained

\* The topic holds an order no more often than it was handed to the producer,
\* less what the producer still has of it; and it was handed over by its handler,
\* once, and as often again as the value of the flag that this handler read: once
\* only if the flag was off then.
TopicHoldsWhatWasSent ==
  \A m \in Orders :
    LET stored == Cardinality({i \in DOMAIN log : log[i] = m})
        queued == Cardinality({i \in DOMAIN queue : queue[i] = m})
    IN /\ stored + queued <= sent[m]
       /\ sent[m] <= 1 + asked[m]
       /\ at[m] \in {"idle", "sending"} => sent[m] = 0

\* All handlers receive from one Successes channel, so the outcome a handler logs
\* as its own may be another order's; but no message has more outcomes, taken by
\* handlers or to come, than it was handed over: of a message sent once one
\* handler takes the outcome, or none.
OutcomesTakenOnce ==
  \A m \in Orders :
    LET taken == {h \in Orders : got[h] \in Kinds \X {m}}
        offered == {kind \in Kinds : offer[kind] = m}
        queued == {i \in DOMAIN queue : queue[i] = m}
    IN Cardinality(taken) + Cardinality(offered) + Cardinality(queued) <= sent[m]

\* What comes of a send - a record of the topic, an outcome - comes of that send
\* alone, whoever is told of it; and copies are sent for the flag only.
OnlyWhatWasSent == TopicHoldsWhatWasSent /\ OutcomesTakenOnce

\* Every handler with an order to publish returns.
EveryOrderReturns == \A h \in Orders : at[h] = "sending" ~> at[h] = "returned"

\* Every handler returns as long as the error logger takes no outcome and no more
\* handlers leave early than the producer buffers messages.  One more, and their
\* outcomes, which nobody receives, stop the producer for everybody.
ReturnsWhileBalanced == [](drained = 0 /\ walked <= Capacity) => EveryOrderReturns
=============================================================================
