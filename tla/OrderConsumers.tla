--------------------------- MODULE OrderConsumers ---------------------------
(***************************************************************************)
(* The two services that read the orders topic, each the only member of    *)
(* its consumer group, both with automatic commits - at different moments. *)
(* The client of accounting, librdkafka, stores the offset of a message as *)
(* soon as Consume returns it, and commits the stored offset from a timer  *)
(* of its own.  The Java client of fraud-detection commits from poll: the  *)
(* position it then has, the end of the records that the previous poll     *)
(* returned; and if it does not poll for max.poll.interval.ms it is put    *)
(* out of its group, and joins again, from the committed offset, at the    *)
(* next poll.  A record that does not parse is logged as an error by       *)
(* accounting and passed over; in fraud-detection the exception leaves the *)
(* loop, and the close on the way out commits the position, past the rest  *)
(* of the batch.  An offset here is the number of orders before it.        *)
(***************************************************************************)
EXTENDS Naturals, FiniteSets

CONSTANTS MaxOrders,  \* bound: orders published
          MaxKills,   \* bound: times a service is killed
          MaxPoll,    \* records a poll may return (max.poll.records)
          Patience    \* one-second sleeps that fit in max.poll.interval.ms

ASSUME BoundsAssumption ==
  /\ MaxOrders \in Nat /\ MaxKills \in Nat
  /\ MaxPoll \in Nat \ {0} /\ Patience \in Nat

VARIABLES end,        \* orders in the topic
          broken,     \* ... those of them that do not parse
          slow,       \* the kafkaQueueProblems flag is on
          kills       \* times a service was killed

VARIABLES consumed,   \* accounting: the offset after the last message returned
          inHand,     \* ... the order ProcessMessage has, or 0
          committed,  \* ... the committed offset
          logged,     \* ... the orders logged
          refused,    \* ... the orders logged as "Order parsing failed"
          dropped     \* ... the orders it was killed with in its hand

VARIABLES position,   \* fraud-detection: the offset after the last record polled
          next,       \* ... the offset of the next record to fold
          hasSaved,   \* ... its group has a committed offset,
          saved,      \* ... this one
          slept,      \* ... one-second sleeps since the last poll
          evicted,    \* ... its client was put out of its group
          screened,   \* ... the orders folded
          skipped,    \* ... those a close committed past
          since       \* ... where it last started without an offset

topicVars == <<end, broken, slow, kills>>
accountingVars == <<consumed, inHand, committed, logged, refused, dropped>>
fraudVars ==
  <<position, next, hasSaved, saved, slept, evicted, screened, skipped, since>>
consumerVars == <<topicVars, accountingVars, fraudVars>>

Records == 1..MaxOrders

TopicTypeOK ==
  /\ end \in 0..MaxOrders /\ broken \subseteq 1..end
  /\ slow \in BOOLEAN /\ kills \in 0..MaxKills

AccountingTypeOK ==
  /\ consumed \in 0..end /\ inHand \in 0..end /\ committed \in 0..end
  /\ logged \subseteq 1..end /\ refused \subseteq 1..end /\ dropped \subseteq 1..end

FraudTypeOK ==
  /\ position \in 0..end /\ next \in 0..position
  /\ hasSaved \in BOOLEAN /\ saved \in 0..end
  /\ slept \in Nat /\ evicted \in BOOLEAN
  /\ screened \subseteq 1..end /\ skipped \subseteq 1..end /\ since \in 0..end

ConsumersTypeOK == TopicTypeOK /\ AccountingTypeOK /\ FraudTypeOK

\* A group without a committed offset starts at the first order for accounting
\* (AutoOffsetReset.Earliest), and at the end of the topic, which may hold some
\* orders already, for fraud-detection (the default, latest).
ConsumersInit ==
  /\ end \in 0..MaxOrders /\ broken \in SUBSET (1..end) /\ slow = FALSE /\ kills = 0
  /\ consumed = 0 /\ inHand = 0 /\ committed = 0
  /\ logged = {} /\ refused = {} /\ dropped = {}
  /\ position = end /\ next = end /\ since = end /\ hasSaved = FALSE /\ saved = 0
  /\ slept = 0 /\ evicted = FALSE /\ screened = {} /\ skipped = {}

-----------------------------------------------------------------------------
(* The rest of the system.                                                 *)

\* One more record is stored: an order of checkout's producer, or what a reader
\* cannot parse as one.
Publish ==
  /\ end < MaxOrders
  /\ end' = end + 1
  /\ broken' \in {broken, broken \cup {end'}}
  /\ UNCHANGED <<slow, kills, accountingVars, fraudVars>>

ToggleFlag ==
  /\ slow' = ~slow
  /\ UNCHANGED <<end, broken, kills, accountingVars, fraudVars>>

Kill ==
  /\ kills < MaxKills
  /\ kills' = kills + 1
  /\ UNCHANGED <<end, broken, slow>>

-----------------------------------------------------------------------------
(* accounting.                                                             *)

\* _consumer.Consume() returns the next message.
Consume ==
  /\ inHand = 0
  /\ consumed < end
  /\ consumed' = consumed + 1
  /\ inHand' = consumed'
  /\ UNCHANGED <<topicVars, committed, logged, refused, dropped, fraudVars>>

\* Mutant: the exception of ParseFrom is not caught: it ends StartListening, and
\* the process starts again at the committed offset.
ProcessMessage_Throws ==
  /\ inHand # 0
  /\ inHand' = 0
  /\ IF inHand \in broken THEN consumed' = committed /\ logged' = logged
                          ELSE consumed' = consumed /\ logged' = logged \cup {inHand}
  /\ UNCHANGED <<topicVars, committed, refused, dropped, fraudVars>>

\* The order is parsed and logged.  One that does not parse is logged as an error
\* and passed over: its offset stays stored.
ProcessMessage ==
  /\ inHand # 0
  /\ inHand' = 0
  /\ \/ inHand \notin broken /\ logged' = logged \cup {inHand} /\ refused' = refused
     \/ inHand \in broken /\ refused' = refused \cup {inHand} /\ logged' = logged
  /\ UNCHANGED <<topicVars, consumed, committed, dropped, fraudVars>>

\* EnableAutoCommit: the timer commits what is stored.
AutoCommit ==
  /\ committed # consumed
  /\ committed' = consumed
  /\ UNCHANGED <<topicVars, consumed, inHand, logged, refused, dropped, fraudVars>>

\* Mutant: a service that starts again reads only what arrives from then on.
RestartAccounting_Latest ==
  /\ Kill
  /\ dropped' = dropped \cup ({inHand} \ {0})
  /\ inHand' = 0
  /\ consumed' = end
  /\ UNCHANGED <<committed, logged, refused, fraudVars>>

\* The process is killed and starts again, at the committed offset.
RestartAccounting ==
  /\ Kill
  /\ dropped' = dropped \cup ({inHand} \ {0})
  /\ inHand' = 0
  /\ consumed' = committed
  /\ UNCHANGED <<committed, logged, refused, fraudVars>>

StartListening == Consume \/ ProcessMessage

-----------------------------------------------------------------------------
(* fraud-detection.                                                        *)

\* More records come, or poll comes back with none.
Fetch ==
  \/ position' = position
  \/ \E n \in 1..MaxPoll : position + n <= end /\ position' = position + n

\* Mutant: poll commits the end of the records it returns, not of those before.
Poll_CommitsAhead ==
  /\ ~evicted
  /\ next = position
  /\ Fetch
  /\ hasSaved' = TRUE /\ saved' = position'
  /\ slept' = 0
  /\ UNCHANGED <<topicVars, accountingVars, next, evicted, screened, skipped, since>>

\* poll, when all it returned before is folded.  It commits its position if the
\* auto-commit interval is over, then returns what it can.
Poll ==
  /\ ~evicted
  /\ next = position
  /\ \/ UNCHANGED <<hasSaved, saved>>
     \/ hasSaved' = TRUE /\ saved' = position
  /\ Fetch
  /\ slept' = 0
  /\ UNCHANGED <<topicVars, accountingVars, next, evicted, screened, skipped, since>>

\* With the flag on, the lambda of fold sleeps for a second first; the client is
\* put out of its group if that is a second too many since the last poll.
Sleep ==
  /\ slept' = IF slow THEN slept + 1 ELSE slept
  /\ evicted' = (evicted \/ slept' > Patience)

\* The lambda of fold on one record, which it parses and counts.
Fold ==
  /\ next < position
  /\ next + 1 \notin broken
  /\ Sleep
  /\ next' = next + 1
  /\ screened' = screened \cup {next + 1}
  /\ UNCHANGED <<topicVars, accountingVars, position, hasSaved, saved, skipped, since>>

\* The client joins its group: it goes on from the committed offset or, where
\* there is none, from the end of the topic.
Resume ==
  /\ \/ hasSaved' /\ position' = saved' /\ since' = since
     \/ ~hasSaved' /\ position' = end /\ since' = end
  /\ next' = position'
  /\ slept' = 0 /\ evicted' = FALSE
  /\ UNCHANGED <<accountingVars, screened>>

\* Mutant: the process exits at once, and nothing closes the consumer.
Close_Never == UNCHANGED <<hasSaved, saved, skipped>>

\* close commits the position, the end of what the last poll returned, if the
\* client is still in its group.
Close ==
  \/ /\ ~evicted /\ (slow => slept < Patience)
     /\ hasSaved' = TRUE /\ saved' = position
     /\ skipped' = skipped \cup ((next + 1)..position)
  \/ /\ evicted \/ (slow /\ slept >= Patience)
     /\ UNCHANGED <<hasSaved, saved, skipped>>

\* A record that does not parse: the exception leaves the fold and the loop, use
\* closes the consumer, and the process, ended, is started again.
ParseFails ==
  /\ next < position
  /\ next + 1 \in broken
  /\ Close
  /\ Resume
  /\ UNCHANGED topicVars

\* The poll of an evicted client.  Its position, and the commit it would have
\* made, are lost.
Rejoin ==
  /\ evicted
  /\ next = position
  /\ UNCHANGED <<topicVars, hasSaved, saved, skipped>>
  /\ Resume

\* The process is killed and started again.
RestartFraud == Kill /\ UNCHANGED <<hasSaved, saved, skipped>> /\ Resume

PollLoop == Poll \/ Fold \/ ParseFails \/ Rejoin

-----------------------------------------------------------------------------
ConsumersNext ==
  \/ Publish \/ ToggleFlag
  \/ StartListening \/ AutoCommit \/ RestartAccounting
  \/ PollLoop \/ RestartFraud

\* Both services run their loops and, while there are records, poll brings some
\* of them.  Nothing is assumed of the timer that commits for accounting.
ConsumersFairness ==
  /\ WF_consumerVars(StartListening)
  /\ WF_consumerVars(PollLoop) /\ WF_consumerVars(Poll /\ position' # position)

ConsumersSpec == ConsumersInit /\ [][ConsumersNext]_consumerVars
ConsumersFairSpec == ConsumersSpec /\ ConsumersFairness

-----------------------------------------------------------------------------
(* Properties                                                              *)

\* accounting never reads past an order without having logged it, unless it was
\* killed with that order in its hand or the order does not parse: a kill costs
\* one order at most, however early the timer committed its offset, and a record
\* that does not parse costs no other.
EveryOrderAccounted ==
  /\ 1..consumed \subseteq logged \cup refused \cup dropped \cup {inHand}
  /\ logged \cap broken = {} /\ refused \subseteq broken
  /\ Cardinality(dropped) <= kills

\* Every order of the topic is logged by accounting in the end, or dropped by a
\* kill, or logged as one that does not parse: such a record holds up none of
\* those after it.
EveryOrderLogged ==
  \A order \in Records : order <= end ~> order \in logged \cup refused \cup dropped

\* Whatever fraud-detection has read past since it last started without an
\* offset, through kills, evictions and rejoins, it has screened, or a close
\* committed past it: that is a record that does not parse, or one that came
\* after it in the same batch.
NothingSkipped ==
  /\ \A order \in (since + 1)..next : order \in screened \cup skipped
  /\ \A order \in skipped : \E bad \in broken : bad <= order /\ order < bad + MaxPoll
  /\ screened \cap broken = {}

\* Every order after that start is screened, or committed past in this way, in
\* the end: a record that does not parse stops the service once, not for ever.
EveryOrderComesToScreening ==
  \A order \in Records :
    since < order /\ order <= end ~> order \in screened \cup skipped \/ order <= since

\* It is, if the flag that makes the service slow is off at last.
EveryOrderScreened == <>[]~slow => EveryOrderComesToScreening
=============================================================================
