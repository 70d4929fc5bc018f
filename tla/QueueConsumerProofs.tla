------------------------- MODULE QueueConsumerProofs -------------------------
(***************************************************************************)
(* Proofs about QueueConsumer, for every set of messages and every number  *)
(* of retries.                                                             *)
(***************************************************************************)
EXTENDS QueueConsumer, TLAPS

Where   == {"new", "ingress", "dead", "accepted", "retained", "dropped"}
Records == {"absent", "partial", "linked", "durable"}

\* A message that can be pulled has deliveries left.
LeaseInv ==
  \A m \in Message :
    /\ where[m] = "new" => tries[m] = 0
    /\ m \in leased => where[m] \in Queue
    /\ where[m] \in Queue /\ m \notin leased => tries[m] <= MaxRetries

\* What a poll has got done at each of its steps.
PollInv ==
  /\ \A q \in Queue : step[q] \notin {"off", "pull", "done", "failed"} => got[q] \in Message
  /\ step["ingress"] \notin {"write", "link", "sync", "fault"}
  /\ step["dead"] # "receiving"
  /\ step["ingress"] = "settle" /\ confirmed["ingress"] => got["ingress"] \in answered
  /\ step["dead"] = "settle" /\ confirmed["dead"] => got["dead"] \in kept
  /\ step["ingress"] \in {"handle", "receiving"} => ~confirmed["ingress"]
  /\ step["dead"] \in {"handle", "write", "link", "sync", "fault"} => ~confirmed["dead"]
  /\ step["dead"] = "link" => pending = "whole"
  /\ step["dead"] = "sync" => record[got["dead"]] \in {"linked", "durable"}
  /\ step["dead"] = "fault" => record[got["dead"]] = "durable"

\* A fault is recorded only for a record that is durable (queue.mjs:54-56).
FaultHasRecord == \A m \in kept : record[m] = "durable"

Safe == AcceptedWasAnswered /\ RetainedIsDurable /\ RecordsAreWhole /\ FaultHasRecord

IInv == TypeOK /\ LeaseInv /\ PollInv /\ Safe

LEMMA Queues == Queue = {"ingress", "dead"} /\ "ingress" \in Queue /\ "dead" \in Queue
  BY DEF Queue

\* What the queues themselves do keeps their bookkeeping and ends no message well.
LEMMA ReturnStep ==
  ASSUME TypeOK, LeaseInv, NEW m \in leased, Return(m)
  PROVE  /\ where' \in [Message -> Where]
         /\ leased' \subseteq Message
         /\ tries' \in [Message -> 0..(MaxRetries + 1)]
         /\ LeaseInv'
         /\ \A n \in Message : where'[n] \in {"accepted", "retained"} => where'[n] = where[n]
<1>1. CASE tries[m] <= MaxRetries
  BY <1>1, QueueAssumption DEF TypeOK, LeaseInv, Return, Where, Queue
<1>2. CASE ~(tries[m] <= MaxRetries)
  BY <1>2, QueueAssumption DEF TypeOK, LeaseInv, Return, Where, Queue
<1> QED
  BY <1>1, <1>2

LEMMA DeliverStep ==
  ASSUME TypeOK, LeaseInv, NEW m \in Message, NEW q \in Queue, Deliver(q, m)
  PROVE  /\ where' = where
         /\ leased' \subseteq Message
         /\ tries' \in [Message -> 0..(MaxRetries + 1)]
         /\ LeaseInv'
<1>1. tries[m] + 1 \in 0..(MaxRetries + 1)
  BY QueueAssumption DEF TypeOK, LeaseInv, Deliver
<1> QED
  BY <1>1, QueueAssumption DEF TypeOK, LeaseInv, Deliver, Queue

\* A call about a message moves it only to the outcome that was confirmed.
LEMMA AcknowledgeStep ==
  ASSUME TypeOK, LeaseInv, NEW q \in Queue, got[q] \in Message, Acknowledge(q)
  PROVE  /\ where' \in [Message -> Where]
         /\ leased' \subseteq Message
         /\ tries' \in [Message -> 0..(MaxRetries + 1)]
         /\ LeaseInv'
         /\ \A n \in Message : where'[n] \in {"accepted", "retained"} =>
              \/ where'[n] = where[n]
              \/ /\ n = got[q] /\ confirmed[q]
                 /\ where'[n] = IF q = "ingress" THEN "accepted" ELSE "retained"
<1>1. CASE got[q] \notin leased \/ where[got[q]] # q
  BY <1>1 DEF TypeOK, LeaseInv, Acknowledge, cloud, Where
<1>2. CASE got[q] \in leased /\ where[got[q]] = q /\ confirmed[q]
  BY <1>2 DEF TypeOK, LeaseInv, Acknowledge, Where, Queue
<1>3. CASE got[q] \in leased /\ where[got[q]] = q /\ ~confirmed[q]
  BY <1>3, ReturnStep DEF Acknowledge
<1> QED
  BY <1>1, <1>2, <1>3

\* The queues' part of a step.
CloudOK ==
  /\ where \in [Message -> Where]
  /\ leased \subseteq Message
  /\ tries \in [Message -> 0..(MaxRetries + 1)]
  /\ LeaseInv

\* The consumer's part of it.
ConsumerOK ==
  /\ polling \in BOOLEAN
  /\ step \in [Queue -> {"off", "pull", "handle", "receiving", "write", "link", "sync", "fault",
                         "settle", "done", "failed"}]
  /\ got \in [Queue -> Message \cup {NoMessage}]
  /\ confirmed \in [Queue -> BOOLEAN]
  /\ pending \in {"none", "partial", "whole"}
  /\ record \in [Message -> Records]
  /\ kept \subseteq Message
  /\ answered \subseteq Message
  /\ PollInv /\ RecordsAreWhole /\ FaultHasRecord

Ends == AcceptedWasAnswered /\ \A m \in Message : where[m] = "retained" => m \in kept

LEMMA Parts == IInv <=> CloudOK /\ ConsumerOK /\ Ends
  BY DEF IInv, CloudOK, ConsumerOK, Ends, TypeOK, Safe, RetainedIsDurable, FaultHasRecord,
         Where, Records

LEMMA CloudStep ==
  IInv /\ [Next]_vars => CloudOK'
<1> SUFFICES ASSUME TypeOK, LeaseInv, PollInv, [Next]_vars PROVE CloudOK'
  BY DEF IInv
<1>0. CASE UNCHANGED cloud
  BY <1>0 DEF TypeOK, LeaseInv, CloudOK, cloud, Where
<1>1. ASSUME NEW m \in Message, Produce(m) PROVE CloudOK'
  BY <1>1, QueueAssumption DEF TypeOK, LeaseInv, CloudOK, Produce, Where, Queue
<1>2. ASSUME NEW m \in Message, Lapse(m) PROVE CloudOK'
  BY <1>2, ReturnStep DEF Lapse, CloudOK
<1>3. ASSUME NEW q \in Queue, Poll(q) PROVE CloudOK'
  <2>1. ASSUME NEW m \in Message, Deliver(q, m) PROVE CloudOK'
    BY <2>1, DeliverStep DEF CloudOK, TypeOK, Where
  <2>2. CASE Settle(q)
    <3>1. got[q] \in Message
      BY <2>2 DEF Settle, PollInv
    <3> QED
      BY <1>0, <2>2, <3>1, AcknowledgeStep DEF Settle, CloudOK
  <2> QED
    BY <1>0, <1>3, <2>1, <2>2 DEF Poll, Pull, PullEmpty, PullFails
<1> QED
  BY <1>0, <1>1, <1>2, <1>3 DEF Next, vars, BeginTick, EndTick, Handle, ReceiveReturns, Retain,
     WriteRecord, FlushRecord, LinkRecord, SyncDirectory, RecordFault, KeepingFails, Crash,
     PowerFails, Stop

LEMMA ConsumerStep ==
  IInv /\ [Next]_vars => ConsumerOK'
<1> SUFFICES ASSUME ConsumerOK, [Next]_vars PROVE ConsumerOK'
  BY Parts
<1> USE Queues DEF Goto, cloud, papers, polls, Records, ConsumerOK, PollInv, RecordsAreWhole, FaultHasRecord
<1>1. CASE UNCHANGED <<polls, papers, answered>>
  BY <1>1
<1>2. CASE BeginTick \/ EndTick
  BY <1>2, ZenonT(60) DEF BeginTick, EndTick
<1>3. ASSUME NEW q \in Queue, NEW m \in Message, Pull(q, m) PROVE ConsumerOK'
  BY <1>3 DEF Pull
<1>4. ASSUME NEW q \in Queue, PullEmpty(q) \/ PullFails(q) PROVE ConsumerOK'
  BY <1>4 DEF PullEmpty, PullFails
<1>5. ASSUME NEW q \in Queue, Settle(q) PROVE ConsumerOK'
  BY <1>5 DEF Settle
<1>6. CASE Handle
  BY <1>6 DEF Handle
<1>7. ASSUME NEW ok \in BOOLEAN, ReceiveReturns(ok) PROVE ConsumerOK'
  BY <1>7 DEF ReceiveReturns
<1>8. CASE WriteRecord \/ FlushRecord
  BY <1>8 DEF WriteRecord, FlushRecord
<1>9. CASE LinkRecord
  BY <1>9 DEF LinkRecord
<1>10. CASE SyncDirectory
  BY <1>10 DEF SyncDirectory
<1>11. CASE RecordFault
  BY <1>11 DEF RecordFault
<1>12. CASE KeepingFails
  BY <1>12 DEF KeepingFails
<1>13. CASE Crash
  BY <1>13 DEF Crash, Stop
<1>14. CASE PowerFails
  BY <1>14, ZenonT(60) DEF PowerFails, Stop
<1> QED
  BY <1>1, <1>2, <1>3, <1>4, <1>5, <1>6, <1>7, <1>8, <1>9, <1>10, <1>11, <1>12, <1>13, <1>14
  DEF Next, Poll, Retain, Produce, Lapse, vars

LEMMA EndsStep ==
  IInv /\ [Next]_vars => Ends'
<1> SUFFICES ASSUME TypeOK, LeaseInv, PollInv, Ends, [Next]_vars PROVE Ends'
  BY Parts DEF IInv
<1>1. answered \subseteq answered' /\ kept \subseteq kept'
  BY DEF Next, vars, Produce, Lapse, BeginTick, EndTick, Poll, Pull, PullEmpty, PullFails, Settle,
     Handle, ReceiveReturns, Retain, WriteRecord, FlushRecord, LinkRecord, SyncDirectory,
     RecordFault, KeepingFails, Crash, PowerFails, Stop, papers
<1>2. SUFFICES \A n \in Message : where'[n] \in {"accepted", "retained"} =>
        \/ where'[n] = where[n]
        \/ where'[n] = "accepted" /\ n \in answered
        \/ where'[n] = "retained" /\ n \in kept
  BY <1>1 DEF Ends, AcceptedWasAnswered
<1>3. CASE UNCHANGED where
  BY <1>3
<1>4. ASSUME NEW m \in Message, Produce(m)
      PROVE  \A n \in Message : where'[n] \in {"accepted", "retained"} => where'[n] = where[n]
  BY <1>4 DEF Produce, TypeOK
<1>5. ASSUME NEW m \in Message, Lapse(m)
      PROVE  \A n \in Message : where'[n] \in {"accepted", "retained"} => where'[n] = where[n]
  BY <1>5, ReturnStep DEF Lapse
<1>6. ASSUME NEW q \in Queue, Settle(q)
      PROVE  \A n \in Message : where'[n] \in {"accepted", "retained"} =>
        \/ where'[n] = where[n]
        \/ where'[n] = "accepted" /\ n \in answered
        \/ where'[n] = "retained" /\ n \in kept
  <2>1. step[q] = "settle" /\ got[q] \in Message /\ (q = "ingress" \/ q = "dead")
    BY <1>6 DEF Settle, PollInv, Queue
  <2>2. CASE UNCHANGED cloud
    BY <2>2 DEF cloud
  <2>3. CASE Acknowledge(q)
    BY <2>1, <2>3, AcknowledgeStep DEF PollInv
  <2> QED
    BY <1>6, <2>2, <2>3 DEF Settle
<1> QED
  BY <1>3, <1>4, <1>5, <1>6 DEF Next, vars, cloud, BeginTick, EndTick, Poll, Pull, PullEmpty,
     PullFails, Deliver, Handle, ReceiveReturns, Retain, WriteRecord, FlushRecord, LinkRecord,
     SyncDirectory, RecordFault, KeepingFails, Crash, PowerFails, Stop

\* The inductive invariant holds in every behaviour.
THEOREM Inductive == Spec => []IInv
<1>1. Init => IInv
  <2> SUFFICES ASSUME Init PROVE IInv
    OBVIOUS
  <2>1. CloudOK
    BY QueueAssumption DEF Init, CloudOK, LeaseInv, Where, Queue
  <2>2. ConsumerOK
    BY Queues DEF Init, ConsumerOK, PollInv, RecordsAreWhole, FaultHasRecord, Records
  <2>3. Ends
    BY DEF Init, Ends, AcceptedWasAnswered
  <2> QED
    BY <2>1, <2>2, <2>3, Parts
<1>2. IInv /\ [Next]_vars => IInv'
  <2> SUFFICES ASSUME IInv, [Next]_vars PROVE IInv'
    OBVIOUS
  <2>1. CloudOK' /\ ConsumerOK' /\ Ends'
    BY CloudStep, ConsumerStep, EndsStep
  <2> QED
    BY <2>1, QueueAssumption DEF IInv, CloudOK, ConsumerOK, Ends, TypeOK, Safe, RetainedIsDurable,
       FaultHasRecord, Where, Records
<1> QED
  BY <1>1, <1>2, PTL DEF Spec

\* The variables keep their types; no message is delivered more often than its queue
\* allows.
THEOREM TypeCorrect == Spec => []TypeOK
  BY Inductive, PTL DEF IInv

\* A message leaves the ingress queue for good only after the intake's ok
\* (queue.mjs:59-64).
THEOREM Accepted == Spec => []AcceptedWasAnswered
  BY Inductive, PTL DEF IInv, Safe

\* An acknowledged dead letter survives a power failure, record and fault
\* (queue.mjs:40-57).
THEOREM Retained == Spec => []RetainedIsDurable
  BY Inductive, PTL DEF IInv, Safe

\* No record is ever partial under its final name (queue.mjs:47-50).
THEOREM Whole == Spec => []RecordsAreWhole
  BY Inductive, PTL DEF IInv, Safe
=============================================================================
