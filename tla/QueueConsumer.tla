---------------------------- MODULE QueueConsumer ----------------------------
(***************************************************************************)
(* The outbound poll of the two Cloudflare queues: services/email-intake/  *)
(* queue.mjs, with the queues themselves modelled as far as the consumer   *)
(* relies on them (leases, redelivery, the move to the dead-letter queue). *)
(*                                                                         *)
(* A tick polls both queues at once, one leased message each.  Receiving a *)
(* mail is one step here; EmailPipeline replaces it by EmailIntake.        *)
(***************************************************************************)
EXTENDS Integers

CONSTANTS
  Message,    \* queue messages
  Undecoded,  \* messages decodeMessage refuses
  NoMessage,  \* no message
  MaxRetries  \* redeliveries a queue makes before it gives a message up

ASSUME QueueAssumption ==
  /\ NoMessage \notin Message
  /\ Undecoded \subseteq Message
  /\ MaxRetries \in Nat

Queue == {"ingress", "dead"}

VARIABLES
  where,      \* where a message is, or how it left the queues
  leased,     \* messages a pull has made invisible
  tries,      \* deliveries of a message by the queue it is in
  polling,    \* a tick of the transport is running
  step,       \* where the poll of each queue is
  got,        \* message the poll of each queue works on
  confirmed,  \* what that poll makes of it
  pending,    \* the temporary file of a dead-letter record
  record,     \* the final file of a dead-letter record
  kept,       \* messages with a durable queue_exhausted fault
  answered    \* messages Intake.receive answered ok for

cloud   == <<where, leased, tries>>
polls   == <<polling, step, got, confirmed>>
papers   == <<pending, record, kept>>
vars    == <<cloud, polls, papers, answered>>

TypeOK ==
  /\ where \in [Message -> {"new", "ingress", "dead", "accepted", "retained", "dropped"}]
  /\ leased \subseteq Message
  /\ tries \in [Message -> 0..(MaxRetries + 1)]
  /\ polling \in BOOLEAN
  /\ step \in [Queue -> {"off", "pull", "handle", "receiving", "write", "link", "sync", "fault",
                         "settle", "done", "failed"}]
  /\ got \in [Queue -> Message \cup {NoMessage}]
  /\ confirmed \in [Queue -> BOOLEAN]
  /\ pending \in {"none", "partial", "whole"}
  /\ record \in [Message -> {"absent", "partial", "linked", "durable"}]
  /\ kept \subseteq Message
  /\ answered \subseteq Message

Init ==
  /\ where = [m \in Message |-> "new"]
  /\ leased = {}
  /\ tries = [m \in Message |-> 0]
  /\ polling = FALSE
  /\ step = [q \in Queue |-> "off"]
  /\ got = [q \in Queue |-> NoMessage]
  /\ confirmed = [q \in Queue |-> FALSE]
  /\ pending = "none"
  /\ record = [m \in Message |-> "absent"]
  /\ kept = {}
  /\ answered = {}

(***************************************************************************)
(* The queues.                                                             *)
(***************************************************************************)

Produce(m) ==
  /\ where[m] = "new"
  /\ where' = [where EXCEPT ![m] = "ingress"]
  /\ UNCHANGED <<leased, tries, polls, papers, answered>>

\* A message that becomes visible again after its last retry changes queue, and
\* a dead letter that does is deleted.
Return(m) ==
  /\ leased' = leased \ {m}
  /\ IF tries[m] <= MaxRetries
     THEN UNCHANGED <<where, tries>>
     ELSE /\ where' = [where EXCEPT ![m] = IF @ = "ingress" THEN "dead" ELSE "dropped"]
          /\ tries' = [tries EXCEPT ![m] = 0]

\* The visibility timeout runs out, whether or not the poll still works on it.
Lapse(m) ==
  /\ m \in leased /\ where[m] \in Queue
  /\ Return(m)
  /\ UNCHANGED <<polls, papers, answered>>

Deliver(q, m) ==
  /\ where[m] = q /\ m \notin leased
  /\ leased' = leased \cup {m}
  /\ tries' = [tries EXCEPT ![m] = @ + 1]
  /\ UNCHANGED where

(***************************************************************************)
(* The poll of a queue.                                                    *)
(***************************************************************************)

Goto(q, s) == step' = [step EXCEPT ![q] = s]

\* Both queues are polled at once, so that neither can starve the other.
BeginTick ==
  /\ ~polling
  /\ polling' = TRUE
  /\ step' = [q \in Queue |-> "pull"]
  /\ UNCHANGED <<got, confirmed, cloud, papers, answered>>

Pull(q, m) ==
  /\ step[q] = "pull"
  /\ Deliver(q, m)
  /\ got' = [got EXCEPT ![q] = m]
  /\ confirmed' = [confirmed EXCEPT ![q] = FALSE]
  /\ Goto(q, "handle")
  /\ UNCHANGED <<polling, papers, answered>>

PullEmpty(q) ==
  /\ step[q] = "pull"
  /\ \A m \in Message : where[m] = q => m \in leased
  /\ Goto(q, "done")
  /\ UNCHANGED <<polling, got, confirmed, cloud, papers, answered>>

\* The request fails before or after the queue took it.
PullFails(q) ==
  /\ step[q] = "pull"
  /\ UNCHANGED cloud \/ \E m \in Message : Deliver(q, m)
  /\ Goto(q, "failed")
  /\ UNCHANGED <<polling, got, confirmed, papers, answered>>

\* An ingress message is decoded and handed to the intake.
Handle ==
  /\ step["ingress"] = "handle"
  /\ Goto("ingress", IF got["ingress"] \in Undecoded THEN "settle" ELSE "receiving")
  /\ UNCHANGED <<polling, got, confirmed, cloud, papers, answered>>

\* Mutant: whatever the intake returned.
AcceptAnyway(ok) ==
  /\ step["ingress"] = "receiving"
  /\ confirmed' = [confirmed EXCEPT !["ingress"] = TRUE]
  /\ answered' = IF ok THEN answered \cup {got["ingress"]} ELSE answered
  /\ Goto("ingress", "settle")
  /\ UNCHANGED <<polling, got, cloud, papers>>

\* What the intake returned decides what becomes of the lease.
ReceiveReturns(ok) ==
  /\ step["ingress"] = "receiving"
  /\ confirmed' = [confirmed EXCEPT !["ingress"] = ok]
  /\ answered' = IF ok THEN answered \cup {got["ingress"]} ELSE answered
  /\ Goto("ingress", "settle")
  /\ UNCHANGED <<polling, got, cloud, papers>>

\* A dead letter, decodable or not, gets a private temporary file of its own.
WriteRecord ==
  /\ step["dead"] = "handle"
  /\ pending' = "partial"
  /\ Goto("dead", "write")
  /\ UNCHANGED <<polling, got, confirmed, cloud, record, kept, answered>>

FlushRecord ==
  /\ step["dead"] = "write"
  /\ pending' = "whole"
  /\ Goto("dead", "link")
  /\ UNCHANGED <<polling, got, confirmed, cloud, record, kept, answered>>

\* The record is published under its final name unless one is there already.
LinkRecord ==
  /\ step["dead"] = "link"
  /\ record' = [record EXCEPT ![got["dead"]] =
       IF @ # "absent" THEN @ ELSE IF pending = "whole" THEN "linked" ELSE "partial"]
  /\ pending' = "none"
  /\ Goto("dead", "sync")
  /\ UNCHANGED <<polling, got, confirmed, cloud, kept, answered>>

\* The directory is flushed, and with it every record linked so far.

SyncDirectory ==
  /\ step["dead"] = "sync"
  /\ record' = [m \in Message |-> IF record[m] = "linked" THEN "durable" ELSE record[m]]
  /\ Goto("dead", "fault")
  /\ UNCHANGED <<polling, got, confirmed, cloud, pending, kept, answered>>

RecordFault ==
  /\ step["dead"] = "fault"
  /\ kept' = kept \cup {got["dead"]}
  /\ confirmed' = [confirmed EXCEPT !["dead"] = TRUE]
  /\ Goto("dead", "settle")
  /\ UNCHANGED <<polling, got, cloud, pending, record, answered>>

\* Mutant: the error is swallowed after the message was marked.
KeepingForgiven ==
  /\ step["dead"] \in {"handle", "write", "link", "sync", "fault"}
  /\ pending' = "none"
  /\ confirmed' = [confirmed EXCEPT !["dead"] = TRUE]
  /\ Goto("dead", "settle")
  /\ UNCHANGED <<polling, got, cloud, record, kept, answered>>

\* A full disk, a locked database: the dead letter is left unconfirmed.
KeepingFails ==
  /\ step["dead"] \in {"handle", "write", "link", "sync", "fault"}
  /\ pending' = "none"
  /\ Goto("dead", "settle")
  /\ UNCHANGED <<polling, got, confirmed, cloud, record, kept, answered>>

\* Acknowledgement ends a message; a retry returns it to its queue.  A lease that
\* lapsed meanwhile is not honoured.
Acknowledge(q) ==
  LET m == got[q] IN
  IF m \notin leased \/ where[m] # q THEN UNCHANGED cloud
  ELSE IF confirmed[q]
       THEN /\ where' = [where EXCEPT ![m] = IF q = "ingress" THEN "accepted" ELSE "retained"]
            /\ leased' = leased \ {m}
            /\ UNCHANGED tries
       ELSE Return(m)

\* The call may fail before or after the queue took it; only a reply ends well.
Settle(q) ==
  /\ step[q] = "settle"
  /\ \/ Acknowledge(q) /\ (Goto(q, "done") \/ Goto(q, "failed"))
     \/ UNCHANGED cloud /\ Goto(q, "failed")
  /\ got' = [got EXCEPT ![q] = NoMessage]
  /\ UNCHANGED <<polling, confirmed, papers, answered>>

Ended(q) == step[q] \in {"done", "failed"}

\* Mutant: the tick waits for both polls to succeed.
EndGoodTick ==
  /\ polling /\ \A q \in Queue : step[q] = "done"
  /\ polling' = FALSE
  /\ step' = [q \in Queue |-> "off"]
  /\ UNCHANGED <<got, confirmed, cloud, papers, answered>>

\* A tick ends when both polls have ended, well or not.

EndTick ==
  /\ polling /\ \A q \in Queue : Ended(q)
  /\ polling' = FALSE
  /\ step' = [q \in Queue |-> "off"]
  /\ UNCHANGED <<got, confirmed, cloud, papers, answered>>

(***************************************************************************)
(* The end of the process.                                                 *)
(***************************************************************************)

Stop ==
  /\ polling' = FALSE
  /\ step' = [q \in Queue |-> "off"]
  /\ got' = [q \in Queue |-> NoMessage]
  /\ confirmed' = [q \in Queue |-> FALSE]
  /\ pending' = "none"
  /\ UNCHANGED <<cloud, kept, answered>>

Crash == Stop /\ UNCHANGED record

\* A power failure may also undo a directory entry nobody flushed.
PowerFails ==
  /\ Stop
  /\ \E lost \in SUBSET {m \in Message : record[m] = "linked"} :
       record' = [m \in Message |-> IF m \in lost THEN "absent" ELSE record[m]]

Poll(q) ==
  \/ \E m \in Message : Pull(q, m)
  \/ PullEmpty(q) \/ PullFails(q) \/ Settle(q)

Retain == WriteRecord \/ FlushRecord \/ LinkRecord \/ SyncDirectory \/ RecordFault \/ KeepingFails

Next ==
  \/ \E m \in Message : Produce(m) \/ Lapse(m)
  \/ BeginTick \/ EndTick
  \/ \E q \in Queue : Poll(q)
  \/ Handle \/ \E ok \in BOOLEAN : ReceiveReturns(ok)
  \/ Retain
  \/ Crash \/ PowerFails

Spec == Init /\ [][Next]_vars

-----------------------------------------------------------------------------
\* A message leaves the ingress queue for good only once the intake answered ok
\* for it, whatever lapsed, was lost or crashed (queue.mjs:59-64).
AcceptedWasAnswered == \A m \in Message : where[m] = "accepted" => m \in answered

\* A dead letter is acknowledged, and its fault announced, only over a record that
\* survives a power failure (queue.mjs:40-57).
RetainedIsDurable ==
  /\ \A m \in Message : where[m] = "retained" => m \in kept
  /\ \A m \in kept : record[m] = "durable"

\* No final record is partial, although a crash may strike at any byte
\* (queue.mjs:47-50).
RecordsAreWhole == \A m \in Message : record[m] # "partial"
=============================================================================
