------------------------------ MODULE Calendar ------------------------------
(***************************************************************************)
(* The calendar service: agents' tool calls and invitations from the       *)
(* owner's mail change one SQLite file, each change in a transaction with  *)
(* its operation's result and its audit row.  A request runs alone between *)
(* two of its transactions; only a crash comes between them.               *)
(* (services/calendar, ops/calendar)                                       *)
(***************************************************************************)
EXTENDS Integers

CONSTANTS
  Agent,         \* the allowed agents
  Op,            \* the operation ids that agents send, again or for the first time
  Mail,          \* the inbound messages to one bot address, redelivered at will
  None,
  UidOf,         \* the UID an invitation names, None when the message carries no usable one
  SequenceOf,    \* its SEQUENCE
  Cancels,       \* the messages with METHOD:CANCEL
  Plain,         \* the messages without a calendar payload
  Expected       \* the revisions that callers expect, None when they name none

Key == Op \cup Mail        \* an operation's id also names what it created

Status == {"confirmed", "cancelled"}

\* What the tables hold; source is the SEQUENCE of the invitation an event is from, -1 for an agent's own.
Event == [calendar : Op, uid : Op \cup {UidOf[m] : m \in Mail}, revision : Nat, status : Status,
          deleted : BOOLEAN, source : Int]
Outcome == [id : Key, revision : Nat]
Intake == [mail : Mail, result : Outcome, replay : BOOLEAN, at : {"record", "verify"}]

ASSUME CalendarAssumption ==
  /\ None \notin Event /\ None \notin Outcome /\ None \notin Intake
  /\ None \notin [managers : SUBSET Agent, default : BOOLEAN]
  /\ Op \cap Mail = {} /\ Op \cap {UidOf[m] : m \in Mail} = {}
  /\ Cancels \subseteq Mail /\ Plain \subseteq Mail
  /\ SequenceOf \in [Mail -> Nat]

VARIABLES
  calendars,     \* table calendars: the managers and the default flag of each
  events,        \* table events
  operations,    \* table operations: what each operation answered
  audit,         \* table audit
  inbound,       \* table inbound_messages: the status of each message
  ingest,        \* the mail being taken in, and where it is
  told,          \* what the callers of each operation were answered
  receipts       \* the verified receipts returned

tables == <<calendars, events, operations, audit>>
cvars == <<tables, inbound, ingest, told, receipts>>

CalendarInit ==
  /\ calendars = [k \in Op |-> None] /\ events = [k \in Key |-> None]
  /\ operations = [k \in Key |-> None] /\ audit = {}
  /\ inbound = [m \in Mail |-> None] /\ ingest = None
  /\ told = [k \in Op |-> {}] /\ receipts = {}

-----------------------------------------------------------------------------
(* The store. *)

Idle == ingest = None

\* recordOperation and recordAudit, in the transaction of the change they are about.
Record(op, kind, result) ==
  /\ operations[op] = None
  /\ operations' = [operations EXCEPT ![op] = result]
  /\ audit' = audit \cup {[operation |-> op, kind |-> kind, object |-> result.id, revision |-> result.revision]}

Result(id, revision) == [id |-> id, revision |-> revision]

Uids(calendar) == {events[k].uid : k \in {k \in Key : events[k] # None /\ events[k].calendar = calendar}}

Commit(op, id, event) ==
  /\ events[id] = None => event.uid \notin Uids(event.calendar)
  /\ events' = [events EXCEPT ![id] = event]
  /\ Record(op, "event", Result(id, event.revision))
  /\ UNCHANGED calendars

\* Mutant: the tombstone keeps the revision of the event.
TombstoneInPlace(op, id) ==
  /\ events' = [events EXCEPT ![id].deleted = TRUE]
  /\ Record(op, "event", Result(id, events[id].revision + 1))
  /\ UNCHANGED calendars

Tombstone(op, id) ==
  /\ events' = [events EXCEPT ![id].revision = @ + 1, ![id].deleted = TRUE]
  /\ Record(op, "event", Result(id, events[id].revision + 1))
  /\ UNCHANGED calendars

Live(id) == events[id] # None /\ ~events[id].deleted

ReadByUid(calendar, uid) == {k \in Key : Live(k) /\ events[k].calendar = calendar /\ events[k].uid = uid}

DefaultCalendar == {c \in Op : calendars[c] # None /\ calendars[c].default}

\* Mutant: a claimed operation answers with its object as it is now.
ClaimCurrent(op) ==
  IF operations[op] = None \/ events[operations[op].id] = None THEN operations[op]
  ELSE Result(operations[op].id, events[operations[op].id].revision)

\* A claimed operation answers what it answered, whatever it is asked to do now.
ClaimOperation(op) == operations[op]

-----------------------------------------------------------------------------
(* CalendarService *)

NormalizeEvent(calendar, uid, status, source) ==
  [calendar |-> calendar, uid |-> uid, revision |-> 1, status |-> status, deleted |-> FALSE, source |-> source]

\* normalizeEvent again: what the patch leaves out stays, the revision goes up.
ReviseEvent(id, status, source) ==
  [events[id] EXCEPT !.revision = @ + 1, !.status = status, !.source = source]

Agrees(id, expected) == expected = None \/ expected = events[id].revision

-----------------------------------------------------------------------------
(* The agents' tools. *)

IsManager(calendar, a) == calendars[calendar] # None /\ a \in calendars[calendar].managers

Tell(op, result) == told' = [told EXCEPT ![op] = @ \cup {result}]

\* Every tool replays before it changes anything.
Replays(op) == ClaimOperation(op) # None /\ Tell(op, ClaimOperation(op)) /\ UNCHANGED tables

Fresh(op) == ClaimOperation(op) = None

CreateCalendar(op, a, others, default) ==
  /\ Idle
  /\ \/ Replays(op)
     \/ /\ Fresh(op)
        /\ default => DefaultCalendar = {}
        /\ calendars' = [calendars EXCEPT ![op] = [managers |-> {a} \cup others, default |-> default]]
        /\ Record(op, "calendar", Result(op, 1))
        /\ Tell(op, Result(op, 1))
        /\ UNCHANGED events
  /\ UNCHANGED <<inbound, ingest, receipts>>

CreateFeed(op, a, calendar) ==
  /\ Idle /\ IsManager(calendar, a)
  /\ \/ Replays(op)
     \/ Fresh(op) /\ Record(op, "feed_grant", Result(op, 1)) /\ Tell(op, Result(op, 1)) /\ UNCHANGED <<calendars, events>>
  /\ UNCHANGED <<inbound, ingest, receipts>>

CreateEvent(op, a, calendar, status) ==
  /\ Idle /\ IsManager(calendar, a)
  /\ \/ Replays(op)
     \/ Fresh(op) /\ Commit(op, op, NormalizeEvent(calendar, op, status, -1)) /\ Tell(op, Result(op, 1))
  /\ UNCHANGED <<inbound, ingest, receipts>>

\* Update, cancel and delete begin by reading the event, so a deleted one is not even replayed.
ChangeEvent(op, a, id, expected, Change) ==
  /\ Idle /\ Live(id) /\ IsManager(events[id].calendar, a)
  /\ \/ Replays(op)
     \/ Fresh(op) /\ Agrees(id, expected) /\ Change /\ Tell(op, operations'[op])
  /\ UNCHANGED <<inbound, ingest, receipts>>

UpdateEvent(op, a, id, expected, status) ==
  ChangeEvent(op, a, id, expected, Commit(op, id, ReviseEvent(id, status, events[id].source)))

CancelEvent(op, a, id, expected) ==
  ChangeEvent(op, a, id, expected, Commit(op, id, ReviseEvent(id, "cancelled", events[id].source)))

DeleteEvent(op, a, id, expected) == ChangeEvent(op, a, id, expected, Tombstone(op, id))

-----------------------------------------------------------------------------
(* The owner's mail. *)

RecordInbound(m, status) == inbound' = [inbound EXCEPT ![m] = status]

\* ingestEmail without a payload: the mail waits for an agent.
Suspend(m) ==
  /\ Idle /\ m \in Plain
  /\ RecordInbound(m, "pending")
  /\ UNCHANGED <<tables, ingest, told, receipts>>

PriorSequence(current) == IF current = {} THEN -1 ELSE events[CHOOSE k \in current : TRUE].source

\* Mutant: the sequence is only compared for equality.
NeverStale(m, current) == FALSE

Stale(m, current) == SequenceOf[m] < PriorSequence(current)
Duplicate(m, current) == current # {} /\ SequenceOf[m] = PriorSequence(current)

\* What normalizeEvent and the calendar's UIDs refuse.
Refused(m, calendar) ==
  \/ UidOf[m] = None
  \/ LET current == ReadByUid(calendar, UidOf[m])
     IN  \/ Stale(m, current)
         \/ current = {} /\ m \in Cancels
         \/ current = {} /\ ClaimOperation(m) = None /\ UidOf[m] \in Uids(calendar)

\* The result goes on, with idempotentReplay when nothing was done for it.
Taken(m, result, replay) ==
  /\ ingest' = [mail |-> m, result |-> result, replay |-> replay, at |-> "record"]
  /\ UNCHANGED inbound

\* applyInvitation, up to the end of its transaction.
ApplyInvitation(m, calendar) ==
  LET current == ReadByUid(calendar, UidOf[m])
  IN  /\ UidOf[m] # None /\ ~Stale(m, current)
      /\ \/ /\ Duplicate(m, current)
            /\ \E k \in current : Taken(m, Result(k, events[k].revision), TRUE)
            /\ UNCHANGED tables
         \/ /\ ~Duplicate(m, current) /\ ClaimOperation(m) # None
            /\ m \in Cancels => current # {}
            /\ Taken(m, ClaimOperation(m), TRUE)
            /\ UNCHANGED tables
         \/ /\ ~Duplicate(m, current) /\ Fresh(m) /\ m \in Cancels
            /\ \E k \in current :
                 /\ Commit(m, k, ReviseEvent(k, "cancelled", SequenceOf[m]))
                 /\ Taken(m, operations'[m], FALSE)
         \/ /\ ~Duplicate(m, current) /\ Fresh(m) /\ m \notin Cancels
            /\ \/ \E k \in current : Commit(m, k, ReviseEvent(k, "confirmed", SequenceOf[m]))
               \/ current = {} /\ Commit(m, m, NormalizeEvent(calendar, UidOf[m], "confirmed", SequenceOf[m]))
            /\ Taken(m, operations'[m], FALSE)

IngestEmail(m) ==
  /\ Idle /\ m \notin Plain
  /\ \E calendar \in DefaultCalendar :
       \/ ApplyInvitation(m, calendar)
       \/ Refused(m, calendar) /\ RecordInbound(m, "rejected") /\ UNCHANGED <<tables, ingest>>
  /\ UNCHANGED <<told, receipts>>

RecordApplied ==
  /\ ingest # None /\ ingest.at = "record"
  /\ RecordInbound(ingest.mail, "applied")
  /\ ingest' = [ingest EXCEPT !.at = "verify"]
  /\ UNCHANGED <<tables, told, receipts>>

\* Mutant: the receipt is written without the read.
Unread == TRUE

\* The receipt vouches for what a fresh read shows.
Verified == Live(ingest.result.id) /\ events[ingest.result.id].revision = ingest.result.revision

ReceiptOutcome ==
  IF ingest.replay THEN "duplicate"
  ELSE IF events[ingest.result.id].status = "cancelled" THEN "cancelled" ELSE "recorded"

Verify ==
  /\ ingest # None /\ ingest.at = "verify"
  /\ \/ /\ Verified
        /\ receipts' = receipts \cup {[mail |-> ingest.mail, result |-> ingest.result, outcome |-> ReceiptOutcome]}
        /\ UNCHANGED inbound
     \/ ~Verified /\ RecordInbound(ingest.mail, "rejected") /\ UNCHANGED receipts
  /\ ingest' = None
  /\ UNCHANGED <<tables, told>>

\* The service stops between two transactions and is started again.
CalendarCrash == ingest # None /\ ingest' = None /\ UNCHANGED <<tables, inbound, told, receipts>>

-----------------------------------------------------------------------------
CalendarNext ==
  \/ \E op \in Op, a \in Agent :
       \/ \E others \in SUBSET Agent, default \in BOOLEAN : CreateCalendar(op, a, others, default)
       \/ \E calendar \in Op : CreateFeed(op, a, calendar)
       \/ \E calendar \in Op, status \in Status : CreateEvent(op, a, calendar, status)
       \/ \E id \in Key, expected \in Expected :
            \/ \E status \in Status : UpdateEvent(op, a, id, expected, status)
            \/ CancelEvent(op, a, id, expected)
            \/ DeleteEvent(op, a, id, expected)
  \/ \E m \in Mail : Suspend(m) \/ IngestEmail(m)
  \/ RecordApplied \/ Verify \/ CalendarCrash

CalendarSpec == CalendarInit /\ [][CalendarNext]_cvars

-----------------------------------------------------------------------------
(* Properties. *)

(***************************************************************************)
(* The audit trail is complete and exact: the revisions of an event are    *)
(* the rows about it, numbered from one without a gap, however updates,    *)
(* deletions and invitations follow each other (store.commit, tombstone).  *)
(***************************************************************************)
RevisionsAreAudited ==
  \A id \in Key :
    {row.revision : row \in {row \in audit : row.kind = "event" /\ row.object = id}}
      = IF events[id] = None THEN {} ELSE 1..events[id].revision

(***************************************************************************)
(* An operation sent again is told what it was told the first time, even   *)
(* after others have changed its event: every answer is a row of the audit *)
(* (service.mutate, store.claimOperation). The answers are those given:    *)
(* a change sent again after its event was deleted is refused instead.     *)
(***************************************************************************)
ToldIsAudited ==
  \A op \in Op : \A result \in told[op] :
    \E row \in audit : row.operation = op /\ row.object = result.id /\ row.revision = result.revision

(***************************************************************************)
(* What an invitation brought is never undone by an older one, across      *)
(* redelivery, reordering and the edits of agents (applyInvitation).       *)
(***************************************************************************)
MovesForward(k) == events[k] # None =>
  events'[k] # None /\ events'[k].source >= events[k].source /\ events'[k].revision >= events[k].revision

InvitationsMoveForward == [][\A k \in Key : MovesForward(k)]_cvars

(***************************************************************************)
(* A receipt marked verified names an event that the calendar shows, at    *)
(* that very revision, with the UID and the SEQUENCE of the message, and   *)
(* the message is recorded as applied, whatever agents did to the event    *)
(* before and however often the service stopped (ingestEmail).  When it    *)
(* says "recorded" or "cancelled", the event is as the operation of this   *)
(* very message left it, and a CANCEL, no other, says "cancelled".  When   *)
(* it says "duplicate", an invitation with that UID and SEQUENCE was       *)
(* applied to the event, be it this one: its METHOD may have been another. *)
(* A CANCEL with the SEQUENCE of the REQUEST on file is a "duplicate" to   *)
(* the code and cancels nothing (service.js:47).                           *)
(***************************************************************************)
AppliedTo(n, id) == operations[n] # None /\ operations[n].id = id

Vouched(r) ==
  LET id == r.result.id
  IN  /\ Live(id) /\ events[id].revision = r.result.revision
      /\ events[id].uid = UidOf[r.mail] /\ events[id].source = SequenceOf[r.mail]
      /\ inbound[r.mail] = "applied"
      /\ IF r.outcome = "duplicate"
         THEN \E n \in Mail : UidOf[n] = UidOf[r.mail] /\ SequenceOf[n] = SequenceOf[r.mail] /\ AppliedTo(n, id)
         ELSE /\ operations[r.mail] = r.result
              /\ <<r.outcome, events[id].status>> =
                   IF r.mail \in Cancels THEN <<"cancelled", "cancelled">> ELSE <<"recorded", "confirmed">>

ReceiptIsLive == [][\A r \in receipts' \ receipts : Vouched(r)]_cvars
=============================================================================
