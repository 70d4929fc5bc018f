----------------------------- MODULE ToolsProofs ------------------------------
(***************************************************************************)
(* Proofs about the services that agents call: the lifecycle of a mail     *)
(* conversation, the calendar and the Grok bridge.                         *)
(***************************************************************************)
EXTENDS EmailConversation, Calendar, GrokBridge, TLAPS

(* The lifecycle of a conversation, for every set of commands, failure codes and destinations *)

\* States a conversation opened as automated or recorded mail can take.
Quiet == {"rejected", "recorded", "closed", "retrying", "dead_letter"}

\* A failure on record never resumes a failure, nor quick handling of quiet mail.
ResumeInv ==
  /\ failure # NoFailure => failure.resume \notin {"retrying", "dead_letter"}
  /\ opened \in {"rejected", "recorded"} =>
       /\ state \in Quiet /\ promotion = Nil /\ ~wake
       /\ failure # NoFailure => failure.resume \in Quiet

ConversationInv ==
  /\ ConversationTyped /\ ResumeInv
  /\ WorkIsPromotion /\ FailureCanResume /\ GivenUpIsReported

LEMMA FailedIsFailure ==
  ASSUME ConversationTyped, NEW code \in Code
  PROVE  /\ Failed(code) \in [code : Code, attempts : Nat \ {0}, resume : State]
         /\ Failed(code) # NoFailure
         /\ Failed(code).resume = IF failure = NoFailure THEN state ELSE failure.resume
<1>1. failure.attempts \in Nat
  BY DEF ConversationTyped, NoFailure
<1>2. (IF failure = NoFailure THEN state ELSE failure.resume) \in State
  BY DEF ConversationTyped
<1>3. code # Nil
  BY ConversationAssumption
<1> QED
  BY <1>1, <1>2, <1>3 DEF Failed, NoFailure

LEMMA KnownEffects ==
  /\ \A d \in Destination : <<"work", d>> \in Effects
  /\ \A id \in Command : <<"question", id>> \in Effects
  /\ \A code \in Code : <<"fault", code>> \in Effects
  BY DEF Effects

LEMMA TypeStep ==
  ConversationInv /\ [ConversationNext]_lvars => ConversationTyped'
<1> SUFFICES ASSUME ConversationTyped, FailureCanResume, [ConversationNext]_lvars PROVE ConversationTyped'
  BY DEF ConversationInv
<1> USE DEF Once, Become
<1>1. CASE LinkIntakeThread
  BY <1>1 DEF ConversationTyped, LinkIntakeThread
<1>2. ASSUME NEW id \in Command, HandleConversation(id) PROVE ConversationTyped'
  BY <1>2, ZenonT(60) DEF ConversationTyped, HandleConversation, State, Handling
<1>3. ASSUME NEW id \in Command, NEW d \in Destination, Promote(id, d) PROVE ConversationTyped'
  BY <1>3, KnownEffects DEF ConversationTyped, Promote, State
<1>4. ASSUME NEW id \in Command, AskDestination(id) PROVE ConversationTyped'
  BY <1>4, KnownEffects DEF ConversationTyped, AskDestination, State, Opened
<1>5. ASSUME NEW id \in Command, PromoteAgain(id) \/ FailAgain(id) PROVE ConversationTyped'
  BY <1>5 DEF ConversationTyped, PromoteAgain, FailAgain
<1>6. ASSUME NEW id \in Command, Close(id) PROVE ConversationTyped'
  BY <1>6 DEF ConversationTyped, Close, State
<1>7. ASSUME NEW id \in Command, NEW code \in Code, FailOnce(id, code) PROVE ConversationTyped'
  BY <1>7, FailedIsFailure DEF ConversationTyped, FailOnce, State
<1>8. ASSUME NEW id \in Command, NEW code \in Code, FailForGood(id, code) PROVE ConversationTyped'
  BY <1>8, FailedIsFailure, KnownEffects DEF ConversationTyped, FailForGood, State
<1>9. ASSUME NEW id \in Command, Retry(id) PROVE ConversationTyped'
  BY <1>9 DEF ConversationTyped, Retry, FailureCanResume
<1>10. CASE UNCHANGED lvars
  BY <1>10 DEF ConversationTyped, lvars
<1> QED
  BY <1>1, <1>2, <1>3, <1>4, <1>5, <1>6, <1>7, <1>8, <1>9, <1>10 DEF ConversationNext, Step

LEMMA ResumeStep ==
  ConversationInv /\ [ConversationNext]_lvars => ResumeInv' /\ FailureCanResume'
<1> SUFFICES ASSUME ConversationTyped, ResumeInv, FailureCanResume, [ConversationNext]_lvars
             PROVE  ResumeInv' /\ FailureCanResume'
  BY DEF ConversationInv
<1> USE DEF Once, Become, ResumeInv, FailureCanResume, Quiet, Handling
<1>1. CASE LinkIntakeThread
  BY <1>1 DEF LinkIntakeThread
<1>2. ASSUME NEW id \in Command, HandleConversation(id) PROVE ResumeInv' /\ FailureCanResume'
  BY <1>2 DEF HandleConversation
<1>3. ASSUME NEW id \in Command, NEW d \in Destination, Promote(id, d)
      PROVE  ResumeInv' /\ FailureCanResume'
  BY <1>3 DEF Promote, Promotable
<1>4. ASSUME NEW id \in Command, AskDestination(id) PROVE ResumeInv' /\ FailureCanResume'
  BY <1>4 DEF AskDestination, Promotable
<1>5. ASSUME NEW id \in Command, PromoteAgain(id) \/ FailAgain(id)
      PROVE  ResumeInv' /\ FailureCanResume'
  BY <1>5 DEF PromoteAgain, FailAgain
<1>6. ASSUME NEW id \in Command, Close(id) PROVE ResumeInv' /\ FailureCanResume'
  BY <1>6 DEF Close
<1>7. ASSUME NEW id \in Command, NEW code \in Code, FailOnce(id, code) \/ FailForGood(id, code)
      PROVE  ResumeInv' /\ FailureCanResume'
  <2>1. /\ failure' = Failed(code) /\ state' \in {"retrying", "dead_letter"} /\ state # "dead_letter"
        /\ UNCHANGED <<opened, promotion, wake>>
    BY <1>7 DEF FailOnce, FailForGood
  <2>2. /\ Failed(code) # NoFailure
        /\ Failed(code).resume = IF failure = NoFailure THEN state ELSE failure.resume
    BY FailedIsFailure
  <2> QED
    BY <2>1, <2>2
<1>8. ASSUME NEW id \in Command, Retry(id) PROVE ResumeInv' /\ FailureCanResume'
  BY <1>8 DEF Retry
<1>9. CASE UNCHANGED lvars
  BY <1>9 DEF lvars
<1> QED
  BY <1>1, <1>2, <1>3, <1>4, <1>5, <1>6, <1>7, <1>8, <1>9 DEF ConversationNext, Step

LEMMA EffectsStep ==
  ConversationInv /\ [ConversationNext]_lvars => WorkIsPromotion' /\ GivenUpIsReported'
<1> SUFFICES ASSUME ConversationTyped, FailureCanResume, WorkIsPromotion, GivenUpIsReported, [ConversationNext]_lvars
             PROVE  WorkIsPromotion' /\ GivenUpIsReported'
  BY DEF ConversationInv
<1> USE DEF Once, Become, WorkIsPromotion, GivenUpIsReported
<1>1. CASE LinkIntakeThread
  BY <1>1 DEF LinkIntakeThread
<1>2. ASSUME NEW id \in Command, HandleConversation(id) \/ PromoteAgain(id) \/ Close(id) \/ FailAgain(id)
      PROVE  WorkIsPromotion' /\ GivenUpIsReported'
  BY <1>2 DEF HandleConversation, PromoteAgain, Close, FailAgain
<1>3. ASSUME NEW id \in Command, NEW d \in Destination, Promote(id, d)
      PROVE  WorkIsPromotion' /\ GivenUpIsReported'
  BY <1>3, ConversationAssumption DEF Promote
<1>4. ASSUME NEW id \in Command, AskDestination(id) PROVE WorkIsPromotion' /\ GivenUpIsReported'
  BY <1>4 DEF AskDestination
<1>5. ASSUME NEW id \in Command, NEW code \in Code, FailOnce(id, code)
      PROVE  WorkIsPromotion' /\ GivenUpIsReported'
  BY <1>5 DEF FailOnce
<1>6. ASSUME NEW id \in Command, NEW code \in Code, FailForGood(id, code)
      PROVE  WorkIsPromotion' /\ GivenUpIsReported'
  BY <1>6 DEF FailForGood
<1>7. ASSUME NEW id \in Command, Retry(id)
      PROVE  WorkIsPromotion' /\ GivenUpIsReported'
  BY <1>7 DEF Retry, FailureCanResume
<1>8. CASE UNCHANGED lvars
  BY <1>8 DEF lvars
<1> QED
  BY <1>1, <1>2, <1>3, <1>4, <1>5, <1>6, <1>7, <1>8 DEF ConversationNext, Step

\* The inductive invariant holds of every reachable state.
THEOREM ConversationInductive == ConversationSpec => []ConversationInv
<1>1. ConversationInit => ConversationInv
  BY ConversationAssumption DEF ConversationInit, ConversationInv, ConversationTyped, ResumeInv, WorkIsPromotion, FailureCanResume, GivenUpIsReported,
     State, Opened, NoFailure, Quiet
<1>2. ConversationInv /\ [ConversationNext]_lvars => ConversationInv'
  BY TypeStep, ResumeStep, EffectsStep DEF ConversationInv
<1> QED
  BY <1>1, <1>2, PTL DEF ConversationSpec

\* The record of a conversation has its type.
THEOREM ConversationTypes == ConversationSpec => []ConversationTyped
<1>1. ConversationInv => ConversationTyped
  BY DEF ConversationInv
<1> QED
  BY <1>1, ConversationInductive, PTL

\* Work is enqueued for the promotion on record and for no other.
THEOREM OneWork == ConversationSpec => []WorkIsPromotion
<1>1. ConversationInv => WorkIsPromotion
  BY DEF ConversationInv
<1> QED
  BY <1>1, ConversationInductive, PTL

\* Every conversation given up has its one fault on the outbox.
THEOREM Reported == ConversationSpec => []GivenUpIsReported
<1>1. ConversationInv => GivenUpIsReported
  BY DEF ConversationInv
<1> QED
  BY <1>1, ConversationInductive, PTL

\* Automated mail never starts work, along any sequence of commands.
THEOREM Silent == ConversationSpec => []RejectedNeverWorks
<1>1. ConversationInv => RejectedNeverWorks
  BY DEF ConversationInv, ResumeInv, RejectedNeverWorks, Quiet, Handling
<1> QED
  BY <1>1, ConversationInductive, PTL

\* A failure always says what to resume, and never a failure (service.mjs:154-165).
THEOREM Resumable == ConversationSpec => []FailureCanResume
  BY ConversationInductive, PTL DEF ConversationInv

\* Only a close takes a conversation out of the dead letters (service.mjs:141-166).
THEOREM Final == ConversationSpec => DeadLetterIsFinal
<1>1. [ConversationNext]_lvars => [state = "dead_letter" /\ state' # state => state' = "closed"]_lvars
  BY DEF ConversationNext, Step, LinkIntakeThread, HandleConversation, Promote, AskDestination, PromoteAgain, Close, FailOnce,
         FailForGood, FailAgain, Retry, Promotable, Handling, Become, lvars
<1> QED
  BY <1>1, PTL DEF ConversationSpec, DeadLetterIsFinal

-----------------------------------------------------------------------------
(* The calendar's tables agree with each other, whatever agents and invitations do *)

Row == [operation : Key, kind : {"calendar", "feed_grant", "event"}, object : Key, revision : Nat]

\* Every variable has its type.
CalendarShape ==
  /\ calendars \in [Op -> [managers : SUBSET Agent, default : BOOLEAN] \cup {None}]
  /\ events \in [Key -> Event \cup {None}] /\ operations \in [Key -> Outcome \cup {None}]
  /\ audit \subseteq Row /\ inbound \in [Mail -> {None, "pending", "applied", "rejected"}]
  /\ ingest \in Intake \cup {None} /\ told \in [Op -> SUBSET Outcome]

\* An event has an audit row for every revision up to its own, and no other.
AuditInv ==
  \A id \in Key :
    /\ \A row \in audit : row.kind = "event" /\ row.object = id =>
         events[id] # None /\ 1 <= row.revision /\ row.revision <= events[id].revision
    /\ events[id] # None => \A n \in 1..events[id].revision :
         \E row \in audit : row.kind = "event" /\ row.object = id /\ row.revision = n

\* An operation is on record with its audit row; what it created carries its name.
OperationInv ==
  \A op \in Key :
    /\ operations[op] # None => \E row \in audit :
         row.operation = op /\ row.object = operations[op].id /\ row.revision = operations[op].revision
    /\ events[op] # None => operations[op] # None

\* No two events of a calendar share a UID.
UidInv ==
  \A j, k \in Key :
    events[j] # None /\ events[k] # None /\ events[j].calendar = events[k].calendar /\ events[j].uid = events[k].uid
      => j = k

Brings(m) == IF m \in Cancels THEN "cancelled" ELSE "confirmed"

\* An event at the revision that a message's operation gave it is as the message left it.
AsLeft(m, id, revision) ==
  /\ events[id] # None /\ events[id].uid = UidOf[m] /\ events[id].revision >= revision
  /\ events[id].revision = revision => events[id].source = SequenceOf[m] /\ events[id].status = Brings(m)

SourceInv == \A m \in Mail : operations[m] # None => AsLeft(m, operations[m].id, operations[m].revision)

\* The event has the UID and the SEQUENCE of the message.
Matches(m, id) == events[id] # None /\ events[id].uid = UidOf[m] /\ events[id].source = SequenceOf[m]

\* A SEQUENCE that an event came with was a message's.
FromMail == \A k \in Key : events[k] # None /\ events[k].source # -1 =>
              \E n \in Mail : AppliedTo(n, k) /\ Matches(n, k)

TableInv ==
  /\ events \in [Key -> Event \cup {None}] /\ operations \in [Key -> Outcome \cup {None}] /\ audit \subseteq Row
  /\ AuditInv /\ OperationInv /\ UidInv /\ SourceInv /\ FromMail

ToldInv == \A op \in Op : \A result \in told[op] : operations[op] = result

IngestInv ==
  ingest # None =>
    /\ operations[ingest.mail] = ingest.result \/ (ingest.replay /\ Matches(ingest.mail, ingest.result.id))
    /\ ingest.at = "verify" => inbound[ingest.mail] = "applied"

CalendarInv == CalendarShape /\ TableInv /\ ToldInv /\ IngestInv

-----------------------------------------------------------------------------
(* What one transaction does to the tables. *)

Granted(op) ==
  /\ op \in Op /\ events' = events
  /\ \E kind \in {"calendar", "feed_grant"} : Record(op, kind, Result(op, 1))

\* What a message makes of an event.
Brought(m, e) == e.uid = UidOf[m] /\ e.source = SequenceOf[m] /\ e.status = Brings(m)

Added(op, e) ==
  /\ events[op] = None /\ e \in Event /\ e.revision = 1 /\ e.uid \notin Uids(e.calendar)
  /\ IF op \in Mail THEN Brought(op, e) ELSE e.source = -1
  /\ events' = [events EXCEPT ![op] = e]
  /\ Record(op, "event", Result(op, 1))

Revised(op, id, e) ==
  /\ events[id] # None /\ e \in Event /\ e.revision = events[id].revision + 1
  /\ e.calendar = events[id].calendar /\ e.uid = events[id].uid /\ e.source >= events[id].source
  /\ IF op \in Mail THEN Brought(op, e) ELSE e.source = events[id].source
  /\ events' = [events EXCEPT ![id] = e]
  /\ Record(op, "event", Result(id, events[id].revision + 1))

Transaction(op) ==
  \/ Granted(op)
  \/ \E e \in Event : Added(op, e)
  \/ \E id \in Key, e \in Event : Revised(op, id, e)

\* What was there stays: events only move forward, operations keep their result.
Grows ==
  /\ \A k \in Key : MovesForward(k) /\ (operations[k] # None => operations'[k] = operations[k])
  /\ audit \subseteq audit'

LEMMA Keys == /\ Op \subseteq Key /\ Mail \subseteq Key
              /\ \A id \in Key, n \in Nat : Result(id, n) \in Outcome /\ Result(id, n) # None
                                            /\ Result(id, n).id = id /\ Result(id, n).revision = n
              /\ \A e \in Event : e # None
  BY CalendarAssumption DEF Key, Outcome, Result

LEMMA Recorded ==
  ASSUME TableInv, NEW op \in Key, NEW kind \in {"calendar", "feed_grant", "event"},
         NEW id \in Key, NEW n \in Nat, Record(op, kind, Result(id, n))
  PROVE  LET row == [operation |-> op, kind |-> kind, object |-> id, revision |-> n]
         IN  /\ operations[op] = None /\ operations' \in [Key -> Outcome \cup {None}]
             /\ operations'[op] = Result(id, n) /\ operations'[op] # None
             /\ \A k \in Key : k # op => operations'[k] = operations[k]
             /\ row \in Row /\ audit' = audit \cup {row} /\ audit' \subseteq Row
             /\ row.operation = op /\ row.kind = kind /\ row.object = id /\ row.revision = n
  BY Keys DEF TableInv, Record, Result, Row

LEMMA Granting == ASSUME TableInv, NEW op \in Key, Granted(op) PROVE TableInv' /\ Grows
<1>1. PICK kind \in {"calendar", "feed_grant"} : Record(op, kind, Result(op, 1))
  BY DEF Granted
<1> DEFINE row == [operation |-> op, kind |-> kind, object |-> op, revision |-> 1]
<1>2. /\ operations[op] = None /\ operations' \in [Key -> Outcome \cup {None}]
      /\ operations'[op] = Result(op, 1) /\ operations'[op] # None
      /\ \A k \in Key : k # op => operations'[k] = operations[k]
      /\ row \in Row /\ audit' = audit \cup {row} /\ audit' \subseteq Row
      /\ row.operation = op /\ row.kind = kind /\ row.object = op /\ row.revision = 1 /\ row.kind # "event"
  BY <1>1, Recorded
<1> HIDE DEF row
<1>3. events' = events
  BY DEF Granted
<1>4. AuditInv'
  BY <1>2, <1>3 DEF TableInv, AuditInv
<1>5. OperationInv'
  BY <1>2, <1>3, Keys DEF TableInv, OperationInv
<1>6. UidInv'
  BY <1>3 DEF TableInv, UidInv
<1>7. SourceInv'
  <2>1. op \notin Mail
    BY CalendarAssumption DEF Granted
  <2> QED BY <1>2, <1>3, <2>1, Keys DEF TableInv, SourceInv, AsLeft
<1>8. Grows
  BY <1>2, <1>3 DEF Grows, MovesForward, TableInv, Event
<1>9. FromMail'
  BY <1>2, <1>3, Keys DEF TableInv, FromMail, AppliedTo, Matches
<1> QED BY <1>2, <1>3, <1>4, <1>5, <1>6, <1>7, <1>8, <1>9 DEF TableInv

LEMMA Adding == ASSUME TableInv, NEW op \in Key, NEW e \in Event, Added(op, e) PROVE TableInv' /\ Grows
<1> DEFINE row == [operation |-> op, kind |-> "event", object |-> op, revision |-> 1]
<1>1. /\ operations[op] = None /\ operations' \in [Key -> Outcome \cup {None}]
      /\ operations'[op] = Result(op, 1) /\ operations'[op] # None
      /\ \A k \in Key : k # op => operations'[k] = operations[k]
      /\ row \in Row /\ audit' = audit \cup {row} /\ audit' \subseteq Row
      /\ row.operation = op /\ row.kind = "event" /\ row.object = op /\ row.revision = 1
  BY Recorded DEF Added
<1> HIDE DEF row
<1>2. /\ events' \in [Key -> Event \cup {None}] /\ events[op] = None /\ events'[op] = e /\ e # None
      /\ e.revision = 1 /\ e.source \in Int /\ e.uid \notin Uids(e.calendar)
      /\ IF op \in Mail THEN Brought(op, e) ELSE e.source = -1
      /\ \A k \in Key : k # op => events'[k] = events[k]
  BY Keys DEF Added, TableInv, Event
<1>3. Result(op, 1).id = op /\ Result(op, 1).revision = 1
  BY Keys
<1>4. AuditInv'
  <2> SUFFICES ASSUME NEW id \in Key
               PROVE  /\ \A r \in audit' : r.kind = "event" /\ r.object = id =>
                           events'[id] # None /\ 1 <= r.revision /\ r.revision <= events'[id].revision
                      /\ events'[id] # None => \A n \in 1..events'[id].revision :
                           \E r \in audit' : r.kind = "event" /\ r.object = id /\ r.revision = n
    BY DEF AuditInv
  <2>1. CASE id = op
    <3>1. \A r \in audit : ~(r.kind = "event" /\ r.object = op)
      BY <1>2 DEF TableInv, AuditInv
    <3>2. \A n \in 1..1 : n = 1
      OBVIOUS
    <3> QED BY <1>1, <1>2, <2>1, <3>1, <3>2
  <2>2. CASE id # op
    BY <1>1, <1>2, <2>2 DEF TableInv, AuditInv
  <2> QED BY <2>1, <2>2
<1>5. OperationInv'
  BY <1>1, <1>2, <1>3 DEF TableInv, OperationInv
<1>6. UidInv'
  <2>1. \A k \in Key : events[k] # None /\ events[k].calendar = e.calendar => events[k].uid # e.uid
    BY <1>2 DEF Uids
  <2> QED BY <1>2, <2>1 DEF TableInv, UidInv
<1>7. SourceInv'
  <2> SUFFICES ASSUME NEW m \in Mail, operations'[m] # None
               PROVE  AsLeft(m, operations[m].id, operations[m].revision)'
    BY DEF SourceInv
  <2>1. CASE m = op
    BY <1>1, <1>2, <1>3, <2>1 DEF AsLeft, Brought
  <2>2. CASE m # op
    <3>1. operations'[m] = operations[m] /\ operations[m].id \in Key /\ AsLeft(m, operations[m].id, operations[m].revision)
      BY <1>1, <2>2, Keys DEF TableInv, SourceInv, Outcome
    <3> QED BY <1>2, <3>1 DEF AsLeft
  <2> QED BY <2>1, <2>2
<1>8. Grows
  BY <1>1, <1>2 DEF Grows, MovesForward, TableInv, Event
<1>9. FromMail'
  <2> SUFFICES ASSUME NEW k \in Key, events'[k] # None, events'[k].source # -1
               PROVE  \E n \in Mail : AppliedTo(n, k)' /\ Matches(n, k)'
    BY DEF FromMail
  <2>1. CASE k = op
    BY <1>1, <1>2, <1>3, <2>1 DEF AppliedTo, Matches, Brought
  <2>2. CASE k # op
    <3>1. PICK n \in Mail : AppliedTo(n, k) /\ Matches(n, k)
      BY <1>2, <2>2 DEF TableInv, FromMail
    <3>2. n \in Key /\ operations'[n] = operations[n]
      BY <1>1, <3>1, Keys DEF AppliedTo
    <3> QED BY <1>2, <2>2, <3>1, <3>2 DEF AppliedTo, Matches
  <2> QED BY <2>1, <2>2
<1> QED BY <1>1, <1>2, <1>4, <1>5, <1>6, <1>7, <1>8, <1>9 DEF TableInv

LEMMA Revising ==
  ASSUME TableInv, NEW op \in Key, NEW id \in Key, NEW e \in Event, Revised(op, id, e) PROVE TableInv' /\ Grows
<1> DEFINE n == events[id].revision + 1
<1> DEFINE row == [operation |-> op, kind |-> "event", object |-> id, revision |-> n]
<1>0. events[id] \in Event /\ events[id].revision \in Nat /\ n \in Nat
  BY DEF TableInv, Revised, Event
<1>1. /\ operations[op] = None /\ operations' \in [Key -> Outcome \cup {None}]
      /\ operations'[op] = Result(id, n) /\ operations'[op] # None
      /\ \A k \in Key : k # op => operations'[k] = operations[k]
      /\ row \in Row /\ audit' = audit \cup {row} /\ audit' \subseteq Row
      /\ row.operation = op /\ row.kind = "event" /\ row.object = id /\ row.revision = n
  BY <1>0, Recorded DEF Revised
<1> HIDE DEF row
<1>2. /\ events' \in [Key -> Event \cup {None}] /\ events[id] # None /\ events'[id] = e /\ e # None
      /\ e.revision = n /\ e.source \in Int /\ e.source >= events[id].source /\ events[id].source \in Int
      /\ e.calendar = events[id].calendar /\ e.uid = events[id].uid
      /\ IF op \in Mail THEN Brought(op, e) ELSE e.source = events[id].source
      /\ \A k \in Key : k # id => events'[k] = events[k]
  BY Keys DEF Revised, TableInv, Event
<1>3. Result(id, n).id = id /\ Result(id, n).revision = n
  BY <1>0, Keys
<1>4. AuditInv'
  <2> SUFFICES ASSUME NEW k \in Key
               PROVE  /\ \A r \in audit' : r.kind = "event" /\ r.object = k =>
                           events'[k] # None /\ 1 <= r.revision /\ r.revision <= events'[k].revision
                      /\ events'[k] # None => \A i \in 1..events'[k].revision :
                           \E r \in audit' : r.kind = "event" /\ r.object = k /\ r.revision = i
    BY DEF AuditInv
  <2>1. CASE k = id
    <3>1. \A r \in audit : r.kind = "event" /\ r.object = id => 1 <= r.revision /\ r.revision < n /\ r.revision \in Nat
      BY <1>0 DEF TableInv, AuditInv, Row
    <3>2. \A i \in 1..n : i = n \/ i \in 1..events[id].revision
      BY <1>0
    <3>3. \A i \in 1..events[id].revision : \E r \in audit : r.kind = "event" /\ r.object = id /\ r.revision = i
      BY <1>2 DEF TableInv, AuditInv
    <3> QED BY <1>0, <1>1, <1>2, <2>1, <3>1, <3>2, <3>3
  <2>2. CASE k # id
    BY <1>1, <1>2, <2>2 DEF TableInv, AuditInv
  <2> QED BY <2>1, <2>2
<1>5. OperationInv'
  BY <1>1, <1>2, <1>3 DEF TableInv, OperationInv
<1>6. UidInv'
  BY <1>2 DEF TableInv, UidInv
<1>7. SourceInv'
  <2> SUFFICES ASSUME NEW m \in Mail, operations'[m] # None
               PROVE  AsLeft(m, operations[m].id, operations[m].revision)'
    BY DEF SourceInv
  <2>1. m \in Key
    BY Keys
  <2>2. CASE m = op
    BY <1>0, <1>1, <1>2, <1>3, <2>2 DEF AsLeft, Brought
  <2>3. CASE m # op
    <3>1. /\ operations'[m] = operations[m] /\ operations[m].id \in Key /\ operations[m].revision \in Nat
          /\ AsLeft(m, operations[m].id, operations[m].revision)
      BY <1>1, <2>1, <2>3 DEF TableInv, SourceInv, Outcome
    <3>2. CASE operations[m].id = id
      BY <1>0, <1>2, <3>1, <3>2 DEF AsLeft
    <3>3. CASE operations[m].id # id
      BY <1>2, <3>1, <3>3 DEF AsLeft
    <3> QED BY <3>2, <3>3
  <2> QED BY <2>2, <2>3
<1>8. Grows
  BY <1>0, <1>1, <1>2 DEF Grows, MovesForward, TableInv, Event
<1>9. FromMail'
  <2> SUFFICES ASSUME NEW k \in Key, events'[k] # None, events'[k].source # -1
               PROVE  \E m \in Mail : AppliedTo(m, k)' /\ Matches(m, k)'
    BY DEF FromMail
  <2>1. CASE k = id /\ op \in Mail
    BY <1>1, <1>2, <1>3, <2>1 DEF AppliedTo, Matches, Brought
  <2>2. CASE ~(k = id /\ op \in Mail)
    <3>1. /\ events[k] # None /\ events[k].source = events'[k].source /\ events[k].uid = events'[k].uid
      BY <1>2, <2>2
    <3>2. PICK m \in Mail : AppliedTo(m, k) /\ Matches(m, k)
      BY <3>1 DEF TableInv, FromMail
    <3>3. m \in Key /\ operations'[m] = operations[m]
      BY <1>1, <3>2, Keys DEF AppliedTo
    <3> QED BY <3>1, <3>2, <3>3 DEF AppliedTo, Matches
  <2> QED BY <2>1, <2>2
<1> QED BY <1>1, <1>2, <1>4, <1>5, <1>6, <1>7, <1>8, <1>9 DEF TableInv

\* Every transaction keeps the tables in agreement and takes nothing back.
LEMMA Transacting == ASSUME TableInv, NEW op \in Key, Transaction(op) PROVE TableInv' /\ Grows
  BY Granting, Adding, Revising DEF Transaction

LEMMA Keeping ==
  ASSUME CalendarInv, (\E op \in Key : Transaction(op)) \/ UNCHANGED tables PROVE TableInv' /\ Grows
<1>1. CASE \E op \in Key : Transaction(op)
  BY <1>1, Transacting DEF CalendarInv
<1>2. CASE UNCHANGED tables
  BY <1>2 DEF CalendarInv, tables, TableInv, AuditInv, OperationInv, UidInv, SourceInv, AsLeft, FromMail,
              AppliedTo, Matches, Grows, MovesForward, Event
<1> QED BY <1>1, <1>2

-----------------------------------------------------------------------------
(* The tools. *)

\* A tool answers what its operation has on record.
Answered(op) == operations'[op] \in Outcome /\ Tell(op, operations'[op])

CalendarsTyped == calendars \in [Op -> [managers : SUBSET Agent, default : BOOLEAN] \cup {None}]

LEMMA Telling ==
  ASSUME CalendarInv, NEW op \in Op, Idle, UNCHANGED <<inbound, ingest, receipts>>,
         (\E o \in Key : Transaction(o)) \/ UNCHANGED tables, CalendarsTyped', Answered(op)
  PROVE  CalendarInv' /\ Grows
<1>1. TableInv' /\ Grows
  BY Keeping
<1>2. told' \in [Op -> SUBSET Outcome] /\ told'[op] = told[op] \cup {operations'[op]}
      /\ \A o \in Op : o # op => told'[o] = told[o]
  BY DEF Answered, Tell, CalendarInv, CalendarShape
<1>3. ToldInv'
  <2> SUFFICES ASSUME NEW o \in Op, NEW result \in told'[o] PROVE operations'[o] = result
    BY DEF ToldInv
  <2>1. CASE result \in told[o]
    <3>1. operations[o] = result /\ result \in Outcome /\ result # None /\ o \in Key
      BY <2>1, Keys, CalendarAssumption DEF CalendarInv, CalendarShape, ToldInv
    <3> QED BY <1>1, <3>1 DEF Grows
  <2>2. CASE result \notin told[o]
    BY <1>2, <2>2
  <2> QED BY <2>1, <2>2
<1>4. CalendarShape'
  BY <1>1, <1>2 DEF CalendarsTyped, TableInv, CalendarInv, CalendarShape
<1>5. IngestInv'
  BY DEF Idle, IngestInv
<1> QED BY <1>1, <1>3, <1>4, <1>5 DEF CalendarInv

LEMMA Replaying == ASSUME CalendarInv, NEW op \in Op, Replays(op) PROVE UNCHANGED tables /\ CalendarsTyped' /\ Answered(op)
  BY Keys DEF Replays, ClaimOperation, Answered, CalendarInv, CalendarShape, CalendarsTyped, tables

LEMMA ByCreateCalendar ==
  ASSUME CalendarInv, NEW op \in Op, NEW a \in Agent, NEW others \in SUBSET Agent, NEW default \in BOOLEAN,
         CreateCalendar(op, a, others, default)
  PROVE  CalendarInv' /\ Grows
<1>1. Idle /\ UNCHANGED <<inbound, ingest, receipts>>
  BY DEF CreateCalendar
<1>2. CASE Replays(op)
  BY <1>1, <1>2, Replaying, Telling
<1>3. CASE ~Replays(op)
  <2>1. /\ calendars' = [calendars EXCEPT ![op] = [managers |-> {a} \cup others, default |-> default]]
        /\ Record(op, "calendar", Result(op, 1)) /\ Tell(op, Result(op, 1)) /\ events' = events
    BY <1>3 DEF CreateCalendar
  <2>2. Granted(op) /\ op \in Key
    BY <2>1, Keys DEF Granted
  <2>3. operations'[op] = Result(op, 1) /\ Result(op, 1) \in Outcome
    BY <2>1, <2>2, Keys DEF Record, CalendarInv, CalendarShape
  <2>4. CalendarsTyped' /\ Answered(op)
    BY <2>1, <2>3 DEF CalendarsTyped, Answered, CalendarInv, CalendarShape
  <2> QED BY <1>1, <2>2, <2>4, Telling DEF Transaction
<1> QED BY <1>2, <1>3

LEMMA ByCreateFeed ==
  ASSUME CalendarInv, NEW op \in Op, NEW a \in Agent, NEW calendar \in Op, CreateFeed(op, a, calendar)
  PROVE  CalendarInv' /\ Grows
<1>1. Idle /\ UNCHANGED <<inbound, ingest, receipts>>
  BY DEF CreateFeed
<1>2. CASE Replays(op)
  BY <1>1, <1>2, Replaying, Telling
<1>3. CASE ~Replays(op)
  <2>1. /\ Record(op, "feed_grant", Result(op, 1)) /\ Tell(op, Result(op, 1))
        /\ events' = events /\ calendars' = calendars
    BY <1>3 DEF CreateFeed
  <2>2. Granted(op) /\ op \in Key
    BY <2>1, Keys DEF Granted
  <2>3. operations'[op] = Result(op, 1) /\ Result(op, 1) \in Outcome
    BY <2>1, <2>2, Keys DEF Record, CalendarInv, CalendarShape
  <2>4. CalendarsTyped' /\ Answered(op)
    BY <2>1, <2>3 DEF CalendarsTyped, Answered, CalendarInv, CalendarShape
  <2> QED BY <1>1, <2>2, <2>4, Telling DEF Transaction
<1> QED BY <1>2, <1>3

LEMMA ByCreateEvent ==
  ASSUME CalendarInv, NEW op \in Op, NEW a \in Agent, NEW calendar \in Op, NEW status \in Status,
         CreateEvent(op, a, calendar, status)
  PROVE  CalendarInv' /\ Grows
<1>1. Idle /\ UNCHANGED <<inbound, ingest, receipts>>
  BY DEF CreateEvent
<1>2. CASE Replays(op)
  BY <1>1, <1>2, Replaying, Telling
<1>3. CASE ~Replays(op)
  <2> DEFINE e == NormalizeEvent(calendar, op, status, -1)
  <2>1. Fresh(op) /\ Commit(op, op, e) /\ Tell(op, Result(op, 1))
    BY <1>3 DEF CreateEvent
  <2>2. e \in Event /\ e.revision = 1 /\ e.calendar = calendar /\ e.uid = op /\ e.source = -1
    BY DEF NormalizeEvent, Event
  <2> HIDE DEF e
  <2>3. op \in Key /\ op \notin Mail /\ events[op] = None
    BY <2>1, Keys, CalendarAssumption DEF Fresh, ClaimOperation, CalendarInv, TableInv, OperationInv
  <2>4. Added(op, e) /\ calendars' = calendars
    BY <2>1, <2>2, <2>3 DEF Commit, Added
  <2>5. operations'[op] = Result(op, 1) /\ Result(op, 1) \in Outcome
    BY <2>1, <2>2, <2>3, Keys DEF Commit, Record, CalendarInv, CalendarShape
  <2>6. CalendarsTyped' /\ Answered(op)
    BY <2>1, <2>4, <2>5 DEF CalendarsTyped, Answered, CalendarInv, CalendarShape
  <2> QED BY <1>1, <2>2, <2>3, <2>4, <2>6, Telling DEF Transaction
<1> QED BY <1>2, <1>3

\* Update, cancel and delete: one revision more of the same event.
LEMMA Changing ==
  ASSUME CalendarInv, NEW op \in Op, Idle, UNCHANGED <<inbound, ingest, receipts>>, NEW id \in Key, Live(id),
         NEW e \in Event, e.revision = events[id].revision + 1, e.calendar = events[id].calendar,
         e.uid = events[id].uid, e.source = events[id].source, calendars' = calendars,
         events' = [events EXCEPT ![id] = e], Record(op, "event", Result(id, events[id].revision + 1)),
         Tell(op, operations'[op])
  PROVE  CalendarInv' /\ Grows
<1>1. events[id] \in Event /\ events[id] # None /\ events[id].revision + 1 \in Nat /\ events[id].source \in Int
  BY DEF Live, CalendarInv, CalendarShape, Event
<1>2. op \in Key /\ op \notin Mail
  BY Keys, CalendarAssumption
<1>3. Revised(op, id, e)
  BY <1>1, <1>2 DEF Revised
<1>4. operations'[op] \in Outcome
  BY <1>1, <1>2, Keys DEF Record, CalendarInv, CalendarShape
<1>5. CalendarsTyped' /\ Answered(op)
  BY <1>4 DEF CalendarsTyped, Answered, CalendarInv, CalendarShape
<1> QED BY <1>2, <1>3, <1>5, Telling DEF Transaction

LEMMA ByChangeEvent ==
  ASSUME CalendarInv, NEW op \in Op, NEW a \in Agent, NEW id \in Key, NEW expected \in Expected,
         \/ \E status \in Status : UpdateEvent(op, a, id, expected, status)
         \/ CancelEvent(op, a, id, expected)
         \/ DeleteEvent(op, a, id, expected)
  PROVE  CalendarInv' /\ Grows
<1> DEFINE Patched(e) ==
      /\ e \in Event /\ e.revision = events[id].revision + 1 /\ e.calendar = events[id].calendar
      /\ e.uid = events[id].uid /\ e.source = events[id].source /\ calendars' = calendars
      /\ events' = [events EXCEPT ![id] = e] /\ Record(op, "event", Result(id, events[id].revision + 1))
<1>1. Idle /\ Live(id) /\ UNCHANGED <<inbound, ingest, receipts>>
  BY DEF UpdateEvent, CancelEvent, DeleteEvent, ChangeEvent
<1>2. events[id] \in Event /\ events[id] # None /\ events[id].revision + 1 \in Nat
  BY <1>1 DEF Live, CalendarInv, CalendarShape, Event
<1>3. CASE Replays(op)
  BY <1>1, <1>3, Replaying, Telling
<1>4. CASE ~Replays(op)
  <2>1. ASSUME NEW status \in Status, Commit(op, id, ReviseEvent(id, status, events[id].source))
        PROVE  \E e \in Event : Patched(e)
    <3> DEFINE e == ReviseEvent(id, status, events[id].source)
    <3>1. /\ e \in Event /\ e.revision = events[id].revision + 1 /\ e.calendar = events[id].calendar
          /\ e.uid = events[id].uid /\ e.source = events[id].source
      BY <1>2 DEF ReviseEvent, Event
    <3> HIDE DEF e
    <3>2. Commit(op, id, e)
      BY <2>1 DEF e
    <3> QED BY <3>1, <3>2 DEF Commit
  <2>2. ASSUME Tombstone(op, id) PROVE \E e \in Event : Patched(e)
    <3> DEFINE e == [events[id] EXCEPT !.revision = @ + 1, !.deleted = TRUE]
    <3>1. /\ e \in Event /\ e.revision = events[id].revision + 1 /\ e.calendar = events[id].calendar
          /\ e.uid = events[id].uid /\ e.source = events[id].source
      BY <1>2 DEF Event
    <3>2. events' = [events EXCEPT ![id] = e]
      BY <2>2, <1>2 DEF Tombstone, CalendarInv, CalendarShape
    <3> HIDE DEF e
    <3> QED BY <2>2, <3>1, <3>2 DEF Tombstone
  <2>3. (\E e \in Event : Patched(e)) /\ Tell(op, operations'[op])
    <3>1. CASE \E status \in Status : UpdateEvent(op, a, id, expected, status)
      BY <1>4, <2>1, <3>1 DEF UpdateEvent, ChangeEvent
    <3>2. CASE CancelEvent(op, a, id, expected)
      BY <1>4, <2>1, <3>2 DEF CancelEvent, ChangeEvent, Status
    <3>3. CASE DeleteEvent(op, a, id, expected)
      BY <1>4, <2>2, <3>3 DEF DeleteEvent, ChangeEvent
    <3> QED BY <3>1, <3>2, <3>3
  <2> QED BY <1>1, <2>3, Changing
<1> QED BY <1>3, <1>4

-----------------------------------------------------------------------------
(* The mail. *)

\* A UID and calendar have one live event, so the sequence compared is its own.
LEMMA Prior ==
  ASSUME CalendarInv, NEW calendar, NEW uid, NEW k \in ReadByUid(calendar, uid)
  PROVE  /\ PriorSequence(ReadByUid(calendar, uid)) = events[k].source
         /\ k \in Key /\ events[k] \in Event /\ events[k] # None /\ events[k].uid = uid
<1> DEFINE current == ReadByUid(calendar, uid)
<1>1. \A j \in current : j \in Key /\ events[j] # None /\ events[j].calendar = calendar /\ events[j].uid = uid
  BY DEF ReadByUid, Live
<1>2. \A j \in current : j = k
  BY <1>1 DEF CalendarInv, TableInv, UidInv
<1> HIDE DEF current
<1>3. k \in current
  BY DEF current
<1>4. (CHOOSE j \in current : TRUE) = k
  BY <1>2, <1>3
<1> QED BY <1>1, <1>3, <1>4 DEF PriorSequence, current, CalendarInv, CalendarShape

\* reviseEvent by an invitation.
Patch(v, status, sequence) == [v EXCEPT !.revision = @ + 1, !.status = status, !.source = sequence]

LEMMA Patching ==
  ASSUME NEW v \in Event, NEW status \in Status, NEW sequence \in Int
  PROVE  /\ Patch(v, status, sequence) \in Event /\ v.revision + 1 \in Nat
         /\ Patch(v, status, sequence).revision = v.revision + 1 /\ Patch(v, status, sequence).uid = v.uid
         /\ Patch(v, status, sequence).calendar = v.calendar /\ Patch(v, status, sequence).source = sequence
         /\ Patch(v, status, sequence).status = status
<1> DEFINE a == [v EXCEPT !.revision = @ + 1]
<1> DEFINE b == [a EXCEPT !.status = status]
<1>1. a \in Event
  BY DEF Event
<1>2. b \in Event
  <2> HIDE DEF a
  <2> QED BY <1>1 DEF Event
<1>3. [b EXCEPT !.source = sequence] \in Event
  <2> HIDE DEF b
  <2> QED BY <1>2 DEF Event
<1>4. Patch(v, status, sequence) = [b EXCEPT !.source = sequence]
  BY DEF Patch
<1>5. /\ Patch(v, status, sequence).revision = v.revision + 1 /\ Patch(v, status, sequence).uid = v.uid
      /\ Patch(v, status, sequence).calendar = v.calendar /\ Patch(v, status, sequence).source = sequence
      /\ Patch(v, status, sequence).status = status /\ v.revision + 1 \in Nat
  BY DEF Event, Patch
<1> QED BY <1>3, <1>4, <1>5

\* What an invitation leaves in the tables, and what is vouched for later.
LEMMA Applying ==
  ASSUME CalendarInv, NEW m \in Mail, NEW calendar \in DefaultCalendar, ApplyInvitation(m, calendar)
  PROVE  /\ UNCHANGED tables \/ (Transaction(m) /\ calendars' = calendars)
         /\ \E result \in Outcome, replay \in BOOLEAN :
              /\ Taken(m, result, replay)
              /\ operations'[m] = result \/ (replay /\ UNCHANGED tables /\ Matches(m, result.id))
<1> DEFINE current == ReadByUid(calendar, UidOf[m])
<1>1. /\ m \in Key /\ m \notin Op /\ SequenceOf[m] \in Nat /\ calendar \in Op /\ ~Stale(m, current)
      /\ UidOf[m] \in {UidOf[n] : n \in Mail}
  BY Keys, CalendarAssumption DEF DefaultCalendar, ApplyInvitation
<1>2. \A k \in current : /\ k \in Key /\ events[k] \in Event /\ events[k] # None /\ events[k].uid = UidOf[m]
                         /\ PriorSequence(current) = events[k].source
                         /\ SequenceOf[m] >= events[k].source
  <2> TAKE k \in current
  <2>1. /\ k \in Key /\ events[k] \in Event /\ events[k] # None /\ events[k].uid = UidOf[m]
        /\ PriorSequence(current) = events[k].source
    BY Prior
  <2>2. events[k].source \in Int
    BY <2>1 DEF Event
  <2> QED BY <1>1, <2>1, <2>2 DEF Stale
<1> HIDE DEF current
<1>3. ASSUME NEW k \in current, NEW status \in Status, status = Brings(m), Fresh(m),
             Commit(m, k, ReviseEvent(k, status, SequenceOf[m])), Taken(m, operations'[m], FALSE)
      PROVE  Transaction(m) /\ calendars' = calendars /\ operations'[m] \in Outcome
  <2> DEFINE e == ReviseEvent(k, status, SequenceOf[m])
  <2>1. /\ e \in Event /\ e.revision = events[k].revision + 1 /\ e.calendar = events[k].calendar
        /\ e.uid = events[k].uid /\ e.source = SequenceOf[m] /\ events[k].revision + 1 \in Nat
        /\ Brought(m, e)
    <3>1. events[k] \in Event /\ status \in Status /\ SequenceOf[m] \in Int
      BY <1>1, <1>2, <1>3
    <3>2. e = Patch(events[k], status, SequenceOf[m])
      BY DEF ReviseEvent, Patch
    <3> HIDE DEF e
    <3> QED BY <1>2, <1>3, <3>1, <3>2, Patching DEF Brought
  <2> HIDE DEF e
  <2>2. Commit(m, k, e)
    BY <1>3 DEF e
  <2>3. Revised(m, k, e)
    BY <1>1, <1>2, <2>1, <2>2 DEF Revised, Commit
  <2>4. operations'[m] \in Outcome
    BY <1>1, <1>2, <2>1, <2>2, Keys DEF Commit, Record, CalendarInv, CalendarShape
  <2> QED BY <1>2, <2>1, <2>2, <2>3, <2>4 DEF Transaction, Commit
<1>4. ASSUME m \notin Cancels, Fresh(m),
             Commit(m, m, NormalizeEvent(calendar, UidOf[m], "confirmed", SequenceOf[m])), Taken(m, operations'[m], FALSE)
      PROVE  Transaction(m) /\ calendars' = calendars /\ operations'[m] \in Outcome
  <2> DEFINE e == NormalizeEvent(calendar, UidOf[m], "confirmed", SequenceOf[m])
  <2>1. e \in Event /\ e.revision = 1 /\ e.source = SequenceOf[m] /\ e.calendar = calendar /\ e.uid = UidOf[m]
        /\ Brought(m, e)
    BY <1>1, <1>4 DEF NormalizeEvent, Event, Status, Brought, Brings
  <2> HIDE DEF e
  <2>2. Commit(m, m, e)
    BY <1>4 DEF e
  <2>3. events[m] = None
    BY <1>1, <1>4 DEF Fresh, ClaimOperation, CalendarInv, TableInv, OperationInv
  <2>4. Added(m, e)
    BY <1>1, <2>1, <2>2, <2>3 DEF Added, Commit
  <2>5. operations'[m] \in Outcome
    BY <1>1, <2>1, <2>2, Keys DEF Commit, Record, CalendarInv, CalendarShape
  <2> QED BY <2>1, <2>2, <2>4, <2>5 DEF Transaction, Commit
<1>5. CASE \E k \in current :
             Duplicate(m, current) /\ Taken(m, Result(k, events[k].revision), TRUE) /\ UNCHANGED tables
  <2>1. PICK k \in current :
          Duplicate(m, current) /\ Taken(m, Result(k, events[k].revision), TRUE) /\ UNCHANGED tables
    BY <1>5
  <2>2. Result(k, events[k].revision) \in Outcome /\ Result(k, events[k].revision).id = k
    BY <1>2, Keys DEF Event
  <2>3. Matches(m, k)
    BY <1>1, <1>2, <2>1 DEF Duplicate, Matches
  <2> QED BY <2>1, <2>2, <2>3
<1>6. CASE ClaimOperation(m) # None /\ Taken(m, ClaimOperation(m), TRUE) /\ UNCHANGED tables
  <2>1. operations[m] \in Outcome /\ operations' = operations
    BY <1>1, <1>6 DEF ClaimOperation, tables, CalendarInv, CalendarShape
  <2> QED BY <1>6, <2>1 DEF ClaimOperation
<1>7. CASE /\ Fresh(m) /\ Taken(m, operations'[m], FALSE)
           /\ \/ \E k \in current : Commit(m, k, ReviseEvent(k, Brings(m), SequenceOf[m]))
              \/ m \notin Cancels /\ Commit(m, m, NormalizeEvent(calendar, UidOf[m], "confirmed", SequenceOf[m]))
  <2>1. Brings(m) \in Status
    BY DEF Brings, Status
  <2> QED BY <1>3, <1>4, <1>7, <2>1
<1> QED BY <1>5, <1>6, <1>7 DEF ApplyInvitation, current, Brings

LEMMA BySuspend == ASSUME CalendarInv, NEW m \in Mail, Suspend(m) PROVE CalendarInv' /\ Grows
<1>1. TableInv' /\ Grows
  BY Keeping DEF Suspend
<1>2. inbound' \in [Mail -> {None, "pending", "applied", "rejected"}] /\ ingest' = None /\ told' = told
      /\ calendars' = calendars /\ operations' = operations
  BY DEF Suspend, Idle, RecordInbound, tables, CalendarInv, CalendarShape
<1>3. CalendarShape'
  BY <1>1, <1>2 DEF TableInv, CalendarInv, CalendarShape
<1> QED BY <1>1, <1>2, <1>3 DEF CalendarInv, ToldInv, IngestInv

LEMMA ByIngestEmail == ASSUME CalendarInv, NEW m \in Mail, IngestEmail(m) PROVE CalendarInv' /\ Grows
<1>1. told' = told /\ ingest = None
  BY DEF IngestEmail, Idle
<1>2. PICK calendar \in DefaultCalendar :
        \/ ApplyInvitation(m, calendar)
        \/ RecordInbound(m, "rejected") /\ UNCHANGED <<tables, ingest>>
  BY DEF IngestEmail
<1>3. CASE ApplyInvitation(m, calendar)
  <2>1. UNCHANGED tables \/ (Transaction(m) /\ calendars' = calendars)
    BY <1>3, Applying
  <2>2. PICK result \in Outcome, replay \in BOOLEAN :
          /\ Taken(m, result, replay)
          /\ operations'[m] = result \/ (replay /\ UNCHANGED tables /\ Matches(m, result.id))
    BY <1>3, Applying
  <2>3. m \in Key
    BY Keys
  <2>4. TableInv' /\ Grows /\ calendars' = calendars
    BY <2>1, <2>3, Keeping DEF tables
  <2>5. /\ ingest' = [mail |-> m, result |-> result, replay |-> replay, at |-> "record"] /\ inbound' = inbound
        /\ ingest' \in Intake
    BY <2>2 DEF Taken, Intake
  <2>6. CalendarShape'
    BY <1>1, <2>4, <2>5 DEF TableInv, CalendarInv, CalendarShape
  <2>7. ToldInv'
    BY <1>1, <2>4, Keys, CalendarAssumption DEF CalendarInv, ToldInv, CalendarShape, Grows
  <2>8. IngestInv'
    <3>1. operations'[m] = result \/ (replay /\ Matches(m, result.id)')
      BY <2>2 DEF tables, Matches
    <3> QED BY <2>5, <3>1 DEF IngestInv, Matches
  <2> QED BY <2>4, <2>6, <2>7, <2>8 DEF CalendarInv
<1>4. CASE RecordInbound(m, "rejected") /\ UNCHANGED <<tables, ingest>>
  <2>1. TableInv' /\ Grows
    BY <1>4, Keeping
  <2>2. inbound' \in [Mail -> {None, "pending", "applied", "rejected"}] /\ ingest' = None
        /\ calendars' = calendars /\ operations' = operations
    BY <1>1, <1>4 DEF RecordInbound, tables, CalendarInv, CalendarShape
  <2>3. CalendarShape'
    BY <1>1, <2>1, <2>2 DEF TableInv, CalendarInv, CalendarShape
  <2> QED BY <1>1, <2>1, <2>2, <2>3 DEF CalendarInv, ToldInv, IngestInv
<1> QED BY <1>2, <1>3, <1>4

LEMMA ByRecordApplied == ASSUME CalendarInv, RecordApplied PROVE CalendarInv' /\ Grows
<1>1. TableInv' /\ Grows
  BY Keeping DEF RecordApplied
<1>2. ingest \in Intake /\ ingest.mail \in Mail /\ ingest # None
  BY DEF RecordApplied, CalendarInv, CalendarShape, Intake
<1>3. /\ told' = told /\ calendars' = calendars /\ operations' = operations /\ events' = events
      /\ inbound' \in [Mail -> {None, "pending", "applied", "rejected"}] /\ inbound'[ingest.mail] = "applied"
      /\ ingest' \in Intake /\ ingest'.mail = ingest.mail /\ ingest'.result = ingest.result
      /\ ingest'.replay = ingest.replay
  BY <1>2 DEF RecordApplied, RecordInbound, tables, CalendarInv, CalendarShape, Intake
<1>4. CalendarShape'
  BY <1>1, <1>3 DEF TableInv, CalendarInv, CalendarShape
<1>5. IngestInv'
  BY <1>2, <1>3 DEF CalendarInv, IngestInv, Matches
<1> QED BY <1>1, <1>3, <1>4, <1>5 DEF CalendarInv, ToldInv

LEMMA ByVerify == ASSUME CalendarInv, Verify PROVE CalendarInv' /\ Grows
<1>1. TableInv' /\ Grows
  BY Keeping DEF Verify
<1>2. ingest.mail \in Mail /\ ingest # None
  BY DEF Verify, CalendarInv, CalendarShape, Intake
<1>3. /\ told' = told /\ calendars' = calendars /\ operations' = operations /\ ingest' = None
      /\ inbound' \in [Mail -> {None, "pending", "applied", "rejected"}]
  BY <1>2 DEF Verify, RecordInbound, tables, CalendarInv, CalendarShape
<1>4. CalendarShape'
  BY <1>1, <1>3 DEF TableInv, CalendarInv, CalendarShape
<1> QED BY <1>1, <1>3, <1>4 DEF CalendarInv, ToldInv, IngestInv

LEMMA Resting ==
  ASSUME CalendarInv, UNCHANGED <<tables, inbound, told>>, ingest' = None \/ ingest' = ingest PROVE CalendarInv' /\ Grows
<1>1. TableInv' /\ Grows
  BY Keeping
<1>2. CalendarShape'
  BY <1>1 DEF tables, TableInv, CalendarInv, CalendarShape
<1>3. operations' = operations /\ events' = events
  BY DEF tables
<1>4. IngestInv'
  BY <1>3 DEF CalendarInv, IngestInv, Matches
<1> QED BY <1>1, <1>2, <1>3, <1>4 DEF CalendarInv, ToldInv

-----------------------------------------------------------------------------
LEMMA CalendarBegins == CalendarInit => CalendarInv
<1> SUFFICES ASSUME CalendarInit PROVE CalendarInv
  OBVIOUS
<1>1. /\ \A k \in Op : calendars[k] = None /\ told[k] = {}
      /\ \A k \in Key : events[k] = None /\ operations[k] = None
      /\ audit = {} /\ ingest = None
  BY DEF CalendarInit
<1>2. CalendarShape
  BY DEF CalendarInit, CalendarShape
<1>3. \A m \in Mail : m \in Key
  BY Keys
<1>4. TableInv
  <2>1. AuditInv
    BY <1>1 DEF AuditInv
  <2>2. OperationInv
    BY <1>1 DEF OperationInv
  <2>3. UidInv
    BY <1>1 DEF UidInv
  <2>4. SourceInv
    BY <1>1, <1>3 DEF SourceInv
  <2>5. FromMail
    BY <1>1 DEF FromMail
  <2> QED BY <1>2, <2>1, <2>2, <2>3, <2>4, <2>5 DEF CalendarShape, TableInv
<1> QED BY <1>1, <1>2, <1>4 DEF CalendarInv, ToldInv, IngestInv

LEMMA CalendarSteady == CalendarInv /\ [CalendarNext]_cvars => CalendarInv' /\ Grows
<1> SUFFICES ASSUME CalendarInv, [CalendarNext]_cvars PROVE CalendarInv' /\ Grows
  OBVIOUS
<1>1. CASE \E op \in Op, a \in Agent, others \in SUBSET Agent, default \in BOOLEAN :
             CreateCalendar(op, a, others, default)
  BY <1>1, ByCreateCalendar
<1>2. CASE \E op \in Op, a \in Agent, calendar \in Op : CreateFeed(op, a, calendar)
  BY <1>2, ByCreateFeed
<1>3. CASE \E op \in Op, a \in Agent, calendar \in Op, status \in Status : CreateEvent(op, a, calendar, status)
  BY <1>3, ByCreateEvent
<1>4. CASE \E op \in Op, a \in Agent, id \in Key, expected \in Expected :
             \/ \E status \in Status : UpdateEvent(op, a, id, expected, status)
             \/ CancelEvent(op, a, id, expected)
             \/ DeleteEvent(op, a, id, expected)
  BY <1>4, ByChangeEvent
<1>5. CASE \E m \in Mail : Suspend(m) \/ IngestEmail(m)
  BY <1>5, BySuspend, ByIngestEmail
<1>6. CASE RecordApplied \/ Verify
  BY <1>6, ByRecordApplied, ByVerify
<1>7. CASE CalendarCrash \/ UNCHANGED cvars
  BY <1>7, Resting DEF CalendarCrash, cvars
<1> QED BY <1>1, <1>2, <1>3, <1>4, <1>5, <1>6, <1>7 DEF CalendarNext

(***************************************************************************)
(* The calendar's tables agree with each other in every reachable state:   *)
(* events, operations, audit and what callers were told.                   *)
(***************************************************************************)
THEOREM CalendarInductive == CalendarSpec => []CalendarInv
<1>1. CalendarInv /\ [CalendarNext]_cvars => CalendarInv'
  BY CalendarSteady
<1> QED BY CalendarBegins, <1>1, PTL DEF CalendarSpec

(* Every variable of the calendar keeps its type. *)
THEOREM CalendarTyped == CalendarSpec => []CalendarShape
<1>1. CalendarInv => CalendarShape
  BY DEF CalendarInv
<1> QED BY CalendarInductive, <1>1, PTL

(***************************************************************************)
(* The audit rows about an event are exactly its revisions.                *)
(***************************************************************************)
THEOREM AuditIsExact == CalendarSpec => []RevisionsAreAudited
<1>1. CalendarInv => RevisionsAreAudited
  <2> SUFFICES ASSUME CalendarInv, NEW id \in Key
               PROVE  {row.revision : row \in {row \in audit : row.kind = "event" /\ row.object = id}}
                        = IF events[id] = None THEN {} ELSE 1..events[id].revision
    BY DEF RevisionsAreAudited
  <2> DEFINE about == {row \in audit : row.kind = "event" /\ row.object = id}
  <2>1. CASE events[id] = None
    <3>1. about = {}
      BY <2>1 DEF CalendarInv, TableInv, AuditInv
    <3> QED BY <2>1, <3>1
  <2>2. CASE events[id] # None
    <3>1. events[id].revision \in Nat
      BY <2>2 DEF CalendarInv, CalendarShape, Event
    <3>2. \A row \in about : row.revision \in 1..events[id].revision
      BY <3>1 DEF CalendarInv, CalendarShape, TableInv, AuditInv, Row
    <3>3. \A n \in 1..events[id].revision : \E row \in about : row.revision = n
      BY <2>2 DEF CalendarInv, TableInv, AuditInv
    <3> HIDE DEF about
    <3>4. {row.revision : row \in about} = 1..events[id].revision
      BY <3>2, <3>3
    <3> QED BY <2>2, <3>4 DEF about
  <2> QED BY <2>1, <2>2
<1> QED BY CalendarInductive, <1>1, PTL

(***************************************************************************)
(* Every answer given under an operation's id is the audited one.          *)
(***************************************************************************)
THEOREM AnswersAreAudited == CalendarSpec => []ToldIsAudited
<1>1. CalendarInv => ToldIsAudited
  <2> SUFFICES ASSUME CalendarInv, NEW op \in Op, NEW result \in told[op]
               PROVE  \E row \in audit : row.operation = op /\ row.object = result.id /\ row.revision = result.revision
    BY DEF ToldIsAudited
  <2>1. operations[op] = result /\ result \in Outcome /\ op \in Key /\ result # None
    BY Keys, CalendarAssumption DEF CalendarInv, CalendarShape, ToldInv
  <2> QED BY <2>1 DEF CalendarInv, TableInv, OperationInv
<1> QED BY CalendarInductive, <1>1, PTL

(***************************************************************************)
(* No step takes an event back to an older invitation or revision.         *)
(***************************************************************************)
THEOREM EventsMoveForward == CalendarSpec => InvitationsMoveForward
<1>1. CalendarInv /\ [CalendarNext]_cvars => [\A k \in Key : MovesForward(k)]_cvars
  BY CalendarSteady DEF Grows
<1> QED BY CalendarInductive, <1>1, PTL DEF CalendarSpec, InvitationsMoveForward

(***************************************************************************)
(* A receipt is made only for a live event at its revision, with the UID   *)
(* and SEQUENCE of the message: as the message's own operation left it, or *)
(* a duplicate of a message that was applied to it.                        *)
(***************************************************************************)
THEOREM ReceiptsVouch == CalendarSpec => ReceiptIsLive
<1>1. CalendarInv /\ [CalendarNext]_cvars => [\A r \in receipts' \ receipts : Vouched(r)]_cvars
  <2> SUFFICES ASSUME CalendarInv, CalendarNext, NEW r \in receipts' \ receipts PROVE Vouched(r)
    OBVIOUS
  <2>1. Verify
    BY DEF CalendarNext, CreateCalendar, CreateFeed, CreateEvent, UpdateEvent, CancelEvent, DeleteEvent,
           ChangeEvent, Suspend, IngestEmail, RecordApplied, CalendarCrash
  <2>2. /\ Verified /\ ingest # None /\ ingest.at = "verify" /\ ingest \in Intake
        /\ r = [mail |-> ingest.mail, result |-> ingest.result, outcome |-> ReceiptOutcome]
    BY <2>1 DEF Verify, CalendarInv, CalendarShape
  <2> DEFINE m == ingest.mail
             id == ingest.result.id
  <2>3. /\ m \in Mail /\ id \in Key /\ inbound[m] = "applied" /\ ingest.result \in Outcome
        /\ r.mail = m /\ r.result = ingest.result /\ r.outcome = ReceiptOutcome
        /\ Live(id) /\ events[id].revision = ingest.result.revision /\ events[id] # None
    BY <2>2 DEF Intake, Outcome, Verified, Live, CalendarInv, IngestInv
  <2>4. CASE operations[m] = ingest.result
    <3>1. operations[m] # None
      BY <2>3, <2>4, CalendarAssumption
    <3>2. AsLeft(m, id, ingest.result.revision)
      BY <2>3, <2>4, <3>1 DEF CalendarInv, TableInv, SourceInv
    <3>3. AppliedTo(m, id) /\ events[id].uid = UidOf[m] /\ events[id].source = SequenceOf[m]
          /\ events[id].status = Brings(m)
      BY <2>3, <2>4, <3>1, <3>2 DEF AsLeft, AppliedTo
    <3>4. CASE ingest.replay
      BY <2>3, <3>3, <3>4 DEF Vouched, ReceiptOutcome
    <3>5. CASE ~ingest.replay
      BY <2>3, <2>4, <3>3, <3>5 DEF Vouched, ReceiptOutcome, Brings
    <3> QED BY <3>4, <3>5
  <2>5. CASE ingest.replay /\ Matches(m, id)
    <3>1. events[id].source # -1
      BY <2>3, <2>5, CalendarAssumption DEF Matches
    <3>2. PICK n \in Mail : AppliedTo(n, id) /\ Matches(n, id)
      BY <2>3, <3>1 DEF CalendarInv, TableInv, FromMail
    <3> QED BY <2>3, <2>5, <3>2 DEF Vouched, ReceiptOutcome, Matches
  <2> QED BY <2>2, <2>4, <2>5 DEF CalendarInv, IngestInv
<1> QED BY CalendarInductive, <1>1, PTL DEF CalendarSpec, ReceiptIsLive

-----------------------------------------------------------------------------
(* Files of the Grok bridge, whatever requests write at the same time *)

File == [of : Input, part : Part]
Writing == {"open", "write", "read"}
Stages == Writing \cup {"idle", "answered", "conflict", "failed"}
PathsHere(c) == PathsOf(asked[c])

\* Every variable has its type; a call past its arrival has an input and is at one of its files.
GrokTyped ==
  /\ files \in [Paths -> File \cup {Absent}]
  /\ asked \in [Request -> Input \cup {Absent}] /\ stage \in [Request -> Stages]
  /\ nth \in [Request -> {1, 2}] /\ made \in [Request -> SUBSET Paths]
  /\ \A c \in Request : stage[c] # "idle" => asked[c] \in Input /\ nth[c] <= Len(PathsHere(c))

\* A file was created by one call, which has an input and whose input it is of.
MadeInv ==
  /\ \A c, d \in Request, p \in Paths : p \in made[c] /\ p \in made[d] => c = d
  /\ \A c \in Request : \A p \in made[c] : files[p] # Absent /\ files[p].of = asked[c]
  /\ \A c \in Request : stage[c] = "idle" => made[c] = {} /\ nth[c] = 1

\* A call writes only what it created, and creates or reads only what it did not.
PlaceInv ==
  \A c \in Request : stage[c] # "idle" =>
    /\ stage[c] \in {"open", "read"} => PathOf(c) \notin made[c]
    /\ stage[c] = "read" => files[PathOf(c)] # Absent
    /\ stage[c] = "write" => PathOf(c) \in made[c] /\ files[PathOf(c)].part # "whole"
    /\ \A n \in 1..Len(PathsHere(c)) : n > nth[c] => PathsHere(c)[n] \notin made[c]

\* The file at a path is the call's own, as far as its digest tells.
Settled(c, path) ==
  /\ files[path] # Absent /\ files[path].of = asked[c]
  /\ Parsed(path) \/ path \in made[c] => files[path].part = "whole"

\* The files a call has left behind are settled.
BehindInv ==
  \A c \in Request : stage[c] # "idle" =>
    \A n \in 1..Len(PathsHere(c)) : n < nth[c] \/ stage[c] = "answered" => Settled(c, PathsHere(c)[n])

GrokInv == GrokTyped /\ MadeInv /\ PlaceInv /\ BehindInv

\* A call writes one file or two, at different paths.
LEMMA OneOrTwo ==
  ASSUME NEW i \in Input
  PROVE  /\ Len(PathsOf(i)) \in {1, 2}
         /\ \A n \in 1..Len(PathsOf(i)) : PathsOf(i)[n] \in Paths
         /\ \A n, k \in 1..Len(PathsOf(i)) : PathsOf(i)[n] = PathsOf(i)[k] => n = k
<1>1. Path(i, "manifest.json", {}) # Path(i, "index.html", {})
  BY DEF Path
<1>2. \A y, z : /\ Len(<<y>>) = 1 /\ <<y>>[1] = y
                /\ Len(<<y, z>>) = 2 /\ <<y, z>>[1] = y /\ <<y, z>>[2] = z
  OBVIOUS
<1>3. \A n \in 1..Len(PathsOf(i)) : PathsOf(i)[n] \in Paths
  BY DEF Paths
<1>4. PICK y, z : /\ PathsOf(i) \in {<<y>>, <<z, y>>} /\ y # z
  <2>1. ASSUME NEW y PROVE \E z : y # z
    <3>1. y # 1 \/ y # 2
      OBVIOUS
    <3> QED BY <3>1
  <2>2. CASE ToolOf[i] = "stage_artifact"
    BY <1>1, <2>2 DEF PathsOf
  <2>3. CASE ToolOf[i] # "stage_artifact"
    BY <2>1, <2>3 DEF PathsOf
  <2> QED BY <2>2, <2>3
<1>5. Len(PathsOf(i)) \in {1, 2}
  BY <1>2, <1>4
<1>6. CASE PathsOf(i) = <<y>>
  BY <1>2, <1>3, <1>6
<1>7. CASE PathsOf(i) = <<z, y>>
  <2>1. 1..2 = {1, 2}
    OBVIOUS
  <2> QED BY <1>2, <1>3, <1>4, <1>7, <2>1
<1> QED BY <1>4, <1>6, <1>7

LEMMA GrokBegins == GrokInit => GrokInv
<1>1. GrokInit => GrokTyped
  BY DEF GrokInit, GrokTyped, Stages, Writing
<1> QED BY <1>1 DEF GrokInit, GrokInv, MadeInv, PlaceInv, BehindInv

\* Where a call is when it is at one of its files.
LEMMA AtAFile ==
  ASSUME GrokTyped, NEW c \in Request, stage[c] # "idle"
  PROVE  /\ asked[c] \in Input /\ nth[c] \in 1..Len(PathsHere(c)) /\ PathOf(c) = PathsHere(c)[nth[c]]
         /\ PathOf(c) \in Paths /\ Len(PathsHere(c)) \in {1, 2}
         /\ \A n \in 1..Len(PathsHere(c)) : PathsHere(c)[n] \in Paths
         /\ \A n \in 1..Len(PathsHere(c)) : PathsHere(c)[n] = PathOf(c) => n = nth[c]
<1>1. asked[c] \in Input /\ nth[c] \in {1, 2} /\ nth[c] <= Len(PathsHere(c))
  BY DEF GrokTyped
<1>2. Len(PathsHere(c)) \in {1, 2}
  BY <1>1, OneOrTwo DEF PathsHere
<1>3. nth[c] \in 1..Len(PathsHere(c)) /\ PathOf(c) = PathsHere(c)[nth[c]]
  BY <1>1, <1>2 DEF PathOf, PathsHere
<1> QED BY <1>1, <1>2, <1>3, OneOrTwo DEF PathsHere

\* What a file keeps when another call, or a later write of this one, touches it.
Kept(p) ==
  files[p] # Absent => /\ files'[p] # Absent /\ files'[p].of = files[p].of
                       /\ files[p].part = "whole" => files'[p].part = "whole"

LEMMA StaysSettled ==
  ASSUME NEW d \in Request, NEW p \in Paths, Settled(d, p), Kept(p), asked'[d] = asked[d],
         p \in made'[d] => p \in made[d]
  PROVE  Settled(d, p)'
  BY DEF Settled, Kept, Parsed

\* A step that moves one call, which creates or fills at most the file it is at, keeps what holds of the others.
LEMMA Others ==
  ASSUME GrokInv, NEW c \in Request, NEW d \in Request, c # d, stage[c] \in Writing,
         UNCHANGED asked, stage'[d] = stage[d], nth'[d] = nth[d], made'[d] = made[d],
         \A p \in Paths : Kept(p) /\ (files'[p] = files[p] \/ (p = PathOf(c) /\ (files[p] = Absent \/ p \in made[c]))),
         stage[d] # "idle"
  PROVE  /\ stage'[d] \in {"open", "read"} => PathOf(d)' \notin made'[d]
         /\ stage'[d] = "read" => files'[PathOf(d)'] # Absent
         /\ stage'[d] = "write" => PathOf(d)' \in made'[d] /\ files'[PathOf(d)'].part # "whole"
         /\ \A n \in 1..Len(PathsHere(d)') : n > nth'[d] => PathsHere(d)'[n] \notin made'[d]
         /\ \A n \in 1..Len(PathsHere(d)') : n < nth'[d] \/ stage'[d] = "answered" => Settled(d, PathsHere(d)[n])'
<1> USE DEF GrokInv
<1>1. /\ PathOf(d)' = PathOf(d) /\ PathsHere(d)' = PathsHere(d) /\ PathOf(d) \in Paths /\ PathOf(c) \in Paths
      /\ \A n \in 1..Len(PathsHere(d)) : PathsHere(d)[n] \in Paths
  BY AtAFile DEF PathOf, PathsHere, Writing
<1>2. stage[d] = "write" => files'[PathOf(d)] = files[PathOf(d)]
  BY <1>1 DEF PlaceInv, MadeInv
<1>3. stage[d] = "read" => files'[PathOf(d)] # Absent
  BY <1>1 DEF PlaceInv, Kept
<1>4. ASSUME NEW n \in 1..Len(PathsHere(d)), n < nth[d] \/ stage[d] = "answered"
      PROVE  Settled(d, PathsHere(d)[n])'
  <2>1. Settled(d, PathsHere(d)[n]) /\ PathsHere(d)[n] \in Paths
    BY <1>1, <1>4 DEF BehindInv
  <2>2. Settled(d, PathsHere(d)[n])'
    <3> DEFINE p == PathsHere(d)[n]
    <3>1. p' = p
      BY <1>1
    <3> HIDE DEF p
    <3>2. Settled(d, p)'
      BY <2>1, <3>1, StaysSettled DEF p, Settled, Kept, Parsed
    <3> QED BY <3>2 DEF p
  <2> QED BY <2>2
<1> QED BY <1>1, <1>2, <1>3, <1>4 DEF PlaceInv

\* What holds of one call: PlaceInv and BehindInv for it.
Settling(c) ==
  /\ stage[c] \in {"open", "read"} => PathOf(c) \notin made[c]
  /\ stage[c] = "read" => files[PathOf(c)] # Absent
  /\ stage[c] = "write" => PathOf(c) \in made[c] /\ files[PathOf(c)].part # "whole"
  /\ \A n \in 1..Len(PathsHere(c)) : n > nth[c] => PathsHere(c)[n] \notin made[c]
  /\ \A n \in 1..Len(PathsHere(c)) : n < nth[c] \/ stage[c] = "answered" => Settled(c, PathsHere(c)[n])

LEMMA OneByOne == (\A c \in Request : stage[c] # "idle" => Settling(c)) <=> PlaceInv /\ BehindInv
  BY DEF Settling, PlaceInv, BehindInv

\* A step of a call at a file, put together from what it does to the call itself.
LEMMA Assembled ==
  ASSUME GrokInv, NEW c \in Request, stage[c] \in Writing, UNCHANGED asked,
         NEW s \in Stages, s # "idle", stage' = [stage EXCEPT ![c] = s],
         NEW k \in 1..Len(PathsHere(c)), nth' = [nth EXCEPT ![c] = k],
         NEW n \in SUBSET {PathOf(c)}, made' = [made EXCEPT ![c] = @ \cup n],
         n # {} => files[PathOf(c)] = Absent /\ files'[PathOf(c)] # Absent /\ files'[PathOf(c)].of = asked[c],
         files' \in [Paths -> File \cup {Absent}],
         \A p \in Paths : Kept(p) /\ (files'[p] = files[p] \/ (p = PathOf(c) /\ (files[p] = Absent \/ p \in made[c]))),
         Settling(c)'
  PROVE  GrokInv'
<1> USE DEF GrokInv
<1>1. /\ asked[c] \in Input /\ PathOf(c) \in Paths /\ k \in {1, 2} /\ k <= Len(PathsHere(c)) /\ PathsHere(c)' = PathsHere(c)
      /\ \A d \in Request : PathsHere(d)' = PathsHere(d)
  BY AtAFile DEF Writing, PathsHere
<1>2. GrokTyped'
  <2>1. made' \in [Request -> SUBSET Paths]
    BY <1>1 DEF GrokTyped
  <2>2. \A d \in Request : stage'[d] # "idle" => asked'[d] \in Input /\ nth'[d] <= Len(PathsHere(d)')
    BY <1>1 DEF GrokTyped, Writing
  <2> QED BY <1>1, <2>1, <2>2 DEF GrokTyped
<1>3. MadeInv'
  <2>1. \A d \in Request, p \in Paths : p \in made'[d] <=> p \in made[d] \/ (d = c /\ p \in n)
    BY DEF GrokTyped
  <2>2. \A d \in Request, p \in Paths : p \in n => p \notin made[d]
    BY DEF MadeInv
  <2>3. \A d, e \in Request, p \in Paths : p \in made'[d] /\ p \in made'[e] => d = e
    BY <2>1, <2>2 DEF MadeInv
  <2>4. ASSUME NEW d \in Request, NEW p \in made'[d] PROVE files'[p] # Absent /\ files'[p].of = asked'[d]
    <3>1. p \in Paths
      BY <1>2 DEF GrokTyped
    <3>2. CASE p \in made[d]
      BY <3>1, <3>2 DEF MadeInv, Kept
    <3>3. CASE d = c /\ p \in n
      BY <3>3
    <3> QED BY <2>1, <3>1, <3>2, <3>3
  <2>5. \A d \in Request : stage'[d] = "idle" => made'[d] = {} /\ nth'[d] = 1
    BY DEF MadeInv, Writing, GrokTyped
  <2> QED BY <2>3, <2>4, <2>5 DEF MadeInv
<1>4. ASSUME NEW d \in Request, stage'[d] # "idle", d # c PROVE Settling(d)'
  <2>1. stage'[d] = stage[d] /\ nth'[d] = nth[d] /\ made'[d] = made[d]
    BY <1>4 DEF GrokTyped
  <2> QED BY <1>4, <2>1, Others DEF Settling
<1>5. PlaceInv' /\ BehindInv'
  <2>1. \A d \in Request : stage'[d] # "idle" => Settling(d)'
    BY <1>4
  <2> QED BY <2>1 DEF Settling, PlaceInv, BehindInv
<1> QED BY <1>2, <1>3, <1>5

\* The same, of a step that creates nothing.
LEMMA AssembledSame ==
  ASSUME GrokInv, NEW c \in Request, stage[c] \in Writing, UNCHANGED <<asked, made>>,
         NEW s \in Stages, s # "idle", stage' = [stage EXCEPT ![c] = s],
         NEW k \in 1..Len(PathsHere(c)), nth' = [nth EXCEPT ![c] = k],
         files' \in [Paths -> File \cup {Absent}],
         \A p \in Paths : Kept(p) /\ (files'[p] = files[p] \/ (p = PathOf(c) /\ p \in made[c])),
         Settling(c)'
  PROVE  GrokInv'
<1>1. PICK n \in SUBSET {PathOf(c)} : n = {}
  OBVIOUS
<1>2. made' = [made EXCEPT ![c] = @ \cup n]
  BY <1>1 DEF GrokInv, GrokTyped
<1> QED BY <1>1, <1>2, Assembled

LEMMA SteadyAsk ==
  ASSUME GrokInv, NEW c \in Request, NEW i \in Input, Ask(c, i)
  PROVE  GrokInv'
<1> USE DEF GrokInv
<1>1. /\ stage[c] = "idle" /\ made[c] = {} /\ nth[c] = 1 /\ UNCHANGED <<files, nth, made>>
      /\ asked'[c] = i /\ stage'[c] = "open"
      /\ \A d \in Request : d # c => asked'[d] = asked[d] /\ stage'[d] = stage[d]
  BY DEF Ask, GrokTyped, MadeInv
<1>2. Len(PathsOf(i)) \in {1, 2}
  BY OneOrTwo
<1>3. GrokTyped'
  <2>1. asked' \in [Request -> Input \cup {Absent}] /\ stage' \in [Request -> Stages]
    BY DEF Ask, GrokTyped, Stages, Writing
  <2>2. \A d \in Request : stage'[d] # "idle" => asked'[d] \in Input /\ nth'[d] <= Len(PathsHere(d)')
    BY <1>1, <1>2 DEF GrokTyped, PathsHere
  <2> QED BY <1>1, <2>1, <2>2 DEF GrokTyped
<1>4. MadeInv'
  BY <1>1 DEF MadeInv
<1>5. Settling(c)'
  BY <1>1, <1>2 DEF Settling
<1>6. ASSUME NEW d \in Request, d # c, stage'[d] # "idle" PROVE Settling(d)'
  <2>1. Settling(d)
    BY <1>1, <1>6, OneByOne
  <2> QED BY <1>1, <1>6, <2>1 DEF Settling, PathOf, PathsHere, Settled
<1> QED BY <1>3, <1>4, <1>5, <1>6 DEF Settling, PlaceInv, BehindInv

LEMMA SteadyOpen ==
  ASSUME GrokInv, NEW c \in Request, Open(c)
  PROVE  GrokInv'
<1> USE DEF GrokInv
<1> DEFINE p == PathOf(c)
<1>1. /\ stage[c] = "open" /\ UNCHANGED <<asked, nth>> /\ p' = p
      /\ PathsHere(c)' = PathsHere(c) /\ Settling(c) /\ p \in Paths /\ asked[c] \in Input
      /\ nth[c] \in 1..Len(PathsHere(c)) /\ nth' = [nth EXCEPT ![c] = nth[c]]
      /\ \A n \in 1..Len(PathsHere(c)) : PathsHere(c)[n] \in Paths
      /\ \A n \in 1..Len(PathsHere(c)) : PathsHere(c)[n] = p => n = nth[c]
  <2>1. stage[c] = "open" /\ UNCHANGED <<asked, nth>>
    BY DEF Open
  <2>2. Settling(c)
    BY <2>1, OneByOne
  <2>3. nth' = [nth EXCEPT ![c] = nth[c]]
    BY <2>1 DEF GrokTyped
  <2> QED BY <2>1, <2>2, <2>3, AtAFile DEF PathOf, PathsHere
<1>2. p \notin made[c]
  BY <1>1 DEF Settling
<1> HIDE DEF p
<1>3. CASE files[p] = Absent
  <2> DEFINE f == [of |-> asked[c], part |-> "empty"]
  <2>1. f \in File /\ f # Absent /\ f.of = asked[c] /\ f.part = "empty"
    BY <1>1, GrokAssumption DEF File, Part
  <2>2. /\ files' = [files EXCEPT ![p] = f] /\ made' = [made EXCEPT ![c] = @ \cup {p}]
        /\ stage' = [stage EXCEPT ![c] = "write"]
    BY <1>3 DEF Open, p
  <2> HIDE DEF f
  <2>3. /\ files' \in [Paths -> File \cup {Absent}] /\ files'[p] = f
        /\ \A q \in Paths : q # p => files'[q] = files[q]
    BY <1>1, <2>1, <2>2 DEF GrokTyped
  <2>4. \A q \in Paths : Kept(q)
    BY <1>3, <2>3 DEF Kept
  <2>5. made'[c] = made[c] \cup {p} /\ stage'[c] = "write"
    BY <2>2 DEF GrokTyped
  <2>6. Settling(c)'
    <3>1. stage'[c] = "write" => p' \in made'[c] /\ files'[p'].part # "whole"
      BY <1>1, <2>1, <2>3, <2>5
    <3>2. \A n \in 1..Len(PathsHere(c)) : n > nth[c] => PathsHere(c)[n] \notin made'[c]
      BY <1>1, <2>5 DEF Settling
    <3>3. ASSUME NEW n \in 1..Len(PathsHere(c)), n < nth[c] PROVE Settled(c, PathsHere(c)[n])'
      <4>1. Settled(c, PathsHere(c)[n]) /\ PathsHere(c)[n] \in Paths /\ PathsHere(c)[n] # p
        BY <1>1, <3>3 DEF Settling
      <4> QED BY <1>1, <2>3, <2>5, <4>1 DEF Settled, Parsed
    <3> QED BY <1>1, <2>5, <3>1, <3>2, <3>3 DEF Settling, p
  <2> QED BY <1>1, <1>3, <2>1, <2>2, <2>3, <2>4, <2>6, Assembled DEF p, Stages, Writing
<1>4. CASE files[p] # Absent
  <2>1. stage' = [stage EXCEPT ![c] = "read"] /\ UNCHANGED <<files, made>>
    BY <1>4 DEF Open, p
  <2>2. stage'[c] = "read"
    BY <2>1 DEF GrokTyped
  <2>3. Settling(c)'
    <3>1. ASSUME NEW n \in 1..Len(PathsHere(c)), n < nth[c] PROVE Settled(c, PathsHere(c)[n])'
      <4>1. Settled(c, PathsHere(c)[n])
        BY <1>1, <3>1 DEF Settling
      <4> QED BY <1>1, <2>1, <4>1 DEF Settled, Parsed
    <3>2. \A n \in 1..Len(PathsHere(c)) : n > nth[c] => PathsHere(c)[n] \notin made[c]
      BY <1>1 DEF Settling
    <3> QED BY <1>1, <1>2, <1>4, <2>1, <2>2, <3>1, <3>2 DEF Settling, p
  <2>4. files' \in [Paths -> File \cup {Absent}] /\ \A q \in Paths : Kept(q) /\ files'[q] = files[q]
    BY <2>1 DEF GrokTyped, Kept
  <2> QED BY <1>1, <2>1, <2>3, <2>4, AssembledSame DEF Stages, Writing
<1> QED BY <1>3, <1>4

\* A file of the call is whole, or its digest was found: the call moves on to the next one, or answers.
LEMMA SteadyAdvance ==
  ASSUME GrokInv, NEW c \in Request, stage[c] \in {"write", "read"}, Advance(c), UNCHANGED <<asked, made>>,
         files' \in [Paths -> File \cup {Absent}], \A p \in Paths : Kept(p),
         \A p \in Paths : files'[p] = files[p] \/ (p = PathOf(c) /\ p \in made[c]),
         /\ files'[PathOf(c)] # Absent /\ files'[PathOf(c)].of = asked[c]
         /\ Parsed(PathOf(c)) \/ PathOf(c) \in made[c] => files'[PathOf(c)].part = "whole"
  PROVE  GrokInv'
<1> USE DEF GrokInv
<1> DEFINE p == PathOf(c)
<1>1. /\ PathsHere(c)' = PathsHere(c) /\ Settling(c) /\ p \in Paths /\ asked[c] \in Input /\ p = PathsHere(c)[nth[c]]
      /\ nth[c] \in 1..Len(PathsHere(c)) /\ Len(PathsHere(c)) \in {1, 2}
      /\ \A n \in 1..Len(PathsHere(c)) : PathsHere(c)[n] \in Paths
      /\ \A n, k \in 1..Len(PathsHere(c)) : PathsHere(c)[n] = PathsHere(c)[k] => n = k
  BY AtAFile, OneByOne, OneOrTwo DEF PathsHere
<1>2. ASSUME NEW n \in 1..Len(PathsHere(c)), n <= nth[c] PROVE Settled(c, PathsHere(c)[n])'
  <2> DEFINE q == PathsHere(c)[n]
  <2>1. q' = q /\ q \in Paths /\ Kept(q)
    BY <1>1
  <2>2. CASE n < nth[c]
    <3>1. Settled(c, q)
      BY <1>1, <2>2 DEF Settling
    <3> HIDE DEF q
    <3>2. Settled(c, q)'
      BY <2>1, <3>1 DEF Settled, Kept, Parsed
    <3> QED BY <3>2 DEF q
  <2>3. CASE n = nth[c]
    <3>1. q = p
      BY <1>1, <2>3
    <3> HIDE DEF q
    <3>2. Settled(c, q)'
      BY <2>1, <3>1 DEF Settled, Parsed, p
    <3> QED BY <3>2 DEF q
  <2> QED BY <1>1, <1>2, <2>2, <2>3
<1>3. \A n \in 1..Len(PathsHere(c)) : n > nth[c] => PathsHere(c)[n] \notin made[c]
  BY <1>1 DEF Settling
<1>4. CASE nth[c] < Len(PathsHere(c))
  <2>1. nth[c] = 1 /\ Len(PathsHere(c)) = 2 /\ nth[c] + 1 = 2 /\ 2 \in 1..Len(PathsHere(c))
    BY <1>1, <1>4
  <2>2. nth' = [nth EXCEPT ![c] = 2] /\ stage' = [stage EXCEPT ![c] = "open"]
    BY <1>4, <2>1 DEF Advance, PathsHere
  <2>3. nth'[c] = 2 /\ stage'[c] = "open"
    BY <2>2 DEF GrokTyped
  <2>4. PathOf(c)' = PathsHere(c)[2]
    BY <1>1, <2>3 DEF PathOf, PathsHere
  <2>5. PathsHere(c)[2] \notin made[c]
    BY <1>3, <2>1
  <2>6. \A n \in 1..Len(PathsHere(c)) : n < 2 => Settled(c, PathsHere(c)[n])'
    BY <1>1, <1>2, <2>1
  <2>7. \A n \in 1..Len(PathsHere(c)) : ~(n > 2)
    BY <2>1
  <2>8. Settling(c)'
    BY <1>1, <2>3, <2>4, <2>5, <2>6, <2>7 DEF Settling
  <2> QED BY <2>1, <2>2, <2>8, AssembledSame DEF Stages, Writing
<1>5. CASE ~(nth[c] < Len(PathsHere(c)))
  <2>1. stage' = [stage EXCEPT ![c] = "answered"] /\ UNCHANGED nth
    BY <1>5 DEF Advance, PathsHere
  <2>2. stage'[c] = "answered" /\ nth[c] = Len(PathsHere(c))
    BY <1>1, <1>5, <2>1 DEF GrokTyped
  <2>3. \A n \in 1..Len(PathsHere(c)) : Settled(c, PathsHere(c)[n])'
    BY <1>1, <1>2, <2>2
  <2>4. Settling(c)'
    BY <1>1, <1>3, <2>1, <2>2, <2>3 DEF Settling
  <2>5. nth' = [nth EXCEPT ![c] = nth[c]]
    BY <2>1 DEF GrokTyped
  <2> QED BY <1>1, <2>1, <2>4, <2>5, AssembledSame DEF Stages, Writing
<1> QED BY <1>4, <1>5

LEMMA SteadyWriteHead ==
  ASSUME GrokInv, NEW c \in Request, WriteHead(c)
  PROVE  GrokInv'
<1> USE DEF GrokInv
<1> DEFINE p == PathOf(c)
<1>1. /\ stage[c] = "write" /\ files[p].part = "empty" /\ UNCHANGED <<asked, stage, nth, made>>
      /\ files' = [files EXCEPT ![p].part = "head"]
  BY DEF WriteHead
<1>2. /\ PathsHere(c)' = PathsHere(c) /\ Settling(c) /\ p \in Paths /\ asked[c] \in Input /\ p' = p
      /\ nth[c] \in 1..Len(PathsHere(c))
      /\ \A n \in 1..Len(PathsHere(c)) : PathsHere(c)[n] \in Paths
      /\ \A n \in 1..Len(PathsHere(c)) : PathsHere(c)[n] = p => n = nth[c]
  BY <1>1, AtAFile, OneByOne DEF PathsHere, PathOf
<1>3. p \in made[c] /\ files[p] # Absent
  BY <1>1, <1>2 DEF Settling, MadeInv
<1> HIDE DEF p
<1>4. /\ files' \in [Paths -> File \cup {Absent}] /\ files'[p].of = files[p].of /\ files'[p] # Absent
      /\ files'[p].part = "head" /\ \A q \in Paths : q # p => files'[q] = files[q]
  <2> DEFINE f == [files[p] EXCEPT !.part = "head"]
  <2>1. files[p] \in File
    BY <1>2, <1>3 DEF GrokTyped
  <2>2. f \in File /\ f.of = files[p].of /\ f.part = "head"
    BY <2>1 DEF File, Part
  <2>3. f # Absent
    BY <2>1, GrokAssumption DEF File, Part
  <2>4. files' = [files EXCEPT ![p] = f]
    BY <1>1, <1>2, <2>1 DEF GrokTyped, File
  <2> HIDE DEF f
  <2> QED BY <1>2, <2>2, <2>3, <2>4 DEF GrokTyped
<1>5. \A q \in Paths : Kept(q)
  BY <1>1, <1>4 DEF Kept
<1>6. Settling(c)'
  <2>1. ASSUME NEW n \in 1..Len(PathsHere(c)), n < nth[c] PROVE Settled(c, PathsHere(c)[n])'
    <3>1. Settled(c, PathsHere(c)[n]) /\ PathsHere(c)[n] \in Paths /\ PathsHere(c)[n] # p
      BY <1>2, <2>1 DEF Settling
    <3> QED BY <1>1, <1>2, <1>4, <3>1 DEF Settled, Parsed
  <2>2. \A n \in 1..Len(PathsHere(c)) : n > nth[c] => PathsHere(c)[n] \notin made[c]
    BY <1>2 DEF Settling
  <2> QED BY <1>1, <1>2, <1>3, <1>4, <2>1, <2>2 DEF Settling, p
<1>7. nth' = [nth EXCEPT ![c] = nth[c]] /\ stage' = [stage EXCEPT ![c] = "write"]
  BY <1>1 DEF GrokTyped
<1>8. "write" \in Stages /\ stage[c] \in Writing /\ UNCHANGED <<asked, made>>
  BY <1>1 DEF Stages, Writing
<1>9. \A q \in Paths : Kept(q) /\ (files'[q] = files[q] \/ (q = PathOf(c) /\ q \in made[c]))
  BY <1>3, <1>4, <1>5 DEF p
<1> QED BY <1>2, <1>4, <1>6, <1>7, <1>8, <1>9, AssembledSame

LEMMA SteadyWriteRest ==
  ASSUME GrokInv, NEW c \in Request, WriteRest(c)
  PROVE  GrokInv'
<1> USE DEF GrokInv
<1> DEFINE p == PathOf(c)
<1>1. /\ stage[c] = "write" /\ files[p].part = "head" /\ UNCHANGED <<asked, made>> /\ Advance(c)
      /\ files' = [files EXCEPT ![p].part = "whole"]
  BY DEF WriteRest
<1>2. Settling(c) /\ p \in Paths
  BY <1>1, AtAFile, OneByOne
<1>3. p \in made[c] /\ files[p] # Absent /\ files[p].of = asked[c]
  BY <1>1, <1>2 DEF Settling, MadeInv
<1> HIDE DEF p
<1>4. /\ files' \in [Paths -> File \cup {Absent}] /\ files'[p].of = files[p].of /\ files'[p] # Absent
      /\ files'[p].part = "whole" /\ \A q \in Paths : q # p => files'[q] = files[q]
  <2> DEFINE f == [files[p] EXCEPT !.part = "whole"]
  <2>1. files[p] \in File
    BY <1>2, <1>3 DEF GrokTyped
  <2>2. f \in File /\ f.of = files[p].of /\ f.part = "whole"
    BY <2>1 DEF File, Part
  <2>3. f # Absent
    BY <2>1, GrokAssumption DEF File, Part
  <2>4. files' = [files EXCEPT ![p] = f]
    BY <1>1, <1>2, <2>1 DEF GrokTyped, File
  <2> HIDE DEF f
  <2> QED BY <1>2, <2>2, <2>3, <2>4 DEF GrokTyped
<1>5. \A q \in Paths : Kept(q)
  BY <1>1, <1>4 DEF Kept
<1> QED BY <1>1, <1>2, <1>3, <1>4, <1>5, SteadyAdvance DEF p

LEMMA SteadyRead ==
  ASSUME GrokInv, NEW c \in Request, Read(c)
  PROVE  GrokInv'
<1> USE DEF GrokInv
<1> DEFINE p == PathOf(c)
<1>1. stage[c] = "read" /\ UNCHANGED <<files, asked, made>>
  BY DEF Read
<1>2. /\ PathsHere(c)' = PathsHere(c) /\ Settling(c) /\ p \in Paths /\ asked[c] \in Input
      /\ nth[c] \in 1..Len(PathsHere(c))
  BY <1>1, AtAFile, OneByOne DEF PathsHere
<1>3. files' \in [Paths -> File \cup {Absent}] /\ \A q \in Paths : Kept(q) /\ files'[q] = files[q]
  BY <1>1 DEF GrokTyped, Kept
<1>4. CASE asked[c] \in DigestOf(p) /\ Advance(c)
  <2>1. files[p] # Absent /\ p \notin made[c]
    BY <1>1, <1>2 DEF Settling
  <2>2. files[p].of = asked[c] /\ (Parsed(p) => files[p].part = "whole")
    BY <1>4 DEF DigestOf
  <2> QED BY <1>1, <1>3, <1>4, <2>1, <2>2, SteadyAdvance
<1>5. CASE stage' = [stage EXCEPT ![c] = "conflict"] /\ UNCHANGED nth
  <2>1. stage'[c] = "conflict"
    BY <1>5 DEF GrokTyped
  <2>2. ASSUME NEW n \in 1..Len(PathsHere(c)), n < nth[c] PROVE Settled(c, PathsHere(c)[n])'
    <3>1. Settled(c, PathsHere(c)[n])
      BY <1>2, <2>2 DEF Settling
    <3> QED BY <1>1, <1>2, <3>1 DEF Settled, Parsed
  <2>3. \A n \in 1..Len(PathsHere(c)) : n > nth[c] => PathsHere(c)[n] \notin made[c]
    BY <1>2 DEF Settling
  <2>4. Settling(c)'
    BY <1>1, <1>2, <1>5, <2>1, <2>2, <2>3 DEF Settling
  <2>5. nth' = [nth EXCEPT ![c] = nth[c]]
    BY <1>1, <1>5 DEF GrokTyped
  <2> QED BY <1>1, <1>2, <1>3, <1>5, <2>4, <2>5, AssembledSame DEF Stages, Writing
<1> QED BY <1>4, <1>5 DEF Read

\* A call that fails, or all of them at once, leaves what was written.
LEMMA SteadyStop ==
  ASSUME GrokInv, UNCHANGED <<files, asked, nth, made>>, stage' \in [Request -> Stages],
         \A c \in Request : stage'[c] = stage[c] \/ (stage[c] # "idle" /\ stage'[c] = "failed")
  PROVE  GrokInv'
<1> USE DEF GrokInv
<1>1. GrokTyped'
  BY DEF GrokTyped, PathsHere
<1>2. MadeInv'
  BY DEF MadeInv
<1>3. ASSUME NEW c \in Request, stage'[c] # "idle" PROVE Settling(c)'
  <2>1. Settling(c)
    BY <1>3, OneByOne
  <2> QED BY <2>1, <1>3 DEF Settling, Settled, PathsHere, PathOf
<1> QED BY <1>1, <1>2, <1>3 DEF Settling, PlaceInv, BehindInv

\* Every step of the bridge keeps the invariant.
LEMMA GrokSteady ==
  ASSUME GrokInv, [GrokNext]_gvars
  PROVE  GrokInv'
<1>1. CASE UNCHANGED gvars \/ GrokRest
  <2>1. UNCHANGED <<files, asked, nth, made, stage>>
    BY <1>1 DEF gvars, GrokRest
  <2> QED BY <2>1, SteadyStop DEF GrokInv, GrokTyped
<1>2. CASE GrokCrash
  BY <1>2, SteadyStop DEF GrokCrash, GrokInv, GrokTyped, Stages, Writing
<1>3. ASSUME NEW c \in Request, Fail(c) PROVE GrokInv'
  BY <1>3, SteadyStop DEF Fail, GrokInv, GrokTyped, Stages, Writing
<1> QED BY <1>1, <1>2, <1>3, SteadyAsk, SteadyOpen, SteadyWriteHead, SteadyWriteRest, SteadyRead DEF GrokNext

\* The invariant of the bridge holds throughout.
THEOREM GrokInductive == GrokSpec => []GrokInv
  BY GrokBegins, GrokSteady, PTL DEF GrokSpec

\* An answered call finds a file of its own input under each of its paths, for any number of concurrent calls
\* and inputs and through every crash.
THEOREM AnswersAreOnFile == GrokSpec => []AnsweredIsOnFile
<1>1. GrokInv => AnsweredIsOnFile
  BY DEF GrokInv, BehindInv, AnsweredIsOnFile, Settled, PathsHere
<1> QED BY <1>1, GrokInductive, PTL

=============================================================================
