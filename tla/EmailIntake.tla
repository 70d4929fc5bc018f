----------------------------- MODULE EmailIntake -----------------------------
(***************************************************************************)
(* The email intake dispatcher: services/email-intake/intake.mjs and       *)
(* sessions.mjs over the tables of store.mjs and ops/email-intake.         *)
(*                                                                         *)
(* One process runs at most one task at a time (Intake.exclusive): either  *)
(* the receipt of one mail or the drain of a timer tick.  Every await and  *)
(* every SQLite commit is a step of its own, so that a crash, a lost       *)
(* response or a late answer can fall between any two of them.  Tables,    *)
(* files, Slack and the gateway survive a crash; the task does not.        *)
(***************************************************************************)
EXTENDS Integers, Sequences

CONSTANTS
  Mail,          \* normalized message keys, also the ids of the conversations they open
  Operation,     \* calendar operation ids
  None,          \* no mail, no conversation, no operation
  OwnerMail,     \* mail the owner mailbox signed for a session recipient
  AutomaticMail, \* automated, bulk or looping mail
  CalendarMail,  \* mail to a calendar recipient
  RejectedMail,  \* undeclared recipient, oversized or malformed
  References,    \* ancestors a mail names, nearest first; None is an unknown id
  SubjectOf,     \* recipient, sender and subject key, as one value; None when empty
  ReceivedAt,    \* receipt time
  OperationOf,   \* the calendar operation a mail leads to
  SubjectWindow  \* how far back the subject fallback looks

ASSUME MailAssumption ==
  /\ None \notin Mail /\ None \notin Operation
  /\ References \in [Mail -> Seq(Mail \cup {None})]
  /\ OperationOf \in [Mail -> Operation]
  /\ ReceivedAt \in [Mail -> Int]
  /\ SubjectWindow \in Nat

Keys == {"root", "mail", "calendar-failure", "owner"}   \* prefixes of the effect keys

Effect == [key : Keys, mail : Mail]

VARIABLES
  proof,      \* evidence table: authentication recorded for a mail
  domain,     \* evidence table: calendar outcome recorded for a mail
  convOf,     \* messages table: the conversation a mail belongs to
  owned,      \* conversations opened under the owner's authority
  last,       \* latest receipt time of a conversation
  receipts,   \* receipts table: the conversation of a calendar operation
  log,        \* effects table in rowid order
  acked,      \* effects with a stored result
  linked,     \* conversations with an intake thread
  delivery,   \* delivery table: marker and result of an effect
  request,    \* request.json of an owner dispatch
  faults,     \* faults table, for effects
  world,      \* what Slack or the gateway did with an effect
  calls,      \* how often an effect was sent to Slack or the gateway
  answered,   \* mails receive() has returned ok for
  ready,      \* Intake.ready
  task,       \* mail being received, None for a timer tick
  pc,         \* where the task is
  pos,        \* row of the effects table the drain is at
  blocked     \* conversations this drain has given up on

tables   == <<proof, domain, convOf, owned, last, receipts, log>>
delivered == <<acked, linked, delivery, request, faults>>
outside  == <<world, calls>>
process  == <<ready, task, pc, pos, blocked>>
vars     == <<tables, delivered, outside, answered, process>>

Steps == {"idle", "authenticate", "domain", "commit", "calendarFailure", "drain",
          "verify", "scan", "request", "writing", "start", "send", "await", "find",
          "confirm", "link", "ack", "clear", "fault", "verdict", "failed"}

TypeOK ==
  /\ proof \in [Mail -> {"none", "owner", "denied"}]
  /\ domain \in [Mail -> {"none", "context_only", "rejected", "receipt"}]
  /\ convOf \in [Mail -> Mail \cup {None}]
  /\ owned \subseteq Mail
  /\ last \in [Mail -> Int]
  /\ receipts \in [Operation -> Mail \cup {None}]
  /\ log \in Seq(Effect)
  /\ acked \subseteq Effect
  /\ linked \subseteq Mail
  /\ delivery \in [Effect -> {"none", "started", "confirmed"}]
  /\ request \in [Effect -> {"absent", "partial", "written"}]
  /\ faults \subseteq Effect
  /\ world \in [Effect -> {"none", "inflight", "lost", "posted", "running", "ok", "error"}]
  /\ calls \in [Effect -> Nat]
  /\ answered \subseteq Mail
  /\ ready \in BOOLEAN
  /\ task \in Mail \cup {None}
  /\ pc \in Steps
  /\ pos \in Nat
  /\ blocked \subseteq Mail

Init ==
  /\ proof = [m \in Mail |-> "none"]
  /\ domain = [m \in Mail |-> "none"]
  /\ convOf = [m \in Mail |-> None]
  /\ owned = {}
  /\ last = [m \in Mail |-> ReceivedAt[m]]
  /\ receipts = [o \in Operation |-> None]
  /\ log = <<>>
  /\ acked = {}
  /\ linked = {}
  /\ delivery = [e \in Effect |-> "none"]
  /\ request = [e \in Effect |-> "absent"]
  /\ faults = {}
  /\ world = [e \in Effect |-> "none"]
  /\ calls = [e \in Effect |-> 0]
  /\ answered = {}
  /\ ready = FALSE
  /\ task = None
  /\ pc = "idle"
  /\ pos = 0
  /\ blocked = {}

Goto(step) == pc' = step /\ UNCHANGED <<ready, task, pos, blocked>>

InLog(e) == \E i \in 1..Len(log) : log[i] = e

Conv(e) == convOf[e.mail]

Conversations == {m \in Mail : convOf[m] = m}

(***************************************************************************)
(* Receipt of one mail: Intake.receive and EmailIntakeService.receive.     *)
(***************************************************************************)

\* A queue delivery or an HTTP request reaches the head of the serial chain.
BeginReceive(m) ==
  /\ pc = "idle"
  /\ task' = m
  /\ pc' = IF m \in RejectedMail THEN "failed" ELSE "authenticate"
  /\ UNCHANGED <<tables, delivered, outside, answered, ready, pos, blocked>>

\* Mutant: INSERT OR REPLACE.
LatestEvidence(m, p) == [proof EXCEPT ![m] = p]

\* INSERT OR IGNORE: the first evidence of a mail wins over later deliveries of it.
FirstEvidence(m, p) == [proof EXCEPT ![m] = IF @ = "none" THEN p ELSE @]

\* DKIM verification may be unavailable, and a late or altered copy may be denied.
Authenticate ==
  /\ pc = "authenticate"
  /\ \/ Goto("failed") /\ UNCHANGED proof
     \/ /\ \E p \in {"denied"} \cup (IF task \in OwnerMail THEN {"owner"} ELSE {}) :
             proof' = FirstEvidence(task, p)
        /\ Goto(IF domain[task] = "none" THEN "domain" ELSE "commit")
  /\ UNCHANGED <<domain, convOf, owned, last, receipts, log, delivered, outside, answered>>

\* The calendar service is asked once per mail; other mail is context only.
AskCalendar ==
  /\ pc = "domain"
  /\ \/ task \in CalendarMail /\ Goto("failed") /\ UNCHANGED domain
     \/ /\ \E d \in IF task \in CalendarMail THEN {"context_only", "rejected", "receipt"}
                                             ELSE {"context_only"} :
             domain' = [domain EXCEPT ![task] = d]
        /\ Goto("commit")
  /\ UNCHANGED <<proof, convOf, owned, last, receipts, log, delivered, outside, answered>>

Known(id) == id \in Mail /\ convOf[id] # None

\* Conversation c holds the nearest ancestor of m that is known.
NearestAncestor(m, c) ==
  \E i \in 1..Len(References[m]) :
    /\ Known(References[m][i])
    /\ c = convOf[References[m][i]]
    /\ \A j \in 1..(i - 1) : ~Known(References[m][j])

\* Conversations of the same subject, sender and recipient within the window.
SameSubject(m) ==
  {c \in Conversations : /\ SubjectOf[m] # None /\ SubjectOf[c] = SubjectOf[m]
                         /\ last[c] <= ReceivedAt[m]
                         /\ ReceivedAt[m] - last[c] <= SubjectWindow}

\* The conversation a mail belongs to by ancestry, else by a unique subject.
Correlates(m, c) ==
  IF References[m] # <<>> THEN NearestAncestor(m, c) ELSE SameSubject(m) = {c}

HasReceipt(m) == domain[m] = "receipt"

\* Mutant: the receipt table is not consulted.
ForgetReceipt(m) == None

PriorReceipt(m) == IF HasReceipt(m) THEN receipts[OperationOf[m]] ELSE None

\* Only an independently authenticated owner mail carries authority.
Authority(m) == ~HasReceipt(m) /\ m \notin AutomaticMail /\ proof[m] = "owner"

\* A mail joins a conversation only under the same authority.
Joins(m, c) ==
  /\ c \in Conversations
  /\ IF PriorReceipt(m) # None THEN c = PriorReceipt(m) ELSE Correlates(m, c)
  /\ (c \in owned) <=> Authority(m)

Target(m) == IF \E c \in Mail : Joins(m, c) THEN CHOOSE c \in Mail : Joins(m, c) ELSE m

AppendIf(test, s, e) == IF test THEN Append(s, e) ELSE s

\* The effects a new mail enqueues, in rowid order.
Enqueued(m, c) ==
  AppendIf(Authority(m),
           AppendIf(PriorReceipt(m) = None, log,
                    [key |-> IF c = m THEN "root" ELSE "mail", mail |-> m]),
           [key |-> "owner", mail |-> m])

\* One transaction keyed email:<message key>; a replay changes nothing.
CommitReceive ==
  /\ pc = "commit"
  /\ IF convOf[task] # None
     THEN UNCHANGED <<convOf, owned, last, receipts, log>>
     ELSE LET c == Target(task) IN
          /\ convOf' = [convOf EXCEPT ![task] = c]
          /\ owned' = IF c = task /\ Authority(task) THEN owned \cup {task} ELSE owned
          /\ last' = [last EXCEPT ![c] = IF ReceivedAt[task] > @ THEN ReceivedAt[task] ELSE @]
          /\ receipts' = IF HasReceipt(task) /\ PriorReceipt(task) = None
                         THEN [receipts EXCEPT ![OperationOf[task]] = c] ELSE receipts
          /\ log' = Enqueued(task, c)
  /\ Goto("calendarFailure")
  /\ UNCHANGED <<proof, domain, delivered, outside, answered>>

CalendarFailureOf(m) == [key |-> "calendar-failure", mail |-> m]

\* A rejected invitation owes the thread a failure notice, in its own transaction.
CalendarFailure ==
  /\ pc = "calendarFailure"
  /\ log' = AppendIf(domain[task] = "rejected" /\ ~InLog(CalendarFailureOf(task)),
                     log, CalendarFailureOf(task))
  /\ Goto("drain")
  /\ UNCHANGED <<proof, domain, convOf, owned, last, receipts, delivered, outside, answered>>

\* Mutant: a fault on record counts as the end of an effect.
UnreportedFor(m) ==
  \E i \in 1..Len(log) : log[i] \notin acked \cup faults /\ Conv(log[i]) = convOf[m]

\* What the conversation of a mail still owes.
UndeliveredFor(m) == \E i \in 1..Len(log) : log[i] \notin acked /\ Conv(log[i]) = convOf[m]

\* delivery_pending: anything left for the conversation fails the receipt.
Verdict ==
  /\ pc = "verdict"
  /\ UndeliveredFor(task)
  /\ Goto("failed")
  /\ UNCHANGED <<tables, delivered, outside, answered>>

ReceiveOk ==
  /\ pc = "verdict"
  /\ ~UndeliveredFor(task)
  /\ answered' = answered \cup {task}
  /\ pc' = "idle" /\ task' = None /\ pos' = 0 /\ blocked' = {}
  /\ UNCHANGED <<tables, delivered, outside, ready>>

ReceiveFailed ==
  /\ pc = "failed"
  /\ pc' = "idle" /\ task' = None /\ pos' = 0 /\ blocked' = {}
  /\ UNCHANGED <<tables, delivered, outside, answered, ready>>

(***************************************************************************)
(* The drain of pending effects: Intake.drain.                             *)
(***************************************************************************)

\* The timer of the server: verify the ports, then drain.
BeginTick ==
  /\ pc = "idle"
  /\ Goto("verify")
  /\ UNCHANGED <<tables, delivered, outside, answered>>

\* A failing tick withdraws readiness at any point of a task begun by HTTP.
TickFails ==
  /\ ready
  /\ ready' = FALSE
  /\ UNCHANGED <<tables, delivered, outside, answered, task, pc, pos, blocked>>

Snapshot == pc' = "scan" /\ pos' = 1 /\ blocked' = {} /\ UNCHANGED task

BeginDrain ==
  /\ pc = "drain"
  /\ IF ready THEN Snapshot /\ UNCHANGED ready ELSE Goto("verify")
  /\ UNCHANGED <<tables, delivered, outside, answered>>

Verify ==
  /\ pc = "verify"
  /\ \/ Snapshot /\ ready' = TRUE
     \/ task # None /\ Goto("failed")
     \/ task = None /\ pc' = "idle" /\ ready' = FALSE /\ UNCHANGED <<task, pos, blocked>>
  /\ UNCHANGED <<tables, delivered, outside, answered>>

Cur == log[pos]

Scanning == pc = "scan" /\ pos <= Len(log)

EndDrain ==
  /\ pc = "scan" /\ pos > Len(log)
  /\ IF task = None
     THEN pc' = "idle" /\ pos' = 0 /\ blocked' = {}
     ELSE pc' = "verdict" /\ UNCHANGED <<pos, blocked>>
  /\ UNCHANGED <<tables, delivered, outside, answered, ready, task>>

\* Everything but a root waits for the intake thread of its conversation.
AwaitsRoot(e) == e.key # "root" /\ Conv(e) \notin linked

Held(e) == Conv(e) \in blocked \/ AwaitsRoot(e)

NextRow == pc' = "scan" /\ pos' = pos + 1 /\ UNCHANGED <<ready, task>>

SkipEffect ==
  /\ Scanning
  /\ Cur \in acked \/ Held(Cur)
  /\ NextRow
  /\ UNCHANGED <<tables, delivered, outside, answered, blocked>>

\* Mutant: a started delivery is tried again.
SendAgain(e) ==
  CASE delivery[e] = "confirmed" -> IF e.key = "root" THEN "link" ELSE "ack"
    [] OTHER                     -> IF e.key = "owner" THEN "request" ELSE "start"

\* What the delivery row of an effect asks for: reuse, reconcile or a first try.
AfterMarker(e) ==
  CASE delivery[e] = "confirmed" -> IF e.key = "root" THEN "link" ELSE "ack"
    [] delivery[e] = "started"   -> "find"
    [] OTHER                     -> IF e.key = "owner" THEN "request" ELSE "start"

TakeEffect ==
  /\ Scanning
  /\ Cur \notin acked /\ ~Held(Cur)
  /\ Goto(AfterMarker(Cur))
  /\ UNCHANGED <<tables, delivered, outside, answered>>

\* request.json is created only when no file of that name exists.
OpenRequest ==
  /\ pc = "request"
  /\ IF request[Cur] = "absent"
     THEN request' = [request EXCEPT ![Cur] = "partial"] /\ Goto("writing")
     ELSE Goto("start") /\ UNCHANGED request
  /\ UNCHANGED <<tables, acked, linked, delivery, faults, outside, answered>>

WriteRequest ==
  /\ pc = "writing"
  /\ request' = [request EXCEPT ![Cur] = "written"]
  /\ Goto("start")
  /\ UNCHANGED <<tables, acked, linked, delivery, faults, outside, answered>>

\* The durable marker precedes the call it announces.
StartDelivery ==
  /\ pc = "start"
  /\ delivery' = [delivery EXCEPT ![Cur] = "started"]
  /\ Goto("send")
  /\ UNCHANGED <<tables, acked, linked, request, faults, outside, answered>>

\* chat.postMessage, or the gateway's agent call.
Send ==
  /\ pc = "send"
  /\ calls' = [calls EXCEPT ![Cur] = @ + 1]
  /\ world' = [world EXCEPT ![Cur] = IF @ = "none" THEN "inflight" ELSE @]
  /\ Goto("await")
  /\ UNCHANGED <<tables, delivered, answered>>

Published(e) == world[e] \in {"posted", "running", "ok", "error"}

Reply ==
  /\ pc = "await" /\ Published(Cur)
  /\ Goto("confirm")
  /\ UNCHANGED <<tables, delivered, outside, answered>>

\* An error, a timeout or a lost response: the outcome is not known.
NoReply ==
  /\ pc = "await"
  /\ Goto("fault")
  /\ UNCHANGED <<tables, delivered, outside, answered>>

\* Mutant: a request on its way is as good as a post.
ProvedOnceSent(e) == world[e] # "none"

\* Slack shows a post by its metadata; agent.wait vouches only for a run that ended well.
Proved(e) == world[e] \in {"posted", "ok"}

\* Mutant: a delivery of unknown outcome stays with its fault.
LeaveUnknown ==
  /\ pc = "find"
  /\ Goto("fault")
  /\ UNCHANGED <<tables, delivered, outside, answered>>

\* Reconciliation finds the effect by its marker, or leaves it for the next drain.
FindDelivery ==
  /\ pc = "find"
  /\ \/ Proved(Cur) /\ Goto("confirm")
     \/ Goto("fault")
  /\ UNCHANGED <<tables, delivered, outside, answered>>

ConfirmDelivery ==
  /\ pc = "confirm"
  /\ delivery' = [delivery EXCEPT ![Cur] = "confirmed"]
  /\ Goto(IF Cur.key = "root" THEN "link" ELSE "ack")
  /\ UNCHANGED <<tables, acked, linked, request, faults, outside, answered>>

LinkIntakeThread ==
  /\ pc = "link"
  /\ linked' = linked \cup {Conv(Cur)}
  /\ Goto("ack")
  /\ UNCHANGED <<tables, acked, delivery, request, faults, outside, answered>>

AcknowledgeEffect ==
  /\ pc = "ack"
  /\ acked' = acked \cup {Cur}
  /\ Goto("clear")
  /\ UNCHANGED <<tables, linked, delivery, request, faults, outside, answered>>

ClearFault ==
  /\ pc = "clear"
  /\ faults' = faults \ {Cur}
  /\ NextRow
  /\ UNCHANGED <<tables, acked, linked, delivery, request, outside, answered, blocked>>

\* Mutant: the failure is only logged.
BlockOnly ==
  /\ pc = "fault"
  /\ blocked' = blocked \cup {Conv(Cur)}
  /\ NextRow
  /\ UNCHANGED <<tables, delivered, outside, answered>>

\* A failed delivery blocks its conversation for the rest of the drain.
RecordFault ==
  /\ pc = "fault"
  /\ faults' = faults \cup {Cur}
  /\ blocked' = blocked \cup {Conv(Cur)}
  /\ NextRow
  /\ UNCHANGED <<tables, acked, linked, delivery, request, outside, answered>>

(***************************************************************************)
(* Slack, the gateway, and the end of the process.                         *)
(***************************************************************************)

\* A request arrives, possibly long after its sender stopped waiting.
Land(e) ==
  /\ world[e] = "inflight"
  /\ world' = [world EXCEPT ![e] = IF e.key = "owner" THEN "running" ELSE "posted"]
  /\ UNCHANGED <<tables, delivered, calls, answered, process>>

Lose(e) ==
  /\ world[e] = "inflight"
  /\ world' = [world EXCEPT ![e] = "lost"]
  /\ UNCHANGED <<tables, delivered, calls, answered, process>>

RunEnds(e) ==
  /\ world[e] = "running"
  /\ \E s \in {"ok", "error"} : world' = [world EXCEPT ![e] = s]
  /\ UNCHANGED <<tables, delivered, calls, answered, process>>

Crash ==
  /\ pc' = "idle" /\ task' = None /\ pos' = 0 /\ blocked' = {}
  /\ ready' = FALSE
  /\ UNCHANGED <<tables, delivered, outside, answered>>

Receive == \/ Authenticate \/ AskCalendar \/ CommitReceive \/ CalendarFailure
           \/ Verdict \/ ReceiveOk \/ ReceiveFailed

Drain == \/ BeginDrain \/ Verify \/ EndDrain \/ SkipEffect \/ TakeEffect
         \/ OpenRequest \/ WriteRequest \/ StartDelivery \/ Send \/ Reply \/ NoReply
         \/ FindDelivery \/ ConfirmDelivery \/ LinkIntakeThread \/ AcknowledgeEffect
         \/ ClearFault \/ RecordFault

Outside == \E e \in Effect : Land(e) \/ Lose(e) \/ RunEnds(e)

Next ==
  \/ \E m \in Mail : BeginReceive(m)
  \/ Receive \/ BeginTick \/ TickFails \/ Drain \/ Outside \/ Crash

Spec == Init /\ [][Next]_vars

-----------------------------------------------------------------------------
\* An effect is sent to Slack or the gateway at most once, over all crashes,
\* redeliveries and lost responses (intake.mjs:91, sessions.mjs:26).
AtMostOnce == \A e \in Effect : calls[e] <= 1

\* Within a conversation an effect is attempted only after every earlier one
\* was acknowledged: a reply never overtakes the root or a held owner turn
\* (the blocked set and the thread test of drain, intake.mjs:72-78).
InOrder ==
  \A i, j \in 1..Len(log) :
    i < j /\ Conv(log[i]) = Conv(log[j]) /\ delivery[log[j]] # "none" => log[i] \in acked

\* Only what Slack or the gateway took is recorded as confirmed or acknowledged,
\* and a linked thread is that of a published root (intake.mjs:87-107).
ConfirmedWasPublished ==
  /\ \A e \in Effect : delivery[e] = "confirmed" \/ e \in acked => Published(e)
  /\ \A c \in linked : Published([key |-> "root", mail |-> c])

\* Mail receive() has answered ok for has its thread, its owner turn and its
\* calendar failure notice delivered, whatever crashed in between.
AnsweredIsDelivered ==
  \A m \in answered :
    /\ convOf[m] # None
    /\ [key |-> "root", mail |-> convOf[m]] \in acked
    /\ Authority(m) => [key |-> "owner", mail |-> m] \in acked
    /\ domain[m] = "rejected" => CalendarFailureOf(m) \in acked

\* When a receipt ends, every conversation with something undelivered has a
\* fault on record for an undelivered effect, so /health shows it.
StuckIsVisible ==
  pc = "verdict" =>
    \A i \in 1..Len(log) : log[i] \notin acked =>
      \E j \in 1..Len(log) : /\ log[j] \in faults \ acked
                             /\ Conv(log[j]) = Conv(log[i])

\* A thread never mixes owner mail with other mail, although a redelivered copy
\* may authenticate differently (service.mjs: current; store.mjs: INSERT OR IGNORE).
OneAuthorityPerThread ==
  \A m \in Mail : convOf[m] # None => (convOf[m] \in owned <=> Authority(m))

\* All mails about one calendar operation land in one conversation.
OneThreadPerOperation ==
  \A m \in Mail : HasReceipt(m) /\ convOf[m] # None => receipts[OperationOf[m]] = convOf[m]

\* The intake keeps the promise of an outbox whose lanes are the conversations.
Promise == INSTANCE Outbox WITH
  Item    <- Effect,
  Lane    <- Mail \cup {None},
  queue   <- log,
  lane    <- [e \in Effect |-> Conv(e)],
  tries   <- calls,
  taken   <- {e \in Effect : Published(e)},
  settled <- acked

\* Every behaviour of the intake is one of the outbox (drain, intake.mjs:67-116).
KeepsPromise == Promise!Spec
=============================================================================
