-------------------------- MODULE EmailIntakeProofs ---------------------------
(***************************************************************************)
(* Proofs about EmailIntake, for every set of mails, every ancestry and    *)
(* any number of crashes, redeliveries and lost or late responses; then    *)
(* about the service that composes it with the consumer of its queues.     *)
(***************************************************************************)
EXTENDS EmailPipeline, TLAPS

RootOf(c) == [key |-> "root", mail |-> c]
OwnerOf(m) == [key |-> "owner", mail |-> m]

\* Steps at which the drain works on the row pos of the effects table.
AtRow == {"request", "writing", "start", "send", "await", "find",
          "confirm", "link", "ack", "clear", "fault"}

Draining == AtRow \cup {"scan"}

\* Where the drain is, and what the rows it works on have been through.
RowInv ==
  /\ pc \in Draining => pos \in 1..(Len(log) + 1)
  /\ pc \in AtRow => /\ pos <= Len(log)
                     /\ Conv(Cur) \notin blocked
                     /\ (pc # "clear" => Cur \notin acked)
  /\ pc \in {"request", "writing", "start"} => delivery[Cur] = "none"
  /\ pc = "send" => delivery[Cur] = "started" /\ calls[Cur] = 0
  /\ pc \in {"await", "find", "confirm"} => delivery[Cur] = "started"
  /\ pc = "confirm" => Published(Cur)
  /\ pc \in {"link", "ack"} => delivery[Cur] = "confirmed"
  /\ pc = "link" => Cur.key = "root"
  /\ pc = "ack" /\ Cur.key = "root" => Cur.mail \in linked
  /\ pc = "clear" => Cur \in acked

\* What the delivery marker says of the calls made and of their outcome.
DeliveryInv ==
  /\ \A e \in Effect :
       /\ calls[e] <= 1
       /\ delivery[e] = "none" => calls[e] = 0
       /\ delivery[e] # "none" => InLog(e)
       /\ calls[e] = 0 => world[e] = "none"
       /\ delivery[e] = "confirmed" => Published(e)
       /\ e \in acked => delivery[e] = "confirmed"
       /\ e \in acked /\ e.key = "root" => e.mail \in linked
  /\ \A c \in linked : delivery[RootOf(c)] = "confirmed"

\* An effects table l and messages table cv: no key twice, the root of a
\* conversation first, and effects only of mails that were stored.
LogOK(l, cv) ==
  /\ \A i \in 1..Len(l) :
       /\ cv[l[i].mail] # None
       /\ l[i].key = "root" => cv[l[i].mail] = l[i].mail
       /\ \E j \in 1..i : l[j] = RootOf(cv[l[i].mail])
  /\ \A i, j \in 1..Len(l) : l[i] = l[j] => i = j

LogInv == LogOK(log, convOf)

\* The messages, conversations and receipts tables.
MailInv ==
  /\ \A m \in Mail : convOf[m] # None =>
       /\ convOf[m] \in Conversations
       /\ InLog(RootOf(convOf[m]))
       /\ proof[m] # "none" /\ domain[m] # "none"
       /\ Authority(m) => InLog(OwnerOf(m))
  /\ owned \subseteq Conversations
  /\ \A o \in Operation : receipts[o] # None => receipts[o] \in Conversations \ owned

\* How far the receipt of a mail has come.
TaskInv ==
  /\ pc = "idle" => task = None
  /\ pc \in {"authenticate", "domain", "commit", "calendarFailure", "drain", "verdict"} => task \in Mail
  /\ pc = "domain" => proof[task] # "none" /\ domain[task] = "none"
  /\ pc = "commit" => proof[task] # "none" /\ domain[task] # "none"
  /\ pc = "calendarFailure" => convOf[task] # None
  /\ pc \in {"drain", "verify", "verdict"} \cup Draining /\ task # None =>
       /\ convOf[task] # None
       /\ domain[task] = "rejected" => InLog(CalendarFailureOf(task))

\* The drain leaves a row undelivered only in a blocked conversation, and it
\* blocks a conversation only over a fault it records.
ScanInv ==
  /\ pc \in Draining => \A i \in 1..Len(log) : i < pos => log[i] \in acked \/ Conv(log[i]) \in blocked
  /\ pc = "verdict" => \A i \in 1..Len(log) : log[i] \in acked \/ Conv(log[i]) \in blocked
  /\ \A c \in blocked : \E j \in 1..Len(log) : log[j] \in faults \ acked /\ Conv(log[j]) = c

IInv ==
  /\ TypeOK /\ RowInv /\ DeliveryInv /\ LogInv /\ MailInv /\ TaskInv /\ ScanInv
  /\ InOrder /\ AnsweredIsDelivered /\ OneAuthorityPerThread /\ OneThreadPerOperation

-----------------------------------------------------------------------------
(***************************************************************************)
(* Effects, rows, and what a step may touch.                               *)
(***************************************************************************)

LEMMA EffectFields == \A e \in Effect : e.key \in Keys /\ e.mail \in Mail
  BY DEF Effect

LEMMA EffectsOfMail ==
  ASSUME NEW m \in Mail
  PROVE  /\ RootOf(m) \in Effect /\ OwnerOf(m) \in Effect /\ CalendarFailureOf(m) \in Effect
         /\ [key |-> "mail", mail |-> m] \in Effect
  BY DEF Effect, Keys, RootOf, OwnerOf, CalendarFailureOf

LEMMA CurIsEffect ==
  TypeOK /\ RowInv /\ LogInv /\ pc \in AtRow =>
    Cur \in Effect /\ Cur.mail \in Mail /\ Conv(Cur) \in Mail
<1> SUFFICES ASSUME TypeOK, RowInv, LogInv, pc \in AtRow
             PROVE  Cur \in Effect /\ Conv(Cur) \in Mail
  BY EffectFields
<1>1. pos \in 1..Len(log)
  BY DEF TypeOK, RowInv, Draining
<1>2. log \in Seq(Effect)
  BY DEF TypeOK
<1>3. Cur \in Effect
  BY <1>1, <1>2 DEF Cur
<1>4. convOf[Cur.mail] # None
  BY <1>1 DEF LogInv, LogOK, Cur
<1> QED
  BY <1>3, <1>4, EffectFields DEF TypeOK, Conv

\* Only four steps write the tables of mails, conversations and effects.
LEMMA TablesFrame ==
  [Next]_vars /\ ~Authenticate /\ ~AskCalendar /\ ~CommitReceive /\ ~CalendarFailure
    => UNCHANGED tables
<1> SUFFICES ASSUME [Next]_vars, ~Authenticate, ~AskCalendar, ~CommitReceive, ~CalendarFailure
             PROVE  UNCHANGED tables
  OBVIOUS
<1>1. CASE \E m \in Mail : BeginReceive(m)
  BY <1>1 DEF BeginReceive
<1>2. CASE Receive
  BY <1>2 DEF Receive, Verdict, ReceiveOk, ReceiveFailed
<1>3. CASE BeginTick \/ TickFails \/ Crash
  BY <1>3 DEF BeginTick, TickFails, Crash
<1>4. CASE Drain
  BY <1>4 DEF Drain, BeginDrain, Verify, EndDrain, SkipEffect, TakeEffect, OpenRequest,
     WriteRequest, StartDelivery, Send, Reply, NoReply, FindDelivery, ConfirmDelivery,
     LinkIntakeThread, AcknowledgeEffect, ClearFault, RecordFault
<1>5. CASE Outside
  BY <1>5 DEF Outside, Land, Lose, RunEnds
<1>6. CASE UNCHANGED vars
  BY <1>6 DEF vars
<1> QED
  BY <1>1, <1>2, <1>3, <1>4, <1>5, <1>6 DEF Next

\* Only five steps and the outside world move a delivery along.
LEMMA DeliveryFrame ==
  [Next]_vars /\ ~StartDelivery /\ ~Send /\ ~ConfirmDelivery /\ ~LinkIntakeThread
              /\ ~AcknowledgeEffect /\ ~Outside
    => UNCHANGED <<delivery, calls, world, linked, acked>>
<1> SUFFICES ASSUME [Next]_vars, ~StartDelivery, ~Send, ~ConfirmDelivery, ~LinkIntakeThread,
                    ~AcknowledgeEffect, ~Outside
             PROVE  UNCHANGED <<delivery, calls, world, linked, acked>>
  OBVIOUS
<1> USE DEF delivered, outside
<1>1. CASE \E m \in Mail : BeginReceive(m)
  BY <1>1 DEF BeginReceive
<1>2. CASE Receive
  BY <1>2 DEF Receive, Authenticate, AskCalendar, CommitReceive, CalendarFailure,
     Verdict, ReceiveOk, ReceiveFailed
<1>3. CASE BeginTick \/ TickFails \/ Crash
  BY <1>3 DEF BeginTick, TickFails, Crash
<1>4. CASE Drain
  BY <1>4 DEF Drain, BeginDrain, Verify, EndDrain, SkipEffect, TakeEffect, OpenRequest,
     WriteRequest, Reply, NoReply, FindDelivery, ClearFault, RecordFault
<1>5. CASE UNCHANGED vars
  BY <1>5 DEF vars
<1> QED
  BY <1>1, <1>2, <1>3, <1>4, <1>5 DEF Next

-----------------------------------------------------------------------------
(***************************************************************************)
(* Type correctness.                                                       *)
(***************************************************************************)

LEMMA AppendIfType ==
  ASSUME NEW s \in Seq(Effect), NEW e \in Effect, NEW test
  PROVE  AppendIf(test, s, e) \in Seq(Effect)
  BY DEF AppendIf

LEMMA TargetIsMail ==
  ASSUME NEW m \in Mail PROVE Target(m) \in Mail
  BY DEF Target

LEMMA EnqueuedType ==
  ASSUME TypeOK, NEW m \in Mail, NEW c \in Mail
  PROVE  Enqueued(m, c) \in Seq(Effect)
<1> DEFINE first == [key |-> IF c = m THEN "root" ELSE "mail", mail |-> m]
<1>1. first \in Effect /\ [key |-> "owner", mail |-> m] \in Effect
  BY DEF Effect, Keys
<1>2. AppendIf(PriorReceipt(m) = None, log, first) \in Seq(Effect)
  BY <1>1, AppendIfType DEF TypeOK
<1> QED
  BY <1>1, <1>2, AppendIfType DEF Enqueued

LEMMA TypeStep ==
  IInv /\ [Next]_vars => TypeOK'
<1> SUFFICES ASSUME TypeOK, RowInv, LogInv, TaskInv, [Next]_vars
             PROVE  TypeOK'
  BY DEF IInv
<1> USE DEF tables, delivered, outside, process, Goto
<1>1. ASSUME NEW m \in Mail, BeginReceive(m) PROVE TypeOK'
  BY <1>1 DEF TypeOK, BeginReceive, Steps
<1>2. CASE Authenticate
  BY <1>2, ZenonT(60) DEF TypeOK, Authenticate, FirstEvidence, TaskInv, Steps
<1>3. CASE AskCalendar
  BY <1>3, ZenonT(60) DEF TypeOK, AskCalendar, TaskInv, Steps
<1>4. CASE CommitReceive
  <2>1. task \in Mail /\ Target(task) \in Mail
    BY <1>4, TargetIsMail DEF CommitReceive, TaskInv
  <2>2. convOf' \in [Mail -> Mail \cup {None}]
    BY <1>4, <2>1 DEF CommitReceive, TypeOK
  <2>6. owned' \subseteq Mail
    BY <1>4, <2>1 DEF CommitReceive, TypeOK
  <2>3. last' \in [Mail -> Int]
    <3>1. ReceivedAt[task] \in Int
      BY <2>1, MailAssumption
    <3>2. last' = last \/ \E c \in Mail, v \in Int : last' = [last EXCEPT ![c] = v]
      BY <1>4, <2>1, <3>1 DEF CommitReceive, TypeOK
    <3> QED
      BY <3>2 DEF TypeOK
  <2>4. receipts' \in [Operation -> Mail \cup {None}]
    <3>1. \/ receipts' = receipts
          \/ receipts' = [receipts EXCEPT ![OperationOf[task]] = Target(task)]
      BY <1>4 DEF CommitReceive
    <3> QED
      BY <2>1, <3>1 DEF TypeOK
  <2>5. log' \in Seq(Effect)
    BY <1>4, <2>1, EnqueuedType DEF CommitReceive, TypeOK
  <2> QED
    BY <1>4, <2>2, <2>3, <2>4, <2>5, <2>6 DEF TypeOK, CommitReceive, Steps
<1>5. CASE CalendarFailure
  <2>1. log' \in Seq(Effect)
    BY <1>5, EffectsOfMail, AppendIfType DEF CalendarFailure, TaskInv, TypeOK
  <2> QED
    BY <1>5, <2>1 DEF TypeOK, CalendarFailure, Steps
<1>6. CASE Verdict \/ ReceiveOk \/ ReceiveFailed
  BY <1>6 DEF TypeOK, TaskInv, Verdict, ReceiveOk, ReceiveFailed, Steps
<1>7. CASE BeginTick
  BY <1>7 DEF TypeOK, BeginTick, Steps
<1>20. CASE Crash
  BY <1>20 DEF TypeOK, Crash, Steps
<1>19. CASE TickFails
  BY <1>19 DEF TypeOK, TickFails
<1>8. CASE BeginDrain \/ EndDrain \/ SkipEffect \/ TakeEffect
  BY <1>8 DEF TypeOK, BeginDrain, EndDrain, SkipEffect, TakeEffect, AfterMarker, Snapshot,
     NextRow, Steps
<1>9. CASE Verify
  <2>1. ready' \in BOOLEAN
    BY <1>9, Zenon DEF Verify, TypeOK
  <2> QED
    BY <1>9, <2>1 DEF TypeOK, Verify, Snapshot, Steps
<1>10. CASE OpenRequest \/ WriteRequest
  BY <1>10, ZenonT(60) DEF TypeOK, OpenRequest, WriteRequest, Steps
<1>11. CASE StartDelivery \/ ConfirmDelivery
  BY <1>11 DEF TypeOK, StartDelivery, ConfirmDelivery, Steps
<1>12. CASE Send
  <2>1. Cur \in Effect
    BY <1>12, CurIsEffect DEF Send, AtRow
  <2>2. calls' \in [Effect -> Nat]
    BY <1>12, <2>1 DEF TypeOK, Send
  <2>3. world' \in [Effect -> {"none", "inflight", "lost", "posted", "running", "ok", "error"}]
    <3>1. world' = [world EXCEPT ![Cur] = "inflight"] \/ world' = [world EXCEPT ![Cur] = world[Cur]]
      BY <1>12 DEF Send
    <3> QED
      BY <2>1, <3>1 DEF TypeOK
  <2> QED
    BY <1>12, <2>2, <2>3 DEF TypeOK, Send, Steps
<1>13. CASE Reply \/ NoReply \/ FindDelivery
  BY <1>13 DEF TypeOK, Reply, NoReply, FindDelivery, Steps
<1>14. CASE LinkIntakeThread
  BY <1>14, CurIsEffect DEF TypeOK, LinkIntakeThread, AtRow, Steps
<1>15. CASE AcknowledgeEffect \/ ClearFault
  BY <1>15, CurIsEffect DEF TypeOK, AcknowledgeEffect, ClearFault, NextRow, AtRow, Steps
<1>16. CASE RecordFault
  BY <1>16, CurIsEffect DEF TypeOK, RecordFault, NextRow, AtRow, Steps
<1>17. ASSUME NEW e \in Effect, Land(e) \/ Lose(e) \/ RunEnds(e) PROVE TypeOK'
  BY <1>17 DEF TypeOK, Land, Lose, RunEnds
<1>18. CASE UNCHANGED vars
  BY <1>18 DEF vars, TypeOK
<1> QED
  BY <1>1, <1>2, <1>3, <1>4, <1>5, <1>6, <1>7, <1>8, <1>9, <1>10, <1>11, <1>12, <1>13,
     <1>14, <1>15, <1>16, <1>17, <1>18, <1>19, <1>20 DEF Next, Receive, Drain, Outside

-----------------------------------------------------------------------------
(***************************************************************************)
(* The effects table only grows, and keeps its shape.                      *)
(***************************************************************************)

LEMMA AppendLog ==
  ASSUME NEW l \in Seq(Effect), NEW cv, NEW e \in Effect,
         LogOK(l, cv),
         cv[e.mail] # None,
         e.key = "root" => cv[e.mail] = e.mail,
         e = RootOf(cv[e.mail]) \/ \E j \in 1..Len(l) : l[j] = RootOf(cv[e.mail]),
         \A i \in 1..Len(l) : l[i] # e
  PROVE  LogOK(Append(l, e), cv)
<1> DEFINE a == Append(l, e)
<1>1. /\ Len(a) = Len(l) + 1 /\ Len(l) \in Nat
      /\ a[Len(a)] = e
      /\ \A i \in 1..Len(l) : a[i] = l[i]
  OBVIOUS
<1> HIDE DEF a
<1>2. ASSUME NEW i \in 1..Len(a)
      PROVE  /\ cv[a[i].mail] # None
             /\ a[i].key = "root" => cv[a[i].mail] = a[i].mail
             /\ \E j \in 1..i : a[j] = RootOf(cv[a[i].mail])
  <2>1. CASE i = Len(a)
    BY <1>1, <2>1
  <2>2. CASE i \in 1..Len(l)
    BY <1>1, <2>2 DEF LogOK
  <2> QED
    BY <1>1, <2>1, <2>2
<1>3. ASSUME NEW i \in 1..Len(a), NEW j \in 1..Len(a), a[i] = a[j] PROVE i = j
  BY <1>1, <1>3 DEF LogOK
<1> QED
  BY <1>2, <1>3 DEF LogOK, a

\* Assigning a conversation to a new mail does not touch the rows already there.
LEMMA AssignConversation ==
  ASSUME TypeOK, LogInv, NEW m \in Mail, NEW c \in Mail, convOf[m] = None
  PROVE  /\ LogOK(log, [convOf EXCEPT ![m] = c])
         /\ \A i \in 1..Len(log) : log[i].mail # m
<1>1. \A i \in 1..Len(log) : log[i].mail # m /\ log[i].mail \in Mail
  BY EffectFields DEF TypeOK, LogInv, LogOK
<1>2. \A i \in 1..Len(log) : [convOf EXCEPT ![m] = c][log[i].mail] = convOf[log[i].mail]
  BY <1>1 DEF TypeOK
<1> QED
  BY <1>1, <1>2 DEF LogInv, LogOK

\* A conversation chosen for a mail is the mail itself or an open one.
LEMMA TargetIsOpen ==
  ASSUME NEW m \in Mail
  PROVE  Target(m) = m \/ (Target(m) \in Conversations /\ Joins(m, Target(m)))
  BY DEF Target, Joins

\* A later mail of a known calendar operation goes where the operation went.
LEMMA TargetOfReceipt ==
  ASSUME MailInv, NEW m \in Mail, PriorReceipt(m) # None
  PROVE  Target(m) = PriorReceipt(m) /\ ~Authority(m)
<1> DEFINE c == PriorReceipt(m)
<1>1. HasReceipt(m) /\ c = receipts[OperationOf[m]]
  BY DEF PriorReceipt
<1>2. c \in Conversations /\ c \notin owned
  BY <1>1, MailAssumption DEF MailInv
<1>3. ~Authority(m)
  BY <1>1 DEF Authority
<1>4. c \in Mail /\ \A d \in Mail : Joins(m, d) <=> d = c
  BY <1>2, <1>3 DEF Joins, Conversations
<1> QED
  BY <1>3, <1>4 DEF Target

\* What the transaction of a new mail leaves behind in the effects table.
LEMMA EnqueuedShape ==
  ASSUME MailInv, NEW m \in Mail
  PROVE  LET c == Target(m)
             first == IF c = m THEN RootOf(m) ELSE [key |-> "mail", mail |-> m]
         IN  \/ PriorReceipt(m) # None /\ ~Authority(m) /\ Enqueued(m, c) = log
             \/ ~Authority(m) /\ Enqueued(m, c) = Append(log, first)
             \/ Authority(m) /\ Enqueued(m, c) = Append(Append(log, first), OwnerOf(m))
<1>1. CASE PriorReceipt(m) # None
  BY <1>1, TargetOfReceipt DEF Enqueued, AppendIf
<1>2. CASE PriorReceipt(m) = None
  BY <1>2 DEF Enqueued, AppendIf, RootOf, OwnerOf
<1> QED
  BY <1>1, <1>2

\* The first effect of a new mail extends a well-formed table.
LEMMA CommitLog ==
  ASSUME TypeOK, LogInv, MailInv, NEW m \in Mail, convOf[m] = None
  PROVE  LogOK(Enqueued(m, Target(m)), [convOf EXCEPT ![m] = Target(m)])
<1> DEFINE c == Target(m)
           cv == [convOf EXCEPT ![m] = c]
           first == IF c = m THEN RootOf(m) ELSE [key |-> "mail", mail |-> m]
<1>1. c \in Mail
  BY TargetIsMail
<1>2. LogOK(log, cv) /\ \A i \in 1..Len(log) : log[i].mail # m
  BY <1>1, AssignConversation
<1>3. cv[m] = c /\ c # None /\ log \in Seq(Effect)
  BY <1>1, MailAssumption DEF TypeOK
<1>4. first \in Effect /\ first.mail = m /\ (first.key = "root" => c = m) /\ first # OwnerOf(m)
  BY EffectsOfMail DEF RootOf, OwnerOf
<1>5. first = RootOf(c) \/ \E j \in 1..Len(log) : log[j] = RootOf(c)
  <2>1. CASE c = m
    BY <2>1
  <2>2. CASE c # m
    <3>1. c \in Conversations
      BY <2>2, TargetIsOpen
    <3>2. InLog(RootOf(c))
      BY <3>1, <1>3 DEF MailInv, Conversations
    <3> QED
      BY <3>2 DEF InLog
  <2> QED
    BY <2>1, <2>2
<1> HIDE DEF c, cv, first
<1>6. LogOK(Append(log, first), cv)
  BY <1>2, <1>3, <1>4, <1>5, AppendLog
<1>7. OwnerOf(m) \in Effect /\ OwnerOf(m).mail = m /\ OwnerOf(m).key = "owner"
  BY EffectsOfMail DEF OwnerOf
<1>8. LogOK(Append(Append(log, first), OwnerOf(m)), cv)
  <2> DEFINE l == Append(log, first)
  <2>1. /\ l \in Seq(Effect) /\ Len(l) = Len(log) + 1 /\ l[Len(l)] = first
        /\ \A i \in 1..Len(log) : l[i] = log[i]
        /\ Len(log) \in Nat
    BY <1>3, <1>4
  <2> HIDE DEF l
  <2>2. LogOK(l, cv)
    BY <1>6 DEF l
  <2>3. \E j \in 1..Len(l) : l[j] = RootOf(c)
    BY <2>1, <1>5
  <2>4. \A i \in 1..Len(l) : l[i] # OwnerOf(m)
    BY <2>1, <1>2, <1>4, <1>7
  <2>5. LogOK(Append(l, OwnerOf(m)), cv)
    BY <2>1, <2>2, <2>3, <2>4, <1>3, <1>7, AppendLog
  <2> QED
    BY <2>5 DEF l
<1>9. Enqueued(m, c) \in {log, Append(log, first), Append(Append(log, first), OwnerOf(m))}
  BY EnqueuedShape DEF c, first
<1> QED
  BY <1>2, <1>6, <1>8, <1>9 DEF c, cv

LEMMA LogStep ==
  IInv /\ [Next]_vars => LogInv'
<1> SUFFICES ASSUME TypeOK, LogInv, MailInv, TaskInv, [Next]_vars
             PROVE  LogInv'
  BY DEF IInv
<1>1. CASE CommitReceive
  <2>1. CASE convOf[task] # None
    BY <1>1, <2>1 DEF CommitReceive, LogInv
  <2>2. CASE convOf[task] = None
    BY <1>1, <2>2, CommitLog DEF CommitReceive, LogInv, TaskInv
  <2> QED
    BY <2>1, <2>2
<1>2. CASE CalendarFailure
  <2>1. task \in Mail /\ convOf[task] # None /\ convOf' = convOf
    BY <1>2 DEF CalendarFailure, TaskInv
  <2>2. log' = log \/ (log' = Append(log, CalendarFailureOf(task)) /\ ~InLog(CalendarFailureOf(task)))
    BY <1>2 DEF CalendarFailure, AppendIf
  <2>3. \E j \in 1..Len(log) : log[j] = RootOf(convOf[task])
    BY <2>1 DEF MailInv, InLog
  <2>4. /\ CalendarFailureOf(task) \in Effect /\ CalendarFailureOf(task).mail = task
        /\ CalendarFailureOf(task).key # "root" /\ log \in Seq(Effect)
    BY <2>1, EffectsOfMail DEF CalendarFailureOf, TypeOK
  <2>5. ~InLog(CalendarFailureOf(task)) => LogOK(Append(log, CalendarFailureOf(task)), convOf)
    BY <2>1, <2>3, <2>4, AppendLog DEF InLog, LogInv
  <2> QED
    BY <2>1, <2>2, <2>5 DEF LogInv
<1>3. CASE UNCHANGED <<log, convOf>>
  BY <1>3 DEF LogInv
<1> QED
  BY <1>1, <1>2, <1>3, TablesFrame DEF tables, Authenticate, AskCalendar

\* The table keeps its rows, and their conversations, for ever.
LEMMA LogGrows ==
  ASSUME TypeOK, LogInv, MailInv, TaskInv, [Next]_vars
  PROVE  /\ Len(log) \in Nat /\ Len(log') \in Nat /\ Len(log) <= Len(log')
         /\ \A i \in 1..Len(log) : /\ log'[i] = log[i] /\ log[i] \in Effect
                                   /\ convOf'[log[i].mail] = convOf[log[i].mail]
<1>0. log \in Seq(Effect)
  BY DEF TypeOK
<1>1. CASE CommitReceive /\ convOf[task] = None
  <2> DEFINE c == Target(task)
             first == IF c = task THEN RootOf(task) ELSE [key |-> "mail", mail |-> task]
  <2>1. task \in Mail /\ c \in Mail
    BY <1>1, TargetIsMail DEF CommitReceive, TaskInv
  <2>2. convOf' = [convOf EXCEPT ![task] = c] /\ log' = Enqueued(task, c)
    BY <1>1 DEF CommitReceive
  <2>3. first \in Effect /\ OwnerOf(task) \in Effect
    BY <2>1, EffectsOfMail
  <2>4. \A i \in 1..Len(log) : log[i].mail # task
    BY <1>1, <2>1, AssignConversation
  <2>5. log' \in {log, Append(log, first), Append(Append(log, first), OwnerOf(task))}
    BY <2>1, <2>2, EnqueuedShape
  <2> HIDE DEF c, first
  <2>6. Len(log) <= Len(log') /\ Len(log') \in Nat /\ \A i \in 1..Len(log) : log'[i] = log[i]
    BY <1>0, <2>3, <2>5
  <2> QED
    BY <1>0, <2>2, <2>4, <2>6, EffectFields DEF TypeOK
<1>2. CASE CalendarFailure
  <2>1. CalendarFailureOf(task) \in Effect
    BY <1>2, EffectsOfMail DEF CalendarFailure, TaskInv
  <2> QED
    BY <1>0, <1>2, <2>1 DEF CalendarFailure, AppendIf
<1>3. CASE UNCHANGED <<log, convOf>>
  BY <1>0, <1>3
<1> QED
  BY <1>1, <1>2, <1>3, TablesFrame DEF tables, Authenticate, AskCalendar, CommitReceive

LEMMA InLogStays ==
  ASSUME TypeOK, LogInv, MailInv, TaskInv, [Next]_vars, NEW e, InLog(e)
  PROVE  InLog(e)'
  BY LogGrows DEF InLog

-----------------------------------------------------------------------------
(***************************************************************************)
(* The row under delivery, the delivery markers, and what was called.      *)
(***************************************************************************)

LEMMA RowStep ==
  IInv /\ [Next]_vars => RowInv'
<1> SUFFICES ASSUME TypeOK, RowInv, DeliveryInv, LogInv, [Next]_vars
             PROVE  RowInv'
  BY DEF IInv
<1> USE DEF tables, delivered, outside, process, Goto, AtRow, Draining
<1>0. Len(log) \in Nat /\ pos \in Nat
  BY DEF TypeOK
<1>1. ASSUME pc \in AtRow PROVE Cur \in Effect /\ Cur.mail \in Mail
  BY <1>1, CurIsEffect
<1>2. ASSUME NEW m \in Mail, BeginReceive(m) PROVE RowInv'
  BY <1>2 DEF RowInv, BeginReceive
<1>3. CASE Receive
  BY <1>3 DEF RowInv, Receive, Authenticate, AskCalendar, CommitReceive, CalendarFailure,
     Verdict, ReceiveOk, ReceiveFailed
<1>4. CASE BeginTick \/ Crash
  BY <1>4 DEF RowInv, BeginTick, Crash
<1>5. CASE TickFails
  BY <1>5 DEF RowInv, TickFails, Conv, Cur, Published
<1>6. CASE BeginDrain \/ Verify
  BY <1>0, <1>6 DEF RowInv, BeginDrain, Verify, Snapshot
<1>7. CASE EndDrain
  BY <1>7 DEF RowInv, EndDrain
<1>8. CASE SkipEffect
  BY <1>0, <1>8 DEF RowInv, SkipEffect, Scanning, NextRow
<1>9. CASE TakeEffect
  <2>1. Cur \in Effect
    BY <1>0, <1>9 DEF TakeEffect, Scanning, RowInv, Cur, TypeOK
  <2>2. delivery[Cur] \in {"none", "started", "confirmed"}
    BY <2>1 DEF TypeOK
  <2>3. Cur.key = "root" /\ delivery[Cur] = "confirmed" => pc' = "link"
    BY <1>9 DEF TakeEffect, AfterMarker
  <2>4. Cur' = Cur /\ Conv(Cur)' = Conv(Cur) /\ Conv(Cur) \notin blocked
    BY <1>9 DEF TakeEffect, Cur, Conv, Held
  <2>5. pc' \in {"link", "ack", "find", "request", "start"}
    BY <1>9 DEF TakeEffect, AfterMarker
  <2>6. /\ pc' \in {"request", "start"} => delivery[Cur] = "none"
        /\ pc' = "find" => delivery[Cur] = "started"
        /\ pc' \in {"link", "ack"} => delivery[Cur] = "confirmed"
        /\ pc' = "link" => Cur.key = "root"
    BY <1>9, <2>2 DEF TakeEffect, AfterMarker
  <2> QED
    BY <1>0, <1>9, <2>3, <2>4, <2>5, <2>6 DEF RowInv, TakeEffect, Scanning
<1>10. CASE OpenRequest \/ WriteRequest
  BY <1>10 DEF RowInv, OpenRequest, WriteRequest, Conv, Cur
<1>11. CASE StartDelivery
  <2>1. calls[Cur] = 0 /\ delivery'[Cur] = "started"
    BY <1>1, <1>11 DEF StartDelivery, RowInv, DeliveryInv, TypeOK
  <2> QED
    BY <1>11, <2>1 DEF RowInv, StartDelivery, Conv, Cur
<1>12. CASE Send
  BY <1>12 DEF RowInv, Send, Conv, Cur
<1>13. CASE Reply \/ NoReply \/ FindDelivery
  BY <1>13 DEF RowInv, Reply, NoReply, FindDelivery, Proved, Published, Conv, Cur
<1>14. CASE ConfirmDelivery
  <2>1. delivery'[Cur] = "confirmed"
    BY <1>1, <1>14 DEF ConfirmDelivery, TypeOK
  <2> QED
    BY <1>14, <2>1 DEF RowInv, ConfirmDelivery, Conv, Cur
<1>15. CASE LinkIntakeThread
  <2>1. Conv(Cur) = Cur.mail
    BY <1>0, <1>15 DEF LinkIntakeThread, RowInv, LogInv, LogOK, Conv, Cur
  <2> QED
    BY <1>15, <2>1 DEF RowInv, LinkIntakeThread, Conv, Cur
<1>16. CASE AcknowledgeEffect
  BY <1>16 DEF RowInv, AcknowledgeEffect, Conv, Cur
<1>17. CASE ClearFault \/ RecordFault
  BY <1>0, <1>17 DEF RowInv, ClearFault, RecordFault, NextRow
<1>18. CASE Outside
  BY <1>1, <1>18 DEF RowInv, Outside, Land, Lose, RunEnds, Conv, Cur, Published, TypeOK
<1>19. CASE UNCHANGED vars
  BY <1>19 DEF RowInv, vars, Conv, Cur, Published
<1> QED
  BY <1>2, <1>3, <1>4, <1>5, <1>6, <1>7, <1>8, <1>9, <1>10, <1>11, <1>12, <1>13, <1>14,
     <1>15, <1>16, <1>17, <1>18, <1>19 DEF Next, Drain

LEMMA DeliveryStep ==
  IInv /\ [Next]_vars => DeliveryInv'
<1> SUFFICES ASSUME TypeOK, RowInv, DeliveryInv, LogInv, MailInv, TaskInv, [Next]_vars
             PROVE  DeliveryInv'
  BY DEF IInv
<1> USE DEF delivered, outside, AtRow
<1>0. \A e : InLog(e) => InLog(e)'
  BY InLogStays
<1>1. ASSUME pc \in AtRow
      PROVE  Cur \in Effect /\ Cur.mail \in Mail /\ InLog(Cur) /\ RootOf(Cur.mail) \in Effect
  <2>1. pos \in 1..Len(log)
    BY <1>1 DEF RowInv, Draining, TypeOK
  <2> QED
    BY <1>1, <2>1, CurIsEffect, EffectsOfMail DEF InLog, Cur
<1>2. CASE StartDelivery
  BY <1>0, <1>1, <1>2 DEF StartDelivery, DeliveryInv, RowInv, TypeOK, Published
<1>3. CASE Send
  BY <1>0, <1>1, <1>3 DEF Send, DeliveryInv, RowInv, TypeOK, Published
<1>4. CASE ConfirmDelivery
  BY <1>0, <1>1, <1>4 DEF ConfirmDelivery, DeliveryInv, RowInv, TypeOK, Published
<1>5. CASE LinkIntakeThread
  <2>1. Conv(Cur) = Cur.mail /\ Cur = RootOf(Cur.mail)
    <3>1. pos \in 1..Len(log)
      BY <1>5 DEF LinkIntakeThread, RowInv, Draining, TypeOK
    <3>2. Conv(Cur) = Cur.mail
      BY <1>5, <3>1 DEF LinkIntakeThread, RowInv, LogInv, LogOK, Conv, Cur
    <3> QED
      BY <1>1, <1>5, <3>2 DEF LinkIntakeThread, RowInv, Effect, RootOf
  <2> QED
    BY <1>0, <1>1, <1>5, <2>1 DEF LinkIntakeThread, DeliveryInv, RowInv, Published
<1>6. CASE AcknowledgeEffect
  BY <1>0, <1>1, <1>6 DEF AcknowledgeEffect, DeliveryInv, RowInv, Published
<1>7. ASSUME NEW e \in Effect, Land(e) \/ Lose(e) \/ RunEnds(e) PROVE DeliveryInv'
  <2>1. UNCHANGED <<delivery, calls, linked, acked>>
    BY <1>7 DEF Land, Lose, RunEnds
  <2>2. world[e] \in {"inflight", "running"}
    BY <1>7 DEF Land, Lose, RunEnds
  <2>3. \A f \in Effect : f # e => world'[f] = world[f]
    BY <1>7 DEF Land, Lose, RunEnds, TypeOK
  <2>4. world[e] = "running" => world'[e] \in {"ok", "error"}
    BY <1>7 DEF Land, Lose, RunEnds, TypeOK
  <2>5. \A f \in Effect : Published(f) => Published(f)'
    BY <2>2, <2>3, <2>4 DEF Published
  <2>6. \A f \in Effect : calls[f] = 0 => world'[f] = "none"
    BY <2>2, <2>3 DEF DeliveryInv
  <2> QED
    BY <1>0, <2>1, <2>5, <2>6 DEF DeliveryInv
<1>8. CASE UNCHANGED <<delivery, calls, world, linked, acked>>
  BY <1>0, <1>8 DEF DeliveryInv, Published
<1> QED
  BY <1>2, <1>3, <1>4, <1>5, <1>6, <1>7, <1>8, DeliveryFrame DEF Outside

-----------------------------------------------------------------------------
(***************************************************************************)
(* Mails, their conversations and their authority.                         *)
(***************************************************************************)

\* Evidence of a stored mail is final.
LEMMA EvidenceIsFinal ==
  ASSUME TypeOK, MailInv, TaskInv, [Next]_vars, NEW m \in Mail, convOf[m] # None
  PROVE  /\ proof'[m] = proof[m] /\ domain'[m] = domain[m] /\ convOf'[m] = convOf[m]
         /\ Authority(m)' = Authority(m) /\ HasReceipt(m)' = HasReceipt(m)
<1>0. proof[m] # "none" /\ domain[m] # "none"
  BY DEF MailInv
<1>1. proof'[m] = proof[m] /\ domain'[m] = domain[m] /\ convOf'[m] = convOf[m]
  <2>1. CASE Authenticate
    BY <1>0, <2>1 DEF Authenticate, FirstEvidence, TypeOK
  <2>2. CASE AskCalendar
    BY <1>0, <2>2 DEF AskCalendar, TaskInv, TypeOK
  <2>3. CASE CommitReceive
    BY <2>3 DEF CommitReceive, TaskInv, TypeOK
  <2>4. CASE CalendarFailure
    BY <2>4 DEF CalendarFailure
  <2> QED
    BY <2>1, <2>2, <2>3, <2>4, TablesFrame DEF tables
<1> QED
  BY <1>1 DEF Authority, HasReceipt

\* A conversation opened stays open, and its owner stays the same.
LEMMA OwnedStays ==
  ASSUME TypeOK, MailInv, TaskInv, [Next]_vars
  PROVE  /\ \A c \in Conversations : c \in Conversations' /\ (c \in owned' <=> c \in owned)
<1> SUFFICES ASSUME NEW c \in Conversations
             PROVE  c \in Conversations' /\ (c \in owned' <=> c \in owned)
  OBVIOUS
<1>1. c \in Mail /\ convOf[c] = c /\ c # None
  BY MailAssumption DEF Conversations
<1>2. c \in Conversations'
  BY <1>1, EvidenceIsFinal DEF Conversations
<1>3. c \in owned' <=> c \in owned
  <2>1. CASE CommitReceive
    BY <1>1, <2>1 DEF CommitReceive
  <2> QED
    BY <2>1, TablesFrame DEF tables, Authenticate, AskCalendar, CalendarFailure
<1> QED
  BY <1>2, <1>3

LEMMA MailStep ==
  IInv /\ [Next]_vars => MailInv' /\ OneAuthorityPerThread' /\ OneThreadPerOperation'
<1> SUFFICES ASSUME TypeOK, LogInv, MailInv, TaskInv, OneAuthorityPerThread,
                    OneThreadPerOperation, [Next]_vars
             PROVE  MailInv' /\ OneAuthorityPerThread' /\ OneThreadPerOperation'
  BY DEF IInv
<1> DEFINE After(e) == \E i \in 1..Len(log') : log'[i] = e
           Stored(m) ==
      /\ convOf[m] \in Conversations
      /\ InLog(RootOf(convOf[m]))
      /\ proof[m] # "none" /\ domain[m] # "none"
      /\ Authority(m) => InLog(OwnerOf(m))
      /\ convOf[m] \in owned <=> Authority(m)
      /\ HasReceipt(m) => receipts[OperationOf[m]] = convOf[m]
<1>0. \A m \in Mail : convOf[m] # None => Stored(m)
  BY DEF MailInv, OneAuthorityPerThread, OneThreadPerOperation
<1>1. \A o \in Operation : receipts[o] # None => receipts'[o] = receipts[o]
  <2>1. CASE CommitReceive
    BY <2>1 DEF CommitReceive, PriorReceipt, TypeOK
  <2> QED
    BY <2>1, TablesFrame DEF tables, Authenticate, AskCalendar, CalendarFailure
<1>2. ASSUME NEW m \in Mail, convOf[m] # None PROVE Stored(m)'
  <2>1. /\ proof'[m] = proof[m] /\ domain'[m] = domain[m] /\ convOf'[m] = convOf[m]
        /\ Authority(m)' = Authority(m) /\ HasReceipt(m)' = HasReceipt(m)
    BY <1>2, EvidenceIsFinal
  <2>2. Stored(m)
    BY <1>0, <1>2
  <2>3. After(RootOf(convOf[m])) /\ (Authority(m) => After(OwnerOf(m)))
    BY <2>2, InLogStays DEF InLog
  <2>4. convOf[m] \in Conversations' /\ (convOf[m] \in owned' <=> convOf[m] \in owned)
    BY <2>2, OwnedStays
  <2>5. HasReceipt(m) => receipts'[OperationOf[m]] = convOf[m]
    BY <1>1, <1>2, <2>2, MailAssumption
  <2> QED
    BY <2>1, <2>2, <2>3, <2>4, <2>5 DEF InLog, RootOf, OwnerOf
<1>3. ASSUME NEW m \in Mail, convOf[m] = None, convOf'[m] # None PROVE Stored(m)'
  <2>1. CommitReceive /\ task = m /\ m \in Mail
    BY <1>3, TablesFrame DEF tables, Authenticate, AskCalendar, CalendarFailure, CommitReceive, TaskInv, TypeOK
  <2> DEFINE c == Target(m)
  <2>2. c \in Mail /\ c # None
    BY TargetIsMail, MailAssumption
  <2>3. /\ convOf' = [convOf EXCEPT ![m] = c] /\ log' = Enqueued(m, c)
        /\ proof' = proof /\ domain' = domain
        /\ owned' = IF c = m /\ Authority(m) THEN owned \cup {m} ELSE owned
        /\ receipts' = IF HasReceipt(m) /\ PriorReceipt(m) = None
                         THEN [receipts EXCEPT ![OperationOf[m]] = c] ELSE receipts
    BY <1>3, <2>1 DEF CommitReceive
  <2>4. convOf'[m] = c
    BY <2>2, <2>3 DEF TypeOK
  <2>5. Authority(m)' = Authority(m) /\ HasReceipt(m)' = HasReceipt(m)
    BY <2>3 DEF Authority, HasReceipt
  <2>6. proof[m] # "none" /\ domain[m] # "none"
    BY <2>1 DEF TaskInv, CommitReceive
  <2>7. c \in Conversations'
    BY <2>2, <2>3, <2>4, TargetIsOpen, OwnedStays DEF Conversations
  <2>8. c \in owned' <=> Authority(m)
    <3>1. CASE c = m
      <4>1. m \notin owned
        BY <1>3, MailAssumption DEF MailInv, Conversations
      <4> QED
        BY <2>3, <3>1, <4>1
    <3>2. CASE c # m
      BY <2>3, <3>2, TargetIsOpen DEF Joins
    <3> QED
      BY <3>1, <3>2
  <2>9. HasReceipt(m) => receipts'[OperationOf[m]] = c
    <3>1. OperationOf[m] \in Operation
      BY MailAssumption
    <3>2. CASE PriorReceipt(m) # None
      BY <2>3, <3>1, <3>2, TargetOfReceipt DEF PriorReceipt
    <3>3. CASE PriorReceipt(m) = None
      BY <2>3, <3>1, <3>3 DEF TypeOK
    <3> QED
      BY <3>2, <3>3
  <2>10. After(RootOf(c)) /\ (Authority(m) => After(OwnerOf(m)))
    <3> DEFINE first == IF c = m THEN RootOf(m) ELSE [key |-> "mail", mail |-> m]
    <3>0. log \in Seq(Effect) /\ first \in Effect /\ OwnerOf(m) \in Effect
      BY EffectsOfMail DEF TypeOK
    <3>1. \/ PriorReceipt(m) # None /\ ~Authority(m) /\ log' = log
          \/ ~Authority(m) /\ log' = Append(log, first)
          \/ Authority(m) /\ log' = Append(Append(log, first), OwnerOf(m))
      BY <2>3, EnqueuedShape
    <3>2. c # m => After(RootOf(c))
      <4>1. c # m => c \in Conversations /\ InLog(RootOf(c))
        BY <2>2, TargetIsOpen DEF MailInv, Conversations
      <4> QED
        BY <4>1, InLogStays DEF InLog
    <3>3. PriorReceipt(m) # None => c # m
      BY <1>3, MailAssumption, TargetOfReceipt, TargetIsOpen DEF PriorReceipt, HasReceipt, MailInv, Conversations
    <3>4. c = m => first = RootOf(c)
      OBVIOUS
    <3> HIDE DEF first, c
    <3>5. c = m => After(RootOf(c))
      <4>1. CASE log' = Append(log, first)
        <5>1. Len(log) + 1 \in 1..Len(log') /\ log'[Len(log) + 1] = first
          BY <3>0, <4>1
        <5> QED
          BY <3>4, <5>1
      <4>2. CASE log' = Append(Append(log, first), OwnerOf(m))
        <5>1. Len(log) + 1 \in 1..Len(log') /\ log'[Len(log) + 1] = first
          BY <3>0, <4>2
        <5> QED
          BY <3>4, <5>1
      <4> QED
        BY <3>1, <3>3, <4>1, <4>2
    <3>6. Authority(m) => After(OwnerOf(m))
      <4>1. ASSUME Authority(m)
            PROVE  Len(log) + 2 \in 1..Len(log') /\ log'[Len(log) + 2] = OwnerOf(m)
        BY <3>0, <3>1, <4>1
      <4> QED
        BY <4>1
    <3> QED
      BY <3>2, <3>5, <3>6
  <2> QED
    BY <2>3, <2>4, <2>5, <2>6, <2>7, <2>8, <2>9, <2>10 DEF InLog, RootOf, OwnerOf
<1>4. owned' \subseteq Conversations'
  <2>1. \A c \in owned : c \in Conversations'
    BY OwnedStays DEF MailInv
  <2>2. CASE CommitReceive /\ convOf[task] = None
    <3>1. \A c \in owned' : c \in owned \/ (c = task /\ Target(task) = task /\ task \in Mail)
      BY <2>2 DEF CommitReceive, TaskInv
    <3>2. Target(task) = task /\ task \in Mail => task \in Conversations'
      BY <2>2 DEF CommitReceive, Conversations, TypeOK
    <3> QED
      BY <2>1, <3>1, <3>2
  <2> QED
    BY <2>1, <2>2, TablesFrame DEF tables, Authenticate, AskCalendar, CalendarFailure, CommitReceive
<1>5. ASSUME NEW o \in Operation, receipts'[o] # None PROVE receipts'[o] \in Conversations' \ owned'
  <2>1. CASE receipts[o] # None
    BY <1>1, <2>1, OwnedStays DEF MailInv
  <2>2. CASE receipts[o] = None
    <3>1. PICK m \in Mail : m = task /\ CommitReceive /\ convOf[m] = None /\ HasReceipt(m)
                             /\ receipts'[o] = Target(m)
      BY <1>5, <2>2, TablesFrame DEF tables, Authenticate, AskCalendar, CalendarFailure,
         CommitReceive, TaskInv, TypeOK
    <3>2. convOf'[m] = Target(m) /\ Target(m) # None
      BY <3>1, TargetIsMail, MailAssumption DEF CommitReceive, TypeOK
    <3>3. Stored(m)'
      BY <1>3, <3>1, <3>2
    <3>4. ~Authority(m)'
      BY <3>1 DEF Authority, HasReceipt, CommitReceive
    <3> QED
      BY <3>1, <3>2, <3>3, <3>4
  <2> QED
    BY <2>1, <2>2
<1>6. \A m \in Mail : convOf'[m] # None => Stored(m)'
  BY <1>2, <1>3
<1> QED
  BY <1>4, <1>5, <1>6 DEF MailInv, OneAuthorityPerThread, OneThreadPerOperation

-----------------------------------------------------------------------------
(***************************************************************************)
(* The receipt in progress and the scan of the effects table.              *)
(***************************************************************************)

LEMMA TaskStep ==
  IInv /\ [Next]_vars => TaskInv'
<1> SUFFICES ASSUME TypeOK, MailInv, TaskInv, LogInv, [Next]_vars
             PROVE  TaskInv'
  BY DEF IInv
<1> USE DEF delivered, outside, process, Goto, AtRow, Draining
<1>1. ASSUME NEW m \in Mail, BeginReceive(m) PROVE TaskInv'
  BY <1>1 DEF TaskInv, BeginReceive
<1>2. CASE Authenticate
  <2>1. task \in Mail /\ task' = task
    BY <1>2 DEF Authenticate, TaskInv
  <2>2. pc' # "failed" => proof'[task] # "none"
    BY <1>2, <2>1 DEF Authenticate, FirstEvidence, TypeOK
  <2> QED
    BY <1>2, <2>1, <2>2 DEF Authenticate, TaskInv
<1>3. CASE AskCalendar
  BY <1>3 DEF AskCalendar, TaskInv, TypeOK
<1>4. CASE CommitReceive
  <2>1. task \in Mail /\ task' = task
    BY <1>4 DEF CommitReceive, TaskInv
  <2>2. convOf'[task] # None
    BY <1>4, <2>1, TargetIsMail, MailAssumption DEF CommitReceive, TypeOK
  <2> QED
    BY <1>4, <2>1, <2>2 DEF CommitReceive, TaskInv
<1>5. CASE CalendarFailure
  <2>1. task \in Mail /\ task' = task /\ convOf' = convOf /\ domain' = domain
    BY <1>5 DEF CalendarFailure, TaskInv
  <2>2. domain[task] = "rejected" => \E i \in 1..Len(log') : log'[i] = CalendarFailureOf(task)
    <3>1. CASE InLog(CalendarFailureOf(task))
      BY <3>1, InLogStays DEF InLog
    <3>2. CASE ~InLog(CalendarFailureOf(task)) /\ domain[task] = "rejected"
      <4>1. log' = Append(log, CalendarFailureOf(task)) /\ log \in Seq(Effect)
        BY <1>5, <3>2 DEF CalendarFailure, AppendIf, TypeOK
      <4>2. Len(log) + 1 \in 1..Len(log') /\ log'[Len(log) + 1] = CalendarFailureOf(task)
        BY <2>1, <4>1, EffectsOfMail
      <4> QED
        BY <4>2
    <3> QED
      BY <3>1, <3>2
  <2> QED
    BY <1>5, <2>1, <2>2 DEF CalendarFailure, TaskInv, InLog, CalendarFailureOf
<1>6. CASE UNCHANGED tables
  <2>1. \A m : CalendarFailureOf(m)' = CalendarFailureOf(m) /\ InLog(CalendarFailureOf(m))' = InLog(CalendarFailureOf(m))
    BY <1>6 DEF CalendarFailureOf, InLog, tables
  <2> USE <1>6 DEF tables
  <2>2. CASE Verdict \/ ReceiveOk \/ ReceiveFailed \/ BeginTick \/ Crash
    <3>1. pc' \in {"failed", "idle", "verify"} /\ (pc' = "verify" => task' = task /\ pc = "idle")
      BY <2>2 DEF Verdict, ReceiveOk, ReceiveFailed, BeginTick, Crash
    <3>2. pc' = "idle" => task' = None
      BY <2>2 DEF Verdict, ReceiveOk, ReceiveFailed, BeginTick, Crash
    <3> QED
      BY <3>1, <3>2 DEF TaskInv
  <2>8. CASE TickFails
    BY <2>1, <2>8 DEF TickFails, TaskInv, InLog, CalendarFailureOf
  <2>3. CASE EndDrain \/ SkipEffect \/ TakeEffect
    <3>1. /\ pc = "scan" /\ pc' \in Draining \cup {"idle", "verdict"} /\ task' = task
          /\ pc' \notin {"authenticate", "domain", "commit", "calendarFailure", "drain"}
      BY <2>3 DEF EndDrain, SkipEffect, TakeEffect, AfterMarker, Scanning, NextRow
    <3>2. (pc' = "idle" => task' = None) /\ (pc' = "verdict" => task # None)
      BY <2>3, <3>1 DEF EndDrain, SkipEffect, TakeEffect, AfterMarker, NextRow
    <3>3. task # None => convOf[task] # None /\ (domain[task] = "rejected" => InLog(CalendarFailureOf(task)))
      BY <3>1 DEF TaskInv
    <3> QED
      BY <2>1, <3>1, <3>2, <3>3 DEF TaskInv, TypeOK, InLog, CalendarFailureOf
  <2>9. CASE BeginDrain \/ Verify
    BY <2>1, <2>9 DEF BeginDrain, Verify, Snapshot, TaskInv, InLog, CalendarFailureOf
  <2>4. CASE OpenRequest \/ WriteRequest \/ StartDelivery \/ Send \/ Reply \/ NoReply \/ FindDelivery
    BY <2>1, <2>4 DEF OpenRequest, WriteRequest, StartDelivery, Send, Reply, NoReply, FindDelivery,
       TaskInv, InLog, CalendarFailureOf
  <2>5. CASE ConfirmDelivery \/ LinkIntakeThread \/ AcknowledgeEffect \/ ClearFault \/ RecordFault
    BY <2>1, <2>5 DEF ConfirmDelivery, LinkIntakeThread, AcknowledgeEffect, ClearFault, RecordFault,
       NextRow, TaskInv, InLog, CalendarFailureOf
  <2>6. CASE Outside
    BY <2>1, <2>6 DEF Outside, Land, Lose, RunEnds, TaskInv, InLog, CalendarFailureOf
  <2>7. CASE UNCHANGED vars
    BY <2>1, <2>7 DEF vars, TaskInv, InLog, CalendarFailureOf
  <2> QED
    BY <1>1, <1>2, <1>3, <1>4, <1>5, <2>2, <2>3, <2>4, <2>5, <2>6, <2>7, <2>8, <2>9 DEF Next, Receive, Drain
<1> QED
  BY <1>1, <1>2, <1>3, <1>4, <1>5, <1>6, TablesFrame

LEMMA ScanStep ==
  IInv /\ [Next]_vars => ScanInv'
<1> SUFFICES ASSUME TypeOK, RowInv, DeliveryInv, LogInv, MailInv, TaskInv, ScanInv, [Next]_vars
             PROVE  ScanInv'
  BY DEF IInv
<1> USE DEF delivered, outside, process, Goto, AtRow, Draining
<1>1. CASE Authenticate \/ AskCalendar \/ CommitReceive \/ CalendarFailure
  <2>1. pc' \notin Draining \cup {"verdict"} /\ UNCHANGED <<blocked, faults, acked>>
    BY <1>1 DEF Authenticate, AskCalendar, CommitReceive, CalendarFailure
  <2>2. ASSUME NEW c \in blocked
        PROVE  \E j \in 1..Len(log') : log'[j] \in faults \ acked /\ convOf'[log'[j].mail] = c
    <3>1. PICK j \in 1..Len(log) : log[j] \in faults \ acked /\ Conv(log[j]) = c
      BY <2>2 DEF ScanInv
    <3> QED
      BY <3>1, LogGrows DEF Conv
  <2> QED
    BY <2>1, <2>2 DEF ScanInv, Conv
<1>2. CASE UNCHANGED tables
  <2> USE <1>2 DEF tables
  <2>0. Len(log) \in Nat /\ pos \in Nat /\ \A i \in 1..Len(log) : log[i] \in Effect
    BY DEF TypeOK
  <2>1. \A i \in 1..Len(log) : (log[i] \in acked \/ Conv(log[i]) \in blocked)
          => (log'[i] = log[i] /\ Conv(log[i])' = Conv(log[i]))
    BY DEF Conv
  <2>2. CASE (\E m \in Mail : BeginReceive(m)) \/ Verdict \/ ReceiveOk \/ ReceiveFailed \/ BeginTick
             \/ TickFails \/ Crash
    BY <2>2 DEF BeginReceive, Verdict, ReceiveOk, ReceiveFailed, BeginTick, TickFails, Crash,
       ScanInv, Conv
  <2>3. CASE BeginDrain \/ Verify
    BY <2>0, <2>3 DEF BeginDrain, Verify, Snapshot, ScanInv, Conv
  <2>4. CASE EndDrain
    BY <2>0, <2>4 DEF EndDrain, ScanInv, Conv
  <2>5. CASE SkipEffect
    <3>1. Cur \in acked \/ Conv(Cur) \in blocked
      <4>1. CASE AwaitsRoot(Cur) /\ Conv(Cur) \notin blocked
        <5>1. PICK j \in 1..pos : log[j] = RootOf(Conv(Cur))
          BY <2>0, <2>5 DEF SkipEffect, Scanning, RowInv, LogInv, LogOK, Conv, Cur
        <5>2. log[j] \in Effect /\ log[j].key = "root" /\ log[j].mail = Conv(Cur) /\ j \in 1..Len(log)
          BY <2>0, <2>5, <5>1 DEF SkipEffect, Scanning, RootOf
        <5>3. Conv(log[j]) = Conv(Cur)
          BY <5>2 DEF LogInv, LogOK, Conv
        <5>4. j < pos
          BY <2>0, <4>1, <5>1, <5>2 DEF AwaitsRoot, Cur
        <5>5. log[j] \in acked
          BY <2>0, <2>5, <4>1, <5>2, <5>3, <5>4 DEF SkipEffect, Scanning, ScanInv
        <5>6. Conv(Cur) \in linked
          BY <5>2, <5>5 DEF DeliveryInv
        <5> QED
          BY <4>1, <5>6 DEF AwaitsRoot
      <4> QED
        BY <2>5, <4>1 DEF SkipEffect, Held
    <3> QED
      BY <2>0, <2>5, <3>1 DEF SkipEffect, Scanning, NextRow, ScanInv, Conv, Cur
  <2>6. CASE TakeEffect
    BY <2>6 DEF TakeEffect, Scanning, AfterMarker, ScanInv, Conv
  <2>7. CASE OpenRequest \/ WriteRequest \/ StartDelivery \/ Send \/ Reply \/ NoReply \/ FindDelivery
             \/ ConfirmDelivery \/ LinkIntakeThread
    BY <2>7 DEF OpenRequest, WriteRequest, StartDelivery, Send, Reply, NoReply, FindDelivery,
       ConfirmDelivery, LinkIntakeThread, ScanInv, Conv
  <2>8. CASE AcknowledgeEffect
    BY <2>0, <2>8 DEF AcknowledgeEffect, RowInv, ScanInv, Conv, Cur
  <2>9. CASE ClearFault
    BY <2>0, <2>9 DEF ClearFault, NextRow, RowInv, ScanInv, Conv, Cur
  <2>10. CASE RecordFault
    <3>1. pos \in 1..Len(log) /\ Cur \notin acked
      BY <2>0, <2>10 DEF RecordFault, RowInv
    <3> QED
      BY <2>0, <2>10, <3>1 DEF RecordFault, NextRow, ScanInv, Conv, Cur
  <2>11. CASE Outside \/ UNCHANGED vars
    BY <2>11 DEF Outside, Land, Lose, RunEnds, vars, ScanInv, Conv
  <2> QED
    BY <1>1, <2>2, <2>3, <2>4, <2>5, <2>6, <2>7, <2>8, <2>9, <2>10, <2>11 DEF Next, Receive, Drain
<1> QED
  BY <1>1, <1>2, TablesFrame

-----------------------------------------------------------------------------
(***************************************************************************)
(* Order within a conversation, and what an answer vouches for.            *)
(***************************************************************************)

LEMMA InOrderStep ==
  IInv /\ [Next]_vars => InOrder'
<1> SUFFICES ASSUME IInv, TypeOK, RowInv, DeliveryInv, LogInv, MailInv, TaskInv, ScanInv, InOrder,
                    [Next]_vars
             PROVE  InOrder'
  BY DEF IInv
<1>1. CASE StartDelivery
  <2>1. UNCHANGED <<log, convOf, acked>> /\ delivery' = [delivery EXCEPT ![Cur] = "started"]
    BY <1>1 DEF StartDelivery, tables
  <2>2. pos \in 1..Len(log) /\ Cur \in Effect /\ Conv(Cur) \notin blocked /\ pc \in Draining
    BY <1>1, CurIsEffect DEF StartDelivery, RowInv, AtRow, Draining, TypeOK
  <2>3. ASSUME NEW i \in 1..Len(log), NEW j \in 1..Len(log), i < j, Conv(log[i]) = Conv(log[j]),
               delivery'[log[j]] # "none"
        PROVE  log[i] \in acked
    <3>1. log[j] \in Effect
      BY DEF TypeOK
    <3>2. CASE log[j] = Cur
      <4>1. j = pos
        BY <2>2, <3>2 DEF LogInv, LogOK, Cur
      <4> QED
        BY <2>2, <2>3, <4>1 DEF ScanInv, Cur
    <3>3. CASE log[j] # Cur
      BY <2>1, <2>3, <3>1, <3>3 DEF InOrder, TypeOK
    <3> QED
      BY <3>2, <3>3
  <2> QED
    BY <2>1, <2>3 DEF InOrder, Conv
<1>2. CASE UNCHANGED <<log, convOf>> /\ ~StartDelivery
  <2>1. acked \subseteq acked' /\ \A i \in 1..Len(log) : delivery'[log[i]] # "none" => delivery[log[i]] # "none"
    <3>1. CASE ConfirmDelivery
      <4>1. delivery[Cur] # "none"
        BY <3>1 DEF ConfirmDelivery, RowInv, AtRow
      <4> QED
        BY <3>1, <4>1 DEF ConfirmDelivery, TypeOK
    <3> QED
      BY <1>2, <3>1, DeliveryFrame DEF Send, LinkIntakeThread, AcknowledgeEffect, Outside, Land, Lose,
         RunEnds, delivered
  <2> QED
    BY <1>2, <2>1 DEF InOrder, Conv
<1>3. CASE CommitReceive \/ CalendarFailure
  <2>1. UNCHANGED <<acked, delivery>>
    BY <1>3 DEF CommitReceive, CalendarFailure, delivered
  <2>2. LogInv'
    BY LogStep
  <2>3. ASSUME NEW i \in 1..Len(log'), NEW j \in 1..Len(log'), i < j,
               convOf'[log'[i].mail] = convOf'[log'[j].mail], delivery[log'[j]] # "none"
        PROVE  log'[i] \in acked
    <3>1. log'[j] \in Effect
      BY TypeStep DEF TypeOK
    <3>2. PICK k \in 1..Len(log) : log[k] = log'[j]
      BY <2>3, <3>1 DEF DeliveryInv, InLog
    <3>3. k = j
      <4>1. k \in 1..Len(log') /\ log'[k] = log'[j]
        BY <3>2, LogGrows
      <4> QED BY <2>2, <4>1 DEF LogInv, LogOK
    <3> QED
      BY <2>3, <3>2, <3>3, LogGrows DEF InOrder, Conv
  <2> QED
    BY <2>1, <2>3 DEF InOrder, Conv
<1> QED
  BY <1>1, <1>2, <1>3, TablesFrame DEF tables, Authenticate, AskCalendar

LEMMA AnsweredStep ==
  IInv /\ [Next]_vars => AnsweredIsDelivered'
<1> SUFFICES ASSUME TypeOK, LogInv, MailInv, TaskInv, AnsweredIsDelivered, [Next]_vars
             PROVE  AnsweredIsDelivered'
  BY DEF IInv
<1> DEFINE Served(m) ==
      /\ convOf[m] # None
      /\ [key |-> "root", mail |-> convOf[m]] \in acked
      /\ Authority(m) => [key |-> "owner", mail |-> m] \in acked
      /\ domain[m] = "rejected" => CalendarFailureOf(m) \in acked
<1>1. acked \subseteq acked'
  BY DeliveryFrame DEF StartDelivery, Send, ConfirmDelivery, LinkIntakeThread, AcknowledgeEffect,
     Outside, Land, Lose, RunEnds, delivered
<1>2. ASSUME NEW m \in Mail, Served(m) PROVE Served(m)'
  BY <1>1, <1>2, EvidenceIsFinal DEF CalendarFailureOf
<1>3. CASE ReceiveOk
  <2>1. UNCHANGED <<tables, acked>> /\ task \in Mail /\ answered' = answered \cup {task}
    BY <1>3 DEF ReceiveOk, TaskInv, delivered
  <2>2. \A e : InLog(e) /\ Conv(e) = convOf[task] => e \in acked
    BY <1>3 DEF ReceiveOk, UndeliveredFor, InLog
  <2>3. convOf[task] # None
    BY <1>3, <2>1, MailAssumption DEF ReceiveOk, TaskInv
  <2>4. RootOf(convOf[task]) \in acked
    BY <2>1, <2>2, <2>3 DEF MailInv, Conversations, Conv, RootOf
  <2>5. Authority(task) => OwnerOf(task) \in acked
    BY <2>1, <2>2, <2>3 DEF MailInv, Conv, OwnerOf
  <2>6. domain[task] = "rejected" => CalendarFailureOf(task) \in acked
    BY <1>3, <2>1, <2>2, MailAssumption DEF ReceiveOk, TaskInv, Conv, CalendarFailureOf
  <2>7. Served(task)
    BY <2>3, <2>4, <2>5, <2>6 DEF RootOf, OwnerOf
  <2>8. \A m \in answered' : m \in Mail /\ Served(m)
    BY <2>1, <2>7 DEF AnsweredIsDelivered, TypeOK
  <2> QED
    BY <1>2, <2>8 DEF AnsweredIsDelivered
<1>4. CASE ~ReceiveOk
  <2>1. answered' = answered
    BY <1>4 DEF Next, Receive, Drain, Outside, vars, BeginReceive, Authenticate, AskCalendar,
       CommitReceive, CalendarFailure, Verdict, ReceiveFailed, BeginTick, TickFails, BeginDrain,
       Verify, EndDrain, SkipEffect, TakeEffect, OpenRequest, WriteRequest, StartDelivery, Send,
       Reply, NoReply, FindDelivery, ConfirmDelivery, LinkIntakeThread, AcknowledgeEffect,
       ClearFault, RecordFault, Land, Lose, RunEnds, Crash
  <2> QED
    BY <1>2, <2>1 DEF AnsweredIsDelivered, TypeOK
<1> QED
  BY <1>3, <1>4

-----------------------------------------------------------------------------
(***************************************************************************)
(* The invariant, and the theorems it yields.                              *)
(***************************************************************************)

LEMMA InitIInv ==
  Init => IInv
<1> SUFFICES ASSUME Init PROVE IInv
  OBVIOUS
<1> USE MailAssumption DEF Init
<1>1. TypeOK
  <2>1. last \in [Mail -> Int]
    OBVIOUS
  <2>2. log \in Seq(Effect)
    OBVIOUS
  <2>3. ready \in BOOLEAN
    OBVIOUS
  <2> QED
    BY <2>1, <2>2, <2>3 DEF TypeOK, Steps
<1>2. RowInv /\ ScanInv /\ TaskInv
  BY DEF RowInv, ScanInv, TaskInv, AtRow, Draining
<1>3. DeliveryInv /\ LogInv /\ InOrder
  BY DEF DeliveryInv, LogInv, LogOK, InOrder
<1>4. MailInv /\ AnsweredIsDelivered /\ OneAuthorityPerThread /\ OneThreadPerOperation
  BY DEF MailInv, AnsweredIsDelivered, OneAuthorityPerThread, OneThreadPerOperation
<1> QED
  BY <1>1, <1>2, <1>3, <1>4 DEF IInv

LEMMA StepIInv ==
  IInv /\ [Next]_vars => IInv'
  BY TypeStep, RowStep, DeliveryStep, LogStep, MailStep, TaskStep, ScanStep, InOrderStep,
     AnsweredStep DEF IInv

\* The inductive invariant holds of every reachable state.
THEOREM Inductive == Spec => []IInv
  BY InitIInv, StepIInv, PTL DEF Spec

\* The tables, the markers and the task have their types (all of EmailIntake).
THEOREM TypeCorrect == Spec => []TypeOK
<1>1. IInv => TypeOK
  BY DEF IInv
<1> QED
  BY <1>1, Inductive, PTL

\* No crash, redelivery or lost response makes the dispatcher call twice.
THEOREM NeverTwice == Spec => []AtMostOnce
<1>1. IInv => AtMostOnce
  BY DEF IInv, DeliveryInv, AtMostOnce
<1> QED
  BY <1>1, Inductive, PTL

\* Effects of a conversation are attempted in the order of the table.
THEOREM Ordered == Spec => []InOrder
<1>1. IInv => InOrder
  BY DEF IInv
<1> QED
  BY <1>1, Inductive, PTL

\* A recorded result is the result of a call that Slack or the gateway took.
THEOREM Honest == Spec => []ConfirmedWasPublished
<1>1. IInv => ConfirmedWasPublished
  <2> SUFFICES ASSUME TypeOK, DeliveryInv PROVE ConfirmedWasPublished
    BY DEF IInv
  <2>1. \A c \in linked : RootOf(c) \in Effect
    BY EffectsOfMail DEF TypeOK
  <2> QED
    BY <2>1 DEF DeliveryInv, ConfirmedWasPublished, RootOf
<1> QED
  BY <1>1, Inductive, PTL

\* receive() answers ok only for mail whose effects were delivered.
THEOREM AnswersVouch == Spec => []AnsweredIsDelivered
<1>1. IInv => AnsweredIsDelivered
  BY DEF IInv
<1> QED
  BY <1>1, Inductive, PTL

\* A receipt that ends leaves no undelivered conversation without a fault.
THEOREM Visible == Spec => []StuckIsVisible
<1>1. IInv => StuckIsVisible
  BY DEF IInv, ScanInv, StuckIsVisible
<1> QED
  BY <1>1, Inductive, PTL

\* Owner mail and other mail never share a conversation.
THEOREM Separated == Spec => []OneAuthorityPerThread
<1>1. IInv => OneAuthorityPerThread
  BY DEF IInv
<1> QED
  BY <1>1, Inductive, PTL

\* Mails about one calendar operation share a conversation.
THEOREM Gathered == Spec => []OneThreadPerOperation
<1>1. IInv => OneThreadPerOperation
  BY DEF IInv
<1> QED
  BY <1>1, Inductive, PTL

-----------------------------------------------------------------------------
(***************************************************************************)
(* The intake implements an outbox whose lanes are the conversations.      *)
(***************************************************************************)

LanesOf(cv) == [e \in Effect |-> cv[e.mail]]
TakenIn(w) == {e \in Effect : w[e] \in {"posted", "running", "ok", "error"}}

\* The abstract state, spelled out.
LEMMA PromiseStep ==
  ASSUME UNCHANGED <<log, convOf, calls, world, acked>>
  PROVE  UNCHANGED Promise!vars
<1>1. LanesOf(convOf)' = LanesOf(convOf) /\ TakenIn(world)' = TakenIn(world)
  BY DEF LanesOf, TakenIn
<1> QED
  BY <1>1 DEF Promise!vars, LanesOf, TakenIn, Conv, Published

\* A transaction appends at most two rows, none of them known, and fixes their lanes.
LEMMA EnqueueStep ==
  ASSUME IInv, [Next]_vars, NEW s \in Promise!Batches,
         log' = log \o s, UNCHANGED <<calls, world, acked>>
  PROVE  Promise!Enqueue
<1>0. TypeOK /\ LogInv /\ MailInv /\ TaskInv /\ TypeOK' /\ LogInv'
  BY TypeStep, LogStep DEF IInv
<1>1. s \in Seq(Effect) /\ log \in Seq(Effect) /\ log' \in Seq(Effect)
  BY <1>0 DEF Promise!Batches, TypeOK
<1>2. ASSUME NEW k \in 1..Len(s), Promise!Queued(s[k]) PROVE FALSE
  <2>1. PICK i \in 1..Len(log) : log[i] = s[k]
    BY <1>2 DEF Promise!Queued
  <2>2. /\ i \in 1..Len(log') /\ Len(log) + k \in 1..Len(log')
        /\ log'[i] = s[k] /\ log'[Len(log) + k] = s[k]
    BY <1>1, <2>1
  <2> QED
    BY <1>0, <1>1, <2>2 DEF LogInv, LogOK
<1>3. [e \in Effect |-> Conv(e)]' \in [Effect -> Mail \cup {None}]
  BY <1>0, EffectFields DEF TypeOK, Conv
<1>4. ASSUME NEW e \in Effect, Promise!Queued(e) PROVE Conv(e)' = Conv(e)
  BY <1>0, <1>4, LogGrows DEF Promise!Queued, Conv
<1>5. \A e \in Effect : Promise!Queued(e) =>
        [f \in Effect |-> Conv(f)]'[e] = [f \in Effect |-> Conv(f)][e]
  BY <1>4
<1>6. {e \in Effect : Published(e)}' = {e \in Effect : Published(e)}
  BY DEF Published
<1> QED
  BY <1>2, <1>3, <1>5, <1>6 DEF Promise!Enqueue

LEMMA Refines ==
  IInv /\ [Next]_vars => [Promise!Next]_(Promise!vars)
<1> SUFFICES ASSUME IInv, [Next]_vars PROVE [Promise!Next]_(Promise!vars)
  OBVIOUS
<1>0. TypeOK /\ RowInv /\ DeliveryInv /\ LogInv /\ MailInv /\ TaskInv /\ ScanInv
  BY DEF IInv
<1> USE DEF tables, delivered, outside
<1>1. CASE CommitReceive /\ convOf[task] = None
  <2> DEFINE c == Target(task)
             first == IF c = task THEN RootOf(task) ELSE [key |-> "mail", mail |-> task]
  <2>1. task \in Mail /\ log' = Enqueued(task, c) /\ UNCHANGED <<calls, world, acked>>
    BY <1>0, <1>1 DEF CommitReceive, TaskInv
  <2>2. first \in Effect /\ OwnerOf(task) \in Effect /\ log \in Seq(Effect)
    BY <1>0, <2>1, EffectsOfMail DEF TypeOK
  <2>3. log' \in {log, Append(log, first), Append(Append(log, first), OwnerOf(task))}
    BY <1>0, <2>1, EnqueuedShape
  <2> HIDE DEF c, first
  <2>4. \E s \in {<<>>, <<first>>, <<first, OwnerOf(task)>>} : log' = log \o s
    <3>1. log = log \o <<>> /\ Append(log, first) = log \o <<first>>
      BY <2>2
    <3>2. Append(Append(log, first), OwnerOf(task)) = log \o <<first, OwnerOf(task)>>
      BY <2>2
    <3> QED
      BY <2>3, <3>1, <3>2
  <2>5. {<<>>, <<first>>, <<first, OwnerOf(task)>>} \subseteq Promise!Batches
    BY <2>2 DEF Promise!Batches
  <2> QED
    BY <2>1, <2>4, <2>5, EnqueueStep DEF Promise!Next
<1>2. CASE CalendarFailure
  <2> DEFINE f == CalendarFailureOf(task)
  <2>1. f \in Effect /\ log \in Seq(Effect) /\ UNCHANGED <<calls, world, acked>>
    BY <1>0, <1>2, EffectsOfMail DEF CalendarFailure, TaskInv, TypeOK
  <2>2. log' = log \/ log' = Append(log, f)
    BY <1>2 DEF CalendarFailure, AppendIf
  <2> HIDE DEF f
  <2>3. \E s \in {<<>>, <<f>>} : log' = log \o s
    BY <2>1, <2>2
  <2>4. {<<>>, <<f>>} \subseteq Promise!Batches
    BY <2>1 DEF Promise!Batches
  <2> QED
    BY <2>1, <2>3, <2>4, EnqueueStep DEF Promise!Next
<1>3. CASE Send
  <2>1. pos \in 1..Len(log) /\ Cur \in Effect /\ Conv(Cur) \notin blocked /\ calls[Cur] = 0
    BY <1>0, <1>3, CurIsEffect DEF Send, RowInv, AtRow, Draining, TypeOK
  <2>2. \A i \in 1..(pos - 1) : Conv(log[i]) = Conv(log[pos]) => log[i] \in acked
    <3>1. pc \in Draining /\ Cur = log[pos] /\ Len(log) \in Nat
      BY <1>0, <1>3 DEF Send, Draining, AtRow, Cur, TypeOK
    <3> QED
      BY <1>0, <2>1, <3>1 DEF ScanInv
  <2>3. calls' = [calls EXCEPT ![log[pos]] = 1] /\ UNCHANGED <<log, convOf, acked>>
    BY <1>0, <1>3, <2>1 DEF Send, Cur, TypeOK
  <2>4. \A e \in Effect : Published(e)' <=> Published(e)
    BY <1>0, <1>3, <2>1 DEF Send, Published, TypeOK
  <2>5. /\ {e \in Effect : Published(e)}' = {e \in Effect : Published(e)}
        /\ [e \in Effect |-> Conv(e)]' = [e \in Effect |-> Conv(e)]
    BY <2>3, <2>4 DEF Conv
  <2>6. \A i \in 1..(pos - 1) : log[i] \in Effect /\ log[pos] \in Effect
    BY <1>0, <2>1 DEF TypeOK, Cur
  <2>7. Promise!Try(pos)
    BY <2>1, <2>2, <2>3, <2>5, <2>6 DEF Promise!Try, Cur
  <2> QED
    BY <2>1, <2>7 DEF Promise!Next
<1>4. CASE AcknowledgeEffect
  <2>1. Cur \in Effect /\ Published(Cur) /\ Cur \notin acked
    BY <1>0, <1>4, CurIsEffect DEF AcknowledgeEffect, RowInv, AtRow, DeliveryInv
  <2>2. /\ acked' = acked \cup {Cur}
        /\ UNCHANGED <<log, convOf, calls, world>>
    BY <1>4 DEF AcknowledgeEffect
  <2>3. /\ {e \in Effect : Published(e)}' = {e \in Effect : Published(e)}
        /\ [e \in Effect |-> Conv(e)]' = [e \in Effect |-> Conv(e)]
    BY <2>2 DEF Conv, Published
  <2>4. Promise!Settle(Cur)
    BY <2>1, <2>2, <2>3 DEF Promise!Settle
  <2> QED
    BY <2>1, <2>4 DEF Promise!Next
<1>5. ASSUME NEW e \in Effect, Land(e) PROVE Promise!Next
  <2>1. calls[e] = 1 /\ ~Published(e)
    BY <1>0, <1>5 DEF DeliveryInv, Land, Published, TypeOK
  <2>2. {f \in Effect : Published(f)}' = {f \in Effect : Published(f)} \cup {e}
    BY <1>0, <1>5 DEF Land, Published, TypeOK
  <2>3. UNCHANGED <<log, calls, acked>> /\ [f \in Effect |-> Conv(f)]' = [f \in Effect |-> Conv(f)]
    BY <1>5 DEF Land, Conv
  <2>4. Promise!Take(e)
    BY <2>1, <2>2, <2>3 DEF Promise!Take
  <2> QED
    BY <2>4 DEF Promise!Next
<1>6. ASSUME NEW e \in Effect, Lose(e) \/ RunEnds(e) PROVE UNCHANGED Promise!vars
  <2>1. \A f \in Effect : Published(f)' <=> Published(f)
    BY <1>0, <1>6 DEF Lose, RunEnds, Published, TypeOK
  <2>2. UNCHANGED <<log, calls, acked>> /\ [f \in Effect |-> Conv(f)]' = [f \in Effect |-> Conv(f)]
    BY <1>6 DEF Lose, RunEnds, Conv
  <2>3. {f \in Effect : Published(f)}' = {f \in Effect : Published(f)}
    BY <2>1
  <2> QED
    BY <2>2, <2>3 DEF Promise!vars
<1>7. CASE /\ ~(CommitReceive /\ convOf[task] = None) /\ ~CalendarFailure /\ ~Send
           /\ ~AcknowledgeEffect /\ ~Outside
  <2>1. UNCHANGED <<log, convOf>>
    BY <1>7, TablesFrame DEF Authenticate, AskCalendar, CommitReceive
  <2>2. UNCHANGED <<calls, world, acked>>
    BY <1>7, DeliveryFrame DEF StartDelivery, ConfirmDelivery, LinkIntakeThread
  <2> QED
    BY <2>1, <2>2, PromiseStep
<1> QED
  BY <1>1, <1>2, <1>3, <1>4, <1>5, <1>6, <1>7 DEF Outside

\* Every behaviour of the intake is a behaviour of the abstract outbox.
THEOREM Implements == Spec => KeepsPromise
<1>1. Init => Promise!Init
  <2> SUFFICES ASSUME Init PROVE Promise!Init
    OBVIOUS
  <2>1. [e \in Effect |-> Conv(e)] \in [Effect -> Mail \cup {None}]
    BY EffectFields DEF Init, Conv
  <2>2. {e \in Effect : Published(e)} = {}
    BY DEF Init, Published
  <2> QED
    BY <2>1, <2>2 DEF Init, Promise!Init
<1> QED
  BY <1>1, Refines, Inductive, PTL DEF Spec, KeepsPromise, Promise!Spec

-----------------------------------------------------------------------------
(* The composed service: its steps are steps of the intake, and what its queue loses was accepted *)

Wheres == {"new", "ingress", "dead", "accepted", "retained", "dropped"}
Polls == {"ingress", "dead"}
PollSteps == {"off", "pull", "handle", "receiving", "write", "link", "sync", "fault", "settle", "done", "failed"}

\* A mail leaves the ingress queue for good only once the intake answered ok for it; the poll of that queue
\* confirms nothing else.
PollInv ==
  /\ where \in [Mail -> Wheres]
  /\ step \in [Polls -> PollSteps] /\ confirmed \in [Polls -> BOOLEAN]
  /\ got \in [Polls -> Mail \cup {None}]
  /\ \A q \in Polls : step[q] \notin {"off", "pull", "done", "failed"} => got[q] \in Mail
  /\ step["ingress"] = "settle" /\ confirmed["ingress"] => got["ingress"] \in answered
  /\ \A m \in Mail : where[m] = "accepted" => m \in answered

\* Every step of the service is a step of the intake, or none of it.
LEMMA IntakeTakesIt ==
  ASSUME PollInv, ready \in BOOLEAN, [PipelineNext]_all
  PROVE  [Next]_vars
<1>1. CASE UNCHANGED all
  BY <1>1 DEF all
<1>2. ASSUME NEW m \in Mail, ByHttp(m) PROVE [Next]_vars
  BY <1>2 DEF ByHttp, Next
<1>3. CASE ByQueue
  BY <1>3 DEF ByQueue, Next, PollInv, Polls, PollSteps
<1>4. ASSUME NEW ok \in BOOLEAN, ReceiptEnds(ok) PROVE [Next]_vars
  BY <1>4 DEF ReceiptEnds, Next, Receive
<1>5. CASE TickBegins \/ DrainEnds
  BY <1>5 DEF TickBegins, DrainEnds, Next, Drain
<1>6. CASE PollsEnd
  <2>1. CASE UNCHANGED vars
    BY <2>1
  <2>2. CASE ready' = FALSE /\ UNCHANGED <<tables, delivered, outside, answered, task, pc, pos, blocked>>
    <3>1. CASE ready
      BY <2>2, <3>1 DEF TickFails, Next
    <3>2. CASE ~ready
      <4>1. UNCHANGED process
        BY <2>2, <3>2 DEF process
      <4> QED BY <2>2, <4>1 DEF vars
    <3> QED BY <3>1, <3>2
  <2> QED BY <1>6, <2>1, <2>2 DEF PollsEnd
<1>7. CASE IntakeStep
  BY <1>7 DEF IntakeStep, Next, Receive
<1>8. CASE QueueStep
  BY <1>8 DEF QueueStep
<1>9. CASE ServiceDies
  BY <1>9 DEF ServiceDies, Next
<1> QED BY <1>1, <1>2, <1>3, <1>4, <1>5, <1>6, <1>7, <1>8, <1>9 DEF PipelineNext

\* What the intake answered stays answered.
LEMMA AnswersStay ==
  ASSUME [Next]_vars
  PROVE  answered \subseteq answered'
<1>1. CASE ReceiveOk
  BY <1>1 DEF ReceiveOk
<1>2. CASE ~ReceiveOk
  BY <1>2 DEF Next, Receive, Drain, Outside, vars, BeginReceive, Authenticate, AskCalendar,
     CommitReceive, CalendarFailure, Verdict, ReceiveFailed, BeginTick, TickFails, BeginDrain,
     Verify, EndDrain, SkipEffect, TakeEffect, OpenRequest, WriteRequest, StartDelivery, Send,
     Reply, NoReply, FindDelivery, ConfirmDelivery, LinkIntakeThread, AcknowledgeEffect,
     ClearFault, RecordFault, Land, Lose, RunEnds, Crash
<1> QED BY <1>1, <1>2

LEMMA PollBegins == PipelineInit => PollInv
  BY DEF PipelineInit, PollInv, Q!Init, Q!Queue, Polls, PollSteps, Wheres

\* A message that becomes visible again is in one of the queues or dropped.
LEMMA ReturnKeeps ==
  ASSUME PollInv, NEW m \in Mail, Q!Return(m), where[m] \in Polls
  PROVE  where' \in [Mail -> Wheres] /\ \A n \in Mail : where'[n] = "accepted" => where[n] = "accepted"
<1>1. CASE UNCHANGED where
  BY <1>1 DEF PollInv
<1>2. CASE where' = [where EXCEPT ![m] = IF @ = "ingress" THEN "dead" ELSE "dropped"]
  BY <1>2 DEF PollInv, Wheres, Polls
<1> QED BY <1>1, <1>2 DEF Q!Return

\* The end of a poll accepts only what was confirmed.
LEMMA SettleKeeps ==
  ASSUME PollInv, NEW q \in Polls, Q!Settle(q), got[q] \in Mail, UNCHANGED answered
  PROVE  PollInv'
<1>1. where' \in [Mail -> Wheres] /\ \A n \in Mail : where'[n] = "accepted" => n \in answered
  <2>1. CASE UNCHANGED where
    BY <2>1 DEF PollInv
  <2>2. CASE Q!Return(got[q]) /\ where[got[q]] = q
    BY <2>2, ReturnKeeps DEF PollInv
  <2>3. CASE confirmed[q] /\ where' = [where EXCEPT ![got[q]] = IF q = "ingress" THEN "accepted" ELSE "retained"]
    BY <2>3 DEF PollInv, Polls, PollSteps, Wheres, Q!Settle
  <2> QED BY <2>1, <2>2, <2>3 DEF Q!Settle, Q!Acknowledge, Q!cloud
<1>2. /\ step' = [step EXCEPT ![q] = "done"] \/ step' = [step EXCEPT ![q] = "failed"]
      /\ got' = [got EXCEPT ![q] = None] /\ UNCHANGED confirmed
  BY DEF Q!Settle, Q!Goto
<1> QED BY <1>1, <1>2 DEF PollInv, Polls, PollSteps

\* Every step of the queues, and of the service around them, keeps the link.
LEMMA PollSteady ==
  ASSUME PollInv, ready \in BOOLEAN, [PipelineNext]_all
  PROVE  PollInv'
<1>1. answered \subseteq answered'
  BY IntakeTakesIt, AnswersStay
<1>2. CASE UNCHANGED <<where, step, confirmed, got>>
  BY <1>1, <1>2 DEF PollInv
<1>3. CASE UNCHANGED queue
  BY <1>2, <1>3 DEF queue
<1>4. ASSUME NEW ok \in BOOLEAN, ReceiptEnds(ok), Q!ReceiveReturns(ok) PROVE PollInv'
  <2>1. /\ step["ingress"] = "receiving" /\ UNCHANGED <<where, got>>
        /\ step' = [step EXCEPT !["ingress"] = "settle"] /\ confirmed' = [confirmed EXCEPT !["ingress"] = ok]
        /\ ok => got["ingress"] \in answered'
    BY <1>4 DEF Q!ReceiveReturns, Q!Goto, Q!cloud
  <2> QED BY <1>1, <2>1 DEF PollInv, Polls, PollSteps
<1>5. CASE Q!BeginTick
  BY <1>1, <1>5 DEF Q!BeginTick, PollInv, Polls, PollSteps, Q!Queue, Q!cloud
<1>6. CASE Q!EndTick
  BY <1>1, <1>6 DEF Q!EndTick, PollInv, Polls, PollSteps, Q!Queue, Q!cloud
<1>7. CASE QueueStep
  <2>1. UNCHANGED answered
    BY <1>7 DEF QueueStep, vars
  <2>2. ASSUME NEW m \in Mail, Q!Produce(m) PROVE PollInv'
    BY <2>1, <2>2 DEF Q!Produce, PollInv, Wheres, Q!polls
  <2>3. ASSUME NEW m \in Mail, Q!Lapse(m) PROVE PollInv'
    BY <2>1, <2>3, ReturnKeeps DEF Q!Lapse, PollInv, Polls, PollSteps, Q!Queue, Q!polls
  <2>4. ASSUME NEW q \in Polls, Q!Poll(q) PROVE PollInv'
    <3>1. ASSUME NEW m \in Mail, Q!Pull(q, m) PROVE PollInv'
      BY <2>1, <3>1 DEF Q!Pull, Q!Deliver, Q!Goto, PollInv, Polls, PollSteps
    <3>2. CASE Q!PullEmpty(q) \/ Q!PullFails(q)
      BY <2>1, <3>2 DEF Q!PullEmpty, Q!PullFails, Q!Deliver, Q!Goto, Q!cloud, PollInv, Polls, PollSteps
    <3>3. CASE Q!Settle(q)
      BY <2>1, <3>3, SettleKeeps DEF Q!Settle, PollInv
    <3> QED BY <2>4, <3>1, <3>2, <3>3 DEF Q!Poll
  <2>5. CASE Q!Handle
    BY <2>1, <2>5 DEF Q!Handle, Q!Goto, Q!cloud, PollInv, Polls, PollSteps
  <2>6. CASE Q!Retain
    BY <2>1, <2>6 DEF Q!Retain, Q!WriteRecord, Q!FlushRecord, Q!LinkRecord, Q!SyncDirectory, Q!RecordFault, Q!KeepingFails,
       Q!Goto, Q!cloud, PollInv, Polls, PollSteps
  <2> QED BY <1>7, <2>2, <2>3, <2>4, <2>5, <2>6 DEF QueueStep, Q!Queue, Polls
<1>8. CASE ServiceDies
  BY <1>1, <1>8 DEF ServiceDies, Q!Crash, Q!PowerFails, Q!Stop, Q!cloud, Q!Queue, PollInv, Polls, PollSteps
<1> QED BY <1>2, <1>3, <1>4, <1>5, <1>6, <1>7, <1>8
     DEF PipelineNext, ByHttp, ByQueue, ReceiptEnds, TickBegins, DrainEnds, PollsEnd, IntakeStep, all, queue

PipelineInv == IInv /\ PollInv

LEMMA PipelineSteady ==
  ASSUME PipelineInv, [PipelineNext]_all
  PROVE  PipelineInv'
<1>1. ready \in BOOLEAN
  BY DEF PipelineInv, IInv, TypeOK
<1>2. [Next]_vars
  BY <1>1, IntakeTakesIt DEF PipelineInv
<1> QED BY <1>1, <1>2, StepIInv, PollSteady DEF PipelineInv

\* The invariant of the intake holds in the composed service, along with the link to its queues.
THEOREM PipelineInductive == PipelineSpec => []PipelineInv
<1>1. PipelineInit => PipelineInv
  BY InitIInv, PollBegins DEF PipelineInit, PipelineInv
<1> QED BY <1>1, PipelineSteady, PTL DEF PipelineSpec

\* The service that polls its queues is an intake: every behaviour of EmailPipeline is one of EmailIntake,
\* so that all that is proved of the intake holds of the service.
THEOREM PipelineIsIntake == PipelineSpec => Spec
<1>1. PipelineInit => Init
  BY DEF PipelineInit
<1>2. ASSUME PipelineInv, [PipelineNext]_all PROVE [Next]_vars
  BY <1>2, IntakeTakesIt DEF PipelineInv, IInv, TypeOK
<1> QED BY <1>1, <1>2, PipelineInductive, PTL DEF PipelineSpec, Spec

\* Mail that left the ingress queue for good has its thread, its owner turn and its calendar notice delivered,
\* whatever crashed, lapsed or was delivered twice in between.
THEOREM AcceptedArrives == PipelineSpec => []AcceptedIsDelivered
<1>1. PipelineInv => AcceptedIsDelivered
  <2> SUFFICES ASSUME AnsweredIsDelivered, PollInv PROVE AcceptedIsDelivered
    BY DEF PipelineInv, IInv
  <2> QED BY DEF AnsweredIsDelivered, AcceptedIsDelivered, PollInv
<1> QED BY <1>1, PipelineInductive, PTL

=============================================================================
