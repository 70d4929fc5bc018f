------------------------ MODULE SlackNotionSyncProofs ------------------------
(***************************************************************************)
(* What SlackNotionSync keeps true, for any threads, statuses and bounds.  *)
(***************************************************************************)
EXTENDS SlackNotionSync, TLAPS

Running == pc # "idle"
Busy    == pc \in {"bots", "project"}

\* The owner reacted to t after this run read the journal.
Moved(t) == \E e \in arriving \cup journal : e.at = t /\ e \notin mem.events \cup todo

EventInv ==
  /\ \A e \in arriving \cup journal : e.n <= sent
  /\ disk.events \subseteq journal
  /\ Running => /\ disk.events \subseteq mem.events
                /\ mem.events \subseteq journal
                /\ todo \subseteq journal \ mem.events

CommandInv ==
  /\ orders \subseteq 1..Len(asked)
  /\ ~Running => orders = {}
  /\ Running => disk.commands \subseteq mem.commands /\ orders \cap mem.commands = {}

\* An owner's claim is given up only for a command that the state file does not know.
OwnerInv ==
  Running => \A t \in Thread : disk.owner[t] = "human" /\ mem.owner[t] # "human"
                               => ~Quiet(t, disk)

\* What the run knows of the thread in hand.
JobInv ==
  /\ Busy <=> job # None
  /\ Busy =>
       /\ job.held = Managed(job.at)
       /\ job.human = human[job.at] \/ Moved(job.at)
       /\ job.kind = "command" => /\ Writeback /\ job.human = {}
                                  /\ job.no \in orders /\ asked[job.no].at = job.at
       /\ job.kind = "event" => Events(job.at) # {} /\ job.status = None /\ ~job.edited
       /\ job.edited => /\ job.kind = "root" /\ Writeback /\ job.human = {}
                        /\ mem.owner[job.at] # "human"
       /\ pc = "bots" /\ job.kind = "root" /\ ~job.edited => job.human # {} /\ job.status = None
       /\ pc = "project" /\ (job.kind # "root" \/ job.edited) =>
            job.held = {job.status} \ {None}
       /\ pc = "project" /\ job.kind = "root" /\ ~job.edited =>
            StatusOf(job) = Effective(job.at, job.human, job.held, mem.owner[job.at])
       /\ pc = "project" /\ job.kind = "event" /\ ~Clear(job.human) =>
            <<job.at, job.human>> \in review

\* What the run knows of the threads the reconciliation has yet to handle.
RootInv ==
  /\ roots # {} => pc = "root" \/ (Busy /\ job.kind = "root")
  /\ \A r \in roots :
       /\ r.held = Managed(r.at)
       /\ r.human = human[r.at] \/ Moved(r.at)
       /\ job # None => r.at # job.at
       /\ \A q \in roots : q.at = r.at => q = r

\* A status the state file remembers as doubtful is in the review journal.
DoubtInv ==
  \A t \in Thread : /\ disk.doubts[t] # {} => <<t, disk.doubts[t]>> \in review
                    /\ mem.doubts[t] # {} => <<t, mem.doubts[t]>> \in review

\* The promises hold by the state file, and by the state the run will save.
PromiseInv ==
  /\ PageShowsSlack /\ OwnerOutranksBots /\ DoubtsAreReviewed
  /\ Running => \A t \in Thread :
       /\ ShowsSlack(t, mem)
       /\ (pc = "bots" /\ job.at = t /\ job.kind = "root") \/ BotsGaveWay(t, mem)
       /\ DoubtsReported(t, mem)

IInv ==
  TypeOK /\ EventInv /\ CommandInv /\ OwnerInv /\ JobInv /\ RootInv /\ DoubtInv /\ PromiseInv

\* A status that the run works out is a status or none.
LEMMA OnlyType ==
  ASSUME NEW s \in SUBSET Status
  PROVE  Only(s) \in Shown
BY DEF Only, Shown

LEMMA EffectiveType ==
  ASSUME NEW t \in Thread, NEW h \in SUBSET Status, NEW b \in SUBSET Status, NEW o
  PROVE  Effective(t, h, b, o) \in Shown
<1>1. Only(h) \in Shown /\ Only(b) \in Shown
  BY OnlyType
<1>2. BaselineOf[t] \in Shown /\ None \in Shown
  BY SyncAssumption DEF Shown
<1> QED
  BY <1>1, <1>2 DEF Effective

LEMMA StatusOfType ==
  ASSUME NEW j \in Job
  PROVE  StatusOf(j) \in Shown
<1>1. j.human \in SUBSET Status /\ j.status \in Shown
  BY DEF Job
<1> QED
  BY <1>1, OnlyType DEF StatusOf

\* The fields of a state file, one by one.
LEMMA StateParts ==
  ASSUME NEW s \in State
  PROVE  /\ s.owner \in [Thread -> {"none", "human", "bot", "notion"}]
         /\ s.shown \in [Thread -> Shown \cup {Unseen}]
         /\ s.events \in SUBSET Event
         /\ s.commands \in SUBSET (1..MaxCommands)
         /\ s.doubts \in [Thread -> SUBSET Status]
         /\ s = [owner |-> s.owner, shown |-> s.shown, events |-> s.events,
                 commands |-> s.commands, doubts |-> s.doubts]
BY DEF State

LEMMA NoStateType == NoState \in State
BY DEF NoState, State, Event

LEMMA Claim ==
  ASSUME NEW s \in State, NEW t \in Thread, NEW o \in {"none", "human", "bot", "notion"}
  PROVE  [s EXCEPT !.owner[t] = o] \in State
<1>1. [s.owner EXCEPT ![t] = o] \in [Thread -> {"none", "human", "bot", "notion"}]
  BY StateParts
<1> QED
  BY <1>1 DEF State

LEMMA Doubt ==
  ASSUME NEW s \in State, NEW t \in Thread, NEW h \in SUBSET Status
  PROVE  [s EXCEPT !.doubts[t] = Doubtful(h)] \in State
<1>1. [s.doubts EXCEPT ![t] = Doubtful(h)] \in [Thread -> SUBSET Status]
  BY StateParts DEF Doubtful
<1> QED
  BY <1>1 DEF State

LEMMA JobType ==
  ASSUME TypeOK, Busy, JobInv
  PROVE  job \in Job /\ mem \in State
BY DEF TypeOK, JobInv

LEMMA NotedType ==
  ASSUME TypeOK, JobInv, Busy
  PROVE  Noted \in State /\ Missed \in State
<1>1. job \in Job /\ mem \in State
  BY JobType
<1>2. StatusOf(job) \in Shown /\ job.at \in Thread
  BY <1>1, StatusOfType DEF Job
<1>3. [mem.shown EXCEPT ![job.at] = StatusOf(job)] \in [Thread -> Shown \cup {Unseen}]
  BY <1>1, <1>2, StateParts
<1>4. [mem.shown EXCEPT ![job.at] = Unseen] \in [Thread -> Shown \cup {Unseen}]
  BY <1>1, <1>2, StateParts
<1>5. (IF job.kind = "event" THEN mem.events \cup Events(job.at) ELSE mem.events) \in SUBSET Event
  BY <1>1, StateParts DEF Events, TypeOK
<1>6. (IF job.kind = "command" THEN mem.commands \cup {job.no} ELSE mem.commands)
        \in SUBSET (1..MaxCommands)
  <2>1. job.kind = "command" => job.no \in 1..MaxCommands
    BY DEF JobInv, TypeOK
  <2> QED
    BY <1>1, <2>1, StateParts
<1>7. Noted \in State
  BY <1>1, <1>3, <1>5, <1>6 DEF Noted, State
<1> QED
  BY <1>1, <1>4, <1>7 DEF Missed, State

LEMMA Sends ==
  ASSUME TypeOK, NEW x \in Message, SendEvent(x)
  PROVE  sent' \in 0..MaxEvents /\ arriving' \subseteq Event
<1>1. sent + 1 \in 0..MaxEvents /\ sent + 1 \in 1..MaxEvents
  BY SyncAssumption DEF TypeOK, SendEvent
<1> QED
  BY <1>1 DEF TypeOK, SendEvent, Event

\* Queued commands and the roots that were read have their types.
LEMMA FirstType ==
  ASSUME TypeOK, CommandInv, NEW k \in orders
  PROVE  asked[k] \in Command /\ k \in 0..MaxCommands
<1>1. asked[k] \in Command
  <2>1. asked \in Seq(Command) /\ k \in 1..Len(asked)
    BY DEF CommandInv, TypeOK
  <2> QED
    BY <2>1
<1>2. k \in 0..MaxCommands
  BY SyncAssumption DEF TypeOK
<1> QED
  BY <1>1, <1>2

LEMMA RootParts ==
  ASSUME TypeOK, NEW q \in roots
  PROVE  /\ q.at \in Thread /\ q.human \in SUBSET Status /\ q.held \in SUBSET Status
         /\ Shows(q) \in Shown /\ RowStatus(q.at) \in Shown
<1>1. q.at \in Thread /\ q.human \in SUBSET Status /\ q.held \in SUBSET Status
  BY DEF TypeOK
<1>2. Shows(q) \in Shown
  BY <1>1, EffectiveType DEF Shows
<1>3. RowStatus(q.at) \in Shown
  BY <1>1, SyncAssumption DEF RowStatus, TypeOK, Shown
<1> QED
  BY <1>1, <1>2, <1>3

\* Every step keeps the types.
LEMMA TypeStep ==
  IInv /\ [Next]_vars => TypeOK'
<1> SUFFICES ASSUME TypeOK, JobInv, CommandInv, [Next]_vars PROVE TypeOK'
  BY DEF IInv
<1> USE DEF TypeOK, Goto, slack, notes, notion, run
<1>1. ASSUME NEW t \in Thread, NEW s \in Status, React(t, s) PROVE TypeOK'
  <2>1. human' \in [Thread -> SUBSET Status]
    BY <1>1 DEF React
  <2>2. sent' \in 0..MaxEvents /\ arriving' \subseteq Event
    BY <1>1, Sends DEF React, Message
  <2> QED
    BY <1>1, <2>1, <2>2 DEF React
<1>2. ASSUME NEW x \in Other, ReactElsewhere(x) PROVE TypeOK'
  <2>1. sent' \in 0..MaxEvents /\ arriving' \subseteq Event
    BY <1>2, Sends DEF ReactElsewhere, Message
  <2> QED
    BY <1>2, <2>1 DEF ReactElsewhere
<1>3. ASSUME NEW e \in arriving, Record(e) PROVE TypeOK'
  BY <1>3 DEF Record, Event
<1>4. ASSUME NEW x \in fresh, Ages(x) PROVE TypeOK'
  BY <1>4 DEF Ages
<1>5. ASSUME NEW c \in Requests, Ask(c) PROVE TypeOK'
  <2>1. c \in Command
    BY SyncAssumption DEF Command, Message, Shown
  <2> QED
    BY <1>5, <2>1, SyncAssumption DEF Ask
<1>6. ASSUME NEW t \in Thread, NEW s \in Shown, Edit(t, s) PROVE TypeOK'
  BY <1>6 DEF Edit, Page
<1>7. CASE Begin
  BY <1>7 DEF Begin
<1>8. CASE ReadCommands
  <2>1. Len(asked) \in Nat
    OBVIOUS
  <2> QED
    BY <1>8, <2>1, SyncAssumption DEF ReadCommands
<1>9. ASSUME NEW k \in orders, RefuseCommand(k) PROVE TypeOK'
  BY <1>9 DEF RefuseCommand, State
<1>10. ASSUME NEW k \in orders, FetchForCommand(k) PROVE TypeOK'
  <2>1. asked[k] \in Command /\ k \in 0..MaxCommands
    BY FirstType
  <2>2. asked[k].at \in Thread
    BY <1>10 DEF FetchForCommand, Refused
  <2>3. job' \in Job
    BY <1>10, <2>1, <2>2 DEF FetchForCommand, Doing, Job, Command
  <2> QED
    BY <1>10, <2>3 DEF FetchForCommand
<1>11. ASSUME NEW k \in orders, FetchForCommandFails(k) PROVE TypeOK'
  BY <1>11 DEF FetchForCommandFails
<1>12. CASE CommandsDone
  BY <1>12 DEF CommandsDone
<1>13. ASSUME NEW t \in Thread, FetchForEvent(t) PROVE TypeOK'
  <2>1. mem' \in State
    BY <1>13, Claim DEF FetchForEvent
  <2>2. job' \in Job
    BY <1>13, SyncAssumption DEF FetchForEvent, Doing, Job, Managed, Shown
  <2> QED
    BY <1>13, <2>1, <2>2 DEF FetchForEvent
<1>14. ASSUME NEW x \in Message, FetchForEventFails(x) PROVE TypeOK'
  BY <1>14 DEF FetchForEventFails
<1>15. CASE EventsDone \/ RootsDone
  BY <1>15 DEF EventsDone, RootsDone
<1>16. CASE ReadRows
  BY <1>16 DEF ReadRows, Page
<1>17. CASE ReadRoots
  BY <1>17 DEF ReadRoots, Managed
<1>18. ASSUME NEW q \in roots, ClaimRoot(q) \/ CommandRoot(q) \/ SkipRoot(q) \/ ProjectRoot(q)
       PROVE  TypeOK'
  <2>1. /\ q.at \in Thread /\ q.human \in SUBSET Status /\ q.held \in SUBSET Status
        /\ mem \in State /\ 0 \in 0..MaxCommands /\ None \in Shown
    BY SyncAssumption DEF Shown
  <2>2. Shows(q) \in Shown /\ RowStatus(q.at) \in Shown \cup {Unseen}
    BY <2>1, EffectiveType DEF Shows, RowStatus
  <2>3. RowStatus(q.at) \in Shown
    BY <2>1, <2>2 DEF RowStatus
  <2>4. mem' \in State
    <3>1. [mem EXCEPT !.owner[q.at] = "human"] \in State
      BY <2>1, Claim
    <3>2. mem' \in {mem, [mem EXCEPT !.owner[q.at] = "human"]}
      BY <1>18 DEF ClaimRoot, CommandRoot, SkipRoot, ProjectRoot, Take
    <3> QED
      BY <2>1, <3>1, <3>2
  <2>5. job' \in Job \cup {None}
    <3>1. ASSUME NEW st \in Shown, NEW ed \in BOOLEAN
          PROVE  Doing("root", q.at, 0, q.human, q.held, st, ed) \in Job
      BY <2>1, <3>1 DEF Doing, Job
    <3> QED
      BY <1>18, <2>1, <2>2, <2>3, <3>1 DEF ClaimRoot, CommandRoot, SkipRoot, ProjectRoot, Take
  <2> QED
    BY <1>18, <2>4, <2>5 DEF ClaimRoot, CommandRoot, SkipRoot, ProjectRoot, Take
<1>19. CASE RemoveReaction \/ AddReaction
  <2>1. job \in Job
    BY <1>19, JobType DEF RemoveReaction, AddReaction, Busy
  <2>2. job.status \in Shown /\ job.at \in Thread /\ job.held \in SUBSET Status
    BY <2>1 DEF Job
  <2>3. held' \in [Thread -> SUBSET Status]
    BY <1>19, <2>2 DEF RemoveReaction, AddReaction, Shown
  <2>4. job' \in Job
    <3>1. \A b \in SUBSET Status : [job EXCEPT !.held = b] \in Job
      BY <2>1 DEF Job
    <3>2. \E b \in SUBSET Status : job' = [job EXCEPT !.held = b]
      BY <1>19, <2>2 DEF RemoveReaction, AddReaction, Shown
    <3> QED
      BY <3>1, <3>2
  <2> QED
    BY <1>19, <2>3, <2>4 DEF RemoveReaction, AddReaction
<1>20. CASE ReactionFails \/ SkipClaimed
  <2>1. job \in Job
    BY <1>20, JobType DEF ReactionFails, SkipClaimed, Reacted, Busy
  <2>2. job.kind \in {"command", "event", "root"}
    BY <2>1 DEF Job
  <2> QED
    BY <1>20, <2>2 DEF ReactionFails, SkipClaimed, Finish
<1>21. CASE ReactionsDone
  <2>1. job \in Job /\ mem \in State
    BY <1>21, JobType DEF ReactionsDone, Reacted, Busy
  <2>2. job.at \in Thread /\ job.human \in SUBSET Status
    BY <2>1 DEF Job
  <2>3. mem' \in State
    <3> DEFINE claimed == [mem EXCEPT !.owner[job.at] = ClaimAfter(job)]
    <3>1. ClaimAfter(job) \in {"none", "human", "bot", "notion"}
      BY <2>1, <2>2, StateParts DEF ClaimAfter
    <3>2. claimed \in State
      BY <2>1, <2>2, <3>1, Claim
    <3>3. [claimed EXCEPT !.doubts[job.at] = Doubtful(job.human)] \in State
      BY <2>2, <3>2, Doubt
    <3>4. mem' \in {claimed, [claimed EXCEPT !.doubts[job.at] = Doubtful(job.human)]}
      BY <1>21 DEF ReactionsDone
    <3> QED
      BY <3>2, <3>3, <3>4
  <2>4. review' \subseteq Thread \X SUBSET Status
    BY <1>21, <2>2 DEF ReactionsDone, Reviewed
  <2> QED
    BY <1>21, <2>3, <2>4 DEF ReactionsDone
<1>22. CASE Project \/ ProjectFails
  <2>1. job \in Job /\ Noted \in State /\ Missed \in State
    BY <1>22, JobType, NotedType DEF Project, ProjectFails, Busy
  <2>2. /\ job.at \in Thread /\ job.human \in SUBSET Status /\ StatusOf(job) \in Shown
        /\ job.kind \in {"command", "event", "root"}
    BY <2>1, StatusOfType DEF Job
  <2>3. /\ [page EXCEPT ![job.at] = [status |-> StatusOf(job), by |-> "sync"]] \in [Thread -> Page]
        /\ twice \cup {job.at} \subseteq Thread
    BY <2>2 DEF Page
  <2>4. page' \in [Thread -> Page] /\ twice' \subseteq Thread
    BY <1>22, <2>3 DEF Project, ProjectFails, Upsert
  <2>5. mem' \in State /\ review' \subseteq Thread \X SUBSET Status
    <3>1. /\ [Noted EXCEPT !.doubts[job.at] = Doubtful(job.human)] \in State
          /\ [Missed EXCEPT !.doubts[job.at] = Doubtful(job.human)] \in State
      BY <2>1, <2>2, Doubt
    <3>2. mem' \in {Noted, [Noted EXCEPT !.doubts[job.at] = Doubtful(job.human)],
                   Missed, [Missed EXCEPT !.doubts[job.at] = Doubtful(job.human)]}
      BY <1>22 DEF Project, ProjectFails, EndProject
    <3>3. review' \subseteq Thread \X SUBSET Status
      BY <1>22, <2>2 DEF Project, ProjectFails, EndProject, Reviewed
    <3> QED
      BY <2>1, <3>1, <3>2, <3>3
  <2> QED
    BY <1>22, <2>2, <2>4, <2>5 DEF Project, ProjectFails, EndProject, Finish
<1>23. CASE Save \/ Dies
  BY <1>23, NoStateType, SyncAssumption DEF Save, Dies, Idle, NoRows
<1>24. CASE UNCHANGED vars
  BY <1>24 DEF vars
<1> QED
  BY <1>1, <1>2, <1>3, <1>4, <1>5, <1>6, <1>7, <1>8, <1>9, <1>10, <1>11, <1>12, <1>13, <1>14,
     <1>15, <1>16, <1>17, <1>18, <1>19, <1>20, <1>21, <1>22, <1>23, <1>24
     DEF Next, Run, Failure, World, Message

\* A step of a run that is neither its first nor its last.
Working ==
  \/ ReadCommands \/ CommandsDone \/ EventsDone \/ ReadRows \/ ReadRoots \/ RootsDone
  \/ RemoveReaction \/ AddReaction \/ ReactionFails \/ ReactionsDone \/ SkipClaimed
  \/ Project \/ ProjectFails
  \/ \E k \in orders : RefuseCommand(k) \/ FetchForCommand(k) \/ FetchForCommandFails(k)
  \/ \E t \in Thread : FetchForEvent(t)
  \/ \E x \in Message : FetchForEventFails(x)
  \/ \E r \in roots : ClaimRoot(r) \/ CommandRoot(r) \/ SkipRoot(r) \/ ProjectRoot(r)

LEMMA WorkingRuns ==
  ASSUME TypeOK, JobInv, Working
  PROVE  Running /\ Running'
<1>1. ASSUME Busy PROVE job.kind # "idle"
  BY <1>1, JobType DEF Job
<1>2. CASE ReactionFails \/ SkipClaimed \/ Project \/ ProjectFails
  BY <1>1, <1>2 DEF Running, ReactionFails, SkipClaimed, Reacted, Project, ProjectFails, EndProject,
     Finish, Goto, Busy
<1> QED
  BY <1>2 DEF Working, Running, Goto, ReadCommands, RefuseCommand, FetchForCommand, CommandsDone,
     FetchForEvent, FetchForEventFails, EventsDone, ReadRows, ReadRoots, ClaimRoot, CommandRoot,
     SkipRoot, ProjectRoot, Take, RootsDone, RemoveReaction, AddReaction, ReactionsDone, Reacted,
     FetchForCommandFails

\* What the steps of a run share.
LEMMA WorkingFrame ==
  ASSUME TypeOK, JobInv, Working
  PROVE  /\ UNCHANGED <<human, notes, disk>>
         /\ todo' \subseteq todo
         /\ mem'.events = mem.events \/ Project
         /\ mem'.commands = mem.commands \/ Project \/ \E k \in orders : RefuseCommand(k)
         /\ orders' \subseteq orders \/ ReadCommands
<1> USE DEF slack, notes, Finish, Goto
<1>1. mem \in State
  BY DEF TypeOK
<1>2. ASSUME NEW k \in orders, RefuseCommand(k) \/ FetchForCommand(k) \/ FetchForCommandFails(k)
      PROVE  /\ UNCHANGED <<human, notes, disk, todo>> /\ mem'.events = mem.events
             /\ mem'.commands = mem.commands \/ RefuseCommand(k)
             /\ orders' \subseteq orders
  BY <1>1, <1>2 DEF RefuseCommand, FetchForCommand, FetchForCommandFails, State
<1>3. ASSUME NEW t \in Thread, FetchForEvent(t)
      PROVE  /\ UNCHANGED <<human, notes, disk, todo, orders>>
             /\ mem'.events = mem.events /\ mem'.commands = mem.commands
  BY <1>1, <1>3 DEF FetchForEvent, State
<1>4. ASSUME NEW r \in roots, ClaimRoot(r) \/ CommandRoot(r) \/ SkipRoot(r) \/ ProjectRoot(r)
      PROVE  /\ UNCHANGED <<human, notes, disk, todo, orders>>
             /\ mem'.events = mem.events /\ mem'.commands = mem.commands
  BY <1>1, <1>4 DEF ClaimRoot, CommandRoot, SkipRoot, ProjectRoot, Take, State
<1>5. CASE ReactionsDone
  BY <1>1, <1>5 DEF ReactionsDone, State
<1>6. CASE ProjectFails
  <2>1. Missed.events = mem.events /\ Missed.commands = mem.commands /\ Missed \in State
    BY <1>1, <1>6, NotedType DEF Missed, State, ProjectFails, Busy
  <2> QED
    BY <1>6, <2>1 DEF ProjectFails, EndProject, State
<1>7. CASE Project
  BY <1>7 DEF Project, EndProject
<1>8. CASE ReadCommands \/ CommandsDone \/ EventsDone \/ ReadRows \/ ReadRoots \/ RootsDone
           \/ RemoveReaction \/ AddReaction \/ ReactionFails \/ SkipClaimed
  BY <1>8 DEF ReadCommands, CommandsDone, EventsDone, ReadRows, ReadRoots, RootsDone,
     RemoveReaction, AddReaction, ReactionFails, SkipClaimed
<1>9. ASSUME NEW x \in Message, FetchForEventFails(x)
      PROVE  UNCHANGED <<human, notes, disk, mem, orders>> /\ todo' \subseteq todo
  BY <1>9 DEF FetchForEventFails
<1> QED
  BY <1>2, <1>3, <1>4, <1>5, <1>6, <1>7, <1>8, <1>9 DEF Working

\* What is written into the state file for the thread in hand.
LEMMA ProjectMem ==
  ASSUME TypeOK, JobInv, Project
  PROVE  /\ mem'.events = IF job.kind = "event" THEN mem.events \cup Events(job.at) ELSE mem.events
         /\ mem'.commands = IF job.kind = "command" THEN mem.commands \cup {job.no} ELSE mem.commands
         /\ mem'.owner = mem.owner
         /\ mem'.doubts = IF job.kind = "root"
                          THEN [mem.doubts EXCEPT ![job.at] = Doubtful(job.human)] ELSE mem.doubts
<1>1. mem \in State
  BY DEF TypeOK
<1>2. Noted \in State
  BY NotedType DEF Project, Busy
<1>3. /\ Noted.events = IF job.kind = "event" THEN mem.events \cup Events(job.at) ELSE mem.events
      /\ Noted.commands = IF job.kind = "command" THEN mem.commands \cup {job.no} ELSE mem.commands
      /\ Noted.owner = mem.owner /\ Noted.doubts = mem.doubts
  BY <1>1 DEF Noted, State
<1> QED
  BY <1>2, <1>3 DEF Project, EndProject, State

\* Steps outside a run, and its two ends.
LEMMA OtherActions ==
  ASSUME [Next]_vars
  PROVE  \/ Working \/ Begin \/ Save \/ Dies
         \/ \E t \in Thread, s \in Status : React(t, s)
         \/ \E x \in Other : ReactElsewhere(x)
         \/ \E e \in arriving : Record(e)
         \/ /\ \/ \E x \in fresh : Ages(x)
               \/ \E c \in Requests : Ask(c)
               \/ \E t \in Thread, s \in Shown : Edit(t, s)
               \/ UNCHANGED vars
            /\ UNCHANGED <<slack, sent, arriving, journal, disk, run, review>>
            /\ asked' = asked \/ \E c \in Requests : asked' = Append(asked, c)
<1>1. CASE \E x \in fresh : Ages(x)
  BY <1>1 DEF Ages
<1>2. CASE \E c \in Requests : Ask(c)
  BY <1>2 DEF Ask
<1>3. CASE \E t \in Thread, s \in Shown : Edit(t, s)
  BY <1>3 DEF Edit, notes
<1>4. CASE UNCHANGED vars
  BY <1>4 DEF vars, notes
<1> QED
  BY <1>1, <1>2, <1>3, <1>4 DEF Next, World, Run, Failure, Working, Message

LEMMA EventStep ==
  ASSUME IInv, [Next]_vars
  PROVE  EventInv' /\ CommandInv'
<1> USE DEF IInv, EventInv, CommandInv, Running, slack, run, notes, Goto
<1>1. CASE Working
  <2>1. CASE Project
    <3>1. Events(job.at) \subseteq todo /\ job.kind \in {"command", "event", "root"}
      BY <2>1, JobType DEF Events, Project, Busy, Job
    <3>2. /\ todo' = IF job.kind = "event" THEN todo \ Events(job.at) ELSE todo
          /\ orders' = IF job.kind = "command" THEN orders \ {job.no} ELSE orders
      BY <2>1 DEF Project, EndProject, Finish
    <3> QED
      BY <1>1, <2>1, <3>1, <3>2, ProjectMem, WorkingFrame, WorkingRuns
  <2>2. CASE ReadCommands
    BY <1>1, <2>2, WorkingRuns DEF ReadCommands
  <2>3. ASSUME NEW k \in orders, RefuseCommand(k) PROVE EventInv' /\ CommandInv'
    <3>1. mem'.commands = mem.commands \cup {k} /\ mem'.events = mem.events
      BY <2>3 DEF RefuseCommand, TypeOK, State
    <3> QED
      BY <2>3, <3>1 DEF RefuseCommand
  <2>4. CASE ~Project /\ ~ReadCommands /\ mem'.commands = mem.commands
    BY <1>1, <2>4, WorkingFrame, WorkingRuns
  <2> QED
    BY <1>1, <2>1, <2>2, <2>3, <2>4, WorkingFrame
<1>2. CASE Begin
  BY <1>2 DEF Begin
<1>3. CASE Save \/ Dies
  BY <1>3 DEF Save, Dies, Idle
<1>4. ASSUME NEW x \in Message, SendEvent(x), UNCHANGED <<journal, asked, disk, run>>
      PROVE  EventInv' /\ CommandInv'
  BY <1>4, SyncAssumption DEF SendEvent, TypeOK, Event
<1>5. ASSUME NEW e \in arriving, Record(e) PROVE EventInv' /\ CommandInv'
  BY <1>5 DEF Record
<1>6. CASE /\ UNCHANGED <<slack, sent, arriving, journal, disk, run, review>>
           /\ asked' = asked \/ \E c \in Requests : asked' = Append(asked, c)
  <2>1. 1..Len(asked) \subseteq 1..Len(asked')
    BY <1>6, SyncAssumption DEF TypeOK
  <2> QED
    BY <1>6, <2>1
<1> QED
  BY <1>1, <1>2, <1>3, <1>4, <1>5, <1>6, OtherActions DEF React, ReactElsewhere, Message

\* What the end of the reactions leaves in the state.
LEMMA ReactionsMem ==
  ASSUME TypeOK, ReactionsDone
  PROVE  /\ mem'.owner = [mem.owner EXCEPT ![job.at] = ClaimAfter(job)]
         /\ mem'.doubts = IF job.kind = "event"
                          THEN [mem.doubts EXCEPT ![job.at] = Doubtful(job.human)] ELSE mem.doubts
BY DEF TypeOK, ReactionsDone, State

\* A step of a run leaves the claims to the actions named here.
LEMMA OwnerFrame ==
  ASSUME TypeOK, JobInv, Working
  PROVE  \/ mem'.owner = mem.owner
         \/ \E t \in Thread : /\ mem'.owner = [mem.owner EXCEPT ![t] = "human"]
                              /\ FetchForEvent(t) \/ \E r \in roots : r.at = t /\ ClaimRoot(r)
         \/ /\ ReactionsDone
            /\ mem'.owner = [mem.owner EXCEPT ![job.at] = ClaimAfter(job)]
<1>1. mem \in State
  BY DEF TypeOK
<1>2. ASSUME NEW r \in roots, ClaimRoot(r)
      PROVE  mem'.owner = [mem.owner EXCEPT ![r.at] = "human"] /\ r.at \in Thread
  BY <1>1, <1>2 DEF ClaimRoot, Take, State, TypeOK
<1>3. ASSUME NEW t \in Thread, FetchForEvent(t)
      PROVE  mem'.owner = [mem.owner EXCEPT ![t] = "human"]
  BY <1>1, <1>3 DEF FetchForEvent, State
<1>4. CASE ReactionsDone
  BY <1>4, ReactionsMem
<1>5. CASE ProjectFails
  <2>1. Missed.owner = mem.owner /\ Missed \in State
    BY <1>1, <1>5, NotedType DEF Missed, State, ProjectFails, Busy
  <2> QED
    BY <1>5, <2>1 DEF ProjectFails, EndProject, State
<1>6. CASE Project
  BY <1>6, ProjectMem
<1>7. ASSUME NEW k \in orders, RefuseCommand(k) PROVE mem'.owner = mem.owner
  BY <1>1, <1>7 DEF RefuseCommand, State
<1>8. CASE mem' = mem
  BY <1>8
<1> QED
  BY <1>2, <1>3, <1>4, <1>5, <1>6, <1>7, <1>8 DEF Working, ReadCommands, CommandsDone, EventsDone,
     ReadRows, ReadRoots, RootsDone, RemoveReaction, AddReaction, ReactionFails, SkipClaimed, Finish,
     FetchForCommand, FetchForCommandFails, FetchForEventFails, CommandRoot, SkipRoot, ProjectRoot,
     Take

\* A run gives up a claim of the owner only for a command.
LEMMA OwnerStep ==
  ASSUME IInv, [Next]_vars
  PROVE  OwnerInv'
<1> USE DEF IInv, OwnerInv, Running, slack, run, notes, Goto, Quiet
<1>1. CASE Working
  <2>1. UNCHANGED <<disk, asked>> /\ Running
    BY <1>1, WorkingFrame, WorkingRuns DEF notes
  <2>2. mem.owner \in [Thread -> {"none", "human", "bot", "notion"}]
    BY StateParts DEF TypeOK
  <2>3. CASE ReactionsDone /\ mem'.owner = [mem.owner EXCEPT ![job.at] = ClaimAfter(job)]
    <3>1. CASE job.kind = "command"
      <4>1. Writeback /\ job.no \in 1..Len(asked) /\ job.no \notin disk.commands /\ asked[job.no].at = job.at
        BY <2>1, <2>3, <3>1 DEF JobInv, CommandInv, ReactionsDone, Reacted, Busy
      <4> QED
        BY <2>1, <2>2, <2>3, <4>1
    <3>2. CASE job.kind # "command"
      <4>1. job.edited => job.kind = "root" /\ mem.owner[job.at] # "human"
        BY <2>3 DEF JobInv, ReactionsDone, Reacted, Busy
      <4>2. job.at \in Thread
        BY <2>3, JobType DEF ReactionsDone, Reacted, Busy, Job
      <4> QED
        BY <2>1, <2>2, <2>3, <3>2, <4>1, <4>2 DEF ClaimAfter
    <3> QED
      BY <3>1, <3>2
  <2>4. ASSUME NEW t \in Thread, mem'.owner = [mem.owner EXCEPT ![t] = "human"] PROVE OwnerInv'
    BY <2>1, <2>2, <2>4
  <2>5. CASE mem'.owner = mem.owner
    BY <2>1, <2>5
  <2> QED
    BY <1>1, <2>3, <2>4, <2>5, OwnerFrame
<1>2. CASE Begin
  BY <1>2 DEF Begin
<1>3. CASE Save \/ Dies
  BY <1>3 DEF Save, Dies, Idle
<1>4. CASE UNCHANGED <<asked, disk, run>>
  BY <1>4
<1>5. ASSUME NEW c \in Requests, asked' = Append(asked, c), UNCHANGED <<disk, run>> PROVE OwnerInv'
  <2>1. asked \in Seq(Command) /\ c \in Command
    BY <1>5, SyncAssumption DEF TypeOK, Command, Message, Shown
  <2>2. \A k \in 1..Len(asked) : k \in 1..Len(asked') /\ asked'[k] = asked[k]
    BY <1>5, <2>1
  <2> QED
    BY <1>5, <2>2
<1> QED
  BY <1>1, <1>2, <1>3, <1>4, <1>5, OtherActions DEF React, ReactElsewhere, Record, SendEvent

\* A thread whose owner has moved on is not settled, by either state.
LEMMA MovedUnsettles ==
  ASSUME EventInv, Running, NEW t \in Thread, Moved(t)
  PROVE  ~Settled(t, mem) /\ ~Settled(t, disk)
BY DEF EventInv, Moved, Settled

\* A reaction of the owner unsettles the thread.
LEMMA ReactMoves ==
  ASSUME IInv, NEW t \in Thread, SendEvent(t), UNCHANGED <<journal, disk, run>>
  PROVE  /\ ~Settled(t, disk)'
         /\ Running => Moved(t)' /\ ~Settled(t, mem)'
<1> USE DEF IInv, EventInv, run, Running
<1>1. PICK e \in arriving' : e = [n |-> sent + 1, at |-> t]
  BY DEF SendEvent
<1>2. \A d \in arriving \cup journal : d # e
  BY <1>1 DEF TypeOK
<1>3. e \notin disk.events /\ (Running => e \notin mem.events \cup todo)
  BY <1>2
<1> QED
  BY <1>1, <1>3 DEF Moved, Settled

\* What the run has missed, it goes on missing.
LEMMA MovedStays ==
  ASSUME IInv, [Next]_vars, Running, ~Save, ~Dies, NEW t \in Thread, Moved(t)
  PROVE  Moved(t)'
<1> USE DEF IInv, EventInv, Moved, run, notes
<1>1. CASE Working
  <2>1. CASE Project
    <3>1. Events(job.at) \subseteq todo
      BY <2>1 DEF Events
    <3> QED
      BY <1>1, <2>1, <3>1, ProjectMem, WorkingFrame
  <2> QED
    BY <1>1, <2>1, WorkingFrame
<1>2. ASSUME NEW x \in Message, SendEvent(x), UNCHANGED <<journal, disk, run>> PROVE Moved(t)'
  BY <1>2 DEF SendEvent
<1>3. ASSUME NEW e \in arriving, Record(e) PROVE Moved(t)'
  BY <1>3 DEF Record
<1>4. ~Begin
  BY DEF Begin, Running
<1>5. CASE UNCHANGED <<arriving, journal, run>>
  BY <1>5
<1> QED
  BY <1>1, <1>2, <1>3, <1>4, <1>5, OtherActions DEF React, ReactElsewhere, Message

\* What the run knows of the owner's reactions stays true until the owner moves on.
LEMMA SnapStays ==
  ASSUME IInv, [Next]_vars, Running, ~Save, ~Dies, NEW t \in Thread, NEW h,
         h = human[t] \/ Moved(t)
  PROVE  h = human'[t] \/ Moved(t)'
<1>1. CASE Moved(t)
  BY <1>1, MovedStays
<1>2. ASSUME NEW u \in Thread, NEW s \in Status, React(u, s) PROVE h = human'[t] \/ Moved(t)'
  <2>1. CASE u = t
    BY <1>2, <2>1, ReactMoves DEF React
  <2>2. CASE u # t
    BY <1>1, <1>2, <2>2 DEF React, IInv, TypeOK
  <2> QED
    BY <2>1, <2>2
<1>3. CASE human' = human
  BY <1>1, <1>3
<1>4. ~Begin
  BY DEF Begin, Running
<1> QED
  BY <1>2, <1>3, <1>4, OtherActions, WorkingFrame
     DEF IInv, ReactElsewhere, Record, slack

\* The bots' reactions change only on the thread in hand.
LEMMA HeldFrame ==
  ASSUME TypeOK, JobInv, [Next]_vars
  PROVE  \/ UNCHANGED held
         \/ /\ RemoveReaction \/ AddReaction
            /\ \A t \in Thread : t # job.at => held'[t] = held[t]
<1>1. CASE RemoveReaction \/ AddReaction
  BY <1>1, JobType DEF RemoveReaction, AddReaction, Busy, Job, TypeOK
<1>2. CASE Working /\ ~RemoveReaction /\ ~AddReaction
  BY <1>2 DEF Working, slack, ReadCommands, RefuseCommand, FetchForCommand, CommandsDone,
     FetchForEvent, FetchForEventFails, EventsDone, ReadRows, ReadRoots, ClaimRoot, CommandRoot,
     SkipRoot, ProjectRoot, Take, RootsDone, ReactionsDone, FetchForCommandFails,
     ReactionFails, SkipClaimed, Project, ProjectFails, EndProject
<1> QED
  BY <1>1, <1>2, OtherActions DEF slack, Begin, Save, Dies, React, ReactElsewhere, Record

\* A new thread in hand, as a run takes it.
LEMMA TakenJob ==
  ASSUME IInv, [Next]_vars, Running, ~Save, ~Dies, UNCHANGED <<held, orders, asked, todo>>,
         NEW j \in Job, job' = j, pc' \in {"bots", "project"}, j.held = Managed(j.at),
         j.human = human[j.at] \/ Moved(j.at),
         j.kind = "command" => /\ Writeback /\ j.human = {}
                               /\ j.no \in orders /\ asked[j.no].at = j.at,
         j.kind = "event" => Events(j.at) # {} /\ j.status = None /\ ~j.edited,
         j.edited => /\ j.kind = "root" /\ Writeback /\ j.human = {}
                     /\ mem'.owner[j.at] # "human",
         pc' = "bots" /\ j.kind = "root" /\ ~j.edited => j.human # {} /\ j.status = None,
         pc' = "project" => /\ j.kind = "root" /\ ~j.edited
                            /\ StatusOf(j) = Effective(j.at, j.human, j.held, mem'.owner[j.at])
  PROVE  JobInv'
<1>1. j.at \in Thread /\ j # None
  BY NoneAssumption DEF Job
<1>2. j.human = human'[j.at] \/ Moved(j.at)'
  BY <1>1, SnapStays
<1>3. Managed(j.at)' = Managed(j.at)
  BY DEF Managed
<1>4. Events(j.at)' = Events(j.at)
  BY DEF Events
<1> QED
  BY <1>1, <1>2, <1>3, <1>4 DEF JobInv, Busy, StatusOf, Effective

\* Taking a thread up keeps what the run knows of the thread in hand.
LEMMA TakeStep ==
  ASSUME IInv, [Next]_vars,
         \/ \E k \in orders : FetchForCommand(k)
         \/ \E t \in Thread : FetchForEvent(t)
         \/ \E q \in roots : ClaimRoot(q) \/ CommandRoot(q) \/ ProjectRoot(q)
  PROVE  JobInv'
<1> USE DEF IInv, Goto, notes
<1>1. Working /\ Running /\ ~Save /\ ~Dies
  <2>1. Working
    BY DEF Working
  <2>2. Running /\ Running'
    BY <2>1, WorkingRuns
  <2> QED
    BY <2>1, <2>2 DEF Save, Dies, Idle, Running
<1>2. 0 \in 0..MaxCommands /\ None \in Shown /\ {} \in SUBSET Status
  BY SyncAssumption DEF Shown
<1>3. mem \in State
  BY DEF TypeOK
<1>4. ASSUME NEW k \in orders, FetchForCommand(k) PROVE JobInv'
  <2> DEFINE c == asked[k]
             j == Doing("command", c.at, k, {}, held[c.at], c.status, FALSE)
  <2>1. c.at \in Thread /\ c.status \in Shown /\ human[c.at] = {} /\ Writeback
    BY <1>4, FirstType DEF FetchForCommand, Refused, Command
  <2>2. /\ j \in Job /\ j.kind = "command" /\ j.at = c.at /\ j.no = k /\ j.human = {}
        /\ j.held = held[c.at] /\ j.status = c.status /\ j.edited = FALSE
    BY <1>2, <2>1, FirstType DEF TypeOK, Doing, Job
  <2>3. UNCHANGED <<held, orders, asked, todo>> /\ job' = j /\ pc' = "bots"
    BY <1>4 DEF FetchForCommand, slack
  <2> HIDE DEF j
  <2> QED
    BY <1>1, <2>1, <2>2, <2>3, TakenJob DEF Managed
<1>5. ASSUME NEW t \in Thread, FetchForEvent(t) PROVE JobInv'
  <2> DEFINE j == Doing("event", t, 0, human[t], Managed(t), None, FALSE)
  <2>1. human[t] \in SUBSET Status /\ Managed(t) \in SUBSET Status
    BY DEF TypeOK, Managed
  <2>2. /\ j \in Job /\ j.kind = "event" /\ j.at = t /\ j.human = human[t]
        /\ j.held = Managed(t) /\ j.status = None /\ j.edited = FALSE
    BY <1>2, <2>1 DEF Doing, Job
  <2>3. UNCHANGED <<held, orders, asked, todo>> /\ job' = j /\ pc' = "bots" /\ Events(t) # {}
    BY <1>5 DEF FetchForEvent, slack
  <2> HIDE DEF j
  <2> QED
    BY <1>1, <2>1, <2>2, <2>3, TakenJob
<1>6. ASSUME NEW q \in roots PROVE q.held = Managed(q.at) /\ (q.human = human[q.at] \/ Moved(q.at))
  BY <1>6 DEF RootInv
<1>7. ASSUME NEW q \in roots, ClaimRoot(q) PROVE JobInv'
  <2> DEFINE j == Doing("root", q.at, 0, q.human, q.held, None, FALSE)
  <2>1. /\ j \in Job /\ j.kind = "root" /\ j.at = q.at /\ j.human = q.human
        /\ j.held = q.held /\ j.status = None /\ j.edited = FALSE
    BY <1>2, RootParts DEF Doing, Job
  <2>2. UNCHANGED <<held, orders, asked, todo>> /\ job' = j /\ pc' = "bots" /\ q.human # {}
    BY <1>7 DEF ClaimRoot, Take, slack, Claims
  <2> HIDE DEF j
  <2> QED
    BY <1>1, <1>6, <2>1, <2>2, TakenJob
<1>8. ASSUME NEW q \in roots, CommandRoot(q) PROVE JobInv'
  <2> DEFINE j == Doing("root", q.at, 0, q.human, q.held, RowStatus(q.at), TRUE)
  <2>1. /\ j \in Job /\ j.kind = "root" /\ j.at = q.at /\ j.human = q.human
        /\ j.held = q.held /\ j.edited = TRUE
    BY <1>2, RootParts DEF Doing, Job
  <2>2. /\ UNCHANGED <<held, orders, asked, todo, mem>> /\ job' = j /\ pc' = "bots"
        /\ q.human = {} /\ Writeback /\ mem.owner[q.at] # "human"
    BY <1>8 DEF CommandRoot, Take, slack, Edited
  <2> HIDE DEF j
  <2> QED
    BY <1>1, <1>6, <2>1, <2>2, TakenJob
<1>9. ASSUME NEW q \in roots, ProjectRoot(q) PROVE JobInv'
  <2> DEFINE j == Doing("root", q.at, 0, q.human, q.held, Shows(q), FALSE)
  <2>1. /\ j \in Job /\ j.kind = "root" /\ j.at = q.at /\ j.human = q.human
        /\ j.held = q.held /\ j.status = Shows(q) /\ j.edited = FALSE
    BY <1>2, RootParts DEF Doing, Job
  <2>2. UNCHANGED <<held, orders, asked, todo, mem>> /\ job' = j /\ pc' = "project"
    BY <1>9 DEF ProjectRoot, Take, slack
  <2>3. StatusOf(j) = Effective(q.at, q.human, q.held, mem.owner[q.at])
    BY <2>1 DEF StatusOf, Shows, Effective
  <2> HIDE DEF j
  <2> QED
    BY <1>1, <1>6, <2>1, <2>2, <2>3, TakenJob
<1> QED
  BY <1>4, <1>5, <1>7, <1>8, <1>9

\* Where the thread in hand gets on, and where there is none.
LEMMA JobStep ==
  ASSUME IInv, [Next]_vars
  PROVE  JobInv'
<1> USE DEF IInv, Goto, notes, slack, run
<1>1. CASE \/ \E k \in orders : FetchForCommand(k)
           \/ \E t \in Thread : FetchForEvent(t)
           \/ \E q \in roots : ClaimRoot(q) \/ CommandRoot(q) \/ ProjectRoot(q)
  BY <1>1, TakeStep
<1>2. CASE \/ ReadCommands \/ CommandsDone \/ EventsDone \/ ReadRows \/ ReadRoots \/ RootsDone
           \/ \E k \in orders : RefuseCommand(k) \/ FetchForCommandFails(k)
           \/ \E x \in Message : FetchForEventFails(x)
           \/ \E q \in roots : SkipRoot(q)
           \/ Begin
  BY <1>2 DEF JobInv, Busy, ReadCommands, CommandsDone, EventsDone, ReadRows, ReadRoots, RootsDone,
     RefuseCommand, FetchForCommandFails, FetchForEventFails, SkipRoot, Take, Begin
<1>3. CASE ReactionFails \/ SkipClaimed \/ Project \/ ProjectFails
  <2>1. job.kind \in {"command", "event", "root"}
    BY <1>3, JobType DEF ReactionFails, SkipClaimed, Reacted, Project, ProjectFails, Busy, Job
  <2>2. job' = None /\ pc' = job.kind
    BY <1>3 DEF ReactionFails, SkipClaimed, Project, ProjectFails, EndProject, Finish
  <2> QED
    BY <2>1, <2>2 DEF JobInv, Busy
<1>4. CASE Save \/ Dies
  BY <1>4 DEF Save, Dies, Idle, JobInv, Busy
<1>5. CASE RemoveReaction \/ AddReaction
  <2>1. job \in Job /\ job.at \in Thread /\ pc = "bots" /\ Busy
    BY <1>5, JobType DEF RemoveReaction, AddReaction, Busy, Job
  <2>2. /\ UNCHANGED <<human, notes, review, mem, pc, todo, orders>>
        /\ job' \in Job /\ job'.at = job.at /\ job'.kind = job.kind /\ job'.human = job.human
        /\ job'.no = job.no /\ job'.status = job.status /\ job'.edited = job.edited
        /\ \E s \in Status \cup {None} : job'.held \in {job.held \ {s}, job.held \cup {s}}
                                   /\ job'.held \in SUBSET Status
    <3>1. job'.held \in SUBSET Status
      BY <1>5, <2>1 DEF RemoveReaction, AddReaction, Job, Shown
    <3> QED
      BY <1>5, <2>1, <3>1 DEF RemoveReaction, AddReaction, Job, Shown
  <2>3. Writeback /\ job.held = held[job.at]
    <3>1. job.held = Managed(job.at)
      BY <2>1 DEF JobInv
    <3>2. Writeback
      <4>1. CASE job.held # {}
        BY <3>1, <4>1 DEF Managed
      <4>2. CASE job.held = {}
        <5>1. AddReaction /\ job.status # None
          BY <1>5, <4>2 DEF RemoveReaction, AddReaction, Outdated
        <5> QED
          BY <2>1, <5>1 DEF JobInv, Job
      <4> QED
        BY <4>1, <4>2
    <3> QED
      BY <3>1, <3>2 DEF Managed
  <2>4. job'.held = held'[job.at]
    <3>1. CASE RemoveReaction
      <4>1. PICK s \in Outdated : /\ held' = [held EXCEPT ![job.at] = @ \ {s}]
                                 /\ job' = [job EXCEPT !.held = @ \ {s}]
        BY <3>1 DEF RemoveReaction
      <4>2. held'[job.at] = held[job.at] \ {s}
        BY <2>1, <4>1 DEF TypeOK
      <4>3. job'.held = job.held \ {s}
        BY <2>1, <4>1 DEF Job
      <4> QED
        BY <2>3, <4>2, <4>3
    <3>2. CASE AddReaction
      <4>1. held'[job.at] = held[job.at] \cup {job.status}
        BY <2>1, <3>2 DEF AddReaction, TypeOK
      <4>2. job'.held = job.held \cup {job.status}
        BY <2>1, <3>2 DEF AddReaction, Job
      <4> QED
        BY <2>3, <4>1, <4>2
    <3> QED
      BY <1>5, <3>1, <3>2
  <2>5. Moved(job.at)' <=> Moved(job.at)
    BY <2>2 DEF Moved
  <2>6. Events(job.at)' = Events(job.at)
    BY <2>2 DEF Events
  <2>7. job # None /\ job' # None
    BY <2>1, <2>2, NoneAssumption
  <2> QED
    BY <2>1, <2>2, <2>3, <2>4, <2>5, <2>6, <2>7 DEF JobInv, Busy, Managed, Moved, Events
<1>6. CASE ReactionsDone
  <2>1. job \in Job /\ job # None /\ Busy /\ pc = "bots" /\ pc' = "project"
    BY <1>6, JobType, NoneAssumption DEF ReactionsDone, Reacted, Busy
  <2>2. UNCHANGED <<human, held, arriving, journal, asked, todo, orders, job>>
    BY <1>6 DEF ReactionsDone
  <2>3. job.held = {job.status} \ {None} /\ None \notin Status
    <3>1. job.held \in SUBSET Status /\ None \notin Status
      BY <2>1, SyncAssumption DEF Job
    <3>2. job.held \subseteq {job.status} /\ job.status \in job.held \cup {None}
      BY <1>6 DEF ReactionsDone, Reacted, Outdated
    <3> QED
      BY <3>1, <3>2
  <2>4. job.kind = "root" /\ ~job.edited =>
          StatusOf(job) = Effective(job.at, job.human, job.held, mem'.owner[job.at])
    BY <2>1 DEF JobInv, StatusOf, Effective
  <2>5. job.kind = "event" /\ ~Clear(job.human) => <<job.at, job.human>> \in review'
    <3>1. ASSUME job.kind = "event", ~Clear(job.human) PROVE <<job.at, job.human>> \in review'
      <4>1. job.at \in Thread /\ Doubtful(job.human) = job.human /\ job.human # {}
        BY <2>1, <3>1 DEF Job, Doubtful, Clear
      <4>2. review' = IF job.human = mem.doubts[job.at] THEN review
                      ELSE review \cup {<<job.at, job.human>>}
        BY <1>6, <3>1, <4>1 DEF ReactionsDone, Reviewed
      <4> QED
        BY <4>1, <4>2 DEF DoubtInv
    <3> QED
      BY <3>1
  <2>6. Running /\ ~Save /\ ~Dies
    BY <1>6, <2>1 DEF Running, Save, Dies, Idle
  <2>7. job.human = human'[job.at] \/ Moved(job.at)'
    <3>1. job.at \in Thread /\ (job.human = human[job.at] \/ Moved(job.at))
      BY <2>1 DEF JobInv, Job
    <3> QED
      BY <2>2, <2>6, <3>1, SnapStays
  <2>8. Events(job.at)' = Events(job.at) /\ Managed(job.at)' = Managed(job.at)
    BY <2>2 DEF Events, Managed
  <2>9. job.edited => mem'.owner[job.at] # "human"
    <3>1. job.at \in Thread /\ mem.owner \in [Thread -> {"none", "human", "bot", "notion"}]
      BY <2>1, StateParts DEF Job, TypeOK
    <3>2. job.edited => ClaimAfter(job) # "human"
      BY <2>1 DEF JobInv, ClaimAfter
    <3> QED
      BY <1>6, <3>1, <3>2, ReactionsMem
  <2> QED
    BY <2>1, <2>2, <2>3, <2>4, <2>5, <2>7, <2>8, <2>9 DEF JobInv, Busy, StatusOf, Effective
<1>7. CASE Running /\ UNCHANGED <<held, mem, pc, todo, orders, job, review>> /\ ~Working
  <2>1. CASE ~Busy
    BY <1>7, <2>1 DEF JobInv, Busy
  <2>2. CASE Busy
    <3>1. job \in Job /\ job # None
      BY <2>2, JobType, NoneAssumption
    <3>2. job.human = human'[job.at] \/ Moved(job.at)'
      <4>1. pc' # "idle"
        BY <1>7 DEF Running
      <4>2. ~Save /\ ~Dies
        BY <4>1 DEF Save, Dies, Idle
      <4> QED
        BY <1>7, <2>2, <3>1, <4>2, SnapStays DEF JobInv, Job
    <3>3. Events(job.at)' = Events(job.at) /\ Managed(job.at)' = Managed(job.at)
      BY <1>7 DEF Events, Managed
    <3>4. ASSUME job.kind = "command" PROVE asked'[job.no].at = job.at
      <4>1. job.no \in 1..Len(asked) /\ asked[job.no].at = job.at
        BY <2>2, <3>4 DEF JobInv, CommandInv
      <4>2. CASE asked' = asked
        BY <4>1, <4>2
      <4>3. ASSUME NEW c \in Requests, asked' = Append(asked, c) PROVE asked'[job.no] = asked[job.no]
        <5>1. asked \in Seq(Command) /\ c \in Command
          BY SyncAssumption DEF TypeOK, Command, Message, Shown
        <5> QED
          BY <4>1, <4>3, <5>1
      <4>4. asked' = asked \/ \E c \in Requests : asked' = Append(asked, c)
        BY <1>7, OtherActions DEF Running, Begin, Save, Dies, React, ReactElsewhere, Record, SendEvent, Idle
      <4> QED
        BY <4>1, <4>2, <4>3, <4>4
    <3> QED
      BY <1>7, <2>2, <3>1, <3>2, <3>3, <3>4 DEF JobInv, Busy, StatusOf, Effective
  <2> QED
    BY <2>1, <2>2
<1>8. CASE ~Running /\ UNCHANGED run
  BY <1>8 DEF Running, JobInv, Busy
<1> QED
  BY <1>1, <1>2, <1>3, <1>4, <1>5, <1>6, <1>7, <1>8, OtherActions
     DEF Working, React, ReactElsewhere, Record

\* The reconciliation knows what the threads it has yet to handle show.
LEMMA RootStep ==
  ASSUME IInv, [Next]_vars
  PROVE  RootInv'
<1> USE DEF IInv, Goto, notes, slack, run
<1>1. ASSUME roots' \subseteq roots, Running, ~Save, ~Dies, NEW r \in roots',
             job' # None => r.at # job'.at, UNCHANGED held \/ r.at # job.at
      PROVE  /\ r.held = Managed(r.at)' /\ (r.human = human'[r.at] \/ Moved(r.at)')
             /\ \A q \in roots' : q.at = r.at => q = r
  <2>1. r \in roots /\ r.at \in Thread
    BY <1>1 DEF TypeOK
  <2>2. r.held = Managed(r.at) /\ (r.human = human[r.at] \/ Moved(r.at))
    BY <2>1 DEF RootInv
  <2>3. Managed(r.at)' = Managed(r.at)
    BY <1>1, <2>1, HeldFrame DEF Managed
  <2>4. r.human = human'[r.at] \/ Moved(r.at)'
    BY <1>1, <2>1, <2>2, SnapStays
  <2> QED
    BY <1>1, <2>1, <2>2, <2>3, <2>4 DEF RootInv
<1>2. CASE ReadRoots
  <2>1. /\ roots' = {[at |-> t, human |-> human[t], held |-> Managed(t)] : t \in Thread}
        /\ UNCHANGED <<human, held, job>> /\ pc' = "root" /\ pc = "roots"
    BY <1>2 DEF ReadRoots
  <2>2. job' = None
    BY <2>1 DEF JobInv, Busy
  <2>3. \A t \in Thread : Managed(t)' = Managed(t)
    BY <2>1 DEF Managed
  <2> QED
    BY <2>1, <2>2, <2>3 DEF RootInv
<1>3. CASE Save \/ Dies
  BY <1>3 DEF Save, Dies, Idle, RootInv
<1>4. CASE roots' = {}
  BY <1>4 DEF RootInv
<1>5. ASSUME NEW q \in roots, ClaimRoot(q) \/ CommandRoot(q) \/ SkipRoot(q) \/ ProjectRoot(q)
      PROVE  RootInv'
  <2>1. /\ roots' = roots \ {q} /\ UNCHANGED held /\ pc = "root"
        /\ \/ job' = job /\ pc' = "root"
           \/ job'.at = q.at /\ job'.kind = "root" /\ pc' \in {"bots", "project"}
    BY <1>5 DEF ClaimRoot, CommandRoot, SkipRoot, ProjectRoot, Take, Doing
  <2>2. job = None /\ Running /\ ~Save /\ ~Dies
    <3>1. job = None
      BY <2>1 DEF JobInv, Busy
    <3> QED
      BY <2>1, <3>1, SyncAssumption DEF Running, Save, Dies, Idle
  <2>3. \A r \in roots' : r.at # q.at
    BY <2>1 DEF RootInv
  <2> QED
    BY <1>1, <2>1, <2>2, <2>3 DEF RootInv, Busy
<1>6. CASE ReactionFails \/ SkipClaimed \/ Project \/ ProjectFails
  <2>1. /\ job' = None /\ pc' = job.kind /\ UNCHANGED <<held, roots>>
        /\ Busy /\ Running /\ ~Save /\ ~Dies
    <3>1. job' = None /\ pc' = job.kind /\ UNCHANGED <<held, roots>> /\ Busy /\ pc # "save"
      BY <1>6 DEF ReactionFails, SkipClaimed, Reacted, Project, ProjectFails, EndProject, Finish, Busy
    <3>2. pc' # "idle"
      BY <3>1, JobType DEF Job
    <3> QED
      BY <3>1, <3>2 DEF Running, Save, Dies, Idle, Busy
  <2>2. CASE roots = {}
    BY <2>1, <2>2 DEF RootInv
  <2>3. CASE roots # {}
    <3>1. pc' = "root" /\ \A r \in roots : r.at # job.at
      BY <2>1, <2>3, JobType, NoneAssumption DEF RootInv, Busy
    <3> QED
      BY <1>1, <2>1, <3>1 DEF RootInv
  <2> QED
    BY <2>2, <2>3
<1>7. CASE /\ Running /\ ~Save /\ ~Dies /\ roots' = roots /\ pc' = pc
           /\ RemoveReaction \/ AddReaction \/ UNCHANGED <<held, job>>
  <2>1. (job' = None <=> job = None) /\ (job # None => job'.at = job.at /\ job'.kind = job.kind)
    <3>1. CASE RemoveReaction \/ AddReaction
      <4>1. job \in Job /\ job # None
        BY <3>1, JobType, NoneAssumption DEF RemoveReaction, AddReaction, Busy
      <4>2. \A b \in SUBSET Status : [job EXCEPT !.held = b] \in Job
        BY <4>1 DEF Job
      <4>3. PICK b \in SUBSET Status : job' = [job EXCEPT !.held = b]
        BY <3>1, <4>1 DEF RemoveReaction, AddReaction, Job, Shown
      <4> QED
        BY <4>1, <4>2, <4>3, NoneAssumption DEF Job
    <3> QED
      BY <1>7, <3>1
  <2>2. \A r \in roots : UNCHANGED held \/ r.at # job.at
    <3>1. CASE RemoveReaction \/ AddReaction
      BY <3>1, JobType, NoneAssumption DEF RemoveReaction, AddReaction, Busy, RootInv
    <3> QED
      BY <1>7, <3>1
  <2> QED
    BY <1>1, <1>7, <2>1, <2>2 DEF RootInv, Busy
<1>8. CASE ReactionsDone
  <2>1. /\ UNCHANGED <<roots, held, job>> /\ pc = "bots" /\ pc' = "project"
        /\ Running /\ ~Save /\ ~Dies
    BY <1>8 DEF ReactionsDone, Reacted, Running, Save, Dies, Idle
  <2> QED
    BY <1>1, <2>1 DEF RootInv, Busy
<1>9. CASE roots = {} /\ roots' = roots
  BY <1>4, <1>9
<1>10. CASE Begin
  <2>1. roots = {}
    BY <1>10 DEF Begin, RootInv, Busy
  <2> QED
    BY <1>9, <1>10, <2>1 DEF Begin
<1>11. CASE \/ ReadCommands \/ CommandsDone \/ EventsDone \/ ReadRows \/ RootsDone
            \/ \E k \in orders : RefuseCommand(k) \/ FetchForCommand(k) \/ FetchForCommandFails(k)
            \/ \E t \in Thread : FetchForEvent(t)
            \/ \E x \in Message : FetchForEventFails(x)
  <2>1. roots' = roots /\ (pc \notin {"root", "bots", "project"} \/ roots = {})
    BY <1>11 DEF ReadCommands, CommandsDone, EventsDone, ReadRows, RootsDone, RefuseCommand,
       FetchForCommand, FetchForCommandFails, FetchForEvent, FetchForEventFails
  <2>2. roots = {}
    BY <2>1 DEF RootInv, Busy
  <2> QED
    BY <1>9, <2>1, <2>2
<1>12. CASE UNCHANGED <<held, run>>
  <2>1. CASE roots = {}
    BY <1>9, <1>12, <2>1
  <2>2. CASE roots # {}
    <3>1. Running
      BY <2>2 DEF RootInv, Running, Busy
    <3>2. pc' # "idle"
      BY <1>12, <3>1 DEF Running
    <3>3. ~Save /\ ~Dies
      BY <3>2 DEF Save, Dies, Idle
    <3> QED
      BY <1>7, <1>12, <3>1, <3>3
  <2> QED
    BY <2>1, <2>2
<1>13. CASE RemoveReaction \/ AddReaction
  BY <1>7, <1>13 DEF RemoveReaction, AddReaction, Running, Save, Dies, Idle
<1> QED
  BY <1>2, <1>3, <1>5, <1>6, <1>8, <1>10, <1>11, <1>12, <1>13, OtherActions
     DEF Working, React, ReactElsewhere, Record

\* The review journal only grows, and a doubt that is remembered is in it.
LEMMA ReviewedKeeps ==
  ASSUME NEW t \in Thread, NEW h, Reviewed(t, h), DoubtInv
  PROVE  /\ review \subseteq review'
         /\ Doubtful(h) # {} => Doubtful(h) = h /\ <<t, h>> \in review'
BY DEF Reviewed, DoubtInv, Doubtful

LEMMA ReviewFrame ==
  ASSUME IInv, [Next]_vars
  PROVE  /\ review \subseteq review'
         /\ Working => \/ mem'.doubts = mem.doubts
                       \/ /\ mem'.doubts = [mem.doubts EXCEPT ![job.at] = Doubtful(job.human)]
                          /\ job.at \in Thread /\ Reviewed(job.at, job.human)
<1> USE DEF IInv, run, notes, slack
<1>1. mem \in State
  BY DEF TypeOK
<1>2. CASE ReactionsDone
  <2>1. job.at \in Thread
    BY <1>2, JobType DEF ReactionsDone, Reacted, Busy, Job
  <2> QED
    BY <1>2, <2>1, ReactionsMem, ReviewedKeeps DEF ReactionsDone
<1>3. CASE Project
  <2>1. job.at \in Thread
    BY <1>3, JobType DEF Project, Busy, Job
  <2> QED
    BY <1>3, <2>1, ProjectMem, ReviewedKeeps DEF Project, EndProject
<1>4. CASE ProjectFails
  <2>1. job.at \in Thread
    BY <1>4, JobType DEF ProjectFails, Busy, Job
  <2>2. Missed.doubts = mem.doubts /\ Missed \in State
    BY <1>1, <1>4, NotedType DEF Missed, State, ProjectFails, Busy
  <2>3. mem'.doubts = IF job.kind = "root"
                      THEN [mem.doubts EXCEPT ![job.at] = Doubtful(job.human)] ELSE mem.doubts
    BY <1>4, <2>2 DEF ProjectFails, EndProject, State
  <2> QED
    BY <1>4, <2>1, <2>3, ReviewedKeeps DEF ProjectFails, EndProject
<1>5. CASE Working /\ ~ReactionsDone /\ ~Project /\ ~ProjectFails
  <2>1. UNCHANGED review
    BY <1>5 DEF Working, ReadCommands, CommandsDone, EventsDone, ReadRows, ReadRoots, RootsDone,
       RemoveReaction, AddReaction, ReactionFails, SkipClaimed, RefuseCommand, FetchForCommand,
       FetchForCommandFails, FetchForEvent, FetchForEventFails, ClaimRoot, CommandRoot, SkipRoot,
       ProjectRoot, Take
  <2>2. mem'.doubts = mem.doubts
    BY <1>1, <1>5 DEF Working, ReadCommands, CommandsDone, EventsDone, ReadRows, ReadRoots, RootsDone,
       RemoveReaction, AddReaction, ReactionFails, SkipClaimed, RefuseCommand, FetchForCommand,
       FetchForCommandFails, FetchForEvent, FetchForEventFails, ClaimRoot, CommandRoot, SkipRoot,
       ProjectRoot, Take, State
  <2> QED
    BY <2>1, <2>2
<1>6. CASE ~Working
  BY <1>6, OtherActions DEF Begin, Save, Dies, React, ReactElsewhere, Record
<1> QED
  BY <1>2, <1>3, <1>4, <1>5, <1>6

LEMMA DoubtStep ==
  ASSUME IInv, [Next]_vars
  PROVE  DoubtInv'
<1> USE DEF IInv, run, notes, slack
<1>1. review \subseteq review' /\ mem \in State
  BY ReviewFrame DEF TypeOK
<1>2. CASE Working
  <2>1. disk' = disk /\ mem.doubts \in [Thread -> SUBSET Status]
    BY <1>2, WorkingFrame, StateParts DEF TypeOK
  <2>2. CASE mem'.doubts = mem.doubts
    BY <1>1, <2>1, <2>2 DEF DoubtInv
  <2>3. CASE /\ mem'.doubts = [mem.doubts EXCEPT ![job.at] = Doubtful(job.human)]
             /\ job.at \in Thread /\ Reviewed(job.at, job.human)
    <3>1. Doubtful(job.human) # {} => <<job.at, Doubtful(job.human)>> \in review'
      BY <2>3, ReviewedKeeps
    <3>2. \A t \in Thread : mem'.doubts[t] = IF t = job.at THEN Doubtful(job.human) ELSE mem.doubts[t]
      BY <2>1, <2>3
    <3> QED
      BY <1>1, <2>1, <3>1, <3>2 DEF DoubtInv
  <2> QED
    BY <1>2, <2>2, <2>3, ReviewFrame
<1>3. CASE Begin
  BY <1>1, <1>3 DEF Begin, DoubtInv
<1>4. CASE Save \/ Dies
  <2>1. disk' \in {disk, mem} /\ mem' = NoState
    BY <1>4 DEF Save, Dies, Idle
  <2>2. \A t \in Thread : mem'.doubts[t] = {}
    BY <2>1 DEF NoState
  <2> QED
    BY <1>1, <2>1, <2>2 DEF DoubtInv
<1>5. CASE UNCHANGED <<disk, mem>>
  BY <1>1, <1>5 DEF DoubtInv
<1> QED
  BY <1>2, <1>3, <1>4, <1>5, OtherActions DEF React, ReactElsewhere, Record

\* What is settled for the state file was settled before, and nothing moved.
LEMMA SettledBefore ==
  ASSUME IInv, [Next]_vars, disk' = disk, NEW t \in Thread, Settled(t, disk)'
  PROVE  /\ Settled(t, disk) /\ human'[t] = human[t]
         /\ Running => ~Moved(t)
<1>1. arriving \cup journal \subseteq arriving' \cup journal'
  <2>1. CASE UNCHANGED <<arriving, journal>>
    BY <2>1
  <2>2. ASSUME NEW e \in arriving, Record(e) PROVE arriving \cup journal \subseteq arriving' \cup journal'
    BY <2>2 DEF Record
  <2>3. ASSUME NEW x \in Message, SendEvent(x), journal' = journal
        PROVE  arriving \cup journal \subseteq arriving' \cup journal'
    BY <2>3 DEF SendEvent
  <2> QED
    BY <2>1, <2>2, <2>3, OtherActions, WorkingFrame
       DEF IInv, notes, Begin, Save, Dies, React, ReactElsewhere, Message
<1>2. Settled(t, disk)
  BY <1>1 DEF Settled
<1>3. human'[t] = human[t]
  <2>1. ASSUME NEW u \in Thread, NEW s \in Status, React(u, s) PROVE human'[t] = human[t]
    BY <2>1, ReactMoves DEF React, IInv, TypeOK
  <2>2. CASE human' = human
    BY <2>2
  <2> QED
    BY <2>1, <2>2, OtherActions, WorkingFrame
       DEF IInv, slack, Begin, Save, Dies, ReactElsewhere, Record
<1> QED
  BY <1>2, <1>3, MovedUnsettles DEF IInv

\* The same for the state of the run, but for the events that it has just handled.
LEMMA SettledSoFar ==
  ASSUME IInv, [Next]_vars, Running, ~Save, ~Dies, NEW t \in Thread, Settled(t, mem)'
  PROVE  /\ human'[t] = human[t] /\ ~Moved(t)
         /\ Settled(t, mem) \/ (Project /\ job.kind = "event" /\ job.at = t)
<1> USE DEF IInv, Running
<1>1. ~Moved(t)
  <2>1. ASSUME Moved(t) PROVE FALSE
    <3>1. Moved(t)'
      BY <2>1, MovedStays
    <3> QED
      BY <3>1 DEF Moved, Settled
  <2> QED
    BY <2>1
<1>2. human'[t] = human[t]
  <2>1. ASSUME NEW u \in Thread, NEW s \in Status, React(u, s) PROVE human'[t] = human[t]
    BY <2>1, ReactMoves DEF React, TypeOK
  <2>2. CASE human' = human
    BY <2>2
  <2> QED
    BY <2>1, <2>2, OtherActions, WorkingFrame DEF slack, Begin, ReactElsewhere, Record
<1>3. Settled(t, mem) \/ (Project /\ job.kind = "event" /\ job.at = t)
  <2>1. CASE Working /\ ~Project
    BY <2>1, WorkingFrame DEF Settled, notes
  <2>2. CASE Project
    BY <2>2, ProjectMem, WorkingFrame DEF Settled, notes, Events, Working
  <2>3. CASE UNCHANGED <<arriving, journal, run>>
    BY <2>3 DEF Settled, run
  <2>4. ASSUME NEW e \in arriving, Record(e) PROVE Settled(t, mem)
    BY <2>4 DEF Record, Settled, run
  <2>5. ASSUME NEW x \in Message, SendEvent(x), UNCHANGED <<journal, run>> PROVE Settled(t, mem)
    BY <2>5 DEF SendEvent, Settled, run
  <2> QED
    BY <2>1, <2>2, <2>3, <2>4, <2>5, OtherActions DEF Begin, React, ReactElsewhere, Message
<1> QED
  BY <1>1, <1>2, <1>3

\* What the thread in hand may be, if its owner's reactions are settled.
LEMMA JobOnSettled ==
  ASSUME IInv, Busy, NEW t \in Thread, job.at = t, NEW s \in {disk, mem}, Settled(t, s)
  PROVE  /\ job.kind # "event" /\ ~Moved(t) /\ job.human = human[t]
         /\ s.owner[t] = "human" /\ Quiet(t, s) => job.kind = "root" /\ ~job.edited
         /\ s.owner[t] = "human" /\ Quiet(t, s) => mem.owner[t] = "human"
<1> USE DEF IInv
<1>1. Running
  BY DEF Running, Busy
<1>2. ~Moved(t)
  BY <1>1, MovedUnsettles
<1>3. job.human = human[t]
  BY <1>2 DEF JobInv
<1>4. job.kind # "event"
  <2>1. ASSUME job.kind = "event" PROVE FALSE
    <3>1. PICK e \in todo : e.at = t
      BY <2>1 DEF JobInv, Events
    <3>2. e \in journal /\ e \notin mem.events /\ e \notin disk.events
      BY <1>1, <3>1 DEF EventInv
    <3> QED
      BY <3>1, <3>2 DEF Settled
  <2> QED
    BY <2>1
<1>5. s.owner[t] = "human" /\ Quiet(t, s) => mem.owner[t] = "human"
  BY <1>1 DEF OwnerInv
<1>6. Quiet(t, s) => job.kind # "command"
  <2>1. ASSUME job.kind = "command", Quiet(t, s) PROVE FALSE
    <3>1. Writeback /\ job.no \in orders /\ asked[job.no].at = t
      BY <2>1 DEF JobInv
    <3>2. job.no \in 1..Len(asked) /\ job.no \notin mem.commands /\ job.no \notin disk.commands
      BY <1>1, <3>1 DEF CommandInv
    <3> QED
      BY <2>1, <3>1, <3>2 DEF Quiet
  <2> QED
    BY <2>1
<1>7. job.kind \in {"command", "event", "root"}
  BY JobType DEF Job
<1> QED
  BY <1>2, <1>3, <1>4, <1>5, <1>6, <1>7 DEF JobInv

\* Who changes a row, and how.
LEMMA PageFrame ==
  ASSUME IInv, [Next]_vars, NEW t \in Thread
  PROVE  \/ page'[t] = page[t] \/ page'[t].by = "owner"
         \/ Upsert /\ (Project \/ ProjectFails) /\ job.at = t /\ page'[t].status = StatusOf(job)
<1> USE DEF notion
<1>1. page \in [Thread -> Page]
  BY DEF IInv, TypeOK
<1>2. CASE Upsert /\ (Project \/ ProjectFails)
  BY <1>1, <1>2 DEF Upsert
<1>3. ASSUME NEW u \in Thread, NEW s \in Shown, Edit(u, s)
      PROVE  page'[t] = page[t] \/ page'[t].by = "owner"
  BY <1>1, <1>3 DEF Edit
<1>4. CASE UNCHANGED page
  BY <1>4
<1>5. CASE Project \/ ProjectFails
  BY <1>2, <1>4, <1>5 DEF Project, ProjectFails
<1>6. CASE Working /\ ~Project /\ ~ProjectFails
  BY <1>4, <1>6 DEF Working, ReadCommands, CommandsDone, EventsDone, ReadRows, ReadRoots, RootsDone,
     RemoveReaction, AddReaction, ReactionFails, ReactionsDone, SkipClaimed, RefuseCommand,
     FetchForCommand, FetchForCommandFails, FetchForEvent, FetchForEventFails, ClaimRoot,
     CommandRoot, SkipRoot, ProjectRoot, Take
<1>7. CASE ~Working
  BY <1>3, <1>4, <1>7 DEF Next, Run, Failure, World, Working, Message, vars, Begin, Save, Dies,
     React, ReactElsewhere, Record, Ages, Ask
<1> QED
  BY <1>5, <1>6, <1>7

\* Every row that a run writes, or leaves, says what the reactions say.
LEMMA ShowsStep ==
  ASSUME IInv, [Next]_vars, disk' = disk, NEW t \in Thread
  PROVE  ShowsSlack(t, disk)'
<1> SUFFICES ASSUME Settled(t, disk)', human'[t] # {} \/ (disk.owner[t] = "human" /\ Quiet(t, disk)'),
                    page'[t] # None, page'[t].by = "sync"
             PROVE  page'[t].status = Effective(t, human'[t], Managed(t)', disk.owner[t])
  BY DEF ShowsSlack, Effective
<1> USE DEF IInv
<1>1. Settled(t, disk) /\ human'[t] = human[t] /\ (Running => ~Moved(t))
  BY SettledBefore
<1>2. human[t] # {} \/ (disk.owner[t] = "human" /\ Quiet(t, disk))
  <2>1. Quiet(t, disk)' => Quiet(t, disk)
    <3>1. ASSUME NEW c \in Requests, asked' = Append(asked, c)
          PROVE  \A k \in 1..Len(asked) : k \in 1..Len(asked') /\ asked'[k] = asked[k]
      BY <3>1, SyncAssumption DEF TypeOK, Command, Message, Shown
    <3>2. CASE asked' = asked
      BY <3>2 DEF Quiet
    <3>3. asked' = asked \/ \E c \in Requests : asked' = Append(asked, c)
      BY OtherActions, WorkingFrame DEF notes, Begin, Save, Dies, React, ReactElsewhere, Record,
         SendEvent
    <3> QED
      BY <3>1, <3>2, <3>3 DEF Quiet
  <2> QED
    BY <1>1, <2>1
<1>3. CASE (Project \/ ProjectFails) /\ job.at = t /\ page'[t].status = StatusOf(job)
  <2>1. Busy /\ pc = "project" /\ UNCHANGED held
    BY <1>3 DEF Busy, Project, ProjectFails, EndProject, slack
  <2>2. job.human = human[t] /\ job.held = Managed(t)
    BY <1>1, <1>3, <2>1, JobOnSettled DEF JobInv
  <2>3. CASE human[t] # {}
    BY <1>1, <1>3, <2>2, <2>3 DEF StatusOf, Effective
  <2>4. CASE human[t] = {}
    <3>1. job.kind = "root" /\ ~job.edited /\ mem.owner[t] = "human" /\ disk.owner[t] = "human"
      BY <1>1, <1>2, <1>3, <2>1, <2>4, JobOnSettled
    <3>2. StatusOf(job) = Effective(t, human[t], Managed(t), "human")
      BY <1>3, <2>1, <2>2, <3>1 DEF JobInv
    <3> QED
      BY <1>1, <1>3, <2>1, <3>1, <3>2 DEF Managed
  <2> QED
    BY <2>3, <2>4
<1>4. CASE page'[t] = page[t] /\ (UNCHANGED held \/ t # job.at)
  <2>1. Managed(t)' = Managed(t)
    BY <1>4, HeldFrame DEF Managed
  <2> QED
    BY <1>1, <1>2, <1>4, <2>1 DEF PromiseInv, PageShowsSlack, ShowsSlack
<1>5. CASE page'[t] = page[t] /\ (RemoveReaction \/ AddReaction) /\ t = job.at
  <2>1. Busy /\ pc = "bots"
    BY <1>5 DEF Busy, RemoveReaction, AddReaction
  <2>2. human[t] # {}
    <3>1. ASSUME human[t] = {} PROVE FALSE
      <4>1. job.kind = "root" /\ ~job.edited /\ job.human = human[t]
        BY <1>1, <1>2, <1>5, <2>1, <3>1, JobOnSettled
      <4> QED
        BY <2>1, <3>1, <4>1 DEF JobInv
    <3> QED
      BY <3>1
  <2> QED
    BY <1>1, <1>5, <2>2 DEF PromiseInv, PageShowsSlack, ShowsSlack, Effective
<1> QED
  BY <1>3, <1>4, <1>5, PageFrame, HeldFrame

\* The commands of a thread that the run has just settled.
LEMMA QuietSoFar ==
  ASSUME IInv, [Next]_vars, Running, ~Save, ~Dies, NEW t \in Thread, Quiet(t, mem)'
  PROVE  \/ Quiet(t, mem)
         \/ Project /\ job.kind = "command" /\ job.at = t
         \/ human[t] # {}
<1> USE DEF IInv
<1>1. CASE Project
  <2>1. asked' = asked /\ orders \subseteq 1..Len(asked)
    BY <1>1, WorkingFrame DEF notes, Working, CommandInv
  <2>2. job.kind = "command" => asked[job.no].at = job.at
    BY <1>1 DEF JobInv, Project, Busy
  <2> QED
    BY <1>1, <2>1, <2>2, ProjectMem DEF Quiet
<1>2. ASSUME NEW k \in orders, RefuseCommand(k) PROVE Quiet(t, mem) \/ human[t] # {}
  <2>1. mem'.commands = mem.commands \cup {k} /\ asked' = asked
    BY <1>2 DEF RefuseCommand, TypeOK, State, notes
  <2>2. Refused(asked[k])
    BY <1>2 DEF RefuseCommand
  <2> QED
    BY <2>1, <2>2, SyncAssumption DEF Quiet, Refused
<1>3. CASE Working /\ mem'.commands = mem.commands
  BY <1>3, WorkingFrame DEF Quiet, notes
<1>4. CASE asked' = asked /\ mem' = mem
  BY <1>4 DEF Quiet
<1>5. ASSUME NEW c \in Requests, asked' = Append(asked, c), mem' = mem PROVE Quiet(t, mem)
  <2>1. asked \in Seq(Command) /\ c \in Command
    BY SyncAssumption DEF TypeOK, Command, Message, Shown
  <2>2. \A k \in 1..Len(asked) : k \in 1..Len(asked') /\ asked'[k] = asked[k]
    BY <1>5, <2>1
  <2> QED
    BY <1>5, <2>2 DEF Quiet
<1> QED
  BY <1>1, <1>2, <1>3, <1>4, <1>5, OtherActions, WorkingFrame
     DEF Begin, Running, React, ReactElsewhere, Record, SendEvent, run

\* A run that claims a thread for the owner has events of it to handle, or saw reactions.
LEMMA ClaimSoFar ==
  ASSUME IInv, [Next]_vars, Running, ~Save, ~Dies, NEW t \in Thread, Settled(t, mem)',
         mem'.owner[t] # mem.owner[t]
  PROVE  \/ mem'.owner[t] # "human"
         \/ /\ human[t] # {} /\ job'.kind = "root" /\ job'.at = t /\ pc' = "bots" /\ ~Project
<1> USE DEF IInv
<1>1. Working
  BY OtherActions DEF run, Begin, Running, React, ReactElsewhere, Record
<1>2. mem.owner \in [Thread -> {"none", "human", "bot", "notion"}]
  BY StateParts DEF TypeOK
<1>3. CASE ReactionsDone
  <2>1. job.at = t /\ mem'.owner[t] = ClaimAfter(job)
    BY <1>2, <1>3, ReactionsMem
  <2> QED
    BY <2>1 DEF ClaimAfter
<1>4. CASE FetchForEvent(t)
  <2>1. Events(t) # {} /\ ~Project
    BY <1>4 DEF FetchForEvent, Project
  <2>2. ~Settled(t, mem)
    BY <2>1 DEF EventInv, Running, Events, Settled
  <2> QED
    BY <2>1, <2>2, SettledSoFar
<1>5. ASSUME NEW r \in roots, r.at = t, ClaimRoot(r)
      PROVE  human[t] # {} /\ job'.kind = "root" /\ job'.at = t /\ pc' = "bots" /\ ~Project
  <2>1. /\ r.human # {} /\ job'.kind = "root" /\ job'.at = t /\ pc' = "bots" /\ ~Project
    BY <1>5 DEF ClaimRoot, Claims, Take, Doing, Goto, Project
  <2>2. r.human = human[t]
    BY <1>5, SettledSoFar DEF RootInv
  <2> QED
    BY <2>1, <2>2
<1> QED
  BY <1>1, <1>2, <1>3, <1>4, <1>5, OwnerFrame

LEMMA ShowsSoFar ==
  ASSUME IInv, [Next]_vars, Running, ~Save, ~Dies, NEW t \in Thread
  PROVE  ShowsSlack(t, mem)'
<1> SUFFICES ASSUME Settled(t, mem)', human'[t] # {} \/ (mem'.owner[t] = "human" /\ Quiet(t, mem)'),
                    page'[t] # None, page'[t].by = "sync"
             PROVE  page'[t].status = Effective(t, human'[t], Managed(t)', mem'.owner[t])
  BY DEF ShowsSlack, Effective
<1> USE DEF IInv
<1>1. human'[t] = human[t] /\ ~Moved(t)
  BY SettledSoFar
<1>2. human[t] # {} \/ (mem.owner[t] = "human" /\ mem'.owner[t] = "human")
  BY <1>1, ClaimSoFar
<1>3. CASE (Project \/ ProjectFails) /\ job.at = t /\ page'[t].status = StatusOf(job)
  <2>1. Busy /\ pc = "project" /\ UNCHANGED held
    BY <1>3 DEF Busy, Project, ProjectFails, EndProject, slack
  <2>2. job.human = human[t] /\ job.held = Managed(t)
    BY <1>1, <1>3, <2>1 DEF JobInv
  <2>3. CASE human[t] # {}
    BY <1>1, <1>3, <2>2, <2>3 DEF StatusOf, Effective
  <2>4. CASE human[t] = {} /\ job.kind = "root"
    <3>1. ~job.edited
      BY <1>2, <1>3, <2>1, <2>4 DEF JobInv
    <3>2. StatusOf(job) = Effective(t, human[t], Managed(t), mem.owner[t])
      BY <1>3, <2>1, <2>2, <2>4, <3>1 DEF JobInv
    <3> QED
      BY <1>1, <1>2, <1>3, <2>1, <2>4, <3>2 DEF Managed
  <2>5. CASE human[t] = {} /\ job.kind # "root"
    <3>1. Managed(t) = {job.status} \ {None}
      BY <2>1, <2>2, <2>5 DEF JobInv
    <3>2. Effective(t, {}, Managed(t), "human") = job.status
      BY <3>1 DEF Effective, Only, Clear
    <3> QED
      BY <1>1, <1>2, <1>3, <2>1, <2>2, <2>5, <3>2 DEF Managed, StatusOf
  <2> QED
    BY <2>3, <2>4, <2>5
<1>4. CASE page'[t] = page[t] /\ (UNCHANGED held \/ t # job.at) /\ ~(Project /\ job.at = t)
  <2>1. Managed(t)' = Managed(t)
    BY <1>4, HeldFrame DEF Managed
  <2>2. Settled(t, mem) /\ (human[t] # {} \/ Quiet(t, mem))
    BY <1>1, <1>4, SettledSoFar, QuietSoFar
  <2> QED
    BY <1>1, <1>2, <1>4, <2>1, <2>2 DEF PromiseInv, ShowsSlack, Effective
<1>5. CASE page'[t] = page[t] /\ (RemoveReaction \/ AddReaction) /\ t = job.at
  <2>1. Busy /\ pc = "bots" /\ ~Project
    BY <1>5 DEF Busy, RemoveReaction, AddReaction, Project
  <2>2. human[t] # {}
    <3>1. ASSUME human[t] = {} PROVE FALSE
      <4>1. Settled(t, mem) /\ Quiet(t, mem)
        BY <1>1, <2>1, <3>1, SettledSoFar, QuietSoFar
      <4>2. job.kind = "root" /\ ~job.edited /\ job.human = human[t]
        BY <1>2, <1>5, <2>1, <3>1, <4>1, JobOnSettled
      <4> QED
        BY <2>1, <3>1, <4>2 DEF JobInv
    <3> QED
      BY <3>1
  <2> QED
    BY <1>1, <1>5, <2>1, <2>2, SettledSoFar DEF PromiseInv, ShowsSlack, Effective
<1>6. CASE Project /\ job.at = t
  <2>1. Upsert /\ page \in [Thread -> Page]
    BY <1>6 DEF Project, TypeOK
  <2>2. page'[t].status = StatusOf(job)
    BY <1>6, <2>1 DEF Upsert
  <2> QED
    BY <1>3, <1>6, <2>2
<1> QED
  BY <1>3, <1>4, <1>5, <1>6, PageFrame, HeldFrame

\* The bots do not come back to a thread that is settled for its owner.
LEMMA HeldSettled ==
  ASSUME IInv, [Next]_vars, NEW t \in Thread, NEW s \in {disk, mem}, Running, Settled(t, s),
         human[t] # {}, held[t] = {}
  PROVE  held'[t] = {}
<1> USE DEF IInv
<1>1. CASE (RemoveReaction \/ AddReaction) /\ job.at = t
  <2>1. Busy /\ pc = "bots"
    BY <1>1 DEF Busy, RemoveReaction, AddReaction
  <2>2. job.human = human[t] /\ job.kind # "event"
    BY <1>1, <2>1, JobOnSettled
  <2>3. job.status = None /\ job.kind \in {"command", "event", "root"}
    BY <2>1, <2>2, JobType DEF JobInv, Job
  <2>4. ~AddReaction
    BY <2>3 DEF AddReaction
  <2>5. held'[t] \subseteq held[t]
    BY <1>1, <2>4 DEF RemoveReaction, TypeOK
  <2> QED
    BY <2>5
<1>2. CASE held'[t] = held[t]
  BY <1>2
<1> QED
  BY <1>1, <1>2, HeldFrame

LEMMA GaveWayStep ==
  ASSUME IInv, [Next]_vars, disk' = disk, NEW t \in Thread
  PROVE  BotsGaveWay(t, disk)'
<1> SUFFICES ASSUME Writeback, Settled(t, disk)', disk.owner[t] = "human", human'[t] # {}
             PROVE  held'[t] = {}
  BY DEF BotsGaveWay
<1>1. Settled(t, disk) /\ human[t] # {}
  BY SettledBefore
<1>2. held[t] = {}
  BY <1>1 DEF IInv, PromiseInv, OwnerOutranksBots, BotsGaveWay
<1>3. CASE Running
  BY <1>1, <1>2, <1>3, HeldSettled
<1>4. CASE ~Running
  <2>1. ~RemoveReaction /\ ~AddReaction
    BY <1>4 DEF Running, RemoveReaction, AddReaction
  <2> QED
    BY <1>2, <2>1, HeldFrame DEF IInv
<1> QED
  BY <1>3, <1>4

\* At the end of its reactions, a thread that the reconciliation claimed has none of the bots.
LEMMA ClaimGivesWay ==
  ASSUME IInv, NEW t \in Thread, Writeback, Reacted, job.at = t, job.kind = "root", ~job.edited
  PROVE  held[t] = {}
<1>1. Busy /\ pc = "bots"
  BY DEF Reacted, Busy
<1>2. job.status = None /\ job.held = held[t] /\ job.held \in SUBSET Status
  BY <1>1, JobType DEF IInv, JobInv, Job, Managed
<1> QED
  BY <1>2, SyncAssumption DEF Reacted, Outdated

LEMMA GaveWaySoFar ==
  ASSUME IInv, [Next]_vars, Running, ~Save, ~Dies, NEW t \in Thread,
         ~(pc' = "bots" /\ job'.at = t /\ job'.kind = "root")
  PROVE  BotsGaveWay(t, mem)'
<1> SUFFICES ASSUME Writeback, Settled(t, mem)', mem'.owner[t] = "human", human'[t] # {}
             PROVE  held'[t] = {}
  BY DEF BotsGaveWay
<1> USE DEF IInv
<1>1. human[t] # {} /\ mem.owner[t] = "human"
  BY SettledSoFar, ClaimSoFar
<1>2. CASE pc = "bots" /\ job.at = t /\ job.kind = "root"
  <2>1. Busy /\ job \in Job /\ ~job.edited
    BY <1>1, <1>2, JobType DEF Busy, JobInv
  <2>2. ~RemoveReaction /\ ~AddReaction
    BY <1>2, <2>1 DEF RemoveReaction, AddReaction, Job
  <2>3. Reacted
    <3>1. CASE pc' = pc /\ job' = job
      BY <1>2, <3>1
    <3>2. CASE ReactionFails
      BY <1>2, <3>2 DEF ReactionFails
    <3>3. CASE ReactionsDone \/ SkipClaimed
      BY <3>3 DEF ReactionsDone, SkipClaimed
    <3>4. CASE Working /\ ~ReactionFails /\ ~ReactionsDone /\ ~SkipClaimed
      BY <1>2, <2>2, <3>4 DEF Working, ReadCommands, CommandsDone, EventsDone, ReadRows, ReadRoots,
         RootsDone, RefuseCommand, FetchForCommand, FetchForCommandFails, FetchForEvent,
         FetchForEventFails, ClaimRoot, CommandRoot, SkipRoot, ProjectRoot, Take, Project, ProjectFails
    <3>5. CASE ~Working
      BY <3>1, <3>5, OtherActions DEF run, Begin, Running, React, ReactElsewhere, Record
    <3> QED
      BY <3>2, <3>3, <3>4, <3>5
  <2>4. held[t] = {}
    BY <1>2, <2>1, <2>3, ClaimGivesWay
  <2> QED
    BY <2>2, <2>4, HeldFrame
<1>3. CASE Settled(t, mem) /\ ~(pc = "bots" /\ job.at = t /\ job.kind = "root")
  <2>1. held[t] = {}
    BY <1>1, <1>3 DEF PromiseInv, BotsGaveWay
  <2> QED
    BY <1>1, <1>3, <2>1, HeldSettled
<1>4. CASE Project /\ job.kind = "event" /\ job.at = t
  <2>1. Busy /\ pc = "project" /\ UNCHANGED held
    BY <1>4 DEF Busy, Project, EndProject, slack
  <2>2. held[t] = {job.status} \ {None} /\ job.status = None
    BY <1>4, <2>1 DEF JobInv, Managed
  <2> QED
    BY <2>1, <2>2
<1> QED
  BY <1>2, <1>3, <1>4, SettledSoFar

\* Doubts of settled threads have been reported.
LEMMA ReportedStep ==
  ASSUME IInv, [Next]_vars, disk' = disk, NEW t \in Thread
  PROVE  DoubtsReported(t, disk)'
<1>1. Settled(t, disk)' => Settled(t, disk) /\ human'[t] = human[t]
  BY SettledBefore
<1>2. review \subseteq review'
  BY ReviewFrame
<1> QED
  BY <1>1, <1>2 DEF IInv, PromiseInv, DoubtsAreReviewed, DoubtsReported, Clear

LEMMA ReportedSoFar ==
  ASSUME IInv, [Next]_vars, Running, ~Save, ~Dies, NEW t \in Thread
  PROVE  DoubtsReported(t, mem)'
<1> SUFFICES ASSUME Settled(t, mem)', ~Clear(human'[t]) PROVE <<t, human'[t]>> \in review'
  BY DEF DoubtsReported, Clear
<1>1. human'[t] = human[t] /\ ~Moved(t) /\ review \subseteq review'
  BY SettledSoFar, ReviewFrame
<1>2. CASE Settled(t, mem)
  BY <1>1, <1>2 DEF IInv, PromiseInv, DoubtsReported
<1>3. CASE Project /\ job.kind = "event" /\ job.at = t
  BY <1>1, <1>3 DEF IInv, JobInv, Project, Busy
<1> QED
  BY <1>2, <1>3, SettledSoFar

LEMMA PromiseStep ==
  ASSUME IInv, [Next]_vars
  PROVE  PromiseInv'
<1> USE DEF IInv
<1>1. CASE Save
  <2>1. /\ disk' = mem /\ pc = "save" /\ pc' = "idle"
        /\ UNCHANGED <<slack, notes, notion, review>>
    BY <1>1 DEF Save, Idle
  <2>2. \A t \in Thread : ShowsSlack(t, mem) /\ BotsGaveWay(t, mem) /\ DoubtsReported(t, mem)
    BY <2>1 DEF PromiseInv, Running
  <2> QED
    BY <2>1, <2>2 DEF PromiseInv, Running, PageShowsSlack, OwnerOutranksBots, DoubtsAreReviewed,
       ShowsSlack, BotsGaveWay, DoubtsReported, Settled, Quiet, Effective, Managed, Clear, slack,
       notes, notion
<1>2. CASE disk' = disk
  <2>1. PageShowsSlack' /\ OwnerOutranksBots' /\ DoubtsAreReviewed'
    BY <1>2, ShowsStep, GaveWayStep, ReportedStep
       DEF PageShowsSlack, OwnerOutranksBots, DoubtsAreReviewed
  <2>2. CASE Dies
    BY <2>1, <2>2 DEF Dies, Idle, PromiseInv, Running
  <2>3. CASE Begin
    <3>1. mem' = disk' /\ pc' = "orders"
      BY <2>3 DEF Begin, Goto
    <3> QED
      BY <2>1, <3>1 DEF PromiseInv, PageShowsSlack, OwnerOutranksBots, DoubtsAreReviewed,
         ShowsSlack, BotsGaveWay, DoubtsReported, Settled, Quiet
  <2>4. CASE Running /\ ~Save /\ ~Dies
    BY <2>1, <2>4, ShowsSoFar, GaveWaySoFar, ReportedSoFar DEF PromiseInv
  <2>5. CASE ~Running /\ pc' = pc
    BY <2>1, <2>5 DEF PromiseInv, Running
  <2> QED
    BY <1>1, <2>2, <2>3, <2>4, <2>5, OtherActions, WorkingRuns
       DEF run, React, ReactElsewhere, Record
<1> QED
  BY <1>1, <1>2, OtherActions, WorkingFrame DEF Begin, Dies, React, ReactElsewhere, Record

\* Before anything happens, nothing is amiss.
LEMMA Starts ==
  ASSUME Init
  PROVE  IInv
<1> USE SyncAssumption DEF Init, Running, Busy
<1>1. TypeOK
  BY NoStateType DEF TypeOK, NoRows, Page, Shown, Event
<1>2. EventInv /\ CommandInv /\ OwnerInv /\ JobInv /\ RootInv /\ DoubtInv
  BY DEF EventInv, CommandInv, OwnerInv, JobInv, RootInv, DoubtInv, NoState
<1>3. PromiseInv
  BY DEF PromiseInv, PageShowsSlack, OwnerOutranksBots, DoubtsAreReviewed, ShowsSlack, BotsGaveWay,
     DoubtsReported, Clear
<1> QED
  BY <1>1, <1>2, <1>3 DEF IInv

\* The whole invariant is inductive, for any number of threads, statuses, reactions
\* and commands (sync.mjs:616-798).
THEOREM Inductive == Spec => []IInv
<1>1. Init => IInv
  BY Starts
<1>2. IInv /\ [Next]_vars => IInv'
  BY TypeStep, EventStep, OwnerStep, JobStep, RootStep, DoubtStep, PromiseStep DEF IInv
<1> QED
  BY <1>1, <1>2, PTL DEF Spec

\* The state file, the journals and the thread in hand have the types of TypeOK.
THEOREM TypeCorrect == Spec => []TypeOK
<1>1. IInv => TypeOK
  BY DEF IInv
<1> QED
  BY <1>1, Inductive, PTL

\* A row that nobody edited since says what the owner's reactions say, once they
\* are handled (sync.mjs:694-727).
THEOREM Projected == Spec => []PageShowsSlack
<1>1. IInv => PageShowsSlack
  BY DEF IInv, PromiseInv
<1> QED
  BY <1>1, Inductive, PTL

\* No command and no edit puts a bot's status beside the owner's on a claimed
\* thread that is settled (sync.mjs:668, :701, :739).
THEOREM Outranked == Spec => []OwnerOutranksBots
<1>1. IInv => OwnerOutranksBots
  BY DEF IInv, PromiseInv
<1> QED
  BY <1>1, Inductive, PTL

\* No contradiction of the owner's reactions is handled without a review entry
\* (sync.mjs:705-713, :775-783).
THEOREM Doubted == Spec => []DoubtsAreReviewed
<1>1. IInv => DoubtsAreReviewed
  BY DEF IInv, PromiseInv
<1> QED
  BY <1>1, Inductive, PTL
=============================================================================
