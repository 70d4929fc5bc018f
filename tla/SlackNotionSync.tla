---------------------------- MODULE SlackNotionSync ----------------------------
(***************************************************************************)
(* The status projector: services/slack-notion-sync/sync.mjs, with the two *)
(* journals the run-signature plugin writes for it.                        *)
(*                                                                         *)
(* A supervised job runs again and again, one run at a time.  A run reads  *)
(* its state file and the journals, executes the agents' commands, then    *)
(* handles the owner's reactions or, when there are none, reconciles every *)
(* thread; it writes the state file once, at its end.  In between, and at  *)
(* every call, the owner reacts in Slack and edits Notion, calls fail with *)
(* or without effect, and the run may die.                                 *)
(***************************************************************************)
EXTENDS Integers, Sequences

CONSTANTS
  Thread,      \* message roots of the joined channels
  Other,       \* messages that are no roots: replies, deleted and system messages
  Status,      \* workflow statuses, each with its reaction
  None,        \* no status
  Unseen,      \* a thread the state file does not know
  BaselineOf,  \* status a thread had before the migration, or None
  Writeback,   \* the migration writeback is enabled
  Legacy,      \* statuses the bots may show on a root at first
  Requests,    \* bound: commands the agents may queue
  MaxEvents,   \* bound: reactions of the owner
  MaxCommands  \* bound: commands of the agents

ASSUME SyncAssumption ==
  /\ None \notin Status /\ Unseen \notin Status \cup {None}
  /\ Thread \cap Other = {}
  /\ BaselineOf \in [Thread -> Status \cup {None}]
  /\ Writeback \in BOOLEAN
  /\ Legacy \subseteq SUBSET Status
  /\ Requests \subseteq [at : Thread \cup Other, status : Status \cup {None}]
  /\ MaxEvents \in Nat /\ MaxCommands \in Nat

Shown   == Status \cup {None}
Message == Thread \cup Other
Event   == [n : 1..MaxEvents, at : Message]
Command == [at : Message, status : Shown]

\* The state file: owner is the claim on a thread, shown its projected status and
\* with it its fingerprint, doubts the statuses last sent to review.
State == [owner    : [Thread -> {"none", "human", "bot", "notion"}],
          shown    : [Thread -> Shown \cup {Unseen}],
          events   : SUBSET Event,
          commands : SUBSET (1..MaxCommands),
          doubts   : [Thread -> SUBSET Status]]

\* A row of the database: absent, or its status and who wrote it last.
Page == [status : Shown, by : {"sync", "owner"}] \cup {None}

\* The thread in hand: what is to be done, the command it is for, what the root
\* showed, and the status it is to get.
Job == [kind : {"command", "event", "root"}, at : Thread, no : 0..MaxCommands,
        human : SUBSET Status, held : SUBSET Status, status : Shown, edited : BOOLEAN]

ASSUME NoneAssumption == None \notin Job /\ None \notin [status : Shown, by : {"sync", "owner"}]

VARIABLES
  human,     \* statuses the owner's reactions show on a root
  held,      \* statuses the managed bots' reactions show on a root
  sent,      \* events Slack sent for them
  arriving,  \* events the journal does not have yet
  journal,   \* events.jsonl
  fresh,     \* messages with an event younger than the debounce
  asked,     \* commands.jsonl
  page,      \* rows of the Notion database
  twice,     \* threads with two rows
  review,    \* manual-review.jsonl
  disk,      \* state.json
  mem,       \* the state the run works on
  pc,        \* where the run is
  todo,      \* events the run has yet to handle
  orders,    \* commands the run has yet to execute
  rows,      \* rows the reconciliation has read, before it reads the roots
  roots,     \* threads it has read and not yet handled, with what they showed
  job        \* the thread in hand

slack  == <<human, held>>
notes  == <<sent, arriving, journal, fresh, asked>>
notion == <<page, twice>>
run    == <<mem, pc, todo, orders, rows, roots, job>>
vars   == <<slack, notes, notion, review, disk, run>>

TypeOK ==
  /\ human \in [Thread -> SUBSET Status] /\ held \in [Thread -> SUBSET Status]
  /\ sent \in 0..MaxEvents
  /\ arriving \subseteq Event /\ journal \subseteq Event /\ fresh \subseteq Message
  /\ asked \in Seq(Command) /\ Len(asked) <= MaxCommands
  /\ page \in [Thread -> Page] /\ twice \subseteq Thread
  /\ review \subseteq Thread \X SUBSET Status
  /\ disk \in State /\ mem \in State
  /\ pc \in {"idle", "orders", "command", "event", "rows", "roots", "root", "bots",
             "project", "save"}
  /\ todo \subseteq Event /\ orders \subseteq 1..MaxCommands
  /\ rows \in [Thread -> Shown \cup {Unseen}]
  /\ roots \subseteq [at : Thread, human : SUBSET Status, held : SUBSET Status]
  /\ job \in Job \cup {None}

NoState == [owner    |-> [t \in Thread |-> "none"],
            shown    |-> [t \in Thread |-> Unseen],
            events   |-> {},
            commands |-> {},
            doubts   |-> [t \in Thread |-> {}]]

NoRows == [t \in Thread |-> Unseen]

Idle == /\ mem' = NoState /\ pc' = "idle" /\ todo' = {} /\ orders' = {}
        /\ rows' = NoRows /\ roots' = {} /\ job' = None

Init ==
  /\ human = [t \in Thread |-> {}]
  /\ held \in [Thread -> Legacy]
  /\ sent = 0 /\ arriving = {} /\ journal = {} /\ fresh = {} /\ asked = <<>>
  /\ page = [t \in Thread |-> None] /\ twice = {} /\ review = {}
  /\ disk = NoState
  /\ mem = NoState /\ pc = "idle" /\ todo = {} /\ orders = {}
  /\ rows = NoRows /\ roots = {} /\ job = None

(***************************************************************************)
(* The owner and the agents: human-status-events.mjs, status-command.mjs.  *)
(***************************************************************************)

\* Slack sends an event for a reaction on a message.
SendEvent(x) ==
  /\ sent < MaxEvents
  /\ sent' = sent + 1
  /\ arriving' = arriving \cup {[n |-> sent + 1, at |-> x]}

\* The owner sets a status reaction or takes it back.
React(t, s) ==
  /\ human' = [human EXCEPT ![t] = IF s \in @ THEN @ \ {s} ELSE @ \cup {s}]
  /\ SendEvent(t)
  /\ UNCHANGED <<held, journal, fresh, asked, notion, review, disk, run>>

\* The reactions count on any message; the bridge does not ask whether it is a root.
ReactElsewhere(x) ==
  /\ SendEvent(x)
  /\ UNCHANGED <<slack, journal, fresh, asked, notion, review, disk, run>>

\* The bridge appends the event; another delivery of it has the same id.
Record(e) ==
  /\ e \in arriving
  /\ arriving' = arriving \ {e}
  /\ journal' = journal \cup {e}
  /\ fresh' = fresh \cup {e.at}
  /\ UNCHANGED <<slack, sent, asked, notion, review, disk, run>>

\* The debounce of a message is over.
Ages(x) ==
  /\ x \in fresh
  /\ fresh' = fresh \ {x}
  /\ UNCHANGED <<slack, sent, arriving, journal, asked, notion, review, disk, run>>

\* set_thread_status queues a command.
Ask(c) ==
  /\ Len(asked) < MaxCommands
  /\ asked' = Append(asked, c)
  /\ UNCHANGED <<slack, sent, arriving, journal, fresh, notion, review, disk, run>>

\* The owner edits the status of a row.
Edit(t, s) ==
  /\ page[t] # None /\ page[t].status # s
  /\ page' = [page EXCEPT ![t] = [status |-> s, by |-> "owner"]]
  /\ UNCHANGED <<slack, notes, twice, review, disk, run>>

(***************************************************************************)
(* A run: main.                                                            *)
(***************************************************************************)

Goto(step) == pc' = step

\* State and events are read; a message with a fresh event waits for its debounce.
Begin ==
  /\ pc = "idle"
  /\ mem' = disk
  /\ todo' = {e \in journal \ disk.events : e.at \notin fresh}
  /\ Goto("orders")
  /\ UNCHANGED <<slack, notes, notion, review, disk, orders, rows, roots, job>>

ReadCommands ==
  /\ pc = "orders"
  /\ orders' = (1..Len(asked)) \ mem.commands
  /\ Goto("command")
  /\ UNCHANGED <<slack, notes, notion, review, disk, mem, todo, rows, roots, job>>

\* What the managed bots show, as far as the run looks.
Managed(t) == IF Writeback THEN held[t] ELSE {}

Clear(s) == \A x, y \in s : x = y

Only(s) == IF s # {} /\ Clear(s) THEN CHOOSE x \in s : TRUE ELSE None

\* The status of a thread: the owner's, else the bots', else that of the baseline.
Effective(t, h, b, owner) ==
  CASE h # {}           -> Only(h)
    [] h = {} /\ b # {} -> Only(b)
    [] OTHER            -> IF owner = "none" THEN BaselineOf[t] ELSE None

Doing(kind, t, no, h, b, status, edited) ==
  [kind |-> kind, at |-> t, no |-> no, human |-> h, held |-> b, status |-> status,
   edited |-> edited]

\* Commands are executed in the order of the journal.
First(k) == k \in orders /\ \A j \in orders : k <= j

\* Mutant: the owner's reactions are not asked for.
RefusedUnread(c) == ~Writeback \/ c.at \notin Thread

\* A command on a message that is no root, or that the owner's reactions rule, is over.
Refused(c) == ~Writeback \/ c.at \notin Thread \/ human[c.at] # {}

RefuseCommand(k) ==
  /\ pc = "command" /\ First(k) /\ Refused(asked[k])
  /\ mem' = [mem EXCEPT !.commands = @ \cup {k}]
  /\ orders' = orders \ {k}
  /\ UNCHANGED <<slack, notes, notion, review, disk, pc, todo, rows, roots, job>>

FetchForCommand(k) ==
  /\ pc = "command" /\ First(k) /\ ~Refused(asked[k])
  /\ job' = Doing("command", asked[k].at, k, {}, held[asked[k].at], asked[k].status, FALSE)
  /\ Goto("bots")
  /\ UNCHANGED <<slack, notes, notion, review, disk, mem, todo, orders, rows, roots>>

\* Slack does not answer: the command is left for the next run.
FetchForCommandFails(k) ==
  /\ pc = "command" /\ First(k)
  /\ orders' = orders \ {k}
  /\ UNCHANGED <<slack, notes, notion, review, disk, mem, pc, todo, rows, roots, job>>

CommandsDone ==
  /\ pc = "command" /\ orders = {}
  /\ Goto(IF todo = {} THEN "rows" ELSE "event")
  /\ UNCHANGED <<slack, notes, notion, review, disk, mem, todo, orders, rows, roots, job>>

Events(x) == {e \in todo : e.at = x}

\* The first event of the owner claims the root, and its bots give way.
FetchForEvent(t) ==
  /\ pc = "event" /\ Events(t) # {}
  /\ mem' = [mem EXCEPT !.owner[t] = "human"]
  /\ job' = Doing("event", t, 0, human[t], Managed(t), None, FALSE)
  /\ Goto("bots")
  /\ UNCHANGED <<slack, notes, notion, review, disk, todo, orders, rows, roots>>

\* No answer, or no root: the events stay for a later run.
FetchForEventFails(x) ==
  /\ pc = "event" /\ Events(x) # {}
  /\ todo' = todo \ Events(x)
  /\ UNCHANGED <<slack, notes, notion, review, disk, mem, pc, orders, rows, roots, job>>

EventsDone ==
  /\ pc = "event" /\ todo = {}
  /\ Goto("save")
  /\ UNCHANGED <<slack, notes, notion, review, disk, mem, todo, orders, rows, roots, job>>

\* The reconciliation lists the database, then the channels.
ReadRows ==
  /\ pc = "rows"
  /\ rows' = [t \in Thread |-> IF page[t] = None THEN Unseen ELSE page[t].status]
  /\ Goto("roots")
  /\ UNCHANGED <<slack, notes, notion, review, disk, mem, todo, orders, roots, job>>

ReadRoots ==
  /\ pc = "roots"
  /\ roots' = {[at |-> t, human |-> human[t], held |-> Managed(t)] : t \in Thread}
  /\ Goto("root")
  /\ UNCHANGED <<slack, notes, notion, review, disk, mem, todo, orders, rows, job>>

RowStatus(t) == IF rows[t] = Unseen THEN None ELSE rows[t]

\* The owner's reactions claim a baseline thread.
Claims(r) == r.human # {} /\ BaselineOf[r.at] # None /\ mem.owner[r.at] = "none"

\* An edit of an unclaimed baseline row is a command to the bots.
Edited(r) ==
  /\ Writeback /\ BaselineOf[r.at] # None /\ r.human = {} /\ mem.owner[r.at] # "human"
  /\ mem.shown[r.at] # Unseen /\ mem.shown[r.at] # RowStatus(r.at)

\* The row was written for this status; text and replies may have changed since.
Unchanged(t, status) == rows[t] # Unseen /\ mem.shown[t] = status

Take(r, does) ==
  /\ pc = "root" /\ r \in roots
  /\ roots' = roots \ {r}
  /\ does
  /\ UNCHANGED <<slack, notes, notion, review, disk, todo, orders, rows>>

Shows(r) == Effective(r.at, r.human, r.held, mem.owner[r.at])

ClaimRoot(r) ==
  /\ Claims(r)
  /\ Take(r, /\ mem' = [mem EXCEPT !.owner[r.at] = "human"]
             /\ job' = Doing("root", r.at, 0, r.human, r.held, None, FALSE)
             /\ Goto("bots"))

CommandRoot(r) ==
  /\ ~Claims(r) /\ Edited(r)
  /\ Take(r, /\ job' = Doing("root", r.at, 0, r.human, r.held, RowStatus(r.at), TRUE)
             /\ Goto("bots")
             /\ UNCHANGED mem)

SkipRoot(r) ==
  /\ ~Claims(r) /\ ~Edited(r) /\ Unchanged(r.at, Shows(r))
  /\ Take(r, UNCHANGED <<mem, job, pc>>)

ProjectRoot(r) ==
  /\ ~Claims(r) /\ ~Edited(r)
  /\ Take(r, /\ job' = Doing("root", r.at, 0, r.human, r.held, Shows(r), FALSE)
             /\ Goto("project")
             /\ UNCHANGED mem)

RootsDone ==
  /\ pc = "root" /\ roots = {}
  /\ Goto("save")
  /\ UNCHANGED <<slack, notes, notion, review, disk, mem, todo, orders, rows, roots, job>>

(***************************************************************************)
(* The thread in hand: writeManagedBotStatus, then upsertRow.              *)
(***************************************************************************)

\* The thread is done with, whatever came of it.
Finish ==
  /\ job' = None
  /\ Goto(job.kind)
  /\ orders' = IF job.kind = "command" THEN orders \ {job.no} ELSE orders
  /\ todo' = IF job.kind = "event" THEN todo \ Events(job.at) ELSE todo

Outdated == job.held \ {job.status}

\* A reaction that is no longer wanted is taken away; the answer may get lost.
RemoveReaction ==
  /\ pc = "bots"
  /\ \E s \in Outdated :
       /\ held' = [held EXCEPT ![job.at] = @ \ {s}]
       /\ job' = [job EXCEPT !.held = @ \ {s}]
  /\ UNCHANGED <<human, notes, notion, review, disk, mem, pc, todo, orders, rows, roots>>

AddReaction ==
  /\ pc = "bots" /\ Outdated = {} /\ job.status \notin job.held \cup {None}
  /\ held' = [held EXCEPT ![job.at] = @ \cup {job.status}]
  /\ job' = [job EXCEPT !.held = @ \cup {job.status}]
  /\ UNCHANGED <<human, notes, notion, review, disk, mem, pc, todo, orders, rows, roots>>

\* A call fails: a command or an event is left for the next run.
ReactionFails ==
  /\ pc = "bots" /\ job.kind # "root"
  /\ Finish
  /\ UNCHANGED <<slack, notes, notion, review, disk, mem, rows, roots>>

\* The claim a write of the bots leaves.
ClaimAfter(j) ==
  CASE j.kind = "command" /\ BaselineOf[j.at] # None -> "bot"
    [] j.edited                                      -> "notion"
    [] OTHER                                         -> mem.owner[j.at]

\* Several statuses of the owner go to review, once for each set of them.
Doubtful(h) == IF Clear(h) THEN {} ELSE h

Reviewed(t, h) ==
  review' = IF Doubtful(h) \in {{}, mem.doubts[t]} THEN review ELSE review \cup {<<t, h>>}

StatusOf(j) == IF j.human # {} THEN Only(j.human) ELSE j.status

Reacted == pc = "bots" /\ Outdated = {} /\ job.status \in job.held \cup {None}

ReactionsDone ==
  /\ Reacted
  /\ LET claimed == [mem EXCEPT !.owner[job.at] = ClaimAfter(job)] IN
     IF job.kind = "event"
     THEN /\ Reviewed(job.at, job.human)
          /\ mem' = [claimed EXCEPT !.doubts[job.at] = Doubtful(job.human)]
     ELSE mem' = claimed /\ UNCHANGED review
  /\ Goto("project")
  /\ UNCHANGED <<slack, notes, notion, disk, todo, orders, rows, roots, job>>

\* A thread the reconciliation has just claimed may have its row already.
SkipClaimed ==
  /\ Reacted /\ job.kind = "root" /\ ~job.edited /\ Unchanged(job.at, StatusOf(job))
  /\ Finish
  /\ UNCHANGED <<slack, notes, notion, review, disk, mem, rows, roots>>

\* The row is updated, or created when the lookup found none; a create that is
\* answered late is made again by apiJson.
Upsert ==
  /\ page' = [page EXCEPT ![job.at] = [status |-> StatusOf(job), by |-> "sync"]]
  /\ \/ UNCHANGED twice
     \/ page[job.at] = None /\ twice' = twice \cup {job.at}

\* Mutant: every event of the thread that is journalled by now counts as handled.
NotedByThread ==
  [mem EXCEPT !.shown[job.at] = StatusOf(job),
              !.events = IF job.kind = "event" THEN @ \cup {e \in journal : e.at = job.at} ELSE @,
              !.commands = IF job.kind = "command" THEN @ \cup {job.no} ELSE @]

\* What the run notes once the row is written.
Noted ==
  [mem EXCEPT !.shown[job.at] = StatusOf(job),
              !.events = IF job.kind = "event" THEN @ \cup Events(job.at) ELSE @,
              !.commands = IF job.kind = "command" THEN @ \cup {job.no} ELSE @]

\* A row that could not be written is unknown to the next reconciliation.
Missed == IF job.kind = "root" THEN [mem EXCEPT !.shown[job.at] = Unseen] ELSE mem

\* A reconciled thread ends with its review, written or not.
EndProject(state) ==
  /\ IF job.kind = "root"
     THEN /\ Reviewed(job.at, job.human)
          /\ mem' = [state EXCEPT !.doubts[job.at] = Doubtful(job.human)]
     ELSE mem' = state /\ UNCHANGED review
  /\ Finish
  /\ UNCHANGED <<slack, notes, disk, rows, roots>>

\* The lookup of a single thread refuses two rows with one key.
Refuses == job.kind # "root" /\ job.at \in twice

Project ==
  /\ pc = "project" /\ ~Refuses
  /\ Upsert
  /\ EndProject(Noted)

ProjectFails ==
  /\ pc = "project"
  /\ \/ UNCHANGED notion
     \/ ~Refuses /\ Upsert
  /\ EndProject(Missed)

\* The state file is replaced whole.
Save ==
  /\ pc = "save"
  /\ disk' = mem
  /\ Idle
  /\ UNCHANGED <<slack, notes, notion, review>>

\* The run is killed, or an error outside its try blocks ends it: nothing is saved.
Dies ==
  /\ pc # "idle"
  /\ Idle
  /\ UNCHANGED <<slack, notes, notion, review, disk>>

Run ==
  \/ Begin \/ ReadCommands
  \/ \E k \in orders : RefuseCommand(k) \/ FetchForCommand(k)
  \/ CommandsDone
  \/ \E t \in Thread : FetchForEvent(t)
  \/ \E x \in Other : FetchForEventFails(x)
  \/ EventsDone \/ ReadRows \/ ReadRoots
  \/ \E r \in roots : ClaimRoot(r) \/ CommandRoot(r) \/ SkipRoot(r) \/ ProjectRoot(r)
  \/ RootsDone \/ RemoveReaction \/ AddReaction \/ ReactionsDone
  \/ SkipClaimed \/ Project \/ Save

Failure ==
  \/ \E k \in orders : FetchForCommandFails(k)
  \/ \E t \in Thread : FetchForEventFails(t)
  \/ ReactionFails \/ ProjectFails \/ Dies

World ==
  \/ \E t \in Thread, s \in Status : React(t, s)
  \/ \E x \in Other : ReactElsewhere(x)
  \/ \E e \in arriving : Record(e)
  \/ \E x \in fresh : Ages(x)
  \/ \E c \in Requests : Ask(c)
  \/ \E t \in Thread, s \in Shown : Edit(t, s)

Next == Run \/ Failure \/ World

Spec == Init /\ [][Next]_vars

-----------------------------------------------------------------------------
\* By the state file s, every reaction of the owner on t has been handled.
Settled(t, s) == \A e \in arriving \cup journal : e.at = t => e \in s.events

\* No command of an agent on t waits; without the writeback none has an effect.
Quiet(t, s) == Writeback => \A k \in 1..Len(asked) : asked[k].at = t => k \in s.commands

ShowsSlack(t, s) ==
  /\ Settled(t, s)
  /\ human[t] # {} \/ (s.owner[t] = "human" /\ Quiet(t, s))
  /\ page[t] # None /\ page[t].by = "sync"
  => page[t].status = Effective(t, human[t], Managed(t), s.owner[t])

BotsGaveWay(t, s) ==
  Writeback /\ Settled(t, s) /\ s.owner[t] = "human" /\ human[t] # {} => held[t] = {}

DoubtsReported(t, s) ==
  Settled(t, s) /\ ~Clear(human[t]) => <<t, human[t]>> \in review

\* Slack is authoritative for a thread the owner reacts to or has claimed: unless
\* somebody edited it since, its row says what the reactions say, whatever failed
\* or died on the way (README.md:3, sync.mjs:697-727).
PageShowsSlack == \A t \in Thread : ShowsSlack(t, disk)

\* Once the owner claimed a thread, the bots show nothing beside the owner's
\* reactions, whichever command or edit was under way (sync.mjs:701-705, :739).
OwnerOutranksBots == \A t \in Thread : BotsGaveWay(t, disk)

\* Contradicting reactions of the owner are in the review journal once their
\* events are handled (sync.mjs:706-714).
DoubtsAreReviewed == \A t \in Thread : DoubtsReported(t, disk)

\* The job runs again and again, calls end, the debounce passes, and outages and
\* kills come to an end.
LiveSpec ==
  /\ Spec
  /\ WF_vars(Run)
  /\ \A x \in Message : WF_vars(Ages(x))
  /\ <>[][~Failure \/ Run]_vars

\* The regular scan is recovery and inventory: every root gets a row, whatever the
\* owner reacts to (README.md:9, sync.mjs:694, :729).
RootsAreListed == \A t \in Thread : <>(page[t] # None)
=============================================================================
