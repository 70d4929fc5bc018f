---------------------------- MODULE NotionComments ----------------------------
(***************************************************************************)
(* The Notion comment channel: services/notion-comments/channel.mjs over   *)
(* the table of store.mjs, as server.mjs starts, stops and restarts it.    *)
(*                                                                         *)
(* Three activities share the rows: webhooks insert them, one serial       *)
(* worker (Channel.drain) routes and dispatches them one at a time, and a  *)
(* waiter per admitted run (Channel.watch) follows it to its reply.  Rows, *)
(* runs and posted replies survive a crash; worker and waiters do not.     *)
(***************************************************************************)
EXTENDS Integers, Sequences

CONSTANTS
  Comment,      \* Notion comments
  Agent,        \* agents, each with its own connection
  None,         \* no agent
  Foreign,      \* comments somebody other than the owner wrote
  Detached,     \* comments without a discussion
  AddressOf,    \* agent of the first mention of a comment, or None
  DiscussionOf  \* discussion of a comment

ASSUME CommentAssumption ==
  /\ None \notin Agent
  /\ AddressOf \in [Comment -> Agent \cup {None}]

Row == [comment : Comment, agent : Agent]

VARIABLES
  order,   \* rows in rowid order
  state,   \* state column of a row
  up,      \* the service runs
  pc,      \* where the worker is
  pos,     \* row the worker's drain is at
  size,    \* rows there were when the drain began
  waiter,  \* what the waiter of a row does
  run,     \* the gateway's run for a row
  turns,   \* how often the gateway was asked to run a row
  posts,   \* how often a reply to a row was sent to Notion
  posted   \* rows whose reply Notion shows

worker  == <<pc, pos, size>>
outside == <<run, turns, posts, posted>>
vars    == <<order, state, up, worker, waiter, outside>>

States == {"absent", "received", "ignored", "dispatching", "waiting", "replying",
           "replied", "no_reply", "held"}

TypeOK ==
  /\ order \in Seq(Row)
  /\ state \in [Row -> States]
  /\ up \in BOOLEAN
  /\ pc \in {"idle", "fetch", "page", "admit", "admitting"}
  /\ pos \in Nat /\ size \in Nat
  /\ waiter \in [Row -> {"none", "wait", "reply", "replying"}]
  /\ run \in [Row -> {"none", "asked", "running", "answer", "silent", "failed"}]
  /\ turns \in [Row -> Nat]
  /\ posts \in [Row -> Nat]
  /\ posted \subseteq Row

Init ==
  /\ order = <<>>
  /\ state = [r \in Row |-> "absent"]
  /\ up = FALSE
  /\ pc = "idle" /\ pos = 0 /\ size = 0
  /\ waiter = [r \in Row |-> "none"]
  /\ run = [r \in Row |-> "none"]
  /\ turns = [r \in Row |-> 0]
  /\ posts = [r \in Row |-> 0]
  /\ posted = {}

Update(r, s) == state' = [state EXCEPT ![r] = s]

\* The webhook of one connection: the row is on disk before the answer; an event
\* delivered again finds it there.
Receive(r) ==
  /\ up /\ state[r] = "absent"
  /\ order' = Append(order, r)
  /\ Update(r, "received")
  /\ UNCHANGED <<up, worker, waiter, outside>>

(***************************************************************************)
(* The serial worker: Channel.drain and Channel.process.                   *)
(***************************************************************************)

Goto(step) == pc' = step /\ UNCHANGED <<pos, size>>

\* A drain takes the rows that are received when it begins, in rowid order; rows
\* that arrive meanwhile are for the next one.
BeginDrain ==
  /\ up /\ pc = "idle"
  /\ pc' = "fetch" /\ pos' = 1 /\ size' = Len(order)
  /\ UNCHANGED <<order, state, up, waiter, outside>>

Cur == order[pos]

NextRow == pc' = "fetch" /\ pos' = pos + 1 /\ UNCHANGED size

SkipRow ==
  /\ pc = "fetch" /\ pos <= size
  /\ state[Cur] # "received"
  /\ NextRow
  /\ UNCHANGED <<order, state, up, waiter, outside>>

Fetching == pc = "fetch" /\ pos <= size /\ state[Cur] = "received"

\* Network trouble, 429 or 5xx: the row is left for the next drain.
FetchFails ==
  /\ Fetching
  /\ NextRow
  /\ UNCHANGED <<order, state, up, waiter, outside>>

Dispatched(r) == state[r] \notin {"absent", "received", "ignored"}

\* The agent of the newest dispatched row of the discussion, by rowid.
Leads(a, d) ==
  \E i \in 1..Len(order) :
    /\ order[i].agent = a
    /\ Dispatched(order[i]) /\ DiscussionOf[order[i].comment] = d
    /\ \A j \in (i + 1)..Len(order) :
         ~(Dispatched(order[j]) /\ DiscussionOf[order[j].comment] = d)

Addressed(r) ==
  /\ r.comment \notin Foreign /\ r.comment \notin Detached
  /\ IF AddressOf[r.comment] # None
     THEN AddressOf[r.comment] = r.agent
     ELSE Leads(r.agent, DiscussionOf[r.comment])

\* The comment is gone, or it is not for this agent.
Ignore ==
  /\ Fetching
  /\ Update(Cur, "ignored")
  /\ NextRow
  /\ UNCHANGED <<order, up, waiter, outside>>

Route ==
  /\ Fetching /\ Addressed(Cur)
  /\ Goto("page")
  /\ UNCHANGED <<order, state, up, waiter, outside>>

\* With the page or without it: the request record is written, the row marked.
Dispatch ==
  /\ pc = "page"
  /\ Update(Cur, "dispatching")
  /\ Goto("admit")
  /\ UNCHANGED <<order, up, waiter, outside>>

CallAgent ==
  /\ pc = "admit"
  /\ turns' = [turns EXCEPT ![Cur] = @ + 1]
  /\ run' = [run EXCEPT ![Cur] = IF @ = "none" THEN "asked" ELSE @]
  /\ Goto("admitting")
  /\ UNCHANGED <<order, state, up, waiter, posts, posted>>

\* watch: at most one waiter per row.
Watched(rows) == [r \in Row |-> IF r \in rows /\ waiter[r] = "none" THEN "wait" ELSE waiter[r]]

Admitted ==
  /\ pc = "admitting" /\ run[Cur] \notin {"none", "asked"}
  /\ Update(Cur, "waiting")
  /\ waiter' = Watched({Cur})
  /\ NextRow
  /\ UNCHANGED <<order, up, outside>>

\* An error, a timeout or an answer without a run id.
Unconfirmed ==
  /\ pc = "admitting"
  /\ Update(Cur, "held")
  /\ NextRow
  /\ UNCHANGED <<order, up, waiter, outside>>

\* Mutant: a drain leaves waiting rows to the process that admitted them.
EndDrainOnly ==
  /\ pc = "fetch" /\ pos > size
  /\ pc' = "idle" /\ pos' = 0 /\ size' = 0
  /\ UNCHANGED <<order, state, up, waiter, outside>>

\* The drain ends by taking up the rows a former process was waiting on.
EndDrain ==
  /\ pc = "fetch" /\ pos > size
  /\ pc' = "idle" /\ pos' = 0 /\ size' = 0
  /\ waiter' = Watched({r \in Row : state[r] = "waiting"})
  /\ UNCHANGED <<order, state, up, outside>>

(***************************************************************************)
(* The waiter of a run: Channel.wait and Channel.finish.                   *)
(***************************************************************************)

Finish(r, s) ==
  /\ Update(r, s)
  /\ waiter' = [waiter EXCEPT ![r] = "none"]
  /\ UNCHANGED <<order, up, worker, outside>>

\* A failed run, a finished run whose text cannot be read, or the wait ceiling.
WaitHeld(r) == waiter[r] = "wait" /\ Finish(r, "held")

\* A silent or empty reply posts nothing.
WaitSilent(r) == waiter[r] = "wait" /\ run[r] = "silent" /\ Finish(r, "no_reply")

\* The text comes with the result, or from the transcript of the session.
WaitAnswered(r) ==
  /\ waiter[r] = "wait" /\ run[r] = "answer"
  /\ Update(r, "replying")
  /\ waiter' = [waiter EXCEPT ![r] = "reply"]
  /\ UNCHANGED <<order, up, worker, outside>>

\* Overload is retried inside the call; it is refused before anything is posted.
PostReply(r) ==
  /\ waiter[r] = "reply"
  /\ posts' = [posts EXCEPT ![r] = @ + 1]
  /\ waiter' = [waiter EXCEPT ![r] = "replying"]
  /\ UNCHANGED <<order, state, up, worker, run, turns, posted>>

ReplyConfirmed(r) == waiter[r] = "replying" /\ r \in posted /\ Finish(r, "replied")

ReplyUnconfirmed(r) == waiter[r] = "replying" /\ Finish(r, "held")

(***************************************************************************)
(* The gateway, the end of the process and its next start.                 *)
(***************************************************************************)

StartRun(r) ==
  /\ run[r] = "asked"
  /\ run' = [run EXCEPT ![r] = "running"]
  /\ UNCHANGED <<order, state, up, worker, waiter, turns, posts, posted>>

EndRun(r) ==
  /\ run[r] = "running"
  /\ \E s \in {"answer", "silent", "failed"} : run' = [run EXCEPT ![r] = s]
  /\ UNCHANGED <<order, state, up, worker, waiter, turns, posts, posted>>

\* A reply may show up after its sender stopped waiting, or never.
ReplyLands(r) ==
  /\ posts[r] > 0
  /\ posted' = posted \cup {r}
  /\ UNCHANGED <<order, state, up, worker, waiter, run, turns, posts>>

\* SIGTERM waits for the worker, a crash for nobody; neither waits for waiters.
Stop ==
  /\ up
  /\ up' = FALSE
  /\ pc' = "idle" /\ pos' = 0 /\ size' = 0
  /\ waiter' = [r \in Row |-> "none"]
  /\ UNCHANGED <<order, state, outside>>

\* Mutant: an interrupted admission is tried again.
AdmitAgain(s) == IF s = "dispatching" THEN "received" ELSE IF s = "replying" THEN "held" ELSE s

\* Mutant: an interrupted reply is waited for again.
WaitAgain(s) == IF s = "dispatching" THEN "held" ELSE IF s = "replying" THEN "waiting" ELSE s

\* holdInterrupted: an admission or a reply of unknown outcome is never repeated.
AfterRestart(s) == IF s \in {"dispatching", "replying"} THEN "held" ELSE s

Start ==
  /\ ~up
  /\ up' = TRUE
  /\ state' = [r \in Row |-> AfterRestart(state[r])]
  /\ UNCHANGED <<order, worker, waiter, outside>>

Worker == \/ BeginDrain \/ SkipRow \/ FetchFails \/ Ignore \/ Route \/ Dispatch \/ CallAgent
          \/ Admitted \/ Unconfirmed \/ EndDrain

Wait(r) == \/ WaitHeld(r) \/ WaitSilent(r) \/ WaitAnswered(r)
           \/ PostReply(r) \/ ReplyConfirmed(r) \/ ReplyUnconfirmed(r)

Next ==
  \/ \E r \in Row : Receive(r) \/ Wait(r) \/ StartRun(r) \/ EndRun(r) \/ ReplyLands(r)
  \/ Worker \/ Stop \/ Start

Spec == Init /\ [][Next]_vars

-----------------------------------------------------------------------------
\* Over replays, restarts and lost answers, a comment is given to an agent at most
\* once and answered by it at most once (channel.mjs:125-133, :178-181).
OneTurnOneReply == \A r \in Row : turns[r] <= 1 /\ posts[r] <= 1

Settled == {"ignored", "replied", "no_reply", "held"}

\* A settled row keeps its outcome: no late waiter, next drain or restart reopens
\* or overwrites it (store.update writes without asking for the old state).
OutcomeIsFinal == [][\A r \in Row : state[r] \in Settled => state'[r] = state[r]]_vars

\* What Notion shows and what the ledger says agree: a reply on show is recorded
\* as replied, or held for an operator once nobody works on it any more.
LedgerMatchesNotion ==
  /\ \A r \in Row : state[r] = "replied" => r \in posted
  /\ \A r \in posted : state[r] \in {"replying", "replied", "held"}

\* While the service runs, no row is stuck where health does not see it: a row
\* being dispatched is the worker's, a row being answered has its waiter, and a
\* waiter follows a run the gateway confirmed (store.mjs:37-40, channel.mjs:125-139).
NobodyIsForgotten ==
  up => \A r \in Row :
    /\ state[r] = "dispatching" => pc \in {"admit", "admitting"} /\ r = Cur
    /\ state[r] = "replying" <=> waiter[r] \in {"reply", "replying"}
    /\ waiter[r] = "wait" => state[r] = "waiting" /\ run[r] \notin {"none", "asked"}

\* The timer drains again and again, Notion and the gateway answer again and again
\* (calls carry timeouts), the wait ceiling passes, and restarts come to an end.
LiveSpec ==
  /\ Spec
  /\ WF_vars(Worker) /\ SF_vars(Start)
  /\ SF_vars(Ignore \/ Route)
  /\ \A r \in Row : WF_vars(Wait(r))
  /\ <>[][~Stop]_vars

\* Every row on the ledger comes to an outcome an owner or an operator can see.
RowsSettle == \A r \in Row : state[r] # "absent" ~> state[r] \in Settled
=============================================================================
