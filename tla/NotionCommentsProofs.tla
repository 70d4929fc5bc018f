------------------------- MODULE NotionCommentsProofs -------------------------
(***************************************************************************)
(* Proofs about NotionComments, for every set of comments and agents.      *)
(***************************************************************************)
EXTENDS NotionComments, TLAPS

\* Where the worker is: on a row of the ledger, in the state its step left it in.
WorkerInv ==
  /\ ~up => pc = "idle" /\ \A r \in Row : waiter[r] = "none"
  /\ pc # "idle" => pos \in 1..(size + 1) /\ size <= Len(order)
  /\ pc \in {"page", "admit", "admitting"} => pos <= size
  /\ pc = "page" => state[Cur] = "received"
  /\ pc \in {"admit", "admitting"} => state[Cur] = "dispatching"
  /\ pc = "admit" => turns[Cur] = 0

\* What the state of a row says of its turn, its waiter and its reply.
RowInv ==
  \A r \in Row :
    /\ state[r] \in {"absent", "received"} => turns[r] = 0
    /\ state[r] \in {"absent", "received", "ignored", "dispatching", "waiting", "no_reply"} =>
         posts[r] = 0
    /\ waiter[r] = "reply" => posts[r] = 0
    /\ waiter[r] = "wait" => state[r] = "waiting"
    /\ state[r] = "waiting" => run[r] \notin {"none", "asked"}
    /\ waiter[r] \in {"reply", "replying"} => state[r] = "replying"
    /\ r \in posted => posts[r] > 0
    /\ turns[r] = 0 => run[r] = "none"

IInv ==
  /\ TypeOK /\ WorkerInv /\ RowInv
  /\ OneTurnOneReply /\ LedgerMatchesNotion /\ NobodyIsForgotten

\* The worker's row is a row.
LEMMA CurIsRow ==
  ASSUME TypeOK, WorkerInv, pc # "idle", pos <= size
  PROVE  Cur \in Row
<1>1. pos \in 1..Len(order)
  BY DEF TypeOK, WorkerInv
<1> QED
  BY <1>1 DEF TypeOK, Cur

\* The watch of a drain or an admission starts waiters and ends none.
LEMMA WatchedType ==
  ASSUME TypeOK, NEW rows
  PROVE  /\ Watched(rows) \in [Row -> {"none", "wait", "reply", "replying"}]
         /\ \A r \in Row : Watched(rows)[r] = waiter[r]
                             \/ (r \in rows /\ waiter[r] = "none" /\ Watched(rows)[r] = "wait")
  BY DEF TypeOK, Watched

LEMMA TypeStep ==
  IInv /\ [Next]_vars => TypeOK'
<1> SUFFICES ASSUME TypeOK, WorkerInv, [Next]_vars PROVE TypeOK'
  BY DEF IInv
<1> USE DEF Update, Goto, NextRow, worker, outside, States
<1>1. ASSUME NEW r \in Row, Receive(r) PROVE TypeOK'
  <2>1. order' \in Seq(Row)
    BY <1>1 DEF Receive, TypeOK
  <2> QED
    BY <1>1, <2>1 DEF Receive, TypeOK
<1>2. CASE BeginDrain
  BY <1>2 DEF BeginDrain, TypeOK
<1>3. CASE SkipRow \/ FetchFails \/ Route
  BY <1>3 DEF SkipRow, FetchFails, Route, TypeOK
<1>4. CASE Ignore
  BY <1>4, CurIsRow DEF Ignore, Fetching, TypeOK
<1>5. CASE Dispatch
  BY <1>5, CurIsRow DEF Dispatch, WorkerInv, TypeOK
<1>6. CASE CallAgent
  BY <1>6, CurIsRow DEF CallAgent, WorkerInv, TypeOK
<1>7. CASE Admitted
  BY <1>7, CurIsRow, WatchedType DEF Admitted, WorkerInv, TypeOK
<1>8. CASE Unconfirmed
  BY <1>8, CurIsRow DEF Unconfirmed, WorkerInv, TypeOK
<1>9. CASE EndDrain
  BY <1>9, WatchedType DEF EndDrain, TypeOK
<1>10. ASSUME NEW r \in Row, Wait(r) PROVE TypeOK'
  <2>1. CASE WaitHeld(r) \/ WaitSilent(r) \/ ReplyConfirmed(r) \/ ReplyUnconfirmed(r)
    BY <2>1 DEF WaitHeld, WaitSilent, ReplyConfirmed, ReplyUnconfirmed, Finish, TypeOK
  <2>2. CASE WaitAnswered(r)
    BY <2>2 DEF WaitAnswered, TypeOK
  <2>3. CASE PostReply(r)
    BY <2>3 DEF PostReply, TypeOK
  <2> QED
    BY <1>10, <2>1, <2>2, <2>3 DEF Wait
<1>11. ASSUME NEW r \in Row, StartRun(r) \/ EndRun(r) \/ ReplyLands(r) PROVE TypeOK'
  BY <1>11, ZenonT(60) DEF StartRun, EndRun, ReplyLands, TypeOK
<1>12. CASE Stop
  BY <1>12 DEF Stop, TypeOK
<1>13. CASE Start
  BY <1>13 DEF Start, AfterRestart, TypeOK
<1>14. CASE UNCHANGED vars
  BY <1>14 DEF vars, TypeOK
<1> QED
  BY <1>1, <1>2, <1>3, <1>4, <1>5, <1>6, <1>7, <1>8, <1>9, <1>10, <1>11, <1>12, <1>13, <1>14
  DEF Next, Worker

\* The rest of the invariant, as one formula.
Rest == WorkerInv /\ RowInv /\ OneTurnOneReply /\ LedgerMatchesNotion /\ NobodyIsForgotten

LEMMA RestStep ==
  IInv /\ [Next]_vars => Rest'
<1> SUFFICES ASSUME TypeOK, Rest, [Next]_vars PROVE Rest'
  BY DEF IInv, Rest
<1> USE DEF Update, Goto, NextRow, worker, outside, Rest, WorkerInv, RowInv, OneTurnOneReply,
            LedgerMatchesNotion, NobodyIsForgotten
<1>1. ASSUME NEW r \in Row, Receive(r) PROVE Rest'
  <2>1. pc # "idle" => Cur' = Cur \/ pos = size + 1
    BY <1>1 DEF Receive, TypeOK, Cur
  <2> QED
    BY <1>1, <2>1 DEF Receive, TypeOK
<1>2. CASE BeginDrain
  BY <1>2 DEF BeginDrain, TypeOK
<1>3. CASE SkipRow \/ FetchFails
  BY <1>3 DEF SkipRow, FetchFails, Fetching, TypeOK
<1>4. CASE Route
  BY <1>4, CurIsRow DEF Route, Fetching, TypeOK, Cur
<1>5. CASE Ignore
  BY <1>5, CurIsRow DEF Ignore, Fetching, TypeOK
<1>6. CASE Dispatch
  <2>1. Cur \in Row /\ Cur' = Cur
    BY <1>6, CurIsRow DEF Dispatch, Cur
  <2> QED
    BY <1>6, <2>1 DEF Dispatch, TypeOK
<1>7. CASE CallAgent
  <2>1. Cur \in Row /\ Cur' = Cur
    BY <1>7, CurIsRow DEF CallAgent, Cur
  <2> QED
    BY <1>7, <2>1 DEF CallAgent, TypeOK
<1>8. CASE Admitted
  BY <1>8, CurIsRow, WatchedType DEF Admitted, TypeOK
<1>9. CASE Unconfirmed
  BY <1>9, CurIsRow DEF Unconfirmed, TypeOK
<1>10. CASE EndDrain
  <2>1. \A r \in Row : waiter'[r] = waiter[r]
                        \/ (state[r] = "waiting" /\ waiter'[r] = "wait")
    BY <1>10, WatchedType DEF EndDrain
  <2>2. waiter' \in [Row -> {"none", "wait", "reply", "replying"}]
    BY <1>10, WatchedType DEF EndDrain
  <2> QED
    BY <1>10, <2>1, <2>2 DEF EndDrain, TypeOK
<1>11. ASSUME NEW r \in Row, Wait(r) PROVE Rest'
  <2>1. UNCHANGED <<order, pos, pc, size, up>> /\ Cur' = Cur
    BY <1>11 DEF Wait, WaitHeld, WaitSilent, WaitAnswered, PostReply, ReplyConfirmed,
                 ReplyUnconfirmed, Finish, Cur
  <2>2. CASE WaitHeld(r)
    BY <2>1, <2>2 DEF WaitHeld, Finish, TypeOK
  <2>3. CASE WaitSilent(r)
    BY <2>1, <2>3 DEF WaitSilent, Finish, TypeOK
  <2>4. CASE ReplyConfirmed(r)
    BY <2>1, <2>4 DEF ReplyConfirmed, Finish, TypeOK
  <2>5. CASE ReplyUnconfirmed(r)
    BY <2>1, <2>5 DEF ReplyUnconfirmed, Finish, TypeOK
  <2>6. CASE WaitAnswered(r)
    BY <2>1, <2>6 DEF WaitAnswered, TypeOK
  <2>7. CASE PostReply(r)
    BY <2>1, <2>7 DEF PostReply, TypeOK
  <2> QED
    BY <1>11, <2>2, <2>3, <2>4, <2>5, <2>6, <2>7 DEF Wait
<1>12. ASSUME NEW r \in Row, StartRun(r) \/ EndRun(r) \/ ReplyLands(r) PROVE Rest'
  <2>1. Cur' = Cur
    BY <1>12 DEF StartRun, EndRun, ReplyLands, Cur
  <2>2. CASE StartRun(r) \/ EndRun(r)
    BY <2>1, <2>2, SMTT(30) DEF StartRun, EndRun, TypeOK
  <2>3. CASE ReplyLands(r)
    <3>1. state[r] \in States /\ posts[r] # 0
      BY <2>3 DEF ReplyLands, TypeOK
    <3>2. state[r] \in {"replying", "replied", "held"}
      BY <3>1 DEF States
    <3> QED
      BY <2>1, <2>3, <3>2 DEF ReplyLands, TypeOK
  <2> QED
    BY <1>12, <2>2, <2>3
<1>13. CASE Stop
  BY <1>13 DEF Stop, TypeOK
<1>14. CASE Start
  BY <1>14 DEF Start, AfterRestart, TypeOK
<1>15. CASE UNCHANGED vars
  BY <1>15 DEF vars, TypeOK, Cur
<1> QED
  BY <1>1, <1>2, <1>3, <1>4, <1>5, <1>6, <1>7, <1>8, <1>9, <1>10, <1>11, <1>12, <1>13, <1>14, <1>15
  DEF Next, Worker

\* The inductive invariant holds in every behaviour.
THEOREM Inductive == Spec => []IInv
<1>1. Init => IInv
  <2> SUFFICES ASSUME Init PROVE IInv
    OBVIOUS
  <2>1. TypeOK
    <3>1. order \in Seq(Row)
      BY DEF Init
    <3>2. state \in [Row -> States]
      BY DEF Init, States
    <3>3. /\ waiter \in [Row -> {"none", "wait", "reply", "replying"}]
          /\ run \in [Row -> {"none", "asked", "running", "answer", "silent", "failed"}]
      BY DEF Init
    <3>4. turns \in [Row -> Nat] /\ posts \in [Row -> Nat]
      BY DEF Init
    <3> QED
      BY <3>1, <3>2, <3>3, <3>4 DEF Init, TypeOK
  <2>2. WorkerInv /\ NobodyIsForgotten
    BY DEF Init, WorkerInv, NobodyIsForgotten
  <2>3. RowInv /\ OneTurnOneReply /\ LedgerMatchesNotion
    BY DEF Init, RowInv, OneTurnOneReply, LedgerMatchesNotion
  <2> QED
    BY <2>1, <2>2, <2>3 DEF IInv
<1>2. IInv /\ [Next]_vars => IInv'
  BY TypeStep, RestStep DEF IInv, Rest
<1> QED
  BY <1>1, <1>2, PTL DEF Spec

\* The variables keep their types.
THEOREM TypeCorrect == Spec => []TypeOK
  BY Inductive, PTL DEF IInv

\* An agent takes a comment once and answers it once, over every replay and restart
\* (channel.mjs:125-133, :178-181).
THEOREM Once == Spec => []OneTurnOneReply
  BY Inductive, PTL DEF IInv

\* The ledger and Notion agree about every reply (channel.mjs:178-183).
THEOREM Agreed == Spec => []LedgerMatchesNotion
  BY Inductive, PTL DEF IInv

\* No row is left in a state health does not show and nobody works on
\* (store.mjs:37-40).
THEOREM Watchful == Spec => []NobodyIsForgotten
  BY Inductive, PTL DEF IInv

LEMMA FinalStep ==
  IInv /\ [Next]_vars => \A r \in Row : state[r] \in Settled => state'[r] = state[r]
<1> SUFFICES ASSUME TypeOK, WorkerInv, RowInv, [Next]_vars, NEW s \in Row, state[s] \in Settled
             PROVE  state'[s] = state[s]
  BY DEF IInv
<1> USE DEF Update, Settled, TypeOK
<1>1. ASSUME NEW r \in Row, Receive(r) PROVE state'[s] = state[s]
  BY <1>1 DEF Receive
<1>2. CASE Worker
  BY <1>2, CurIsRow DEF Worker, BeginDrain, SkipRow, FetchFails, Ignore, Route, Dispatch,
       CallAgent, Admitted, Unconfirmed, EndDrain, Fetching, WorkerInv
<1>3. ASSUME NEW r \in Row, Wait(r) PROVE state'[s] = state[s]
  BY <1>3 DEF Wait, WaitHeld, WaitSilent, WaitAnswered, PostReply, ReplyConfirmed,
              ReplyUnconfirmed, Finish, RowInv
<1>4. ASSUME NEW r \in Row, StartRun(r) \/ EndRun(r) \/ ReplyLands(r) PROVE state'[s] = state[s]
  BY <1>4 DEF StartRun, EndRun, ReplyLands
<1>5. CASE Stop \/ Start
  BY <1>5 DEF Stop, Start, AfterRestart
<1>6. CASE UNCHANGED vars
  BY <1>6 DEF vars
<1> QED
  BY <1>1, <1>2, <1>3, <1>4, <1>5, <1>6 DEF Next

\* A settled row keeps its outcome (store.mjs:29-33).
THEOREM Final == Spec => OutcomeIsFinal
<1>1. IInv /\ [Next]_vars => [\A r \in Row : state[r] \in Settled => state'[r] = state[r]]_vars
  BY FinalStep
<1> QED
  BY <1>1, Inductive, PTL DEF Spec, OutcomeIsFinal
=============================================================================
