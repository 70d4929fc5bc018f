---------------------------- MODULE EmailPipeline ----------------------------
(***************************************************************************)
(* The email intake service as server.mjs runs it: one timer tick verifies *)
(* the ports, drains the effects and then polls the queues; a polled mail  *)
(* goes through the whole of EmailIntake, behind whatever task is already  *)
(* in its serial chain.  EmailIntake and QueueConsumer move together where *)
(* one calls the other, and a crash takes both.                            *)
(***************************************************************************)
EXTENDS EmailIntake

CONSTANT MaxRetries  \* redeliveries a queue makes before it gives a message up

VARIABLES
  where, leased, tries, polling, step, got, confirmed, pending, record, kept,
  polled  \* the receipt in progress is the polled mail's

Q == INSTANCE QueueConsumer WITH Message <- Mail, NoMessage <- None, Undecoded <- {}

queue == <<where, leased, tries, polling, step, got, confirmed, pending, record, kept>>

all == <<vars, queue, polled>>

PipelineInit == Init /\ Q!Init /\ polled = FALSE

\* The tick holds the timer from its first step to the end of both polls.
Ticking == polling \/ (task = None /\ pc # "idle")

\* POST /inbound/email, or the polled mail, reaches the head of the serial chain.
ByHttp(m) == BeginReceive(m) /\ UNCHANGED <<queue, polled>>

ByQueue ==
  /\ step["ingress"] = "receiving"
  /\ BeginReceive(got["ingress"])
  /\ polled' = TRUE
  /\ UNCHANGED queue

\* The receipt of the polled mail ends the poll's wait; any other receipt does not.
ReceiptEnds(ok) ==
  /\ IF ok THEN ReceiveOk ELSE ReceiveFailed
  /\ IF polled
     THEN Q!ReceiveReturns(ok)
     ELSE UNCHANGED queue
  /\ polled' = FALSE

\* setInterval: a tick is skipped while the last one runs.
TickBegins == ~Ticking /\ BeginTick /\ UNCHANGED <<queue, polled>>

\* A drain that ends goes on to the queues; a failed verification does not.
DrainEnds ==
  /\ EndDrain
  /\ IF task = None THEN Q!BeginTick ELSE UNCHANGED queue
  /\ UNCHANGED polled

\* A tick with a failed poll withdraws readiness.
PollsEnd ==
  /\ Q!EndTick
  /\ IF \E q \in Q!Queue : step[q] = "failed"
     THEN ready' = FALSE /\ UNCHANGED <<tables, delivered, outside, answered, task, pc, pos, blocked>>
     ELSE UNCHANGED vars
  /\ UNCHANGED polled

\* Every other step belongs to one of the two.
IntakeStep ==
  /\ \/ Authenticate \/ AskCalendar \/ CommitReceive \/ CalendarFailure \/ Verdict
     \/ Drain /\ ~EndDrain
     \/ Outside
  /\ UNCHANGED <<queue, polled>>

QueueStep ==
  /\ \/ \E m \in Mail : Q!Produce(m) \/ Q!Lapse(m)
     \/ \E q \in Q!Queue : Q!Poll(q)
     \/ Q!Handle \/ Q!Retain
  /\ UNCHANGED <<vars, polled>>

ServiceDies == Crash /\ (Q!Crash \/ Q!PowerFails) /\ polled' = FALSE

PipelineNext ==
  \/ \E m \in Mail : ByHttp(m)
  \/ ByQueue \/ \E ok \in BOOLEAN : ReceiptEnds(ok)
  \/ TickBegins \/ DrainEnds \/ PollsEnd
  \/ IntakeStep \/ QueueStep
  \/ ServiceDies

PipelineSpec == PipelineInit /\ [][PipelineNext]_all

-----------------------------------------------------------------------------
\* Mail that left the ingress queue has its thread, its owner turn and its
\* calendar failure notice delivered (queue.mjs:59, intake.mjs:62-65).
AcceptedIsDelivered ==
  \A m \in Mail : where[m] = "accepted" =>
    /\ convOf[m] # None
    /\ [key |-> "root", mail |-> convOf[m]] \in acked
    /\ Authority(m) => [key |-> "owner", mail |-> m] \in acked
    /\ domain[m] = "rejected" => CalendarFailureOf(m) \in acked

\* The timer recurs, the serial chain is first come first served, calls end (they carry timeouts), the queues, DKIM and the
\* ports answer again and again (also when asked for an effect of unknown outcome), leases run out, and restarts come to an end.
PipelineLive ==
  /\ PipelineSpec
  /\ WF_all(IntakeStep) /\ SF_all(ByQueue) /\ WF_all(\E ok \in BOOLEAN : ReceiptEnds(ok))
  /\ SF_all(TickBegins) /\ WF_all(DrainEnds) /\ WF_all(PollsEnd)
  /\ WF_all(Q!Handle /\ QueueStep) /\ WF_all(Q!Retain /\ QueueStep)
  /\ SF_all(IntakeStep /\ Verify /\ ready' /\ task = None)
  /\ SF_all(IntakeStep /\ FindDelivery /\ pc' = "confirm")
  /\ \A q \in Q!Queue : /\ WF_all(Q!Poll(q) /\ QueueStep)
                        /\ \A m \in Mail : SF_all(Q!Pull(q, m) /\ QueueStep)
  /\ \A m \in Mail : WF_all(Q!Lapse(m) /\ QueueStep)
  /\ <>[][~ServiceDies]_all

\* Mail in the queue does not stay there: it is accepted, retained as a dead
\* letter, or used up the deliveries of both queues.
MailSettles == \A m \in Mail : where[m] = "ingress" ~> where[m] \in {"accepted", "retained", "dropped"}

\* A root message that Slack shows is acknowledged in the end, even when its
\* answer was lost and the service restarted (intake.mjs: deliver).
RootLands == \A m \in Mail : Proved([key |-> "root", mail |-> m]) ~> [key |-> "root", mail |-> m] \in acked
=============================================================================
