--------------------------- MODULE ThreadLifecycle ---------------------------
(***************************************************************************)
(* The run lifecycle of a Slack thread, as the run-signature plugin keeps  *)
(* it: hooks of the gateway admit runs and end them, the close_thread tool *)
(* closes, and each of them writes an event to the session ledger. A close *)
(* goes on to a report: a view, a second event and a post in the thread;   *)
(* what fails there is journaled and never surfaces.                       *)
(*                                                                         *)
(* Deciding to write and taking the time stamp happen without an await     *)
(* between them; the write itself comes later, in any order, and may fail. *)
(* One thread is modelled, since threads share nothing but the file.       *)
(***************************************************************************)
EXTENDS Naturals

CONSTANTS Run, Closing

\* What one write is about; the id of a lifecycle event, and of the event of a report.
Ticket == (Run \X {"working", "act"}) \cup (Closing \X {"closed"})
Report == Closing \X {"completed"}

\* The key under which a ticket was admitted: a run, or the close of the thread.
Owner(t) == IF t[2] = "closed" THEN "close" ELSE t[1]

ASSUME LifecycleAssumption ==
  Run \cap Closing = {} /\ "close" \notin Run /\ "none" \notin Run

VARIABLES
  phase,    \* a run of the gateway: "new", "live" or "over"
  runs,     \* ThreadLifecycle.runs: admitted runs whose end is still to come
  latest,   \* ThreadLifecycle.latest: the run or the close admitted last
  clock,    \* the last time stamp
  at,       \* the time stamp of a ticket, 0 before
  step,     \* where the handler of a ticket is
  ledger,   \* events of the session ledger
  view,     \* generated/sessions: the pages that are there in full
  posted    \* reports that Slack shows

lvars == <<phase, runs, latest, clock, at, step, ledger, view, posted>>

LifecycleInit ==
  /\ phase = [r \in Run |-> "new"]
  /\ runs = {} /\ latest = "none"
  /\ clock = 0 /\ at = [t \in Ticket |-> 0]
  /\ step = [t \in Ticket |-> "idle"]
  /\ ledger = {} /\ view = {} /\ posted = {}

\* The event is made, stamped and handed to the file system.
Record(t) ==
  /\ clock' = clock + 1
  /\ at' = [at EXCEPT ![t] = clock + 1]
  /\ step' = [step EXCEPT ![t] = "write"]

Goto(t, s) == step' = [step EXCEPT ![t] = s]

-----------------------------------------------------------------------------
\* A model call begins (llm_input, model_call_started); only the first one of a run admits it.
Start(r) ==
  /\ phase[r] # "over" /\ r \notin runs
  /\ phase' = [phase EXCEPT ![r] = "live"]
  /\ runs' = runs \cup {r}
  /\ latest' = r
  /\ Record(<<r, "working">>)
  /\ UNCHANGED <<ledger, view, posted>>

\* Mutant: the end of a run is recorded whatever came after it.
SettleAnyway(r) == Record(<<r, "act">>)

\* settle: an end that is not the latest admission's leaves no trace.
Settle(r) ==
  IF latest = r
  THEN Record(<<r, "act">>)
  ELSE UNCHANGED <<clock, at, step>>

\* A run ends (agent_end).
End(r) ==
  /\ phase[r] = "live" /\ r \in runs
  /\ phase' = [phase EXCEPT ![r] = "over"]
  /\ runs' = runs \ {r}
  /\ Settle(r)
  /\ UNCHANGED <<latest, ledger, view, posted>>

\* Mutant: a close does not count as an admission.
CloseOnly(c) ==
  /\ step[<<c, "closed">>] = "idle"
  /\ Record(<<c, "closed">>)
  /\ UNCHANGED <<phase, runs, latest, ledger, view, posted>>

\* An agent calls close_thread.
Close(c) ==
  /\ step[<<c, "closed">>] = "idle"
  /\ latest' = "close"
  /\ Record(<<c, "closed">>)
  /\ UNCHANGED <<phase, runs, ledger, view, posted>>

\* The event is appended. A close goes on to its report.
Written(t) ==
  /\ step[t] = "write"
  /\ ledger' = ledger \cup {t}
  /\ Goto(t, IF t[2] = "closed" THEN "view" ELSE "recorded")
  /\ UNCHANGED <<phase, runs, latest, clock, at, view, posted>>

\* The ledger cannot be read or appended to: a hook journals it, the tool answers with the error.
NotWritten(t) ==
  /\ step[t] = "write"
  /\ Goto(t, "failed")
  /\ UNCHANGED <<phase, runs, latest, clock, at, ledger, view, posted>>

-----------------------------------------------------------------------------
ReportAt(c, s) == step[<<c, "closed">>] = s
ReportGoes(c, s) == Goto(<<c, "closed">>, s) /\ UNCHANGED <<phase, runs, latest, clock, at>>

\* The thread, the usage of its sessions and its pull requests are read, and the view is written.
WriteCloseReport(c) ==
  /\ ReportAt(c, "view")
  /\ \/ ReportGoes(c, "complete") /\ view' = view \cup {c}
     \/ ReportGoes(c, "journaled") /\ UNCHANGED view
  /\ UNCHANGED <<ledger, posted>>

\* session.completed is appended.
RecordSessionClose(c) ==
  /\ ReportAt(c, "complete")
  /\ \/ ReportGoes(c, "post") /\ ledger' = ledger \cup {<<c, "completed">>}
     \/ ReportGoes(c, "journaled") /\ UNCHANGED ledger
  /\ UNCHANGED <<view, posted>>

\* The report is posted. A failing answer says nothing of what Slack shows.
Post(c) ==
  /\ ReportAt(c, "post")
  /\ \/ posted' = posted \cup {c} /\ ReportGoes(c, "closed")
     \/ posted' \in {posted, posted \cup {c}} /\ ReportGoes(c, "journaled")
  /\ UNCHANGED <<ledger, view>>

-----------------------------------------------------------------------------
\* The gateway restarts: its runs, the two maps and every handler are gone.
GatewayRestarts ==
  /\ phase' = [r \in Run |-> IF phase[r] = "live" THEN "over" ELSE phase[r]]
  /\ runs' = {} /\ latest' = "none"
  /\ step' = [t \in Ticket |-> IF step[t] \in {"idle", "recorded", "failed", "journaled", "closed"}
                               THEN step[t] ELSE "lost"]
  /\ UNCHANGED <<clock, at, ledger, view, posted>>

PostCloseReport(c) ==
  WriteCloseReport(c) \/ RecordSessionClose(c) \/ Post(c)

LifecycleNext ==
  \/ \E r \in Run : Start(r) \/ End(r)
  \/ \E c \in Closing : Close(c) \/ PostCloseReport(c)
  \/ \E t \in Ticket : Written(t) \/ NotWritten(t)
  \/ GatewayRestarts

LifecycleSpec == LifecycleInit /\ [][LifecycleNext]_lvars

-----------------------------------------------------------------------------
(* Properties *)

\* The newest event of the ledger is that of the run or close admitted last, unless a newer event of
\* it is still being written or could not be (lifecycle.mjs:42, status-framework.md:15).
LedgerShowsLatest ==
  latest # "none" =>
    \A t \in ledger \cap Ticket :
      (\A u \in ledger \cap Ticket : at[u] <= at[t]) =>
        \/ Owner(t) = latest
        \/ \E u \in Ticket : /\ at[u] > at[t] /\ Owner(u) = latest
                             /\ step[u] \in {"write", "failed"}

\* The ledger has the end of a run only if nothing was admitted between its start and its end, not
\* even something whose own event got lost (lifecycle.mjs:41-43).
StaleEndIsSilent ==
  \A r \in Run : <<r, "act">> \in ledger =>
    \A u \in Ticket : ~(at[<<r, "working">>] < at[u] /\ at[u] < at[<<r, "act">>])

\* What Slack shows of a close is on record, whole: its event, its view and its completed session
\* (host-close.mjs:38-55).
ReportIsRecorded ==
  \A c \in posted : {<<c, "closed">>, <<c, "completed">>} \subseteq ledger /\ c \in view

=============================================================================
