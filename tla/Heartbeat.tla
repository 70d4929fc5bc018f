----------------------------- MODULE Heartbeat -----------------------------
(***************************************************************************)
(* services/observability/heartbeat/heartbeat.py: a script that launchd    *)
(* runs every five minutes.  It loads its state, observes, restarts the    *)
(* gateway where it may, delivers alerts, and saves its state at the end.  *)
(*                                                                         *)
(* What a check sees is an input.  A run takes no time; between two runs   *)
(* any number of units passes, and a stamp is kept as its age.             *)
(***************************************************************************)
EXTENDS Naturals, Sequences

CONSTANTS
  Checks,              \* the order of the checks of a run
  Gateway, SilentKill, \* the first check, and the scan of the log
  Fixable, Canary,     \* checks a restart can fix, and those of every sixth run
  RestartBudget, MaxRestartDeferrals, CanaryPageAfter,
  Realert, Hour, IncidentTtl,  \* in units
  LastDay, MaxLines,   \* bounds: days, and losses that a day's log shows
  Never

Check == {Checks[n] : n \in 1..Len(Checks)}

\* What a restart can fix is checked before the log is scanned, and the canaries come last.
ASSUME HeartbeatAssumption ==
  /\ Checks \in Seq(Check) /\ Len(Checks) >= 1 /\ Checks[1] = Gateway /\ SilentKill \in Check
  /\ \A m, n \in 1..Len(Checks) : Checks[m] \in Fixable /\ Checks[n] = SilentKill => m < n
  /\ \A m, n \in 1..Len(Checks) : Checks[m] \in Canary /\ m < n => Checks[n] \in Canary
  /\ {RestartBudget, MaxRestartDeferrals, Realert, IncidentTtl, MaxLines} \subseteq Nat
  /\ {Hour, LastDay} \subseteq Nat \ {0} /\ CanaryPageAfter \in Nat \ {0, 1} /\ Never \notin Nat

VARIABLES
  running,  \* whether a run is on
  todo,     \* checks it has left
  alerts,   \* what it will deliver
  memo,     \* its state, and the file it comes from
  file,
  day,      \* the date
  lines,    \* losses in the log of a day, Never while there is no log
  story,    \* what the incident thread of a check says last: "none", "failing" or "recovered"
  written,  \* history: losses written to a day's log since the first scan, those counted there,
  counted,
  scanned,  \* days whose log was scanned, and those whose log was emptied
  emptied,
  refused,  \* history: checks whose last alert did not get through
  kicked,   \* history: ages of the restarts of the last hour
  killed,   \* history: a run was killed, or ended in an exception
  hung

memory  == <<running, todo, alerts, memo>>
logbook == <<lines, written, counted, scanned, emptied>>
slack   == <<story, refused>>
past    == <<kicked, killed, hung>>
bvars   == <<memory, file, day, logbook, slack, past>>

Untroubled == [fails |-> 0, alerted |-> Never, alerting |-> FALSE, deferrals |-> 0]

NoState ==
  [checks    |-> [k \in Check |-> Untroubled],
   restarts  |-> <<>>,
   incidents |-> [k \in Check |-> Never],
   path      |-> Never,
   offset    |-> 0,
   pending   |-> FALSE]

HeartbeatInit ==
  /\ running = FALSE /\ todo = <<>> /\ alerts = <<>> /\ memo = NoState /\ file = NoState
  /\ day = 1 /\ lines = [d \in 1..LastDay |-> Never]
  /\ written = [d \in 1..LastDay |-> 0] /\ counted = written /\ scanned = {} /\ emptied = {}
  /\ story = [k \in Check |-> "none"] /\ refused = {}
  /\ kicked = <<>> /\ killed = FALSE /\ hung = FALSE

Least(m, n) == IF m < n THEN m ELSE n

-----------------------------------------------------------------------------
(* The world *)

Aged(age, limit) == IF age = Never THEN Never ELSE Least(age + 1, limit)

\* The oldest come first, and what is too old goes.
Within(ages, limit) ==
  LET old == CHOOSE n \in 0..Len(ages) : \A i \in 1..Len(ages) : i > n <=> ages[i] < limit
  IN  SubSeq(ages, old + 1, Len(ages))

Later(ages) == [n \in DOMAIN ages |-> Least(ages[n] + 1, Hour)]

Passes ==
  /\ ~running
  /\ file' = [file EXCEPT !.checks = [k \in Check |-> [file.checks[k] EXCEPT !.alerted = Aged(@, Realert)]],
                          !.restarts = Later(file.restarts),
                          !.incidents = [k \in Check |-> Aged(file.incidents[k], IncidentTtl)]]
  /\ kicked' = Within(Later(kicked), Hour)
  /\ UNCHANGED <<memory, day, logbook, slack, killed, hung>>

Midnight ==
  /\ ~running /\ day < LastDay /\ day' = day + 1
  /\ UNCHANGED <<memory, file, logbook, slack, past>>

\* The gateway makes its log, or adds a loss.
GatewayLogs ==
  /\ \/ lines[day] = Never /\ lines' = [lines EXCEPT ![day] = 0] /\ UNCHANGED written
     \/ /\ lines[day] # Never /\ written[day] < MaxLines
        /\ lines' = [lines EXCEPT ![day] = @ + 1] /\ written' = [written EXCEPT ![day] = @ + 1]
  /\ UNCHANGED <<memory, file, day, counted, scanned, emptied, slack, past>>

\* A hard restart empties it.
LogEmptied ==
  /\ lines[day] # Never /\ lines' = [lines EXCEPT ![day] = 0] /\ emptied' = emptied \cup {day}
  /\ UNCHANGED <<memory, file, day, written, counted, scanned, slack, past>>

-----------------------------------------------------------------------------
(* A run *)

BeginRun ==
  /\ ~running /\ running' = TRUE
  /\ memo' = file /\ todo' = Checks /\ alerts' = <<>>
  /\ UNCHANGED <<file, day, logbook, slack, past>>

NoCanary(checks) ==
  LET last == CHOOSE n \in 0..Len(checks) : \A i \in 1..Len(checks) : i <= n <=> checks[i] \notin Canary
  IN  SubSeq(checks, 1, last)

\* After the gateway's check a second one may end the run's checks; canaries have runs of their own.
Proceeds ==
  IF Head(todo) = Gateway
  THEN todo' \in {<<>>, Tail(todo), NoCanary(Tail(todo))}
  ELSE todo' = Tail(todo)

Observes(k) == running /\ todo # <<>> /\ Head(todo) = k /\ k # SilentKill

Note(k, c) == memo' = [memo EXCEPT !.checks[k] = c]
Alert(k, page, resolves) == alerts' = Append(alerts, [key |-> k, page |-> page, resolves |-> resolves])

\* Mutant: a check that was deferred only is taken for one nobody was told of.
ResolvedIfPaged(k) == IF memo.checks[k].alerted # Never THEN Alert(k, FALSE, TRUE) ELSE UNCHANGED alerts

Resolved(k) == IF memo.checks[k].alerting THEN Alert(k, FALSE, TRUE) ELSE UNCHANGED alerts

\* Mutant: the time of the last alert outlives the trouble.
RecoverOnly(k) ==
  /\ Observes(k) /\ Proceeds
  /\ Note(k, [Untroubled EXCEPT !.alerted = memo.checks[k].alerted])
  /\ Resolved(k)
  /\ UNCHANGED <<running, file, day, logbook, slack, past>>

\* The check passes.
Recover(k) ==
  /\ Observes(k) /\ Proceeds
  /\ Note(k, Untroubled)
  /\ Resolved(k)
  /\ UNCHANGED <<running, file, day, logbook, slack, past>>

\* More failures in a row than anything asks for are not told apart.
Strikes(k) == Least(memo.checks[k].fails + 1, IF k \in Canary THEN CanaryPageAfter ELSE 2)
Due(k) == memo.checks[k].alerted \in {Never, Realert}
Counting(k) == Observes(k) /\ (Strikes(k) < 2 \/ ~Due(k))
Acting(k) == Observes(k) /\ Strikes(k) >= 2 /\ Due(k)

\* The first failure, or one that somebody was told of a while ago.
Count(k) ==
  /\ Counting(k) /\ Proceeds
  /\ Note(k, [memo.checks[k] EXCEPT !.fails = Strikes(k)])
  /\ UNCHANGED <<running, alerts, file, day, logbook, slack, past>>

Recent == Within(memo.restarts, Hour)
MayRestart(k) == k \in Fixable /\ Len(Recent) < RestartBudget

\* The check with an alert out.
Alerted(k) == [memo.checks[k] EXCEPT !.fails = Strikes(k), !.alerted = 0, !.alerting = TRUE]

\* A restart has to wait for agents at work; an alert says so each time, and at last asks for a human.
Defer(k) ==
  /\ Acting(k) /\ MayRestart(k) /\ Proceeds
  /\ LET d == Least(memo.checks[k].deferrals + 1, MaxRestartDeferrals + 1)
         waits == d <= MaxRestartDeferrals
         c == [Alerted(k) EXCEPT !.deferrals = d]
     IN  /\ Note(k, IF waits THEN [c EXCEPT !.alerted = memo.checks[k].alerted] ELSE c)
         /\ Alert(k, ~waits, FALSE)
  /\ UNCHANGED <<running, file, day, logbook, slack, past>>

\* Mutant: a restart counts when it helped.
RestartedWell(k, c) ==
  memo' = [memo EXCEPT !.restarts = IF c = Untroubled THEN Append(Recent, 0) ELSE Recent, !.checks[k] = c]

\* The restart is on record before it is tried, whatever becomes of it.
Restarted(k, c) == memo' = [memo EXCEPT !.restarts = Append(Recent, 0), !.checks[k] = c]

\* kickstart, and the gateway answers after it.
RestartHelps(k) ==
  /\ Acting(k) /\ MayRestart(k) /\ Proceeds
  /\ Restarted(k, Untroubled) /\ kicked' = Append(kicked, 0)
  /\ Resolved(k)
  /\ UNCHANGED <<running, file, day, logbook, slack, killed, hung>>

\* launchctl fails, or the gateway does not answer.
RestartFails(k) ==
  /\ Acting(k) /\ MayRestart(k) /\ Proceeds
  /\ Restarted(k, [Alerted(k) EXCEPT !.deferrals = 0]) /\ kicked' \in {kicked, Append(kicked, 0)}
  /\ Alert(k, TRUE, FALSE)
  /\ UNCHANGED <<running, file, day, logbook, slack, killed, hung>>

\* The run ends before it saved anything.
RunEnds == running' = FALSE /\ todo' = <<>> /\ alerts' = <<>> /\ memo' = NoState

\* launchctl does not answer in time: the exception ends the run.
RestartHangs(k) ==
  /\ Acting(k) /\ MayRestart(k) /\ RunEnds
  /\ kicked' \in {kicked, Append(kicked, 0)} /\ hung' = TRUE
  /\ UNCHANGED <<file, day, logbook, slack, killed>>

\* No restart is left, or none would help; a canary has time before it asks for a human.
RaiseAlert(k) ==
  /\ Acting(k) /\ ~MayRestart(k) /\ Proceeds
  /\ Note(k, Alerted(k))
  /\ Alert(k, ~(k \in Canary /\ Strikes(k) < CanaryPageAfter), FALSE)
  /\ UNCHANGED <<running, file, day, logbook, slack, past>>

-----------------------------------------------------------------------------
(* The scan of the log: every loss from the offset on, and yesterday's rest after midnight *)

SizeOf(d) == IF lines[d] = Never THEN 0 ELSE lines[d]
From(d, offset) == IF SizeOf(d) > offset THEN SizeOf(d) - offset ELSE 0

\* The first scan begins at the end of the file; a file that shrank is read again.
StartOf ==
  IF memo.path = Never THEN SizeOf(day)
  ELSE IF memo.path # day \/ SizeOf(day) < memo.offset THEN 0
  ELSE memo.offset

\* Mutant: the scan moves on to the new log at once.
RestLeft == 0

\* What the log of another day holds beyond the offset.
Rest == IF memo.path \notin {Never, day} THEN From(memo.path, memo.offset) ELSE 0
News == IF lines[day] = Never THEN 0 ELSE From(day, StartOf)

\* What there is at the first scan is nobody's business; a count beyond the bound is kept as one beyond.
FirstScan == memo.path = Never /\ lines[day] # Never
CountedMore(d, n) == Least(counted[d] + n, MaxLines + 1)

\* process_silent_kills: what is new or pending is told, but not twice within Realert.
Scan ==
  /\ running /\ todo # <<>> /\ Head(todo) = SilentKill /\ todo' = Tail(todo)
  /\ LET c == memo.checks[SilentKill]
         found == memo.pending \/ Rest + News > 0
         tells == found /\ c.alerted \in {Never, Realert}
         read == lines[day] # Never
     IN  /\ memo' = [memo EXCEPT !.path = IF read THEN day ELSE @,
                                   !.offset = IF read THEN lines[day] ELSE @,
                                   !.pending = found /\ ~tells,
                                   !.checks[SilentKill].alerted = IF tells THEN 0 ELSE @]
         /\ IF tells THEN Alert(SilentKill, FALSE, FALSE) ELSE UNCHANGED alerts
         /\ scanned' = IF read THEN scanned \cup {day} ELSE scanned
  /\ counted' = [d \in 1..LastDay |->
                   CountedMore(d, (IF d = memo.path THEN Rest ELSE 0) + (IF d = day THEN News ELSE 0))]
  /\ written' = IF FirstScan THEN [written EXCEPT ![day] = 0] ELSE written
  /\ UNCHANGED <<running, file, day, lines, emptied, slack, past>>

-----------------------------------------------------------------------------
(* Delivery, once all checks are done *)

Sent(a, through, landed, incident) ==
  /\ memo' = [memo EXCEPT !.incidents[a.key] = incident]
  /\ refused' = IF through THEN refused \ {a.key} ELSE refused \cup {a.key}
  /\ story' = IF landed THEN [story EXCEPT ![a.key] = IF a.resolves THEN "recovered" ELSE "failing"]
               ELSE story

\* It goes to the thread of the incident, or opens one when there is none or it is too old; a page
\* that opens one is a post of its own.  Slack may refuse, and may have taken what raises an error.
Tells(a) ==
  LET there == memo.incidents[a.key]
      open == IF there = IncidentTtl THEN Never ELSE there
      Left(age) == IF a.resolves THEN Never ELSE age
      begun == IF open = Never THEN 0 ELSE open
  IN  \/ Sent(a, TRUE, TRUE, Left(begun))
      \/ open = Never /\ a.page /\ Sent(a, FALSE, TRUE, begun)
      \/ Sent(a, FALSE, FALSE, Left(open))
      \/ \E landed \in BOOLEAN : Sent(a, FALSE, landed, open)

\* A recovery that follows no incident is not announced; without a token nothing is sent.
DeliverAlert ==
  /\ running /\ todo = <<>> /\ alerts # <<>> /\ alerts' = Tail(alerts)
  /\ LET alert == Head(alerts)
         announced == alert.resolves => memo.incidents[alert.key] # Never
     IN  \/ ~announced /\ UNCHANGED <<memo, slack>>
         \/ announced /\ Tells(alert)
         \/ announced /\ Sent(alert, FALSE, FALSE, memo.incidents[alert.key])
  /\ UNCHANGED <<running, todo, file, day, logbook, past>>

Saving == running /\ todo = <<>> /\ alerts = <<>>

Save ==
  /\ Saving /\ file' = memo /\ running' = FALSE /\ memo' = NoState
  /\ UNCHANGED <<todo, alerts, day, logbook, slack, past>>

\* A file that was cut off while it was written counts as none.
KillRun ==
  /\ running /\ RunEnds /\ killed' = TRUE
  /\ file' \in IF Saving THEN {file, NoState} ELSE {file}
  /\ UNCHANGED <<day, logbook, slack, kicked, hung>>

LogChanges == Midnight \/ GatewayLogs \/ LogEmptied
Restarts(k) == RestartHelps(k) \/ RestartFails(k) \/ RestartHangs(k)
Checked(k) == Recover(k) \/ Count(k) \/ Defer(k) \/ Restarts(k) \/ RaiseAlert(k)
RunSteps == BeginRun \/ (\E k \in Check : Checked(k)) \/ Scan \/ DeliverAlert \/ Save \/ KillRun

HeartbeatNext == Passes \/ LogChanges \/ RunSteps
HeartbeatSpec == HeartbeatInit /\ [][HeartbeatNext]_bvars

-----------------------------------------------------------------------------
(* Properties *)

AtRest == ~running /\ ~killed /\ ~hung

\* While no run is cut off, the gateway is restarted at most RestartBudget times within an hour,
\* whichever of the checks ask for it and whatever becomes of the restarts (heartbeat.py:12).
RestartsAreCapped == ~killed /\ ~hung => Len(kicked) <= RestartBudget

\* What failed twice in a row is what its incident thread says last, unless that alert was refused:
\* neither the throttle nor a deferral nor a recovery in between keeps a failure quiet (heartbeat.py:602).
BrokenIsTold ==
  AtRest => \A k \in Check : file.checks[k].fails >= 2 => story[k] = "failing" \/ k \in refused

\* The thread of a check that no alert stands for does not end with its failure, unless an alert was
\* refused.  The scan of the log has no recovery (heartbeat.py:680).
RecoveryIsTold ==
  AtRest => \A k \in Check \ {SilentKill} :
              story[k] = "failing" => file.checks[k].alerting \/ k \in refused

\* While no run is killed, no loss is left behind in a log that was scanned and was not emptied when the
\* scan is on a later day's (heartbeat.py:458).
LossesAreFound ==
  ~killed => \A d \in scanned \ emptied : file.path # Never /\ d < file.path => counted[d] >= written[d]

\* "only independently verified failures trigger an automatic gateway restart, capped at RESTART_BUDGET
\* per hour so a crash-loop escalates to a human" (heartbeat.py:10), said of runs that nobody kills.
BudgetHolds == ~killed => Len(kicked) <= RestartBudget
=============================================================================
