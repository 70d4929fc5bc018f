-------------------------- MODULE OperationsProofs --------------------------
(***************************************************************************)
(* Proofs about Heartbeat, the checks that launchd runs, and about         *)
(* Cutover, the exchange of one runtime for another.                       *)
(***************************************************************************)
EXTENDS Heartbeat, Cutover, Integers, WellFoundedInduction, TLAPS

\* A set of numbers has a least one.
LEMMA LeastOf ==
  ASSUME NEW T \in SUBSET Nat, T # {}
  PROVE  \E x \in T : \A y \in T : x <= y
<1> DEFINE R == OpToRel(<, Nat)
<1>1. IsWellFoundedOn(R, Nat)
  BY NatLessThanWellFounded
<1>2. \A x, y \in Nat : x < y => <<x, y>> \in R
  BY DEF OpToRel
<1> HIDE DEF R
<1>3. \E x \in T : \A y \in T : ~(<<y, x>> \in R)
  BY <1>1, WFMin
<1>4. PICK x \in T : \A y \in T : ~(<<y, x>> \in R)
  BY <1>3
<1>5. ASSUME NEW y \in T PROVE x <= y
  <2>1. x \in Nat /\ y \in Nat
    OBVIOUS
  <2>2. ~(y < x)
    BY <1>2, <1>4, <2>1
  <2> QED BY <2>1, <2>2
<1> QED BY <1>5

\* The stamps of a list go from the oldest to the youngest.
Orderly(ages) == \A i, j \in 1..Len(ages) : i <= j => ages[i] >= ages[j]

Day == 1..LastDay
Age == Nat \cup {Never}
CheckState == [fails : Nat, alerted : Age, alerting : BOOLEAN, deferrals : Nat]

RunState ==
  [checks : [Check -> CheckState], restarts : Seq(Nat), incidents : [Check -> Age],
   path : Day \cup {Never}, offset : Nat, pending : BOOLEAN]

AlertRecord == [key : Check, page : BOOLEAN, resolves : BOOLEAN]

\* Every variable has its type; lists of restarts are in order; the scan of the log never fails.
HeartbeatTyped ==
  /\ running \in BOOLEAN /\ alerts \in Seq(AlertRecord) /\ day \in Day
  /\ memo \in RunState /\ file \in RunState /\ Orderly(memo.restarts) /\ Orderly(file.restarts)
  /\ memo.checks[SilentKill].fails = 0 /\ file.checks[SilentKill].fails = 0
  /\ story \in [Check -> {"none", "failing", "recovered"}] /\ refused \subseteq Check
  /\ killed \in BOOLEAN /\ hung \in BOOLEAN
  /\ ~running => alerts = <<>>

LogTyped ==
  /\ lines \in [Day -> Age] /\ written \in [Day -> Nat] /\ counted \in [Day -> Nat]
  /\ scanned \subseteq Day /\ emptied \subseteq Day

\* What a restart can fix comes before the scan of the log, and canaries come last.
InOrder(checks) ==
  /\ \A m, n \in 1..Len(checks) : checks[m] \in Fixable /\ checks[n] = SilentKill => m < n
  /\ \A m, n \in 1..Len(checks) : checks[m] \in Canary /\ m < n => checks[n] \in Canary

\* What a run has left is in this order, and as long as a restart may hang the log was not scanned.
TodoInv ==
  /\ todo \in Seq(Check) /\ InOrder(todo)
  /\ running /\ (\E n \in 1..Len(todo) : todo[n] \in Fixable) =>
       memo.path = file.path /\ memo.offset = file.offset

Current == IF running THEN memo ELSE file

\* The restarts of the last hour are all on record, each with a stamp that is not older.
OnRecord(restarts, seen) ==
  /\ Len(seen) <= Len(restarts)
  /\ \A i \in 1..Len(seen) : seen[i] >= restarts[Len(restarts) - Len(seen) + i]

RestartInv ==
  /\ kicked \in Seq(Nat) /\ Orderly(kicked) /\ \A i \in 1..Len(kicked) : kicked[i] < Hour
  /\ ~killed /\ ~hung => OnRecord(Current.restarts, kicked) /\ Len(kicked) <= RestartBudget

\* Whether the last alert of a check among those to deliver is a failure or a recovery; whether there is none.
Pending(queue, k, resolves) ==
  \E n \in 1..Len(queue) :
    /\ queue[n].key = k /\ queue[n].resolves = resolves
    /\ \A i \in 1..Len(queue) : i > n => queue[i].key # k
Quiet(queue, k) == \A n \in 1..Len(queue) : queue[n].key # k

\* What is known of a check agrees with its thread, or with the alert that will say so.
Agrees(k) ==
  LET c == Current.checks[k]
      failing == story[k] = "failing"
  IN  /\ c.fails >= 2 \/ c.alerted # Never =>
           Pending(alerts, k, FALSE) \/ (Quiet(alerts, k) /\ (failing \/ k \in refused))
      /\ Pending(alerts, k, FALSE) => c.alerting
      /\ Quiet(alerts, k) /\ failing => c.alerting \/ k \in refused
      /\ failing => Current.incidents[k] # Never \/ k \in refused

StoryInv == ~killed /\ ~hung => \A k \in Check \ {SilentKill} : Agrees(k)

\* Up to the offset in the log of a day all losses are counted.
LogOf(path, offset) ==
  /\ path = Never => scanned = {}
  /\ path # Never =>
       /\ path \in scanned /\ path <= day
       /\ \A d \in scanned : d <= path
       /\ path \notin emptied =>
            lines[path] # Never /\ offset <= lines[path] /\ counted[path] + (lines[path] - offset) >= written[path]
       /\ \A d \in scanned \ emptied : d < path => counted[d] >= written[d]

LogInv ==
  /\ \A d \in Day \ emptied : written[d] <= SizeOf(d)
  /\ \A d \in Day : written[d] <= MaxLines
  /\ ~killed => LogOf(Current.path, Current.offset)
  /\ ~killed /\ running /\ file.path # Never => memo.path # Never /\ file.path <= memo.path

HeartbeatInv == HeartbeatTyped /\ LogTyped /\ TodoInv /\ RestartInv /\ StoryInv /\ LogInv

\* A set that holds what follows its members is the end of an interval.
LEMMA EndOf ==
  ASSUME NEW n \in Nat, NEW T \in SUBSET (1..n), \A i, j \in 1..n : i \in T /\ i <= j => j \in T
  PROVE  \E s \in 0..n : \A i \in 1..n : i > s <=> i \in T
<1>1. CASE T = {}
  <2>1. n \in 0..n /\ \A i \in 1..n : ~(i > n)
    OBVIOUS
  <2> QED BY <1>1, <2>1
<1>2. CASE T # {}
  <2>1. PICK x \in T : \A y \in T : x <= y
    BY <1>2, LeastOf
  <2>2. x \in 1..n /\ x - 1 \in 0..n
    OBVIOUS
  <2>3. ASSUME NEW i \in 1..n PROVE i > x - 1 <=> i \in T
    <3>1. i \in T => x <= i
      BY <2>1
    <3>2. x <= i => i \in T
      BY <2>1, <2>2
    <3>3. i > x - 1 <=> x <= i
      BY <2>2
    <3> QED BY <3>1, <3>2, <3>3
  <2> QED BY <2>2, <2>3
<1> QED BY <1>1, <1>2

\* What is left of a list of stamps is its end.
LEMMA WithinIsEnd ==
  ASSUME NEW ages \in Seq(Nat), Orderly(ages), NEW limit \in Nat
  PROVE  \E n \in 0..Len(ages) :
           /\ \A i \in 1..Len(ages) : i > n <=> ages[i] < limit
           /\ Within(ages, limit) \in Seq(Nat) /\ Len(Within(ages, limit)) = Len(ages) - n
           /\ \A i \in 1..(Len(ages) - n) : Within(ages, limit)[i] = ages[n + i]
<1> DEFINE Old(n) == \A i \in 1..Len(ages) : i > n <=> ages[i] < limit
<1>1. Len(ages) \in Nat /\ \A i \in 1..Len(ages) : ages[i] \in Nat
  OBVIOUS
<1>2. \E n \in 0..Len(ages) : Old(n)
  <2> DEFINE T == {i \in 1..Len(ages) : ages[i] < limit}
  <2>1. ASSUME NEW i \in 1..Len(ages), NEW j \in 1..Len(ages), i \in T, i <= j PROVE j \in T
    <3>1. ages[i] >= ages[j] /\ ages[i] < limit
      BY <2>1 DEF Orderly
    <3> QED BY <1>1, <3>1
  <2>2. PICK s \in 0..Len(ages) : \A i \in 1..Len(ages) : i > s <=> i \in T
    <3>1. T \in SUBSET (1..Len(ages))
      OBVIOUS
    <3> HIDE DEF T
    <3> QED BY <1>1, <2>1, <3>1, EndOf
  <2> QED BY <2>2
<1> DEFINE m == CHOOSE n \in 0..Len(ages) : Old(n)
<1>3. m \in 0..Len(ages) /\ Old(m)
  BY <1>2
<1>4. Within(ages, limit) = SubSeq(ages, m + 1, Len(ages))
  BY DEF Within
<1> HIDE DEF m
<1>5. /\ SubSeq(ages, m + 1, Len(ages)) \in Seq(Nat) /\ Len(SubSeq(ages, m + 1, Len(ages))) = Len(ages) - m
      /\ \A i \in 1..(Len(ages) - m) : SubSeq(ages, m + 1, Len(ages))[i] = ages[m + i]
  BY <1>3
<1> QED BY <1>3, <1>4, <1>5
\* What is left of the checks without canaries is their beginning.
LEMMA NoCanaryIsStart ==
  ASSUME NEW q \in Seq(Check), InOrder(q)
  PROVE  /\ NoCanary(q) \in Seq(Check) /\ Len(NoCanary(q)) <= Len(q)
         /\ \A i \in 1..Len(NoCanary(q)) : NoCanary(q)[i] = q[i]
<1> DEFINE First(n) == \A i \in 1..Len(q) : i <= n <=> q[i] \notin Canary
           upto == CHOOSE n \in 0..Len(q) : First(n)
           T == {i \in 1..Len(q) : q[i] \in Canary}
<1>1. \A i, j \in 1..Len(q) : i \in T /\ i <= j => j \in T
  BY DEF InOrder
<1>2. T \in SUBSET (1..Len(q)) /\ Len(q) \in Nat /\ \A i \in 1..Len(q) : i \in T <=> q[i] \in Canary
  OBVIOUS
<1> HIDE DEF T
<1>3. PICK s \in 0..Len(q) : \A i \in 1..Len(q) : i > s <=> i \in T
  BY <1>1, <1>2, EndOf
<1>4. First(s)
  <2>1. ASSUME NEW i \in 1..Len(q) PROVE i <= s <=> q[i] \notin Canary
    <3>1. i > s <=> q[i] \in Canary
      BY <1>2, <1>3
    <3>2. i \in Nat /\ s \in Nat
      BY <1>2, <1>3
    <3> QED BY <3>1, <3>2
  <2> QED BY <2>1
<1>5. upto \in 0..Len(q)
  BY <1>3, <1>4
<1>6. NoCanary(q) = SubSeq(q, 1, upto)
  BY DEF NoCanary
<1> HIDE DEF upto
<1> QED BY <1>5, <1>6

\* A stretch of checks in order is in order.
LEMMA StretchInOrder ==
  ASSUME NEW q \in Seq(Check), InOrder(q), NEW r \in Seq(Check), NEW s \in Nat, Len(r) + s <= Len(q),
         \A i \in 1..Len(r) : r[i] = q[i + s]
  PROVE  InOrder(r) /\ \A i \in 1..Len(r) : \E m \in 1..Len(q) : q[m] = r[i]
<1>1. \A i \in 1..Len(r) : i + s \in 1..Len(q) /\ r[i] = q[i + s]
  OBVIOUS
<1>2. \A m, n \in 1..Len(r) : r[m] \in Fixable /\ r[n] = SilentKill => m < n
  <2> SUFFICES ASSUME NEW m \in 1..Len(r), NEW n \in 1..Len(r), r[m] \in Fixable, r[n] = SilentKill
               PROVE  m < n
    OBVIOUS
  <2>1. m + s < n + s
    BY <1>1 DEF InOrder
  <2> QED BY <2>1
<1>3. \A m, n \in 1..Len(r) : r[m] \in Canary /\ m < n => r[n] \in Canary
  <2> SUFFICES ASSUME NEW m \in 1..Len(r), NEW n \in 1..Len(r), r[m] \in Canary, m < n
               PROVE  r[n] \in Canary
    OBVIOUS
  <2>1. m + s < n + s /\ q[m + s] \in Canary
    BY <1>1
  <2>2. q[n + s] \in Canary
    BY <1>1, <2>1 DEF InOrder
  <2> QED BY <1>1, <2>2
<1> QED BY <1>1, <1>2, <1>3 DEF InOrder

\* However a check proceeds, what is left is in order and was left before.
LEMMA Proceeding ==
  ASSUME TodoInv, todo # <<>>, Proceeds \/ todo' = Tail(todo)
  PROVE  /\ todo' \in Seq(Check) /\ InOrder(todo')
         /\ \A i \in 1..Len(todo') : \E m \in 1..Len(todo) : m > 1 /\ todo[m] = todo'[i]
<1> DEFINE rest == Tail(todo)
<1>1. /\ todo \in Seq(Check) /\ InOrder(todo) /\ rest \in Seq(Check) /\ Len(rest) + 1 <= Len(todo)
      /\ \A i \in 1..Len(rest) : rest[i] = todo[i + 1] /\ i + 1 \in 1..Len(todo) /\ i + 1 > 1
  BY DEF TodoInv
<1> HIDE DEF rest
<1>2. InOrder(rest)
  BY <1>1, StretchInOrder
<1>3. CASE todo' = rest
  BY <1>1, <1>2, <1>3
<1>4. CASE todo' = NoCanary(rest)
  <2>1. /\ NoCanary(rest) \in Seq(Check) /\ Len(NoCanary(rest)) <= Len(rest)
        /\ \A i \in 1..Len(NoCanary(rest)) : NoCanary(rest)[i] = rest[i]
    BY <1>1, <1>2, NoCanaryIsStart
  <2>2. \A i \in 1..Len(todo') : todo'[i] = rest[i + 0]
    BY <1>4, <2>1
  <2>3. todo' \in Seq(Check) /\ Len(todo') + 0 <= Len(rest)
    BY <1>1, <1>4, <2>1
  <2>4. InOrder(todo')
    BY <1>1, <1>2, <2>2, <2>3, StretchInOrder
  <2>5. \A i \in 1..Len(todo') : i \in 1..Len(rest) /\ todo'[i] = rest[i]
    BY <1>1, <1>4, <2>1
  <2> QED BY <1>1, <2>3, <2>4, <2>5
<1>5. CASE todo' = <<>>
  BY <1>5 DEF InOrder
<1> QED BY <1>3, <1>4, <1>5 DEF Proceeds, rest

LEMMA UntroubledTyped == Untroubled \in CheckState
  BY DEF Untroubled, CheckState, Age

LEMMA StrikesCount == ASSUME HeartbeatTyped, NEW k \in Check PROVE Strikes(k) \in Nat /\ memo.checks[k] \in CheckState
<1>1. memo.checks[k] \in CheckState /\ memo.checks[k].fails \in Nat
  BY DEF HeartbeatTyped, RunState, CheckState
<1> QED BY <1>1, HeartbeatAssumption DEF Strikes, Least

\* The entry of a check with an alert out.
LEMMA AlertedTyped ==
  ASSUME HeartbeatTyped, NEW k \in Check
  PROVE  /\ Alerted(k) \in CheckState /\ Alerted(k).alerting
         /\ \A n \in Nat : [Alerted(k) EXCEPT !.deferrals = n] \in CheckState /\ [Alerted(k) EXCEPT !.deferrals = n].alerting
         /\ \A n \in Nat, g \in Age : LET c == [Alerted(k) EXCEPT !.deferrals = n] IN
              [c EXCEPT !.alerted = g] \in CheckState /\ [c EXCEPT !.alerted = g].alerting
<1>1. memo.checks[k] \in CheckState /\ Strikes(k) \in Nat
  BY StrikesCount
<1>2. Alerted(k) \in CheckState /\ Alerted(k).alerting
  BY <1>1 DEF Alerted, CheckState, Age
<1>3. ASSUME NEW c \in CheckState, c.alerting, NEW n \in Nat
      PROVE  [c EXCEPT !.deferrals = n] \in CheckState /\ [c EXCEPT !.deferrals = n].alerting
  BY <1>3 DEF CheckState
<1>4. ASSUME NEW c \in CheckState, c.alerting, NEW g \in Age
      PROVE  [c EXCEPT !.alerted = g] \in CheckState /\ [c EXCEPT !.alerted = g].alerting
  BY <1>4 DEF CheckState
<1> QED BY <1>2, <1>3, <1>4

\* What the check of k does to it and to the alerts: it passed, it counts on, or an alert says that it failed.
Passed(k, c) == c = Untroubled /\ Resolved(k)
Counted(k, c) ==
  /\ alerts' = alerts /\ c = [memo.checks[k] EXCEPT !.fails = Strikes(k)]
  /\ Strikes(k) >= 2 => memo.checks[k].alerted # Never
Told(k, c) ==
  c.alerting /\ \E page \in BOOLEAN : alerts' = Append(alerts, [key |-> k, page |-> page, resolves |-> FALSE])

Kicks ==
  \/ memo'.restarts = memo.restarts /\ kicked' = kicked
  \/ Len(Recent) < RestartBudget /\ memo'.restarts = Append(Recent, 0) /\ kicked' \in {kicked, Append(kicked, 0)}

\* What a check that comes to an end leaves.
CheckEnds(k) ==
  /\ Observes(k) /\ Proceeds /\ Kicks
  /\ \E c \in CheckState :
       /\ memo' \in RunState /\ memo'.checks = [memo.checks EXCEPT ![k] = c]
       /\ Passed(k, c) \/ Counted(k, c) \/ Told(k, c)
  /\ memo'.incidents = memo.incidents /\ memo'.path = memo.path /\ memo'.offset = memo.offset
  /\ UNCHANGED <<running, file, day, logbook, slack, killed, hung>>

\* A check leaves an entry of its own.
LEMMA Leaving ==
  ASSUME HeartbeatTyped, NEW k \in Check, NEW c \in CheckState, Note(k, c)
  PROVE  /\ memo' \in RunState /\ memo'.checks = [memo.checks EXCEPT ![k] = c] /\ memo'.restarts = memo.restarts
         /\ memo'.incidents = memo.incidents /\ memo'.path = memo.path /\ memo'.offset = memo.offset
<1>1. memo \in RunState /\ [memo.checks EXCEPT ![k] = c] \in [Check -> CheckState]
  BY DEF HeartbeatTyped, RunState
<1> QED BY <1>1 DEF Note, RunState

LEMMA RecentTyped == ASSUME HeartbeatTyped PROVE Recent \in Seq(Nat)
<1>1. memo.restarts \in Seq(Nat) /\ Orderly(memo.restarts) /\ Hour \in Nat
  BY HeartbeatAssumption DEF HeartbeatTyped, RunState
<1> QED BY <1>1, WithinIsEnd DEF Recent

LEMMA Kicking ==
  ASSUME HeartbeatTyped, NEW k \in Check, NEW c \in CheckState, Restarted(k, c)
  PROVE  /\ memo' \in RunState /\ memo'.checks = [memo.checks EXCEPT ![k] = c] /\ memo'.restarts = Append(Recent, 0)
         /\ memo'.incidents = memo.incidents /\ memo'.path = memo.path /\ memo'.offset = memo.offset
<1>1. memo \in RunState /\ [memo.checks EXCEPT ![k] = c] \in [Check -> CheckState]
  BY DEF HeartbeatTyped, RunState
<1>2. Append(Recent, 0) \in Seq(Nat)
  BY RecentTyped
<1> QED BY <1>1, <1>2 DEF Restarted, RunState

LEMMA CheckingEnds ==
  ASSUME HeartbeatTyped, NEW k \in Check, Checked(k), ~RestartHangs(k)
  PROVE  CheckEnds(k)
<1>1. memo.checks[k] \in CheckState /\ Strikes(k) \in Nat
  BY StrikesCount
<1>2. CASE Recover(k)
  BY <1>2, UntroubledTyped, Leaving DEF Recover, CheckEnds, Passed, Kicks, past
<1>3. CASE Count(k)
  <2> DEFINE c == [memo.checks[k] EXCEPT !.fails = Strikes(k)]
  <2>1. c \in CheckState
    BY <1>1 DEF CheckState
  <2>2. Observes(k) /\ (Strikes(k) >= 2 => memo.checks[k].alerted # Never) /\ Note(k, c)
    BY <1>1, <1>3 DEF Count, Counting, Due
  <2> HIDE DEF c
  <2>3. Counted(k, c)
    BY <1>3, <2>2 DEF Count, Counted, c
  <2> QED BY <1>3, <2>1, <2>2, <2>3, Leaving DEF Count, CheckEnds, Kicks, past
<1>4. CASE Defer(k)
  <2> DEFINE d == Least(memo.checks[k].deferrals + 1, MaxRestartDeferrals + 1)
             c == [Alerted(k) EXCEPT !.deferrals = d]
             e == IF d <= MaxRestartDeferrals THEN [c EXCEPT !.alerted = memo.checks[k].alerted] ELSE c
  <2>1. d \in Nat /\ memo.checks[k].alerted \in Age
    <3>1. MaxRestartDeferrals \in Nat
      BY HeartbeatAssumption
    <3>2. memo.checks[k].deferrals \in Nat /\ memo.checks[k].alerted \in Age
      BY <1>1 DEF CheckState
    <3> QED BY <3>1, <3>2 DEF Least
  <2>2. Note(k, e) /\ Alert(k, ~(d <= MaxRestartDeferrals), FALSE)
    BY <1>4 DEF Defer
  <2>3. e \in CheckState /\ e.alerting
    <3> HIDE DEF d
    <3> QED BY <2>1, AlertedTyped
  <2> HIDE DEF e, d
  <2>4. Told(k, e)
    BY <2>2, <2>3 DEF Told, Alert
  <2> QED BY <1>4, <2>2, <2>3, <2>4, Leaving DEF Defer, Acting, CheckEnds, Kicks, past
<1>5. CASE RestartHelps(k)
  BY <1>5, UntroubledTyped, Kicking DEF RestartHelps, CheckEnds, Passed, Kicks, MayRestart, Acting
<1>6. CASE RestartFails(k)
  <2> DEFINE c == [Alerted(k) EXCEPT !.deferrals = 0]
  <2>1. c \in CheckState /\ c.alerting
    BY AlertedTyped
  <2>2. Restarted(k, c) /\ Alert(k, TRUE, FALSE)
    BY <1>6 DEF RestartFails
  <2> HIDE DEF c
  <2>3. Told(k, c)
    BY <2>1, <2>2 DEF Told, Alert
  <2> QED BY <1>6, <2>1, <2>2, <2>3, Kicking DEF RestartFails, CheckEnds, Kicks, MayRestart, Acting
<1>7. CASE RaiseAlert(k)
  <2>1. Told(k, Alerted(k))
    BY <1>7, AlertedTyped DEF Told, Alert, RaiseAlert
  <2> QED BY <1>7, <2>1, AlertedTyped, Leaving DEF RaiseAlert, Acting, CheckEnds, Kicks, past
<1> QED BY <1>2, <1>3, <1>4, <1>5, <1>6, <1>7 DEF Checked, Restarts

\* One alert is sent, and what Slack and the run know of it after that.
LEMMA Sending ==
  ASSUME HeartbeatTyped, NEW a \in AlertRecord, NEW through \in BOOLEAN, NEW landed \in BOOLEAN, NEW age \in Age,
         Sent(a, through, landed, age)
  PROVE  /\ memo' \in RunState /\ memo'.checks = memo.checks /\ memo'.restarts = memo.restarts
         /\ memo'.path = memo.path /\ memo'.offset = memo.offset /\ memo'.incidents[a.key] = age
         /\ story' \in [Check -> {"none", "failing", "recovered"}] /\ refused' \subseteq Check
         /\ \A k \in Check \ {a.key} :
              memo'.incidents[k] = memo.incidents[k] /\ story'[k] = story[k] /\ (k \in refused' <=> k \in refused)
         /\ ~through => a.key \in refused'
         /\ landed => story'[a.key] = IF a.resolves THEN "recovered" ELSE "failing"
<1>1. a.key \in Check /\ memo \in RunState /\ memo.incidents \in [Check -> Age]
      /\ [memo.incidents EXCEPT ![a.key] = age] \in [Check -> Age]
  BY DEF AlertRecord, HeartbeatTyped, RunState
<1>2. /\ memo' \in RunState /\ memo'.checks = memo.checks /\ memo'.restarts = memo.restarts
      /\ memo'.path = memo.path /\ memo'.offset = memo.offset
      /\ memo'.incidents = [memo.incidents EXCEPT ![a.key] = age]
  BY <1>1 DEF Sent, RunState
<1>3. /\ story' \in [Check -> {"none", "failing", "recovered"}]
      /\ \A k \in Check \ {a.key} : story'[k] = story[k]
      /\ landed => story'[a.key] = IF a.resolves THEN "recovered" ELSE "failing"
  BY <1>1 DEF Sent, HeartbeatTyped
<1>4. /\ refused' \subseteq Check /\ (~through => a.key \in refused')
      /\ \A k \in Check \ {a.key} : k \in refused' <=> k \in refused
  BY <1>1 DEF Sent, HeartbeatTyped
<1> QED BY <1>1, <1>2, <1>3, <1>4

\* What becomes of an alert: a recovery that nobody waits for, a refusal, or the new end of the thread.
Delivered(a) ==
  /\ memo' \in RunState /\ memo'.checks = memo.checks /\ memo'.restarts = memo.restarts
  /\ memo'.path = memo.path /\ memo'.offset = memo.offset
  /\ story' \in [Check -> {"none", "failing", "recovered"}] /\ refused' \subseteq Check
  /\ \A k \in Check \ {a.key} :
       memo'.incidents[k] = memo.incidents[k] /\ story'[k] = story[k] /\ (k \in refused' <=> k \in refused)
  /\ \/ a.resolves /\ memo.incidents[a.key] = Never /\ UNCHANGED <<memo, story, refused>>
     \/ a.key \in refused'
     \/ a.resolves /\ story'[a.key] = "recovered"
     \/ ~a.resolves /\ story'[a.key] = "failing" /\ memo'.incidents[a.key] # Never

LEMMA Delivering ==
  ASSUME HeartbeatTyped, DeliverAlert
  PROVE  /\ Head(alerts) \in AlertRecord /\ Delivered(Head(alerts))
         /\ running /\ alerts # <<>> /\ alerts' = Tail(alerts) /\ UNCHANGED <<running, todo, file, day, logbook, past>>
<1> DEFINE a == Head(alerts)
           there == memo.incidents[a.key]
           open == IF there = IncidentTtl THEN Never ELSE there
           begun == IF open = Never THEN 0 ELSE open
<1>1. alerts \in Seq(AlertRecord) /\ alerts # <<>>
  BY DEF HeartbeatTyped, DeliverAlert
<1>2. a \in AlertRecord
  BY <1>1
<1>3. a.key \in Check /\ a.resolves \in BOOLEAN /\ there \in Age
  BY <1>2 DEF AlertRecord, HeartbeatTyped, RunState
<1>4. open \in Age /\ begun \in Age /\ Never \in Age /\ begun # Never
  BY <1>3, HeartbeatAssumption DEF Age
<1>5. \/ a.resolves /\ there = Never /\ UNCHANGED <<memo, slack>>
      \/ Tells(a)
      \/ Sent(a, FALSE, FALSE, there)
  BY <1>3 DEF DeliverAlert
<1> HIDE DEF a
<1>6. Delivered(a)
  <2>1. CASE a.resolves /\ there = Never /\ UNCHANGED <<memo, slack>>
    BY <2>1 DEF Delivered, slack, HeartbeatTyped
  <2>2. CASE Sent(a, FALSE, FALSE, there)
    BY <1>2, <1>3, <2>2, Sending DEF Delivered
  <2>3. CASE Tells(a)
    <3> DEFINE left(age) == IF a.resolves THEN Never ELSE age
    <3>1. left(begun) \in Age /\ left(open) \in Age /\ (~a.resolves => left(begun) # Never)
      BY <1>4
    <3>2. \/ Sent(a, TRUE, TRUE, left(begun))
          \/ Sent(a, FALSE, TRUE, begun)
          \/ Sent(a, FALSE, FALSE, left(open))
          \/ \E landed \in BOOLEAN : Sent(a, FALSE, landed, open)
      BY <2>3 DEF Tells
    <3> HIDE DEF left, open, begun
    <3>3. CASE Sent(a, TRUE, TRUE, left(begun))
      BY <1>2, <1>3, <3>1, <3>3, Sending DEF Delivered
    <3>4. CASE Sent(a, FALSE, TRUE, begun)
      BY <1>2, <1>4, <3>4, Sending DEF Delivered
    <3>5. CASE Sent(a, FALSE, FALSE, left(open))
      BY <1>2, <3>1, <3>5, Sending DEF Delivered
    <3>6. CASE \E landed \in BOOLEAN : Sent(a, FALSE, landed, open)
      BY <1>2, <1>4, <3>6, Sending DEF Delivered
    <3> QED BY <3>2, <3>3, <3>4, <3>5, <3>6
  <2> QED BY <1>5, <2>1, <2>2, <2>3
<1> QED BY <1>1, <1>2, <1>6 DEF DeliverAlert, a

\* What the scan of the log leaves.
LEMMA Scanning ==
  ASSUME HeartbeatTyped, LogTyped, Scan
  PROVE  /\ running /\ todo # <<>> /\ todo' = Tail(todo) /\ Head(todo) = SilentKill
         /\ memo' \in RunState /\ memo'.restarts = memo.restarts /\ memo'.incidents = memo.incidents
         /\ \A k \in Check \ {SilentKill} : memo'.checks[k] = memo.checks[k]
         /\ memo'.checks[SilentKill].fails = memo.checks[SilentKill].fails
         /\ memo'.path = (IF lines[day] # Never THEN day ELSE memo.path)
         /\ memo'.offset = (IF lines[day] # Never THEN lines[day] ELSE memo.offset)
         /\ \/ alerts' = alerts
            \/ alerts' = Append(alerts, [key |-> SilentKill, page |-> FALSE, resolves |-> FALSE])
         /\ UNCHANGED <<running, file, day, lines, emptied, slack, past>>
<1> DEFINE s == memo.checks[SilentKill]
           found == memo.pending \/ Rest + News > 0
           tells == found /\ s.alerted \in {Never, Realert}
           read == lines[day] # Never
           path == IF read THEN day ELSE memo.path
           offset == IF read THEN lines[day] ELSE memo.offset
           alerted == IF tells THEN 0 ELSE s.alerted
<1>1. memo' = [memo EXCEPT !.path = path, !.offset = offset, !.pending = found /\ ~tells,
                           !.checks[SilentKill].alerted = alerted]
  BY DEF Scan
<1>2. /\ memo \in RunState /\ SilentKill \in Check /\ s \in CheckState /\ memo.checks \in [Check -> CheckState]
      /\ memo.offset \in Nat /\ memo.pending \in BOOLEAN /\ s.alerted \in Age
  BY HeartbeatAssumption DEF HeartbeatTyped, RunState, CheckState
<1>3. path \in Day \cup {Never} /\ offset \in Nat /\ alerted \in Age /\ (found /\ ~tells) \in BOOLEAN
  BY <1>2 DEF HeartbeatTyped, LogTyped, RunState, Age
<1> DEFINE c == [s EXCEPT !.alerted = alerted]
<1>4. c \in CheckState /\ c.fails = s.fails
  BY <1>2, <1>3 DEF CheckState
<1>5. [memo.checks EXCEPT ![SilentKill] = c] \in [Check -> CheckState]
  BY <1>2, <1>4
<1> DEFINE later == found /\ ~tells
<1> HIDE DEF path, offset, alerted, found, tells, later
<1>6. /\ memo' \in RunState /\ memo'.restarts = memo.restarts /\ memo'.incidents = memo.incidents
      /\ memo'.checks = [memo.checks EXCEPT ![SilentKill] = c] /\ memo'.path = path /\ memo'.offset = offset
  BY <1>1, <1>2, <1>3, <1>4, <1>5 DEF RunState
<1> USE DEF path, offset
<1> QED BY <1>2, <1>4, <1>6 DEF Scan, Alert

\* Stamps stay in order when time passes.
LEMMA Ageing ==
  ASSUME NEW ages \in Seq(Nat), Orderly(ages)
  PROVE  /\ Later(ages) \in Seq(Nat) /\ Len(Later(ages)) = Len(ages) /\ Orderly(Later(ages))
         /\ \A i \in 1..Len(ages) : Later(ages)[i] = Least(ages[i] + 1, Hour)
<1>1. Len(ages) \in Nat /\ DOMAIN ages = 1..Len(ages) /\ Hour \in Nat /\ \A i \in 1..Len(ages) : ages[i] \in Nat
  BY HeartbeatAssumption
<1>2. \A n \in Nat : Least(n + 1, Hour) \in Nat
  BY <1>1 DEF Least
<1>3. Later(ages) \in [1..Len(ages) -> Nat]
  BY <1>1, <1>2 DEF Later
<1>4. Later(ages) \in Seq(Nat) /\ Len(Later(ages)) = Len(ages)
  BY <1>1, <1>3
<1>5. \A i \in 1..Len(ages) : Later(ages)[i] = Least(ages[i] + 1, Hour)
  BY <1>1 DEF Later
<1>6. \A m, n \in Nat : m >= n => Least(m + 1, Hour) >= Least(n + 1, Hour)
  BY <1>1 DEF Least
<1>7. Orderly(Later(ages))
  <2> SUFFICES ASSUME NEW i \in 1..Len(ages), NEW k \in 1..Len(ages), i <= k
               PROVE  Later(ages)[i] >= Later(ages)[k]
    BY <1>4 DEF Orderly
  <2>1. ages[i] >= ages[k] /\ ages[i] \in Nat /\ ages[k] \in Nat
    BY <1>1 DEF Orderly
  <2> QED BY <1>5, <1>6, <2>1
<1> QED BY <1>4, <1>5, <1>7

\* What the passing of time leaves of the state.
LEMMA Passing ==
  ASSUME HeartbeatTyped, Passes
  PROVE  /\ ~running /\ file' \in RunState /\ file'.restarts = Later(file.restarts)
         /\ file'.path = file.path /\ file'.offset = file.offset
         /\ \A k \in Check :
              /\ file'.checks[k].fails = file.checks[k].fails /\ file'.checks[k].alerting = file.checks[k].alerting
              /\ file'.checks[k].alerted = Never <=> file.checks[k].alerted = Never
              /\ file'.incidents[k] = Never <=> file.incidents[k] = Never
         /\ kicked' = Within(Later(kicked), Hour)
         /\ UNCHANGED <<memory, day, logbook, slack, killed, hung>>
<1>1. file \in RunState /\ file.restarts \in Seq(Nat) /\ Orderly(file.restarts)
      /\ file.checks \in [Check -> CheckState] /\ file.incidents \in [Check -> Age]
  BY DEF HeartbeatTyped, RunState
<1>2. \A age \in Age, limit \in Nat : Aged(age, limit) \in Age /\ (Aged(age, limit) = Never <=> age = Never)
  BY HeartbeatAssumption DEF Aged, Age, Least
<1>3. Realert \in Nat /\ IncidentTtl \in Nat
  BY HeartbeatAssumption
<1> DEFINE checks == [k \in Check |-> [file.checks[k] EXCEPT !.alerted = Aged(file.checks[k].alerted, Realert)]]
           incidents == [k \in Check |-> Aged(file.incidents[k], IncidentTtl)]
<1>4. ASSUME NEW k \in Check
      PROVE  /\ checks[k] \in CheckState /\ checks[k].fails = file.checks[k].fails
             /\ checks[k].alerting = file.checks[k].alerting
             /\ checks[k].alerted = Never <=> file.checks[k].alerted = Never
             /\ incidents[k] \in Age /\ (incidents[k] = Never <=> file.incidents[k] = Never)
  <2>1. file.checks[k] \in CheckState /\ file.checks[k].alerted \in Age /\ file.incidents[k] \in Age
    BY <1>1 DEF CheckState
  <2>2. /\ Aged(file.checks[k].alerted, Realert) \in Age
        /\ Aged(file.checks[k].alerted, Realert) = Never <=> file.checks[k].alerted = Never
    BY <1>2, <1>3, <2>1
  <2>3. incidents[k] \in Age /\ (incidents[k] = Never <=> file.incidents[k] = Never)
    BY <1>2, <1>3, <2>1
  <2>4. checks[k] = [file.checks[k] EXCEPT !.alerted = Aged(file.checks[k].alerted, Realert)]
    OBVIOUS
  <2> HIDE DEF checks, incidents
  <2> QED BY <2>1, <2>2, <2>3, <2>4 DEF CheckState
<1>5. checks \in [Check -> CheckState] /\ incidents \in [Check -> Age]
  BY <1>4
<1>6. file' = [file EXCEPT !.checks = checks, !.restarts = Later(file.restarts), !.incidents = incidents]
  <2>1. checks = [k \in Check |-> [file.checks[k] EXCEPT !.alerted = Aged(@, Realert)]]
    OBVIOUS
  <2> QED BY <2>1, Zenon DEF Passes
<1> HIDE DEF checks, incidents
<1>7. /\ file' \in RunState /\ file'.restarts = Later(file.restarts) /\ file'.checks = checks
      /\ file'.incidents = incidents /\ file'.path = file.path /\ file'.offset = file.offset
  BY <1>1, <1>5, <1>6, Ageing DEF RunState
<1> QED BY <1>4, <1>7 DEF Passes, Later

-----------------------------------------------------------------------------
(* The restarts of an hour *)

\* The restarts on record that are not too old are in order, and those of the last hour are among them.
LEMMA RecentKeeps ==
  ASSUME NEW r \in Seq(Nat), Orderly(r)
  PROVE  /\ Within(r, Hour) \in Seq(Nat) /\ Orderly(Within(r, Hour))
         /\ \A i \in 1..Len(Within(r, Hour)) : Within(r, Hour)[i] < Hour
         /\ \A seen \in Seq(Nat) :
              OnRecord(r, seen) /\ (\A i \in 1..Len(seen) : seen[i] < Hour) => OnRecord(Within(r, Hour), seen)
<1> DEFINE w == Within(r, Hour)
<1>1. Hour \in Nat /\ Len(r) \in Nat /\ \A i \in 1..Len(r) : r[i] \in Nat
  BY HeartbeatAssumption
<1>2. PICK n \in 0..Len(r) :
        /\ \A i \in 1..Len(r) : i > n <=> r[i] < Hour
        /\ w \in Seq(Nat) /\ Len(w) = Len(r) - n
        /\ \A i \in 1..(Len(r) - n) : w[i] = r[n + i]
  BY <1>1, WithinIsEnd
<1> HIDE DEF w
<1>3. \A i \in 1..Len(w) : n + i \in 1..Len(r) /\ n + i > n /\ w[i] = r[n + i]
  BY <1>1, <1>2
<1>4. \A i \in 1..Len(w) : w[i] < Hour
  BY <1>2, <1>3
<1>5. Orderly(w)
  <2> SUFFICES ASSUME NEW i \in 1..Len(w), NEW k \in 1..Len(w), i <= k PROVE w[i] >= w[k]
    BY DEF Orderly
  <2>1. n + i <= n + k
    BY <1>2
  <2> QED BY <1>3, <2>1 DEF Orderly
<1>6. ASSUME NEW seen \in Seq(Nat), OnRecord(r, seen), \A i \in 1..Len(seen) : seen[i] < Hour
      PROVE  OnRecord(w, seen)
  <2>1. Len(seen) \in Nat /\ Len(seen) <= Len(r) /\ \A i \in 1..Len(seen) : seen[i] \in Nat
    BY <1>6 DEF OnRecord
  <2>2. ASSUME NEW i \in 1..Len(seen) PROVE Len(r) - Len(seen) + i > n /\ seen[i] >= r[Len(r) - Len(seen) + i]
    <3>1. seen[i] >= r[Len(r) - Len(seen) + i] /\ seen[i] < Hour
      BY <1>6 DEF OnRecord
    <3>2. Len(r) - Len(seen) + i \in 1..Len(r)
      BY <1>1, <2>1
    <3>3. r[Len(r) - Len(seen) + i] < Hour
      BY <1>1, <2>1, <3>1, <3>2
    <3> QED BY <1>2, <3>1, <3>2, <3>3
  <2>3. Len(seen) <= Len(w)
    <3>1. CASE Len(seen) = 0
      BY <1>1, <1>2, <3>1
    <3>2. CASE Len(seen) > 0
      <4>1. Len(r) - Len(seen) + 1 > n
        BY <2>1, <2>2, <3>2
      <4> QED BY <1>1, <1>2, <2>1, <4>1
    <3> QED BY <2>1, <3>1, <3>2
  <2>4. ASSUME NEW i \in 1..Len(seen) PROVE seen[i] >= w[Len(w) - Len(seen) + i]
    <3>1. Len(w) - Len(seen) + i \in 1..Len(w) /\ n + (Len(w) - Len(seen) + i) = Len(r) - Len(seen) + i
      BY <1>1, <1>2, <2>1, <2>3
    <3>2. w[Len(w) - Len(seen) + i] = r[Len(r) - Len(seen) + i]
      BY <1>3, <3>1
    <3> QED BY <2>2, <3>2
  <2> QED BY <2>3, <2>4 DEF OnRecord
<1> QED BY <1>2, <1>4, <1>5, <1>6 DEF w

\* A restart comes last, on record and in the hour.
LEMMA Latest ==
  ASSUME NEW r \in Seq(Nat), Orderly(r)
  PROVE  Append(r, 0) \in Seq(Nat) /\ Orderly(Append(r, 0))
<1>1. /\ Append(r, 0) \in Seq(Nat) /\ Len(Append(r, 0)) = Len(r) + 1 /\ Len(r) \in Nat
      /\ Append(r, 0)[Len(r) + 1] = 0
      /\ \A i \in 1..Len(r) : Append(r, 0)[i] = r[i] /\ r[i] \in Nat
  OBVIOUS
<1> DEFINE a == Append(r, 0)
<1>2. ASSUME NEW i \in 1..Len(a), NEW k \in 1..Len(a), i <= k PROVE a[i] >= a[k]
  <2>1. CASE k = Len(r) + 1
    <3>1. a[i] \in Nat /\ a[k] = 0
      BY <1>1, <2>1
    <3> QED BY <3>1
  <2>2. CASE k # Len(r) + 1
    <3>1. i \in 1..Len(r) /\ k \in 1..Len(r)
      BY <1>1, <1>2, <2>2
    <3> QED BY <1>1, <1>2, <3>1 DEF Orderly
  <2> QED BY <2>1, <2>2
<1> QED BY <1>1, <1>2 DEF Orderly

LEMMA KickKeeps ==
  ASSUME NEW r \in Seq(Nat), Orderly(r), NEW seen \in Seq(Nat), OnRecord(r, seen),
         NEW later, later \in {seen, Append(seen, 0)}
  PROVE  OnRecord(Append(r, 0), later)
<1> DEFINE a == Append(r, 0)
           b == Append(seen, 0)
<1>1. /\ Len(r) \in Nat /\ Len(a) = Len(r) + 1 /\ a[Len(r) + 1] = 0
      /\ \A i \in 1..Len(r) : a[i] = r[i] /\ r[i] \in Nat
  OBVIOUS
<1>2. /\ Len(seen) \in Nat /\ Len(b) = Len(seen) + 1 /\ b[Len(seen) + 1] = 0
      /\ \A i \in 1..Len(seen) : b[i] = seen[i] /\ seen[i] \in Nat
  OBVIOUS
<1>3. Len(seen) <= Len(r) /\ \A i \in 1..Len(seen) : seen[i] >= r[Len(r) - Len(seen) + i]
  BY DEF OnRecord
<1> HIDE DEF a, b
<1>4. CASE later = b
  <2>1. ASSUME NEW i \in 1..(Len(seen) + 1)
        PROVE  b[i] >= a[Len(r) + 1 - (Len(seen) + 1) + i]
    <3>1. CASE i = Len(seen) + 1
      <4>1. Len(r) + 1 - (Len(seen) + 1) + i = Len(r) + 1
        BY <1>1, <1>2, <3>1
      <4> QED BY <1>1, <1>2, <3>1, <4>1
    <3>2. CASE i # Len(seen) + 1
      <4>1. i \in 1..Len(seen) /\ Len(r) + 1 - (Len(seen) + 1) + i = Len(r) - Len(seen) + i
            /\ Len(r) - Len(seen) + i \in 1..Len(r)
        BY <1>1, <1>2, <1>3, <3>2
      <4> QED BY <1>1, <1>2, <1>3, <4>1
    <3> QED BY <3>1, <3>2
  <2>2. ASSUME NEW i \in 1..Len(b) PROVE b[i] >= a[Len(a) - Len(b) + i]
    <3>1. i \in 1..(Len(seen) + 1) /\ Len(a) - Len(b) + i = Len(r) + 1 - (Len(seen) + 1) + i
      BY <1>1, <1>2
    <3>2. b[i] >= a[Len(r) + 1 - (Len(seen) + 1) + i]
      BY <2>1, <3>1
    <3> QED BY <3>1, <3>2
  <2>3. Len(b) <= Len(a)
    BY <1>1, <1>2, <1>3
  <2>4. OnRecord(a, b)
    BY <2>2, <2>3 DEF OnRecord
  <2> QED BY <1>4, <2>4 DEF a
<1>5. CASE later = seen
  <2>1. ASSUME NEW i \in 1..Len(seen) PROVE seen[i] >= a[Len(r) + 1 - Len(seen) + i]
    <3> DEFINE n == Len(r) - Len(seen) + i
    <3>1. n \in 1..Len(r) /\ Len(r) + 1 - Len(seen) + i = n + 1 /\ seen[i] >= r[n] /\ seen[i] \in Nat
      BY <1>1, <1>2, <1>3
    <3> HIDE DEF n
    <3>2. CASE n = Len(r)
      <4>1. a[n + 1] = 0
        BY <1>1, <3>2
      <4>2. n + 1 \in Nat /\ Len(r) + 1 - Len(seen) + i = n + 1
        BY <3>1
      <4> QED BY <3>1, <4>1, <4>2
    <3>3. CASE n # Len(r)
      <4>1. n + 1 \in 1..Len(r) /\ n <= n + 1
        BY <1>1, <3>1, <3>3
      <4>2. r[n] >= r[n + 1] /\ r[n] \in Nat /\ r[n + 1] \in Nat
        BY <1>1, <3>1, <4>1 DEF Orderly
      <4>3. a[n + 1] = r[n + 1]
        BY <1>1, <4>1
      <4>4. seen[i] >= r[n + 1]
        BY <3>1, <4>2
      <4>5. Len(r) + 1 - Len(seen) + i = n + 1
        BY <3>1
      <4> QED BY <4>3, <4>4, <4>5
    <3> QED BY <3>2, <3>3
  <2>2. ASSUME NEW i \in 1..Len(seen) PROVE seen[i] >= a[Len(a) - Len(seen) + i]
    <3>1. Len(a) - Len(seen) + i = Len(r) + 1 - Len(seen) + i
      BY <1>1
    <3> QED BY <2>1, <3>1
  <2>3. Len(seen) <= Len(a)
    BY <1>1, <1>2, <1>3
  <2>4. OnRecord(a, seen)
    BY <2>2, <2>3 DEF OnRecord
  <2> QED BY <1>5, <2>4 DEF a
<1> QED BY <1>4, <1>5 DEF a, b

\* The passing of time ages a restart and its record alike.
LEMMA AgeKeeps ==
  ASSUME NEW r \in Seq(Nat), Orderly(r), NEW seen \in Seq(Nat), Orderly(seen), OnRecord(r, seen)
  PROVE  OnRecord(Later(r), Later(seen))
<1>1. Hour \in Nat /\ \A i \in 1..Len(r) : r[i] \in Nat
  BY HeartbeatAssumption
<1>2. Len(seen) \in Nat /\ Len(r) \in Nat /\ \A i \in 1..Len(seen) : seen[i] \in Nat
  OBVIOUS
<1>3. Len(seen) <= Len(r) /\ \A i \in 1..Len(seen) : seen[i] >= r[Len(r) - Len(seen) + i]
  BY DEF OnRecord
<1>4. \A m, n \in Nat : m >= n => Least(m + 1, Hour) >= Least(n + 1, Hour)
  BY <1>1 DEF Least
<1>5. ASSUME NEW i \in 1..Len(seen) PROVE Later(seen)[i] >= Later(r)[Len(r) - Len(seen) + i]
  <2>1. Len(r) - Len(seen) + i \in 1..Len(r)
    BY <1>2, <1>3
  <2>2. Later(seen)[i] = Least(seen[i] + 1, Hour)
    BY Ageing
  <2>3. Later(r)[Len(r) - Len(seen) + i] = Least(r[Len(r) - Len(seen) + i] + 1, Hour)
    BY <2>1, Ageing
  <2>4. seen[i] >= r[Len(r) - Len(seen) + i] /\ seen[i] \in Nat /\ r[Len(r) - Len(seen) + i] \in Nat
    BY <1>1, <1>2, <1>3, <2>1
  <2> QED BY <1>4, <2>2, <2>3, <2>4
<1>6. Len(Later(r)) = Len(r) /\ Len(Later(seen)) = Len(seen)
  BY Ageing
<1> QED BY <1>3, <1>5, <1>6 DEF OnRecord

-----------------------------------------------------------------------------
(* Types, and what a run has left to do *)

LEMMA NoStateTyped == NoState \in RunState /\ Orderly(NoState.restarts) /\ NoState.checks[SilentKill].fails = 0
<1>1. [k \in Check |-> Untroubled] \in [Check -> CheckState] /\ [k \in Check |-> Never] \in [Check -> Age]
  BY UntroubledTyped DEF Age
<1>2. NoState \in RunState /\ NoState.restarts = <<>> /\ NoState.checks = [k \in Check |-> Untroubled]
  BY <1>1 DEF NoState, RunState
<1>3. NoState.checks[SilentKill].fails = 0
  BY <1>2, HeartbeatAssumption DEF Untroubled
<1> QED BY <1>2, <1>3 DEF Orderly

LEMMA HeartbeatBegins == HeartbeatInit => HeartbeatTyped /\ LogTyped /\ TodoInv
<1> SUFFICES ASSUME HeartbeatInit PROVE HeartbeatTyped /\ LogTyped /\ TodoInv
  OBVIOUS
<1>1. Day = 1..LastDay /\ 1 \in Day
  BY HeartbeatAssumption DEF Day
<1>2. HeartbeatTyped
  <2>1. story \in [Check -> {"none", "failing", "recovered"}] /\ alerts = <<>> /\ running = FALSE
    BY DEF HeartbeatInit
  <2>2. memo = NoState /\ file = NoState /\ day \in Day /\ refused = {} /\ killed = FALSE /\ hung = FALSE
    BY <1>1 DEF HeartbeatInit
  <2>3. Orderly(memo.restarts) /\ Orderly(file.restarts) /\ memo \in RunState /\ file \in RunState
        /\ memo.checks[SilentKill].fails = 0 /\ file.checks[SilentKill].fails = 0
    BY <2>2, NoStateTyped
  <2>4. alerts \in Seq(AlertRecord) /\ (~running => alerts = <<>>)
    BY <2>1
  <2>6. running \in BOOLEAN
    BY <2>1, Zenon
  <2>5. refused \subseteq Check /\ killed \in BOOLEAN /\ hung \in BOOLEAN
    BY <2>2
  <2> QED BY <2>1, <2>2, <2>3, <2>4, <2>5, <2>6 DEF HeartbeatTyped
<1>3. LogTyped
  BY <1>1 DEF HeartbeatInit, LogTyped, Age
<1>4. TodoInv
  BY DEF HeartbeatInit, TodoInv, InOrder
<1> QED BY <1>2, <1>3, <1>4

\* The steps of the world that change the log or the date.
LEMMA WorldTyped ==
  ASSUME HeartbeatTyped, LogTyped, LogChanges
  PROVE  LogTyped' /\ day' \in Day /\ UNCHANGED <<memory, file, slack, past>>
<1>1. CASE Midnight
  <2>1. day \in 1..LastDay /\ LastDay \in Nat /\ day' = day + 1 /\ day < LastDay
    BY <1>1, HeartbeatAssumption DEF Midnight, HeartbeatTyped, Day
  <2>2. day' \in Day
    BY <2>1 DEF Day
  <2> QED BY <1>1, <2>2 DEF Midnight, LogTyped, logbook
<1>2. CASE GatewayLogs
  <2>1. day \in Day /\ lines[day] \in Age /\ lines \in [Day -> Age] /\ written \in [Day -> Nat]
    BY DEF HeartbeatTyped, LogTyped
  <2>2. lines' \in [Day -> Age]
    BY <1>2, <2>1 DEF GatewayLogs, Age
  <2>3. written' \in [Day -> Nat]
    BY <1>2, <2>1 DEF GatewayLogs
  <2> QED BY <1>2, <2>1, <2>2, <2>3 DEF GatewayLogs, LogTyped
<1>3. CASE LogEmptied
  BY <1>3 DEF LogEmptied, HeartbeatTyped, LogTyped, Age
<1> QED BY <1>1, <1>2, <1>3 DEF LogChanges

LEMMA ScanTyped ==
  ASSUME HeartbeatTyped, LogTyped, Scan
  PROVE  LogTyped'
<1>1. day \in Day /\ memo \in RunState /\ memo.path \in Day \cup {Never} /\ memo.offset \in Nat /\ lines \in [Day -> Age]
      /\ MaxLines \in Nat
  BY HeartbeatAssumption DEF HeartbeatTyped, RunState, LogTyped
<1>2. \A d \in Day, n \in Nat : SizeOf(d) \in Nat /\ From(d, n) \in Nat
  BY <1>1 DEF SizeOf, From, Age
<1>3. StartOf \in Nat
  BY <1>1, <1>2 DEF StartOf
<1>4. Rest \in Nat /\ News \in Nat
  BY <1>1, <1>2, <1>3 DEF Rest, News
<1>5. \A d \in Day, n \in Nat : CountedMore(d, n) \in Nat
  BY <1>1 DEF CountedMore, Least, LogTyped
<1>6. counted' = [d \in Day |-> CountedMore(d, (IF d = memo.path THEN Rest ELSE 0) + (IF d = day THEN News ELSE 0))]
  BY DEF Scan, Day
<1>7. counted' \in [Day -> Nat]
  BY <1>4, <1>5, <1>6
<1>8. written' \in [Day -> Nat] /\ scanned' \subseteq Day
  BY <1>1 DEF Scan, LogTyped
<1> QED BY <1>7, <1>8 DEF Scan, LogTyped

\* Every variable keeps its type, and what a run has left keeps its order.
LEMMA TypedStep ==
  ASSUME HeartbeatTyped, LogTyped, TodoInv, [HeartbeatNext]_bvars
  PROVE  HeartbeatTyped' /\ LogTyped'
<1> USE DEF HeartbeatTyped
<1>1. CASE UNCHANGED bvars
  BY <1>1 DEF bvars, memory, logbook, slack, past, LogTyped
<1>2. CASE Passes
  <2>1. Orderly(file'.restarts)
    BY <1>2, Passing, Ageing DEF RunState
  <2>2. file'.checks[SilentKill].fails = 0
    BY <1>2, Passing, HeartbeatAssumption
  <2> QED BY <1>2, <2>1, <2>2, Passing DEF memory, logbook, slack, LogTyped
<1>3. CASE LogChanges
  BY <1>3, WorldTyped DEF memory, slack, past
<1>4. CASE BeginRun
  BY <1>4 DEF BeginRun, logbook, slack, past, LogTyped
<1>5. ASSUME NEW k \in Check, CheckEnds(k) PROVE HeartbeatTyped' /\ LogTyped'
  <2>1. Orderly(memo'.restarts)
    <3>1. memo.restarts \in Seq(Nat) /\ Orderly(memo.restarts)
      BY DEF RunState
    <3>2. Recent \in Seq(Nat) /\ Orderly(Recent)
      BY <3>1, RecentKeeps DEF Recent
    <3>3. Orderly(Append(Recent, 0))
      BY <3>2, Latest
    <3> QED BY <1>5, <3>1, <3>3 DEF CheckEnds, Kicks
  <2>2. memo' \in RunState /\ memo'.checks[SilentKill].fails = 0
    BY <1>5, HeartbeatAssumption DEF CheckEnds, Observes, RunState
  <2>3. alerts' \in Seq(AlertRecord)
    <3>1. \A page \in BOOLEAN, resolves \in BOOLEAN : [key |-> k, page |-> page, resolves |-> resolves] \in AlertRecord
      BY DEF AlertRecord
    <3>2. \A a \in AlertRecord : Append(alerts, a) \in Seq(AlertRecord)
      OBVIOUS
    <3> QED BY <1>5, <3>1, <3>2 DEF CheckEnds, Passed, Resolved, Alert, Counted, Told
  <2> QED BY <1>5, <2>1, <2>2, <2>3 DEF CheckEnds, Observes, logbook, slack, LogTyped
<1>6. ASSUME NEW k \in Check, RestartHangs(k) PROVE HeartbeatTyped' /\ LogTyped'
  <2>1. running' = FALSE /\ alerts' = <<>> /\ memo' = NoState /\ hung' = TRUE
        /\ UNCHANGED <<file, day, logbook, slack, killed>>
    BY <1>6 DEF RestartHangs, RunEnds
  <2>2. memo' \in RunState /\ Orderly(memo'.restarts) /\ memo'.checks[SilentKill].fails = 0
    BY <2>1, NoStateTyped
  <2>3. alerts' \in Seq(AlertRecord)
    BY <2>1
  <2>4. running' \in BOOLEAN /\ hung' \in BOOLEAN /\ killed' \in BOOLEAN
    BY <2>1, Zenon
  <2> QED BY <2>1, <2>2, <2>3, <2>4 DEF logbook, slack, LogTyped
<1>7. CASE Scan
  <2>1. alerts' \in Seq(AlertRecord)
    <3>1. [key |-> SilentKill, page |-> FALSE, resolves |-> FALSE] \in AlertRecord
      BY HeartbeatAssumption DEF AlertRecord
    <3>2. \A a \in AlertRecord : Append(alerts, a) \in Seq(AlertRecord)
      OBVIOUS
    <3> QED BY <1>7, <3>1, <3>2, Scanning
  <2> QED BY <1>7, <2>1, Scanning, ScanTyped DEF slack, past
<1>8. CASE DeliverAlert
  <2>1. alerts' \in Seq(AlertRecord) /\ running' /\ running' \in BOOLEAN
    BY <1>8, Delivering
  <2>2. memo' \in RunState /\ Orderly(memo'.restarts) /\ memo'.checks[SilentKill].fails = 0
    BY <1>8, Delivering DEF Delivered
  <2> QED BY <1>8, <2>1, <2>2, Delivering DEF Delivered, logbook, past, LogTyped
<1>9. CASE Save
  BY <1>9, NoStateTyped DEF Save, Saving, logbook, slack, past, LogTyped
<1>10. CASE KillRun
  <2>1. running' = FALSE /\ alerts' = <<>> /\ memo' = NoState /\ killed' = TRUE /\ file' \in {file, NoState}
        /\ UNCHANGED <<day, logbook, slack, hung>>
    BY <1>10 DEF KillRun, RunEnds
  <2>2. memo' \in RunState /\ Orderly(memo'.restarts) /\ memo'.checks[SilentKill].fails = 0
    BY <2>1, NoStateTyped
  <2>3. file' \in RunState /\ Orderly(file'.restarts) /\ file'.checks[SilentKill].fails = 0
    BY <2>1, NoStateTyped
  <2>4. alerts' \in Seq(AlertRecord)
    BY <2>1
  <2>5. running' \in BOOLEAN /\ killed' \in BOOLEAN /\ hung' \in BOOLEAN
    BY <2>1, Zenon
  <2> QED BY <2>1, <2>2, <2>3, <2>4, <2>5 DEF logbook, slack, LogTyped
<1> QED BY <1>1, <1>2, <1>3, <1>4, <1>5, <1>6, <1>7, <1>8, <1>9, <1>10, CheckingEnds DEF HeartbeatNext, RunSteps, Checked, Restarts

LEMMA TodoStep ==
  ASSUME HeartbeatTyped, LogTyped, TodoInv, [HeartbeatNext]_bvars
  PROVE  TodoInv'
<1>1. CASE UNCHANGED <<memory, file>>
  BY <1>1 DEF memory, TodoInv, InOrder
<1>2. CASE Passes
  BY <1>2, Passing DEF memory, TodoInv, InOrder
<1>3. CASE BeginRun
  BY <1>3, HeartbeatAssumption DEF BeginRun, TodoInv, InOrder
<1>4. ASSUME NEW k \in Check, CheckEnds(k) PROVE TodoInv'
  <2>1. todo # <<>> /\ running /\ Proceeds
    BY <1>4 DEF CheckEnds, Observes
  <2>2. /\ todo' \in Seq(Check) /\ InOrder(todo')
        /\ \A i \in 1..Len(todo') : \E m \in 1..Len(todo) : m > 1 /\ todo[m] = todo'[i]
    BY <2>1, Proceeding
  <2>3. /\ memo'.path = memo.path /\ memo'.offset = memo.offset /\ file' = file
    BY <1>4 DEF CheckEnds
  <2> QED BY <2>1, <2>2, <2>3 DEF TodoInv, InOrder
<1>5. CASE todo' = <<>>
  BY <1>5 DEF TodoInv, InOrder
<1>6. CASE Scan
  <2>1. todo # <<>> /\ todo' = Tail(todo) /\ Head(todo) = SilentKill
    BY <1>6, Scanning
  <2>2. /\ todo' \in Seq(Check) /\ InOrder(todo')
        /\ \A i \in 1..Len(todo') : \E m \in 1..Len(todo) : m > 1 /\ todo[m] = todo'[i]
    BY <2>1, Proceeding
  <2>3. \A m \in 1..Len(todo) : m > 1 => todo[m] \notin Fixable
    <3>1. 1 \in 1..Len(todo) /\ todo[1] = SilentKill
      BY <2>1 DEF TodoInv
    <3> QED BY <3>1 DEF TodoInv, InOrder
  <2> QED BY <2>2, <2>3 DEF TodoInv, InOrder
<1>7. CASE DeliverAlert
  BY <1>7, Delivering DEF Delivered, TodoInv, InOrder
<1> QED
  BY <1>1, <1>2, <1>3, <1>4, <1>5, <1>6, <1>7, WorldTyped, CheckingEnds
  DEF HeartbeatNext, RunSteps, Save, Saving, KillRun, RunEnds, RestartHangs, bvars

-----------------------------------------------------------------------------
(* The steps that matter to the restarts *)

LEMMA KickedTyped ==
  ASSUME RestartInv, kicked' \in {kicked, Append(kicked, 0)}
  PROVE  kicked' \in Seq(Nat) /\ Orderly(kicked') /\ \A i \in 1..Len(kicked') : kicked'[i] < Hour
<1>1. kicked \in Seq(Nat) /\ Orderly(kicked) /\ \A i \in 1..Len(kicked) : kicked[i] < Hour
  BY DEF RestartInv
<1>2. CASE kicked' = kicked
  BY <1>1, <1>2 DEF Orderly
<1>3. CASE kicked' = Append(kicked, 0)
  <2>1. 0 < Hour /\ Hour \in Nat
    BY HeartbeatAssumption
  <2>2. kicked' \in Seq(Nat) /\ Orderly(kicked')
    BY <1>1, <1>3, Latest
  <2>3. \A i \in 1..Len(kicked') : kicked'[i] = IF i = Len(kicked) + 1 THEN 0 ELSE kicked[i]
    BY <1>1, <1>3
  <2>4. \A i \in 1..Len(kicked') : i # Len(kicked) + 1 => i \in 1..Len(kicked)
    BY <1>1, <1>3
  <2> QED BY <1>1, <2>1, <2>2, <2>3, <2>4
<1> QED BY <1>2, <1>3

LEMMA RestartSame ==
  ASSUME RestartInv, UNCHANGED past, Current.restarts' = Current.restarts
  PROVE  RestartInv'
BY DEF RestartInv, past, OnRecord, Orderly

LEMMA RestartStep ==
  ASSUME HeartbeatTyped, RestartInv, [HeartbeatNext]_bvars
  PROVE  RestartInv'
<1>1. CASE UNCHANGED bvars
  BY <1>1, RestartSame DEF bvars, memory, past, Current
<1>2. CASE Passes
  <2>1. /\ kicked \in Seq(Nat) /\ Orderly(kicked)
        /\ ~killed /\ ~hung => OnRecord(Current.restarts, kicked) /\ Len(kicked) <= RestartBudget
    BY DEF RestartInv
  <2>2. Later(kicked) \in Seq(Nat) /\ Orderly(Later(kicked)) /\ Len(Later(kicked)) = Len(kicked) /\ Hour \in Nat
    BY <2>1, Ageing, HeartbeatAssumption
  <2>3. /\ kicked' = Within(Later(kicked), Hour)
        /\ kicked' \in Seq(Nat) /\ Orderly(kicked') /\ \A i \in 1..Len(kicked') : kicked'[i] < Hour
    BY <1>2, <2>2, Passing, RecentKeeps
  <2>4. PICK n \in 0..Len(kicked) :
          /\ Len(kicked') = Len(kicked) - n
          /\ \A i \in 1..(Len(kicked) - n) : kicked'[i] = Later(kicked)[n + i]
    <3>1. PICK n \in 0..Len(Later(kicked)) :
            /\ Len(Within(Later(kicked), Hour)) = Len(Later(kicked)) - n
            /\ \A i \in 1..(Len(Later(kicked)) - n) : Within(Later(kicked), Hour)[i] = Later(kicked)[n + i]
      BY <2>2, WithinIsEnd
    <3>2. Len(kicked') = Len(Later(kicked)) - n /\ n \in 0..Len(Later(kicked))
      BY <2>3, <3>1
    <3>3. \A i \in 1..(Len(Later(kicked)) - n) : kicked'[i] = Later(kicked)[n + i]
      BY <2>3, <3>1
    <3>4. Len(Later(kicked)) = Len(kicked)
      BY <2>2
    <3> QED BY <3>2, <3>3, <3>4
  <2>5. ASSUME ~killed, ~hung PROVE OnRecord(Current.restarts', kicked') /\ Len(kicked') <= RestartBudget
    <3> DEFINE r == file.restarts
    <3>1. r \in Seq(Nat) /\ Orderly(r) /\ Current.restarts = r /\ Current.restarts' = Later(r)
      BY <1>2, Passing DEF HeartbeatTyped, RunState, Current, memory
    <3>2. OnRecord(Later(r), Later(kicked)) /\ Len(Later(r)) \in Nat
      BY <2>1, <2>5, <3>1, AgeKeeps, Ageing
    <3>3. Len(kicked) \in Nat /\ Len(kicked) <= RestartBudget /\ RestartBudget \in Nat
      BY <2>1, <2>5, HeartbeatAssumption
    <3> HIDE DEF r
    <3>4. Len(kicked') <= RestartBudget /\ Len(kicked') <= Len(kicked) /\ Len(kicked) <= Len(Later(r))
      BY <2>2, <2>4, <3>2, <3>3 DEF OnRecord
    <3>5. ASSUME NEW i \in 1..Len(kicked') PROVE kicked'[i] >= Later(r)[Len(Later(r)) - Len(kicked') + i]
      <4>1. n + i \in 1..Len(Later(kicked)) /\ i \in 1..(Len(kicked) - n)
        BY <2>2, <2>4, <3>3
      <4>2. Later(kicked)[n + i] >= Later(r)[Len(Later(r)) - Len(Later(kicked)) + (n + i)]
        BY <3>2, <4>1 DEF OnRecord
      <4>3. Len(Later(r)) - Len(Later(kicked)) + (n + i) = Len(Later(r)) - Len(kicked') + i
        BY <2>2, <2>4, <3>2, <3>3
      <4> QED BY <2>4, <4>1, <4>2, <4>3
    <3>6. OnRecord(Later(r), kicked')
      BY <3>2, <3>3, <3>4, <3>5 DEF OnRecord
    <3> QED BY <3>1, <3>4, <3>6
  <2>6. UNCHANGED <<killed, hung>>
    BY <1>2, Passing
  <2> QED BY <2>3, <2>5, <2>6 DEF RestartInv
<1>3. CASE LogChanges
  BY <1>3, RestartSame DEF LogChanges, Midnight, GatewayLogs, LogEmptied, memory, past, Current
<1>4. CASE BeginRun
  BY <1>4, RestartSame DEF BeginRun, Current
<1>5. ASSUME NEW k \in Check, CheckEnds(k) PROVE RestartInv'
  <2>1. running /\ running' /\ UNCHANGED <<killed, hung>> /\ Kicks
    BY <1>5 DEF CheckEnds, Observes
  <2>2. CASE memo'.restarts = memo.restarts /\ kicked' = kicked
    <3>1. UNCHANGED past /\ Current.restarts' = Current.restarts
      BY <2>1, <2>2 DEF Current, past
    <3> QED BY <3>1, RestartSame
  <2>3. CASE Len(Recent) < RestartBudget /\ memo'.restarts = Append(Recent, 0) /\ kicked' \in {kicked, Append(kicked, 0)}
    <3>1. memo.restarts \in Seq(Nat) /\ Orderly(memo.restarts)
      BY DEF HeartbeatTyped, RunState
    <3>2. Recent \in Seq(Nat) /\ Orderly(Recent)
      BY <3>1, RecentKeeps DEF Recent
    <3>3. kicked \in Seq(Nat) /\ \A i \in 1..Len(kicked) : kicked[i] < Hour
      BY DEF RestartInv
    <3>4. ASSUME ~killed, ~hung PROVE OnRecord(Current.restarts', kicked') /\ Len(kicked') <= RestartBudget
      <4>1. OnRecord(memo.restarts, kicked) /\ Current.restarts' = Append(Recent, 0)
        BY <2>1, <2>3, <3>4 DEF RestartInv, Current
      <4>2. OnRecord(Recent, kicked)
        BY <3>1, <3>3, <4>1, RecentKeeps DEF Recent
      <4>3. OnRecord(Append(Recent, 0), kicked')
        BY <2>3, <3>2, <3>3, <4>2, KickKeeps
      <4>4. Len(kicked') <= Len(kicked) + 1 /\ Len(kicked) <= Len(Recent)
        BY <2>3, <3>3, <4>2 DEF OnRecord
      <4>5. Len(kicked') \in Nat /\ Len(kicked) \in Nat /\ Len(Recent) \in Nat /\ RestartBudget \in Nat
        BY <2>3, <3>2, <3>3, HeartbeatAssumption
      <4>6. Len(kicked') <= RestartBudget
        BY <2>3, <4>4, <4>5
      <4> QED BY <4>1, <4>3, <4>6
    <3> QED BY <2>1, <2>3, <3>4, KickedTyped DEF RestartInv
  <2> QED BY <2>1, <2>2, <2>3 DEF Kicks
<1>6. ASSUME NEW k \in Check, RestartHangs(k) PROVE RestartInv'
  <2>1. kicked' \in {kicked, Append(kicked, 0)} /\ hung'
    BY <1>6 DEF RestartHangs
  <2> QED BY <2>1, KickedTyped DEF RestartInv
<1>7. CASE Scan
  BY <1>7, Scanning, RestartSame DEF Scan, HeartbeatTyped, Current
<1>8. CASE DeliverAlert
  BY <1>8, Delivering, RestartSame DEF Delivered, Current
<1>9. CASE Save
  BY <1>9, RestartSame DEF Save, Saving, Current
<1>10. CASE KillRun
  BY <1>10 DEF KillRun, RestartInv, Orderly
<1> QED BY <1>1, <1>2, <1>3, <1>4, <1>5, <1>6, <1>7, <1>8, <1>9, <1>10, CheckingEnds DEF HeartbeatNext, RunSteps, Checked, Restarts

-----------------------------------------------------------------------------
(* The steps that matter to the threads *)

\* A new alert is the last one of its check, and says nothing of the others.
LEMMA Appending ==
  ASSUME NEW q \in Seq(AlertRecord), NEW a \in AlertRecord, NEW k \in Check
  PROVE  /\ a.key = k => ~Quiet(Append(q, a), k) /\ (Pending(Append(q, a), k, FALSE) <=> a.resolves = FALSE)
         /\ a.key # k =>
              /\ Quiet(Append(q, a), k) <=> Quiet(q, k)
              /\ Pending(Append(q, a), k, FALSE) <=> Pending(q, k, FALSE)
<1> DEFINE r == Append(q, a)
           n == Len(q) + 1
<1>1. /\ Len(q) \in Nat /\ Len(r) = n /\ n \in 1..n /\ r[n] = a
      /\ \A i \in 1..Len(q) : i \in 1..n /\ i < n /\ r[i] = q[i]
      /\ \A i \in 1..n : i # n => i \in 1..Len(q)
  OBVIOUS
<1>2. \A i \in 1..n : ~(i > n)
  BY <1>1
<1> HIDE DEF r, n
<1>4. ASSUME a.key = k PROVE ~Quiet(r, k) /\ (Pending(r, k, FALSE) <=> a.resolves = FALSE)
  <2>1. ~Quiet(r, k)
    BY <1>1, <1>4 DEF Quiet
  <2>2. ASSUME a.resolves = FALSE PROVE Pending(r, k, FALSE)
    BY <1>1, <1>2, <1>4, <2>2 DEF Pending
  <2>3. ASSUME Pending(r, k, FALSE) PROVE a.resolves = FALSE
    <3>1. PICK m \in 1..n : r[m].resolves = FALSE /\ \A i \in 1..n : i > m => r[i].key # k
      BY <1>1, <2>3 DEF Pending
    <3>2. m = n
      <4>1. ~(n > m)
        BY <1>1, <1>4, <3>1
      <4> QED BY <1>1, <4>1
    <3> QED BY <1>1, <3>1, <3>2
  <2> QED BY <2>1, <2>2, <2>3
<1>5. ASSUME a.key # k
      PROVE  (Quiet(r, k) <=> Quiet(q, k)) /\ (Pending(r, k, FALSE) <=> Pending(q, k, FALSE))
  <2>1. Quiet(r, k) <=> Quiet(q, k)
    BY <1>1, <1>5 DEF Quiet
  <2>2. ASSUME Pending(q, k, FALSE) PROVE Pending(r, k, FALSE)
    <3>1. PICK m \in 1..Len(q) : q[m].key = k /\ q[m].resolves = FALSE /\ \A i \in 1..Len(q) : i > m => q[i].key # k
      BY <2>2 DEF Pending
    <3>2. m \in 1..n /\ r[m] = q[m]
      BY <1>1
    <3>3. \A i \in 1..n : i > m => r[i].key # k
      BY <1>1, <1>5, <3>1
    <3> QED BY <1>1, <3>1, <3>2, <3>3 DEF Pending
  <2>3. ASSUME Pending(r, k, FALSE) PROVE Pending(q, k, FALSE)
    <3>1. PICK m \in 1..n : r[m].key = k /\ r[m].resolves = FALSE /\ \A i \in 1..n : i > m => r[i].key # k
      BY <1>1, <2>3 DEF Pending
    <3>2. m # n
      BY <1>1, <1>5, <3>1
    <3>3. m \in 1..Len(q) /\ r[m] = q[m]
      BY <1>1, <3>2
    <3>4. \A i \in 1..Len(q) : i > m => q[i].key # k
      BY <1>1, <3>1
    <3> QED BY <3>1, <3>3, <3>4 DEF Pending
  <2> QED BY <2>1, <2>2, <2>3
<1> QED BY <1>4, <1>5 DEF r

\* The first alert goes; what the last one of a check says stays, unless it was the first.
LEMMA Shifting ==
  ASSUME NEW q \in Seq(AlertRecord), q # <<>>, NEW k \in Check
  PROVE  /\ Head(q).key # k =>
              /\ Quiet(Tail(q), k) <=> Quiet(q, k)
              /\ Pending(Tail(q), k, FALSE) <=> Pending(q, k, FALSE)
         /\ Head(q).key = k /\ ~Quiet(Tail(q), k) => (Pending(Tail(q), k, FALSE) <=> Pending(q, k, FALSE))
         /\ Head(q).key = k /\ Quiet(Tail(q), k) => (Pending(q, k, FALSE) <=> Head(q).resolves = FALSE)
         /\ Head(q).key = k => ~Quiet(q, k)
<1> DEFINE t == Tail(q)
           n == Len(q)
<1>1. /\ n \in Nat /\ n >= 1 /\ Len(t) = n - 1 /\ Head(q) = q[1] /\ 1 \in 1..n
      /\ \A i \in 1..Len(t) : t[i] = q[i + 1] /\ i + 1 \in 1..n /\ i + 1 > 1
  OBVIOUS
<1>2. \A i \in 1..n : i # 1 => i - 1 \in 1..Len(t) /\ t[i - 1] = q[i] /\ i > 1
  OBVIOUS
<1> HIDE DEF t, n
<1>6. ASSUME Pending(t, k, FALSE) PROVE Pending(q, k, FALSE)
  <2>1. PICK m \in 1..Len(t) : t[m].key = k /\ t[m].resolves = FALSE /\ \A i \in 1..Len(t) : i > m => t[i].key # k
    BY <1>6 DEF Pending
  <2>2. m + 1 \in 1..n /\ q[m + 1] = t[m] /\ m \in Nat
    BY <1>1
  <2>3. ASSUME NEW i \in 1..n, i > m + 1 PROVE q[i].key # k
    <3>1. i # 1 /\ i - 1 > m
      BY <2>2, <2>3
    <3> QED BY <1>2, <2>1, <3>1
  <2> QED BY <2>1, <2>2, <2>3 DEF Pending, n
<1>7. ASSUME NEW m \in 1..n, m # 1, q[m].key = k, q[m].resolves = FALSE, \A i \in 1..n : i > m => q[i].key # k
      PROVE  Pending(t, k, FALSE)
  <2>1. m - 1 \in 1..Len(t) /\ t[m - 1] = q[m]
    BY <1>2, <1>7
  <2>2. ASSUME NEW i \in 1..Len(t), i > m - 1 PROVE t[i].key # k
    <3>1. i + 1 \in 1..n /\ i + 1 > m /\ t[i] = q[i + 1]
      BY <1>1, <2>2
    <3> QED BY <1>7, <3>1
  <2> QED BY <1>7, <2>1, <2>2 DEF Pending
<1>8. ASSUME Pending(q, k, FALSE)
      PROVE  Pending(t, k, FALSE) \/ (Head(q).key = k /\ Head(q).resolves = FALSE /\ Quiet(t, k))
  <2>1. PICK m \in 1..n : q[m].key = k /\ q[m].resolves = FALSE /\ \A i \in 1..n : i > m => q[i].key # k
    BY <1>8 DEF Pending, n
  <2>2. CASE m # 1
    BY <1>7, <2>1, <2>2
  <2>3. CASE m = 1
    <3>1. Quiet(t, k)
      BY <1>1, <2>1, <2>3 DEF Quiet
    <3> QED BY <1>1, <2>1, <2>3, <3>1
  <2> QED BY <2>2, <2>3
<1>9. Quiet(q, k) <=> Quiet(t, k) /\ Head(q).key # k
  <2>1. ASSUME Quiet(t, k), Head(q).key # k PROVE Quiet(q, k)
    BY <1>1, <1>2, <2>1 DEF Quiet, n
  <2>2. ASSUME Quiet(q, k) PROVE Quiet(t, k) /\ Head(q).key # k
    BY <1>1, <2>2 DEF Quiet, n
  <2> QED BY <2>1, <2>2
<1>10. ASSUME Head(q).key = k, Quiet(t, k), Head(q).resolves = FALSE PROVE Pending(q, k, FALSE)
  <2>1. \A i \in 1..n : i > 1 => q[i].key # k
    BY <1>2, <1>10 DEF Quiet
  <2> QED BY <1>1, <1>10, <2>1 DEF Pending, n
<1>11. Quiet(t, k) => ~Pending(t, k, FALSE)
  BY DEF Quiet, Pending
<1> QED BY <1>6, <1>8, <1>9, <1>10, <1>11 DEF t

\* A check that a step says nothing new of.
LEMMA AgreesStill ==
  ASSUME NEW k \in Check, Agrees(k),
         Current'.checks[k].fails = Current.checks[k].fails,
         Current'.checks[k].alerting = Current.checks[k].alerting,
         Current'.checks[k].alerted = Never <=> Current.checks[k].alerted = Never,
         Current'.incidents[k] = Never <=> Current.incidents[k] = Never,
         story'[k] = story[k], k \in refused' <=> k \in refused,
         Quiet(alerts', k) <=> Quiet(alerts, k), Pending(alerts', k, FALSE) <=> Pending(alerts, k, FALSE)
  PROVE  Agrees(k)'
BY DEF Agrees

LEMMA StorySame ==
  ASSUME StoryInv, UNCHANGED <<alerts, story, refused, killed, hung>>,
         Current'.checks = Current.checks, Current'.incidents = Current.incidents
  PROVE  StoryInv'
<1> SUFFICES ASSUME ~killed', ~hung', NEW k \in Check \ {SilentKill} PROVE Agrees(k)'
  BY DEF StoryInv
<1>1. Agrees(k)
  BY DEF StoryInv
<1> QED BY <1>1, AgreesStill

\* The check itself.
LEMMA StoryOfCheck ==
  ASSUME HeartbeatTyped, NEW k \in Check, k # SilentKill, Agrees(k), CheckEnds(k)
  PROVE  Agrees(k)'
<1>1. PICK c \in CheckState :
        /\ memo' \in RunState /\ memo'.checks = [memo.checks EXCEPT ![k] = c]
        /\ Passed(k, c) \/ Counted(k, c) \/ Told(k, c)
  BY DEF CheckEnds
<1>2. /\ memo.checks[k] \in CheckState /\ memo.checks[k].alerting \in BOOLEAN /\ alerts \in Seq(AlertRecord)
      /\ memo.checks \in [Check -> CheckState]
  BY DEF HeartbeatTyped, RunState, CheckState
<1>3. /\ running /\ running' /\ Current = memo /\ Current' = memo' /\ Current'.checks[k] = c
      /\ Current'.incidents[k] = Current.incidents[k] /\ UNCHANGED <<story, refused>>
  BY <1>1, <1>2 DEF CheckEnds, Observes, Current, slack
<1>4. CASE Told(k, c)
  <2>1. PICK page \in BOOLEAN : alerts' = Append(alerts, [key |-> k, page |-> page, resolves |-> FALSE])
    BY <1>4 DEF Told
  <2> DEFINE a == [key |-> k, page |-> page, resolves |-> FALSE]
  <2>2. a \in AlertRecord /\ a.key = k /\ a.resolves = FALSE
    BY DEF AlertRecord
  <2>3. alerts' = Append(alerts, a)
    BY <2>1
  <2> HIDE DEF a
  <2>4. ~Quiet(alerts', k) /\ Pending(alerts', k, FALSE)
    BY <1>2, <2>2, <2>3, Appending
  <2> QED BY <1>3, <1>4, <2>4 DEF Agrees, Told
<1>5. CASE Counted(k, c)
  <2>1. /\ c.alerted = memo.checks[k].alerted /\ c.alerting = memo.checks[k].alerting /\ alerts' = alerts
        /\ c.fails >= 2 => memo.checks[k].alerted # Never
    BY <1>2, <1>5 DEF Counted, CheckState
  <2> QED BY <1>3, <2>1 DEF Agrees
<1>6. CASE Passed(k, c)
  <2>1. ~(c.fails >= 2) /\ c.alerted = Never
    BY <1>6 DEF Passed, Untroubled
  <2>4. ~Current'.checks[k].alerting
    BY <1>3, <1>6 DEF Passed, Untroubled
  <2>2. CASE memo.checks[k].alerting
    <3> DEFINE a == [key |-> k, page |-> FALSE, resolves |-> TRUE]
    <3>1. a \in AlertRecord /\ a.key = k /\ ~(a.resolves = FALSE)
      BY DEF AlertRecord
    <3>2. alerts' = Append(alerts, a)
      BY <1>6, <2>2 DEF Passed, Resolved, Alert
    <3> HIDE DEF a
    <3>3. ~Quiet(alerts', k) /\ ~Pending(alerts', k, FALSE)
      BY <1>2, <3>1, <3>2, Appending
    <3>4. Current.checks[k].alerting /\ (story[k] = "failing" => Current.incidents[k] # Never \/ k \in refused)
      BY <1>3, <2>2 DEF Agrees
    <3> QED BY <1>3, <2>1, <3>3, <3>4 DEF Agrees
  <2>3. CASE ~memo.checks[k].alerting
    <3>1. alerts' = alerts
      BY <1>6, <2>3 DEF Passed, Resolved
    <3>2. ~Pending(alerts, k, FALSE) /\ (Quiet(alerts, k) /\ story[k] = "failing" => k \in refused)
          /\ (story[k] = "failing" => Current.incidents[k] # Never \/ k \in refused)
      BY <1>3, <2>3 DEF Agrees
    <3> QED BY <1>3, <2>1, <3>1, <3>2 DEF Agrees
  <2> QED BY <2>2, <2>3
<1> QED BY <1>1, <1>4, <1>5, <1>6

\* An alert that is delivered.
LEMMA StoryOfAlert ==
  ASSUME HeartbeatTyped, DeliverAlert, NEW k \in Check, Agrees(k)
  PROVE  Agrees(k)'
<1> DEFINE a == Head(alerts)
<1>1. a \in AlertRecord /\ Delivered(a) /\ alerts \in Seq(AlertRecord) /\ alerts # <<>> /\ alerts' = Tail(alerts)
  BY Delivering DEF HeartbeatTyped
<1>2. running /\ running' /\ Current = memo /\ Current' = memo' /\ a.resolves \in BOOLEAN
  BY <1>1, Delivering DEF Current, AlertRecord
<1>3. memo'.checks = memo.checks
  BY <1>1 DEF Delivered
<1>4. CASE a.key # k
  <2>1. /\ Quiet(alerts', k) <=> Quiet(alerts, k)
        /\ Pending(alerts', k, FALSE) <=> Pending(alerts, k, FALSE)
    <3>1. (Quiet(Tail(alerts), k) <=> Quiet(alerts, k)) /\ (Pending(Tail(alerts), k, FALSE) <=> Pending(alerts, k, FALSE))
      <4> HIDE DEF a
      <4>1. Head(alerts).key # k
        BY <1>4 DEF a
      <4> QED BY <1>1, <4>1, Shifting
    <3> QED BY <1>1, <3>1
  <2>2. memo'.incidents[k] = memo.incidents[k] /\ story'[k] = story[k] /\ (k \in refused' <=> k \in refused)
    BY <1>1, <1>4 DEF Delivered
  <2> HIDE DEF a
  <2> QED BY <1>2, <1>3, <2>1, <2>2, AgreesStill
<1>5. CASE a.key = k
  <2>1. \/ a.resolves /\ memo.incidents[k] = Never /\ UNCHANGED <<memo, story, refused>>
        \/ k \in refused'
        \/ a.resolves /\ story'[k] = "recovered"
        \/ ~a.resolves /\ story'[k] = "failing" /\ memo'.incidents[k] # Never
    BY <1>1, <1>5 DEF Delivered
  <2>2. ~Quiet(alerts, k)
    BY <1>1, <1>5, Shifting
  <2>3. story'[k] = "failing" => memo'.incidents[k] # Never \/ k \in refused'
    <3> HIDE DEF a
    <3> QED BY <1>2, <2>1 DEF Agrees
  <2>4. CASE ~Quiet(alerts', k)
    <3>1. Pending(alerts', k, FALSE) <=> Pending(alerts, k, FALSE)
      BY <1>1, <1>5, <2>4, Shifting
    <3> HIDE DEF a
    <3> QED BY <1>2, <1>3, <2>2, <2>3, <2>4, <3>1 DEF Agrees
  <2>5. CASE Quiet(alerts', k)
    <3>1. ~Pending(alerts', k, FALSE)
      BY <2>5 DEF Quiet, Pending
    <3>2. Pending(alerts, k, FALSE) <=> ~a.resolves
      <4>1. Pending(alerts, k, FALSE) <=> a.resolves = FALSE
        BY <1>1, <1>5, <2>5, Shifting
      <4> HIDE DEF a
      <4> QED BY <1>2, <4>1
    <3> HIDE DEF a
    <3>3. memo.checks[k].fails >= 2 \/ memo.checks[k].alerted # Never => story'[k] = "failing" \/ k \in refused'
      BY <1>2, <2>1, <2>2, <3>2 DEF Agrees
    <3>4. story'[k] = "failing" => memo.checks[k].alerting \/ k \in refused'
      BY <1>2, <2>1, <2>2, <3>2 DEF Agrees
    <3> QED BY <1>2, <1>3, <2>3, <2>5, <3>1, <3>3, <3>4 DEF Agrees
  <2> QED BY <2>4, <2>5
<1> QED BY <1>4, <1>5

LEMMA StoryStep ==
  ASSUME HeartbeatTyped, LogTyped, StoryInv, [HeartbeatNext]_bvars
  PROVE  StoryInv'
<1>1. CASE UNCHANGED bvars
  BY <1>1, StorySame DEF bvars, memory, slack, past, Current
<1>2. CASE Passes
  <2> SUFFICES ASSUME ~killed', ~hung', NEW k \in Check \ {SilentKill} PROVE Agrees(k)'
    BY DEF StoryInv
  <2>1. /\ ~running /\ ~running' /\ UNCHANGED <<alerts, story, refused, killed, hung>>
        /\ file'.checks[k].fails = file.checks[k].fails /\ file'.checks[k].alerting = file.checks[k].alerting
        /\ file'.checks[k].alerted = Never <=> file.checks[k].alerted = Never
        /\ file'.incidents[k] = Never <=> file.incidents[k] = Never
    BY <1>2, Passing DEF memory, slack
  <2>2. Agrees(k)
    BY <2>1 DEF StoryInv
  <2> QED BY <2>1, <2>2, AgreesStill DEF Current
<1>3. CASE LogChanges
  BY <1>3, WorldTyped, StorySame DEF memory, slack, past, Current
<1>4. CASE BeginRun
  <2>1. alerts' = alerts
    BY <1>4 DEF BeginRun, HeartbeatTyped
  <2> QED BY <1>4, <2>1, StorySame DEF BeginRun, slack, past, Current
<1>5. ASSUME NEW j \in Check, CheckEnds(j) PROVE StoryInv'
  <2> SUFFICES ASSUME ~killed', ~hung', NEW k \in Check \ {SilentKill} PROVE Agrees(k)'
    BY DEF StoryInv
  <2>1. Agrees(k)
    BY <1>5 DEF CheckEnds, StoryInv
  <2>2. CASE k = j
    BY <1>5, <2>1, <2>2, StoryOfCheck
  <2>3. CASE k # j
    <3>1. /\ Current = memo /\ Current' = memo' /\ memo'.incidents = memo.incidents /\ UNCHANGED <<story, refused>>
          /\ memo'.checks[k] = memo.checks[k]
      BY <1>5, <2>3 DEF CheckEnds, Observes, Current, slack, HeartbeatTyped, RunState
    <3>2. \/ alerts' = alerts
          \/ \E a \in AlertRecord : a.key = j /\ alerts' = Append(alerts, a)
      <4>1. \A page \in BOOLEAN, resolves \in BOOLEAN :
              /\ [key |-> j, page |-> page, resolves |-> resolves] \in AlertRecord
              /\ [key |-> j, page |-> page, resolves |-> resolves].key = j
        BY DEF AlertRecord
      <4> QED BY <1>5, <4>1 DEF CheckEnds, Passed, Resolved, Alert, Counted, Told
    <3>3. (Quiet(alerts', k) <=> Quiet(alerts, k)) /\ (Pending(alerts', k, FALSE) <=> Pending(alerts, k, FALSE))
      <4>1. CASE alerts' = alerts
        BY <4>1
      <4>2. ASSUME NEW a \in AlertRecord, a.key = j, alerts' = Append(alerts, a)
            PROVE  (Quiet(alerts', k) <=> Quiet(alerts, k)) /\ (Pending(alerts', k, FALSE) <=> Pending(alerts, k, FALSE))
        <5>1. alerts \in Seq(AlertRecord) /\ a.key # k
          BY <2>3, <4>2 DEF HeartbeatTyped
        <5>2. (Quiet(Append(alerts, a), k) <=> Quiet(alerts, k)) /\ (Pending(Append(alerts, a), k, FALSE) <=> Pending(alerts, k, FALSE))
          BY <5>1, Appending
        <5> QED BY <4>2, <5>2
      <4> QED BY <3>2, <4>1, <4>2
    <3> QED BY <2>1, <3>1, <3>3, AgreesStill
  <2> QED BY <2>2, <2>3
<1>6. ASSUME NEW j \in Check, RestartHangs(j) PROVE StoryInv'
  BY <1>6 DEF RestartHangs, StoryInv
<1>7. CASE Scan
  <2> SUFFICES ASSUME ~killed', ~hung', NEW k \in Check \ {SilentKill} PROVE Agrees(k)'
    BY DEF StoryInv
  <2>1. Agrees(k)
    BY <1>7, Scanning DEF past, StoryInv
  <2>2. /\ Current = memo /\ Current' = memo' /\ memo'.incidents = memo.incidents /\ UNCHANGED <<story, refused>>
        /\ memo'.checks[k] = memo.checks[k]
    BY <1>7, Scanning DEF Current, slack
  <2>3. [key |-> SilentKill, page |-> FALSE, resolves |-> FALSE] \in AlertRecord
        /\ [key |-> SilentKill, page |-> FALSE, resolves |-> FALSE].key # k
    BY HeartbeatAssumption DEF AlertRecord
  <2>4. (Quiet(alerts', k) <=> Quiet(alerts, k)) /\ (Pending(alerts', k, FALSE) <=> Pending(alerts, k, FALSE))
    <3> DEFINE a == [key |-> SilentKill, page |-> FALSE, resolves |-> FALSE]
    <3>1. alerts' = alerts \/ alerts' = Append(alerts, a)
      BY <1>7, Scanning
    <3>2. alerts \in Seq(AlertRecord) /\ a \in AlertRecord /\ a.key # k
      BY <2>3 DEF HeartbeatTyped
    <3> HIDE DEF a
    <3>3. (Quiet(Append(alerts, a), k) <=> Quiet(alerts, k)) /\ (Pending(Append(alerts, a), k, FALSE) <=> Pending(alerts, k, FALSE))
      BY <3>2, Appending
    <3> QED BY <3>1, <3>3
  <2> QED BY <2>1, <2>2, <2>4, AgreesStill
<1>8. CASE DeliverAlert
  BY <1>8, Delivering, StoryOfAlert DEF past, StoryInv
<1>9. CASE Save
  BY <1>9, StorySame DEF Save, Saving, slack, past, Current
<1>10. CASE KillRun
  BY <1>10 DEF KillRun, StoryInv
<1> QED BY <1>1, <1>2, <1>3, <1>4, <1>5, <1>6, <1>7, <1>8, <1>9, <1>10, CheckingEnds DEF HeartbeatNext, RunSteps, Checked, Restarts

-----------------------------------------------------------------------------
(* The steps that matter to the log *)

LEMMA LogSame ==
  ASSUME LogInv, UNCHANGED <<day, logbook>>, killed' = killed,
         Current'.path = Current.path, Current'.offset = Current.offset,
         ~killed /\ running' /\ file'.path # Never => memo'.path # Never /\ file'.path <= memo'.path
  PROVE  LogInv'
BY DEF LogInv, LogOf, logbook, SizeOf

\* The types the arithmetic needs.
LEMMA LogTypes ==
  ASSUME HeartbeatTyped, LogTyped
  PROVE  /\ day \in Day /\ Day \subseteq Nat /\ MaxLines \in Nat /\ Never \notin Nat
         /\ memo.path \in Day \cup {Never} /\ memo.offset \in Nat /\ file.path \in Day \cup {Never} /\ file.offset \in Nat
         /\ lines \in [Day -> Nat \cup {Never}] /\ written \in [Day -> Nat] /\ counted \in [Day -> Nat]
         /\ scanned \subseteq Day
         /\ \A d \in Day : SizeOf(d) \in Nat /\ (lines[d] # Never => SizeOf(d) = lines[d] /\ lines[d] \in Nat)
<1>1. lines \in [Day -> Nat \cup {Never}]
  BY DEF LogTyped, Age
<1>2. \A d \in Day : SizeOf(d) \in Nat /\ (lines[d] # Never => SizeOf(d) = lines[d] /\ lines[d] \in Nat)
  BY <1>1 DEF SizeOf
<1> QED BY <1>1, <1>2, HeartbeatAssumption DEF HeartbeatTyped, LogTyped, RunState, Day

LEMMA LogOfWorld ==
  ASSUME HeartbeatTyped, LogTyped, LogInv, LogChanges
  PROVE  LogInv'
<1> DEFINE p == Current.path
           o == Current.offset
<1>1. UNCHANGED <<memory, file, killed>> /\ p' = p /\ o' = o
  BY WorldTyped DEF past, memory, Current
<1>2. p \in Day \cup {Never} /\ o \in Nat
  BY LogTypes DEF Current
<1>3. /\ \A d \in Day \ emptied : written[d] <= SizeOf(d)
      /\ \A d \in Day : written[d] <= MaxLines
      /\ ~killed => LogOf(p, o)
      /\ ~killed /\ running /\ file.path # Never => memo.path # Never /\ file.path <= memo.path
  BY DEF LogInv
<1> HIDE DEF p, o
<1>4. SUFFICES /\ \A d \in Day \ emptied' : written'[d] <= SizeOf(d)'
               /\ \A d \in Day : written'[d] <= MaxLines
               /\ ~killed => LogOf(p, o)'
  BY <1>1, <1>3 DEF LogInv, memory, p, o
<1>5. CASE Midnight
  <2>1. UNCHANGED logbook /\ day' = day + 1
    BY <1>5 DEF Midnight
  <2>2. \A d \in Day : SizeOf(d)' = SizeOf(d)
    BY <2>1 DEF SizeOf, logbook
  <2>3. p # Never /\ p <= day => p <= day'
    BY <1>2, <2>1, LogTypes
  <2> QED BY <1>1, <1>3, <2>1, <2>2, <2>3 DEF LogOf, logbook
<1>6. CASE lines[day] = Never /\ lines' = [lines EXCEPT ![day] = 0] /\ UNCHANGED <<written, day, counted, scanned, emptied>>
  <2>1. \A d \in Day : SizeOf(d)' = SizeOf(d) /\ (d # day => lines'[d] = lines[d])
    BY <1>6, LogTypes DEF SizeOf
  <2>2. ~killed /\ p # Never /\ p \notin emptied => lines[p] # Never /\ p # day
    BY <1>3, <1>6 DEF LogOf
  <2> QED BY <1>1, <1>2, <1>3, <1>6, <2>1, <2>2 DEF LogOf
<1>7. CASE /\ lines[day] # Never /\ written[day] < MaxLines /\ UNCHANGED <<day, counted, scanned, emptied>>
           /\ lines' = [lines EXCEPT ![day] = @ + 1] /\ written' = [written EXCEPT ![day] = @ + 1]
  <2>1. /\ \A d \in Day : d # day => lines'[d] = lines[d] /\ written'[d] = written[d] /\ SizeOf(d)' = SizeOf(d)
        /\ lines'[day] = lines[day] + 1 /\ lines'[day] # Never /\ SizeOf(day)' = SizeOf(day) + 1
        /\ written'[day] = written[day] + 1 /\ lines[day] \in Nat /\ written[day] \in Nat
    BY <1>7, LogTypes DEF SizeOf
  <2>2. \A d \in Day \ emptied : written'[d] <= SizeOf(d)'
    <3> SUFFICES ASSUME NEW d \in Day \ emptied PROVE written'[d] <= SizeOf(d)'
      OBVIOUS
    <3>1. written[d] <= SizeOf(d) /\ written[d] \in Nat /\ SizeOf(d) \in Nat
      BY <1>3, LogTypes
    <3>2. CASE d = day
      <4>1. written'[d] = written[d] + 1 /\ SizeOf(d)' = SizeOf(d) + 1
        BY <1>7, <2>1, <3>2
      <4> QED BY <3>1, <4>1
    <3>3. CASE d # day
      BY <2>1, <3>1, <3>3
    <3> QED BY <3>2, <3>3
  <2>3. \A d \in Day : written'[d] <= MaxLines
    <3>1. written'[day] <= MaxLines
      BY <1>7, <2>1, LogTypes
    <3> QED BY <1>3, <2>1, <3>1
  <2>4. ASSUME ~killed PROVE LogOf(p, o)'
    <3>1. LogOf(p, o)
      BY <1>3, <2>4
    <3>2. ASSUME p # Never, p \notin emptied
          PROVE  lines'[p] # Never /\ o <= lines'[p] /\ counted[p] + (lines'[p] - o) >= written'[p]
      <4>1. p \in Day /\ lines[p] # Never /\ lines[p] \in Nat /\ o <= lines[p] /\ counted[p] + (lines[p] - o) >= written[p]
            /\ counted[p] \in Nat /\ written[p] \in Nat
        BY <1>2, <3>1, <3>2, LogTypes DEF LogOf
      <4>2. CASE p # day
        BY <2>1, <4>1, <4>2
      <4>3. CASE p = day
        <5>1. lines'[p] = lines[p] + 1 /\ written'[p] = written[p] + 1 /\ lines'[p] # Never
          BY <2>1, <4>3
        <5>2. o <= lines[p] + 1 /\ counted[p] + (lines[p] + 1 - o) >= written[p] + 1
          BY <1>2, <4>1
        <5> QED BY <1>2, <4>1, <5>1, <5>2
      <4> QED BY <4>2, <4>3
    <3>3. ASSUME p # Never, NEW d \in scanned \ emptied, d < p PROVE counted[d] >= written'[d]
      <4>1. p <= day /\ counted[d] >= written[d] /\ d \in Day /\ p \in Nat /\ day \in Nat /\ d \in Nat
        BY <1>2, <3>1, <3>3, LogTypes DEF LogOf
      <4>2. d # day
        BY <3>3, <4>1
      <4> QED BY <2>1, <4>1, <4>2
    <3> QED BY <1>1, <1>7, <3>1, <3>2, <3>3 DEF LogOf
  <2> QED BY <1>7, <2>2, <2>3, <2>4
<1>8. CASE LogEmptied
  <2>1. /\ lines' = [lines EXCEPT ![day] = 0] /\ emptied' = emptied \cup {day} /\ UNCHANGED <<day, written, counted, scanned>>
    BY <1>8 DEF LogEmptied
  <2>2. \A d \in Day : d # day => lines'[d] = lines[d] /\ SizeOf(d)' = SizeOf(d)
    BY <2>1, LogTypes DEF SizeOf
  <2>3. \A d \in Day \ emptied' : written'[d] <= SizeOf(d)'
    BY <1>3, <2>1, <2>2
  <2>4. ~killed => LogOf(p, o)'
    BY <1>1, <1>2, <1>3, <2>1, <2>2 DEF LogOf
  <2> QED BY <1>3, <2>1, <2>3, <2>4
<1> QED BY <1>5, <1>6, <1>7, <1>8 DEF LogChanges, GatewayLogs

\* What the scan adds to the count of a day, unless the count is at its bound.
More(d) == (IF d = memo.path THEN Rest ELSE 0) + (IF d = day THEN News ELSE 0)

LEMMA ScanCounts ==
  ASSUME HeartbeatTyped, LogTyped, Scan
  PROVE  /\ Rest \in Nat /\ News \in Nat
         /\ \A d \in Day : More(d) \in Nat /\ (counted'[d] = counted[d] + More(d) \/ counted'[d] = MaxLines + 1)
<1>1. \A d \in Day, n \in Nat : From(d, n) \in Nat
  BY LogTypes DEF From
<1>2. StartOf \in Nat
  BY LogTypes DEF StartOf
<1>3. Rest \in Nat /\ News \in Nat
  BY <1>1, <1>2, LogTypes DEF Rest, News
<1>4. \A d \in Day : More(d) \in Nat
  BY <1>3 DEF More
<1>5. counted' = [d \in Day |-> Least(counted[d] + More(d), MaxLines + 1)]
  BY DEF Scan, CountedMore, More, Day
<1>6. ASSUME NEW d \in Day PROVE counted'[d] = counted[d] + More(d) \/ counted'[d] = MaxLines + 1
  BY <1>5 DEF Least
<1> QED BY <1>3, <1>4, <1>6

LEMMA LogOfScan ==
  ASSUME HeartbeatTyped, LogTyped, LogInv, Scan
  PROVE  LogInv'
<1> DEFINE p == memo.path
           o == memo.offset
<1>1. /\ running /\ running' /\ UNCHANGED <<file, day, lines, emptied, killed>>
      /\ Current = memo /\ Current' = memo'
      /\ p \in Day \cup {Never} /\ o \in Nat /\ day \in Day /\ lines \in [Day -> Nat \cup {Never}]
  BY Scanning, LogTypes DEF Current, past
<1>2. /\ \A d \in Day \ emptied : written[d] <= SizeOf(d)
      /\ \A d \in Day : written[d] <= MaxLines
      /\ ~killed => LogOf(p, o)
      /\ ~killed /\ file.path # Never => p # Never /\ file.path <= p
  BY <1>1 DEF LogInv
<1>3. /\ memo'.path = (IF lines[day] # Never THEN day ELSE p)
      /\ memo'.offset = (IF lines[day] # Never THEN lines[day] ELSE o)
  BY Scanning
<1>4. /\ scanned' = (IF lines[day] # Never THEN scanned \cup {day} ELSE scanned)
      /\ written' = (IF p = Never /\ lines[day] # Never THEN [written EXCEPT ![day] = 0] ELSE written)
  BY DEF Scan, FirstScan
<1>5. \A d \in Day : SizeOf(d)' = SizeOf(d)
  BY <1>1 DEF SizeOf
<1>6. \A d \in Day : /\ counted[d] \in Nat /\ written[d] \in Nat /\ More(d) \in Nat
                     /\ counted'[d] = counted[d] + More(d) \/ (counted'[d] = MaxLines + 1 /\ written[d] <= MaxLines)
  BY <1>2, ScanCounts, LogTypes
<1>7. \A d \in Day, n \in Nat : counted[d] + n >= written[d] /\ n <= More(d) => counted'[d] >= written[d]
  <2> TAKE d \in Day, n \in Nat
  <2> HAVE counted[d] + n >= written[d] /\ n <= More(d)
  <2>1. counted'[d] = counted[d] + More(d) \/ (counted'[d] = MaxLines + 1 /\ written[d] <= MaxLines)
    BY <1>6
  <2> QED BY <1>6, <2>1, LogTypes
<1> HIDE DEF p, o
<1>8. (\A d \in Day \ emptied' : written'[d] <= SizeOf(d)') /\ (\A d \in Day : written'[d] <= MaxLines)
  BY <1>1, <1>2, <1>4, <1>5, LogTypes
<1>9. ASSUME ~killed PROVE LogOf(memo.path, memo.offset)' /\ (file.path # Never => memo'.path # Never /\ file.path <= memo'.path)
  <2>1. LogOf(p, o) /\ (file.path # Never => p # Never /\ file.path <= p)
    BY <1>2, <1>9
  <2>2. CASE lines[day] = Never
    <3>1. memo'.path = p /\ memo'.offset = o /\ scanned' = scanned /\ written' = written
      BY <1>3, <1>4, <2>2
    <3>2. ASSUME p # Never, p \notin emptied
          PROVE  lines[p] # Never /\ o <= lines[p] /\ counted'[p] + (lines[p] - o) >= written[p]
      <4>1. /\ p \in Day /\ lines[p] # Never /\ lines[p] \in Nat /\ o <= lines[p]
            /\ counted[p] + (lines[p] - o) >= written[p]
        BY <1>1, <2>1, <3>2 DEF LogOf
      <4>2. counted'[p] \in Nat /\ (counted'[p] >= counted[p] \/ counted'[p] >= written[p])
        BY <1>6, <4>1, LogTypes
      <4> QED BY <1>1, <1>6, <4>1, <4>2
    <3>3. ASSUME p # Never, NEW d \in scanned \ emptied, d < p PROVE counted'[d] >= written[d]
      <4>1. d \in Day /\ counted[d] >= written[d]
        BY <2>1, <3>3, LogTypes DEF LogOf
      <4> QED BY <1>6, <1>7, <4>1
    <3> QED BY <1>1, <2>1, <3>1, <3>2, <3>3 DEF LogOf
  <2>3. CASE lines[day] # Never /\ p = Never
    <3>1. /\ memo'.path = day /\ memo'.offset = lines[day] /\ scanned' = {day} /\ written'[day] = 0
          /\ file.path = Never
      BY <1>1, <1>3, <1>4, <2>1, <2>3, LogTypes DEF LogOf
    <3>2. counted'[day] \in Nat /\ lines[day] \in Nat /\ day \in Nat /\ day # Never
      BY <1>1, <1>6, <2>3, LogTypes
    <3>3. counted'[day] + (lines[day] - lines[day]) >= 0 /\ lines[day] <= lines[day] /\ day <= day /\ ~(day < day)
      BY <3>2
    <3> QED BY <1>1, <2>3, <3>1, <3>2, <3>3 DEF LogOf
  <2>4. CASE lines[day] # Never /\ p # Never
    <3>1. /\ memo'.path = day /\ memo'.offset = lines[day] /\ scanned' = scanned \cup {day} /\ written' = written
      BY <1>3, <1>4, <2>4
    <3>2. /\ p \in Day /\ p \in Nat /\ day \in Nat /\ p <= day /\ day # Never /\ lines[day] \in Nat /\ o \in Nat
          /\ \A d \in scanned : d \in Day /\ d \in Nat /\ d <= p
      BY <1>1, <2>1, <2>4, LogTypes DEF LogOf
    <3>3. SizeOf(day) = lines[day]
      BY <2>4 DEF SizeOf
    <3>4. ASSUME day \notin emptied PROVE counted'[day] >= written[day]
      <4>1. CASE p = day
        <5>1. o <= lines[day] /\ counted[day] + (lines[day] - o) >= written[day]
          BY <2>1, <2>4, <3>4, <4>1 DEF LogOf
        <5>2. StartOf = o
          BY <2>4, <3>2, <3>3, <4>1, <5>1 DEF StartOf, p, o
        <5>3. News = lines[day] - o /\ News \in Nat
          BY <2>4, <3>2, <3>3, <5>1, <5>2 DEF News, From
        <5>4. News <= More(day)
          BY <5>3, ScanCounts DEF More
        <5> QED BY <1>1, <1>7, <5>1, <5>3, <5>4
      <4>2. CASE p # day
        <5>1. StartOf = 0
          BY <2>4, <4>2 DEF StartOf, p
        <5>2. News = lines[day]
          BY <2>4, <3>2, <3>3, <5>1 DEF News, From
        <5>3. News <= More(day) /\ News \in Nat
          BY <3>2, <5>2, ScanCounts DEF More
        <5>4. written[day] <= lines[day]
          BY <1>1, <1>2, <3>3, <3>4
        <5>5. counted[day] + News >= written[day]
          BY <1>1, <1>6, <3>2, <5>2, <5>4
        <5> QED BY <1>1, <1>7, <5>3, <5>5
      <4> QED BY <4>1, <4>2
    <3>5. ASSUME NEW d \in scanned \ emptied, d < day PROVE counted'[d] >= written[d]
      <4>1. d \in Day /\ d \in Nat /\ d <= p
        BY <3>2
      <4>2. CASE d = p
        <5>1. lines[p] # Never /\ lines[p] \in Nat /\ o <= lines[p] /\ counted[p] + (lines[p] - o) >= written[p]
          BY <1>1, <2>1, <2>4, <3>2, <3>5, <4>2 DEF LogOf
        <5>2. p # day
          BY <3>2, <3>5, <4>2
        <5>3. SizeOf(p) = lines[p]
          BY <5>1 DEF SizeOf
        <5>4. Rest = From(p, o)
          BY <2>4, <5>2 DEF Rest, p, o
        <5>5. Rest = lines[p] - o /\ Rest \in Nat
          BY <3>2, <5>1, <5>3, <5>4 DEF From
        <5>6. More(p) = Rest
          BY <5>2, <5>5 DEF More, p
        <5>7. Rest <= More(p)
          BY <5>5, <5>6
        <5> QED BY <1>7, <3>2, <4>2, <5>1, <5>5, <5>7
      <4>3. CASE d < p
        <5>1. counted[d] >= written[d]
          BY <2>1, <2>4, <4>3 DEF LogOf
        <5> QED BY <1>6, <1>7, <4>1, <5>1
      <4> QED BY <3>2, <4>1, <4>2, <4>3
    <3>6. \A d \in scanned' : d <= day
      BY <3>1, <3>2
    <3>7. ASSUME file.path # Never PROVE file.path <= day
      <4>1. file.path \in Nat
        BY <3>7, LogTypes
      <4> QED BY <2>1, <3>2, <3>7, <4>1
    <3>8. ~(day < day) /\ day <= day /\ lines[day] <= lines[day] /\ counted'[day] \in Nat
      BY <1>1, <1>6, <3>2, LogTypes
    <3>9. day \notin emptied => counted'[day] + (lines[day] - lines[day]) >= written'[day]
      BY <3>1, <3>2, <3>4, <3>8
    <3>10. \A d \in scanned' \ emptied : d < day => counted'[d] >= written'[d]
      BY <3>1, <3>5, <3>8
    <3>11. day \in scanned' /\ day # Never
      BY <3>1, <3>2
    <3> QED BY <1>1, <2>4, <3>1, <3>6, <3>7, <3>8, <3>9, <3>10, <3>11 DEF LogOf
  <2> QED BY <2>2, <2>3, <2>4
<1> QED BY <1>1, <1>8, <1>9 DEF LogInv

LEMMA LogStep ==
  ASSUME HeartbeatTyped, LogTyped, TodoInv, LogInv, [HeartbeatNext]_bvars
  PROVE  LogInv'
<1>1. CASE UNCHANGED bvars
  BY <1>1, LogSame DEF bvars, memory, past, Current, LogInv
<1>2. CASE Passes
  BY <1>2, Passing, LogSame DEF memory, past, Current, LogInv
<1>3. CASE LogChanges
  BY <1>3, LogOfWorld
<1>4. CASE BeginRun
  <2>1. /\ Current = file /\ Current' = file /\ memo' = file /\ UNCHANGED <<file, day, logbook, killed>>
    BY <1>4 DEF BeginRun, Current, past
  <2>2. file'.path # Never => memo'.path # Never /\ file'.path <= memo'.path
    BY <2>1, LogTypes
  <2>3. Current'.path = Current.path /\ Current'.offset = Current.offset
    BY <2>1
  <2>4. UNCHANGED <<day, logbook>> /\ killed' = killed
    BY <2>1
  <2> QED BY <2>2, <2>3, <2>4, LogSame
<1>5. ASSUME NEW k \in Check, CheckEnds(k) PROVE LogInv'
  BY <1>5, LogSame DEF CheckEnds, Observes, Current, LogInv
<1>6. ASSUME NEW k \in Check, RestartHangs(k) PROVE LogInv'
  <2>1. todo[1] \in Fixable /\ 1 \in 1..Len(todo)
    <3>1. todo # <<>> /\ Head(todo) = k /\ k \in Fixable
      BY <1>6 DEF RestartHangs, Acting, Observes, MayRestart
    <3> QED BY <3>1 DEF TodoInv
  <2>2. running /\ ~running' /\ UNCHANGED <<file, day, logbook, killed>>
    BY <1>6 DEF RestartHangs, Acting, Observes, RunEnds
  <2>3. memo.path = file.path /\ memo.offset = file.offset
    BY <2>1, <2>2 DEF TodoInv
  <2>4. Current'.path = Current.path /\ Current'.offset = Current.offset
    BY <2>2, <2>3 DEF Current
  <2>5. UNCHANGED <<day, logbook>> /\ killed' = killed
    BY <2>2
  <2> QED BY <2>2, <2>4, <2>5, LogSame
<1>7. CASE Scan
  BY <1>7, LogOfScan
<1>8. CASE DeliverAlert
  BY <1>8, Delivering, LogSame DEF Delivered, Current, LogInv, past
<1>9. CASE Save
  BY <1>9, LogSame DEF Save, Saving, Current, past
<1>10. CASE KillRun
  BY <1>10 DEF KillRun, LogInv, logbook, SizeOf
<1> QED BY <1>1, <1>2, <1>3, <1>4, <1>5, <1>6, <1>7, <1>8, <1>9, <1>10, CheckingEnds DEF HeartbeatNext, RunSteps, Checked, Restarts

-----------------------------------------------------------------------------
(* The inductive invariant, and what follows from it *)

LEMMA HistoryBegins == HeartbeatInit => RestartInv /\ StoryInv /\ LogInv
<1> SUFFICES ASSUME HeartbeatInit PROVE RestartInv /\ StoryInv /\ LogInv
  OBVIOUS
<1>1. /\ kicked = <<>> /\ alerts = <<>> /\ running = FALSE /\ file = NoState /\ scanned = {}
      /\ RestartBudget \in Nat /\ MaxLines \in Nat
  BY HeartbeatAssumption DEF HeartbeatInit
<1>2. Current = NoState
  BY <1>1 DEF Current
<1>3. RestartInv
  <2>1. Len(kicked) = 0 /\ kicked \in Seq(Nat) /\ Current.restarts = <<>> /\ Len(Current.restarts) = 0
    BY <1>1, <1>2 DEF NoState
  <2>2. OnRecord(Current.restarts, kicked) /\ Orderly(kicked)
    BY <2>1 DEF OnRecord, Orderly
  <2> QED BY <1>1, <2>1, <2>2 DEF RestartInv
<1>4. StoryInv
  <2> SUFFICES ASSUME NEW k \in Check PROVE Agrees(k)
    BY DEF StoryInv
  <2>1. Current.checks[k].fails = 0 /\ Current.checks[k].alerted = Never /\ story[k] # "failing"
    BY <1>2 DEF NoState, Untroubled, HeartbeatInit
  <2>2. Quiet(alerts, k) /\ ~Pending(alerts, k, FALSE)
    BY <1>1 DEF Quiet, Pending
  <2>3. ~(Current.checks[k].fails >= 2)
    BY <2>1
  <2> QED BY <2>1, <2>2, <2>3, Zenon DEF Agrees
<1>5. LogInv
  <2>1. \A d \in Day : written[d] = 0 /\ SizeOf(d) = 0
    BY DEF HeartbeatInit, SizeOf, Day
  <2>2. Current.path = Never /\ file.path = Never
    BY <1>1, <1>2 DEF NoState
  <2> QED BY <1>1, <2>1, <2>2 DEF LogInv, LogOf
<1> QED BY <1>3, <1>4, <1>5

\* A run of the script keeps the invariant, whichever its checks say and whoever ends it, and so does
\* the world around it: the log that grows, shrinks and is replaced at midnight, and time.
THEOREM HeartbeatInductive == HeartbeatSpec => []HeartbeatInv
<1>1. HeartbeatInit => HeartbeatInv
  BY HeartbeatBegins, HistoryBegins DEF HeartbeatInv
<1>2. HeartbeatInv /\ [HeartbeatNext]_bvars => HeartbeatInv'
  BY TypedStep, TodoStep, RestartStep, StoryStep, LogStep DEF HeartbeatInv
<1> QED BY <1>1, <1>2, PTL DEF HeartbeatSpec

\* While no run is killed and none ends in an exception, there are at most RestartBudget restarts in any
\* Hour, for any order of checks, any number of runs and any outcome of the restarts: every restart is
\* on record before it is tried, and a record leaves the file only when it is an Hour old (heartbeat.py:12).
THEOREM Capped == HeartbeatSpec => []RestartsAreCapped
<1>1. HeartbeatInv => RestartsAreCapped
  BY DEF HeartbeatInv, RestartInv, RestartsAreCapped
<1> QED BY <1>1, HeartbeatInductive, PTL

\* Between two runs, the thread of a check that failed twice in a row says so, unless Slack refused the
\* alert: a throttled failure follows one that was told and not taken back (heartbeat.py:602).
THEOREM ToldBroken == HeartbeatSpec => []BrokenIsTold
<1>1. ASSUME HeartbeatInv, AtRest, NEW k \in Check, file.checks[k].fails >= 2
      PROVE  story[k] = "failing" \/ k \in refused
  <2>1. k # SilentKill
    BY <1>1 DEF HeartbeatInv, HeartbeatTyped
  <2>2. Agrees(k) /\ Current = file /\ alerts = <<>>
    BY <1>1, <2>1 DEF HeartbeatInv, HeartbeatTyped, StoryInv, AtRest, Current
  <2>3. ~Pending(alerts, k, FALSE)
    BY <2>2 DEF Pending
  <2> QED BY <1>1, <2>2, <2>3 DEF Agrees
<1>2. HeartbeatInv => BrokenIsTold
  BY <1>1 DEF BrokenIsTold
<1> QED BY <1>2, HeartbeatInductive, PTL

\* Between two runs, a thread that ends with a failure belongs to a check that still has an alert out,
\* unless Slack refused one: the alert that a check recovered is raised by what clears it (heartbeat.py:680).
THEOREM ToldRecovered == HeartbeatSpec => []RecoveryIsTold
<1>1. ASSUME HeartbeatInv, AtRest, NEW k \in Check \ {SilentKill}, story[k] = "failing"
      PROVE  file.checks[k].alerting \/ k \in refused
  <2>1. Agrees(k) /\ Current = file /\ alerts = <<>>
    BY <1>1 DEF HeartbeatInv, HeartbeatTyped, StoryInv, AtRest, Current
  <2>2. Quiet(alerts, k)
    BY <2>1 DEF Quiet
  <2> QED BY <1>1, <2>1, <2>2 DEF Agrees
<1>2. HeartbeatInv => RecoveryIsTold
  BY <1>1 DEF RecoveryIsTold
<1> QED BY <1>2, HeartbeatInductive, PTL

\* While no run is killed, the scan moves on to a later day's log only with every loss of the earlier
\* one counted, whatever is written between two scans, and a log that shrinks is counted from its start:
\* the offset of the state file never runs ahead of what was counted (heartbeat.py:458).
THEOREM LossesFound == HeartbeatSpec => []LossesAreFound
<1>1. ASSUME HeartbeatInv, ~killed, NEW d \in scanned \ emptied
      PROVE  file.path # Never /\ d < file.path => counted[d] >= written[d]
  <2>1. HeartbeatTyped /\ LogTyped /\ LogInv
    BY <1>1 DEF HeartbeatInv
  <2>2. HAVE file.path # Never /\ d < file.path
  <2>3. Current.path # Never /\ file.path <= Current.path
    BY <1>1, <2>1, <2>2, LogTypes DEF LogInv, Current
  <2>4. d < Current.path
    BY <2>1, <2>2, <2>3, LogTypes DEF Current
  <2> QED BY <1>1, <2>1, <2>3, <2>4 DEF LogInv, LogOf
<1>2. HeartbeatInv => LossesAreFound
  BY <1>1 DEF LossesAreFound
<1> QED BY <1>2, HeartbeatInductive, PTL

-----------------------------------------------------------------------------
(* Cutover: where a job may be, what is noted and put aside *)

Place == {"idle", "prune", "build", "stage", "suspend", "verify", "consume", "snapshot", "stop", "install", "swap",
          "config", "patch", "project", "switch", "start", "health", "undo", "undo_workspace", "undo_config",
          "undo_package", "undo_link", "undo_start"} \cup Ended
Flag == {"started", "package", "config", "workspace", "runtime"}
Part == {"link", "config", "workspace", "package", "gateway"}
Source == Job \cup {Base, None, "partial"}
Pin == Pins \cup {BasePin}
Package ==
  {None} \cup [version : {p.version : p \in Pin}, patches : {p.patches : p \in Pin} \cup {"stock", "mixed"}]

Backup == [link : Source, config : Source, workspace : Source, package : Package]

\* Every variable that the invariant speaks of has its type, and a job at work has an approval.
CutoverTyped ==
  /\ launch \in [Job -> {"idle", "approved", "watched", "submitted", "failing", "unlinking", "telling",
                     "failed", "cut", "dead"}]
  /\ wake \subseteq Job /\ supervised \subseteq Job
  /\ approval \in [Job -> {"none", "pending", "expired", "consumed", "withdrawn"}]
  /\ pc \in [Job -> Place] /\ using \in [Job -> Job \cup {None}] /\ pin \in [Job -> Pins]
  /\ flags \in [Job -> SUBSET Flag] /\ saved \in [Job -> Backup]
  /\ link \in Source /\ config \in Source /\ workspace \in Source /\ package \in Package
  /\ gateway \in {"up", "suspended", "down"} /\ clean \in BOOLEAN /\ adrift \subseteq Part /\ last \in Job \cup {Base}
  /\ \A j \in Job : Busy(j) => using[j] \in Job

\* The approval of a job that has got past the guard is spent, and on no other job.
Spent(j) == pc[j] \in {"snapshot", "stop"} \/ "started" \in flags[j]
ApprovalInv ==
  \A j \in Job :
    /\ Spent(j) => using[j] \in Job /\ approval[using[j]] = "consumed"
    /\ \A k \in Job : Spent(j) /\ Spent(k) /\ using[j] = using[k] => j = k
    /\ launch[j] = "idle" => approval[j] = "none"
    /\ At(j, "idle") => flags[j] = {}

\* The check is scheduled before the job is submitted, and only a launcher that failed cancels it, before
\* it comes to the approval.
WatchInv ==
  \A j \in Job :
    /\ launch[j] = "watched" => j \in wake
    /\ j \in supervised => j \in wake \/ launch[j] \in {"unlinking", "telling", "failed", "cut"}

\* All that runs is of the build activated last, and that build is on disk, but for what is adrift. A link
\* that is adrift leads the next cutover to take the patches of the package for those of another build.
Loose == {"package", "link"} \cap adrift # {}
Found == "link" \in adrift \/ OnDisk(last, builds)
LinkFits      == "link" \in adrift \/ link = last
ConfigFits    == "config" \in adrift \/ config = last
WorkspaceFits == "workspace" \in adrift \/ workspace = last
PackageFits   == Loose \/ package = PinOf(last)
Whole == LinkFits /\ ConfigFits /\ WorkspaceFits /\ PackageFits
Resting == Whole /\ ("gateway" \in adrift \/ gateway = "up")

\* What a rollback would leave: what was noted is put aside, what was not is in its place.
LinkKept(j)      == "link" \in adrift \/ (IF "runtime" \in flags[j] THEN saved[j].link = last ELSE link = last)
ConfigKept(j)    == "config" \in adrift \/ (IF "config" \in flags[j] THEN saved[j].config = last ELSE config = last)
WorkspaceKept(j) ==
  "workspace" \in adrift \/ (IF "workspace" \in flags[j] THEN saved[j].workspace = last ELSE workspace = last)
PackageKept(j) ==
  Loose \/ (IF "package" \in flags[j] THEN saved[j].package = PinOf(last) ELSE package = PinOf(last))
Kept(j) == LinkKept(j) /\ ConfigKept(j) /\ WorkspaceKept(j) /\ PackageKept(j)

\* The guard lets a job pass that has its build; it notes what runs, and whether the patches are the same.
Guarded(j) == Whole /\ ("gateway" \in adrift \/ gateway \in {"up", "suspended"}) /\ OnDisk(j, builds)
Snapped(j) ==
  /\ "link" \in adrift \/ (saved[j].link = last /\ (j \in stock \/ PinOf(last).patches = pin[j].patches))
  /\ "config" \in adrift \/ saved[j].config = last

\* Between the stop and the end of its cutover a job can be rolled back.
Changing(j) == OnDisk(j, builds) /\ Snapped(j) /\ Kept(j)
Swapping(j) ==
  /\ OnDisk(j, builds) /\ Snapped(j) /\ flags[j] = {"started"}
  /\ LinkKept(j) /\ ConfigKept(j) /\ WorkspaceKept(j) /\ package = None /\ (Loose \/ saved[j].package = PinOf(last))
Stock(j) == [version |-> pin[j].version, patches |-> "stock"]
Installed(j) ==
  /\ package.version = pin[j].version
  /\ Loose \/ "package" \in flags[j] \/ package.patches = pin[j].patches

\* Where a job at work stands, step by step.
Midway(j) ==
  /\ pc[j] \in {"prune", "build", "stage", "suspend"} => Resting
  /\ pc[j] \in {"verify", "consume", "snapshot"} => Guarded(j)
  /\ At(j, "stop") => Guarded(j) /\ Snapped(j)
  /\ At(j, "install") => Changing(j) /\ flags[j] = {"started"}
  /\ At(j, "swap") => Swapping(j)
  /\ At(j, "config") => Changing(j) /\ Installed(j)
  /\ At(j, "patch") => Changing(j) /\ Installed(j) /\ config = j
  /\ At(j, "project") => Changing(j) /\ package = pin[j] /\ config = j
  /\ pc[j] \in {"config", "patch", "project"} => "workspace" \notin flags[j]
  /\ At(j, "switch") => Changing(j) /\ package = pin[j] /\ config = j /\ workspace = j
  /\ pc[j] \in {"start", "health"} => Changing(j) /\ package = pin[j] /\ config = j /\ workspace = j /\ link = j
  /\ pc[j] \in {"undo", "undo_workspace"} => Kept(j)
  /\ At(j, "undo_config") => WorkspaceFits /\ ConfigKept(j) /\ PackageKept(j) /\ LinkKept(j)
  /\ At(j, "undo_package") => WorkspaceFits /\ ConfigFits /\ PackageKept(j) /\ LinkKept(j)
  /\ At(j, "undo_link") => WorkspaceFits /\ ConfigFits /\ PackageFits /\ LinkKept(j)
  /\ At(j, "undo_start") => Whole

\* As long as no cutover met another or was killed, at most one job is at work; it stands as above, and
\* without one everything is of the build activated last, but for what is adrift.
RuntimeInv ==
  clean =>
    /\ Found
    /\ \A j, k \in Job : Busy(j) /\ Busy(k) => j = k
    /\ \A j \in Job : Busy(j) => Midway(j)
    /\ (\A j \in Job : ~Busy(j)) => Resting

CutoverInv == CutoverTyped /\ ApprovalInv /\ WatchInv /\ RuntimeInv

-----------------------------------------------------------------------------
(* Types *)

LEMMA PinTyped ==
  ASSUME CutoverTyped, NEW j \in Job
  PROVE  /\ pin[j] \in Pin /\ PinOf(last) \in Pin /\ pin[j] \in Package /\ PinOf(last) \in Package
         /\ Stock(j) \in Package
         /\ \A p \in Package \ {None} : [p EXCEPT !.patches = "mixed"] \in Package /\ [p EXCEPT !.patches = pin[j].patches] \in Package
<1>1. pin[j] \in Pin /\ PinOf(last) \in Pin
  BY CutoverAssumption DEF CutoverTyped, PinOf, Pin
<1>2. \A p \in Pin : p \in Package
  BY CutoverAssumption DEF Package, Pin
<1>3. \A p \in Package \ {None} : [p EXCEPT !.patches = "mixed"] \in Package /\ [p EXCEPT !.patches = pin[j].patches] \in Package
  BY <1>1 DEF Package
<1> QED BY <1>1, <1>2, <1>3 DEF Stock, Package

LEMMA SavedTyped ==
  ASSUME CutoverTyped, NEW j \in Job
  PROVE  /\ saved[j] \in Backup
         /\ saved[j].link \in Source /\ saved[j].config \in Source /\ saved[j].workspace \in Source /\ saved[j].package \in Package
         /\ \A x \in Source : [saved EXCEPT ![j].workspace = x] \in [Job -> Backup]
         /\ \A x, y \in Source : [saved EXCEPT ![j].link = x, ![j].config = y] \in [Job -> Backup]
         /\ \A p \in Package : [saved EXCEPT ![j].package = p] \in [Job -> Backup]
<1>1. saved \in [Job -> Backup] /\ saved[j] \in Backup
  BY DEF CutoverTyped
<1>2. saved[j].link \in Source /\ saved[j].config \in Source /\ saved[j].workspace \in Source /\ saved[j].package \in Package
  BY <1>1 DEF Backup
<1>3. \A x \in Source : [saved EXCEPT ![j].workspace = x] \in [Job -> Backup]
  BY <1>1 DEF Backup
<1>4. \A x, y \in Source : [saved EXCEPT ![j].link = x, ![j].config = y] \in [Job -> Backup]
  BY <1>1 DEF Backup
<1>5. \A p \in Package : [saved EXCEPT ![j].package = p] \in [Job -> Backup]
  BY <1>1 DEF Backup
<1> QED BY <1>1, <1>2, <1>3, <1>4, <1>5

LEMMA ValuesTyped ==
  ASSUME CutoverTyped, NEW j \in Job
  PROVE  /\ link \in Source /\ config \in Source /\ workspace \in Source /\ package \in Package
         /\ saved \in [Job -> Backup] /\ j \in Source /\ "partial" \in Source /\ None \in Package
BY DEF CutoverTyped, Source, Package

LEMMA NotedTyped ==
  ASSUME CutoverTyped, NEW j \in Job
  PROVE  \A f \in Flag : [flags EXCEPT ![j] = @ \cup {f}] \in [Job -> SUBSET Flag]
BY DEF CutoverTyped

\* What a job at work does to the rest.
LEMMA WorkTyped ==
  ASSUME CutoverTyped, NEW j \in Job, Busy(j), NEW p \in Place, Goto(j, p),
         UNCHANGED <<launch, wake, approval, using, supervised, pin>>,
         flags' \in [Job -> SUBSET Flag], saved' \in [Job -> Backup],
         link' \in Source, config' \in Source, workspace' \in Source, package' \in Package,
         gateway' \in {"up", "suspended", "down"}, clean' \in BOOLEAN, adrift' \subseteq Part, last' \in Job \cup {Base}
  PROVE  CutoverTyped'
<1>1. pc' \in [Job -> Place]
  BY DEF CutoverTyped, Goto
<1>2. \A k \in Job : Busy(k)' => using'[k] \in Job
  BY DEF CutoverTyped, Goto, Busy
<1> QED BY <1>1, <1>2 DEF CutoverTyped

LEMMA CutoverTypedStep ==
  ASSUME CutoverTyped, [CutoverNext]_kvars
  PROVE  CutoverTyped'
<1>0. CASE UNCHANGED kvars
  BY <1>0 DEF kvars, CutoverTyped, Busy, trust, own, disk, live, notes
<1>1. ASSUME NEW j \in Job, WriteApproval(j) PROVE CutoverTyped'
  BY <1>1 DEF WriteApproval, Place, Ended, Source, CutoverTyped, Busy, At, Goto, trust, own, disk, live, notes
<1>2. ASSUME NEW j \in Job, ScheduleWake(j) PROVE CutoverTyped'
  BY <1>2 DEF ScheduleWake, Place, Ended, Source, CutoverTyped, Busy, At, Goto, trust, own, disk, live, notes
<1>3. ASSUME NEW j \in Job, Submit(j) PROVE CutoverTyped'
  <2>1. /\ launch' \in {[launch EXCEPT ![j] = "submitted"], [launch EXCEPT ![j] = "failing"]}
        /\ UNCHANGED <<wake, approval, pin, flags, saved, link, config, workspace, package, gateway, adrift, last>>
        /\ supervised' \in {supervised, supervised \cup {j}}
    BY <1>3 DEF Submit, live, notes
  <2>2. UNCHANGED <<pc, using>> \/ (pc' = [pc EXCEPT ![j] = "prune"] /\ using' = [using EXCEPT ![j] = j])
    BY <1>3 DEF Submit, Begin, Goto
  <2>3. clean' \in BOOLEAN
    BY <1>3 DEF Submit, Begin, CutoverTyped
  <2>4. pc' \in [Job -> Place] /\ using' \in [Job -> Job \cup {None}] /\ \A k \in Job : Busy(k)' => using'[k] \in Job
    BY <2>2 DEF CutoverTyped, Busy, Place, Ended
  <2>5. launch' \in [Job -> {"idle", "approved", "watched", "submitted", "failing", "unlinking", "telling",
                             "failed", "cut", "dead"}] /\ supervised' \subseteq Job
    BY <2>1 DEF CutoverTyped
  <2> QED BY <2>1, <2>3, <2>4, <2>5 DEF CutoverTyped
<1>4. ASSUME NEW j \in Job, CancelWake(j) \/ Unlink(j) \/ TellFailure(j) PROVE CutoverTyped'
  BY <1>4 DEF CancelWake, Unlink, TellFailure, Place, Ended, Source, CutoverTyped, Busy, At, Goto, trust, own, disk, live, notes
<1>5. ASSUME NEW j \in Job, LauncherDies(j) PROVE CutoverTyped'
  BY <1>5 DEF LauncherDies, Place, Ended, Source, CutoverTyped, Busy, At, Goto, trust, own, disk, live, notes
<1>6. ASSUME NEW j \in Job, Expire(j) PROVE CutoverTyped'
  BY <1>6 DEF Expire, Place, Ended, Source, CutoverTyped, Busy, At, Goto, trust, own, disk, live, notes
<1>7. ASSUME NEW j \in Job, StartByHand(j) PROVE CutoverTyped'
  BY <1>7 DEF StartByHand, Begin, Place, Ended, Source, CutoverTyped, Busy, At, Goto, trust, own, disk, live, notes
<1>8. ASSUME NEW j \in Job, Prune(j) PROVE CutoverTyped'
  BY <1>8 DEF Prune, Place, Ended, Source, CutoverTyped, Busy, At, Goto, trust, own, disk, live, notes
<1>9. ASSUME NEW j \in Job, Build(j) PROVE CutoverTyped'
  BY <1>9 DEF Build, Fails, Place, Ended, Source, CutoverTyped, Busy, At, Goto, trust, own, disk, live, notes
<1>10. ASSUME NEW j \in Job, Stage(j) PROVE CutoverTyped'
  BY <1>10 DEF Stage, Place, Ended, Source, CutoverTyped, Busy, At, Goto, trust, own, disk, live, notes
<1>11. ASSUME NEW j \in Job, Suspend(j) PROVE CutoverTyped'
  BY <1>11 DEF Suspend, Fails, Place, Ended, Source, CutoverTyped, Busy, At, Goto, trust, own, disk, live, notes
<1>12. ASSUME NEW j \in Job, Verify(j) PROVE CutoverTyped'
  <2>1. adrift' \subseteq Part
    BY <1>12 DEF Verify, Refuse, Part, CutoverTyped
  <2> QED BY <1>12, <2>1 DEF Verify, Refuse, Place, Ended, Source, CutoverTyped, Busy, At, Goto, trust, own, disk, live, notes
<1>13. ASSUME NEW j \in Job, Consume(j) PROVE CutoverTyped'
  <2>1. adrift' \subseteq Part
    BY <1>13 DEF Consume, Refuse, Part, CutoverTyped
  <2> QED BY <1>13, <2>1 DEF Consume, Refuse, Place, Ended, Source, CutoverTyped, Busy, At, Goto, trust, own, disk, live, notes
<1>14. ASSUME NEW j \in Job, Snapshot(j) PROVE CutoverTyped'
  <2>1. Busy(j) /\ UNCHANGED <<launch, wake, approval, using, supervised, pin>> /\ \E p \in Place : Goto(j, p)
    BY <1>14 DEF Snapshot, Refuse, Busy, At, Place, Ended, trust, own, live, notes
  <2>2. flags' \in [Job -> SUBSET Flag]
    BY <1>14, NotedTyped DEF Snapshot, Refuse, CutoverTyped, Flag, notes
  <2>3. saved' \in [Job -> Backup]
    BY <1>14, ValuesTyped, SavedTyped DEF Snapshot, Refuse, notes
  <2>4. link' \in Source /\ config' \in Source /\ workspace' \in Source /\ package' \in Package
    BY <1>14, ValuesTyped, SavedTyped, PinTyped DEF Snapshot, Refuse, Stock, live
  <2>5. gateway' \in {"up", "suspended", "down"} /\ last' \in Job \cup {Base}
    BY <1>14 DEF Snapshot, Refuse, CutoverTyped, live
  <2>6. clean' \in BOOLEAN /\ adrift' \subseteq Part
    BY <1>14 DEF Snapshot, Refuse, Part, CutoverTyped
  <2> QED BY <2>1, <2>2, <2>3, <2>4, <2>5, <2>6, WorkTyped
<1>15. ASSUME NEW j \in Job, Stop(j) PROVE CutoverTyped'
  <2>1. Busy(j) /\ UNCHANGED <<launch, wake, approval, using, supervised, pin>> /\ \E p \in Place : Goto(j, p)
    BY <1>15 DEF Stop, Rollback, Busy, At, Place, Ended, trust, own, live, notes
  <2>2. flags' \in [Job -> SUBSET Flag]
    BY <1>15, NotedTyped DEF Stop, Rollback, CutoverTyped, Flag, notes
  <2>3. saved' \in [Job -> Backup]
    BY <1>15, ValuesTyped, SavedTyped DEF Stop, Rollback, notes
  <2>4. link' \in Source /\ config' \in Source /\ workspace' \in Source /\ package' \in Package
    BY <1>15, ValuesTyped, SavedTyped, PinTyped DEF Stop, Rollback, Stock, live
  <2>5. gateway' \in {"up", "suspended", "down"} /\ last' \in Job \cup {Base}
    BY <1>15 DEF Stop, Rollback, CutoverTyped, live
  <2>6. clean' \in BOOLEAN /\ adrift' \subseteq Part
    BY <1>15 DEF Stop, Rollback, CutoverTyped
  <2> QED BY <2>1, <2>2, <2>3, <2>4, <2>5, <2>6, WorkTyped
<1>16. ASSUME NEW j \in Job, Retain(j) PROVE CutoverTyped'
  <2>1. Busy(j) /\ UNCHANGED <<launch, wake, approval, using, supervised, pin>> /\ \E p \in Place : Goto(j, p)
    BY <1>16 DEF Retain, Rollback, Busy, At, Place, Ended, trust, own, live, notes
  <2>2. flags' \in [Job -> SUBSET Flag]
    BY <1>16, NotedTyped DEF Retain, Rollback, CutoverTyped, Flag, notes
  <2>3. saved' \in [Job -> Backup]
    BY <1>16, ValuesTyped, SavedTyped DEF Retain, Rollback, notes
  <2>4. link' \in Source /\ config' \in Source /\ workspace' \in Source /\ package' \in Package
    BY <1>16, ValuesTyped, SavedTyped, PinTyped DEF Retain, Rollback, Stock, live
  <2>5. gateway' \in {"up", "suspended", "down"} /\ last' \in Job \cup {Base}
    BY <1>16 DEF Retain, Rollback, CutoverTyped, live
  <2>6. clean' \in BOOLEAN /\ adrift' \subseteq Part
    BY <1>16 DEF Retain, Rollback, CutoverTyped
  <2> QED BY <2>1, <2>2, <2>3, <2>4, <2>5, <2>6, WorkTyped
<1>17. ASSUME NEW j \in Job, Swap(j) PROVE CutoverTyped'
  <2>1. Busy(j) /\ UNCHANGED <<launch, wake, approval, using, supervised, pin>> /\ \E p \in Place : Goto(j, p)
    BY <1>17 DEF Swap, Rollback, Noted, CutOff, Stock, Busy, At, Place, Ended, trust, own, live, notes
  <2>2. flags' \in [Job -> SUBSET Flag]
    BY <1>17, NotedTyped DEF Swap, Rollback, Noted, CutOff, Stock, CutoverTyped, Flag, notes
  <2>3. saved' \in [Job -> Backup]
    BY <1>17, ValuesTyped, SavedTyped DEF Swap, Rollback, Noted, CutOff, Stock, notes
  <2>4. link' \in Source /\ config' \in Source /\ workspace' \in Source /\ package' \in Package
    BY <1>17, ValuesTyped, SavedTyped, PinTyped DEF Swap, Rollback, Noted, CutOff, Stock, Stock, live
  <2>5. gateway' \in {"up", "suspended", "down"} /\ last' \in Job \cup {Base}
    BY <1>17 DEF Swap, Rollback, Noted, CutOff, Stock, CutoverTyped, live
  <2>6. clean' \in BOOLEAN /\ adrift' \subseteq Part
    BY <1>17 DEF Swap, Rollback, Noted, CutOff, Stock, Part, CutoverTyped
  <2> QED BY <2>1, <2>2, <2>3, <2>4, <2>5, <2>6, WorkTyped
<1>18. ASSUME NEW j \in Job, CopyConfig(j) PROVE CutoverTyped'
  <2>1. Busy(j) /\ UNCHANGED <<launch, wake, approval, using, supervised, pin>> /\ \E p \in Place : Goto(j, p)
    BY <1>18 DEF CopyConfig, Rollback, Noted, CutOff, Busy, At, Place, Ended, trust, own, live, notes
  <2>2. flags' \in [Job -> SUBSET Flag]
    BY <1>18, NotedTyped DEF CopyConfig, Rollback, Noted, CutOff, CutoverTyped, Flag, notes
  <2>3. saved' \in [Job -> Backup]
    BY <1>18, ValuesTyped, SavedTyped DEF CopyConfig, Rollback, Noted, CutOff, notes
  <2>4. link' \in Source /\ config' \in Source /\ workspace' \in Source /\ package' \in Package
    BY <1>18, ValuesTyped, SavedTyped, PinTyped DEF CopyConfig, Rollback, Noted, CutOff, Stock, live
  <2>5. gateway' \in {"up", "suspended", "down"} /\ last' \in Job \cup {Base}
    BY <1>18 DEF CopyConfig, Rollback, Noted, CutOff, CutoverTyped, live
  <2>6. clean' \in BOOLEAN /\ adrift' \subseteq Part
    BY <1>18 DEF CopyConfig, Rollback, Noted, CutOff, Part, CutoverTyped
  <2> QED BY <2>1, <2>2, <2>3, <2>4, <2>5, <2>6, WorkTyped
<1>19. ASSUME NEW j \in Job, Patch(j) PROVE CutoverTyped'
  <2>1. Busy(j) /\ UNCHANGED <<launch, wake, approval, using, supervised, pin>> /\ \E p \in Place : Goto(j, p)
    BY <1>19 DEF Patch, Rollback, Busy, At, Place, Ended, trust, own, live, notes
  <2>2. flags' \in [Job -> SUBSET Flag]
    BY <1>19, NotedTyped DEF Patch, Rollback, CutoverTyped, Flag, notes
  <2>3. saved' \in [Job -> Backup]
    BY <1>19, ValuesTyped, SavedTyped DEF Patch, Rollback, notes
  <2>7. package' \in Package
    <3>1. \/ package' = package
          \/ package # None /\ package' \in {[package EXCEPT !.patches = "mixed"], [package EXCEPT !.patches = pin[j].patches]}
      BY <1>19 DEF Patch
    <3> QED BY <3>1, ValuesTyped, PinTyped
  <2>4. link' \in Source /\ config' \in Source /\ workspace' \in Source /\ package' \in Package
    BY <1>19, <2>7, ValuesTyped DEF Patch, Rollback, Stock, live
  <2>5. gateway' \in {"up", "suspended", "down"} /\ last' \in Job \cup {Base}
    BY <1>19 DEF Patch, Rollback, CutoverTyped, live
  <2>6. clean' \in BOOLEAN /\ adrift' \subseteq Part
    BY <1>19 DEF Patch, Rollback, CutoverTyped
  <2> QED BY <2>1, <2>2, <2>3, <2>4, <2>5, <2>6, WorkTyped
<1>20. ASSUME NEW j \in Job, Project(j) PROVE CutoverTyped'
  <2>1. Busy(j) /\ UNCHANGED <<launch, wake, approval, using, supervised, pin>> /\ \E p \in Place : Goto(j, p)
    BY <1>20 DEF Project, Rollback, Noted, CutOff, Busy, At, Place, Ended, trust, own, live, notes
  <2>2. flags' \in [Job -> SUBSET Flag]
    BY <1>20, NotedTyped DEF Project, Rollback, Noted, CutOff, CutoverTyped, Flag, notes
  <2>3. saved' \in [Job -> Backup]
    BY <1>20, ValuesTyped, SavedTyped DEF Project, Rollback, Noted, CutOff, notes
  <2>4. link' \in Source /\ config' \in Source /\ workspace' \in Source /\ package' \in Package
    BY <1>20, ValuesTyped, SavedTyped, PinTyped DEF Project, Rollback, Noted, CutOff, Stock, live
  <2>5. gateway' \in {"up", "suspended", "down"} /\ last' \in Job \cup {Base}
    BY <1>20 DEF Project, Rollback, Noted, CutOff, CutoverTyped, live
  <2>6. clean' \in BOOLEAN /\ adrift' \subseteq Part
    BY <1>20 DEF Project, Rollback, Noted, CutOff, Part, CutoverTyped
  <2> QED BY <2>1, <2>2, <2>3, <2>4, <2>5, <2>6, WorkTyped
<1>21. ASSUME NEW j \in Job, Switch(j) PROVE CutoverTyped'
  <2>1. Busy(j) /\ UNCHANGED <<launch, wake, approval, using, supervised, pin>> /\ \E p \in Place : Goto(j, p)
    BY <1>21 DEF Switch, Rollback, Noted, CutOff, Busy, At, Place, Ended, trust, own, live, notes
  <2>2. flags' \in [Job -> SUBSET Flag]
    BY <1>21, NotedTyped DEF Switch, Rollback, Noted, CutOff, CutoverTyped, Flag, notes
  <2>3. saved' \in [Job -> Backup]
    BY <1>21, ValuesTyped, SavedTyped DEF Switch, Rollback, Noted, CutOff, notes
  <2>4. link' \in Source /\ config' \in Source /\ workspace' \in Source /\ package' \in Package
    BY <1>21, ValuesTyped, SavedTyped, PinTyped DEF Switch, Rollback, Noted, CutOff, Stock, live
  <2>5. gateway' \in {"up", "suspended", "down"} /\ last' \in Job \cup {Base}
    BY <1>21 DEF Switch, Rollback, Noted, CutOff, CutoverTyped, live
  <2>6. clean' \in BOOLEAN /\ adrift' \subseteq Part
    BY <1>21 DEF Switch, Rollback, Noted, CutOff, Part, CutoverTyped
  <2> QED BY <2>1, <2>2, <2>3, <2>4, <2>5, <2>6, WorkTyped
<1>22. ASSUME NEW j \in Job, StartGateway(j) PROVE CutoverTyped'
  <2>1. Busy(j) /\ UNCHANGED <<launch, wake, approval, using, supervised, pin>> /\ \E p \in Place : Goto(j, p)
    BY <1>22 DEF StartGateway, Rollback, Busy, At, Place, Ended, trust, own, live, notes
  <2>2. flags' \in [Job -> SUBSET Flag]
    BY <1>22, NotedTyped DEF StartGateway, Rollback, CutoverTyped, Flag, notes
  <2>3. saved' \in [Job -> Backup]
    BY <1>22, ValuesTyped, SavedTyped DEF StartGateway, Rollback, notes
  <2>4. link' \in Source /\ config' \in Source /\ workspace' \in Source /\ package' \in Package
    BY <1>22, ValuesTyped, SavedTyped, PinTyped DEF StartGateway, Rollback, Stock, live
  <2>5. gateway' \in {"up", "suspended", "down"} /\ last' \in Job \cup {Base}
    BY <1>22 DEF StartGateway, Rollback, CutoverTyped, live
  <2>6. clean' \in BOOLEAN /\ adrift' \subseteq Part
    BY <1>22 DEF StartGateway, Rollback, CutoverTyped
  <2> QED BY <2>1, <2>2, <2>3, <2>4, <2>5, <2>6, WorkTyped
<1>23. ASSUME NEW j \in Job, Health(j) PROVE CutoverTyped'
  <2>1. Busy(j) /\ UNCHANGED <<launch, wake, approval, using, supervised, pin>> /\ \E p \in Place : Goto(j, p)
    BY <1>23 DEF Health, Rollback, Busy, At, Place, Ended, trust, own, live, notes
  <2>2. flags' \in [Job -> SUBSET Flag]
    BY <1>23, NotedTyped DEF Health, Rollback, CutoverTyped, Flag, notes
  <2>3. saved' \in [Job -> Backup]
    BY <1>23, ValuesTyped, SavedTyped DEF Health, Rollback, notes
  <2>4. link' \in Source /\ config' \in Source /\ workspace' \in Source /\ package' \in Package
    BY <1>23, ValuesTyped, SavedTyped, PinTyped DEF Health, Rollback, Stock, live
  <2>5. gateway' \in {"up", "suspended", "down"} /\ last' \in Job \cup {Base}
    BY <1>23 DEF Health, Rollback, CutoverTyped, live
  <2>6. clean' \in BOOLEAN /\ adrift' \subseteq Part
    BY <1>23 DEF Health, Rollback, CutoverTyped
  <2> QED BY <2>1, <2>2, <2>3, <2>4, <2>5, <2>6, WorkTyped
<1>24. ASSUME NEW j \in Job, UndoStop(j) PROVE CutoverTyped'
  <2>1. Busy(j) /\ UNCHANGED <<launch, wake, approval, using, supervised, pin>> /\ \E p \in Place : Goto(j, p)
    BY <1>24 DEF UndoStop, Busy, At, Place, Ended, trust, own, live, notes
  <2>2. flags' \in [Job -> SUBSET Flag]
    BY <1>24, NotedTyped DEF UndoStop, CutoverTyped, Flag, notes
  <2>3. saved' \in [Job -> Backup]
    BY <1>24, ValuesTyped, SavedTyped DEF UndoStop, notes
  <2>4. link' \in Source /\ config' \in Source /\ workspace' \in Source /\ package' \in Package
    BY <1>24, ValuesTyped, SavedTyped, PinTyped DEF UndoStop, Stock, live
  <2>5. gateway' \in {"up", "suspended", "down"} /\ last' \in Job \cup {Base}
    BY <1>24 DEF UndoStop, CutoverTyped, live
  <2>6. clean' \in BOOLEAN /\ adrift' \subseteq Part
    BY <1>24 DEF UndoStop, CutoverTyped
  <2> QED BY <2>1, <2>2, <2>3, <2>4, <2>5, <2>6, WorkTyped
<1>25. ASSUME NEW j \in Job, UndoWorkspace(j) PROVE CutoverTyped'
  <2>1. Busy(j) /\ UNCHANGED <<launch, wake, approval, using, supervised, pin>> /\ \E p \in Place : Goto(j, p)
    BY <1>25 DEF UndoWorkspace, Busy, At, Place, Ended, trust, own, live, notes
  <2>2. flags' \in [Job -> SUBSET Flag]
    BY <1>25, NotedTyped DEF UndoWorkspace, CutoverTyped, Flag, notes
  <2>3. saved' \in [Job -> Backup]
    BY <1>25, ValuesTyped, SavedTyped DEF UndoWorkspace, notes
  <2>4. link' \in Source /\ config' \in Source /\ workspace' \in Source /\ package' \in Package
    BY <1>25, ValuesTyped, SavedTyped, PinTyped DEF UndoWorkspace, Stock, live
  <2>5. gateway' \in {"up", "suspended", "down"} /\ last' \in Job \cup {Base}
    BY <1>25 DEF UndoWorkspace, CutoverTyped, live
  <2>6. clean' \in BOOLEAN /\ adrift' \subseteq Part
    BY <1>25 DEF UndoWorkspace, Unfit, Part, CutoverTyped
  <2> QED BY <2>1, <2>2, <2>3, <2>4, <2>5, <2>6, WorkTyped
<1>26. ASSUME NEW j \in Job, UndoConfig(j) PROVE CutoverTyped'
  <2>1. Busy(j) /\ UNCHANGED <<launch, wake, approval, using, supervised, pin>> /\ \E p \in Place : Goto(j, p)
    BY <1>26 DEF UndoConfig, Busy, At, Place, Ended, trust, own, live, notes
  <2>2. flags' \in [Job -> SUBSET Flag]
    BY <1>26, NotedTyped DEF UndoConfig, CutoverTyped, Flag, notes
  <2>3. saved' \in [Job -> Backup]
    BY <1>26, ValuesTyped, SavedTyped DEF UndoConfig, notes
  <2>4. link' \in Source /\ config' \in Source /\ workspace' \in Source /\ package' \in Package
    BY <1>26, ValuesTyped, SavedTyped, PinTyped DEF UndoConfig, Stock, live
  <2>5. gateway' \in {"up", "suspended", "down"} /\ last' \in Job \cup {Base}
    BY <1>26 DEF UndoConfig, CutoverTyped, live
  <2>6. clean' \in BOOLEAN /\ adrift' \subseteq Part
    BY <1>26 DEF UndoConfig, Unfit, Part, CutoverTyped
  <2> QED BY <2>1, <2>2, <2>3, <2>4, <2>5, <2>6, WorkTyped
<1>27. ASSUME NEW j \in Job, UndoPackage(j) PROVE CutoverTyped'
  <2>1. Busy(j) /\ UNCHANGED <<launch, wake, approval, using, supervised, pin>> /\ \E p \in Place : Goto(j, p)
    BY <1>27 DEF UndoPackage, Busy, At, Place, Ended, trust, own, live, notes
  <2>2. flags' \in [Job -> SUBSET Flag]
    BY <1>27, NotedTyped DEF UndoPackage, CutoverTyped, Flag, notes
  <2>3. saved' \in [Job -> Backup]
    BY <1>27, ValuesTyped, SavedTyped DEF UndoPackage, notes
  <2>4. link' \in Source /\ config' \in Source /\ workspace' \in Source /\ package' \in Package
    BY <1>27, ValuesTyped, SavedTyped, PinTyped DEF UndoPackage, Stock, live
  <2>5. gateway' \in {"up", "suspended", "down"} /\ last' \in Job \cup {Base}
    BY <1>27 DEF UndoPackage, CutoverTyped, live
  <2>6. clean' \in BOOLEAN /\ adrift' \subseteq Part
    BY <1>27 DEF UndoPackage, Unfit, Part, CutoverTyped
  <2> QED BY <2>1, <2>2, <2>3, <2>4, <2>5, <2>6, WorkTyped
<1>28. ASSUME NEW j \in Job, UndoLink(j) PROVE CutoverTyped'
  <2>1. Busy(j) /\ UNCHANGED <<launch, wake, approval, using, supervised, pin>> /\ \E p \in Place : Goto(j, p)
    BY <1>28 DEF UndoLink, Busy, At, Place, Ended, trust, own, live, notes
  <2>2. flags' \in [Job -> SUBSET Flag]
    BY <1>28, NotedTyped DEF UndoLink, CutoverTyped, Flag, notes
  <2>3. saved' \in [Job -> Backup]
    BY <1>28, ValuesTyped, SavedTyped DEF UndoLink, notes
  <2>4. link' \in Source /\ config' \in Source /\ workspace' \in Source /\ package' \in Package
    BY <1>28, ValuesTyped, SavedTyped, PinTyped DEF UndoLink, Stock, live
  <2>5. gateway' \in {"up", "suspended", "down"} /\ last' \in Job \cup {Base}
    BY <1>28 DEF UndoLink, CutoverTyped, live
  <2>6. clean' \in BOOLEAN /\ adrift' \subseteq Part
    BY <1>28 DEF UndoLink, Unfit, Part, CutoverTyped
  <2> QED BY <2>1, <2>2, <2>3, <2>4, <2>5, <2>6, WorkTyped
<1>29. ASSUME NEW j \in Job, UndoStart(j) PROVE CutoverTyped'
  <2>1. Busy(j) /\ UNCHANGED <<launch, wake, approval, using, supervised, pin>> /\ \E p \in Place : Goto(j, p)
    BY <1>29 DEF UndoStart, Busy, At, Place, Ended, trust, own, live, notes
  <2>2. flags' \in [Job -> SUBSET Flag]
    BY <1>29, NotedTyped DEF UndoStart, CutoverTyped, Flag, notes
  <2>3. saved' \in [Job -> Backup]
    BY <1>29, ValuesTyped, SavedTyped DEF UndoStart, notes
  <2>4. link' \in Source /\ config' \in Source /\ workspace' \in Source /\ package' \in Package
    BY <1>29, ValuesTyped, SavedTyped, PinTyped DEF UndoStart, Stock, live
  <2>5. gateway' \in {"up", "suspended", "down"} /\ last' \in Job \cup {Base}
    BY <1>29 DEF UndoStart, CutoverTyped, live
  <2>6. clean' \in BOOLEAN /\ adrift' \subseteq Part
    BY <1>29 DEF UndoStart, Unfit, Part, CutoverTyped
  <2> QED BY <2>1, <2>2, <2>3, <2>4, <2>5, <2>6, WorkTyped
<1>30. ASSUME NEW j \in Job, Kill(j) PROVE CutoverTyped'
  BY <1>30 DEF Kill, Place, Ended, Source, CutoverTyped, Busy, At, Goto, trust, own, disk, live, notes
<1> QED
  BY <1>0, <1>1, <1>2, <1>3, <1>4, <1>5, <1>6, <1>7, <1>8, <1>9, <1>10, <1>11, <1>12, <1>13, <1>14, <1>15, <1>16, <1>17, <1>18, <1>19, <1>20, <1>21, <1>22, <1>23, <1>24, <1>25, <1>26, <1>27, <1>28, <1>29, <1>30
  DEF CutoverNext, Launches, Prepares, Activates, Undoes

-----------------------------------------------------------------------------
(* Approvals and checks *)

\* A job at work that comes no nearer to the stop leaves the approvals as they are.
LEMMA ApprovalSame ==
  ASSUME ApprovalInv, NEW j \in Job, UNCHANGED <<launch, approval, using>>, ~At(j, "idle")', Spent(j)' => Spent(j),
         \A k \in Job \ {j} : pc'[k] = pc[k] /\ flags'[k] = flags[k]
  PROVE  ApprovalInv'
BY DEF ApprovalInv, Spent, At

\* So does one that begins.
LEMMA ApprovalOfBegin ==
  ASSUME CutoverTyped, ApprovalInv, NEW j \in Job, NEW a \in Job, Begin(j, a), UNCHANGED <<approval, flags>>,
         \A k \in Job : launch'[k] = "idle" => launch[k] = "idle"
  PROVE  ApprovalInv'
<1>1. /\ pc[j] = "idle" /\ pc' = [pc EXCEPT ![j] = "prune"] /\ using' = [using EXCEPT ![j] = a]
      /\ pc \in [Job -> Place] /\ using \in [Job -> Job \cup {None}]
  BY DEF Begin, At, Goto, CutoverTyped
<1>2. ~Spent(j) /\ ~Spent(j)'
  BY <1>1 DEF Spent, ApprovalInv, At
<1>3. \A k \in Job \ {j} : pc'[k] = pc[k] /\ using'[k] = using[k] /\ (Spent(k)' <=> Spent(k))
  BY <1>1 DEF Spent
<1> QED BY <1>1, <1>2, <1>3 DEF ApprovalInv, At

LEMMA ApprovalStep ==
  ASSUME CutoverTyped, ApprovalInv, [CutoverNext]_kvars
  PROVE  ApprovalInv'
<1>1. CASE UNCHANGED kvars
  BY <1>1 DEF kvars, trust, own, notes, ApprovalInv, Spent, At
<1>2. ASSUME NEW j \in Job, WriteApproval(j) PROVE ApprovalInv'
  <2>1. /\ approval[j] = "none" /\ approval' = [approval EXCEPT ![j] = "pending"] /\ launch' = [launch EXCEPT ![j] = "approved"]
        /\ UNCHANGED <<pc, using, flags>>
    BY <1>2 DEF WriteApproval, ApprovalInv, own, notes
  <2>2. \A k \in Job : (Spent(k)' <=> Spent(k)) /\ (Spent(k) => using[k] # j)
    BY <2>1 DEF ApprovalInv, Spent
  <2> QED BY <2>1, <2>2 DEF ApprovalInv, CutoverTyped, At
<1>3. ASSUME NEW j \in Job, ScheduleWake(j) \/ CancelWake(j) \/ TellFailure(j) \/ LauncherDies(j) PROVE ApprovalInv'
  <2>1. UNCHANGED <<approval, pc, using, flags>> /\ \A k \in Job : launch'[k] = "idle" => launch[k] = "idle"
    BY <1>3 DEF ScheduleWake, CancelWake, TellFailure, LauncherDies, own, notes, CutoverTyped
  <2> QED BY <2>1 DEF ApprovalInv, Spent, At
<1>4. ASSUME NEW j \in Job, Unlink(j) \/ Expire(j) PROVE ApprovalInv'
  <2>1. UNCHANGED <<pc, using, flags>> /\ \A k \in Job : launch'[k] = "idle" => launch[k] = "idle"
    BY <1>4 DEF Unlink, Expire, own, notes, CutoverTyped
  <2>2. \A k \in Job : (approval[k] = "consumed" => approval'[k] = "consumed") /\ (launch[k] = "idle" => approval'[k] = approval[k])
    BY <1>4 DEF Unlink, Expire, ApprovalInv, CutoverTyped
  <2> QED BY <2>1, <2>2 DEF ApprovalInv, Spent, At
<1>5. ASSUME NEW j \in Job, Submit(j) PROVE ApprovalInv'
  <2>1. UNCHANGED <<approval, flags>> /\ \A k \in Job : launch'[k] = "idle" => launch[k] = "idle"
    BY <1>5 DEF Submit, notes, CutoverTyped
  <2>2. Begin(j, j) \/ UNCHANGED <<pc, using>>
    BY <1>5 DEF Submit
  <2>3. CASE UNCHANGED <<pc, using>>
    BY <2>1, <2>3 DEF ApprovalInv, Spent, At
  <2> QED BY <2>1, <2>2, <2>3, ApprovalOfBegin
<1>6. ASSUME NEW j \in Job, StartByHand(j) PROVE ApprovalInv'
  BY <1>6, ApprovalOfBegin DEF StartByHand, trust, notes
<1>7. ASSUME NEW j \in Job, Consume(j) PROVE ApprovalInv'
  <2>1. /\ pc[j] = "consume" /\ using[j] \in Job /\ UNCHANGED <<launch, using, flags>>
        /\ pc' \in {[pc EXCEPT ![j] = "snapshot"], [pc EXCEPT ![j] = "refused"]}
    BY <1>7 DEF Consume, Refuse, Goto, At, CutoverTyped, Busy, Ended, own, notes
  <2>2. CASE UNCHANGED approval
    <3>1. pc' = [pc EXCEPT ![j] = "refused"]
      BY <1>7, <2>1, <2>2 DEF Consume, Refuse, Goto, CutoverTyped
    <3> QED BY <2>1, <2>2, <3>1, ApprovalSame DEF Spent, At, CutoverTyped
  <2>3. CASE approval[using[j]] \in {"pending", "expired"} /\ approval' = [approval EXCEPT ![using[j]] = "consumed"]
    <3>1. \A k \in Job \ {j} : (Spent(k)' <=> Spent(k)) /\ (Spent(k) => using[k] # using[j])
      BY <2>1, <2>3 DEF ApprovalInv, Spent, CutoverTyped
    <3>2. /\ approval'[using[j]] = "consumed" /\ \A k \in Job : k # using[j] => approval'[k] = approval[k]
          /\ launch[using[j]] # "idle" /\ pc'[j] # "idle" /\ \A k \in Job \ {j} : pc'[k] = pc[k]
      BY <2>1, <2>3 DEF ApprovalInv, CutoverTyped
    <3> QED BY <2>1, <3>1, <3>2 DEF ApprovalInv, At
  <2> QED BY <1>7, <2>2, <2>3 DEF Consume
<1>8. ASSUME NEW j \in Job, Prune(j) PROVE ApprovalInv'
  BY <1>8, ApprovalSame DEF Prune, At, Goto, Spent, CutoverTyped, Ended, trust, own, notes
<1>9. ASSUME NEW j \in Job, Build(j) PROVE ApprovalInv'
  BY <1>9, ApprovalSame DEF Build, Fails, At, Goto, Spent, CutoverTyped, Ended, trust, own, notes
<1>10. ASSUME NEW j \in Job, Stage(j) PROVE ApprovalInv'
  BY <1>10, ApprovalSame DEF Stage, At, Goto, Spent, CutoverTyped, Ended, trust, own, notes
<1>11. ASSUME NEW j \in Job, Suspend(j) PROVE ApprovalInv'
  BY <1>11, ApprovalSame DEF Suspend, Fails, At, Goto, Spent, CutoverTyped, Ended, trust, own, notes
<1>12. ASSUME NEW j \in Job, Verify(j) PROVE ApprovalInv'
  BY <1>12, ApprovalSame DEF Verify, Refuse, At, Goto, Spent, CutoverTyped, Ended, trust, own, notes
<1>13. ASSUME NEW j \in Job, Snapshot(j) PROVE ApprovalInv'
  BY <1>13, ApprovalSame DEF Snapshot, Refuse, At, Goto, Spent, CutoverTyped, Ended, trust, own, notes
<1>14. ASSUME NEW j \in Job, Stop(j) PROVE ApprovalInv'
  BY <1>14, ApprovalSame DEF Stop, Rollback, At, Goto, Spent, CutoverTyped, Ended, trust, own, notes
<1>15. ASSUME NEW j \in Job, Retain(j) PROVE ApprovalInv'
  BY <1>15, ApprovalSame DEF Retain, Rollback, At, Goto, Spent, CutoverTyped, Ended, trust, own, notes
<1>16. ASSUME NEW j \in Job, Swap(j) PROVE ApprovalInv'
  BY <1>16, ApprovalSame DEF Swap, Rollback, Noted, CutOff, At, Goto, Spent, CutoverTyped, Ended, trust, own, notes
<1>17. ASSUME NEW j \in Job, CopyConfig(j) PROVE ApprovalInv'
  BY <1>17, ApprovalSame DEF CopyConfig, Rollback, Noted, CutOff, At, Goto, Spent, CutoverTyped, Ended, trust, own, notes
<1>18. ASSUME NEW j \in Job, Patch(j) PROVE ApprovalInv'
  BY <1>18, ApprovalSame DEF Patch, Rollback, At, Goto, Spent, CutoverTyped, Ended, trust, own, notes
<1>19. ASSUME NEW j \in Job, Project(j) PROVE ApprovalInv'
  BY <1>19, ApprovalSame DEF Project, Rollback, Noted, CutOff, At, Goto, Spent, CutoverTyped, Ended, trust, own, notes
<1>20. ASSUME NEW j \in Job, Switch(j) PROVE ApprovalInv'
  BY <1>20, ApprovalSame DEF Switch, Rollback, Noted, CutOff, At, Goto, Spent, CutoverTyped, Ended, trust, own, notes
<1>21. ASSUME NEW j \in Job, StartGateway(j) PROVE ApprovalInv'
  BY <1>21, ApprovalSame DEF StartGateway, Rollback, At, Goto, Spent, CutoverTyped, Ended, trust, own, notes
<1>22. ASSUME NEW j \in Job, Health(j) PROVE ApprovalInv'
  BY <1>22, ApprovalSame DEF Health, Rollback, At, Goto, Spent, CutoverTyped, Ended, trust, own, notes
<1>23. ASSUME NEW j \in Job, UndoStop(j) PROVE ApprovalInv'
  BY <1>23, ApprovalSame DEF UndoStop, At, Goto, Spent, CutoverTyped, Ended, trust, own, notes
<1>24. ASSUME NEW j \in Job, UndoWorkspace(j) PROVE ApprovalInv'
  BY <1>24, ApprovalSame DEF UndoWorkspace, At, Goto, Spent, CutoverTyped, Ended, trust, own, notes
<1>25. ASSUME NEW j \in Job, UndoConfig(j) PROVE ApprovalInv'
  BY <1>25, ApprovalSame DEF UndoConfig, At, Goto, Spent, CutoverTyped, Ended, trust, own, notes
<1>26. ASSUME NEW j \in Job, UndoPackage(j) PROVE ApprovalInv'
  BY <1>26, ApprovalSame DEF UndoPackage, At, Goto, Spent, CutoverTyped, Ended, trust, own, notes
<1>27. ASSUME NEW j \in Job, UndoLink(j) PROVE ApprovalInv'
  BY <1>27, ApprovalSame DEF UndoLink, At, Goto, Spent, CutoverTyped, Ended, trust, own, notes
<1>28. ASSUME NEW j \in Job, UndoStart(j) PROVE ApprovalInv'
  BY <1>28, ApprovalSame DEF UndoStart, At, Goto, Spent, CutoverTyped, Ended, trust, own, notes
<1>29. ASSUME NEW j \in Job, Kill(j) PROVE ApprovalInv'
  BY <1>29, ApprovalSame DEF Kill, Busy, At, Goto, Spent, CutoverTyped, Ended, trust, own, notes
<1> QED
  BY <1>1, <1>2, <1>3, <1>4, <1>5, <1>6, <1>7, <1>8, <1>9, <1>10, <1>11, <1>12, <1>13, <1>14, <1>15, <1>16, <1>17, <1>18, <1>19, <1>20, <1>21, <1>22, <1>23, <1>24, <1>25, <1>26, <1>27, <1>28, <1>29
  DEF CutoverNext, Launches, Prepares, Activates, Undoes

LEMMA WatchStep ==
  ASSUME CutoverTyped, WatchInv, [CutoverNext]_kvars
  PROVE  WatchInv'
<1>1. CASE UNCHANGED <<launch, wake, supervised>>
  BY <1>1 DEF WatchInv
<1>2. ASSUME NEW j \in Job, WriteApproval(j) \/ LauncherDies(j) PROVE WatchInv'
  BY <1>2 DEF WriteApproval, LauncherDies, own, WatchInv, CutoverTyped
<1>3. ASSUME NEW j \in Job, ScheduleWake(j) PROVE WatchInv'
  BY <1>3 DEF ScheduleWake, own, WatchInv, CutoverTyped
<1>4. ASSUME NEW j \in Job, Submit(j) PROVE WatchInv'
  BY <1>4 DEF Submit, own, WatchInv, CutoverTyped
<1>5. ASSUME NEW j \in Job, CancelWake(j) \/ Unlink(j) \/ TellFailure(j) PROVE WatchInv'
  BY <1>5 DEF CancelWake, Unlink, TellFailure, own, WatchInv, CutoverTyped
<1>6. ASSUME NEW j \in Job, Expire(j) PROVE WatchInv'
  BY <1>6, <1>1 DEF Expire, trust, own
<1>7. ASSUME NEW j \in Job, StartByHand(j) PROVE WatchInv'
  BY <1>7, <1>1 DEF StartByHand, trust, own
<1>8. ASSUME NEW j \in Job, Prune(j) PROVE WatchInv'
  BY <1>8, <1>1 DEF Prune, trust, own
<1>9. ASSUME NEW j \in Job, Build(j) PROVE WatchInv'
  BY <1>9, <1>1 DEF Build, Fails, trust, own
<1>10. ASSUME NEW j \in Job, Stage(j) PROVE WatchInv'
  BY <1>10, <1>1 DEF Stage, trust, own
<1>11. ASSUME NEW j \in Job, Suspend(j) PROVE WatchInv'
  BY <1>11, <1>1 DEF Suspend, Fails, trust, own
<1>12. ASSUME NEW j \in Job, Verify(j) PROVE WatchInv'
  BY <1>12, <1>1 DEF Verify, Refuse, trust, own
<1>13. ASSUME NEW j \in Job, Consume(j) PROVE WatchInv'
  BY <1>13, <1>1 DEF Consume, Refuse, trust, own
<1>14. ASSUME NEW j \in Job, Snapshot(j) PROVE WatchInv'
  BY <1>14, <1>1 DEF Snapshot, Refuse, trust, own
<1>15. ASSUME NEW j \in Job, Stop(j) PROVE WatchInv'
  BY <1>15, <1>1 DEF Stop, Rollback, trust, own
<1>16. ASSUME NEW j \in Job, Retain(j) PROVE WatchInv'
  BY <1>16, <1>1 DEF Retain, Rollback, trust, own
<1>17. ASSUME NEW j \in Job, Swap(j) PROVE WatchInv'
  BY <1>17, <1>1 DEF Swap, Rollback, Noted, CutOff, trust, own
<1>18. ASSUME NEW j \in Job, CopyConfig(j) PROVE WatchInv'
  BY <1>18, <1>1 DEF CopyConfig, Rollback, Noted, CutOff, trust, own
<1>19. ASSUME NEW j \in Job, Patch(j) PROVE WatchInv'
  BY <1>19, <1>1 DEF Patch, Rollback, trust, own
<1>20. ASSUME NEW j \in Job, Project(j) PROVE WatchInv'
  BY <1>20, <1>1 DEF Project, Rollback, Noted, CutOff, trust, own
<1>21. ASSUME NEW j \in Job, Switch(j) PROVE WatchInv'
  BY <1>21, <1>1 DEF Switch, Rollback, Noted, CutOff, trust, own
<1>22. ASSUME NEW j \in Job, StartGateway(j) PROVE WatchInv'
  BY <1>22, <1>1 DEF StartGateway, Rollback, trust, own
<1>23. ASSUME NEW j \in Job, Health(j) PROVE WatchInv'
  BY <1>23, <1>1 DEF Health, Rollback, trust, own
<1>24. ASSUME NEW j \in Job, UndoStop(j) PROVE WatchInv'
  BY <1>24, <1>1 DEF UndoStop, trust, own
<1>25. ASSUME NEW j \in Job, UndoWorkspace(j) PROVE WatchInv'
  BY <1>25, <1>1 DEF UndoWorkspace, trust, own
<1>26. ASSUME NEW j \in Job, UndoConfig(j) PROVE WatchInv'
  BY <1>26, <1>1 DEF UndoConfig, trust, own
<1>27. ASSUME NEW j \in Job, UndoPackage(j) PROVE WatchInv'
  BY <1>27, <1>1 DEF UndoPackage, trust, own
<1>28. ASSUME NEW j \in Job, UndoLink(j) PROVE WatchInv'
  BY <1>28, <1>1 DEF UndoLink, trust, own
<1>29. ASSUME NEW j \in Job, UndoStart(j) PROVE WatchInv'
  BY <1>29, <1>1 DEF UndoStart, trust, own
<1>30. ASSUME NEW j \in Job, Kill(j) PROVE WatchInv'
  BY <1>30, <1>1 DEF Kill, Busy, trust, own
<1> QED
  BY <1>1, <1>2, <1>3, <1>4, <1>5, <1>6, <1>7, <1>8, <1>9, <1>10, <1>11, <1>12, <1>13, <1>14, <1>15, <1>16, <1>17, <1>18, <1>19, <1>20, <1>21, <1>22, <1>23, <1>24, <1>25, <1>26, <1>27, <1>28, <1>29, <1>30
  DEF CutoverNext, Launches, Prepares, Activates, Undoes, kvars, trust, own

-----------------------------------------------------------------------------
(* What runs *)

\* What is known of the only job at work.
Follows(j) == Found /\ IF Busy(j) THEN Midway(j) ELSE Resting

LEMMA Onward ==
  ASSUME RuntimeInv, NEW j \in Job, Busy(j), clean' => clean, \A k \in Job \ {j} : pc'[k] = pc[k],
         clean' => Follows(j)'
  PROVE  RuntimeInv'
BY DEF RuntimeInv, Follows, Busy

\* What stands stands as long as the parts are what they were and what is adrift remains so.
LEMMA WholeSame ==
  ASSUME Whole, UNCHANGED <<link, config, workspace, package, pin, last>>, adrift \ {"gateway"} \subseteq adrift'
  PROVE  Whole'
BY DEF Whole, LinkFits, ConfigFits, WorkspaceFits, PackageFits, Loose, PinOf

LEMMA RestingSame ==
  ASSUME Resting, UNCHANGED <<live, pin, adrift, last>>
  PROVE  Resting'
BY WholeSame DEF Resting, live

LEMMA FoundSame ==
  ASSUME Found, UNCHANGED <<builds, last>>, adrift \ {"gateway"} \subseteq adrift'
  PROVE  Found'
BY DEF Found, OnDisk

\* Where everything is as it was, a job can be rolled back as before.
LEMMA KeptSame ==
  ASSUME NEW j \in Job, UNCHANGED <<link, config, workspace, package, pin, last>>, flags'[j] = flags[j], saved'[j] = saved[j],
         adrift \subseteq adrift'
  PROVE  /\ Kept(j) => Kept(j)'
         /\ PinOf(last)' = PinOf(last)
BY DEF Kept, LinkKept, ConfigKept, WorkspaceKept, PackageKept, Loose, PinOf

LEMMA RollsBack ==
  ASSUME CutoverTyped, NEW j \in Job, Rollback(j), Kept(j)', Found'
  PROVE  Follows(j)'
<1>1. pc'[j] = "undo"
  BY DEF Rollback, Goto, CutoverTyped
<1> QED BY <1>1 DEF Follows, Midway, Busy, At, Ended

LEMMA PruneFollows ==
  ASSUME CutoverTyped, NEW j \in Job, Prune(j), Found, Midway(j)
  PROVE  Follows(j)'
<1>1. Resting
  BY DEF Prune, At, Midway
<1>2. /\ pc'[j] \in {"build", "failed"} /\ UNCHANGED <<pin, live, adrift, last>>
      /\ UNCHANGED builds \/ builds' = Pruned(builds, {link})
  BY DEF Prune, Goto, CutoverTyped, own, disk
<1>3. OnDisk(last, builds) => last \in DOMAIN Pruned(builds, {last})
  BY DEF Pruned, OnDisk
<1>4. Found'
  BY <1>1, <1>2, <1>3 DEF Found, OnDisk, Resting, Whole, LinkFits
<1>5. Resting'
  BY <1>1, <1>2, RestingSame
<1> QED BY <1>2, <1>4, <1>5 DEF Follows, Midway, Busy, At, Ended

LEMMA BuildFollows ==
  ASSUME CutoverTyped, NEW j \in Job, Build(j), Found, Midway(j)
  PROVE  Follows(j)'
<1>1. Resting
  BY DEF Build, At, Midway
<1>2. pc'[j] \in {"stage", "failed"} /\ UNCHANGED <<pin, live, adrift, last>> /\ builds' \in {builds, Added(j, builds)}
  BY DEF Build, Fails, Goto, CutoverTyped, own, disk
<1>3. Found'
  BY <1>2 DEF Found, OnDisk, Added
<1>4. Resting'
  BY <1>1, <1>2, RestingSame
<1> QED BY <1>2, <1>3, <1>4 DEF Follows, Midway, Busy, At, Ended

LEMMA StageFollows ==
  ASSUME CutoverTyped, NEW j \in Job, Stage(j), Found, Midway(j)
  PROVE  Follows(j)'
<1>1. Resting
  BY DEF Stage, At, Midway
<1>2. pc'[j] \in {"suspend", "failed"} /\ UNCHANGED <<pin, live, adrift, last, builds>>
  BY DEF Stage, Goto, CutoverTyped, own
<1>3. Found' /\ Resting'
  BY <1>1, <1>2, RestingSame DEF Found, OnDisk
<1> QED BY <1>2, <1>3 DEF Follows, Midway, Busy, At, Ended

LEMMA SuspendFollows ==
  ASSUME CutoverTyped, NEW j \in Job, Suspend(j), Found, Midway(j)
  PROVE  Follows(j)'
<1>1. Resting
  BY DEF Suspend, At, Midway
<1>2. UNCHANGED <<pin, link, config, workspace, package, adrift, last, builds>>
  BY DEF Suspend, Fails, own, disk, live
<1>3. Found' /\ Whole'
  BY <1>1, <1>2, WholeSame, FoundSame DEF Resting
<1>4. \/ pc'[j] = "verify" /\ OnDisk(j, builds) /\ gateway' \in {gateway, "suspended"}
      \/ pc'[j] = "failed" /\ UNCHANGED gateway
  BY DEF Suspend, Fails, Goto, CutoverTyped, live
<1>5. CASE pc'[j] = "verify" /\ OnDisk(j, builds) /\ gateway' \in {gateway, "suspended"}
  <2>1. Guarded(j)'
    BY <1>1, <1>2, <1>3, <1>5 DEF Guarded, OnDisk, Resting
  <2> QED BY <1>3, <1>5, <2>1 DEF Follows, Midway, Busy, At, Ended
<1>6. CASE pc'[j] = "failed" /\ UNCHANGED gateway
  BY <1>1, <1>2, <1>3, <1>6 DEF Follows, Resting, Busy, Ended
<1> QED BY <1>4, <1>5, <1>6

\* The trap of the guarded stretch.
LEMMA RefuseFollows ==
  ASSUME CutoverTyped, NEW j \in Job, Refuse(j), Found, Guarded(j), UNCHANGED <<pin, builds, last>>
  PROVE  Follows(j)'
<1>1. pc'[j] = "refused" /\ UNCHANGED <<link, package, config, workspace>> /\ adrift \ {"gateway"} \subseteq adrift'
  BY DEF Refuse, Goto, CutoverTyped
<1>2. "gateway" \in adrift' \/ gateway' = "up"
  BY DEF Refuse, Guarded
<1>3. Resting' /\ Found'
  BY <1>1, <1>2, WholeSame, FoundSame DEF Guarded, Resting
<1> QED BY <1>1, <1>3 DEF Follows, Busy, Ended

LEMMA GuardFollows ==
  ASSUME CutoverTyped, NEW j \in Job, Verify(j) \/ Consume(j) \/ Snapshot(j), Found, Midway(j)
  PROVE  Follows(j)'
<1>1. Guarded(j)
  BY DEF Verify, Consume, Snapshot, At, Midway
<1>2. UNCHANGED <<pin, builds, last>>
  BY DEF Verify, Consume, Snapshot, own, disk
<1>3. CASE UNCHANGED <<live, adrift>>
  <2>1. Found' /\ Guarded(j)'
    BY <1>1, <1>2, <1>3, WholeSame, FoundSame DEF OnDisk, Guarded, live
  <2>2. CASE pc'[j] \in {"consume", "snapshot"}
    BY <2>1, <2>2 DEF Follows, Midway, Busy, At, Ended
  <2>3. CASE Snapshot(j) /\ pc'[j] = "stop"
    <3>1. /\ saved' = [saved EXCEPT ![j].link = link, ![j].config = config]
          /\ j \in stock' \/ PinOf(link).patches = pin[j].patches
      BY <2>3 DEF Snapshot, Refuse, Goto, CutoverTyped
    <3>2. saved'[j].link = link /\ saved'[j].config = config
      BY <3>1 DEF CutoverTyped, Backup
    <3>3. Snapped(j)'
      BY <1>1, <1>2, <1>3, <3>1, <3>2 DEF Snapped, Guarded, Whole, LinkFits, ConfigFits, PinOf
    <3> QED BY <2>1, <2>3, <3>3 DEF Follows, Midway, Busy, At, Ended
  <2>4. Refuse(j) \/ pc'[j] \in {"consume", "snapshot"} \/ (Snapshot(j) /\ pc'[j] = "stop")
    BY DEF Verify, Consume, Snapshot, Goto, CutoverTyped
  <2> QED BY <1>1, <1>2, <2>2, <2>3, <2>4, RefuseFollows
<1>4. CASE Refuse(j)
  BY <1>1, <1>2, <1>4, RefuseFollows
<1> QED BY <1>3, <1>4 DEF Verify, Consume, Snapshot

LEMMA StopFollows ==
  ASSUME CutoverTyped, NEW j \in Job, Stop(j), Found, Midway(j)
  PROVE  Follows(j)'
<1>1. Guarded(j) /\ Snapped(j)
  BY DEF Stop, At, Midway
<1>2. /\ UNCHANGED <<pin, builds, adrift, last, link, package, config, workspace, saved, stock>> /\ flags'[j] = {"started"}
      /\ pc'[j] = "install" \/ Rollback(j)
  BY DEF Stop, Goto, CutoverTyped, own, disk
<1>3. Found' /\ OnDisk(j, builds)' /\ Snapped(j)' /\ Whole'
  BY <1>1, <1>2, WholeSame, FoundSame DEF OnDisk, Guarded, Snapped, PinOf
<1>4. Kept(j)'
  BY <1>2, <1>3
  DEF Kept, LinkKept, ConfigKept, WorkspaceKept, PackageKept, Whole, LinkFits, ConfigFits, WorkspaceFits, PackageFits
<1> QED BY <1>2, <1>3, <1>4, RollsBack DEF Follows, Midway, Changing, Busy, At, Ended

LEMMA RetainFollows ==
  ASSUME CutoverTyped, NEW j \in Job, Retain(j), Found, Midway(j)
  PROVE  Follows(j)'
<1>1. Changing(j) /\ flags[j] = {"started"}
  BY DEF Retain, At, Midway
<1>2. UNCHANGED <<pin, builds, adrift, last, link, config, workspace, stock, flags>>
  BY DEF Retain, own, disk, notes
<1>3. Loose \/ package = PinOf(last)
  BY <1>1 DEF Changing, Kept, PackageKept
<1>4. Found' /\ OnDisk(j, builds)' /\ PinOf(last)' = PinOf(last) /\ (Loose' <=> Loose)
  BY <1>1, <1>2, FoundSame DEF OnDisk, Changing, PinOf, Loose
<1>5. CASE UNCHANGED <<package, saved>>
  <2>1. Kept(j)' /\ Snapped(j)'
    BY <1>1, <1>2, <1>4, <1>5, KeptSame DEF Changing, Snapped
  <2>2. CASE Rollback(j)
    BY <1>4, <2>1, <2>2, RollsBack
  <2>3. CASE package # None /\ package.version = pin[j].version /\ j \notin stock /\ pc'[j] = "config"
    <3>1. Loose \/ package.patches = pin[j].patches
      BY <1>1, <1>3, <2>3 DEF Changing, Snapped, Loose
    <3>2. Installed(j)'
      BY <1>2, <1>4, <1>5, <2>3, <3>1 DEF Installed
    <3> QED BY <1>1, <1>2, <1>4, <2>1, <2>3, <3>2 DEF Follows, Midway, Changing, Busy, At, Ended
  <2> QED BY <1>5, <2>2, <2>3 DEF Retain, Goto, CutoverTyped
<1>6. CASE pc'[j] = "swap" /\ saved' = [saved EXCEPT ![j].package = package] /\ package' = None
  <2>1. saved'[j].package = package /\ saved'[j].link = saved[j].link /\ saved'[j].config = saved[j].config
    BY <1>6 DEF CutoverTyped, Backup
  <2>2. Swapping(j)'
    BY <1>1, <1>2, <1>3, <1>4, <1>6, <2>1
    DEF Swapping, Changing, Snapped, Kept, LinkKept, ConfigKept, WorkspaceKept
  <2> QED BY <1>4, <1>6, <2>2 DEF Follows, Midway, Busy, At, Ended
<1> QED BY <1>5, <1>6 DEF Retain, Goto, CutoverTyped

LEMMA SwapFollows ==
  ASSUME CutoverTyped, NEW j \in Job, Swap(j), Found, Midway(j)
  PROVE  Follows(j)'
<1>1. Swapping(j)
  BY DEF Swap, At, Midway
<1>2. UNCHANGED <<pin, builds, last, link, config, workspace, stock>>
  BY DEF Swap, own, disk
<1>3. adrift \subseteq adrift'
  BY DEF Swap, Noted, CutOff
<1>4. Found' /\ OnDisk(j, builds)' /\ PinOf(last)' = PinOf(last)
  BY <1>1, <1>2, <1>3, FoundSame DEF OnDisk, Swapping, PinOf
<1>5. CASE package' = Stock(j) /\ Noted(j, "package", "config") /\ UNCHANGED saved
  <2>1. flags'[j] = {"started", "package"} /\ pc'[j] = "config" /\ UNCHANGED adrift
    BY <1>1, <1>5 DEF Noted, Goto, Swapping, CutoverTyped
  <2>2. Kept(j)' /\ Snapped(j)'
    BY <1>1, <1>2, <1>4, <1>5, <2>1
    DEF Swapping, Kept, LinkKept, ConfigKept, WorkspaceKept, PackageKept, Loose, Snapped
  <2>3. Installed(j)'
    BY <1>2, <1>5, <2>1 DEF Installed, Stock
  <2> QED BY <1>4, <2>1, <2>2, <2>3 DEF Follows, Midway, Changing, Busy, At, Ended
<1>6. CASE package' = saved[j].package /\ Rollback(j) /\ UNCHANGED <<flags, adrift>>
  <2>1. Kept(j)'
    BY <1>1, <1>2, <1>4, <1>6 DEF Swapping, Kept, LinkKept, ConfigKept, WorkspaceKept, PackageKept, Loose
  <2> QED BY <1>4, <1>6, <2>1, RollsBack
<1>7. CASE CutOff(j, "package")
  <2>1. Rollback(j) /\ "package" \in adrift' /\ UNCHANGED flags
    BY <1>7 DEF CutOff
  <2>2. Kept(j)'
    BY <1>1, <1>2, <1>3, <2>1 DEF Swapping, Kept, LinkKept, ConfigKept, WorkspaceKept, PackageKept, Loose
  <2> QED BY <1>4, <2>1, <2>2, RollsBack
<1> QED BY <1>1, <1>5, <1>6, <1>7 DEF Swap, Stock, Swapping

LEMMA CopyConfigFollows ==
  ASSUME CutoverTyped, NEW j \in Job, CopyConfig(j), Found, Midway(j)
  PROVE  Follows(j)'
<1>1. Changing(j) /\ Installed(j) /\ "workspace" \notin flags[j]
  BY DEF CopyConfig, At, Midway
<1>2. UNCHANGED <<pin, builds, last, link, package, workspace, stock, saved>> /\ adrift \subseteq adrift'
  BY DEF CopyConfig, Noted, CutOff, own, disk
<1>3. Found' /\ OnDisk(j, builds)' /\ PinOf(last)' = PinOf(last)
  BY <1>1, <1>2, FoundSame DEF OnDisk, Changing, PinOf
<1>4. CASE config' = j /\ Noted(j, "config", "patch")
  <2>1. flags'[j] = flags[j] \cup {"config"} /\ pc'[j] = "patch" /\ UNCHANGED adrift
    BY <1>4 DEF Noted, Goto, CutoverTyped
  <2>2. Kept(j)'
    BY <1>1, <1>2, <1>3, <2>1
    DEF Changing, Snapped, Kept, LinkKept, ConfigKept, WorkspaceKept, PackageKept, Loose
  <2>3. Snapped(j)' /\ Installed(j)'
    BY <1>1, <1>2, <1>3, <2>1 DEF Changing, Snapped, Installed, Loose
  <2> QED BY <1>1, <1>3, <1>4, <2>1, <2>2, <2>3 DEF Follows, Midway, Changing, Busy, At, Ended
<1>5. CASE CutOff(j, "config")
  <2>1. Rollback(j) /\ "config" \in adrift' /\ UNCHANGED flags
    BY <1>5 DEF CutOff
  <2>2. Kept(j)'
    BY <1>1, <1>2, <1>3, <2>1
    DEF Changing, Kept, LinkKept, ConfigKept, WorkspaceKept, PackageKept, Loose
  <2> QED BY <1>3, <2>1, <2>2, RollsBack
<1>6. CASE Rollback(j) /\ UNCHANGED <<config, flags, adrift>>
  BY <1>1, <1>2, <1>3, <1>6, KeptSame, RollsBack DEF Changing
<1> QED BY <1>4, <1>5, <1>6 DEF CopyConfig

LEMMA PatchFollows ==
  ASSUME CutoverTyped, NEW j \in Job, Patch(j), Found, Midway(j)
  PROVE  Follows(j)'
<1>1. Changing(j) /\ Installed(j) /\ config = j /\ "workspace" \notin flags[j]
  BY DEF Patch, At, Midway
<1>2. UNCHANGED <<pin, builds, adrift, last, link, config, workspace, flags, saved, stock>>
  BY DEF Patch, own, disk, notes
<1>3. Found' /\ OnDisk(j, builds)' /\ PinOf(last)' = PinOf(last) /\ (Loose' <=> Loose)
  BY <1>1, <1>2, FoundSame DEF OnDisk, Changing, PinOf, Loose
<1>4. CASE package # None /\ package' = [package EXCEPT !.patches = pin[j].patches] /\ pc'[j] = "project"
  <2>1. package.version = pin[j].version /\ pin[j] = [version |-> pin[j].version, patches |-> pin[j].patches]
    BY <1>1, PinTyped, CutoverAssumption DEF Installed, Pin
  <2>2. package = [version |-> package.version, patches |-> package.patches]
    BY <1>4 DEF CutoverTyped, Package
  <2>3. package' = pin[j]
    BY <1>4, <2>1, <2>2
  <2>4. Snapped(j)'
    BY <1>1, <1>2, <1>3 DEF Changing, Snapped
  <2>5. Loose \/ "package" \in flags[j] \/ package' = package
    BY <1>1, <2>1, <2>2, <2>3 DEF Installed
  <2>6. Kept(j)'
    BY <1>1, <1>2, <1>3, <2>5 DEF Changing, Kept, LinkKept, ConfigKept, WorkspaceKept, PackageKept
  <2> QED BY <1>1, <1>2, <1>3, <1>4, <2>3, <2>4, <2>6 DEF Follows, Midway, Changing, Busy, At, Ended
<1>5. CASE Rollback(j) /\ (package' = package \/ package.patches # pin[j].patches)
  <2>1. Loose \/ "package" \in flags[j] \/ package' = package
    BY <1>1, <1>5 DEF Installed
  <2>2. Kept(j)'
    BY <1>1, <1>2, <1>3, <2>1 DEF Changing, Kept, LinkKept, ConfigKept, WorkspaceKept, PackageKept
  <2> QED BY <1>3, <1>5, <2>2, RollsBack
<1> QED BY <1>4, <1>5 DEF Patch, Goto, CutoverTyped

LEMMA ProjectFollows ==
  ASSUME CutoverTyped, NEW j \in Job, Project(j), Found, Midway(j)
  PROVE  Follows(j)'
<1>1. Changing(j) /\ package = pin[j] /\ config = j /\ "workspace" \notin flags[j]
  BY DEF Project, At, Midway
<1>2. UNCHANGED <<pin, builds, last, link, package, config, stock>> /\ adrift \subseteq adrift'
  BY DEF Project, Noted, CutOff, own, disk
<1>3. Found' /\ OnDisk(j, builds)' /\ PinOf(last)' = PinOf(last)
  BY <1>1, <1>2, FoundSame DEF OnDisk, Changing, PinOf
<1>4. saved' = [saved EXCEPT ![j].workspace = workspace] =>
        /\ saved'[j].workspace = workspace /\ saved'[j].link = saved[j].link
        /\ saved'[j].config = saved[j].config /\ saved'[j].package = saved[j].package
  BY DEF CutoverTyped, Backup
<1>5. CASE workspace' = j /\ saved' = [saved EXCEPT ![j].workspace = workspace] /\ Noted(j, "workspace", "switch")
  <2>1. flags'[j] = flags[j] \cup {"workspace"} /\ pc'[j] = "switch" /\ UNCHANGED adrift
    BY <1>5 DEF Noted, Goto, CutoverTyped
  <2>2. Snapped(j)' /\ LinkKept(j)' /\ ConfigKept(j)' /\ PackageKept(j)'
    BY <1>1, <1>2, <1>3, <1>4, <1>5, <2>1 DEF Changing, Snapped, Kept, LinkKept, ConfigKept, PackageKept, Loose
  <2>3. WorkspaceKept(j)'
    BY <1>1, <1>2, <1>4, <1>5, <2>1 DEF Changing, Kept, WorkspaceKept
  <2> QED BY <1>1, <1>2, <1>3, <1>5, <2>1, <2>2, <2>3 DEF Follows, Midway, Changing, Kept, Busy, At, Ended
<1>6. CASE CutOff(j, "workspace") /\ (UNCHANGED saved \/ saved' = [saved EXCEPT ![j].workspace = workspace])
  <2>1. Rollback(j) /\ "workspace" \in adrift' /\ UNCHANGED flags
    BY <1>6 DEF CutOff
  <2>2. saved'[j].link = saved[j].link /\ saved'[j].config = saved[j].config /\ saved'[j].package = saved[j].package
    BY <1>4, <1>6
  <2>3. Kept(j)'
    BY <1>1, <1>2, <1>3, <2>1, <2>2
    DEF Changing, Kept, LinkKept, ConfigKept, WorkspaceKept, PackageKept, Loose
  <2> QED BY <1>3, <2>1, <2>3, RollsBack
<1>7. CASE Rollback(j) /\ UNCHANGED <<workspace, saved, flags, adrift>>
  BY <1>1, <1>2, <1>3, <1>7, KeptSame, RollsBack DEF Changing
<1> QED BY <1>5, <1>6, <1>7 DEF Project

LEMMA SwitchFollows ==
  ASSUME CutoverTyped, NEW j \in Job, Switch(j), Found, Midway(j)
  PROVE  Follows(j)'
<1>1. Changing(j) /\ package = pin[j] /\ config = j /\ workspace = j
  BY DEF Switch, At, Midway
<1>2. UNCHANGED <<pin, builds, last, package, config, workspace, stock, saved>> /\ adrift \subseteq adrift'
  BY DEF Switch, Noted, CutOff, own, disk
<1>3. Found' /\ OnDisk(j, builds)' /\ PinOf(last)' = PinOf(last)
  BY <1>1, <1>2, FoundSame DEF OnDisk, Changing, PinOf
<1>4. CASE link' = j /\ Noted(j, "runtime", "start")
  <2>1. flags'[j] = flags[j] \cup {"runtime"} /\ pc'[j] = "start" /\ UNCHANGED adrift
    BY <1>4 DEF Noted, Goto, CutoverTyped
  <2>2. Kept(j)' /\ Snapped(j)'
    BY <1>1, <1>2, <1>3, <2>1
    DEF Changing, Snapped, Kept, LinkKept, ConfigKept, WorkspaceKept, PackageKept, Loose
  <2> QED BY <1>1, <1>2, <1>3, <1>4, <2>1, <2>2 DEF Follows, Midway, Changing, Busy, At, Ended
<1>5. CASE CutOff(j, "link")
  <2>1. Rollback(j) /\ "link" \in adrift' /\ UNCHANGED flags
    BY <1>5 DEF CutOff
  <2>2. Kept(j)'
    BY <1>1, <1>2, <1>3, <2>1
    DEF Changing, Kept, LinkKept, ConfigKept, WorkspaceKept, PackageKept, Loose
  <2> QED BY <1>3, <2>1, <2>2, RollsBack
<1>6. CASE Rollback(j) /\ UNCHANGED <<link, flags, adrift>>
  BY <1>1, <1>2, <1>3, <1>6, KeptSame, RollsBack DEF Changing
<1> QED BY <1>4, <1>5, <1>6 DEF Switch

\* The last two steps change the gateway only, and end the cutover.
LEMMA StartFollows ==
  ASSUME CutoverTyped, NEW j \in Job, StartGateway(j) \/ Health(j), Found, Midway(j)
  PROVE  Follows(j)'
<1>1. Changing(j) /\ package = pin[j] /\ config = j /\ workspace = j /\ link = j
  BY DEF StartGateway, Health, At, Midway
<1>2. UNCHANGED <<pin, builds, package, config, workspace, link, stock, saved, flags>>
  BY DEF StartGateway, Health, own, disk, live, notes
<1>3. CASE UNCHANGED <<last, adrift>> /\ (pc'[j] = "health" \/ Rollback(j))
  <2>1. Found' /\ Kept(j)' /\ Snapped(j)' /\ OnDisk(j, builds)'
    BY <1>1, <1>2, <1>3, KeptSame, FoundSame DEF OnDisk, Changing, Snapped, PinOf
  <2>2. CASE pc'[j] = "health"
    BY <1>1, <1>2, <2>1, <2>2 DEF Follows, Midway, Changing, Busy, At, Ended
  <2>3. CASE Rollback(j)
    BY <2>1, <2>3, RollsBack
  <2> QED BY <1>3, <2>2, <2>3
<1>4. CASE pc'[j] = "active" /\ last' = j /\ gateway' = "up"
  <2>1. Resting' /\ Found'
    BY <1>1, <1>2, <1>4
    DEF Resting, Whole, LinkFits, ConfigFits, WorkspaceFits, PackageFits, PinOf, Found, OnDisk, Changing
  <2> QED BY <1>4, <2>1 DEF Follows, Busy, Ended
<1> QED BY <1>3, <1>4 DEF StartGateway, Health, Goto, CutoverTyped, live

\* The rollback, one step after the other: what fails in it leaves a part adrift.
LEMMA UndoFollows ==
  ASSUME CutoverTyped, NEW j \in Job, Undoes(j), Found, Midway(j)
  PROVE  Follows(j)'
<1>1. UNCHANGED <<pin, builds, last, saved, flags>> /\ adrift \ {"gateway"} \subseteq adrift'
  BY DEF Undoes, UndoStop, UndoWorkspace, UndoConfig, UndoPackage, UndoLink, UndoStart, Unfit, own, disk, notes
<1>2. Found' /\ PinOf(last)' = PinOf(last) /\ (Loose => Loose')
  BY <1>1, FoundSame DEF PinOf, Loose
<1>3. CASE UndoStop(j)
  <2>1. Kept(j) /\ pc'[j] = "undo_workspace" /\ UNCHANGED <<link, package, config, workspace, adrift>>
    BY <1>3 DEF UndoStop, At, Goto, Midway, CutoverTyped
  <2>2. Kept(j)'
    BY <1>1, <2>1, KeptSame
  <2> QED BY <1>2, <2>1, <2>2 DEF Follows, Midway, Busy, At, Ended
<1>4. CASE UndoWorkspace(j)
  <2>1. Kept(j) /\ pc'[j] = "undo_config" /\ UNCHANGED <<link, package, config>>
        /\ ("workspace" \in adrift' \/ workspace' = (IF "workspace" \in flags[j] THEN saved[j].workspace ELSE workspace))
    BY <1>4 DEF UndoWorkspace, Unfit, At, Goto, Midway, CutoverTyped
  <2>2. WorkspaceFits' /\ LinkKept(j)' /\ ConfigKept(j)' /\ PackageKept(j)'
    BY <1>1, <1>2, <2>1 DEF Kept, LinkKept, ConfigKept, WorkspaceKept, PackageKept, WorkspaceFits
  <2> QED BY <1>2, <2>1, <2>2 DEF Follows, Midway, Busy, At, Ended
<1>5. CASE UndoConfig(j)
  <2>1. WorkspaceFits /\ LinkKept(j) /\ ConfigKept(j) /\ PackageKept(j) /\ pc'[j] = "undo_package"
        /\ UNCHANGED <<link, package, workspace>>
        /\ ("config" \in adrift' \/ config' = (IF "config" \in flags[j] THEN saved[j].config ELSE config))
    BY <1>5 DEF UndoConfig, Unfit, At, Goto, Midway, CutoverTyped
  <2>2. WorkspaceFits' /\ ConfigFits' /\ LinkKept(j)' /\ PackageKept(j)'
    BY <1>1, <1>2, <2>1 DEF LinkKept, ConfigKept, PackageKept, WorkspaceFits, ConfigFits
  <2> QED BY <1>2, <2>1, <2>2 DEF Follows, Midway, Busy, At, Ended
<1>6. CASE UndoPackage(j)
  <2>1. WorkspaceFits /\ ConfigFits /\ LinkKept(j) /\ PackageKept(j) /\ pc'[j] = "undo_link"
        /\ UNCHANGED <<link, config, workspace>>
        /\ ("package" \in adrift' \/ package' = (IF "package" \in flags[j] THEN saved[j].package ELSE package))
    BY <1>6 DEF UndoPackage, Unfit, At, Goto, Midway, CutoverTyped
  <2>2. WorkspaceFits' /\ ConfigFits' /\ PackageFits' /\ LinkKept(j)'
    BY <1>1, <1>2, <2>1 DEF LinkKept, PackageKept, WorkspaceFits, ConfigFits, PackageFits, Loose
  <2> QED BY <1>2, <2>1, <2>2 DEF Follows, Midway, Busy, At, Ended
<1>7. CASE UndoLink(j)
  <2>1. WorkspaceFits /\ ConfigFits /\ PackageFits /\ LinkKept(j) /\ pc'[j] = "undo_start"
        /\ UNCHANGED <<package, config, workspace>>
        /\ ("link" \in adrift' \/ link' = (IF "runtime" \in flags[j] THEN saved[j].link ELSE link))
    BY <1>7 DEF UndoLink, Unfit, At, Goto, Midway, CutoverTyped
  <2>2. Whole'
    BY <1>1, <1>2, <2>1 DEF LinkKept, Whole, LinkFits, ConfigFits, WorkspaceFits, PackageFits
  <2> QED BY <1>2, <2>1, <2>2 DEF Follows, Midway, Busy, At, Ended
<1>8. CASE UndoStart(j)
  <2>1. Whole /\ pc'[j] = "rolledback" /\ UNCHANGED <<link, package, config, workspace>>
        /\ ("gateway" \in adrift' \/ gateway' = "up")
    BY <1>8 DEF UndoStart, Unfit, At, Goto, Midway, CutoverTyped
  <2>2. Resting'
    BY <1>1, <2>1, WholeSame DEF Resting
  <2> QED BY <1>2, <2>1, <2>2 DEF Follows, Busy, Ended
<1> QED BY <1>3, <1>4, <1>5, <1>6, <1>7, <1>8 DEF Undoes

LEMMA KillFollows ==
  ASSUME CutoverTyped, NEW j \in Job, Kill(j), Found, Midway(j), clean'
  PROVE  Follows(j)'
<1>1. pc'[j] = "dead" /\ pc[j] \in {"prune", "build", "stage"} /\ UNCHANGED <<pin, builds, adrift, last, live>>
  BY DEF Kill, Goto, CutoverTyped, own, disk
<1>2. Resting
  BY <1>1 DEF Midway
<1>3. Resting' /\ Found'
  BY <1>1, <1>2, RestingSame, FoundSame
<1> QED BY <1>1, <1>3 DEF Follows, Busy, Ended

\* What one action of a job at work does.
LEMMA JobFollows ==
  ASSUME CutoverTyped, NEW j \in Job, Prepares(j) \/ Activates(j) \/ Undoes(j) \/ Kill(j),
         Found, Midway(j), clean'
  PROVE  Follows(j)'
BY PruneFollows, BuildFollows, StageFollows, SuspendFollows, GuardFollows, StopFollows, RetainFollows, SwapFollows,
   CopyConfigFollows, PatchFollows, ProjectFollows, SwitchFollows, StartFollows, UndoFollows, KillFollows
DEF Prepares, Activates

LEMMA JobWorks ==
  ASSUME CutoverTyped, NEW j \in Job, Prepares(j) \/ Activates(j) \/ Undoes(j) \/ Kill(j)
  PROVE  Busy(j) /\ (clean' => clean) /\ \A k \in Job \ {j} : pc'[k] = pc[k]
<1> USE DEF Busy, Ended, At, Goto, CutoverTyped
<1>1. CASE Prepares(j)
  BY <1>1 DEF Prepares, Prune, Build, Stage, Fails
<1>2. CASE Suspend(j) \/ Verify(j) \/ Consume(j) \/ Snapshot(j)
  BY <1>2 DEF Suspend, Verify, Consume, Snapshot, Fails, Refuse
<1>3. CASE Stop(j) \/ Retain(j) \/ Swap(j) \/ CopyConfig(j)
  BY <1>3 DEF Stop, Retain, Swap, CopyConfig, Rollback, Noted, CutOff
<1>4. CASE Patch(j) \/ Project(j) \/ Switch(j) \/ StartGateway(j) \/ Health(j)
  BY <1>4 DEF Patch, Project, Switch, StartGateway, Health, Rollback, Noted, CutOff
<1>5. CASE Undoes(j)
  BY <1>5 DEF Undoes, UndoStop, UndoWorkspace, UndoConfig, UndoPackage, UndoLink, UndoStart
<1>6. CASE Kill(j)
  BY <1>6 DEF Kill
<1> QED BY <1>1, <1>2, <1>3, <1>4, <1>5, <1>6 DEF Activates

\* A job begins where nobody is at work, or nothing is claimed any more.
LEMMA BeginFollows ==
  ASSUME CutoverTyped, RuntimeInv, NEW j \in Job, NEW a \in Job, Begin(j, a), UNCHANGED <<pin, disk, live, adrift, last>>
  PROVE  RuntimeInv'
<1>1. pc' = [pc EXCEPT ![j] = "prune"] /\ pc[j] = "idle" /\ (clean' <=> clean /\ \A k \in Job : ~Busy(k))
  BY DEF Begin, At, Goto, CutoverTyped
<1>2. SUFFICES ASSUME clean' PROVE Found' /\ Midway(j)' /\ \A k \in Job \ {j} : ~Busy(k)'
  BY <1>1 DEF RuntimeInv, Busy, Ended, CutoverTyped
<1>3. Found /\ Resting /\ \A k \in Job : ~Busy(k)
  BY <1>1, <1>2 DEF RuntimeInv
<1>4. Found' /\ Resting'
  BY <1>3, RestingSame, FoundSame DEF disk
<1>5. pc'[j] = "prune" /\ \A k \in Job \ {j} : pc'[k] = pc[k]
  BY <1>1 DEF CutoverTyped
<1> QED BY <1>3, <1>4, <1>5 DEF Midway, Busy, At

LEMMA RuntimeSame ==
  ASSUME RuntimeInv, UNCHANGED <<pc, pin, disk, live, notes, clean, adrift, last>>
  PROVE  RuntimeInv'
<1> USE DEF disk, live, notes
<1>1. \A j \in Job : (Busy(j)' <=> Busy(j)) /\ (Midway(j) => Midway(j)')
  BY DEF Busy, Midway, At, Guarded, Changing, Swapping, Installed, Stock, Snapped, Kept, LinkKept, ConfigKept,
         WorkspaceKept, PackageKept, Resting, Whole, LinkFits, ConfigFits, WorkspaceFits, PackageFits, Loose, PinOf, OnDisk
<1>2. (Resting => Resting') /\ (Found => Found')
  BY RestingSame, FoundSame
<1> QED BY <1>1, <1>2 DEF RuntimeInv

LEMMA RuntimeStep ==
  ASSUME CutoverTyped, RuntimeInv, [CutoverNext]_kvars
  PROVE  RuntimeInv'
<1>1. CASE UNCHANGED kvars
  BY <1>1, RuntimeSame DEF kvars, own
<1>2. ASSUME NEW j \in Job, Launches(j) PROVE RuntimeInv'
  <2>1. CASE WriteApproval(j) \/ ScheduleWake(j) \/ CancelWake(j) \/ Unlink(j) \/ TellFailure(j)
              \/ LauncherDies(j) \/ Expire(j)
    BY <2>1, RuntimeSame
    DEF WriteApproval, ScheduleWake, CancelWake, Unlink, TellFailure, LauncherDies, Expire, own
  <2>2. CASE Submit(j)
    BY <2>2, BeginFollows, RuntimeSame DEF Submit
  <2>3. CASE StartByHand(j)
    BY <2>3, BeginFollows DEF StartByHand
  <2> QED BY <1>2, <2>1, <2>2, <2>3 DEF Launches
<1>3. ASSUME NEW j \in Job, Prepares(j) \/ Activates(j) \/ Undoes(j) \/ Kill(j) PROVE RuntimeInv'
  <2>1. Busy(j) /\ (clean' => clean) /\ \A k \in Job \ {j} : pc'[k] = pc[k]
    BY <1>3, JobWorks
  <2>2. clean' => Found /\ Midway(j)
    BY <2>1 DEF RuntimeInv
  <2> QED BY <1>3, <2>1, <2>2, JobFollows, Onward
<1> QED BY <1>1, <1>2, <1>3 DEF CutoverNext

-----------------------------------------------------------------------------
(* The inductive invariant, and what follows from it *)

LEMMA CutoverBegins == CutoverInit => CutoverInv
<1> SUFFICES ASSUME CutoverInit PROVE CutoverInv
  OBVIOUS
<1>1. BasePin \in Package /\ BasePin \in Pin
  BY CutoverAssumption DEF Package, Pin
<1>2. Nothing \in Backup
  BY DEF Nothing, Backup, Source, Package
<1>3. CutoverTyped
  <2>1. launch = [j \in Job |-> "idle"] /\ pc = [j \in Job |-> "idle"] /\ \A j \in Job : ~Busy(j)
    BY DEF CutoverInit, Busy
  <2>2. clean \in BOOLEAN
    BY DEF CutoverInit
  <2>3. saved \in [Job -> Backup] /\ package \in Package
    BY <1>1, <1>2 DEF CutoverInit
  <2> QED BY <2>1, <2>2, <2>3 DEF CutoverInit, CutoverTyped, Place, Ended, Source
<1>4. ApprovalInv /\ WatchInv
  BY DEF CutoverInit, ApprovalInv, WatchInv, Spent, At
<1>5. RuntimeInv
  <2>1. Resting /\ Found /\ \A j \in Job : ~Busy(j)
    BY CutoverAssumption
    DEF CutoverInit, Resting, Whole, LinkFits, ConfigFits, WorkspaceFits, PackageFits, PinOf, Found, OnDisk, Added, Busy
  <2> QED BY <2>1 DEF RuntimeInv
<1> QED BY <1>3, <1>4, <1>5 DEF CutoverInv

\* No step of a launcher, of a job or of the clock breaks the invariant, with any number of jobs in any
\* order, every command failing before or after its effect, those of a rollback too.
THEOREM CutoverInductive == CutoverSpec => []CutoverInv
<1>1. CutoverInv /\ [CutoverNext]_kvars => CutoverInv'
  BY CutoverTypedStep, ApprovalStep, WatchStep, RuntimeStep DEF CutoverInv
<1> QED BY <1>1, CutoverBegins, PTL DEF CutoverSpec

\* An approval lets one job stop the gateway, whoever else was started with its file and has verified it:
\* the job that renames the file first spends it, and the rename of a second one fails
\* (runtime-restart-guard.sh:122).
THEOREM SpentOnce == CutoverSpec => []ApprovalIsSpentOnce
<1>1. CutoverInv => ApprovalIsSpentOnce
  BY DEF CutoverInv, ApprovalInv, Spent, ApprovalIsSpentOnce
<1> QED BY <1>1, CutoverInductive, PTL

\* A job that its launcher submitted has a check scheduled, whatever becomes of the launcher, until the
\* launcher of a failed launch has cancelled it: then only what the launcher tells remains
\* (deploy-once.py:162-173).
THEOREM Watched == CutoverSpec => []CutoverIsWatched
<1>1. CutoverInv => CutoverIsWatched
  BY DEF CutoverInv, CutoverTyped, WatchInv, CutoverIsWatched
<1> QED BY <1>1, CutoverInductive, PTL

\* After any number of cutovers that did not meet and were not killed, each of which failed in any step and
\* was rolled back as far as the commands of the rollback worked, everything that runs is of the build
\* activated last, which prune has kept, but for the parts left adrift since (openclaw-cutover.sh:18-19).
THEOREM OneBuildRuns == CutoverSpec => []OneRuntime
<1>1. CutoverInv => OneRuntime
  BY DEF CutoverInv, RuntimeInv, Resting, Whole, LinkFits, ConfigFits, WorkspaceFits, PackageFits, Loose, Found, OneRuntime
<1> QED BY <1>1, CutoverInductive, PTL
=============================================================================
