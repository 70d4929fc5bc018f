---------------------------- MODULE GatewayProofs -----------------------------
(***************************************************************************)
(* Proofs about the parts of the run-signature plugin, for any number of   *)
(* runs, closes, hooks, sessions and calls of the tool.                    *)
(***************************************************************************)
EXTENDS ThreadLifecycle, RunSignature, WorkThread, TLAPS

(* What the ledger of a thread and its close reports show *)

Steps == {"idle", "write", "recorded", "failed", "view", "complete", "post", "closed", "journaled", "lost"}

\* Every variable has its type.
TicketsTyped ==
  /\ phase \in [Run -> {"new", "live", "over"}]
  /\ runs \subseteq Run /\ latest \in Run \cup {"none", "close"}
  /\ clock \in Nat /\ at \in [Ticket -> Nat] /\ step \in [Ticket -> Steps]
  /\ ledger \subseteq Ticket \cup Report /\ view \subseteq Closing /\ posted \subseteq Closing

\* A run is admitted between its two events, and each event is made once.
PhaseInv ==
  \A r \in Run : /\ phase[r] = "live" <=> r \in runs
                 /\ phase[r] = "new" => step[<<r, "working">>] = "idle"
                 /\ phase[r] # "over" => step[<<r, "act">>] = "idle"

\* Time stamps tell events apart.
StampInv ==
  /\ \A t \in Ticket : at[t] <= clock /\ (at[t] = 0 <=> step[t] = "idle")
  /\ \A t, u \in Ticket : at[t] = at[u] /\ at[t] # 0 => t = u

\* The last event made is of the latest admission, and its handler was not lost.
LatestInv ==
  /\ latest # "none" => clock > 0 /\ \E t \in Ticket : at[t] = clock /\ Owner(t) = latest /\ step[t] # "lost"
  /\ \A r \in runs : latest = r => at[<<r, "working">>] = clock

\* Between the two events of a run nothing was made.
WindowInv ==
  \A r \in Run : at[<<r, "act">>] # 0 =>
    \A u \in Ticket : ~(at[<<r, "working">>] < at[u] /\ at[u] < at[<<r, "act">>])

\* The ledger holds exactly what was written, or was written before a restart.
LedgerInv ==
  \A t \in Ticket :
    /\ t \in ledger => step[t] \notin {"idle", "write", "failed"}
    /\ step[t] \notin {"idle", "write", "failed", "lost"} => t \in ledger

\* A report gets on record before it is posted.
ReportInv ==
  \A c \in Closing :
    /\ step[<<c, "closed">>] \in {"complete", "post"} => c \in view
    /\ step[<<c, "closed">>] = "post" => <<c, "completed">> \in ledger

LifecycleInv ==
  TicketsTyped /\ PhaseInv /\ StampInv /\ LatestInv /\ WindowInv /\ LedgerInv /\ ReportInv /\ ReportIsRecorded

-----------------------------------------------------------------------------
LEMMA Tickets ==
  /\ \A r \in Run : /\ <<r, "working">> \in Ticket /\ <<r, "act">> \in Ticket
                    /\ Owner(<<r, "working">>) = r /\ Owner(<<r, "act">>) = r
  /\ \A c \in Closing : <<c, "closed">> \in Ticket /\ Owner(<<c, "closed">>) = "close"
  /\ \A c \in Closing : <<c, "completed">> \notin Ticket
  /\ \A t \in Ticket : \/ \E r \in Run : t = <<r, "working">> \/ t = <<r, "act">>
                       \/ \E c \in Closing : t = <<c, "closed">>
  BY DEF Ticket, Owner

LEMMA LifecycleBegins == LifecycleInit => LifecycleInv
  BY LifecycleAssumption, Tickets
  DEF LifecycleInit, LifecycleInv, TicketsTyped, Steps, PhaseInv, StampInv, LatestInv, WindowInv, LedgerInv, ReportInv,
      ReportIsRecorded

\* An event made by the latest admission keeps the stamps, the windows and the ledger in order.
LEMMA Recording ==
  ASSUME LifecycleInv, NEW t \in Ticket, step[t] = "idle", Record(t), ledger' = ledger,
         \A r \in Run : t = <<r, "working">> => at[<<r, "act">>] = 0,
         \A r \in Run : t = <<r, "act">> => at[<<r, "working">>] = clock
  PROVE  /\ clock' \in Nat /\ at' \in [Ticket -> Nat] /\ step' \in [Ticket -> Steps]
         /\ StampInv' /\ WindowInv' /\ LedgerInv'
         /\ clock' > 0 /\ at'[t] = clock' /\ step'[t] = "write"
         /\ \A u \in Ticket : u # t => at'[u] = at[u] /\ step'[u] = step[u]
<1>1. /\ clock' \in Nat /\ at' \in [Ticket -> Nat] /\ step' \in [Ticket -> Steps]
      /\ clock' = clock + 1 /\ clock' > 0 /\ at'[t] = clock' /\ step'[t] = "write"
      /\ \A u \in Ticket : u # t => at'[u] = at[u] /\ step'[u] = step[u]
  BY DEF LifecycleInv, TicketsTyped, Record, Steps
<1>2. StampInv'
  BY <1>1 DEF LifecycleInv, TicketsTyped, StampInv
<1>3. WindowInv'
  <2> SUFFICES ASSUME NEW r \in Run, at'[<<r, "act">>] # 0, NEW u \in Ticket
               PROVE  ~(at'[<<r, "working">>] < at'[u] /\ at'[u] < at'[<<r, "act">>])
    BY DEF WindowInv
  <2>1. /\ <<r, "act">> \in Ticket /\ <<r, "working">> \in Ticket /\ <<r, "act">> # <<r, "working">>
        /\ \A v \in Ticket : at[v] \in Nat /\ at[v] <= clock
    BY Tickets DEF LifecycleInv, TicketsTyped, StampInv
  <2>2. CASE t = <<r, "act">>
    BY <1>1, <2>1, <2>2 DEF LifecycleInv, TicketsTyped
  <2>3. CASE t = <<r, "working">>
    BY <1>1, <2>1, <2>3
  <2>4. CASE t # <<r, "act">> /\ t # <<r, "working">>
    BY <1>1, <2>1, <2>4 DEF LifecycleInv, TicketsTyped, WindowInv
  <2> QED BY <2>2, <2>3, <2>4
<1>4. LedgerInv'
  BY <1>1 DEF LifecycleInv, LedgerInv
<1> QED BY <1>1, <1>2, <1>3, <1>4

LEMMA Starting == ASSUME LifecycleInv, NEW r \in Run, Start(r) PROVE LifecycleInv'
<1> DEFINE t == <<r, "working">>
<1>1. /\ t \in Ticket /\ Owner(t) = r /\ <<r, "act">> \in Ticket /\ phase[r] = "new"
      /\ step[t] = "idle" /\ at[<<r, "act">>] = 0
  BY Tickets DEF LifecycleInv, TicketsTyped, PhaseInv, StampInv, Start
<1>2. /\ \A s \in Run : t = <<s, "working">> => at[<<s, "act">>] = 0
      /\ \A s \in Run : t = <<s, "act">> => at[<<s, "working">>] = clock
  BY <1>1
<1>3. Record(t) /\ ledger' = ledger /\ view' = view /\ posted' = posted
  BY DEF Start
<1> HIDE DEF t
<1>4. /\ clock' \in Nat /\ at' \in [Ticket -> Nat] /\ step' \in [Ticket -> Steps]
      /\ StampInv' /\ WindowInv' /\ LedgerInv'
      /\ clock' > 0 /\ at'[t] = clock' /\ step'[t] = "write"
      /\ \A u \in Ticket : u # t => at'[u] = at[u] /\ step'[u] = step[u]
  BY <1>1, <1>2, <1>3, Recording
<1>5. TicketsTyped'
  BY <1>3, <1>4 DEF LifecycleInv, TicketsTyped, Start
<1>6. PhaseInv'
  <2> SUFFICES ASSUME NEW s \in Run
               PROVE  /\ phase'[s] = "live" <=> s \in runs'
                      /\ phase'[s] = "new" => step'[<<s, "working">>] = "idle"
                      /\ phase'[s] # "over" => step'[<<s, "act">>] = "idle"
    BY DEF PhaseInv
  <2>1. /\ <<s, "working">> \in Ticket /\ <<s, "act">> \in Ticket /\ <<s, "act">> # t
        /\ s # r => <<s, "working">> # t
    BY Tickets DEF t
  <2>2. CASE s = r
    BY <1>1, <1>4, <2>1, <2>2 DEF LifecycleInv, TicketsTyped, PhaseInv, Start
  <2>3. CASE s # r
    BY <1>4, <2>1, <2>3 DEF LifecycleInv, TicketsTyped, PhaseInv, Start
  <2> QED BY <2>2, <2>3
<1>7. LatestInv'
  BY <1>1, <1>4, Tickets, LifecycleAssumption DEF t, LifecycleInv, TicketsTyped, LatestInv, Start
<1>8. ReportInv' /\ ReportIsRecorded'
  BY <1>1, <1>3, <1>4, Tickets DEF t, LifecycleInv, TicketsTyped, ReportInv, ReportIsRecorded
<1> QED BY <1>4, <1>5, <1>6, <1>7, <1>8 DEF LifecycleInv

LEMMA Ending == ASSUME LifecycleInv, NEW r \in Run, End(r) PROVE LifecycleInv'
<1> DEFINE t == <<r, "act">>
<1>1. /\ t \in Ticket /\ Owner(t) = r /\ step[t] = "idle"
      /\ view' = view /\ posted' = posted /\ ledger' = ledger /\ latest' = latest
  BY Tickets DEF LifecycleInv, TicketsTyped, PhaseInv, End
<1>2. CASE latest = r
  <2>1. Record(t) /\ at[<<r, "working">>] = clock
    BY <1>2 DEF End, Settle, LifecycleInv, LatestInv
  <2>2. /\ \A s \in Run : t = <<s, "working">> => at[<<s, "act">>] = 0
        /\ \A s \in Run : t = <<s, "act">> => at[<<s, "working">>] = clock
    BY <2>1
  <2> HIDE DEF t
  <2>3. /\ clock' \in Nat /\ at' \in [Ticket -> Nat] /\ step' \in [Ticket -> Steps]
        /\ StampInv' /\ WindowInv' /\ LedgerInv'
        /\ clock' > 0 /\ at'[t] = clock' /\ step'[t] = "write"
        /\ \A u \in Ticket : u # t => at'[u] = at[u] /\ step'[u] = step[u]
    BY <1>1, <2>1, <2>2, Recording
  <2>4. TicketsTyped'
    BY <1>1, <2>3 DEF LifecycleInv, TicketsTyped, End
  <2>5. PhaseInv'
    BY <2>3, Tickets DEF t, LifecycleInv, TicketsTyped, PhaseInv, End
  <2>6. LatestInv'
    BY <1>1, <1>2, <2>3, Tickets DEF LifecycleInv, TicketsTyped, LatestInv, End
  <2>7. ReportInv' /\ ReportIsRecorded'
    BY <1>1, <2>3, Tickets DEF t, LifecycleInv, TicketsTyped, ReportInv, ReportIsRecorded
  <2> QED BY <2>3, <2>4, <2>5, <2>6, <2>7 DEF LifecycleInv
<1>3. CASE latest # r
  <2>1. UNCHANGED <<clock, at, step>>
    BY <1>3 DEF End, Settle
  <2>2. TicketsTyped' /\ PhaseInv'
    BY <1>1, <2>1, Tickets DEF LifecycleInv, TicketsTyped, PhaseInv, End
  <2>3. StampInv' /\ WindowInv' /\ LedgerInv' /\ ReportInv' /\ ReportIsRecorded'
    BY <1>1, <2>1 DEF LifecycleInv, StampInv, WindowInv, LedgerInv, ReportInv, ReportIsRecorded
  <2>4. LatestInv'
    BY <1>1, <2>1 DEF LifecycleInv, LatestInv, End
  <2> QED BY <2>2, <2>3, <2>4 DEF LifecycleInv
<1> QED BY <1>2, <1>3

LEMMA Closes == ASSUME LifecycleInv, NEW c \in Closing, Close(c) PROVE LifecycleInv'
<1> DEFINE t == <<c, "closed">>
<1>1. /\ t \in Ticket /\ Owner(t) = "close" /\ step[t] = "idle"
      /\ view' = view /\ posted' = posted /\ ledger' = ledger /\ runs' = runs /\ phase' = phase
      /\ latest' = "close" /\ Record(t)
  BY Tickets DEF Close
<1>2. /\ \A s \in Run : t = <<s, "working">> => at[<<s, "act">>] = 0
      /\ \A s \in Run : t = <<s, "act">> => at[<<s, "working">>] = clock
  OBVIOUS
<1> HIDE DEF t
<1>3. /\ clock' \in Nat /\ at' \in [Ticket -> Nat] /\ step' \in [Ticket -> Steps]
      /\ StampInv' /\ WindowInv' /\ LedgerInv'
      /\ clock' > 0 /\ at'[t] = clock' /\ step'[t] = "write"
      /\ \A u \in Ticket : u # t => at'[u] = at[u] /\ step'[u] = step[u]
  BY <1>1, <1>2, Recording
<1>4. TicketsTyped'
  BY <1>1, <1>3 DEF LifecycleInv, TicketsTyped
<1>5. PhaseInv'
  BY <1>1, <1>3, Tickets DEF t, LifecycleInv, TicketsTyped, PhaseInv
<1>6. LatestInv'
  BY <1>1, <1>3, LifecycleAssumption DEF LifecycleInv, TicketsTyped, LatestInv
<1>7. ReportInv' /\ ReportIsRecorded'
  BY <1>1, <1>3, Tickets DEF t, LifecycleInv, TicketsTyped, ReportInv, ReportIsRecorded
<1> QED BY <1>3, <1>4, <1>5, <1>6, <1>7 DEF LifecycleInv

\* A handler moves on: nothing is admitted and no event is made.
LEMMA Moving ==
  ASSUME LifecycleInv, UNCHANGED <<phase, runs, latest, clock, at>>, NEW t \in Ticket, NEW s \in Steps,
         step[t] # "idle", s \notin {"idle", "lost"}, Goto(t, s)
  PROVE  /\ step' \in [Ticket -> Steps] /\ PhaseInv' /\ StampInv' /\ LatestInv' /\ WindowInv'
         /\ step'[t] = s /\ \A u \in Ticket : u # t => step'[u] = step[u]
<1>1. /\ step' \in [Ticket -> Steps]
      /\ step'[t] = s /\ \A u \in Ticket : u # t => step'[u] = step[u]
  BY DEF LifecycleInv, TicketsTyped, Goto
<1>2. PhaseInv'
  BY <1>1, Tickets DEF LifecycleInv, PhaseInv
<1>3. StampInv' /\ WindowInv'
  BY <1>1 DEF LifecycleInv, StampInv, WindowInv
<1>4. LatestInv'
  BY <1>1 DEF LifecycleInv, LatestInv
<1> QED BY <1>1, <1>2, <1>3, <1>4

LEMMA Writing == ASSUME LifecycleInv, NEW t \in Ticket, Written(t) \/ NotWritten(t) PROVE LifecycleInv'
<1>1. CASE Written(t)
  <2> DEFINE s == IF t[2] = "closed" THEN "view" ELSE "recorded"
  <2>1. /\ UNCHANGED <<phase, runs, latest, clock, at, view, posted>> /\ Goto(t, s) /\ s \in {"view", "recorded"}
        /\ ledger' = ledger \cup {t} /\ step[t] # "idle"
    BY <1>1 DEF Written
  <2> HIDE DEF s
  <2>2. /\ step' \in [Ticket -> Steps] /\ PhaseInv' /\ StampInv' /\ LatestInv' /\ WindowInv'
        /\ step'[t] = s /\ \A u \in Ticket : u # t => step'[u] = step[u]
    BY <2>1, Moving DEF Steps
  <2>3. TicketsTyped' /\ LedgerInv'
    BY <2>1, <2>2 DEF LifecycleInv, TicketsTyped, LedgerInv
  <2>4. ReportInv' /\ ReportIsRecorded'
    BY <2>1, <2>2, Tickets DEF LifecycleInv, TicketsTyped, ReportInv, ReportIsRecorded
  <2> QED BY <2>2, <2>3, <2>4 DEF LifecycleInv
<1>2. CASE NotWritten(t)
  <2>1. /\ UNCHANGED <<phase, runs, latest, clock, at, ledger, view, posted>> /\ Goto(t, "failed")
        /\ step[t] = "write"
    BY <1>2 DEF NotWritten
  <2>2. /\ step' \in [Ticket -> Steps] /\ PhaseInv' /\ StampInv' /\ LatestInv' /\ WindowInv'
        /\ step'[t] = "failed" /\ \A u \in Ticket : u # t => step'[u] = step[u]
    BY <2>1, Moving DEF Steps
  <2>3. TicketsTyped' /\ LedgerInv'
    BY <2>1, <2>2 DEF LifecycleInv, TicketsTyped, LedgerInv
  <2>4. ReportInv' /\ ReportIsRecorded'
    BY <2>1, <2>2, Tickets DEF LifecycleInv, TicketsTyped, ReportInv, ReportIsRecorded
  <2> QED BY <2>2, <2>3, <2>4 DEF LifecycleInv
<1> QED BY <1>1, <1>2

LEMMA Reporting == ASSUME LifecycleInv, NEW c \in Closing, PostCloseReport(c) PROVE LifecycleInv'
<1> DEFINE t == <<c, "closed">>
<1>1. PICK s \in {"complete", "post", "closed", "journaled"} :
        /\ UNCHANGED <<phase, runs, latest, clock, at>> /\ Goto(t, s)
        /\ step[t] \in {"view", "complete", "post"}
        /\ s = "complete" => step[t] = "view" /\ view' = view \cup {c} /\ ledger' = ledger
        /\ s = "post" => step[t] = "complete" /\ ledger' = ledger \cup {<<c, "completed">>} /\ view' = view
        /\ view \subseteq view' /\ view' \subseteq view \cup {c}
        /\ ledger \subseteq ledger' /\ ledger' \subseteq ledger \cup {<<c, "completed">>}
        /\ posted' = posted \/ (posted' = posted \cup {c} /\ step[t] = "post")
  <2>1. CASE WriteCloseReport(c)
    BY <2>1 DEF WriteCloseReport, ReportAt, ReportGoes
  <2>2. CASE RecordSessionClose(c)
    BY <2>2 DEF RecordSessionClose, ReportAt, ReportGoes
  <2>3. CASE Post(c)
    BY <2>3 DEF Post, ReportAt, ReportGoes
  <2> QED BY <2>1, <2>2, <2>3 DEF PostCloseReport
<1>2. t \in Ticket /\ \A d \in Closing : <<d, "closed">> \in Ticket /\ (d # c => <<d, "closed">> # t)
  BY Tickets
<1> HIDE DEF t
<1>3. /\ step' \in [Ticket -> Steps] /\ PhaseInv' /\ StampInv' /\ LatestInv' /\ WindowInv'
      /\ step'[t] = s /\ \A u \in Ticket : u # t => step'[u] = step[u]
  BY <1>1, <1>2, Moving DEF Steps
<1>4. TicketsTyped'
  BY <1>1, <1>3 DEF LifecycleInv, TicketsTyped, Report
<1>5. LedgerInv'
  BY <1>1, <1>2, <1>3, Tickets DEF LifecycleInv, TicketsTyped, LedgerInv
<1>6. ReportInv'
  BY <1>1, <1>2, <1>3 DEF t, LifecycleInv, ReportInv
<1>7. ReportIsRecorded'
  BY <1>1, <1>2 DEF t, LifecycleInv, TicketsTyped, LedgerInv, ReportInv, ReportIsRecorded
<1> QED BY <1>3, <1>4, <1>5, <1>6, <1>7 DEF LifecycleInv

LEMMA Restarting == ASSUME LifecycleInv, GatewayRestarts PROVE LifecycleInv'
<1>1. /\ UNCHANGED <<clock, at, ledger, view, posted>> /\ runs' = {} /\ latest' = "none"
      /\ step' \in [Ticket -> Steps]
      /\ \A t \in Ticket : \/ step'[t] = step[t]
                           \/ step'[t] = "lost" /\ step[t] \notin {"idle", "failed"}
      /\ \A t \in Ticket : step'[t] \notin {"write", "view", "complete", "post"}
  BY DEF LifecycleInv, TicketsTyped, Steps, GatewayRestarts
<1>2. TicketsTyped' /\ PhaseInv'
  BY <1>1, Tickets DEF LifecycleInv, TicketsTyped, PhaseInv, GatewayRestarts
<1>3. StampInv' /\ WindowInv' /\ LatestInv'
  BY <1>1 DEF LifecycleInv, StampInv, WindowInv, LatestInv
<1>4. LedgerInv'
  BY <1>1 DEF LifecycleInv, LedgerInv
<1>5. ReportInv' /\ ReportIsRecorded'
  BY <1>1, Tickets DEF LifecycleInv, ReportInv, ReportIsRecorded
<1> QED BY <1>2, <1>3, <1>4, <1>5 DEF LifecycleInv

LEMMA LifecycleSteady == LifecycleInv /\ [LifecycleNext]_lvars => LifecycleInv'
<1> SUFFICES ASSUME LifecycleInv, [LifecycleNext]_lvars PROVE LifecycleInv'
  OBVIOUS
<1>1. CASE LifecycleNext
  BY <1>1, Starting, Ending, Closes, Writing, Reporting, Restarting DEF LifecycleNext
<1>2. CASE UNCHANGED lvars
  BY <1>2 DEF lvars, LifecycleInv, TicketsTyped, PhaseInv, StampInv, LatestInv, WindowInv, LedgerInv, ReportInv, ReportIsRecorded
<1> QED BY <1>1, <1>2

-----------------------------------------------------------------------------
(* Theorems *)

\* The invariant on phases, stamps, windows and the ledger holds of every run of the plugin.
THEOREM LifecycleInductive == LifecycleSpec => []LifecycleInv
  BY LifecycleBegins, LifecycleSteady, PTL DEF LifecycleSpec

\* Every variable keeps its type.
THEOREM LifecycleTyped == LifecycleSpec => []TicketsTyped
<1>1. LifecycleInv => TicketsTyped
  BY DEF LifecycleInv
<1> QED BY <1>1, LifecycleInductive, PTL

\* The ledger ends with the run or close admitted last, or its event is missing and newer (lifecycle.mjs).
THEOREM ShowsLatest == LifecycleSpec => []LedgerShowsLatest
<1>1. LifecycleInv => LedgerShowsLatest
  <2> SUFFICES ASSUME LifecycleInv, latest # "none", NEW t \in ledger \cap Ticket
               PROVE  \/ Owner(t) = latest
                      \/ (\A u \in ledger \cap Ticket : at[u] <= at[t]) =>
                           \E u \in Ticket : at[u] > at[t] /\ Owner(u) = latest /\ step[u] \in {"write", "failed"}
    BY DEF LedgerShowsLatest
  <2>1. PICK u \in Ticket : at[u] = clock /\ Owner(u) = latest /\ step[u] # "lost" /\ clock > 0
    BY DEF LifecycleInv, LatestInv
  <2>2. at[t] \in Nat /\ at[u] \in Nat /\ at[t] <= at[u] /\ at[u] # 0 /\ step[u] # "idle"
    BY <2>1 DEF LifecycleInv, TicketsTyped, StampInv
  <2>3. CASE u = t
    BY <2>1, <2>3
  <2>4. CASE u # t /\ u \in ledger
    BY <2>2, <2>4 DEF LifecycleInv, StampInv
  <2>5. CASE u # t /\ u \notin ledger
    BY <2>1, <2>2, <2>5 DEF LifecycleInv, StampInv, LedgerInv
  <2> QED BY <2>3, <2>4, <2>5
<1> QED BY <1>1, LifecycleInductive, PTL

\* A run that something else came after ends without an event (lifecycle.mjs:41-43).
THEOREM EndsSilently == LifecycleSpec => []StaleEndIsSilent
<1>1. LifecycleInv => StaleEndIsSilent
  BY Tickets DEF LifecycleInv, StampInv, LedgerInv, WindowInv, StaleEndIsSilent
<1> QED BY <1>1, LifecycleInductive, PTL

\* A posted report has its event, its view and its completed session (host-close.mjs:38-55).
THEOREM Recorded == LifecycleSpec => []ReportIsRecorded
<1>1. LifecycleInv => ReportIsRecorded
  BY DEF LifecycleInv
<1> QED BY <1>1, LifecycleInductive, PTL

-----------------------------------------------------------------------------
(* What the hooks of a run sign and strip *)

Positions == {"idle", "store", "remember", "thinking", "queued", "adding", "done", "lost"}
Tile == Prov \cup {"think"}
MaybeProv == Prov \cup {None}

HookState ==
  [pc : Positions, prov : MaybeProv, knew : BOOLEAN, left : Seq(Tile), prior : MaybeProv, before : Hook \cup {None}]

\* Every variable has its type; a strip that waits has tiles to add.
SignatureTyped ==
  /\ stored \in [Session -> MaybeProv] /\ ran \in [Session -> SUBSET Model]
  /\ noting \subseteq [session : Session, prior : MaybeProv, next : Prov]
  /\ live \in [Session -> MaybeProv] /\ recent \in MaybeProv
  /\ hook \in [Hook -> HookState]
  /\ tail \in [Message -> Hook \cup {None}] /\ strip \in [Message -> Seq(Tile)] /\ faults \subseteq Hook
  /\ \A h \in Hook : hook[h].pc \in {"queued", "adding"} => hook[h].left # <<>>

\* What may be said of a session: a model it ran with, or that no event named one.
OfSession(s, p) == p \in ran[s] \cup {"blank"}

\* Nothing that is known of a session, or about to be merged into it, is of another one.
KnownInv ==
  /\ \A s \in Session : /\ stored[s] # None => OfSession(s, stored[s])
                        /\ live[s] # None => OfSession(s, live[s])
  /\ \A e \in noting : /\ OfSession(e.session, e.next)
                       /\ e.prior # None => OfSession(e.session, e.prior)
  /\ \A h \in Hook :
       /\ hook[h].pc \in {"idle", "store"} => ~hook[h].knew
       /\ hook[h].knew \/ hook[h].pc = "remember" => OfSession(SessionOfHook(h), hook[h].prov)
       /\ hook[h].pc = "remember" /\ hook[h].prior # None => OfSession(SessionOfHook(h), hook[h].prior)

Waits(h, m) == MessageOf[h] = m /\ hook[h].pc \in {"queued", "adding"}

\* The strips of m wait in the line q: each but the first behind the one before it, the last one at the tail.
Line(m, q) ==
  /\ \A h \in Hook : Waits(h, m) <=> \E i \in 1..Len(q) : q[i] = h
  /\ \A i, j \in 1..Len(q) : q[i] = q[j] => i = j
  /\ tail[m] = IF q = <<>> THEN None ELSE q[Len(q)]
  /\ \A i \in 2..Len(q) : hook[q[i]].pc = "queued" /\ hook[q[i]].before = q[i - 1]
  /\ q # <<>> => Turn(q[1])

LineInv == \A m \in Message : \E q \in Seq(Hook) : Line(m, q)

SignatureInv == SignatureTyped /\ KnownInv /\ LineInv

-----------------------------------------------------------------------------
LEMMA SignatureBegins == SignatureInit => SignatureInv
<1> SUFFICES ASSUME SignatureInit PROVE SignatureInv
  OBVIOUS
<1>1. SignatureTyped
  BY SignatureAssumption DEF SignatureInit, SignatureTyped, Fresh, HookState, Positions, MaybeProv, Tile
<1>2. KnownInv
  BY DEF SignatureInit, KnownInv, Fresh
<1>3. ASSUME NEW m \in Message PROVE Line(m, <<>>) /\ <<>> \in Seq(Hook)
  BY DEF SignatureInit, Line, Waits, Fresh
<1> QED BY <1>1, <1>2, <1>3 DEF SignatureInv, LineInv

LEMMA InLine ==
  ASSUME NEW m, NEW q \in Seq(Hook), Line(m, q), NEW i \in 1..Len(q)
  PROVE  q[i] \in Hook /\ Waits(q[i], m)
  BY DEF Line

\* Only the first of a line has its turn.
LEMMA FirstOnly ==
  ASSUME SignatureTyped, NEW m \in Message, NEW q \in Seq(Hook), Line(m, q), NEW h \in Hook, MessageOf[h] = m, Turn(h)
  PROVE  q # <<>> /\ h = q[1]
<1>1. Waits(h, m)
  BY DEF Waits, Turn, At
<1>2. PICK i \in 1..Len(q) : q[i] = h
  BY <1>1 DEF Line
<1>3. CASE i = 1
  BY <1>2, <1>3
<1>4. CASE i \in 2..Len(q)
  <2>1. At(h, "queued") /\ hook[h].before = q[i - 1] /\ q[i - 1] \in Hook /\ hook[h].before # None
    BY <1>2, <1>4, SignatureAssumption DEF Line, At
  <2>2. Waits(q[i - 1], m)
    BY <1>4, <2>1 DEF Line
  <2> QED BY <2>1, <2>2 DEF Turn, At, Waits
<1> QED BY <1>2, <1>3, <1>4

\* A step of a hook that neither waited nor waits leaves the lines alone.
LEMMA Apart ==
  ASSUME SignatureTyped, LineInv, NEW h \in Hook, NEW s \in HookState, hook' = [hook EXCEPT ![h] = s],
         hook[h].pc \notin {"queued", "adding", "done"}, s.pc \notin {"queued", "adding"}, UNCHANGED tail
  PROVE  LineInv'
<1> SUFFICES ASSUME NEW m \in Message PROVE \E q \in Seq(Hook) : Line(m, q)'
  BY DEF LineInv
<1>1. PICK q \in Seq(Hook) : Line(m, q)
  BY DEF LineInv
<1>2. \A g \in Hook : /\ g # h => hook'[g] = hook[g]
                      /\ Waits(g, m) <=> Waits(g, m)'
                      /\ hook[g].pc = "done" => hook'[g].pc = "done"
                      /\ hook[g].pc \in {"queued", "adding"} => hook'[g] = hook[g]
  BY DEF Waits, SignatureTyped
<1>3. \A i \in 1..Len(q) : q[i] \in Hook /\ hook'[q[i]] = hook[q[i]]
  BY <1>1, <1>2, InLine DEF Waits
<1>4. q # <<>> => Turn(q[1])'
  <2> SUFFICES ASSUME q # <<>> PROVE Turn(q[1])'
    OBVIOUS
  <2>1. Turn(q[1]) /\ hook'[q[1]] = hook[q[1]] /\ hook[q[1]] \in HookState
    BY <1>1, <1>3 DEF Line, SignatureTyped
  <2> QED BY <1>2, <2>1 DEF Turn, At, HookState
<1>5. Line(m, q)'
  BY <1>1, <1>2, <1>3, <1>4 DEF Line
<1> QED BY <1>5

\* A strip queued behind the last one of its message is the new last one.
LEMMA QueuesUp ==
  ASSUME SignatureTyped, LineInv, NEW h \in Hook, MessageOf[h] \in Message,
         hook[h].pc \notin {"queued", "adding", "done"}, tail' = [tail EXCEPT ![MessageOf[h]] = h],
         NEW s \in HookState, hook' = [hook EXCEPT ![h] = s], s.pc = "queued", s.before = tail[MessageOf[h]]
  PROVE  LineInv'
<1> SUFFICES ASSUME NEW m \in Message PROVE \E q \in Seq(Hook) : Line(m, q)'
  BY DEF LineInv
<1>1. PICK q \in Seq(Hook) : Line(m, q)
  BY DEF LineInv
<1>2. /\ hook'[h].pc = "queued" /\ hook'[h].before = tail[MessageOf[h]]
      /\ \A g \in Hook : g # h => hook'[g] = hook[g]
      /\ \A g \in Hook : hook[g].pc = "done" => hook'[g].pc = "done"
  BY DEF SignatureTyped, HookState
<1>3. \A i \in 1..Len(q) : q[i] \in Hook /\ q[i] # h /\ hook'[q[i]] = hook[q[i]]
  BY <1>1, <1>2, InLine DEF Waits
<1>4. q # <<>> => Turn(q[1])'
  <2> SUFFICES ASSUME q # <<>> PROVE Turn(q[1])'
    OBVIOUS
  <2>1. Turn(q[1]) /\ hook'[q[1]] = hook[q[1]] /\ hook[q[1]] \in HookState
    BY <1>1, <1>3 DEF Line, SignatureTyped
  <2> QED BY <1>2, <2>1 DEF Turn, At, HookState
<1>5. CASE MessageOf[h] # m
  <2>1. tail'[m] = tail[m]
    BY <1>5 DEF SignatureTyped
  <2>2. \A g \in Hook : Waits(g, m) <=> Waits(g, m)'
    BY <1>2, <1>5 DEF Waits
  <2>3. Line(m, q)'
    BY <1>1, <1>3, <1>4, <2>1, <2>2 DEF Line
  <2> QED BY <2>3
<1>6. CASE MessageOf[h] = m
  <2>1. PICK p \in Seq(Hook) : /\ Len(p) = Len(q) + 1 /\ p # <<>>
                               /\ \A i \in 1..Len(q) : p[i] = q[i]
                               /\ p[Len(q) + 1] = h
    <3>1. /\ Append(q, h) \in Seq(Hook) /\ Len(Append(q, h)) = Len(q) + 1 /\ Append(q, h) # <<>>
          /\ \A i \in 1..Len(q) : Append(q, h)[i] = q[i]
          /\ Append(q, h)[Len(q) + 1] = h
      OBVIOUS
    <3> QED BY <3>1
  <2>2. tail'[m] = h /\ tail[m] = IF q = <<>> THEN None ELSE q[Len(q)]
    BY <1>1, <1>6 DEF Line, SignatureTyped
  <2>3. \A g \in Hook : Waits(g, m)' <=> Waits(g, m) \/ g = h
    BY <1>2, <1>6 DEF Waits
  <2>4. \A g \in Hook : Waits(g, m)' <=> \E i \in 1..Len(p) : p[i] = g
    <3> SUFFICES ASSUME NEW g \in Hook PROVE Waits(g, m)' <=> \E i \in 1..Len(p) : p[i] = g
      OBVIOUS
    <3>1. ASSUME Waits(g, m), g # h PROVE \E i \in 1..Len(p) : p[i] = g
      <4>1. PICK i \in 1..Len(q) : q[i] = g
        BY <1>1, <3>1 DEF Line
      <4>2. i \in 1..Len(p) /\ p[i] = g
        BY <2>1, <4>1
      <4> QED BY <4>2
    <3>2. Len(q) + 1 \in 1..Len(p)
      BY <2>1
    <3>3. ASSUME NEW i \in 1..Len(p), p[i] = g, g # h PROVE Waits(g, m)
      <4>1. i \in 1..Len(q) /\ q[i] = g
        BY <2>1, <3>3
      <4> QED BY <1>1, <4>1 DEF Line
    <3>4. CASE g = h
      BY <2>1, <2>3, <3>2, <3>4
    <3>5. CASE g # h
      BY <2>3, <3>1, <3>3, <3>5
    <3> QED BY <3>4, <3>5
  <2>5. \A i, j \in 1..Len(p) : p[i] = p[j] => i = j
    BY <1>1, <1>3, <2>1 DEF Line
  <2>6. ASSUME NEW i \in 2..Len(p) PROVE hook'[p[i]].pc = "queued" /\ hook'[p[i]].before = p[i - 1]
    <3>1. CASE i \in 2..Len(q)
      BY <1>1, <1>3, <2>1, <3>1 DEF Line
    <3>2. CASE i = Len(q) + 1
      <4>1. q # <<>> /\ p[i - 1] = q[Len(q)]
        BY <2>1, <3>2
      <4> QED BY <1>2, <1>6, <2>1, <2>2, <3>2, <4>1
    <3> QED BY <2>1, <3>1, <3>2
  <2>7. Turn(p[1])'
    <3>1. CASE q = <<>>
      BY <1>2, <1>6, <2>1, <2>2, <3>1 DEF Turn, At
    <3>2. CASE q # <<>>
      BY <1>4, <2>1, <3>2
    <3> QED BY <3>1, <3>2
  <2>8. Line(m, p)'
    BY <2>1, <2>2, <2>4, <2>5, <2>6, <2>7 DEF Line
  <2> QED BY <2>1, <2>8
<1> QED BY <1>5, <1>6

\* A strip that ends gives its turn to the one behind it, and the line is forgotten with its last strip.
LEMMA MovesUp ==
  ASSUME SignatureTyped, LineInv, NEW h \in Hook, MessageOf[h] \in Message, Turn(h), Ends(h), Leave(h)
  PROVE  LineInv'
<1> SUFFICES ASSUME NEW m \in Message PROVE \E q \in Seq(Hook) : Line(m, q)'
  BY DEF LineInv
<1>1. PICK q \in Seq(Hook) : Line(m, q)
  BY DEF LineInv
<1>2. /\ hook'[h].pc = "done" /\ hook[h].pc \in {"queued", "adding"}
      /\ \A g \in Hook : g # h => hook'[g] = hook[g]
      /\ \A g \in Hook : hook[g].pc = "done" => hook'[g].pc = "done"
  BY DEF SignatureTyped, HookState, Ends, Fresh, Turn, At
<1>3. tail'[m] = IF tail[m] = h THEN None ELSE tail[m]
  BY DEF Leave
<1>4. CASE MessageOf[h] # m
  <2>1. \A g \in Hook : Waits(g, m) <=> Waits(g, m)'
    BY <1>2, <1>4 DEF Waits
  <2>2. \A i \in 1..Len(q) : q[i] \in Hook /\ q[i] # h /\ hook'[q[i]] = hook[q[i]]
    BY <1>1, <1>2, <1>4 DEF Line, Waits
  <2>3. tail'[m] = tail[m]
    BY <1>1, <1>3, <2>2, SignatureAssumption DEF Line
  <2>4. q # <<>> => Turn(q[1])'
    <3> SUFFICES ASSUME q # <<>> PROVE Turn(q[1])'
      OBVIOUS
    <3>1. Turn(q[1]) /\ hook'[q[1]] = hook[q[1]] /\ hook[q[1]] \in HookState
      BY <1>1, <2>2 DEF Line, SignatureTyped
    <3> QED BY <1>2, <3>1 DEF Turn, At, HookState
  <2>5. Line(m, q)'
    BY <1>1, <2>1, <2>2, <2>3, <2>4 DEF Line
  <2> QED BY <2>5
<1>5. CASE MessageOf[h] = m
  <2>1. q # <<>> /\ h = q[1]
    BY <1>1, <1>5, FirstOnly
  <2>2. PICK p \in Seq(Hook) : /\ Len(p) = Len(q) - 1
                               /\ \A i \in 1..Len(p) : p[i] = q[i + 1] /\ i + 1 \in 2..Len(q)
    <3>1. /\ Tail(q) \in Seq(Hook) /\ Len(Tail(q)) = Len(q) - 1
          /\ \A i \in 1..Len(Tail(q)) : Tail(q)[i] = q[i + 1] /\ i + 1 \in 2..Len(q)
      BY <2>1
    <3> QED BY <3>1
  <2>3. \A i \in 1..Len(p) : p[i] \in Hook /\ p[i] # h /\ hook'[p[i]] = hook[p[i]]
    <3> SUFFICES ASSUME NEW i \in 1..Len(p) PROVE p[i] \in Hook /\ p[i] # h
      BY <1>2
    <3>1. i + 1 \in 1..Len(q) /\ 1 \in 1..Len(q) /\ i + 1 # 1
      BY <2>2
    <3> QED BY <1>1, <2>1, <2>2, <3>1 DEF Line
  <2>4. \A g \in Hook : Waits(g, m)' <=> Waits(g, m) /\ g # h
    BY <1>2, <1>5 DEF Waits
  <2>5. \A g \in Hook : Waits(g, m)' <=> \E i \in 1..Len(p) : p[i] = g
    <3> SUFFICES ASSUME NEW g \in Hook PROVE Waits(g, m)' <=> \E i \in 1..Len(p) : p[i] = g
      OBVIOUS
    <3>1. ASSUME Waits(g, m)' PROVE \E i \in 1..Len(p) : p[i] = g
      <4>1. PICK i \in 1..Len(q) : q[i] = g
        BY <1>1, <2>4, <3>1 DEF Line
      <4>2. i # 1
        BY <2>1, <2>4, <3>1, <4>1
      <4>3. i - 1 \in 1..Len(p) /\ p[i - 1] = g
        BY <2>2, <4>1, <4>2
      <4> QED BY <4>3
    <3>2. ASSUME NEW i \in 1..Len(p), p[i] = g PROVE Waits(g, m)'
      <4>1. i + 1 \in 1..Len(q) /\ q[i + 1] = g
        BY <2>2, <3>2
      <4>2. Waits(g, m)
        BY <1>1, <4>1 DEF Line
      <4> QED BY <2>3, <2>4, <3>2, <4>2
    <3> QED BY <3>1, <3>2
  <2>6. \A i, j \in 1..Len(p) : p[i] = p[j] => i = j
    <3> SUFFICES ASSUME NEW i \in 1..Len(p), NEW j \in 1..Len(p), p[i] = p[j] PROVE i = j
      OBVIOUS
    <3>1. i + 1 \in 1..Len(q) /\ j + 1 \in 1..Len(q) /\ q[i + 1] = q[j + 1]
      BY <2>2
    <3>2. i + 1 = j + 1
      BY <1>1, <3>1 DEF Line
    <3> QED BY <3>2
  <2>7. tail'[m] = IF p = <<>> THEN None ELSE p[Len(p)]
    <3>1. tail[m] = q[Len(q)]
      BY <1>1, <2>1 DEF Line
    <3>2. CASE p = <<>>
      <4>1. Len(q) = 1
        BY <2>2, <3>2
      <4> QED BY <1>3, <2>1, <3>1, <3>2, <4>1
    <3>3. CASE p # <<>>
      <4>1. Len(p) \in 1..Len(p) /\ p[Len(p)] = q[Len(q)]
        BY <2>2, <3>3
      <4>2. tail[m] # h
        BY <2>3, <3>1, <4>1
      <4> QED BY <1>3, <3>1, <3>3, <4>1, <4>2
    <3> QED BY <3>2, <3>3
  <2>8. \A i \in 2..Len(p) : hook'[p[i]].pc = "queued" /\ hook'[p[i]].before = p[i - 1]
    <3> SUFFICES ASSUME NEW i \in 2..Len(p) PROVE hook'[p[i]].pc = "queued" /\ hook'[p[i]].before = p[i - 1]
      OBVIOUS
    <3>1. /\ i + 1 \in 2..Len(q) /\ p[i] = q[i + 1] /\ i \in 1..Len(p) /\ i - 1 \in 1..Len(p)
          /\ p[i - 1] = q[(i - 1) + 1] /\ (i - 1) + 1 = i /\ (i + 1) - 1 = i
      BY <2>2
    <3>2. hook[q[i + 1]].pc = "queued" /\ hook[q[i + 1]].before = q[(i + 1) - 1]
      BY <1>1, <3>1 DEF Line
    <3> QED BY <2>3, <3>1, <3>2
  <2>9. p # <<>> => Turn(p[1])'
    <3> SUFFICES ASSUME p # <<>> PROVE Turn(p[1])'
      OBVIOUS
    <3>1. 1 \in 1..Len(p) /\ p[1] = q[2] /\ 2 \in 2..Len(q) /\ 2 - 1 = 1
      BY <2>2
    <3>2. hook[q[2]].pc = "queued" /\ hook[q[2]].before = q[2 - 1]
      BY <1>1, <3>1 DEF Line
    <3>3. hook'[p[1]].pc = "queued" /\ hook'[p[1]].before = h
      BY <2>1, <2>3, <3>1, <3>2
    <3> QED BY <1>2, <3>3 DEF Turn, At
  <2>10. Line(m, p)'
    BY <2>2, <2>5, <2>6, <2>7, <2>8, <2>9 DEF Line
  <2> QED BY <2>2, <2>10
<1> QED BY <1>4, <1>5

\* The first strip of a line goes on with its next tile, and the line is as it was.
LEMMA GoesOn ==
  ASSUME SignatureTyped, LineInv, NEW h \in Hook, MessageOf[h] \in Message, Turn(h), UNCHANGED tail,
         NEW s \in HookState, hook' = [hook EXCEPT ![h] = s], s.pc = "adding"
  PROVE  LineInv'
<1> SUFFICES ASSUME NEW m \in Message PROVE \E q \in Seq(Hook) : Line(m, q)'
  BY DEF LineInv
<1>1. PICK q \in Seq(Hook) : Line(m, q)
  BY DEF LineInv
<1>2. /\ hook'[h].pc = "adding" /\ hook[h].pc \in {"queued", "adding"}
      /\ \A g \in Hook : g # h => hook'[g] = hook[g]
      /\ \A g \in Hook : hook[g].pc = "done" => hook'[g].pc = "done"
      /\ \A g \in Hook : Waits(g, m) <=> Waits(g, m)'
  BY DEF SignatureTyped, HookState, Turn, At, Waits
<1>3. \A i \in 2..Len(q) : q[i] # h
  <2> SUFFICES ASSUME NEW i \in 2..Len(q), q[i] = h PROVE FALSE
    OBVIOUS
  <2>1. MessageOf[h] = m
    BY <1>1, InLine DEF Waits
  <2>2. 1 \in 1..Len(q) /\ i \in 1..Len(q) /\ q[1] = h
    BY <1>1, <2>1, FirstOnly
  <2> QED BY <1>1, <2>2 DEF Line
<1>4. \A i \in 2..Len(q) : hook'[q[i]].pc = "queued" /\ hook'[q[i]].before = q[i - 1]
  BY <1>1, <1>2, <1>3, InLine DEF Line
<1>5. q # <<>> => Turn(q[1])'
  <2> SUFFICES ASSUME q # <<>> PROVE Turn(q[1])'
    OBVIOUS
  <2>1. Turn(q[1]) /\ q[1] \in Hook
    BY <1>1 DEF Line
  <2>2. CASE q[1] = h
    BY <1>2, <2>2 DEF Turn, At
  <2>3. CASE q[1] # h
    <3>1. hook'[q[1]] = hook[q[1]] /\ hook[q[1]] \in HookState
      BY <1>2, <2>1, <2>3 DEF SignatureTyped
    <3> QED BY <1>2, <2>1, <3>1 DEF Turn, At, HookState
  <2> QED BY <2>2, <2>3
<1>6. Line(m, q)'
  BY <1>1, <1>2, <1>4, <1>5 DEF Line
<1> QED BY <1>6

\* No strip waits in a gateway that has just started.
LEMMA StartsOver ==
  ASSUME SignatureTyped, PluginRestarts
  PROVE  LineInv'
<1>1. \A h \in Hook : hook'[h].pc \notin {"queued", "adding"}
  BY DEF PluginRestarts, Fresh
<1> SUFFICES ASSUME NEW m \in Message PROVE <<>> \in Seq(Hook) /\ Line(m, <<>>)'
  BY DEF LineInv
<1> QED BY <1>1 DEF Line, Waits, PluginRestarts

\* A step that touches no handler.
LEMMA Undisturbed ==
  ASSUME LineInv, UNCHANGED <<hook, tail>>
  PROVE  LineInv'
<1> SUFFICES ASSUME NEW m \in Message PROVE \E q \in Seq(Hook) : Line(m, q)'
  BY DEF LineInv
<1>1. PICK q \in Seq(Hook) : Line(m, q)
  BY DEF LineInv
<1>2. Line(m, q)'
  BY <1>1 DEF Line, Waits, Turn, At
<1> QED BY <1>2

-----------------------------------------------------------------------------
\* What is known of the session of one handler.
HookKnown(s, h, known) ==
  /\ s.pc \in {"idle", "store"} => ~s.knew
  /\ s.knew \/ s.pc = "remember" => s.prov \in known \cup {"blank"}
  /\ s.pc = "remember" /\ s.prior # None => s.prior \in known \cup {"blank"}

\* A handler's step keeps the types.
LEMMA HookTyped ==
  ASSUME SignatureTyped, NEW h \in Hook, NEW s \in HookState, hook' = [hook EXCEPT ![h] = s],
         s.pc \in {"queued", "adding"} => s.left # <<>>,
         tail' \in [Message -> Hook \cup {None}], strip' \in [Message -> Seq(Tile)], faults' \subseteq Hook,
         live' \in [Session -> MaybeProv], recent' \in MaybeProv, UNCHANGED <<stored, ran, noting>>
  PROVE  SignatureTyped'
  BY DEF SignatureTyped

\* A handler's step keeps what is known, if what it knows and what it noted is of its session.
LEMMA HookKnows ==
  ASSUME SignatureTyped, KnownInv, NEW h \in Hook, NEW s \in HookState, hook' = [hook EXCEPT ![h] = s],
         HookKnown(s, h, ran[SessionOfHook(h)]), UNCHANGED <<stored, ran, noting>>,
         \A e \in Session : live'[e] # None => OfSession(e, live'[e])
  PROVE  KnownInv'
  BY DEF SignatureTyped, KnownInv, HookKnown, OfSession, SessionOfHook

\* A tile added to the strip of a message.
LEMMA TileAdded ==
  ASSUME SignatureTyped, NEW m \in Message, NEW x \in Tile
  PROVE  WithTile(m, x) \in [Message -> Seq(Tile)]
<1>1. Append(strip[m], x) \in Seq(Tile)
  BY DEF SignatureTyped
<1> QED BY <1>1 DEF WithTile, SignatureTyped

\* What a model call or the session store teaches.
LEMMA SteadyLearning ==
  ASSUME SignatureInv, Learning
  PROVE  SignatureInv'
<1> USE DEF SignatureInv
<1>1. UNCHANGED hvars
  BY DEF Learning, ModelEvent, SessionStored, ApplySessionSelection, RememberProvenance
<1>2. LineInv'
  BY <1>1, Undisturbed DEF hvars
<1>3. ASSUME NEW s \in Session, NEW x \in ModelsOf[s] \cup {"blank"}, ModelEvent(s, x)
      PROVE  SignatureTyped' /\ KnownInv'
  <2>1. x \in Prov /\ x \in Model \cup {"blank"}
    BY SignatureAssumption DEF Prov
  <2>2. SignatureTyped'
    BY <1>1, <1>3, <2>1 DEF ModelEvent, SignatureTyped, hvars, MaybeProv
  <2>3. /\ \A e \in Session : ran[e] \subseteq ran'[e] 
        /\ ran'[s] = ran[s] \cup ({x} \ {"blank"})
    BY <1>3 DEF ModelEvent, SignatureTyped
  <2>4. \A e \in Session : \A y : OfSession(e, y) => OfSession(e, y)'
    BY <2>3 DEF OfSession
  <2>5. OfSession(s, x)'
    BY <2>3 DEF OfSession
  <2>6. \A h \in Hook : SessionOfHook(h) \in Session
    BY SignatureAssumption DEF SessionOfHook
  <2>7. \A e \in noting' : e \in noting \/ (e.session = s /\ e.prior = live[s] /\ e.next = x)
    BY <1>3 DEF ModelEvent
  <2>8. UNCHANGED <<stored, live, hook>>
    BY <1>3 DEF ModelEvent, hvars
  <2>9. KnownInv'
    <3>1. \A e \in Session : /\ stored'[e] # None => OfSession(e, stored[e])'
                             /\ live'[e] # None => OfSession(e, live[e])'
      BY <2>4, <2>8 DEF KnownInv
    <3>2. ASSUME NEW e \in noting' PROVE OfSession(e.session, e.next)' /\ (e.prior # None => OfSession(e.session, e.prior)')
      <4>1. CASE e \in noting
        BY <2>4, <4>1 DEF KnownInv, SignatureTyped
      <4>2. CASE e.session = s /\ e.prior = live[s] /\ e.next = x
        BY <2>4, <2>5, <4>2 DEF KnownInv
      <4> QED BY <2>7, <4>1, <4>2
    <3>3. \A h \in Hook :
            /\ hook'[h].pc \in {"idle", "store"} => ~hook'[h].knew
            /\ hook'[h].knew \/ hook'[h].pc = "remember" => OfSession(SessionOfHook(h), hook[h].prov)'
            /\ hook'[h].pc = "remember" /\ hook'[h].prior # None => OfSession(SessionOfHook(h), hook[h].prior)'
      BY <2>4, <2>6, <2>8 DEF KnownInv
    <3> QED BY <3>1, <3>2, <3>3 DEF KnownInv
  <2> QED BY <2>2, <2>9
<1>4. ASSUME NEW s \in Session, SessionStored(s) PROVE SignatureTyped' /\ KnownInv'
  <2>1. PICK x \in ran[s] : stored' = [stored EXCEPT ![s] = x]
    BY <1>4 DEF SessionStored
  <2>2. x \in Model
    BY <2>1 DEF SignatureTyped
  <2>3. SignatureTyped'
    BY <1>1, <1>4, <2>1, <2>2 DEF SessionStored, SignatureTyped, hvars, MaybeProv, Prov
  <2>4. KnownInv'
    BY <1>1, <1>4, <2>1 DEF SessionStored, SignatureTyped, KnownInv, OfSession, hvars, SessionOfHook
  <2> QED BY <2>3, <2>4
<1>5. ASSUME NEW s \in Session, ApplySessionSelection(s) PROVE SignatureTyped' /\ KnownInv'
  BY <1>1, <1>5 DEF ApplySessionSelection, SignatureTyped, KnownInv, OfSession, hvars, SessionOfHook, MaybeProv
<1>6. ASSUME NEW e \in noting, RememberProvenance(e) PROVE SignatureTyped' /\ KnownInv'
  <2> DEFINE p == MergeProvenance(e.prior, e.next)
  <2>1. e.session \in Session /\ e.next \in Prov /\ e.prior \in MaybeProv
    BY DEF SignatureTyped
  <2>2. p \in Prov /\ OfSession(e.session, p)
    BY <2>1 DEF MergeProvenance, MaybeProv, Prov, KnownInv, OfSession
  <2>3. /\ live' = [live EXCEPT ![e.session] = p] /\ recent' \in {recent, p}
        /\ noting' \subseteq noting /\ UNCHANGED <<stored, ran>>
    BY <1>6 DEF RememberProvenance, Learn
  <2> HIDE DEF p
  <2>4. SignatureTyped'
    BY <1>1, <2>1, <2>2, <2>3 DEF SignatureTyped, hvars, MaybeProv
  <2>5. KnownInv'
    BY <1>1, <2>1, <2>2, <2>3 DEF SignatureTyped, KnownInv, OfSession, hvars, SessionOfHook
  <2> QED BY <2>4, <2>5
<1> QED BY <1>2, <1>3, <1>4, <1>5, <1>6 DEF Learning

Ended == [Fresh EXCEPT !.pc = "done"]

LEMMA Owned ==
  ASSUME NEW h \in Hook
  PROVE  /\ MessageOf[h] \in Message /\ SessionOfHook(h) \in Session /\ Ended \in HookState
         /\ Ended.pc = "done" /\ ~Ended.knew /\ Ended.prov = None
<1>1. MessageOf[h] \in Message /\ SessionOfHook(h) \in Session
  BY SignatureAssumption DEF SessionOfHook
<1>2. <<>> \in Seq(Tile) /\ "done" \in Positions /\ None \in MaybeProv
  BY DEF Positions, MaybeProv
<1>3. Ended \in HookState /\ Ended.pc = "done" /\ ~Ended.knew /\ Ended.prov = None
  BY <1>2 DEF Ended, Fresh, HookState
<1> QED BY <1>1, <1>3

\* A handler that gives up before it queued its strip.
LEMMA SteadyJournal ==
  ASSUME SignatureInv, NEW h \in Hook, hook[h].pc \notin {"queued", "adding", "done"}, Journal(h), UNCHANGED mvars
  PROVE  SignatureInv'
<1> USE DEF SignatureInv
<1>1. hook' = [hook EXCEPT ![h] = Ended] /\ faults' = faults \cup {h} /\ UNCHANGED <<tail, strip>>
  BY DEF Journal, Ends, Ended
<1>2. SignatureTyped'
  BY <1>1, Owned, HookTyped DEF mvars, SignatureTyped
<1>3. HookKnown(Ended, h, ran[SessionOfHook(h)])
  BY Owned DEF HookKnown
<1>4. KnownInv'
  <2>1. \A e \in Session : live'[e] # None => OfSession(e, live'[e])
    BY DEF mvars, KnownInv
  <2> QED BY <1>1, <1>3, <2>1, Owned, HookKnows DEF mvars
<1>5. LineInv'
  BY <1>1, Owned, Apart
<1> QED BY <1>2, <1>4, <1>5

\* A handler that goes on, with what it read of its session.
LEMMA SteadyReading ==
  ASSUME SignatureInv, NEW h \in Hook, NEW s \in HookState, hook' = [hook EXCEPT ![h] = s],
         hook[h].pc \notin {"queued", "adding", "done"}, s.pc \notin {"queued", "adding"},
         HookKnown(s, h, ran[SessionOfHook(h)]), UNCHANGED <<mvars, tail, strip, faults>>
  PROVE  SignatureInv'
<1> USE DEF SignatureInv
<1>1. SignatureTyped'
  BY HookTyped DEF mvars, SignatureTyped
<1>2. KnownInv'
  <2>1. \A e \in Session : live'[e] # None => OfSession(e, live'[e])
    BY DEF mvars, KnownInv
  <2> QED BY <2>1, HookKnows DEF mvars
<1>3. LineInv'
  BY Apart
<1> QED BY <1>1, <1>2, <1>3

LEMMA SteadyLastRun ==
  ASSUME SignatureInv, NEW h \in Hook, hook[h].pc \in {"idle", "store"}, AgentLastRun(h), UNCHANGED mvars
  PROVE  SignatureInv'
<1>1. CASE recent # None
  <2> DEFINE s == [hook[h] EXCEPT !.pc = "thinking", !.prov = recent]
  <2>1. hook[h] \in HookState /\ recent \in MaybeProv /\ ~hook[h].knew
    BY DEF SignatureInv, SignatureTyped, KnownInv
  <2>2. s \in HookState /\ s.pc = "thinking" /\ ~s.knew
    BY <2>1 DEF HookState, Positions
  <2>3. hook' = [hook EXCEPT ![h] = s] /\ UNCHANGED <<tail, strip, faults>>
    BY <1>1, <2>1 DEF AgentLastRun, Attribute, SignatureInv, SignatureTyped, HookState
  <2> HIDE DEF s
  <2>4. HookKnown(s, h, ran[SessionOfHook(h)])
    BY <2>2 DEF HookKnown
  <2> QED BY <2>2, <2>3, <2>4, SteadyReading
<1>2. CASE recent = None
  BY <1>2, SteadyJournal DEF AgentLastRun
<1> QED BY <1>1, <1>2

LEMMA SteadyLookup ==
  ASSUME SignatureInv, NEW h \in Hook, Lookup(h)
  PROVE  SignatureInv'
<1>1. hook[h] \in HookState /\ hook[h].pc = "idle" /\ ~hook[h].knew /\ UNCHANGED mvars
  BY DEF Lookup, At, SignatureInv, SignatureTyped, KnownInv
<1>2. CASE Journal(h)
  BY <1>1, <1>2, SteadyJournal
<1>3. ASSUME live[SessionOfHook(h)] # None, UNCHANGED <<tail, strip, faults>>,
             hook' = [hook EXCEPT ![h].pc = "thinking", ![h].prov = live[SessionOfHook(h)], ![h].knew = TRUE]
      PROVE  SignatureInv'
  <2> DEFINE s == [hook[h] EXCEPT !.pc = "thinking", !.prov = live[SessionOfHook(h)], !.knew = TRUE]
  <2>1. live[SessionOfHook(h)] \in MaybeProv
    BY Owned DEF SignatureInv, SignatureTyped
  <2>2. s \in HookState /\ s.pc = "thinking" /\ s.prov = live[SessionOfHook(h)]
    BY <1>1, <2>1 DEF HookState, Positions
  <2>3. hook' = [hook EXCEPT ![h] = s]
    BY <1>1, <1>3 DEF SignatureInv, SignatureTyped, HookState
  <2>4. s.prov \in ran[SessionOfHook(h)] \cup {"blank"}
    BY <1>3, <2>2, Owned DEF SignatureInv, KnownInv, OfSession
  <2> HIDE DEF s
  <2>5. HookKnown(s, h, ran[SessionOfHook(h)])
    BY <2>2, <2>4 DEF HookKnown
  <2> QED BY <1>1, <1>3, <2>2, <2>3, <2>5, SteadyReading
<1>4. ASSUME Goes(h, "store"), UNCHANGED <<tail, strip, faults>> PROVE SignatureInv'
  <2> DEFINE s == [hook[h] EXCEPT !.pc = "store"]
  <2>1. s \in HookState /\ s.pc = "store" /\ ~s.knew /\ hook' = [hook EXCEPT ![h] = s]
    BY <1>1, <1>4 DEF HookState, Positions, Goes
  <2> HIDE DEF s
  <2>2. HookKnown(s, h, ran[SessionOfHook(h)])
    BY <2>1 DEF HookKnown
  <2> QED BY <1>1, <1>4, <2>1, <2>2, SteadyReading
<1>5. CASE AgentLastRun(h)
  BY <1>1, <1>5, SteadyLastRun
<1> QED BY <1>2, <1>3, <1>4, <1>5 DEF Lookup

LEMMA SteadyLoad ==
  ASSUME SignatureInv, NEW h \in Hook, LoadSessionProvenance(h)
  PROVE  SignatureInv'
<1>1. hook[h] \in HookState /\ hook[h].pc = "store" /\ ~hook[h].knew /\ UNCHANGED mvars
  BY DEF LoadSessionProvenance, At, SignatureInv, SignatureTyped, KnownInv
<1>2. ASSUME stored[SessionOfHook(h)] # None, UNCHANGED <<tail, strip, faults>>,
             hook' = [hook EXCEPT ![h].pc = "remember", ![h].prior = live[SessionOfHook(h)], ![h].prov = stored[SessionOfHook(h)]]
      PROVE  SignatureInv'
  <2> DEFINE s == [hook[h] EXCEPT !.pc = "remember", !.prior = live[SessionOfHook(h)], !.prov = stored[SessionOfHook(h)]]
  <2>1. live[SessionOfHook(h)] \in MaybeProv /\ stored[SessionOfHook(h)] \in MaybeProv
    BY Owned DEF SignatureInv, SignatureTyped
  <2>2. /\ s \in HookState /\ s.pc = "remember" /\ s.prov = stored[SessionOfHook(h)]
        /\ s.prior = live[SessionOfHook(h)] /\ ~s.knew
    BY <1>1, <2>1 DEF HookState, Positions
  <2>3. hook' = [hook EXCEPT ![h] = s]
    BY <1>1, <1>2 DEF SignatureInv, SignatureTyped, HookState
  <2>4. /\ s.prov \in ran[SessionOfHook(h)] \cup {"blank"}
        /\ s.prior # None => s.prior \in ran[SessionOfHook(h)] \cup {"blank"}
    BY <1>2, <2>2, Owned DEF SignatureInv, KnownInv, OfSession
  <2> HIDE DEF s
  <2>5. HookKnown(s, h, ran[SessionOfHook(h)])
    BY <2>2, <2>4 DEF HookKnown
  <2> QED BY <1>1, <1>2, <2>2, <2>3, <2>5, SteadyReading
<1>3. CASE AgentLastRun(h)
  BY <1>1, <1>3, SteadyLastRun
<1> QED BY <1>2, <1>3 DEF LoadSessionProvenance

LEMMA SteadyRemember ==
  ASSUME SignatureInv, NEW h \in Hook, RememberStored(h)
  PROVE  SignatureInv'
<1> USE DEF SignatureInv
<1> DEFINE s == [hook[h] EXCEPT !.pc = "thinking"]
           e == SessionOfHook(h)
           p == MergeProvenance(hook[h].prior, hook[h].prov)
<1>1. hook[h] \in HookState /\ hook[h].pc = "remember" /\ e \in Session
  BY Owned DEF RememberStored, At, SignatureTyped
<1>2. OfSession(e, hook[h].prov) /\ (hook[h].prior # None => OfSession(e, hook[h].prior))
  BY <1>1 DEF KnownInv
<1>3. s \in HookState /\ s.pc = "thinking" /\ s.prov = hook[h].prov /\ hook' = [hook EXCEPT ![h] = s]
  BY <1>1 DEF HookState, Positions, Goes, RememberStored
<1>4. p \in Prov /\ OfSession(e, p)
  <2>1. ran[e] \subseteq Model /\ Model \cup {"blank"} = Prov
    BY <1>1 DEF SignatureTyped, Prov
  <2> QED BY <1>2, <2>1 DEF MergeProvenance, OfSession
<1>5. live' = [live EXCEPT ![e] = p] /\ recent' \in {recent, p} /\ UNCHANGED <<stored, ran, noting, tail, strip, faults>>
  BY DEF RememberStored, Learn
<1>6. HookKnown(s, h, ran[e])
  BY <1>2, <1>3 DEF HookKnown, OfSession
<1> HIDE DEF s, p, e
<1>7. \A d \in Session : live'[d] # None => OfSession(d, live'[d])
  BY <1>1, <1>4, <1>5 DEF SignatureTyped, KnownInv
<1>8. KnownInv'
  BY <1>3, <1>5, <1>6, <1>7, HookKnows DEF e
<1>9. SignatureTyped'
  <2>1. live' \in [Session -> MaybeProv] /\ recent' \in MaybeProv
    BY <1>1, <1>4, <1>5 DEF SignatureTyped, MaybeProv
  <2> QED BY <1>3, <1>5, <2>1, HookTyped DEF SignatureTyped
<1>10. LineInv'
  BY <1>1, <1>3, <1>5, Apart
<1> QED BY <1>8, <1>9, <1>10

LEMMA SteadyQueue ==
  ASSUME SignatureInv, NEW h \in Hook, Queue(h)
  PROVE  SignatureInv'
<1> USE DEF SignatureInv
<1>1. hook[h] \in HookState /\ hook[h].pc = "thinking" /\ UNCHANGED mvars
  BY DEF Queue, At, SignatureTyped
<1>2. CASE Journal(h)
  BY <1>1, <1>2, SteadyJournal
<1>3. ASSUME HasModelTile(hook[h].prov), tail' = [tail EXCEPT ![MessageOf[h]] = h], UNCHANGED <<strip, faults>>,
             NEW tiles \in BuildRunReactionNames(hook[h].prov),
             hook' = [hook EXCEPT ![h].pc = "queued", ![h].before = tail[MessageOf[h]], ![h].left = tiles]
      PROVE  SignatureInv'
  <2> DEFINE s == [hook[h] EXCEPT !.pc = "queued", !.before = tail[MessageOf[h]], !.left = tiles]
  <2>1. tiles \in Seq(Tile) /\ tiles # <<>>
    <3>1. hook[h].prov \in Tile /\ "think" \in Tile
      BY <1>3 DEF HasModelTile, Tile, Prov
    <3>2. \A x, y \in Tile : <<x>> \in Seq(Tile) /\ <<x>> # <<>> /\ <<x, y>> \in Seq(Tile) /\ <<x, y>> # <<>>
      OBVIOUS
    <3> QED BY <3>1, <3>2 DEF BuildRunReactionNames
  <2>2. tail[MessageOf[h]] \in Hook \cup {None}
    BY Owned DEF SignatureTyped
  <2>3. /\ s \in HookState /\ s.pc = "queued" /\ s.before = tail[MessageOf[h]] /\ s.left = tiles
        /\ s.knew = hook[h].knew /\ s.prov = hook[h].prov
    BY <1>1, <2>1, <2>2 DEF HookState, Positions
  <2>4. hook' = [hook EXCEPT ![h] = s]
    BY <1>1, <1>3 DEF SignatureTyped, HookState
  <2> HIDE DEF s
  <2>5. HookKnown(s, h, ran[SessionOfHook(h)])
    BY <1>1, <2>3 DEF HookKnown, KnownInv, OfSession
  <2>6. SignatureTyped'
    <3>1. tail' \in [Message -> Hook \cup {None}]
      BY <1>3 DEF SignatureTyped
    <3> QED BY <1>1, <1>3, <2>1, <2>3, <2>4, <3>1, HookTyped DEF mvars, SignatureTyped
  <2>7. KnownInv'
    <3>1. \A d \in Session : live'[d] # None => OfSession(d, live'[d])
      BY <1>1 DEF mvars, KnownInv
    <3> QED BY <1>1, <2>3, <2>4, <2>5, <3>1, HookKnows DEF mvars
  <2>8. LineInv'
    BY <1>1, <1>3, <2>3, <2>4, Owned, QueuesUp
  <2> QED BY <2>6, <2>7, <2>8
<1> QED BY <1>2, <1>3 DEF Queue

LEMMA SteadyAddReaction ==
  ASSUME SignatureInv, NEW h \in Hook, AddReaction(h)
  PROVE  SignatureInv'
<1> USE DEF SignatureInv
<1> DEFINE with == WithTile(MessageOf[h], Head(hook[h].left))
<1>1. hook[h] \in HookState /\ hook[h].pc \in {"queued", "adding"} /\ Turn(h) /\ UNCHANGED mvars
  BY DEF AddReaction, At, Turn, SignatureTyped
<1>2. hook[h].left \in Seq(Tile) /\ hook[h].left # <<>>
  BY <1>1 DEF SignatureTyped, HookState
<1>3. with \in [Message -> Seq(Tile)]
  <2>1. Head(hook[h].left) \in Tile
    BY <1>2
  <2> QED BY <2>1, Owned, TileAdded
<1> HIDE DEF with
<1>4. \A d \in Session : live'[d] # None => OfSession(d, live'[d])
  BY <1>1 DEF mvars, KnownInv
<1>5. ASSUME strip' = with, Len(hook[h].left) > 1, UNCHANGED <<tail, faults>>,
             hook' = [hook EXCEPT ![h].pc = "adding", ![h].left = Tail(@)]
      PROVE  SignatureInv'
  <2> DEFINE s == [hook[h] EXCEPT !.pc = "adding", !.left = Tail(hook[h].left)]
  <2>1. Tail(hook[h].left) \in Seq(Tile) /\ Tail(hook[h].left) # <<>>
    <3> DEFINE q == hook[h].left
    <3>1. q \in Seq(Tile) /\ q # <<>> /\ Len(q) > 1
      BY <1>2, <1>5
    <3> HIDE DEF q
    <3>2. Tail(q) \in Seq(Tile) /\ Len(Tail(q)) = Len(q) - 1
      BY <3>1
    <3>3. Len(q) \in Nat
      BY <3>1
    <3>4. Tail(q) # <<>>
      <4>1. Len(<<>>) = 0
        OBVIOUS
      <4>2. Tail(q) = <<>> => Len(Tail(q)) = 0
        BY <4>1, Zenon
      <4>3. \A n \in Nat : n > 1 => n - 1 # 0
        OBVIOUS
      <4>4. Len(q) - 1 # 0
        BY <3>1, <3>3, <4>3, Zenon
      <4> QED BY <3>2, <4>2, <4>4, Zenon
    <3> QED BY <3>2, <3>4 DEF q
  <2>2. /\ s \in HookState /\ s.pc = "adding" /\ s.left = Tail(hook[h].left)
        /\ s.knew = hook[h].knew /\ s.prov = hook[h].prov
    BY <1>1, <2>1 DEF HookState, Positions
  <2>3. hook' = [hook EXCEPT ![h] = s]
    BY <1>1, <1>5 DEF SignatureTyped, HookState
  <2> HIDE DEF s
  <2>4. HookKnown(s, h, ran[SessionOfHook(h)])
    BY <1>1, <2>2 DEF HookKnown, KnownInv, OfSession
  <2>5. SignatureTyped'
    BY <1>1, <1>3, <1>5, <2>1, <2>2, <2>3, HookTyped DEF mvars, SignatureTyped
  <2>6. KnownInv'
    BY <1>1, <1>4, <2>2, <2>3, <2>4, HookKnows DEF mvars
  <2>7. LineInv'
    BY <1>1, <1>5, <2>2, <2>3, Owned, GoesOn
  <2> QED BY <2>5, <2>6, <2>7
<1>6. ASSUME strip' \in {strip, with}, faults' \in {faults, faults \cup {h}}, Ends(h), Leave(h) PROVE SignatureInv'
  <2>1. hook' = [hook EXCEPT ![h] = Ended]
    BY <1>6 DEF Ends, Ended
  <2>2. tail' \in [Message -> Hook \cup {None}]
    BY <1>6 DEF Leave, SignatureTyped
  <2>3. strip' \in [Message -> Seq(Tile)] /\ faults' \subseteq Hook
    BY <1>3, <1>6 DEF SignatureTyped
  <2>4. SignatureTyped'
    BY <1>1, <2>1, <2>2, <2>3, Owned, HookTyped DEF mvars, SignatureTyped
  <2>5. HookKnown(Ended, h, ran[SessionOfHook(h)])
    BY Owned DEF HookKnown
  <2>6. KnownInv'
    BY <1>1, <1>4, <2>1, <2>5, Owned, HookKnows DEF mvars
  <2>7. LineInv'
    BY <1>1, <1>6, Owned, MovesUp
  <2> QED BY <2>4, <2>6, <2>7
<1> QED BY <1>5, <1>6 DEF AddReaction, with

LEMMA SteadyRestart ==
  ASSUME SignatureInv, PluginRestarts
  PROVE  SignatureInv'
<1> USE DEF SignatureInv
<1>1. LineInv'
  BY StartsOver
<1> DEFINE Lost == [Fresh EXCEPT !.pc = "lost"]
<1>2. Lost \in HookState /\ Lost.pc = "lost" /\ ~Lost.knew
  <2>1. <<>> \in Seq(Tile) /\ "lost" \in Positions /\ None \in MaybeProv
    BY DEF Positions, MaybeProv
  <2> QED BY <2>1 DEF Fresh, HookState
<1>3. \A h \in Hook : hook'[h] = IF hook[h].pc \in {"idle", "done"} THEN hook[h] ELSE Lost
  BY DEF PluginRestarts
<1>4. hook' = [h \in Hook |-> IF hook[h].pc \in {"idle", "done"} THEN hook[h] ELSE Lost]
  BY DEF PluginRestarts
<1> HIDE DEF Lost
<1>5. hook' \in [Hook -> HookState]
  BY <1>2, <1>4 DEF SignatureTyped
<1>6. SignatureTyped'
  BY <1>2, <1>3, <1>5 DEF SignatureTyped, PluginRestarts, MaybeProv
<1>7. KnownInv'
  BY <1>2, <1>3 DEF KnownInv, PluginRestarts, OfSession, SessionOfHook, SignatureTyped
<1> QED BY <1>1, <1>6, <1>7

\* Every step of the plugin, and of the gateway it runs in, keeps the invariant.
LEMMA SignatureSteady ==
  ASSUME SignatureInv, [SignatureNext]_svars
  PROVE  SignatureInv'
<1>1. CASE UNCHANGED svars
  <2>1. LineInv'
    BY <1>1, Undisturbed DEF SignatureInv, svars, hvars
  <2> QED BY <1>1, <2>1 DEF SignatureInv, SignatureTyped, KnownInv, OfSession, SessionOfHook, svars, mvars, hvars
<1>2. CASE Learning
  BY <1>2, SteadyLearning
<1>3. CASE Signing
  BY <1>3, SteadyLookup, SteadyLoad, SteadyRemember, SteadyQueue, SteadyAddReaction DEF Signing
<1>4. CASE PluginRestarts
  BY <1>4, SteadyRestart
<1> QED BY <1>1, <1>2, <1>3, <1>4 DEF SignatureNext

\* The invariant of the run-signature plugin holds throughout.
THEOREM SignatureInductive == SignatureSpec => []SignatureInv
  BY SignatureBegins, SignatureSteady, PTL DEF SignatureSpec

\* Two strips of one message are never written at the same time, for any number of hooks and messages and
\* through every restart of the gateway.
THEOREM OneStrip == SignatureSpec => []OneStripAtATime
<1>1. SignatureInv => OneStripAtATime
  <2> SUFFICES ASSUME SignatureInv, NEW h \in Hook, NEW g \in Hook, MessageOf[h] = MessageOf[g],
                      At(h, "adding"), At(g, "adding")
               PROVE  h = g
    BY DEF OneStripAtATime
  <2>1. PICK q \in Seq(Hook) : Line(MessageOf[h], q)
    BY Owned DEF SignatureInv, LineInv
  <2>2. Turn(h) /\ Turn(g)
    BY DEF Turn
  <2> QED BY <2>1, <2>2, Owned, FirstOnly DEF SignatureInv
<1> QED BY <1>1, SignatureInductive, PTL

\* A message is signed with a model of its own session whenever anything was known of it.
THEOREM SignedRight == SignatureSpec => []SignedByItsSession
<1>1. SignatureInv => SignedByItsSession
  BY Owned DEF SignatureInv, KnownInv, SignedByItsSession, OfSession
<1> QED BY <1>1, SignatureInductive, PTL

-----------------------------------------------------------------------------
(* What start_work_thread leaves unsigned *)

Stages == {"idle", "root", "brief", "clear", "session", "run", "answered", "failed", "lost"}

\* Calls are at a stage, and only posts of calls and answers of models are sent.
WorkTyped ==
  /\ tool \in [Call -> Stages] /\ started \subseteq Call
  /\ sent \subseteq Outgoing /\ shown \subseteq sent
  /\ seen \subseteq shown /\ signing \subseteq Outgoing /\ signed \subseteq Outgoing

GaveUp == {"failed", "lost"}

\* A call goes on only with what Slack shows of it.
ProgressInv ==
  \A c \in Call :
    /\ tool[c] = "idle" => Root(c) \notin sent
    /\ tool[c] \in {"idle", "root"} => Brief(c) \notin sent
    /\ tool[c] \in {"brief", "clear", "session", "run", "answered"} => Root(c) \in shown
    /\ tool[c] \in {"clear", "session", "run", "answered"} => Brief(c) \in shown

\* The text of a post whose hook is still to come is expected, as long as its call goes on and no other hook
\* took the text; no other hook of a posting signs.
ExpectedInv ==
  /\ \A p \in (sent \ seen) \cap Posting : TextOf[p] \in expected \/ tool[p[1]] \in GaveUp \/ p \in overtaken
  /\ \A p \in (signing \cup signed) \cap Posting : tool[p[1]] \in GaveUp \/ p \in overtaken

\* A post is overtaken by another one with its text.
OvertakenInv == \A p \in overtaken : p \in Outgoing /\ \E q \in Outgoing \ {p} : TextOf[q] = TextOf[p]

WorkInv == WorkTyped /\ ProgressInv /\ ExpectedInv /\ OvertakenInv

LEMMA Posts ==
  /\ \A c \in Call : Root(c) \in Posting /\ Brief(c) \in Posting
  /\ \A c \in Call : Root(c)[1] = c /\ Brief(c)[1] = c
  /\ \A c, d \in Call : Root(c) # Brief(d)
  /\ \A p \in Posting : p[1] \in Call /\ (p = Root(p[1]) \/ p = Brief(p[1]))
  BY DEF Posting, Part, Root, Brief

LEMMA Postings == Posting \subseteq Outgoing /\ Reply \subseteq Outgoing /\ \A r \in Reply : r \notin Posting
  BY RepliesAreNotPosted DEF Outgoing

LEMMA WorkBegins == WorkInit => WorkInv
  BY DEF WorkInit, WorkInv, WorkTyped, ProgressInv, ExpectedInv, OvertakenInv, Stages

LEMMA WorkSteady == WorkInv /\ [WorkNext]_wvars => WorkInv'
<1> SUFFICES ASSUME WorkInv, [WorkNext]_wvars PROVE WorkInv'
  OBVIOUS
<1> USE DEF WorkInv, GaveUp, Stages
<1>1. ASSUME NEW c \in Call, PostRoot(c) PROVE WorkInv'
  <2>1. WorkTyped' /\ OvertakenInv'
    BY <1>1, Posts, Postings DEF PostRoot, ToolGoes, Send, WorkTyped, OvertakenInv
  <2>4. ProgressInv'
    BY <1>1, Posts DEF WorkTyped, PostRoot, ToolGoes, Send, ProgressInv
  <2>2. ASSUME NEW p \in (sent' \ seen') \cap Posting
        PROVE  TextOf[p] \in expected' \/ tool'[p[1]] \in GaveUp \/ p \in overtaken'
    BY <1>1, <2>2, Posts DEF PostRoot, ToolGoes, Send, WorkTyped, ProgressInv, ExpectedInv
  <2>3. ASSUME NEW p \in (signing' \cup signed') \cap Posting
        PROVE  tool'[p[1]] \in GaveUp \/ p \in overtaken'
    BY <1>1, <2>3, Posts DEF PostRoot, ToolGoes, Send, WorkTyped, ProgressInv, ExpectedInv
  <2> QED BY <2>1, <2>2, <2>3, <2>4 DEF ExpectedInv
<1>2. ASSUME NEW c \in Call, PostBrief(c) PROVE WorkInv'
  <2>1. WorkTyped' /\ OvertakenInv'
    BY <1>2, Posts, Postings DEF PostBrief, ToolGoes, Send, WorkTyped, OvertakenInv
  <2>4. ProgressInv'
    BY <1>2, Posts DEF WorkTyped, PostBrief, ToolGoes, Send, ProgressInv
  <2>2. ASSUME NEW p \in (sent' \ seen') \cap Posting
        PROVE  TextOf[p] \in expected' \/ tool'[p[1]] \in GaveUp \/ p \in overtaken'
    BY <1>2, <2>2, Posts DEF PostBrief, ToolGoes, Send, WorkTyped, ProgressInv, ExpectedInv
  <2>3. ASSUME NEW p \in (signing' \cup signed') \cap Posting
        PROVE  tool'[p[1]] \in GaveUp \/ p \in overtaken'
    BY <1>2, <2>3, Posts DEF PostBrief, ToolGoes, Send, WorkTyped, ProgressInv, ExpectedInv
  <2> QED BY <2>1, <2>2, <2>3, <2>4 DEF ExpectedInv
<1>3. ASSUME NEW c \in Call, BriefPosted(c) PROVE WorkInv'
  BY <1>3, Posts, Postings DEF WorkTyped, ProgressInv, ExpectedInv, OvertakenInv, BriefPosted, ToolGoes
<1>4. ASSUME NEW c \in Call, ClearScaffold(c) PROVE WorkInv'
  BY <1>4, Posts, Postings DEF WorkTyped, ProgressInv, ExpectedInv, OvertakenInv, ClearScaffold, ToolGoes
<1>5. ASSUME NEW c \in Call, CreateWorkSession(c) \/ StartWork(c) PROVE WorkInv'
  BY <1>5, Posts, Postings DEF WorkTyped, ProgressInv, ExpectedInv, OvertakenInv, CreateWorkSession, StartWork, ToolGoes
<1>6. ASSUME NEW c \in Call, ToolFails(c) PROVE WorkInv'
  BY <1>6, Posts, Postings DEF WorkTyped, ProgressInv, ExpectedInv, OvertakenInv, ToolFails, ToolGoes
<1>7. ASSUME NEW p \in Outgoing, Lands(p) PROVE WorkInv'
  BY <1>7, Posts, Postings DEF WorkTyped, ProgressInv, ExpectedInv, OvertakenInv, Lands
<1>8. ASSUME NEW p \in Outgoing, MessageSent(p) PROVE WorkInv'
  <2>1. WorkTyped' /\ ProgressInv'
    BY <1>8 DEF MessageSent, WorkTyped, ProgressInv
  <2>2. OvertakenInv'
    BY <1>8 DEF MessageSent, WorkTyped, OvertakenInv
  <2>3. ASSUME NEW q \in (sent' \ seen') \cap Posting
        PROVE  TextOf[q] \in expected' \/ tool'[q[1]] \in GaveUp \/ q \in overtaken'
    BY <1>8, <2>3 DEF MessageSent, WorkTyped, ExpectedInv
  <2>4. ASSUME NEW q \in (signing' \cup signed') \cap Posting
        PROVE  tool'[q[1]] \in GaveUp \/ q \in overtaken'
    BY <1>8, <2>4 DEF MessageSent, WorkTyped, ExpectedInv
  <2> QED BY <2>1, <2>2, <2>3, <2>4 DEF ExpectedInv
<1>9. ASSUME NEW p \in Outgoing, Sign(p) PROVE WorkInv'
  BY <1>9, Posts, Postings DEF WorkTyped, ProgressInv, ExpectedInv, OvertakenInv, Sign
<1>12. ASSUME NEW r \in Reply, ModelReplies(r) PROVE WorkInv'
  BY <1>12, Posts, Postings DEF WorkTyped, ProgressInv, ExpectedInv, OvertakenInv, ModelReplies
<1>10. CASE ToolRestarts
  <2>1. /\ tool' \in [Call -> Stages] /\ WorkTyped'
        /\ \A c \in Call : (tool[c] = tool'[c] /\ tool[c] \in {"idle", "answered", "failed"}) \/ tool'[c] = "lost"
    BY <1>10 DEF ToolRestarts, WorkTyped
  <2>2. ProgressInv'
    BY <1>10, <2>1 DEF ToolRestarts, ProgressInv
  <2>3. ASSUME NEW p \in (sent \ seen') \cap Posting PROVE tool'[p[1]] \in GaveUp
    <3>1. p \notin shown /\ p[1] \in Call /\ (p = Root(p[1]) \/ p = Brief(p[1]))
      BY <1>10, <2>3, Posts DEF ToolRestarts, WorkTyped
    <3>2. tool[p[1]] \notin {"idle", "answered"}
      BY <2>3, <3>1 DEF ProgressInv, WorkTyped
    <3> QED BY <2>1, <3>1, <3>2
  <2>4. \A p \in signed \cap Posting : tool'[p[1]] \in GaveUp \/ p \in overtaken
    BY <1>10, <2>1, Posts DEF ToolRestarts, ExpectedInv
  <2>5. OvertakenInv'
    BY <1>10 DEF ToolRestarts, OvertakenInv
  <2> QED BY <1>10, <2>1, <2>2, <2>3, <2>4, <2>5 DEF ToolRestarts, ExpectedInv
<1>11. CASE UNCHANGED wvars
  BY <1>11 DEF wvars, WorkTyped, ProgressInv, ExpectedInv, OvertakenInv
<1> QED BY <1>1, <1>2, <1>3, <1>4, <1>5, <1>6, <1>7, <1>8, <1>9, <1>10, <1>11, <1>12 DEF WorkNext

\* The invariant of start_work_thread holds throughout.
THEOREM WorkInductive == WorkSpec => []WorkInv
  BY WorkBegins, WorkSteady, PTL DEF WorkSpec

\* A post of the scaffold is signed only after its call gave up or was lost, or after another post with its
\* text took the expectation, for any number of calls, any texts and through every restart of the gateway.
THEOREM Unsigned == WorkSpec => []ScaffoldIsUnsigned
<1>1. WorkInv => ScaffoldIsUnsigned
  BY DEF WorkInv, ExpectedInv, GaveUp, ScaffoldIsUnsigned
<1> QED BY <1>1, WorkInductive, PTL

\* No two posts have the same text.
TextsDiffer == \A p, q \in Outgoing : TextOf[p] = TextOf[q] => p = q

\* Where texts differ nothing is overtaken: a post of the scaffold whose call goes on is not signed
\* (plugin-runtime.mjs:346).
THEOREM UnsignedWhenTextsDiffer ==
  ASSUME TextsDiffer
  PROVE  WorkSpec => [](\A p \in signed \cap Posting : tool[p[1]] \in GaveUp)
<1>1. WorkInv => \A p \in signed \cap Posting : tool[p[1]] \in GaveUp
  BY TextsDiffer DEF WorkInv, ExpectedInv, OvertakenInv, TextsDiffer
<1> QED BY <1>1, WorkInductive, PTL

=============================================================================
