------------------------------- MODULE Cutover -------------------------------
(***************************************************************************)
(* How a new runtime replaces the running one: scripts/deploy-once.py      *)
(* launches a job, openclaw-deploy.sh runs it, openclaw-cutover.sh         *)
(* prepares and activates, openclaw-package-transaction.py swaps the       *)
(* package, runtime-restart-guard.sh spends the approval.                  *)
(*                                                                         *)
(* Nothing keeps two jobs apart.  A command may fail, a signal may end it  *)
(* before the script has noted its effect, and a job may be killed.        *)
(***************************************************************************)
EXTENDS Naturals, FiniteSets

CONSTANTS
  Job,         \* deployments; one is also the name of its build and of the approval of its launch
  Older,       \* builds from before, each with those that are older
  Base,        \* the build that runs at first
  Pins,        \* what a build may pin: the version of the package and its patch set
  BasePin,
  Overriding,  \* approvals that allow active sessions
  Keep,        \* builds that prune keeps beside the current one
  None

ASSUME CutoverAssumption ==
  /\ None \notin Job /\ Base \notin Job \cup DOMAIN Older /\ Job \cap DOMAIN Older = {} /\ Keep \in Nat \ {0}
  /\ \A p \in Pins \cup {BasePin} : p = [version |-> p.version, patches |-> p.patches]

VARIABLES
  launch,      \* where the launcher of a job is
  wake,        \* jobs for which a durable check is scheduled
  approval,    \* the file of an approval
  pc,          \* where a job is
  using,       \* the approval a job was given
  supervised,  \* jobs started by their launch
  active,      \* jobs that found sessions they could not drain
  pin,         \* what the build of a job pins
  builds,      \* the builds on disk, each with those that were older
  transactions,\* the transaction directories on disk, likewise
  link,        \* the build that current points at
  package,     \* the installed package, None while there is none
  config,      \* the build of the live configuration
  workspace,   \* the build of the workspace projections
  gateway,     \* "up", "suspended" or "down"
  saved,       \* what a job put aside for its rollback
  stock,       \* jobs that need the package in stock text
  flags,       \* what a job noted to have done
  clean,       \* history: no job met another, or was killed once it had begun to activate
  adrift,      \* history: the live parts that a command left as no note or undo accounts for
  last,        \* history: the build activated last
  hindered     \* history: jobs of which a command failed

disk  == <<builds, transactions>>
live  == <<link, package, config, workspace, gateway>>
trust == <<launch, wake, approval>>
own   == <<using, supervised, active, pin>>
notes == <<saved, stock, flags>>
kvars == <<trust, own, pc, disk, live, notes, clean, adrift, last, hindered>>

Added(b, directory) == [c \in DOMAIN directory \cup {b} |-> IF c = b THEN DOMAIN directory ELSE directory[c]]

Nothing == [link |-> None, config |-> None, workspace |-> None, package |-> None]

CutoverInit ==
  /\ launch = [j \in Job |-> "idle"] /\ wake = {}
  /\ approval = [j \in Job |-> "none"]
  /\ pc = [j \in Job |-> "idle"] /\ using = [j \in Job |-> None]
  /\ supervised = {} /\ active = {} /\ pin \in [Job -> Pins]
  /\ builds = Added(Base, Older) /\ transactions = Added(Base, Older)
  /\ link = Base /\ config = Base /\ workspace = Base /\ package = BasePin /\ gateway = "up"
  /\ saved = [j \in Job |-> Nothing] /\ stock = {} /\ flags = [j \in Job |-> {}]
  /\ clean = TRUE /\ adrift = {} /\ last = Base /\ hindered = {}

PinOf(b) == IF b \in Job THEN pin[b] ELSE BasePin
OnDisk(b, directory) == b \in DOMAIN directory

Ended == {"failed", "refused", "active", "rolledback", "dead"}
Busy(j) == pc[j] \notin Ended \cup {"idle"}

At(j, here) == pc[j] = here
Goto(j, there) == pc' = [pc EXCEPT ![j] = there]

-----------------------------------------------------------------------------
(* The launcher, inside an agent's session *)

WriteApproval(j) ==
  /\ launch[j] = "idle" /\ At(j, "idle")
  /\ launch' = [launch EXCEPT ![j] = "approved"]
  /\ approval' = [approval EXCEPT ![j] = "pending"]
  /\ UNCHANGED <<wake, own, pc, disk, live, notes, clean, adrift, last, hindered>>

\* A job begins; from here on two of them may be in each other's way.
Begin(j, a) ==
  /\ At(j, "idle") /\ Goto(j, "prune")
  /\ using' = [using EXCEPT ![j] = a]
  /\ clean' = (clean /\ \A k \in Job : ~Busy(k))

\* Mutant: the job is submitted before the check is scheduled.
SubmitFirst(j) ==
  /\ launch[j] = "approved"
  /\ Begin(j, j) /\ supervised' = supervised \cup {j}
  /\ UNCHANGED <<trust, active, pin, disk, live, notes, adrift, last, hindered>>

\* The check is scheduled before the job; a call that fails may have scheduled it all the same, but names
\* nothing to cancel.
ScheduleWake(j) ==
  /\ launch[j] = "approved"
  /\ \/ wake' = wake \cup {j} /\ launch' = [launch EXCEPT ![j] = "watched"]
     \/ wake' \in {wake, wake \cup {j}} /\ launch' = [launch EXCEPT ![j] = "unlinking"]
  /\ UNCHANGED <<approval, own, pc, disk, live, notes, clean, adrift, last, hindered>>

\* bootstrap: launchd starts the job, and may report an error although it did.
Submit(j) ==
  /\ launch[j] = "watched"
  /\ \/ /\ Begin(j, j) /\ supervised' = supervised \cup {j}
        /\ launch' \in {[launch EXCEPT ![j] = "submitted"], [launch EXCEPT ![j] = "failing"]}
     \/ /\ launch' = [launch EXCEPT ![j] = "failing"]
        /\ UNCHANGED <<pc, using, supervised, clean>>
  /\ UNCHANGED <<wake, approval, active, pin, disk, live, notes, adrift, last, hindered>>

\* cancel_wake: the wake goes, or the command fails and it stays; either way the approval is next.
CancelWake(j) ==
  /\ launch[j] = "failing"
  /\ launch' = [launch EXCEPT ![j] = "unlinking"]
  /\ wake' \in {wake, wake \ {j}}
  /\ UNCHANGED <<approval, own, pc, disk, live, notes, clean, adrift, last, hindered>>

\* The approval is removed if it is still there.
Unlink(j) ==
  /\ launch[j] = "unlinking"
  /\ launch' = [launch EXCEPT ![j] = "telling"]
  /\ approval' = [approval EXCEPT ![j] = IF @ = "consumed" THEN @ ELSE "withdrawn"]
  /\ UNCHANGED <<wake, own, pc, disk, live, notes, clean, adrift, last, hindered>>

\* The error reaches whoever launched.
TellFailure(j) ==
  /\ launch[j] = "telling"
  /\ launch' = [launch EXCEPT ![j] = "failed"]
  /\ UNCHANGED <<wake, approval, own, pc, disk, live, notes, clean, adrift, last, hindered>>

\* The launcher ends with its session, which the stopping gateway takes along: with the wake in place, or
\* cut off on its way from cancelling it to telling.
LauncherDies(j) ==
  /\ \/ launch[j] \in {"approved", "watched", "failing"} /\ launch' = [launch EXCEPT ![j] = "dead"]
     \/ launch[j] \in {"unlinking", "telling"} /\ launch' = [launch EXCEPT ![j] = "cut"]
  /\ UNCHANGED <<wake, approval, own, pc, disk, live, notes, clean, adrift, last, hindered>>

\* Thirty minutes pass.
Expire(j) ==
  /\ approval[j] = "pending"
  /\ approval' = [approval EXCEPT ![j] = "expired"]
  /\ UNCHANGED <<launch, wake, own, pc, disk, live, notes, clean, adrift, last, hindered>>

\* check: without a supervisor a human runs the script, with whatever approval file he names.
StartByHand(j) ==
  /\ launch[j] = "idle"
  /\ \E a \in Job : approval[a] # "none" /\ Begin(j, a)
  /\ UNCHANGED <<trust, supervised, active, pin, disk, live, notes, adrift, last, hindered>>

-----------------------------------------------------------------------------
(* prepare *)

\* The command of a job fails, and the script with it.
Fails(j) ==
  /\ Goto(j, "failed") /\ hindered' = hindered \cup {j}
  /\ UNCHANGED <<trust, own, disk, live, notes, clean, adrift, last>>

\* What is spared stays and does not count, and of the others the newest stay.
Pruned(directory, spared) ==
  LET others == DOMAIN directory \ spared
      stays == {b \in DOMAIN directory : b \in others => Cardinality({c \in others : b \in directory[c]}) < Keep}
  IN  [b \in stays |-> directory[b] \cap stays]

\* grep finds nothing to list when the current build is the only one, and the script ends there.
Prune(j) ==
  /\ At(j, "prune")
  /\ IF DOMAIN builds \subseteq {link}
     THEN Goto(j, "failed") /\ UNCHANGED disk
     ELSE /\ builds' = Pruned(builds, {link}) /\ transactions' = Pruned(transactions, {})
          /\ Goto(j, "build")
  /\ UNCHANGED <<trust, own, live, notes, clean, adrift, last, hindered>>

\* build-runtime moves a finished build to its place.
Build(j) ==
  /\ At(j, "build")
  /\ \/ /\ builds' = Added(j, builds) /\ Goto(j, "stage")
        /\ UNCHANGED <<trust, own, transactions, live, notes, clean, adrift, last, hindered>>
     \/ Fails(j)

\* The package is staged and the configuration validated against it.
Stage(j) ==
  /\ At(j, "stage")
  /\ transactions' = Added(j, transactions)
  /\ \/ Goto(j, "suspend") /\ UNCHANGED hindered
     \/ Goto(j, "failed") /\ hindered' = hindered \cup {j}
  /\ UNCHANGED <<trust, own, builds, live, notes, clean, adrift, last>>

-----------------------------------------------------------------------------
(* activate, up to the point of no return *)

\* A gateway that is down has no sessions; one that does not drain in time has them still, and the
\* suspension may take hold or not.
Suspend(j) ==
  /\ At(j, "suspend")
  /\ \/ /\ OnDisk(j, builds) /\ OnDisk(j, transactions)
        /\ \/ gateway = "down" /\ UNCHANGED <<gateway, active>>
           \/ gateway # "down" /\ gateway' = "suspended" /\ UNCHANGED active
           \/ gateway # "down" /\ active' = active \cup {j} /\ gateway' \in {gateway, "suspended"}
        /\ Goto(j, "verify")
        /\ UNCHANGED <<trust, using, supervised, pin, disk, link, package, config, workspace, notes, clean, adrift, last, hindered>>
     \/ Fails(j)

\* The EXIT trap of this stretch resumes the gateway; that this fails is not even reported.
Refuse(j) ==
  /\ Goto(j, "refused")
  /\ \/ gateway = "suspended" /\ gateway' = "up" /\ adrift' = adrift \ {"gateway"}
     \/ gateway = "suspended" /\ UNCHANGED gateway /\ adrift' = adrift \cup {"gateway"}
     \/ gateway # "suspended" /\ UNCHANGED <<gateway, adrift>>
  /\ UNCHANGED <<link, package, config, workspace>>

\* verify: a freeze, an unfit approval or sessions it does not override refuse the restart.
Verify(j) ==
  /\ At(j, "verify")
  /\ \/ /\ approval[using[j]] = "pending" /\ (j \in active => using[j] \in Overriding)
        /\ Goto(j, "consume") /\ UNCHANGED <<live, adrift>>
     \/ Refuse(j)
  /\ UNCHANGED <<trust, own, disk, notes, clean, last, hindered>>

\* Mutant: the approval is copied.
CopyApproval(j) ==
  /\ At(j, "consume") /\ Goto(j, "snapshot")
  /\ UNCHANGED <<trust, own, disk, live, notes, clean, adrift, last, hindered>>

\* consume: the file is renamed, which fails when it is gone; the report may fail before and after that.
Consume(j) ==
  /\ At(j, "consume")
  /\ \/ /\ approval[using[j]] \in {"pending", "expired"}
        /\ approval' = [approval EXCEPT ![using[j]] = "consumed"]
        /\ \/ Goto(j, "snapshot") /\ UNCHANGED <<live, adrift>>
           \/ Refuse(j)
     \/ Refuse(j) /\ UNCHANGED approval
  /\ UNCHANGED <<launch, wake, own, disk, notes, clean, last, hindered>>

\* The running build and the configuration are noted; a changed patch set needs stock text.
Snapshot(j) ==
  /\ At(j, "snapshot")
  /\ \/ /\ saved' = [saved EXCEPT ![j].link = link, ![j].config = config]
        /\ stock' = IF OnDisk(link, builds) /\ PinOf(link).patches = pin[j].patches
                    THEN stock ELSE stock \cup {j}
        /\ Goto(j, "stop") /\ UNCHANGED <<live, adrift, flags>>
     \/ Refuse(j) /\ UNCHANGED notes
  /\ UNCHANGED <<trust, own, disk, clean, last, hindered>>

-----------------------------------------------------------------------------
(* activate, under the rollback trap *)

\* What the step did is noted in a variable of the script.
Noted(j, flag, there) ==
  /\ flags' = [flags EXCEPT ![j] = @ \cup {flag}]
  /\ Goto(j, there) /\ UNCHANGED <<adrift, hindered>>

\* The script exits with an error, and its trap begins the rollback.
Rollback(j) == Goto(j, "undo") /\ hindered' = hindered \cup {j}

\* A part is changed, but a signal or an error keeps the script from noting it.
CutOff(j, part) == Rollback(j) /\ adrift' = adrift \cup {part} /\ UNCHANGED flags

Stop(j) ==
  /\ At(j, "stop")
  /\ flags' = [flags EXCEPT ![j] = {"started"}]
  /\ \/ gateway' = "down" /\ Goto(j, "install") /\ UNCHANGED hindered
     \/ gateway' \in {gateway, "down"} /\ Rollback(j)
  /\ UNCHANGED <<trust, own, disk, link, package, config, workspace, saved, stock, clean, adrift, last>>

\* install: the same version stays, unless stock text is needed; the other one is put aside first.
Retain(j) ==
  /\ At(j, "install")
  /\ \/ /\ package # None /\ package.version = pin[j].version /\ j \notin stock
        /\ Goto(j, "config") /\ UNCHANGED <<package, saved, hindered>>
     \/ /\ package # None /\ (package.version # pin[j].version \/ j \in stock) /\ OnDisk(j, transactions)
        /\ saved' = [saved EXCEPT ![j].package = package] /\ package' = None
        /\ Goto(j, "swap") /\ UNCHANGED hindered
     \/ Rollback(j) /\ UNCHANGED <<package, saved>>
  /\ UNCHANGED <<trust, own, disk, link, config, workspace, gateway, stock, flags, clean, adrift, last>>

\* Mutant: only a change of version is noted, as installed.json calls it.
SwapChanged(j) ==
  /\ At(j, "swap") /\ package = None
  /\ package' = [version |-> pin[j].version, patches |-> "stock"]
  /\ IF package'.version # saved[j].package.version
     THEN Noted(j, "package", "config")
     ELSE Goto(j, "config") /\ UNCHANGED <<flags, adrift, hindered>>
  /\ UNCHANGED <<trust, own, disk, link, config, workspace, gateway, saved, stock, clean, last>>

\* The staged package takes the place; if it cannot, the other one returns, unless that fails too.
Swap(j) ==
  /\ At(j, "swap")
  /\ \/ /\ package = None /\ package' = [version |-> pin[j].version, patches |-> "stock"]
        /\ Noted(j, "package", "config") \/ CutOff(j, "package")
        /\ UNCHANGED saved
     \/ package = None /\ CutOff(j, "package") /\ UNCHANGED <<package, saved>>
     \/ /\ package = None /\ package' = saved[j].package
        /\ saved' = [saved EXCEPT ![j].package = None]
        /\ Rollback(j) /\ UNCHANGED <<flags, adrift>>
     \/ package # None /\ Rollback(j) /\ UNCHANGED <<package, saved, flags, adrift>>
  /\ UNCHANGED <<trust, own, disk, link, config, workspace, gateway, stock, clean, last>>

\* cp writes in place: one that fails may leave a part.
CopyConfig(j) ==
  /\ At(j, "config")
  /\ \/ config' = j /\ (Noted(j, "config", "patch") \/ CutOff(j, "config"))
     \/ config' = "partial" /\ CutOff(j, "config")
     \/ Rollback(j) /\ UNCHANGED <<config, flags, adrift>>
  /\ UNCHANGED <<trust, own, disk, link, package, workspace, gateway, saved, stock, clean, last>>

\* Plugins are updated and patches applied one after the other to stock text, or again to patched text.
Patch(j) ==
  /\ At(j, "patch")
  /\ \/ /\ package # None /\ package.patches \in {"stock", pin[j].patches}
        /\ package' = [package EXCEPT !.patches = pin[j].patches]
        /\ Goto(j, "project") /\ UNCHANGED hindered
     \/ /\ \/ UNCHANGED package
           \/ package # None /\ package.patches # pin[j].patches /\ package' = [package EXCEPT !.patches = "mixed"]
        /\ Rollback(j)
  /\ UNCHANGED <<trust, own, disk, link, config, workspace, gateway, notes, clean, adrift, last>>

\* applyWorkspaceContext takes back what it listed when it fails; the file in hand is not listed yet.
Project(j) ==
  /\ At(j, "project")
  /\ \/ /\ workspace' = j /\ saved' = [saved EXCEPT ![j].workspace = workspace]
        /\ Noted(j, "workspace", "switch") \/ CutOff(j, "workspace")
     \/ workspace' = "partial" /\ CutOff(j, "workspace") /\ UNCHANGED saved
     \/ Rollback(j) /\ UNCHANGED <<workspace, saved, flags, adrift>>
  /\ UNCHANGED <<trust, own, disk, link, package, config, gateway, stock, clean, last>>

\* The new link is renamed over the old one.
Switch(j) ==
  /\ At(j, "switch")
  /\ \/ link' = j /\ (Noted(j, "runtime", "start") \/ CutOff(j, "link"))
     \/ Rollback(j) /\ UNCHANGED <<link, flags, adrift>>
  /\ UNCHANGED <<trust, own, disk, package, config, workspace, gateway, saved, stock, clean, last>>

StartGateway(j) ==
  /\ At(j, "start")
  /\ \/ gateway' = "up" /\ Goto(j, "health") /\ UNCHANGED hindered
     \/ gateway' \in {gateway, "up"} /\ Rollback(j)
  /\ UNCHANGED <<trust, own, disk, link, package, config, workspace, notes, clean, adrift, last>>

\* The gateway answers one of twelve calls, or none. By now every part is claimed to be of the new build.
Health(j) ==
  /\ At(j, "health")
  /\ \/ gateway = "up" /\ Goto(j, "active") /\ last' = j /\ adrift' = {} /\ UNCHANGED hindered
     \/ Rollback(j) /\ UNCHANGED <<last, adrift>>
  /\ UNCHANGED <<trust, own, disk, live, notes, clean>>

-----------------------------------------------------------------------------
(* rollback: every noted step is undone, and a command that fails is passed over *)

\* The command that puts a part back works, or fails and leaves the part adrift.
Unfit(part) == adrift' = adrift \cup {part}

UndoStop(j) ==
  /\ At(j, "undo") /\ Goto(j, "undo_workspace")
  /\ gateway' \in {gateway, "down"}
  /\ UNCHANGED <<trust, own, disk, link, package, config, workspace, notes, clean, adrift, last, hindered>>

UndoWorkspace(j) ==
  /\ At(j, "undo_workspace") /\ Goto(j, "undo_config")
  /\ IF "workspace" \in flags[j]
     THEN \/ workspace' = saved[j].workspace /\ UNCHANGED adrift
          \/ workspace' \in {workspace, "partial"} /\ Unfit("workspace")
     ELSE UNCHANGED <<workspace, adrift>>
  /\ UNCHANGED <<trust, own, disk, link, package, config, gateway, notes, clean, last, hindered>>

UndoConfig(j) ==
  /\ At(j, "undo_config") /\ Goto(j, "undo_package")
  /\ IF "config" \in flags[j]
     THEN \/ config' = saved[j].config /\ UNCHANGED adrift
          \/ config' \in {config, "partial"} /\ Unfit("config")
     ELSE UNCHANGED <<config, adrift>>
  /\ UNCHANGED <<trust, own, disk, link, package, workspace, gateway, notes, clean, last, hindered>>

\* restore: the failed package goes aside, and the retained one takes its place.
UndoPackage(j) ==
  /\ At(j, "undo_package") /\ Goto(j, "undo_link")
  /\ IF "package" \in flags[j]
     THEN \/ OnDisk(j, transactions) /\ package' = saved[j].package /\ UNCHANGED adrift
          \/ package' \in {package, None} /\ Unfit("package")
     ELSE UNCHANGED <<package, adrift>>
  /\ UNCHANGED <<trust, own, disk, link, config, workspace, gateway, notes, clean, last, hindered>>

UndoLink(j) ==
  /\ At(j, "undo_link") /\ Goto(j, "undo_start")
  /\ IF "runtime" \in flags[j]
     THEN \/ link' = saved[j].link /\ UNCHANGED adrift
          \/ UNCHANGED link /\ Unfit("link")
     ELSE UNCHANGED <<link, adrift>>
  /\ UNCHANGED <<trust, own, disk, package, config, workspace, gateway, notes, clean, last, hindered>>

UndoStart(j) ==
  /\ At(j, "undo_start") /\ Goto(j, "rolledback")
  /\ \/ gateway' = "up" /\ adrift' = adrift \ {"gateway"}
     \/ UNCHANGED gateway /\ Unfit("gateway")
  /\ UNCHANGED <<trust, own, disk, link, package, config, workspace, notes, clean, last, hindered>>

\* A power failure, or a signal the script cannot catch; harmless while it only prepares.
Kill(j) ==
  /\ Busy(j) /\ Goto(j, "dead")
  /\ clean' = (clean /\ pc[j] \in {"prune", "build", "stage"})
  /\ hindered' = hindered \cup {j}
  /\ UNCHANGED <<trust, own, disk, live, notes, adrift, last>>

-----------------------------------------------------------------------------
Launches(j) ==
  \/ WriteApproval(j) \/ ScheduleWake(j) \/ Submit(j) \/ CancelWake(j) \/ Unlink(j) \/ TellFailure(j)
  \/ LauncherDies(j) \/ Expire(j) \/ StartByHand(j)

Prepares(j) == Prune(j) \/ Build(j) \/ Stage(j)

Activates(j) ==
  \/ Suspend(j) \/ Verify(j) \/ Consume(j) \/ Snapshot(j)
  \/ Stop(j) \/ Retain(j) \/ Swap(j) \/ CopyConfig(j) \/ Patch(j) \/ Project(j) \/ Switch(j)
  \/ StartGateway(j) \/ Health(j)

Undoes(j) ==
  \/ UndoStop(j) \/ UndoWorkspace(j) \/ UndoConfig(j) \/ UndoPackage(j) \/ UndoLink(j) \/ UndoStart(j)

CutoverNext == \E j \in Job : Launches(j) \/ Prepares(j) \/ Activates(j) \/ Undoes(j) \/ Kill(j)

CutoverSpec == CutoverInit /\ [][CutoverNext]_kvars

-----------------------------------------------------------------------------
\* An approval lets one job stop the gateway, however many were started with its file and whichever of
\* them have verified it (runtime-restart-guard.sh:122, data-plane.md:72).
ApprovalIsSpentOnce ==
  \A j, k \in Job :
    "started" \in flags[j] =>
      /\ approval[using[j]] = "consumed"
      /\ "started" \in flags[k] /\ using[k] = using[j] => k = j

\* A launched job stops the gateway, and its launcher with it, only while the check that reports on it is
\* scheduled, or once its launch had failed and its launcher was past the cancelling (deploy-once.py:162-173).
\* What then tells of the cutover is that failure, which is lost when the launcher is cut off before it told.
CutoverIsWatched ==
  \A j \in supervised :
    "started" \in flags[j] => j \in wake \/ launch[j] \in {"unlinking", "telling", "failed", "cut"}

\* Between cutovers everything that runs is of the build activated last, and that build exists, whatever
\* failed and was rolled back: except the parts that a command left adrift, because it was cut off or failed
\* between its effect and the note of it, or because the command that undoes it, resumes or starts the gateway
\* failed as well. The next cutover that succeeds sets right what is adrift. Nothing is claimed once two
\* cutovers met or one was killed (openclaw-cutover.sh:18-19, runtime.md:17).
OneRuntime ==
  clean /\ (\A j \in Job : ~Busy(j)) =>
    /\ "link" \in adrift \/ (link = last /\ OnDisk(last, builds))
    /\ "config" \in adrift \/ config = last
    /\ "workspace" \in adrift \/ workspace = last
    /\ "package" \in adrift \/ "link" \in adrift \/ package = PinOf(last)
    /\ "gateway" \in adrift \/ gateway = "up"

\* A job ends early only because one of its commands failed (openclaw-cutover.sh:18).
FailsForCause == \A j \in Job : At(j, "failed") => j \in hindered
=============================================================================
