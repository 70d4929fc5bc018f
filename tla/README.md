# Formal models of Humanware OS

TLA+ models of the parts of this repository that run unattended, keep state and talk to services that
lose, repeat and delay: the email intake, the Notion comment channel, the voice intake, the projection
of Slack status to Notion, the run-signature plugin of the gateway, the calendar, the Grok bridge, the
cutover to a new runtime, and the heartbeat. TLC checks them on small instances; TLAPS proves every safety
property that a passing run checks for every value of the constants.

    tlc -config EmailOwnerThread.cfg MCEmailIntake      # one run
    tlapm EmailIntakeProofs.tla                         # one proof module

`PROJECT.json` maps every definition to the lines it models and lists runs, mutants (one plausible bug
per property that TLC must notice), hazards, findings and theorems.

## 1. The system

The repository is a framework for a personal assistant: agents live behind a gateway (external), and
services feed them, watch them and publish what they do.

| Part | State it keeps | Operations | What is hard |
|---|---|---|---|
| Email intake (`services/email-intake`, `ops/email-intake`) | SQLite: conversations, messages, effects, receipts, evidence, deliveries, faults; `request.json` files | receive a mail (HTTP or queue), drain effects to Slack and the gateway, verify ports | crash between any two commits, lost and late answers, order in a thread, altered redeliveries |
| Email lifecycle (`ops/email-intake/service.mjs`) | a conversation's state, failure, effects | handle, promote, close, fail, retry, link | orders of commands nobody tested |
| Queue consumer (`queue.mjs`) | Cloudflare ingress and dead-letter queue, dead-letter files | pull, receive, retain, acknowledge | leases that lapse, power loss between write, link and fsync |
| Notion comments (`services/notion-comments`) | ledger of comments per connection | receive an event, route, dispatch a turn, watch it, reply | restarts at every await, late replies |
| Voice intake (`services/voice-intake`) | evidence and metadata files, capture rows, `request.json` | accept an upload, transcribe, post root and transcript, dispatch one turn | partial files, lost posts, unknown admissions, queued drains |
| Slack to Notion sync (`services/slack-notion-sync`) | `state.json`, JSON-lines inputs | execute commands, handle the owner's reactions, reconcile all threads | state saved only at the end of a run, reactions and edits between read and write, query then create |
| Run-signature plugin (`ops/openclaw/plugins/run-signature`) | maps in memory: admitted runs, what is known of sessions, queued strips, texts of work threads; the session ledger | hooks of model calls, of sent messages and of runs that end; close_thread, switch_model, start_work_thread | hooks interleave at every await; writes land in any order or fail; hooks fire before the answer of a post |
| Calendar (`services/calendar`, `ops/calendar`) | one SQLite file: calendars, events, operations, audit, inbound messages | agents' tools under operation ids, invitations from mail, feeds, verified receipts | retries after others changed the event, invitations out of order, a stop between two transactions |
| Grok bridge (`services/grok-mcp`) | write-once files | record a turn, save work, propose memory, stage an artifact | concurrent calls under one id, cut-off writes, two files of one artifact |
| Cutover and deploy (`scripts/*`) | approvals, build and package directories, the `current` link, launchd jobs | launch, prepare, approve, activate, roll back | failure between two of six swaps, two jobs, an approval used twice, a launcher that dies with its gateway |
| Heartbeat (`services/observability/heartbeat`) | `state.json` written at the end of a run; incident threads in Slack | observe, restart the gateway, alert, scan the log | runs share only the file; alerts are refused; a log changes at midnight |
| Artifacts (`ops/artifacts`) | revisions, registry, one checkout, jobs in memory | create, register, publish, confirm | threads over one checkout |
| Ingest (`services/ingest`) | token cache, OAuth state, files | receive items, post with a fallback | double posts, name collisions |
| Other gateway plugins and patches, Campfire, voice agent, sharing gate, summaries | little | glue | mostly external protocols |
| Other observability, session console, backups, surfaces, renderers, schemas | reports and pages | collect, render | none of a protocol kind |

Interaction: the Cloudflare Worker enqueues mail; the intake's timer polls the queue and feeds the same
`receive` that the HTTP handler calls; `receive` runs a drain of the effects before it answers. The
email intake asks the calendar about calendar mail. All three intakes call Slack or Notion and admit
turns at the gateway, and all three survive a restart by rows they wrote before the call. The
run-signature plugin journals the owner's reactions and the agents' status commands; the status
projector reads these journals and has no other link to the rest. The cutover stops and starts the
gateway, which ends every hook and every session; the heartbeat restarts it when its checks fail.

## 2. Modules

| Module | Models | Composes |
|---|---|---|
| `EmailIntake` | `Intake.receive`, `Intake.drain`, `SessionAdapter`, `SlackAdapter`, the tables | |
| `Outbox` | abstract: items offered at most once, in lane order, settled once taken | implemented by `EmailIntake` |
| `QueueConsumer` | `QueueConsumer.poll` and `tick`, the two queues, dead-letter files | |
| `EmailPipeline` | `server.mjs`: timer, HTTP, queue and dispatcher in one process | `EmailIntake`, `QueueConsumer` |
| `EmailConversation` | the lifecycle commands of `EmailIntakeService` | |
| `NotionComments` | `Channel` over its ledger, start and stop of `server.mjs` | |
| `VoiceIntake` | `VoiceIntake.accept`, `drain`, `advance`, `SlackPoster`, the capture listener and the timer | |
| `SlackNotionSync` | `main` of `sync.mjs` with the journals of the run-signature plugin | |
| `ThreadLifecycle` | `lifecycle.mjs`, `host-close.mjs`, `close-report.mjs`: runs and closes of one thread and the session ledger | |
| `RunSignature` | `plugin-runtime.mjs`: what model calls teach, and the reactions on a sent message | |
| `WorkThread` | `work-thread-tool.mjs`: start_work_thread against the plugin's own hook | |
| `Calendar` | `CalendarService` over `store.mjs`, the tools and mail routes of `server.mjs` | |
| `GrokBridge` | the four writing tools of `bridge.mjs` | |
| `Cutover` | `deploy-once.py`, `openclaw-deploy.sh`, `openclaw-cutover.sh`, `openclaw-package-transaction.py`, `runtime-restart-guard.sh` | |
| `Heartbeat` | `heartbeat.py` | |
| `EmailIntakeProofs` | theorems about `EmailIntake`, `Outbox`, `EmailPipeline` | |
| `QueueConsumerProofs`, `NotionCommentsProofs`, `VoiceIntakeProofs`, `SlackNotionSyncProofs` | theorems about the module of that name | |
| `GatewayProofs` | theorems about `ThreadLifecycle`, `RunSignature`, `WorkThread` | |
| `ToolsProofs` | theorems about `EmailConversation`, `Calendar`, `GrokBridge` | |
| `OperationsProofs` | theorems about `Heartbeat`, `Cutover` | |
| `MC*` | constants for TLC; `MCGateway` and `MCTools` put components that share nothing into one run, one per initial state | |

How code becomes actions: every `await`, every SQLite commit and every file operation a crash can split
is one action; what runs between two of them runs in one step. A file written in place passes through a
state `"partial"`. A call to Slack, Notion or the gateway is a step that sends, a step of the
environment that takes or loses it (possibly long after the sender gave up), and a step in which the
caller hears of it or does not. Tables and files survive `Crash`; program counters, locks and in-memory
flags do not. A comment that begins with "Mutant:" marks a definition that no specification uses: a
plausible bug that a property must notice. A variable called "history" is read by properties only.

**EmailIntake.** `task` is the mail being received, or `None` in a timer tick; `pc` says where; the
serial chain (`Intake.exclusive`) is the reason there is one of each. `BeginReceive` to `CommitReceive`
store evidence, ask DKIM and the calendar and commit conversation, message and effects in one
transaction; `BeginDrain` to `EndDrain` go through the effects in rowid order, `Held` giving the
conditions under which a row is passed over, `StartDelivery` the marker before the call and `Reply`,
`NoReply`, `FindDelivery` what is learnt of it. Mail content is abstracted to the facts that decide
routing: authority, ancestry, subject key, calendar operation, rejection.

**QueueConsumer.** `where` and `leased` are the queues, `step` the position of each poll, `record` and
`pending` a dead-letter file with its temporary name, where `"linked"` may be undone by a power failure
and `"durable"` may not.

**EmailPipeline** lets both move together at the four points where one calls the other: a tick that
drained polls, a polled mail begins a receipt, the end of that receipt answers the poll, the end of the
polls ends the tick.

**EmailConversation.** One conversation, each command with the id that makes it idempotent.

**NotionComments.** A row is a comment on one agent's connection. The worker (`Channel.drain`) and one
waiter per admitted run share the rows; `AfterRestart` is `holdInterrupted`.

**VoiceIntake.** `step` is the synchronous upload (no await from the first file to the row), `pc` the
worker that takes drains from the serial chain. While an upload is between its files the worker does
not move, because it holds the thread.

**SlackNotionSync.** `human` and `held` are what the reactions of the owner and of the managed bots show
on each root, `page` the rows with who wrote them last, `disk` the state file and `mem` the copy a run
works on; `Save` replaces `disk`, `Dies` forgets `mem`. A run goes from `Begin` (events past their
debounce) over `ReadCommands` and the commands to the events, or, when there are none, to `ReadRows`,
`ReadRoots` and every root. `job` is the thread in hand with what was read of it; `RemoveReaction`,
`AddReaction` and `Project` act on that reading while the owner goes on reacting (`React`) and editing
(`Edit`). Bots are one set: which of the two holds a reaction decides only which token takes it away.
Title, reply count and session stats are abstracted into a choice: a root whose status is unchanged may
be skipped or written again. Creating a row may leave two (`twice`), since `apiJson` repeats a create
whose answer was an error.

**ThreadLifecycle.** One thread. `runs` and `latest` are the fields of `ThreadLifecycle`, a ticket is a
write in flight: the start of a run, its end, a close. Deciding and stamping are one step
(`Start`, `End`, `Close` with `Record`), because no await lies between them; the write (`WriteEvent`,
or its failure) comes later, in any order. A close goes on to its report: view, second event, post.
Stamps are distinct; event ids, drawn at random by the code, are unique; a run ends once and does not
outlive the gateway. A failure only goes to the fault journal, which swallows its own errors.

**RunSignature.** `live` and `recent` are `bySession` and `byAgent`. A handler of a model event reads
(`ModelEvent`), awaits the session store and writes (`RememberProvenance`) what it merged; a handler of
a sent message looks up what is known (`Lookup`), may load the store (`LoadSessionProvenance`), queues
its strip behind the last one of the message (`Queue`, `Turn`) and adds one tile per call
(`AddReaction`). One agent; a provenance is reduced to its model, and every tile behind the model's to one.

**WorkThread.** The tool tells the hooks the text of a post (`expected`) and sends it in one step; the post
lands and its hook fires at any time later, also when the call was given up. `TextOf` gives posts and the replies of models their texts,
and posts may share one: `expected` is a set of texts, as in the code, so a hook consumes the entry whichever post it reports.
`overtaken` (history) collects the posts that were out when the hook of another post with their text was called.

**Calendar.** A request runs alone between two of its transactions, since the store is synchronous; each
change is one `Commit` or `Tombstone` with its operation and audit row. `ingest` is an invitation
between the transaction of its event, the record of its message and the verifying read;
`CalendarCrash` comes in between. Events are abstracted to calendar, UID, revision, status, tombstone and the
SEQUENCE they came with; an invitation that is no CANCEL makes its event `confirmed` (its own STATUS line is left out); a receipt carries
the outcome the code answers (`recorded`, `cancelled`, `duplicate`); there is one bot address, and recurrence is left out.

**GrokBridge.** A file is absent, empty, has its head or is whole. A document shows its digest in its first lines
and a JSON record only as a whole (`Parsed`), which decides what a concurrent reader finds in a file
that is being written or was cut off.

**Cutover.** The launcher (`WriteApproval` to `LauncherDies`), the preparation (`Prune`, `Build`, `Stage`), the
stretch before the point of no return (`Suspend` to `Snapshot`, left by `Refuse`), the six steps under the
rollback trap (`Stop` to `Health`), and the rollback (`UndoStop` to `UndoStart`), for two jobs that
nothing keeps apart. A launch that fails goes through `CancelWake`, `Unlink` and `TellFailure`, and the launcher may end between any two of
them (`cut` when it was past the cancelling). A command fails before or after its effect; `CutOff` is a signal between an effect and
the flag that notes it. The commands of the rollback fail too (`Unfit`), and so does the `resume` of `Refuse`.
Two history variables say what came of it: `adrift` holds the live parts that a command left as no flag accounts for, until one
puts them right or a cutover succeeds; `clean` says that no two jobs met and none was killed after it had prepared. A freeze and an unfit approval are a refusal at any time; pruning is one step. The directory of
builds maps each build to those that were older, since the code sorts their names, which are dates.

**Heartbeat.** A run takes no time: it goes through its checks in order, each an input that passes or fails,
then delivers its alerts and saves. `Passes` is a unit of time between two runs, and stamps are kept as ages.
`story` is what the incident thread of a check says last. `refused`, `kicked`, `killed` and `hung` are history.
The log of a day in which no run
scans is never read, in the code as in the model, and `LossesAreFound` claims nothing of it; nor does it claim anything
once a run was killed, because that run may have been the only one to open the log of its day, and it saved nothing.

## 3. Runs

| Run | Question | Result |
|---|---|---|
| `email_owner_thread` | Two owner mails, one answering the other; any number of redeliveries, crashes, lost answers, altered copies | nothing sent twice, silently lost or mixed with unauthenticated mail; the dispatcher implements `Outbox` |
| `email_calendar` | Two calendar mails of one operation and a refused mail | receipts gather in one thread |
| `pipeline` | The whole service with one mail and one redelivery | what left the queue was delivered; queued mail settles; a root that landed is confirmed although its answer was lost |
| `comments` | A mention and a follow-up, restarts everywhere | one turn, one reply, an outcome for every row |
| `voice` | A capture with two attempts, two crashes, retried uploads | one turn over whole evidence in an existing thread; every capture settles |
| `sync` | A migrated root with two bots on it, two reactions, a command, edits, failures and kills anywhere | the row and the bots follow the owner |
| `gateway` | Two runs and two closes of a thread; three hooks for one message and two sessions that learn their models; two work threads with one title and a reply with that title; restarts at every step | the ledger names the latest admission, a stale end leaves no trace, strips do not mix, a reply is signed by its own session, scaffolding is signed only when its call was cut short or another post with its text came first |
| `tools` | Calendar, Grok bridge, life of an email conversation, queue consumer, heartbeat (checks, and the scan of the log) | see below |
| `cutover` | Two deployments, launched or by hand, with the approval of either and failures everywhere | an approval stops the gateway once, a launched stop has its check unless its launch had failed, what runs after a cutover or a rollback is of one build but for parts left adrift |
| `sync_starved` | Is every root listed in the end, whatever the owner reacts to? | no: a reaction on a reply stays pending and keeps the reconciliation from running; with `Other = {}` the property holds |
| `cutover_prune` | Does a preparation fail only when a command failed? | no: with one build on disk `grep` selects nothing and the script ends |
| `heartbeat_budget` | Are restarts capped unless somebody kills a run? | no: a `launchctl` call that runs into its timeout ends the run before the restart is saved |

The last three are disagreements between a document or a comment of the repository and what the code
does; `PROJECT.json`, `findings`, quotes both.

`gateway` and `tools` hold components that share no variable. An initial state chooses one of them, only its
actions are enabled then, and the others keep their initial values; so the states are the sum of
those of the components, and a counterexample in one of them is one of that component alone.

`sync` states two things. `PageShowsSlack`: of a thread the owner reacts to or has claimed, the row
shows what the reactions say once the state file counts its events as handled, or somebody edited the
row since. `OwnerOutranksBots`: then the bots show nothing beside the owner's reactions. The premise
"handled by the state file" is what a run that dies does not reach, and the point where a lost event would show.

`tools` states, of the calendar, that the audit rows of an event number its revisions without a gap
(`RevisionsAreAudited`), that a retry is answered as the first time (`ToldIsAudited`), that no invitation is undone by an
older one (`InvitationsMoveForward`) and that a receipt names an event as it is, and says `recorded` or `cancelled` only of what its own message made of it (`ReceiptIsLive`); of the Grok bridge, that an
answered call finds files of its own input (`AnsweredIsOnFile`); of the heartbeat, that restarts keep to their budget
over all checks and runs (`RestartsAreCapped`), that the thread of a check ends with what is the case unless
Slack refused it (`BrokenIsTold`, `RecoveryIsTold`), and that midnight loses no line of the log (`LossesAreFound`).

`gateway` states of the scaffolding that a post of it is signed only when its own call failed or was lost, or when the hook of another
post with the same text was called while it was out (`ScaffoldIsUnsigned`).

`cutover` states `OneRuntime` of jobs that met no other job and were not killed (`clean`): when no job is at work, link, configuration,
workspace and package are of the build that was activated last, or, after a rollback, of the one before, and the gateway is up; each
of these unless that very part is `adrift`. A part is adrift when a signal or an error kept the script from noting a step that took effect,
or when the command that puts it back, resumes or starts it failed. So one failure costs one part and the others are put back
all the same; only a link adrift also excuses the package, because the next cutover compares its patch set with the wrong build.
`CutoverIsWatched`: a launched job has stopped the gateway only with its check scheduled, or when the launch had failed and the
launcher was past cancelling the check.

### Known disagreements without a run

Behaviours the models contain, which no property forbids because the code has them:

- Email: a fault outlives its effect when the process dies between `acknowledge` and `clearFault`
  (`intake.mjs:107`); a partial `request.json` is kept and dispatched (`sessions.mjs:46`, voice
  `intake.mjs:240`); lifecycle changes enqueue no status intent although `docs/email-intake.md:43` promises one; a
  retry resumes the state from before a close because `close` keeps the failure record (`service.mjs:145`, `:155`).
- Comments: the lead of a follow-up is read when the row is processed (`channel.mjs:111`), so that two connections
  whose events lie on both sides of a new mention both answer; `docs/notion-comments.md:19` says one agent does.
- Voice: a retried upload does not find its bytes after a crash inside the write (`intake.mjs:182`, against the comment at
  `:174`); a post that lands after the search of the next attempt is posted again (`intake.mjs:275`).
- Status projector: two Notion rows for one thread, after which every targeted upsert of it fails
  (`sync.mjs:546`); a command turns a human claim back to `"bot"` when the owner has taken his reaction
  back (`sync.mjs:672`), although the service's `README.md:7` says that the first human event ends writeback for good.
- Run-signature: what is known of a session is read before an await and written after it, so that of two events
  the older one may win and mask a switch of the model (`plugin-runtime.mjs:309`, against the comment at `:95`); posts with one text share one entry of the set that keeps scaffolding
  unsigned, so when a late post of a failed call, or a reply with that text, is reported first, the root of a live call is signed, and
  such a reply is not (`work-thread-tool.mjs:109`, `plugin-runtime.mjs:347`, against the comment at `:346`); a message
  that mentions two agents is answered by both (`thread-lead.mjs:19`, against `docs/channel-runtime.md:19`; read, not modelled).
- Calendar: the retry of a delete that succeeded is answered "event not found", since the event is looked up before
  the replay (`server.mjs:87`); a tombstone keeps its UID, so that the same UID cannot be invited again; a CANCEL with the
  SEQUENCE of the request is answered `duplicate` and its event stays confirmed (`service.js:47`), although `docs/calendar-service.md:25` says
  that `CANCEL` cancels it and that a duplicate is known by its method too; a redelivery that is refused overwrites the status `applied`.
- Grok bridge: a document that was cut off after its head is answered as a replay (`bridge.mjs:99`); `save_work` under
  one operation id and two conversations writes two files, against `services/grok-mcp/README.md:13`.
- Cutover: a rollback leaves a step whose flag was not set yet, against `docs/runtime.md:17`; updated plugins stay;
  a launcher that ends after it cancelled the check (`deploy-once.py:166-173`) leaves a job that may run unwatched, with the failure told to
  nobody; a `resume` that fails leaves the gateway suspended without a word (`openclaw-cutover.sh:115`); a link that a rollback could not put back
  misleads the comparison of patch sets of the next cutover (`:123-124`);
  nothing keeps two deployments apart; the no-op for an active pair of `docs/runtime.md:21` is not implemented; a freeze set after
  the guard's check does not stop the cutover.
- Heartbeat: while the log of the new day does not exist, every run counts the rest of yesterday's again
  (`heartbeat.py:456`, against the comment at `:444`); the age of an incident counts from its opening, not from the last post
  (`README.md:38` speaks of an idle thread), and a recovery after it opens a thread of its own.

### Bounds

*Email.* Two or three mails show every interaction that reading `correlate` yields: an answer to a mail, two
mails with one subject or operation, and a mail refused in between. Crashes are not bounded in the email,
queue, comment, projector, gateway and calendar models; their state is finite because effects, messages
and rows are. `QueueConsumer` bounds deliveries by `MaxRetries = 1`, the least value with a redelivery.
`EmailPipeline` is checked with mail that has no owner turn, since liveness over both is out of reach;
owner turns are the subject of `email_owner_thread`. The lifecycle has five commands, one for each kind.

*Comments.* One connection and two comments, so that two waiters and the worker interleave.

*Voice.* `MaxCrashes`, `MaxQueued` (chained drains) and `MaxAttempts` (5 in the code): with two attempts
there is one that is repeated and one that holds. Captures share only the serial worker, so the run has
one; the theorems cover any number. A service that has used its crashes and has nothing queued
may stop moving when no upload comes, so deadlock is not looked for.

*Sync.* One root, because threads share nothing but the order of the run; with two events there is one that
arrives while the other is being handled, with two statuses a contradiction, and with one command a
command that competes with a reaction. Two bots show different statuses at first, so removal takes two calls.

*Gateway.* Two work threads with one title (`TextOf` is `SameTitle`), each with a brief of its own, and one reply with that title:
an expectation may be taken by the other call and by a model. Two runs and two closes: a stale end, a close between, a close after a close. Three hooks for
one message give a strip in progress, one that waits and one that comes when the queue forgets. One session is the message's,
the other one is the agent's most recent; one of the two models has no tile. `MaxEvents = 1` model event
is handled at once: two of them show only that the older one may win, which is no property of the code.

*Tools.* Calendar: three operations (one makes the calendar), one agent, an expected revision or none, and
three messages of one UID, of which one is older and one is a CANCEL with the SEQUENCE of a REQUEST, besides one without payload; operations are interchangeable, and so a symmetry. `Focus` stops
after a second receipt: no guard reads receipts, and every state with an earlier one is also reached without it, by a crash before the verifying read.
Grok: three calls, so that two race and a third one comes after; two inputs for one path, and one for each other shape of
path. Heartbeat: four checks (two that restart, the log, a canary), `RestartBudget = 1` (2 in the code) with two checks that
ask for it, `MaxRestartDeferrals = 1` (2), `CanaryPageAfter = 3` (4, and above the two strikes of others), `Realert = 1`,
`Hour = 2`, `IncidentTtl = 2` units, so that throttle, budget and incident lapse in different runs, `LastDay = 2`, `MaxLines = 2`. The state constraint
`Focus` keeps at most two checks in trouble, which is what a shared restart needs, a canary alone, since it shares nothing with the others, lets the other checks pass while the log is
scanned, and ends what was killed, of which the properties claim nothing.

*Cutover.* Two jobs over one older build; three pins (same version and patches, other patches, other version), which
decide whether the package is kept, repatched or swapped; `Keep = 1` (3 in the code), so that a prune does remove something. The state constraint
`Claimed` follows an execution that is not clean only until it reaches the point after which `OneRuntime` claims nothing and
the other two properties cannot change: an approval is spent before that. Scripts end, so deadlock is not looked for;
neither is it in the two violation runs of the same components. `Pinned`: one job pins something else than the build that runs first, the other the same version.
`MaxAdrift = 1` part at a time, which shows what one failure costs; the proof has no such bound. `Settled` lets the launchers rest while a
job is past the swap, since a launcher and a job share nothing from there on.

### Fairness

Steps of a process are weakly fair because every call it makes carries a timeout (`boundedCall`,
`gatewayCall`, `AbortSignal`); Slack calls of the voice worker and the calls of the status projector
carry none, and there the assumption is that `fetch` gives up. Timers are `setInterval`, so a tick recurs
(`SF`); the status job recurs under its supervisor. That a port, DKIM or a queue answers again and again
is assumed where the code retries for ever (`Verify`, `FindDelivery` that finds the delivery, `Pull`), and only there.
`sync_starved` assumes that failing calls and kills come to an end, so that the starvation it shows is caused by neither.
Liveness is stated for executions whose crashes come to an end; no process promises anything if it is
killed for ever. The gateway, calendar, Grok, cutover and heartbeat models state safety only and no fairness.

## 4. What is proved

All from the assumptions named at the head of each module, which only type the constants, keep their
kinds apart and say that `None` is nothing else.

| Module | Inductive invariant beyond types | Theorems |
|---|---|---|
| `EmailIntakeProofs`: intake | `RowInv` (what the drain knows of its row), `DeliveryInv` (what a marker says of calls), `LogInv` (keys are unique, a root is first), `MailInv` (a stored message has its effects), `TaskInv`, `ScanInv` (passed rows are acknowledged or in a blocked conversation with a fault) | `NeverTwice`, `Ordered`, `Honest`, `AnswersVouch`, `Visible`, `Separated`, `Gathered`, `Implements` |
| `EmailIntakeProofs`: pipeline | those of the intake and `PollInv` (what the poll of the ingress queue confirms, and what left it for good, was answered ok) | `PipelineIsIntake`, `AcceptedArrives` |
| `QueueConsumerProofs` | `LeaseInv`, `PollInv` (what each poll knows of its message), `FaultHasRecord` | `Accepted`, `Retained`, `Whole` |
| `NotionCommentsProofs` | `WorkerInv`, `RowInv` (what a state says of turn, waiter and reply) | `Once`, `Agreed`, `Watchful`, `Final` |
| `VoiceIntakeProofs` | `UploadInv` (an upload past its evidence check has whole evidence and no row), `WorkerInv`, `TableInv`, `CaptureInv` | `Once`, `Evident`, `Threaded`, `SafeToRetry`, `Admitted` (a dispatched row has a run the gateway started), `Kept`, `Staged` |
| `SlackNotionSyncProofs` | `EventInv`, `CommandInv` (what a run has yet to do is not noted as done), `OwnerInv` (what a claim says of commands and events), `JobInv`, `RootInv` (an event is still to come when a thread differs from what was read of it), `DoubtInv`, `PromiseInv` (the properties for the run's copy of the state) | `Projected`, `Outranked`, `Doubted` |
| `GatewayProofs`: `ThreadLifecycle` | `PhaseInv` (each event of a run is made once), `StampInv` (stamps differ and are not beyond the clock), `LatestInv` (the last event made is of the latest admission), `WindowInv` (between the two events of a run nothing was made), `LedgerInv` (the ledger holds what was written), `ReportInv` | `ShowsLatest`, `EndsSilently`, `Recorded` |
| `GatewayProofs`: `RunSignature` | `KnownInv` (all that is known of a session, or on its way into the maps, is a model that it ran or nothing), `LineInv` (the strips of a message stand in one line, each waiting for the one before) | `OneStrip`, `SignedRight` |
| `GatewayProofs`: `WorkThread` | `ProgressInv` (a call goes on only with what Slack shows), `ExpectedInv` (the text of a post whose hook is to come is expected while its call goes on, unless it was overtaken), `OvertakenInv` (a post is overtaken only by another one of its text) | `Unsigned`, `UnsignedWhenTextsDiffer` (nothing is overtaken, and so nothing signed while its call goes on, where texts differ) |
| `ToolsProofs`: `EmailConversation` | `ResumeInv` (a failure never resumes a failure, nor quick handling of quiet mail) | `OneWork`, `Reported`, `Silent`, `Resumable`, `Final` |
| `ToolsProofs`: `Calendar` | `AuditInv` (rows of an event are its revisions), `OperationInv` (an operation on record has its audit row), `UidInv` (one event per UID and calendar), `SourceInv` (an event at the revision of a message's operation is as that message left it), `FromMail` (a SEQUENCE on file came with a message), `ToldInv`, `IngestInv` (what a crash between two transactions leaves) | `AuditIsExact`, `AnswersAreAudited`, `EventsMoveForward`, `ReceiptsVouch` |
| `ToolsProofs`: `GrokBridge` | `MadeInv` (one call created a file, and it is of that call's input), `PlaceInv` (a call writes only what it created), `BehindInv` (the files a call has left behind are its own as far as their digest tells) | `AnswersAreOnFile` |
| `OperationsProofs`: `Heartbeat` | `TodoInv` (what a run has left is in order: restarts before the log, canaries last), `RestartInv` (each restart of the last hour has a stamp on record that is not older), `StoryInv` (what is known of a check agrees with its thread, or with the alert that will say so), `LogInv` (up to the offset all losses of a log are counted) | `Capped`, `ToldBroken`, `ToldRecovered`, `LossesFound` |
| `OperationsProofs`: `Cutover` | `ApprovalInv` (a job past the guard has spent an approval, and spent it alone), `WatchInv`, `RuntimeInv` (at most one clean job is at work; what it noted is put aside, what it did not note is in place, each part unless it is adrift; the build activated last is on disk unless the link is adrift, `Found`) | `SpentOnce`, `Watched`, `OneBuildRuns` |

Each module also proves its invariant inductive and its variables typed. Theorems whose property no run
lists (`Ordered`, `OneWork`, `Reported`, `Silent`, `Final`, `Watchful`, `Whole`, `UnsignedWhenTextsDiffer`, `Admitted`, `Kept`, `Staged`, `Doubted`, `Recorded`, `PipelineIsIntake`) are there because the proof says more than an
instance, and a run would repeat it.

Why the strengthenings are needed: `AtMostOnce` is not inductive because a state with `calls = 1` at the
step before a call violates it next; `RowInv` says that this step is reached only with the marker just
written and no call made, and `DeliveryInv` that an unmarked effect was never called.
`AnsweredIsDelivered` needs `ScanInv`: an ok is given only if nothing of the conversation is pending, and
that judgement is sound because the drain acknowledged, or blocked, every row it passed. `Implements`
maps the effects table to the queue of `Outbox`, the conversation of an effect to its lane, calls to
tries, published effects to taken ones and acknowledged ones to settled ones; every action of the
intake is one outbox step or a stutter.

The properties of the projector speak of the state file; `PromiseInv` states them of `mem` as well, so
that `Save` preserves them, and `JobInv` and `RootInv` carry the reading of a thread to the moment its
row is written: either the thread still is as it was read, or one of its events is neither noted nor in
the group the run is about to note.

`LedgerShowsLatest` speaks of the newest stamp on the ledger; it is not inductive because a write lands long after it was
stamped, and `StampInv` with `LatestInv` says that no write still to come is newer than the latest admission's own.
The calendar's proof splits every change into a `Transaction` that adds a calendar or grant, an event, or a revision, and shows the table invariant
once for each of these; `ReceiptIsLive` needs `IngestInv`, which follows an invitation from its transaction to the verifying read, in which
nothing else runs. `InvitationsMoveForward` is an action property: a transaction that starts from the invariant moves its event forward and leaves the others alone.

`PipelineIsIntake` shows that each step of the composed service is a step of the intake or leaves its variables alone, so that
`Inductive`, `Implements` and the rest hold of the service too; with `PollInv` they give `AcceptedArrives`.

`OneStripAtATime` is not inductive, because two strips may both wait for one that ends. `LineInv` says that there is a sequence of
the strips of a message in which each waits for its predecessor and the remembered tail is the last; a step appends to that
sequence or drops its head, and only the head adds tiles. `SignedByItsSession` needs the same of everything on its way
to a hook: the map, the copies that handlers hold over an await, the session store.

`AnsweredIsOnFile` concerns the second reader of a file that somebody else is still writing. A cut-off
file has its digest in its head, so `Settled` claims of a document only what a reader could see, and
of a record, which does not parse until it is whole, that it is whole.

`RestartsAreCapped` counts the calls of `launchctl`, the code counts stamps; `RestartInv` compares the two lists
from their youngest entries on, since the code's list may hold more (a stamp is written before the call) and its stamps lapse no
earlier. Without `~hung` the cap is false, as `heartbeat_budget` shows. `StoryInv` is stated of `Current`, the file or the
copy of the run, and of the queue of alerts, so that it holds while a run goes through its checks. It needs `TodoInv`:
a restart that hangs ends the run without saving, and what it forgets must not include a scan. That
the log comes after what can restart is the order in `heartbeat.py`, and `HeartbeatAssumption` says so.

`OneRuntime` is about a job that has ended, `Midway` about each step of one that has not. Two of its conjuncts are
not to be seen in the property: the workspace is not noted before the projection, so that the rollback of an earlier step leaves
it; and from the snapshot on, the link put aside is that of the build activated last (`Snapped`), although
nothing is noted yet. Each conjunct excuses one adrift part only; `Loose` excuses the package for a link that is adrift too, because `Snapshot`
reads the patch set of the build that `current` points at. `ApprovalIsSpentOnce` and `CutoverIsWatched` also hold for jobs that run into each other and are cut off.

Where the stamps of the last hour begin in a list of stamps, and the canaries in a list of checks, is the least of the positions
with a property. That a non-empty set of numbers has a least element (`LeastOf`) follows from the well-foundedness of `<`;
no proof uses induction over the data.

Only model-checked: liveness (`MailSettles`, `RootLands`, `RowsSettle`, `CapturesSettle`; `RootsAreListed` is the refuted
one). Their proofs would need fairness and `ENABLED`, which this prover does not treat. The other two refuted properties are false.

## 5. Not modelled

- Email: `Intake.deadLetter` over HTTP, rendering of posts, the calendar client beyond its outcome, and the
  effects that no dispatcher of the service takes.
- Notion comments: webhook signatures and verification tokens; the text of replies (so also the fallback
  of `channel.mjs:160` to the chat history).
- Voice: multipart and form parsing, the audio listener, the Shortcut generator.
- Status projector: which bot holds a reaction, the text of rows, the option writers, dry runs, the cap of 10,000
  processed ids (the journal is never cut, so ids beyond it are handled again), and a torn line
  within a journal, which fails every run (`sync.mjs:432`).
- Run-signature: the lead of a thread (`thread-lead.mjs`), discovery of the gateway's modules, the text of reports, the tiles behind the model's.
- Calendar: several bot addresses, recurring instances, listing, feeds as iCalendar text.
- Grok bridge: `get_context`, OAuth and the HTTP front.
- Cutover: job plists, plugin versions, the first installation, the checks of the checkouts, the files of a build one by one;
  `install.sh`, `init-data-plane.sh`, `validate-instance.sh` run before anything is live.
- Heartbeat: how a check decides, the rollup file, the wording.
- SQLite itself: a commit is atomic and durable, and its errors are not modelled.
- Two processes over one database (`server.mjs:89`: a terminating intake closes its port before its tick
  ends; likewise voice `server.mjs:163` and comments `server.mjs:94`).
- Without state or interaction worth a model: document server, voice agent (one promise chain), thread summaries (one pass),
  Campfire (a queue in memory, lost on a restart by design), configuration renderers, gateway patches, images, session
  console, surfaces, backups, secrets, schemas.
- Left for later: artifact publisher, ingest server, sharing gate (links and sessions in one SQLite file, each change one transaction).

## 6. Plan

1. Done: the email intake with its abstract outbox and its queue, pipeline and lifecycle; the comment
   channel; the voice intake; the status projector; their safety proofs.
2. Done: the run-signature plugin (`ThreadLifecycle` with its proofs, `RunSignature`, `WorkThread`), the calendar with its proofs, the Grok bridge, the cutover, the heartbeat.
3. Done: proofs for `EmailPipeline`, `RunSignature`, `WorkThread`, `GrokBridge`, `Cutover` and `Heartbeat`.
4. `ArtifactPublisher`: jobs over one checkout; property: what is pushed is what the job copied, a failed
   job does not block the next. Then ingest and the sharing gate.
5. `Calendar` composed with `EmailIntake` in place of its free outcome.
6. An abstract "one turn per request" specification that `NotionComments` and `VoiceIntake` both
   implement, with its refinement proofs.
7. Two instances of an intake over one database (`server.mjs:74`, `:89`).
8. Two bots by name, liveness of the projection, two rows for one thread.
