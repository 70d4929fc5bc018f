----------------------------- MODULE VoiceIntake -----------------------------
(***************************************************************************)
(* The voice capture service: services/voice-intake/intake.mjs under the   *)
(* listeners and the timer of server.mjs.                                  *)
(*                                                                         *)
(* An upload runs without awaits from the first file to the row, so that   *)
(* only a crash or a failed write falls inside it.  The worker takes the   *)
(* drains of the serial chain one by one; each await of it is a step.      *)
(***************************************************************************)
EXTENDS Integers, Sequences

CONSTANTS
  Capture,      \* capture ids: digests of kind, device, time and content
  Audio,        \* captures that hold audio; the others are dictated text
  None,         \* no capture
  MaxAttempts,  \* config.maxAttempts
  MaxQueued,    \* bound: drains chained behind the running one
  MaxCrashes    \* bound: crashes of the service

ASSUME VoiceAssumption ==
  /\ Audio \subseteq Capture /\ None \notin Capture
  /\ MaxAttempts \in Nat \ {0} /\ MaxQueued \in Nat /\ MaxCrashes \in Nat

Part == {"root", "transcript"}

VARIABLES
  evidence,   \* the original bytes, as a file
  metadata,   \* the record beside them
  rows,       \* captures of the table, in rowid order
  state,      \* their state; "none" before the row exists
  reason,     \* why a capture is held
  attempts,
  rootTs,     \* the root post a capture recorded, 0 for none
  request,    \* request.json
  posts,      \* what became of every chat.postMessage
  run,        \* what became of the agent call
  calls,      \* how often the agent was called
  answered,   \* captures whose upload was answered accepted or duplicate
  uploading,  \* capture being uploaded, or None
  step,       \* where its upload is
  pc,         \* where the worker is
  pos,        \* row of the table the drain is at
  limit,      \* rows the table had when the drain began
  queued,     \* drains chained behind it
  botUser,    \* whether the poster knows its own bot user
  crashes

files   == <<evidence, metadata>>
table   == <<rows, state, reason, attempts, rootTs>>
outside == <<posts, run, calls>>
upload  == <<uploading, step>>
worker  == <<pc, pos, limit, queued, botUser>>
vars    == <<files, table, request, outside, answered, upload, worker, crashes>>

File    == {"absent", "partial", "whole"}
States  == {"none", "received", "transcribed", "rooted", "posted", "dispatching",
            "dispatched", "held"}
Reasons == {"none", "received_failed", "transcribed_failed", "rooted_failed",
            "posted_failed", "empty_transcript", "admission_unconfirmed"}

FileType ==
  /\ evidence \in [Capture -> File] /\ metadata \in [Capture -> File]
  /\ request \in [Capture -> File]

TableType ==
  /\ rows \in Seq(Capture)
  /\ state \in [Capture -> States] /\ reason \in [Capture -> Reasons]
  /\ attempts \in [Capture -> 0..MaxAttempts]
  /\ rootTs \in [Capture -> Nat]

Fate == {"inflight", "shown", "lost"}

OutsideType ==
  /\ posts \in [Capture -> [Part -> Seq(Fate)]]
  /\ run \in [Capture -> {"none", "inflight", "lost", "running", "ok", "error"}]
  /\ calls \in [Capture -> Nat]

UploadType ==
  /\ answered \subseteq Capture
  /\ uploading \in Capture \cup {None}
  /\ step \in {"idle", "evidence", "writing evidence", "metadata", "writing metadata",
               "insert", "drain"}

WorkerType ==
  /\ pc \in {"idle", "advance", "transcribe", "search", "post", "await", "request",
             "writing", "mark", "agent", "admission", "wait"}
  /\ pos \in Nat /\ limit \in Nat
  /\ queued \in 0..MaxQueued /\ botUser \in {"known", "unknown"}
  /\ crashes \in 0..MaxCrashes

TypeOK == FileType /\ TableType /\ OutsideType /\ UploadType /\ WorkerType

Init ==
  /\ evidence = [c \in Capture |-> "absent"] /\ metadata = [c \in Capture |-> "absent"]
  /\ rows = <<>>
  /\ state = [c \in Capture |-> "none"] /\ reason = [c \in Capture |-> "none"]
  /\ attempts = [c \in Capture |-> 0]
  /\ rootTs = [c \in Capture |-> 0]
  /\ request = [c \in Capture |-> "absent"]
  /\ posts = [c \in Capture |-> [p \in Part |-> <<>>]]
  /\ run = [c \in Capture |-> "none"]
  /\ calls = [c \in Capture |-> 0]
  /\ answered = {}
  /\ uploading = None /\ step = "idle"
  /\ pc = "idle" /\ pos = 0 /\ limit = 0 /\ queued = 0 /\ botUser = "unknown"
  /\ crashes = 0

(***************************************************************************)
(* Uploads: captureHandler and VoiceIntake.accept.                         *)
(***************************************************************************)

UploadAt(s) == step' = s /\ UNCHANGED uploading

\* A row of that id makes the upload a duplicate; it is answered and drains as well.
BeginUpload(c) ==
  /\ uploading = None /\ queued < MaxQueued
  /\ uploading' = c
  /\ step' = IF state[c] = "none" THEN "evidence" ELSE "drain"
  /\ UNCHANGED <<files, table, request, outside, answered, worker, crashes>>

Reject == uploading' = None /\ step' = "idle"

\* Mutant: a file of that name is taken for the bytes of the upload.
KeepAnyEvidence ==
  /\ step = "evidence"
  /\ IF evidence[uploading] = "absent"
     THEN evidence' = [evidence EXCEPT ![uploading] = "partial"] /\ UploadAt("writing evidence")
     ELSE UploadAt("metadata") /\ UNCHANGED evidence
  /\ UNCHANGED <<metadata, table, request, outside, answered, worker, crashes>>

\* The bytes are written only if no file of that name exists; one that exists
\* must hold the same bytes (evidence_conflict).
KeepEvidence ==
  /\ step = "evidence"
  /\ CASE evidence[uploading] = "absent"  ->
            evidence' = [evidence EXCEPT ![uploading] = "partial"] /\ UploadAt("writing evidence")
       [] evidence[uploading] = "partial" -> Reject /\ UNCHANGED evidence
       [] evidence[uploading] = "whole"   -> UploadAt("metadata") /\ UNCHANGED evidence
  /\ UNCHANGED <<metadata, table, request, outside, answered, worker, crashes>>

WriteEvidence ==
  /\ step = "writing evidence"
  /\ evidence' = [evidence EXCEPT ![uploading] = "whole"]
  /\ UploadAt("metadata")
  /\ UNCHANGED <<metadata, table, request, outside, answered, worker, crashes>>

KeepMetadata ==
  /\ step = "metadata"
  /\ IF metadata[uploading] = "absent"
     THEN metadata' = [metadata EXCEPT ![uploading] = "partial"] /\ UploadAt("writing metadata")
     ELSE UploadAt("insert") /\ UNCHANGED metadata
  /\ UNCHANGED <<evidence, table, request, outside, answered, worker, crashes>>

WriteMetadata ==
  /\ step = "writing metadata"
  /\ metadata' = [metadata EXCEPT ![uploading] = "whole"]
  /\ UploadAt("insert")
  /\ UNCHANGED <<evidence, table, request, outside, answered, worker, crashes>>

\* A full disk ends the upload inside a write.
WriteFails ==
  /\ step \in {"writing evidence", "writing metadata"}
  /\ Reject
  /\ UNCHANGED <<files, table, request, outside, answered, worker, crashes>>

Insert ==
  /\ step = "insert"
  /\ rows' = Append(rows, uploading)
  /\ state' = [state EXCEPT ![uploading] = "received"]
  /\ UploadAt("drain")
  /\ UNCHANGED <<files, reason, attempts, rootTs, request, outside, answered, worker, crashes>>

\* The answer does not wait for the drain it chains.
Answer ==
  /\ step = "drain"
  /\ queued' = queued + 1
  /\ answered' = answered \cup {uploading}
  /\ Reject
  /\ UNCHANGED <<files, table, request, outside, pc, pos, limit, botUser, crashes>>

Upload == \/ KeepEvidence \/ WriteEvidence \/ KeepMetadata \/ WriteMetadata
          \/ WriteFails \/ Insert \/ Answer

(***************************************************************************)
(* The worker: VoiceIntake.drain and VoiceIntake.advance.                  *)
(***************************************************************************)

\* The synchronous part of an upload holds the thread of the process.
At(s) == uploading = None /\ pc = s

\* The timer drains only after the inbox was verified, which teaches the poster
\* its own user; drains that uploads chain do not wait for that.
Tick ==
  /\ uploading = None /\ queued < MaxQueued
  /\ botUser' = "known"
  /\ queued' = queued + 1
  /\ UNCHANGED <<files, table, request, outside, answered, upload, pc, pos, limit, crashes>>

\* Mutant: an interrupted admission is nobody's business.
OpenUnlessMarked(c) == state[c] \notin {"dispatching", "dispatched", "held"}

\* A drain takes the rows that were open when it began; only the worker closes any.
Open(c) == state[c] \notin {"dispatched", "held"}

BeginDrain ==
  /\ At("idle") /\ queued > 0
  /\ queued' = queued - 1
  /\ pc' = "advance" /\ pos' = 1 /\ limit' = Len(rows)
  /\ UNCHANGED <<files, table, request, outside, answered, upload, botUser, crashes>>

EndDrain ==
  /\ At("advance") /\ pos > limit
  /\ pc' = "idle" /\ pos' = 0 /\ limit' = 0
  /\ UNCHANGED <<files, table, request, outside, answered, upload, queued, botUser, crashes>>

Cur == rows[pos]

Goto(s) == pc' = s /\ UNCHANGED <<pos, limit, queued, botUser>>

\* advance returns, and the loop of the drain goes on to the next row.
Leave == pc' = "advance" /\ pos' = pos + 1 /\ UNCHANGED <<limit, queued, botUser>>

Hold(why) ==
  /\ state' = [state EXCEPT ![Cur] = "held"]
  /\ reason' = [reason EXCEPT ![Cur] = why]

FailedIn(s) ==
  CASE s = "received"    -> "received_failed"
    [] s = "transcribed" -> "transcribed_failed"
    [] s = "rooted"      -> "rooted_failed"
    [] OTHER             -> "posted_failed"

\* The catch of advance: one attempt more, and the last one holds the row.
Catch ==
  /\ attempts' = [attempts EXCEPT ![Cur] = @ + 1]
  /\ IF attempts[Cur] + 1 >= MaxAttempts THEN Hold(FailedIn(state[Cur]))
                                         ELSE UNCHANGED <<state, reason>>
  /\ Leave
  /\ UNCHANGED <<rows, rootTs>>

\* Mutant: a row found dispatching is dispatched again.
StageAgain(s) ==
  CASE s = "received"                  -> "transcribe"
    [] s \in {"transcribed", "rooted"} -> "search"
    [] OTHER                           -> "request"

\* What advance does with a row, by its state.
Stage(s) ==
  CASE s = "received"                  -> "transcribe"
    [] s \in {"transcribed", "rooted"} -> "search"
    [] s = "posted"                    -> "request"
    [] OTHER                           -> "wait"

Advance ==
  /\ At("advance") /\ pos <= limit
  /\ IF Open(Cur) THEN Goto(Stage(state[Cur])) ELSE Leave
  /\ UNCHANGED <<files, table, request, outside, answered, upload, crashes>>

\* Whisper for audio, the file itself for dictation; a summary never fails.
Transcribe ==
  /\ At("transcribe")
  /\ \/ /\ state' = [state EXCEPT ![Cur] = "transcribed"]
        /\ Goto("advance")
        /\ UNCHANGED <<rows, reason, attempts, rootTs>>
     \/ /\ Cur \in Audio
        /\ Hold("empty_transcript") /\ Leave
        /\ UNCHANGED <<rows, attempts, rootTs>>
     \/ Catch
  /\ UNCHANGED <<files, request, outside, answered, upload, crashes>>

PartOf(s) == IF s = "transcribed" THEN "root" ELSE "transcript"

Posts(c, p) == posts[c][p]

Shown(c, p) == {i \in 1..Len(Posts(c, p)) : Posts(c, p)[i] = "shown"}

\* The row records the post its state asked for.
RecordPost(i) ==
  /\ state' = [state EXCEPT ![Cur] = IF @ = "transcribed" THEN "rooted" ELSE "posted"]
  /\ rootTs' = IF state[Cur] = "transcribed" THEN [rootTs EXCEPT ![Cur] = i] ELSE rootTs
  /\ Goto("advance")
  /\ UNCHANGED <<rows, reason, attempts>>

\* A post of this capture and part that Slack shows is taken for the lost one.
FindPost ==
  /\ At("search")
  /\ \/ /\ botUser = "known"
        /\ \E i \in Shown(Cur, PartOf(state[Cur])) : RecordPost(i)
     \/ /\ botUser = "known" /\ Shown(Cur, PartOf(state[Cur])) = {}
        /\ Goto("post") /\ UNCHANGED table
     \/ Catch
  /\ UNCHANGED <<files, request, outside, answered, upload, crashes>>

SendPost ==
  /\ At("post")
  /\ posts' = [posts EXCEPT ![Cur][PartOf(state[Cur])] = Append(@, "inflight")]
  /\ Goto("await")
  /\ UNCHANGED <<files, table, request, run, calls, answered, upload, crashes>>

\* Mutant: a post without an answer counts as posted.
PostTrusted ==
  /\ At("await")
  /\ RecordPost(Len(Posts(Cur, PartOf(state[Cur]))))
  /\ UNCHANGED <<files, request, outside, answered, upload, crashes>>

\* A confirmation missing, an error or a lost answer is an attempt.
PostReturns ==
  /\ At("await")
  /\ \/ LET i == Len(Posts(Cur, PartOf(state[Cur]))) IN
        i \in Shown(Cur, PartOf(state[Cur])) /\ RecordPost(i)
     \/ Catch
  /\ UNCHANGED <<files, request, outside, answered, upload, crashes>>

\* request.json is written only if no file of that name exists.
OpenRequest ==
  /\ At("request")
  /\ \/ /\ request[Cur] = "absent"
        /\ request' = [request EXCEPT ![Cur] = "partial"]
        /\ Goto("writing") /\ UNCHANGED table
     \/ /\ request[Cur] # "absent"
        /\ Goto("mark") /\ UNCHANGED <<request, table>>
     \/ Catch /\ UNCHANGED request
  /\ UNCHANGED <<files, outside, answered, upload, crashes>>

WriteRequest ==
  /\ At("writing")
  /\ \/ /\ request' = [request EXCEPT ![Cur] = "whole"]
        /\ Goto("mark") /\ UNCHANGED table
     \/ Catch /\ UNCHANGED request
  /\ UNCHANGED <<files, outside, answered, upload, crashes>>

\* The row says dispatching before the gateway is called.
MarkDispatching ==
  /\ At("mark")
  /\ state' = [state EXCEPT ![Cur] = "dispatching"]
  /\ Goto("agent")
  /\ UNCHANGED <<files, rows, reason, attempts, rootTs, request, outside, answered, upload, crashes>>

CallAgent ==
  /\ At("agent")
  /\ calls' = [calls EXCEPT ![Cur] = @ + 1]
  /\ run' = [run EXCEPT ![Cur] = IF @ = "none" THEN "inflight" ELSE @]
  /\ Goto("admission")
  /\ UNCHANGED <<files, table, request, posts, answered, upload, crashes>>

Started(c) == run[c] \in {"running", "ok", "error"}

\* Mutant: a failing gateway call reaches the catch of advance.
AdmissionThrows ==
  /\ At("admission")
  /\ \/ /\ Started(Cur)
        /\ state' = [state EXCEPT ![Cur] = "dispatched"] /\ UNCHANGED <<rows, reason, attempts, rootTs>>
        /\ Leave
     \/ Catch
  /\ UNCHANGED <<files, request, outside, answered, upload, crashes>>

\* accepted or ok dispatches the row; an error, a timeout or a lost answer holds it.
Admission ==
  /\ At("admission")
  /\ \/ /\ Started(Cur)
        /\ state' = [state EXCEPT ![Cur] = "dispatched"] /\ UNCHANGED reason
     \/ Hold("admission_unconfirmed")
  /\ Leave
  /\ UNCHANGED <<files, rows, attempts, rootTs, request, outside, answered, upload, crashes>>

\* After a restart the run is asked once; only one that ended well dispatches the row.
WaitRun ==
  /\ At("wait")
  /\ \/ /\ run[Cur] = "ok"
        /\ state' = [state EXCEPT ![Cur] = "dispatched"] /\ UNCHANGED reason
     \/ Hold("admission_unconfirmed")
  /\ Leave
  /\ UNCHANGED <<files, rows, attempts, rootTs, request, outside, answered, upload, crashes>>

Worker == \/ BeginDrain \/ EndDrain \/ Advance \/ Transcribe \/ FindPost \/ SendPost
          \/ PostReturns \/ OpenRequest \/ WriteRequest \/ MarkDispatching \/ CallAgent
          \/ Admission \/ WaitRun

(***************************************************************************)
(* Slack, the gateway and the end of the process.                          *)
(***************************************************************************)

\* A post arrives, possibly long after its sender gave up on it, or is lost.
PostEnds(c, p) ==
  /\ \E i \in 1..Len(posts[c][p]), end \in {"shown", "lost"} :
       /\ posts[c][p][i] = "inflight"
       /\ posts' = [posts EXCEPT ![c][p][i] = end]
  /\ UNCHANGED <<files, table, request, run, calls, answered, upload, worker, crashes>>

RunMoves(c) ==
  /\ \E end \in CASE run[c] = "inflight" -> {"running", "lost"}
                 [] run[c] = "running"  -> {"ok", "error"}
                 [] OTHER               -> {} : run' = [run EXCEPT ![c] = end]
  /\ UNCHANGED <<files, table, request, posts, calls, answered, upload, worker, crashes>>

Crash ==
  /\ crashes < MaxCrashes
  /\ crashes' = crashes + 1
  /\ uploading' = None /\ step' = "idle"
  /\ pc' = "idle" /\ pos' = 0 /\ limit' = 0 /\ queued' = 0 /\ botUser' = "unknown"
  /\ UNCHANGED <<files, table, request, outside, answered>>

Next ==
  \/ \E c \in Capture : BeginUpload(c)
  \/ Upload \/ Tick \/ Worker
  \/ \E c \in Capture : RunMoves(c) \/ \E p \in Part : PostEnds(c, p)
  \/ Crash

Spec == Init /\ [][Next]_vars

-----------------------------------------------------------------------------
\* The agent is called at most once for a capture, over all crashes, retried
\* uploads and unknown admissions (intake.mjs:216-228).
OneTurnPerCapture == \A c \in Capture : calls[c] <= 1

\* A row, and so everything said in Slack about it, has its original bytes on
\* disk, although an earlier upload may have ended inside a write (intake.mjs:182).
RowHasEvidence == \A c \in Capture : state[c] # "none" => evidence[c] = "whole"

\* The turn starts in the thread its session key names: the recorded root and
\* the transcript are in Slack before the agent is called (intake.mjs:206-225).
ThreadBeforeTurn ==
  \A c \in Capture : calls[c] > 0 => rootTs[c] \in Shown(c, "root") /\ Shown(c, "transcript") # {}

\* A held row may be set back and retried unless its admission is unconfirmed
\* (README, Operation): no other reason is ever given to a turn that was called,
\* and nothing was posted for a capture that has no transcript.
HeldEarlyNeverRan ==
  \A c \in Capture : state[c] = "held" /\ reason[c] # "admission_unconfirmed" =>
    /\ calls[c] = 0
    /\ reason[c] \in {"received_failed", "empty_transcript"} => \A p \in Part : posts[c][p] = <<>>

\* A row says dispatched only of a run the gateway started (intake.mjs:219-227).
DispatchedWasAdmitted == \A c \in Capture : state[c] = "dispatched" => Started(c)

\* An upload that was answered is kept: its row exists and goes on from there.
AnsweredIsKept == \A c \in answered : \E i \in 1..Len(rows) : rows[i] = c

\* A capture goes through its states in order and leaves the last two never.
Before(s, t) ==
  \/ s = t
  \/ s = "none" /\ t = "received"
  \/ s \in {"received", "transcribed", "rooted", "posted", "dispatching"} /\ t = "held"
  \/ <<s, t>> \in {<<"received", "transcribed">>, <<"transcribed", "rooted">>,
                   <<"rooted", "posted">>, <<"posted", "dispatching">>,
                   <<"dispatching", "dispatched">>}

\* No step repeats a stage of a capture or takes up a settled one again
\* (the state tests of advance, intake.mjs:200-222).
StagesInOrder == [][\A c \in Capture : Before(state[c], state[c]')]_vars

\* The inbox answers verification again and again, and awaits settle: whisper and
\* the gateway are called with timeouts, fetch gives up on its own.
LiveSpec ==
  /\ Spec
  /\ WF_vars(Upload)
  /\ WF_vars(Worker)
  /\ SF_vars(Tick)

\* A capture that has a row is dispatched or held in the end, across restarts.
CapturesSettle == \A c \in Capture : state[c] = "received" ~> state[c] \in {"dispatched", "held"}

=============================================================================
