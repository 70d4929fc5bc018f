-------------------------- MODULE VoiceIntakeProofs --------------------------
(***************************************************************************)
(* Proofs about VoiceIntake, for every set of captures and every bound.    *)
(***************************************************************************)
EXTENDS VoiceIntake, TLAPS, SequenceTheorems

\* Where an upload is: only a capture without a row gets new files and a row.
UploadInv ==
  /\ step = "idle" <=> uploading = None
  /\ step \in {"evidence", "writing evidence", "metadata", "writing metadata", "insert"} =>
       state[uploading] = "none"
  /\ step \in {"metadata", "writing metadata", "insert"} => evidence[uploading] = "whole"
  /\ step = "drain" => state[uploading] # "none"
  /\ step # "idle" => queued < MaxQueued

\* Where the worker is: at a row of the table, in the state its step asks for.
WorkerInv ==
  /\ pc # "idle" => pos >= 1 /\ limit <= Len(rows)
  /\ pc \notin {"idle", "advance"} => pos <= limit
  /\ pc = "transcribe" => state[Cur] = "received"
  /\ pc \in {"search", "post", "await"} => state[Cur] \in {"transcribed", "rooted"}
  /\ pc \in {"request", "writing", "mark"} => state[Cur] = "posted"
  /\ pc \in {"agent", "admission", "wait"} => state[Cur] = "dispatching"
  /\ pc = "agent" => calls[Cur] = 0

\* The table lists the captures that have a state.
TableInv == \A c \in Capture : state[c] # "none" <=> \E i \in 1..Len(rows) : rows[i] = c

\* What the state of a capture says of its posts and its turn.
CaptureOk(c) ==
  /\ state[c] \in {"none", "received"} => \A p \in Part : posts[c][p] = <<>>
  /\ calls[c] > 0 => state[c] \in {"dispatching", "dispatched", "held"}
  /\ calls[c] > 0 /\ state[c] = "held" => reason[c] = "admission_unconfirmed"
  /\ state[c] \in {"rooted", "posted", "dispatching"} => rootTs[c] \in Shown(c, "root")
  /\ state[c] \in {"posted", "dispatching"} => Shown(c, "transcript") # {}
  /\ c \in answered => state[c] # "none"
  /\ attempts[c] = MaxAttempts => state[c] = "held"

CaptureInv == \A c \in Capture : CaptureOk(c)

IInv ==
  /\ TypeOK /\ UploadInv /\ WorkerInv /\ TableInv /\ CaptureInv
  /\ OneTurnPerCapture /\ RowHasEvidence /\ ThreadBeforeTurn
  /\ HeldEarlyNeverRan /\ DispatchedWasAdmitted

\* The worker's row is a capture.
LEMMA CurIsCapture ==
  ASSUME TypeOK, WorkerInv, pc # "idle", pos <= limit
  PROVE  Cur \in Capture
<1>1. pos \in Nat /\ limit \in Nat /\ rows \in Seq(Capture)
  BY DEF TypeOK, TableType, WorkerType
<1>2. pos >= 1 /\ limit <= Len(rows)
  BY DEF WorkerInv
<1>3. pos \in 1..Len(rows)
  BY <1>1, <1>2
<1> QED
  BY <1>1, <1>3 DEF Cur

\* At a step of advance the worker's row is a capture in the state the step needs.
LEMMA AtRow ==
  ASSUME TypeOK, WorkerInv, pc \notin {"idle", "advance"}
  PROVE  /\ Cur \in Capture /\ state[Cur] \in States \ {"held"}
         /\ PartOf(state[Cur]) \in Part
<1>1. Cur \in Capture
  BY CurIsCapture DEF WorkerInv
<1>2. state[Cur] \in States \ {"held"}
  BY <1>1 DEF WorkerInv, TypeOK, WorkerType, States
<1> QED
  BY <1>1, <1>2 DEF PartOf, Part

\* An upload that is under way is of a capture.
LEMMA UploadOfCapture ==
  ASSUME TypeOK, UploadInv, step # "idle"
  PROVE  uploading \in Capture
  BY DEF TypeOK, UploadType, UploadInv

\* What the catch of advance does.
LEMMA Caught ==
  ASSUME TypeOK, CaptureInv, Cur \in Capture, state[Cur] # "held", Catch
  PROVE  /\ state' \in [Capture -> States] /\ reason' \in [Capture -> Reasons]
         /\ attempts' \in [Capture -> 0..MaxAttempts]
         /\ UNCHANGED <<rows, rootTs>>
<1>1. attempts[Cur] + 1 \in 0..MaxAttempts
  BY VoiceAssumption DEF TypeOK, TableType, CaptureInv, CaptureOk
<1>2. attempts' \in [Capture -> 0..MaxAttempts]
  BY <1>1 DEF Catch, TypeOK, TableType
<1>3. FailedIn(state[Cur]) \in Reasons
  BY DEF FailedIn, Reasons
<1> QED
  BY <1>2, <1>3 DEF Catch, Hold, TypeOK, TableType, States

\* Actions of the service with their locks; the rest is the world outside.
LEMMA FileStep ==
  IInv /\ [Next]_vars => FileType'
<1> SUFFICES ASSUME TypeOK, UploadInv, WorkerInv, [Next]_vars PROVE FileType'
  BY DEF IInv
<1> USE DEF FileType, File
<1>1. FileType
  BY DEF TypeOK
<1>2. CASE KeepEvidence \/ WriteEvidence \/ KeepMetadata \/ WriteMetadata
  BY <1>1, <1>2, UploadOfCapture DEF KeepEvidence, WriteEvidence, KeepMetadata, WriteMetadata
<1>3. CASE OpenRequest \/ WriteRequest
  BY <1>1, <1>3, AtRow DEF OpenRequest, WriteRequest, At, files
<1>4. CASE UNCHANGED <<files, request>>
  BY <1>1, <1>4 DEF files
<1> QED
  BY <1>2, <1>3, <1>4 DEF Next, Upload, Worker, BeginUpload, WriteFails, Insert, Answer, Tick,
     BeginDrain, EndDrain, Advance, Transcribe, FindPost, SendPost, PostReturns, MarkDispatching,
     CallAgent, Admission, WaitRun, PostEnds, RunMoves, Crash, vars

LEMMA TableStep ==
  IInv /\ [Next]_vars => TableType'
<1> SUFFICES ASSUME TypeOK, UploadInv, WorkerInv, CaptureInv, [Next]_vars PROVE TableType'
  BY DEF IInv
<1> USE DEF TableType
<1>1. TableType
  BY DEF TypeOK
<1>2. CASE Insert
  <2>1. uploading \in Capture
    BY <1>2, UploadOfCapture DEF Insert
  <2>2. rows' \in Seq(Capture)
    BY <1>1, <1>2, <2>1 DEF Insert
  <2> QED
    BY <1>1, <1>2, <2>1, <2>2 DEF Insert, States
<1>3. CASE pc \notin {"idle", "advance"} /\ Catch
  BY <1>1, <1>3, AtRow, Caught
<1>4. CASE Transcribe /\ ~Catch
  BY <1>1, <1>4, AtRow DEF Transcribe, At, Hold, States, Reasons
<1>5. ASSUME NEW i \in Nat, pc \notin {"idle", "advance"}, RecordPost(i) PROVE TableType'
  BY <1>1, <1>5, AtRow DEF RecordPost, States
<1>6. CASE MarkDispatching \/ Admission \/ WaitRun
  BY <1>1, <1>6, AtRow DEF MarkDispatching, Admission, WaitRun, At, Hold, States, Reasons
<1>7. CASE UNCHANGED table
  BY <1>1, <1>7 DEF table
<1>8. CASE FindPost \/ PostReturns
  BY <1>3, <1>5, <1>7, <1>8 DEF FindPost, PostReturns, Shown, At
<1>9. CASE OpenRequest \/ WriteRequest
  BY <1>3, <1>7, <1>9 DEF OpenRequest, WriteRequest, At
<1>10. CASE Transcribe /\ Catch
  BY <1>3, <1>10 DEF Transcribe, At
<1> QED
  BY <1>2, <1>4, <1>6, <1>7, <1>8, <1>9, <1>10 DEF Next, Upload, Worker, BeginUpload, KeepEvidence,
     WriteEvidence, KeepMetadata, WriteMetadata, WriteFails, Answer, Tick, BeginDrain, EndDrain,
     Advance, SendPost, CallAgent, PostEnds, RunMoves, Crash, vars

LEMMA OutsideStep ==
  IInv /\ [Next]_vars => OutsideType'
<1> SUFFICES ASSUME TypeOK, WorkerInv, [Next]_vars PROVE OutsideType'
  BY DEF IInv
<1> USE DEF OutsideType
<1>1. OutsideType
  BY DEF TypeOK
<1>2. CASE SendPost
  <2> DEFINE p == PartOf(state[Cur])
  <2>1. Cur \in Capture /\ p \in Part
    BY <1>2, AtRow DEF SendPost, At
  <2>2. Append(posts[Cur][p], "inflight") \in Seq(Fate)
    BY <1>1, <2>1 DEF Fate
  <2> HIDE DEF p
  <2>3. [posts EXCEPT ![Cur][p] = Append(@, "inflight")] \in [Capture -> [Part -> Seq(Fate)]]
    BY <1>1, <2>1, <2>2
  <2> QED
    BY <1>1, <1>2, <2>3 DEF SendPost, p
<1>3. CASE CallAgent
  BY <1>1, <1>3, AtRow DEF CallAgent, At
<1>4. ASSUME NEW c \in Capture, NEW p \in Part, PostEnds(c, p) PROVE OutsideType'
  <2>1. PICK i \in 1..Len(posts[c][p]), end \in {"shown", "lost"} :
          posts' = [posts EXCEPT ![c][p][i] = end]
    BY <1>4 DEF PostEnds
  <2>2. [posts[c][p] EXCEPT ![i] = end] \in Seq(Fate)
    BY <1>1, <1>4, ExceptSeq DEF Fate
  <2>3. posts' \in [Capture -> [Part -> Seq(Fate)]]
    BY <1>1, <2>1, <2>2
  <2> QED
    BY <1>1, <1>4, <2>3 DEF PostEnds
<1>5. ASSUME NEW c \in Capture, RunMoves(c) PROVE OutsideType'
  BY <1>1, <1>5 DEF RunMoves
<1>6. CASE UNCHANGED outside
  BY <1>1, <1>6 DEF outside
<1> QED
  BY <1>2, <1>3, <1>4, <1>5, <1>6 DEF Next, Upload, Worker, BeginUpload, KeepEvidence,
     WriteEvidence, KeepMetadata, WriteMetadata, WriteFails, Insert, Answer, Tick, BeginDrain,
     EndDrain, Advance, Transcribe, FindPost, PostReturns, OpenRequest, WriteRequest,
     MarkDispatching, Admission, WaitRun, Crash, vars

LEMMA UploadStep ==
  IInv /\ [Next]_vars => UploadType'
<1> SUFFICES ASSUME TypeOK, UploadInv, [Next]_vars PROVE UploadType'
  BY DEF IInv
<1> USE DEF UploadType, UploadAt, Reject
<1>1. UploadType
  BY DEF TypeOK
<1>2. CASE Upload
  <2>1. CASE KeepEvidence \/ WriteEvidence \/ KeepMetadata \/ WriteMetadata
    <3>1. uploading \in Capture
      BY <2>1, UploadOfCapture DEF KeepEvidence, WriteEvidence, KeepMetadata, WriteMetadata
    <3>2. evidence[uploading] \in File
      BY <3>1 DEF TypeOK, FileType
    <3> QED
      BY <1>1, <2>1, <3>2 DEF KeepEvidence, WriteEvidence, KeepMetadata, WriteMetadata, File
  <2>2. CASE WriteFails \/ Insert
    BY <1>1, <2>2 DEF WriteFails, Insert
  <2>3. CASE Answer
    BY <1>1, <2>3, UploadOfCapture DEF Answer
  <2> QED
    BY <1>2, <2>1, <2>2, <2>3 DEF Upload
<1>3. ASSUME NEW c \in Capture, BeginUpload(c) PROVE UploadType'
  BY <1>1, <1>3 DEF BeginUpload
<1>4. CASE Crash
  BY <1>1, <1>4 DEF Crash
<1>5. CASE UNCHANGED <<answered, upload>>
  BY <1>1, <1>5 DEF upload
<1> QED
  BY <1>2, <1>3, <1>4, <1>5 DEF Next, Worker, Tick, BeginDrain, EndDrain, Advance, Transcribe,
     FindPost, SendPost, PostReturns, OpenRequest, WriteRequest, MarkDispatching, CallAgent,
     Admission, WaitRun, PostEnds, RunMoves, vars

\* The steps of the worker that stay at their row, and those that leave it.
LEMMA WorkerStep ==
  IInv /\ [Next]_vars => WorkerType'
<1> SUFFICES ASSUME WorkerType, TableType, UploadInv, [Next]_vars PROVE WorkerType'
  BY DEF IInv, TypeOK
<1> USE VoiceAssumption DEF WorkerType
<1>1. CASE Tick
  BY <1>1 DEF Tick
<1>2. CASE BeginDrain
  BY <1>2 DEF BeginDrain, TableType
<1>3. CASE EndDrain
  BY <1>3 DEF EndDrain
<1>4. CASE Advance
  BY <1>4 DEF Advance, Goto, Stage, Leave
<1>5. CASE Transcribe \/ FindPost \/ PostReturns
  BY <1>5 DEF Transcribe, FindPost, PostReturns, RecordPost, Catch, Goto, Leave
<1>6. CASE SendPost \/ MarkDispatching \/ CallAgent
  BY <1>6 DEF SendPost, MarkDispatching, CallAgent, Goto
<1>7. CASE OpenRequest \/ WriteRequest
  BY <1>7 DEF OpenRequest, WriteRequest, Catch, Goto, Leave
<1>8. CASE Admission \/ WaitRun
  BY <1>8 DEF Admission, WaitRun, Leave
<1>9. CASE Answer
  BY <1>9 DEF Answer, UploadInv
<1>10. CASE Crash
  BY <1>10 DEF Crash
<1>11. CASE UNCHANGED <<worker, crashes>>
  BY <1>11 DEF worker
<1> QED
  BY <1>1, <1>2, <1>3, <1>4, <1>5, <1>6, <1>7, <1>8, <1>9, <1>10, <1>11 DEF Next, Upload, Worker,
     BeginUpload, KeepEvidence, WriteEvidence, KeepMetadata, WriteMetadata, WriteFails, Insert,
     PostEnds, RunMoves, vars

LEMMA TypeStep ==
  IInv /\ [Next]_vars => TypeOK'
BY FileStep, TableStep, OutsideStep, UploadStep, WorkerStep DEF TypeOK

\* Posts that Slack shows stay, and other posts change only what is in flight.
LEMMA ShownGrows ==
  ASSUME IInv, [Next]_vars, NEW c \in Capture, NEW p \in Part
  PROVE  /\ Shown(c, p) \subseteq Shown(c, p)'
         /\ posts[c][p] = <<>> /\ state[c] \in {"none", "received", "held"} => posts'[c][p] = <<>>
<1> SUFFICES ASSUME TypeOK, WorkerInv, [Next]_vars
             PROVE  /\ Shown(c, p) \subseteq Shown(c, p)'
                    /\ posts[c][p] = <<>> /\ state[c] \in {"none", "received", "held"}
                         => posts'[c][p] = <<>>
  BY DEF IInv
<1>1. posts \in [Capture -> [Part -> Seq(Fate)]]
  BY DEF TypeOK, OutsideType
<1>2. CASE SendPost
  <2>1. Cur \in Capture /\ PartOf(state[Cur]) \in Part /\ state[Cur] \in {"transcribed", "rooted"}
    BY <1>2, AtRow DEF SendPost, At, WorkerInv
  <2>2. CASE c = Cur /\ p = PartOf(state[Cur])
    <3>1. posts'[c][p] = Append(posts[c][p], "inflight")
      BY <1>1, <1>2, <2>1, <2>2 DEF SendPost
    <3>2. \A i \in 1..Len(posts[c][p]) : i \in 1..Len(posts'[c][p]) /\ posts'[c][p][i] = posts[c][p][i]
      BY <1>1, <3>1 DEF Fate
    <3> QED
      BY <2>1, <2>2, <3>2 DEF Shown, Posts
  <2>3. CASE c # Cur \/ p # PartOf(state[Cur])
    <3>1. posts'[c][p] = posts[c][p]
      BY <1>1, <1>2, <2>1, <2>3 DEF SendPost
    <3> QED
      BY <3>1 DEF Shown, Posts
  <2> QED
    BY <2>2, <2>3
<1>3. ASSUME NEW d \in Capture, NEW q \in Part, PostEnds(d, q)
      PROVE  /\ Shown(c, p) \subseteq Shown(c, p)'
             /\ posts[c][p] = <<>> => posts'[c][p] = <<>>
  <2>1. PICK i \in 1..Len(posts[d][q]), end \in {"shown", "lost"} :
          posts[d][q][i] = "inflight" /\ posts' = [posts EXCEPT ![d][q][i] = end]
    BY <1>3 DEF PostEnds
  <2>2. CASE c = d /\ p = q
    <3>1. posts'[c][p] = [posts[c][p] EXCEPT ![i] = end]
      BY <1>1, <2>1, <2>2
    <3>2. Len(posts'[c][p]) = Len(posts[c][p])
      BY <1>1, <3>1, <2>1, <2>2
    <3>3. \A j \in 1..Len(posts[c][p]) : posts[c][p][j] = "shown" => posts'[c][p][j] = "shown"
      BY <1>1, <3>1, <2>1, <2>2
    <3>4. posts[c][p] # <<>>
      BY <2>1, <2>2
    <3> QED
      BY <3>2, <3>3, <3>4 DEF Shown, Posts
  <2>3. CASE c # d \/ p # q
    <3>1. posts'[c][p] = posts[c][p]
      BY <1>1, <2>1, <2>3
    <3> QED
      BY <3>1 DEF Shown, Posts
  <2> QED
    BY <2>2, <2>3
<1>4. CASE UNCHANGED posts
  BY <1>4 DEF Shown, Posts
<1> QED
  BY <1>2, <1>3, <1>4 DEF Next, Upload, Worker, BeginUpload, KeepEvidence,
     WriteEvidence, KeepMetadata, WriteMetadata, WriteFails, Insert, Answer, Tick, BeginDrain,
     EndDrain, Advance, Transcribe, FindPost, PostReturns, OpenRequest, WriteRequest,
     MarkDispatching, CallAgent, Admission, WaitRun, RunMoves, Crash, outside, vars

\* The table lists what has a state, and a new row goes to its end.
LEMMA TableListed ==
  IInv /\ [Next]_vars => TableInv'
<1> SUFFICES ASSUME TypeOK, UploadInv, WorkerInv, TableInv, [Next]_vars PROVE TableInv'
  BY DEF IInv
<1>1. TableType
  BY DEF TypeOK
<1>2. CASE Insert
  <2>1. uploading \in Capture
    BY <1>2, UploadOfCapture DEF Insert
  <2>2. /\ Len(rows') = Len(rows) + 1 /\ rows'[Len(rows) + 1] = uploading
        /\ \A i \in 1..Len(rows) : rows'[i] = rows[i]
    BY <1>1, <1>2, <2>1 DEF Insert, TableType
  <2>3. Len(rows) \in Nat
    BY <1>1 DEF TableType
  <2>4. \A c \in Capture : state'[c] = IF c = uploading THEN "received" ELSE state[c]
    BY <1>1, <1>2, <2>1 DEF Insert, TableType
  <2>5. ASSUME NEW c \in Capture
        PROVE  state'[c] # "none" <=> \E i \in 1..Len(rows') : rows'[i] = c
    BY <2>2, <2>3, <2>4 DEF TableInv
  <2> QED
    BY <2>5 DEF TableInv
<1>3. CASE UNCHANGED rows /\ \A c \in Capture : state[c] = "none" <=> state'[c] = "none"
  BY <1>3 DEF TableInv
<1>4. CASE pc \notin {"idle", "advance"} /\ UNCHANGED rows
           /\ \E s \in States \ {"none"} : state' = [state EXCEPT ![Cur] = s]
  <2>1. Cur \in Capture /\ state[Cur] # "none"
    BY <1>4, AtRow DEF WorkerInv, TypeOK, WorkerType
  <2> QED
    BY <1>1, <1>3, <1>4, <2>1 DEF TableType
<1>5. CASE Transcribe \/ FindPost \/ PostReturns
  BY <1>3, <1>4, <1>5 DEF Transcribe, FindPost, PostReturns, RecordPost, Catch, Hold, At, States, table
<1>6. CASE OpenRequest \/ WriteRequest \/ MarkDispatching \/ Admission \/ WaitRun
  BY <1>3, <1>4, <1>6 DEF OpenRequest, WriteRequest, MarkDispatching, Admission, WaitRun, Catch,
     Hold, At, States, table
<1>7. CASE UNCHANGED table
  BY <1>3, <1>7 DEF table
<1> QED
  BY <1>2, <1>5, <1>6, <1>7 DEF Next, Upload, Worker, BeginUpload, KeepEvidence,
     WriteEvidence, KeepMetadata, WriteMetadata, WriteFails, Answer, Tick, BeginDrain, EndDrain,
     Advance, SendPost, CallAgent, PostEnds, RunMoves, Crash, vars

LEMMA UploadKept ==
  IInv /\ [Next]_vars => UploadInv'
<1> SUFFICES ASSUME TypeOK, UploadInv, WorkerInv, [Next]_vars PROVE UploadInv'
  BY DEF IInv
<1> USE DEF UploadInv, UploadAt, Reject
<1>1. FileType /\ TableType /\ UploadType
  BY DEF TypeOK
<1>2. ASSUME NEW c \in Capture, BeginUpload(c) PROVE UploadInv'
  BY <1>2, VoiceAssumption DEF BeginUpload, files, table, worker
<1>3. CASE Upload
  <2>1. step # "idle" => uploading \in Capture /\ evidence[uploading] \in File
    BY <1>1, UploadOfCapture DEF FileType
  <2>2. CASE KeepEvidence
    BY <1>1, <2>1, <2>2, VoiceAssumption DEF KeepEvidence, FileType, File, table, worker
  <2>3. CASE WriteEvidence
    BY <1>1, <2>1, <2>3, VoiceAssumption DEF WriteEvidence, FileType, table, worker
  <2>4. CASE KeepMetadata \/ WriteMetadata
    BY <1>1, <2>1, <2>4, VoiceAssumption DEF KeepMetadata, WriteMetadata, table, worker
  <2>5. CASE WriteFails \/ Answer
    BY <2>5 DEF WriteFails, Answer
  <2>6. CASE Insert
    BY <1>1, <2>1, <2>6, VoiceAssumption DEF Insert, TableType, worker
  <2> QED
    BY <1>3, <2>2, <2>3, <2>4, <2>5, <2>6 DEF Upload
<1>4. CASE uploading = None /\ UNCHANGED upload
  BY <1>4 DEF upload
<1>5. CASE UNCHANGED <<upload, files, state, queued>>
  BY <1>5 DEF upload, files
<1>6. CASE Crash
  BY <1>6 DEF Crash
<1> QED
  BY <1>2, <1>3, <1>4, <1>5, <1>6 DEF Next, Worker, Tick, BeginDrain, EndDrain, Advance, Transcribe,
     FindPost, SendPost, PostReturns, OpenRequest, WriteRequest, MarkDispatching, CallAgent,
     Admission, WaitRun, At, PostEnds, RunMoves, vars, worker, table

LEMMA WorkerKept ==
  IInv /\ [Next]_vars => WorkerInv'
<1> SUFFICES ASSUME TypeOK, UploadInv, WorkerInv, TableInv, CaptureInv, [Next]_vars PROVE WorkerInv'
  BY DEF IInv
<1>1. TableType /\ WorkerType /\ calls \in [Capture -> Nat]
  BY DEF TypeOK, OutsideType
<1>2. pc \notin {"idle", "advance"} => Cur \in Capture
  BY AtRow
<1>3. CASE Insert
  <2>1. uploading \in Capture /\ state[uploading] = "none"
    BY <1>3, UploadOfCapture DEF Insert, UploadInv
  <2>2. Len(rows') = Len(rows) + 1 /\ \A i \in 1..Len(rows) : rows'[i] = rows[i]
    BY <1>1, <1>3, <2>1 DEF Insert, TableType
  <2>3. pc \notin {"idle", "advance"} => Cur' = Cur /\ state'[Cur] = state[Cur]
    <3>1. ASSUME pc \notin {"idle", "advance"} PROVE pos \in 1..Len(rows) /\ state[Cur] # "none"
      BY <1>1, <3>1 DEF WorkerInv, WorkerType, TableType
    <3> QED
      BY <1>1, <1>2, <1>3, <2>1, <2>2, <3>1 DEF Insert, Cur, TableType, worker
  <2>4. pc # "idle" => limit <= Len(rows')
    BY <1>1, <2>2 DEF WorkerInv, WorkerType, TableType
  <2> QED
    BY <1>3, <2>3, <2>4 DEF Insert, WorkerInv, worker, outside
<1>4. CASE UNCHANGED <<table, pc, pos, limit, calls>>
  BY <1>4 DEF WorkerInv, Cur, table
<1>5. CASE BeginDrain
  BY <1>1, <1>5 DEF BeginDrain, WorkerInv, WorkerType, TableType, table
<1>6. CASE EndDrain \/ Crash
  BY <1>6 DEF EndDrain, Crash, WorkerInv
<1>7. CASE pc # "idle" /\ Leave /\ UNCHANGED rows
  BY <1>1, <1>7 DEF Leave, WorkerInv, WorkerType
<1>8. CASE pc # "idle" /\ Goto("advance") /\ UNCHANGED rows
  BY <1>8 DEF Goto, WorkerInv
<1>9. CASE Tick
  BY <1>9 DEF Tick, WorkerInv, Cur, table, outside
<1>10. CASE Advance
  <2>1. CASE Open(Cur)
    <3>1. Cur \in Capture /\ Cur' = Cur
      BY <1>10, <2>1, CurIsCapture DEF Advance, At, Goto, Cur, table
    <3>2. PICK i \in 1..Len(rows) : Cur = rows[i]
      BY <1>1, <1>10 DEF Advance, At, WorkerInv, WorkerType, TableType, Cur
    <3>3. state[Cur] \in {"received", "transcribed", "rooted", "posted", "dispatching"}
      BY <1>1, <1>10, <2>1, <3>1, <3>2 DEF Open, TableType, States, TableInv
    <3> QED
      BY <1>10, <2>1, <3>1, <3>3 DEF Advance, At, Goto, Stage, WorkerInv, table, outside
  <2>2. CASE ~Open(Cur)
    BY <1>7, <1>10, <2>2 DEF Advance, At, table
  <2> QED
    BY <2>1, <2>2
<1>11. CASE Transcribe
  BY <1>7, <1>8, <1>11 DEF Transcribe, At, Catch
<1>12. CASE FindPost
  <2>1. CASE Goto("post") /\ UNCHANGED table
    BY <1>12, <2>1 DEF FindPost, At, Goto, WorkerInv, Cur, table
  <2> QED
    BY <1>7, <1>8, <1>12, <2>1 DEF FindPost, At, Catch, RecordPost
<1>13. CASE SendPost
  BY <1>13 DEF SendPost, At, Goto, WorkerInv, Cur, table
<1>14. CASE PostReturns
  BY <1>7, <1>8, <1>14 DEF PostReturns, At, Catch, RecordPost
<1>15. CASE OpenRequest \/ WriteRequest
  <2>1. CASE (Goto("writing") \/ Goto("mark")) /\ UNCHANGED table
    BY <1>15, <2>1 DEF OpenRequest, WriteRequest, At, Goto, WorkerInv, Cur, table
  <2> QED
    BY <1>7, <1>15, <2>1 DEF OpenRequest, WriteRequest, At, Catch
<1>16. CASE MarkDispatching
  <2>1. Cur \in Capture /\ Cur' = Cur /\ state[Cur] = "posted"
    BY <1>2, <1>16 DEF MarkDispatching, At, Goto, Cur, WorkerInv
  <2>2. calls[Cur] = 0
    BY <1>1, <2>1 DEF CaptureInv, CaptureOk
  <2> QED
    BY <1>1, <1>16, <2>1, <2>2 DEF MarkDispatching, At, Goto, WorkerInv, TableType, outside
<1>17. CASE CallAgent
  BY <1>17 DEF CallAgent, At, Goto, WorkerInv, Cur, table
<1>18. CASE Admission \/ WaitRun
  BY <1>7, <1>18 DEF Admission, WaitRun, At
<1> QED
  BY <1>3, <1>4, <1>5, <1>6, <1>9, <1>10, <1>11, <1>12, <1>13, <1>14, <1>15, <1>16, <1>17, <1>18
  DEF Next, Upload, Worker, BeginUpload, KeepEvidence, WriteEvidence, KeepMetadata, WriteMetadata,
      WriteFails, Answer, PostEnds, RunMoves, vars, outside, worker

\* What a capture's posts, turn and answer leave as they are.
LEMMA QuietCapture ==
  ASSUME IInv, [Next]_vars, UNCHANGED <<state, reason, attempts, rootTs, calls>>,
         \A c \in answered' : c \in answered \/ state[c] # "none"
  PROVE  CaptureInv'
<1>1. \A c \in Capture, p \in Part : Shown(c, p) \subseteq Shown(c, p)'
  BY ShownGrows
<1>2. \A c \in Capture, p \in Part :
        posts[c][p] = <<>> /\ state[c] \in {"none", "received", "held"} => posts'[c][p] = <<>>
  BY ShownGrows
<1>3. CaptureInv
  BY DEF IInv
<1> QED
  BY <1>1, <1>2, <1>3 DEF CaptureInv, CaptureOk, Part

\* The worker's row moves on; every other capture stays as it is.
LEMMA RowMoves ==
  ASSUME IInv, [Next]_vars, pc \notin {"idle", "advance"}, UNCHANGED <<calls, answered>>,
         NEW s \in States \ {"none", "received", "held"}, state' = [state EXCEPT ![Cur] = s],
         UNCHANGED <<reason, attempts>>,
         \A c \in Capture : c # Cur => rootTs'[c] = rootTs[c],
         calls[Cur] > 0 => s \in {"dispatching", "dispatched"},
         s \in {"rooted", "posted", "dispatching"} => rootTs'[Cur] \in Shown(Cur, "root"),
         s \in {"posted", "dispatching"} => Shown(Cur, "transcript") # {}
  PROVE  CaptureInv'
<1>1. \A c \in Capture, p \in Part : Shown(c, p) \subseteq Shown(c, p)'
  BY ShownGrows
<1>2. \A c \in Capture, p \in Part :
        posts[c][p] = <<>> /\ state[c] \in {"none", "received", "held"} => posts'[c][p] = <<>>
  BY ShownGrows
<1>3. CaptureInv /\ Cur \in Capture /\ state[Cur] # "held" /\ state \in [Capture -> States]
  BY AtRow DEF IInv, TypeOK, TableType
<1>4. {"root", "transcript"} = Part
  BY DEF Part
<1>5. ASSUME NEW c \in Capture, c = Cur PROVE CaptureOk(c)'
  BY <1>1, <1>2, <1>3, <1>4, <1>5 DEF CaptureInv, CaptureOk, States
<1>6. ASSUME NEW c \in Capture, c # Cur PROVE CaptureOk(c)'
  BY <1>1, <1>2, <1>3, <1>4, <1>6 DEF CaptureInv, CaptureOk
<1> QED
  BY <1>5, <1>6 DEF CaptureInv

\* A row is held: over an unconfirmed admission, or before any turn was called.
LEMMA RowHeld ==
  ASSUME IInv, [Next]_vars, pc \notin {"idle", "advance"}, UNCHANGED <<calls, answered, rootTs>>,
         NEW why, Hold(why), calls[Cur] > 0 => why = "admission_unconfirmed",
         \A c \in Capture : c # Cur => attempts'[c] = attempts[c]
  PROVE  CaptureInv'
<1>1. \A c \in Capture, p \in Part : Shown(c, p) \subseteq Shown(c, p)'
  BY ShownGrows
<1>2. \A c \in Capture, p \in Part :
        posts[c][p] = <<>> /\ state[c] \in {"none", "received", "held"} => posts'[c][p] = <<>>
  BY ShownGrows
<1>3. /\ CaptureInv /\ Cur \in Capture /\ state[Cur] # "held"
      /\ state \in [Capture -> States] /\ reason \in [Capture -> Reasons]
  BY AtRow DEF IInv, TypeOK, TableType
<1>4. {"root", "transcript"} = Part
  BY DEF Part
<1>5. ASSUME NEW c \in Capture, c = Cur PROVE CaptureOk(c)'
  <2>1. state'[c] = "held" /\ reason'[c] = why
    BY <1>3, <1>5 DEF Hold
  <2>2. c \in answered => state[c] # "none"
    BY <1>3 DEF CaptureInv, CaptureOk
  <2> QED
    BY <1>5, <2>1, <2>2 DEF CaptureOk
<1>6. ASSUME NEW c \in Capture, c # Cur PROVE CaptureOk(c)'
  <2>1. state'[c] = state[c] /\ reason'[c] = reason[c]
    BY <1>3, <1>6 DEF Hold
  <2> QED
    BY <1>1, <1>2, <1>3, <1>4, <1>6, <2>1 DEF CaptureInv, CaptureOk
<1> QED
  BY <1>5, <1>6 DEF CaptureInv

\* The catch keeps the captures in order, as long as no turn was called.
LEMMA CatchKeeps ==
  ASSUME IInv, [Next]_vars, pc \notin {"idle", "advance"}, UNCHANGED <<calls, answered>>,
         Catch, calls[Cur] = 0
  PROVE  CaptureInv'
<1>1. /\ Cur \in Capture /\ state[Cur] # "held"
      /\ attempts \in [Capture -> 0..MaxAttempts] /\ MaxAttempts \in Nat
  BY AtRow, VoiceAssumption DEF IInv, TypeOK, TableType
<1>2. \A c \in Capture : c # Cur => attempts'[c] = attempts[c]
  BY <1>1 DEF Catch
<1>3. CASE attempts[Cur] + 1 >= MaxAttempts
  BY <1>1, <1>2, <1>3, RowHeld DEF Catch
<1>4. CASE ~(attempts[Cur] + 1 >= MaxAttempts)
  <2>1. UNCHANGED <<state, reason, rootTs>> /\ attempts'[Cur] # MaxAttempts
    BY <1>1, <1>4 DEF Catch
  <2>2. \A c \in Capture, p \in Part : Shown(c, p) \subseteq Shown(c, p)'
    BY ShownGrows
  <2>3. \A c \in Capture, p \in Part :
          posts[c][p] = <<>> /\ state[c] \in {"none", "received", "held"} => posts'[c][p] = <<>>
    BY ShownGrows
  <2> QED
    BY <1>1, <1>2, <2>1, <2>2, <2>3 DEF IInv, CaptureInv, CaptureOk, Part
<1> QED
  BY <1>3, <1>4

LEMMA CaptureKept ==
  IInv /\ [Next]_vars => CaptureInv'
<1> SUFFICES ASSUME IInv, [Next]_vars PROVE CaptureInv'
  OBVIOUS
<1>1. TypeOK /\ UploadInv /\ WorkerInv /\ CaptureInv /\ TableType /\ UploadType
  BY DEF IInv, TypeOK
<1>2. pc \notin {"idle", "advance"} => Cur \in Capture
  BY <1>1, AtRow
<1>3. pc \in {"transcribe", "search", "post", "await", "request", "writing", "mark", "agent"} =>
        calls[Cur] = 0
  <2>1. Cur \in Capture => calls[Cur] \in Nat
    BY <1>1 DEF TypeOK, OutsideType
  <2> QED
    BY <1>1, <1>2, <2>1 DEF WorkerInv, CaptureInv, CaptureOk
<1>4. CASE Insert
  <2>1. uploading \in Capture /\ state[uploading] = "none"
    BY <1>1, <1>4, UploadOfCapture DEF Insert, UploadInv
  <2>2. \A c \in Capture : state'[c] = IF c = uploading THEN "received" ELSE state[c]
    BY <1>1, <1>4, <2>1 DEF Insert, TableType
  <2>3. UNCHANGED <<reason, attempts, rootTs, posts, calls, answered>>
    BY <1>4 DEF Insert, outside
  <2>4. \A c \in Capture, p \in Part : Shown(c, p)' = Shown(c, p)
    BY <2>3 DEF Shown, Posts
  <2>5. {"root", "transcript"} = Part
    BY DEF Part
  <2> QED
    BY <1>1, <2>1, <2>2, <2>3, <2>4, <2>5 DEF CaptureInv, CaptureOk
<1>5. CASE Answer
  <2>1. uploading \in Capture /\ state[uploading] # "none"
    BY <1>1, <1>5, UploadOfCapture DEF Answer, UploadInv
  <2> QED
    BY <1>5, <2>1, QuietCapture DEF Answer, table, outside
<1>6. CASE UNCHANGED <<table, calls, answered>>
  BY <1>6, QuietCapture DEF table
<1>7. CASE Transcribe
  <2>1. CASE Catch
    BY <1>3, <1>7, <2>1, CatchKeeps DEF Transcribe, At, outside
  <2>2. CASE Hold("empty_transcript") /\ UNCHANGED <<attempts, rootTs>>
    BY <1>3, <1>7, <2>2, RowHeld DEF Transcribe, At, outside
  <2>3. CASE state' = [state EXCEPT ![Cur] = "transcribed"] /\ UNCHANGED <<reason, attempts, rootTs>>
    <3>1. "transcribed" \in States \ {"none", "received", "held"}
      BY DEF States
    <3>2. pc \notin {"idle", "advance"} /\ UNCHANGED <<calls, answered>> /\ ~(calls[Cur] > 0)
      BY <1>3, <1>7 DEF Transcribe, At, outside
    <3> QED
      BY <2>3, <3>1, <3>2, RowMoves
  <2> QED
    BY <1>7, <2>1, <2>2, <2>3 DEF Transcribe
<1>8. ASSUME pc \in {"search", "await"}, UNCHANGED <<calls, answered>>,
             NEW i \in Shown(Cur, PartOf(state[Cur])), RecordPost(i)
      PROVE  CaptureInv'
  <2>1. Cur \in Capture /\ state[Cur] \in {"transcribed", "rooted"} /\ rootTs \in [Capture -> Nat]
    BY <1>1, <1>2, <1>8 DEF WorkerInv, TableType
  <2>2. CASE state[Cur] = "transcribed"
    <3>1. state' = [state EXCEPT ![Cur] = "rooted"] /\ i \in Shown(Cur, "root")
      BY <1>8, <2>2 DEF RecordPost, PartOf
    <3>2. rootTs' = [rootTs EXCEPT ![Cur] = i] /\ UNCHANGED <<reason, attempts>>
      BY <1>8, <2>2 DEF RecordPost
    <3>3. "rooted" \in States \ {"none", "received", "held"} /\ ~(calls[Cur] > 0)
      BY <1>3, <1>8 DEF States
    <3>4. rootTs'[Cur] = i /\ \A c \in Capture : c # Cur => rootTs'[c] = rootTs[c]
      BY <2>1, <3>2
    <3> QED
      BY <1>8, <3>1, <3>2, <3>3, <3>4, RowMoves
  <2>3. CASE state[Cur] = "rooted"
    <3>1. state' = [state EXCEPT ![Cur] = "posted"] /\ Shown(Cur, "transcript") # {}
      BY <1>8, <2>3 DEF RecordPost, PartOf
    <3>2. UNCHANGED <<reason, attempts, rootTs>>
      BY <1>8, <2>3 DEF RecordPost
    <3>3. rootTs[Cur] \in Shown(Cur, "root")
      BY <1>1, <2>1, <2>3 DEF CaptureInv, CaptureOk
    <3>4. "posted" \in States \ {"none", "received", "held"} /\ ~(calls[Cur] > 0)
      BY <1>3, <1>8 DEF States
    <3> QED
      BY <1>8, <3>1, <3>2, <3>3, <3>4, RowMoves
  <2> QED
    BY <2>1, <2>2, <2>3
<1>9. CASE FindPost
  BY <1>3, <1>6, <1>8, <1>9, CatchKeeps DEF FindPost, At, outside
<1>10. CASE PostReturns
  BY <1>3, <1>8, <1>10, CatchKeeps DEF PostReturns, At, outside
<1>11. CASE OpenRequest \/ WriteRequest
  BY <1>3, <1>6, <1>11, CatchKeeps DEF OpenRequest, WriteRequest, At, outside
<1>12. CASE MarkDispatching
  <2>1. /\ rootTs[Cur] \in Shown(Cur, "root") /\ Shown(Cur, "transcript") # {}
        /\ state' = [state EXCEPT ![Cur] = "dispatching"]
    BY <1>1, <1>2, <1>12 DEF MarkDispatching, At, WorkerInv, CaptureInv, CaptureOk
  <2> QED
    BY <1>3, <1>12, <2>1, RowMoves DEF MarkDispatching, At, outside, States
<1>13. CASE CallAgent
  <2>1. Cur \in Capture /\ state[Cur] = "dispatching"
    BY <1>1, <1>2, <1>13 DEF CallAgent, At, WorkerInv
  <2>2. \A c \in Capture : c # Cur => calls'[c] = calls[c]
    BY <1>1, <1>13 DEF CallAgent, TypeOK, OutsideType
  <2>3. UNCHANGED <<state, reason, attempts, rootTs, posts, answered>>
    BY <1>13 DEF CallAgent, table
  <2>4. \A c \in Capture, p \in Part : Shown(c, p)' = Shown(c, p)
    BY <2>3 DEF Shown, Posts
  <2>5. {"root", "transcript"} = Part
    BY DEF Part
  <2> QED
    BY <1>1, <2>1, <2>2, <2>3, <2>4, <2>5 DEF CaptureInv, CaptureOk
<1>14. CASE Admission \/ WaitRun
  <2>1. CASE Hold("admission_unconfirmed")
    BY <1>14, <2>1, RowHeld DEF Admission, WaitRun, At, outside
  <2>2. CASE state' = [state EXCEPT ![Cur] = "dispatched"] /\ UNCHANGED reason
    BY <1>14, <2>2, RowMoves DEF Admission, WaitRun, At, outside, States
  <2> QED
    BY <1>14, <2>1, <2>2 DEF Admission, WaitRun
<1> QED
  BY <1>4, <1>5, <1>6, <1>7, <1>9, <1>10, <1>11, <1>12, <1>13, <1>14 DEF Next, Upload, Worker,
     BeginUpload, KeepEvidence, WriteEvidence, KeepMetadata, WriteMetadata, WriteFails, Tick,
     BeginDrain, EndDrain, Advance, SendPost, PostEnds, RunMoves, Crash, vars, outside

LEMMA TurnKept ==
  IInv /\ [Next]_vars => OneTurnPerCapture' /\ ThreadBeforeTurn' /\ DispatchedWasAdmitted'
<1> SUFFICES ASSUME IInv, [Next]_vars
             PROVE  OneTurnPerCapture' /\ ThreadBeforeTurn' /\ DispatchedWasAdmitted'
  OBVIOUS
<1>1. /\ TypeOK /\ WorkerInv /\ CaptureInv /\ OneTurnPerCapture /\ ThreadBeforeTurn
      /\ DispatchedWasAdmitted /\ TableType /\ OutsideType
  BY DEF IInv, TypeOK
<1>2. \A c \in Capture, p \in Part : Shown(c, p) \subseteq Shown(c, p)'
  BY ShownGrows
<1>3. {"root", "transcript"} = Part
  BY DEF Part
<1>4. pc \notin {"idle", "advance"} => Cur \in Capture /\ state[Cur] \notin {"held", "dispatched"}
  BY <1>1, AtRow DEF WorkerInv, WorkerType, TypeOK
<1>5. OneTurnPerCapture' /\ ThreadBeforeTurn'
  <2>1. CASE CallAgent
    <3>1. Cur \in Capture /\ state[Cur] = "dispatching" /\ calls[Cur] = 0
      BY <1>1, <1>4, <2>1 DEF CallAgent, At, WorkerInv
    <3>2. \A c \in Capture : calls'[c] = IF c = Cur THEN 1 ELSE calls[c]
      BY <1>1, <2>1, <3>1 DEF CallAgent, OutsideType
    <3>3. UNCHANGED <<rootTs, posts>>
      BY <2>1 DEF CallAgent, table
    <3>4. rootTs[Cur] \in Shown(Cur, "root") /\ Shown(Cur, "transcript") # {}
      BY <1>1, <3>1 DEF CaptureInv, CaptureOk
    <3> QED
      BY <1>1, <1>2, <1>3, <3>1, <3>2, <3>3, <3>4 DEF OneTurnPerCapture, ThreadBeforeTurn
  <2>2. CASE UNCHANGED calls /\ \A c \in Capture : rootTs'[c] = rootTs[c] \/ state[c] = "transcribed"
    <3>1. \A c \in Capture : calls[c] > 0 => rootTs'[c] = rootTs[c]
      BY <1>1, <2>2 DEF CaptureInv, CaptureOk
    <3> QED
      BY <1>1, <1>2, <1>3, <2>2, <3>1 DEF OneTurnPerCapture, ThreadBeforeTurn
  <2>3. ASSUME NEW i, RecordPost(i), pc \notin {"idle", "advance"}
        PROVE  \A c \in Capture : rootTs'[c] = rootTs[c] \/ state[c] = "transcribed"
    BY <1>1, <1>4, <2>3 DEF RecordPost, TableType
  <2>4. CASE FindPost \/ PostReturns
    BY <2>2, <2>3, <2>4 DEF FindPost, PostReturns, At, Catch, table, outside
  <2>5. CASE UNCHANGED <<calls, rootTs>>
    BY <2>2, <2>5
  <2> QED
    BY <2>1, <2>4, <2>5 DEF Next, Upload, Worker, BeginUpload, KeepEvidence, WriteEvidence,
       KeepMetadata, WriteMetadata, WriteFails, Insert, Answer, Tick, BeginDrain, EndDrain, Advance,
       Transcribe, SendPost, OpenRequest, WriteRequest, MarkDispatching, Admission, WaitRun, Catch,
       PostEnds, RunMoves, Crash, vars, outside, table
<1>6. DispatchedWasAdmitted'
  <2>1. \A c \in Capture : Started(c) => Started(c)'
    <3>1. CASE CallAgent
      BY <1>1, <1>4, <3>1 DEF CallAgent, At, Started, OutsideType
    <3>2. ASSUME NEW d \in Capture, RunMoves(d) PROVE \A c \in Capture : Started(c) => Started(c)'
      BY <1>1, <3>2 DEF RunMoves, Started, OutsideType
    <3>3. CASE UNCHANGED run
      BY <3>3 DEF Started
    <3> QED
      BY <3>1, <3>2, <3>3 DEF Next, Upload, Worker, BeginUpload, KeepEvidence, WriteEvidence,
         KeepMetadata, WriteMetadata, WriteFails, Insert, Answer, Tick, BeginDrain, EndDrain, Advance,
         Transcribe, FindPost, SendPost, PostReturns, OpenRequest, WriteRequest, MarkDispatching,
         Admission, WaitRun, PostEnds, Crash, vars, outside
  <2>2. CASE \A c \in Capture : state'[c] = "dispatched" => state[c] = "dispatched"
    BY <1>1, <2>1, <2>2 DEF DispatchedWasAdmitted
  <2>3. CASE Insert
    <3>1. uploading \in Capture
      BY <1>1, <2>3, UploadOfCapture DEF Insert, IInv
    <3> QED
      BY <1>1, <2>2, <2>3, <3>1 DEF Insert, TableType
  <2>4. CASE Transcribe \/ FindPost \/ PostReturns
    BY <1>1, <1>4, <2>2, <2>4 DEF Transcribe, FindPost, PostReturns, At, Catch, Hold, RecordPost,
       TableType, table
  <2>5. CASE OpenRequest \/ WriteRequest \/ MarkDispatching
    BY <1>1, <1>4, <2>2, <2>5 DEF OpenRequest, WriteRequest, MarkDispatching, At, Catch, Hold,
       TableType, table
  <2>6. CASE Admission \/ WaitRun
    <3>1. ASSUME NEW c \in Capture, state'[c] = "dispatched"
          PROVE  state[c] = "dispatched" \/ Started(c)
      BY <1>1, <1>4, <2>6, <3>1 DEF Admission, WaitRun, At, Hold, TableType, Started
    <3> QED
      BY <1>1, <2>1, <3>1 DEF DispatchedWasAdmitted
  <2>7. CASE UNCHANGED state
    BY <2>2, <2>7
  <2> QED
    BY <2>3, <2>4, <2>5, <2>6, <2>7 DEF Next, Upload, Worker, BeginUpload, KeepEvidence,
       WriteEvidence, KeepMetadata, WriteMetadata, WriteFails, Answer, Tick, BeginDrain, EndDrain,
       Advance, SendPost, CallAgent, PostEnds, RunMoves, Crash, vars, table
<1> QED
  BY <1>5, <1>6

LEMMA EvidenceKept ==
  IInv /\ [Next]_vars => RowHasEvidence'
<1> SUFFICES ASSUME IInv, [Next]_vars PROVE RowHasEvidence'
  OBVIOUS
<1>1. TypeOK /\ UploadInv /\ WorkerInv /\ RowHasEvidence /\ TableType /\ FileType
  BY DEF IInv, TypeOK
<1>2. step # "idle" => uploading \in Capture
  BY <1>1, UploadOfCapture
<1>3. pc \notin {"idle", "advance"} => Cur \in Capture /\ state[Cur] # "none"
  BY <1>1, AtRow DEF WorkerInv, WorkerType, TypeOK
<1>4. CASE KeepEvidence \/ WriteEvidence
  <2>1. state[uploading] = "none" /\ \A c \in Capture : c # uploading => evidence'[c] = evidence[c]
    BY <1>1, <1>2, <1>4 DEF KeepEvidence, WriteEvidence, UploadInv, FileType, File
  <2>2. UNCHANGED state
    BY <1>4 DEF KeepEvidence, WriteEvidence, table
  <2> QED
    BY <1>1, <2>1, <2>2 DEF RowHasEvidence
<1>5. CASE Insert
  <2>1. evidence[uploading] = "whole" /\ \A c \in Capture : c # uploading => state'[c] = state[c]
    BY <1>1, <1>2, <1>5 DEF Insert, UploadInv, TableType
  <2> QED
    BY <1>1, <1>5, <2>1 DEF RowHasEvidence, Insert, files
<1>6. CASE UNCHANGED evidence /\ \A c \in Capture : state'[c] # "none" => state[c] # "none"
  BY <1>1, <1>6 DEF RowHasEvidence
<1>7. CASE Transcribe \/ FindPost \/ PostReturns
  BY <1>1, <1>3, <1>6, <1>7 DEF Transcribe, FindPost, PostReturns, At, Catch, Hold, RecordPost,
     TableType, table, files
<1>8. CASE OpenRequest \/ WriteRequest \/ MarkDispatching \/ Admission \/ WaitRun
  BY <1>1, <1>3, <1>6, <1>8 DEF OpenRequest, WriteRequest, MarkDispatching, Admission, WaitRun, At,
     Catch, Hold, TableType, table, files
<1>9. CASE UNCHANGED <<evidence, state>>
  BY <1>6, <1>9
<1> QED
  BY <1>4, <1>5, <1>7, <1>8, <1>9 DEF Next, Upload, Worker, BeginUpload, KeepMetadata, WriteMetadata,
     WriteFails, Answer, Tick, BeginDrain, EndDrain, Advance, SendPost, CallAgent, PostEnds,
     RunMoves, Crash, vars, files, table

LEMMA HeldKept ==
  IInv /\ [Next]_vars => HeldEarlyNeverRan'
<1> SUFFICES ASSUME IInv, [Next]_vars PROVE HeldEarlyNeverRan'
  OBVIOUS
<1> DEFINE Early(c) == state[c] = "held" /\ reason[c] \in {"received_failed", "empty_transcript"}
<1>1. TypeOK /\ WorkerInv /\ CaptureInv /\ HeldEarlyNeverRan /\ TableType
  BY DEF IInv, TypeOK
<1>2. CaptureInv' /\ calls' \in [Capture -> Nat]
  BY CaptureKept, OutsideStep DEF OutsideType
<1>3. \A c \in Capture, p \in Part :
        posts[c][p] = <<>> /\ state[c] \in {"none", "received", "held"} => posts'[c][p] = <<>>
  BY ShownGrows
<1>4. pc \notin {"idle", "advance"} => Cur \in Capture /\ state[Cur] \notin {"none", "held"}
  BY <1>1, AtRow DEF WorkerInv, WorkerType, TypeOK
<1>5. CASE \A c \in Capture : Early(c)' => Early(c) \/ state[c] = "received"
  <2>1. ASSUME NEW c \in Capture, Early(c)', NEW p \in Part PROVE posts'[c][p] = <<>>
    BY <1>1, <1>3, <1>5, <2>1 DEF HeldEarlyNeverRan, CaptureInv, CaptureOk
  <2>2. \A c \in Capture : state'[c] = "held" /\ reason'[c] # "admission_unconfirmed" => calls'[c] = 0
    BY <1>2 DEF CaptureInv, CaptureOk
  <2> QED
    BY <2>1, <2>2 DEF HeldEarlyNeverRan
<1>6. CASE Insert
  <2>1. uploading \in Capture
    BY <1>1, <1>6, UploadOfCapture DEF Insert, IInv
  <2> QED
    BY <1>1, <1>5, <1>6, <2>1 DEF Insert, TableType
<1>7. ASSUME pc \notin {"idle", "advance"}, Catch
      PROVE  \A c \in Capture : Early(c)' => Early(c) \/ state[c] = "received"
  <2>1. FailedIn(state[Cur]) = "received_failed" => state[Cur] = "received"
    BY DEF FailedIn
  <2>2. FailedIn(state[Cur]) # "empty_transcript"
    BY DEF FailedIn
  <2> QED
    BY <1>1, <1>4, <1>7, <2>1, <2>2 DEF Catch, Hold, TableType
<1>8. CASE Transcribe
  <2>1. state[Cur] = "received"
    BY <1>1, <1>8 DEF Transcribe, At, WorkerInv
  <2> QED
    BY <1>1, <1>4, <1>5, <1>7, <1>8, <2>1 DEF Transcribe, At, Hold, TableType
<1>9. ASSUME NEW i, RecordPost(i), pc \notin {"idle", "advance"}
      PROVE  \A c \in Capture : Early(c)' => Early(c)
  BY <1>1, <1>4, <1>9 DEF RecordPost, TableType
<1>10. CASE FindPost \/ PostReturns
  BY <1>5, <1>7, <1>9, <1>10 DEF FindPost, PostReturns, At, table
<1>11. CASE OpenRequest \/ WriteRequest
  BY <1>5, <1>7, <1>11 DEF OpenRequest, WriteRequest, At, table
<1>12. CASE MarkDispatching \/ Admission \/ WaitRun
  BY <1>1, <1>4, <1>5, <1>12 DEF MarkDispatching, Admission, WaitRun, At, Hold, TableType
<1>13. CASE UNCHANGED <<state, reason>>
  BY <1>5, <1>13
<1> QED
  BY <1>6, <1>8, <1>10, <1>11, <1>12, <1>13 DEF Next, Upload, Worker, BeginUpload, KeepEvidence,
     WriteEvidence, KeepMetadata, WriteMetadata, WriteFails, Answer, Tick, BeginDrain, EndDrain,
     Advance, SendPost, CallAgent, PostEnds, RunMoves, Crash, vars, table

\* The inductive invariant holds in every behaviour.
THEOREM Inductive == Spec => []IInv
<1>1. Init => IInv
  <2> SUFFICES ASSUME Init PROVE IInv
    OBVIOUS
  <2> USE VoiceAssumption DEF Init
  <2>1. FileType /\ UploadType /\ WorkerType
    BY DEF FileType, File, UploadType, WorkerType
  <2>2. TableType
    BY DEF TableType, States, Reasons
  <2>3. OutsideType
    BY DEF OutsideType, Fate
  <2>4. UploadInv /\ WorkerInv /\ TableInv
    BY DEF UploadInv, WorkerInv, TableInv
  <2>5. CaptureInv
    <3>1. ASSUME NEW c \in Capture PROVE CaptureOk(c)
      <4>1. state[c] = "none" /\ calls[c] = 0 /\ c \notin answered /\ attempts[c] = 0
        OBVIOUS
      <4>2. \A p \in Part : posts[c][p] = <<>>
        OBVIOUS
      <4> QED
        BY <4>1, <4>2 DEF CaptureOk
    <3> QED
      BY <3>1 DEF CaptureInv
  <2>6. OneTurnPerCapture /\ RowHasEvidence /\ ThreadBeforeTurn /\ HeldEarlyNeverRan
          /\ DispatchedWasAdmitted
    BY DEF OneTurnPerCapture, RowHasEvidence, ThreadBeforeTurn, HeldEarlyNeverRan,
           DispatchedWasAdmitted
  <2> QED
    BY <2>1, <2>2, <2>3, <2>4, <2>5, <2>6 DEF IInv, TypeOK
<1>2. IInv /\ [Next]_vars => IInv'
  BY TypeStep, UploadKept, WorkerKept, TableListed, CaptureKept, TurnKept, EvidenceKept, HeldKept
  DEF IInv
<1> QED
  BY <1>1, <1>2, PTL DEF Spec

\* The variables keep their types.
THEOREM TypeCorrect == Spec => []TypeOK
<1>1. IInv => TypeOK
  BY DEF IInv
<1> QED
  BY <1>1, Inductive, PTL

\* No capture becomes a second turn of the agent.
THEOREM Once == Spec => []OneTurnPerCapture
<1>1. IInv => OneTurnPerCapture
  BY DEF IInv
<1> QED
  BY <1>1, Inductive, PTL

\* A row never exists without its original bytes.
THEOREM Evident == Spec => []RowHasEvidence
<1>1. IInv => RowHasEvidence
  BY DEF IInv
<1> QED
  BY <1>1, Inductive, PTL

\* The thread of a turn is complete before the agent is called.
THEOREM Threaded == Spec => []ThreadBeforeTurn
<1>1. IInv => ThreadBeforeTurn
  BY DEF IInv
<1> QED
  BY <1>1, Inductive, PTL

\* Only an unconfirmed admission holds a capture whose turn may have run.
THEOREM SafeToRetry == Spec => []HeldEarlyNeverRan
<1>1. IInv => HeldEarlyNeverRan
  BY DEF IInv
<1> QED
  BY <1>1, Inductive, PTL

\* A dispatched capture has a run the gateway started.
THEOREM Admitted == Spec => []DispatchedWasAdmitted
<1>1. IInv => DispatchedWasAdmitted
  BY DEF IInv
<1> QED
  BY <1>1, Inductive, PTL

\* An answered upload has its row.
THEOREM Kept == Spec => []AnsweredIsKept
<1>1. IInv => AnsweredIsKept
  BY DEF IInv, TypeOK, UploadType, TableInv, CaptureInv, CaptureOk, AnsweredIsKept
<1> QED
  BY <1>1, Inductive, PTL

\* No stage is repeated and no settled capture is taken up again.
THEOREM Staged == Spec => StagesInOrder
<1>1. IInv /\ [Next]_vars => [\A c \in Capture : Before(state[c], state[c]')]_vars
  <2> SUFFICES ASSUME IInv, [Next]_vars PROVE \A c \in Capture : Before(state[c], state[c]')
    OBVIOUS
  <2>1. TypeOK /\ UploadInv /\ WorkerInv /\ TableType
    BY DEF IInv, TypeOK
  <2>2. pc \notin {"idle", "advance"} =>
          Cur \in Capture
          /\ state[Cur] \in {"received", "transcribed", "rooted", "posted", "dispatching"}
    BY <2>1, AtRow DEF WorkerInv, WorkerType, TypeOK
  <2>3. CASE Insert
    <3>1. uploading \in Capture /\ state[uploading] = "none"
      BY <2>1, <2>3, UploadOfCapture DEF Insert, UploadInv
    <3> QED
      BY <2>1, <2>3, <3>1 DEF Insert, TableType, Before
  <2>4. ASSUME pc \notin {"idle", "advance"}, NEW t, state' = [state EXCEPT ![Cur] = t],
               Before(state[Cur], t)
        PROVE  \A c \in Capture : Before(state[c], state[c]')
    BY <2>1, <2>2, <2>4 DEF TableType, Before
  <2>5. ASSUME pc \notin {"idle", "advance"}, NEW why, Hold(why)
        PROVE  \A c \in Capture : Before(state[c], state[c]')
    BY <2>2, <2>4, <2>5 DEF Hold, Before
  <2>6. CASE UNCHANGED state
    BY <2>6 DEF Before
  <2>7. ASSUME pc \notin {"idle", "advance"}, Catch
        PROVE  \A c \in Capture : Before(state[c], state[c]')
    BY <2>5, <2>6, <2>7 DEF Catch
  <2>8. CASE Transcribe
    <3>1. Before("received", "transcribed")
      BY DEF Before
    <3> QED
      BY <2>1, <2>4, <2>5, <2>7, <2>8, <3>1 DEF Transcribe, At, WorkerInv
  <2>9. ASSUME NEW i, pc \in {"search", "await"}, RecordPost(i)
        PROVE  \A c \in Capture : Before(state[c], state[c]')
    <3>1. state[Cur] \in {"transcribed", "rooted"}
      BY <2>1, <2>9 DEF WorkerInv
    <3>2. Before("transcribed", "rooted") /\ Before("rooted", "posted")
      BY DEF Before
    <3>3. CASE state[Cur] = "transcribed"
      BY <2>4, <2>9, <3>2, <3>3 DEF RecordPost
    <3>4. CASE state[Cur] = "rooted"
      BY <2>4, <2>9, <3>2, <3>4 DEF RecordPost
    <3> QED
      BY <3>1, <3>3, <3>4
  <2>10. CASE FindPost \/ PostReturns
    BY <2>6, <2>7, <2>9, <2>10 DEF FindPost, PostReturns, At, table
  <2>11. CASE OpenRequest \/ WriteRequest
    BY <2>6, <2>7, <2>11 DEF OpenRequest, WriteRequest, At, table
  <2>12. CASE MarkDispatching
    <3>1. Before("posted", "dispatching")
      BY DEF Before
    <3> QED
      BY <2>1, <2>4, <2>12, <3>1 DEF MarkDispatching, At, WorkerInv
  <2>13. CASE Admission \/ WaitRun
    <3>1. Before("dispatching", "dispatched")
      BY DEF Before
    <3> QED
      BY <2>1, <2>4, <2>5, <2>13, <3>1 DEF Admission, WaitRun, At, WorkerInv
  <2> QED
    BY <2>3, <2>6, <2>8, <2>10, <2>11, <2>12, <2>13 DEF Next, Upload, Worker, BeginUpload,
       KeepEvidence, WriteEvidence, KeepMetadata, WriteMetadata, WriteFails, Answer, Tick,
       BeginDrain, EndDrain, Advance, SendPost, CallAgent, PostEnds, RunMoves, Crash, vars, table
<1> QED
  BY <1>1, Inductive, PTL DEF Spec, StagesInOrder
=============================================================================
