----------------------------- MODULE GrokBridge -----------------------------
(***************************************************************************)
(* The writes of the Grok bridge.  Each tool call names an operation and   *)
(* writes its file, or the two files of a staged artifact, with the flag   *)
(* wx; a file that is there already is compared by the digest of the input *)
(* it was written for.  Calls run concurrently; a write may end half-way.  *)
(* (services/grok-mcp/bridge.mjs)                                          *)
(***************************************************************************)
EXTENDS Naturals, Sequences

CONSTANTS
  Request,          \* tool calls as they arrive: an input may arrive more than once
  Input,            \* what a call may ask for
  ToolOf, OperationOf, ConversationOf,
  Absent            \* no file, no input

Tool == {"record_turn", "save_work", "propose_memory", "stage_artifact"}

\* How much of it a file holds.
Part == {"empty", "head", "whole"}

ASSUME GrokAssumption ==
  /\ ToolOf \in [Input -> Tool] /\ Absent \notin Input
  /\ \A i \in Input, part \in Part : [of |-> i, part |-> part] # Absent

\* operationKey and the path each tool makes of it: only save_work files by conversation.
Path(i, file, conversation) ==
  [tool |-> ToolOf[i], operation |-> OperationOf[i], conversation |-> conversation, file |-> file]

PathsOf(i) ==
  CASE ToolOf[i] = "save_work"      -> <<Path(i, "work.md", ConversationOf[i])>>
    [] ToolOf[i] = "stage_artifact" -> <<Path(i, "manifest.json", {}), Path(i, "index.html", {})>>
    [] OTHER                        -> <<Path(i, "record.json", {})>>

Paths == UNION {{PathsOf(i)[n] : n \in 1..Len(PathsOf(i))} : i \in Input}

\* A JSON document shows its digest only as a whole; the others within their first lines.
Parsed(path) == path.file \in {"manifest.json", "record.json"}

VARIABLES
  files,            \* the file at each path: the input it is of and how much of it is there
  asked,            \* the input of each call
  stage,            \* where the call is
  nth,              \* which of its files it is at
  made              \* the paths it has created itself

gvars == <<files, asked, stage, nth, made>>

GrokInit ==
  /\ files = [p \in Paths |-> Absent]
  /\ asked = [c \in Request |-> Absent]
  /\ stage = [c \in Request |-> "idle"]
  /\ nth = [c \in Request |-> 1]
  /\ made = [c \in Request |-> {}]

\* The path a call is writing or reading.
PathOf(c) == PathsOf(asked[c])[nth[c]]

Ask(c, i) ==
  /\ stage[c] = "idle"
  /\ asked' = [asked EXCEPT ![c] = i]
  /\ stage' = [stage EXCEPT ![c] = "open"]
  /\ UNCHANGED <<files, nth, made>>

-----------------------------------------------------------------------------
(* writeOnce *)

Open(c) ==
  /\ stage[c] = "open"
  /\ \/ /\ files[PathOf(c)] = Absent
        /\ files' = [files EXCEPT ![PathOf(c)] = [of |-> asked[c], part |-> "empty"]]
        /\ made' = [made EXCEPT ![c] = @ \cup {PathOf(c)}]
        /\ stage' = [stage EXCEPT ![c] = "write"]
     \/ /\ files[PathOf(c)] # Absent
        /\ stage' = [stage EXCEPT ![c] = "read"]
        /\ UNCHANGED <<files, made>>
  /\ UNCHANGED <<asked, nth>>

\* The next file of the call, or its answer.
Advance(c) ==
  IF nth[c] < Len(PathsOf(asked[c]))
  THEN nth' = [nth EXCEPT ![c] = @ + 1] /\ stage' = [stage EXCEPT ![c] = "open"]
  ELSE stage' = [stage EXCEPT ![c] = "answered"] /\ UNCHANGED nth

WriteHead(c) ==
  /\ stage[c] = "write" /\ files[PathOf(c)].part = "empty"
  /\ files' = [files EXCEPT ![PathOf(c)].part = "head"]
  /\ UNCHANGED <<asked, stage, nth, made>>

WriteRest(c) ==
  /\ stage[c] = "write" /\ files[PathOf(c)].part = "head"
  /\ files' = [files EXCEPT ![PathOf(c)].part = "whole"]
  /\ Advance(c)
  /\ UNCHANGED <<asked, made>>

\* Mutant: a file that exists is a replay.
AnyDigest(path) == Input

\* The input whose digest a reader finds.
DigestOf(path) ==
  IF files[path].part = "whole" \/ (files[path].part = "head" /\ ~Parsed(path)) THEN {files[path].of} ELSE {}

Read(c) ==
  /\ stage[c] = "read"
  /\ \/ asked[c] \in DigestOf(PathOf(c)) /\ Advance(c)
     \/ asked[c] \notin DigestOf(PathOf(c)) /\ stage' = [stage EXCEPT ![c] = "conflict"] /\ UNCHANGED nth
  /\ UNCHANGED <<files, asked, made>>

\* A full disk ends one call, a crash all of them; what was written stays.
Fail(c) ==
  /\ stage[c] \in {"open", "write", "read"}
  /\ stage' = [stage EXCEPT ![c] = "failed"]
  /\ UNCHANGED <<files, asked, nth, made>>

GrokCrash ==
  /\ \E c \in Request : stage[c] \in {"open", "write", "read"}
  /\ stage' = [c \in Request |-> IF stage[c] \in {"open", "write", "read"} THEN "failed" ELSE stage[c]]
  /\ UNCHANGED <<files, asked, nth, made>>

\* The client asks for nothing more.
GrokRest == (\A c \in Request : stage[c] \in {"answered", "conflict", "failed"}) /\ UNCHANGED gvars

GrokNext ==
  \/ \E c \in Request :
       \/ \E i \in Input : Ask(c, i)
       \/ Open(c) \/ WriteHead(c) \/ WriteRest(c) \/ Read(c) \/ Fail(c)
  \/ GrokCrash \/ GrokRest

GrokSpec == GrokInit /\ [][GrokNext]_gvars

-----------------------------------------------------------------------------
(***************************************************************************)
(* A call that was answered finds under each of its paths a file of its    *)
(* own input, whoever wrote it and whatever else was asked under the same  *)
(* operation id before or after; a file it made itself, or that is JSON,   *)
(* is there as a whole (writeOnce, stageArtifact).  A document that shows  *)
(* its digest early may be cut off: see the README.                        *)
(***************************************************************************)
AnsweredIsOnFile ==
  \A c \in Request : stage[c] = "answered" =>
    \A n \in 1..Len(PathsOf(asked[c])) :
      LET path == PathsOf(asked[c])[n]
      IN  /\ files[path] # Absent /\ files[path].of = asked[c]
          /\ Parsed(path) \/ path \in made[c] => files[path].part = "whole"
=============================================================================
