------------------------------- MODULE MCTools -------------------------------
(* Five components that share nothing, one per initial state. *)
EXTENDS Calendar, GrokBridge, EmailConversation, QueueConsumer, MCHeartbeat

CONSTANTS o1, o2, o3, o4, m1, m2, m3, m4, u, a, b, q1, q2, q3, i1, i2, i3, i4,
  k1, k2, k3, k4, k5, x, y, work

\* Three messages about one UID, and one without payload.
OneUid == [m \in Mail |-> IF m = m4 THEN None ELSE u]
Sequences12 == [m \in Mail |-> IF m = m1 THEN 0 ELSE 1]

\* Two inputs under one operation id, of one tool, and two of another.
TwoTools == [i \in Input |-> IF i \in {i1, i2} THEN "stage_artifact" ELSE IF i = i3 THEN "save_work" ELSE "record_turn"]
OneId == [i \in Input |-> u]
OneConversation == [i \in Input |-> b]

Names == Permutations({o1, o2, o3})

VARIABLE service
heartbeat == {"checks", "log"}   \* the log of the gateway has a part of its own

ToolsInit ==
  /\ service \in {"calendar", "grok", "conversation", "queue"} \cup heartbeat
  /\ CalendarInit /\ GrokInit /\ ConversationInit /\ Init /\ HeartbeatInit
  /\ service = "conversation" \/ state = "recorded"

ToolsNext ==
  /\ UNCHANGED service
  /\ \/ service = "calendar" /\ CalendarNext /\ UNCHANGED <<gvars, lvars, vars, bvars>>
     \/ service = "grok" /\ GrokNext /\ UNCHANGED <<cvars, lvars, vars, bvars>>
     \/ service = "conversation" /\ ConversationNext /\ UNCHANGED <<cvars, gvars, vars, bvars>>
     \/ service = "queue" /\ Next /\ UNCHANGED <<cvars, gvars, lvars, bvars>>
     \/ /\ service \in heartbeat /\ UNCHANGED <<cvars, gvars, lvars, vars>>
        /\ Passes \/ RunSteps \/ (service = "log" /\ LogChanges)

ToolsSpec == ToolsInit /\ [][ToolsNext]_<<service, cvars, gvars, lvars, vars, bvars>>

\* No guard reads the receipts, so one that was given stands for those given before it.
Focus ==
  /\ Cardinality(receipts) <= 1
  /\ (service = "checks" => TwoTroubled)
  /\ (service = "log" => AllQuiet)
=============================================================================
