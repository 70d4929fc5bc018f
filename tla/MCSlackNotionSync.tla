-------------------------- MODULE MCSlackNotionSync --------------------------
(* A root of a channel, migrated with two bots showing a status, and a reply. *)
EXTENDS SlackNotionSyncProofs

CONSTANTS t1, act, closed, r

\* The root was migrated.
Migrated == [t \in Thread |-> IF t = t1 THEN act ELSE None]

\* An agent is asked to close the root.
CloseIt == {[at |-> t, status |-> closed] : t \in Thread}

\* Each of two bots shows a status.
TwoBots == {{act, closed}}
=============================================================================
