---------------------------- MODULE MCHeartbeat ------------------------------
(* A small instance of Heartbeat for TLC: two checks a restart can fix, the scan of the log, a canary. *)
EXTENDS Heartbeat, FiniteSets, TLC

CONSTANTS port, runtime, silent, canary

FourChecks == <<port, runtime, silent, canary>>

\* Of what the checks do the interesting cases need two of them that share a restart; a canary shares
\* nothing and is troubled alone; a run cut off ends what is claimed.
Troubled ==
  {k \in Check : memo.checks[k] # Untroubled \/ file.checks[k] # Untroubled \/ story[k] # "none" \/ k \in refused}
TwoTroubled ==
  /\ ~killed /\ ~hung /\ Cardinality(Troubled) <= 2
  /\ canary \in Troubled => Troubled = {canary}

\* For the log the other checks pass, and alerts get through.
AllQuiet == ~killed /\ ~hung /\ refused = {} /\ \A k \in Check : memo.checks[k].fails = 0
=============================================================================
