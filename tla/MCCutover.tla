------------------------------ MODULE MCCutover ------------------------------
(* Small instances of Cutover for TLC: one build from before, or none. *)
EXTENDS Cutover, TLC

CONSTANTS
  j1, j2, old,
  MaxAdrift   \* bound: how many live parts may be adrift at a time

P(version, patches) == [version |-> version, patches |-> patches]
OldPin == P(1, "p")
TwoPins == {P(1, "p"), P(1, "q"), P(2, "q")}
OneOlder == [b \in {old} |-> {}]
NoOlder == [b \in {} |-> {}]

\* Once cutovers have met, or one was killed, OneRuntime claims nothing, and what the other properties
\* are about happens before the package is swapped, whatever the builds pin.
Early == {"idle", "prune", "build", "stage", "suspend", "verify", "consume", "snapshot", "stop", "install", "swap"}
Claimed ==
  \/ clean
  \/ pin[j1].version = 1 /\ pin[j2] = OldPin /\ \A j \in Job : pc[j] \in Early \cup Ended

\* Launchers share nothing with a job past that point, so they need not be caught in the midst of a step
\* while one is.
Settled ==
  \/ \A j \in Job : pc[j] \in Early \cup Ended
  \/ \A j \in Job : launch[j] \in {"idle", "submitted", "failed", "cut", "dead"}

\* One build pins something else than the first, the other the same version.
Pinned == pin[j1] # OldPin /\ pin[j2].version = 1

Bounded == Pinned /\ Claimed /\ Settled /\ Cardinality(adrift) <= MaxAdrift
=============================================================================
