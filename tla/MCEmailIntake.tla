---------------------------- MODULE MCEmailIntake ----------------------------
(* Small instances of EmailIntake for TLC. *)
EXTENDS EmailIntake

CONSTANTS m1, m2, m3, op

\* m2 answers m1, after an ancestor nobody here has seen.
ReplyReferences == [m \in Mail |-> IF m = m2 THEN <<None, m1>> ELSE <<>>]

\* No mail names an ancestor; all share a subject.
NoReferences == [m \in Mail |-> <<>>]
OneSubject == [m \in Mail |-> "subject"]

\* m2 was received two units after m1.
Arrival == [m \in Mail |-> IF m = m2 THEN 3 ELSE 1]

OneOperation == [m \in Mail |-> op]
=============================================================================
