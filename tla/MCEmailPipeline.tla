--------------------------- MODULE MCEmailPipeline ---------------------------
(* A small instance of EmailPipeline for TLC: one owner mail. *)
EXTENDS EmailPipeline

CONSTANTS m1, op

NoReferences == [m \in Mail |-> <<>>]
OneSubject == [m \in Mail |-> "subject"]
Arrival == [m \in Mail |-> 1]
OneOperation == [m \in Mail |-> op]
=============================================================================
