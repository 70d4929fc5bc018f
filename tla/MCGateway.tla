------------------------------ MODULE MCGateway ------------------------------
(* Three parts of the run-signature plugin that share nothing, one per initial state. *)
EXTENDS ThreadLifecycle, RunSignature, WorkThread, TLC

CONSTANTS r1, r2, c1, c2, h1, h2, h3, m1, s1, s2, a, u, w1, w2, v1, title

OneMessage == [h \in {h1, h2, h3} |-> m1]
FirstSession == m1 :> s1
OneModelEach == s1 :> {a} @@ s2 :> {u}
\* The calls have one title, and a model answers with it.
SameTitle == [p \in Outgoing |-> IF p \in Reply THEN title ELSE IF p[2] = "root" THEN title ELSE p[1]]
Hooks == Permutations({h1, h2, h3})

VARIABLE part

GatewayInit == part \in {"lifecycle", "signature", "work"} /\ LifecycleInit /\ SignatureInit /\ WorkInit

GatewayNext ==
  /\ UNCHANGED part
  /\ \/ part = "lifecycle" /\ LifecycleNext /\ UNCHANGED <<svars, wvars>>
     \/ part = "signature" /\ SignatureNext /\ UNCHANGED <<lvars, wvars>>
     \/ part = "work" /\ WorkNext /\ UNCHANGED <<lvars, svars>>

GatewaySpec == GatewayInit /\ [][GatewayNext]_<<part, lvars, svars, wvars>>
=============================================================================
