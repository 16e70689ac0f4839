----------------------------- MODULE MCOuterLoop -----------------------------
(* Instances of OuterLoop, and of AgentRunner under it, for TLC.           *)
EXTENDS OuterLoop
=============================================================================
