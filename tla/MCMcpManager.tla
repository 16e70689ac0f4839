---------------------------- MODULE MCMcpManager ----------------------------
(* Bounds for TLC: two operations that overlap on the server, without calls,   *)
(* and one operation at a time beside three calls through two semaphores.      *)
EXTENDS McpManager

ManyOps   == {[ops |-> 2, calls |-> 0, clients |-> 2, modes |-> {"always", "default"}]}
ManyCalls == {[ops |-> 1, calls |-> 3, clients |-> 1, modes |-> {"always"}]}
Both      == ManyCalls \cup ManyOps

=============================================================================
