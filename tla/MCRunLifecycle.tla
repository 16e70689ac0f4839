--------------------------- MODULE MCRunLifecycle ---------------------------
(* Instances of RunLifecycle for TLC.                                      *)
EXTENDS RunLifecycle, TLC

CONSTANTS p1, p2, p3, a1, a2, a3

OneApproval == {[procs |-> {p1}, approvals |-> {a1}]}
Processes == {[procs |-> {p1, p2}, approvals |-> {a1}]}
Batch == {[procs |-> {p3}, approvals |-> {a2, a3}]}
\* Processes that race for the same runs, and one that has a batch of approvals
\* to collect.
ProcessesOrBatch == Processes \cup Batch

\* The turns of the latter append no steps of work.
WorkOf == [p \in Proc |-> IF p = p3 THEN 0 ELSE 1]

\* Processes, runs and approvals are interchangeable.  Used by the runs of
\* safety properties only.
Symmetry == Permutations({p1, p2}) \cup Permutations(Run) \cup Permutations({a2, a3})
=============================================================================
