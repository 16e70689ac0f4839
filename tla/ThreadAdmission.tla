--------------------------- MODULE ThreadAdmission ---------------------------
(***************************************************************************)
(* What admission of a turn to a thread promises to the rest of the       *)
(* program: a thread is executed by at most one turn at a time, whichever *)
(* process it runs in.  ThreadRunLease is the implementation: an          *)
(* in-memory set per process in front of a lease row in the database the  *)
(* processes share.  ThreadStreams, the turns of one process behind that  *)
(* set, is another.                                                        *)
(***************************************************************************)
CONSTANTS
    Thread,     \* conversation threads
    TurnId      \* turns

VARIABLE executing  \* the turns that execute each thread

Init == executing = [t \in Thread |-> {}]

\* A turn is admitted only to a thread that no turn executes.
Admit(t, k) ==
    /\ executing[t] = {}
    /\ executing' = [executing EXCEPT ![t] = {k}]

\* A turn ends, or all those of a process that dies.
End(ended) ==
    executing' = [t \in Thread |-> IF t \in ended THEN {} ELSE executing[t]]

Next ==
    \/ \E t \in Thread, k \in TurnId : Admit(t, k)
    \/ \E ended \in SUBSET Thread : End(ended)

Spec == Init /\ [][Next]_executing
=============================================================================
