------------------------------ MODULE RunRecord ------------------------------
(***************************************************************************)
(* What the record of a run promises to whoever reads it, whatever        *)
(* process writes it: a run is created once, its status moves forward     *)
(* only, it gets one verdict, and a run that is continued by another one  *)
(* has its own verdict in the same step.  RunLifecycle keeps the promise  *)
(* with a cached row, a table of transitions and a unique index; OuterLoop *)
(* is one turn that does.                                                  *)
(***************************************************************************)
CONSTANTS
    Run,    \* run ids
    Begun   \* the runs that exist at the start, which are running

VARIABLE status

Terminal == {"completed", "failed", "cancelled"}

MayFollow(s, next) ==
    \/ s = "queued" /\ next \in {"running", "failed", "cancelled"}
    \/ s = "running" /\ next \in {"blocked"} \cup Terminal
    \/ s = "blocked" /\ next \in Terminal

Init == status = [r \in Run |-> IF r \in Begun THEN "running" ELSE "none"]

Create(r, s) ==
    /\ status[r] = "none" /\ s \in {"queued", "running"}
    /\ status' = [status EXCEPT ![r] = s]

Move(r, s) ==
    /\ MayFollow(status[r], s)
    /\ status' = [status EXCEPT ![r] = s]

\* A run is completed and c takes over: a handoff, or a resumption.
Continue(r, c) ==
    /\ MayFollow(status[r], "completed") /\ status[c] = "none"
    /\ status' = [status EXCEPT ![r] = "completed", ![c] = "running"]

Next ==
    \/ \E r \in Run, s \in {"queued", "running", "blocked"} \cup Terminal :
          Create(r, s) \/ Move(r, s)
    \/ \E r, c \in Run : Continue(r, c)

Spec == Init /\ [][Next]_status
=============================================================================
