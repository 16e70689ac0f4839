---------------------------- MODULE MCComponents ----------------------------
(* Components that share no state, in one run of TLC: `part` says which of them
   a behaviour is about, and the others stay in their initial state.  The
   state graph is the disjoint union of theirs, and the fairness of a component
   says nothing in the behaviours of the others, for what it asks for is not
   enabled there.

   Awaiters is extended and not instantiated, so that TLC evaluates its
   assumptions.                                                             *)
EXTENDS Awaiters, Integers

CONSTANTS
    Task, Interval, Cron, Change, Shift, MaxGap,               \* ProactiveTasks
    MaxClock, MaxEdits, MaxRestarts,
    Host, Port, MaxFlows,                                      \* DaemonLifecycle
    MaxCalls, MaxVersions, MaxUndo                             \* FileTools

VARIABLES
    part,
    clock, task, used, listed, ticking, run, since, cut,       \* ProactiveTasks
    stale, edits, restarts,
    config, envPort, daemon, servers, foreign, flow,           \* DaemonLifecycle
    startPromise, overlapped,
    file, call, last, undo, made                               \* FileTools

Tasks == INSTANCE ProactiveTasks
Daemon == INSTANCE DaemonLifecycle
Files == INSTANCE FileTools

\* The bounds are numbers, None is nothing else, schedules lie ahead, and local
\* time is not set back to before the beginning.
ASSUME ComponentsAssumption ==
    /\ {Change, MaxGap, MaxClock, MaxEdits, MaxRestarts, MaxFlows, MaxCalls, MaxUndo} \subseteq Nat
    /\ MaxVersions \in Nat \ {0}
    /\ IsFiniteSet(Task) /\ Interval \subseteq Nat \ {0} /\ Cron \notin Nat
    /\ Shift \in Int /\ Change + Shift \in Nat
    /\ None \notin Task \cup Tasks!Row \cup Tasks!Run
    /\ None \notin Daemon!Binding
    /\ None \notin Files!Call \cup Files!Op \cup Files!Version

\* The value of Shift in the instance that TLC checks.
TwoBack == -2

ComponentsInit ==
    /\ part \in {"awaiters", "tasks", "daemon", "files"}
    /\ Init /\ Tasks!Init /\ Daemon!Init /\ Files!Init
    /\ part # "daemon" => foreign = {} /\ config = CHOOSE b \in Daemon!Binding : TRUE

taskVars == <<clock, task, used, listed, ticking, run, since, cut, stale, edits, restarts>>
daemonVars == <<config, envPort, daemon, servers, foreign, flow, startPromise, overlapped>>
fileVars == <<file, call, last, undo, made>>

ComponentsNext ==
    \/ part = "awaiters" /\ Next /\ UNCHANGED <<part, taskVars, daemonVars, fileVars>>
    \/ part = "tasks" /\ Tasks!Next /\ UNCHANGED <<part, vars, daemonVars, fileVars>>
    \/ part = "daemon" /\ Daemon!Next /\ UNCHANGED <<part, vars, taskVars, fileVars>>
    \/ part = "files" /\ Files!Next /\ UNCHANGED <<part, vars, taskVars, daemonVars>>

components == <<part, vars, taskVars, daemonVars, fileVars>>

ComponentsSpec ==
    /\ ComponentsInit
    /\ [][ComponentsNext]_components
    /\ Fairness /\ Tasks!Fairness

-----------------------------------------------------------------------------
(* Properties: those of the components, each stated and explained there.   *)

\* The type invariants of the components.
ComponentsTypeOK ==
    /\ TypeOK
    /\ Tasks!TypeOK
    /\ Daemon!TypeOK
    /\ Files!TypeOK

\* The scheduler of tasks does not make up for missed times.
MissedNotRepeated == Tasks!MissedNotRepeated
\* What is due is not forgotten: an armed awaiter is woken, rescheduled or
\* removed, and a task is run, disabled or deleted.
DueIsRun == DueIsServed /\ Tasks!DueTaskIsRun
\* Stop reaches every server, no start is swallowed by one that is over, and the
\* embedded daemon is on the host of the settings.
DaemonFollows == Daemon!DaemonControllable /\ Daemon!HostFollowsSettings
\* Edits and undos replace only what they have read.
NoWorkLost == Files!NoWorkLost
=============================================================================
