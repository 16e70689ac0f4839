--------------------------- MODULE ProactiveTasks ---------------------------
(* Recurring tasks: the proactive_tasks table, the scheduler of the desktop
   that runs what is due, and the run itself, which holds a turn
   (chatService.send) and writes the next run time back.  Users and tools
   create, update, delete and run tasks by hand while runs are in flight; the
   desktop crashes and restarts.

   An action runs from one await to the next; as in Awaiters nobody acts
   between the start of a tick, or the end of a scheduled run, and the run that
   follows it (Yielded).  A schedule is an interval or a cron expression, Cron,
   of which the code uses that the next time lies strictly after the one it is
   computed from.  An interval is added in local time, which is changed once,
   for summer or winter: in an hour that is repeated the next time may lie
   before the one it is computed from.  The thread of a task is created again
   when it is gone and does not matter here. *)
EXTENDS Integers, Sequences, FiniteSets, SequencesExt

CONSTANTS
    Task,         \* ids of tasks
    Interval,     \* intervals, positive numbers
    Cron,         \* the schedule that is a cron expression
    Change,       \* the time at which local time is changed
    Shift,        \* by how much: it is set back if negative
    MaxGap,       \* bound: how far ahead a cron expression names a time
    MaxClock,     \* bound: the clock
    MaxEdits,     \* bound: updates and runs by hand
    MaxRestarts,  \* bound: crashes of the desktop
    None          \* no row, no run, no time

VARIABLES
    clock,     \* the time
    task,      \* the rows of proactive_tasks, None where there is none
    used,      \* ids that were given out: they are random
    listed,    \* the list of the tick in flight, what it has still to run
    ticking,   \* the task whose run the tick awaits, or None
    run,       \* taskInFlight with what each run captured, None if not in it
    since,     \* history: what the next time of a row is computed from, once
               \* the run in flight has ended
    cut,       \* history: tasks whose last run a crash has cut off
    stale,     \* history: listed tasks whose next time was written since
    edits,     \* updates and runs by hand so far
    restarts   \* crashes so far

tvars == <<clock, task, used, listed, ticking, run, since, cut, stale, edits, restarts>>

Time == 0..MaxClock
Schedule == Interval \cup {Cron}
Row == [enabled : BOOLEAN, schedule : Schedule, next_run_at : Nat,
        last_status : {"idle", "running", "success", "error"}]
Run == [schedule : Schedule, startedAt : Time]

TypeOK ==
    /\ clock \in Time
    /\ task \in [Task -> Row \cup {None}]
    /\ used \subseteq Task
    /\ listed \in Seq(Task)
    /\ ticking \in Task \cup {None}
    /\ run \in [Task -> Run \cup {None}]
    /\ since \in [Task -> Run \cup {None}]
    /\ cut \subseteq Task
    /\ stale \subseteq Task
    /\ edits \in 0..MaxEdits
    /\ restarts \in 0..MaxRestarts

Init ==
    /\ clock = 0
    /\ task = [t \in Task |-> None]
    /\ used = {}
    /\ listed = <<>>
    /\ ticking = None
    /\ run = [t \in Task |-> None]
    /\ since = [t \in Task |-> None]
    /\ cut = {}
    /\ stale = {}
    /\ edits = 0
    /\ restarts = 0

Exists(t) == task[t] # None

-----------------------------------------------------------------------------
(* Mutated forms of definitions below, each a plausible bug.               *)

LeftByACrash(t) ==
    Exists(t) /\ task[t].enabled /\ task[t].next_run_at <= clock
    /\ task[t].last_status # "running"
NotAdvanced(t, status, next) ==
    IF Exists(t) THEN [task EXCEPT ![t].last_status = status] ELSE task

-----------------------------------------------------------------------------
(* Users and tools.                                                        *)

TimePasses ==
    /\ clock < MaxClock
    /\ clock' = clock + 1
    /\ UNCHANGED <<task, used, listed, ticking, run, since, cut, stale, edits, restarts>>

\* Local time, and the time that a local time stands for: the first one if it
\* comes twice, and one as if it came if it is left out.
LocalOf(time) == IF time < Change THEN time ELSE time + Shift
UtcOf(local) ==
    IF local < Change \/ local < Change + Shift THEN local ELSE local - Shift

\* computeNextRunAt: the times it may return.
NextRunAts(schedule, from) ==
    IF schedule = Cron THEN (from + 1)..(from + MaxGap)
                       ELSE {UtcOf(LocalOf(from) + schedule)}

Create(t, enabled, schedule) ==
    /\ t \notin used
    /\ used' = used \cup {t}
    /\ \E next \in NextRunAts(schedule, clock) :
           task' = [task EXCEPT ![t] =
                      [enabled |-> enabled, schedule |-> schedule,
                       next_run_at |-> next, last_status |-> "idle"]]
    /\ since' = [since EXCEPT ![t] = [schedule |-> schedule, startedAt |-> clock]]
    /\ UNCHANGED <<clock, listed, ticking, run, cut, stale, edits, restarts>>

\* The next run time is set anew if the update names a schedule, or enables the
\* task, and leaves it enabled.  A run in flight will overwrite it.
Renews(t, enabled, change) == enabled /\ (change # None \/ ~task[t].enabled)
Edited(t, enabled, schedule, next) ==
    [task EXCEPT ![t] = [task[t] EXCEPT !.enabled = enabled, !.schedule = schedule,
                                        !.next_run_at = next]]

Update(t, enabled, change) ==
    /\ Exists(t)
    /\ edits < MaxEdits
    /\ LET schedule == IF change = None THEN task[t].schedule ELSE change
           nexts == IF Renews(t, enabled, change) THEN NextRunAts(schedule, clock)
                                                  ELSE {task[t].next_run_at}
       IN /\ \E next \in nexts : task' = Edited(t, enabled, schedule, next)
          /\ IF Renews(t, enabled, change) /\ run[t] = None
             THEN /\ since' = [since EXCEPT ![t] = [schedule |-> schedule, startedAt |-> clock]]
                  /\ cut' = cut \ {t}
             ELSE UNCHANGED <<since, cut>>
          /\ stale' = IF Renews(t, enabled, change) THEN stale \cup ({t} \cap Range(listed))
                                                   ELSE stale
    /\ edits' = edits + 1
    /\ UNCHANGED <<clock, used, listed, ticking, run, restarts>>

Delete(t) ==
    /\ Exists(t)
    /\ task' = [task EXCEPT ![t] = None]
    /\ UNCHANGED <<clock, used, listed, ticking, run, since, cut, stale, edits, restarts>>

-----------------------------------------------------------------------------
(* Runs.                                                                   *)

\* runProactiveTask up to its first await.
Begin(t) ==
    /\ run' = [run EXCEPT ![t] = [schedule |-> task[t].schedule, startedAt |-> clock]]
    /\ since' = [since EXCEPT ![t] = [schedule |-> task[t].schedule, startedAt |-> clock]]
    /\ cut' = cut \ {t}
    /\ task' = [task EXCEPT ![t].last_status = "running"]

\* By hand a disabled task runs as well.
RunByHand(t) ==
    /\ Exists(t)
    /\ run[t] = None
    /\ edits < MaxEdits
    /\ Begin(t)
    /\ edits' = edits + 1
    /\ UNCHANGED <<clock, used, listed, ticking, stale, restarts>>

Due(t) == Exists(t) /\ task[t].enabled /\ task[t].next_run_at <= clock

Tick ==
    /\ listed = <<>>
    /\ \E s \in SetToSeqs({t \in Task : Due(t)}) :
           /\ s # <<>>
           /\ \A i, j \in DOMAIN s :
                 i < j => task[s[i]].next_run_at <= task[s[j]].next_run_at
           /\ listed' = s
    /\ UNCHANGED <<clock, task, used, ticking, run, since, cut, stale, edits, restarts>>

\* The row is read again; whether it is still due is not looked at.
Startable(t) == run[t] = None /\ Exists(t) /\ task[t].enabled

StartListed ==
    /\ listed # <<>> /\ ticking = None
    /\ Startable(Head(listed))
    /\ Begin(Head(listed))
    /\ ticking' = Head(listed)
    /\ UNCHANGED <<clock, used, listed, stale, edits, restarts>>

SkipListed ==
    /\ listed # <<>> /\ ticking = None
    /\ ~Startable(Head(listed))
    /\ listed' = Tail(listed)
    /\ stale' = stale \ {Head(listed)}
    /\ UNCHANGED <<clock, task, used, ticking, run, since, cut, edits, restarts>>

\* What the end of a run writes: computed from the schedule and the time that
\* the run captured, over whatever the row says by now.
Written(t, status, next) ==
    IF Exists(t)
    THEN [task EXCEPT ![t] = [task[t] EXCEPT !.next_run_at = next, !.last_status = status]]
    ELSE task

\* send returns or throws, the bridge takes the text or does not, the message
\* is stored or the thread is gone: in the end the row says success or error.
EndRun(t, status) ==
    /\ run[t] # None
    /\ \E next \in NextRunAts(run[t].schedule, run[t].startedAt) : task' = Written(t, status, next)
    /\ run' = [run EXCEPT ![t] = None]
    /\ IF ticking = t
       THEN ticking' = None /\ listed' = Tail(listed) /\ stale' = stale \ {t}
       ELSE stale' = stale \cup ({t} \cap Range(listed)) /\ UNCHANGED <<ticking, listed>>
    /\ UNCHANGED <<clock, used, since, cut, edits, restarts>>

\* The desktop dies and is started again: the table is what is left.
Restart ==
    /\ restarts < MaxRestarts
    /\ restarts' = restarts + 1
    /\ listed' = <<>>
    /\ ticking' = None
    /\ run' = [t \in Task |-> None]
    /\ cut' = cut \cup {t \in Task : run[t] # None}
    /\ stale' = {}
    /\ UNCHANGED <<clock, task, used, since, edits>>

-----------------------------------------------------------------------------
Edit ==
    \/ \E t \in Task, e \in BOOLEAN, s \in Schedule : Create(t, e, s)
    \/ \E t \in Task, e \in BOOLEAN, s \in Schedule \cup {None} : Update(t, e, s)
    \/ \E t \in Task : Delete(t) \/ RunByHand(t)

RunEnds(t) == \E status \in {"success", "error"} : EndRun(t, status)

\* No synchronous section of the scheduler is under way.
Yielded == listed = <<>> \/ ticking # None

Next ==
    \/ Yielded /\ (TimePasses \/ Edit \/ Restart \/ \E t \in Task : RunEnds(t))
    \/ Tick \/ StartListed \/ SkipListed

Spec == Init /\ [][Next]_tvars

\* Time goes on, also while tasks run all the time; the interval of the scheduler
\* fires and a tick walks its list; turns and bridges answer.
Fairness ==
    /\ SF_tvars(Yielded /\ TimePasses)
    /\ WF_tvars(Tick)
    /\ WF_tvars(StartListed)
    /\ WF_tvars(SkipListed)
    /\ \A t \in Task : WF_tvars(RunEnds(t))

FairSpec == Spec /\ Fairness

-----------------------------------------------------------------------------
(* Properties.                                                             *)

\* The scheduler does not make up for missed times: it starts a task once its
\* next time has come, and that is the time that follows, under the schedule then
\* in force, the start of its last run, by the tick or by hand, or its creation
\* or rescheduling if that was later; however long runs took and whatever the
\* tick did meanwhile.  Two starts are exempt: after a restart, of a task whose
\* last run a crash has cut off, which is still due; and that of a task whose
\* next time was put off after the tick had listed it, because the tick does not
\* look at the time again.
MissedNotRepeated ==
    [][\A t \in Task :
         ticking # t /\ ticking' = t =>
            \/ t \in stale
            \/ /\ clock >= task[t].next_run_at
               /\ \/ t \in cut
                  \/ task[t].next_run_at \in NextRunAts(since[t].schedule, since[t].startedAt)]_tvars

\* A task that is due is run, disabled or deleted, also when the desktop died
\* in the middle of its run.
TaskOverdue(t) == Exists(t) /\ task[t].enabled /\ task[t].next_run_at <= clock
DueTaskIsRun == \A t \in Task : TaskOverdue(t) ~> ~TaskOverdue(t)
=============================================================================
