------------------------------ MODULE Awaiters ------------------------------
(* Deferred continuations: the awaiters table, the scheduler of the desktop
   that wakes what is due, and the wake itself, which runs a turn on the
   awaiter's thread (chatService.send), hands the text to a bridge and settles
   the row.  Tools called by other turns create, reschedule, move and delete
   awaiters at any await of the wake; threads are cleared and deleted; the
   desktop crashes and restarts.

   An action runs from one await of the wake to the next; nobody acts between
   the start of a tick, or the end of a wake, and the next wake (Yielded).  The
   scheduler wakes one awaiter at a time (tickInFlight), so awaiterInFlight
   never refuses one.
   Rows refer to threads by a foreign key, so a wake never finds its thread
   missing at the start; it may at the end. *)
EXTENDS Naturals, Sequences, FiniteSets, SequencesExt

CONSTANTS
    Id,           \* awaiter ids
    Thread,       \* chat threads
    Bridged,      \* the threads that belong to a bridge
    MaxTime,      \* bound: the clock
    MaxArmings,   \* bound: times an awaiter is armed, its creation included
    MaxCrashes,   \* bound: crashes of the desktop
    None          \* no row, no wake time, no wake

ASSUME BridgedAssumption == Bridged \subseteq Thread
ASSUME BoundsAssumption == /\ MaxTime \in Nat
                           /\ MaxArmings \in Nat
                           /\ MaxCrashes \in Nat
ASSUME IdAssumption == IsFiniteSet(Id)

VARIABLES
    now,       \* the clock
    threads,   \* chat_threads
    awaiter,   \* the rows of awaiters, None where there is none
    events,    \* awaiter_wake_events, in the order of their insertion
    due,       \* what the tick in flight has still to wake; empty: no tick
    wake,      \* the wake in flight, or None
    armings,   \* history: how often each awaiter was armed
    sends,     \* history: the turns run for each arming
    crashes    \* crashes so far

table == <<threads, awaiter, events>>
scheduler == <<due, wake>>
vars == <<now, table, scheduler, armings, sends, crashes>>

Time == 0..MaxTime
Arming == 1..MaxArmings

\* arming is history: which arming of the awaiter the row stands for.
Row == [status : {"armed", "waking"}, next : Time, thread : Thread, arming : Arming]
       \cup [status : {"completed", "failed"}, next : {None}, thread : Thread,
             arming : Arming]
Event == [arming : Arming, outcome : {"success", "error"}]
Wake == [id : Id, thread : Thread, arming : Arming, phase : {"sending", "delivering"}]

ASSUME NoneAssumption == None \notin Row \cup Wake

TypeOK ==
    /\ now \in Time
    /\ threads \subseteq Thread
    /\ awaiter \in [Id -> Row \cup {None}]
    /\ events \in [Id -> Seq(Event)]
    /\ due \in Seq(Id)
    /\ wake \in Wake \cup {None}
    /\ armings \in [Id -> 0..MaxArmings]
    /\ sends \in [Id \X Arming -> Nat]
    /\ crashes \in 0..MaxCrashes

Exists(a) == awaiter[a] # None
Runnable(a) == Exists(a) /\ awaiter[a].status \in {"armed", "waking"}
Due(a) == Runnable(a) /\ awaiter[a].next <= now

Init ==
    /\ now = 0
    /\ threads = Thread
    /\ awaiter = [a \in Id |-> None]
    /\ events = [a \in Id |-> <<>>]
    /\ due = <<>>
    /\ wake = None
    /\ armings = [a \in Id |-> 0]
    /\ sends = [p \in Id \X Arming |-> 0]
    /\ crashes = 0

-----------------------------------------------------------------------------
(* Mutated forms of definitions below, each a plausible bug.               *)

SettledAlways(status) ==
    IF Exists(wake.id)
    THEN [awaiter EXCEPT ![wake.id].status = status, ![wake.id].next = None]
    ELSE awaiter
ErrorNotSettled(status) ==
    IF status = "completed" /\ Exists(wake.id) /\ awaiter[wake.id].status = "waking"
    THEN [awaiter EXCEPT ![wake.id].status = status, ![wake.id].next = None]
    ELSE awaiter
WakeTimeKept(status) ==
    IF Exists(wake.id) /\ awaiter[wake.id].status = "waking"
    THEN [awaiter EXCEPT ![wake.id].status = status]
    ELSE awaiter

-----------------------------------------------------------------------------
(* What users and turns do to awaiters and threads.                        *)

TimePasses ==
    /\ now < MaxTime
    /\ now' = now + 1
    /\ UNCHANGED <<table, scheduler, armings, sends, crashes>>

\* A wake time must lie in the future.
Future == {t \in Time : t > now}

Armed(t, at, n) == [status |-> "armed", next |-> at, thread |-> t, arming |-> n]

Create(a, t, at) ==
    /\ armings[a] = 0     \* ids are random: one is never used again
    /\ MaxArmings > 0
    /\ t \in threads
    /\ awaiter' = [awaiter EXCEPT ![a] = Armed(t, at, 1)]
    /\ armings' = [armings EXCEPT ![a] = 1]
    /\ UNCHANGED <<now, threads, events, scheduler, sends, crashes>>

\* An update with a trigger arms the awaiter, whatever its status is.
Reschedule(a, at) ==
    /\ Exists(a)
    /\ armings[a] < MaxArmings
    /\ awaiter' = [awaiter EXCEPT ![a] = Armed(@.thread, at, armings[a] + 1)]
    /\ armings' = [armings EXCEPT ![a] = @ + 1]
    /\ UNCHANGED <<now, threads, events, scheduler, sends, crashes>>

\* An update without one leaves the status alone.
Move(a, t) ==
    /\ Exists(a)
    /\ t \in threads \ {awaiter[a].thread}
    /\ awaiter' = [awaiter EXCEPT ![a].thread = t]
    /\ UNCHANGED <<now, threads, events, scheduler, armings, sends, crashes>>

\* The rows of a set of awaiters go, and by cascade their events.
Removed(A) ==
    /\ awaiter' = [a \in Id |-> IF a \in A THEN None ELSE awaiter[a]]
    /\ events' = [a \in Id |-> IF a \in A THEN <<>> ELSE events[a]]

OnThread(t) == {a \in Id : Exists(a) /\ awaiter[a].thread = t}

Delete(a) ==
    /\ Exists(a)
    /\ Removed({a})
    /\ UNCHANGED <<now, threads, scheduler, armings, sends, crashes>>

ClearThread(t) ==
    /\ t \in threads
    /\ Removed(OnThread(t))
    /\ UNCHANGED <<now, threads, scheduler, armings, sends, crashes>>

DeleteThread(t) ==
    /\ t \in threads
    /\ threads' = threads \ {t}
    /\ Removed(OnThread(t))
    /\ UNCHANGED <<now, scheduler, armings, sends, crashes>>

-----------------------------------------------------------------------------
(* The scheduler.                                                          *)

\* Rows with equal wake times come in any order (the code: last updated first).
InOrder(s) == \A i, j \in DOMAIN s : i < j => awaiter[s[i]].next <= awaiter[s[j]].next

StartTick ==
    /\ due = <<>>
    /\ \E s \in SetToSeqs({a \in Id : Due(a)}) :
           /\ s # <<>>
           /\ InOrder(s)
           /\ due' = s
    /\ UNCHANGED <<now, table, wake, armings, sends, crashes>>

\* The row is read again, and its status; its wake time is not.
StartWake ==
    /\ due # <<>> /\ wake = None
    /\ LET a == Head(due)
       IN /\ Runnable(a)
          /\ awaiter' = [awaiter EXCEPT ![a].status = "waking"]
          /\ wake' = [id |-> a, thread |-> awaiter[a].thread,
                      arming |-> awaiter[a].arming, phase |-> "sending"]
          /\ sends' = [sends EXCEPT ![<<a, awaiter[a].arming>>] = @ + 1]
    /\ UNCHANGED <<now, threads, events, due, armings, crashes>>

SkipWake ==
    /\ due # <<>> /\ wake = None
    /\ ~Runnable(Head(due))
    /\ due' = Tail(due)
    /\ UNCHANGED <<now, table, wake, armings, sends, crashes>>

-----------------------------------------------------------------------------
(* The wake.                                                               *)

\* transitionAwaiterIfStillWaking: a row armed since is left alone.
Settled(status) ==
    IF Exists(wake.id) /\ awaiter[wake.id].status = "waking"
    THEN [awaiter EXCEPT ![wake.id].status = status, ![wake.id].next = None]
    ELSE awaiter

Outcome(o) == [arming |-> wake.arming, outcome |-> o]

\* The audit row, then the message of the result: on a thread deleted
\* meanwhile the message fails, and the catch writes an audit row of its own.
Reported(o) ==
    <<Outcome(o)>> \o (IF wake.thread \in threads THEN <<>> ELSE <<Outcome("error")>>)

EndWake(status, audit) ==
    /\ awaiter' = Settled(status)
    /\ events' = IF Exists(wake.id) THEN [events EXCEPT ![wake.id] = @ \o audit]
                 ELSE events
    /\ wake' = None
    /\ due' = Tail(due)
    /\ UNCHANGED <<now, threads, armings, sends, crashes>>

Sending == wake # None /\ wake.phase = "sending"
Delivering == wake # None /\ wake.phase = "delivering"

\* send reports a failure, a busy thread among them.
SendFails == Sending /\ EndWake("failed", Reported("error"))

\* send throws: no message is written.
SendThrows == Sending /\ EndWake("failed", <<Outcome("error")>>)

SendSucceeds ==
    /\ Sending
    /\ IF Exists(wake.id)
       THEN wake' = [wake EXCEPT !.phase = "delivering"] /\ UNCHANGED due
       ELSE wake' = None /\ due' = Tail(due)
    /\ UNCHANGED <<now, table, armings, sends, crashes>>

\* The bridge has the text, or the thread is nobody's.
Delivered == Delivering /\ EndWake("completed", Reported("success"))

BridgeFails ==
    /\ Delivering
    /\ wake.thread \in Bridged \cap threads
    /\ EndWake("failed", Reported("error"))

\* The desktop dies and is started again: the table is what is left.
Restart ==
    /\ crashes < MaxCrashes
    /\ crashes' = crashes + 1
    /\ due' = <<>>
    /\ wake' = None
    /\ UNCHANGED <<now, table, armings, sends>>

-----------------------------------------------------------------------------
Edit ==
    \/ \E a \in Id, t \in Thread, at \in Future : Create(a, t, at)
    \/ \E a \in Id, at \in Future : Reschedule(a, at)
    \/ \E a \in Id, t \in Thread : Move(a, t)
    \/ \E a \in Id : Delete(a)
    \/ \E t \in Thread : ClearThread(t)
    \/ \E t \in Thread : DeleteThread(t)

SendReturns == SendFails \/ SendThrows \/ SendSucceeds
DeliveryReturns == Delivered \/ BridgeFails

\* No synchronous section of the scheduler is under way.
Yielded == due = <<>> \/ wake # None

Next ==
    \/ Yielded /\ (TimePasses \/ Edit \/ Restart)
    \/ StartTick \/ StartWake \/ SkipWake
    \/ SendReturns \/ DeliveryReturns

Spec == Init /\ [][Next]_vars

\* The interval fires and a tick walks its list; turns and bridges answer.
Fairness ==
    /\ WF_vars(StartTick)
    /\ WF_vars(StartWake)
    /\ WF_vars(SkipWake)
    /\ WF_vars(SendReturns)
    /\ WF_vars(DeliveryReturns)

FairSpec == Spec /\ Fairness

-----------------------------------------------------------------------------
(* Properties.                                                             *)

\* Awaiters are one-shot: however ticks, reschedules and failures interleave,
\* an arming runs its turn once, and once more for each crash of the desktop
\* (which may have interrupted it).
OneShot ==
    \A a \in Id, n \in Arming : sends[<<a, n>>] <= 1 + crashes

\* A row is settled by a wake of its own arming, never by the end of a wake
\* that was in flight when the awaiter was rescheduled: the audit table holds
\* the outcome, under that arming.
SettledByOwnWake ==
    \A a \in Id :
        Exists(a) =>
            /\ awaiter[a].status = "completed" =>
                   Contains(events[a], [arming |-> awaiter[a].arming, outcome |-> "success"])
            /\ awaiter[a].status = "failed" =>
                   Contains(events[a], [arming |-> awaiter[a].arming, outcome |-> "error"])

\* What is due does not stay due: it is woken and settled, rescheduled or
\* deleted, also when the desktop crashed in the middle of its wake.
Overdue(a) == /\ awaiter[a] # None
              /\ awaiter[a].status \in {"armed", "waking"}
              /\ awaiter[a].next <= now
DueIsServed == \A a \in Id : Overdue(a) ~> ~Overdue(a)
=============================================================================
