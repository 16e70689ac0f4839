--------------------------- MODULE ThreadRunLease ---------------------------
(***************************************************************************)
(* Admission of turns to threads: packages/backend/src/db/                *)
(* thread_run_locks.ts (the lease row, its heartbeat and its release) and *)
(* tryAcquireThreadRun / abortThreadRunForLeaseLoss of thread_session/    *)
(* thread_stream_coordinator.ts (the in-memory set in front of it).       *)
(*                                                                         *)
(* Time is a tick: deadlines are kept as the ticks left until they are    *)
(* reached, so that "expires_at <= now" is "left = 0".  A process that is *)
(* awake runs its timers when they are due; a stalled process (a machine  *)
(* asleep, a blocked event loop) runs nothing while time passes.          *)
(***************************************************************************)
EXTENDS Integers

CONSTANTS
    Proc,       \* processes sharing the database
    Thread,     \* conversation threads
    Token,      \* lease tokens (createPrefixedId)
    Ttl,        \* LEASE_TTL_MS, in ticks
    Refresh,    \* LEASE_REFRESH_INTERVAL_MS, in ticks
    Faults,     \* the faults of the environment a run allows
    NoRow,      \* the thread has no row in thread_run_locks
    NoTurn      \* the token is not in use by a turn

ASSUME TimingAssumption ==
    /\ Ttl \in Nat /\ Refresh \in Nat
    /\ 0 < Refresh /\ Refresh < Ttl
ASSUME FaultsAssumption == Faults \subseteq {"crash", "stall", "dbError"}

\* The callers of tryAcquireThreadRun: a streamed turn, a turn resumed by an
\* approval, and a turn of the non-streaming send path.
Kind == {"stream", "resume", "send"}

VARIABLES
    rows,           \* thread_run_locks: thread -> row or NoRow
    runningThreads, \* each process's in-memory set
    turn,           \* token -> the turn that acquired it, or NoTurn
    stalled         \* processes that are not being scheduled

vars == <<rows, runningThreads, turn, stalled>>

Row == [token : Token, left : 0..Ttl]

\* A turn between acquire and release.  quiet and exposed are history: the
\* time since the last successful refresh, and the time the turn has spent
\* running, awake and unaborted without owning the row, since its last failed
\* heartbeat.  Both are cut off where they stop making a difference.
Turn == [proc : Proc, thread : Thread, kind : Kind,
         leaseLost : BOOLEAN,       \* the heartbeat found no row of its own
         aborted : BOOLEAN,         \* its abort controller was fired for it
         beatIn : 0..Refresh,       \* the interval timer
         quiet : 0..Ttl,
         exposed : 0..(Refresh + 1)]

ASSUME NullsAssumption == NoRow \notin Row /\ NoTurn \notin Turn

TypeOK ==
    /\ rows \in [Thread -> Row \cup {NoRow}]
    /\ runningThreads \in [Proc -> SUBSET Thread]
    /\ turn \in [Token -> Turn \cup {NoTurn}]
    /\ stalled \in SUBSET Proc

Init ==
    /\ rows = [t \in Thread |-> NoRow]
    /\ runningThreads = [p \in Proc |-> {}]
    /\ turn = [k \in Token |-> NoTurn]
    /\ stalled = {}

Active == {k \in Token : turn[k] # NoTurn}

\* The row of the turn's thread carries the turn's own token.
OwnsRow(k) ==
    /\ rows[turn[k].thread] # NoRow
    /\ rows[turn[k].thread].token = k

\* Ids are never reused: a token is new if neither a row nor a turn has it.
Fresh == {k \in Token : /\ turn[k] = NoTurn
                        /\ \A t \in Thread : rows[t] # NoRow => rows[t].token # k}

-----------------------------------------------------------------------------
(* Mutated forms of definitions below, each a plausible bug.               *)

NothingPurged == rows
EverythingPurged == [t \in Thread |-> NoRow]
RowDroppedWhoeverOwnsIt(k) == [rows EXCEPT ![turn[k].thread] = NoRow]
RowBackdated(k) ==
    IF OwnsRow(k) THEN [rows EXCEPT ![turn[k].thread].left = -1] ELSE rows
NothingAborted(kind) == FALSE

-----------------------------------------------------------------------------
(* The acquire transaction.                                                *)

\* DELETE FROM thread_run_locks WHERE expires_at <= now: of every thread.
Purged ==
    [t \in Thread |->
        IF rows[t] # NoRow /\ rows[t].left = 0 THEN NoRow ELSE rows[t]]

\* tryAcquireThreadRun asks its own process first.
NotBusyHere(p, t) == t \notin runningThreads[p]

\* Both guards pass: the row is inserted, the heartbeat starts.
Admit(p, t, kind, k) ==
    /\ p \notin stalled
    /\ NotBusyHere(p, t)
    /\ Purged[t] = NoRow
    /\ k \in Fresh
    /\ rows' = [Purged EXCEPT ![t] = [token |-> k, left |-> Ttl]]
    /\ runningThreads' = [runningThreads EXCEPT ![p] = @ \cup {t}]
    /\ turn' = [turn EXCEPT ![k] =
                    [proc |-> p, thread |-> t, kind |-> kind,
                     leaseLost |-> FALSE, aborted |-> FALSE,
                     beatIn |-> Refresh, quiet |-> 0, exposed |-> 0]]
    /\ UNCHANGED stalled

\* INSERT OR IGNORE finds a live row: busy, but the purge is committed.
Refuse(p, t) ==
    /\ p \notin stalled
    /\ NotBusyHere(p, t)
    /\ Purged[t] # NoRow
    /\ rows' = Purged
    /\ UNCHANGED <<runningThreads, turn, stalled>>

-----------------------------------------------------------------------------
(* The heartbeat of a turn.                                                *)

BeatDue(k) ==
    /\ turn[k] # NoTurn
    /\ turn[k].proc \notin stalled
    /\ ~turn[k].leaseLost
    /\ turn[k].beatIn = 0

\* The refresh touches its own row, even one that expired unnoticed.
BeatRenews(k) ==
    /\ BeatDue(k)
    /\ OwnsRow(k)
    /\ rows' = [rows EXCEPT ![turn[k].thread].left = Ttl]
    /\ turn' = [turn EXCEPT ![k] = [@ EXCEPT !.beatIn = Refresh, !.quiet = 0]]
    /\ UNCHANGED <<runningThreads, stalled>>

\* abortThreadRunForLeaseLoss reaches a turn through its thread's session.
\* Only streamed turns have one: a resumed turn is attached without a session
\* and the send path registers no stream at all.
AbortedOnLoss(kind) == kind = "stream"

\* The refresh touches no row: the timer is cleared, the loss is signalled.
BeatFindsLoss(k) ==
    /\ BeatDue(k)
    /\ ~OwnsRow(k)
    /\ turn' = [turn EXCEPT ![k] = [@ EXCEPT !.leaseLost = TRUE,
                                             !.aborted = AbortedOnLoss(turn[k].kind)]]
    /\ UNCHANGED <<rows, runningThreads, stalled>>

\* A database error is logged and the turn keeps running.
BeatErrors(k) ==
    /\ "dbError" \in Faults
    /\ BeatDue(k)
    /\ turn' = [turn EXCEPT ![k] = [@ EXCEPT !.beatIn = Refresh, !.exposed = 0]]
    /\ UNCHANGED <<rows, runningThreads, stalled>>

-----------------------------------------------------------------------------
(* Release: at the end of the turn, however it ends.                       *)

RowDropped(k) ==
    IF OwnsRow(k) THEN [rows EXCEPT ![turn[k].thread] = NoRow] ELSE rows

Ended(k) ==
    /\ turn[k] # NoTurn
    /\ turn[k].proc \notin stalled
    /\ runningThreads' = [runningThreads EXCEPT ![turn[k].proc] = @ \ {turn[k].thread}]
    /\ turn' = [turn EXCEPT ![k] = NoTurn]
    /\ UNCHANGED stalled

Release(k) ==
    /\ Ended(k)
    /\ rows' = RowDropped(k)

\* The DELETE fails: logged, the row is left to expire.
ReleaseErrors(k) ==
    /\ "dbError" \in Faults
    /\ Ended(k)
    /\ UNCHANGED rows

-----------------------------------------------------------------------------
(* The environment.                                                        *)

\* The process dies and restarts empty; its rows stay in the database.
Crash(p) ==
    /\ "crash" \in Faults
    /\ runningThreads' = [runningThreads EXCEPT ![p] = {}]
    /\ turn' = [k \in Token |->
                   IF turn[k] # NoTurn /\ turn[k].proc = p THEN NoTurn ELSE turn[k]]
    /\ stalled' = stalled \ {p}
    /\ UNCHANGED rows

Stall(p) ==
    /\ "stall" \in Faults
    /\ p \notin stalled
    /\ stalled' = stalled \cup {p}
    /\ UNCHANGED <<rows, runningThreads, turn>>

Wake(p) ==
    /\ p \in stalled
    /\ stalled' = stalled \ {p}
    /\ UNCHANGED <<rows, runningThreads, turn>>

Down(n) == IF n = 0 THEN 0 ELSE n - 1
Up(n, cap) == IF n = cap THEN cap ELSE n + 1

\* Time does not pass over a due timer of a process that is awake.
Tick ==
    /\ \A k \in Token : ~BeatDue(k)
    /\ rows' = [t \in Thread |->
                  IF rows[t] = NoRow THEN NoRow
                  ELSE [token |-> rows[t].token, left |-> Down(rows[t].left)]]
    /\ turn' = [k \in Token |->
                  IF turn[k] = NoTurn THEN NoTurn
                  ELSE [turn[k] EXCEPT
                          !.beatIn = Down(@),
                          !.quiet = Up(@, Ttl),
                          !.exposed = IF turn[k].proc \in stalled \/ turn[k].aborted \/ OwnsRow(k)
                                      THEN @ ELSE Up(@, Refresh + 1)]]
    /\ UNCHANGED <<runningThreads, stalled>>

Next ==
    \/ \E p \in Proc, t \in Thread, kind \in Kind, k \in Token : Admit(p, t, kind, k)
    \/ \E p \in Proc, t \in Thread : Refuse(p, t)
    \/ \E k \in Token : \/ BeatRenews(k) \/ BeatFindsLoss(k) \/ BeatErrors(k)
                        \/ Release(k) \/ ReleaseErrors(k)
    \/ \E p \in Proc : Crash(p) \/ Stall(p) \/ Wake(p)
    \/ Tick

Spec == Init /\ [][Next]_vars

\* Time goes on, and a process that keeps waking up runs its timers: strong
\* fairness, since stalls disable a timer that is due.
Fairness ==
    /\ SF_vars(Tick)
    /\ \A k \in Token : SF_vars(BeatRenews(k) \/ BeatFindsLoss(k))

FairSpec == Spec /\ Fairness

-----------------------------------------------------------------------------
(* Properties.                                                             *)

\* Two turns of one process never execute the same thread, not even when the
\* lease of the first expired while the process was stalled.
InProcessExclusive ==
    \A j, k \in Active :
        turn[j].proc = turn[k].proc /\ turn[j].thread = turn[k].thread => j = k

\* A turn is without its row only after a whole TTL without a successful
\* refresh: no release, purge or admission of anybody else takes a row that
\* is being refreshed.
LossNeedsSilence ==
    \A k \in Active : ~OwnsRow(k) => turn[k].quiet = Ttl

\* Two processes execute one thread only if one of them was silent for a TTL.
DoubleRunNeedsSilence ==
    \A j, k \in Active :
        j # k /\ turn[j].thread = turn[k].thread
            => turn[j].quiet = Ttl \/ turn[k].quiet = Ttl

\* A streamed turn that lost its row and is awake is aborted within one
\* heartbeat interval (of its last heartbeat that failed with an error).
StreamLossWindow ==
    \A k \in Active :
        turn[k].kind = "stream" /\ ~turn[k].aborted => turn[k].exposed <= Refresh

\* The row of a turn that died never blocks its thread for good.
Orphaned(t) == rows[t] # NoRow /\ turn[rows[t].token] = NoTurn
OrphanFreed == \A t \in Thread : Orphaned(t) ~> Purged[t] = NoRow

\* Counting only the turns whose last successful write to the row is younger
\* than the TTL, the lease is a mutual exclusion of turns across the processes,
\* whatever crashes, stalls or fails: a turn that was silent for longer has left
\* the thread to others, and counts again only if it finds the row still its own.
Executing(t) == {k \in Active : turn[k].thread = t /\ turn[k].quiet < Ttl}
Admission == INSTANCE ThreadAdmission
    WITH executing <- [t \in Thread |-> Executing(t)], TurnId <- Token
ImplementsAdmission == Admission!Spec
=============================================================================
