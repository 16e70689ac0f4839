---------------------------- MODULE RunLifecycle ----------------------------
(***************************************************************************)
(* The life of the runs of one thread: thread_session/run_tracker.ts (the *)
(* only writer of run rows), its callers runs.ts (cancel, retry),         *)
(* session_loop.ts, outer_loop.ts and message_send.ts (turns) and         *)
(* approval.ts (answers and resumption), over the tables agent_runs,      *)
(* agent_run_steps and tool_call_approvals that all processes share.      *)
(*                                                                         *)
(* A turn holds one tracker, whose cached row can be older than the row   *)
(* in the database; every other writer rehydrates a tracker and uses it   *)
(* once.  The thread lease (ThreadRunLease) lets one turn run at a time,  *)
(* but cancellation and startup recovery take no lease.  What a process   *)
(* does between two awaits is one action, except that the request of an   *)
(* approval and the blocking of the run that follows it are two, so that  *)
(* another process can write between them.  Where such an action commits  *)
(* more than once, a crash may cut it: CrashInRequest, CrashInCancel,     *)
(* CrashInRecover and CrashInApprove.                                      *)
(***************************************************************************)
EXTENDS Integers, FiniteSets

CONSTANTS
    Proc,         \* processes sharing the database
    Run,          \* run ids
    Approval,     \* tool approval ids
    Deployments,  \* which processes run, and the approvals that are asked for
    Environment,  \* what the environment of a run may do
    MaxWork,      \* bound, per process: audit steps of work a turn appends to its run
    Reserve,      \* bound: run ids that only resumption may take
    NoRun, NoTurn, NoApproval, NoSession

ASSUME ProcAssumption == IsFiniteSet(Proc)
ASSUME EnvironmentAssumption ==
    Environment \subseteq {"crash", "startFails", "preempt"}
ASSUME DeploymentsAssumption ==
    Deployments \subseteq [procs : SUBSET Proc, approvals : SUBSET Approval]
ASSUME BoundsAssumption == MaxWork \in [Proc -> Nat] /\ Reserve \in Nat

VARIABLES
    row,        \* agent_runs
    steps,      \* agent_run_steps, per run
    approval,   \* tool_call_approvals, with the run of their session
    session,    \* each process's pendingApprovalSessions, per run
    turn,       \* the turn that holds the thread, with its tracker
    unserved,   \* history: runs whose turn was lost before it could end them
    torn        \* history: runs whose cancellation was cut by a crash

history == <<unserved, torn>>
vars == <<row, steps, approval, session, turn, unserved, torn>>

Terminal == {"completed", "failed", "cancelled"}
Status == {"queued", "running", "blocked"} \cup Terminal

AllowedStatusTransitions ==
    [s \in Status |-> CASE s = "queued"  -> {"running", "failed", "cancelled"}
                        [] s = "running" -> {"blocked"} \cup Terminal
                        [] s = "blocked" -> Terminal
                        [] OTHER -> {}]

Row == [kind : {"turn", "handoff", "resume"}, parent : Run \cup {NoRun},
        status : Status, last : Nat, pending : SUBSET Approval]

\* A step is numbered by its run.  Its type is "work", "request", "response"
\* or the terminal status it was appended with; one "request" step stands for
\* the requests of a batch.
StepType == {"work", "request", "response"} \cup Terminal
Step == [index : Nat, type : StepType, about : SUBSET Approval]

ApprovalRow == [run : Run, state : {"pending", "answered", "consumed"}]
Session == [open : SUBSET Approval, collected : SUBSET Approval]

\* "asked" is the moment between the approval request and markBlocked.
Turn == [proc : Proc, run : Run, kind : {"stream", "resume", "send"},
         phase : {"working", "asked"},
         aborted : BOOLEAN,      \* its stream's cancelled flag
         cache : Row]            \* currentRun of its tracker

ASSUME NullsAssumption ==
    /\ NoRun \notin Run /\ NoRun \notin Row
    /\ NoApproval \notin ApprovalRow
    /\ NoSession \notin Session
    /\ NoTurn \notin Turn

\* The processes and the approvals of this behaviour.
Present == DOMAIN session
Askable == DOMAIN approval

TypeOK ==
    /\ row \in [Run -> Row \cup {NoRun}]
    /\ \A r \in Run : steps[r] \subseteq Step
    /\ DOMAIN steps = Run
    /\ [procs |-> Present, approvals |-> Askable] \in Deployments
    /\ approval \in [Askable -> ApprovalRow \cup {NoApproval}]
    /\ session \in [Present -> [Run -> Session \cup {NoSession}]]
    /\ turn \in Turn \cup {NoTurn}
    /\ unserved \in SUBSET Run
    /\ torn \in SUBSET Run

Init ==
    /\ row = [r \in Run |-> NoRun]
    /\ steps = [r \in Run |-> {}]
    /\ \E d \in Deployments :
          /\ approval = [a \in d.approvals |-> NoApproval]
          /\ session = [p \in d.procs |-> [r \in Run |-> NoSession]]
    /\ turn = NoTurn
    /\ unserved = {}
    /\ torn = {}

Unused == {r \in Run : row[r] = NoRun}
Asked(r) == {a \in Askable : approval[a] # NoApproval /\ approval[a].run = r}
InState(r, s) == {a \in Asked(r) : approval[a].state = s}
Ended(r) == row[r] # NoRun /\ row[r].status \in Terminal

-----------------------------------------------------------------------------
(* Mutated forms of definitions below, each a plausible bug.               *)

NoUniqueIndex(x) == TRUE
CatchForgets(x, verdict) == x
PendingKept(x, verdict) ==
    LET w == [x.row EXCEPT !.status = verdict, !.last = x.cache.last + 1]
    IN [row |-> w, cache |-> w, ok |-> x.ok,
        steps |-> x.steps \cup {[index |-> w.last, type |-> verdict, about |-> {}]}]
InvalidExpiry(some) == [a \in Askable |-> IF a \in some
                                        THEN [approval[a] EXCEPT !.state = "expired"]
                                        ELSE approval[a]]
SessionStays(p, r) == session
NeverCollected(s) == s.open = {}
ConsumedNothing(r) == approval
BlockedWithoutIds(x) ==
    LET w == [x.row EXCEPT !.status = "blocked", !.pending = {}]
    IN [x EXCEPT !.row = w, !.cache = w]

-----------------------------------------------------------------------------
(* A tracker at work.  [row, steps] are what the database holds of its     *)
(* run, cache is currentRun, ok turns FALSE when an operation throws: the  *)
(* operations after it are skipped, the ones before it stay committed.     *)

Tracker(r, cache) ==
    [row |-> row[r], steps |-> steps[r], cache |-> cache, ok |-> TRUE]

\* rehydrateAgentRunTracker
Rehydrated(r) == Tracker(r, row[r])

\* assertRunStatusTransition: of the cached status.
MayBecome(x, status) ==
    status = x.cache.status \/ status \in AllowedStatusTransitions[x.cache.status]

\* UNIQUE(run_id, step_index)
IndexFree(x) == \A s \in x.steps : s.index # x.cache.last + 1

\* appendAgentRunStepAndUpdateRun: the step and the row commit together.  The
\* row's working state is the cached one, its status changes only if given.
Inserted(x, type, about, status, pending) ==
    IF x.ok /\ IndexFree(x)
    THEN LET index == x.cache.last + 1
             new == [x.row EXCEPT !.status = status, !.last = index, !.pending = pending]
         IN [row |-> new, cache |-> new, ok |-> TRUE,
             steps |-> x.steps \cup {[index |-> index, type |-> type, about |-> about]}]
    ELSE [x EXCEPT !.ok = FALSE]

Checked(x, status) == [x EXCEPT !.ok = @ /\ MayBecome(x, status)]

\* recordModelStep, tool steps of recordAgentStep, recordChildRun
RecordWork(x) == Inserted(x, "work", {}, x.row.status, x.cache.pending)

\* the approval_request case of recordAgentStep
RecordRequest(x, asked) ==
    Inserted(Checked(x, "blocked"), "request", asked, "blocked", x.cache.pending \cup asked)

NewResponse(x, a) == \A s \in x.steps : s.type = "response" => a \notin s.about

\* recordApprovalResponse
RecordResponse(x, a) ==
    IF NewResponse(x, a)
    THEN Inserted(x, "response", {a}, x.row.status, x.cache.pending)
    ELSE x

\* markCompleted, markResumed, markFailed, markCancelled
Mark(x, verdict) == Inserted(Checked(x, verdict), verdict, {}, verdict, {})

\* persist: no step, the row's working state becomes the cached one.
Persist(x, status) ==
    IF x.ok
    THEN LET new == [x.row EXCEPT !.status = status, !.last = x.cache.last,
                                  !.pending = x.cache.pending]
         IN [x EXCEPT !.row = new, !.cache = new]
    ELSE x

SyncModelMessages(x) == Persist(x, x.row.status)
MarkBlocked(x) == Persist(Checked(x, "blocked"), "blocked")

\* The catch of a turn: after a throw the run gets a verdict if the cache says
\* it is running; the verdict may throw too, and is then lost.
Caught(x, verdict) ==
    IF ~x.ok /\ x.cache.status = "running"
    THEN Mark([x EXCEPT !.ok = TRUE], verdict)
    ELSE x

Save(r, x) ==
    /\ row' = [row EXCEPT ![r] = x.row]
    /\ steps' = [steps EXCEPT ![r] = x.steps]

NewRow(kind, parent) ==
    [kind |-> kind, parent |-> parent, status |-> "running", last |-> 0, pending |-> {}]

NewTurn(p, r, kind, cache) ==
    [proc |-> p, run |-> r, kind |-> kind, phase |-> "working",
     aborted |-> FALSE, cache |-> cache]

-----------------------------------------------------------------------------
(* Turns.                                                                   *)

\* A turn is admitted and creates its run, after the preparation.
Begin(p, r, kind, parent) ==
    /\ p \in Present /\ turn = NoTurn
    /\ r \in Unused /\ Cardinality(Unused) > Reserve
    /\ row' = [row EXCEPT ![r] = NewRow("turn", parent)]
    /\ turn' = NewTurn(p, r, kind, NewRow("turn", parent))
    /\ UNCHANGED <<steps, approval, session, history>>

StartTurn(p, r, kind) == Begin(p, r, kind, NoRun)

\* resumeRun and retryAndExecute: the user runs a blocked or a queued run again,
\* as a new run of a new stream.  The old one stays as it is, its approvals too.
\* Its status is looked at before the preparation: it may have ended by now.
ResumeRun(p, o, r) ==
    /\ row[o] # NoRun /\ row[o].status # "running"
    /\ \E parent \in {o, row[o].parent} : Begin(p, r, "stream", parent)

\* A streamed turn throws between the creation of its run and that of its
\* driver (an empty prompt, a harness that cannot be built): the catch finds
\* no tracker and leaves the run as it is.
StartFails(r) ==
    /\ "startFails" \in Environment
    /\ turn = NoTurn
    /\ r \in Unused /\ Cardinality(Unused) > Reserve
    /\ row' = [row EXCEPT ![r] = NewRow("turn", NoRun)]
    /\ unserved' = unserved \cup {r}
    /\ UNCHANGED <<steps, approval, session, turn, torn>>

Working == turn # NoTurn /\ turn.phase = "working"
Held == Tracker(turn.run, turn.cache)
Verdict == IF turn.aborted THEN "cancelled" ELSE "failed"
Thrown(x) == [x EXCEPT !.ok = FALSE]

\* The turn ends having written x; a throw on the way goes through the catch.
EndWith(x) ==
    /\ Save(turn.run, Caught(x, Verdict))
    /\ turn' = NoTurn
    /\ UNCHANGED history

\* A step of the harness is recorded.
Work ==
    /\ Working
    /\ turn.cache.last < MaxWork[turn.proc]
    /\ LET x == RecordWork(Held)
       IN \/ /\ x.ok
             /\ Save(turn.run, x)
             /\ turn' = [turn EXCEPT !.cache = x.cache]
             /\ UNCHANGED history
          \/ /\ ~x.ok
             /\ EndWith(x)
    /\ UNCHANGED <<approval, session>>

\* The harness is done and nobody aborted it: the runner looks at the signal
\* after the last part of the stream.  A turn without tools does not sync.
Complete ==
    /\ Working /\ ~turn.aborted
    /\ \/ EndWith(Mark(SyncModelMessages(Held), "completed"))
       \/ turn.kind = "send" /\ EndWith(Mark(Held, "completed"))
    /\ UNCHANGED <<approval, session>>

\* The harness throws, of itself or because the turn was aborted.
Throw ==
    /\ Working
    /\ EndWith(Thrown(Held))
    /\ UNCHANGED <<approval, session>>

\* A handoff of an autonomous turn: the run is completed, the next one starts.
HandOff(c) ==
    LET x == Mark(SyncModelMessages(Held), "completed")
    IN /\ Working /\ ~turn.aborted /\ turn.kind = "stream"
       /\ c \in Unused /\ Cardinality(Unused) > Reserve
       /\ x.ok
       /\ row' = [row EXCEPT ![turn.run] = x.row, ![c] = NewRow("handoff", turn.run)]
       /\ steps' = [steps EXCEPT ![turn.run] = x.steps]
       /\ turn' = [turn EXCEPT !.run = c, !.cache = NewRow("handoff", turn.run)]
       /\ UNCHANGED <<approval, session, history>>

\* The last handoff of the chain, or of a turn that is not autonomous: the
\* loop completes the run and the session loop completes it once more.
HandOffEnds ==
    /\ Working /\ ~turn.aborted /\ turn.kind = "stream"
    /\ EndWith(Mark(Mark(SyncModelMessages(Held), "completed"), "completed"))
    /\ UNCHANGED <<approval, session>>

\* The turn asks for approvals: streamed turns sync the messages first, and
\* streamed and resumed turns register what they ask for before the run is
\* blocked.  The send path does neither.
Asking(asked) ==
    /\ Working /\ ~turn.aborted
    /\ asked # {} /\ asked \subseteq Askable /\ \A a \in asked : approval[a] = NoApproval

ToAsk == IF turn.kind = "stream" THEN SyncModelMessages(Held) ELSE Held
Registering(asked) == IF turn.kind = "send" THEN {} ELSE asked
Registered(asked) == [a \in Askable |-> IF a \in Registering(asked)
                                          THEN [run |-> turn.run, state |-> "pending"]
                                          ELSE approval[a]]

RequestApproval(asked) ==
    LET x == RecordRequest(ToAsk, asked)
    IN /\ Asking(asked)
       /\ approval' = Registered(asked)
       /\ \/ /\ x.ok
             /\ Save(turn.run, x)
             /\ turn' = [turn EXCEPT !.cache = x.cache, !.phase = "asked"]
             /\ session' = IF Registering(asked) = {} THEN session
                           ELSE [session EXCEPT ![turn.proc][turn.run] =
                                    [open |-> asked, collected |-> {}]]
             /\ UNCHANGED history
          \/ /\ ~x.ok     \* the turn's own session is cleaned up again
             /\ EndWith(x)
             /\ UNCHANGED session

\* ... and is blocked; streamed turns synced the messages before asking.  What
\* a turn does after this awaits nothing but microtasks.
Block ==
    /\ turn # NoTurn /\ turn.phase = "asked"
    /\ EndWith(MarkBlocked(IF turn.kind = "stream" THEN Held ELSE SyncModelMessages(Held)))
    /\ UNCHANGED <<approval, session>>

\* The user stops the stream, another request supersedes it, its lease is
\* lost.  A turn of the send path has no stream.
Abort ==
    /\ Working /\ turn.kind # "send" /\ ~turn.aborted
    /\ turn' = [turn EXCEPT !.aborted = TRUE]
    /\ UNCHANGED <<row, steps, approval, session, history>>

-----------------------------------------------------------------------------
(* Writers that take no lease.                                              *)

\* Between the two halves of a turn's end its own process does nothing else,
\* and another process only if the environment preempts.
MayAct(p) ==
    /\ p \in Present
    /\ turn # NoTurn /\ turn.phase = "asked"
          => turn.proc # p /\ "preempt" \in Environment

\* expirePendingToolCallApprovalsByRunIds answers them one by one.
Expire(some) == [a \in Askable |-> IF a \in some
                                     THEN [approval[a] EXCEPT !.state = "answered"]
                                     ELSE approval[a]]
Expired(r) == Expire(InState(r, "pending"))

\* abortStreamByRunId: a live stream of this process that runs r.
Streams(p, r) ==
    /\ turn # NoTurn /\ turn.proc = p /\ turn.run = r
    /\ turn.kind # "send" /\ ~turn.aborted

SessionDropped(p, r) == [session EXCEPT ![p][r] = NoSession]

\* cancelRun: the row gets its verdict, or its turn is told to give it one, and
\* then the approvals expire.
CancelRun(p, r) ==
    /\ MayAct(p)
    /\ row[r] # NoRun /\ ~Ended(r)
    /\ \/ /\ Streams(p, r)
          /\ turn' = [turn EXCEPT !.aborted = TRUE]
          /\ UNCHANGED <<row, steps>>
       \/ LET x == Mark(Rehydrated(r), "cancelled")
          IN /\ ~Streams(p, r)
             /\ x.ok
             /\ Save(r, x)
             /\ UNCHANGED turn
    /\ approval' = Expired(r)
    /\ session' = SessionDropped(p, r)
    /\ UNCHANGED history

\* recoverStuckRunsOnStartup, by a process that has just started: the approvals
\* of a run expire before it gets its verdict.
Recovering(p, r) ==
    /\ MayAct(p)
    /\ \A q \in Run : session[p][q] = NoSession
    /\ ~(turn # NoTurn /\ turn.proc = p)
    /\ row[r] # NoRun /\ row[r].status \in {"running", "blocked"}

Recover(p, r) ==
    LET x == Mark(Rehydrated(r), "failed")
    IN /\ Recovering(p, r)
       /\ x.ok
       /\ Save(r, x)
       /\ approval' = Expired(r)
       /\ UNCHANGED <<session, turn, history>>

\* retryRun: a queued copy that keeps the working state of the original.
RetryRun(p, r, c) ==
    /\ MayAct(p)
    /\ row[r] # NoRun /\ row[r].status \in {"failed", "cancelled"}
    /\ c \in Unused /\ Cardinality(Unused) > Reserve
    /\ row' = [row EXCEPT ![c] = [row[r] EXCEPT !.kind = "turn", !.parent = r,
                                                !.status = "queued"]]
    /\ UNCHANGED <<steps, approval, session, turn, history>>

-----------------------------------------------------------------------------
(* approveTool: under the thread lease, the user's decision or the timer's. *)

\* The session in memory, or the one recovered from the database, which knows
\* the approvals that are not consumed and those already answered.
SessionOf(p, r) ==
    IF session[p][r] # NoSession
    THEN session[p][r]
    ELSE [open |-> InState(r, "pending") \cup InState(r, "answered"),
          collected |-> InState(r, "answered")]

Answerable(p, a) ==
    /\ turn = NoTurn
    /\ p \in Present /\ a \in Askable
    /\ approval[a] # NoApproval
    /\ session[p][approval[a].run] # NoSession \/ approval[a].state # "consumed"

Answered(p, a) ==
    LET s == SessionOf(p, approval[a].run)
    IN [s EXCEPT !.collected = @ \cup {a}]

AllCollected(s) == s.open \subseteq s.collected

WithAnswer(a) == [approval EXCEPT ![a].state = "answered"]

\* consumeToolCallApprovalSession
Consumed(r) == [a \in Askable |-> IF a \in Asked(r)
                                   THEN [approval[a] EXCEPT !.state = "consumed"]
                                   ELSE approval[a]]

\* The decision was collected before: it is recorded if it was not, and that
\* is all.  A recovered session stays in memory.
RepeatAnswer(p, a) ==
    LET r == approval[a].run
    IN /\ Answerable(p, a)
       /\ a \in SessionOf(p, r).collected
       /\ Save(r, RecordResponse(Rehydrated(r), a))
       /\ session' = [session EXCEPT ![p][r] = SessionOf(p, r)]
       /\ UNCHANGED <<approval, turn, history>>

\* A new decision; others are missing, or recording it throws.
Answer(p, a) ==
    LET r == approval[a].run
        x == RecordResponse(Rehydrated(r), a)
    IN /\ Answerable(p, a)
       /\ a \notin SessionOf(p, r).collected
       /\ ~(x.ok /\ AllCollected(Answered(p, a)))
       /\ Save(r, x)
       /\ approval' = WithAnswer(a)
       /\ session' = [session EXCEPT ![p][r] = Answered(p, a)]
       /\ UNCHANGED <<turn, history>>

\* The last decision: the approvals are consumed, a child run is created, its
\* parent is completed, the turn goes on as the child.  If the parent cannot
\* be completed approveTool throws and nobody runs the child.
Resume(p, a, c) ==
    LET r == approval[a].run
        x == RecordResponse(Rehydrated(r), a)
        y == Mark([x EXCEPT !.cache = x.row], "completed")
    IN /\ Answerable(p, a)
       /\ a \notin SessionOf(p, r).collected
       /\ x.ok /\ AllCollected(Answered(p, a))
       /\ c \in Unused
       /\ approval' = Consumed(r)
       /\ session' = SessionDropped(p, r)
       /\ row' = [row EXCEPT ![r] = y.row, ![c] = NewRow("resume", r)]
       /\ steps' = [steps EXCEPT ![r] = y.steps]
       /\ UNCHANGED torn
       /\ IF y.ok
          THEN turn' = NewTurn(p, c, "resume", NewRow("resume", r)) /\ UNCHANGED unserved
          ELSE unserved' = unserved \cup {c} /\ UNCHANGED turn

Approve(p, a) == \/ RepeatAnswer(p, a)
                 \/ Answer(p, a)
                 \/ \E c \in Run : Resume(p, a, c)

\* scheduleApprovalTimeout: a timer runs for each approval that is open in a
\* session in memory and not collected, and retries while the thread is busy.
TimeOut(p, a) ==
    /\ p \in Present /\ a \in Askable
    /\ approval[a] # NoApproval
    /\ session[p][approval[a].run] # NoSession
    /\ a \notin session[p][approval[a].run].collected
    /\ Answer(p, a) \/ \E c \in Run : Resume(p, a, c)

-----------------------------------------------------------------------------
(* The environment.                                                         *)

Forgotten(p) == [session EXCEPT ![p] = [r \in Run |-> NoSession]]

\* The process dies and restarts; the run of its turn stays as it is.
TurnLost(p) ==
    IF turn # NoTurn /\ turn.proc = p
    THEN turn' = NoTurn /\ unserved' = unserved \cup {turn.run}
    ELSE UNCHANGED <<turn, unserved>>

Dies(p) ==
    /\ "crash" \in Environment
    /\ p \in Present
    /\ session' = Forgotten(p)

Crash(p) ==
    /\ Dies(p) /\ TurnLost(p)
    /\ UNCHANGED <<row, steps, approval, torn>>

\* ... while its turn asks for approvals: they are registered, and the run names
\* the ones whose request was recorded, which may be none.
CrashInRequest(asked, recorded) ==
    LET x == IF recorded = {} THEN ToAsk ELSE RecordRequest(ToAsk, recorded)
    IN /\ Asking(asked)
       /\ recorded \subseteq asked /\ recorded # asked
       /\ x.ok
       /\ Save(turn.run, x)
       /\ approval' = Registered(asked)
       /\ Dies(turn.proc) /\ TurnLost(turn.proc)
       /\ UNCHANGED torn

\* ... in cancelRun: the run has its verdict, some of its approvals are pending.
CrashInCancel(p, r, some) ==
    LET x == Mark(Rehydrated(r), "cancelled")
    IN /\ MayAct(p)
       /\ row[r] # NoRun /\ ~Ended(r) /\ ~Streams(p, r)
       /\ x.ok
       /\ Save(r, x)
       /\ some \subseteq InState(r, "pending") /\ some # InState(r, "pending")
       /\ approval' = Expire(some)
       /\ Dies(p) /\ TurnLost(p)
       /\ torn' = torn \cup {r}

\* ... in the recovery: approvals have expired, the run has no verdict yet.
CrashInRecover(p, r, some) ==
    /\ Recovering(p, r)
    /\ some \subseteq InState(r, "pending") /\ some # {}
    /\ approval' = Expire(some)
    /\ Dies(p)
    /\ UNCHANGED <<row, steps, turn, history>>

\* ... in approveTool: after the decision is stored, after it is
\* recorded, after the session is consumed or after the child is created.
CrashInApprove(p, a) ==
    LET r == approval[a].run
        x == RecordResponse(Rehydrated(r), a)
    IN /\ Answerable(p, a)
       /\ a \notin SessionOf(p, r).collected
       /\ Dies(p)
       /\ UNCHANGED <<turn, torn>>
       /\ \/ approval' = WithAnswer(a) /\ UNCHANGED <<row, steps, unserved>>
          \/ approval' = WithAnswer(a) /\ Save(r, x) /\ UNCHANGED unserved
          \/ /\ x.ok /\ AllCollected(Answered(p, a))
             /\ approval' = Consumed(r)
             /\ \/ Save(r, x) /\ UNCHANGED unserved
                \/ \E c \in Unused :
                      /\ row' = [row EXCEPT ![r] = x.row, ![c] = NewRow("resume", r)]
                      /\ steps' = [steps EXCEPT ![r] = x.steps]
                      /\ unserved' = unserved \cup {c}

TurnNext ==
    \/ \E p \in Proc, r \in Run, kind \in {"stream", "send"} : StartTurn(p, r, kind)
    \/ \E p \in Proc, o, r \in Run : ResumeRun(p, o, r)
    \/ \E r \in Run : StartFails(r)
    \/ Work \/ Complete \/ Throw \/ HandOffEnds \/ Block \/ Abort
    \/ \E c \in Run : HandOff(c)
    \/ \E asked \in SUBSET Approval : RequestApproval(asked)

CrashNext ==
    \/ \E p \in Proc : Crash(p)
    \/ \E asked, recorded \in SUBSET Approval : CrashInRequest(asked, recorded)
    \/ \E p \in Proc, r \in Run, some \in SUBSET Approval :
          CrashInCancel(p, r, some) \/ CrashInRecover(p, r, some)
    \/ \E p \in Proc, a \in Approval : CrashInApprove(p, a)

Next ==
    \/ TurnNext
    \/ \E p \in Proc, r \in Run : CancelRun(p, r) \/ Recover(p, r)
    \/ \E p \in Proc, r, c \in Run : RetryRun(p, r, c)
    \/ \E p \in Proc, a \in Approval : Approve(p, a)
    \/ CrashNext

Spec == Init /\ [][Next]_vars

\* An aborted turn stops, an approval request is followed by the blocking of
\* the run, the timers of approvals fire.
Fairness ==
    /\ WF_vars(Throw /\ turn.aborted)
    /\ WF_vars(Block)
    /\ \A p \in Proc, a \in Approval : WF_vars(TimeOut(p, a))

FairSpec == Spec /\ Fairness

-----------------------------------------------------------------------------
(* Properties.                                                              *)

\* A run that was completed, failed or cancelled keeps that status: the table of
\* transitions lets a verdict be followed by nothing.  The table is asked about a
\* cached status, and what keeps the promise is the unique index of the steps, so
\* it is broken by the one write that has no step, the persist of markBlocked.
TerminalIsFinal ==
    [][\A r \in Run : Ended(r) => row'[r].status = row[r].status]_vars

\* Where no other process writes between the request of an approval and
\* markBlocked, the rows keep the promise of RunRecord: a run is created once,
\* moves along the table and has one verdict, although the turn that executes it
\* may not have noticed that it was cancelled elsewhere and still writes.
StatusOf(r) == IF row[r] = NoRun THEN "none" ELSE row[r].status
Record == INSTANCE RunRecord WITH status <- [r \in Run |-> StatusOf(r)], Begun <- {}
ImplementsRecord == Record!Spec

\* A preempted turn has taken the row back behind its trail.  Nothing can be
\* appended to such a run any more.
Overwritten(r) ==
    "preempt" \in Environment /\ \E s \in steps[r] : s.index = row[r].last + 1

\* The audit trail of a run never has two verdicts, whatever turn, cancellation,
\* resumption and recovery race for it, and its row has the same one: other than
\* in a row that was overwritten the two agree in every state.
OneVerdict ==
    \A r \in Run : \A s \in steps[r] :
        s.type \in Terminal =>
            /\ row[r].status = s.type \/ Overwritten(r)
            /\ \A t \in steps[r] : t.type \in Terminal => t.type = s.type

\* A run with a verdict waits for no approval.
EndedAwaitsNothing == \A r \in Run : Ended(r) => row[r].pending = {} \/ Overwritten(r)

\* A run that has ended says so in its row and its trail, and nothing else.
VerdictExact == OneVerdict /\ EndedAwaitsNothing

\* A run marked running is executed by the turn that holds the thread, or its
\* turn was lost (a crash, a failed start, a parent that could not be completed):
\* no error path of a turn that has its tracker leaves its run running.
RunningServed ==
    \A r \in Run : row[r] # NoRun /\ row[r].status = "running"
        => r \in unserved \/ (turn # NoTurn /\ turn.run = r)

\* What follows holds of one process and not of two (see the README).
Alone == Cardinality(Present) = 1

\* The approvals of a run are resumed into one continuation: neither a repeated
\* decision nor a timer or a recovery after a crash starts another.
ResumedOnce ==
    Alone => \A c, d \in Run :
        /\ row[c] # NoRun /\ row[c].kind = "resume"
        /\ row[d] # NoRun /\ row[d].kind = "resume"
        /\ row[c].parent = row[d].parent
        => c = d

\* A run that was completed, failed or cancelled is never continued, by no
\* session that survived its end in memory or is recovered from the database,
\* unless a crash cut its cancellation: that run's approvals can be answered.
Resumed(c) == row[c] = NoRun /\ row'[c] # NoRun /\ row'[c].kind = "resume"
EndedNotResumed ==
    [][\A c \in Run : Alone /\ Resumed(c)
          => ~Ended(row'[c].parent) \/ row'[c].parent \in torn]_vars

\* Approvals agree with the row of their run.  A cancelled run leaves none for
\* the user to answer, unless a crash cut its cancellation; a blocked one names
\* every approval it still waits for or has to resume with, unless its turn died.
\* No other crash, at no commit of an answer, a recovery or a resumption, makes
\* them differ.
ApprovalsAgree ==
    Alone => \A r \in Run : row[r] # NoRun =>
        /\ row[r].status = "cancelled" /\ r \notin torn => InState(r, "pending") = {}
        /\ row[r].status = "blocked" /\ r \notin unserved =>
              InState(r, "pending") \cup InState(r, "answered") \subseteq row[r].pending

\* The cancellation of a run that is executed reaches its row.
Cancelling(r) == turn # NoTurn /\ turn.run = r /\ turn.aborted
CancelTakesEffect == \A r \in Run : Cancelling(r) ~> Ended(r)

\* If turns keep leaving the thread free, a run that asked for approvals does
\* not stay blocked for ever: the timers answer for a user who does not.
Awaiting(r) == row[r] # NoRun /\ row[r].status = "blocked" /\ Asked(r) # {}
BlockedEnds == []<>(turn = NoTurn) => \A r \in Run : Awaiting(r) ~> Ended(r)
=============================================================================
