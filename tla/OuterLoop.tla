------------------------------ MODULE OuterLoop ------------------------------
(***************************************************************************)
(* The loop of a streamed turn: runOuterLoop (thread_session/             *)
(* outer_loop.ts) over the batches of AgentRunner, with the verdict that  *)
(* session_loop.ts gives the run when the loop returns or throws.  One    *)
(* turn, from its driver on: what the loop does between two batches is    *)
(* synchronous and one action.  The links through which a turn is stopped *)
(* and steered are those of ThreadStreams, the rows those of RunLifecycle.*)
(***************************************************************************)
EXTENDS AgentRunner, FiniteSets

CONSTANTS
    MaxBatches,   \* MAX_OUTER_AUTONOMOUS_BATCHES
    MaxChain,     \* MAX_HANDOFF_CHAIN
    MaxSteers     \* bound: steering messages in a behaviour

ASSUME LoopAssumption == {MaxBatches, MaxChain} \subseteq Nat \ {0} /\ MaxSteers \in Nat

VARIABLES
    options,   \* autonomous.maxIterations of the turn; 1 if it is not autonomous
    loop,      \* TurnDriverState
    stream,    \* ActiveStreamState and the steer queue of its session
    runs,      \* the runs of the turn, in the order of their creation
    log        \* history: the facts of the current run, as they happened

loopVars == <<options, loop, stream, runs>>
vars == <<runner, aborted, made, open, options, loop, stream, runs, log>>

Outcome == {"none", "completed", "budget-exhausted", "awaiting-approval", "cancelled",
            "handoff", "thrown"}
Run == [parent : Nat, root : Nat, status : {"running", "blocked", "completed", "failed", "cancelled"}]

TypeOK ==
    /\ RunnerTypeOK
    /\ options \in 1..(MaxBatches + 1)
    /\ loop \in [outerBatch : 0..MaxBatches, handoffChain : 0..MaxChain, tracker : Nat,
                 harnessTurns : Nat, outcome : Outcome]
    /\ stream \in [cancelled : BOOLEAN, steered : BOOLEAN, runId : Nat,
                   queue : Seq(1..MaxSteers), sent : 0..MaxSteers]
    /\ runs \in Seq(Run) /\ loop.tracker \in DOMAIN runs
    /\ log \in Seq(Fact)

Init ==
    /\ options \in 1..(MaxBatches + 1)
    /\ loop = [outerBatch |-> 0, handoffChain |-> 0, tracker |-> 1,
               harnessTurns |-> 1, outcome |-> "none"]
    /\ stream = [cancelled |-> FALSE, steered |-> FALSE, runId |-> 1, queue |-> <<>>, sent |-> 0]
    /\ runs = <<[parent |-> 0, root |-> 1, status |-> "running"]>>
    /\ runner = NewBatch(<<>>)
    /\ aborted = FALSE /\ made = 0 /\ open = 0
    /\ log = <<>>

AutonomousMode == options > 1
Running == loop.outcome = "none"

-----------------------------------------------------------------------------
(* Mutated forms of definitions below, each a plausible bug.               *)

FirstRunStays(s, r) == s
SteeredFirst == stream.steered

-----------------------------------------------------------------------------

\* harness.turn is called again, by a new harness or the same.
Again(history) == runner' = NewBatch(history)
CountTurn(l) == [l EXCEPT !.harnessTurns = @ + 1]

\* The verdict that ends the turn, on the run its tracker holds.
Verdict(outcome, status) ==
    /\ loop' = [loop EXCEPT !.outcome = outcome]
    /\ runs' = [runs EXCEPT ![loop.tracker].status = status]
    /\ runner' = [runner EXCEPT !.result = "none"]
    /\ UNCHANGED <<aborted, made, open, options, stream, log>>

Has(results) == Running /\ runner.phase = "idle" /\ runner.result \in results
Interrupted == Has({"aborted", "failed"})

\* takeSteerMessages, as messages of the history.
Drained == [i \in 1..Len(stream.queue) |-> [kind |-> "steer", id |-> stream.queue[i]]]

\* What an interrupted batch is taken for: a stop outweighs steering.
Resumes == stream.steered /\ ~stream.cancelled

\* The batch threw while a steering message was waiting: it goes on with what
\* it had finished, and the messages.  This is no batch of the budget.
Steered ==
    /\ Interrupted /\ Resumes
    /\ Again(runner.kept \o Drained)
    /\ log' = log \o Drained
    /\ stream' = [stream EXCEPT !.steered = FALSE, !.queue = <<>>]
    /\ aborted' = FALSE      \* a new AbortController
    /\ loop' = CountTurn(loop)
    /\ UNCHANGED <<made, open, options, runs>>

Cancelled ==
    /\ Interrupted /\ ~Resumes /\ stream.cancelled
    /\ Verdict("cancelled", "cancelled")

Failed ==
    /\ Interrupted /\ ~Resumes /\ ~stream.cancelled
    /\ Verdict("thrown", "failed")

AwaitingApproval ==
    /\ Has({"approval"})
    /\ Verdict("awaiting-approval", "blocked")

Completed ==
    /\ Has({"completed"})
    /\ Verdict("completed", "completed")

Budget == IF options < MaxBatches THEN options ELSE MaxBatches

\* A mutated form of Continues.
ContinuesPastBudget == AutonomousMode /\ loop.outerBatch < Budget

\* The steps of the batch were used up: another one, if the turn is autonomous
\* and its budget allows it.
Continues == AutonomousMode /\ loop.outerBatch + 1 < Budget

Exhausted ==
    /\ Has({"continuing"}) /\ ~Continues
    /\ Verdict("budget-exhausted", "completed")

Continue ==
    /\ Has({"continuing"}) /\ Continues
    /\ Again(runner.kept)
    /\ loop' = CountTurn([loop EXCEPT !.outerBatch = @ + 1])
    /\ UNCHANGED <<aborted, made, open, options, stream, runs, log>>

HandsOn == AutonomousMode /\ loop.handoffChain + 1 < MaxChain

\* streamState.runId follows the tracker.
StreamOf(s, r) == [s EXCEPT !.runId = r]

\* The run is completed; a child run takes over with a history of its own.
Handoff ==
    LET child == Len(runs) + 1
    IN /\ Has({"handoff"}) /\ HandsOn
       /\ runs' = Append([runs EXCEPT ![loop.tracker].status = "completed"],
                         [parent |-> loop.tracker, root |-> runs[loop.tracker].root,
                          status |-> "running"])
       /\ loop' = CountTurn([loop EXCEPT !.handoffChain = @ + 1, !.tracker = child])
       /\ stream' = StreamOf(stream, child)
       /\ Again(<<>>)
       /\ log' = <<>> /\ made' = 0
       /\ UNCHANGED <<aborted, open, options>>

HandoffEnds ==
    /\ Has({"handoff"}) /\ ~HandsOn
    /\ Verdict("handoff", "completed")

-----------------------------------------------------------------------------
(* The user, and the runner.                                                *)

\* steerStream
Steer ==
    /\ Running /\ ~stream.cancelled /\ stream.sent < MaxSteers
    /\ stream' = [stream EXCEPT !.steered = TRUE, !.sent = @ + 1,
                                !.queue = Append(@, stream.sent + 1)]
    /\ aborted' = TRUE
    /\ UNCHANGED <<runner, made, open, options, loop, runs, log>>

\* cancelRun of a run of this turn: the stream that runs it is aborted, the
\* row of another run is ended if it is not.
CancelRun(r) ==
    /\ Running /\ r \in DOMAIN runs /\ ~stream.cancelled
    /\ runs[r].status = "running"
    /\ IF stream.runId = r
       THEN /\ stream' = [stream EXCEPT !.cancelled = TRUE]
            /\ aborted' = TRUE
            /\ UNCHANGED runs
       ELSE /\ runs' = [runs EXCEPT ![r].status = "cancelled"]
            /\ UNCHANGED <<stream, aborted>>
    /\ UNCHANGED <<runner, made, open, options, loop, log>>

Batch ==
    /\ Running /\ RunnerNext
    /\ log' = IF made' > made THEN Append(log, StepFact(made')) ELSE log
    /\ UNCHANGED loopVars

LoopNext ==
    \/ Steered \/ Cancelled \/ Failed \/ AwaitingApproval \/ Completed
    \/ Exhausted \/ Continue \/ Handoff \/ HandoffEnds

Next ==
    \/ Batch \/ LoopNext \/ Steer
    \/ \E r \in DOMAIN runs : CancelRun(r)

Spec == Init /\ [][Next]_vars

\* The code's own part of a batch: an abort is delivered, promises of a stream
\* that ended are resolved, timers fire.  A model may stream, or hang, for ever.
FairSpec ==
    /\ Spec
    /\ WF_vars(Batch /\ (BatchAborted \/ StreamAborted \/ Resolve \/ Retry))
    /\ WF_vars(LoopNext)

-----------------------------------------------------------------------------
(* Properties.                                                              *)

IsFact(f) == f.kind # "note"

\* The facts of a history, in its order.
Facts(h) ==
    LET first[n \in 0..Len(h)] ==
            IF n = 0 THEN <<>>
            ELSE IF IsFact(h[n]) THEN Append(first[n - 1], h[n]) ELSE first[n - 1]
    IN first[Len(h)]

\* Every tool step that was finished and every steering message that was taken
\* is in the history the run goes on with, once and in order: across steps,
\* retries, batches and restarts.  (A handoff starts a history of its own.)
ObservationsExact == Facts(runner.kept) = log

\* The model is called on for no more batches than the budget, the handoffs and
\* the steering messages account for: no counter is forgotten on a path of the
\* loop, or reset by another.
BatchesBounded ==
    LET extra == (MaxChain - 1) + stream.sent
    IN loop.harnessTurns <= options + extra /\ loop.harnessTurns <= MaxBatches + extra

\* What a turn uses is bounded through every retry, handoff and restart: its
\* batches, their steps, and the model resources open at a time.
ResourcesBounded == BatchesBounded /\ StepsBounded /\ OneModelOpen

\* Of the runs of a turn only the one the stream names is running, which is how
\* a cancellation finds the stream; when the turn ends every run has a verdict.
OnlyLastRuns ==
    \A r \in DOMAIN runs :
        runs[r].status = "running" => Running /\ r = loop.tracker /\ r = stream.runId

\* Whoever stops or steers a turn need not wait for the model: in every phase of
\* a batch, the delay before a retry included, the abort ends the turn or is
\* taken up by its loop, which goes on with a new signal.
AbortTakesEffect == aborted ~> ~aborted \/ ~Running

\* Once the turn is cancelled no model is called any more, also when steering
\* replaced the abort controller or was waiting at the time.
NoModelAfterCancel == [][open' > open => ~stream.cancelled]_vars

\* The runs of a turn keep the promise of RunRecord: each gets one verdict, and
\* one that is handed on has its own in the step that creates the next.  The
\* first run exists when its driver starts.
StatusOf(r) == IF r \in DOMAIN runs THEN runs[r].status ELSE "none"
Record == INSTANCE RunRecord
    WITH status <- [r \in 1..MaxChain |-> StatusOf(r)], Run <- 1..MaxChain, Begun <- {1}
ImplementsRecord == Record!Spec
=============================================================================
