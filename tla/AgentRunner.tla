----------------------------- MODULE AgentRunner -----------------------------
(***************************************************************************)
(* One batch of a turn: SimpleAgentRunner.run (agent/runners/             *)
(* simple_agent_runner.ts) as the harness drives it.  A batch makes       *)
(* attempts; an attempt streams the steps of the model, each with text,   *)
(* thinking and tool calls; an attempt that fails may be retried.         *)
(*                                                                         *)
(* The messages of a history are facts: the prompt and what a step says   *)
(* is left out, what stays are the notes of retries, the tool steps, and  *)
(* the steering messages OuterLoop adds.  OuterLoop starts the batches    *)
(* and uses their results.                                                *)
(***************************************************************************)
EXTENDS Integers, Sequences

CONSTANTS
    MaxIterations,  \* model steps a batch may make (request.maxIterations)
    RetryMax        \* retryMaxAttempts

ASSUME RunnerAssumption == MaxIterations \in Nat \ {0} /\ RetryMax \in Nat

VARIABLES
    runner,    \* the locals of run and the fields of its SimpleAgentRunner
    aborted,   \* the abort signal the batch was started with
    made,      \* history: tool steps finished, numbered in their order
    open       \* history: models created and not yet disposed

Fact == [kind : {"note", "step", "steer"}, id : Nat]
StepFact(n) == [kind |-> "step", id |-> n]
Note == [kind |-> "note", id |-> 0]

\* What the last call of run has come to.  "aborted" and "failed" throw.
Result == {"none", "completed", "continuing", "handoff", "approval", "aborted", "failed"}

\* How a stream may end: by itself, with a call that stops it, refused, or at
\* the bound on its steps.
StreamEnd == {"stop", "tool-calls", "handoff", "approval", "refused"}

\* phase: the head of the retry loop, the stream, its promises after the last
\* look at the signal, the delay before a retry.
\* history is the local of that name, kept the field that getHistory returns;
\* shown is a history variable: the attempt sent something to the user.
Runner == [phase : {"idle", "top", "streaming", "ending", "backoff"},
           attempt : 0..RetryMax, totalSteps : Nat, steps : Nat,
           history : Seq(Fact), kept : Seq(Fact),
           emitted : BOOLEAN,       \* emittedOutput
           shown : BOOLEAN, called : SUBSET {"tool", "handoff", "approval"},
           end : StreamEnd, result : Result]

RunnerTypeOK ==
    /\ runner \in Runner
    /\ aborted \in BOOLEAN
    /\ made \in Nat
    /\ open \in Nat

\* run is called with a history.
NewBatch(history) ==
    [phase |-> "top", attempt |-> 0, totalSteps |-> 0, steps |-> 0,
     history |-> history, kept |-> history, emitted |-> FALSE, shown |-> FALSE,
     called |-> {}, end |-> "stop", result |-> "none"]

-----------------------------------------------------------------------------
(* Mutated forms of definitions below, each a plausible bug.               *)

NoAttemptLimit(r) == ~r.emitted
SignalNotWired == FALSE
LatestStepOnly(r, steps) == Append(r.history, StepFact(made'))

-----------------------------------------------------------------------------

Returned(r, result) == [r EXCEPT !.phase = "idle", !.result = result]

\* The finally of an attempt: disposeLanguageModel.
Disposed(n) == n - 1

\* stepCountIs(Math.max(1, maxIterations - totalSteps))
StepLimit(r) == IF r.totalSteps < MaxIterations THEN MaxIterations - r.totalSteps ELSE 1

\* What an error that may be retried needs besides.
MayRetry(r) == ~r.emitted /\ r.attempt < RetryMax

\* onStepFinish: this.history becomes the local history and the messages of all
\* steps of the attempt.
WithSteps(r, steps) == r.history \o [i \in 1..steps |-> StepFact(made' - steps + i)]

BatchAborted ==
    /\ runner.phase = "top" /\ aborted
    /\ runner' = Returned(runner, "aborted")
    /\ UNCHANGED <<aborted, made, open>>

\* createModel, outside of the try.
NoModel ==
    /\ runner.phase = "top" /\ ~aborted
    /\ runner' = Returned(runner, "failed")
    /\ UNCHANGED <<aborted, made, open>>

BeginAttempt ==
    /\ runner.phase = "top" /\ ~aborted
    /\ runner' = [runner EXCEPT !.phase = "streaming", !.steps = 0, !.emitted = FALSE,
                                !.shown = FALSE, !.called = {}]
    /\ open' = open + 1
    /\ UNCHANGED <<aborted, made>>

\* Parts of the stream that reach the user without setting emittedOutput: a
\* reasoning delta, and the tool_execution_start of a streamed tool input.
ShowsThinking ==
    /\ runner.phase = "streaming" /\ ~runner.shown
    /\ runner' = [runner EXCEPT !.shown = TRUE]
    /\ UNCHANGED <<aborted, made, open>>

ShowsText ==
    /\ runner.phase = "streaming" /\ ~runner.emitted
    /\ runner' = [runner EXCEPT !.shown = TRUE, !.emitted = TRUE]
    /\ UNCHANGED <<aborted, made, open>>

\* A tool-call part: the tool runs, stops the stream, or waits for approval.
CallsTool(call) ==
    /\ runner.phase = "streaming" /\ call \notin runner.called
    /\ runner' = [runner EXCEPT !.shown = TRUE, !.emitted = TRUE, !.called = @ \cup {call}]
    /\ UNCHANGED <<aborted, made, open>>

\* Why the stream stops after a step with these calls, if it does: a request
\* leaves the call without a result, stopWhen has its two conditions.
StopsWith(r, steps) ==
    IF "approval" \in r.called THEN {"approval"}
    ELSE IF "handoff" \in r.called THEN {"handoff"}
    ELSE IF steps >= StepLimit(r) THEN {"tool-calls"} ELSE {}

\* A step with tool calls is finished; the stream goes on with the next one
\* (prepareStep) or ends, if the signal lets it.
FinishStep ==
    LET steps == runner.steps + 1
        after == [runner EXCEPT !.steps = steps, !.called = {}, !.kept = WithSteps(runner, steps)]
    IN /\ made' = made + 1
       /\ runner.phase = "streaming" /\ runner.called # {}
       /\ IF StopsWith(runner, steps) = {}
          THEN runner' = after /\ UNCHANGED open
          ELSE IF aborted
               THEN runner' = Returned(after, "aborted") /\ open' = Disposed(open)
               ELSE /\ \E end \in StopsWith(runner, steps) :
                          runner' = [after EXCEPT !.phase = "ending", !.end = end]
                    /\ UNCHANGED open
       /\ UNCHANGED aborted

\* The model calls no tool in this step: it is its last.
LastStep(end) ==
    /\ runner.phase = "streaming" /\ runner.called = {} /\ ~aborted
    /\ end \in {"stop", "refused"}
    /\ runner' = [runner EXCEPT !.phase = "ending", !.end = end, !.steps = @ + 1]
    /\ UNCHANGED <<aborted, made, open>>

\* The catch.  A retry waits with its model still open, a return disposes it.
Thrown(r, retryable) ==
    IF ~aborted /\ retryable /\ MayRetry(r)
    THEN /\ runner' = [r EXCEPT !.phase = "backoff", !.attempt = @ + 1,
                                !.history = Append(@, Note)]
         /\ UNCHANGED open
    ELSE /\ runner' = Returned(r, IF aborted THEN "aborted" ELSE "failed")
         /\ open' = Disposed(open)

\* An error part, a rejected promise, a context that cannot be compacted.
StreamBreaks(retryable) ==
    /\ runner.phase \in {"streaming", "ending"}
    /\ Thrown(runner, retryable)
    /\ UNCHANGED <<aborted, made>>

\* The signal of the request and that of the runner's own cancel, as one.
Signalled == aborted

\* The stream of an aborted batch stops.
StreamAborted ==
    /\ runner.phase = "streaming" /\ Signalled
    /\ Thrown(runner, FALSE)
    /\ UNCHANGED <<aborted, made>>

\* The promises are resolved.  A refusal is thrown before the history and the
\* count of steps are taken over, an answer without text and calls after that.
Resolve ==
    LET r == [runner EXCEPT !.history = runner.kept, !.totalSteps = @ + runner.steps]
    IN /\ runner.phase = "ending"
       /\ IF runner.end = "refused" THEN Thrown(runner, TRUE)
          ELSE IF runner.end = "stop" /\ ~runner.emitted THEN Thrown(r, TRUE)
          ELSE /\ runner' = Returned(r, CASE runner.end = "stop" -> "completed"
                                          [] runner.end = "tool-calls" -> "continuing"
                                          [] OTHER -> runner.end)
               /\ open' = Disposed(open)
       /\ UNCHANGED <<aborted, made>>

\* The delay is over, abort or not; the finally runs before the next attempt.
Retry ==
    /\ runner.phase = "backoff"
    /\ runner' = [runner EXCEPT !.phase = "top"]
    /\ open' = Disposed(open)
    /\ UNCHANGED <<aborted, made>>

RunnerNext ==
    \/ BatchAborted \/ NoModel \/ BeginAttempt
    \/ ShowsThinking \/ ShowsText \/ FinishStep \/ StreamAborted \/ Resolve \/ Retry
    \/ \E call \in {"tool", "handoff", "approval"} : CallsTool(call)
    \/ \E end \in StreamEnd : LastStep(end)
    \/ \E retryable \in BOOLEAN : StreamBreaks(retryable)

-----------------------------------------------------------------------------
(* Properties of a batch.                                                   *)

\* The steps of a batch stay within the iterations it was given, except that
\* every attempt may make one: retries after empty answers use up the bound
\* together, and do not start it anew.
StepsBounded ==
    LET total == runner.totalSteps + (IF runner.phase \in {"streaming", "ending"}
                                      THEN runner.steps ELSE 0)
    IN total <= MaxIterations \/ total <= runner.attempt + 1

\* Each model is disposed once: there is one while an attempt runs or waits to
\* be retried, and none when the batch has come to a result.
OneModelOpen ==
    open = IF runner.phase \in {"streaming", "ending", "backoff"} THEN 1 ELSE 0

\* An attempt is restarted only if the user has seen nothing of it, which is
\* what the backend's README says of visible text and tool calls.
RestartShowsNothing ==
    [][runner'.attempt > runner.attempt => ~runner.shown]_<<runner, aborted, made, open>>
=============================================================================
