--------------------------- MODULE OuterLoopProofs ---------------------------
(***************************************************************************)
(* What a turn uses is bounded for every budget, every number of retries   *)
(* and of steering messages, what stops it stops it for good, and nothing  *)
(* it has observed is lost or repeated.                                    *)
(*                                                                         *)
(* A batch is counted by BatchInv, the loop around it by Counted.  The     *)
(* proofs hold them together: a batch changes nothing of the loop, and the *)
(* loop starts a batch only where the last one has come to a result.  On   *)
(* them rests ExactInv, the history of an attempt and of what it kept.     *)
(***************************************************************************)
EXTENDS OuterLoop, SequenceTheorems, WellFoundedInduction, TLAPS

\* An attempt that may be restarted has made one step at most, the last: a step
\* before it would have called a tool.
Restartable ==
    ~runner.emitted =>
        /\ runner.phase = "streaming" => runner.called = {} /\ runner.steps = 0
        /\ runner.phase = "ending" => runner.steps <= 1

\* So every attempt but the one under way has added one step to those of the
\* batch; the one under way is within its own limit.
StepsCounted ==
    /\ runner.phase # "idle" => runner.totalSteps <= runner.attempt
    /\ runner.phase = "idle" =>
          runner.totalSteps <= MaxIterations \/ runner.totalSteps <= runner.attempt + 1
    /\ runner.phase = "streaming" =>
          runner.steps < StepLimit(runner) /\ runner.steps <= made
    /\ runner.phase = "ending" => runner.steps <= StepLimit(runner)

BatchInv == RunnerTypeOK /\ OneModelOpen /\ Restartable /\ StepsCounted

\* Each call of the harness is accounted for by a batch of the budget, a handoff
\* or a steering message, and none of them counts twice.
Counted ==
    /\ loop.outerBatch + 1 <= Budget
    /\ loop.handoffChain + 1 <= MaxChain
    /\ loop.harnessTurns + (IF stream.steered THEN 1 ELSE 0)
          <= 1 + loop.outerBatch + loop.handoffChain + stream.sent

\* The signal of a cancelled turn is never replaced by a new one.
CancelAborts == Running /\ stream.cancelled => aborted

IInv == TypeOK /\ BatchInv /\ Counted /\ OnlyLastRuns /\ CancelAborts

-----------------------------------------------------------------------------
(* The facts of a history, by induction over its messages.  The induction   *)
(* theorems of the library take a predicate, which no prover here can       *)
(* instantiate; over a set of numbers it follows from well-foundedness.     *)

Less == {ss \in Nat \X Nat : ss[1] < ss[2]}

\* A set of numbers that holds 0 and with each number the next holds them all.
LEMMA SetInduction ==
  ASSUME NEW T \in SUBSET Nat, 0 \in T, \A n \in T : n + 1 \in T
  PROVE  T = Nat
<1> SUFFICES ASSUME Nat \ T # {} PROVE FALSE
  OBVIOUS
<1>1. IsWellFoundedOn(Less, Nat)
  BY NatLessThanWellFounded DEF OpToRel, Less
<1>2. PICK x \in Nat \ T : \A y \in Nat \ T : <<y, x>> \notin Less
  BY <1>1, WFMin
<1>3. x # 0 /\ x - 1 \in Nat
  OBVIOUS
<1>4. <<x - 1, x>> \in Less
  BY <1>3 DEF Less
<1>5. x - 1 \in T
  BY <1>2, <1>3, <1>4
<1> QED
  BY <1>3, <1>5

\* One step of the selection, and the function that Facts is defined with.
Selects(h, f, n) ==
    IF n = 0 THEN <<>> ELSE IF IsFact(h[n]) THEN Append(f[n - 1], h[n]) ELSE f[n - 1]
FactsOf(h) == CHOOSE f : f = [n \in 0..Len(h) |-> Selects(h, f, n)]

LEMMA FactsIs ==
    ASSUME NEW h
    PROVE  Facts(h) = FactsOf(h)[Len(h)]
BY DEF Facts, FactsOf, Selects

LEMMA FactsDefined ==
    ASSUME NEW h, Len(h) \in Nat
    PROVE  FactsOf(h) = [n \in 0..Len(h) |-> Selects(h, FactsOf(h), n)]
<1> DEFINE T == {m \in Nat : \E f : f = [n \in 0..m |-> Selects(h, f, n)]}
<1>1. 0 \in T
  <2> DEFINE f == [n \in 0..0 |-> <<>>]
  <2>1. f = [n \in 0..0 |-> Selects(h, f, n)]
    BY DEF Selects
  <2> QED
    BY <2>1
<1>2. ASSUME NEW m \in T PROVE m + 1 \in T
  <2>1. PICK f : f = [n \in 0..m |-> Selects(h, f, n)]
    OBVIOUS
  <2> DEFINE g == [n \in 0..(m + 1) |-> IF n = m + 1 THEN Selects(h, f, m + 1) ELSE f[n]]
  <2>2. ASSUME NEW n \in 0..(m + 1) PROVE g[n] = Selects(h, g, n)
    <3>1. CASE n = m + 1
      <4>1. g[n] = Selects(h, f, m + 1) /\ n - 1 \in 0..(m + 1) /\ g[n - 1] = f[n - 1]
        BY <3>1
      <4> QED
        BY <3>1, <4>1 DEF Selects
    <3>2. CASE n \in 0..m
      <4>1. g[n] = f[n] /\ f[n] = Selects(h, f, n)
        BY <2>1, <3>2
      <4>2. n # 0 => n - 1 \in 0..m /\ g[n - 1] = f[n - 1]
        BY <3>2
      <4> QED
        BY <4>1, <4>2 DEF Selects
    <3> QED
      BY <3>1, <3>2
  <2>3. g = [n \in 0..(m + 1) |-> Selects(h, g, n)]
    BY <2>2
  <2> QED
    BY <2>3
<1>3. T = Nat
  BY <1>1, <1>2, SetInduction
<1>4. \E f : f = [n \in 0..Len(h) |-> Selects(h, f, n)]
  BY <1>3
<1> QED
  BY <1>4 DEF FactsOf

\* What is selected from the first messages does not depend on those behind them.
LEMMA FactsOfFirst ==
    ASSUME NEW h, NEW k, Len(h) \in Nat, Len(k) \in Nat, Len(h) <= Len(k),
           \A i \in 1..Len(h) : h[i] = k[i]
    PROVE  FactsOf(k)[Len(h)] = Facts(h)
<1> DEFINE T == {n \in Nat : n <= Len(h) => FactsOf(h)[n] = FactsOf(k)[n]}
<1>1. \A n \in 0..Len(h) : /\ FactsOf(h)[n] = Selects(h, FactsOf(h), n)
                           /\ FactsOf(k)[n] = Selects(k, FactsOf(k), n)
  BY FactsDefined
<1>2. 0 \in T
  BY <1>1 DEF Selects
<1>3. ASSUME NEW n \in T PROVE n + 1 \in T
  <2> SUFFICES ASSUME n + 1 <= Len(h) PROVE FactsOf(h)[n + 1] = FactsOf(k)[n + 1]
    OBVIOUS
  <2>1. h[n + 1] = k[n + 1] /\ FactsOf(h)[n] = FactsOf(k)[n] /\ n + 1 \in 0..Len(h)
    OBVIOUS
  <2>2. n + 1 # 0 /\ (n + 1) - 1 = n
    OBVIOUS
  <2> QED
    BY <1>1, <2>1, <2>2 DEF Selects
<1>4. T = Nat
  BY <1>2, <1>3, SetInduction
<1> QED
  BY <1>4, FactsIs

LEMMA ConcatAppend ==
    ASSUME NEW S, NEW s \in Seq(S), NEW t \in Seq(S), NEW e \in S
    PROVE  s \o Append(t, e) = Append(s \o t, e)
<1>1. <<e>> \in Seq(S)
  OBVIOUS
<1>2. Append(t, e) = t \o <<e>> /\ s \o t \in Seq(S)
  BY AppendIsConcat, ConcatProperties
<1>3. Append(s \o t, e) = (s \o t) \o <<e>>
  BY <1>2, AppendIsConcat
<1> QED
  BY <1>1, <1>2, <1>3, ConcatAssociative

LEMMA FactsEmpty == Facts(<<>>) = <<>>
<1>1. Len(<<>>) = 0
  OBVIOUS
<1>2. FactsOf(<<>>) = [n \in 0..0 |-> Selects(<<>>, FactsOf(<<>>), n)]
  BY <1>1, FactsDefined
<1>3. FactsOf(<<>>)[0] = Selects(<<>>, FactsOf(<<>>), 0)
  BY <1>2
<1> QED
  BY <1>1, <1>3, FactsIs DEF Selects

LEMMA FactsAppend ==
    ASSUME NEW h \in Seq(Fact), NEW e \in Fact
    PROVE  Facts(Append(h, e)) = IF IsFact(e) THEN Append(Facts(h), e) ELSE Facts(h)
<1>1. PICK k : k = Append(h, e)
  OBVIOUS
<1>2. /\ k \in Seq(Fact) /\ Len(k) = Len(h) + 1 /\ k[Len(h) + 1] = e
      /\ \A i \in 1..Len(h) : h[i] = k[i]
      /\ Len(h) \in Nat /\ Len(k) \in Nat /\ Len(h) <= Len(k)
  BY <1>1, AppendProperties, LenProperties
<1>3. FactsOf(k)[Len(h)] = Facts(h)
  BY <1>2, FactsOfFirst
<1>4. FactsOf(k)[Len(k)] = Selects(k, FactsOf(k), Len(k))
  BY <1>2, FactsDefined
<1>5. Len(k) # 0 /\ Len(k) - 1 = Len(h)
  BY <1>2
<1>6. Facts(k) = FactsOf(k)[Len(k)]
  BY FactsIs
<1> QED
  BY <1>1, <1>2, <1>3, <1>4, <1>5, <1>6 DEF Selects

\* Where all messages behind a history are facts, all of them are selected.
LEMMA FactsConcat ==
    ASSUME NEW h \in Seq(Fact), NEW t \in Seq(Fact), \A i \in 1..Len(t) : IsFact(t[i]),
           Facts(h) \in Seq(Fact)
    PROVE  Facts(h \o t) = Facts(h) \o t
<1> DEFINE first(n) == [i \in 1..n |-> t[i]]
           T == {n \in Nat : n <= Len(t) => Facts(h \o first(n)) = Facts(h) \o first(n)}
<1>1. ASSUME NEW n \in Nat, n <= Len(t) PROVE first(n) \in Seq(Fact) /\ Len(first(n)) = n
  <2>1. \A i \in 1..n : t[i] \in Fact
    BY <1>1, ElementOfSeq, LenProperties
  <2> QED
    BY <2>1, IsASeq
<1>2. 0 \in T
  <2>1. first(0) = <<>>
    <3>1. first(0) \in Seq(Fact) /\ Len(first(0)) = 0
      BY <1>1, LenProperties
    <3> QED
      BY <3>1, EmptySeq
  <2>2. h \o <<>> = h /\ Facts(h) \o <<>> = Facts(h)
    BY ConcatEmptySeq
  <2> QED
    BY <2>1, <2>2
<1>3. ASSUME NEW n \in T PROVE n + 1 \in T
  <2> SUFFICES ASSUME n + 1 <= Len(t)
               PROVE  Facts(h \o first(n + 1)) = Facts(h) \o first(n + 1)
    <3> HIDE DEF first
    <3> QED
      OBVIOUS
  <2>1. /\ n \in Nat /\ n <= Len(t) /\ n + 1 \in 1..Len(t)
        /\ Facts(h \o first(n)) = Facts(h) \o first(n)
    BY LenProperties
  <2>2. PICK e \in Fact : e = t[n + 1] /\ IsFact(e)
    BY <2>1, ElementOfSeq
  <2>3. PICK s \in Seq(Fact) : s = first(n) /\ Len(s) = n
    BY <1>1, <2>1
  <2>4. first(n + 1) = Append(s, e)
    <3>1. first(n + 1) \in Seq(Fact) /\ Len(first(n + 1)) = n + 1
      BY <1>1, <2>1
    <3>2. Append(s, e) = [i \in 1..(n + 1) |-> IF i = n + 1 THEN e ELSE s[i]]
      BY <2>1, <2>2, <2>3
    <3>3. \A i \in 1..(n + 1) : t[i] = IF i = n + 1 THEN e ELSE s[i]
      BY <2>1, <2>2, <2>3
    <3> QED
      BY <3>2, <3>3
  <2>5. /\ h \o Append(s, e) = Append(h \o s, e)
        /\ Facts(h) \o Append(s, e) = Append(Facts(h) \o s, e)
    <3>1. PICK f \in Seq(Fact) : f = Facts(h)
      OBVIOUS
    <3>2. h \o Append(s, e) = Append(h \o s, e)
      BY ConcatAppend
    <3>3. f \o Append(s, e) = Append(f \o s, e)
      BY ConcatAppend
    <3> QED
      BY <3>1, <3>2, <3>3
  <2>6. h \o s \in Seq(Fact)
    BY <2>3, ConcatProperties
  <2>7. Facts(Append(h \o s, e)) = Append(Facts(h \o s), e)
    BY <2>2, <2>6, FactsAppend
  <2> QED
    BY <2>1, <2>3, <2>4, <2>5, <2>7
<1>4. T = Nat
  <2> HIDE DEF first
  <2> QED
    BY <1>2, <1>3, SetInduction
<1>5. first(Len(t)) = t /\ Len(t) \in Nat
  BY LenProperties
<1> HIDE DEF first
<1>6. Len(t) \in T
  BY <1>4, <1>5
<1> QED
  BY <1>5, <1>6

-----------------------------------------------------------------------------
(* The batch.                                                               *)

USE LoopAssumption, RunnerAssumption

LEMMA LimitPositive ==
    ASSUME NEW r \in Runner
    PROVE  /\ StepLimit(r) \in Nat \ {0}
           /\ r.totalSteps + StepLimit(r) <= MaxIterations \/ StepLimit(r) = 1
BY DEF StepLimit, Runner

LEMMA NewBatchType ==
    ASSUME NEW history \in Seq(Fact)
    PROVE  NewBatch(history) \in Runner
BY DEF NewBatch, Runner, StreamEnd, Result

\* A batch starts counted.
LEMMA NewBatchInv ==
    ASSUME NEW history \in Seq(Fact), runner' = NewBatch(history),
           made' \in Nat, aborted' \in BOOLEAN, open' = 0
    PROVE  BatchInv'
<1>1. runner' \in Runner
  BY NewBatchType
<1> QED
  BY <1>1 DEF NewBatch, BatchInv, RunnerTypeOK, OneModelOpen, Restartable, StepsCounted

\* The history that onStepFinish leaves is one.
LEMMA WithStepsType ==
    ASSUME NEW r \in Runner, NEW steps \in Nat, made' \in Nat, steps <= made'
    PROVE  WithSteps(r, steps) \in Seq(Fact)
<1>1. ASSUME NEW i \in 1..steps PROVE StepFact(made' - steps + i) \in Fact
  <2>1. \A m, n \in Nat : n <= m => \A k \in 1..n : m - n + k \in Nat
    OBVIOUS
  <2>2. made' - steps + i \in Nat
    BY <2>1
  <2> QED
    BY <2>2 DEF StepFact, Fact
<1>2. [i \in 1..steps |-> StepFact(made' - steps + i)] \in Seq(Fact)
  BY <1>1, IsASeq
<1>3. r.history \in Seq(Fact)
  BY DEF Runner
<1> QED
  BY <1>2, <1>3, ConcatProperties DEF WithSteps

LEMMA StopsWithType ==
    ASSUME NEW r, NEW steps
    PROVE  /\ StopsWith(r, steps) \subseteq {"tool-calls", "handoff", "approval"}
           /\ StopsWith(r, steps) = {} => ~(steps >= StepLimit(r))
BY DEF StopsWith

\* Leaving the batch, from wherever: the model is disposed, the steps are those
\* the batch was told of.
LEMMA ReturnedInv ==
    ASSUME NEW r \in Runner, NEW result \in Result,
           runner' = Returned(r, result), made' \in Nat, aborted' \in BOOLEAN, open' = 0,
           r.totalSteps <= MaxIterations \/ r.totalSteps <= r.attempt + 1
    PROVE  BatchInv'
<1>1. /\ runner' \in Runner
      /\ runner'.phase = "idle"
      /\ runner'.totalSteps = r.totalSteps /\ runner'.attempt = r.attempt
  BY DEF Returned, Runner
<1> QED
  BY <1>1 DEF BatchInv, RunnerTypeOK, OneModelOpen, Restartable, StepsCounted

LEMMA ThrownInv ==
    ASSUME NEW r \in Runner, NEW retryable \in BOOLEAN, Thrown(r, retryable),
           made' \in Nat, aborted \in BOOLEAN, aborted' = aborted, open = 1,
           r.totalSteps <= MaxIterations \/ r.totalSteps <= r.attempt + 1,
           ~r.emitted => r.totalSteps <= r.attempt + 1
    PROVE  BatchInv'
<1>1. CASE ~aborted /\ retryable /\ MayRetry(r)
  <2>1. /\ runner' = [r EXCEPT !.phase = "backoff", !.attempt = @ + 1,
                               !.history = Append(@, Note)]
        /\ open' = 1 /\ ~r.emitted /\ r.attempt < RetryMax
    BY <1>1 DEF Thrown, MayRetry
  <2>2. Note \in Fact /\ r.history \in Seq(Fact)
    BY DEF Note, Fact, Runner
  <2>3. Append(r.history, Note) \in Seq(Fact)
    BY <2>2, AppendProperties
  <2>4. r.attempt + 1 \in 0..RetryMax
    BY <2>1 DEF Runner
  <2>5. /\ runner' = [[[r EXCEPT !.phase = "backoff"] EXCEPT !.attempt = r.attempt + 1]
                         EXCEPT !.history = Append(r.history, Note)]
    BY <2>1 DEF Runner
  <2>6. /\ runner' \in Runner
        /\ runner'.phase = "backoff" /\ runner'.attempt = r.attempt + 1
        /\ runner'.totalSteps = r.totalSteps
    BY <2>3, <2>4, <2>5 DEF Runner
  <2> QED
    BY <2>1, <2>6 DEF BatchInv, RunnerTypeOK, OneModelOpen, Restartable, StepsCounted
<1>2. CASE ~(~aborted /\ retryable /\ MayRetry(r))
  <2>1. \E result \in Result : runner' = Returned(r, result) /\ open' = 0
    BY <1>2 DEF Thrown, Disposed, Result
  <2> QED
    BY <2>1, ReturnedInv
<1> QED
  BY <1>1, <1>2

\* A part of the stream that is shown changes nothing that is counted.
LEMMA ShowsInv ==
    ASSUME BatchInv, ShowsThinking \/ ShowsText \/ \E call \in {"tool", "handoff", "approval"} :
                                                       CallsTool(call)
    PROVE  BatchInv'
<1>1. /\ runner.phase = "streaming" /\ runner \in Runner
      /\ UNCHANGED <<aborted, made, open>>
  BY DEF BatchInv, RunnerTypeOK, ShowsThinking, ShowsText, CallsTool
<1>2. PICK emitted \in BOOLEAN, called \in SUBSET {"tool", "handoff", "approval"} :
          /\ runner' = [[[runner EXCEPT !.shown = TRUE] EXCEPT !.emitted = emitted]
                          EXCEPT !.called = called]
          /\ ~emitted => ~runner.emitted /\ called = runner.called
  <2>1. CASE ShowsThinking
    <3>1. runner' = [[[runner EXCEPT !.shown = TRUE] EXCEPT !.emitted = runner.emitted]
                          EXCEPT !.called = runner.called]
      BY <1>1, <2>1 DEF ShowsThinking, Runner
    <3>2. runner.emitted \in BOOLEAN /\ runner.called \in SUBSET {"tool", "handoff", "approval"}
      BY <1>1 DEF Runner
    <3> QED
      BY <3>1, <3>2
  <2>2. CASE ShowsText
    <3>1. runner' = [[[runner EXCEPT !.shown = TRUE] EXCEPT !.emitted = TRUE]
                          EXCEPT !.called = runner.called]
      BY <1>1, <2>2 DEF ShowsText, Runner
    <3>2. runner.called \in SUBSET {"tool", "handoff", "approval"}
      BY <1>1 DEF Runner
    <3> QED
      BY <3>1, <3>2
  <2>3. ASSUME NEW call \in {"tool", "handoff", "approval"}, CallsTool(call)
        PROVE  /\ runner' = [[[runner EXCEPT !.shown = TRUE] EXCEPT !.emitted = TRUE]
                               EXCEPT !.called = runner.called \cup {call}]
               /\ runner.called \cup {call} \in SUBSET {"tool", "handoff", "approval"}
    BY <1>1, <2>3 DEF CallsTool, Runner
  <2> QED
    BY <2>1, <2>2, <2>3
<1>3. /\ runner' \in Runner
      /\ runner'.phase = "streaming" /\ runner'.steps = runner.steps
      /\ runner'.totalSteps = runner.totalSteps /\ runner'.attempt = runner.attempt
      /\ runner'.emitted = emitted /\ runner'.called = called
  BY <1>1, <1>2 DEF Runner
<1>4. BatchInv /\ StepLimit(runner') = StepLimit(runner)
  BY <1>3 DEF StepLimit
<1> QED
  BY <1>1, <1>2, <1>3, <1>4
  DEF BatchInv, RunnerTypeOK, OneModelOpen, Restartable, StepsCounted, StepLimit

LEMMA BeginAttemptInv ==
    ASSUME BatchInv, BeginAttempt
    PROVE  BatchInv'
<1>1. /\ runner \in Runner /\ runner.phase = "top" /\ open = 0
      /\ UNCHANGED <<aborted, made>> /\ open' = 1
  BY DEF BatchInv, RunnerTypeOK, OneModelOpen, BeginAttempt
<1>2. /\ runner' \in Runner
      /\ runner'.phase = "streaming" /\ runner'.steps = 0 /\ runner'.called = {}
      /\ runner'.totalSteps = runner.totalSteps /\ runner'.attempt = runner.attempt
  BY <1>1 DEF BeginAttempt, Runner
<1>3. StepLimit(runner') \in Nat \ {0}
  BY <1>2, LimitPositive
<1> QED
  BY <1>1, <1>2, <1>3
  DEF BatchInv, RunnerTypeOK, OneModelOpen, Restartable, StepsCounted, BeginAttempt

LEMMA FinishStepInv ==
    ASSUME BatchInv, FinishStep
    PROVE  BatchInv'
<1>1. /\ runner \in Runner /\ runner.phase = "streaming" /\ open = 1 /\ runner.called # {}
      /\ runner.emitted /\ made' = made + 1 /\ aborted' = aborted
      /\ made \in Nat /\ aborted \in BOOLEAN
  BY DEF BatchInv, RunnerTypeOK, OneModelOpen, Restartable, FinishStep
<1>2. /\ runner.steps \in Nat /\ runner.steps <= made /\ runner.totalSteps <= runner.attempt
      /\ runner.steps < StepLimit(runner) /\ runner.totalSteps \in Nat /\ runner.attempt \in Nat
  BY <1>1 DEF BatchInv, StepsCounted, Runner
<1>3. PICK steps \in Nat : steps = runner.steps + 1 /\ steps <= made'
  BY <1>1, <1>2
<1>4. PICK kept \in Seq(Fact) : kept = WithSteps(runner, steps)
  BY <1>1, <1>3, WithStepsType
<1>5. PICK after \in Runner :
          /\ after = [runner EXCEPT !.steps = steps, !.called = {}, !.kept = kept]
          /\ after.phase = "streaming" /\ after.steps = steps /\ after.called = {}
          /\ after.totalSteps = runner.totalSteps /\ after.attempt = runner.attempt
          /\ after.emitted
  <2> DEFINE after == [runner EXCEPT !.steps = steps, !.called = {}, !.kept = kept]
  <2>1. {} \in SUBSET {"tool", "handoff", "approval"} /\ kept \in Seq(Fact) /\ steps \in Nat
    BY <1>3, <1>4
  <2>2. after = [[[runner EXCEPT !.steps = steps] EXCEPT !.called = {}] EXCEPT !.kept = kept]
    BY <1>1 DEF Runner
  <2>3. after \in Runner
    BY <1>1, <2>1, <2>2 DEF Runner
  <2>4. /\ after.phase = "streaming" /\ after.steps = steps /\ after.called = {}
        /\ after.totalSteps = runner.totalSteps /\ after.attempt = runner.attempt
        /\ after.emitted
    BY <1>1 DEF Runner
  <2> QED
    BY <2>3, <2>4
<1>6. IF StopsWith(runner, steps) = {}
      THEN runner' = after /\ UNCHANGED open
      ELSE IF aborted
           THEN runner' = Returned(after, "aborted") /\ open' = Disposed(open)
           ELSE /\ \E end \in StopsWith(runner, steps) :
                      runner' = [after EXCEPT !.phase = "ending", !.end = end]
                /\ UNCHANGED open
  BY <1>3, <1>4, <1>5 DEF FinishStep
<1>7. StepLimit(after) = StepLimit(runner) /\ StepLimit(runner) \in Nat
  BY <1>1, <1>5, LimitPositive DEF StepLimit
<1>8. CASE StopsWith(runner, steps) = {}
  <2>1. ~(steps >= StepLimit(runner)) /\ runner' = after /\ open' = 1
    BY <1>1, <1>6, <1>8, StopsWithType
  <2> QED
    BY <1>1, <1>2, <1>3, <1>5, <1>7, <2>1, SMTT(30)
    DEF BatchInv, RunnerTypeOK, OneModelOpen, Restartable, StepsCounted, StepLimit
<1>9. CASE StopsWith(runner, steps) # {} /\ aborted
  <2>1. runner' = Returned(after, "aborted") /\ open' = 0
    BY <1>1, <1>6, <1>9 DEF Disposed
  <2>2. "aborted" \in Result /\ after.totalSteps <= after.attempt + 1 /\ made' \in Nat
    BY <1>1, <1>2, <1>5 DEF Result
  <2> QED
    BY <1>1, <2>1, <2>2, ReturnedInv
<1>10. CASE StopsWith(runner, steps) # {} /\ ~aborted
  <2>1. PICK end \in StopsWith(runner, steps) :
            runner' = [after EXCEPT !.phase = "ending", !.end = end]
    BY <1>6, <1>10
  <2>2. end \in StreamEnd /\ open' = 1
    BY <1>1, <1>6, <1>10, <2>1, StopsWithType DEF StreamEnd
  <2>3. /\ runner' \in Runner
        /\ runner'.phase = "ending" /\ runner'.steps = steps /\ runner'.emitted
        /\ runner'.totalSteps = runner.totalSteps /\ runner'.attempt = runner.attempt
    BY <1>5, <2>1, <2>2 DEF Runner
  <2>4. StepLimit(runner') = StepLimit(runner) /\ steps <= StepLimit(runner)
    BY <1>2, <1>3, <1>7, <2>3 DEF StepLimit
  <2> QED
    BY <1>1, <1>2, <2>2, <2>3, <2>4
    DEF BatchInv, RunnerTypeOK, OneModelOpen, Restartable, StepsCounted
<1> QED
  BY <1>8, <1>9, <1>10

LEMMA LastStepInv ==
    ASSUME BatchInv, NEW end \in StreamEnd, LastStep(end)
    PROVE  BatchInv'
<1>1. /\ runner \in Runner /\ runner.phase = "streaming"
      /\ UNCHANGED <<aborted, made, open>>
      /\ runner' = [runner EXCEPT !.phase = "ending", !.end = end, !.steps = runner.steps + 1]
  BY DEF BatchInv, RunnerTypeOK, LastStep, Runner
<1>2. runner.steps \in Nat /\ runner.steps + 1 \in Nat
  BY <1>1 DEF Runner
<1>3. /\ runner' \in Runner
      /\ runner'.phase = "ending" /\ runner'.steps = runner.steps + 1
      /\ runner'.emitted = runner.emitted
      /\ runner'.totalSteps = runner.totalSteps /\ runner'.attempt = runner.attempt
  BY <1>1, <1>2 DEF Runner
<1>4. StepLimit(runner') = StepLimit(runner) /\ StepLimit(runner) \in Nat
  BY <1>1, <1>3, LimitPositive DEF StepLimit
<1> QED
  BY <1>1, <1>2, <1>3, <1>4
  DEF BatchInv, RunnerTypeOK, OneModelOpen, Restartable, StepsCounted

LEMMA BreaksInv ==
    ASSUME BatchInv, StreamAborted \/ \E retryable \in BOOLEAN : StreamBreaks(retryable)
    PROVE  BatchInv'
<1>1. PICK retryable \in BOOLEAN :
          runner.phase \in {"streaming", "ending"} /\ Thrown(runner, retryable)
  BY DEF StreamAborted, StreamBreaks
<1>2. /\ runner \in Runner /\ open = 1 /\ made' \in Nat
      /\ aborted \in BOOLEAN /\ aborted' = aborted
      /\ runner.totalSteps <= runner.attempt
  BY <1>1 DEF BatchInv, RunnerTypeOK, OneModelOpen, StepsCounted, StreamAborted, StreamBreaks
<1>3. runner.totalSteps \in Nat /\ runner.attempt \in Nat
  BY <1>2 DEF Runner
<1>4. runner.totalSteps <= runner.attempt + 1
  BY <1>2, <1>3
<1> QED
  BY <1>1, <1>2, <1>4, ThrownInv

LEMMA ResolveInv ==
    ASSUME BatchInv, Resolve
    PROVE  BatchInv'
<1>1. /\ runner \in Runner /\ runner.phase = "ending" /\ open = 1
      /\ made' \in Nat /\ aborted \in BOOLEAN /\ aborted' = aborted
      /\ runner.end \in StreamEnd /\ runner.kept \in Seq(Fact)
  BY DEF BatchInv, RunnerTypeOK, OneModelOpen, Resolve, Runner
<1>2. /\ runner.steps \in Nat /\ runner.totalSteps \in Nat /\ runner.attempt \in Nat
      /\ runner.totalSteps <= runner.attempt /\ runner.steps <= StepLimit(runner)
      /\ ~runner.emitted => runner.steps <= 1
      /\ runner.totalSteps + StepLimit(runner) <= MaxIterations \/ StepLimit(runner) = 1
      /\ StepLimit(runner) \in Nat
  BY <1>1, LimitPositive DEF BatchInv, StepsCounted, Restartable, Runner
<1>3. PICK r \in Runner :
          /\ r = [runner EXCEPT !.history = runner.kept,
                                !.totalSteps = runner.totalSteps + runner.steps]
          /\ r.totalSteps = runner.totalSteps + runner.steps
          /\ r.attempt = runner.attempt /\ r.emitted = runner.emitted
  <2> DEFINE r == [runner EXCEPT !.history = runner.kept,
                                 !.totalSteps = runner.totalSteps + runner.steps]
  <2>1. runner.totalSteps + runner.steps \in Nat
    BY <1>2
  <2>2. r = [[runner EXCEPT !.history = runner.kept]
               EXCEPT !.totalSteps = runner.totalSteps + runner.steps]
    BY <1>1 DEF Runner
  <2>3. r \in Runner
    BY <1>1, <2>1, <2>2 DEF Runner
  <2>4. /\ r.totalSteps = runner.totalSteps + runner.steps
        /\ r.attempt = runner.attempt /\ r.emitted = runner.emitted
    BY <1>1 DEF Runner
  <2> QED
    BY <2>3, <2>4
<1>4. r.totalSteps <= MaxIterations \/ r.totalSteps <= r.attempt + 1
  BY <1>2, <1>3
<1>5. ~r.emitted => r.totalSteps <= r.attempt + 1
  BY <1>2, <1>3
<1>6. IF runner.end = "refused" THEN Thrown(runner, TRUE)
      ELSE IF runner.end = "stop" /\ ~runner.emitted THEN Thrown(r, TRUE)
      ELSE /\ runner' = Returned(r, CASE runner.end = "stop" -> "completed"
                                      [] runner.end = "tool-calls" -> "continuing"
                                      [] OTHER -> runner.end)
           /\ open' = Disposed(open)
  BY <1>1, <1>3 DEF Resolve
<1>7. CASE runner.end = "refused"
  <2>1. Thrown(runner, TRUE)
    BY <1>6, <1>7, Zenon
  <2>2. runner.totalSteps <= runner.attempt + 1
    BY <1>2
  <2> QED
    BY <1>1, <2>1, <2>2, ThrownInv
<1>8. CASE runner.end = "stop" /\ ~runner.emitted
  <2>1. Thrown(r, TRUE)
    BY <1>6, <1>8
  <2> QED
    BY <1>1, <1>4, <1>5, <2>1, ThrownInv
<1>9. CASE runner.end # "refused" /\ ~(runner.end = "stop" /\ ~runner.emitted)
  <2>1. /\ runner' = Returned(r, CASE runner.end = "stop" -> "completed"
                                     [] runner.end = "tool-calls" -> "continuing"
                                     [] OTHER -> runner.end)
        /\ open' = Disposed(open)
    BY <1>6, <1>9, Zenon
  <2>2. (CASE runner.end = "stop" -> "completed"
           [] runner.end = "tool-calls" -> "continuing"
           [] OTHER -> runner.end) \in Result
    BY <1>1, <1>9 DEF Result, StreamEnd
  <2>3. open' = 0
    BY <1>1, <2>1 DEF Disposed
  <2> QED
    BY <1>1, <1>4, <2>1, <2>2, <2>3, ReturnedInv
<1> QED
  BY <1>7, <1>8, <1>9

LEMMA BatchNext ==
    ASSUME BatchInv, RunnerNext
    PROVE  BatchInv'
<1>1. CASE BatchAborted \/ NoModel
  <2>1. /\ runner.phase = "top" /\ runner \in Runner /\ made' \in Nat /\ aborted' \in BOOLEAN
        /\ open' = 0 /\ runner.totalSteps <= runner.attempt
        /\ runner.totalSteps \in Nat /\ runner.attempt \in Nat
    BY <1>1 DEF BatchInv, RunnerTypeOK, OneModelOpen, StepsCounted, BatchAborted, NoModel, Runner
  <2>2. PICK result \in Result : runner' = Returned(runner, result)
    BY <1>1 DEF BatchAborted, NoModel, Result
  <2>3. runner.totalSteps <= runner.attempt + 1
    BY <2>1
  <2> QED
    BY <2>1, <2>2, <2>3, ReturnedInv
<1>2. CASE Retry
  <2>1. /\ runner \in Runner /\ runner.phase = "backoff" /\ UNCHANGED <<aborted, made>>
        /\ open' = 0 /\ runner' = [runner EXCEPT !.phase = "top"]
    BY <1>2 DEF BatchInv, RunnerTypeOK, OneModelOpen, Retry, Disposed
  <2>2. /\ runner' \in Runner /\ runner'.phase = "top"
        /\ runner'.totalSteps = runner.totalSteps /\ runner'.attempt = runner.attempt
    BY <2>1 DEF Runner
  <2> QED
    BY <2>1, <2>2 DEF BatchInv, RunnerTypeOK, OneModelOpen, Restartable, StepsCounted
<1>3. CASE \E end \in StreamEnd : LastStep(end)
  BY <1>3, LastStepInv
<1> QED
  BY <1>1, <1>2, <1>3, ShowsInv, BeginAttemptInv, FinishStepInv, BreaksInv, ResolveInv
  DEF RunnerNext

-----------------------------------------------------------------------------
(* The loop.                                                                *)

Loop == [outerBatch : 0..MaxBatches, handoffChain : 0..MaxChain, tracker : Nat,
         harnessTurns : Nat, outcome : Outcome]
Stream == [cancelled : BOOLEAN, steered : BOOLEAN, runId : Nat,
           queue : Seq(1..MaxSteers), sent : 0..MaxSteers]

LEMMA BudgetBounds ==
    ASSUME options \in 1..(MaxBatches + 1)
    PROVE  Budget \in Nat /\ 1 <= Budget /\ Budget <= options /\ Budget <= MaxBatches
BY DEF Budget

\* A batch that has come to a result uses nothing.
LEMMA ResultInv ==
    ASSUME BatchInv, runner.phase = "idle"
    PROVE  runner \in Runner /\ made \in Nat /\ aborted \in BOOLEAN /\ open = 0
BY DEF BatchInv, RunnerTypeOK, OneModelOpen

LEMMA InitInv == Init => IInv
<1> SUFFICES ASSUME Init PROVE IInv
  OBVIOUS
<1>1. RunnerTypeOK
  <2>1. <<>> \in Seq(Fact)
    OBVIOUS
  <2> QED
    BY <2>1, NewBatchType DEF Init, RunnerTypeOK
<1>2. BatchInv
  BY <1>1 DEF Init, BatchInv, OneModelOpen, Restartable, StepsCounted, NewBatch
<1>3. TypeOK
  <2>1. runs \in Seq(Run) /\ 1 \in DOMAIN runs /\ log \in Seq(Fact)
    BY DEF Init, Run
  <2>2. loop \in Loop /\ stream \in Stream /\ loop.tracker = 1
    BY DEF Init, Loop, Stream, Outcome
  <2> QED
    BY <1>1, <2>1, <2>2 DEF Init, TypeOK, Loop, Stream
<1>4. Counted
  BY BudgetBounds DEF Init, Counted
<1>5. OnlyLastRuns /\ CancelAborts
  BY DEF Init, OnlyLastRuns, CancelAborts, Running
<1> QED
  BY <1>2, <1>3, <1>4, <1>5 DEF IInv

LEMMA VerdictInv ==
    ASSUME IInv, runner.phase = "idle", NEW outcome \in Outcome \ {"none"},
           NEW status \in {"blocked", "completed", "failed", "cancelled"},
           Verdict(outcome, status)
    PROVE  IInv'
<1>1. /\ loop \in Loop /\ runs \in Seq(Run) /\ loop.tracker \in DOMAIN runs
      /\ runner \in Runner /\ BatchInv
      /\ UNCHANGED <<aborted, made, open, options, stream, log>>
  BY DEF IInv, TypeOK, BatchInv, RunnerTypeOK, Verdict, Loop
<1>2. runner' \in Runner /\ runner'.phase = "idle" /\ runner'.totalSteps = runner.totalSteps
      /\ runner'.attempt = runner.attempt
  BY <1>1 DEF Verdict, Runner, Result
<1>3. BatchInv'
  BY <1>1, <1>2
  DEF BatchInv, RunnerTypeOK, OneModelOpen, Restartable, StepsCounted
<1>4. /\ loop' \in Loop /\ loop'.outcome = outcome /\ loop'.tracker = loop.tracker
      /\ loop'.outerBatch = loop.outerBatch /\ loop'.handoffChain = loop.handoffChain
      /\ loop'.harnessTurns = loop.harnessTurns
  BY <1>1 DEF Verdict, Loop
<1>5. runs[loop.tracker] \in Run /\ [runs[loop.tracker] EXCEPT !.status = status] \in Run
  <2>1. runs[loop.tracker] \in Run
    BY <1>1
  <2> QED
    BY <2>1 DEF Run
<1>6. runs' = [runs EXCEPT ![loop.tracker] = [runs[loop.tracker] EXCEPT !.status = status]]
  BY <1>1 DEF Verdict
<1>7. /\ runs' \in Seq(Run) /\ DOMAIN runs' = DOMAIN runs
      /\ \A r \in DOMAIN runs : r # loop.tracker => runs'[r] = runs[r]
      /\ runs'[loop.tracker].status = status
  BY <1>1, <1>5, <1>6, ExceptSeq, SMTT(30) DEF Run
<1>8. TypeOK'
  BY <1>1, <1>3, <1>4, <1>7 DEF IInv, TypeOK, BatchInv, Loop
<1>9. Counted'
  BY <1>1, <1>4 DEF IInv, Counted, Budget
<1>10. OnlyLastRuns'
  BY <1>1, <1>7 DEF IInv, OnlyLastRuns
<1>11. CancelAborts'
  BY <1>4 DEF CancelAborts, Running
<1> QED
  BY <1>3, <1>8, <1>9, <1>10, <1>11 DEF IInv

LEMMA DrainedType ==
    ASSUME TypeOK
    PROVE  Drained \in Seq(Fact)
<1>1. stream.queue \in Seq(1..MaxSteers)
  BY DEF TypeOK
<1>2. ASSUME NEW i \in 1..Len(stream.queue)
      PROVE  [kind |-> "steer", id |-> stream.queue[i]] \in Fact
  <2>1. stream.queue[i] \in Nat
    BY <1>1, <1>2, ElementOfSeq
  <2> QED
    BY <2>1 DEF Fact
<1>3. Len(stream.queue) \in Nat
  BY <1>1
<1> QED
  BY <1>2, <1>3, IsASeq DEF Drained

\* harness.turn is called once more.
LEMMA CountTurnType ==
    ASSUME NEW l \in Loop
    PROVE  /\ CountTurn(l) \in Loop
           /\ CountTurn(l).harnessTurns = l.harnessTurns + 1
           /\ CountTurn(l).outerBatch = l.outerBatch
           /\ CountTurn(l).handoffChain = l.handoffChain
           /\ CountTurn(l).tracker = l.tracker /\ CountTurn(l).outcome = l.outcome
BY DEF CountTurn, Loop

LEMMA SteeredInv ==
    ASSUME IInv, Steered
    PROVE  IInv'
<1>1. /\ loop \in Loop /\ stream \in Stream /\ loop.harnessTurns \in Nat
      /\ log \in Seq(Fact) /\ Drained \in Seq(Fact)
      /\ UNCHANGED <<made, open, options, runs>>
      /\ runner.phase = "idle" /\ loop.outcome = "none" /\ stream.steered /\ ~stream.cancelled
      /\ aborted' = FALSE /\ runner' = NewBatch(runner.kept \o Drained)
      /\ log' = log \o Drained
  BY DrainedType
  DEF IInv, TypeOK, Loop, Stream, Steered, Interrupted, Has, Running, Resumes, Again
<1>2. runner \in Runner /\ made \in Nat /\ open = 0
  BY <1>1, ResultInv DEF IInv
<1>3. runner.kept \in Seq(Fact)
  BY <1>2 DEF Runner
<1>4. BatchInv'
  BY <1>1, <1>2, <1>3, ConcatProperties, NewBatchInv
<1>5. loop' = CountTurn(loop)
  BY DEF Steered
<1>6. stream' \in Stream /\ ~stream'.steered /\ ~stream'.cancelled /\ stream'.sent = stream.sent
      /\ stream'.runId = stream.runId
  <2>1. stream' = [[stream EXCEPT !.steered = FALSE] EXCEPT !.queue = <<>>]
    BY <1>1 DEF Steered, Stream
  <2>2. <<>> \in Seq(1..MaxSteers)
    OBVIOUS
  <2> QED
    BY <1>1, <2>1, <2>2 DEF Stream
<1>7. TypeOK'
  BY <1>1, <1>4, <1>5, <1>6, CountTurnType, ConcatProperties
  DEF IInv, TypeOK, BatchInv, Loop, Stream
<1>8. Counted'
  <2>1. loop'.harnessTurns = loop.harnessTurns + 1 /\ loop'.outerBatch = loop.outerBatch
        /\ loop'.handoffChain = loop.handoffChain
    BY <1>1, <1>5, CountTurnType
  <2>2. loop.harnessTurns + 1 <= 1 + loop.outerBatch + loop.handoffChain + stream.sent
    BY <1>1 DEF IInv, Counted
  <2>3. Budget' = Budget
    BY <1>1 DEF Budget
  <2>4. loop.outerBatch + 1 <= Budget /\ loop.handoffChain + 1 <= MaxChain
    BY DEF IInv, Counted
  <2>5. (IF stream'.steered THEN 1 ELSE 0) = 0
    BY <1>6
  <2> QED
    BY <1>1, <1>6, <2>1, <2>2, <2>3, <2>4, <2>5 DEF Counted, Loop
<1>9. OnlyLastRuns'
  BY <1>1, <1>5, <1>6, CountTurnType DEF IInv, OnlyLastRuns, Running
<1>10. CancelAborts'
  BY <1>6 DEF CancelAborts
<1> QED
  BY <1>4, <1>7, <1>8, <1>9, <1>10 DEF IInv

LEMMA ContinueInv ==
    ASSUME IInv, Continue
    PROVE  IInv'
<1>1. /\ loop \in Loop /\ options \in 1..(MaxBatches + 1)
      /\ UNCHANGED <<aborted, made, open, options, stream, runs, log>>
      /\ runner.phase = "idle" /\ loop.outcome = "none"
      /\ loop.outerBatch + 1 < Budget
      /\ runner' = NewBatch(runner.kept)
  BY DEF IInv, TypeOK, Loop, Continue, Continues, Has, Running, Again
<1>2. runner \in Runner /\ made \in Nat /\ open = 0 /\ aborted \in BOOLEAN
  BY <1>1, ResultInv DEF IInv
<1>3. BatchInv'
  <2>1. runner.kept \in Seq(Fact)
    BY <1>2 DEF Runner
  <2> QED
    BY <1>1, <1>2, <2>1, NewBatchInv
<1>4. PICK l \in Loop : /\ loop' = CountTurn(l)
                        /\ l.outerBatch = loop.outerBatch + 1
                        /\ l.handoffChain = loop.handoffChain
                        /\ l.harnessTurns = loop.harnessTurns
                        /\ l.tracker = loop.tracker /\ l.outcome = loop.outcome
  <2> DEFINE l == [loop EXCEPT !.outerBatch = loop.outerBatch + 1]
  <2>1. loop.outerBatch + 1 \in 0..MaxBatches
    BY <1>1, BudgetBounds DEF Loop
  <2>2. /\ l \in Loop /\ l.outerBatch = loop.outerBatch + 1
        /\ l.handoffChain = loop.handoffChain
        /\ l.harnessTurns = loop.harnessTurns
        /\ l.tracker = loop.tracker /\ l.outcome = loop.outcome
    BY <1>1, <2>1 DEF Loop
  <2>3. loop' = CountTurn(l)
    BY <1>1 DEF Continue, Loop
  <2> QED
    BY <2>2, <2>3
<1>5. TypeOK'
  BY <1>1, <1>3, <1>4, CountTurnType DEF IInv, TypeOK, BatchInv, Loop
<1>6. Counted'
  <2>1. Budget' = Budget /\ Budget \in Nat
    BY <1>1, BudgetBounds DEF Budget
  <2>2. loop'.harnessTurns = loop.harnessTurns + 1 /\ loop'.outerBatch = loop.outerBatch + 1
        /\ loop'.handoffChain = loop.handoffChain
    BY <1>4, CountTurnType
  <2>3. loop.harnessTurns \in Nat /\ loop.outerBatch \in Nat /\ loop.handoffChain \in Nat
    BY <1>1 DEF Loop
  <2>4. stream.sent \in Nat
    BY DEF IInv, TypeOK
  <2> QED
    BY <1>1, <2>1, <2>2, <2>3, <2>4 DEF IInv, Counted
<1>7. OnlyLastRuns' /\ CancelAborts'
  BY <1>1, <1>4, CountTurnType DEF IInv, OnlyLastRuns, CancelAborts, Running
<1> QED
  BY <1>3, <1>5, <1>6, <1>7 DEF IInv

LEMMA HandoffInv ==
    ASSUME IInv, Handoff
    PROVE  IInv'
<1>1. /\ loop \in Loop /\ stream \in Stream /\ runs \in Seq(Run)
      /\ UNCHANGED <<aborted, open, options>> /\ made' = 0 /\ log' = <<>>
      /\ runner.phase = "idle" /\ loop.outcome = "none"
      /\ loop.handoffChain + 1 < MaxChain
      /\ runner' = NewBatch(<<>>)
      /\ options \in 1..(MaxBatches + 1)
      /\ loop.tracker \in DOMAIN runs
  BY DEF IInv, TypeOK, Loop, Stream, Handoff, HandsOn, Has, Running, Again
<1>2. PICK child \in Nat : child = Len(runs) + 1
  BY <1>1
<1>3. /\ stream' = StreamOf(stream, child)
      /\ loop' = CountTurn([loop EXCEPT !.handoffChain = @ + 1, !.tracker = child])
      /\ runs' = Append([runs EXCEPT ![loop.tracker].status = "completed"],
                         [parent |-> loop.tracker, root |-> runs[loop.tracker].root,
                          status |-> "running"])
  BY <1>2 DEF Handoff
<1>4. runner \in Runner /\ open = 0 /\ aborted \in BOOLEAN
  BY <1>1, ResultInv DEF IInv
<1>5. BatchInv'
  <2>1. <<>> \in Seq(Fact) /\ made' \in Nat
    BY <1>1
  <2> QED
    BY <1>1, <1>4, <2>1, NewBatchInv
<1>6. PICK l \in Loop : /\ loop' = CountTurn(l)
                        /\ l.outerBatch = loop.outerBatch
                        /\ l.handoffChain = loop.handoffChain + 1
                        /\ l.harnessTurns = loop.harnessTurns
                        /\ l.tracker = child /\ l.outcome = loop.outcome
  <2> DEFINE l == [[loop EXCEPT !.handoffChain = loop.handoffChain + 1] EXCEPT !.tracker = child]
  <2>1. loop.handoffChain + 1 \in 0..MaxChain
    BY <1>1 DEF Loop
  <2>2. /\ l \in Loop /\ l.outerBatch = loop.outerBatch
        /\ l.handoffChain = loop.handoffChain + 1
        /\ l.harnessTurns = loop.harnessTurns
        /\ l.tracker = child /\ l.outcome = loop.outcome
    BY <1>1, <1>2, <2>1 DEF Loop
  <2>3. loop' = CountTurn(l)
    BY <1>1, <1>3 DEF Loop
  <2> QED
    BY <2>2, <2>3
<1>7. /\ stream' \in Stream /\ stream'.runId = child /\ stream'.sent = stream.sent
      /\ stream'.steered = stream.steered /\ stream'.cancelled = stream.cancelled
  BY <1>1, <1>2, <1>3 DEF StreamOf, Stream
<1>8. /\ runs' \in Seq(Run) /\ child \in DOMAIN runs'
      /\ \A r \in DOMAIN runs' : r = child \/ r \in DOMAIN runs
      /\ \A r \in DOMAIN runs : r # loop.tracker => runs'[r] = runs[r]
      /\ runs'[loop.tracker].status = "completed"
  <2> DEFINE old == [runs[loop.tracker] EXCEPT !.status = "completed"]
             new == [parent |-> loop.tracker, root |-> runs[loop.tracker].root,
                     status |-> "running"]
             ended == [runs EXCEPT ![loop.tracker] = old]
  <2>1. runs[loop.tracker] \in Run /\ loop.tracker \in Nat
    BY <1>1, SMTT(30) DEF Loop
  <2>2. old \in Run /\ old.status = "completed" /\ new \in Run
    BY <2>1 DEF Run
  <2>3. runs' = Append(ended, new)
    BY <1>3
  <2> HIDE DEF old, new
  <2>4. /\ ended \in Seq(Run) /\ Len(ended) = Len(runs) /\ DOMAIN ended = DOMAIN runs
        /\ \A r \in DOMAIN runs : ended[r] = IF r = loop.tracker THEN old ELSE runs[r]
    BY <1>1, <2>2, ExceptSeq
  <2> HIDE DEF ended
  <2>5. /\ runs' \in Seq(Run) /\ Len(runs') = Len(runs) + 1
        /\ \A r \in 1..Len(runs) : runs'[r] = ended[r]
    BY <2>2, <2>3, <2>4, AppendProperties
  <2>6. DOMAIN runs = 1..Len(runs) /\ DOMAIN runs' = 1..Len(runs') /\ Len(runs) \in Nat
    BY <1>1, <2>5
  <2> QED
    BY <1>1, <1>2, <2>2, <2>4, <2>5, <2>6
<1>9. TypeOK'
  <2>1. loop' \in Loop /\ loop'.tracker = child
    BY <1>6, CountTurnType
  <2>2. log' \in Seq(Fact)
    BY <1>1
  <2> QED
    BY <1>1, <1>5, <1>7, <1>8, <2>1, <2>2 DEF TypeOK, BatchInv, Loop, Stream
<1>10. Counted'
  <2>1. Budget' = Budget
    BY <1>1 DEF Budget
  <2>2. loop'.harnessTurns = loop.harnessTurns + 1 /\ loop'.outerBatch = loop.outerBatch
        /\ loop'.handoffChain = loop.handoffChain + 1
    BY <1>6, CountTurnType
  <2>3. loop.harnessTurns \in Nat /\ loop.outerBatch \in Nat /\ loop.handoffChain \in Nat
    BY <1>1 DEF Loop
  <2>4. stream.sent \in Nat
    BY <1>1 DEF Stream
  <2>5. PICK n \in {0, 1} : /\ n = IF stream.steered THEN 1 ELSE 0
                            /\ n = IF stream'.steered THEN 1 ELSE 0
    BY <1>7
  <2>6. /\ loop.outerBatch + 1 <= Budget
        /\ loop.harnessTurns + n <= 1 + loop.outerBatch + loop.handoffChain + stream.sent
    BY <2>5 DEF IInv, Counted
  <2>7. loop'.harnessTurns + n <= 1 + loop'.outerBatch + loop'.handoffChain + stream'.sent
    BY <1>7, <2>2, <2>3, <2>4, <2>6
  <2>8. loop'.outerBatch + 1 <= Budget' /\ loop'.handoffChain + 1 <= MaxChain
    BY <1>1, <2>1, <2>2, <2>3, <2>6
  <2> QED
    BY <2>5, <2>7, <2>8 DEF Counted
<1>11. OnlyLastRuns'
  <2> SUFFICES ASSUME NEW r \in DOMAIN runs', runs'[r].status = "running"
               PROVE  Running' /\ r = loop'.tracker /\ r = stream'.runId
    BY DEF OnlyLastRuns
  <2>1. loop'.outcome = "none" /\ loop'.tracker = child
    BY <1>1, <1>6, CountTurnType
  <2>2. r = child
    BY <1>8 DEF IInv, OnlyLastRuns
  <2> QED
    BY <1>7, <2>1, <2>2 DEF Running
<1>12. CancelAborts'
  BY <1>1, <1>7 DEF IInv, CancelAborts, Running
<1> QED
  BY <1>5, <1>9, <1>10, <1>11, <1>12 DEF IInv

LEMMA LoopInv ==
    ASSUME IInv, LoopNext
    PROVE  IInv'
<1>1. ASSUME Cancelled \/ Failed \/ AwaitingApproval \/ Completed \/ Exhausted \/ HandoffEnds
      PROVE  IInv'
  <2>1. runner.phase = "idle"
    BY <1>1 DEF Cancelled, Failed, AwaitingApproval, Completed, Exhausted, HandoffEnds,
                Interrupted, Has
  <2>2. \E outcome \in Outcome \ {"none"}, status \in {"blocked", "completed", "failed", "cancelled"} :
            Verdict(outcome, status)
    BY <1>1 DEF Cancelled, Failed, AwaitingApproval, Completed, Exhausted, HandoffEnds, Outcome
  <2> QED
    BY <2>1, <2>2, VerdictInv
<1> QED
  BY <1>1, SteeredInv, ContinueInv, HandoffInv DEF LoopNext

\* Steering counts in advance for the batch it will start, and once.
LEMMA SteerInv ==
    ASSUME IInv, Steer
    PROVE  IInv'
<1>1. /\ stream \in Stream /\ aborted' = TRUE /\ stream.sent < MaxSteers
      /\ UNCHANGED <<runner, made, open, options, loop, runs, log>>
  BY DEF IInv, TypeOK, Stream, Steer
<1>2. /\ stream.sent + 1 \in 1..MaxSteers /\ stream.sent + 1 \in 0..MaxSteers
      /\ Append(stream.queue, stream.sent + 1) \in Seq(1..MaxSteers)
  <2>1. stream.sent + 1 \in 1..MaxSteers /\ stream.queue \in Seq(1..MaxSteers)
    BY <1>1 DEF Stream
  <2> QED
    BY <2>1, AppendProperties
<1>3. stream' = [[[stream EXCEPT !.steered = TRUE] EXCEPT !.sent = stream.sent + 1]
                   EXCEPT !.queue = Append(stream.queue, stream.sent + 1)]
  BY <1>1 DEF Steer, Stream
<1>4. /\ stream' \in Stream /\ stream'.steered /\ stream'.sent = stream.sent + 1
      /\ stream'.runId = stream.runId
  BY <1>1, <1>2, <1>3 DEF Stream
<1>5. TypeOK' /\ BatchInv'
  BY <1>1, <1>4
  DEF IInv, TypeOK, BatchInv, Stream, RunnerTypeOK, OneModelOpen, Restartable, StepsCounted,
      StepLimit
<1>6. Counted'
  <2>1. Budget' = Budget
    BY <1>1 DEF Budget
  <2>2. loop.harnessTurns \in Nat /\ loop.outerBatch \in Nat /\ loop.handoffChain \in Nat
        /\ stream.sent \in Nat
    BY <1>1 DEF IInv, TypeOK, Stream
  <2> QED
    BY <1>1, <1>4, <2>1, <2>2 DEF IInv, Counted
<1>7. OnlyLastRuns' /\ CancelAborts'
  BY <1>1, <1>4 DEF IInv, OnlyLastRuns, CancelAborts, Running
<1> QED
  BY <1>5, <1>6, <1>7 DEF IInv

\* Only the run that the stream names is running: it is the stream that is
\* cancelled, never a row behind it.
LEMMA CancelRunInv ==
    ASSUME IInv, NEW r \in DOMAIN runs, CancelRun(r)
    PROVE  IInv'
<1>1. stream.runId = r
  BY DEF IInv, OnlyLastRuns, CancelRun
<1>2. /\ stream \in Stream /\ aborted' = TRUE
      /\ stream' = [stream EXCEPT !.cancelled = TRUE]
      /\ UNCHANGED <<runner, made, open, options, loop, runs, log>>
  BY <1>1 DEF IInv, TypeOK, Stream, CancelRun
<1>3. /\ stream' \in Stream /\ stream'.steered = stream.steered /\ stream'.sent = stream.sent
      /\ stream'.runId = stream.runId
  BY <1>2 DEF Stream
<1>4. TypeOK' /\ BatchInv'
  BY <1>2, <1>3
  DEF IInv, TypeOK, BatchInv, Stream, RunnerTypeOK, OneModelOpen, Restartable, StepsCounted,
      StepLimit
<1>5. Counted'
  BY <1>2, <1>3 DEF IInv, Counted, Budget
<1>6. OnlyLastRuns' /\ CancelAborts'
  BY <1>2, <1>3 DEF IInv, OnlyLastRuns, CancelAborts, Running
<1> QED
  BY <1>4, <1>5, <1>6 DEF IInv

LEMMA BatchStepInv ==
    ASSUME IInv, Batch
    PROVE  IInv'
<1>1. UNCHANGED <<options, loop, stream, runs>> /\ BatchInv'
  BY BatchNext DEF IInv, Batch, loopVars
<1>2. log' \in Seq(Fact)
  <2>1. log \in Seq(Fact) /\ StepFact(made') \in Fact
    BY <1>1 DEF IInv, TypeOK, BatchInv, RunnerTypeOK, StepFact, Fact
  <2> QED
    BY <2>1, AppendProperties DEF Batch
<1>3. TypeOK'
  BY <1>1, <1>2 DEF IInv, TypeOK, BatchInv
<1>4. aborted' = aborted
  BY DEF Batch, RunnerNext, BatchAborted, NoModel, BeginAttempt, ShowsThinking, ShowsText,
         FinishStep, StreamAborted, Resolve, Retry, CallsTool, LastStep, StreamBreaks
<1>5. Counted' /\ OnlyLastRuns' /\ CancelAborts'
  BY <1>1, <1>4 DEF IInv, Counted, Budget, OnlyLastRuns, CancelAborts, Running
<1> QED
  BY <1>1, <1>3, <1>5 DEF IInv

LEMMA NextInv == IInv /\ [Next]_vars => IInv'
<1> SUFFICES ASSUME IInv, [Next]_vars PROVE IInv'
  OBVIOUS
<1>1. CASE UNCHANGED vars
  BY <1>1, SMTT(30)
  DEF vars, IInv, TypeOK, BatchInv, RunnerTypeOK, OneModelOpen, Restartable, StepsCounted,
      StepLimit, Counted, Budget, OnlyLastRuns, CancelAborts, Running
<1> QED
  BY <1>1, BatchStepInv, LoopInv, SteerInv, CancelRunInv DEF Next

-----------------------------------------------------------------------------
(* What the history of a run has of what happened.                          *)

\* The tool steps of the attempt under way.
AttemptSteps(n) == [i \in 1..n |-> StepFact(made - n + i)]

\* What an attempt starts with has all facts of the run that are not steps of
\* that attempt; what is kept adds these.  So a failed attempt that made a step
\* must not be retried: it would go on with a history that lacks it.
HistoryExact ==
    /\ runner.phase \in {"top", "backoff"} => Facts(runner.history) = log
    /\ runner.phase = "streaming" =>
          IF runner.steps = 0 THEN Facts(runner.history) = log
          ELSE runner.kept = runner.history \o AttemptSteps(runner.steps)
    /\ runner.phase = "ending" /\ ~runner.emitted => Facts(runner.history) = log

ExactInv == ObservationsExact /\ HistoryExact

LEMMA NewBatchExact ==
    ASSUME NEW history, runner' = NewBatch(history), Facts(history) = log'
    PROVE  ExactInv'
BY DEF NewBatch, ExactInv, ObservationsExact, HistoryExact

LEMMA IdleExact ==
    ASSUME runner'.phase = "idle", Facts(runner'.kept) = log'
    PROVE  ExactInv'
BY DEF ExactInv, ObservationsExact, HistoryExact

LEMMA ReturnedExact ==
    ASSUME NEW r \in Runner, NEW result, runner' = Returned(r, result), Facts(r.kept) = log'
    PROVE  ExactInv'
<1>1. runner'.phase = "idle" /\ runner'.kept = r.kept
  BY DEF Returned, Runner
<1> QED
  BY <1>1, IdleExact

\* A note is no fact: the history a retry starts with has the facts it had.
LEMMA ThrownExact ==
    ASSUME NEW r \in Runner, NEW retryable, Thrown(r, retryable), Facts(r.kept) = log',
           ~r.emitted => Facts(r.history) = log'
    PROVE  ExactInv'
<1>1. CASE ~aborted /\ retryable /\ MayRetry(r)
  <2>1. /\ runner' = [r EXCEPT !.phase = "backoff", !.attempt = @ + 1,
                               !.history = Append(@, Note)]
        /\ ~r.emitted
    BY <1>1 DEF Thrown, MayRetry
  <2>2. runner'.phase = "backoff" /\ runner'.kept = r.kept
        /\ runner'.history = Append(r.history, Note)
    BY <2>1 DEF Runner
  <2>3. Note \in Fact /\ ~IsFact(Note) /\ r.history \in Seq(Fact)
    BY DEF Note, Fact, IsFact, Runner
  <2>4. Facts(Append(r.history, Note)) = Facts(r.history)
    BY <2>3, FactsAppend
  <2> QED
    BY <2>1, <2>2, <2>4 DEF ExactInv, ObservationsExact, HistoryExact
<1>2. CASE ~(~aborted /\ retryable /\ MayRetry(r))
  <2>1. \E result : runner' = Returned(r, result)
    BY <1>2 DEF Thrown
  <2> QED
    BY <2>1, ReturnedExact
<1> QED
  BY <1>1, <1>2


LEMMA AttemptStepsType ==
    ASSUME NEW n \in Nat, made \in Nat, n <= made
    PROVE  AttemptSteps(n) \in Seq(Fact) /\ Len(AttemptSteps(n)) = n
<1>1. ASSUME NEW i \in 1..n PROVE StepFact(made - n + i) \in Fact
  <2>1. made - n + i \in Nat
    OBVIOUS
  <2> QED
    BY <2>1 DEF StepFact, Fact
<1> QED
  BY <1>1, IsASeq DEF AttemptSteps

\* A finished step is appended to the steps of its attempt.
LEMMA WithStepsAppends ==
    ASSUME NEW r \in Runner, NEW n \in Nat, made \in Nat, n <= made, made' = made + 1
    PROVE  WithSteps(r, n + 1) = Append(r.history \o AttemptSteps(n), StepFact(made'))
<1> DEFINE next == [i \in 1..(n + 1) |-> StepFact(made' - (n + 1) + i)]
<1>1. PICK s \in Seq(Fact) : s = AttemptSteps(n) /\ Len(s) = n
  BY AttemptStepsType
<1>2. StepFact(made') \in Fact
  BY DEF StepFact, Fact
<1>3. PICK e \in Fact : e = StepFact(made')
  BY <1>2
<1>4. next = Append(s, e)
  <2>1. Append(s, e) = [i \in 1..(n + 1) |-> IF i = n + 1 THEN e ELSE s[i]]
    BY <1>1, <1>3
  <2>2. ASSUME NEW i \in 1..(n + 1)
        PROVE  StepFact(made' - (n + 1) + i) = IF i = n + 1 THEN e ELSE s[i]
    <3>1. CASE i = n + 1
      <4>1. made' - (n + 1) + i = made'
        BY <3>1
      <4> QED
        BY <1>3, <3>1, <4>1
    <3>2. CASE i \in 1..n
      <4>1. made' - (n + 1) + i = made - n + i
        BY <3>2
      <4>2. s[i] = StepFact(made - n + i)
        BY <1>1, <3>2 DEF AttemptSteps
      <4> QED
        BY <3>2, <4>1, <4>2
    <3> QED
      BY <3>1, <3>2
  <2> QED
    BY <2>1, <2>2
<1>5. PICK h \in Seq(Fact) : h = r.history
  BY DEF Runner
<1>6. h \o Append(s, e) = Append(h \o s, e)
  BY ConcatAppend
<1>7. WithSteps(r, n + 1) = r.history \o next
  BY DEF WithSteps
<1> QED
  BY <1>1, <1>3, <1>4, <1>5, <1>6, <1>7

\* The history of a batch gains one fact, the step that was finished.
LEMMA StepKept ==
    ASSUME BatchInv, ExactInv, runner.phase = "streaming", made' = made + 1
    PROVE  /\ WithSteps(runner, runner.steps + 1) \in Seq(Fact)
           /\ Facts(WithSteps(runner, runner.steps + 1)) = Append(log, StepFact(made'))
           /\ WithSteps(runner, runner.steps + 1)
                 = runner.history \o [i \in 1..(runner.steps + 1)
                                         |-> StepFact(made' - (runner.steps + 1) + i)]
<1>1. runner \in Runner /\ made \in Nat /\ runner.steps \in Nat /\ runner.steps <= made
  BY DEF BatchInv, RunnerTypeOK, StepsCounted, Runner
<1>2. PICK h \in Seq(Fact) : h = runner.history \o AttemptSteps(runner.steps)
  BY <1>1, AttemptStepsType, ConcatProperties DEF Runner
<1>3. Facts(h) = log
  <2>1. CASE runner.steps = 0
    <3>1. AttemptSteps(runner.steps) = <<>>
      BY <1>1, <2>1, AttemptStepsType, EmptySeq
    <3>2. h = runner.history
      BY <1>1, <1>2, <3>1, ConcatEmptySeq DEF Runner
    <3> QED
      BY <2>1, <3>2 DEF ExactInv, HistoryExact
  <2>2. CASE runner.steps # 0
    <3>1. runner.kept = h
      BY <1>2, <2>2 DEF ExactInv, HistoryExact
    <3> QED
      BY <3>1 DEF ExactInv, ObservationsExact
  <2> QED
    BY <2>1, <2>2
<1>4. StepFact(made') \in Fact /\ IsFact(StepFact(made'))
  BY <1>1 DEF StepFact, Fact, IsFact
<1>5. WithSteps(runner, runner.steps + 1) = Append(h, StepFact(made'))
  BY <1>1, <1>2, WithStepsAppends
<1>6. Facts(Append(h, StepFact(made'))) = Append(Facts(h), StepFact(made'))
  BY <1>4, FactsAppend
<1>7. Append(h, StepFact(made')) \in Seq(Fact)
  BY <1>4, AppendProperties
<1>8. WithSteps(runner, runner.steps + 1)
         = runner.history \o [i \in 1..(runner.steps + 1)
                                 |-> StepFact(made' - (runner.steps + 1) + i)]
  BY DEF WithSteps
<1> QED
  BY <1>3, <1>4, <1>5, <1>6, <1>7, <1>8, Zenon

LEMMA FinishStepExact ==
    ASSUME BatchInv, ExactInv, FinishStep, log' = Append(log, StepFact(made'))
    PROVE  ExactInv'
<1>1. /\ runner \in Runner /\ runner.phase = "streaming" /\ made' = made + 1 /\ runner.emitted
      /\ runner.steps \in Nat
  BY DEF BatchInv, RunnerTypeOK, Restartable, FinishStep, Runner
<1>2. PICK steps \in Nat : steps = runner.steps + 1
  BY <1>1
<1>3. PICK kept \in Seq(Fact) : /\ kept = WithSteps(runner, steps) /\ Facts(kept) = log'
                                /\ kept = runner.history
                                            \o [i \in 1..steps |-> StepFact(made' - steps + i)]
  BY <1>1, <1>2, StepKept
<1>4. PICK after \in Runner :
          /\ after = [runner EXCEPT !.steps = steps, !.called = {}, !.kept = kept]
          /\ after.phase = "streaming" /\ after.steps = steps /\ after.kept = kept
          /\ after.history = runner.history /\ after.emitted
  <2> DEFINE after == [runner EXCEPT !.steps = steps, !.called = {}, !.kept = kept]
  <2>1. after = [[[runner EXCEPT !.steps = steps] EXCEPT !.called = {}] EXCEPT !.kept = kept]
    BY <1>1 DEF Runner
  <2>2. after \in Runner
    BY <1>1, <2>1 DEF Runner
  <2>3. /\ after.phase = "streaming" /\ after.steps = steps /\ after.kept = kept
        /\ after.history = runner.history /\ after.emitted
    BY <1>1 DEF Runner
  <2> QED
    BY <2>2, <2>3
<1>5. \/ runner' = after
      \/ runner' = Returned(after, "aborted")
      \/ \E end \in StreamEnd : runner' = [after EXCEPT !.phase = "ending", !.end = end]
  <2>1. IF StopsWith(runner, steps) = {}
        THEN runner' = after /\ UNCHANGED open
        ELSE IF aborted
             THEN runner' = Returned(after, "aborted") /\ open' = Disposed(open)
             ELSE /\ \E end \in StopsWith(runner, steps) :
                        runner' = [after EXCEPT !.phase = "ending", !.end = end]
                  /\ UNCHANGED open
    BY <1>2, <1>3, <1>4 DEF FinishStep
  <2>2. StopsWith(runner, steps) \subseteq StreamEnd
    BY StopsWithType DEF StreamEnd
  <2> QED
    BY <2>1, <2>2
<1>6. CASE runner' = after
  <2>1. /\ runner'.phase = "streaming" /\ runner'.steps = steps
        /\ runner'.kept = kept /\ runner'.history = runner.history
    BY <1>4, <1>6, Zenon
  <2>2. steps # 0
    BY <1>1, <1>2
  <2>3. AttemptSteps(runner.steps)' = [i \in 1..steps |-> StepFact(made' - steps + i)]
    BY <2>1, Zenon DEF AttemptSteps
  <2>4. runner'.kept = runner'.history \o AttemptSteps(runner.steps)'
    BY <1>3, <2>1, <2>3, Zenon
  <2>5. Facts(runner'.kept) = log'
    BY <1>3, <2>1, Zenon
  <2> QED
    BY <2>1, <2>2, <2>4, <2>5 DEF ExactInv, ObservationsExact, HistoryExact
<1>7. CASE runner' = Returned(after, "aborted")
  BY <1>3, <1>4, <1>7, ReturnedExact
<1>8. ASSUME NEW end \in StreamEnd, runner' = [after EXCEPT !.phase = "ending", !.end = end]
      PROVE  ExactInv'
  <2>1. runner'.phase = "ending" /\ runner'.emitted /\ runner'.kept = kept
    BY <1>4, <1>8 DEF Runner
  <2> QED
    BY <1>3, <2>1 DEF ExactInv, ObservationsExact, HistoryExact
<1> QED
  BY <1>5, <1>6, <1>7, <1>8

\* An attempt that has shown nothing that counts as output has made no step that
\* its history lacks.
LEMMA NothingLost ==
    ASSUME BatchInv, ExactInv, runner.phase \in {"streaming", "ending"}, ~runner.emitted
    PROVE  Facts(runner.history) = log
BY DEF BatchInv, Restartable, ExactInv, HistoryExact

LEMMA LastStepExact ==
    ASSUME BatchInv, ExactInv, NEW end \in StreamEnd, LastStep(end), log' = log
    PROVE  ExactInv'
<1>1. runner \in Runner /\ runner.phase = "streaming"
  BY DEF BatchInv, RunnerTypeOK, LastStep
<1>2. /\ runner'.phase = "ending" /\ runner'.kept = runner.kept
      /\ runner'.history = runner.history /\ runner'.emitted = runner.emitted
  BY <1>1 DEF LastStep, Runner
<1> QED
  BY <1>1, <1>2, NothingLost DEF ExactInv, ObservationsExact, HistoryExact

LEMMA ShowsExact ==
    ASSUME BatchInv, ExactInv, log' = log,
           ShowsThinking \/ ShowsText \/ \E call \in {"tool", "handoff", "approval"} : CallsTool(call)
    PROVE  ExactInv'
<1>1. runner \in Runner /\ runner.phase = "streaming" /\ made' = made
  BY DEF BatchInv, RunnerTypeOK, ShowsThinking, ShowsText, CallsTool
<1>2. /\ runner'.phase = "streaming" /\ runner'.kept = runner.kept
      /\ runner'.history = runner.history /\ runner'.steps = runner.steps
  <2>1. CASE ShowsThinking
    BY <1>1, <2>1 DEF ShowsThinking, Runner
  <2>2. CASE ShowsText
    BY <1>1, <2>2 DEF ShowsText, Runner
  <2>3. CASE \E call \in {"tool", "handoff", "approval"} : CallsTool(call)
    BY <1>1, <2>3 DEF CallsTool, Runner
  <2> QED
    BY <2>1, <2>2, <2>3
<1> QED
  BY <1>1, <1>2 DEF ExactInv, ObservationsExact, HistoryExact, AttemptSteps

LEMMA ResolveExact ==
    ASSUME BatchInv, ExactInv, Resolve, log' = log
    PROVE  ExactInv'
<1>1. runner \in Runner /\ runner.phase = "ending" /\ Facts(runner.kept) = log'
  BY DEF BatchInv, RunnerTypeOK, Resolve, ExactInv, ObservationsExact
<1>2. runner.steps \in Nat /\ runner.totalSteps \in Nat /\ runner.kept \in Seq(Fact)
  BY <1>1 DEF Runner
<1>3. PICK r \in Runner :
          /\ r = [runner EXCEPT !.history = runner.kept,
                                !.totalSteps = runner.totalSteps + runner.steps]
          /\ r.history = runner.kept /\ r.kept = runner.kept
  <2> DEFINE r == [[runner EXCEPT !.history = runner.kept]
                     EXCEPT !.totalSteps = runner.totalSteps + runner.steps]
  <2>1. runner.totalSteps + runner.steps \in Nat
    BY <1>2
  <2>2. r \in Runner /\ r.history = runner.kept /\ r.kept = runner.kept
    BY <1>1, <1>2, <2>1 DEF Runner
  <2>3. r = [runner EXCEPT !.history = runner.kept,
                           !.totalSteps = runner.totalSteps + runner.steps]
    BY <1>1 DEF Runner
  <2> QED
    BY <2>2, <2>3
<1>4. IF runner.end = "refused" THEN Thrown(runner, TRUE)
      ELSE IF runner.end = "stop" /\ ~runner.emitted THEN Thrown(r, TRUE)
      ELSE /\ runner' = Returned(r, CASE runner.end = "stop" -> "completed"
                                      [] runner.end = "tool-calls" -> "continuing"
                                      [] OTHER -> runner.end)
           /\ open' = Disposed(open)
  BY <1>1, <1>3 DEF Resolve
<1>5. \/ Thrown(runner, TRUE) \/ Thrown(r, TRUE)
      \/ \E result : runner' = Returned(r, result)
  BY <1>4, Zenon
<1>6. ~runner.emitted => Facts(runner.history) = log'
  BY <1>1, NothingLost
<1> QED
  BY <1>1, <1>3, <1>5, <1>6, ThrownExact, ReturnedExact

LEMMA BatchExact ==
    ASSUME IInv, ExactInv, Batch
    PROVE  ExactInv'
<1>1. RunnerNext /\ BatchInv /\ runner \in Runner /\ made \in Nat /\ Facts(runner.kept) = log
  BY DEF Batch, IInv, BatchInv, RunnerTypeOK, ExactInv, ObservationsExact
<1>2. CASE FinishStep
  <2>1. made' = made + 1
    BY <1>2 DEF FinishStep
  <2>2. log' = Append(log, StepFact(made'))
    BY <1>1, <2>1 DEF Batch
  <2> QED
    BY <1>1, <1>2, <2>2, FinishStepExact
<1>3. ASSUME ~FinishStep PROVE log' = log
  <2>1. made' = made
    BY <1>1, <1>3 DEF RunnerNext, BatchAborted, NoModel, BeginAttempt, ShowsThinking, ShowsText,
           StreamAborted, Resolve, Retry, CallsTool, LastStep, StreamBreaks
  <2> QED
    BY <1>1, <2>1 DEF Batch
<1>4. CASE BatchAborted \/ NoModel
  <2>1. \E result : runner' = Returned(runner, result)
    BY <1>4 DEF BatchAborted, NoModel
  <2>2. ~FinishStep
    BY <1>4 DEF BatchAborted, NoModel, FinishStep
  <2> QED
    BY <1>1, <1>3, <2>1, <2>2, ReturnedExact
<1>5. CASE BeginAttempt \/ Retry
  <2>1. /\ runner'.phase \in {"streaming", "top"} /\ runner'.kept = runner.kept
        /\ runner'.history = runner.history
        /\ runner'.phase = "streaming" => runner'.steps = 0
        /\ runner.phase \in {"top", "backoff"}
    BY <1>1, <1>5 DEF BeginAttempt, Retry, Runner
  <2>2. ~FinishStep
    BY <2>1 DEF FinishStep
  <2> QED
    BY <1>3, <2>1, <2>2 DEF ExactInv, ObservationsExact, HistoryExact
<1>6. CASE ~FinishStep /\ (StreamAborted \/ \E retryable \in BOOLEAN : StreamBreaks(retryable))
  <2>1. PICK retryable \in BOOLEAN :
            runner.phase \in {"streaming", "ending"} /\ Thrown(runner, retryable)
    BY <1>6 DEF StreamAborted, StreamBreaks
  <2> QED
    BY <1>1, <1>3, <1>6, <2>1, NothingLost, ThrownExact
<1> QED
  BY <1>1, <1>2, <1>3, <1>4, <1>5, <1>6, ShowsExact, ResolveExact, LastStepExact
  DEF RunnerNext

\* What the loop takes over between batches: what was kept, and the messages of
\* the user.
LEMMA LoopExact ==
    ASSUME IInv, ExactInv, LoopNext
    PROVE  ExactInv'
<1>1. runner \in Runner /\ Facts(runner.kept) = log /\ log \in Seq(Fact) /\ runner.phase = "idle"
  BY DEF IInv, TypeOK, BatchInv, RunnerTypeOK, ExactInv, ObservationsExact, LoopNext, Steered,
         Cancelled, Failed, AwaitingApproval, Completed, Exhausted, Continue, Handoff,
         HandoffEnds, Interrupted, Has
<1>2. CASE Steered
  <2>1. PICK h \in Seq(Fact), t \in Seq(Fact) : h = runner.kept /\ t = Drained
    BY <1>1, DrainedType DEF Runner, IInv
  <2>2. \A i \in 1..Len(t) : IsFact(t[i])
    <3>1. Len(stream.queue) \in Nat
      BY DEF IInv, TypeOK
    <3>2. Len(t) = Len(stream.queue)
      BY <2>1, <3>1 DEF Drained
    <3> QED
      BY <2>1, <3>2 DEF Drained, IsFact
  <2>3. Facts(h \o t) = Facts(h) \o t
    BY <1>1, <2>1, <2>2, FactsConcat
  <2>4. runner' = NewBatch(h \o t) /\ log' = log \o t
    BY <1>2, <2>1 DEF Steered, Again
  <2> QED
    BY <1>1, <2>1, <2>3, <2>4, NewBatchExact
<1>3. CASE Continue
  <2>1. runner' = NewBatch(runner.kept) /\ log' = log
    BY <1>3 DEF Continue, Again
  <2> QED
    BY <1>1, <2>1, NewBatchExact
<1>4. CASE Handoff
  <2>1. runner' = NewBatch(<<>>) /\ log' = <<>>
    BY <1>4 DEF Handoff, Again
  <2> QED
    BY <2>1, FactsEmpty, NewBatchExact
<1>5. CASE Cancelled \/ Failed \/ AwaitingApproval \/ Completed \/ Exhausted \/ HandoffEnds
  <2>1. PICK outcome, status : Verdict(outcome, status)
    BY <1>5 DEF Cancelled, Failed, AwaitingApproval, Completed, Exhausted, HandoffEnds
  <2>2. runner'.phase = "idle" /\ runner'.kept = runner.kept /\ log' = log
    BY <1>1, <2>1 DEF Verdict, Runner
  <2> QED
    BY <1>1, <2>2, IdleExact
<1> QED
  BY <1>2, <1>3, <1>4, <1>5 DEF LoopNext

LEMMA ExactNext == IInv /\ ExactInv /\ [Next]_vars => ExactInv'
<1> SUFFICES ASSUME IInv, ExactInv, [Next]_vars PROVE ExactInv'
  OBVIOUS
<1>1. CASE UNCHANGED <<runner, made, log>>
  BY <1>1 DEF ExactInv, ObservationsExact, HistoryExact, AttemptSteps
<1>2. CASE UNCHANGED vars \/ Steer \/ \E r \in DOMAIN runs : CancelRun(r)
  BY <1>1, <1>2 DEF vars, Steer, CancelRun
<1> QED
  BY <1>2, BatchExact, LoopExact DEF Next

-----------------------------------------------------------------------------
(* The theorems.                                                            *)

\* The counts of the batch and of the loop hold in every state.
THEOREM Invariance == Spec => []IInv
BY InitInv, NextInv, PTL DEF Spec

\* The variables of a turn have their types: with them, no attempt is beyond
\* retryMaxAttempts and no handoff beyond MAX_HANDOFF_CHAIN.
THEOREM TypeCorrect == Spec => []TypeOK
<1>1. IInv => TypeOK
  BY DEF IInv
<1> QED
  BY <1>1, Invariance, PTL

\* For all budgets of the loop and of its batches: the batches of a turn, the
\* steps of a batch and the models open at a time are bounded, through retries
\* after empty answers, handoffs and restarts by steering.
THEOREM TurnsAreBounded == Spec => []ResourcesBounded
<1>1. IInv => ResourcesBounded
  <2> SUFFICES ASSUME IInv PROVE ResourcesBounded
    OBVIOUS
  <2>1. BatchesBounded
    <3>1. /\ loop.harnessTurns \in Nat /\ loop.outerBatch \in Nat /\ loop.handoffChain \in Nat
          /\ stream.sent \in Nat /\ options \in Nat /\ MaxChain \in Nat
      BY DEF IInv, TypeOK
    <3>2. Budget \in Nat /\ Budget <= options /\ Budget <= MaxBatches
      BY BudgetBounds DEF IInv, TypeOK
    <3>3. loop.harnessTurns <= 1 + loop.outerBatch + loop.handoffChain + stream.sent
      BY <3>1 DEF IInv, Counted
    <3> QED
      BY <3>1, <3>2, <3>3 DEF IInv, Counted, BatchesBounded
  <2>2. StepsBounded
    <3>1. runner \in Runner /\ BatchInv
      BY DEF IInv, BatchInv, RunnerTypeOK
    <3>2. runner.steps \in Nat /\ runner.totalSteps \in Nat /\ runner.attempt \in Nat
      BY <3>1 DEF Runner
    <3>3. /\ StepLimit(runner) \in Nat
          /\ runner.totalSteps + StepLimit(runner) <= MaxIterations \/ StepLimit(runner) = 1
      BY <3>1, LimitPositive
    <3>4. CASE runner.phase \in {"streaming", "ending"}
      <4>1. runner.steps <= StepLimit(runner) /\ runner.totalSteps <= runner.attempt
        BY <3>1, <3>2, <3>3, <3>4 DEF BatchInv, StepsCounted
      <4> QED
        BY <3>2, <3>3, <3>4, <4>1 DEF StepsBounded
    <3>5. CASE runner.phase \notin {"streaming", "ending"}
      <4>1. runner.totalSteps <= MaxIterations \/ runner.totalSteps <= runner.attempt + 1
        BY <3>1, <3>2 DEF BatchInv, StepsCounted
      <4> QED
        BY <3>2, <3>5, <4>1 DEF StepsBounded
    <3> QED
      BY <3>4, <3>5
  <2> QED
    BY <2>1, <2>2 DEF ResourcesBounded, IInv, BatchInv
<1> QED
  BY <1>1, Invariance, PTL

\* Of a chain of handoffs of any length only the run that the stream names is
\* running, and none is when the turn is over.
THEOREM StreamNamesTheRun == Spec => []OnlyLastRuns
<1>1. IInv => OnlyLastRuns
  BY DEF IInv
<1> QED
  BY <1>1, Invariance, PTL

\* A turn that was cancelled calls on no model any more, however many steering
\* messages came before or were waiting.
THEOREM CancelledForGood == Spec => NoModelAfterCancel
<1>1. IInv /\ [Next]_vars => [open' > open => ~stream.cancelled]_vars
  <2> SUFFICES ASSUME IInv, Next, open' > open PROVE ~stream.cancelled
    BY DEF vars
  <2>1. open \in Nat /\ BatchInv
    BY DEF IInv, BatchInv, RunnerTypeOK
  <2>2. Batch
    BY <2>1
    DEF Next, LoopNext, Steered, Cancelled, Failed, AwaitingApproval, Completed, Exhausted,
        Continue, Handoff, HandoffEnds, Verdict, Steer, CancelRun
  <2>3. Running /\ BeginAttempt
    <3>1. Running /\ RunnerNext
      BY <2>2 DEF Batch
    <3>2. ASSUME NEW r, NEW retryable, Thrown(r, retryable) PROVE FALSE
      BY <2>1, <3>2 DEF Thrown, Disposed
    <3>3. ~(open' = open) /\ ~(open' = Disposed(open))
      BY <2>1 DEF Disposed
    <3>4. ~BatchAborted /\ ~NoModel /\ ~ShowsThinking /\ ~ShowsText /\ ~Retry
      BY <3>3 DEF BatchAborted, NoModel, ShowsThinking, ShowsText, Retry
    <3>5. ~FinishStep
      BY <3>3, Zenon DEF FinishStep
    <3>6. ~StreamAborted /\ ~(\E retryable \in BOOLEAN : StreamBreaks(retryable))
      BY <3>2 DEF StreamAborted, StreamBreaks
    <3>7. ~Resolve
      BY <3>2, <3>3, Zenon DEF Resolve
    <3>8. /\ ~(\E call \in {"tool", "handoff", "approval"} : CallsTool(call))
          /\ ~(\E end \in StreamEnd : LastStep(end))
      BY <3>3, Zenon DEF CallsTool, LastStep
    <3> QED
      BY <3>1, <3>4, <3>5, <3>6, <3>7, <3>8 DEF RunnerNext
  <2> QED
    BY <2>3 DEF IInv, CancelAborts, BeginAttempt
<1> QED
  BY <1>1, Invariance, PTL DEF Spec, NoModelAfterCancel

\* For all budgets, limits and numbers of steering messages: the history a turn goes
\* on with has every tool step that was finished and every message that was taken,
\* once and in order, through steps, retries, batches and restarts.
THEOREM HistoryIsExact == Spec => []ObservationsExact
<1>1. Init => ExactInv
  BY FactsEmpty DEF Init, NewBatch, ExactInv, ObservationsExact, HistoryExact
<1>2. ExactInv => ObservationsExact
  BY DEF ExactInv
<1> QED
  BY <1>1, <1>2, ExactNext, Invariance, PTL DEF Spec

-----------------------------------------------------------------------------
(* The runs of the turn keep the promise of RunRecord.  The verdict, and the *)
(* handoff, are given to a run that is running, and to no other.             *)

\* Until the turn ends its last run is running, and each run but the first
\* was created by a handoff.
TurnOpen ==
    /\ loop.tracker = Len(runs) /\ Len(runs) = loop.handoffChain + 1
    /\ Running => runs[loop.tracker].status = "running"

Statuses == [r \in 1..MaxChain |-> StatusOf(r)]

LEMMA TrackedRun ==
    ASSUME IInv, TurnOpen
    PROVE  /\ runs \in Seq(Run) /\ DOMAIN runs = 1..Len(runs)
           /\ Len(runs) \in 1..MaxChain /\ loop.tracker = Len(runs)
           /\ DOMAIN runs \subseteq 1..MaxChain
           /\ loop.handoffChain \in Nat
<1>1. runs \in Seq(Run) /\ loop.handoffChain \in Nat /\ loop.handoffChain + 1 <= MaxChain
  BY DEF IInv, TypeOK, Counted
<1> QED
  BY <1>1, LoopAssumption DEF TurnOpen

LEMMA VerdictRecord ==
    ASSUME IInv, TurnOpen, Running, NEW outcome \in Outcome \ {"none"},
           NEW status \in {"blocked", "completed", "failed", "cancelled"},
           Verdict(outcome, status)
    PROVE  TurnOpen' /\ Record!Next
<1>1. /\ runs \in Seq(Run) /\ loop.tracker \in DOMAIN runs /\ loop.tracker \in 1..MaxChain
      /\ loop \in Loop /\ runs[loop.tracker].status = "running"
  BY TrackedRun DEF IInv, TypeOK, Loop, TurnOpen
<1>2. /\ loop'.outcome = outcome /\ loop'.tracker = loop.tracker
      /\ loop'.handoffChain = loop.handoffChain
  BY <1>1 DEF Verdict, Loop
<1>3. runs[loop.tracker] \in Run
  BY <1>1
<1>4. /\ Len(runs') = Len(runs) /\ DOMAIN runs' = DOMAIN runs
      /\ \A r \in DOMAIN runs : r # loop.tracker => runs'[r] = runs[r]
      /\ runs'[loop.tracker].status = status
  BY <1>1, <1>3 DEF Verdict, Run
<1>5. TurnOpen'
  BY <1>2, <1>4 DEF TurnOpen, Running
<1>6. /\ StatusOf(loop.tracker) = "running"
      /\ \A q \in 1..MaxChain :
             StatusOf(q)' = IF q = loop.tracker THEN status ELSE StatusOf(q)
  BY <1>1, <1>4 DEF StatusOf
<1>7. /\ Statuses[loop.tracker] = "running"
      /\ Statuses' = [Statuses EXCEPT ![loop.tracker] = status]
  BY <1>1, <1>6 DEF Statuses
<1>8. Record!Move(loop.tracker, status)
  BY <1>7 DEF Record!Move, Record!MayFollow, Record!Terminal, Statuses
<1> QED
  BY <1>1, <1>5, <1>8 DEF Record!Next, Record!Terminal

LEMMA HandoffRecord ==
    ASSUME IInv, TurnOpen, Handoff
    PROVE  TurnOpen' /\ Record!Next
<1> DEFINE t == loop.tracker
<1>1. /\ runs \in Seq(Run) /\ loop \in Loop /\ Running /\ loop.handoffChain + 1 < MaxChain
      /\ t \in DOMAIN runs /\ t \in 1..MaxChain /\ runs[t].status = "running"
      /\ t = Len(runs) /\ Len(runs) = loop.handoffChain + 1
  BY TrackedRun DEF IInv, TypeOK, Loop, TurnOpen, Handoff, Has, HandsOn
<1>2. PICK child \in 1..MaxChain : child = Len(runs) + 1
  BY <1>1, LoopAssumption DEF Loop
<1>3. /\ loop'.tracker = child /\ loop'.handoffChain = loop.handoffChain + 1
      /\ loop'.outcome = loop.outcome
  <2> DEFINE l == [[loop EXCEPT !.handoffChain = loop.handoffChain + 1] EXCEPT !.tracker = child]
  <2>1. loop' = CountTurn(l)
    BY <1>1, <1>2 DEF Handoff, Loop
  <2>2. loop.handoffChain + 1 \in 0..MaxChain /\ child \in Nat
    BY <1>1, <1>2 DEF Loop
  <2>3. /\ l \in Loop /\ l.handoffChain = loop.handoffChain + 1 /\ l.tracker = child
        /\ l.outcome = loop.outcome
    BY <1>1, <2>2 DEF Loop
  <2> QED
    BY <2>1, <2>3, CountTurnType
<1>4. /\ Len(runs') = child /\ DOMAIN runs' = 1..child
      /\ runs'[child].status = "running" /\ runs'[t].status = "completed"
      /\ \A r \in 1..Len(runs) : r # t => runs'[r] = runs[r]
  <2> DEFINE old == [runs[t] EXCEPT !.status = "completed"]
             new == [parent |-> t, root |-> runs[t].root, status |-> "running"]
             ended == [runs EXCEPT ![t] = old]
  <2>1. runs[t] \in Run /\ t \in Nat
    BY <1>1, SMTT(30)
  <2>2. old \in Run /\ old.status = "completed" /\ new \in Run /\ new.status = "running"
    BY <2>1 DEF Run
  <2>3. runs' = Append(ended, new)
    BY <1>1, <1>2 DEF Handoff
  <2> HIDE DEF old, new
  <2>4. /\ ended \in Seq(Run) /\ Len(ended) = Len(runs) /\ DOMAIN ended = DOMAIN runs
        /\ \A r \in DOMAIN runs : ended[r] = IF r = t THEN old ELSE runs[r]
    BY <1>1, <2>2, ExceptSeq
  <2> HIDE DEF ended
  <2>5. /\ Len(runs') = Len(runs) + 1 /\ runs'[Len(runs) + 1] = new /\ runs' \in Seq(Run)
        /\ \A r \in 1..Len(runs) : runs'[r] = ended[r]
    BY <2>2, <2>3, <2>4, AppendProperties
  <2>6. DOMAIN runs = 1..Len(runs) /\ DOMAIN runs' = 1..Len(runs')
    BY <1>1, <2>5
  <2> QED
    BY <1>1, <1>2, <2>2, <2>4, <2>5, <2>6
<1>5. TurnOpen'
  BY <1>1, <1>2, <1>3, <1>4 DEF TurnOpen, Running, Loop
<1>6. /\ StatusOf(t) = "running" /\ StatusOf(child) = "none" /\ child # t
      /\ \A q \in 1..MaxChain :
             StatusOf(q)' = IF q = t THEN "completed" ELSE IF q = child THEN "running" ELSE StatusOf(q)
  <2>1. DOMAIN runs = 1..Len(runs) /\ Len(runs) \in Nat
    BY <1>1
  <2> QED
    BY <1>1, <1>2, <1>4, <2>1 DEF StatusOf
<1>7. /\ Statuses[t] = "running" /\ Statuses[child] = "none"
      /\ Statuses' = [Statuses EXCEPT ![t] = "completed", ![child] = "running"]
  BY <1>1, <1>2, <1>6 DEF Statuses
<1>8. Record!Continue(t, child)
  BY <1>7 DEF Record!Continue, Record!MayFollow, Record!Terminal, Statuses
<1> QED
  BY <1>1, <1>5, <1>8 DEF Record!Next

\* Every other step leaves the runs as they are.
LEMMA OtherStepRecord ==
    ASSUME IInv, TurnOpen,
           \/ Batch \/ Steered \/ Continue \/ Steer \/ UNCHANGED vars
           \/ \E r \in DOMAIN runs : CancelRun(r)
    PROVE  TurnOpen' /\ UNCHANGED Statuses
<1>1. runs' = runs
  BY DEF Batch, loopVars, Steered, Continue, Steer, CancelRun, vars, IInv, OnlyLastRuns
<1>2. /\ loop'.tracker = loop.tracker /\ loop'.handoffChain = loop.handoffChain
      /\ loop'.outcome = loop.outcome
  BY DEF Batch, loopVars, Steered, Continue, CountTurn, Steer, CancelRun, vars, IInv, TypeOK
<1> QED
  BY <1>1, <1>2 DEF TurnOpen, Running, Statuses, StatusOf

LEMMA RecordStep == IInv /\ TurnOpen /\ [Next]_vars => TurnOpen' /\ [Record!Next]_Statuses
<1> SUFFICES ASSUME IInv, TurnOpen, [Next]_vars
             PROVE  TurnOpen' /\ [Record!Next]_Statuses
  OBVIOUS
<1>1. CASE Cancelled \/ Failed \/ AwaitingApproval \/ Completed \/ Exhausted \/ HandoffEnds
  <2>1. Running
    BY <1>1 DEF Cancelled, Failed, AwaitingApproval, Completed, Exhausted, HandoffEnds,
                Interrupted, Has
  <2>2. \E outcome \in Outcome \ {"none"}, status \in {"blocked", "completed", "failed", "cancelled"} :
            Verdict(outcome, status)
    BY <1>1 DEF Cancelled, Failed, AwaitingApproval, Completed, Exhausted, HandoffEnds, Outcome
  <2> QED
    BY <2>1, <2>2, VerdictRecord
<1>2. CASE Handoff
  BY <1>2, HandoffRecord
<1>3. CASE \/ Batch \/ Steered \/ Continue \/ Steer \/ UNCHANGED vars
           \/ \E r \in DOMAIN runs : CancelRun(r)
  BY <1>3, OtherStepRecord
<1> QED
  BY <1>1, <1>2, <1>3 DEF Next, LoopNext

\* For every turn: each of its runs moves forward only and gets one verdict, and the
\* child of a handoff is created by the step that completes its parent.
THEOREM RunsImplementRecord == Spec => ImplementsRecord
<1>1. Init => TurnOpen /\ Record!Init
  <2> SUFFICES ASSUME Init PROVE TurnOpen /\ Record!Init
    OBVIOUS
  <2>1. Len(runs) = 1 /\ DOMAIN runs = {1} /\ runs[1].status = "running"
    BY DEF Init
  <2> QED
    BY <2>1 DEF Init, TurnOpen, Record!Init, StatusOf
<1>2. IInv /\ TurnOpen /\ [Next]_vars => TurnOpen' /\ [Record!Next]_[r \in 1..MaxChain |-> StatusOf(r)]
  BY RecordStep DEF Statuses
<1> QED
  BY <1>1, <1>2, Invariance, PTL DEF Spec, ImplementsRecord, Record!Spec

=============================================================================
