------------------------ MODULE RunLifecycleProofs ------------------------
(***************************************************************************)
(* Proofs about RunLifecycle: the safety properties of runs and approvals *)
(* hold for every set of processes, runs and approvals, every deployment  *)
(* and every environment.  One theorem, that the rows implement RunRecord, *)
(* assumes that no other process writes a run between the request of an   *)
(* approval and markBlocked: without that the rows do not (TerminalIsFinal *)
(* of RunLifecycle).                                                       *)
(***************************************************************************)
EXTENDS RunLifecycle, FiniteSetTheorems, TLAPS

\* Nobody writes a run between the request of an approval and markBlocked.
NoPreemption == "preempt" \notin Environment

\* The row was taken back behind its trail: the next index is used.
Stuck(w, trail) == "preempt" \in Environment /\ \E s \in trail : s.index = w.last + 1

\* A row and its trail: no steps before the row exists; a run with a verdict
\* has it in both and waits for nothing; of any other run the steps are level
\* with the row and none is a verdict.  A row that is stuck may wait, or be
\* blocked, although its trail has a verdict.
RunExact(w, trail) ==
    /\ w = NoRun => trail = {}
    /\ w # NoRun /\ w.status \in Terminal =>
          /\ w.pending = {} \/ Stuck(w, trail)
          /\ \A s \in trail : s.type \in Terminal => s.type = w.status
    /\ w # NoRun /\ w.status \notin Terminal =>
          \/ \A s \in trail : s.index <= w.last /\ s.type \notin Terminal
          \/ /\ w.status = "blocked" /\ Stuck(w, trail)
             /\ \A s, t \in trail :
                   s.type \in Terminal /\ t.type \in Terminal => s.type = t.type

RunsExact == \A r \in Run : RunExact(row[r], steps[r])

\* The run got its verdict behind the back of its turn, under the index that
\* the turn is going to use next.
Beaten ==
    /\ Ended(turn.run) /\ row[turn.run].pending = {}
    /\ \E s \in steps[turn.run] : s.index = turn.cache.last + 1

\* A turn at work thinks its run is running, and is right or is beaten; a turn
\* that has asked for approvals is right, unless it was preempted.
TurnFollowsRow ==
    turn # NoTurn =>
        /\ turn.proc \in Present
        /\ row[turn.run] # NoRun
        /\ turn.phase = "working" =>
              /\ turn.cache.status = "running" /\ turn.cache.pending = {}
              /\ row[turn.run] = turn.cache \/ Beaten
              /\ Asked(turn.run) = {}
        /\ turn.phase = "asked" =>
              /\ turn.cache.status = "blocked" /\ Asked(turn.run) \subseteq turn.cache.pending
              /\ row[turn.run] = turn.cache \/ ("preempt" \in Environment /\ Beaten)

\* Approvals belong to a run that was blocked for them, or to one whose turn
\* died asking, sessions to approvals.
AskedOf(r, w, asked) ==
    /\ w = NoRun => asked = {}
    /\ w # NoRun /\ w.status = "queued" => asked = {}
    /\ w # NoRun /\ w.status = "running" /\ r \notin unserved => asked = {}
    /\ w # NoRun /\ w.status = "blocked" /\ r \notin unserved => asked \subseteq w.pending

AskedWhenBlocked ==
    \A r \in Run :
        /\ AskedOf(r, row[r], Asked(r))
        /\ Asked(r) = {} => \A p \in Present : session[p][r] = NoSession

Typed == TypeOK /\ steps \in [Run -> SUBSET Step]

\* The inductive invariant.
IInv ==
    /\ Typed
    /\ RunsExact
    /\ RunningServed
    /\ TurnFollowsRow
    /\ AskedWhenBlocked

-----------------------------------------------------------------------------
(* The tracker.  A tracker at work either agrees with the database (Fits),   *)
(* has lost its run to another writer (Lost), or has written the verdict     *)
(* itself (Settled).                                                         *)

Trackers == [row : Row, steps : SUBSET Step, cache : Row, ok : BOOLEAN]

Level(x) == \A s \in x.steps : s.index <= x.cache.last

Fits(x) ==
    /\ x \in Trackers
    /\ x.row = x.cache /\ x.cache.status = "running" /\ x.cache.pending = {}
    /\ Level(x) /\ \A s \in x.steps : s.type \notin Terminal

Lost(x) ==
    /\ x \in Trackers
    /\ x.row.status \in Terminal /\ x.row.pending = {} /\ x.cache.pending = {}
    /\ \A s \in x.steps : s.type \in Terminal => s.type = x.row.status
    /\ \E s \in x.steps : s.index = x.cache.last + 1

Settled(x, verdict) ==
    /\ x \in Trackers /\ x.ok
    /\ x.row = x.cache /\ x.row.status = verdict /\ x.row.pending = {}
    /\ Level(x) /\ \A s \in x.steps : s.type \in Terminal => s.type = verdict

\* y is x after some operations that know their run is the same.
SameRun(x, y) == y.row.kind = x.row.kind /\ y.row.parent = x.row.parent

\* What a writer may make of a status.
Goes(s, next) == next = s \/ Record!MayFollow(s, next)

LEMMA StatusTypes ==
    /\ Terminal \subseteq Status /\ Terminal \subseteq StepType
    /\ {"queued", "running", "blocked"} \subseteq Status
    /\ {"work", "request", "response"} \subseteq StepType
    /\ {"queued", "running", "blocked", "work", "request", "response"} \cap Terminal = {}
BY DEF Terminal, Status, StepType

\* What an insertion makes of a tracker.
InsertEffect(x, type, about, status, pending, y) ==
    /\ y \in Trackers
    /\ SameRun(x, y)
    /\ x.ok /\ IndexFree(x) =>
          /\ y.ok /\ y.cache = y.row
          /\ y.row.status = status /\ y.row.pending = pending
          /\ y.row.last = x.cache.last + 1
          /\ y.steps = x.steps \cup
                {[index |-> x.cache.last + 1, type |-> type, about |-> about]}
    /\ ~(x.ok /\ IndexFree(x)) =>
          ~y.ok /\ y.row = x.row /\ y.steps = x.steps /\ y.cache = x.cache

LEMMA InsertedEffect ==
    ASSUME NEW x \in Trackers, NEW type \in StepType, NEW about \in SUBSET Approval,
           NEW status \in Status, NEW pending \in SUBSET Approval
    PROVE  InsertEffect(x, type, about, status, pending,
                        Inserted(x, type, about, status, pending))
<1> DEFINE index == x.cache.last + 1
           new == [x.row EXCEPT !.status = status, !.last = index, !.pending = pending]
           step == [index |-> index, type |-> type, about |-> about]
<1>1. x.row \in Row /\ x.cache \in Row /\ x.steps \in SUBSET Step /\ index \in Nat
  BY DEF Trackers, Row
<1>2. new \in Row /\ new.kind = x.row.kind /\ new.parent = x.row.parent
      /\ new.status = status /\ new.last = index /\ new.pending = pending
  BY <1>1 DEF Row
<1>3. step \in Step
  BY <1>1 DEF Step
<1> DEFINE y == Inserted(x, type, about, status, pending)
<1>4. ASSUME x.ok /\ IndexFree(x)
      PROVE  InsertEffect(x, type, about, status, pending, y)
  <2>1. y = [row |-> new, cache |-> new, ok |-> TRUE, steps |-> x.steps \cup {step}]
    BY <1>4 DEF Inserted
  <2> HIDE DEF new, step, y
  <2> QED BY <1>1, <1>2, <1>3, <1>4, <2>1 DEF Trackers, SameRun, InsertEffect, index, step
<1>5. ASSUME ~(x.ok /\ IndexFree(x))
      PROVE  InsertEffect(x, type, about, status, pending, y)
  <2>1. y = [x EXCEPT !.ok = FALSE]
    BY <1>5 DEF Inserted
  <2> HIDE DEF y
  <2> QED BY <1>5, <2>1 DEF Trackers, SameRun, InsertEffect
<1> HIDE DEF y
<1>6. InsertEffect(x, type, about, status, pending, y)
  BY <1>4, <1>5
<1> QED BY <1>6 DEF y

LEMMA PersistEffect ==
    ASSUME NEW x \in Trackers, NEW status \in Status, NEW y, y = Persist(x, status)
    PROVE  /\ y \in Trackers
           /\ SameRun(x, y)
           /\ y.steps = x.steps /\ y.ok = x.ok
           /\ x.ok => /\ y.cache = y.row /\ y.row.status = status
                      /\ y.row.last = x.cache.last /\ y.row.pending = x.cache.pending
           /\ ~x.ok => y = x
<1> DEFINE new == [x.row EXCEPT !.status = status, !.last = x.cache.last,
                                !.pending = x.cache.pending]
<1>1. x.row \in Row /\ x.cache \in Row
  BY DEF Trackers
<1>2. new \in Row /\ new.kind = x.row.kind /\ new.parent = x.row.parent
      /\ new.status = status /\ new.last = x.cache.last /\ new.pending = x.cache.pending
  BY <1>1 DEF Row
<1>3. CASE x.ok
  <2>1. y = [x EXCEPT !.row = new, !.cache = new]
    BY <1>3 DEF Persist
  <2> HIDE DEF new
  <2> QED BY <1>2, <1>3, <2>1 DEF Trackers, SameRun
<1>4. CASE ~x.ok
  BY <1>4 DEF Persist, SameRun
<1> QED BY <1>3, <1>4

LEMMA CheckedEffect ==
    ASSUME NEW x \in Trackers, NEW status \in Status, NEW y, y = Checked(x, status)
    PROVE  /\ y \in Trackers
           /\ y.row = x.row /\ y.steps = x.steps /\ y.cache = x.cache
           /\ y.ok = (x.ok /\ MayBecome(x, status))
BY DEF Checked, Trackers, MayBecome

LEMMA SyncFits ==
    ASSUME NEW x, Fits(x)
    PROVE  Fits(SyncModelMessages(x)) /\ SameRun(x, SyncModelMessages(x))
           /\ SyncModelMessages(x).ok = x.ok /\ SyncModelMessages(x).cache.last = x.cache.last
<1> DEFINE y == SyncModelMessages(x)
<1>1. x \in Trackers /\ x.row.status \in Status
  BY StatusTypes DEF Fits, Trackers, Row
<1>2. /\ y \in Trackers /\ SameRun(x, y) /\ y.steps = x.steps /\ y.ok = x.ok
      /\ x.ok => /\ y.cache = y.row /\ y.row.status = x.row.status
                 /\ y.row.last = x.cache.last /\ y.row.pending = x.cache.pending
      /\ ~x.ok => y = x
  BY <1>1, PersistEffect DEF SyncModelMessages
<1> HIDE DEF y
<1>3. Fits(y) /\ y.cache.last = x.cache.last
  BY <1>2 DEF Fits, Level
<1> QED BY <1>2, <1>3 DEF y

LEMMA SyncLost ==
    ASSUME NEW x, Lost(x)
    PROVE  /\ Lost(SyncModelMessages(x)) /\ SameRun(x, SyncModelMessages(x))
           /\ SyncModelMessages(x).row.status = x.row.status
<1> DEFINE y == SyncModelMessages(x)
<1>1. x \in Trackers /\ x.row.status \in Status
  BY StatusTypes DEF Lost, Trackers, Row
<1>2. /\ y \in Trackers /\ SameRun(x, y) /\ y.steps = x.steps /\ y.ok = x.ok
      /\ x.ok => /\ y.cache = y.row /\ y.row.status = x.row.status
                 /\ y.row.last = x.cache.last /\ y.row.pending = x.cache.pending
      /\ ~x.ok => y = x
  BY <1>1, PersistEffect DEF SyncModelMessages
<1> HIDE DEF y
<1>3. Lost(y) /\ y.row.status = x.row.status
  <2>1. CASE x.ok
    BY <1>2, <2>1 DEF Lost
  <2>2. CASE ~x.ok
    BY <1>2, <2>2
  <2> QED BY <2>1, <2>2
<1> QED BY <1>2, <1>3 DEF y

LEMMA Transitions ==
    /\ AllowedStatusTransitions["running"] = {"blocked"} \cup Terminal
    /\ \A s \in Terminal : AllowedStatusTransitions[s] = {}
BY DEF AllowedStatusTransitions, Status, Terminal

LEMMA TableGoes ==
    /\ \A s \in Status : \A next \in AllowedStatusTransitions[s] : Goes(s, next)
    /\ \A s \in Terminal : \A next : Goes(s, next) => next = s
    /\ \A next \in {"blocked"} \cup Terminal : Goes("running", next)
    /\ \A s : Goes(s, s)
BY DEF AllowedStatusTransitions, Status, Terminal, Goes, Record!MayFollow, Record!Terminal

\* A verdict on a run that is the turn's own goes in.
LEMMA MarkFits ==
    ASSUME NEW x, Fits(x), x.ok, NEW verdict \in Terminal
    PROVE  Settled(Mark(x, verdict), verdict) /\ SameRun(x, Mark(x, verdict))
<1> DEFINE z == Checked(x, verdict)
           y == Inserted(z, verdict, {}, verdict, {})
<1>1. x \in Trackers /\ verdict \in Status /\ verdict \in StepType
  BY StatusTypes DEF Fits
<1>2. MayBecome(x, verdict)
  BY Transitions DEF MayBecome, Fits
<1>3. /\ z \in Trackers /\ z.row = x.row /\ z.steps = x.steps /\ z.cache = x.cache
      /\ z.ok
  BY <1>1, <1>2, CheckedEffect
<1> HIDE DEF z
<1>4. IndexFree(z)
  BY <1>3 DEF IndexFree, Fits, Level, Trackers, Row, Step
<1>8. InsertEffect(z, verdict, {}, verdict, {}, y)
  BY <1>1, <1>3, InsertedEffect
<1> HIDE DEF y
<1>5. /\ y \in Trackers /\ SameRun(z, y)
      /\ y.ok /\ y.cache = y.row /\ y.row.status = verdict /\ y.row.pending = {}
      /\ y.row.last = z.cache.last + 1
      /\ y.steps = z.steps \cup {[index |-> z.cache.last + 1, type |-> verdict, about |-> {}]}
  BY <1>3, <1>4, <1>8 DEF InsertEffect
<1>6. Settled(y, verdict)
  BY <1>3, <1>5 DEF Settled, Fits, Level, Trackers, Row, Step
<1>7. SameRun(x, y)
  BY <1>3, <1>5 DEF SameRun
<1> QED BY <1>6, <1>7 DEF y, z, Mark

\* ... and may be repeated.
LEMMA MarkSettled ==
    ASSUME NEW verdict \in Terminal, NEW x, Settled(x, verdict)
    PROVE  Settled(Mark(x, verdict), verdict) /\ SameRun(x, Mark(x, verdict))
<1> DEFINE z == Checked(x, verdict)
           y == Inserted(z, verdict, {}, verdict, {})
<1>1. x \in Trackers /\ verdict \in Status /\ verdict \in StepType /\ x.ok
  BY StatusTypes DEF Settled
<1>2. MayBecome(x, verdict)
  BY DEF MayBecome, Settled
<1>3. /\ z \in Trackers /\ z.row = x.row /\ z.steps = x.steps /\ z.cache = x.cache
      /\ z.ok
  BY <1>1, <1>2, CheckedEffect
<1> HIDE DEF z
<1>4. IndexFree(z)
  BY <1>3 DEF IndexFree, Settled, Level, Trackers, Row, Step
<1>8. InsertEffect(z, verdict, {}, verdict, {}, y)
  BY <1>1, <1>3, InsertedEffect
<1> HIDE DEF y
<1>5. /\ y \in Trackers /\ SameRun(z, y)
      /\ y.ok /\ y.cache = y.row /\ y.row.status = verdict /\ y.row.pending = {}
      /\ y.row.last = z.cache.last + 1
      /\ y.steps = z.steps \cup {[index |-> z.cache.last + 1, type |-> verdict, about |-> {}]}
  BY <1>3, <1>4, <1>8 DEF InsertEffect
<1>6. Settled(y, verdict)
  BY <1>3, <1>5 DEF Settled, Level, Trackers, Row, Step
<1>7. SameRun(x, y)
  BY <1>3, <1>5 DEF SameRun
<1> QED BY <1>6, <1>7 DEF y, z, Mark

\* Nothing a turn appends to a run that it has lost goes in: the index is taken.
LEMMA InsertedLost ==
    ASSUME NEW x, Lost(x), NEW type \in StepType, NEW about \in SUBSET Approval,
           NEW status \in Status, NEW pending \in SUBSET Approval
    PROVE  /\ Lost(Inserted(x, type, about, status, pending))
           /\ ~Inserted(x, type, about, status, pending).ok
           /\ Inserted(x, type, about, status, pending).row = x.row
<1>1. x \in Trackers /\ ~IndexFree(x)
  BY DEF Lost, IndexFree
<1> DEFINE y == Inserted(x, type, about, status, pending)
<1>4. InsertEffect(x, type, about, status, pending, y)
  BY <1>1, InsertedEffect
<1> HIDE DEF y
<1>2. /\ y \in Trackers
      /\ ~y.ok /\ y.row = x.row /\ y.steps = x.steps /\ y.cache = x.cache
  BY <1>1, <1>4 DEF InsertEffect
<1>3. Lost(y)
  BY <1>2 DEF Lost
<1> QED BY <1>2, <1>3 DEF y

LEMMA CheckedLost ==
    ASSUME NEW x, Lost(x), NEW status \in Status
    PROVE  Lost(Checked(x, status)) /\ Checked(x, status).row = x.row
BY CheckedEffect DEF Lost

LEMMA MarkLost ==
    ASSUME NEW x, Lost(x), NEW verdict \in Terminal
    PROVE  /\ Lost(Mark(x, verdict)) /\ ~Mark(x, verdict).ok
           /\ Mark(x, verdict).row = x.row
<1>1. verdict \in Status /\ verdict \in StepType
  BY StatusTypes
<1>2. Lost(Checked(x, verdict)) /\ Checked(x, verdict).row = x.row
  BY <1>1, CheckedLost
<1> QED BY <1>1, <1>2, InsertedLost DEF Mark

-----------------------------------------------------------------------------
(* The end of a turn.                                                        *)

\* What a turn leaves behind: a verdict, its own or the one that was there.
Final(x, y) ==
    /\ y.row \in Row /\ y.steps \in SUBSET Step
    /\ y.row.status \in Terminal
    /\ RunExact(y.row, y.steps)
    /\ SameRun(x, y)
    /\ x.row.status \in Terminal => y.row.status = x.row.status

LEMMA FinalSettled ==
    ASSUME NEW x, NEW verdict \in Terminal, NEW y,
           Fits(x), SameRun(x, y), Settled(y, verdict)
    PROVE  Final(x, y)
BY NullsAssumption, StatusTypes DEF Final, Settled, Fits, RunExact, Trackers, Terminal

LEMMA FinalLost ==
    ASSUME NEW x, NEW y, Lost(x), SameRun(x, y), Lost(y), y.row.status = x.row.status
    PROVE  Final(x, y)
BY NullsAssumption DEF Final, Lost, RunExact, Trackers

LEMMA CaughtOk ==
    ASSUME NEW x, x.ok, NEW verdict
    PROVE  Caught(x, verdict) = x
BY DEF Caught

LEMMA CaughtFits ==
    ASSUME NEW x, Fits(x), ~x.ok, NEW verdict \in Terminal
    PROVE  Settled(Caught(x, verdict), verdict) /\ SameRun(x, Caught(x, verdict))
<1> DEFINE z == [x EXCEPT !.ok = TRUE]
<1>1. Fits(z) /\ z.ok /\ SameRun(x, z) /\ x.cache.status = "running"
  BY DEF Fits, Trackers, Level, SameRun
<1> HIDE DEF z
<1>2. Settled(Mark(z, verdict), verdict) /\ SameRun(z, Mark(z, verdict))
  BY <1>1, MarkFits
<1>3. Caught(x, verdict) = Mark(z, verdict)
  BY <1>1 DEF Caught, z
<1> QED BY <1>1, <1>2, <1>3 DEF SameRun

LEMMA CaughtLost ==
    ASSUME NEW x, Lost(x), NEW verdict \in Terminal
    PROVE  Lost(Caught(x, verdict)) /\ Caught(x, verdict).row = x.row
<1>1. CASE ~x.ok /\ x.cache.status = "running"
  <2> DEFINE z == [x EXCEPT !.ok = TRUE]
  <2>1. Lost(z) /\ z.row = x.row
    BY DEF Lost, Trackers
  <2> HIDE DEF z
  <2>2. Lost(Mark(z, verdict)) /\ Mark(z, verdict).row = z.row
    BY <2>1, MarkLost
  <2>3. Caught(x, verdict) = Mark(z, verdict)
    BY <1>1 DEF Caught, z
  <2> QED BY <2>1, <2>2, <2>3
<1>2. CASE ~(~x.ok /\ x.cache.status = "running")
  BY <1>2 DEF Caught
<1> QED BY <1>1, <1>2

-----------------------------------------------------------------------------
(* The other operations.                                                     *)

LEMMA WorkFits ==
    ASSUME NEW x, Fits(x), x.ok
    PROVE  /\ Fits(RecordWork(x)) /\ RecordWork(x).ok
           /\ SameRun(x, RecordWork(x))
<1> DEFINE y == Inserted(x, "work", {}, x.row.status, x.cache.pending)
<1>1. /\ x \in Trackers /\ "work" \in StepType /\ "work" \notin Terminal
      /\ x.row.status \in Status /\ x.cache.pending \in SUBSET Approval
  BY StatusTypes DEF Fits, Trackers, Row
<1>2. InsertEffect(x, "work", {}, x.row.status, x.cache.pending, y)
  BY <1>1, InsertedEffect
<1>3. IndexFree(x)
  BY DEF IndexFree, Fits, Level, Trackers, Row, Step
<1> HIDE DEF y
<1>4. Fits(y) /\ y.ok /\ SameRun(x, y)
  BY <1>1, <1>2, <1>3 DEF Fits, InsertEffect, Level, Trackers, Row, Step
<1> QED BY <1>4 DEF y, RecordWork

LEMMA WorkLost ==
    ASSUME NEW x, Lost(x)
    PROVE  /\ Lost(RecordWork(x)) /\ ~RecordWork(x).ok
           /\ RecordWork(x).row = x.row
<1>1. "work" \in StepType /\ x.row.status \in Status /\ x.cache.pending \in SUBSET Approval
  BY StatusTypes DEF Lost, Trackers, Row
<1> QED BY <1>1, InsertedLost DEF RecordWork

\* The run is blocked, and names what it waits for.
Blocks(x, asked, y) ==
    /\ y \in Trackers /\ y.ok /\ SameRun(x, y)
    /\ y.row = y.cache /\ y.row.status = "blocked" /\ y.row.pending = asked
    /\ RunExact(y.row, y.steps)

LEMMA RequestFits ==
    ASSUME NEW x, Fits(x), x.ok, NEW asked \in SUBSET Approval
    PROVE  Blocks(x, asked, RecordRequest(x, asked))
<1> DEFINE z == Checked(x, "blocked")
           y == Inserted(z, "request", asked, "blocked", x.cache.pending \cup asked)
<1>1. /\ x \in Trackers /\ "blocked" \in Status /\ "request" \in StepType
      /\ "blocked" \notin Terminal /\ "request" \notin Terminal
      /\ x.cache.pending \cup asked = asked
  BY StatusTypes DEF Fits
<1>2. MayBecome(x, "blocked")
  BY Transitions DEF MayBecome, Fits
<1>3. /\ z \in Trackers /\ z.row = x.row /\ z.steps = x.steps /\ z.cache = x.cache
      /\ z.ok
  BY <1>1, <1>2, CheckedEffect
<1> HIDE DEF z
<1>4. IndexFree(z)
  BY <1>3 DEF IndexFree, Fits, Level, Trackers, Row, Step
<1>5. InsertEffect(z, "request", asked, "blocked", asked, y)
  BY <1>1, <1>3, InsertedEffect
<1> HIDE DEF y
<1>6. /\ y \in Trackers /\ SameRun(z, y)
      /\ y.ok /\ y.cache = y.row /\ y.row.status = "blocked" /\ y.row.pending = asked
      /\ y.row.last = z.cache.last + 1
      /\ y.steps = z.steps \cup {[index |-> z.cache.last + 1, type |-> "request", about |-> asked]}
  BY <1>3, <1>4, <1>5 DEF InsertEffect
<1>7. \A s \in y.steps : s.index <= y.row.last /\ s.type \notin Terminal
  BY <1>1, <1>3, <1>6 DEF Fits, Level, Trackers, Row, Step
<1>8. RunExact(y.row, y.steps)
  BY <1>1, <1>6, <1>7, NullsAssumption DEF RunExact, Trackers
<1>9. SameRun(x, y)
  BY <1>3, <1>6 DEF SameRun
<1>10. y = RecordRequest(x, asked)
  BY <1>3 DEF y, z, RecordRequest
<1> QED BY <1>6, <1>8, <1>9, <1>10 DEF Blocks

LEMMA RequestLost ==
    ASSUME NEW x, Lost(x), NEW asked \in SUBSET Approval
    PROVE  /\ Lost(RecordRequest(x, asked)) /\ ~RecordRequest(x, asked).ok
           /\ RecordRequest(x, asked).row = x.row
<1>1. /\ "request" \in StepType /\ "blocked" \in Status
      /\ x.cache.pending \cup asked \in SUBSET Approval
  BY StatusTypes DEF Lost
<1>2. Lost(Checked(x, "blocked")) /\ Checked(x, "blocked").row = x.row
  BY <1>1, CheckedLost
<1> QED BY <1>1, <1>2, InsertedLost DEF RecordRequest

\* A tracker that has just read its row, whatever that says.
Aware(x) == x \in Trackers /\ x.row = x.cache /\ RunExact(x.row, x.steps)

\* y is x, or x with a verdict that its status allows.
Judged(x, verdict, y) ==
    /\ y \in Trackers /\ SameRun(x, y) /\ RunExact(y.row, y.steps)
    /\ Goes(x.row.status, y.row.status)
    /\ ~y.ok => y.row = x.row /\ y.steps = x.steps
    /\ y.ok => /\ y.row.status = verdict /\ y.row.pending = {}
               /\ \E s \in y.steps : s.index = x.row.last + 1

LEMMA MarkAware ==
    ASSUME NEW x, Aware(x), x.ok, NEW verdict \in Terminal
    PROVE  Judged(x, verdict, Mark(x, verdict))
<1> DEFINE z == Checked(x, verdict)
           y == Inserted(z, verdict, {}, verdict, {})
<1>1. x \in Trackers /\ verdict \in Status /\ verdict \in StepType
  BY StatusTypes DEF Aware
<1>2. /\ z \in Trackers /\ z.row = x.row /\ z.steps = x.steps /\ z.cache = x.cache
      /\ z.ok => MayBecome(x, verdict)
  BY <1>1, CheckedEffect
<1>3. InsertEffect(z, verdict, {}, verdict, {}, y)
  BY <1>1, <1>2, InsertedEffect
<1> HIDE DEF z, y
<1>4. CASE z.ok /\ IndexFree(z)
  <2>1. /\ y \in Trackers /\ SameRun(z, y)
        /\ y.ok /\ y.cache = y.row /\ y.row.status = verdict /\ y.row.pending = {}
        /\ y.steps = z.steps \cup {[index |-> z.cache.last + 1, type |-> verdict, about |-> {}]}
    BY <1>3, <1>4 DEF InsertEffect
  <2>2. Goes(x.row.status, verdict)
    BY <1>2, <1>4, TableGoes DEF MayBecome, Aware, Trackers, Row
  <2>5. \A s \in x.steps : s.type \in Terminal => s.type = verdict
    <3>1. ~Stuck(x.row, x.steps) /\ x.row # NoRun
      BY <1>2, <1>4, NullsAssumption DEF Stuck, IndexFree, Aware, Trackers
    <3> QED BY <2>2, <3>1, TableGoes DEF RunExact, Aware
  <2>3. RunExact(y.row, y.steps)
    BY <1>2, <2>1, <2>5, NullsAssumption DEF RunExact, Trackers
  <2> DEFINE step == [index |-> z.cache.last + 1, type |-> verdict, about |-> {}]
  <2>4. step \in y.steps /\ step.index = x.row.last + 1
    BY <1>2, <2>1 DEF Aware
  <2> HIDE DEF step
  <2> QED BY <1>2, <2>1, <2>2, <2>3, <2>4 DEF Judged, SameRun, y, z, Mark
<1>5. CASE ~(z.ok /\ IndexFree(z))
  <2>1. y \in Trackers /\ ~y.ok /\ y.row = z.row /\ y.steps = z.steps
    BY <1>3, <1>5 DEF InsertEffect
  <2> QED BY <1>2, <2>1, TableGoes DEF Judged, SameRun, Aware, y, z, Mark
<1> QED BY <1>4, <1>5

\* y is x with one more response in its trail, or x.
Responds(x, y) ==
    /\ y \in Trackers /\ SameRun(x, y) /\ RunExact(y.row, y.steps)
    /\ y.row.status = x.row.status /\ y.row.pending = x.row.pending

LEMMA ResponseAware ==
    ASSUME NEW x, Aware(x), x.ok, NEW a \in Approval
    PROVE  Responds(x, RecordResponse(x, a))
<1> DEFINE y == Inserted(x, "response", {a}, x.row.status, x.cache.pending)
<1>1. /\ x \in Trackers /\ "response" \in StepType /\ "response" \notin Terminal
      /\ x.row.status \in Status /\ x.cache.pending \in SUBSET Approval
      /\ x.row = x.cache
  BY StatusTypes DEF Aware, Trackers, Row
<1>2. InsertEffect(x, "response", {a}, x.row.status, x.cache.pending, y)
  BY <1>1, InsertedEffect
<1> HIDE DEF y
<1>3. Responds(x, y)
  <2>1. CASE IndexFree(x)
    <3>1. /\ y \in Trackers /\ SameRun(x, y)
          /\ y.row.status = x.row.status /\ y.row.pending = x.cache.pending
          /\ y.row.last = x.cache.last + 1
          /\ y.steps = x.steps \cup
                {[index |-> x.cache.last + 1, type |-> "response", about |-> {a}]}
      BY <1>2, <2>1 DEF InsertEffect
    <3>2. ~Stuck(x.row, x.steps) /\ x.row # NoRun /\ y.row # NoRun
      BY <1>1, <2>1, <3>1, NullsAssumption DEF Stuck, IndexFree, Trackers
    <3>3. ASSUME x.row.status \in Terminal
          PROVE  RunExact(y.row, y.steps)
      <4>1. /\ x.row.pending = {}
            /\ \A s \in x.steps : s.type \in Terminal => s.type = x.row.status
        BY <3>2, <3>3 DEF RunExact, Aware
      <4>2. \A s \in y.steps : s.type \in Terminal => s.type = y.row.status
        BY <1>1, <3>1, <4>1
      <4>3. y.row # NoRun /\ y.row.status \in Terminal /\ y.row.pending = {}
        BY <1>1, <3>1, <3>2, <3>3, <4>1
      <4> QED BY <4>2, <4>3 DEF RunExact
    <3>4. ASSUME x.row.status \notin Terminal
          PROVE  RunExact(y.row, y.steps)
      <4>1. \A s \in x.steps : s.index <= x.row.last /\ s.type \notin Terminal
        BY <3>2, <3>4 DEF RunExact, Aware
      <4>2. \A s \in y.steps : s.index <= y.row.last /\ s.type \notin Terminal
        BY <1>1, <3>1, <4>1 DEF Trackers, Row, Step
      <4>3. y.row # NoRun /\ y.row.status \notin Terminal
        BY <3>1, <3>2, <3>4
      <4> QED BY <4>2, <4>3 DEF RunExact
    <3> QED BY <1>1, <3>1, <3>3, <3>4 DEF Responds
  <2>2. CASE ~IndexFree(x)
    BY <1>1, <1>2, <2>2 DEF InsertEffect, Responds, Aware, SameRun
  <2> QED BY <2>1, <2>2
<1>4. CASE NewResponse(x, a)
  BY <1>3, <1>4 DEF RecordResponse, y
<1>5. CASE ~NewResponse(x, a)
  BY <1>1, <1>5 DEF RecordResponse, Responds, Aware, SameRun
<1> QED BY <1>4, <1>5

-----------------------------------------------------------------------------
(* The turn's tracker, and what every step leaves alone.                    *)

\* A step never removes a run or changes what it is; without preemption it moves
\* it along the table only.
Kept ==
    \A r \in Run :
        /\ row[r] # NoRun =>
              /\ row'[r] # NoRun
              /\ row'[r].kind = row[r].kind /\ row'[r].parent = row[r].parent
              /\ NoPreemption => Goes(row[r].status, row'[r].status)
        /\ row[r] = NoRun /\ row'[r] # NoRun => row'[r].status \in {"queued", "running"}

\* Only a resumption creates a continuation.
NoChild == \A c \in Run : row[c] = NoRun /\ row'[c] # NoRun => row'[c].kind # "resume"

\* A turn that goes on after a write executes a running run; a run that gets its
\* verdict from a turn has not asked for approvals.
Honest ==
    /\ turn' # NoTurn /\ turn'.phase = "working" => row'[turn'.run].status = "running"
    /\ \A r \in Run : Ended(r)' /\ ~Ended(r) => Asked(r) = {}

LEMMA VerdictType == Verdict \in Terminal
BY DEF Verdict, Terminal

LEMMA HeldState ==
    ASSUME IInv, Working
    PROVE  /\ turn.run \in Run /\ turn.proc \in Present /\ turn \in Turn
           /\ row[turn.run] \in Row /\ Held.ok /\ Asked(turn.run) = {}
           /\ Fits(Held) \/ Lost(Held)
           /\ Held.row = row[turn.run] /\ Held.steps = steps[turn.run]
           /\ Held.cache = turn.cache
<1>1. turn \in Turn /\ turn.run \in Run /\ turn.cache \in Row
  BY DEF IInv, Typed, TypeOK, Working, Turn
<1>2. /\ turn.proc \in Present /\ row[turn.run] # NoRun /\ Asked(turn.run) = {}
      /\ turn.cache.status = "running" /\ turn.cache.pending = {}
      /\ row[turn.run] = turn.cache \/ Beaten
  BY DEF IInv, TurnFollowsRow, Working
<1>3. row[turn.run] \in Row /\ steps[turn.run] \in SUBSET Step
  BY <1>1, <1>2 DEF IInv, Typed, TypeOK
<1>4. /\ Held.row = row[turn.run] /\ Held.steps = steps[turn.run]
      /\ Held.cache = turn.cache /\ Held.ok /\ Held \in Trackers
  BY <1>1, <1>3 DEF Held, Tracker, Trackers
<1>5. RunExact(row[turn.run], steps[turn.run])
  BY <1>1 DEF IInv, RunsExact
<1>6. ASSUME row[turn.run] = turn.cache PROVE Fits(Held)
  <2>1. \A s \in Held.steps : s.index <= Held.cache.last /\ s.type \notin Terminal
    BY <1>2, <1>4, <1>5, <1>6, StatusTypes DEF RunExact
  <2> QED BY <1>2, <1>4, <1>6, <2>1 DEF Fits, Level
<1>7. ASSUME Beaten PROVE Lost(Held)
  <2>1. /\ Held.row.status \in Terminal /\ Held.row.pending = {}
        /\ \A s \in Held.steps : s.type \in Terminal => s.type = Held.row.status
    BY <1>4, <1>5, <1>7, NullsAssumption DEF RunExact, Beaten, Ended
  <2>2. \E s \in Held.steps : s.index = Held.cache.last + 1
    BY <1>4, <1>7 DEF Beaten
  <2> QED BY <1>2, <1>4, <2>1, <2>2 DEF Lost
<1> QED BY <1>1, <1>2, <1>3, <1>4, <1>6, <1>7

\* A step that writes one run and its trail.
LEMMA Written ==
    ASSUME IInv, NEW r \in Run, NEW x, x.row \in Row, x.steps \in SUBSET Step,
           RunExact(x.row, x.steps), Save(r, x)
    PROVE  /\ row' \in [Run -> Row \cup {NoRun}] /\ steps' \in [Run -> SUBSET Step]
           /\ RunsExact'
           /\ row'[r] = x.row /\ steps'[r] = x.steps
           /\ \A q \in Run \ {r} : row'[q] = row[q] /\ steps'[q] = steps[q]
<1>1. row \in [Run -> Row \cup {NoRun}] /\ steps \in [Run -> SUBSET Step]
  BY DEF IInv, Typed, TypeOK
<1>2. row' \in [Run -> Row \cup {NoRun}] /\ steps' \in [Run -> SUBSET Step]
  BY <1>1 DEF Save
<1>3. /\ row'[r] = x.row /\ steps'[r] = x.steps
      /\ \A q \in Run \ {r} : row'[q] = row[q] /\ steps'[q] = steps[q]
  BY <1>1 DEF Save
<1>4. RunsExact'
  BY <1>3 DEF IInv, RunsExact
<1> QED BY <1>2, <1>3, <1>4

\* The turn ends with a verdict on its run; what it asked for may be registered.
LEMMA TurnEnds ==
    ASSUME IInv, Working, NEW x, EndWith(x), Final(Held, Caught(x, Verdict)),
           session' = session,
           approval' \in [Askable -> ApprovalRow \cup {NoApproval}],
           \A a \in Askable : \/ approval'[a] = approval[a]
                              \/ approval[a] = NoApproval /\ approval'[a].run = turn.run
    PROVE  IInv' /\ Kept /\ NoChild /\ Honest
<1> DEFINE y == Caught(x, Verdict)
<1>1. /\ turn.run \in Run /\ row[turn.run] \in Row /\ Held.row = row[turn.run]
      /\ Asked(turn.run) = {}
  BY HeldState
<1>2. /\ y.row \in Row /\ y.steps \in SUBSET Step /\ y.row.status \in Terminal
      /\ RunExact(y.row, y.steps)
      /\ y.row.kind = row[turn.run].kind /\ y.row.parent = row[turn.run].parent
      /\ row[turn.run].status \in Terminal => y.row.status = row[turn.run].status
  BY <1>1 DEF Final, SameRun
<1>3. Save(turn.run, y) /\ turn' = NoTurn /\ unserved' = unserved /\ torn' = torn
  BY DEF EndWith, history
<1> HIDE DEF y
<1>4. /\ row' \in [Run -> Row \cup {NoRun}] /\ steps' \in [Run -> SUBSET Step]
      /\ RunsExact'
      /\ row'[turn.run] = y.row
      /\ \A q \in Run \ {turn.run} : row'[q] = row[q]
  BY <1>1, <1>2, <1>3, Written
<1>5. Askable' = Askable /\ Present' = Present
  BY DEF Askable, Present
<1>6. Typed'
  BY <1>3, <1>4, <1>5 DEF IInv, Typed, TypeOK
<1>7. RunningServed'
  BY <1>2, <1>3, <1>4, StatusTypes DEF IInv, RunningServed
<1>8. TurnFollowsRow'
  BY <1>3 DEF TurnFollowsRow
<1>9. \A r \in Run \ {turn.run} : Asked(r)' = Asked(r)
  BY <1>5 DEF Asked
<1>10. AskedWhenBlocked'
  <2> SUFFICES ASSUME NEW r \in Run
               PROVE  /\ AskedOf(r, row'[r], Asked(r)')
                      /\ Asked(r)' = {} => \A p \in Present : session[p][r] = NoSession
    BY <1>3, <1>5 DEF AskedWhenBlocked, AskedOf
  <2>1. CASE r = turn.run
    BY <1>1, <1>2, <1>4, <2>1, NullsAssumption, StatusTypes
       DEF IInv, AskedWhenBlocked, AskedOf
  <2>2. CASE r # turn.run
    BY <1>4, <1>9, <2>2 DEF IInv, AskedWhenBlocked
  <2> QED BY <2>1, <2>2
<1>11. Goes(row[turn.run].status, y.row.status)
  <2>1. Held.row.status = "running" \/ Held.row.status \in Terminal
    BY HeldState DEF Fits, Lost
  <2> QED BY <1>1, <1>2, <2>1, TableGoes
<1>12. Kept
  BY <1>1, <1>2, <1>4, <1>11, TableGoes, NullsAssumption DEF Kept
<1>13. NoChild
  BY <1>1, <1>4, NullsAssumption DEF NoChild
<1>14. Honest
  <2>1. \A r \in Run \ {turn.run} : Ended(r)' => Ended(r)
    BY <1>4 DEF Ended
  <2> QED BY <1>1, <1>3, <2>1 DEF Honest
<1> QED BY <1>4, <1>6, <1>7, <1>8, <1>10, <1>12, <1>13, <1>14 DEF IInv

\* A turn that throws, having written z or nothing, leaves a verdict.
LEMMA CaughtFinal ==
    ASSUME NEW x, NEW z, ~z.ok, SameRun(x, z), NEW verdict \in Terminal,
           \/ Fits(x) /\ Fits(z)
           \/ Lost(x) /\ Lost(z) /\ z.row = x.row
    PROVE  Final(x, Caught(z, verdict))
<1>1. CASE Fits(x) /\ Fits(z)
  <2>1. Settled(Caught(z, verdict), verdict) /\ SameRun(z, Caught(z, verdict))
    BY <1>1, CaughtFits
  <2>2. SameRun(x, Caught(z, verdict))
    BY <2>1 DEF SameRun
  <2> QED BY <1>1, <2>1, <2>2, FinalSettled
<1>2. CASE Lost(x) /\ Lost(z) /\ z.row = x.row
  <2>1. Lost(Caught(z, verdict)) /\ Caught(z, verdict).row = z.row
    BY <1>2, CaughtLost
  <2>2. SameRun(x, Caught(z, verdict)) /\ Caught(z, verdict).row.status = x.row.status
    BY <1>2, <2>1 DEF SameRun
  <2> QED BY <1>2, <2>1, <2>2, FinalLost
<1> QED BY <1>1, <1>2

\* A turn that completes its run, having written y, leaves a verdict.
LEMMA MarkFinal ==
    ASSUME NEW x, NEW y, SameRun(x, y), NEW verdict \in Terminal, NEW v \in Terminal,
           \/ Fits(x) /\ Fits(y) /\ y.ok
           \/ Lost(x) /\ Lost(y) /\ y.row.status = x.row.status
    PROVE  Final(x, Caught(Mark(y, verdict), v))
<1> DEFINE z == Mark(y, verdict)
<1>1. CASE Fits(x) /\ Fits(y) /\ y.ok
  <2>1. Settled(z, verdict) /\ SameRun(y, z)
    BY <1>1, MarkFits
  <2>2. SameRun(x, z) /\ z.ok
    BY <2>1 DEF SameRun, Settled
  <2> HIDE DEF z
  <2>3. Caught(z, v) = z
    BY <2>2, CaughtOk
  <2>4. Final(x, z)
    BY <1>1, <2>1, <2>2, FinalSettled
  <2> QED BY <2>3, <2>4 DEF z
<1>2. CASE Lost(x) /\ Lost(y) /\ y.row.status = x.row.status
  <2>1. Lost(z) /\ z.row = y.row
    BY <1>2, MarkLost
  <2> HIDE DEF z
  <2>2. Lost(Caught(z, v)) /\ Caught(z, v).row = z.row
    BY <2>1, CaughtLost
  <2>3. SameRun(x, Caught(z, v)) /\ Caught(z, v).row.status = x.row.status
    BY <1>2, <2>1, <2>2 DEF SameRun
  <2>4. Final(x, Caught(z, v))
    BY <1>2, <2>2, <2>3, FinalLost
  <2> QED BY <2>4 DEF z
<1> QED BY <1>1, <1>2

\* ... also when it completes it twice.
LEMMA MarkTwiceFinal ==
    ASSUME NEW x, NEW y, SameRun(x, y), NEW verdict \in Terminal, NEW v \in Terminal,
           \/ Fits(x) /\ Fits(y) /\ y.ok
           \/ Lost(x) /\ Lost(y) /\ y.row.status = x.row.status
    PROVE  Final(x, Caught(Mark(Mark(y, verdict), verdict), v))
<1> DEFINE z == Mark(y, verdict)
<1>1. CASE Fits(x) /\ Fits(y) /\ y.ok
  <2>1. Settled(z, verdict) /\ SameRun(y, z)
    BY <1>1, MarkFits
  <2> HIDE DEF z
  <2> DEFINE w == Mark(z, verdict)
  <2>2. Settled(w, verdict) /\ SameRun(z, w)
    BY <2>1, MarkSettled
  <2>3. SameRun(x, w) /\ w.ok
    BY <2>1, <2>2 DEF SameRun, Settled
  <2> HIDE DEF w
  <2>4. Caught(w, v) = w
    BY <2>3, CaughtOk
  <2>5. Final(x, w)
    BY <1>1, <2>2, <2>3, FinalSettled
  <2> QED BY <2>4, <2>5 DEF z, w
<1>2. CASE Lost(x) /\ Lost(y) /\ y.row.status = x.row.status
  <2>1. Lost(z) /\ z.row = y.row
    BY <1>2, MarkLost
  <2>2. SameRun(x, z) /\ z.row.status = x.row.status
    BY <1>2, <2>1 DEF SameRun
  <2> HIDE DEF z
  <2>3. Final(x, Caught(Mark(z, verdict), v))
    BY <1>2, <2>1, <2>2, MarkFinal
  <2> QED BY <2>3 DEF z
<1> QED BY <1>1, <1>2

\* The messages of the turn's run are synced before it completes or asks.
LEMMA SyncHeld ==
    ASSUME IInv, Working
    PROVE  LET y == SyncModelMessages(Held)
           IN /\ SameRun(Held, y)
              /\ \/ Fits(Held) /\ Fits(y) /\ y.ok
                 \/ Lost(Held) /\ Lost(y) /\ y.row.status = Held.row.status
<1>1. Held.ok /\ (Fits(Held) \/ Lost(Held))
  BY HeldState
<1> HIDE DEF Held
<1>2. CASE Fits(Held)
  BY <1>1, <1>2, SyncFits
<1>3. CASE Lost(Held)
  BY <1>3, SyncLost
<1> QED BY <1>1, <1>2, <1>3

\* Nothing of the approvals changes.
LEMMA SameApprovals ==
    ASSUME IInv, approval' = approval
    PROVE  /\ approval' \in [Askable -> ApprovalRow \cup {NoApproval}]
           /\ \A a \in Askable : \/ approval'[a] = approval[a]
                                 \/ approval[a] = NoApproval /\ approval'[a].run = turn.run
BY DEF IInv, Typed, TypeOK

LEMMA CompleteStep ==
    ASSUME IInv, Complete
    PROVE  IInv' /\ Kept /\ NoChild /\ Honest
<1> DEFINE y == SyncModelMessages(Held)
<1>1. Working /\ approval' = approval /\ session' = session
  BY DEF Complete
<1>2. Held.ok /\ (Fits(Held) \/ Lost(Held)) /\ SameRun(Held, Held)
  BY <1>1, HeldState DEF SameRun
<1>3. /\ SameRun(Held, y)
      /\ \/ Fits(Held) /\ Fits(y) /\ y.ok
         \/ Lost(Held) /\ Lost(y) /\ y.row.status = Held.row.status
  BY <1>1, SyncHeld
<1>4. EndWith(Mark(y, "completed")) \/ EndWith(Mark(Held, "completed"))
  BY DEF Complete
<1>5. "completed" \in Terminal
  BY DEF Terminal
<1> HIDE DEF y
<1>6. /\ Final(Held, Caught(Mark(y, "completed"), Verdict))
      /\ Final(Held, Caught(Mark(Held, "completed"), Verdict))
  BY <1>2, <1>3, <1>5, VerdictType, MarkFinal
<1>7. CASE EndWith(Mark(y, "completed"))
  BY <1>1, <1>6, <1>7, SameApprovals, TurnEnds
<1>8. CASE EndWith(Mark(Held, "completed"))
  BY <1>1, <1>6, <1>8, SameApprovals, TurnEnds
<1> QED BY <1>4, <1>7, <1>8

LEMMA ThrowStep ==
    ASSUME IInv, Throw
    PROVE  IInv' /\ Kept /\ NoChild /\ Honest
<1> DEFINE z == Thrown(Held)
<1>1. Working /\ approval' = approval /\ session' = session /\ EndWith(z)
  BY DEF Throw
<1>2. Fits(Held) \/ Lost(Held)
  BY <1>1, HeldState
<1>3. /\ ~z.ok /\ SameRun(Held, z) /\ z.row = Held.row
      /\ \/ Fits(Held) /\ Fits(z)
         \/ Lost(Held) /\ Lost(z)
  BY <1>2 DEF Thrown, Fits, Lost, Trackers, Level, SameRun
<1> HIDE DEF z
<1>4. Final(Held, Caught(z, Verdict))
  BY <1>3, VerdictType, CaughtFinal
<1> QED BY <1>1, <1>4, SameApprovals, TurnEnds

LEMMA HandOffEndsStep ==
    ASSUME IInv, HandOffEnds
    PROVE  IInv' /\ Kept /\ NoChild /\ Honest
<1> DEFINE y == SyncModelMessages(Held)
           m == Mark(Mark(y, "completed"), "completed")
<1>1. Working /\ approval' = approval /\ session' = session /\ EndWith(m)
  BY DEF HandOffEnds
<1>2. /\ SameRun(Held, y)
      /\ \/ Fits(Held) /\ Fits(y) /\ y.ok
         \/ Lost(Held) /\ Lost(y) /\ y.row.status = Held.row.status
  BY <1>1, SyncHeld
<1>3. "completed" \in Terminal
  BY DEF Terminal
<1> HIDE DEF y
<1>4. Final(Held, Caught(m, Verdict))
  BY <1>2, <1>3, VerdictType, MarkTwiceFinal
<1> HIDE DEF m
<1> QED BY <1>1, <1>4, SameApprovals, TurnEnds

LEMMA WorkStep ==
    ASSUME IInv, Work
    PROVE  IInv' /\ Kept /\ NoChild /\ Honest
<1> DEFINE x == RecordWork(Held)
<1>1. Working /\ approval' = approval /\ session' = session
  BY DEF Work
<1>2. /\ turn.run \in Run /\ turn.proc \in Present /\ turn \in Turn
      /\ row[turn.run] \in Row /\ Held.ok /\ Asked(turn.run) = {}
      /\ Fits(Held) \/ Lost(Held)
      /\ Held.row = row[turn.run]
  BY <1>1, HeldState
<1>3. \/ Fits(Held) /\ Fits(x) /\ x.ok /\ SameRun(Held, x)
      \/ Lost(Held) /\ Lost(x) /\ ~x.ok /\ x.row = Held.row
  BY <1>2, WorkFits, WorkLost
<1> HIDE DEF x
<1>4. CASE ~x.ok
  <2>1. EndWith(x)
    BY <1>4 DEF Work, x
  <2>2. SameRun(Held, x)
    BY <1>3 DEF SameRun
  <2>3. Final(Held, Caught(x, Verdict))
    BY <1>3, <1>4, <2>2, VerdictType, CaughtFinal
  <2> QED BY <1>1, <2>1, <2>3, SameApprovals, TurnEnds
<1>5. CASE x.ok
  <2>1. /\ Fits(x) /\ SameRun(Held, x)
        /\ Save(turn.run, x) /\ turn' = [turn EXCEPT !.cache = x.cache]
        /\ unserved' = unserved /\ torn' = torn
    BY <1>3, <1>5 DEF Work, x, EndWith, history
  <2>2. /\ x.row \in Row /\ x.steps \in SUBSET Step /\ x.row = x.cache
        /\ x.row.status = "running" /\ x.row.pending = {}
        /\ x.row.kind = row[turn.run].kind /\ x.row.parent = row[turn.run].parent
    BY <1>2, <2>1 DEF Fits, Trackers, SameRun
  <2>3. RunExact(x.row, x.steps)
    BY <2>1, <2>2, NullsAssumption, StatusTypes DEF RunExact, Fits, Level
  <2>4. /\ row' \in [Run -> Row \cup {NoRun}] /\ steps' \in [Run -> SUBSET Step]
        /\ RunsExact'
        /\ row'[turn.run] = x.row
        /\ \A q \in Run \ {turn.run} : row'[q] = row[q]
    BY <1>2, <2>1, <2>2, <2>3, Written
  <2>5. Askable' = Askable /\ Present' = Present /\ \A r : Asked(r)' = Asked(r)
    BY <1>1 DEF Askable, Present, Asked
  <2>6. /\ turn' \in Turn /\ turn' # NoTurn /\ turn'.run = turn.run
        /\ turn'.proc = turn.proc /\ turn'.phase = "working" /\ turn'.cache = x.row
    BY <1>1, <1>2, <2>1, <2>2, NullsAssumption DEF Turn, Working
  <2>7. Typed'
    BY <1>1, <2>1, <2>4, <2>5, <2>6 DEF IInv, Typed, TypeOK
  <2>8. RunningServed'
    BY <1>1, <2>1, <2>4, <2>6 DEF IInv, RunningServed, Working
  <2>9. TurnFollowsRow'
    BY <1>2, <2>2, <2>4, <2>5, <2>6, NullsAssumption DEF TurnFollowsRow
  <2>10. AskedWhenBlocked'
    BY <1>1, <1>2, <2>1, <2>2, <2>4, <2>5, NullsAssumption DEF IInv, AskedWhenBlocked, AskedOf
  <2>11. Kept
    BY <1>3, <1>5, <1>2, <2>2, <2>4, TableGoes, NullsAssumption, StatusTypes DEF Kept, Fits
  <2>12. NoChild
    BY <1>2, <2>4, NullsAssumption DEF NoChild
  <2>13. Honest
    BY <1>2, <2>2, <2>4, <2>6, StatusTypes DEF Honest, Ended
  <2> QED BY <2>4, <2>7, <2>8, <2>9, <2>10, <2>11, <2>12, <2>13 DEF IInv
<1> QED BY <1>4, <1>5

LEMMA HandOffStep ==
    ASSUME IInv, NEW c \in Run, HandOff(c)
    PROVE  IInv' /\ Kept /\ NoChild /\ Honest
<1> DEFINE y == SyncModelMessages(Held)
           x == Mark(y, "completed")
           new == NewRow("handoff", turn.run)
<1>1. /\ Working /\ approval' = approval /\ session' = session
      /\ unserved' = unserved /\ torn' = torn
      /\ row[c] = NoRun /\ x.ok
      /\ row' = [row EXCEPT ![turn.run] = x.row, ![c] = new]
      /\ steps' = [steps EXCEPT ![turn.run] = x.steps]
      /\ turn' = [turn EXCEPT !.run = c, !.cache = new]
  BY DEF HandOff, Unused, history
<1>2. /\ turn.run \in Run /\ turn.proc \in Present /\ turn \in Turn
      /\ row[turn.run] \in Row /\ Asked(turn.run) = {}
      /\ Held.row = row[turn.run]
  BY <1>1, HeldState
<1>3. /\ SameRun(Held, y)
      /\ \/ Fits(Held) /\ Fits(y) /\ y.ok
         \/ Lost(Held) /\ Lost(y) /\ y.row.status = Held.row.status
  BY <1>1, SyncHeld
<1>4. "completed" \in Terminal
  BY DEF Terminal
<1> HIDE DEF y
<1>5. /\ Fits(Held) /\ Settled(x, "completed") /\ SameRun(y, x)
  BY <1>1, <1>3, <1>4, MarkFits, MarkLost
<1> HIDE DEF x
<1>6. Final(Held, x)
  <2>1. SameRun(Held, x)
    BY <1>3, <1>5 DEF SameRun
  <2> QED BY <1>4, <1>5, <2>1, FinalSettled
<1>7. /\ x.row \in Row /\ x.steps \in SUBSET Step /\ x.row.status \in Terminal
      /\ RunExact(x.row, x.steps)
      /\ x.row.kind = row[turn.run].kind /\ x.row.parent = row[turn.run].parent
      /\ row[turn.run].status \notin Terminal
  BY <1>2, <1>5, <1>6, StatusTypes DEF Final, SameRun, Fits
<1>8. /\ new \in Row /\ new.status = "running" /\ new.pending = {}
      /\ new.kind = "handoff"
  BY <1>2, StatusTypes DEF NewRow, Row
<1> HIDE DEF new
<1>9. row \in [Run -> Row \cup {NoRun}] /\ steps \in [Run -> SUBSET Step] /\ c # turn.run
  BY <1>1, <1>2, NullsAssumption DEF IInv, Typed, TypeOK
<1>10. /\ row' \in [Run -> Row \cup {NoRun}] /\ steps' \in [Run -> SUBSET Step]
       /\ row'[turn.run] = x.row /\ row'[c] = new
       /\ steps'[turn.run] = x.steps /\ steps'[c] = steps[c]
       /\ \A q \in Run \ {turn.run, c} : row'[q] = row[q] /\ steps'[q] = steps[q]
  BY <1>1, <1>2, <1>7, <1>8, <1>9
<1>11. steps[c] = {}
  BY <1>1 DEF IInv, RunsExact, RunExact
<1>12. RunExact(new, {})
  BY <1>8, NullsAssumption, StatusTypes DEF RunExact
<1>13. RunsExact'
  BY <1>7, <1>10, <1>11, <1>12 DEF IInv, RunsExact
<1>14. Askable' = Askable /\ Present' = Present /\ \A r : Asked(r)' = Asked(r)
  BY <1>1 DEF Askable, Present, Asked
<1>15. /\ turn' \in Turn /\ turn' # NoTurn /\ turn'.run = c
       /\ turn'.proc = turn.proc /\ turn'.phase = "working" /\ turn'.cache = new
  BY <1>1, <1>2, <1>8, NullsAssumption DEF Turn, Working
<1>16. Typed'
  BY <1>1, <1>10, <1>14, <1>15 DEF IInv, Typed, TypeOK
<1>17. RunningServed'
  BY <1>1, <1>7, <1>10, <1>15, StatusTypes DEF IInv, RunningServed, Working
<1>18. Asked(c) = {}
  BY <1>1 DEF IInv, AskedWhenBlocked, AskedOf
<1>19. TurnFollowsRow'
  BY <1>2, <1>8, <1>10, <1>14, <1>15, <1>18, NullsAssumption DEF TurnFollowsRow
<1>20. AskedWhenBlocked'
  BY <1>1, <1>2, <1>7, <1>8, <1>9, <1>10, <1>14, <1>18, NullsAssumption, StatusTypes
     DEF IInv, AskedWhenBlocked, AskedOf
<1>21. Goes(row[turn.run].status, x.row.status)
  BY <1>2, <1>5, <1>7, TableGoes DEF Fits
<1>22. Kept
  BY <1>1, <1>2, <1>7, <1>8, <1>10, <1>21, TableGoes, NullsAssumption DEF Kept
<1>23. NoChild
  BY <1>2, <1>8, <1>10, NullsAssumption DEF NoChild
<1>24. Honest
  BY <1>2, <1>8, <1>10, <1>15, <1>18, StatusTypes DEF Honest, Ended
<1> QED BY <1>13, <1>16, <1>17, <1>19, <1>20, <1>22, <1>23, <1>24 DEF IInv

LEMMA NewTurnType ==
    ASSUME NEW p \in Proc, NEW r \in Run, NEW kind \in {"stream", "resume", "send"},
           NEW cache \in Row
    PROVE  LET t == NewTurn(p, r, kind, cache)
           IN /\ t \in Turn /\ t # NoTurn /\ t.run = r /\ t.proc = p
              /\ t.phase = "working" /\ t.cache = cache
<1>1. NewTurn(p, r, kind, cache) \in Turn
  BY DEF NewTurn, Turn
<1> QED BY <1>1, NullsAssumption DEF NewTurn

\* A run is created for a turn that takes it, or is lost at once.
LEMMA StartStep ==
    ASSUME IInv, NEW r \in Run, row[r] = NoRun, turn = NoTurn,
           NEW parent \in Run \cup {NoRun},
           row' = [row EXCEPT ![r] = NewRow("turn", parent)],
           steps' = steps, approval' = approval, session' = session, torn' = torn,
           \/ /\ unserved' = unserved
              /\ \E p \in Present, kind \in {"stream", "send"} :
                    p \in Proc /\ turn' = NewTurn(p, r, kind, NewRow("turn", parent))
           \/ unserved' = unserved \cup {r} /\ turn' = turn
    PROVE  IInv' /\ Kept /\ NoChild /\ Honest
<1> DEFINE new == NewRow("turn", parent)
<1>1. new \in Row /\ new.status = "running" /\ new.pending = {} /\ new.kind = "turn"
  BY StatusTypes DEF NewRow, Row
<1>2. \/ turn' = NoTurn /\ unserved' = unserved \cup {r}
      \/ /\ unserved' = unserved
         /\ turn' \in Turn /\ turn' # NoTurn /\ turn'.run = r
         /\ turn'.proc \in Present /\ turn'.phase = "working" /\ turn'.cache = new
  <2>1. ASSUME NEW p \in Present, NEW kind \in {"stream", "send"}, p \in Proc,
               turn' = NewTurn(p, r, kind, new)
        PROVE  /\ turn' \in Turn /\ turn' # NoTurn /\ turn'.run = r
               /\ turn'.proc \in Present /\ turn'.phase = "working" /\ turn'.cache = new
    <3> HIDE DEF new
    <3> QED BY <1>1, <2>1, NewTurnType
  <2> QED BY <2>1
<1> HIDE DEF new
<1>3. row \in [Run -> Row \cup {NoRun}]
  BY DEF IInv, Typed, TypeOK
<1>4. /\ row' \in [Run -> Row \cup {NoRun}] /\ row'[r] = new
      /\ \A q \in Run \ {r} : row'[q] = row[q]
  BY <1>1, <1>3 DEF new
<1>5. RunsExact'
  <2>1. steps[r] = {}
    BY DEF IInv, RunsExact, RunExact
  <2>2. RunExact(new, {})
    BY <1>1, NullsAssumption, StatusTypes DEF RunExact
  <2> QED BY <1>4, <2>1, <2>2 DEF IInv, RunsExact
<1>6. Askable' = Askable /\ Present' = Present /\ \A q : Asked(q)' = Asked(q)
  BY DEF Askable, Present, Asked
<1>7. Typed'
  BY <1>2, <1>4, <1>6 DEF IInv, Typed, TypeOK
<1>8. RunningServed'
  BY <1>2, <1>4 DEF IInv, RunningServed
<1>9. Asked(r) = {}
  BY DEF IInv, AskedWhenBlocked, AskedOf
<1>10. TurnFollowsRow'
  BY <1>1, <1>2, <1>4, <1>6, <1>9, NullsAssumption DEF TurnFollowsRow
<1>11. AskedWhenBlocked'
  BY <1>1, <1>2, <1>4, <1>6, <1>9, NullsAssumption DEF IInv, AskedWhenBlocked, AskedOf
<1>12. Kept
  BY <1>1, <1>4, TableGoes DEF Kept
<1>13. NoChild
  BY <1>1, <1>4 DEF NoChild
<1>14. Honest
  BY <1>1, <1>2, <1>4, <1>9, StatusTypes DEF Honest, Ended
<1> QED BY <1>5, <1>7, <1>8, <1>10, <1>11, <1>12, <1>13, <1>14 DEF IInv

\* What is registered was not asked for before, and is all the run has asked for.
LEMMA RegisteredEffect ==
    ASSUME IInv, NEW asked \in SUBSET Approval, Asking(asked), NEW r \in Run, r = turn.run,
           approval' = Registered(asked)
    PROVE  /\ approval' \in [Askable -> ApprovalRow \cup {NoApproval}] /\ Askable' = Askable
           /\ \A a \in Askable : \/ approval'[a] = approval[a]
                                 \/ approval[a] = NoApproval /\ approval'[a].run = turn.run
           /\ Registering(asked) \subseteq asked /\ asked \subseteq Askable
           /\ Asked(r)' = Registering(asked)
           /\ \A q \in Run \ {r} : Asked(q)' = Asked(q)
           /\ \A q \in Run \ {r} : \A s : InState(q, s)' = InState(q, s)
           /\ InState(r, "consumed")' = {} /\ InState(r, "consumed") = {}
<1> DEFINE registered == Registering(asked)
<1>1. /\ Working /\ asked \subseteq Askable /\ \A a \in asked : approval[a] = NoApproval
      /\ registered \subseteq asked
      /\ approval' = [a \in Askable |-> IF a \in registered
                                         THEN [run |-> r, state |-> "pending"]
                                         ELSE approval[a]]
  BY DEF Asking, Registered, Registering
<1> HIDE DEF registered
<1>2. /\ approval \in [Askable -> ApprovalRow \cup {NoApproval}]
      /\ Asked(r) = {}
  BY <1>1, HeldState DEF IInv, Typed, TypeOK
<1>3. [run |-> r, state |-> "pending"] \in ApprovalRow
  BY DEF ApprovalRow
<1>4. approval' \in [Askable -> ApprovalRow \cup {NoApproval}] /\ Askable' = Askable
  BY <1>1, <1>2, <1>3 DEF Askable
<1>5. /\ \A a \in registered : approval'[a] = [run |-> r, state |-> "pending"]
      /\ \A a \in Askable \ registered : approval'[a] = approval[a]
      /\ \A a \in registered : a \in Askable /\ approval[a] = NoApproval
  BY <1>1
<1>6. Asked(r)' = registered
  <2>1. \A a \in Askable : a \notin registered => ~(approval[a] # NoApproval /\ approval[a].run = r)
    BY <1>2 DEF Asked
  <2> QED BY <1>3, <1>4, <1>5, <2>1, NullsAssumption DEF Asked
<1>7. \A q \in Run \ {r} : Asked(q)' = Asked(q)
  BY <1>4, <1>5 DEF Asked
<1>8. \A q \in Run \ {r} : \A s : InState(q, s)' = InState(q, s)
  <2> SUFFICES ASSUME NEW q \in Run \ {r}, NEW s
               PROVE  \A a \in Asked(q) : approval'[a] = approval[a]
    BY <1>7 DEF InState
  <2> QED BY <1>5 DEF Asked
<1>9. InState(r, "consumed")' = {} /\ InState(r, "consumed") = {}
  <2>1. \A a \in registered : approval'[a].state = "pending"
    BY <1>5
  <2> QED BY <1>2, <1>6, <2>1 DEF InState
<1>10. \A a \in Askable : \/ approval'[a] = approval[a]
                          \/ approval[a] = NoApproval /\ approval'[a].run = turn.run
  BY <1>5
<1> QED BY <1>1, <1>4, <1>6, <1>7, <1>8, <1>9, <1>10 DEF registered

\* The tracker that is about to record a request, and after it.
LEMMA ToAskState ==
    ASSUME IInv, Working
    PROVE  /\ SameRun(Held, ToAsk)
           /\ \/ Fits(Held) /\ Fits(ToAsk) /\ ToAsk.ok
              \/ Lost(Held) /\ Lost(ToAsk) /\ ToAsk.row.status = Held.row.status
BY HeldState, SyncHeld DEF ToAsk, SameRun

LEMMA RequestEffect ==
    ASSUME IInv, Working, NEW asked \in SUBSET Approval
    PROVE  LET x == RecordRequest(ToAsk, asked)
           IN \/ Fits(Held) /\ Blocks(Held, asked, x)
              \/ /\ Lost(Held) /\ Lost(x) /\ ~x.ok
                 /\ SameRun(Held, x) /\ x.row.status = Held.row.status
<1>1. /\ SameRun(Held, ToAsk)
      /\ \/ Fits(Held) /\ Fits(ToAsk) /\ ToAsk.ok
         \/ Lost(Held) /\ Lost(ToAsk) /\ ToAsk.row.status = Held.row.status
  BY ToAskState
<1> DEFINE x == RecordRequest(ToAsk, asked)
<1>2. CASE Fits(Held) /\ Fits(ToAsk) /\ ToAsk.ok
  <2>1. Blocks(ToAsk, asked, x)
    BY <1>2, RequestFits
  <2> HIDE DEF x
  <2> QED BY <1>1, <1>2, <2>1 DEF Blocks, SameRun, x
<1>3. CASE Lost(Held) /\ Lost(ToAsk) /\ ToAsk.row.status = Held.row.status
  <2>1. Lost(x) /\ ~x.ok /\ x.row = ToAsk.row
    BY <1>3, RequestLost
  <2> HIDE DEF x
  <2> QED BY <1>1, <1>3, <2>1 DEF SameRun, x
<1> QED BY <1>1, <1>2, <1>3

LEMMA RequestStep ==
    ASSUME IInv, NEW asked \in SUBSET Approval, RequestApproval(asked)
    PROVE  /\ IInv' /\ Kept /\ NoChild /\ Honest
           /\ ~Ended(turn.run) => row'[turn.run].status = "blocked"
           /\ Ended(turn.run) => session' = session
<1> DEFINE x == RecordRequest(ToAsk, asked)
           registered == Registering(asked)
           opened == [open |-> asked, collected |-> {}]
<1>1. /\ Working /\ Asking(asked)
      /\ approval' = Registered(asked)
      /\ \/ /\ x.ok
            /\ Save(turn.run, x)
            /\ turn' = [turn EXCEPT !.cache = x.cache, !.phase = "asked"]
            /\ session' = IF registered = {} THEN session
                          ELSE [session EXCEPT ![turn.proc][turn.run] = opened]
            /\ unserved' = unserved /\ torn' = torn
         \/ ~x.ok /\ EndWith(x) /\ session' = session
  BY DEF RequestApproval, Asking, history
<1>2. /\ turn.run \in Run /\ turn.proc \in Present /\ turn \in Turn
      /\ row[turn.run] \in Row /\ Held.ok /\ Asked(turn.run) = {}
      /\ Fits(Held) \/ Lost(Held)
      /\ Held.row = row[turn.run]
  BY <1>1, HeldState
<1>3. \/ Fits(Held) /\ Blocks(Held, asked, x)
      \/ /\ Lost(Held) /\ Lost(x) /\ ~x.ok
         /\ SameRun(Held, x) /\ x.row.status = Held.row.status
  BY <1>1, RequestEffect
<1> HIDE DEF x, registered
<1>4. PICK run \in Run : run = turn.run
  BY <1>2
<1>5. /\ approval' \in [Askable -> ApprovalRow \cup {NoApproval}] /\ Askable' = Askable
      /\ \A a \in Askable : \/ approval'[a] = approval[a]
                            \/ approval[a] = NoApproval /\ approval'[a].run = turn.run
      /\ registered \subseteq asked /\ asked \subseteq Askable
      /\ Asked(run)' = registered
      /\ \A q \in Run \ {run} : Asked(q)' = Asked(q)
  BY <1>1, <1>4, RegisteredEffect DEF registered
<1>6. session \in [Present -> [Run -> Session \cup {NoSession}]]
  BY DEF IInv, Typed, TypeOK
<1>9. CASE ~x.ok
  <2>1. EndWith(x) /\ session' = session
    BY <1>1, <1>9
  <2>2. Lost(Held) /\ Lost(x) /\ SameRun(Held, x) /\ x.row.status = Held.row.status
    BY <1>3, <1>9 DEF Blocks
  <2>3. Lost(Caught(x, Verdict)) /\ Caught(x, Verdict).row = x.row
    BY <2>2, VerdictType, CaughtLost
  <2>4. Final(Held, Caught(x, Verdict))
    <3>1. SameRun(Held, Caught(x, Verdict))
          /\ Caught(x, Verdict).row.status = Held.row.status
      BY <2>2, <2>3 DEF SameRun
    <3> QED BY <2>2, <2>3, <3>1, FinalLost
  <2>5. Ended(turn.run)
    BY <1>2, <2>2, NullsAssumption DEF Lost, Ended
  <2> QED BY <1>1, <1>5, <2>1, <2>4, <2>5, TurnEnds
<1>10. CASE x.ok
  <2>1. /\ Fits(Held) /\ Blocks(Held, asked, x) /\ Save(turn.run, x)
        /\ turn' = [turn EXCEPT !.cache = x.cache, !.phase = "asked"]
        /\ session' = IF registered = {} THEN session
                      ELSE [session EXCEPT ![turn.proc][turn.run] = opened]
        /\ unserved' = unserved /\ torn' = torn
    BY <1>1, <1>3, <1>10
  <2>2. /\ x.row \in Row /\ x.steps \in SUBSET Step /\ x.row = x.cache
        /\ x.row.status = "blocked" /\ x.row.pending = asked
        /\ x.row.kind = row[turn.run].kind /\ x.row.parent = row[turn.run].parent
        /\ RunExact(x.row, x.steps)
        /\ row[turn.run].status \notin Terminal
    BY <1>2, <2>1, StatusTypes DEF Blocks, Fits, Trackers, SameRun
  <2>3. /\ row' \in [Run -> Row \cup {NoRun}] /\ steps' \in [Run -> SUBSET Step]
        /\ RunsExact'
        /\ row'[turn.run] = x.row
        /\ \A q \in Run \ {turn.run} : row'[q] = row[q]
    BY <1>2, <2>1, <2>2, Written
  <2>4. opened \in Session
    BY DEF Session
  <2> HIDE DEF opened
  <2>5. /\ session' \in [Present -> [Run -> Session \cup {NoSession}]]
        /\ \A p \in Present, r \in Run \ {turn.run} : session'[p][r] = session[p][r]
        /\ registered = {} => session' = session
    BY <1>2, <1>6, <2>1, <2>4
  <2>6. Present' = Present
    BY <2>5 DEF Present
  <2>9. /\ turn' \in Turn /\ turn' # NoTurn /\ turn'.run = turn.run
        /\ turn'.proc = turn.proc /\ turn'.phase = "asked" /\ turn'.cache = x.row
    BY <1>1, <1>2, <2>1, <2>2, NullsAssumption, ZenonT(60) DEF Turn, Working
  <2>10. Typed'
    BY <1>5, <2>1, <2>3, <2>5, <2>6, <2>9 DEF IInv, Typed, TypeOK
  <2>11. RunningServed'
    BY <1>1, <2>1, <2>3, <2>9 DEF IInv, RunningServed, Working
  <2>12. TurnFollowsRow'
    <3>1. turn'.run = run /\ Asked(run)' \subseteq turn'.cache.pending
      BY <1>4, <1>5, <2>2, <2>9
    <3>2. turn'.proc \in Present' /\ row'[turn'.run] = turn'.cache /\ row'[turn'.run] # NoRun
      BY <1>2, <2>2, <2>3, <2>6, <2>9, NullsAssumption
    <3> QED BY <2>2, <2>9, <3>1, <3>2 DEF TurnFollowsRow
  <2>13. AskedWhenBlocked'
    <3> SUFFICES ASSUME NEW r \in Run
                 PROVE  /\ AskedOf(r, row'[r], Asked(r)')
                        /\ Asked(r)' = {} => \A p \in Present : session'[p][r] = NoSession
      BY <2>1, <2>6 DEF AskedWhenBlocked, AskedOf
    <3>1. CASE r = run
      <4>1. Asked(r)' = registered /\ row'[r] = x.row
        BY <1>4, <1>5, <2>3, <3>1
      <4>2. \A p \in Present : session[p][r] = NoSession
        BY <1>2, <1>4, <3>1 DEF IInv, AskedWhenBlocked
      <4> QED BY <1>5, <2>2, <2>5, <4>1, <4>2, NullsAssumption DEF AskedOf
    <3>2. CASE r # run
      BY <1>4, <1>5, <2>3, <2>5, <3>2 DEF IInv, AskedWhenBlocked
    <3> QED BY <3>1, <3>2
  <2>14. Goes(row[turn.run].status, "blocked")
    BY <1>2, <2>1, TableGoes DEF Fits
  <2>15. Kept
    BY <1>2, <2>2, <2>3, <2>14, TableGoes, NullsAssumption DEF Kept
  <2>16. NoChild
    BY <1>2, <2>3, NullsAssumption DEF NoChild
  <2>17. Honest
    BY <1>2, <2>2, <2>3, <2>9, StatusTypes DEF Honest, Ended
  <2>18. ~Ended(turn.run) /\ row'[turn.run].status = "blocked"
    BY <2>2, <2>3 DEF Ended
  <2> QED BY <2>18, <2>3, <2>10, <2>11, <2>12, <2>13, <2>15, <2>16, <2>17 DEF IInv
<1> QED BY <1>9, <1>10

LEMMA ForgottenFollows ==
    ASSUME IInv, NEW p \in Present, session' = Forgotten(p)
    PROVE  /\ session' \in [Present -> [Run -> Session \cup {NoSession}]]
           /\ Present' = Present
           /\ \A r \in Run : session'[p][r] = NoSession
           /\ \A o \in Present, r \in Run : session'[o][r] \in {session[o][r], NoSession}
BY DEF IInv, Typed, TypeOK, Forgotten, Present

\* What the run of a turn that dies asking is left with.
LEMMA CutRequest ==
    ASSUME IInv, Working, NEW recorded \in SUBSET Approval, NEW x,
           x = (IF recorded = {} THEN ToAsk ELSE RecordRequest(ToAsk, recorded)), x.ok
    PROVE  /\ x.row \in Row /\ x.steps \in SUBSET Step /\ RunExact(x.row, x.steps)
           /\ SameRun(Held, x) /\ Goes(Held.row.status, x.row.status)
           /\ x.row.status # "queued"
           /\ x.row.status \in Terminal => x.row.status = Held.row.status
<1>1. CASE recorded = {}
  <2>1. /\ x = ToAsk /\ SameRun(Held, x)
        /\ \/ Fits(Held) /\ Fits(x)
           \/ Lost(Held) /\ Lost(x) /\ x.row.status = Held.row.status
    BY <1>1, ToAskState
  <2>2. CASE Fits(Held) /\ Fits(x)
    BY <2>1, <2>2, TableGoes, NullsAssumption, StatusTypes
       DEF Fits, Level, RunExact, Trackers
  <2>3. CASE Lost(Held) /\ Lost(x) /\ x.row.status = Held.row.status
    BY <2>1, <2>3, TableGoes, NullsAssumption, StatusTypes DEF Lost, RunExact, Trackers
  <2> QED BY <2>1, <2>2, <2>3
<1>2. CASE recorded # {}
  <2>1. x = RecordRequest(ToAsk, recorded)
    BY <1>2
  <2>2. Fits(Held) /\ Blocks(Held, recorded, x)
    BY <2>1, RequestEffect
  <2> QED BY <2>2, TableGoes, StatusTypes DEF Fits, Blocks, Trackers
<1> QED BY <1>1, <1>2

LEMMA CrashInRequestStep ==
    ASSUME IInv, NEW asked \in SUBSET Approval, NEW recorded \in SUBSET Approval,
           CrashInRequest(asked, recorded)
    PROVE  IInv' /\ Kept /\ NoChild
           /\ \A r \in Run : Ended(r)' => Ended(r)
<1> DEFINE x == IF recorded = {} THEN ToAsk ELSE RecordRequest(ToAsk, recorded)
<1>1. /\ Working /\ Asking(asked) /\ x.ok /\ Save(turn.run, x)
      /\ approval' = Registered(asked) /\ turn.proc \in Present
      /\ session' = Forgotten(turn.proc) /\ torn' = torn
      /\ turn' = NoTurn /\ unserved' = unserved \cup {turn.run}
  BY DEF CrashInRequest, Asking, Working, Dies, TurnLost
<1>2. /\ turn.run \in Run /\ row[turn.run] \in Row /\ Asked(turn.run) = {}
      /\ Held.row = row[turn.run]
  BY <1>1, HeldState
<1>3. /\ x.row \in Row /\ x.steps \in SUBSET Step /\ RunExact(x.row, x.steps)
      /\ x.row.kind = row[turn.run].kind /\ x.row.parent = row[turn.run].parent
      /\ Goes(row[turn.run].status, x.row.status) /\ x.row.status # "queued"
      /\ x.row.status \in Terminal => x.row.status = row[turn.run].status
  BY <1>1, <1>2, CutRequest DEF SameRun
<1> HIDE DEF x
<1>4. PICK run \in Run : run = turn.run
  BY <1>2
<1>5. /\ approval' \in [Askable -> ApprovalRow \cup {NoApproval}] /\ Askable' = Askable
      /\ \A q \in Run \ {run} : Asked(q)' = Asked(q)
  BY <1>1, <1>4, RegisteredEffect
<1>6. /\ row' \in [Run -> Row \cup {NoRun}] /\ steps' \in [Run -> SUBSET Step]
      /\ RunsExact'
      /\ row'[run] = x.row
      /\ \A q \in Run \ {run} : row'[q] = row[q]
  BY <1>1, <1>2, <1>3, <1>4, Written
<1>7. /\ session' \in [Present -> [Run -> Session \cup {NoSession}]] /\ Present' = Present
      /\ \A o \in Present, r \in Run : session'[o][r] \in {session[o][r], NoSession}
  BY <1>1, ForgottenFollows
<1>8. Typed'
  BY <1>1, <1>4, <1>5, <1>6, <1>7 DEF IInv, Typed, TypeOK
<1>9. RunningServed'
  BY <1>1, <1>4, <1>6 DEF IInv, RunningServed
<1>10. TurnFollowsRow'
  BY <1>1 DEF TurnFollowsRow
<1>11. AskedWhenBlocked'
  <2> SUFFICES ASSUME NEW r \in Run
               PROVE  /\ AskedOf(r, row[r], Asked(r))'
                      /\ Asked(r)' = {} => \A p \in Present : session'[p][r] = NoSession
    BY <1>7 DEF AskedWhenBlocked, AskedOf
  <2>1. CASE r = run
    <3>1. \A p \in Present : session'[p][r] = NoSession
      BY <1>2, <1>4, <1>7, <2>1 DEF IInv, AskedWhenBlocked
    <3>2. r \in unserved' /\ row'[r] # NoRun /\ row'[r].status # "queued"
      BY <1>1, <1>3, <1>4, <1>6, <2>1, NullsAssumption
    <3> QED BY <3>1, <3>2 DEF AskedOf
  <2>2. CASE r # run
    <3>1. AskedOf(r, row[r], Asked(r)) /\ (Asked(r) = {} => \A p \in Present : session[p][r] = NoSession)
      BY DEF IInv, AskedWhenBlocked
    <3> QED BY <1>1, <1>5, <1>6, <1>7, <2>2, <3>1 DEF AskedOf
  <2> QED BY <2>1, <2>2
<1>12. Kept
  BY <1>2, <1>3, <1>4, <1>6, TableGoes, NullsAssumption DEF Kept
<1>13. NoChild
  BY <1>2, <1>4, <1>6, NullsAssumption DEF NoChild
<1>14. \A r \in Run : Ended(r)' => Ended(r)
  BY <1>2, <1>3, <1>4, <1>6, NullsAssumption DEF Ended
<1> QED BY <1>6, <1>8, <1>9, <1>10, <1>11, <1>12, <1>13, <1>14 DEF IInv

\* Blocking a run that its request has blocked changes nothing.
LEMMA BlockedAgain ==
    ASSUME NEW x \in Trackers, x.ok, x.row = x.cache, x.row.status = "blocked"
    PROVE  /\ MarkBlocked(x).ok /\ MarkBlocked(x).steps = x.steps
           /\ MarkBlocked(x).row = x.row /\ MarkBlocked(x).cache = x.row
           /\ SyncModelMessages(x) = x
<1>1. "blocked" \in Status
  BY StatusTypes
<1> DEFINE z == Checked(x, "blocked")
           y == Persist(z, "blocked")
<1>2. /\ z \in Trackers /\ z.row = x.row /\ z.steps = x.steps /\ z.cache = x.cache /\ z.ok
  <2>1. MayBecome(x, "blocked")
    BY DEF MayBecome
  <2> QED BY <1>1, <2>1, CheckedEffect
<1> HIDE DEF z
<1>3. /\ y \in Trackers /\ SameRun(z, y) /\ y.steps = z.steps /\ y.ok
      /\ y.cache = y.row /\ y.row.status = "blocked"
      /\ y.row.last = z.cache.last /\ y.row.pending = z.cache.pending
  BY <1>1, <1>2, PersistEffect
<1> HIDE DEF y
<1>4. y.row = x.row
  <2>1. y.row \in Row /\ x.row \in Row
    BY <1>3 DEF Trackers
  <2> QED BY <1>2, <1>3, <2>1 DEF SameRun, Row
<1>5. SyncModelMessages(x) = x
  <2>1. x.row = [x.row EXCEPT !.status = x.row.status, !.last = x.cache.last,
                              !.pending = x.cache.pending]
    BY DEF Trackers, Row
  <2> QED BY <2>1 DEF SyncModelMessages, Persist, Trackers
<1> QED BY <1>2, <1>3, <1>4, <1>5 DEF MarkBlocked, y, z

\* Approvals change their state and nothing else.
Restated ==
    /\ approval' \in [Askable -> ApprovalRow \cup {NoApproval}]
    /\ \A a \in Askable : /\ approval'[a] = NoApproval <=> approval[a] = NoApproval
                          /\ approval[a] # NoApproval => approval'[a].run = approval[a].run

\* Sessions are opened only for approvals that were asked for.
SessionsFollow ==
    /\ session' \in [Present -> [Run -> Session \cup {NoSession}]]
    /\ \A p \in Present, r \in Run :
          session'[p][r] # NoSession => session[p][r] # NoSession \/ Asked(r) # {}

LEMMA RestatedAsked ==
    ASSUME IInv, Restated
    PROVE  Askable' = Askable /\ \A r : Asked(r)' = Asked(r)
<1>1. Askable' = Askable
  BY DEF Restated, Askable
<1>2. \A r : Asked(r)' = Asked(r)
  BY <1>1 DEF Asked, Restated
<1> QED BY <1>1, <1>2

LEMMA SameRestated ==
    ASSUME IInv, approval' = approval
    PROVE  Restated
BY DEF Restated, IInv, Typed, TypeOK

LEMMA SameSessions ==
    ASSUME IInv, session' = session
    PROVE  SessionsFollow
BY DEF IInv, Typed, TypeOK, SessionsFollow

\* The turn stays, or is lost together with its process.
Leaves ==
    \/ turn' = turn /\ unserved' = unserved
    \/ /\ turn # NoTurn /\ turn' = NoTurn
       /\ unserved' = unserved \cup {turn.run}

LEMMA LostLeaves ==
    ASSUME NEW p, TurnLost(p)
    PROVE  Leaves /\ (turn # NoTurn /\ turn.proc = p => turn' = NoTurn)
BY DEF TurnLost, Leaves

\* A step that writes no run: the turn goes on, or leaves a run that is not
\* running or is lost.
LEMMA Unwritten ==
    ASSUME IInv, row' = row, steps' = steps, Restated, SessionsFollow, torn' \in SUBSET Run,
           \/ Leaves
           \/ /\ unserved' = unserved /\ turn # NoTurn /\ turn' \in Turn
              /\ turn'.proc = turn.proc /\ turn'.run = turn.run
              /\ turn'.phase = turn.phase /\ turn'.cache = turn.cache
    PROVE  IInv' /\ Kept /\ NoChild
<1>1. /\ Askable' = Askable /\ Present' = Present /\ \A r : Asked(r)' = Asked(r)
  BY RestatedAsked DEF Present, SessionsFollow
<1>2. /\ unserved \in SUBSET Run /\ (turn # NoTurn => turn.run \in Run)
      /\ turn \in Turn \cup {NoTurn}
  BY DEF IInv, Typed, TypeOK, Turn
<1>3. unserved \subseteq unserved' /\ unserved' \in SUBSET Run /\ turn' \in Turn \cup {NoTurn}
  BY <1>2 DEF Leaves
<1>4. Typed'
  BY <1>1, <1>3 DEF IInv, Typed, TypeOK, Restated, SessionsFollow
<1>5. RunsExact'
  BY DEF IInv, RunsExact
<1>6. RunningServed'
  BY <1>3, NullsAssumption DEF IInv, RunningServed, Leaves
<1>7. TurnFollowsRow'
  <2>1. CASE turn' = NoTurn
    BY <2>1 DEF TurnFollowsRow
  <2>2. CASE turn' = turn
    BY <1>1, <2>2 DEF IInv, TurnFollowsRow, Beaten, Ended
  <2>3. CASE /\ turn # NoTurn /\ turn'.proc = turn.proc /\ turn'.run = turn.run
             /\ turn'.phase = turn.phase /\ turn'.cache = turn.cache
    BY <1>1, <2>3 DEF IInv, TurnFollowsRow, Beaten, Ended
  <2> QED BY <2>1, <2>2, <2>3 DEF Leaves
<1>8. AskedWhenBlocked'
  <2> SUFFICES ASSUME NEW r \in Run
               PROVE  /\ AskedOf(r, row[r], Asked(r))'
                      /\ Asked(r)' = {} => \A p \in Present : session'[p][r] = NoSession
    BY <1>1 DEF AskedWhenBlocked
  <2>1. AskedOf(r, row[r], Asked(r)) /\ (Asked(r) = {} => \A p \in Present : session[p][r] = NoSession)
    BY DEF IInv, AskedWhenBlocked
  <2>2. AskedOf(r, row[r], Asked(r))'
    BY <1>1, <1>3, <2>1 DEF AskedOf
  <2>3. Asked(r)' = {} => \A p \in Present : session'[p][r] = NoSession
    BY <1>1, <2>1 DEF SessionsFollow
  <2> QED BY <2>2, <2>3
<1> QED BY <1>4, <1>5, <1>6, <1>7, <1>8, TableGoes DEF IInv, Kept, NoChild

\* A preempted turn cannot be stopped from blocking a run that has ended.
Overwrites(x, y) ==
    /\ y.row \in Row /\ y.steps = x.steps /\ SameRun(x, y)
    /\ RunExact(y.row, y.steps)
    /\ y.row.status = x.row.status \/ (y.row.status = "blocked" /\ y.row.pending = x.cache.pending)

LEMMA BlockBeaten ==
    ASSUME NEW x \in Trackers, x.ok, x.cache.status = "blocked", x.row.status \in Terminal,
           "preempt" \in Environment, \E s \in x.steps : s.index = x.cache.last + 1,
           \A s \in x.steps : s.type \in Terminal => s.type = x.row.status,
           NEW v
    PROVE  /\ Overwrites(x, Caught(MarkBlocked(x), v))
           /\ Overwrites(x, Caught(MarkBlocked(SyncModelMessages(x)), v))
<1>1. "blocked" \in Status /\ x.row.status \in Status /\ "blocked" \notin Terminal
      /\ x.cache \in Row /\ x.row \in Row
  BY StatusTypes DEF Trackers
<1>2. Overwrites(x, Caught(MarkBlocked(x), v))
  <2> DEFINE z == Checked(x, "blocked")
             y == Persist(z, "blocked")
  <2>1. /\ z \in Trackers /\ z.row = x.row /\ z.steps = x.steps /\ z.cache = x.cache /\ z.ok
    <3>1. MayBecome(x, "blocked")
      BY DEF MayBecome
    <3> QED BY <1>1, <3>1, CheckedEffect
  <2> HIDE DEF z
  <2>2. /\ y \in Trackers /\ SameRun(z, y) /\ y.steps = z.steps /\ y.ok
        /\ y.cache = y.row /\ y.row.status = "blocked"
        /\ y.row.last = z.cache.last /\ y.row.pending = z.cache.pending
    BY <1>1, <2>1, PersistEffect
  <2> HIDE DEF y
  <2>3. Caught(y, v) = y
    BY <2>2, CaughtOk
  <2>4. Stuck(y.row, y.steps)
    BY <2>1, <2>2 DEF Stuck
  <2>5. y.row \in Row /\ RunExact(y.row, y.steps)
    BY <1>1, <2>1, <2>2, <2>4, NullsAssumption DEF RunExact, Trackers
  <2>6. Overwrites(x, y)
    BY <2>1, <2>2, <2>5 DEF Overwrites, SameRun
  <2> QED BY <2>3, <2>6 DEF MarkBlocked, y, z
<1>3. Overwrites(x, Caught(MarkBlocked(SyncModelMessages(x)), v))
  <2> DEFINE h == SyncModelMessages(x)
             z == Checked(h, "blocked")
             y == Persist(z, "blocked")
  <2>1. /\ h \in Trackers /\ SameRun(x, h) /\ h.steps = x.steps /\ h.ok
        /\ h.cache = h.row /\ h.row.status = x.row.status
        /\ h.row.last = x.cache.last /\ h.row.pending = x.cache.pending
    BY <1>1, PersistEffect DEF SyncModelMessages
  <2> HIDE DEF h
  <2>2. ~MayBecome(h, "blocked")
    BY <1>1, <2>1, Transitions DEF MayBecome
  <2>3. /\ z \in Trackers /\ z.row = h.row /\ z.steps = h.steps /\ z.cache = h.cache /\ ~z.ok
    <3>1. z.ok = (h.ok /\ MayBecome(h, "blocked"))
      BY <1>1, <2>1, CheckedEffect
    <3>2. /\ z \in Trackers /\ z.row = h.row /\ z.steps = h.steps /\ z.cache = h.cache
      BY <1>1, <2>1, CheckedEffect
    <3> QED BY <2>2, <3>1, <3>2
  <2> HIDE DEF z
  <2>4. y = z
    BY <1>1, <2>3, PersistEffect
  <2> HIDE DEF y
  <2>5. Caught(y, v) = y
    BY <2>1, <2>3, <2>4, StatusTypes DEF Caught
  <2>6. Stuck(y.row, y.steps)
    BY <2>1, <2>3, <2>4 DEF Stuck
  <2>7. y.row \in Row /\ RunExact(y.row, y.steps)
    BY <1>1, <2>1, <2>3, <2>4, <2>6, NullsAssumption DEF RunExact, Trackers
  <2>8. Overwrites(x, y)
    BY <2>1, <2>3, <2>4, <2>7 DEF Overwrites, SameRun
  <2> QED BY <2>5, <2>8 DEF MarkBlocked, y, z, h
<1> QED BY <1>2, <1>3

LEMMA BlockStep ==
    ASSUME IInv, Block
    PROVE  IInv' /\ Kept /\ NoChild /\ Honest
<1> DEFINE h == IF turn.kind = "stream" THEN Held ELSE SyncModelMessages(Held)
           x == MarkBlocked(h)
           y == Caught(x, Verdict)
<1>1. /\ turn # NoTurn /\ turn.phase = "asked" /\ approval' = approval /\ session' = session
      /\ Save(turn.run, y) /\ turn' = NoTurn /\ unserved' = unserved /\ torn' = torn
  BY DEF Block, EndWith, history
<1>2. /\ turn \in Turn /\ turn.run \in Run /\ turn.cache \in Row /\ row[turn.run] # NoRun
      /\ turn.cache.status = "blocked" /\ Asked(turn.run) \subseteq turn.cache.pending
      /\ row[turn.run] = turn.cache \/ ("preempt" \in Environment /\ Beaten)
  BY <1>1 DEF IInv, Typed, TypeOK, Turn, TurnFollowsRow
<1>3. /\ Held \in Trackers /\ Held.ok /\ Held.cache = turn.cache
      /\ Held.row = row[turn.run] /\ Held.steps = steps[turn.run]
      /\ row[turn.run] \in Row
  BY <1>2 DEF Held, Tracker, Trackers, IInv, Typed, TypeOK
<1>4. CASE row[turn.run] = turn.cache
  <2>1. x.ok /\ x.row = row[turn.run] /\ x.steps = steps[turn.run] /\ x.cache = row[turn.run]
    BY <1>2, <1>3, <1>4, BlockedAgain
  <2> HIDE DEF x
  <2>2. Caught(x, Verdict) = x
    BY <2>1, CaughtOk
  <2>3. row' = row /\ steps' = steps
    BY <1>1, <1>2, <2>1, <2>2 DEF Save, IInv, Typed, TypeOK
  <2>4. Restated /\ SessionsFollow /\ Askable' = Askable /\ Present' = Present
        /\ \A r : Asked(r)' = Asked(r)
    BY <1>1, SameRestated, SameSessions, RestatedAsked DEF Present
  <2>5. Typed'
    BY <1>1, <2>3, <2>4 DEF IInv, Typed, TypeOK
  <2>6. RunsExact' /\ AskedWhenBlocked'
    BY <1>1, <2>3, <2>4 DEF IInv, RunsExact, AskedWhenBlocked, AskedOf
  <2>7. RunningServed'
    BY <1>1, <1>2, <1>4, <2>3 DEF IInv, RunningServed
  <2>8. TurnFollowsRow'
    BY <1>1 DEF TurnFollowsRow
  <2>9. Kept /\ NoChild /\ Honest
    BY <1>1, <2>3, TableGoes DEF IInv, Kept, NoChild, Honest, Ended
  <2> QED BY <2>5, <2>6, <2>7, <2>8, <2>9 DEF IInv
<1>5. CASE "preempt" \in Environment /\ Beaten
  <2>1. /\ Held.row.status \in Terminal
        /\ \E s \in Held.steps : s.index = Held.cache.last + 1
        /\ \A s \in Held.steps : s.type \in Terminal => s.type = Held.row.status
    BY <1>2, <1>3, <1>5 DEF Beaten, Ended, IInv, RunsExact, RunExact
  <2>2. Overwrites(Held, y)
    <3>1. /\ Overwrites(Held, Caught(MarkBlocked(Held), Verdict))
          /\ Overwrites(Held, Caught(MarkBlocked(SyncModelMessages(Held)), Verdict))
      BY <1>2, <1>3, <1>5, <2>1, BlockBeaten
    <3> QED BY <3>1
  <2> HIDE DEF y
  <2>3. /\ y.row \in Row /\ y.steps = steps[turn.run] /\ RunExact(y.row, y.steps)
        /\ y.row.kind = row[turn.run].kind /\ y.row.parent = row[turn.run].parent
        /\ \/ y.row.status \in Terminal
           \/ y.row.status = "blocked" /\ y.row.pending = turn.cache.pending
        /\ steps[turn.run] \in SUBSET Step
    BY <1>2, <1>3, <2>1, <2>2 DEF Overwrites, SameRun, IInv, Typed
  <2>4. /\ row' \in [Run -> Row \cup {NoRun}] /\ steps' \in [Run -> SUBSET Step]
        /\ RunsExact'
        /\ row'[turn.run] = y.row
        /\ \A q \in Run \ {turn.run} : row'[q] = row[q]
    BY <1>1, <1>2, <2>3, Written
  <2>5. Askable' = Askable /\ Present' = Present /\ \A r : Asked(r)' = Asked(r)
    BY <1>1 DEF Askable, Present, Asked
  <2>6. Typed'
    BY <1>1, <2>4, <2>5 DEF IInv, Typed, TypeOK
  <2>7. RunningServed'
    BY <1>1, <2>3, <2>4, StatusTypes DEF IInv, RunningServed
  <2>8. TurnFollowsRow'
    BY <1>1 DEF TurnFollowsRow
  <2>9. AskedWhenBlocked'
    <3> SUFFICES ASSUME NEW r \in Run
                 PROVE  /\ AskedOf(r, row'[r], Asked(r))
                        /\ Asked(r) = {} => \A p \in Present : session[p][r] = NoSession
      BY <1>1, <2>5 DEF AskedWhenBlocked, AskedOf
    <3>1. CASE r = turn.run
      BY <1>2, <2>3, <2>4, <3>1, StatusTypes, NullsAssumption DEF IInv, AskedWhenBlocked, AskedOf
    <3>2. CASE r # turn.run
      BY <2>4, <3>2 DEF IInv, AskedWhenBlocked
    <3> QED BY <3>1, <3>2
  <2>10. Kept
    BY <1>2, <1>3, <1>5, <2>3, <2>4, TableGoes, NullsAssumption DEF Kept, NoPreemption
  <2>11. NoChild
    BY <1>2, <2>4 DEF NoChild
  <2>12. Ended(turn.run)
    BY <1>5 DEF Beaten
  <2>13. Honest
    BY <1>1, <2>4, <2>12 DEF Honest, Ended
  <2> QED BY <2>4, <2>6, <2>7, <2>8, <2>9, <2>10, <2>11, <2>13 DEF IInv
<1> QED BY <1>2, <1>4, <1>5

LEMMA AbortStep ==
    ASSUME IInv, Abort
    PROVE  IInv' /\ Kept /\ NoChild
<1>1. /\ turn' \in Turn /\ turn'.proc = turn.proc /\ turn'.run = turn.run
      /\ turn'.phase = turn.phase /\ turn'.cache = turn.cache
  BY DEF IInv, Typed, TypeOK, Abort, Turn, Working
<1>2. /\ Restated /\ SessionsFollow /\ torn' \in SUBSET Run /\ unserved' = unserved
      /\ row' = row /\ steps' = steps /\ turn # NoTurn
  BY SameRestated, SameSessions DEF Abort, IInv, Typed, TypeOK, history, Working
<1> QED BY <1>1, <1>2, Unwritten

-----------------------------------------------------------------------------
(* The writers that take no turn.                                           *)

LEMMA RehydratedAware ==
    ASSUME IInv, NEW r \in Run, row[r] # NoRun
    PROVE  /\ Aware(Rehydrated(r)) /\ Rehydrated(r).ok
           /\ Rehydrated(r).row = row[r] /\ Rehydrated(r).steps = steps[r]
           /\ Rehydrated(r).cache = row[r] /\ row[r] \in Row
<1>1. row[r] \in Row /\ steps[r] \in SUBSET Step /\ RunExact(row[r], steps[r])
  BY DEF IInv, Typed, TypeOK, RunsExact
<1> QED BY <1>1 DEF Rehydrated, Tracker, Aware, Trackers

\* x is what a writer makes of run r: its status stays, or it gets a verdict.
Rewrites(r, x) ==
    /\ x.row \in Row /\ x.steps \in SUBSET Step /\ RunExact(x.row, x.steps)
    /\ x.row.kind = row[r].kind /\ x.row.parent = row[r].parent
    /\ Goes(row[r].status, x.row.status)
    /\ \/ /\ x.row.status = row[r].status /\ x.row.pending = row[r].pending
          /\ turn = NoTurn
       \/ /\ x.row.status \in Terminal /\ x.row.pending = {}
          /\ turn # NoTurn => \E s \in x.steps : s.index = row[r].last + 1

LEMMA RespondsRewrites ==
    ASSUME IInv, NEW r \in Run, row[r] # NoRun, turn = NoTurn, NEW a \in Approval
    PROVE  /\ Rewrites(r, RecordResponse(Rehydrated(r), a))
           /\ RecordResponse(Rehydrated(r), a).row.status = row[r].status
<1>1. /\ Aware(Rehydrated(r)) /\ Rehydrated(r).ok /\ Rehydrated(r).row = row[r]
  BY RehydratedAware
<1>2. Responds(Rehydrated(r), RecordResponse(Rehydrated(r), a))
  BY <1>1, ResponseAware
<1> QED BY <1>1, <1>2, TableGoes DEF Responds, Rewrites, Trackers, SameRun

LEMMA JudgedRewrites ==
    ASSUME IInv, NEW r \in Run, row[r] # NoRun, NEW verdict \in Terminal,
           Mark(Rehydrated(r), verdict).ok
    PROVE  /\ Rewrites(r, Mark(Rehydrated(r), verdict))
           /\ Mark(Rehydrated(r), verdict).row.status = verdict
<1>1. /\ Aware(Rehydrated(r)) /\ Rehydrated(r).ok /\ Rehydrated(r).row = row[r]
  BY RehydratedAware
<1>2. Judged(Rehydrated(r), verdict, Mark(Rehydrated(r), verdict))
  BY <1>1, MarkAware
<1> QED BY <1>1, <1>2 DEF Judged, Rewrites, Trackers, SameRun

\* What the writers of one run have in common.
LEMMA Recorded ==
    ASSUME IInv, NEW r \in Run, row[r] # NoRun, NEW x, Rewrites(r, x), Save(r, x),
           Restated, SessionsFollow, torn' \in SUBSET Run, Leaves,
           turn # NoTurn => ~Ended(r),
           turn # NoTurn /\ turn.phase = "asked" => "preempt" \in Environment
    PROVE  /\ IInv' /\ Kept /\ NoChild
           /\ \A q \in Run \ {r} : Ended(q)' => Ended(q)
<1>1. /\ x.row \in Row /\ x.steps \in SUBSET Step /\ RunExact(x.row, x.steps)
      /\ x.row.kind = row[r].kind /\ x.row.parent = row[r].parent
      /\ Goes(row[r].status, x.row.status)
      /\ \/ /\ x.row.status = row[r].status /\ x.row.pending = row[r].pending
            /\ turn = NoTurn
         \/ /\ x.row.status \in Terminal /\ x.row.pending = {}
            /\ turn # NoTurn => \E s \in x.steps : s.index = row[r].last + 1
  BY DEF Rewrites
<1>2. /\ row' \in [Run -> Row \cup {NoRun}] /\ steps' \in [Run -> SUBSET Step]
      /\ RunsExact'
      /\ row'[r] = x.row /\ steps'[r] = x.steps
      /\ \A q \in Run \ {r} : row'[q] = row[q] /\ steps'[q] = steps[q]
  BY <1>1, Written
<1>3. Askable' = Askable /\ \A q : Asked(q)' = Asked(q)
  BY RestatedAsked
<1>4. Present' = Present
  BY DEF Present, SessionsFollow
<1>5. /\ unserved \subseteq unserved' /\ unserved' \in SUBSET Run
      /\ turn' \in Turn \cup {NoTurn}
  BY DEF Leaves, IInv, Typed, TypeOK, Turn
<1>6. Typed'
  BY <1>2, <1>3, <1>4, <1>5 DEF IInv, Typed, TypeOK, Restated, SessionsFollow
<1>7. RunningServed'
  <2> SUFFICES ASSUME NEW q \in Run, row'[q] # NoRun, row'[q].status = "running"
               PROVE  q \in unserved' \/ (turn' # NoTurn /\ turn'.run = q)
    BY DEF RunningServed
  <2>1. row[q] # NoRun /\ row[q].status = "running"
    BY <1>1, <1>2, StatusTypes
  <2>2. q \in unserved \/ (turn # NoTurn /\ turn.run = q)
    BY <2>1 DEF IInv, RunningServed
  <2> QED BY <1>5, <2>2 DEF Leaves
<1>8. TurnFollowsRow'
  <2> SUFFICES ASSUME turn # NoTurn, turn' = turn
               PROVE  /\ turn.proc \in Present
                      /\ row'[turn.run] # NoRun
                      /\ turn.phase = "working" =>
                            /\ turn.cache.status = "running" /\ turn.cache.pending = {}
                            /\ row'[turn.run] = turn.cache \/ Beaten'
                            /\ Asked(turn.run) = {}
                      /\ turn.phase = "asked" =>
                            /\ turn.cache.status = "blocked"
                            /\ Asked(turn.run) \subseteq turn.cache.pending
                            /\ \/ row'[turn.run] = turn.cache
                               \/ "preempt" \in Environment /\ Beaten'
    BY <1>3, <1>4 DEF TurnFollowsRow, Leaves
  <2>1. turn.run \in Run
    BY DEF IInv, Typed, TypeOK, Turn
  <2>2. CASE turn.run = r
    <3>1. /\ x.row.status \in Terminal /\ x.row.pending = {}
          /\ \E s \in x.steps : s.index = row[r].last + 1
      BY <1>1
    <3>2. row[r] = turn.cache
      BY <2>2 DEF IInv, TurnFollowsRow, Beaten, IInv, Typed, TypeOK, Turn
    <3>3. Beaten'
      BY <1>1, <1>2, <2>2, <3>1, <3>2, NullsAssumption DEF Beaten, Ended
    <3> QED BY <1>1, <1>2, <2>2, <3>3, NullsAssumption DEF IInv, TurnFollowsRow
  <2>3. CASE turn.run # r
    <3>1. row'[turn.run] = row[turn.run] /\ (Beaten => Beaten')
      BY <1>2, <2>1, <2>3 DEF Beaten, Ended
    <3> QED BY <3>1 DEF IInv, TurnFollowsRow
  <2> QED BY <2>2, <2>3
<1>9. AskedWhenBlocked'
  <2> SUFFICES ASSUME NEW q \in Run
               PROVE  /\ AskedOf(q, row[q], Asked(q))'
                      /\ Asked(q) = {} => \A p \in Present : session'[p][q] = NoSession
    BY <1>3, <1>4 DEF AskedWhenBlocked
  <2>1. AskedOf(q, row[q], Asked(q)) /\ (Asked(q) = {} => \A p \in Present : session[p][q] = NoSession)
    BY DEF IInv, AskedWhenBlocked
  <2>2. Asked(q) = {} => \A p \in Present : session'[p][q] = NoSession
    BY <2>1 DEF SessionsFollow
  <2>3. CASE q = r
    BY <1>1, <1>2, <1>3, <1>5, <2>1, <2>2, <2>3, NullsAssumption, StatusTypes DEF AskedOf
  <2>4. CASE q # r
    BY <1>2, <1>3, <1>5, <2>1, <2>2, <2>4 DEF AskedOf
  <2> QED BY <2>3, <2>4
<1>10. Kept
  BY <1>1, <1>2, TableGoes, NullsAssumption DEF Kept
<1>11. NoChild
  BY <1>2 DEF NoChild
<1>12. \A q \in Run \ {r} : Ended(q)' => Ended(q)
  BY <1>2 DEF Ended
<1> QED BY <1>2, <1>6, <1>7, <1>8, <1>9, <1>10, <1>11, <1>12 DEF IInv

\* No run but r ends, and a turn that starts executes a running run.
Continues(r) ==
    /\ turn' # NoTurn => row'[turn'.run].status = "running"
    /\ \A q \in Run \ {r} : Ended(q)' => Ended(q)

\* The writers that also create a continuation of the run they write.
LEMMA Continued ==
    ASSUME IInv, turn = NoTurn, NEW r \in Run, row[r] # NoRun, NEW x, Rewrites(r, x),
           NEW c \in Run, row[c] = NoRun,
           row' = [row EXCEPT ![r] = x.row, ![c] = NewRow("resume", r)],
           steps' = [steps EXCEPT ![r] = x.steps],
           Restated, SessionsFollow, torn' = torn,
           \/ /\ unserved' = unserved
              /\ \E p \in Present :
                    p \in Proc /\ turn' = NewTurn(p, c, "resume", NewRow("resume", r))
           \/ unserved' = unserved \cup {c} /\ turn' = turn
    PROVE  IInv' /\ Kept /\ Continues(r)
<1> DEFINE new == NewRow("resume", r)
<1>1. /\ x.row \in Row /\ x.steps \in SUBSET Step /\ RunExact(x.row, x.steps)
      /\ x.row.kind = row[r].kind /\ x.row.parent = row[r].parent
      /\ Goes(row[r].status, x.row.status)
      /\ \/ x.row.status = row[r].status /\ x.row.pending = row[r].pending
         \/ x.row.status \in Terminal
  BY DEF Rewrites
<1>2. new \in Row /\ new.status = "running" /\ new.pending = {}
  BY StatusTypes DEF NewRow, Row
<1>3. \/ turn' = NoTurn /\ unserved' = unserved \cup {c}
      \/ /\ unserved' = unserved
         /\ turn' \in Turn /\ turn' # NoTurn /\ turn'.run = c
         /\ turn'.proc \in Present /\ turn'.phase = "working" /\ turn'.cache = new
  <2>1. ASSUME NEW p \in Present, p \in Proc, turn' = NewTurn(p, c, "resume", new)
        PROVE  /\ turn' \in Turn /\ turn' # NoTurn /\ turn'.run = c
               /\ turn'.proc \in Present /\ turn'.phase = "working" /\ turn'.cache = new
    <3> HIDE DEF new
    <3> QED BY <1>2, <2>1, NewTurnType
  <2> QED BY <2>1
<1> HIDE DEF new
<1>4. row \in [Run -> Row \cup {NoRun}] /\ steps \in [Run -> SUBSET Step] /\ c # r
  BY DEF IInv, Typed, TypeOK
<1>5. /\ row' \in [Run -> Row \cup {NoRun}] /\ steps' \in [Run -> SUBSET Step]
      /\ row'[r] = x.row /\ row'[c] = new
      /\ steps'[r] = x.steps /\ steps'[c] = steps[c]
      /\ \A q \in Run \ {r, c} : row'[q] = row[q] /\ steps'[q] = steps[q]
  BY <1>1, <1>2, <1>4 DEF new
<1>6. steps[c] = {} /\ Asked(c) = {}
  BY DEF IInv, RunsExact, RunExact, AskedWhenBlocked, AskedOf
<1>7. RunExact(new, {})
  BY <1>2, NullsAssumption, StatusTypes DEF RunExact
<1>8. RunsExact'
  BY <1>1, <1>5, <1>6, <1>7, SMTT(30) DEF IInv, RunsExact
<1>9. Askable' = Askable /\ \A q : Asked(q)' = Asked(q)
  BY RestatedAsked
<1>10. Present' = Present
  BY DEF Present, SessionsFollow
<1>11. Typed'
  BY <1>3, <1>5, <1>9, <1>10 DEF IInv, Typed, TypeOK, Restated, SessionsFollow
<1>12. RunningServed'
  BY <1>1, <1>3, <1>5, StatusTypes DEF IInv, RunningServed
<1>13. TurnFollowsRow'
  BY <1>2, <1>3, <1>5, <1>6, <1>9, <1>10, NullsAssumption DEF TurnFollowsRow
<1>14. AskedWhenBlocked'
  <2> SUFFICES ASSUME NEW q \in Run
               PROVE  /\ AskedOf(q, row[q], Asked(q))'
                      /\ Asked(q) = {} => \A p \in Present : session'[p][q] = NoSession
    BY <1>9, <1>10 DEF AskedWhenBlocked
  <2>1. /\ AskedOf(q, row[q], Asked(q)) /\ unserved \subseteq unserved'
        /\ Asked(q) = {} => \A p \in Present : session'[p][q] = NoSession
    BY DEF IInv, AskedWhenBlocked, SessionsFollow
  <2>2. CASE q = c
    BY <1>2, <1>5, <1>6, <1>9, <2>1, <2>2, NullsAssumption DEF AskedOf
  <2>3. CASE q = r
    BY <1>1, <1>5, <1>9, <2>1, <2>3, NullsAssumption, StatusTypes DEF AskedOf
  <2>4. CASE q \notin {r, c}
    BY <1>5, <1>9, <2>1, <2>4 DEF AskedOf
  <2> QED BY <2>2, <2>3, <2>4
<1>15. Kept
  BY <1>1, <1>2, <1>5, TableGoes, NullsAssumption DEF Kept
<1>16. Continues(r)
  BY <1>2, <1>3, <1>5, StatusTypes DEF Continues, Ended
<1> QED BY <1>8, <1>11, <1>12, <1>13, <1>14, <1>15, <1>16 DEF IInv

\* Expiry answers pending approvals of a run, all of them or some.
LEMMA ExpiredRestated ==
    ASSUME IInv, NEW r \in Run, NEW some \in SUBSET InState(r, "pending"),
           approval' = Expire(some)
    PROVE  /\ Restated
           /\ InState(r, "pending")' = InState(r, "pending") \ some
           /\ \A s : \A q \in Run \ {r} : InState(q, s)' = InState(q, s)
           /\ \A q \in Run : InState(q, "consumed")' = InState(q, "consumed")
<1>1. approval \in [Askable -> ApprovalRow \cup {NoApproval}]
  BY DEF IInv, Typed, TypeOK
<1>2. \A a \in Askable :
         approval'[a] = IF a \in some
                        THEN [approval[a] EXCEPT !.state = "answered"] ELSE approval[a]
  BY DEF Expire
<1>3. \A a \in some :
         /\ a \in Askable /\ approval[a] \in ApprovalRow /\ approval[a].run = r
         /\ approval[a].state = "pending"
         /\ [approval[a] EXCEPT !.state = "answered"] \in ApprovalRow
         /\ [approval[a] EXCEPT !.state = "answered"].run = r
         /\ [approval[a] EXCEPT !.state = "answered"].state = "answered"
  BY <1>1 DEF InState, Asked, ApprovalRow
<1>4. approval' \in [Askable -> ApprovalRow \cup {NoApproval}]
  BY <1>1, <1>3 DEF Expire
<1>5. Restated
  <2> SUFFICES ASSUME NEW a \in Askable
               PROVE  /\ approval'[a] = NoApproval <=> approval[a] = NoApproval
                      /\ approval[a] # NoApproval => approval'[a].run = approval[a].run
    BY <1>4 DEF Restated
  <2>1. CASE a \in some
    <3>1. approval'[a] = [approval[a] EXCEPT !.state = "answered"]
      BY <1>2, <2>1
    <3>2. approval'[a] \in ApprovalRow /\ approval'[a].run = r
      BY <1>3, <2>1, <3>1
    <3> QED BY <1>3, <2>1, <3>2, NullsAssumption
  <2>2. CASE a \notin some
    BY <1>2, <2>2
  <2> QED BY <2>1, <2>2
<1>6. Askable' = Askable /\ \A q : Asked(q)' = Asked(q)
  BY <1>5, RestatedAsked
<1>7. \A q, s : InState(q, s)' = {a \in Asked(q) : approval'[a].state = s}
  BY <1>6 DEF InState
<1>8. \A q : Asked(q) \subseteq Askable
  BY DEF Asked
<1>9. \A a \in some : approval'[a].state = "answered"
  BY <1>2, <1>3
<1>10. \A a \in Askable \ some : approval'[a] = approval[a]
  BY <1>2
<1>11. InState(r, "pending")' = InState(r, "pending") \ some
  <2>1. \A a \in Asked(r) : approval'[a].state = "pending" <=>
                              approval[a].state = "pending" /\ a \notin some
    BY <1>8, <1>9, <1>10
  <2>2. InState(r, "pending")' = {a \in Asked(r) : approval'[a].state = "pending"}
    BY <1>7
  <2>3. InState(r, "pending") = {a \in Asked(r) : approval[a].state = "pending"}
    BY DEF InState
  <2> QED BY <2>1, <2>2, <2>3
<1>12. \A s : \A q \in Run \ {r} : InState(q, s)' = InState(q, s)
  <2> SUFFICES ASSUME NEW q \in Run \ {r}, NEW s
               PROVE  \A a \in Asked(q) : approval'[a] = approval[a]
    BY <1>7 DEF InState
  <2> QED BY <1>2, <1>3, <1>8 DEF Asked
<1>13. InState(r, "consumed")' = InState(r, "consumed")
  <2>1. \A a \in Asked(r) :
           approval'[a].state = "consumed" <=> approval[a].state = "consumed"
    BY <1>3, <1>8, <1>9, <1>10
  <2>2. InState(r, "consumed")' = {a \in Asked(r) : approval'[a].state = "consumed"}
    BY <1>7
  <2>3. InState(r, "consumed") = {a \in Asked(r) : approval[a].state = "consumed"}
    BY DEF InState
  <2> QED BY <2>1, <2>2, <2>3
<1> QED BY <1>5, <1>11, <1>12, <1>13

LEMMA ForgottenSessions ==
    ASSUME IInv, NEW p \in Present, session' = Forgotten(p)
    PROVE  SessionsFollow
BY ForgottenFollows DEF SessionsFollow, IInv, Typed, TypeOK

LEMMA DroppedFollows ==
    ASSUME IInv, NEW p \in Present, NEW r \in Run, session' = SessionDropped(p, r)
    PROVE  /\ SessionsFollow /\ session'[p][r] = NoSession
           /\ \A q \in Run, o \in Present : session'[o][q] \in {session[o][q], NoSession}
BY DEF IInv, Typed, TypeOK, SessionDropped, SessionsFollow

-----------------------------------------------------------------------------
(* Each of them.                                                             *)

LEMMA ActsBetween ==
    ASSUME NEW p, MayAct(p)
    PROVE  p \in Present
           /\ (turn # NoTurn /\ turn.phase = "asked"
                 => turn.proc # p /\ "preempt" \in Environment)
BY DEF MayAct

LEMMA CancelRunStep ==
    ASSUME IInv, NEW p \in Proc, NEW r \in Run, CancelRun(p, r)
    PROVE  IInv' /\ Kept /\ NoChild
<1> DEFINE x == Mark(Rehydrated(r), "cancelled")
<1>1. /\ MayAct(p) /\ row[r] # NoRun /\ ~Ended(r)
      /\ approval' = Expire(InState(r, "pending")) /\ session' = SessionDropped(p, r)
      /\ unserved' = unserved /\ torn' = torn
      /\ \/ /\ Streams(p, r)
            /\ turn' = [turn EXCEPT !.aborted = TRUE]
            /\ row' = row /\ steps' = steps
         \/ x.ok /\ Save(r, x) /\ turn' = turn
  BY DEF CancelRun, Expired, history
<1>2. /\ p \in Present
      /\ turn # NoTurn /\ turn.phase = "asked" => "preempt" \in Environment
  BY <1>1, ActsBetween
<1>3. Restated /\ SessionsFollow /\ torn' \in SUBSET Run
  BY <1>1, <1>2, ExpiredRestated, DroppedFollows DEF IInv, Typed, TypeOK
<1>4. ASSUME Streams(p, r), turn' = [turn EXCEPT !.aborted = TRUE], row' = row, steps' = steps
      PROVE  IInv' /\ Kept /\ NoChild
  <2>1. /\ turn # NoTurn /\ turn' \in Turn /\ turn'.proc = turn.proc /\ turn'.run = turn.run
        /\ turn'.phase = turn.phase /\ turn'.cache = turn.cache
    BY <1>4 DEF IInv, Typed, TypeOK, Streams, Turn
  <2> QED BY <1>1, <1>3, <1>4, <2>1, Unwritten
<1>5. ASSUME x.ok, Save(r, x), turn' = turn
      PROVE  IInv' /\ Kept /\ NoChild
  <2>1. "cancelled" \in Terminal
    BY DEF Terminal
  <2>2. Rewrites(r, x)
    BY <1>1, <1>5, <2>1, JudgedRewrites
  <2>3. Leaves
    BY <1>1, <1>5 DEF Leaves
  <2> HIDE DEF x
  <2> QED BY <1>1, <1>2, <1>3, <1>5, <2>2, <2>3, Recorded
<1> QED BY <1>1, <1>4, <1>5

LEMMA RecoverStep ==
    ASSUME IInv, NEW p \in Proc, NEW r \in Run, Recover(p, r)
    PROVE  IInv' /\ Kept /\ NoChild
<1> DEFINE x == Mark(Rehydrated(r), "failed")
<1>1. /\ MayAct(p) /\ row[r] # NoRun /\ row[r].status \in {"running", "blocked"}
      /\ x.ok /\ Save(r, x)
      /\ approval' = Expire(InState(r, "pending")) /\ session' = session
      /\ unserved' = unserved /\ turn' = turn /\ torn' = torn
  BY DEF Recover, Recovering, Expired, history
<1>2. /\ ~Ended(r)
      /\ turn # NoTurn /\ turn.phase = "asked" => "preempt" \in Environment
  BY <1>1, ActsBetween, StatusTypes DEF Ended
<1>3. Restated /\ SessionsFollow /\ torn' \in SUBSET Run /\ Leaves
  BY <1>1, ExpiredRestated, SameSessions DEF IInv, Typed, TypeOK, Leaves
<1>4. "failed" \in Terminal
  BY DEF Terminal
<1>5. Rewrites(r, x)
  BY <1>1, <1>4, JudgedRewrites
<1> HIDE DEF x
<1> QED BY <1>1, <1>2, <1>3, <1>5, Recorded

LEMMA CrashInCancelStep ==
    ASSUME IInv, NEW p \in Proc, NEW r \in Run, NEW some \in SUBSET Approval,
           CrashInCancel(p, r, some)
    PROVE  IInv' /\ Kept /\ NoChild
           /\ \A q \in Run \ {r} : Ended(q)' => Ended(q)
<1> DEFINE x == Mark(Rehydrated(r), "cancelled")
<1>1. /\ MayAct(p) /\ row[r] # NoRun /\ ~Ended(r) /\ x.ok /\ Save(r, x)
      /\ some \in SUBSET InState(r, "pending") /\ approval' = Expire(some)
      /\ p \in Present /\ session' = Forgotten(p) /\ TurnLost(p)
      /\ torn' = torn \cup {r}
  BY DEF CrashInCancel, Dies
<1>2. turn # NoTurn /\ turn.phase = "asked" => "preempt" \in Environment
  BY <1>1, ActsBetween
<1>3. Restated /\ SessionsFollow /\ torn' \in SUBSET Run /\ Leaves
  BY <1>1, ExpiredRestated, ForgottenSessions, LostLeaves DEF IInv, Typed, TypeOK
<1>4. "cancelled" \in Terminal
  BY DEF Terminal
<1>5. Rewrites(r, x)
  BY <1>1, <1>4, JudgedRewrites
<1> HIDE DEF x
<1> QED BY <1>1, <1>2, <1>3, <1>5, Recorded

LEMMA CrashInRecoverStep ==
    ASSUME IInv, NEW p \in Proc, NEW r \in Run, NEW some \in SUBSET Approval,
           CrashInRecover(p, r, some)
    PROVE  IInv' /\ Kept /\ NoChild
<1>1. /\ some \in SUBSET InState(r, "pending") /\ approval' = Expire(some)
      /\ p \in Present /\ session' = Forgotten(p)
      /\ row' = row /\ steps' = steps /\ turn' = turn
      /\ unserved' = unserved /\ torn' = torn
  BY DEF CrashInRecover, Dies, history
<1>2. Restated /\ SessionsFollow /\ torn' \in SUBSET Run /\ Leaves
  BY <1>1, ExpiredRestated, ForgottenSessions DEF IInv, Typed, TypeOK, Leaves
<1> QED BY <1>1, <1>2, Unwritten

\* A run that is started, or started again by the user.
LEMMA BeginStep ==
    ASSUME IInv, NEW p \in Proc, NEW r \in Run, NEW kind \in {"stream", "send"},
           NEW parent \in Run \cup {NoRun}, Begin(p, r, kind, parent)
    PROVE  IInv' /\ Kept /\ NoChild /\ Honest
<1>1. /\ row[r] = NoRun /\ turn = NoTurn /\ p \in Present
      /\ row' = [row EXCEPT ![r] = NewRow("turn", parent)]
      /\ turn' = NewTurn(p, r, kind, NewRow("turn", parent))
      /\ steps' = steps /\ approval' = approval /\ session' = session
      /\ unserved' = unserved /\ torn' = torn
  BY DEF Begin, Unused, history
<1> QED BY <1>1, StartStep

LEMMA ResumeRunBegins ==
    ASSUME IInv, NEW p \in Proc, NEW o \in Run, NEW r \in Run, ResumeRun(p, o, r)
    PROVE  \E parent \in Run \cup {NoRun} : Begin(p, r, "stream", parent)
BY DEF ResumeRun, IInv, Typed, TypeOK, Row

LEMMA StartFailsStep ==
    ASSUME IInv, NEW r \in Run, StartFails(r)
    PROVE  IInv' /\ Kept /\ NoChild /\ Honest
<1>1. NoRun \in Run \cup {NoRun}
  OBVIOUS
<1> QED BY <1>1, StartStep DEF StartFails, Unused

LEMMA RetryRunStep ==
    ASSUME IInv, NEW p \in Proc, NEW r \in Run, NEW c \in Run, RetryRun(p, r, c)
    PROVE  IInv' /\ Kept /\ NoChild
<1> DEFINE new == [row[r] EXCEPT !.kind = "turn", !.parent = r, !.status = "queued"]
<1>1. /\ row[r] # NoRun /\ row[r].status \in Terminal /\ row[c] = NoRun
      /\ row' = [row EXCEPT ![c] = new]
      /\ steps' = steps /\ approval' = approval /\ session' = session
      /\ turn' = turn /\ unserved' = unserved /\ torn' = torn
  BY DEF RetryRun, Unused, Terminal, history
<1>2. /\ row \in [Run -> Row \cup {NoRun}] /\ row[r] \in Row
  BY <1>1 DEF IInv, Typed, TypeOK
<1>3. new \in Row /\ new.status = "queued" /\ new.kind = "turn"
  BY <1>2, StatusTypes DEF Row
<1> HIDE DEF new
<1>4. /\ row' \in [Run -> Row \cup {NoRun}] /\ row'[c] = new
      /\ \A q \in Run \ {c} : row'[q] = row[q]
  BY <1>1, <1>2, <1>3
<1>5. steps[c] = {} /\ Asked(c) = {}
  BY <1>1 DEF IInv, RunsExact, RunExact, AskedWhenBlocked, AskedOf
<1>6. RunsExact'
  <2>1. RunExact(new, {})
    BY <1>3, NullsAssumption, StatusTypes DEF RunExact
  <2> QED BY <1>1, <1>4, <1>5, <2>1 DEF IInv, RunsExact
<1>7. Askable' = Askable /\ Present' = Present /\ \A q : Asked(q)' = Asked(q)
  BY <1>1 DEF Askable, Present, Asked
<1>8. Typed'
  BY <1>1, <1>4, <1>7 DEF IInv, Typed, TypeOK
<1>9. RunningServed'
  BY <1>1, <1>3, <1>4 DEF IInv, RunningServed
<1>10. TurnFollowsRow'
  <2>1. turn # NoTurn => turn.run \in Run /\ turn.run # c
    BY <1>1 DEF IInv, Typed, TypeOK, Turn, TurnFollowsRow
  <2> QED BY <1>1, <1>4, <1>7, <2>1 DEF IInv, TurnFollowsRow, Beaten, Ended
<1>11. AskedWhenBlocked'
  BY <1>1, <1>3, <1>4, <1>5, <1>7, NullsAssumption DEF IInv, AskedWhenBlocked, AskedOf
<1>12. Kept
  BY <1>1, <1>3, <1>4, TableGoes DEF Kept
<1>13. NoChild
  BY <1>3, <1>4 DEF NoChild
<1> QED BY <1>6, <1>8, <1>9, <1>10, <1>11, <1>12, <1>13 DEF IInv

LEMMA CrashStep ==
    ASSUME IInv, NEW p \in Proc, Crash(p)
    PROVE  IInv' /\ Kept /\ NoChild
<1>1. /\ p \in Present /\ session' = Forgotten(p) /\ approval' = approval
      /\ row' = row /\ steps' = steps /\ torn' = torn /\ TurnLost(p)
  BY DEF Crash, Dies
<1>2. Restated /\ SessionsFollow /\ torn' \in SUBSET Run /\ Leaves
  BY <1>1, SameRestated, ForgottenSessions, LostLeaves DEF IInv, Typed, TypeOK
<1> QED BY <1>1, <1>2, Unwritten

LEMMA AnswerableState ==
    ASSUME IInv, NEW p, NEW a, Answerable(p, a)
    PROVE  /\ turn = NoTurn /\ p \in Present /\ a \in Askable /\ a \in Approval
           /\ approval[a] # NoApproval
           /\ approval[a] \in ApprovalRow /\ approval[a].run \in Run
           /\ a \in Asked(approval[a].run) /\ row[approval[a].run] # NoRun
           /\ SessionOf(p, approval[a].run) \in Session
<1>1. /\ turn = NoTurn /\ p \in Present /\ a \in Askable /\ approval[a] # NoApproval
  BY DEF Answerable
<1>2. approval[a] \in ApprovalRow /\ approval[a].run \in Run /\ Askable \subseteq Approval
  BY <1>1, DeploymentsAssumption DEF IInv, Typed, TypeOK, ApprovalRow
<1>3. a \in Asked(approval[a].run)
  BY <1>1 DEF Asked
<1>4. row[approval[a].run] # NoRun
  BY <1>2, <1>3 DEF IInv, AskedWhenBlocked, AskedOf
<1>5. \A q, s : InState(q, s) \subseteq Approval
  BY <1>2 DEF InState, Asked
<1>6. SessionOf(p, approval[a].run) \in Session
  <2>1. CASE session[p][approval[a].run] # NoSession
    BY <1>1, <1>2, <2>1 DEF IInv, Typed, TypeOK, SessionOf
  <2>2. CASE session[p][approval[a].run] = NoSession
    BY <1>5, <2>2 DEF SessionOf, Session
  <2> QED BY <2>1, <2>2
<1> QED BY <1>1, <1>2, <1>3, <1>4, <1>6

LEMMA AnsweredRestated ==
    ASSUME IInv, NEW p, NEW a, Answerable(p, a), approval' = WithAnswer(a)
    PROVE  Restated
<1>1. a \in Askable /\ approval[a] \in ApprovalRow /\ approval[a] # NoApproval
  BY AnswerableState
<1>2. /\ [approval[a] EXCEPT !.state = "answered"] \in ApprovalRow
      /\ [approval[a] EXCEPT !.state = "answered"].run = approval[a].run
  BY <1>1 DEF ApprovalRow
<1>3. approval \in [Askable -> ApprovalRow \cup {NoApproval}]
  BY DEF IInv, Typed, TypeOK
<1>4. approval' = [approval EXCEPT ![a] = [approval[a] EXCEPT !.state = "answered"]]
  BY <1>1, <1>3 DEF WithAnswer
<1> QED BY <1>1, <1>2, <1>3, <1>4, NullsAssumption DEF Restated

LEMMA ConsumedRestated ==
    ASSUME IInv, NEW r \in Run, approval' = Consumed(r)
    PROVE  /\ Restated
           /\ InState(r, "consumed")' = Asked(r)
           /\ \A s : \A q \in Run \ {r} : InState(q, s)' = InState(q, s)
<1>1. approval \in [Askable -> ApprovalRow \cup {NoApproval}]
  BY DEF IInv, Typed, TypeOK
<1>2. \A a \in Asked(r) :
         /\ a \in Askable /\ approval[a] # NoApproval /\ approval[a].run = r
         /\ [approval[a] EXCEPT !.state = "consumed"] \in ApprovalRow
         /\ [approval[a] EXCEPT !.state = "consumed"].run = r
         /\ [approval[a] EXCEPT !.state = "consumed"].state = "consumed"
  BY <1>1 DEF Asked, ApprovalRow
<1>3. \A a \in Asked(r) : approval'[a] \in ApprovalRow /\ approval'[a].run = r
                          /\ approval'[a].state = "consumed"
  BY <1>2 DEF Consumed
<1>4. \A a \in Askable \ Asked(r) : approval'[a] = approval[a]
  BY DEF Consumed
<1>5. approval' \in [Askable -> ApprovalRow \cup {NoApproval}]
  BY <1>1, <1>2 DEF Consumed
<1>6. Restated
  BY <1>2, <1>3, <1>4, <1>5, NullsAssumption DEF Restated
<1>7. Askable' = Askable /\ \A q : Asked(q)' = Asked(q)
  BY <1>6, RestatedAsked
<1>8. \A q, s : InState(q, s)' = {a \in Asked(q) : approval'[a].state = s}
  BY <1>7 DEF InState
<1>9. InState(r, "consumed")' = Asked(r)
  BY <1>3, <1>8
<1>10. \A s : \A q \in Run \ {r} : InState(q, s)' = InState(q, s)
  <2> SUFFICES ASSUME NEW q \in Run \ {r}, NEW s
               PROVE  \A a \in Asked(q) : approval'[a] = approval[a]
    BY <1>8 DEF InState
  <2> QED BY <1>4 DEF Asked
<1> QED BY <1>6, <1>9, <1>10

\* A session that is kept for an answer.
LEMMA KeptFollows ==
    ASSUME IInv, NEW p, NEW a, Answerable(p, a), NEW s \in Session,
           session' = [session EXCEPT ![p][approval[a].run] = s]
    PROVE  SessionsFollow
<1> DEFINE r == approval[a].run
<1>1. p \in Present /\ r \in Run /\ a \in Asked(r)
  BY AnswerableState
<1>2. session \in [Present -> [Run -> Session \cup {NoSession}]]
  BY DEF IInv, Typed, TypeOK
<1> HIDE DEF r
<1>3. session' = [session EXCEPT ![p][r] = s]
  BY DEF r
<1>4. session' \in [Present -> [Run -> Session \cup {NoSession}]]
  <2>1. session' = [session EXCEPT ![p] = [session[p] EXCEPT ![r] = s]]
    BY <1>1, <1>2, <1>3
  <2>2. [session[p] EXCEPT ![r] = s] \in [Run -> Session \cup {NoSession}]
    BY <1>1, <1>2
  <2> QED BY <1>1, <1>2, <2>1, <2>2
<1>5. \A o \in Present, q \in Run \ {r} : session'[o][q] = session[o][q]
  <2>1. session' = [session EXCEPT ![p] = [session[p] EXCEPT ![r] = s]]
    BY <1>1, <1>2, <1>3
  <2>2. \A q \in Run \ {r} : session'[p][q] = session[p][q]
    BY <1>1, <1>2, <2>1
  <2>3. \A o \in Present \ {p} : session'[o] = session[o]
    BY <1>1, <1>2, <2>1
  <2> QED BY <2>2, <2>3
<1> QED BY <1>1, <1>4, <1>5 DEF SessionsFollow

LEMMA RepeatAnswerStep ==
    ASSUME IInv, NEW p \in Proc, NEW a \in Approval, RepeatAnswer(p, a)
    PROVE  IInv' /\ Kept /\ NoChild
<1> DEFINE r == approval[a].run
           x == RecordResponse(Rehydrated(r), a)
<1>1. /\ Answerable(p, a) /\ Save(r, x)
      /\ session' = [session EXCEPT ![p][r] = SessionOf(p, r)]
      /\ approval' = approval /\ turn' = turn /\ unserved' = unserved /\ torn' = torn
  BY DEF RepeatAnswer, history
<1>2. turn = NoTurn /\ r \in Run /\ row[r] # NoRun /\ SessionOf(p, r) \in Session
  BY <1>1, AnswerableState
<1>3. Restated /\ SessionsFollow /\ torn' \in SUBSET Run /\ Leaves
  BY <1>1, <1>2, SameRestated, KeptFollows DEF IInv, Typed, TypeOK, Leaves
<1>4. Rewrites(r, x)
  BY <1>2, RespondsRewrites
<1> HIDE DEF r, x
<1> QED BY <1>1, <1>2, <1>3, <1>4, Recorded

LEMMA AnsweredSession ==
    ASSUME NEW p, NEW a \in Approval, SessionOf(p, approval[a].run) \in Session
    PROVE  Answered(p, a) \in Session
BY DEF Answered, Session

LEMMA AnswerStep ==
    ASSUME IInv, NEW p \in Proc, NEW a \in Approval, Answer(p, a)
    PROVE  IInv' /\ Kept /\ NoChild
<1> DEFINE r == approval[a].run
           x == RecordResponse(Rehydrated(r), a)
<1>1. /\ Answerable(p, a) /\ Save(r, x)
      /\ session' = [session EXCEPT ![p][r] = Answered(p, a)]
      /\ approval' = WithAnswer(a) /\ turn' = turn /\ unserved' = unserved /\ torn' = torn
  BY DEF Answer, history
<1>2. turn = NoTurn /\ r \in Run /\ row[r] # NoRun /\ SessionOf(p, r) \in Session
  BY <1>1, AnswerableState
<1>3. Restated /\ SessionsFollow /\ torn' \in SUBSET Run /\ Leaves
  BY <1>1, <1>2, AnsweredRestated, AnsweredSession, KeptFollows
     DEF IInv, Typed, TypeOK, Leaves
<1>4. Rewrites(r, x)
  BY <1>2, RespondsRewrites
<1> HIDE DEF r, x
<1> QED BY <1>1, <1>2, <1>3, <1>4, Recorded

\* The parent of a continuation is completed, or is left as it is.
LEMMA CompletedRewrites ==
    ASSUME IInv, NEW r \in Run, row[r] # NoRun, turn = NoTurn, NEW a \in Approval,
           RecordResponse(Rehydrated(r), a).ok
    PROVE  LET x == RecordResponse(Rehydrated(r), a)
               y == Mark([x EXCEPT !.cache = x.row], "completed")
           IN Rewrites(r, y) /\ y.row.status \in {row[r].status, "completed"}
<1> DEFINE x == RecordResponse(Rehydrated(r), a)
           h == [x EXCEPT !.cache = x.row]
           y == Mark(h, "completed")
<1>1. /\ Aware(Rehydrated(r)) /\ Rehydrated(r).ok /\ Rehydrated(r).row = row[r]
      /\ row[r] \in Row
  BY RehydratedAware
<1>2. Responds(Rehydrated(r), x) /\ x.ok
  BY <1>1, ResponseAware
<1> HIDE DEF x
<1>3. /\ x.row.kind = row[r].kind /\ x.row.parent = row[r].parent
      /\ x.row.status = row[r].status /\ x.row.pending = row[r].pending
  BY <1>1, <1>2 DEF Responds, SameRun
<1>4. Aware(h) /\ h.ok /\ h.row = x.row
  BY <1>2 DEF Responds, Aware, Trackers
<1>5. "completed" \in Terminal
  BY DEF Terminal
<1> HIDE DEF h
<1>6. Judged(h, "completed", y)
  BY <1>4, <1>5, MarkAware
<1> HIDE DEF y
<1>7. /\ y \in Trackers /\ RunExact(y.row, y.steps)
      /\ y.row.kind = row[r].kind /\ y.row.parent = row[r].parent
      /\ Goes(row[r].status, y.row.status)
      /\ ~y.ok => y.row.status = row[r].status /\ y.row.pending = row[r].pending
      /\ y.ok => y.row.status = "completed" /\ y.row.pending = {}
  BY <1>3, <1>4, <1>6 DEF Judged, SameRun
<1>8. Rewrites(r, y) /\ y.row.status \in {row[r].status, "completed"}
  BY <1>5, <1>7 DEF Rewrites, Trackers
<1> QED BY <1>8 DEF y, h, x

\* A continuation is run by its turn, unless its parent cannot be completed.
LEMMA ResumeStep ==
    ASSUME IInv, NEW p \in Proc, NEW a \in Approval, NEW c \in Run, Resume(p, a, c)
    PROVE  IInv' /\ Kept /\ Continues(approval[a].run)
<1> DEFINE r == approval[a].run
           x == RecordResponse(Rehydrated(r), a)
           y == Mark([x EXCEPT !.cache = x.row], "completed")
<1>1. /\ Answerable(p, a) /\ x.ok /\ row[c] = NoRun
      /\ approval' = Consumed(r) /\ session' = SessionDropped(p, r)
      /\ row' = [row EXCEPT ![r] = y.row, ![c] = NewRow("resume", r)]
      /\ steps' = [steps EXCEPT ![r] = y.steps] /\ torn' = torn
      /\ \/ /\ unserved' = unserved
            /\ turn' = NewTurn(p, c, "resume", NewRow("resume", r))
         \/ unserved' = unserved \cup {c} /\ turn' = turn
  BY DEF Resume, Unused
<1>2. turn = NoTurn /\ p \in Present /\ r \in Run /\ row[r] # NoRun
  BY <1>1, AnswerableState
<1>3. Restated /\ SessionsFollow
  BY <1>1, <1>2, ConsumedRestated, DroppedFollows
<1>4. Rewrites(r, y)
  BY <1>1, <1>2, CompletedRewrites
<1> HIDE DEF y, x
<1> QED BY <1>1, <1>2, <1>3, <1>4, Continued

LEMMA CrashInApproveStep ==
    ASSUME IInv, NEW p \in Proc, NEW a \in Approval, CrashInApprove(p, a)
    PROVE  IInv' /\ Kept /\ Continues(approval[a].run)
<1> DEFINE r == approval[a].run
           x == RecordResponse(Rehydrated(r), a)
<1>1. /\ Answerable(p, a) /\ session' = Forgotten(p) /\ turn' = turn /\ torn' = torn
      /\ \/ /\ approval' = WithAnswer(a)
            /\ row' = row /\ steps' = steps /\ unserved' = unserved
         \/ approval' = WithAnswer(a) /\ Save(r, x) /\ unserved' = unserved
         \/ approval' = Consumed(r) /\ Save(r, x) /\ unserved' = unserved
         \/ /\ approval' = Consumed(r)
            /\ \E c \in Unused :
                  /\ row' = [row EXCEPT ![r] = x.row, ![c] = NewRow("resume", r)]
                  /\ steps' = [steps EXCEPT ![r] = x.steps]
                  /\ unserved' = unserved \cup {c}
  BY DEF CrashInApprove, Dies
<1>2. turn = NoTurn /\ p \in Present /\ r \in Run /\ row[r] # NoRun
  BY <1>1, AnswerableState
<1>3. SessionsFollow /\ torn' \in SUBSET Run
  BY <1>1, <1>2, ForgottenSessions DEF IInv, Typed, TypeOK
<1>4. Restated
  BY <1>1, <1>2, AnsweredRestated, ConsumedRestated
<1>5. Rewrites(r, x) /\ unserved \in SUBSET Run
  BY <1>2, RespondsRewrites DEF IInv, Typed, TypeOK
<1> HIDE DEF x
<1>6. ASSUME row' = row, steps' = steps, unserved' = unserved
      PROVE  IInv' /\ Kept /\ Continues(r)
  <2>1. IInv' /\ Kept
    BY <1>1, <1>3, <1>4, <1>5, <1>6, Unwritten DEF Leaves
  <2> QED BY <1>1, <1>2, <1>6, <2>1 DEF Continues, Ended
<1>7. ASSUME Save(r, x), unserved' = unserved
      PROVE  IInv' /\ Kept /\ Continues(r)
  <2>1. IInv' /\ Kept /\ \A q \in Run \ {r} : Ended(q)' => Ended(q)
    BY <1>1, <1>2, <1>3, <1>4, <1>5, <1>7, Recorded DEF Leaves
  <2> QED BY <1>1, <1>2, <2>1 DEF Continues
<1>8. ASSUME NEW c \in Unused,
             row' = [row EXCEPT ![r] = x.row, ![c] = NewRow("resume", r)],
             steps' = [steps EXCEPT ![r] = x.steps], unserved' = unserved \cup {c}
      PROVE  IInv' /\ Kept /\ Continues(r)
  <2>1. c \in Run /\ row[c] = NoRun
    BY DEF Unused
  <2> QED BY <1>1, <1>2, <1>3, <1>4, <1>5, <1>8, <2>1, Continued
<1> QED BY <1>1, <1>6, <1>7, <1>8

-----------------------------------------------------------------------------
(* Theorems of every deployment.                                            *)

LEMMA InitInv == Init => IInv
<1> SUFFICES ASSUME Init
             PROVE  IInv
  OBVIOUS
<1>1. PICK d \in Deployments :
         /\ approval = [a \in d.approvals |-> NoApproval]
         /\ session = [p \in d.procs |-> [r \in Run |-> NoSession]]
  BY DEF Init
<1>2. Askable = d.approvals /\ Present = d.procs
  BY <1>1 DEF Askable, Present
<1>3. [procs |-> Present, approvals |-> Askable] \in Deployments
  BY <1>2, DeploymentsAssumption
<1>4. Typed
  BY <1>1, <1>2, <1>3 DEF Init, Typed, TypeOK
<1>5. \A r : Asked(r) = {}
  BY <1>1, <1>2 DEF Asked
<1>6. AskedWhenBlocked
  BY <1>1, <1>2, <1>5 DEF AskedWhenBlocked, AskedOf
<1> QED BY <1>4, <1>6
        DEF Init, IInv, RunsExact, RunExact, RunningServed, TurnFollowsRow

LEMMA CrashNextInv ==
    ASSUME IInv, CrashNext
    PROVE  IInv' /\ Kept
<1>1. ASSUME NEW p \in Proc, Crash(p)
      PROVE  IInv' /\ Kept
  BY <1>1, CrashStep
<1>2. ASSUME NEW asked \in SUBSET Approval, NEW recorded \in SUBSET Approval,
             CrashInRequest(asked, recorded)
      PROVE  IInv' /\ Kept
  BY <1>2, CrashInRequestStep
<1>3. ASSUME NEW p \in Proc, NEW r \in Run, NEW some \in SUBSET Approval,
             CrashInCancel(p, r, some) \/ CrashInRecover(p, r, some)
      PROVE  IInv' /\ Kept
  BY <1>3, CrashInCancelStep, CrashInRecoverStep
<1>4. ASSUME NEW p \in Proc, NEW a \in Approval, CrashInApprove(p, a)
      PROVE  IInv' /\ Kept
  BY <1>4, CrashInApproveStep
<1> QED BY <1>1, <1>2, <1>3, <1>4 DEF CrashNext

\* Every step keeps the inductive invariant, and what no step may change.
LEMMA NextInv ==
    ASSUME IInv, Next
    PROVE  IInv' /\ Kept
<1>1. ASSUME NEW p \in Proc, NEW r \in Run, NEW kind \in {"stream", "send"},
             NEW parent \in Run \cup {NoRun}, Begin(p, r, kind, parent)
      PROVE  IInv' /\ Kept
  BY <1>1, BeginStep
<1>2. ASSUME NEW p \in Proc, NEW r \in Run, NEW kind \in {"stream", "send"},
             StartTurn(p, r, kind)
      PROVE  IInv' /\ Kept
  BY <1>1, <1>2 DEF StartTurn
<1>3. ASSUME NEW p \in Proc, NEW o \in Run, NEW r \in Run, ResumeRun(p, o, r)
      PROVE  IInv' /\ Kept
  BY <1>1, <1>3, ResumeRunBegins
<1>4. ASSUME NEW r \in Run, StartFails(r)
      PROVE  IInv' /\ Kept
  BY <1>4, StartFailsStep
<1>5. ASSUME NEW c \in Run, HandOff(c)
      PROVE  IInv' /\ Kept
  BY <1>5, HandOffStep
<1>6. ASSUME NEW asked \in SUBSET Approval, RequestApproval(asked)
      PROVE  IInv' /\ Kept
  BY <1>6, RequestStep
<1>7. CASE Work \/ Complete \/ Throw \/ HandOffEnds \/ Block \/ Abort
  BY <1>7, WorkStep, CompleteStep, ThrowStep, HandOffEndsStep, BlockStep, AbortStep
<1>8. ASSUME NEW p \in Proc, NEW r \in Run, CancelRun(p, r) \/ Recover(p, r)
      PROVE  IInv' /\ Kept
  BY <1>8, CancelRunStep, RecoverStep
<1>9. ASSUME NEW p \in Proc, NEW r \in Run, NEW c \in Run, RetryRun(p, r, c)
      PROVE  IInv' /\ Kept
  BY <1>9, RetryRunStep
<1>10. ASSUME NEW p \in Proc, NEW a \in Approval, Approve(p, a)
      PROVE  IInv' /\ Kept
  BY <1>10, RepeatAnswerStep, AnswerStep, ResumeStep DEF Approve
<1>11. TurnNext => IInv' /\ Kept
  BY <1>2, <1>3, <1>4, <1>5, <1>6, <1>7 DEF TurnNext
<1> QED BY <1>8, <1>9, <1>10, <1>11, CrashNextInv DEF Next

LEMMA StutterInv ==
    ASSUME IInv, UNCHANGED vars
    PROVE  IInv' /\ Kept
<1>1. Present' = Present /\ Askable' = Askable /\ \A r : Asked(r)' = Asked(r)
  BY DEF vars, Present, Askable, Asked
<1>2. Kept
  BY TableGoes DEF vars, Kept
<1> QED BY <1>1, <1>2 DEF vars, IInv, Typed, TypeOK, RunsExact, RunningServed, TurnFollowsRow,
                    Beaten, Ended, AskedWhenBlocked, AskedOf

\* The inductive invariant holds of every deployment.
THEOREM Invariance == Spec => []IInv
<1>1. IInv /\ [Next]_vars => IInv'
  BY NextInv, StutterInv
<1> QED BY <1>1, InitInv, PTL DEF Spec

\* Rows, steps, approvals, sessions and the turn keep their types.
THEOREM TypeCorrect == Spec => []TypeOK
<1>1. IInv => TypeOK
  BY DEF IInv, Typed
<1> QED BY <1>1, Invariance, PTL

\* Of all writers that race for the end of a run (its turn, a cancellation of
\* another process, a recovery, a resumption) one wins, in the row and the trail;
\* only a row that a preempted markBlocked has taken back differs from its trail.
THEOREM VerdictsExact == Spec => []VerdictExact
<1>1. ASSUME IInv PROVE VerdictExact
  <2>1. ASSUME NEW r \in Run, NEW s \in steps[r], s.type \in Terminal
        PROVE  /\ row[r].status = s.type \/ Overwritten(r)
               /\ \A q \in steps[r] : q.type \in Terminal => q.type = s.type
    <3>1. RunExact(row[r], steps[r]) /\ row[r] # NoRun
      BY <1>1 DEF IInv, RunsExact, RunExact
    <3>2. CASE row[r].status \in Terminal
      BY <2>1, <3>1, <3>2 DEF RunExact
    <3>3. CASE row[r].status \notin Terminal
      BY <2>1, <3>1, <3>3 DEF RunExact, Stuck, Overwritten
    <3> QED BY <3>2, <3>3
  <2>2. EndedAwaitsNothing
    BY <1>1 DEF IInv, RunsExact, RunExact, Stuck, EndedAwaitsNothing, Overwritten, Ended
  <2> QED BY <2>1, <2>2 DEF VerdictExact, OneVerdict
<1> QED BY <1>1, Invariance, PTL

\* No error path of a turn leaves its run running with nobody to execute it.
THEOREM RunningIsServed == Spec => []RunningServed
<1>1. IInv => RunningServed
  BY DEF IInv
<1> QED BY <1>1, Invariance, PTL

-----------------------------------------------------------------------------
(* The rows implement RunRecord: a step creates a run, moves one, or         *)
(* completes one that another takes over.  That a move is one of the table's *)
(* is Kept, whatever row the writer had cached.                              *)

\* The value of `status` under the refinement.
Statuses == [r \in Run |-> StatusOf(r)]

LEMMA SameStatus ==
    ASSUME \A r \in Run : StatusOf(r)' = StatusOf(r)
    PROVE  [Record!Next]_Statuses
BY DEF Statuses

LEMMA RewriteMoves ==
    ASSUME NoPreemption, IInv, Kept,
           NEW r \in Run, row[r] # NoRun, NEW w, row' = [row EXCEPT ![r] = w]
    PROVE  [Record!Next]_Statuses
<1>1. row \in [Run -> Row \cup {NoRun}]
  BY DEF IInv, Typed, TypeOK
<1>2. /\ row'[r] # NoRun /\ Goes(row[r].status, row'[r].status)
      /\ \A q \in Run \ {r} : row'[q] = row[q]
  BY <1>1 DEF Kept
<1>3. \A q \in Run : StatusOf(q)' = IF q = r THEN row'[r].status ELSE StatusOf(q)
  BY <1>2 DEF StatusOf
<1>4. StatusOf(r) = row[r].status
  BY DEF StatusOf
<1>5. CASE row'[r].status = row[r].status
  BY <1>3, <1>4, <1>5, SameStatus
<1>6. CASE Record!MayFollow(row[r].status, row'[r].status)
  <2>1. row'[r].status \in {"queued", "running", "blocked"} \cup Record!Terminal
    BY <1>6 DEF Record!MayFollow, Record!Terminal
  <2>2. Statuses' = [Statuses EXCEPT ![r] = row'[r].status] /\ Statuses[r] = row[r].status
    BY <1>3, <1>4 DEF Statuses
  <2>3. Record!Move(r, row'[r].status)
    BY <1>6, <2>2 DEF Record!Move, Statuses
  <2> QED BY <2>1, <2>3 DEF Record!Next
<1> QED BY <1>2, <1>5, <1>6 DEF Goes

LEMMA CreationCreates ==
    ASSUME IInv, Kept, NEW c \in Run, row[c] = NoRun, NEW w, row' = [row EXCEPT ![c] = w]
    PROVE  [Record!Next]_Statuses
<1>1. row \in [Run -> Row \cup {NoRun}]
  BY DEF IInv, Typed, TypeOK
<1>2. /\ row'[c] # NoRun => row'[c].status \in {"queued", "running"}
      /\ \A q \in Run \ {c} : row'[q] = row[q]
  BY <1>1 DEF Kept
<1>3. CASE row'[c] = NoRun
  BY <1>2, <1>3, SameStatus DEF StatusOf
<1>4. CASE row'[c] # NoRun
  <2>1. /\ StatusOf(c) = "none"
        /\ \A q \in Run : StatusOf(q)' = IF q = c THEN row'[c].status ELSE StatusOf(q)
    BY <1>2, <1>4 DEF StatusOf
  <2>2. Statuses' = [Statuses EXCEPT ![c] = row'[c].status] /\ Statuses[c] = "none"
    BY <2>1 DEF Statuses
  <2>3. Record!Create(c, row'[c].status)
    BY <1>2, <1>4, <2>2 DEF Record!Create, Statuses
  <2> QED BY <1>2, <1>4, <2>3 DEF Record!Next
<1> QED BY <1>3, <1>4

LEMMA TakeOverContinues ==
    ASSUME NoPreemption, IInv, Kept, NEW r \in Run, NEW c \in Run, row[r] # NoRun, row[c] = NoRun,
           NEW w, NEW v, row' = [row EXCEPT ![r] = w, ![c] = v],
           v # NoRun, v.status = "running", w.status \in {row[r].status, "completed"}
    PROVE  Record!Next
<1>1. row \in [Run -> Row \cup {NoRun}] /\ c # r
  BY DEF IInv, Typed, TypeOK
<1>2. /\ row'[r] = w /\ row'[c] = v /\ w # NoRun /\ Goes(row[r].status, w.status)
      /\ \A q \in Run \ {r, c} : row'[q] = row[q]
  BY <1>1 DEF Kept
<1>3. /\ Statuses[r] = row[r].status /\ Statuses[c] = "none"
      /\ \A q \in Run : Statuses'[q] = IF q = r THEN w.status
                                       ELSE IF q = c THEN "running" ELSE Statuses[q]
  BY <1>1, <1>2 DEF Statuses, StatusOf
<1>4. CASE w.status = row[r].status
  <2>1. Statuses' = [Statuses EXCEPT ![c] = "running"]
    BY <1>1, <1>3, <1>4 DEF Statuses
  <2>2. Record!Create(c, "running")
    BY <1>3, <2>1 DEF Record!Create, Statuses
  <2> QED BY <2>2 DEF Record!Next
<1>5. CASE w.status = "completed" /\ w.status # row[r].status
  <2>1. Statuses' = [Statuses EXCEPT ![r] = "completed", ![c] = "running"]
    BY <1>1, <1>3, <1>5 DEF Statuses
  <2>2. Record!Continue(r, c)
    BY <1>2, <1>3, <1>5, <2>1 DEF Record!Continue, Statuses, Goes
  <2> QED BY <2>2 DEF Record!Next
<1> QED BY <1>4, <1>5

\* The steps of a turn that write the row of its run.
LEMMA TurnWrites ==
    ASSUME NoPreemption, IInv, Kept,
           \/ Work \/ Complete \/ Throw \/ HandOffEnds \/ Block
           \/ \E asked \in SUBSET Approval : RequestApproval(asked)
    PROVE  [Record!Next]_Statuses
<1>1. turn # NoTurn /\ \E w : row' = [row EXCEPT ![turn.run] = w]
  BY DEF Work, Complete, Throw, HandOffEnds, Block, RequestApproval, Asking, Working, EndWith,
         Save
<1>2. turn.run \in Run /\ row[turn.run] # NoRun
  BY <1>1 DEF IInv, Typed, TypeOK, Turn, TurnFollowsRow
<1> QED BY <1>1, <1>2, RewriteMoves

LEMMA HandOffContinues ==
    ASSUME NoPreemption, IInv, Kept, NEW c \in Run, HandOff(c)
    PROVE  Record!Next
<1> DEFINE y == SyncModelMessages(Held)
           x == Mark(y, "completed")
           new == NewRow("handoff", turn.run)
<1>1. /\ Working /\ row[c] = NoRun /\ x.ok
      /\ row' = [row EXCEPT ![turn.run] = x.row, ![c] = new]
  BY DEF HandOff, Unused
<1>2. turn.run \in Run /\ row[turn.run] # NoRun
  BY <1>1, HeldState, NullsAssumption
<1>3. \/ Fits(Held) /\ Fits(y) /\ y.ok
      \/ Lost(Held) /\ Lost(y) /\ y.row.status = Held.row.status
  BY <1>1, SyncHeld
<1>4. "completed" \in Terminal
  BY DEF Terminal
<1> HIDE DEF y
<1>5. Settled(x, "completed")
  BY <1>1, <1>3, <1>4, MarkFits, MarkLost
<1>6. x.row.status = "completed"
  BY <1>5 DEF Settled
<1>7. new \in Row /\ new.status = "running"
  BY <1>2, StatusTypes DEF NewRow, Row
<1> HIDE DEF x, new
<1> QED BY <1>1, <1>2, <1>6, <1>7, NullsAssumption, TakeOverContinues

\* The answer to an approval.
LEMMA ApproveWrites ==
    ASSUME NoPreemption, IInv, Kept, NEW p \in Proc, NEW a \in Approval,
           Approve(p, a) \/ CrashInApprove(p, a)
    PROVE  [Record!Next]_Statuses
<1> DEFINE r == approval[a].run
           x == RecordResponse(Rehydrated(r), a)
           y == Mark([x EXCEPT !.cache = x.row], "completed")
           new == NewRow("resume", r)
<1>1. Answerable(p, a)
  BY DEF Approve, RepeatAnswer, Answer, Resume, CrashInApprove
<1>2. turn = NoTurn /\ r \in Run /\ row[r] # NoRun
  BY <1>1, AnswerableState
<1>3. new \in Row /\ new.status = "running"
  BY <1>2, StatusTypes DEF NewRow, Row
<1>4. x.row.status = row[r].status
  BY <1>2, RespondsRewrites
<1>5. x.ok => y.row.status \in {row[r].status, "completed"}
  BY <1>2, CompletedRewrites
<1>6. \/ row' = row
      \/ row' = [row EXCEPT ![r] = x.row]
      \/ \E c \in Run : row[c] = NoRun /\ row' = [row EXCEPT ![r] = x.row, ![c] = new]
      \/ \E c \in Run : /\ row[c] = NoRun /\ x.ok
                        /\ row' = [row EXCEPT ![r] = y.row, ![c] = new]
  BY DEF Approve, RepeatAnswer, Answer, Resume, CrashInApprove, Save, Unused
<1> HIDE DEF y, x, new, r
<1>7. CASE row' = row
  BY <1>7, SameStatus DEF StatusOf
<1>8. CASE row' = [row EXCEPT ![r] = x.row]
  BY <1>2, <1>8, RewriteMoves
<1>9. ASSUME NEW c \in Run, row[c] = NoRun, NEW w, w.status \in {row[r].status, "completed"},
             row' = [row EXCEPT ![r] = w, ![c] = new]
      PROVE  Record!Next
  BY <1>2, <1>3, <1>9, NullsAssumption, TakeOverContinues
<1> QED BY <1>4, <1>5, <1>6, <1>7, <1>8, <1>9

LEMMA RecordStep ==
    ASSUME NoPreemption, IInv, [Next]_vars
    PROVE  [Record!Next]_Statuses
<1>1. Kept
  BY NextInv, StutterInv
<1>2. ASSUME row' = row PROVE [Record!Next]_Statuses
  BY <1>2, SameStatus DEF StatusOf
<1>3. ASSUME NEW p \in Proc, NEW r \in Run, NEW kind, NEW parent, Begin(p, r, kind, parent)
      PROVE  [Record!Next]_Statuses
  BY <1>1, <1>3, CreationCreates DEF Begin, Unused
<1>4. ASSUME NEW r \in Run, StartFails(r) PROVE [Record!Next]_Statuses
  BY <1>1, <1>4, CreationCreates DEF StartFails, Unused
<1>5. ASSUME NEW p \in Proc, NEW r \in Run, NEW c \in Run, RetryRun(p, r, c)
      PROVE  [Record!Next]_Statuses
  BY <1>1, <1>5, CreationCreates DEF RetryRun, Unused
<1>6. ASSUME NEW p \in Proc, NEW r \in Run, NEW some \in SUBSET Approval,
             \/ CancelRun(p, r) \/ Recover(p, r)
             \/ CrashInCancel(p, r, some) \/ CrashInRecover(p, r, some)
      PROVE  [Record!Next]_Statuses
  <2>1. row[r] # NoRun /\ (row' = row \/ \E w : row' = [row EXCEPT ![r] = w])
    BY <1>6 DEF CancelRun, Recover, Recovering, CrashInCancel, CrashInRecover, Save
  <2> QED BY <1>1, <1>2, <2>1, RewriteMoves
<1>7. ASSUME NEW asked \in SUBSET Approval, NEW recorded \in SUBSET Approval,
             CrashInRequest(asked, recorded)
      PROVE  [Record!Next]_Statuses
  <2>1. turn.run \in Run /\ row[turn.run] # NoRun /\ \E w : row' = [row EXCEPT ![turn.run] = w]
    BY <1>7, HeldState, NullsAssumption DEF CrashInRequest, Asking, Save
  <2> QED BY <1>1, <2>1, RewriteMoves
<1>8. ASSUME Abort \/ (\E p \in Proc : Crash(p)) \/ UNCHANGED vars
      PROVE  row' = row
  BY <1>8 DEF Abort, Crash, vars
<1>9. TurnNext => [Record!Next]_Statuses
  BY <1>1, <1>2, <1>3, <1>4, <1>8, TurnWrites, HandOffContinues
  DEF TurnNext, StartTurn, ResumeRun
<1>10. CrashNext => [Record!Next]_Statuses
  BY <1>1, <1>2, <1>6, <1>7, <1>8, ApproveWrites DEF CrashNext
<1>11. ASSUME NEW p \in Proc, NEW a \in Approval, Approve(p, a)
       PROVE  [Record!Next]_Statuses
  BY <1>1, <1>11, ApproveWrites
<1>12. CASE UNCHANGED vars
  BY <1>2, <1>8, <1>12
<1>13. CASE Next
  <2>1. {} \in SUBSET Approval
    OBVIOUS
  <2> QED BY <1>5, <1>6, <1>9, <1>10, <1>11, <1>13, <2>1 DEF Next
<1> QED BY <1>12, <1>13

\* If no other process writes a run between the request of an approval and
\* markBlocked, the rows of runs, written by turns with a cached row and by writers
\* without a lease, crashing and racing, implement a record in which a run is
\* created once, moves along the table only and has one verdict.
THEOREM RowsImplementRecord ==
    ASSUME NoPreemption
    PROVE  Spec => ImplementsRecord
<1>1. Init => Record!Init
  BY DEF Init, Record!Init, StatusOf
<1>2. IInv /\ [Next]_vars => [Record!Next]_[r \in Run |-> StatusOf(r)]
  BY RecordStep DEF Statuses
<1> QED BY <1>1, <1>2, Invariance, PTL DEF Spec, ImplementsRecord, Record!Spec

-----------------------------------------------------------------------------
(* One process.  What follows fails with two: a session in the memory of    *)
(* one process survives what the other does to its run.                     *)

\* A turn that has lost its run was aborted, or has no stream to abort.
BeatenStopped ==
    turn # NoTurn /\ turn.phase = "working" /\ Ended(turn.run)
        => turn.aborted \/ turn.kind = "send"

\* The approvals of a run are consumed together, and their session is closed.
ConsumedTogether ==
    \A r \in Run : InState(r, "consumed") # {} =>
        /\ InState(r, "consumed") = Asked(r)
        /\ \A p \in Present : session[p][r] = NoSession

\* Nothing is open for a run with a verdict, unless a crash cut its cancellation.
EndedAnswered ==
    \A r \in Run : Ended(r) /\ r \notin torn =>
        /\ InState(r, "pending") = {}
        /\ \A p \in Present : session[p][r] # NoSession
                                => Asked(r) \subseteq session[p][r].collected

\* A continuation has consumed the approvals of its parent.
IsChild(c) == row[c] # NoRun /\ row[c].kind = "resume"
ChildrenOfConsumed ==
    \A c \in Run : IsChild(c) =>
        row[c].parent \in Run /\ InState(row[c].parent, "consumed") # {}

OneChild == \A c, d \in Run : IsChild(c) /\ IsChild(d) /\ row[c].parent = row[d].parent
                                 => c = d

\* The inductive invariant of one process, beside IInv.
AloneInv ==
    /\ BeatenStopped
    /\ ConsumedTogether
    /\ EndedAnswered
    /\ ChildrenOfConsumed
    /\ OneChild

LEMMA Sole ==
    ASSUME IInv, Alone
    PROVE  \E p \in Proc : Present = {p}
<1>1. Present \subseteq Proc
  BY DeploymentsAssumption DEF IInv, Typed, TypeOK
<1>2. IsFiniteSet(Present)
  BY <1>1, ProcAssumption, FS_Subset
<1>3. PICK p : Present = {p}
  BY <1>2, FS_Singleton DEF Alone
<1> QED BY <1>1, <1>3

\* A step that consumes nothing and continues no run.
LEMMA NothingConsumed ==
    ASSUME IInv, AloneInv, IInv', Kept, NoChild, Present' = Present,
           \A r \in Run : InState(r, "consumed")' = InState(r, "consumed"),
           \A r \in Run : InState(r, "consumed") # {} =>
              /\ Asked(r)' = Asked(r)
              /\ \A p \in Present : session'[p][r] = NoSession
    PROVE  ConsumedTogether' /\ ChildrenOfConsumed' /\ OneChild'
<1>1. ConsumedTogether'
  BY DEF AloneInv, ConsumedTogether
<1>2. \A c \in Run : IsChild(c)' => IsChild(c) /\ row'[c].parent = row[c].parent
  BY DEF IsChild, Kept, NoChild
<1>3. ChildrenOfConsumed'
  BY <1>2 DEF AloneInv, ChildrenOfConsumed
<1>4. OneChild'
  BY <1>2 DEF AloneInv, OneChild
<1> QED BY <1>1, <1>3, <1>4

\* A step that changes no approval and no session.
LEMMA QuietAlone ==
    ASSUME IInv, AloneInv, IInv', Kept, NoChild, approval' = approval, session' = session,
           torn' = torn, BeatenStopped', \A r \in Run : Ended(r)' /\ ~Ended(r) => Asked(r) = {}
    PROVE  AloneInv'
<1>1. /\ Present' = Present /\ \A r : Asked(r)' = Asked(r)
      /\ \A r, s : InState(r, s)' = InState(r, s)
  BY DEF Present, Asked, Askable, InState
<1>2. ConsumedTogether' /\ ChildrenOfConsumed' /\ OneChild'
  <2>1. \A r \in Run : InState(r, "consumed") # {}
                          => \A p \in Present : session'[p][r] = NoSession
    BY DEF AloneInv, ConsumedTogether
  <2> QED BY <1>1, <2>1, NothingConsumed
<1>3. EndedAnswered'
  <2> SUFFICES ASSUME NEW r \in Run, Ended(r)', r \notin torn
               PROVE  /\ InState(r, "pending") = {}
                      /\ \A p \in Present : session[p][r] # NoSession
                            => Asked(r) \subseteq session[p][r].collected
    BY <1>1 DEF EndedAnswered
  <2>1. CASE Ended(r)
    BY <2>1 DEF AloneInv, EndedAnswered
  <2>2. CASE Asked(r) = {}
    BY <2>2 DEF InState
  <2> QED BY <2>1, <2>2
<1> QED BY <1>2, <1>3 DEF AloneInv

LEMMA HonestAlone ==
    ASSUME IInv, AloneInv, IInv', Kept, NoChild, Honest,
           approval' = approval, session' = session, torn' = torn
    PROVE  AloneInv'
<1>1. BeatenStopped'
  BY StatusTypes DEF BeatenStopped, Honest, Ended
<1> QED BY <1>1, QuietAlone DEF Honest

\* The turn's own steps, but the request of approvals.
LEMMA TurnAlone ==
    ASSUME IInv, AloneInv, IInv', Kept,
           \/ \E p \in Proc, r \in Run, kind \in {"stream", "send"} : StartTurn(p, r, kind)
           \/ \E p \in Proc, o, r \in Run : ResumeRun(p, o, r)
           \/ \E r \in Run : StartFails(r)
           \/ Work \/ Complete \/ Throw \/ HandOffEnds \/ Block \/ Abort
           \/ \E c \in Run : HandOff(c)
    PROVE  AloneInv'
<1>1. ASSUME NEW p \in Proc, NEW r \in Run, NEW kind \in {"stream", "send"},
             NEW parent \in Run \cup {NoRun}, Begin(p, r, kind, parent)
      PROVE  AloneInv'
  <2>1. NoChild /\ Honest
    BY <1>1, BeginStep
  <2> QED BY <1>1, <2>1, HonestAlone DEF Begin, history
<1>2. ASSUME NEW r \in Run, StartFails(r)
      PROVE  AloneInv'
  <2>1. NoChild /\ Honest
    BY <1>2, StartFailsStep
  <2> QED BY <1>2, <2>1, HonestAlone DEF StartFails
<1>3. CASE Work
  BY <1>3, WorkStep, HonestAlone DEF Work, EndWith, history
<1>4. CASE Complete
  BY <1>4, CompleteStep, HonestAlone DEF Complete, EndWith, history
<1>5. CASE Throw
  BY <1>5, ThrowStep, HonestAlone DEF Throw, EndWith, history
<1>6. CASE HandOffEnds
  BY <1>6, HandOffEndsStep, HonestAlone DEF HandOffEnds, EndWith, history
<1>7. ASSUME NEW c \in Run, HandOff(c)
      PROVE  AloneInv'
  <2>1. NoChild /\ Honest
    BY <1>7, HandOffStep
  <2> QED BY <1>7, <2>1, HonestAlone DEF HandOff, history
<1>8. CASE Block
  <2>1. NoChild /\ Honest
    BY <1>8, BlockStep
  <2> QED BY <1>8, <2>1, HonestAlone DEF Block, EndWith, history
<1>9. ASSUME NEW p \in Proc, NEW o \in Run, NEW r \in Run, ResumeRun(p, o, r)
      PROVE  AloneInv'
  BY <1>1, <1>9, ResumeRunBegins
<1>11. ASSUME NEW p \in Proc, NEW r \in Run, NEW kind \in {"stream", "send"},
              StartTurn(p, r, kind)
       PROVE  AloneInv'
  BY <1>1, <1>11 DEF StartTurn
<1>10. CASE Abort
  <2>1. NoChild /\ BeatenStopped'
    BY <1>10, AbortStep DEF Abort, BeatenStopped, IInv, Typed, TypeOK, Turn, Working
  <2> QED BY <1>10, <2>1, QuietAlone DEF Abort, Ended, history
<1> QED BY <1>2, <1>3, <1>4, <1>5, <1>6, <1>7, <1>8, <1>9, <1>10, <1>11

\* A turn that has a stream asks only while its run is its own.
LEMMA RequestAlone ==
    ASSUME IInv, AloneInv, NEW asked \in SUBSET Approval, RequestApproval(asked)
    PROVE  AloneInv'
<1>1. PICK r \in Run : r = turn.run
  BY HeldState DEF RequestApproval, Asking
<1>2. /\ Working /\ ~turn.aborted /\ Asking(asked)
      /\ approval' = Registered(asked) /\ torn' = torn
      /\ \/ session' = session
         \/ \E s : session' = [session EXCEPT ![turn.proc][r] = s]
  BY <1>1 DEF RequestApproval, Asking, EndWith, history
<1>3. /\ IInv' /\ Kept /\ NoChild /\ Honest
      /\ ~Ended(r) => row'[r].status = "blocked"
      /\ Ended(r) => session' = session
  BY <1>1, RequestStep
<1>4. turn.proc \in Present /\ Asked(r) = {}
  BY <1>2, <1>1, HeldState
<1>5. session \in [Present -> [Run -> Session \cup {NoSession}]]
  BY DEF IInv, Typed, TypeOK
<1>6. /\ Present' = Present
      /\ \A p \in Present, q \in Run \ {r} : session'[p][q] = session[p][q]
  <2>1. ASSUME NEW s, session' = [session EXCEPT ![turn.proc][r] = s]
        PROVE  /\ Present' = Present
               /\ \A p \in Present, q \in Run \ {r} : session'[p][q] = session[p][q]
    BY <1>4, <1>5, <2>1 DEF Present
  <2> QED BY <1>2, <2>1 DEF Present
<1>9. /\ Asked(r)' = Registering(asked)
      /\ \A q \in Run \ {r} : Asked(q)' = Asked(q)
  BY <1>1, <1>2, RegisteredEffect
<1>10. \A s : \A q \in Run \ {r} : InState(q, s)' = InState(q, s)
  BY <1>1, <1>2, RegisteredEffect
<1>11. InState(r, "consumed")' = {} /\ InState(r, "consumed") = {}
  BY <1>1, <1>2, RegisteredEffect
<1>12. ConsumedTogether' /\ ChildrenOfConsumed' /\ OneChild'
  <2>1. \A q \in Run : InState(q, "consumed")' = InState(q, "consumed")
    BY <1>10, <1>11
  <2>2. \A q \in Run : InState(q, "consumed") # {} =>
           Asked(q)' = Asked(q) /\ \A p \in Present : session'[p][q] = NoSession
    BY <1>6, <1>9, <1>11 DEF AloneInv, ConsumedTogether
  <2> QED BY <1>3, <1>6, <2>1, <2>2, NothingConsumed
<1>13. BeatenStopped'
  BY <1>3, StatusTypes DEF BeatenStopped, Honest, Ended
<1>14. EndedAnswered'
  <2> SUFFICES ASSUME NEW q \in Run, Ended(q)', q \notin torn
               PROVE  /\ InState(q, "pending")' = {}
                      /\ \A p \in Present : session'[p][q] # NoSession
                            => Asked(q)' \subseteq session'[p][q].collected
    BY <1>2, <1>6 DEF EndedAnswered
  <2>1. CASE q = r
    <3>1. Ended(r)
      BY <1>3, <2>1, StatusTypes DEF Ended
    <3>2. turn.kind = "send"
      BY <1>2, <1>1, <3>1 DEF AloneInv, BeatenStopped, Working
    <3>3. Asked(r)' = {} /\ session' = session
      BY <1>1, <1>3, <1>9, <3>1, <3>2 DEF Registering
    <3>4. \A p \in Present : session[p][r] = NoSession
      BY <1>4 DEF IInv, AskedWhenBlocked
    <3>5. \A s : InState(r, s)' = {}
      BY <3>3 DEF InState
    <3> QED BY <2>1, <3>3, <3>4, <3>5
  <2>2. CASE q # r
    <3>1. CASE Ended(q)
      BY <1>6, <1>9, <1>10, <2>2, <3>1 DEF AloneInv, EndedAnswered
    <3>2. CASE ~Ended(q)
      BY <1>3, <1>9, <2>2, <3>2 DEF Honest, InState
    <3> QED BY <3>1, <3>2
  <2> QED BY <2>1, <2>2
<1> QED BY <1>12, <1>13, <1>14 DEF AloneInv

LEMMA RetryAlone ==
    ASSUME IInv, AloneInv, NEW p \in Proc, NEW r \in Run, NEW c \in Run, RetryRun(p, r, c)
    PROVE  AloneInv'
<1>1. /\ row[c] = NoRun
      /\ row' = [row EXCEPT ![c] = [row[r] EXCEPT !.kind = "turn", !.parent = r,
                                                  !.status = "queued"]]
      /\ approval' = approval /\ session' = session /\ turn' = turn /\ torn' = torn
  BY DEF RetryRun, Unused, history
<1>2. IInv' /\ Kept /\ NoChild
  BY RetryRunStep
<1>3. row \in [Run -> Row \cup {NoRun}] /\ (turn # NoTurn => turn.run \in Run)
  BY DEF IInv, Typed, TypeOK, Turn
<1>4. row[r] \in Row /\ row'[c].status = "queued"
  BY <1>1, <1>3 DEF RetryRun, Row
<1>5. \A q \in Run : Ended(q)' => Ended(q)
  BY <1>1, <1>3, <1>4, StatusTypes DEF Ended
<1>6. BeatenStopped'
  BY <1>1, <1>3, <1>5 DEF AloneInv, BeatenStopped
<1> QED BY <1>1, <1>2, <1>5, <1>6, QuietAlone

LEMMA CrashAlone ==
    ASSUME IInv, AloneInv, NEW p \in Proc, Crash(p)
    PROVE  AloneInv'
<1>1. /\ p \in Present /\ session' = Forgotten(p) /\ approval' = approval
      /\ row' = row /\ (turn' = turn \/ turn' = NoTurn) /\ torn' = torn
  BY DEF Crash, Dies, TurnLost
<1>2. IInv' /\ Kept /\ NoChild
  BY CrashStep
<1>4. /\ Present' = Present
      /\ \A o \in Present, r \in Run : session'[o][r] \in {session[o][r], NoSession}
  BY <1>1, ForgottenFollows
<1>5. /\ \A r : Asked(r)' = Asked(r)
      /\ \A r, s : InState(r, s)' = InState(r, s)
  BY <1>1 DEF Asked, Askable, InState
<1>6. ConsumedTogether' /\ ChildrenOfConsumed' /\ OneChild'
  <2>1. \A r \in Run : InState(r, "consumed") # {}
                          => \A o \in Present : session'[o][r] = NoSession
    BY <1>4 DEF AloneInv, ConsumedTogether
  <2> QED BY <1>2, <1>4, <1>5, <2>1, NothingConsumed
<1>7. BeatenStopped'
  BY <1>1 DEF AloneInv, BeatenStopped, Ended
<1>8. EndedAnswered'
  BY <1>1, <1>4, <1>5 DEF AloneInv, EndedAnswered, Ended
<1> QED BY <1>6, <1>7, <1>8 DEF AloneInv

\* What a crash while approvals are asked for leaves is open for no run that has
\* ended: the turn of such a run was aborted, or registers nothing.
LEMMA CrashInRequestAlone ==
    ASSUME IInv, AloneInv, NEW asked \in SUBSET Approval, NEW recorded \in SUBSET Approval,
           CrashInRequest(asked, recorded)
    PROVE  AloneInv'
<1>1. /\ Working /\ ~turn.aborted /\ Asking(asked) /\ approval' = Registered(asked)
      /\ turn.proc \in Present /\ session' = Forgotten(turn.proc) /\ torn' = torn
      /\ turn' = NoTurn
  BY DEF CrashInRequest, Asking, Working, Dies, TurnLost
<1>2. /\ IInv' /\ Kept /\ NoChild
      /\ \A q \in Run : Ended(q)' => Ended(q)
  BY CrashInRequestStep
<1>3. PICK r \in Run : r = turn.run
  BY <1>1, HeldState
<1>4. Asked(r) = {}
  BY <1>1, <1>3, HeldState
<1>5. /\ Asked(r)' = Registering(asked)
      /\ \A q \in Run \ {r} : Asked(q)' = Asked(q)
      /\ \A s : \A q \in Run \ {r} : InState(q, s)' = InState(q, s)
      /\ InState(r, "consumed")' = {} /\ InState(r, "consumed") = {}
  BY <1>1, <1>3, RegisteredEffect
<1>6. /\ Present' = Present
      /\ \A o \in Present, q \in Run : session'[o][q] \in {session[o][q], NoSession}
  BY <1>1, ForgottenFollows
<1>7. ConsumedTogether' /\ ChildrenOfConsumed' /\ OneChild'
  <2>1. \A q \in Run : InState(q, "consumed")' = InState(q, "consumed")
    BY <1>5
  <2>2. \A q \in Run : InState(q, "consumed") # {} =>
           Asked(q)' = Asked(q) /\ \A o \in Present : session'[o][q] = NoSession
    BY <1>5, <1>6 DEF AloneInv, ConsumedTogether
  <2> QED BY <1>2, <1>6, <2>1, <2>2, NothingConsumed
<1>8. EndedAnswered'
  <2> SUFFICES ASSUME NEW q \in Run, Ended(q), q \notin torn
               PROVE  /\ InState(q, "pending")' = {}
                      /\ \A o \in Present : session'[o][q] # NoSession
                            => Asked(q)' \subseteq session'[o][q].collected
    BY <1>1, <1>2, <1>6 DEF EndedAnswered
  <2>1. CASE q = r
    <3>1. turn.kind = "send"
      BY <1>1, <1>3, <2>1 DEF AloneInv, BeatenStopped, Working
    <3>2. Asked(r)' = {}
      BY <1>5, <3>1 DEF Registering
    <3>3. InState(r, "pending")' = {}
      BY <3>2 DEF InState
    <3>4. \A o \in Present : session[o][r] = NoSession
      BY <1>4 DEF IInv, AskedWhenBlocked
    <3> QED BY <1>6, <2>1, <3>3, <3>4
  <2>2. CASE q # r
    BY <1>5, <1>6, <2>2 DEF AloneInv, EndedAnswered
  <2> QED BY <2>1, <2>2
<1>9. BeatenStopped'
  BY <1>1 DEF BeatenStopped
<1> QED BY <1>7, <1>8, <1>9 DEF AloneInv

LEMMA CancelAlone ==
    ASSUME IInv, Alone, AloneInv, NEW p \in Proc, NEW r \in Run, CancelRun(p, r)
    PROVE  AloneInv'
<1> DEFINE x == Mark(Rehydrated(r), "cancelled")
<1>1. /\ MayAct(p) /\ row[r] # NoRun /\ torn' = torn
      /\ approval' = Expire(InState(r, "pending")) /\ session' = SessionDropped(p, r)
      /\ \/ /\ Streams(p, r)
            /\ turn' = [turn EXCEPT !.aborted = TRUE]
            /\ row' = row
         \/ ~Streams(p, r) /\ x.ok /\ Save(r, x) /\ turn' = turn
  BY DEF CancelRun, Expired, history
<1>2. IInv' /\ Kept /\ NoChild
  BY CancelRunStep
<1>3. p \in Present /\ Present = {p}
  BY <1>1, Sole DEF MayAct
<1>4. Restated /\ Askable' = Askable /\ \A q : Asked(q)' = Asked(q)
  BY <1>1, ExpiredRestated, RestatedAsked
<1>5. /\ InState(r, "pending")' = {}
      /\ \A s : \A q \in Run \ {r} : InState(q, s)' = InState(q, s)
      /\ \A q \in Run : InState(q, "consumed")' = InState(q, "consumed")
  BY <1>1, ExpiredRestated
<1>6. /\ Present' = Present /\ session'[p][r] = NoSession
      /\ \A q \in Run : session'[p][q] \in {session[p][q], NoSession}
  BY <1>1, <1>3, DroppedFollows DEF SessionsFollow, Present
<1>7. ConsumedTogether' /\ ChildrenOfConsumed' /\ OneChild'
  <2>1. \A q \in Run : InState(q, "consumed") # {}
                          => \A o \in Present : session'[o][q] = NoSession
    BY <1>3, <1>6 DEF AloneInv, ConsumedTogether
  <2> QED BY <1>2, <1>4, <1>5, <1>6, <2>1, NothingConsumed
<1>8. \A q \in Run \ {r} : row'[q] = row[q]
  <2>1. row \in [Run -> Row \cup {NoRun}]
    BY DEF IInv, Typed, TypeOK
  <2> QED BY <1>1, <2>1 DEF Save
<1>9. EndedAnswered'
  <2> SUFFICES ASSUME NEW q \in Run, Ended(q)', q \notin torn
               PROVE  /\ InState(q, "pending")' = {}
                      /\ session'[p][q] # NoSession => Asked(q) \subseteq session'[p][q].collected
    BY <1>1, <1>3, <1>4, <1>6 DEF EndedAnswered
  <2>1. CASE q = r
    BY <1>5, <1>6, <2>1
  <2>2. CASE q # r
    BY <1>3, <1>5, <1>6, <1>8, <2>2 DEF AloneInv, EndedAnswered, Ended
  <2> QED BY <2>1, <2>2
<1>10. BeatenStopped'
  <2>1. turn # NoTurn => /\ turn \in Turn /\ turn.run \in Run /\ turn.proc = p
                         /\ turn.aborted \in BOOLEAN
    BY <1>3 DEF IInv, Typed, TypeOK, Turn, TurnFollowsRow
  <2>2. CASE Streams(p, r) /\ turn' = [turn EXCEPT !.aborted = TRUE]
    BY <2>1, <2>2 DEF BeatenStopped, Streams, Turn
  <2>3. CASE ~Streams(p, r) /\ turn' = turn
    BY <1>8, <2>1, <2>3 DEF AloneInv, BeatenStopped, Streams, Ended
  <2> QED BY <1>1, <2>2, <2>3
<1> QED BY <1>7, <1>9, <1>10 DEF AloneInv

\* A process recovers runs when it has no turn and no session.
LEMMA RecoverAlone ==
    ASSUME IInv, Alone, AloneInv, NEW p \in Proc, NEW r \in Run, Recover(p, r)
    PROVE  AloneInv'
<1> DEFINE x == Mark(Rehydrated(r), "failed")
<1>1. /\ MayAct(p) /\ Save(r, x) /\ approval' = Expire(InState(r, "pending"))
      /\ session' = session /\ torn' = torn
      /\ turn' = turn /\ ~(turn # NoTurn /\ turn.proc = p)
      /\ \A q \in Run : session[p][q] = NoSession
  BY DEF Recover, Recovering, Expired, history
<1> HIDE DEF x
<1>2. IInv' /\ Kept /\ NoChild
  BY RecoverStep
<1>3. p \in Present /\ Present = {p} /\ Present' = Present
  BY <1>1, Sole DEF MayAct, Present
<1>4. Restated /\ Askable' = Askable /\ \A q : Asked(q)' = Asked(q)
  BY <1>1, ExpiredRestated, RestatedAsked
<1>5. /\ InState(r, "pending")' = {}
      /\ \A s : \A q \in Run \ {r} : InState(q, s)' = InState(q, s)
      /\ \A q \in Run : InState(q, "consumed")' = InState(q, "consumed")
  BY <1>1, ExpiredRestated
<1>6. ConsumedTogether' /\ ChildrenOfConsumed' /\ OneChild'
  BY <1>1, <1>2, <1>3, <1>4, <1>5, NothingConsumed
<1>7. \A q \in Run \ {r} : row'[q] = row[q]
  <2>1. row \in [Run -> Row \cup {NoRun}]
    BY DEF IInv, Typed, TypeOK
  <2> QED BY <1>1, <2>1 DEF Save
<1>8. EndedAnswered'
  <2> SUFFICES ASSUME NEW q \in Run, Ended(q)', q \notin torn
               PROVE  InState(q, "pending")' = {}
    BY <1>1, <1>3 DEF EndedAnswered
  <2>1. CASE q = r
    BY <1>5, <2>1
  <2>2. CASE q # r
    BY <1>5, <1>7, <2>2 DEF AloneInv, EndedAnswered, Ended
  <2> QED BY <2>1, <2>2
<1>9. BeatenStopped'
  BY <1>1, <1>3 DEF IInv, TurnFollowsRow, BeatenStopped
<1> QED BY <1>6, <1>8, <1>9 DEF AloneInv

\* A cancellation that is cut marks the run as torn; its process has no turn then.
LEMMA CrashInCancelAlone ==
    ASSUME IInv, Alone, AloneInv, NEW p \in Proc, NEW r \in Run,
           NEW some \in SUBSET Approval, CrashInCancel(p, r, some)
    PROVE  AloneInv'
<1>1. /\ some \in SUBSET InState(r, "pending") /\ approval' = Expire(some)
      /\ p \in Present /\ session' = Forgotten(p) /\ TurnLost(p)
      /\ torn' = torn \cup {r}
  BY DEF CrashInCancel, Dies
<1>2. /\ IInv' /\ Kept /\ NoChild
      /\ \A q \in Run \ {r} : Ended(q)' => Ended(q)
  BY CrashInCancelStep
<1>3. Present = {p}
  BY <1>1, Sole
<1>4. Restated /\ Askable' = Askable /\ \A q : Asked(q)' = Asked(q)
  BY <1>1, ExpiredRestated, RestatedAsked
<1>5. /\ \A s : \A q \in Run \ {r} : InState(q, s)' = InState(q, s)
      /\ \A q \in Run : InState(q, "consumed")' = InState(q, "consumed")
  BY <1>1, ExpiredRestated
<1>6. Present' = Present /\ \A q \in Run : session'[p][q] = NoSession
  BY <1>1, ForgottenFollows
<1>7. ConsumedTogether' /\ ChildrenOfConsumed' /\ OneChild'
  BY <1>2, <1>3, <1>4, <1>5, <1>6, NothingConsumed
<1>8. EndedAnswered'
  <2> SUFFICES ASSUME NEW q \in Run, Ended(q)', q \notin torn, q # r
               PROVE  InState(q, "pending")' = {}
    BY <1>1, <1>3, <1>6 DEF EndedAnswered
  <2> QED BY <1>2, <1>5 DEF AloneInv, EndedAnswered
<1>9. BeatenStopped'
  <2>1. turn # NoTurn => turn.proc = p
    BY <1>3 DEF IInv, TurnFollowsRow
  <2>2. turn' = NoTurn
    BY <1>1, <2>1 DEF TurnLost
  <2> QED BY <2>2 DEF BeatenStopped
<1> QED BY <1>7, <1>8, <1>9 DEF AloneInv

\* A recovery that is cut has expired approvals of a run without a verdict.
LEMMA CrashInRecoverAlone ==
    ASSUME IInv, Alone, AloneInv, NEW p \in Proc, NEW r \in Run,
           NEW some \in SUBSET Approval, CrashInRecover(p, r, some)
    PROVE  AloneInv'
<1>1. /\ some \in SUBSET InState(r, "pending") /\ approval' = Expire(some)
      /\ p \in Present /\ session' = Forgotten(p)
      /\ row' = row /\ turn' = turn /\ torn' = torn
      /\ row[r].status \in {"running", "blocked"}
  BY DEF CrashInRecover, Recovering, Dies, history
<1>2. IInv' /\ Kept /\ NoChild
  BY CrashInRecoverStep
<1>3. Present = {p} /\ ~Ended(r)
  BY <1>1, Sole, StatusTypes DEF Ended
<1>4. Restated /\ Askable' = Askable /\ \A q : Asked(q)' = Asked(q)
  BY <1>1, ExpiredRestated, RestatedAsked
<1>5. /\ \A s : \A q \in Run \ {r} : InState(q, s)' = InState(q, s)
      /\ \A q \in Run : InState(q, "consumed")' = InState(q, "consumed")
  BY <1>1, ExpiredRestated
<1>6. Present' = Present /\ \A q \in Run : session'[p][q] = NoSession
  BY <1>1, ForgottenFollows
<1>7. ConsumedTogether' /\ ChildrenOfConsumed' /\ OneChild'
  BY <1>2, <1>3, <1>4, <1>5, <1>6, NothingConsumed
<1>8. EndedAnswered'
  <2> SUFFICES ASSUME NEW q \in Run, Ended(q), q \notin torn
               PROVE  InState(q, "pending")' = {}
    BY <1>1, <1>3, <1>6 DEF EndedAnswered, Ended
  <2> QED BY <1>3, <1>5 DEF AloneInv, EndedAnswered
<1>9. BeatenStopped'
  BY <1>1 DEF AloneInv, BeatenStopped, Ended
<1> QED BY <1>7, <1>8, <1>9 DEF AloneInv

\* The session of an approval that can be answered has not been consumed; that
\* of a run with a verdict has all its answers, unless its cancellation was cut.
LEMMA AnswerableAlone ==
    ASSUME IInv, Alone, AloneInv, NEW p, NEW a, Answerable(p, a)
    PROVE  LET r == approval[a].run
           IN /\ Present = {p} /\ InState(r, "consumed") = {}
              /\ Asked(r) = InState(r, "pending") \cup InState(r, "answered")
              /\ Ended(r) /\ r \notin torn => Asked(r) \subseteq SessionOf(p, r).collected
<1>1. PICK r \in Run : r = approval[a].run
  BY AnswerableState
<1>2. /\ p \in Present /\ a \in Asked(r)
      /\ session[p][r] # NoSession \/ approval[a].state # "consumed"
  BY <1>1, AnswerableState DEF Answerable
<1>3. Present = {p}
  BY <1>2, Sole
<1>4. InState(r, "consumed") = {}
  <2> SUFFICES ASSUME InState(r, "consumed") # {}
               PROVE  FALSE
    OBVIOUS
  <2>1. InState(r, "consumed") = Asked(r) /\ session[p][r] = NoSession
    BY <1>2 DEF AloneInv, ConsumedTogether
  <2>2. approval[a].state = "consumed"
    BY <1>2, <2>1 DEF InState
  <2> QED BY <1>2, <2>1, <2>2
<1>5. Asked(r) = InState(r, "pending") \cup InState(r, "answered")
  <2>1. \A b \in Asked(r) : approval[b].state \in {"pending", "answered", "consumed"}
    BY DEF IInv, Typed, TypeOK, Asked, ApprovalRow
  <2> QED BY <1>4, <2>1 DEF InState
<1>6. ASSUME Ended(r), r \notin torn
      PROVE  Asked(r) \subseteq SessionOf(p, r).collected
  <2>1. CASE session[p][r] # NoSession
    BY <1>2, <1>6, <2>1 DEF AloneInv, EndedAnswered, SessionOf
  <2>2. CASE session[p][r] = NoSession
    <3>1. InState(r, "pending") = {}
      BY <1>6 DEF AloneInv, EndedAnswered
    <3> QED BY <1>5, <2>2, <3>1 DEF SessionOf
  <2> QED BY <2>1, <2>2
<1> QED BY <1>1, <1>3, <1>4, <1>5, <1>6

\* A decision is stored, or was; the session of its run is kept or forgotten.
LEMMA AnswerKeeps ==
    ASSUME IInv, Alone, AloneInv, NEW p, NEW a, Answerable(p, a),
           NEW r \in Run, r = approval[a].run,
           IInv', Kept, NoChild, turn' = turn, torn' = torn, SessionsFollow,
           approval' = approval \/ approval' = WithAnswer(a),
           \A q \in Run \ {r} : session'[p][q] \in {session[p][q], NoSession},
           \A q \in Run \ {r} : Ended(q)' => Ended(q),
           Ended(r)' /\ r \notin torn =>
              /\ InState(r, "pending")' = {}
              /\ session'[p][r] # NoSession => Asked(r) \subseteq session'[p][r].collected
    PROVE  AloneInv'
<1>1. /\ turn = NoTurn /\ Present = {p} /\ InState(r, "consumed") = {}
      /\ a \in Askable /\ approval[a] \in ApprovalRow
  BY AnswerableState, AnswerableAlone
<1>2. Present' = Present
  BY DEF SessionsFollow, Present
<1>3. Restated
  BY SameRestated, AnsweredRestated
<1>4. Askable' = Askable /\ \A q : Asked(q)' = Asked(q)
  BY <1>3, RestatedAsked
<1>5. /\ \A b \in Askable \ {a} : approval'[b] = approval[b]
      /\ approval'[a] = approval[a] \/ approval'[a].state = "answered"
  <2>1. CASE approval' = WithAnswer(a)
    <3>1. approval \in [Askable -> ApprovalRow \cup {NoApproval}]
      BY DEF IInv, Typed, TypeOK
    <3>2. approval' = [approval EXCEPT ![a] = [approval[a] EXCEPT !.state = "answered"]]
      BY <1>1, <2>1, <3>1 DEF WithAnswer
    <3>3. [approval[a] EXCEPT !.state = "answered"].state = "answered"
      BY <1>1 DEF ApprovalRow
    <3> QED BY <1>1, <3>1, <3>2, <3>3
  <2>2. CASE approval' = approval
    BY <2>2
  <2> QED BY <2>1, <2>2
<1>6. \A s : \A q \in Run \ {r} : InState(q, s)' = InState(q, s)
  <2> SUFFICES ASSUME NEW q \in Run \ {r}, NEW s
               PROVE  \A b \in Asked(q) : approval'[b] = approval[b]
    BY <1>4 DEF InState
  <2> QED BY <1>5 DEF Asked
<1>7. InState(r, "consumed")' = {}
  <2>1. \A b \in Asked(r) : approval[b].state # "consumed"
    BY <1>1 DEF InState
  <2>2. \A b \in Asked(r) : approval'[b].state # "consumed"
    BY <1>5, <2>1 DEF Asked
  <2> QED BY <1>4, <2>2 DEF InState
<1>8. ConsumedTogether' /\ ChildrenOfConsumed' /\ OneChild'
  <2>1. \A q \in Run : InState(q, "consumed")' = InState(q, "consumed")
    BY <1>1, <1>6, <1>7
  <2>2. \A q \in Run : InState(q, "consumed") # {}
                          => \A o \in Present : session'[o][q] = NoSession
    BY <1>1 DEF AloneInv, ConsumedTogether
  <2> QED BY <1>2, <1>4, <2>1, <2>2, NothingConsumed
<1>9. EndedAnswered'
  <2> SUFFICES ASSUME NEW q \in Run, Ended(q)', q \notin torn
               PROVE  /\ InState(q, "pending")' = {}
                      /\ session'[p][q] # NoSession => Asked(q) \subseteq session'[p][q].collected
    BY <1>1, <1>2, <1>4 DEF EndedAnswered
  <2>1. CASE q = r
    BY <2>1
  <2>2. CASE q # r
    <3>1. /\ InState(q, "pending") = {}
          /\ session[p][q] # NoSession => Asked(q) \subseteq session[p][q].collected
      BY <1>1, <2>2 DEF AloneInv, EndedAnswered
    <3>2. InState(q, "pending")' = InState(q, "pending")
      BY <1>6, <2>2
    <3> QED BY <2>2, <3>1, <3>2
  <2> QED BY <2>1, <2>2
<1>10. BeatenStopped'
  BY <1>1 DEF BeatenStopped
<1> QED BY <1>8, <1>9, <1>10 DEF AloneInv

LEMMA RepeatAnswerAlone ==
    ASSUME IInv, Alone, AloneInv, NEW p \in Proc, NEW a \in Approval, RepeatAnswer(p, a)
    PROVE  AloneInv'
<1> DEFINE x == RecordResponse(Rehydrated(approval[a].run), a)
<1>1. PICK r \in Run : r = approval[a].run
  BY AnswerableState DEF RepeatAnswer
<1>2. /\ Answerable(p, a) /\ Save(r, x)
      /\ session' = [session EXCEPT ![p][r] = SessionOf(p, r)]
      /\ approval' = approval /\ turn' = turn /\ torn' = torn
  BY <1>1 DEF RepeatAnswer, history
<1>3. /\ turn = NoTurn /\ p \in Present /\ row[r] # NoRun /\ SessionOf(p, r) \in Session
      /\ Present = {p}
      /\ Ended(r) /\ r \notin torn => Asked(r) \subseteq SessionOf(p, r).collected
  BY <1>1, <1>2, AnswerableState, AnswerableAlone
<1>4. IInv' /\ Kept /\ NoChild
  BY RepeatAnswerStep
<1>5. x.row.status = row[r].status /\ x.row \in Row
  BY <1>1, <1>3, RespondsRewrites DEF Rewrites
<1> HIDE DEF x
<1>6. row' = [row EXCEPT ![r] = x.row] /\ row \in [Run -> Row \cup {NoRun}]
  BY <1>2 DEF Save, IInv, Typed, TypeOK
<1>7. \A q \in Run : Ended(q)' => Ended(q)
  BY <1>3, <1>5, <1>6 DEF Ended
<1>8. SessionsFollow
  BY <1>1, <1>2, <1>3, KeptFollows
<1>9. session' = [session EXCEPT ![p] = [session[p] EXCEPT ![r] = SessionOf(p, r)]]
      /\ session \in [Present -> [Run -> Session \cup {NoSession}]]
  BY <1>2, <1>3 DEF IInv, Typed, TypeOK
<1>10. /\ session'[p][r] = SessionOf(p, r)
       /\ \A q \in Run \ {r} : session'[p][q] = session[p][q]
  BY <1>3, <1>9
<1>11. Ended(r)' /\ r \notin torn => InState(r, "pending")' = {}
  <2>1. InState(r, "pending")' = InState(r, "pending")
    BY <1>2 DEF InState, Asked, Askable
  <2> QED BY <1>7, <2>1 DEF AloneInv, EndedAnswered
<1>12. Ended(r)' /\ r \notin torn => Asked(r) \subseteq session'[p][r].collected
  <2>1. Ended(r)' => Ended(r)
    BY <1>7
  <2>2. Ended(r) /\ r \notin torn => Asked(r) \subseteq SessionOf(p, r).collected
    BY <1>3
  <2>3. session'[p][r].collected = SessionOf(p, r).collected
    BY <1>10
  <2> QED BY <2>1, <2>2, <2>3
<1> QED BY <1>1, <1>2, <1>4, <1>7, <1>8, <1>10, <1>11, <1>12, AnswerKeeps

\* Only a run without a verdict gets a new decision, or one whose cancellation was
\* cut.
LEMMA NewDecision ==
    ASSUME IInv, Alone, AloneInv, NEW p, NEW a, Answerable(p, a),
           a \notin SessionOf(p, approval[a].run).collected
    PROVE  ~Ended(approval[a].run) \/ approval[a].run \in torn
BY AnswerableState, AnswerableAlone

LEMMA AnswerAlone ==
    ASSUME IInv, Alone, AloneInv, NEW p \in Proc, NEW a \in Approval, Answer(p, a)
    PROVE  AloneInv'
<1> DEFINE x == RecordResponse(Rehydrated(approval[a].run), a)
<1>1. PICK r \in Run : r = approval[a].run
  BY AnswerableState DEF Answer
<1>2. /\ Answerable(p, a) /\ Save(r, x)
      /\ session' = [session EXCEPT ![p][r] = Answered(p, a)]
      /\ approval' = WithAnswer(a) /\ turn' = turn /\ torn' = torn
  BY <1>1 DEF Answer, history
<1>3. /\ turn = NoTurn /\ p \in Present /\ row[r] # NoRun /\ (~Ended(r) \/ r \in torn)
      /\ Answered(p, a) \in Session
  BY <1>1, <1>2, AnswerableState, AnsweredSession, NewDecision DEF Answer
<1>4. IInv' /\ Kept /\ NoChild
  BY AnswerStep
<1>5. x.row.status = row[r].status /\ x.row \in Row
  BY <1>1, <1>3, RespondsRewrites DEF Rewrites
<1> HIDE DEF x
<1>6. row' = [row EXCEPT ![r] = x.row] /\ row \in [Run -> Row \cup {NoRun}]
  BY <1>2 DEF Save, IInv, Typed, TypeOK
<1>7. \A q \in Run : Ended(q)' => Ended(q)
  BY <1>3, <1>5, <1>6 DEF Ended
<1>8. SessionsFollow
  BY <1>1, <1>2, <1>3, KeptFollows
<1>9. session' = [session EXCEPT ![p] = [session[p] EXCEPT ![r] = Answered(p, a)]]
      /\ session \in [Present -> [Run -> Session \cup {NoSession}]]
  BY <1>2, <1>3 DEF IInv, Typed, TypeOK
<1>10. \A q \in Run \ {r} : session'[p][q] = session[p][q]
  BY <1>3, <1>9
<1> QED BY <1>1, <1>2, <1>3, <1>4, <1>7, <1>8, <1>10, AnswerKeeps

\* The session of a run is consumed, once, and at most one continuation of the
\* run is created.
LEMMA ConsumeKeeps ==
    ASSUME IInv, Alone, AloneInv, NEW p, NEW a, Answerable(p, a),
           NEW r \in Run, r = approval[a].run, a \notin SessionOf(p, r).collected,
           IInv', Kept, Continues(r), Present' = Present, torn' = torn,
           approval' = Consumed(r),
           session'[p][r] = NoSession,
           \A q \in Run \ {r} : session'[p][q] \in {session[p][q], NoSession},
           \/ \A c \in Run : row[c] = NoRun => row'[c] = NoRun
           \/ \E c \in Run : /\ row[c] = NoRun /\ row'[c] = NewRow("resume", r)
                             /\ \A d \in Run \ {c} : row[d] = NoRun => row'[d] = NoRun
    PROVE  AloneInv'
<1>1. /\ turn = NoTurn /\ Present = {p} /\ InState(r, "consumed") = {} /\ a \in Asked(r)
  BY AnswerableState, AnswerableAlone
<1>2. /\ Restated /\ InState(r, "consumed")' = Asked(r)
      /\ \A s : \A q \in Run \ {r} : InState(q, s)' = InState(q, s)
  BY ConsumedRestated
<1>3. Askable' = Askable /\ \A q : Asked(q)' = Asked(q)
  BY <1>2, RestatedAsked
<1>4. ConsumedTogether'
  <2> SUFFICES ASSUME NEW q \in Run, InState(q, "consumed")' # {}
               PROVE  InState(q, "consumed")' = Asked(q) /\ session'[p][q] = NoSession
    BY <1>1, <1>3 DEF ConsumedTogether
  <2>1. CASE q = r
    BY <1>2, <2>1
  <2>2. CASE q # r
    <3>1. InState(q, "consumed")' = InState(q, "consumed")
      BY <1>2, <2>2
    <3>2. InState(q, "consumed") = Asked(q) /\ session[p][q] = NoSession
      BY <1>1, <3>1 DEF AloneInv, ConsumedTogether
    <3> QED BY <2>2, <3>1, <3>2
  <2> QED BY <2>1, <2>2
<1>5. EndedAnswered'
  <2> SUFFICES ASSUME NEW q \in Run, Ended(q)', q \notin torn
               PROVE  /\ InState(q, "pending")' = {}
                      /\ session'[p][q] # NoSession => Asked(q) \subseteq session'[p][q].collected
    BY <1>1, <1>3 DEF EndedAnswered
  <2>1. CASE q = r
    <3>1. \A b \in Asked(r) : approval'[b].state = "consumed"
      BY <1>2, <1>3 DEF InState
    <3>2. InState(r, "pending")' = {}
      BY <1>3, <3>1 DEF InState
    <3> QED BY <2>1, <3>2
  <2>2. CASE q # r
    <3>1. Ended(q)
      BY <2>2 DEF Continues
    <3>2. /\ InState(q, "pending") = {}
          /\ session[p][q] # NoSession => Asked(q) \subseteq session[p][q].collected
      BY <1>1, <3>1 DEF AloneInv, EndedAnswered
    <3>3. InState(q, "pending")' = InState(q, "pending")
      BY <1>2, <2>2
    <3> QED BY <2>2, <3>2, <3>3
  <2> QED BY <2>1, <2>2
<1>6. BeatenStopped'
  BY StatusTypes DEF Continues, BeatenStopped, Ended
<1>7. \A c \in Run : IsChild(c) => row[c].parent \in Run /\ row[c].parent # r
  BY <1>1 DEF AloneInv, ChildrenOfConsumed
<1>8. \A c \in Run : row[c] # NoRun /\ IsChild(c)' =>
         IsChild(c) /\ row'[c].parent = row[c].parent
  BY DEF IsChild, Kept
<1>9. \A c \in Run : row[c] = NoRun /\ IsChild(c)' => row'[c].parent = r
  BY DEF IsChild, NewRow
<1>10. \A c, d \in Run : (/\ row[c] = NoRun /\ row'[c] # NoRun
                          /\ row[d] = NoRun /\ row'[d] # NoRun) => c = d
  OBVIOUS
<1>11. ChildrenOfConsumed'
  <2> SUFFICES ASSUME NEW c \in Run, IsChild(c)'
               PROVE  \E q \in Run : row'[c].parent = q /\ InState(q, "consumed")' # {}
    BY DEF ChildrenOfConsumed, InState, Asked
  <2>1. CASE row[c] = NoRun
    <3>1. row'[c].parent = r /\ InState(r, "consumed")' # {}
      BY <1>1, <1>2, <1>9, <2>1
    <3> QED BY <3>1
  <2>2. CASE row[c] # NoRun
    <3>1. PICK q \in Run : q = row[c].parent
      BY <1>7, <1>8, <2>2
    <3>2. row'[c].parent = q /\ q # r /\ InState(q, "consumed") # {}
      BY <1>7, <1>8, <2>2, <3>1 DEF AloneInv, ChildrenOfConsumed
    <3>3. InState(q, "consumed")' = InState(q, "consumed")
      BY <1>2, <3>2
    <3> QED BY <3>2, <3>3
  <2> QED BY <2>1, <2>2
<1>12. OneChild'
  <2> SUFFICES ASSUME NEW c \in Run, NEW d \in Run, IsChild(c)', IsChild(d)',
                      row'[c].parent = row'[d].parent
               PROVE  c = d
    BY DEF OneChild
  <2>1. row'[c] # NoRun /\ row'[d] # NoRun
    BY DEF IsChild
  <2> QED BY <1>7, <1>8, <1>9, <1>10, <2>1 DEF AloneInv, OneChild
<1> QED BY <1>4, <1>5, <1>6, <1>11, <1>12 DEF AloneInv

LEMMA ResumeAlone ==
    ASSUME IInv, Alone, AloneInv,
           NEW p \in Proc, NEW a \in Approval, NEW c \in Run, Resume(p, a, c)
    PROVE  AloneInv'
<1>1. PICK r \in Run : r = approval[a].run
  BY AnswerableState DEF Resume
<1>2. /\ Answerable(p, a) /\ a \notin SessionOf(p, r).collected /\ row[c] = NoRun
      /\ approval' = Consumed(r) /\ session' = SessionDropped(p, r) /\ torn' = torn
      /\ \E w : row' = [row EXCEPT ![r] = w, ![c] = NewRow("resume", r)]
  BY <1>1 DEF Resume, Unused
<1>3. IInv' /\ Kept /\ Continues(r)
  BY <1>1, ResumeStep
<1>4. p \in Present /\ row[r] # NoRun /\ row \in [Run -> Row \cup {NoRun}]
  BY <1>1, <1>2, AnswerableState DEF IInv, Typed, TypeOK
<1>5. /\ Present' = Present /\ session'[p][r] = NoSession
      /\ \A q \in Run : session'[p][q] \in {session[p][q], NoSession}
  BY <1>2, <1>4, DroppedFollows DEF SessionsFollow, Present
<1>6. /\ row'[c] = NewRow("resume", r)
      /\ \A d \in Run \ {c} : row[d] = NoRun => row'[d] = NoRun
  BY <1>2, <1>4
<1> QED BY <1>1, <1>2, <1>3, <1>5, <1>6, ConsumeKeeps

LEMMA CrashInApproveAlone ==
    ASSUME IInv, Alone, AloneInv, NEW p \in Proc, NEW a \in Approval, CrashInApprove(p, a)
    PROVE  AloneInv'
<1> DEFINE x == RecordResponse(Rehydrated(approval[a].run), a)
<1>1. PICK r \in Run : r = approval[a].run
  BY AnswerableState DEF CrashInApprove
<1>2. /\ Answerable(p, a) /\ a \notin SessionOf(p, r).collected
      /\ session' = Forgotten(p) /\ turn' = turn /\ torn' = torn /\ p \in Present
      /\ \/ approval' = WithAnswer(a) /\ row' = row
         \/ approval' = WithAnswer(a) /\ Save(r, x)
         \/ approval' = Consumed(r) /\ Save(r, x)
         \/ /\ approval' = Consumed(r)
            /\ \E c \in Run : /\ row[c] = NoRun
                              /\ row' = [row EXCEPT ![r] = x.row, ![c] = NewRow("resume", r)]
  BY <1>1 DEF CrashInApprove, Unused, Dies
<1>3. IInv' /\ Kept /\ Continues(r)
  BY <1>1, CrashInApproveStep
<1>4. /\ turn = NoTurn /\ row[r] # NoRun /\ (~Ended(r) \/ r \in torn)
      /\ row \in [Run -> Row \cup {NoRun}]
      /\ session \in [Present -> [Run -> Session \cup {NoSession}]]
  BY <1>1, <1>2, AnswerableState, NewDecision DEF IInv, Typed, TypeOK
<1>5. x.row.status = row[r].status /\ x.row \in Row
  BY <1>1, <1>4, <1>2, AnswerableState, RespondsRewrites DEF Rewrites
<1> HIDE DEF x
<1>6. /\ SessionsFollow /\ Present' = Present
      /\ \A q \in Run : session'[p][q] = NoSession
  BY <1>2, <1>4 DEF SessionsFollow, Forgotten, Present
<1>7. CASE approval' = WithAnswer(a) /\ (row' = row \/ Save(r, x))
  <2>1. \A q \in Run : row'[q] = row[q] \/ (q = r /\ row'[q] = x.row)
    <3>1. row' = row \/ row' = [row EXCEPT ![r] = x.row]
      BY <1>7 DEF Save
    <3> QED BY <1>4, <3>1
  <2>2. NoChild
    BY <1>4, <2>1 DEF NoChild
  <2>3. Ended(r)' => r \in torn
    BY <1>4, <1>5, <2>1 DEF Ended
  <2> QED BY <1>1, <1>2, <1>3, <1>6, <1>7, <2>2, <2>3, AnswerKeeps DEF Continues
<1>8. CASE approval' = Consumed(r) /\ Save(r, x)
  <2>1. \A c \in Run : row[c] = NoRun => row'[c] = NoRun
    BY <1>4, <1>8 DEF Save
  <2> QED BY <1>1, <1>2, <1>3, <1>6, <1>8, <2>1, ConsumeKeeps
<1>9. ASSUME approval' = Consumed(r), NEW c \in Run, row[c] = NoRun,
             row' = [row EXCEPT ![r] = x.row, ![c] = NewRow("resume", r)]
      PROVE  AloneInv'
  <2>1. /\ row'[c] = NewRow("resume", r)
        /\ \A d \in Run \ {c} : row[d] = NoRun => row'[d] = NoRun
    BY <1>4, <1>9
  <2>2. \E e \in Run : /\ row[e] = NoRun /\ row'[e] = NewRow("resume", r)
                       /\ \A d \in Run \ {e} : row[d] = NoRun => row'[d] = NoRun
    BY <1>9, <2>1
  <2>3. /\ Answerable(p, a) /\ a \notin SessionOf(p, r).collected
        /\ approval' = Consumed(r) /\ torn' = torn
    BY <1>2, <1>9
  <2> QED BY <1>1, <1>3, <1>6, <2>2, <2>3, ConsumeKeeps
<1> QED BY <1>2, <1>7, <1>8, <1>9

-----------------------------------------------------------------------------
(* Theorems of the deployments with one process.                            *)

LEMMA InitAlone == Init => AloneInv
BY DEF Init, AloneInv, BeatenStopped, ConsumedTogether, EndedAnswered, ChildrenOfConsumed,
       OneChild, IsChild, Ended, InState, Asked, Askable

LEMMA CrashNextAlone ==
    ASSUME IInv, Alone, AloneInv, CrashNext
    PROVE  AloneInv'
<1>1. ASSUME NEW p \in Proc, Crash(p)
      PROVE  AloneInv'
  BY <1>1, CrashAlone
<1>2. ASSUME NEW asked \in SUBSET Approval, NEW recorded \in SUBSET Approval,
             CrashInRequest(asked, recorded)
      PROVE  AloneInv'
  BY <1>2, CrashInRequestAlone
<1>3. ASSUME NEW p \in Proc, NEW r \in Run, NEW some \in SUBSET Approval,
             CrashInCancel(p, r, some) \/ CrashInRecover(p, r, some)
      PROVE  AloneInv'
  BY <1>3, CrashInCancelAlone, CrashInRecoverAlone
<1>4. ASSUME NEW p \in Proc, NEW a \in Approval, CrashInApprove(p, a)
      PROVE  AloneInv'
  BY <1>4, CrashInApproveAlone
<1> QED BY <1>1, <1>2, <1>3, <1>4 DEF CrashNext

LEMMA NextAlone ==
    ASSUME IInv, Alone, AloneInv, Next
    PROVE  AloneInv'
<1>1. IInv' /\ Kept
  BY NextInv
<1>2. ASSUME NEW asked \in SUBSET Approval, RequestApproval(asked)
      PROVE  AloneInv'
  BY <1>2, RequestAlone
<1>3. CASE TurnNext /\ ~\E asked \in SUBSET Approval : RequestApproval(asked)
  BY <1>1, <1>3, TurnAlone DEF TurnNext
<1>4. ASSUME NEW p \in Proc, NEW r \in Run, CancelRun(p, r) \/ Recover(p, r)
      PROVE  AloneInv'
  BY <1>4, CancelAlone, RecoverAlone
<1>5. ASSUME NEW p \in Proc, NEW r \in Run, NEW c \in Run, RetryRun(p, r, c)
      PROVE  AloneInv'
  BY <1>5, RetryAlone
<1>6. ASSUME NEW p \in Proc, NEW a \in Approval, Approve(p, a)
      PROVE  AloneInv'
  BY <1>6, RepeatAnswerAlone, AnswerAlone, ResumeAlone DEF Approve
<1>7. CASE CrashNext
  BY <1>7, CrashNextAlone
<1> QED BY <1>2, <1>3, <1>4, <1>5, <1>6, <1>7 DEF Next

LEMMA StutterAlone ==
    ASSUME AloneInv, UNCHANGED vars
    PROVE  AloneInv'
<1>1. /\ Present' = Present /\ \A r : Asked(r)' = Asked(r)
      /\ \A r, s : InState(r, s)' = InState(r, s)
      /\ \A r : Ended(r)' = Ended(r) /\ IsChild(r)' = IsChild(r)
  BY DEF vars, Present, Askable, Asked, InState, Ended, IsChild
<1> QED BY <1>1 DEF vars, AloneInv, BeatenStopped, ConsumedTogether, EndedAnswered,
                    ChildrenOfConsumed, OneChild

\* The processes of a behaviour do not change.
LEMMA SamePresent ==
    ASSUME [Next]_vars
    PROVE  Present' = Present
<1>1. CASE UNCHANGED vars
  BY <1>1 DEF vars, Present
<1>2. CASE TurnNext
  <2>1. session' = session \/ \E s, p, r : session' = [session EXCEPT ![p][r] = s]
    BY <1>2 DEF TurnNext, StartTurn, ResumeRun, Begin, StartFails, Work, Complete, Throw,
                HandOffEnds, Block, Abort, HandOff, RequestApproval
  <2> QED BY <2>1 DEF Present
<1>3. ASSUME NEW p \in Proc, NEW r \in Run, CancelRun(p, r) \/ Recover(p, r)
      PROVE  Present' = Present
  BY <1>3 DEF CancelRun, Recover, SessionDropped, Present
<1>4. ASSUME NEW p \in Proc, NEW r \in Run, NEW c \in Run, RetryRun(p, r, c)
      PROVE  Present' = Present
  BY <1>4 DEF RetryRun, Present
<1>5. ASSUME NEW p \in Proc, NEW a \in Approval, Approve(p, a)
      PROVE  Present' = Present
  <2>1. \E s, r : session' = [session EXCEPT ![p][r] = s]
    BY <1>5 DEF Approve, RepeatAnswer, Answer, Resume, SessionDropped
  <2> QED BY <2>1 DEF Present
<1>6. CASE CrashNext
  <2>1. \E p : session' = Forgotten(p)
    BY <1>6 DEF CrashNext, Crash, CrashInRequest, CrashInCancel, CrashInRecover,
                CrashInApprove, Dies
  <2> QED BY <2>1 DEF Forgotten, Present
<1> QED BY <1>1, <1>2, <1>3, <1>4, <1>5, <1>6 DEF Next

\* The inductive invariant of one process holds where there is one.
THEOREM InvarianceAlone == Spec => [](IInv /\ (Alone => AloneInv))
<1>1. Init => IInv /\ (Alone => AloneInv)
  BY InitInv, InitAlone
<1>2. IInv /\ (Alone => AloneInv) /\ [Next]_vars => (IInv /\ (Alone => AloneInv))'
  <2> SUFFICES ASSUME IInv, Alone => AloneInv, [Next]_vars
               PROVE  IInv' /\ (Alone' => AloneInv')
    OBVIOUS
  <2>1. IInv'
    BY NextInv, StutterInv
  <2>2. Alone' => Alone
    BY SamePresent DEF Alone
  <2>3. Alone => AloneInv'
    BY NextAlone, StutterAlone
  <2> QED BY <2>1, <2>2, <2>3
<1> QED BY <1>1, <1>2, PTL DEF Spec

\* The approvals of a run are resumed into one continuation, whatever is
\* repeated, timed out or recovered after a crash at any commit.
THEOREM ResumedAtMostOnce == Spec => []ResumedOnce
<1>1. IInv /\ (Alone => AloneInv) => ResumedOnce
  BY DEF AloneInv, OneChild, IsChild, ResumedOnce
<1> QED BY <1>1, InvarianceAlone, PTL

\* A cancelled run leaves no approval to answer, unless a crash came between the
\* commit of its verdict and the last write that expires its approvals; a blocked one
\* names every approval it waits for, unless a crash came between the commits of its
\* requests.  No other crash makes the two tables disagree.
THEOREM ApprovalsAgreeWithRuns == Spec => []ApprovalsAgree
<1>1. IInv /\ (Alone => AloneInv) => ApprovalsAgree
  <2> SUFFICES ASSUME IInv, AloneInv, NEW r \in Run, row[r] # NoRun
               PROVE  /\ row[r].status = "cancelled" /\ r \notin torn
                            => InState(r, "pending") = {}
                      /\ row[r].status = "blocked" /\ r \notin unserved =>
                            InState(r, "pending") \cup InState(r, "answered")
                               \subseteq row[r].pending
    BY DEF ApprovalsAgree
  <2>1. row[r].status = "cancelled" /\ r \notin torn => InState(r, "pending") = {}
    BY DEF AloneInv, EndedAnswered, Ended, Terminal
  <2>2. row[r].status = "blocked" /\ r \notin unserved => Asked(r) \subseteq row[r].pending
    BY DEF IInv, AskedWhenBlocked, AskedOf
  <2> QED BY <2>1, <2>2 DEF InState
<1> QED BY <1>1, InvarianceAlone, PTL

\* Nothing but the last decision continues a run.
LEMMA NextNoChild ==
    ASSUME IInv, Next,
           ~\E p \in Proc, a \in Approval :
               (\E c \in Run : Resume(p, a, c)) \/ CrashInApprove(p, a)
    PROVE  NoChild
<1>1. ASSUME NEW p \in Proc, NEW r \in Run, NEW kind \in {"stream", "send"},
             NEW parent \in Run \cup {NoRun}, Begin(p, r, kind, parent)
      PROVE  NoChild
  BY <1>1, BeginStep
<1>2. ASSUME NEW r \in Run, StartFails(r)
      PROVE  NoChild
  BY <1>2, StartFailsStep
<1>3. ASSUME NEW c \in Run, HandOff(c)
      PROVE  NoChild
  BY <1>3, HandOffStep
<1>4. ASSUME NEW asked \in SUBSET Approval, RequestApproval(asked)
      PROVE  NoChild
  BY <1>4, RequestStep
<1>5. CASE Work \/ Complete \/ Throw \/ HandOffEnds \/ Block \/ Abort
  BY <1>5, WorkStep, CompleteStep, ThrowStep, HandOffEndsStep, BlockStep, AbortStep
<1>6. ASSUME NEW p \in Proc, NEW r \in Run, CancelRun(p, r) \/ Recover(p, r)
      PROVE  NoChild
  BY <1>6, CancelRunStep, RecoverStep
<1>7. ASSUME NEW p \in Proc, NEW r \in Run, NEW c \in Run, RetryRun(p, r, c)
      PROVE  NoChild
  BY <1>7, RetryRunStep
<1>8. ASSUME NEW p \in Proc, NEW a \in Approval, RepeatAnswer(p, a) \/ Answer(p, a)
      PROVE  NoChild
  BY <1>8, RepeatAnswerStep, AnswerStep
<1>9. ASSUME NEW p \in Proc, Crash(p)
      PROVE  NoChild
  BY <1>9, CrashStep
<1>10. ASSUME NEW asked \in SUBSET Approval, NEW recorded \in SUBSET Approval,
              CrashInRequest(asked, recorded)
       PROVE  NoChild
  BY <1>10, CrashInRequestStep
<1>11. ASSUME NEW p \in Proc, NEW r \in Run, NEW some \in SUBSET Approval,
              CrashInCancel(p, r, some) \/ CrashInRecover(p, r, some)
       PROVE  NoChild
  BY <1>11, CrashInCancelStep, CrashInRecoverStep
<1>12. ASSUME NEW p \in Proc, NEW o \in Run, NEW r \in Run, ResumeRun(p, o, r)
       PROVE  NoChild
  BY <1>1, <1>12, ResumeRunBegins
<1>13. ASSUME NEW p \in Proc, NEW r \in Run, NEW kind \in {"stream", "send"},
              StartTurn(p, r, kind)
       PROVE  NoChild
  BY <1>1, <1>13 DEF StartTurn
<1>14. CASE TurnNext
  BY <1>2, <1>3, <1>4, <1>5, <1>12, <1>13, <1>14 DEF TurnNext
<1>15. CASE CrashNext
  BY <1>9, <1>10, <1>11, <1>15 DEF CrashNext
<1> QED BY <1>6, <1>7, <1>8, <1>14, <1>15 DEF Next, Approve

\* A run with a verdict is continued by no session in memory and by none recovered
\* from the database, unless a crash cut its cancellation before its approvals had
\* expired.
THEOREM EndedRunsStayEnded == Spec => EndedNotResumed
<1>1. ASSUME IInv, Alone => AloneInv, Next, NEW c \in Run, Alone, Resumed(c)
      PROVE  ~Ended(row'[c].parent) \/ row'[c].parent \in torn
  <2>1. /\ row[c] = NoRun /\ ~NoChild
        /\ row \in [Run -> Row \cup {NoRun}]
    BY <1>1 DEF Resumed, NoChild, IInv, Typed, TypeOK
  <2>2. PICK p \in Proc, a \in Approval : (\E d \in Run : Resume(p, a, d)) \/ CrashInApprove(p, a)
    BY <1>1, <2>1, NextNoChild
  <2>3. PICK r \in Run : r = approval[a].run
    BY <1>1, <2>2, AnswerableState DEF Resume, CrashInApprove
  <2>4. Answerable(p, a) /\ a \notin SessionOf(p, r).collected
    BY <2>2, <2>3 DEF Resume, CrashInApprove
  <2>5. (~Ended(r) \/ r \in torn) /\ row[r] # NoRun
    BY <1>1, <2>3, <2>4, NewDecision, AnswerableState
  <2>6. \/ \E w, d : row' = [row EXCEPT ![r] = w, ![d] = NewRow("resume", r)]
        \/ \E w : row' = [row EXCEPT ![r] = w]
        \/ row' = row
    BY <2>2, <2>3 DEF Resume, CrashInApprove, Save
  <2>7. row'[c] = NewRow("resume", r)
    BY <1>1, <2>1, <2>5, <2>6 DEF Resumed
  <2> QED BY <2>5, <2>7 DEF NewRow
<1>2. IInv /\ (Alone => AloneInv) /\ [Next]_vars
         => [\A c \in Run : Alone /\ Resumed(c)
               => ~Ended(row'[c].parent) \/ row'[c].parent \in torn]_vars
  BY <1>1
<1> QED BY <1>2, InvarianceAlone, PTL DEF Spec, EndedNotResumed

=============================================================================
