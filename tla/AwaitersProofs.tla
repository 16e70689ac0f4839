--------------------------- MODULE AwaitersProofs ---------------------------
(* Proofs about Awaiters: an arming runs its turn once per life of the
   desktop, and a row is settled by a wake of its own arming, for every set
   of awaiters, threads and bridges and every bound on time, armings and
   crashes. *)
EXTENDS Awaiters, FiniteSetTheorems, SequenceTheorems, TLAPS

\* A row stands for the latest arming of its awaiter.
RowCurrent ==
    \A a \in Id : Exists(a) => awaiter[a].arming = armings[a]

\* No turn was run for an arming that is still to come.
FutureUnsent ==
    \A a \in Id, n \in Arming : n > armings[a] => sends[<<a, n>>] = 0

\* ... nor for a row that is armed.
ArmedUnsent ==
    \A a \in Id :
        Exists(a) /\ awaiter[a].status = "armed" => sends[<<a, awaiter[a].arming>>] = 0

\* A row in waking whose wake is in flight has not been armed since.
WakeCurrent ==
    \A a \in Id :
        /\ wake # None /\ wake.id = a
        /\ Exists(a) /\ awaiter[a].status = "waking"
        => wake.arming = awaiter[a].arming

\* A row in waking whose wake is not in flight was left by a crash.
Abandoned ==
    \A a \in Id :
        /\ wake # None => wake.id # a
        /\ Exists(a) /\ awaiter[a].status = "waking"
        => sends[<<a, awaiter[a].arming>>] <= crashes

\* A wake in flight is the first of the list of a tick.
WakeOfTick == wake # None => due # <<>>

\* The inductive invariant.
IInv ==
    /\ TypeOK
    /\ WakeOfTick
    /\ RowCurrent
    /\ FutureUnsent
    /\ ArmedUnsent
    /\ WakeCurrent
    /\ Abandoned
    /\ OneShot
    /\ SettledByOwnWake

-----------------------------------------------------------------------------
(* Typing.                                                                 *)

LEMMA RowType ==
    ASSUME TypeOK, NEW a \in Id, Exists(a)
    PROVE  /\ awaiter[a] \in Row
           /\ awaiter[a].arming \in Arming
           /\ awaiter[a].thread \in Thread
           /\ awaiter[a].status \in {"armed", "waking", "completed", "failed"}
<1>1. awaiter[a] \in Row
  BY DEF TypeOK, Exists
<1> QED BY <1>1 DEF Row

LEMMA RunnableRow ==
    ASSUME TypeOK, NEW a \in Id, Runnable(a)
    PROVE  awaiter[a] \in [status : {"armed", "waking"}, next : Time,
                            thread : Thread, arming : Arming]
<1>1. awaiter[a] \in Row /\ awaiter[a].status \in {"armed", "waking"}
  BY RowType DEF Runnable
<1> QED BY <1>1 DEF Row

LEMMA WakeType ==
    ASSUME TypeOK, wake # None
    PROVE  /\ wake \in Wake
           /\ wake.id \in Id
           /\ wake.thread \in Thread
           /\ wake.arming \in Arming
<1>1. wake \in Wake
  BY DEF TypeOK
<1> QED BY <1>1 DEF Wake

\* The list of a tick is a sequence of ids.
LEMMA TickList ==
    ASSUME NEW S \in SUBSET Id, NEW s \in SetToSeqs(S)
    PROVE  s \in Seq(Id)
<1>1. IsFiniteSet(S)
  BY IdAssumption, FS_Subset
<1>2. Cardinality(S) \in Nat
  BY <1>1, FS_CardinalityType
<1>3. s \in [1..Cardinality(S) -> Id]
  BY DEF SetToSeqs
<1> QED BY <1>2, <1>3

LEMMA EditType ==
    ASSUME TypeOK, TimePasses \/ Edit
    PROVE  TypeOK'
<1>1. CASE TimePasses
  BY <1>1, BoundsAssumption DEF TimePasses, TypeOK, table, scheduler, Time
<1>2. ASSUME NEW a \in Id, NEW t \in Thread, NEW at \in Future, Create(a, t, at)
      PROVE  TypeOK'
  <2>1. Armed(t, at, 1) \in Row /\ 1 \in 0..MaxArmings
    BY <1>2, BoundsAssumption DEF Armed, Row, Create, Future, Arming
  <2> QED BY <1>2, <2>1 DEF Create, TypeOK, scheduler
<1>3. ASSUME NEW a \in Id, NEW at \in Future, Reschedule(a, at)
      PROVE  TypeOK'
  <2> DEFINE n == armings[a] + 1
  <2>1. n \in Arming /\ n \in 0..MaxArmings
    BY <1>3, BoundsAssumption DEF Reschedule, TypeOK, Arming
  <2>2. awaiter[a].thread \in Thread /\ at \in Time
    BY <1>3, RowType DEF Reschedule, Future
  <2>3. Armed(awaiter[a].thread, at, n) \in Row
    BY <2>1, <2>2 DEF Armed, Row
  <2> QED BY <1>3, <2>1, <2>3 DEF Reschedule, TypeOK, scheduler
<1>4. ASSUME NEW a \in Id, NEW t \in Thread, Move(a, t)
      PROVE  TypeOK'
  <2>1. awaiter[a] \in Row
    BY <1>4, RowType DEF Move
  <2>2. [awaiter[a] EXCEPT !.thread = t] \in Row
    BY <2>1 DEF Row
  <2>3. awaiter' = [awaiter EXCEPT ![a] = [awaiter[a] EXCEPT !.thread = t]]
    BY <1>4 DEF Move, TypeOK
  <2> QED BY <1>4, <2>2, <2>3 DEF Move, TypeOK, scheduler
<1>5. ASSUME NEW A, Removed(A), threads' \subseteq Thread,
             UNCHANGED <<now, scheduler, armings, sends, crashes>>
      PROVE  TypeOK'
  BY <1>5 DEF Removed, TypeOK, scheduler
<1>6. ASSUME NEW a \in Id, Delete(a)
      PROVE  TypeOK'
  BY <1>5, <1>6 DEF Delete, TypeOK
<1>7. ASSUME NEW t \in Thread, ClearThread(t) \/ DeleteThread(t)
      PROVE  TypeOK'
  BY <1>5, <1>7 DEF ClearThread, DeleteThread, TypeOK
<1> QED BY <1>1, <1>2, <1>3, <1>4, <1>6, <1>7 DEF Edit

LEMMA TickType ==
    ASSUME TypeOK, StartTick \/ StartWake \/ SkipWake \/ Restart
    PROVE  TypeOK'
<1>1. CASE StartTick
  <2>1. due' \in Seq(Id)
    BY <1>1, TickList DEF StartTick
  <2> QED BY <1>1, <2>1 DEF StartTick, TypeOK, table
<1>2. CASE StartWake
  <2> DEFINE a == Head(due)
             r == awaiter[a]
             w == [id |-> a, thread |-> r.thread, arming |-> r.arming, phase |-> "sending"]
  <2>1. a \in Id /\ Runnable(a)
    BY <1>2 DEF StartWake, TypeOK
  <2>2. r \in [status : {"armed", "waking"}, next : Time, thread : Thread, arming : Arming]
    BY <2>1, RunnableRow
  <2>3. w \in Wake
    BY <2>1, <2>2 DEF Wake
  <2>4. [r EXCEPT !.status = "waking"] \in Row
    BY <2>2 DEF Row
  <2>5. awaiter' = [awaiter EXCEPT ![a] = [r EXCEPT !.status = "waking"]] /\ wake' = w
    BY <1>2 DEF StartWake
  <2>6. sends' = [sends EXCEPT ![<<a, r.arming>>] = @ + 1] /\ <<a, r.arming>> \in Id \X Arming
    BY <1>2, <2>1, <2>2 DEF StartWake
  <2>7. sends' \in [Id \X Arming -> Nat]
    BY <2>6 DEF TypeOK
  <2>8. awaiter' \in [Id -> Row \cup {None}]
    BY <2>4, <2>5 DEF TypeOK
  <2>9. UNCHANGED <<now, threads, events, due, armings, crashes>>
    BY <1>2 DEF StartWake
  <2> QED BY <2>3, <2>5, <2>7, <2>8, <2>9 DEF TypeOK
<1>3. CASE SkipWake
  BY <1>3 DEF SkipWake, TypeOK, table
<1>4. CASE Restart
  BY <1>4, BoundsAssumption DEF Restart, TypeOK, table
<1> QED BY <1>1, <1>2, <1>3, <1>4

\* What settling a row makes of the table.
LEMMA SettledRows ==
    ASSUME TypeOK, wake # None, NEW status \in {"completed", "failed"}
    PROVE  /\ Settled(status) \in [Id -> Row \cup {None}]
           /\ \A a \in Id :
                 \/ Settled(status)[a] = awaiter[a]
                    /\ ~(wake.id = a /\ Exists(a) /\ awaiter[a].status = "waking")
                 \/ /\ wake.id = a /\ Exists(a) /\ awaiter[a].status = "waking"
                    /\ Settled(status)[a] \in Row
                    /\ Settled(status)[a].status = status
                    /\ Settled(status)[a].arming = awaiter[a].arming
<1> DEFINE b == wake.id
           r == [[awaiter[b] EXCEPT !.status = status] EXCEPT !.next = None]
<1>1. b \in Id
  BY WakeType
<1>2. CASE Exists(b) /\ awaiter[b].status = "waking"
  <2>1. awaiter[b] \in [status : {"armed", "waking"}, next : Time, thread : Thread, arming : Arming]
    BY <1>1, <1>2, RunnableRow DEF Runnable
  <2>2. r \in Row /\ r.status = status /\ r.arming = awaiter[b].arming
    BY <2>1 DEF Row
  <2>3. Settled(status) = [awaiter EXCEPT ![b] = r]
    BY <1>1, <1>2 DEF Settled, TypeOK
  <2> HIDE DEF r
  <2>4. Settled(status)[b] = r /\ \A a \in Id : a # b => Settled(status)[a] = awaiter[a]
    BY <1>1, <2>3 DEF TypeOK
  <2>5. Settled(status) \in [Id -> Row \cup {None}]
    BY <1>1, <2>2, <2>3 DEF TypeOK
  <2> QED BY <1>2, <2>2, <2>4, <2>5
<1>3. CASE ~(Exists(b) /\ awaiter[b].status = "waking")
  <2>1. Settled(status) = awaiter
    BY <1>3 DEF Settled
  <2> QED BY <1>3, <2>1 DEF TypeOK
<1> QED BY <1>2, <1>3

\* What is in one of two sequences is in their concatenation.
LEMMA ContainsConcat ==
    ASSUME NEW S, NEW s \in Seq(S), NEW t \in Seq(S), NEW e,
           Contains(s, e) \/ Contains(t, e)
    PROVE  Contains(s \o t, e)
<1>1. Len(s \o t) = Len(s) + Len(t) /\ Len(s) \in Nat /\ Len(t) \in Nat
  BY ConcatProperties, LenProperties
<1>2. CASE Contains(s, e)
  <2>1. PICK i \in 1..Len(s) : s[i] = e
    BY <1>2 DEF Contains
  <2>2. i \in 1..Len(s \o t) /\ (s \o t)[i] = e
    BY <1>1, <2>1, ConcatProperties
  <2> QED BY <2>2 DEF Contains
<1>3. CASE Contains(t, e)
  <2>1. PICK i \in 1..Len(t) : t[i] = e
    BY <1>3 DEF Contains
  <2> DEFINE j == Len(s) + i
  <2>2. j \in 1..Len(s \o t) /\ j > Len(s) /\ j - Len(s) = i
    BY <1>1, <2>1
  <2>3. (s \o t)[j] = t[j - Len(s)]
    BY <1>1, <2>2, ConcatProperties
  <2> QED BY <2>1, <2>2, <2>3 DEF Contains
<1> QED BY <1>2, <1>3

\* The audit rows a wake may write are events of its own arming.
LEMMA AuditType ==
    ASSUME TypeOK, wake # None, NEW o \in {"success", "error"}
    PROVE  /\ Outcome(o) \in Event
           /\ <<Outcome(o)>> \in Seq(Event) /\ Contains(<<Outcome(o)>>, Outcome(o))
           /\ Reported(o) \in Seq(Event) /\ Contains(Reported(o), Outcome(o))
<1> DEFINE e == Outcome(o)
           f == Outcome("error")
<1>2. e \in Event /\ f \in Event
  <2>1. wake.arming \in Arming
    BY WakeType
  <2> QED BY <2>1 DEF Outcome, Event
<1>3. PICK rest \in Seq(Event) : Reported(o) = <<e>> \o rest
  <2>1. <<>> \in Seq(Event) /\ <<f>> \in Seq(Event)
    BY <1>2
  <2> QED BY <2>1 DEF Reported
<1> HIDE DEF e, f
<1>4. <<e>> \in Seq(Event)
  BY <1>2
<1>5. Contains(<<e>>, e)
  <2>1. 1 \in 1..Len(<<e>>) /\ <<e>>[1] = e
    OBVIOUS
  <2> QED BY <2>1 DEF Contains
<1>6. Reported(o) \in Seq(Event) /\ Contains(Reported(o), e)
  BY <1>3, <1>4, <1>5, ConcatProperties, ContainsConcat, ZenonT(60)
<1> QED BY <1>2, <1>4, <1>5, <1>6 DEF e

\* The three ways a wake settles its row, and what they write of it.
EndsAs(status, o, audit) ==
    /\ wake # None
    /\ status \in {"completed", "failed"} /\ o \in {"success", "error"}
    /\ status = "completed" <=> o = "success"
    /\ audit \in Seq(Event) /\ Contains(audit, Outcome(o))
    /\ EndWake(status, audit)

LEMMA WakeEnds ==
    ASSUME TypeOK, SendFails \/ SendThrows \/ DeliveryReturns
    PROVE  \E status, o, audit : EndsAs(status, o, audit)
<1>1. wake # None
  BY DEF SendFails, SendThrows, DeliveryReturns, Delivered, BridgeFails, Sending, Delivering
<1>2. CASE SendFails
  <2>1. EndsAs("failed", "error", Reported("error"))
    BY <1>1, <1>2, AuditType DEF SendFails, EndsAs
  <2> QED BY <2>1
<1>3. CASE SendThrows
  <2>1. EndsAs("failed", "error", <<Outcome("error")>>)
    BY <1>1, <1>3, AuditType DEF SendThrows, EndsAs
  <2> QED BY <2>1
<1>4. CASE Delivered
  <2>1. EndsAs("completed", "success", Reported("success"))
    BY <1>1, <1>4, AuditType DEF Delivered, EndsAs
  <2> QED BY <2>1
<1>5. CASE BridgeFails
  <2>1. EndsAs("failed", "error", Reported("error"))
    BY <1>1, <1>5, AuditType DEF BridgeFails, EndsAs
  <2> QED BY <2>1
<1> QED BY <1>2, <1>3, <1>4, <1>5 DEF DeliveryReturns

LEMMA EndWakeType ==
    ASSUME TypeOK, due # <<>>, NEW status, NEW o, NEW audit, EndsAs(status, o, audit)
    PROVE  TypeOK'
<1>1. awaiter' \in [Id -> Row \cup {None}]
  BY SettledRows DEF EndsAs, EndWake
<1>2. events' \in [Id -> Seq(Event)]
  <2>1. wake.id \in Id /\ audit \in Seq(Event)
    BY WakeType DEF EndsAs
  <2>2. events[wake.id] \o audit \in Seq(Event)
    BY <2>1, ConcatProperties DEF TypeOK
  <2>3. events' = [events EXCEPT ![wake.id] = events[wake.id] \o audit] \/ events' = events
    BY <2>1 DEF EndsAs, EndWake, TypeOK
  <2> QED BY <2>1, <2>2, <2>3 DEF TypeOK
<1>3. due' \in Seq(Id) /\ wake' = None
  BY DEF EndsAs, EndWake, TypeOK
<1>4. UNCHANGED <<now, threads, armings, sends, crashes>>
  BY DEF EndsAs, EndWake
<1> QED BY <1>1, <1>2, <1>3, <1>4 DEF TypeOK

LEMMA SendSucceedsType ==
    ASSUME TypeOK, due # <<>>, SendSucceeds
    PROVE  TypeOK'
<1>1. wake # None /\ wake \in Wake
  BY WakeType DEF SendSucceeds, Sending
<1>2. [wake EXCEPT !.phase = "delivering"] \in Wake
  BY <1>1 DEF Wake
<1>3. due' \in Seq(Id) /\ wake' \in Wake \cup {None}
  <2>1. CASE Exists(wake.id)
    <3>1. due' = due /\ wake' = [wake EXCEPT !.phase = "delivering"]
      BY <2>1 DEF SendSucceeds
    <3> QED BY <1>2, <3>1 DEF TypeOK
  <2>2. CASE ~Exists(wake.id)
    <3>1. due' = Tail(due) /\ wake' = None
      BY <2>2 DEF SendSucceeds
    <3>2. due \in Seq(Id)
      BY DEF TypeOK
    <3> QED BY <3>1, <3>2, HeadTailProperties
  <2> QED BY <2>1, <2>2
<1>4. UNCHANGED <<now, table, armings, sends, crashes>>
  BY DEF SendSucceeds
<1> QED BY <1>3, <1>4 DEF TypeOK, table

-----------------------------------------------------------------------------
(* The inductive invariant: steps that arm no row and run no turn.         *)

\* The row of b is deleted, or keeps its status, its arming and its audit.
Kept(b) ==
    Exists(b)' => /\ Exists(b)
                  /\ awaiter'[b].status = awaiter[b].status
                  /\ awaiter'[b].arming = awaiter[b].arming
                  /\ events'[b] = events[b]

LEMMA KeptInv ==
    ASSUME IInv, TypeOK', WakeOfTick', \A b \in Id : Kept(b),
           UNCHANGED <<wake, armings, sends, crashes>>
    PROVE  IInv'
<1>1. RowCurrent' /\ FutureUnsent' /\ OneShot'
  BY DEF IInv, Kept, RowCurrent, FutureUnsent, OneShot
<1>2. ArmedUnsent'
  BY DEF IInv, Kept, ArmedUnsent
<1>3. WakeCurrent' /\ Abandoned'
  BY DEF IInv, Kept, WakeCurrent, Abandoned
<1>4. SettledByOwnWake'
  BY DEF IInv, Kept, SettledByOwnWake
<1> QED BY <1>1, <1>2, <1>3, <1>4 DEF IInv

LEMMA KeepingInv ==
    ASSUME IInv,
           \/ TimePasses \/ StartTick \/ SkipWake
           \/ \E a \in Id, t \in Thread : Move(a, t)
           \/ \E a \in Id : Delete(a)
           \/ \E t \in Thread : ClearThread(t) \/ DeleteThread(t)
    PROVE  IInv'
<1>1. TypeOK'
  BY EditType, TickType DEF IInv, Edit
<1>2. CASE TimePasses \/ StartTick \/ SkipWake
  <2>1. \A b \in Id : Kept(b)
    BY <1>2 DEF TimePasses, StartTick, SkipWake, table, Kept, Exists
  <2>2. WakeOfTick'
    BY <1>2 DEF IInv, WakeOfTick, TimePasses, StartTick, SkipWake, scheduler
  <2>3. UNCHANGED <<wake, armings, sends, crashes>>
    BY <1>2 DEF TimePasses, StartTick, SkipWake, scheduler
  <2> QED BY <1>1, <2>1, <2>2, <2>3, KeptInv
<1>3. ASSUME NEW a \in Id, NEW t \in Thread, Move(a, t)
      PROVE  IInv'
  <2>1. awaiter[a] \in Row
    BY <1>3, RowType DEF IInv, Move
  <2> DEFINE r == [awaiter[a] EXCEPT !.thread = t]
  <2>2. r.status = awaiter[a].status /\ r.arming = awaiter[a].arming
    BY <2>1 DEF Row
  <2>3. awaiter' = [awaiter EXCEPT ![a] = r] /\ Exists(a)
    BY <1>3 DEF Move
  <2> HIDE DEF r
  <2>4. awaiter'[a] = r /\ \A b \in Id : b # a => awaiter'[b] = awaiter[b]
    BY <2>3 DEF IInv, TypeOK
  <2>5. \A b \in Id : Kept(b)
    BY <1>3, <2>2, <2>3, <2>4 DEF Kept, Exists, Move
  <2>6. UNCHANGED <<due, wake, armings, sends, crashes>>
    BY <1>3 DEF Move, scheduler
  <2>7. WakeOfTick'
    BY <2>6 DEF IInv, WakeOfTick
  <2> QED BY <1>1, <2>5, <2>6, <2>7, KeptInv
<1>4. ASSUME NEW A, Removed(A), UNCHANGED <<due, wake, armings, sends, crashes>>
      PROVE  IInv'
  <2>1. \A b \in Id : Kept(b)
    BY <1>4 DEF Removed, Kept, Exists
  <2>2. WakeOfTick'
    BY <1>4 DEF IInv, WakeOfTick
  <2> QED BY <1>1, <1>4, <2>1, <2>2, KeptInv
<1>5. ASSUME NEW a \in Id, Delete(a)
      PROVE  IInv'
  BY <1>4, <1>5 DEF Delete, scheduler
<1>6. ASSUME NEW t \in Thread, ClearThread(t) \/ DeleteThread(t)
      PROVE  IInv'
  BY <1>4, <1>6 DEF ClearThread, DeleteThread, scheduler
<1> QED BY <1>2, <1>3, <1>5, <1>6

-----------------------------------------------------------------------------
(* The inductive invariant: an awaiter is created or armed again.          *)

LEMMA ArmInv ==
    ASSUME IInv, TypeOK', NEW a \in Id, NEW t, NEW at, NEW n \in Arming,
           n = armings[a] + 1,
           awaiter' = [awaiter EXCEPT ![a] = Armed(t, at, n)],
           armings' = [armings EXCEPT ![a] = n],
           UNCHANGED <<events, scheduler, sends, crashes>>
    PROVE  IInv'
<1> DEFINE r == Armed(t, at, n)
<1>1. r.status = "armed" /\ r.arming = n
  BY DEF Armed
<1> HIDE DEF r
<1>2. /\ awaiter'[a] = r
      /\ \A b \in Id : b # a => awaiter'[b] = awaiter[b]
  BY DEF IInv, TypeOK, r
<1>3. /\ armings'[a] = n
      /\ \A b \in Id : b # a => armings'[b] = armings[b]
      /\ armings[a] \in Nat
  BY DEF IInv, TypeOK
<1>4. UNCHANGED <<events, due, wake, sends, crashes>>
  BY DEF scheduler
<1>5. WakeOfTick' /\ OneShot'
  BY <1>4 DEF IInv, WakeOfTick, OneShot
<1>6. RowCurrent'
  BY <1>1, <1>2, <1>3 DEF IInv, RowCurrent, Exists
<1>7. FutureUnsent'
  <2> SUFFICES ASSUME NEW b \in Id, NEW m \in Arming, m > armings'[b]
               PROVE  sends[<<b, m>>] = 0
    BY <1>4 DEF FutureUnsent
  <2>1. m > armings[b]
    <3>1. CASE b = a
      BY <3>1, <1>3 DEF Arming
    <3>2. CASE b # a
      BY <3>2, <1>3
    <3> QED BY <3>1, <3>2
  <2> QED BY <2>1 DEF IInv, FutureUnsent
<1>8. ArmedUnsent'
  <2>1. n > armings[a]
    BY <1>3
  <2>2. sends[<<a, n>>] = 0
    BY <2>1 DEF IInv, FutureUnsent
  <2> QED BY <1>1, <1>2, <1>4, <2>2 DEF IInv, ArmedUnsent, Exists
<1>9. WakeCurrent' /\ Abandoned'
  BY <1>1, <1>2, <1>4 DEF IInv, WakeCurrent, Abandoned, Exists
<1>10. SettledByOwnWake'
  BY <1>1, <1>2, <1>4 DEF IInv, SettledByOwnWake, Exists
<1> QED BY <1>5, <1>6, <1>7, <1>8, <1>9, <1>10 DEF IInv

LEMMA ArmingInv ==
    ASSUME IInv,
           \/ \E a \in Id, t \in Thread, at \in Future : Create(a, t, at)
           \/ \E a \in Id, at \in Future : Reschedule(a, at)
    PROVE  IInv'
<1>1. TypeOK'
  BY EditType DEF IInv, Edit
<1>2. ASSUME NEW a \in Id, NEW t \in Thread, NEW at \in Future, Create(a, t, at)
      PROVE  IInv'
  <2>1. 1 \in Arming /\ 1 = armings[a] + 1
    BY <1>2, BoundsAssumption DEF Create, Arming
  <2> QED BY <1>1, <1>2, <2>1, ArmInv DEF Create
<1>3. ASSUME NEW a \in Id, NEW at \in Future, Reschedule(a, at)
      PROVE  IInv'
  <2>1. armings[a] + 1 \in Arming
    BY <1>3, BoundsAssumption DEF Reschedule, Arming, IInv, TypeOK
  <2> QED BY <1>1, <1>3, <2>1, ArmInv DEF Reschedule
<1> QED BY <1>2, <1>3

-----------------------------------------------------------------------------
(* The inductive invariant: the wake.                                      *)

\* The wake runs the first turn of an armed row, or one more for a row that a
\* crash left in waking.
LEMMA StartWakeInv ==
    ASSUME IInv, StartWake
    PROVE  IInv'
<1> DEFINE a == Head(due)
           r == awaiter[a]
           n == r.arming
           w == [id |-> a, thread |-> r.thread, arming |-> n, phase |-> "sending"]
           q == [r EXCEPT !.status = "waking"]
<1>1. TypeOK /\ TypeOK'
  BY TickType DEF IInv
<1>2. a \in Id /\ Runnable(a) /\ Exists(a) /\ wake = None /\ due # <<>>
  BY <1>1 DEF StartWake, TypeOK, Runnable
<1>3. r \in [status : {"armed", "waking"}, next : Time, thread : Thread, arming : Arming]
  BY <1>1, <1>2, RunnableRow
<1>4. q.status = "waking" /\ q.arming = n /\ n \in Arming
  BY <1>3
<1>5. awaiter' = [awaiter EXCEPT ![a] = q] /\ wake' = w
  BY DEF StartWake
<1>6. sends' = [sends EXCEPT ![<<a, n>>] = @ + 1] /\ <<a, n>> \in Id \X Arming
  BY <1>2, <1>4 DEF StartWake
<1>7. UNCHANGED <<events, due, armings, crashes>>
  BY DEF StartWake
<1>8. w.id = a /\ w.arming = n /\ w \in Wake /\ w # None
  BY <1>2, <1>3, NoneAssumption DEF Wake
<1>9. sends[<<a, n>>] \in Nat /\ crashes \in Nat /\ sends[<<a, n>>] <= crashes
  <2>1. sends[<<a, n>>] \in Nat /\ crashes \in Nat
    BY <1>1, <1>6, BoundsAssumption DEF TypeOK
  <2>2. CASE r.status = "armed"
    <3>1. sends[<<a, n>>] = 0
      BY <1>2, <2>2 DEF IInv, ArmedUnsent
    <3> QED BY <2>1, <3>1
  <2>3. CASE r.status = "waking"
    <3>1. sends[<<a, n>>] <= crashes
      BY <1>2, <2>3 DEF IInv, Abandoned
    <3> QED BY <2>1, <3>1
  <2> QED BY <1>3, <2>2, <2>3
<1>10. n = armings[a]
  BY <1>2 DEF IInv, RowCurrent
<1> HIDE DEF a, n, q, r, w
<1>11. awaiter'[a] = q /\ \A b \in Id : b # a => awaiter'[b] = awaiter[b]
  BY <1>1, <1>2, <1>5 DEF TypeOK
<1>12. /\ sends'[<<a, n>>] = sends[<<a, n>>] + 1
       /\ \A b \in Id, m \in Arming : <<b, m>> # <<a, n>> => sends'[<<b, m>>] = sends[<<b, m>>]
  BY <1>1, <1>6 DEF TypeOK
<1>13. WakeOfTick'
  BY <1>2, <1>7 DEF WakeOfTick
<1>14. RowCurrent'
  BY <1>2, <1>4, <1>7, <1>10, <1>11 DEF IInv, RowCurrent, Exists
<1>15. FutureUnsent'
  <2> SUFFICES ASSUME NEW b \in Id, NEW m \in Arming, m > armings[b]
               PROVE  sends'[<<b, m>>] = 0
    BY <1>7 DEF FutureUnsent
  <2>1. <<b, m>> # <<a, n>>
    <3>1. armings[b] \in Nat /\ m # armings[b]
      BY <1>1 DEF TypeOK, Arming
    <3> QED BY <3>1, <1>10
  <2> QED BY <1>12, <2>1 DEF IInv, FutureUnsent
<1>16. ArmedUnsent'
  <2> SUFFICES ASSUME NEW b \in Id, Exists(b)', awaiter'[b].status = "armed"
               PROVE  sends'[<<b, awaiter'[b].arming>>] = 0
    BY DEF ArmedUnsent
  <2>1. b # a /\ awaiter'[b] = awaiter[b] /\ Exists(b)
    BY <1>4, <1>11 DEF Exists
  <2>2. awaiter[b].arming \in Arming /\ sends[<<b, awaiter[b].arming>>] = 0
    BY <1>1, <2>1, RowType DEF IInv, ArmedUnsent
  <2> QED BY <1>12, <2>1, <2>2
<1>17. WakeCurrent'
  BY <1>4, <1>5, <1>8, <1>11 DEF WakeCurrent
<1>18. Abandoned'
  <2> SUFFICES ASSUME NEW b \in Id, b # a, Exists(b)', awaiter'[b].status = "waking"
               PROVE  sends'[<<b, awaiter'[b].arming>>] <= crashes
    BY <1>5, <1>7, <1>8 DEF Abandoned
  <2>1. awaiter'[b] = awaiter[b] /\ Exists(b)
    BY <1>11 DEF Exists
  <2>2. awaiter[b].arming \in Arming /\ sends[<<b, awaiter[b].arming>>] <= crashes
    BY <1>1, <1>2, <2>1, RowType DEF IInv, Abandoned
  <2> QED BY <1>12, <2>1, <2>2
<1>19. OneShot'
  <2> SUFFICES ASSUME NEW b \in Id, NEW m \in Arming
               PROVE  sends'[<<b, m>>] <= 1 + crashes
    BY <1>7 DEF OneShot
  <2>1. CASE <<b, m>> = <<a, n>>
    BY <1>9, <1>12, <2>1
  <2>2. CASE <<b, m>> # <<a, n>>
    BY <1>12, <2>2 DEF IInv, OneShot
  <2> QED BY <2>1, <2>2
<1>20. SettledByOwnWake'
  <2> SUFFICES ASSUME NEW b \in Id, Exists(b)', b # a
               PROVE  /\ awaiter'[b].status = "completed" =>
                            Contains(events'[b], [arming |-> awaiter'[b].arming, outcome |-> "success"])
                      /\ awaiter'[b].status = "failed" =>
                            Contains(events'[b], [arming |-> awaiter'[b].arming, outcome |-> "error"])
    BY <1>4, <1>11 DEF SettledByOwnWake
  <2> QED BY <1>7, <1>11 DEF IInv, SettledByOwnWake, Exists
<1> QED BY <1>1, <1>13, <1>14, <1>15, <1>16, <1>17, <1>18, <1>19, <1>20 DEF IInv

LEMMA SendSucceedsInv ==
    ASSUME IInv, SendSucceeds
    PROVE  IInv'
<1>1. TypeOK /\ wake # None /\ due # <<>>
  BY DEF IInv, WakeOfTick, SendSucceeds, Sending
<1>2. TypeOK'
  BY <1>1, SendSucceedsType
<1>3. UNCHANGED <<awaiter, events, armings, sends, crashes>>
  BY DEF SendSucceeds, table
<1>4. RowCurrent' /\ FutureUnsent' /\ ArmedUnsent' /\ OneShot' /\ SettledByOwnWake'
  BY <1>3 DEF IInv, RowCurrent, FutureUnsent, ArmedUnsent, OneShot, SettledByOwnWake, Exists
<1>5. CASE Exists(wake.id)
  <2>1. wake' = [wake EXCEPT !.phase = "delivering"] /\ due' = due
    BY <1>5 DEF SendSucceeds
  <2>2. wake'.id = wake.id /\ wake'.arming = wake.arming /\ wake' # None
    BY <1>1, <2>1, WakeType, NoneAssumption DEF Wake
  <2>3. WakeOfTick'
    BY <1>1, <2>1 DEF WakeOfTick
  <2>4. WakeCurrent' /\ Abandoned'
    BY <1>1, <1>3, <2>2 DEF IInv, WakeCurrent, Abandoned, Exists
  <2> QED BY <1>2, <1>4, <2>3, <2>4 DEF IInv
<1>6. CASE ~Exists(wake.id)
  <2>1. wake' = None
    BY <1>6 DEF SendSucceeds
  <2>2. WakeOfTick' /\ WakeCurrent'
    BY <2>1 DEF WakeOfTick, WakeCurrent
  <2>3. Abandoned'
    BY <1>3, <1>6 DEF IInv, Abandoned, Exists
  <2> QED BY <1>2, <1>4, <2>2, <2>3 DEF IInv
<1> QED BY <1>5, <1>6

LEMMA EndWakeInv ==
    ASSUME IInv, NEW status, NEW o, NEW audit, EndsAs(status, o, audit)
    PROVE  IInv'
<1> DEFINE c == wake.id
<1>1. TypeOK /\ due # <<>> /\ wake # None /\ c \in Id
  BY WakeType DEF IInv, WakeOfTick, EndsAs
<1>2. TypeOK'
  BY <1>1, EndWakeType
<1>3. /\ status \in {"completed", "failed"} /\ audit \in Seq(Event)
      /\ Contains(audit, Outcome(o))
      /\ (status = "completed" /\ o = "success") \/ (status = "failed" /\ o = "error")
  BY DEF EndsAs
<1>4. /\ awaiter' = Settled(status) /\ wake' = None
      /\ UNCHANGED <<armings, sends, crashes>>
      /\ events' = IF Exists(c) THEN [events EXCEPT ![c] = @ \o audit] ELSE events
  BY DEF EndsAs, EndWake
<1>5. \A b \in Id :
        \/ awaiter'[b] = awaiter[b] /\ ~(c = b /\ Exists(b) /\ awaiter[b].status = "waking")
        \/ /\ c = b /\ Exists(b) /\ awaiter[b].status = "waking"
           /\ awaiter'[b].status = status /\ awaiter'[b].arming = awaiter[b].arming
  BY <1>1, <1>3, <1>4, SettledRows
<1>6. \A b \in Id : Exists(b)' => Exists(b)
  BY <1>5 DEF Exists
<1> HIDE DEF c
<1>7. RowCurrent' /\ FutureUnsent' /\ OneShot'
  BY <1>4, <1>5, <1>6 DEF IInv, RowCurrent, FutureUnsent, OneShot
<1>8. ArmedUnsent'
  BY <1>3, <1>4, <1>5, <1>6 DEF IInv, ArmedUnsent
<1>9. WakeOfTick' /\ WakeCurrent'
  BY <1>4 DEF WakeOfTick, WakeCurrent
<1>10. Abandoned'
  <2> SUFFICES ASSUME NEW b \in Id, Exists(b)', awaiter'[b].status = "waking"
               PROVE  sends[<<b, awaiter'[b].arming>>] <= crashes
    BY <1>4 DEF Abandoned
  <2>1. awaiter'[b] = awaiter[b] /\ Exists(b) /\ c # b
    BY <1>3, <1>5, <1>6
  <2> QED BY <2>1 DEF IInv, Abandoned, c
<1>11. SettledByOwnWake'
  <2> DEFINE Told(s, n, x) == Contains(s, [arming |-> n, outcome |-> x])
  <2> SUFFICES ASSUME NEW b \in Id, Exists(b)', NEW st \in {"completed", "failed"},
                      NEW x \in {"success", "error"},
                      (st = "completed" /\ x = "success") \/ (st = "failed" /\ x = "error"),
                      awaiter'[b].status = st
               PROVE  Told(events'[b], awaiter'[b].arming, x)
    BY DEF SettledByOwnWake
  <2>1. Exists(b) /\ events[b] \in Seq(Event)
    BY <1>1, <1>6 DEF TypeOK
  <2>2. events'[b] = events[b] \/ (c = b /\ events'[b] = events[b] \o audit)
    BY <1>1, <1>4 DEF TypeOK
  <2>3. CASE awaiter'[b] = awaiter[b]
    <3>1. Told(events[b], awaiter[b].arming, x)
      BY <2>1, <2>3 DEF IInv, SettledByOwnWake
    <3> DEFINE e == [arming |-> awaiter[b].arming, outcome |-> x]
    <3> HIDE DEF e
    <3>2. Contains(events[b], e)
      BY <3>1 DEF e
    <3>3. Contains(events'[b], e)
      BY <1>3, <2>1, <2>2, <3>2, ContainsConcat, ZenonT(60)
    <3> QED BY <2>3, <3>3 DEF e
  <2>4. CASE awaiter'[b] # awaiter[b]
    <3>1. /\ c = b /\ awaiter[b].status = "waking"
          /\ awaiter'[b].status = status /\ awaiter'[b].arming = awaiter[b].arming
      BY <1>5, <2>4
    <3>2. wake.arming = awaiter[b].arming
      BY <1>1, <2>1, <3>1 DEF IInv, WakeCurrent, c
    <3>3. x = o /\ Outcome(o) = [arming |-> awaiter'[b].arming, outcome |-> x]
      BY <1>3, <3>1, <3>2 DEF Outcome
    <3>4. events'[b] = events[b] \o audit
      BY <1>1, <1>4, <2>1, <3>1 DEF TypeOK
    <3>5. Contains(events'[b], Outcome(o))
      BY <1>3, <2>1, <3>4, ContainsConcat
    <3> QED BY <3>3, <3>5
  <2> QED BY <2>3, <2>4
<1> QED BY <1>2, <1>7, <1>8, <1>9, <1>10, <1>11 DEF IInv

\* A crash leaves the row of its wake in waking, with one turn run more than
\* the crashes before it explain.
LEMMA RestartInv ==
    ASSUME IInv, Restart
    PROVE  IInv'
<1>1. TypeOK /\ TypeOK'
  BY TickType DEF IInv
<1>2. /\ UNCHANGED <<awaiter, events, armings, sends>>
      /\ wake' = None /\ crashes' = crashes + 1 /\ crashes \in Nat
  BY <1>1, BoundsAssumption DEF Restart, table, TypeOK
<1>3. RowCurrent' /\ FutureUnsent' /\ ArmedUnsent' /\ SettledByOwnWake'
  BY <1>2 DEF IInv, RowCurrent, FutureUnsent, ArmedUnsent, SettledByOwnWake, Exists
<1>4. WakeOfTick' /\ WakeCurrent'
  BY <1>2 DEF WakeOfTick, WakeCurrent
<1>5. \A a \in Id, n \in Arming : sends[<<a, n>>] \in Nat /\ sends[<<a, n>>] <= 1 + crashes
  BY <1>1 DEF IInv, OneShot, TypeOK
<1>6. OneShot'
  <2> SUFFICES ASSUME NEW a \in Id, NEW n \in Arming
               PROVE  sends[<<a, n>>] <= 1 + crashes'
    BY <1>2 DEF OneShot
  <2>1. sends[<<a, n>>] \in Nat /\ sends[<<a, n>>] <= 1 + crashes
    BY <1>5
  <2> QED BY <1>2, <2>1
<1>7. Abandoned'
  <2> SUFFICES ASSUME NEW a \in Id, Exists(a)
               PROVE  sends[<<a, awaiter[a].arming>>] <= crashes'
    BY <1>2 DEF Abandoned, Exists
  <2>1. awaiter[a].arming \in Arming
    BY <1>1, RowType
  <2> QED BY <1>2, <1>5, <2>1
<1> QED BY <1>1, <1>3, <1>4, <1>6, <1>7 DEF IInv

-----------------------------------------------------------------------------
(* Theorems.                                                               *)

LEMMA InitInv == Init => IInv
<1> SUFFICES ASSUME Init PROVE IInv
  OBVIOUS
<1>1. TypeOK
  BY BoundsAssumption DEF Init, TypeOK, Time
<1>2. \A a \in Id : ~Exists(a)
  BY DEF Init, Exists
<1>3. \A p \in Id \X Arming : sends[p] = 0
  BY DEF Init
<1>4. FutureUnsent /\ OneShot
  BY <1>3 DEF FutureUnsent, OneShot, Init
<1> QED
  BY <1>1, <1>2, <1>4 DEF Init, IInv, WakeOfTick, RowCurrent, ArmedUnsent, WakeCurrent,
     Abandoned, SettledByOwnWake

LEMMA NextInv == IInv /\ [Next]_vars => IInv'
<1> SUFFICES ASSUME IInv, [Next]_vars
             PROVE  IInv'
  OBVIOUS
<1>1. CASE TimePasses \/ StartTick \/ SkipWake
  BY <1>1, KeepingInv
<1>2. CASE Edit
  BY <1>2, KeepingInv, ArmingInv DEF Edit
<1>3. CASE Restart
  BY <1>3, RestartInv
<1>4. CASE StartWake
  BY <1>4, StartWakeInv
<1>5. CASE SendSucceeds
  BY <1>5, SendSucceedsInv
<1>6. CASE SendFails \/ SendThrows \/ DeliveryReturns
  BY <1>6, WakeEnds, EndWakeInv DEF IInv
<1>7. CASE UNCHANGED vars
  BY <1>7 DEF vars, table, scheduler, IInv, TypeOK, WakeOfTick, RowCurrent, FutureUnsent,
     ArmedUnsent, WakeCurrent, Abandoned, OneShot, SettledByOwnWake, Exists
<1> QED BY <1>1, <1>2, <1>3, <1>4, <1>5, <1>6, <1>7 DEF Next, SendReturns

\* The inductive invariant holds in every reachable state.
THEOREM Invariance == Spec => []IInv
BY InitInv, NextInv, PTL DEF Spec

\* Rows, events, the list of the tick and the wake are well formed.
THEOREM TypeCorrect == Spec => []TypeOK
BY Invariance, PTL DEF IInv

\* An arming runs its turn at most once more than the desktop crashes, for any
\* interleaving of ticks, edits, failures and crashes (runAwaiterWake).
THEOREM RunsOncePerLife == Spec => []OneShot
BY Invariance, PTL DEF IInv

\* A row is settled with the outcome of a wake of its own arming
\* (transitionAwaiterIfStillWaking).
THEOREM SettledRightly == Spec => []SettledByOwnWake
BY Invariance, PTL DEF IInv
=============================================================================
