------------------------ MODULE ThreadRunLeaseProofs ------------------------
(***************************************************************************)
(* Proofs about ThreadRunLease: its safety properties hold for every set  *)
(* of processes, threads and tokens, every TTL and refresh interval, and  *)
(* every combination of faults.                                            *)
(***************************************************************************)
EXTENDS ThreadRunLease, TLAPS

\* A turn's thread is in the in-memory set of its process.
Held ==
    \A k \in Active : turn[k].thread \in runningThreads[turn[k].proc]

\* The token in a row is not that of a turn of another thread.
RowOfTurn ==
    \A t \in Thread :
        rows[t] # NoRow /\ turn[rows[t].token] # NoTurn
            => turn[rows[t].token].thread = t

\* The row's remaining time and the turn's silence add up to the TTL, and a
\* turn that owns its row was never exposed.
OwnedRow ==
    \A k \in Active :
        OwnsRow(k) => /\ rows[turn[k].thread].left + turn[k].quiet = Ttl
                      /\ turn[k].exposed = 0

\* The heartbeat of a streamed turn is due before its exposure is too long.
StreamWatched ==
    \A k \in Active :
        turn[k].kind = "stream" =>
            /\ turn[k].leaseLost => turn[k].aborted
            /\ ~turn[k].leaseLost => turn[k].exposed + turn[k].beatIn <= Refresh

\* The inductive invariant.
IInv ==
    /\ TypeOK
    /\ Held
    /\ InProcessExclusive
    /\ RowOfTurn
    /\ LossNeedsSilence
    /\ OwnedRow
    /\ StreamWatched

-----------------------------------------------------------------------------
(* Typing of the parts of the state the other proofs look into.            *)

LEMMA ActiveTurn ==
    ASSUME TypeOK, NEW k \in Active
    PROVE  k \in Token /\ turn[k] # NoTurn /\ turn[k] \in Turn
BY DEF TypeOK, Active

LEMMA RowType ==
    ASSUME TypeOK, NEW t \in Thread, rows[t] # NoRow
    PROVE  rows[t] \in Row
BY DEF TypeOK

LEMMA PurgedType ==
    ASSUME TypeOK
    PROVE  /\ Purged \in [Thread -> Row \cup {NoRow}]
           /\ \A t \in Thread : Purged[t] # NoRow => Purged[t] = rows[t]
           /\ \A t \in Thread : Purged[t] = NoRow =>
                 rows[t] = NoRow \/ rows[t].left = 0
           /\ \A t \in Thread : Purged[t] = rows[t] \/ Purged[t] = NoRow
BY DEF TypeOK, Purged

\* What a renewed and a failed heartbeat make of the record of a turn.
LEMMA RenewedTurn ==
    ASSUME NEW r \in Turn, NEW n, n = [r EXCEPT !.beatIn = Refresh, !.quiet = 0]
    PROVE  /\ n \in Turn
           /\ n.proc = r.proc /\ n.thread = r.thread /\ n.kind = r.kind
           /\ n.leaseLost = r.leaseLost /\ n.aborted = r.aborted
           /\ n.exposed = r.exposed /\ n.beatIn = Refresh /\ n.quiet = 0
<1>1. Refresh \in 0..Refresh /\ 0 \in 0..Ttl
  BY TimingAssumption
<1> QED BY <1>1 DEF Turn

LEMMA ErredTurn ==
    ASSUME NEW r \in Turn, NEW n, n = [r EXCEPT !.beatIn = Refresh, !.exposed = 0]
    PROVE  /\ n \in Turn
           /\ n.proc = r.proc /\ n.thread = r.thread /\ n.kind = r.kind
           /\ n.leaseLost = r.leaseLost /\ n.aborted = r.aborted
           /\ n.exposed = 0 /\ n.beatIn = Refresh /\ n.quiet = r.quiet
<1>1. Refresh \in 0..Refresh /\ 0 \in 0..(Refresh + 1)
  BY TimingAssumption
<1> QED BY <1>1 DEF Turn

-----------------------------------------------------------------------------
(* One lemma per action: it preserves the inductive invariant.             *)

LEMMA InitInv == Init => IInv
BY TimingAssumption DEF Init, IInv, TypeOK, Active, Held, InProcessExclusive,
   RowOfTurn, LossNeedsSilence, OwnedRow, StreamWatched

LEMMA AdmitInv ==
    ASSUME IInv, NEW p \in Proc, NEW t \in Thread, NEW kind \in Kind,
           NEW k \in Token, Admit(p, t, kind, k)
    PROVE  IInv'
<1> DEFINE new == [proc |-> p, thread |-> t, kind |-> kind,
                   leaseLost |-> FALSE, aborted |-> FALSE,
                   beatIn |-> Refresh, quiet |-> 0, exposed |-> 0]
<1> USE TimingAssumption, NullsAssumption
<1>1. TypeOK /\ Purged[t] = NoRow /\ k \in Fresh /\ t \notin runningThreads[p]
  BY DEF IInv, Admit, NotBusyHere
<1>2. new \in Turn
  BY DEF Turn
<1>3. turn' = [turn EXCEPT ![k] = new] /\ turn[k] = NoTurn
  BY <1>1 DEF Admit, Fresh
<1>4. rows' = [Purged EXCEPT ![t] = [token |-> k, left |-> Ttl]]
  BY DEF Admit
<1>5. [token |-> k, left |-> Ttl] \in Row
  BY DEF Row
<1>6. TypeOK'
  <2>1. rows' \in [Thread -> Row \cup {NoRow}]
    BY <1>1, <1>4, <1>5, PurgedType
  <2>2. turn' \in [Token -> Turn \cup {NoTurn}]
    BY <1>1, <1>2, <1>3 DEF TypeOK
  <2>3. runningThreads' \in [Proc -> SUBSET Thread] /\ stalled' \in SUBSET Proc
    BY <1>1 DEF TypeOK, Admit
  <2> QED BY <2>1, <2>2, <2>3 DEF TypeOK
<1>7. Active' = Active \cup {k} /\ k \notin Active
  BY <1>1, <1>2, <1>3 DEF TypeOK, Active
<1>8. \A j \in Active : turn'[j] = turn[j] /\ turn[j] \in Turn
  BY <1>1, <1>3, <1>7, ActiveTurn DEF TypeOK
<1>9. turn'[k] = new
  BY <1>1, <1>3 DEF TypeOK
<1>10. runningThreads' = [runningThreads EXCEPT ![p] = @ \cup {t}]
  BY DEF Admit
<1>11. Held'
  BY <1>1, <1>7, <1>8, <1>9, <1>10 DEF IInv, Held, TypeOK, Turn
<1>12. InProcessExclusive'
  BY <1>1, <1>7, <1>8, <1>9 DEF IInv, Held, InProcessExclusive
<1>13. \A u \in Thread : u # t /\ rows'[u] # NoRow => rows'[u] = rows[u] /\ rows[u].token # k
  BY <1>1, <1>4, PurgedType DEF Fresh
<1>14. rows'[t] = [token |-> k, left |-> Ttl] /\ rows'[t] # NoRow
  BY <1>1, <1>4, <1>5, PurgedType
<1>15. RowOfTurn'
  <2> SUFFICES ASSUME NEW u \in Thread, rows'[u] # NoRow, turn'[rows'[u].token] # NoTurn
               PROVE  turn'[rows'[u].token].thread = u
    BY DEF RowOfTurn
  <2>1. CASE u = t
    BY <2>1, <1>9, <1>14
  <2>2. CASE u # t
    <3>1. rows'[u] = rows[u] /\ rows[u].token # k /\ rows[u].token \in Token
      BY <2>2, <1>1, <1>13, RowType DEF Row
    <3>2. turn'[rows[u].token] = turn[rows[u].token]
      BY <3>1, <1>1, <1>3 DEF TypeOK
    <3> QED BY <3>1, <3>2 DEF IInv, RowOfTurn
  <2> QED BY <2>1, <2>2
<1>16. \A j \in Active : OwnsRow(j)' <=> turn[j].thread # t /\ OwnsRow(j) /\ Purged[turn[j].thread] # NoRow
  <2> SUFFICES ASSUME NEW j \in Active
               PROVE  OwnsRow(j)' <=> turn[j].thread # t /\ OwnsRow(j) /\ Purged[turn[j].thread] # NoRow
    OBVIOUS
  <2>1. turn'[j].thread = turn[j].thread /\ turn[j].thread \in Thread /\ j # k
    BY <1>7, <1>8 DEF Turn
  <2>2. CASE turn[j].thread = t
    BY <2>1, <2>2, <1>14 DEF OwnsRow
  <2>3. CASE turn[j].thread # t
    <3>1. rows'[turn[j].thread] = Purged[turn[j].thread]
      BY <2>1, <2>3, <1>1, <1>4, PurgedType
    <3> QED BY <2>1, <2>3, <3>1, <1>1, PurgedType DEF OwnsRow
  <2> QED BY <2>2, <2>3
<1>17. OwnsRow(k)'
  BY <1>9, <1>14 DEF OwnsRow
<1>18. LossNeedsSilence'
  <2> SUFFICES ASSUME NEW j \in Active, ~OwnsRow(j)'
               PROVE  turn[j].quiet = Ttl
    BY <1>7, <1>8, <1>17 DEF LossNeedsSilence
  <2>1. CASE ~OwnsRow(j)
    BY <2>1 DEF IInv, LossNeedsSilence
  <2>2. CASE OwnsRow(j)
    <3>1. Purged[turn[j].thread] = NoRow /\ turn[j].thread \in Thread
      BY <2>2, <1>1, <1>8, <1>16 DEF Turn
    <3>2. rows[turn[j].thread].left = 0
      BY <2>2, <3>1, <1>1, PurgedType DEF OwnsRow
    <3> QED BY <2>2, <3>2, <1>8 DEF IInv, OwnedRow, Turn
  <2> QED BY <2>1, <2>2
<1>19. OwnedRow'
  <2>1. rows'[t].left + turn'[k].quiet = Ttl /\ turn'[k].exposed = 0 /\ turn'[k].thread = t
    BY <1>9, <1>14
  <2>2. ASSUME NEW j \in Active, OwnsRow(j)'
        PROVE  /\ rows'[turn'[j].thread].left + turn'[j].quiet = Ttl
               /\ turn'[j].exposed = 0
    <3>1. turn[j].thread # t /\ OwnsRow(j) /\ turn[j].thread \in Thread
      BY <2>2, <1>8, <1>16 DEF Turn
    <3>2. rows'[turn[j].thread] = rows[turn[j].thread]
      BY <2>2, <3>1, <1>8, <1>13 DEF OwnsRow
    <3> QED BY <2>2, <3>1, <3>2, <1>8 DEF IInv, OwnedRow
  <2> QED BY <2>1, <2>2, <1>7 DEF OwnedRow
<1>20. StreamWatched'
  BY <1>7, <1>8, <1>9 DEF IInv, StreamWatched
<1> QED BY <1>6, <1>11, <1>12, <1>15, <1>18, <1>19, <1>20 DEF IInv

\* Refuse and the two Stall and Wake steps leave every turn alone.
LEMMA RefuseInv ==
    ASSUME IInv, NEW p \in Proc, NEW t \in Thread, Refuse(p, t)
    PROVE  IInv'
<1> USE NullsAssumption
<1>1. TypeOK /\ rows' = Purged /\ turn' = turn /\ runningThreads' = runningThreads /\ stalled' = stalled
  BY DEF IInv, Refuse
<1>2. TypeOK'
  BY <1>1, PurgedType DEF TypeOK
<1>3. Active' = Active
  BY <1>1 DEF Active
<1>4. Held' /\ InProcessExclusive' /\ StreamWatched'
  BY <1>1, <1>3 DEF IInv, Held, InProcessExclusive, StreamWatched
<1>5. RowOfTurn'
  BY <1>1, PurgedType DEF IInv, RowOfTurn
<1>6. \A k \in Active : OwnsRow(k)' => OwnsRow(k) /\ rows'[turn[k].thread] = rows[turn[k].thread]
  BY <1>1, PurgedType, ActiveTurn DEF OwnsRow, Turn
<1>7. LossNeedsSilence'
  <2> SUFFICES ASSUME NEW k \in Active, ~OwnsRow(k)'
               PROVE  turn[k].quiet = Ttl
    BY <1>1, <1>3 DEF LossNeedsSilence
  <2>1. turn[k] \in Turn
    BY <1>1, ActiveTurn
  <2>2. CASE ~OwnsRow(k)
    BY <2>2 DEF IInv, LossNeedsSilence
  <2>3. CASE OwnsRow(k)
    <3>1. rows[turn[k].thread].left = 0
      BY <1>1, <2>1, <2>3, PurgedType DEF OwnsRow, Turn
    <3> QED BY <2>1, <2>3, <3>1 DEF IInv, OwnedRow, Turn
  <2> QED BY <2>2, <2>3
<1>8. OwnedRow'
  BY <1>1, <1>3, <1>6 DEF IInv, OwnedRow
<1> QED BY <1>2, <1>4, <1>5, <1>7, <1>8 DEF IInv

LEMMA ScheduleInv ==
    ASSUME IInv, NEW p \in Proc, Stall(p) \/ Wake(p)
    PROVE  IInv'
<1>1. rows' = rows /\ turn' = turn /\ runningThreads' = runningThreads
  BY DEF Stall, Wake
<1>2. stalled' \in SUBSET Proc
  BY DEF IInv, TypeOK, Stall, Wake
<1> QED BY <1>1, <1>2 DEF IInv, TypeOK, Active, OwnsRow, Held, InProcessExclusive,
           RowOfTurn, LossNeedsSilence, OwnedRow, StreamWatched

\* The three outcomes of a heartbeat change the fields of one turn.
LEMMA BeatRenewsInv ==
    ASSUME IInv, NEW k \in Token, BeatRenews(k)
    PROVE  IInv'
<1> USE TimingAssumption, NullsAssumption
<1>1. TypeOK /\ k \in Active /\ turn[k] \in Turn /\ OwnsRow(k)
  BY ActiveTurn DEF IInv, BeatRenews, BeatDue, Active
<1> DEFINE h == turn[k].thread
<1>2. h \in Thread /\ rows[h] # NoRow /\ rows[h] \in Row /\ rows[h].token = k
  BY <1>1, RowType DEF Turn, OwnsRow
<1> DEFINE n == [turn[k] EXCEPT !.beatIn = Refresh, !.quiet = 0]
<1>n. turn' = [turn EXCEPT ![k] = n]
  BY <1>1 DEF BeatRenews
<1>3. /\ turn'[k] \in Turn /\ turn'[k].beatIn = Refresh /\ turn'[k].quiet = 0
      /\ turn'[k].proc = turn[k].proc /\ turn'[k].thread = turn[k].thread
      /\ turn'[k].kind = turn[k].kind /\ turn'[k].leaseLost = turn[k].leaseLost
      /\ turn'[k].aborted = turn[k].aborted /\ turn'[k].exposed = turn[k].exposed
      /\ \A j \in Token : j # k => turn'[j] = turn[j]
  <2>1. turn'[k] = n /\ \A j \in Token : j # k => turn'[j] = turn[j]
    BY <1>1, <1>n DEF TypeOK
  <2> HIDE DEF n
  <2>2. n = [turn[k] EXCEPT !.beatIn = Refresh, !.quiet = 0]
    BY DEF n
  <2>3. /\ n \in Turn
        /\ n.proc = turn[k].proc /\ n.thread = turn[k].thread /\ n.kind = turn[k].kind
        /\ n.leaseLost = turn[k].leaseLost /\ n.aborted = turn[k].aborted
        /\ n.exposed = turn[k].exposed /\ n.beatIn = Refresh /\ n.quiet = 0
    BY <2>2, <1>1, RenewedTurn, Zenon
  <2> QED BY <2>1, <2>3
<1>4. /\ rows'[h] = [rows[h] EXCEPT !.left = Ttl]
      /\ rows'[h] \in Row
      /\ \A u \in Thread : u # h => rows'[u] = rows[u]
  BY <1>1, <1>2 DEF BeatRenews, TypeOK, Row
<1>5. TypeOK'
  <2>1. rows' \in [Thread -> Row \cup {NoRow}]
    BY <1>1, <1>2, <1>4 DEF BeatRenews, TypeOK
  <2>2. turn' \in [Token -> Turn \cup {NoTurn}]
    BY <1>1, <1>3, <1>n DEF TypeOK
  <2> QED BY <2>1, <2>2, <1>1 DEF BeatRenews, TypeOK
<1>6. Active' = Active
  BY <1>1, <1>3, ActiveTurn DEF Active
<1>7. \A j \in Active : /\ turn'[j].thread = turn[j].thread /\ turn'[j].proc = turn[j].proc
                        /\ turn'[j].kind = turn[j].kind /\ turn'[j].leaseLost = turn[j].leaseLost
                        /\ turn'[j].aborted = turn[j].aborted /\ turn'[j].exposed = turn[j].exposed
                        /\ turn[j] \in Turn /\ j \in Token
  BY <1>1, <1>3, ActiveTurn
<1>8. runningThreads' = runningThreads
  BY DEF BeatRenews
<1>9. Held' /\ InProcessExclusive'
  BY <1>6, <1>7, <1>8 DEF IInv, Held, InProcessExclusive
<1>10. \A u \in Thread : /\ rows'[u] # NoRow <=> rows[u] # NoRow
                         /\ rows[u] # NoRow => rows'[u].token = rows[u].token /\ rows[u].token \in Token
  <2> TAKE u \in Thread
  <2>1. CASE u = h
    BY <1>2, <1>4, <2>1 DEF Row
  <2>2. CASE u # h
    BY <1>1, <1>4, <2>2, RowType DEF Row
  <2> QED BY <2>1, <2>2
<1>11. RowOfTurn'
  BY <1>6, <1>7, <1>10 DEF IInv, RowOfTurn, Active
<1>12. \A j \in Active : OwnsRow(j)' <=> OwnsRow(j)
  BY <1>7, <1>10 DEF OwnsRow, Turn
<1>13. \A j \in Active : j # k /\ OwnsRow(j) => turn[j].thread # h
  BY <1>2 DEF OwnsRow
<1>14. LossNeedsSilence'
  BY <1>1, <1>3, <1>6, <1>7, <1>12 DEF IInv, LossNeedsSilence
<1>15. OwnedRow'
  <2> SUFFICES ASSUME NEW j \in Active, OwnsRow(j)
               PROVE  /\ rows'[turn[j].thread].left + turn'[j].quiet = Ttl
                      /\ turn'[j].exposed = 0
    BY <1>6, <1>7, <1>12 DEF OwnedRow
  <2>1. CASE j = k
    BY <1>1, <1>2, <1>3, <1>4, <1>7, <2>1 DEF IInv, OwnedRow, Row
  <2>2. CASE j # k
    BY <1>3, <1>4, <1>7, <1>13, <2>2 DEF IInv, OwnedRow, Turn
  <2> QED BY <2>1, <2>2
<1>16. StreamWatched'
  <2> SUFFICES ASSUME NEW j \in Active, turn[j].kind = "stream"
               PROVE  /\ turn'[j].leaseLost => turn'[j].aborted
                      /\ ~turn'[j].leaseLost => turn'[j].exposed + turn'[j].beatIn <= Refresh
    BY <1>6, <1>7 DEF StreamWatched
  <2>1. CASE j = k
    <3>1. turn[k].exposed = 0 /\ (turn[k].leaseLost => turn[k].aborted)
      BY <1>1, <2>1 DEF IInv, OwnedRow, StreamWatched
    <3> QED BY <1>3, <2>1, <3>1
  <2>2. CASE j # k
    BY <1>3, <1>7, <2>2 DEF IInv, StreamWatched
  <2> QED BY <2>1, <2>2
<1> QED BY <1>5, <1>9, <1>11, <1>14, <1>15, <1>16 DEF IInv

LEMMA BeatMissesInv ==
    ASSUME IInv, NEW k \in Token, BeatFindsLoss(k) \/ BeatErrors(k)
    PROVE  IInv'
<1> USE TimingAssumption, NullsAssumption
<1>1. TypeOK /\ k \in Active /\ turn[k] \in Turn
  BY ActiveTurn DEF IInv, BeatFindsLoss, BeatErrors, BeatDue, Active
<1>2. rows' = rows /\ runningThreads' = runningThreads /\ stalled' = stalled
  BY DEF BeatFindsLoss, BeatErrors
<1>3. /\ turn'[k] \in Turn
      /\ turn'[k].proc = turn[k].proc /\ turn'[k].thread = turn[k].thread
      /\ turn'[k].kind = turn[k].kind /\ turn'[k].quiet = turn[k].quiet
      /\ turn'[k].exposed = turn[k].exposed \/ turn'[k].exposed = 0
      /\ turn[k].kind = "stream" =>
            /\ turn'[k].leaseLost => turn'[k].aborted
            /\ ~turn'[k].leaseLost => turn'[k].exposed + turn'[k].beatIn <= Refresh
      /\ \A j \in Token : j # k => turn'[j] = turn[j]
      /\ turn' \in [Token -> Turn \cup {NoTurn}]
  <2>1. CASE BeatFindsLoss(k)
    <3> DEFINE b == AbortedOnLoss(turn[k].kind)
               n == [turn[k] EXCEPT !.leaseLost = TRUE, !.aborted = b]
    <3>1. turn' = [turn EXCEPT ![k] = n]
      BY <2>1 DEF BeatFindsLoss
    <3>2. b \in BOOLEAN /\ (turn[k].kind = "stream" => b = TRUE)
      BY DEF AbortedOnLoss
    <3>3. n = [turn[k] EXCEPT !.leaseLost = TRUE, !.aborted = b]
      OBVIOUS
    <3> HIDE DEF n, b
    <3>4. turn'[k] = n
      BY <1>1, <3>1 DEF TypeOK
    <3>5. n \in Turn /\ n.leaseLost = TRUE /\ n.aborted = b
      BY <1>1, <3>2, <3>3 DEF Turn
    <3>6. n.proc = turn[k].proc /\ n.thread = turn[k].thread /\ n.kind = turn[k].kind
          /\ n.quiet = turn[k].quiet /\ n.exposed = turn[k].exposed
      BY <1>1, <3>2, <3>3 DEF Turn
    <3>7. turn' \in [Token -> Turn \cup {NoTurn}] /\ \A j \in Token : j # k => turn'[j] = turn[j]
      BY <1>1, <3>1, <3>5 DEF TypeOK
    <3> QED BY <3>2, <3>4, <3>5, <3>6, <3>7
  <2>2. CASE BeatErrors(k)
    <3> DEFINE n == [turn[k] EXCEPT !.beatIn = Refresh, !.exposed = 0]
    <3>1. turn' = [turn EXCEPT ![k] = n]
      BY <2>2 DEF BeatErrors
    <3>2. n = [turn[k] EXCEPT !.beatIn = Refresh, !.exposed = 0]
      OBVIOUS
    <3> HIDE DEF n
    <3>3. turn'[k] = n
      BY <1>1, <3>1 DEF TypeOK
    <3>4. n \in Turn /\ n.leaseLost = turn[k].leaseLost /\ n.aborted = turn[k].aborted
          /\ n.exposed = 0 /\ n.beatIn = Refresh
      BY <1>1, <3>2, ErredTurn
    <3>5. n.proc = turn[k].proc /\ n.thread = turn[k].thread /\ n.kind = turn[k].kind
          /\ n.quiet = turn[k].quiet
      BY <1>1, <3>2, ErredTurn
    <3>6. turn' \in [Token -> Turn \cup {NoTurn}] /\ \A j \in Token : j # k => turn'[j] = turn[j]
      BY <1>1, <3>1, <3>4 DEF TypeOK
    <3>7. turn[k].kind = "stream" => (turn[k].leaseLost => turn[k].aborted)
      BY <1>1 DEF IInv, StreamWatched
    <3> QED BY <3>3, <3>4, <3>5, <3>6, <3>7
  <2> QED BY <2>1, <2>2
<1>4. TypeOK'
  BY <1>1, <1>2, <1>3 DEF TypeOK
<1>5. Active' = Active
  BY <1>1, <1>3, ActiveTurn DEF Active
<1>6. \A j \in Active : /\ turn'[j].thread = turn[j].thread /\ turn'[j].proc = turn[j].proc
                        /\ turn'[j].kind = turn[j].kind /\ turn'[j].quiet = turn[j].quiet
                        /\ turn[j] \in Turn /\ j \in Token
  BY <1>1, <1>3, ActiveTurn
<1>7. \A j \in Active : OwnsRow(j)' <=> OwnsRow(j)
  BY <1>2, <1>6 DEF OwnsRow
<1>8. Held' /\ InProcessExclusive' /\ LossNeedsSilence'
  BY <1>2, <1>5, <1>6, <1>7 DEF IInv, Held, InProcessExclusive, LossNeedsSilence
<1>9. RowOfTurn'
  BY <1>2, <1>5, <1>6, <1>1, RowType DEF IInv, RowOfTurn, Active, Row
<1>10. OwnedRow'
  <2> SUFFICES ASSUME NEW j \in Active, OwnsRow(j)
               PROVE  turn'[j].exposed = 0
    BY <1>2, <1>5, <1>6, <1>7 DEF IInv, OwnedRow
  <2>1. CASE j = k
    BY <1>1, <1>3, <2>1 DEF IInv, OwnedRow
  <2>2. CASE j # k
    BY <1>3, <1>6, <2>2 DEF IInv, OwnedRow
  <2> QED BY <2>1, <2>2
<1>11. StreamWatched'
  <2> SUFFICES ASSUME NEW j \in Active, turn[j].kind = "stream"
               PROVE  /\ turn'[j].leaseLost => turn'[j].aborted
                      /\ ~turn'[j].leaseLost => turn'[j].exposed + turn'[j].beatIn <= Refresh
    BY <1>5, <1>6 DEF StreamWatched
  <2>1. CASE j = k
    BY <1>3, <2>1
  <2>2. CASE j # k
    BY <1>3, <1>6, <2>2 DEF IInv, StreamWatched
  <2> QED BY <2>1, <2>2
<1> QED BY <1>4, <1>8, <1>9, <1>10, <1>11 DEF IInv
LEMMA ReleaseInv ==
    ASSUME IInv, NEW k \in Token, Release(k) \/ ReleaseErrors(k)
    PROVE  IInv'
<1> USE NullsAssumption
<1>1. TypeOK /\ k \in Active /\ turn[k] \in Turn
  BY ActiveTurn DEF IInv, Release, ReleaseErrors, Ended, Active
<1> DEFINE h == turn[k].thread
           p == turn[k].proc
<1>2. /\ runningThreads' = [runningThreads EXCEPT ![p] = @ \ {h}]
      /\ turn' = [turn EXCEPT ![k] = NoTurn] /\ stalled' = stalled
  BY DEF Release, ReleaseErrors, Ended
<1>3. h \in Thread /\ p \in Proc
  BY <1>1 DEF Turn
<1>4. rows' = rows \/ (OwnsRow(k) /\ rows' = [rows EXCEPT ![h] = NoRow])
  BY DEF Release, ReleaseErrors, RowDropped
<1>5. TypeOK'
  BY <1>1, <1>2, <1>3, <1>4 DEF TypeOK
<1>6. Active' = Active \ {k}
  BY <1>1, <1>2 DEF Active, TypeOK
<1>7. \A j \in Active' : j # k /\ j \in Active /\ turn'[j] = turn[j] /\ turn[j] \in Turn
  BY <1>1, <1>2, <1>6, ActiveTurn DEF TypeOK
<1>8. Held'
  <2> SUFFICES ASSUME NEW j \in Active'
               PROVE  turn[j].thread \in runningThreads'[turn[j].proc]
    BY <1>7 DEF Held
  <2>1. turn[j].proc \in Proc /\ turn[j].thread \in runningThreads[turn[j].proc]
    BY <1>7 DEF IInv, Held, Turn
  <2>2. ~(turn[j].proc = p /\ turn[j].thread = h)
    BY <1>1, <1>7 DEF IInv, InProcessExclusive
  <2> QED BY <1>1, <1>2, <2>1, <2>2 DEF TypeOK
<1>9. InProcessExclusive' /\ StreamWatched'
  BY <1>7 DEF IInv, InProcessExclusive, StreamWatched
<1>10. \A t \in Thread : rows'[t] # NoRow => rows'[t] = rows[t] /\ rows[t] \in Row
  BY <1>1, <1>3, <1>4, RowType DEF TypeOK
<1>11. RowOfTurn'
  <2> SUFFICES ASSUME NEW t \in Thread, rows'[t] # NoRow, turn'[rows'[t].token] # NoTurn
               PROVE  turn'[rows'[t].token].thread = t
    BY DEF RowOfTurn
  <2>1. rows'[t] = rows[t] /\ rows[t].token \in Token
    BY <1>10 DEF Row
  <2>2. rows[t].token # k /\ turn'[rows[t].token] = turn[rows[t].token]
    BY <1>1, <1>2, <2>1 DEF TypeOK
  <2> QED BY <2>1, <2>2 DEF IInv, RowOfTurn
<1>12. \A j \in Active' : OwnsRow(j)' <=> OwnsRow(j)
  <2> SUFFICES ASSUME NEW j \in Active'
               PROVE  OwnsRow(j)' <=> OwnsRow(j)
    OBVIOUS
  <2>1. turn'[j] = turn[j] /\ turn[j].thread \in Thread /\ j # k
    BY <1>7 DEF Turn
  <2>2. CASE rows' = rows
    BY <2>1, <2>2 DEF OwnsRow
  <2>3. CASE OwnsRow(k) /\ rows' = [rows EXCEPT ![h] = NoRow]
    <3>1. CASE turn[j].thread = h
      BY <1>1, <2>1, <2>3, <3>1 DEF OwnsRow, TypeOK
    <3>2. CASE turn[j].thread # h
      BY <1>1, <2>1, <2>3, <3>2 DEF OwnsRow, TypeOK
    <3> QED BY <3>1, <3>2
  <2> QED BY <1>4, <2>2, <2>3
<1>13. LossNeedsSilence'
  BY <1>7, <1>12 DEF IInv, LossNeedsSilence
<1>14. OwnedRow'
  <2> SUFFICES ASSUME NEW j \in Active', OwnsRow(j)'
               PROVE  /\ rows'[turn[j].thread].left + turn[j].quiet = Ttl
                      /\ turn[j].exposed = 0
    BY <1>7 DEF OwnedRow
  <2>1. OwnsRow(j) /\ rows'[turn[j].thread] # NoRow /\ turn[j].thread \in Thread
    BY <1>7, <1>12 DEF OwnsRow, Turn
  <2> QED BY <2>1, <1>7, <1>10 DEF IInv, OwnedRow
<1> QED BY <1>5, <1>8, <1>9, <1>11, <1>13, <1>14 DEF IInv

LEMMA CrashInv ==
    ASSUME IInv, NEW p \in Proc, Crash(p)
    PROVE  IInv'
<1> USE NullsAssumption
<1>1. TypeOK /\ rows' = rows
  BY DEF IInv, Crash
<1>2. /\ runningThreads' = [runningThreads EXCEPT ![p] = {}]
      /\ turn' = [k \in Token |->
                     IF turn[k] # NoTurn /\ turn[k].proc = p THEN NoTurn ELSE turn[k]]
      /\ stalled' = stalled \ {p}
  BY DEF Crash
<1>3. TypeOK'
  BY <1>1, <1>2 DEF TypeOK
<1>4. \A j \in Active' : /\ j \in Active /\ turn'[j] = turn[j] /\ turn[j] \in Turn
                         /\ turn[j].proc # p
  BY <1>1, <1>2, ActiveTurn DEF Active
<1>5. Held'
  BY <1>1, <1>2, <1>4 DEF IInv, Held, Turn, TypeOK
<1>6. InProcessExclusive' /\ StreamWatched'
  BY <1>4 DEF IInv, InProcessExclusive, StreamWatched
<1>7. RowOfTurn'
  <2> SUFFICES ASSUME NEW t \in Thread, rows[t] # NoRow, turn'[rows[t].token] # NoTurn
               PROVE  turn'[rows[t].token].thread = t
    BY <1>1 DEF RowOfTurn
  <2>1. rows[t].token \in Active'
    BY <1>1, RowType DEF Row, Active
  <2> QED BY <1>4, <2>1 DEF IInv, RowOfTurn, Active
<1>8. LossNeedsSilence' /\ OwnedRow'
  BY <1>1, <1>4 DEF IInv, LossNeedsSilence, OwnedRow, OwnsRow
<1> QED BY <1>3, <1>5, <1>6, <1>7, <1>8 DEF IInv

LEMMA TickInv ==
    ASSUME IInv, Tick
    PROVE  IInv'
<1> USE TimingAssumption, NullsAssumption
<1>1. TypeOK /\ runningThreads' = runningThreads /\ stalled' = stalled
  BY DEF IInv, Tick
<1>2. \A n \in 0..Ttl : Down(n) \in 0..Ttl /\ Up(n, Ttl) \in 0..Ttl
  BY DEF Down, Up
<1>3. \A n \in 0..Refresh : Down(n) \in 0..Refresh
  BY DEF Down
<1>4. \A n \in 0..(Refresh + 1) : Up(n, Refresh + 1) \in 0..(Refresh + 1)
  BY DEF Up
<1>5. \A t \in Thread :
         /\ rows[t] = NoRow <=> rows'[t] = NoRow
         /\ rows[t] # NoRow => /\ rows'[t] \in Row
                               /\ rows'[t].token = rows[t].token
                               /\ rows'[t].left = Down(rows[t].left)
  <2> TAKE t \in Thread
  <2> DEFINE r == [token |-> rows[t].token, left |-> Down(rows[t].left)]
  <2>1. CASE rows[t] = NoRow
    BY <2>1 DEF Tick
  <2>2. CASE rows[t] # NoRow
    <3>1. rows[t].token \in Token /\ Down(rows[t].left) \in 0..Ttl
      BY <1>1, <1>2, <2>2, RowType DEF Row
    <3>2. rows'[t] = r
      BY <2>2 DEF Tick
    <3>3. r \in Row /\ r # NoRow
      BY <3>1 DEF Row
    <3> QED BY <2>2, <3>2, <3>3
  <2> QED BY <2>1, <2>2
<1> DEFINE grown(k) == IF turn[k].proc \in stalled \/ turn[k].aborted \/ OwnsRow(k)
                       THEN turn[k].exposed ELSE Up(turn[k].exposed, Refresh + 1)
<1>6. \A k \in Token :
         /\ turn[k] = NoTurn <=> turn'[k] = NoTurn
         /\ turn[k] # NoTurn =>
               /\ turn'[k] \in Turn
               /\ turn'[k].proc = turn[k].proc /\ turn'[k].thread = turn[k].thread
               /\ turn'[k].kind = turn[k].kind /\ turn'[k].leaseLost = turn[k].leaseLost
               /\ turn'[k].aborted = turn[k].aborted
               /\ turn'[k].beatIn = Down(turn[k].beatIn)
               /\ turn'[k].quiet = Up(turn[k].quiet, Ttl)
               /\ turn'[k].exposed = grown(k)
  <2> SUFFICES ASSUME NEW k \in Token, turn[k] # NoTurn
               PROVE  /\ turn'[k] # NoTurn
                      /\ turn'[k] \in Turn
                      /\ turn'[k].proc = turn[k].proc /\ turn'[k].thread = turn[k].thread
                      /\ turn'[k].kind = turn[k].kind /\ turn'[k].leaseLost = turn[k].leaseLost
                      /\ turn'[k].aborted = turn[k].aborted
                      /\ turn'[k].beatIn = Down(turn[k].beatIn)
                      /\ turn'[k].quiet = Up(turn[k].quiet, Ttl)
                      /\ turn'[k].exposed = grown(k)
    BY DEF Tick
  <2> DEFINE d == Down(turn[k].beatIn)
             u == Up(turn[k].quiet, Ttl)
             g == grown(k)
  <2>1. turn[k] \in Turn
    BY <1>1 DEF TypeOK
  <2>2. turn'[k] = [turn[k] EXCEPT !.beatIn = d, !.quiet = u, !.exposed = g]
    BY DEF Tick
  <2>3. d \in 0..Refresh /\ u \in 0..Ttl /\ g \in 0..(Refresh + 1)
    BY <1>2, <1>3, <1>4, <2>1 DEF Turn
  <2> HIDE DEF d, u, g
  <2>4. turn'[k] \in Turn /\ turn'[k] # NoTurn
    BY <2>1, <2>2, <2>3, ZenonT(60) DEF Turn
  <2>5. /\ turn'[k].proc = turn[k].proc /\ turn'[k].thread = turn[k].thread
        /\ turn'[k].kind = turn[k].kind /\ turn'[k].leaseLost = turn[k].leaseLost
        /\ turn'[k].aborted = turn[k].aborted
        /\ turn'[k].beatIn = d /\ turn'[k].quiet = u /\ turn'[k].exposed = g
    BY <2>1, <2>2 DEF Turn
  <2> QED BY <2>4, <2>5 DEF d, u, g
<1> HIDE DEF grown
<1>7. TypeOK'
  <2>1. rows' \in [Thread -> Row \cup {NoRow}]
    BY <1>5 DEF Tick
  <2>2. turn' \in [Token -> Turn \cup {NoTurn}]
    BY <1>6 DEF Tick
  <2> QED BY <1>1, <2>1, <2>2 DEF TypeOK
<1>8. Active' = Active /\ \A k \in Active : k \in Token /\ turn[k] # NoTurn /\ turn[k] \in Turn
  BY <1>1, <1>6, ActiveTurn DEF Active
<1>9. Held' /\ InProcessExclusive'
  BY <1>1, <1>6, <1>8 DEF IInv, Held, InProcessExclusive
<1>10. RowOfTurn'
  <2> SUFFICES ASSUME NEW t \in Thread, rows[t] # NoRow, turn'[rows[t].token] # NoTurn
               PROVE  turn'[rows[t].token].thread = t
    BY <1>5 DEF RowOfTurn
  <2>1. rows[t].token \in Token
    BY <1>1, RowType DEF Row
  <2> QED BY <1>6, <2>1 DEF IInv, RowOfTurn
<1>11. \A k \in Active : OwnsRow(k)' <=> OwnsRow(k)
  BY <1>5, <1>6, <1>8 DEF OwnsRow, Turn
<1>12. LossNeedsSilence'
  BY <1>6, <1>8, <1>11 DEF IInv, LossNeedsSilence, Up, Turn
<1>13. OwnedRow'
  <2> SUFFICES ASSUME NEW k \in Active, OwnsRow(k)
               PROVE  /\ rows'[turn[k].thread].left + turn'[k].quiet = Ttl
                      /\ turn'[k].exposed = 0
    BY <1>6, <1>8, <1>11 DEF OwnedRow
  <2>1. rows[turn[k].thread].left + turn[k].quiet = Ttl /\ turn[k].exposed = 0
    BY DEF IInv, OwnedRow
  <2>2. turn'[k].exposed = 0
    BY <1>6, <1>8, <2>1 DEF grown
  <2>3. turn[k].thread \in Thread /\ turn[k].quiet \in 0..Ttl
    BY <1>8 DEF Turn
  <2>4. rows[turn[k].thread] # NoRow /\ rows[turn[k].thread].left \in 0..Ttl
    BY <1>1, <2>3, RowType DEF OwnsRow, Row
  <2>5. rows'[turn[k].thread].left = Down(rows[turn[k].thread].left)
        /\ turn'[k].quiet = Up(turn[k].quiet, Ttl)
    BY <1>5, <1>6, <1>8, <2>3, <2>4
  <2> QED BY <2>1, <2>2, <2>3, <2>4, <2>5 DEF Down, Up
<1>14. StreamWatched'
  <2> SUFFICES ASSUME NEW k \in Active, turn[k].kind = "stream"
               PROVE  /\ turn[k].leaseLost => turn[k].aborted
                      /\ ~turn[k].leaseLost => turn'[k].exposed + turn'[k].beatIn <= Refresh
    BY <1>6, <1>8 DEF StreamWatched
  <2>1. /\ turn[k].leaseLost => turn[k].aborted
        /\ ~turn[k].leaseLost => turn[k].exposed + turn[k].beatIn <= Refresh
    BY DEF IInv, StreamWatched
  <2>2. ASSUME ~turn[k].leaseLost
        PROVE  turn'[k].exposed + turn'[k].beatIn <= Refresh
    <3>1. turn[k].beatIn \in 0..Refresh /\ turn[k].exposed \in 0..(Refresh + 1)
      BY <1>8 DEF Turn
    <3>2. turn'[k].beatIn = Down(turn[k].beatIn) /\ turn'[k].exposed = grown(k)
      BY <1>6, <1>8
    <3>3. CASE turn[k].proc \in stalled \/ turn[k].aborted \/ OwnsRow(k)
      BY <2>1, <2>2, <3>1, <3>2, <3>3 DEF grown, Down
    <3>4. CASE ~(turn[k].proc \in stalled \/ turn[k].aborted \/ OwnsRow(k))
      <4>1. turn[k].beatIn # 0
        BY <1>8, <2>2, <3>4 DEF Tick, BeatDue
      <4>2. turn'[k].exposed = Up(turn[k].exposed, Refresh + 1)
        BY <3>2, <3>4 DEF grown
      <4> QED BY <2>1, <2>2, <3>1, <3>2, <4>1, <4>2 DEF Down, Up
    <3> QED BY <3>3, <3>4
  <2> QED BY <2>1, <2>2
<1> QED BY <1>7, <1>9, <1>10, <1>12, <1>13, <1>14 DEF IInv

-----------------------------------------------------------------------------
(* The theorems.                                                           *)

LEMMA NextInv == IInv /\ [Next]_vars => IInv'
<1> SUFFICES ASSUME IInv, [Next]_vars PROVE IInv'
  OBVIOUS
<1>1. CASE UNCHANGED vars
  BY <1>1 DEF vars, IInv, TypeOK, Active, OwnsRow, Held, InProcessExclusive,
     RowOfTurn, LossNeedsSilence, OwnedRow, StreamWatched
<1>2. ASSUME NEW p \in Proc, NEW t \in Thread, NEW kind \in Kind, NEW k \in Token,
             Admit(p, t, kind, k)
      PROVE  IInv'
  BY <1>2, AdmitInv
<1>3. ASSUME NEW p \in Proc, NEW t \in Thread, Refuse(p, t)
      PROVE  IInv'
  BY <1>3, RefuseInv
<1>4. ASSUME NEW k \in Token, BeatRenews(k)
      PROVE  IInv'
  BY <1>4, BeatRenewsInv
<1>5. ASSUME NEW k \in Token, BeatFindsLoss(k) \/ BeatErrors(k)
      PROVE  IInv'
  BY <1>5, BeatMissesInv
<1>6. ASSUME NEW k \in Token, Release(k) \/ ReleaseErrors(k)
      PROVE  IInv'
  BY <1>6, ReleaseInv
<1>7. ASSUME NEW p \in Proc, Crash(p)
      PROVE  IInv'
  BY <1>7, CrashInv
<1>8. ASSUME NEW p \in Proc, Stall(p) \/ Wake(p)
      PROVE  IInv'
  BY <1>8, ScheduleInv
<1>9. CASE Tick
  BY <1>9, TickInv
<1> QED BY <1>1, <1>2, <1>3, <1>4, <1>5, <1>6, <1>7, <1>8, <1>9 DEF Next

\* The inductive invariant holds in every reachable state.
THEOREM Invariance == Spec => []IInv
BY InitInv, NextInv, PTL DEF Spec

\* The state of the lease table, the sets, the turns and the timers is well
\* formed.
THEOREM TypeCorrect == Spec => []TypeOK
BY Invariance, PTL DEF IInv

\* A process never runs two turns of one thread (tryAcquireThreadRun).
THEOREM OneTurnPerProcess == Spec => []InProcessExclusive
BY Invariance, PTL DEF IInv

\* Two turns run beside each other on one thread only if one of them has been
\* without a successful heartbeat for a whole TTL.
THEOREM DoubleRunOnlyAfterSilence == Spec => []DoubleRunNeedsSilence
<1>1. IInv => DoubleRunNeedsSilence
  <2> SUFFICES ASSUME IInv, NEW j \in Active, NEW k \in Active, j # k,
                      turn[j].thread = turn[k].thread
               PROVE  turn[j].quiet = Ttl \/ turn[k].quiet = Ttl
    BY DEF DoubleRunNeedsSilence
  <2>1. ~OwnsRow(j) \/ ~OwnsRow(k)
    BY DEF OwnsRow
  <2> QED BY <2>1 DEF IInv, LossNeedsSilence
<1> QED BY <1>1, Invariance, PTL

\* A streamed turn that lost its lease is aborted within a heartbeat interval.
THEOREM StreamsAbortInTime == Spec => []StreamLossWindow
<1>1. IInv => StreamLossWindow
  <2> SUFFICES ASSUME IInv, NEW k \in Active, turn[k].kind = "stream", ~turn[k].aborted
               PROVE  turn[k].exposed <= Refresh
    BY DEF StreamLossWindow
  <2>1. turn[k].exposed + turn[k].beatIn <= Refresh
    BY DEF IInv, StreamWatched
  <2>2. turn[k].exposed \in 0..(Refresh + 1) /\ turn[k].beatIn \in 0..Refresh
    BY ActiveTurn DEF IInv, Turn
  <2> QED BY <2>1, <2>2, TimingAssumption
<1> QED BY <1>1, Invariance, PTL
-----------------------------------------------------------------------------
(* The lease implements ThreadAdmission.  A step in which no turn starts to
   count is an end, of the threads that no turn executes after it: before it
   each had one turn at most.  Only an admission makes a turn count, and then
   the purge found no row of the thread, or one that expired, whose turn had
   been silent for a TTL and did not count any more.                        *)

\* A turn that counts owns the row of its thread, and the row is alive.
LEMMA ExecutingOwnsRow ==
    ASSUME IInv, NEW t \in Thread, NEW k \in Executing(t)
    PROVE  k \in Active /\ OwnsRow(k) /\ turn[k].thread = t /\ rows[t].left # 0
<1>1. k \in Active /\ turn[k].thread = t /\ turn[k].quiet < Ttl
  BY DEF Executing
<1>2. turn[k] \in Turn
  BY <1>1, ActiveTurn DEF IInv
<1>3. turn[k].quiet \in 0..Ttl
  BY <1>2 DEF Turn
<1>4. turn[k].quiet # Ttl
  BY <1>1, <1>3, TimingAssumption
<1>5. OwnsRow(k)
  BY <1>1, <1>4 DEF IInv, LossNeedsSilence
<1>6. rows[t].left + turn[k].quiet = Ttl
  BY <1>1, <1>5 DEF IInv, OwnedRow
<1> QED BY <1>1, <1>3, <1>4, <1>5, <1>6, TimingAssumption

LEMMA OneExecutes ==
    ASSUME IInv, NEW t \in Thread, NEW j \in Executing(t), NEW k \in Executing(t)
    PROVE  j = k
<1>1. OwnsRow(j) /\ OwnsRow(k) /\ turn[j].thread = t /\ turn[k].thread = t
  BY ExecutingOwnsRow
<1> QED BY <1>1 DEF OwnsRow

\* The value of `executing` under the refinement.
Exec == [t \in Thread |-> Executing(t)]

\* A step in which no turn starts to count is an end.
LEMMA NobodyStarts ==
    ASSUME IInv, \A t \in Thread : Executing(t)' \subseteq Executing(t)
    PROVE  Admission!Next
<1> DEFINE ended == {t \in Thread : Executing(t)' = {}}
<1>1. \A t \in Thread : Executing(t)' = IF t \in ended THEN {} ELSE Executing(t)
  <2> SUFFICES ASSUME NEW t \in Thread, Executing(t)' # {} PROVE Executing(t)' = Executing(t)
    OBVIOUS
  <2>1. PICK k : k \in Executing(t)'
    OBVIOUS
  <2>2. k \in Executing(t)
    BY <2>1
  <2>3. \A j \in Executing(t) : j = k
    BY <2>2, OneExecutes
  <2> QED BY <2>1, <2>2, <2>3
<1>2. Exec' = [t \in Thread |-> IF t \in ended THEN {} ELSE Exec[t]]
  BY <1>1 DEF Exec
<1>3. ended \in SUBSET Thread
  OBVIOUS
<1> HIDE DEF ended
<1> QED BY <1>2, <1>3 DEF Admission!Next, Admission!End, Exec

\* Turns that neither appear, nor change their thread, nor are heard of again.
LEMMA NobodyHeard ==
    ASSUME IInv,
           \A k \in Active' : /\ k \in Active
                              /\ turn'[k].thread = turn[k].thread
                              /\ turn'[k].quiet < Ttl => turn[k].quiet < Ttl
    PROVE  Admission!Next
<1>1. \A t \in Thread : Executing(t)' \subseteq Executing(t)
  BY DEF Executing
<1> QED BY <1>1, NobodyStarts

LEMMA AdmitAdmits ==
    ASSUME IInv, NEW p \in Proc, NEW t \in Thread, NEW kind \in Kind,
           NEW k \in Token, Admit(p, t, kind, k)
    PROVE  Admission!Next
<1> DEFINE new == [proc |-> p, thread |-> t, kind |-> kind,
                   leaseLost |-> FALSE, aborted |-> FALSE,
                   beatIn |-> Refresh, quiet |-> 0, exposed |-> 0]
<1>1. /\ TypeOK /\ turn[k] = NoTurn /\ Purged[t] = NoRow
      /\ turn' = [turn EXCEPT ![k] = new]
  BY DEF IInv, Admit, Fresh
<1>2. new \in Turn /\ new.thread = t /\ new.quiet = 0
  BY TimingAssumption DEF Turn
<1> HIDE DEF new
<1>3. /\ turn'[k] = new /\ new # NoTurn
      /\ \A j \in Token : j # k => turn'[j] = turn[j]
  BY <1>1, <1>2, NullsAssumption DEF TypeOK
<1>4. Active' = Active \cup {k} /\ k \notin Active
  BY <1>1, <1>3 DEF Active
<1>5. Executing(t) = {}
  <2> SUFFICES ASSUME NEW j \in Executing(t) PROVE FALSE
    OBVIOUS
  <2>1. OwnsRow(j) /\ turn[j].thread = t /\ rows[t].left # 0
    BY ExecutingOwnsRow
  <2>2. rows[t] = NoRow \/ rows[t].left = 0
    BY <1>1, PurgedType
  <2> QED BY <2>1, <2>2 DEF OwnsRow
<1>6. Executing(t)' = {k}
  <2>1. k \in Executing(t)'
    BY <1>2, <1>3, <1>4, TimingAssumption DEF Executing
  <2>2. ASSUME NEW j \in Executing(t)', j # k PROVE j \in Executing(t)
    BY <2>2, <1>3, <1>4 DEF Executing, Active
  <2> QED BY <2>1, <2>2, <1>5
<1>7. \A u \in Thread : u # t => Executing(u)' = Executing(u)
  BY <1>2, <1>3, <1>4 DEF Executing, Active
<1>8. Exec' = [Exec EXCEPT ![t] = {k}]
  BY <1>6, <1>7 DEF Exec
<1>9. Exec[t] = {}
  BY <1>5 DEF Exec
<1> QED BY <1>8, <1>9 DEF Admission!Next, Admission!Admit, Exec

\* A heartbeat that renews its row makes its turn count again: nobody else can
\* count, for the row is its own.
LEMMA RenewalAdmits ==
    ASSUME IInv, NEW k \in Token, BeatRenews(k)
    PROVE  Admission!Next
<1>1. TypeOK /\ k \in Active /\ turn[k] \in Turn /\ OwnsRow(k)
  BY ActiveTurn DEF IInv, BeatRenews, BeatDue, Active
<1> PICK h \in Thread : h = turn[k].thread
  BY <1>1 DEF Turn
<1> DEFINE new == [turn[k] EXCEPT !.beatIn = Refresh, !.quiet = 0]
<1>2. turn' = [turn EXCEPT ![k] = new]
  BY DEF BeatRenews
<1>3. new \in Turn /\ new.thread = h /\ new.quiet = 0
  <2>1. Refresh \in 0..Refresh /\ 0 \in 0..Ttl
    BY TimingAssumption
  <2> QED BY <1>1, <2>1 DEF Turn
<1> HIDE DEF new
<1>4. turn'[k] = new
  BY <1>1, <1>2 DEF TypeOK
<1>5. \A j \in Token : j # k => turn'[j] = turn[j]
  BY <1>1, <1>2 DEF TypeOK
<1>6. Active' = Active
  BY <1>1, <1>3, <1>4, <1>5, NullsAssumption DEF Active
<1>7. \A j \in Executing(h) : j = k
  <2> TAKE j \in Executing(h)
  <2>1. OwnsRow(j) /\ turn[j].thread = h
    BY ExecutingOwnsRow
  <2> QED BY <1>1, <2>1 DEF OwnsRow
<1>8. Executing(h)' = {k}
  <2>1. k \in Executing(h)'
    BY <1>1, <1>3, <1>4, <1>6, TimingAssumption DEF Executing
  <2>2. ASSUME NEW j \in Executing(h)', j # k PROVE j \in Executing(h)
    BY <2>2, <1>5, <1>6 DEF Executing, Active
  <2> QED BY <2>1, <2>2, <1>7
<1>9. \A u \in Thread : u # h => Executing(u)' = Executing(u)
  <2> TAKE u \in Thread
  <2> HAVE u # h
  <2>1. turn[k].thread # u /\ turn'[k].thread # u
    BY <1>3, <1>4
  <2> QED BY <2>1, <1>5, <1>6 DEF Executing, Active
<1>10. CASE k \in Executing(h)
  <2>1. \A u \in Thread : Executing(u)' \subseteq Executing(u)
    BY <1>8, <1>9, <1>10
  <2> QED BY <2>1, NobodyStarts
<1>11. CASE k \notin Executing(h)
  <2>1. Exec[h] = {}
    BY <1>7, <1>11 DEF Exec
  <2>2. Exec' = [Exec EXCEPT ![h] = {k}]
    BY <1>8, <1>9 DEF Exec
  <2> QED BY <2>1, <2>2 DEF Admission!Next, Admission!Admit, Exec
<1> QED BY <1>10, <1>11

\* Time makes turns count less.
LEMMA TickEnds ==
    ASSUME IInv, Tick
    PROVE  Admission!Next
<1>1. TypeOK
  BY DEF IInv
<1>2. \A k \in Token : turn[k] = NoTurn => turn'[k] = NoTurn
  BY DEF Tick
<1>3. \A k \in Token : turn[k] \in Turn =>
         turn'[k].thread = turn[k].thread /\ turn'[k].quiet = Up(turn[k].quiet, Ttl)
  <2> SUFFICES ASSUME NEW k \in Token, turn[k] \in Turn
               PROVE  /\ turn'[k].thread = turn[k].thread
                      /\ turn'[k].quiet = Up(turn[k].quiet, Ttl)
    OBVIOUS
  <2> DEFINE d == Down(turn[k].beatIn)
             u == Up(turn[k].quiet, Ttl)
             g == IF turn[k].proc \in stalled \/ turn[k].aborted \/ OwnsRow(k)
                  THEN turn[k].exposed ELSE Up(turn[k].exposed, Refresh + 1)
  <2>1. turn[k] # NoTurn
    BY NullsAssumption
  <2>2. turn'[k] = [turn[k] EXCEPT !.beatIn = d, !.quiet = u, !.exposed = g]
    BY <2>1 DEF Tick
  <2> HIDE DEF d, g
  <2> QED BY <2>2 DEF Turn
<1>4. ASSUME NEW k \in Active'
      PROVE  /\ k \in Active /\ turn'[k].thread = turn[k].thread
             /\ turn'[k].quiet < Ttl => turn[k].quiet < Ttl
  <2>1. k \in Active /\ turn[k] \in Turn
    BY <1>1, <1>2, ActiveTurn DEF Active
  <2>2. turn[k].quiet \in 0..Ttl
    BY <2>1 DEF Turn
  <2>3. Up(turn[k].quiet, Ttl) < Ttl => turn[k].quiet < Ttl
    BY <2>2, TimingAssumption DEF Up
  <2> QED BY <1>3, <2>1, <2>3 DEF Active
<1> QED BY <1>4, NobodyHeard

LEMMA StepRefines == IInv /\ [Next]_vars => [Admission!Next]_Exec
<1> SUFFICES ASSUME IInv, [Next]_vars PROVE [Admission!Next]_Exec
  OBVIOUS
<1>1. TypeOK
  BY DEF IInv
<1>2. CASE turn' = turn
  BY <1>2, NobodyHeard DEF Active
<1>3. ASSUME NEW p \in Proc, NEW t \in Thread, NEW kind \in Kind, NEW k \in Token,
             Admit(p, t, kind, k)
      PROVE  Admission!Next
  BY <1>3, AdmitAdmits
<1>4. ASSUME NEW k \in Token, BeatRenews(k) PROVE Admission!Next
  BY <1>4, RenewalAdmits
<1>5. ASSUME NEW k \in Token, BeatFindsLoss(k) PROVE Admission!Next
  <2>1. ASSUME NEW j \in Active'
        PROVE  /\ j \in Active /\ turn'[j].thread = turn[j].thread
               /\ turn'[j].quiet = turn[j].quiet
    BY <1>1, <1>5 DEF BeatFindsLoss, BeatDue, Active, TypeOK, Turn
  <2> QED BY <2>1, NobodyHeard
<1>6. ASSUME NEW k \in Token, BeatErrors(k) PROVE Admission!Next
  <2>1. ASSUME NEW j \in Active'
        PROVE  /\ j \in Active /\ turn'[j].thread = turn[j].thread
               /\ turn'[j].quiet = turn[j].quiet
    BY <1>1, <1>6 DEF BeatErrors, BeatDue, Active, TypeOK, Turn
  <2> QED BY <2>1, NobodyHeard
<1>7. ASSUME NEW k \in Token, Ended(k) PROVE Admission!Next
  <2>1. ASSUME NEW j \in Active' PROVE j \in Active /\ turn'[j] = turn[j]
    BY <1>1, <1>7 DEF Ended, Active, TypeOK
  <2> QED BY <2>1, NobodyHeard
<1>8. ASSUME NEW p \in Proc, Crash(p) PROVE Admission!Next
  <2>1. ASSUME NEW j \in Active' PROVE j \in Active /\ turn'[j] = turn[j]
    BY <1>1, <1>8 DEF Crash, Active, TypeOK
  <2> QED BY <2>1, NobodyHeard
<1>9. CASE Tick
  BY <1>9, TickEnds
<1>10. CASE UNCHANGED vars
  BY <1>2, <1>10 DEF vars
<1>11. ASSUME NEW p \in Proc, NEW t \in Thread, Refuse(p, t) \/ Stall(p) \/ Wake(p)
       PROVE  turn' = turn
  BY <1>11 DEF Refuse, Stall, Wake
<1>12. ASSUME NEW p \in Proc, Stall(p) \/ Wake(p) PROVE turn' = turn
  BY <1>12 DEF Stall, Wake
<1> QED
  BY <1>2, <1>3, <1>4, <1>5, <1>6, <1>7, <1>8, <1>9, <1>10, <1>11, <1>12
  DEF Next, Release, ReleaseErrors

\* The lease, with its row, heartbeat and set, whatever crashes, stalls or
\* fails, is an implementation of admission: of the turns that were heard of
\* within a TTL, at most one executes a thread, and a turn comes to count only
\* on a thread where none does.
THEOREM LeaseImplementsAdmission == Spec => ImplementsAdmission
<1>1. Init => Admission!Init
  BY DEF Init, Admission!Init, Executing, Active
<1>2. IInv /\ [Next]_vars => [Admission!Next]_[t \in Thread |-> Executing(t)]
  BY StepRefines DEF Exec
<1> QED BY <1>1, <1>2, Invariance, PTL DEF Spec, ImplementsAdmission, Admission!Spec
=============================================================================
