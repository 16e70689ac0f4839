------------------------- MODULE ThreadStreamsProofs -------------------------
(***************************************************************************)
(* Proofs about ThreadStreams, for every set of senders and threads and any *)
(* number of turns and messages: the registry is that of the live turns,    *)
(* steering messages are read once and in order, and only an answer or a    *)
(* cancellation takes the approvals of a blocked turn away.                 *)
(***************************************************************************)
EXTENDS ThreadStreams, SequenceTheorems, TLAPS

-----------------------------------------------------------------------------
(* The inductive invariant.                                                 *)

Typed == TypeOK /\ stream \in Seq(Turn)

\* What the maps know of a sender is its active stream, if that is a turn of
\* its own, and what they know of a resumed turn is the stream alone.
Served(s) ==
    LET a == reg.active[s]
        x == reg.bySender[s]
    IN /\ a # None => a \in Live /\ stream[a].sender = s
       /\ x # None <=> a # None /\ stream[a].kind = "turn"
       /\ x # None =>
             /\ x \in Started
             /\ reg.session[x].streamState = a
             /\ reg.session[x].threadId = stream[a].thread
             /\ reg.session[x].senderIds = {s}
             /\ stream[a].thread # NoThread => reg.byThread[stream[a].thread] = x
             /\ ~stream[a].cancelled => reg.session[x].steerQueue # Closed

\* A thread has a session only through the sender that streams it.
Met(t) ==
    reg.byThread[t] # None =>
        \E s \in Sender : /\ reg.bySender[s] = reg.byThread[t]
                          /\ stream[reg.active[s]].thread = t

\* Every live turn of a thread holds it, alone.
Locks ==
    /\ \A k \in Live : stream[k].thread # NoThread => stream[k].thread \in runningThreads
    /\ \A j, k \in Live :
          stream[j].thread = stream[k].thread /\ stream[j].thread # NoThread => j = k

\* A turn that is not its sender's active stream any more was cancelled.
Current == \A k \in Live : ~stream[k].cancelled => reg.active[stream[k].sender] = k

RegInv ==
    /\ Typed /\ Locks /\ Current
    /\ \A s \in Sender : Served(s)
    /\ \A t \in Thread : Met(t)

\* What was sent to a turn is what it has heard and, while it can still listen,
\* what its session has queued.
Listens(k) ==
    /\ IsPrefix(stream[k].heard, stream[k].sent)
    /\ stream[k].kind = "turn" /\ k \in Live /\ ~stream[k].cancelled
          => stream[k].sent = stream[k].heard \o SteerMessages(reg, stream[k].sender)

SteerInv == \A k \in Started : Listens(k)

\* An assistant message has one live turn or one turn that waits for approvals.
Writes(k) == k \in Live \/ (k \in Started /\ asked[k] # None)

AskInv ==
    /\ \A k \in Started : stream[k].message \in 1..k
    /\ \A k \in Stream : asked[k] # None =>
          /\ k \in Started /\ stream[k].blocked /\ stream[k].thread # NoThread
          /\ stream[k].phase \in {"closing", "ended"}
    /\ \A j, k \in Started :
          Writes(j) /\ Writes(k) /\ stream[j].message = stream[k].message => j = k

IInv == RegInv /\ SteerInv /\ AskInv

-----------------------------------------------------------------------------
(* Types.                                                                   *)

LEMMA Ids ==
    ASSUME Typed
    PROVE  /\ Len(stream) \in Nat /\ Started = 1..Len(stream) /\ Started \subseteq Stream
           /\ None \notin Stream /\ None \notin Started /\ None \notin Sender
           /\ NextId \notin Started /\ NextId # None
           /\ NoThread \notin Thread /\ Closed \notin Seq(Message)
           /\ \A k \in Started : stream[k] \in Turn
           /\ Live \subseteq Started
<1>1. Len(stream) \in Nat /\ Started = 1..Len(stream) /\ Len(stream) <= MaxStreams
  BY LenProperties DEF Typed, TypeOK, Started
<1> QED
  BY <1>1, BoundsAssumption, NoThreadAssumption, NoneAssumption, ClosedAssumption
  DEF Stream, None, NextId, Typed, TypeOK, Live

LEMMA RegTypes ==
    ASSUME Typed
    PROVE  /\ reg.active \in [Sender -> Stream \cup {None}]
           /\ reg.bySender \in [Sender -> Stream \cup {None}]
           /\ reg.byThread \in [Thread -> Stream \cup {None}]
           /\ reg.session \in [Stream -> ThreadSession]
BY DEF Typed, TypeOK, Registry

\* A function on the started turns is a sequence.
LEMMA Turns ==
    ASSUME Typed, NEW f, DOMAIN f = Started, \A k \in Started : f[k] \in Turn,
           f = [k \in Started |-> f[k]]
    PROVE  f \in Seq(Turn) /\ Len(f) = Len(stream)
<1>1. Len(stream) \in Nat /\ Started = 1..Len(stream)
  BY Ids
<1>2. f \in [1..Len(stream) -> Turn]
  BY <1>1
<1> QED
  BY <1>1, <1>2, SeqDef, LenProperties

-----------------------------------------------------------------------------
(* Steps that neither start nor end a turn, and leave the links alone.      *)

\* The turns stay what they are.
Alike ==
    /\ stream' \in Seq(Turn) /\ Len(stream') = Len(stream)
    /\ \A k \in Started :
          /\ stream'[k].kind = stream[k].kind /\ stream'[k].sender = stream[k].sender
          /\ stream'[k].thread = stream[k].thread /\ stream'[k].message = stream[k].message
          /\ stream'[k].phase = "ended" <=> stream[k].phase = "ended"
          /\ stream[k].cancelled => stream'[k].cancelled

\* So do the maps, and no queue is closed but one of a cancelled turn.
SameLinks ==
    /\ reg' \in Registry
    /\ reg'.active = reg.active /\ reg'.bySender = reg.bySender /\ reg'.byThread = reg.byThread
    /\ \A x \in Stream : /\ reg'.session[x].threadId = reg.session[x].threadId
                         /\ reg'.session[x].senderIds = reg.session[x].senderIds
                         /\ reg'.session[x].streamState = reg.session[x].streamState
    /\ \A s \in Sender :
          /\ reg.bySender[s] # None
          /\ reg'.session[reg.bySender[s]].steerQueue = Closed
          => \/ reg.session[reg.bySender[s]].steerQueue = Closed
             \/ stream'[reg.active[s]].cancelled

LEMMA AlikeInv ==
    ASSUME RegInv, Alike, SameLinks, runningThreads' = runningThreads,
           asked' \in [Stream -> Sender \cup {None}]
    PROVE  RegInv'
<1>1. Typed /\ Locks /\ Current
  BY DEF RegInv
<1>2. Started' = Started /\ Live' = Live
  <2>1. Started' = 1..Len(stream') /\ Started = 1..Len(stream)
    BY <1>1, Ids, LenProperties DEF Alike, Started
  <2> QED
    BY <2>1 DEF Alike, Live
<1>3. Typed'
  BY <1>1, <1>2, Ids, ElementOfSeq DEF Typed, TypeOK, Alike, SameLinks, Started
<1>4. Live \subseteq Started
  BY <1>1, Ids
<1>5. Locks'
  BY <1>1, <1>2, <1>4 DEF Locks, Alike
<1>6. Current'
  BY <1>1, <1>2, <1>4 DEF Current, Alike, SameLinks
<1>7. ASSUME NEW s \in Sender PROVE Served(s)'
  <2>1. Served(s)
    BY DEF RegInv
  <2> DEFINE a == reg.active[s]
             x == reg.bySender[s]
  <2>2. reg'.active[s] = a /\ reg'.bySender[s] = x /\ reg'.byThread = reg.byThread
    BY DEF SameLinks
  <2>3. a # None => a \in Started
    BY <1>4, <2>1 DEF Served
  <2>4. x # None => x \in Stream /\ a # None
    BY <1>1, <2>1, Ids DEF Served
  <2> HIDE DEF a, x
  <2>5. a # None => a \in Live /\ stream'[a].sender = s
    BY <2>1, <2>3 DEF Served, Alike, a
  <2>6. x # None <=> a # None /\ stream'[a].kind = "turn"
    BY <2>1, <2>3 DEF Served, Alike, a, x
  <2>7. ASSUME x # None
        PROVE  /\ x \in Started
               /\ reg'.session[x].streamState = a
               /\ reg'.session[x].threadId = stream'[a].thread
               /\ reg'.session[x].senderIds = {s}
               /\ stream'[a].thread # NoThread => reg'.byThread[stream'[a].thread] = x
               /\ ~stream'[a].cancelled => reg'.session[x].steerQueue # Closed
    <3>1. /\ x \in Started
          /\ reg.session[x].streamState = a
          /\ reg.session[x].threadId = stream[a].thread
          /\ reg.session[x].senderIds = {s}
          /\ stream[a].thread # NoThread => reg.byThread[stream[a].thread] = x
          /\ ~stream[a].cancelled => reg.session[x].steerQueue # Closed
      BY <2>1, <2>7 DEF Served, a, x
    <3>2. stream'[a].thread = stream[a].thread /\ (stream[a].cancelled => stream'[a].cancelled)
      BY <2>3, <2>4, <2>7 DEF Alike
    <3>3. ~stream'[a].cancelled => reg'.session[x].steerQueue # Closed
      BY <2>7, <3>1, <3>2 DEF SameLinks, a, x
    <3> QED
      BY <2>2, <2>4, <2>7, <3>1, <3>2, <3>3 DEF SameLinks
  <2> QED
    BY <1>2, <2>2, <2>5, <2>6, <2>7 DEF Served
<1>8. ASSUME NEW t \in Thread PROVE Met(t)'
  <2>1. Met(t)
    BY DEF RegInv
  <2>2. ASSUME reg.byThread[t] # None
        PROVE  \E s \in Sender : /\ reg.bySender[s] = reg.byThread[t]
                                 /\ stream'[reg.active[s]].thread = t
    <3>1. PICK s \in Sender : /\ reg.bySender[s] = reg.byThread[t]
                              /\ stream[reg.active[s]].thread = t
      BY <2>1, <2>2 DEF Met
    <3>2. reg.active[s] \in Started
      BY <1>4, <2>2, <3>1 DEF RegInv, Served
    <3> QED
      BY <3>1, <3>2 DEF Alike
  <2> QED
    BY <2>2 DEF Met, SameLinks
<1> QED
  BY <1>3, <1>5, <1>6, <1>7, <1>8 DEF RegInv

LEMMA OneTurn ==
    ASSUME Typed, NEW k \in Started, NEW c \in Turn, stream' = [stream EXCEPT ![k] = c],
           c.kind = stream[k].kind, c.sender = stream[k].sender, c.thread = stream[k].thread,
           c.message = stream[k].message,
           c.phase = "ended" <=> stream[k].phase = "ended",
           stream[k].cancelled => c.cancelled
    PROVE  Alike /\ stream'[k] = c /\ \A j \in Started : j # k => stream'[j] = stream[j]
<1>1. /\ DOMAIN stream' = Started /\ stream' = [j \in Started |-> stream'[j]]
      /\ \A j \in Started : stream'[j] \in Turn
      /\ stream'[k] = c /\ \A j \in Started : j # k => stream'[j] = stream[j]
  BY Ids DEF Started
<1>2. stream' \in Seq(Turn) /\ Len(stream') = Len(stream)
  BY <1>1, Turns
<1> QED
  BY <1>1, <1>2 DEF Alike

LEMMA CancelledIs ==
    ASSUME Typed, NEW ks
    PROVE  LET f == Cancelled(ks) IN
           /\ f \in Seq(Turn) /\ Len(f) = Len(stream)
           /\ \A j \in Started :
                 /\ f[j].kind = stream[j].kind /\ f[j].sender = stream[j].sender
                 /\ f[j].thread = stream[j].thread /\ f[j].message = stream[j].message
                 /\ f[j].phase = stream[j].phase /\ f[j].blocked = stream[j].blocked
                 /\ f[j].sent = stream[j].sent /\ f[j].heard = stream[j].heard
                 /\ j \in ks => f[j].cancelled
                 /\ j \notin ks => f[j] = stream[j]
<1> DEFINE f == Cancelled(ks)
<1>1. /\ DOMAIN f = Started /\ f = [j \in Started |-> f[j]]
      /\ \A j \in Started :
            f[j] = IF j \in ks THEN [stream[j] EXCEPT !.cancelled = TRUE, !.aborted = TRUE]
                   ELSE stream[j]
  BY DEF Cancelled
<1> HIDE DEF f
<1>2. ASSUME NEW j \in Started
      PROVE  /\ [stream[j] EXCEPT !.cancelled = TRUE, !.aborted = TRUE] \in Turn
             /\ stream[j] \in Turn
  BY Ids, ZenonT(60) DEF Turn
<1>3. \A j \in Started : f[j] \in Turn
  BY <1>1, <1>2
<1>4. f \in Seq(Turn) /\ Len(f) = Len(stream)
  BY <1>1, <1>3, Turns
<1>5. ASSUME NEW j \in Started
      PROVE  /\ f[j].kind = stream[j].kind /\ f[j].sender = stream[j].sender
             /\ f[j].thread = stream[j].thread /\ f[j].message = stream[j].message
             /\ f[j].phase = stream[j].phase /\ f[j].blocked = stream[j].blocked
             /\ f[j].sent = stream[j].sent /\ f[j].heard = stream[j].heard
             /\ j \in ks => f[j].cancelled
             /\ j \notin ks => f[j] = stream[j]
  <2>1. CASE j \in ks
    <3>1. f[j] = [stream[j] EXCEPT !.cancelled = TRUE, !.aborted = TRUE]
      BY <1>1, <2>1
    <3>2. stream[j] \in Turn
      BY <1>2
    <3> QED
      BY <2>1, <3>1, <3>2 DEF Turn
  <2>2. CASE j \notin ks
    BY <1>1, <2>2
  <2> QED
    BY <2>1, <2>2
<1> QED
  BY <1>4, <1>5 DEF f

LEMMA SomeCancelled ==
    ASSUME Typed, NEW ks, stream' = Cancelled(ks)
    PROVE  /\ Alike
           /\ \A k \in Started : /\ k \in ks => stream'[k].cancelled
                                 /\ k \notin ks => stream'[k] = stream[k]
                                 /\ stream'[k].sent = stream[k].sent
                                 /\ stream'[k].heard = stream[k].heard
                                 /\ stream'[k].phase = stream[k].phase
                                 /\ stream'[k].blocked = stream[k].blocked
BY CancelledIs DEF Alike

LEMMA SameReg ==
    ASSUME Typed, reg' = reg
    PROVE  SameLinks
BY DEF SameLinks, Typed, TypeOK

\* Two senders never share a session.
LEMMA OwnSession ==
    ASSUME RegInv, NEW s \in Sender, NEW z \in Sender, reg.bySender[s] # None,
           reg.bySender[z] = reg.bySender[s]
    PROVE  z = s
<1>1. Served(s) /\ Served(z)
  BY DEF RegInv
<1> QED
  BY <1>1 DEF Served

LEMMA QueueChanged ==
    ASSUME RegInv, NEW s \in Sender, reg.bySender[s] # None,
           NEW q \in Seq(Message) \cup {Closed},
           reg' = [reg EXCEPT !.session[reg.bySender[s]].steerQueue = q],
           q = Closed => stream'[reg.active[s]].cancelled
    PROVE  /\ SameLinks /\ reg'.session[reg.bySender[s]].steerQueue = q
           /\ \A x \in Stream \ {reg.bySender[s]} : reg'.session[x] = reg.session[x]
<1> DEFINE x == reg.bySender[s]
<1>1. Typed
  BY DEF RegInv
<1>2. x \in Stream /\ reg.session[x] \in ThreadSession
  BY <1>1, RegTypes
<1>3. /\ reg'.active = reg.active /\ reg'.bySender = reg.bySender
      /\ reg'.byThread = reg.byThread
      /\ reg'.session = [reg.session EXCEPT ![x].steerQueue = q]
      /\ DOMAIN reg' = DOMAIN reg
  BY <1>1 DEF Typed, TypeOK, Registry
<1>4. [reg.session[x] EXCEPT !.steerQueue = q] \in ThreadSession
  BY <1>2 DEF ThreadSession
<1>5. /\ reg'.session \in [Stream -> ThreadSession]
      /\ reg'.session[x] = [reg.session[x] EXCEPT !.steerQueue = q]
      /\ \A y \in Stream \ {x} : reg'.session[y] = reg.session[y]
  BY <1>1, <1>2, <1>3, <1>4, RegTypes
<1>6. reg' \in Registry
  BY <1>1, <1>3, <1>5 DEF Registry, Typed, TypeOK
<1>7. /\ reg'.session[x].threadId = reg.session[x].threadId
      /\ reg'.session[x].senderIds = reg.session[x].senderIds
      /\ reg'.session[x].streamState = reg.session[x].streamState
      /\ reg'.session[x].steerQueue = q
  <2>1. reg'.session[x] = [reg.session[x] EXCEPT !.steerQueue = q]
    BY <1>5
  <2> QED
    BY <1>2, <2>1 DEF ThreadSession
<1>8. ASSUME NEW z \in Sender, reg.bySender[z] # None,
             reg'.session[reg.bySender[z]].steerQueue = Closed
      PROVE  \/ reg.session[reg.bySender[z]].steerQueue = Closed
             \/ stream'[reg.active[z]].cancelled
  <2>1. CASE z = s
    BY <1>7, <1>8, <2>1
  <2>2. CASE z # s
    <3>1. reg.bySender[z] \in Stream \ {x}
      BY <1>1, <1>8, <2>2, OwnSession, RegTypes
    <3> QED
      BY <1>5, <1>8, <3>1
  <2> QED
    BY <2>1, <2>2
<1> HIDE DEF x
<1>9. SameLinks
  BY <1>3, <1>5, <1>6, <1>7, <1>8 DEF SameLinks
<1> QED
  BY <1>5, <1>7, <1>9 DEF x

\* The active stream of a sender and its session, as the steps need them.
LEMMA ActiveStream ==
    ASSUME RegInv, NEW s \in Sender
    PROVE  /\ reg.active[s] # None => reg.active[s] \in Live /\ reg.active[s] \in Started
           /\ reg.bySender[s] # None =>
                 /\ reg.active[s] # None /\ stream[reg.active[s]].kind = "turn"
                 /\ reg.bySender[s] \in Stream
                 /\ SessionOf(reg, s).steerQueue \in Seq(Message) \cup {Closed}
           /\ SteerMessages(reg, s) \in Seq(Message)
<1>1. Served(s) /\ Typed
  BY DEF RegInv
<1>2. reg.bySender[s] # None => /\ reg.bySender[s] \in Stream
                                /\ reg.session[reg.bySender[s]] \in ThreadSession
  BY <1>1, RegTypes
<1>3. reg.bySender[s] # None => SessionOf(reg, s).steerQueue \in Seq(Message) \cup {Closed}
  BY <1>2 DEF ThreadSession, SessionOf
<1>4. SteerMessages(reg, s) \in Seq(Message)
  BY <1>3, EmptySeq DEF SteerMessages
<1> QED
  BY <1>1, <1>2, <1>3, <1>4, Ids DEF Served

\* The turn goes on to another phase.
LEMMA PhaseInv ==
    ASSUME RegInv, NEW k \in Started, NEW p \in {"working", "closing"}, NEW b \in BOOLEAN,
           stream[k].phase # "ended",
           stream' = [stream EXCEPT ![k] = [stream[k] EXCEPT !.phase = p, !.blocked = b]],
           UNCHANGED <<runningThreads, reg>>, asked' \in [Stream -> Sender \cup {None}]
    PROVE  RegInv' /\ Alike
<1> DEFINE c == [stream[k] EXCEPT !.phase = p, !.blocked = b]
<1>1. Typed
  BY DEF RegInv
<1>2. /\ c \in Turn /\ c.kind = stream[k].kind /\ c.sender = stream[k].sender
      /\ c.thread = stream[k].thread /\ c.message = stream[k].message /\ c.phase # "ended"
      /\ c.cancelled = stream[k].cancelled
  <2> DEFINE d == [stream[k] EXCEPT !.phase = p]
  <2>1. stream[k] \in Turn
    BY <1>1, Ids
  <2>2. d \in Turn /\ c = [d EXCEPT !.blocked = b]
    BY <2>1 DEF Turn
  <2>3. c \in Turn
    BY <2>2 DEF Turn
  <2> QED
    BY <2>1, <2>3 DEF Turn
<1>3. stream' = [stream EXCEPT ![k] = c]
  OBVIOUS
<1> HIDE DEF c
<1>4. Alike
  BY <1>1, <1>2, <1>3, OneTurn, ZenonT(60)
<1>5. SameLinks
  BY <1>1, SameReg
<1> QED
  BY <1>4, <1>5, AlikeInv

\* A step that cancels some turns and closes at most the queue of one of them.
LEMMA CancelInv ==
    ASSUME RegInv, NEW ks, stream' = Cancelled(ks), SameLinks,
           runningThreads' = runningThreads, asked' \in [Stream -> Sender \cup {None}]
    PROVE  RegInv'
BY SomeCancelled, AlikeInv DEF RegInv

LEMMA StopInv ==
    ASSUME RegInv, NEW s \in Sender, Stop(s)
    PROVE  /\ RegInv' /\ SameLinks
           /\ reg.active[s] \in Started /\ stream' = Cancelled({reg.active[s]})
           /\ stream'[reg.active[s]].cancelled
           /\ \A x \in Stream \ {reg.bySender[s]} : reg'.session[x] = reg.session[x]
<1>1. /\ stream' = Cancelled({reg.active[s]}) /\ reg.active[s] # None
      /\ UNCHANGED <<runningThreads, asked>>
      /\ reg' = IF reg.bySender[s] = None THEN reg
                ELSE [reg EXCEPT !.session[reg.bySender[s]].steerQueue = Closed]
  BY DEF Stop, QueueAfterStop
<1>2. Typed
  BY DEF RegInv
<1>3. reg.active[s] \in Started
  BY <1>1, ActiveStream
<1>4. stream'[reg.active[s]].cancelled
  BY <1>1, <1>2, <1>3, SomeCancelled
<1>5. /\ SameLinks
      /\ \A x \in Stream \ {reg.bySender[s]} : reg'.session[x] = reg.session[x]
  <2>1. CASE reg.bySender[s] = None
    BY <1>1, <1>2, <2>1, SameReg
  <2>2. CASE reg.bySender[s] # None
    BY <1>1, <1>4, <2>2, QueueChanged
  <2> QED
    BY <2>1, <2>2
<1>6. RegInv'
  BY <1>1, <1>2, <1>5, CancelInv DEF Typed, TypeOK
<1> QED
  BY <1>1, <1>3, <1>4, <1>5, <1>6

LEMMA CancelRunInv ==
    ASSUME RegInv, NEW k \in Stream, CancelRun(k)
    PROVE  RegInv'
<1>1. Typed
  BY DEF RegInv
<1>2. asked' \in [Stream -> Sender \cup {None}]
  BY <1>1 DEF CancelRun, Typed, TypeOK
<1>3. /\ stream' = Cancelled({k} \cap {reg.active[stream[k].sender]})
      /\ UNCHANGED <<runningThreads, reg>>
  BY DEF CancelRun
<1> QED
  BY <1>1, <1>2, <1>3, SameReg, CancelInv

LEMMA LeaseLostInv ==
    ASSUME RegInv, NEW t \in Thread, LeaseLost(t)
    PROVE  RegInv'
<1>1. Typed
  BY DEF RegInv
<1>2. /\ stream' = Cancelled({reg.session[reg.byThread[t]].streamState} \ {None})
      /\ UNCHANGED <<runningThreads, reg, asked>>
  BY DEF LeaseLost
<1> QED
  BY <1>1, <1>2, SameReg, CancelInv DEF Typed, TypeOK

LEMMA AnswerOneInv ==
    ASSUME RegInv, NEW s \in Sender, NEW j \in Stream, AnswerOne(s, j)
    PROVE  RegInv'
<1>1. Typed
  BY DEF RegInv
<1>2. asked' \in [Stream -> Sender \cup {None}] /\ UNCHANGED <<runningThreads, reg, stream>>
  BY <1>1 DEF AnswerOne, Typed, TypeOK
<1>3. Alike
  BY <1>1, <1>2 DEF Alike, Typed
<1> QED
  BY <1>1, <1>2, <1>3, SameReg, AlikeInv

-----------------------------------------------------------------------------
(* Sequences.                                                               *)

\* The operators of sequences by other names: their axioms keep the provers from
\* using what is stated with them.
Joined(h, q) == h \o q
Extended(q, m) == Append(q, m)

LEMMA ExtendJoined ==
    ASSUME NEW S, NEW h \in Seq(S), NEW q \in Seq(S), NEW m \in S
    PROVE  Extended(Joined(h, q), m) = Joined(h, Extended(q, m))
<1>1. Append(h \o q, m) = h \o Append(q, m)
  <2>1. /\ Len(h) \in Nat /\ Len(q) \in Nat
        /\ DOMAIN h = 1..Len(h) /\ DOMAIN q = 1..Len(q)
    BY LenProperties
  <2>2. /\ h \o q \in Seq(S) /\ Len(h \o q) = Len(h) + Len(q)
        /\ \A i \in 1..(Len(h) + Len(q)) :
              (h \o q)[i] = IF i <= Len(h) THEN h[i] ELSE q[i - Len(h)]
    BY ConcatProperties
  <2>3. /\ Append(q, m) \in Seq(S) /\ Len(Append(q, m)) = Len(q) + 1
        /\ \A i \in 1..Len(q) : Append(q, m)[i] = q[i]
        /\ Append(q, m)[Len(q) + 1] = m
    BY AppendProperties
  <2>4. /\ Append(h \o q, m) \in Seq(S) /\ Len(Append(h \o q, m)) = Len(h) + Len(q) + 1
        /\ \A i \in 1..(Len(h) + Len(q)) : Append(h \o q, m)[i] = (h \o q)[i]
        /\ Append(h \o q, m)[Len(h) + Len(q) + 1] = m
    BY <2>2, AppendProperties
  <2>5. /\ h \o Append(q, m) \in Seq(S) /\ Len(h \o Append(q, m)) = Len(h) + (Len(q) + 1)
        /\ \A i \in 1..(Len(h) + (Len(q) + 1)) :
              (h \o Append(q, m))[i] = IF i <= Len(h) THEN h[i] ELSE Append(q, m)[i - Len(h)]
    BY <2>3, ConcatProperties
  <2>6. ASSUME NEW i \in 1..(Len(h) + Len(q) + 1)
        PROVE  Append(h \o q, m)[i] = (h \o Append(q, m))[i]
    <3>1. CASE i <= Len(h)
      BY <2>1, <2>2, <2>4, <2>5, <3>1
    <3>2. CASE i > Len(h) /\ i <= Len(h) + Len(q)
      <4>1. i - Len(h) \in 1..Len(q) /\ i \in 1..(Len(h) + Len(q))
        BY <2>1, <3>2
      <4>2. Append(h \o q, m)[i] = q[i - Len(h)]
        BY <2>1, <2>2, <2>4, <3>2, <4>1
      <4>3. (h \o Append(q, m))[i] = Append(q, m)[i - Len(h)]
        BY <2>1, <2>5, <3>2
      <4> QED
        BY <2>3, <4>1, <4>2, <4>3
    <3>3. CASE i = Len(h) + Len(q) + 1
      <4>1. (h \o Append(q, m))[i] = Append(q, m)[i - Len(h)] /\ i - Len(h) = Len(q) + 1
        BY <2>1, <2>5, <3>3
      <4> QED
        BY <2>3, <2>4, <3>3, <4>1
    <3> QED
      BY <2>1, <3>1, <3>2, <3>3
  <2> QED
    BY <2>1, <2>4, <2>5, <2>6, SeqEqual
<1> QED
  BY <1>1 DEF Joined, Extended

LEMMA PrefixSelf ==
    ASSUME NEW S, NEW h \in Seq(S)
    PROVE  h \o <<>> = h /\ IsPrefix(h, h)
<1>1. SubSeq(h, 1, Len(h)) = h
  BY SubSeqFull
<1>2. h \o <<>> = h
  BY ConcatEmptySeq
<1> QED
  BY <1>1, <1>2, LenProperties DEF IsPrefix

LEMMA PrefixAppend ==
    ASSUME NEW S, NEW h \in Seq(S), NEW q \in Seq(S), NEW m \in S, IsPrefix(h, q)
    PROVE  IsPrefix(h, Append(q, m))
<1> DEFINE s == Append(q, m)
<1>1. /\ Len(h) \in Nat /\ Len(q) \in Nat
      /\ DOMAIN h = 1..Len(h) /\ DOMAIN q = 1..Len(q)
  BY LenProperties
<1>2. /\ s \in Seq(S) /\ Len(s) = Len(q) + 1
      /\ \A i \in 1..Len(q) : s[i] = q[i]
  BY AppendProperties
<1>3. SubSeq(h, 1, Len(h)) = h
  BY SubSeqFull
<1>4. Len(h) <= Len(q) /\ SubSeq(q, 1, Len(h)) = h
  BY <1>3 DEF IsPrefix
<1>5. \A i \in 1..Len(h) : q[i] \in S
  BY <1>1, <1>4, ElementOfSeq
<1>6. \A i \in 1..Len(h) : SubSeq(q, 1, Len(h))[i] = q[i]
  BY <1>1, <1>4, <1>5, SubSeqProperties
<1>7. \A i \in 1..Len(h) : s[i] = h[i]
  BY <1>1, <1>2, <1>4, <1>6
<1> HIDE DEF s
<1>8. SubSeq(s, 1, Len(h)) = h
  <2>1. \A i \in 1..Len(h) : s[i] \in S
    BY <1>1, <1>7, ElementOfSeq
  <2>2. /\ SubSeq(s, 1, Len(h)) \in Seq(S) /\ Len(SubSeq(s, 1, Len(h))) = Len(h)
        /\ \A i \in 1..Len(h) : SubSeq(s, 1, Len(h))[i] = s[i]
    BY <1>1, <2>1, SubSeqProperties
  <2> QED
    BY <1>1, <1>7, <2>2, SeqEqual
<1> QED
  BY <1>1, <1>2, <1>3, <1>4, <1>8 DEF IsPrefix, s

-----------------------------------------------------------------------------
(* Steering.                                                                *)

\* A live turn of its own that nobody cancelled, and the queue it listens to.
Listening(k) == k \in Live /\ stream[k].kind = "turn" /\ ~stream[k].cancelled

LEMMA ListeningTurn ==
    ASSUME RegInv, NEW k \in Started, Listening(k)
    PROVE  /\ stream[k].sender \in Sender /\ reg.active[stream[k].sender] = k
           /\ reg.bySender[stream[k].sender] # None
           /\ SessionOf(reg, stream[k].sender).steerQueue \in Seq(Message)
           /\ SteerMessages(reg, stream[k].sender) = SessionOf(reg, stream[k].sender).steerQueue
<1> DEFINE s == stream[k].sender
<1>1. Typed /\ Current /\ stream[k] \in Turn
  BY Ids DEF RegInv
<1>2. s \in Sender /\ reg.active[s] = k
  BY <1>1 DEF Turn, Listening, Current
<1>3. Served(s) /\ k # None
  BY <1>1, <1>2, Ids DEF RegInv
<1>4. reg.bySender[s] # None /\ SessionOf(reg, s).steerQueue # Closed
  BY <1>2, <1>3 DEF Served, Listening, SessionOf
<1>5. SessionOf(reg, s).steerQueue \in Seq(Message) \cup {Closed}
  BY <1>2, <1>4, ActiveStream
<1> QED
  BY <1>2, <1>4, <1>5 DEF SteerMessages

LEMMA HeardTypes ==
    ASSUME Typed, NEW k \in Started
    PROVE  stream[k].heard \in Seq(Message) /\ stream[k].sent \in Seq(Message)
BY Ids DEF Turn

\* Turns whose messages do not change, and whose queue does not while they listen.
Quiet(k) ==
    /\ stream'[k].heard = stream[k].heard /\ stream'[k].sent = stream[k].sent
    /\ Listening(k)' => /\ Listening(k) /\ stream'[k].sender = stream[k].sender
                        /\ SteerMessages(reg', stream[k].sender)
                               = SteerMessages(reg, stream[k].sender)

LEMMA QuietListens ==
    ASSUME NEW k \in Started, Listens(k), Quiet(k)
    PROVE  Listens(k)'
BY DEF Listens, Quiet, Listening

LEMMA SteerStep ==
    ASSUME RegInv, SteerInv, NEW s \in Sender, NEW t \in Thread \cup {NoThread}, Steer(s, t)
    PROVE  /\ RegInv' /\ SteerInv' /\ Alike /\ asked' = asked
           /\ \A k \in Started : stream'[k].phase = stream[k].phase
                                 /\ stream'[k].blocked = stream[k].blocked
<1>1. Typed
  BY DEF RegInv
<1>2. /\ reg.bySender[s] # None /\ SessionOf(reg, s).steerQueue # Closed
      /\ UNCHANGED <<runningThreads, asked>>
  BY DEF Steer
<1>20. PICK a \in Started : a = reg.active[s]
  BY <1>2, ActiveStream
<1>21. PICK q \in Seq(Message) : q = SessionOf(reg, s).steerQueue
  BY <1>2, ActiveStream
<1>3. a # None /\ a \in Live /\ a \in Started /\ q \in Seq(Message) /\ stream[a].sender = s
  BY <1>2, <1>20, ActiveStream DEF RegInv, Served
<1>4. PICK m \in Message :
        /\ reg' = [reg EXCEPT !.session[reg.bySender[s]].steerQueue = Append(@, m)]
        /\ stream' = [stream EXCEPT ![a] =
                        [@ EXCEPT !.sent = Append(stream[a].sent, m),
                                  !.steered = stream[a].steered \/ ~stream[a].cancelled,
                                  !.aborted = TRUE]]
  BY <1>3, <1>20 DEF Steer
<1> DEFINE c == [stream[a] EXCEPT !.sent = Append(stream[a].sent, m),
                                  !.steered = stream[a].steered \/ ~stream[a].cancelled,
                                  !.aborted = TRUE]
<1>5. reg' = [reg EXCEPT !.session[reg.bySender[s]].steerQueue = Append(q, m)]
  <2>1. reg.bySender[s] \in Stream
    BY <1>2, ActiveStream
  <2> QED
    BY <1>1, <1>4, <1>21, <2>1, RegTypes DEF SessionOf, Typed, TypeOK, Registry
<1>6. Append(q, m) \in Seq(Message) /\ Append(q, m) # Closed
  BY <1>3, AppendProperties, ClosedAssumption
<1>7. /\ SameLinks /\ reg'.session[reg.bySender[s]].steerQueue = Append(q, m)
      /\ \A x \in Stream \ {reg.bySender[s]} : reg'.session[x] = reg.session[x]
  BY <1>2, <1>5, <1>6, QueueChanged
<1>8. /\ c \in Turn /\ c.kind = stream[a].kind /\ c.sender = stream[a].sender
      /\ c.thread = stream[a].thread /\ c.message = stream[a].message
      /\ c.phase = stream[a].phase /\ c.cancelled = stream[a].cancelled
      /\ c.sent = Append(stream[a].sent, m) /\ c.heard = stream[a].heard
      /\ c.blocked = stream[a].blocked
  <2>1. stream[a] \in Turn /\ Append(stream[a].sent, m) \in Seq(Message)
    BY <1>1, <1>3, Ids, HeardTypes, AppendProperties
  <2> DEFINE d == [stream[a] EXCEPT !.sent = Append(stream[a].sent, m)]
             e == [d EXCEPT !.steered = stream[a].steered \/ ~stream[a].cancelled]
  <2>2. d \in Turn
    BY <2>1 DEF Turn
  <2>3. stream[a].steered \in BOOLEAN /\ stream[a].cancelled \in BOOLEAN
    BY <2>1 DEF Turn
  <2>4. (stream[a].steered \/ ~stream[a].cancelled) \in BOOLEAN
    BY <2>3
  <2>5. e \in Turn
    BY <2>2, <2>4 DEF Turn
  <2>6. c = [e EXCEPT !.aborted = TRUE]
    BY <2>1 DEF Turn
  <2>7. c \in Turn
    BY <2>5, <2>6 DEF Turn
  <2> QED
    BY <2>1, <2>7 DEF Turn
<1>9. stream' = [stream EXCEPT ![a] = c]
  BY <1>4
<1> HIDE DEF c
<1>10. Alike /\ stream'[a] = c /\ \A j \in Started : j # a => stream'[j] = stream[j]
  BY <1>1, <1>3, <1>8, <1>9, OneTurn
<1>11. RegInv'
  BY <1>1, <1>2, <1>7, <1>10, AlikeInv DEF Typed, TypeOK
<1>12. Started' = Started /\ Live' = Live
  <2>1. Started' = 1..Len(stream') /\ Started = 1..Len(stream)
    BY <1>1, <1>10, LenProperties, Ids DEF Alike, Started
  <2> QED
    BY <2>1, <1>10 DEF Alike, Live
<1>13. reg'.bySender = reg.bySender
  BY <1>7 DEF SameLinks
<1>14. ASSUME NEW k \in Started PROVE Listens(k)'
  <2>1. Listens(k)
    BY DEF SteerInv
  <2>2. CASE k = a
    <3>1. IsPrefix(stream[a].heard, Append(stream[a].sent, m))
      BY <1>1, <1>3, <2>1, <2>2, HeardTypes, PrefixAppend DEF Listens
    <3>2. ASSUME Listening(a)'
          PROVE  Append(stream[a].sent, m) = stream[a].heard \o SteerMessages(reg', s)
      <4>1. Listening(a)
        BY <1>3, <1>8, <1>10, <1>12, <3>2 DEF Listening
      <4>2. stream[a].sent = stream[a].heard \o q
        BY <1>3, <2>1, <2>2, <4>1, <1>21, ListeningTurn DEF Listens, Listening
      <4>3. SteerMessages(reg', s) = Append(q, m)
        BY <1>2, <1>6, <1>7, <1>13 DEF SteerMessages, SessionOf
      <4>4. stream[a].heard \in Seq(Message)
        BY <1>1, <1>3, HeardTypes
      <4>5. Extended(Joined(stream[a].heard, q), m) = Joined(stream[a].heard, Extended(q, m))
        BY <4>4, ExtendJoined
      <4> QED
        BY <4>2, <4>3, <4>5 DEF Joined, Extended
    <3>3. /\ stream'[a].heard = stream[a].heard /\ stream'[a].sender = s
          /\ stream'[a].sent = Append(stream[a].sent, m)
      BY <1>3, <1>8, <1>10
    <3>4. Listening(a)' <=> stream'[a].kind = "turn" /\ a \in Live' /\ ~stream'[a].cancelled
      BY DEF Listening
    <3> QED
      BY <2>2, <3>1, <3>2, <3>3, <3>4 DEF Listens
  <2>3. CASE k # a
    <3>1. stream'[k] = stream[k]
      BY <1>10, <2>3
    <3>2. ASSUME Listening(k)'
          PROVE  Listening(k) /\ SteerMessages(reg', stream[k].sender)
                                    = SteerMessages(reg, stream[k].sender)
      <4>1. Listening(k)
        BY <1>12, <3>1, <3>2 DEF Listening
      <4>2. stream[k].sender # s /\ reg.bySender[stream[k].sender] # None
            /\ stream[k].sender \in Sender
        BY <2>3, <4>1, <1>20, ListeningTurn
      <4>3. reg.bySender[stream[k].sender] \in Stream \ {reg.bySender[s]}
        BY <1>2, <4>2, OwnSession, ActiveStream
      <4> QED
        BY <1>7, <1>13, <4>1, <4>3 DEF SteerMessages, SessionOf
    <3> QED
      BY <2>1, <3>1, <3>2, QuietListens DEF Quiet
  <2> QED
    BY <2>2, <2>3
<1>15. SteerInv'
  BY <1>12, <1>14 DEF SteerInv
<1>16. \A k \in Started : stream'[k].phase = stream[k].phase /\ stream'[k].blocked = stream[k].blocked
  BY <1>8, <1>10
<1> QED
  BY <1>2, <1>10, <1>11, <1>15, <1>16

LEMMA SameTurns ==
    ASSUME Typed, Alike
    PROVE  Started' = Started /\ Live' = Live
<1>1. Started' = 1..Len(stream') /\ Started = 1..Len(stream)
  BY LenProperties, Ids DEF Alike, Started
<1> QED
  BY <1>1 DEF Alike, Live

LEMMA QuietInv ==
    ASSUME RegInv, SteerInv, Alike,
           \A k \in Started : /\ stream'[k].heard = stream[k].heard
                              /\ stream'[k].sent = stream[k].sent
                              /\ Listening(k)' => SteerMessages(reg', stream[k].sender)
                                                      = SteerMessages(reg, stream[k].sender)
    PROVE  SteerInv'
<1>1. Started' = Started /\ Live' = Live /\ Live \subseteq Started
  BY SameTurns, Ids DEF RegInv
<1>2. ASSUME NEW k \in Started PROVE Listens(k)'
  <2>1. Listening(k)' => Listening(k)
    BY <1>1 DEF Listening, Alike
  <2>2. Quiet(k)
    BY <2>1 DEF Quiet, Alike
  <2> QED
    BY <2>2, QuietListens DEF SteerInv
<1> QED
  BY <1>1, <1>2 DEF SteerInv

LEMMA TakeSteerStep ==
    ASSUME RegInv, SteerInv, NEW k \in Started, TakeSteer(k)
    PROVE  /\ RegInv' /\ SteerInv' /\ Alike /\ asked' = asked
           /\ \A j \in Started : stream'[j].phase = stream[j].phase
                                 /\ stream'[j].blocked = stream[j].blocked
<1>1. Typed
  BY DEF RegInv
<1>2. PICK s \in Sender : s = stream[k].sender
  BY <1>1, Ids DEF Turn
<1>3. PICK q \in Seq(Message) : q = SteerMessages(reg, s)
  BY ActiveStream
<1> DEFINE c == [stream[k] EXCEPT !.steered = FALSE, !.aborted = FALSE,
                                  !.heard = stream[k].heard \o q]
<1>4. /\ stream[k].phase = "working" /\ ~stream[k].cancelled
      /\ stream' = [stream EXCEPT ![k] = c]
      /\ reg' = Drained(reg, s) /\ UNCHANGED <<runningThreads, asked>>
  BY <1>2, <1>3 DEF TakeSteer, In, Interrupted
<1>5. k \in Live /\ reg.active[s] = k
  BY <1>2, <1>4 DEF RegInv, Current, Live
<1>6. stream[k].heard \in Seq(Message) /\ stream[k].heard \o q \in Seq(Message)
  BY <1>1, HeardTypes, ConcatProperties
<1>7. /\ c \in Turn /\ c.kind = stream[k].kind /\ c.sender = stream[k].sender
      /\ c.thread = stream[k].thread /\ c.message = stream[k].message
      /\ c.phase = stream[k].phase /\ c.cancelled = stream[k].cancelled
      /\ c.sent = stream[k].sent /\ c.heard = stream[k].heard \o q
      /\ c.blocked = stream[k].blocked
  <2> DEFINE d == [stream[k] EXCEPT !.steered = FALSE]
             e == [d EXCEPT !.aborted = FALSE]
  <2>1. stream[k] \in Turn
    BY <1>1, Ids
  <2>2. d \in Turn
    BY <2>1 DEF Turn
  <2>3. e \in Turn
    BY <2>2 DEF Turn
  <2>4. c = [e EXCEPT !.heard = stream[k].heard \o q]
    BY <2>1 DEF Turn
  <2>5. c \in Turn
    BY <1>6, <2>3, <2>4 DEF Turn
  <2> QED
    BY <2>1, <2>5 DEF Turn
<1> HIDE DEF c
<1>8. Alike /\ stream'[k] = c /\ \A j \in Started : j # k => stream'[j] = stream[j]
  BY <1>1, <1>4, <1>7, OneTurn
<1>9. /\ SameLinks
      /\ reg.bySender[s] # None => reg'.session[reg.bySender[s]].steerQueue = <<>>
      /\ reg.bySender[s] = None => reg' = reg
      /\ \A x \in Stream \ {reg.bySender[s]} : reg'.session[x] = reg.session[x]
  <2>1. CASE reg.bySender[s] = None
    BY <1>1, <1>4, <2>1, SameReg DEF Drained
  <2>2. CASE reg.bySender[s] # None
    <3>1. stream[k].kind = "turn"
      BY <1>5, <2>2 DEF RegInv, Served
    <3>2. SessionOf(reg, s).steerQueue # Closed
      BY <1>2, <1>4, <1>5, <3>1, ListeningTurn, ClosedAssumption DEF Listening
    <3>3. reg' = [reg EXCEPT !.session[reg.bySender[s]].steerQueue = <<>>]
      BY <1>4, <2>2, <3>2 DEF Drained
    <3>4. <<>> \in Seq(Message) /\ <<>> # Closed
      BY EmptySeq, ClosedAssumption
    <3> QED
      BY <2>2, <3>3, <3>4, QueueChanged
  <2> QED
    BY <2>1, <2>2
<1>10. RegInv'
  BY <1>1, <1>4, <1>8, <1>9, AlikeInv DEF Typed, TypeOK
<1>11. Started' = Started /\ Live' = Live
  BY <1>1, <1>8, SameTurns
<1>12. reg'.bySender = reg.bySender
  BY <1>9 DEF SameLinks
<1>13. ASSUME NEW j \in Started PROVE Listens(j)'
  <2>1. Listens(j)
    BY DEF SteerInv
  <2>2. CASE j = k
    <3>1. CASE stream[k].kind = "turn"
      <4>1. stream[k].sent = stream[k].heard \o q
        BY <1>2, <1>3, <1>4, <1>5, <2>1, <2>2, <3>1 DEF Listens
      <4>2. IsPrefix(stream[k].sent, stream[k].sent) /\ stream[k].sent \o <<>> = stream[k].sent
        BY <1>1, HeardTypes, PrefixSelf
      <4>3. SteerMessages(reg', s) = <<>>
        <5>1. reg.bySender[s] # None
          BY <1>2, <1>4, <1>5, <3>1, ListeningTurn DEF Listening
        <5> QED
          BY <1>9, <1>12, <5>1 DEF SteerMessages, SessionOf
      <4>4. stream'[k].sent = stream[k].sent /\ stream'[k].heard = stream[k].sent
            /\ stream'[k].sender = s
        BY <1>2, <1>7, <1>8, <4>1
      <4> QED
        BY <2>2, <4>2, <4>3, <4>4 DEF Listens
    <3>2. CASE stream[k].kind # "turn"
      <4>1. reg.bySender[s] = None
        BY <1>5, <3>2 DEF RegInv, Served
      <4>2. q = <<>>
        BY <1>3, <4>1 DEF SteerMessages
      <4>3. stream[k].heard \o q = stream[k].heard
        BY <1>6, <4>2, ConcatEmptySeq
      <4>4. /\ stream'[k].sent = stream[k].sent /\ stream'[k].heard = stream[k].heard
            /\ stream'[k].kind # "turn"
        BY <1>7, <1>8, <3>2, <4>3
      <4> QED
        BY <2>1, <2>2, <4>4 DEF Listens
    <3> QED
      BY <3>1, <3>2
  <2>3. CASE j # k
    <3>1. stream'[j] = stream[j]
      BY <1>8, <2>3
    <3>2. ASSUME Listening(j)'
          PROVE  Listening(j) /\ SteerMessages(reg', stream[j].sender)
                                    = SteerMessages(reg, stream[j].sender)
      <4>1. Listening(j)
        BY <1>11, <3>1, <3>2 DEF Listening
      <4>2. stream[j].sender # s /\ reg.bySender[stream[j].sender] # None
            /\ stream[j].sender \in Sender
        BY <1>5, <2>3, <4>1, ListeningTurn
      <4>3. reg.bySender[stream[j].sender] \in Stream \ {reg.bySender[s]}
        BY <1>2, <4>2, OwnSession, ActiveStream
      <4> QED
        BY <1>9, <1>12, <4>1, <4>3 DEF SteerMessages, SessionOf
    <3> QED
      BY <2>1, <3>1, <3>2, QuietListens DEF Quiet
  <2> QED
    BY <2>2, <2>3
<1>14. SteerInv'
  BY <1>11, <1>13 DEF SteerInv
<1>15. \A j \in Started : stream'[j].phase = stream[j].phase /\ stream'[j].blocked = stream[j].blocked
  BY <1>7, <1>8
<1> QED
  BY <1>4, <1>8, <1>10, <1>14, <1>15

-----------------------------------------------------------------------------
(* What starting and ending a turn makes of the maps.                       *)

LEMMA NewSessionType ==
    ASSUME NEW t \in Thread \cup {NoThread}
    PROVE  NewSession(t) \in ThreadSession /\ NewSession(t).threadId = t
BY EmptySeq DEF NewSession, ThreadSession

LEMMA SweptIs ==
    ASSUME NEW r \in Registry
    PROVE  /\ Swept(r) \in Registry
           /\ Swept(r).active = r.active /\ Swept(r).bySender = r.bySender
           /\ Swept(r).byThread = r.byThread
           /\ \A s \in Sender : r.bySender[s] \in Stream =>
                  Swept(r).session[r.bySender[s]] = r.session[r.bySender[s]]
<1> DEFINE f == [x \in Stream |->
                    IF \/ \E s \in Sender : r.bySender[s] = x
                       \/ \E t \in Thread : r.byThread[t] = x
                    THEN r.session[x] ELSE NewSession(NoThread)]
<1>1. f \in [Stream -> ThreadSession]
  BY NewSessionType DEF Registry
<1>2. \A s \in Sender : r.bySender[s] \in Stream => f[r.bySender[s]] = r.session[r.bySender[s]]
  OBVIOUS
<1>3. Swept(r) = [r EXCEPT !.session = f]
  BY DEF Swept
<1> HIDE DEF f
<1> QED
  BY <1>1, <1>2, <1>3 DEF Registry

LEMMA DetachedIs ==
    ASSUME RegInv, NEW s \in Sender
    PROVE  LET d == Detached(reg, s)
               x == reg.bySender[s]
           IN /\ d \in Registry /\ d.active = reg.active
              /\ d.bySender = [reg.bySender EXCEPT ![s] = None]
              /\ \A u \in Thread : d.byThread[u] = IF x # None /\ reg.session[x].threadId = u
                                                   THEN None ELSE reg.byThread[u]
              /\ \A y \in Stream : y # x => d.session[y] = reg.session[y]
<1> DEFINE x == reg.bySender[s]
           d == Detached(reg, s)
<1>1. Typed /\ Served(s) /\ reg \in Registry
  BY DEF RegInv, Typed, TypeOK
<1>2. CASE x = None
  <2>1. d = reg
    BY <1>2 DEF Detached
  <2>2. reg.bySender = [reg.bySender EXCEPT ![s] = None]
    BY <1>1, <1>2, RegTypes
  <2> QED
    BY <1>1, <1>2, <2>1, <2>2
<1>3. CASE x # None
  <2>1. x \in Stream /\ reg.session[x].senderIds = {s} /\ reg.session[x] \in ThreadSession
    BY <1>1, <1>3, RegTypes, Ids DEF Served
  <2> DEFINE t == reg.session[x].threadId
             b == IF t # NoThread THEN [reg.byThread EXCEPT ![t] = None] ELSE reg.byThread
             n == [reg.session[x] EXCEPT !.senderIds = {}]
             f == [reg.session EXCEPT ![x] = n]
  <2>2. reg.session[x].senderIds \ {s} = {}
    BY <2>1
  <2>3. d = [reg EXCEPT !.bySender = [reg.bySender EXCEPT ![s] = None],
                        !.session = f, !.byThread = b]
    BY <1>1, <1>3, <2>1, <2>2 DEF Detached, Registry
  <2>4. t \in Thread \cup {NoThread} /\ n \in ThreadSession
    BY <2>1 DEF ThreadSession
  <2>5. b \in [Thread -> Stream \cup {None}] /\ f \in [Stream -> ThreadSession]
        /\ [reg.bySender EXCEPT ![s] = None] \in [Sender -> Stream \cup {None}]
    BY <1>1, <2>1, <2>4, RegTypes
  <2>6. \A u \in Thread : b[u] = IF t = u THEN None ELSE reg.byThread[u]
    BY <1>1, <2>4, RegTypes, NoThreadAssumption
  <2>7. \A y \in Stream : y # x => f[y] = reg.session[y]
    BY <1>1, RegTypes
  <2> HIDE DEF b, f, n
  <2>8. /\ d.active = reg.active /\ d.byThread = b /\ d.session = f
        /\ d.bySender = [reg.bySender EXCEPT ![s] = None]
    BY <1>1, <2>3 DEF Registry
  <2>9. d \in Registry
    BY <1>1, <2>3, <2>5, RegTypes DEF Registry
  <2> QED
    BY <1>3, <2>6, <2>7, <2>8, <2>9
<1> QED
  BY <1>2, <1>3

\* The session of a turn that starts.
Fresh(t, s, k) == [threadId |-> t, senderIds |-> {s}, steerQueue |-> <<>>, streamState |-> k]

\* The session object that trackThreadStream may have made for it before.
Untied(t, s) == [threadId |-> t, senderIds |-> {s}, steerQueue |-> <<>>, streamState |-> None]

LEMMA SessionsMade ==
    ASSUME NEW t \in Thread \cup {NoThread}, NEW s \in Sender, NEW k \in Stream
    PROVE  /\ Untied(t, s) \in ThreadSession /\ Fresh(t, s, k) \in ThreadSession
           /\ [NewSession(t) EXCEPT !.senderIds = NewSession(t).senderIds \cup {s}]
                  = Untied(t, s)
           /\ \A o \in {NewSession(t), Untied(t, s)} :
                 [o EXCEPT !.senderIds = o.senderIds \cup {s}, !.steerQueue = <<>>,
                           !.streamState = k] = Fresh(t, s, k)
<1>1. <<>> \in Seq(Message)
  BY EmptySeq
<1>2. /\ Untied(t, s) \in ThreadSession /\ Untied(t, s).threadId = t
      /\ Untied(t, s).senderIds = {s} /\ Untied(t, s).steerQueue = <<>>
      /\ Untied(t, s).streamState = None
  BY <1>1 DEF Untied, ThreadSession
<1>3. /\ Fresh(t, s, k) \in ThreadSession /\ Fresh(t, s, k).threadId = t
      /\ Fresh(t, s, k).senderIds = {s} /\ Fresh(t, s, k).steerQueue = <<>>
      /\ Fresh(t, s, k).streamState = k
  BY <1>1 DEF Fresh, ThreadSession
<1>4. /\ NewSession(t) \in ThreadSession /\ NewSession(t).threadId = t
      /\ NewSession(t).senderIds = {} /\ NewSession(t).steerQueue = <<>>
      /\ NewSession(t).streamState = None
  BY <1>1 DEF NewSession, ThreadSession
<1>5. \A a, b \in ThreadSession :
         /\ a.threadId = b.threadId /\ a.senderIds = b.senderIds
         /\ a.steerQueue = b.steerQueue /\ a.streamState = b.streamState
         => a = b
  BY DEF ThreadSession
<1>6. [NewSession(t) EXCEPT !.senderIds = {s}] = Untied(t, s)
  <2> DEFINE n == [NewSession(t) EXCEPT !.senderIds = {s}]
  <2>1. /\ n \in ThreadSession /\ n.threadId = t /\ n.senderIds = {s}
        /\ n.steerQueue = <<>> /\ n.streamState = None
    BY <1>4 DEF ThreadSession
  <2> HIDE DEF n
  <2>2. n = Untied(t, s)
    BY <1>2, <1>5, <2>1
  <2> QED
    BY <2>2 DEF n
<1>7. ASSUME NEW o \in ThreadSession, o.threadId = t
      PROVE  [o EXCEPT !.senderIds = {s}, !.steerQueue = <<>>, !.streamState = k]
                = Fresh(t, s, k)
  <2> DEFINE n == [o EXCEPT !.senderIds = {s}, !.steerQueue = <<>>, !.streamState = k]
             a == [o EXCEPT !.senderIds = {s}]
             b == [a EXCEPT !.steerQueue = <<>>]
  <2>1. a \in ThreadSession /\ a.threadId = t /\ a.senderIds = {s}
    BY <1>7 DEF ThreadSession
  <2>2. b \in ThreadSession /\ b.threadId = t /\ b.senderIds = {s} /\ b.steerQueue = <<>>
    BY <1>1, <2>1 DEF ThreadSession
  <2>3. n = [b EXCEPT !.streamState = k]
    BY DEF ThreadSession
  <2> HIDE DEF n, b
  <2>4. /\ n \in ThreadSession /\ n.threadId = t /\ n.senderIds = {s}
        /\ n.steerQueue = <<>> /\ n.streamState = k
    BY <2>2, <2>3 DEF ThreadSession
  <2>5. n = Fresh(t, s, k)
    BY <1>3, <1>5, <2>4
  <2> QED
    BY <2>5 DEF n
<1>8. NewSession(t).senderIds \cup {s} = {s} /\ Untied(t, s).senderIds \cup {s} = {s}
  BY <1>2, <1>4
<1> QED
  BY <1>2, <1>3, <1>4, <1>6, <1>7, <1>8

\* The stream k of sender s with its session f.
Entered(q, s, k, f) == [q EXCEPT !.active[s] = k, !.bySender[s] = k, !.session[k] = f]

LEMMA EnteredIs ==
    ASSUME NEW q \in Registry, NEW s \in Sender, NEW k \in Stream, NEW f \in ThreadSession
    PROVE  LET e == Entered(q, s, k, f) IN
           /\ e \in Registry /\ e.byThread = q.byThread
           /\ e.active = [q.active EXCEPT ![s] = k]
           /\ e.bySender = [q.bySender EXCEPT ![s] = k]
           /\ e.session = [q.session EXCEPT ![k] = f]
<1> DEFINE a == [q.active EXCEPT ![s] = k]
           b == [q.bySender EXCEPT ![s] = k]
           n == [q.session EXCEPT ![k] = f]
           c == [q EXCEPT !.active = a]
           d == [c EXCEPT !.bySender = b]
           e == Entered(q, s, k, f)
<1>1. e = [q EXCEPT !.active = a, !.bySender = b, !.session = n]
  BY DEF Entered
<1>2. /\ a \in [Sender -> Stream \cup {None}] /\ b \in [Sender -> Stream \cup {None}]
      /\ n \in [Stream -> ThreadSession]
  BY DEF Registry
<1> HIDE DEF a, b, n
<1>3. c \in Registry /\ c.active = a /\ c.byThread = q.byThread
  BY <1>2 DEF Registry
<1>4. d \in Registry /\ d.active = a /\ d.byThread = q.byThread /\ d.bySender = b
  BY <1>2, <1>3 DEF Registry
<1>5. e = [d EXCEPT !.session = n]
  BY <1>1 DEF Registry
<1> HIDE DEF d, e
<1>6. /\ e \in Registry /\ e.active = a /\ e.byThread = q.byThread /\ e.bySender = b
      /\ e.session = n
  BY <1>2, <1>4, <1>5 DEF Registry
<1> QED
  BY <1>6 DEF a, b, n, e

\* The maps of a turn that starts, once the sender has left its session.
Begun(r, s, t, k) == Registered(IF t = NoThread THEN r ELSE Tracked(r, t, s, k), s, k)

\* What they are made of.
Made(m, r, s, t, k) ==
    /\ m \in Registry
    /\ m.active = [r.active EXCEPT ![s] = k]
    /\ m.bySender = [r.bySender EXCEPT ![s] = k]
    /\ m.byThread = IF t = NoThread THEN r.byThread ELSE [r.byThread EXCEPT ![t] = k]
    /\ m.session = [r.session EXCEPT ![k] = Fresh(t, s, k)]

LEMMA StartedMaps ==
    ASSUME NEW r \in Registry, NEW s \in Sender, NEW t \in Thread \cup {NoThread},
           NEW k \in Stream, r.bySender[s] = None, t # NoThread => r.byThread[t] = None,
           NEW m, m = Begun(r, s, t, k)
    PROVE  Made(m, r, s, t, k)
<1>0. m = Registered(IF t = NoThread THEN r ELSE Tracked(r, t, s, k), s, k)
  BY DEF Begun
<1>1. k # None
  BY DEF Stream, None
<1>4. Fresh(t, s, k) \in ThreadSession
  BY SessionsMade
<1> DEFINE f == Fresh(t, s, k)
<1>2. CASE t = NoThread
  <2>1. [NewSession(NoThread) EXCEPT
            !.senderIds = NewSession(NoThread).senderIds \cup {s},
            !.steerQueue = <<>>, !.streamState = k] = Fresh(NoThread, s, k)
    BY SessionsMade, ZenonT(60)
  <2>2. Registered(r, s, k) = [r EXCEPT !.active[s] = k, !.bySender[s] = k,
                                        !.session[k] = Fresh(NoThread, s, k)]
    BY <2>1 DEF Registered
  <2>3. m = Entered(r, s, k, f) /\ f \in ThreadSession
    BY <1>0, <1>2, <1>4, <2>2 DEF Entered
  <2> HIDE DEF f
  <2>4. /\ m \in Registry /\ m.byThread = r.byThread
        /\ m.active = [r.active EXCEPT ![s] = k]
        /\ m.bySender = [r.bySender EXCEPT ![s] = k]
        /\ m.session = [r.session EXCEPT ![k] = f]
    BY <2>3, EnteredIs
  <2> QED
    BY <1>2, <2>4 DEF f, Made
<1>3. CASE t # NoThread
  <2> DEFINE q == [active |-> r.active, bySender |-> [r.bySender EXCEPT ![s] = k],
                   byThread |-> [r.byThread EXCEPT ![t] = k],
                   session |-> [r.session EXCEPT ![k] = Untied(t, s)]]
  <2>1. t \in Thread
    BY <1>3
  <2>2. Tracked(r, t, s, k)
          = [r EXCEPT !.byThread[t] = k, !.bySender[s] = k, !.session[k] = Untied(t, s)]
    BY <1>3, SessionsMade DEF Tracked
  <2>3. Tracked(r, t, s, k) = q
    BY <2>2 DEF Registry
  <2>4. /\ q.active = r.active /\ q.bySender = [r.bySender EXCEPT ![s] = k]
        /\ q.byThread = [r.byThread EXCEPT ![t] = k]
        /\ q.session = [r.session EXCEPT ![k] = Untied(t, s)]
    OBVIOUS
  <2>5. q.bySender[s] = k /\ q.session[k] = Untied(t, s) /\ q \in Registry
    BY <2>1, <2>4, SessionsMade DEF Registry
  <2> HIDE DEF q
  <2>6. [Untied(t, s) EXCEPT !.senderIds = Untied(t, s).senderIds \cup {s},
                             !.steerQueue = <<>>, !.streamState = k] = Fresh(t, s, k)
    BY SessionsMade
  <2>7. Registered(q, s, k) = [q EXCEPT !.active[s] = k, !.bySender[s] = k,
                                        !.session[k] = Fresh(t, s, k)]
    BY <1>1, <2>5, <2>6 DEF Registered
  <2>8. m = Entered(q, s, k, f) /\ f \in ThreadSession
    BY <1>0, <1>3, <1>4, <2>3, <2>7 DEF Entered
  <2> HIDE DEF f
  <2>9. /\ m \in Registry /\ m.byThread = q.byThread
        /\ m.active = [q.active EXCEPT ![s] = k]
        /\ m.bySender = [q.bySender EXCEPT ![s] = k]
        /\ m.session = [q.session EXCEPT ![k] = f]
    BY <2>5, <2>8, EnteredIs
  <2>10. /\ [[r.bySender EXCEPT ![s] = k] EXCEPT ![s] = k] = [r.bySender EXCEPT ![s] = k]
         /\ [[r.session EXCEPT ![k] = Untied(t, s)] EXCEPT ![k] = Fresh(t, s, k)]
               = [r.session EXCEPT ![k] = Fresh(t, s, k)]
    BY DEF Registry
  <2> QED
    BY <1>3, <2>4, <2>9, <2>10 DEF f, Made
<1> QED
  BY <1>2, <1>3

-----------------------------------------------------------------------------
(* A turn starts, or resumes.                                               *)

\* The turn k of sender s on thread t joins the others, of which it cancels
\* the one that the sender was streaming.
Joins(k, kind, s, t, message) ==
    /\ k = NextId
    /\ stream' = Append(Cancelled(Superseded(s)), New(kind, s, t, message))
    /\ Admitted(t) /\ runningThreads' = Locked(t)
    /\ asked' \in [Stream -> Sender \cup {None}]
    /\ reg' \in Registry /\ reg'.active = [reg.active EXCEPT ![s] = k]
    /\ reg'.bySender = [reg.bySender EXCEPT ![s] = IF kind = "turn" THEN k ELSE None]
    /\ \A u \in Thread :
          reg'.byThread[u] =
              IF kind = "turn" /\ u = t THEN k
              ELSE IF reg.bySender[s] # None /\ reg.session[reg.bySender[s]].threadId = u
              THEN None ELSE reg.byThread[u]
    /\ kind = "turn" => reg'.session[k] = Fresh(t, s, k)
    /\ \A z \in Sender \ {s} :
          reg.bySender[z] # None =>
              reg'.session[reg.bySender[z]] = reg.session[reg.bySender[z]]

LEMMA NewType ==
    ASSUME NEW kind \in {"turn", "resume"}, NEW s \in Sender,
           NEW t \in Thread \cup {NoThread}, NEW message \in Stream
    PROVE  LET n == New(kind, s, t, message) IN
           /\ n \in Turn /\ n.kind = kind /\ n.sender = s /\ n.thread = t /\ n.message = message
           /\ n.phase \in {"preparing", "working"} /\ ~n.blocked /\ ~n.cancelled
           /\ n.sent = <<>> /\ n.heard = <<>>
<1>1. <<>> \in Seq(Message)
  BY EmptySeq
<1> QED
  BY <1>1 DEF New, Turn

LEMMA JoinsTurns ==
    ASSUME RegInv, NEW k \in Stream, NEW kind \in {"turn", "resume"}, NEW s \in Sender,
           NEW t \in Thread \cup {NoThread}, NEW message \in Stream,
           Joins(k, kind, s, t, message)
    PROVE  /\ stream' \in Seq(Turn) /\ Len(stream') = k /\ k \notin Started
           /\ Started' = Started \cup {k} /\ Live' = Live \cup {k}
           /\ stream'[k] = New(kind, s, t, message)
           /\ \A j \in Started :
                 /\ stream'[j].kind = stream[j].kind /\ stream'[j].sender = stream[j].sender
                 /\ stream'[j].thread = stream[j].thread
                 /\ stream'[j].message = stream[j].message
                 /\ stream'[j].phase = stream[j].phase /\ stream'[j].blocked = stream[j].blocked
                 /\ stream'[j].sent = stream[j].sent /\ stream'[j].heard = stream[j].heard
                 /\ stream[j].sender = s /\ j \in Live => stream'[j].cancelled
                 /\ stream[j].sender # s => stream'[j] = stream[j]
<1>1. Typed /\ Current
  BY DEF RegInv
<1> DEFINE ks == Superseded(s)
           f == Cancelled(ks)
           n == New(kind, s, t, message)
<1>2. stream' = Append(f, n) /\ k = Len(stream) + 1
  BY DEF Joins, NextId
<1>3. f \in Seq(Turn) /\ Len(f) = Len(stream)
  BY <1>1, CancelledIs
<1>4. \A j \in Started :
         /\ f[j].kind = stream[j].kind /\ f[j].sender = stream[j].sender
         /\ f[j].thread = stream[j].thread /\ f[j].message = stream[j].message
         /\ f[j].phase = stream[j].phase /\ f[j].blocked = stream[j].blocked
         /\ f[j].sent = stream[j].sent /\ f[j].heard = stream[j].heard
         /\ j \in ks => f[j].cancelled
         /\ j \notin ks => f[j] = stream[j]
  BY <1>1, CancelledIs
<1>5. n \in Turn /\ n.phase # "ended"
  BY NewType
<1>6. ASSUME NEW j \in Started
      PROVE  /\ stream[j].sender = s /\ j \in Live => f[j].cancelled
             /\ stream[j].sender # s => f[j] = stream[j]
  <2>1. ASSUME stream[j].sender = s, j \in Live, ~stream[j].cancelled PROVE j \in ks
    <3>1. reg.active[s] = j /\ j # None
      BY <1>1, <2>1, Ids DEF Current
    <3> QED
      BY <3>1 DEF Superseded
  <2>2. ASSUME j \in ks PROVE stream[j].sender = s
    <3>1. reg.active[s] = j /\ j # None
      BY <2>2 DEF Superseded
    <3> QED
      BY <3>1 DEF RegInv, Served
  <2>3. ASSUME j \notin ks PROVE f[j] = stream[j]
    BY <1>4, <2>3
  <2>4. ASSUME j \in ks PROVE f[j].cancelled
    BY <1>4, <2>4
  <2> QED
    BY <2>1, <2>2, <2>3, <2>4
<1> HIDE DEF f, n, ks
<1>7. /\ Append(f, n) \in Seq(Turn) /\ Len(Append(f, n)) = Len(f) + 1
      /\ \A i \in 1..Len(f) : Append(f, n)[i] = f[i]
      /\ Append(f, n)[Len(f) + 1] = n
  BY <1>3, <1>5, AppendProperties
<1>8. Len(stream) \in Nat /\ Started = 1..Len(stream)
  BY <1>1, Ids
<1>9. /\ stream' \in Seq(Turn) /\ Len(stream') = k /\ stream'[k] = n
      /\ \A j \in Started : stream'[j] = f[j]
  BY <1>2, <1>3, <1>7, <1>8
<1>10. Started' = Started \cup {k} /\ k \notin Started
  <2>1. Started' = 1..Len(stream')
    BY <1>9, LenProperties DEF Started
  <2> QED
    BY <1>2, <1>8, <1>9, <2>1
<1>11. Live' = Live \cup {k}
  BY <1>4, <1>5, <1>9, <1>10 DEF Live
<1>12. \A j \in Started :
         /\ stream'[j].kind = stream[j].kind /\ stream'[j].sender = stream[j].sender
         /\ stream'[j].thread = stream[j].thread /\ stream'[j].message = stream[j].message
         /\ stream'[j].phase = stream[j].phase /\ stream'[j].blocked = stream[j].blocked
         /\ stream'[j].sent = stream[j].sent /\ stream'[j].heard = stream[j].heard
         /\ stream[j].sender = s /\ j \in Live => stream'[j].cancelled
         /\ stream[j].sender # s => stream'[j] = stream[j]
  BY <1>4, <1>6, <1>9
<1> QED
  BY <1>9, <1>10, <1>11, <1>12 DEF n

LEMMA JoinsInv ==
    ASSUME RegInv, NEW k \in Stream, NEW kind \in {"turn", "resume"}, NEW s \in Sender,
           NEW t \in Thread \cup {NoThread}, NEW message \in Stream,
           Joins(k, kind, s, t, message)
    PROVE  RegInv'
<1>1. Typed /\ Current /\ Locks
  BY DEF RegInv
<1>2. /\ stream' \in Seq(Turn) /\ Len(stream') = k /\ k \notin Started
      /\ Started' = Started \cup {k} /\ Live' = Live \cup {k}
      /\ stream'[k].kind = kind /\ stream'[k].sender = s /\ stream'[k].thread = t
      /\ ~stream'[k].cancelled
  BY JoinsTurns, NewType
<1>3. \A j \in Started :
         /\ stream'[j].kind = stream[j].kind /\ stream'[j].sender = stream[j].sender
         /\ stream'[j].thread = stream[j].thread
         /\ stream[j].sender = s /\ j \in Live => stream'[j].cancelled
         /\ stream[j].sender # s => stream'[j] = stream[j]
  BY JoinsTurns
<1>4. /\ Live \subseteq Started /\ k # None /\ None \notin Started /\ NoThread \notin Thread
      /\ None \notin Stream
  BY <1>1, Ids
<1>5. /\ reg'.active[s] = k /\ \A z \in Sender \ {s} : reg'.active[z] = reg.active[z]
      /\ reg'.bySender[s] = (IF kind = "turn" THEN k ELSE None)
      /\ \A z \in Sender \ {s} : reg'.bySender[z] = reg.bySender[z]
  BY <1>1, RegTypes DEF Joins
<1>6. ASSUME NEW u \in Thread
      PROVE  reg'.byThread[u] =
                 IF kind = "turn" /\ u = t THEN k
                 ELSE IF reg.bySender[s] # None /\ reg.session[reg.bySender[s]].threadId = u
                 THEN None ELSE reg.byThread[u]
  BY DEF Joins
<1>7. /\ t = NoThread \/ t \notin runningThreads
      /\ runningThreads' = IF t = NoThread THEN runningThreads ELSE runningThreads \cup {t}
      /\ asked' \in [Stream -> Sender \cup {None}] /\ reg' \in Registry
  BY DEF Joins, Admitted, Locked
\* No live turn is on t, nor is another one on the thread that s leaves.
<1>8. \A j \in Live : stream[j].thread = t => t = NoThread
  BY <1>1, <1>4, <1>7 DEF Locks
<1>9. Typed'
  <2>1. \A j \in Started' : stream'[j] \in Turn
    BY <1>2, ElementOfSeq, LenProperties DEF Started
  <2>2. k <= MaxStreams
    BY BoundsAssumption DEF Stream
  <2> QED
    BY <1>1, <1>2, <1>7, <2>1, <2>2 DEF Typed, TypeOK
<1>10. Locks'
  <2>1. ASSUME NEW j \in Live', stream'[j].thread # NoThread
        PROVE  stream'[j].thread \in runningThreads'
    BY <1>1, <1>2, <1>3, <1>4, <1>7, <2>1 DEF Locks
  <2>2. ASSUME NEW i \in Live', NEW j \in Live', stream'[i].thread = stream'[j].thread,
               stream'[i].thread # NoThread
        PROVE  i = j
    BY <1>1, <1>2, <1>3, <1>4, <1>8, <2>2 DEF Locks
  <2> QED
    BY <2>1, <2>2 DEF Locks
<1>11. Current'
  <2>1. ASSUME NEW j \in Live', ~stream'[j].cancelled
        PROVE  reg'.active[stream'[j].sender] = j
    <3>1. CASE j = k
      BY <1>2, <1>5, <3>1
    <3>2. CASE j # k
      <4>1. j \in Live /\ j \in Started /\ stream[j].sender # s /\ stream'[j] = stream[j]
        BY <1>2, <1>3, <1>4, <2>1, <3>2
      <4>2. stream[j].sender \in Sender
        BY <1>1, <4>1, Ids DEF Turn
      <4> QED
        BY <1>1, <1>5, <2>1, <4>1, <4>2 DEF Current
    <3> QED
      BY <3>1, <3>2
  <2> QED
    BY <2>1 DEF Current
<1>12. Served(s)'
  <2>1. CASE kind = "resume"
    BY <1>2, <1>4, <1>5, <2>1 DEF Served
  <2>2. CASE kind = "turn"
    <3>1. reg'.session[k] = Fresh(t, s, k)
      BY <2>2 DEF Joins
    <3>2. /\ reg'.session[k].streamState = k /\ reg'.session[k].threadId = t
          /\ reg'.session[k].senderIds = {s} /\ reg'.session[k].steerQueue = <<>>
      BY <3>1 DEF Fresh
    <3>3. <<>> # Closed
      BY EmptySeq, ClosedAssumption
    <3>4. t # NoThread => reg'.byThread[t] = k
      BY <1>6, <2>2
    <3> QED
      BY <1>2, <1>4, <1>5, <2>2, <3>2, <3>3, <3>4 DEF Served
  <2> QED
    BY <2>1, <2>2
<1>13. ASSUME NEW z \in Sender, z # s PROVE Served(z)'
  <2>1. Served(z) /\ reg'.active[z] = reg.active[z] /\ reg'.bySender[z] = reg.bySender[z]
    BY <1>5, <1>13 DEF RegInv
  <2>2. ASSUME reg.active[z] # None
        PROVE  /\ reg.active[z] \in Live /\ reg.active[z] \in Live'
               /\ stream[reg.active[z]].sender = z
               /\ stream'[reg.active[z]] = stream[reg.active[z]]
    <3>1. reg.active[z] \in Live /\ stream[reg.active[z]].sender = z
      BY <2>1, <2>2 DEF Served
    <3> QED
      BY <1>2, <1>3, <1>4, <1>13, <3>1
  <2>3. ASSUME reg.bySender[z] # None
        PROVE  /\ reg'.session[reg.bySender[z]] = reg.session[reg.bySender[z]]
               /\ stream[reg.active[z]].thread # NoThread =>
                     reg'.byThread[stream[reg.active[z]].thread] = reg.bySender[z]
    <3>1. reg'.session[reg.bySender[z]] = reg.session[reg.bySender[z]]
      BY <1>13, <2>3 DEF Joins
    <3>2. reg.active[z] # None /\ reg.active[z] \in Live
      BY <2>1, <2>2, <2>3 DEF Served
    <3>3. ASSUME stream[reg.active[z]].thread # NoThread
          PROVE  reg'.byThread[stream[reg.active[z]].thread] = reg.bySender[z]
      <4>1. PICK u \in Thread : u = stream[reg.active[z]].thread
        BY <1>1, <1>4, <3>2, <3>3, Ids DEF Turn
      <4>2. u # t /\ reg.byThread[u] = reg.bySender[z]
        BY <1>4, <1>8, <2>1, <2>3, <3>2, <3>3, <4>1 DEF Served
      <4>3. ~(reg.bySender[s] # None /\ reg.session[reg.bySender[s]].threadId = u)
        <5>1. SUFFICES ASSUME reg.bySender[s] # None,
                              reg.session[reg.bySender[s]].threadId = u
                       PROVE  FALSE
          OBVIOUS
        <5>2. /\ reg.active[s] \in Live /\ stream[reg.active[s]].sender = s
              /\ stream[reg.active[s]].thread = u
          BY <5>1 DEF RegInv, Served
        <5>3. reg.active[s] = reg.active[z]
          BY <1>1, <3>2, <3>3, <4>1, <5>2 DEF Locks
        <5> QED
          BY <1>13, <2>2, <3>2, <5>2, <5>3
      <4> QED
        BY <1>6, <4>1, <4>2, <4>3
    <3> QED
      BY <3>1, <3>3
  <2> QED
    BY <1>2, <2>1, <2>2, <2>3 DEF Served
<1>14. ASSUME NEW u \in Thread PROVE Met(u)'
  <2>1. CASE kind = "turn" /\ u = t
    BY <1>2, <1>5, <1>6, <2>1 DEF Met
  <2>2. CASE ~(kind = "turn" /\ u = t)
    <3>1. ASSUME reg'.byThread[u] # None
          PROVE  \E z \in Sender : /\ reg'.bySender[z] = reg'.byThread[u]
                                   /\ stream'[reg'.active[z]].thread = u
      <4>1. /\ reg'.byThread[u] = reg.byThread[u]
            /\ ~(reg.bySender[s] # None /\ reg.session[reg.bySender[s]].threadId = u)
        BY <1>6, <2>2, <3>1
      <4>2. PICK z \in Sender : /\ reg.bySender[z] = reg.byThread[u]
                                /\ stream[reg.active[z]].thread = u
        BY <3>1, <4>1 DEF RegInv, Met
      <4>3. reg.active[z] \in Live /\ reg.active[z] # None
        BY <3>1, <4>1, <4>2, ActiveStream
      <4>4. z # s
        <5>1. SUFFICES ASSUME z = s PROVE FALSE
          OBVIOUS
        <5>2. reg.session[reg.bySender[s]].threadId = u
          BY <3>1, <4>1, <4>2, <5>1 DEF RegInv, Served
        <5> QED
          BY <3>1, <4>1, <4>2, <5>1, <5>2
      <4> QED
        BY <1>3, <1>4, <1>5, <4>1, <4>2, <4>3, <4>4
    <3> QED
      BY <3>1 DEF Met
  <2> QED
    BY <2>1, <2>2
<1>15. \A z \in Sender : Served(z)'
  BY <1>12, <1>13
<1> QED
  BY <1>9, <1>10, <1>11, <1>14, <1>15 DEF RegInv

\* A thread that admits a turn has no session.
LEMMA FreeThread ==
    ASSUME RegInv, NEW t \in Thread, t \notin runningThreads
    PROVE  reg.byThread[t] = None
<1>1. SUFFICES ASSUME reg.byThread[t] # None PROVE FALSE
  OBVIOUS
<1>2. PICK s \in Sender : /\ reg.bySender[s] = reg.byThread[t]
                          /\ stream[reg.active[s]].thread = t
  BY <1>1 DEF RegInv, Met
<1>3. reg.active[s] \in Live
  BY <1>1, <1>2, ActiveStream
<1> QED
  BY <1>2, <1>3, Ids DEF RegInv, Locks

\* Nobody refers to a session that has not been made.
LEMMA NextSession ==
    ASSUME RegInv, NextId \in Stream
    PROVE  \A z \in Sender : reg.bySender[z] # NextId /\ reg.active[z] # NextId
<1>1. ASSUME NEW z \in Sender PROVE reg.bySender[z] # NextId /\ reg.active[z] # NextId
  BY Ids DEF RegInv, Served
<1> QED
  BY <1>1

LEMMA StartTurnJoins ==
    ASSUME RegInv, NEW s \in Sender, NEW t \in Thread \cup {NoThread}, StartTurn(s, t)
    PROVE  /\ NextId \in Stream /\ asked' = asked
           /\ Joins(NextId, "turn", s, t, NextId)
<1>1. Typed /\ NextId \in Stream /\ asked' = asked /\ Admitted(t)
  BY DEF StartTurn, RegInv
<1>2. PICK k \in Stream : k = NextId
  BY <1>1
<1> DEFINE x == reg.bySender[s]
<1>3. PICK r \in Registry : r = Detached(reg, s)
  BY DetachedIs
<1>4. reg' = Swept(Begun(r, s, t, k))
  BY <1>2, <1>3 DEF StartTurn, Begun
<1>5. /\ r \in Registry /\ r.active = reg.active
      /\ r.bySender = [reg.bySender EXCEPT ![s] = None]
      /\ \A u \in Thread : r.byThread[u] = IF x # None /\ reg.session[x].threadId = u
                                           THEN None ELSE reg.byThread[u]
      /\ \A y \in Stream : y # x => r.session[y] = reg.session[y]
  BY <1>3, DetachedIs
<1>6. t # NoThread => t \in Thread /\ reg.byThread[t] = None /\ r.byThread[t] = None
  BY <1>1, <1>5, FreeThread DEF Admitted
<1>7. r.bySender[s] = None
  BY <1>1, <1>5, RegTypes
<1>8. PICK m : m = Begun(r, s, t, k)
  OBVIOUS
<1>9. reg' = Swept(m)
  BY <1>4, <1>8
<1>10. /\ m \in Registry
       /\ m.active = [r.active EXCEPT ![s] = k]
       /\ m.bySender = [r.bySender EXCEPT ![s] = k]
       /\ m.byThread = IF t = NoThread THEN r.byThread ELSE [r.byThread EXCEPT ![t] = k]
       /\ m.session = [r.session EXCEPT ![k] = Fresh(t, s, k)]
  <2>1. r.bySender[s] = None /\ (t # NoThread => r.byThread[t] = None)
    BY <1>6, <1>7
  <2> QED
    <3>1. Made(m, r, s, t, k)
      BY <1>8, <2>1, StartedMaps
    <3> QED
      BY <3>1 DEF Made
<1>11. /\ reg' \in Registry /\ reg'.active = m.active /\ reg'.bySender = m.bySender
       /\ reg'.byThread = m.byThread
       /\ \A z \in Sender : m.bySender[z] \in Stream =>
              reg'.session[m.bySender[z]] = m.session[m.bySender[z]]
  BY <1>9, <1>10, SweptIs
<1>12. reg'.active = [reg.active EXCEPT ![s] = k]
  BY <1>5, <1>10, <1>11
<1>13. m.bySender = [reg.bySender EXCEPT ![s] = k]
  BY <1>1, <1>5, <1>10, RegTypes
<1>14. \A u \in Thread :
          reg'.byThread[u] = IF u = t THEN k
                             ELSE IF x # None /\ reg.session[x].threadId = u
                             THEN None ELSE reg.byThread[u]
  BY <1>5, <1>10, <1>11, NoThreadAssumption DEF Registry
<1>15. reg'.session[k] = Fresh(t, s, k)
  <2>1. m.bySender[s] = k /\ m.session[k] = Fresh(t, s, k)
    BY <1>1, <1>5, <1>10, <1>13, RegTypes DEF Registry
  <2> QED
    BY <1>11, <2>1
<1>16. ASSUME NEW z \in Sender \ {s}, reg.bySender[z] # None
       PROVE  reg'.session[reg.bySender[z]] = reg.session[reg.bySender[z]]
  <2>1. m.bySender[z] = reg.bySender[z] /\ reg.bySender[z] \in Stream
    BY <1>1, <1>13, <1>16, RegTypes
  <2>2. reg.bySender[z] # x /\ reg.bySender[z] # k
    BY <1>1, <1>2, <1>16, OwnSession, NextSession
  <2>3. m.session[reg.bySender[z]] = r.session[reg.bySender[z]]
    BY <1>5, <1>10, <2>1, <2>2 DEF Registry
  <2> QED
    BY <1>5, <1>11, <2>1, <2>2, <2>3
<1>17. stream' = Append(Cancelled(Superseded(s)), New("turn", s, t, k))
  <2>1. OthersOnThread(t, s) = {}
    BY <1>6 DEF OthersOnThread
  <2>2. Superseded(s) \cup OthersOnThread(t, s) = Superseded(s)
    BY <2>1
  <2> QED
    BY <1>2, <2>2 DEF StartTurn
<1>18. runningThreads' = Locked(t)
  BY DEF StartTurn
<1>19. asked' \in [Stream -> Sender \cup {None}]
  BY <1>1 DEF Typed, TypeOK
<1>20. Joins(k, "turn", s, t, k)
  BY <1>1, <1>2, <1>11, <1>12, <1>13, <1>14, <1>15, <1>16, <1>17, <1>18, <1>19 DEF Joins
<1> QED
  BY <1>1, <1>2, <1>20

LEMMA ResumeJoins ==
    ASSUME RegInv, NEW s \in Sender, NEW j \in Stream, Resume(s, j)
    PROVE  /\ NextId \in Stream /\ j \in Started /\ asked' = [asked EXCEPT ![j] = None]
           /\ asked[j] # None
           /\ stream[j].thread \in Thread \cup {NoThread} /\ stream[j].message \in Stream
           /\ Joins(NextId, "resume", s, stream[j].thread, stream[j].message)
<1>1. /\ Typed /\ NextId \in Stream /\ j \in Started /\ asked[j] # None
      /\ asked' = [asked EXCEPT ![j] = None] /\ Admitted(stream[j].thread)
  BY DEF Resume, RegInv
<1>2. stream[j].thread \in Thread \cup {NoThread} /\ stream[j].message \in Stream
  BY <1>1, Ids DEF Turn
<1>3. PICK k \in Stream : k = NextId
  BY <1>1
<1> DEFINE x == reg.bySender[s]
           r == Detached(reg, s)
           m == [r EXCEPT !.active[s] = k]
<1>4. reg' = Swept(m)
  BY <1>3 DEF Resume
<1>5. /\ r \in Registry /\ r.active = reg.active
      /\ r.bySender = [reg.bySender EXCEPT ![s] = None]
      /\ \A u \in Thread : r.byThread[u] = IF x # None /\ reg.session[x].threadId = u
                                           THEN None ELSE reg.byThread[u]
      /\ \A y \in Stream : y # x => r.session[y] = reg.session[y]
  BY DetachedIs
<1> HIDE DEF r
<1>6. /\ m \in Registry /\ m.active = [r.active EXCEPT ![s] = k]
      /\ m.bySender = r.bySender /\ m.byThread = r.byThread /\ m.session = r.session
  BY <1>5 DEF Registry
<1> HIDE DEF m
<1>7. /\ reg' \in Registry /\ reg'.active = m.active /\ reg'.bySender = m.bySender
      /\ reg'.byThread = m.byThread
      /\ \A z \in Sender : m.bySender[z] \in Stream =>
             reg'.session[m.bySender[z]] = m.session[m.bySender[z]]
  BY <1>4, <1>6, SweptIs
<1>8. ASSUME NEW z \in Sender \ {s}, reg.bySender[z] # None
      PROVE  reg'.session[reg.bySender[z]] = reg.session[reg.bySender[z]]
  <2>1. m.bySender[z] = reg.bySender[z] /\ reg.bySender[z] \in Stream
    BY <1>1, <1>5, <1>6, <1>8, RegTypes
  <2>2. reg.bySender[z] # x
    BY <1>8, OwnSession
  <2> QED
    BY <1>5, <1>6, <1>7, <2>1, <2>2
<1>9. asked' \in [Stream -> Sender \cup {None}]
  BY <1>1 DEF Typed, TypeOK
<1>10. /\ stream' = Append(Cancelled(Superseded(s)),
                           New("resume", s, stream[j].thread, stream[j].message))
       /\ runningThreads' = Locked(stream[j].thread)
  BY DEF Resume
<1>11. Joins(k, "resume", s, stream[j].thread, stream[j].message)
  BY <1>1, <1>3, <1>5, <1>6, <1>7, <1>8, <1>9, <1>10 DEF Joins
<1> QED
  BY <1>1, <1>2, <1>3, <1>11

LEMMA JoinsSteer ==
    ASSUME RegInv, SteerInv, NEW k \in Stream, NEW kind \in {"turn", "resume"},
           NEW s \in Sender, NEW t \in Thread \cup {NoThread}, NEW message \in Stream,
           Joins(k, kind, s, t, message)
    PROVE  SteerInv'
<1>1. Typed
  BY DEF RegInv
<1>2. /\ k \notin Started /\ Started' = Started \cup {k} /\ Live' = Live \cup {k}
      /\ stream'[k].kind = kind /\ stream'[k].sender = s
      /\ stream'[k].sent = <<>> /\ stream'[k].heard = <<>>
  BY JoinsTurns, NewType
<1>3. \A j \in Started :
         /\ stream'[j].kind = stream[j].kind /\ stream'[j].sender = stream[j].sender
         /\ stream'[j].sent = stream[j].sent /\ stream'[j].heard = stream[j].heard
         /\ stream[j].sender = s /\ j \in Live => stream'[j].cancelled
         /\ stream[j].sender # s => stream'[j] = stream[j]
  BY JoinsTurns
<1>4. /\ reg'.bySender[s] = (IF kind = "turn" THEN k ELSE None)
      /\ \A z \in Sender \ {s} : reg'.bySender[z] = reg.bySender[z]
      /\ kind = "turn" => reg'.session[k] = Fresh(t, s, k)
      /\ \A z \in Sender \ {s} :
            reg.bySender[z] # None =>
                reg'.session[reg.bySender[z]] = reg.session[reg.bySender[z]]
  BY <1>1, RegTypes DEF Joins
<1>5. ASSUME NEW j \in Started PROVE Listens(j)'
  <2>1. ASSUME Listening(j)'
        PROVE  /\ Listening(j)
               /\ SteerMessages(reg', stream[j].sender) = SteerMessages(reg, stream[j].sender)
    <3>1. j \in Live /\ stream[j].sender # s /\ stream'[j] = stream[j]
      BY <1>2, <1>3, <2>1 DEF Listening
    <3>2. Listening(j)
      BY <2>1, <3>1 DEF Listening
    <3>3. stream[j].sender \in Sender \ {s} /\ reg.bySender[stream[j].sender] # None
      BY <3>1, <3>2, ListeningTurn
    <3> QED
      BY <1>4, <3>2, <3>3 DEF SteerMessages, SessionOf
  <2>2. Quiet(j)
    BY <1>3, <2>1 DEF Quiet
  <2> QED
    BY <2>2, QuietListens DEF SteerInv
<1>6. Listens(k)'
  <2>1. <<>> \in Seq(Message)
    BY EmptySeq
  <2>2. IsPrefix(<<>>, <<>>) /\ <<>> \o <<>> = <<>>
    BY <2>1, PrefixSelf
  <2>3. ASSUME kind = "turn" PROVE SteerMessages(reg', s) = <<>>
    <3>1. reg'.bySender[s] = k /\ reg'.session[k] = Fresh(t, s, k)
      BY <1>4, <2>3
    <3>2. reg'.session[k].steerQueue = <<>>
      BY <3>1 DEF Fresh
    <3> QED
      BY <3>1, <3>2 DEF SteerMessages, SessionOf
  <2> QED
    BY <1>2, <2>2, <2>3 DEF Listens
<1> QED
  BY <1>2, <1>5, <1>6 DEF SteerInv

LEMMA StopSteer ==
    ASSUME RegInv, SteerInv, NEW s \in Sender, Stop(s)
    PROVE  RegInv' /\ SteerInv'
<1>1. Typed
  BY DEF RegInv
<1>2. /\ RegInv' /\ SameLinks
      /\ reg.active[s] \in Started /\ stream' = Cancelled({reg.active[s]})
      /\ stream'[reg.active[s]].cancelled
      /\ \A x \in Stream \ {reg.bySender[s]} : reg'.session[x] = reg.session[x]
  BY StopInv
<1>3. /\ Alike
      /\ \A k \in Started : stream'[k].sent = stream[k].sent /\ stream'[k].heard = stream[k].heard
  BY <1>1, <1>2, SomeCancelled
<1>4. Started' = Started /\ Live' = Live /\ reg'.bySender = reg.bySender
  BY <1>1, <1>2, <1>3, SameTurns DEF SameLinks
<1>5. ASSUME NEW k \in Started, Listening(k)'
      PROVE  SteerMessages(reg', stream[k].sender) = SteerMessages(reg, stream[k].sender)
  <2>1. Listening(k)
    BY <1>3, <1>4, <1>5 DEF Listening, Alike
  <2>2. /\ stream[k].sender \in Sender /\ reg.active[stream[k].sender] = k
        /\ reg.bySender[stream[k].sender] # None
    BY <2>1, ListeningTurn
  <2>3. stream[k].sender # s
    BY <1>2, <1>5, <2>2 DEF Listening
  <2>4. reg.bySender[stream[k].sender] \in Stream \ {reg.bySender[s]}
    BY <2>2, <2>3, OwnSession, ActiveStream
  <2> QED
    BY <1>2, <1>4, <2>4 DEF SteerMessages, SessionOf
<1>6. SteerInv'
  BY <1>3, <1>5, QuietInv
<1> QED
  BY <1>2, <1>6

\* Steps that only cancel turns, or change the approvals, do not touch a queue.
LEMMA SameSteer ==
    ASSUME RegInv, SteerInv, reg' = reg, Alike,
           \A k \in Started : stream'[k].heard = stream[k].heard /\ stream'[k].sent = stream[k].sent
    PROVE  SteerInv'
BY QuietInv

-----------------------------------------------------------------------------
(* A turn ends.                                                             *)

\* It lets go of what its sender streams, if that is the turn itself.
LetsGo(g, k) ==
    LET s == stream[k].sender
        mine == reg.active[s] = k
    IN /\ g \in Registry
       /\ g.active = IF mine THEN [reg.active EXCEPT ![s] = None] ELSE reg.active
       /\ g.bySender = IF mine THEN [reg.bySender EXCEPT ![s] = None] ELSE reg.bySender
       /\ \A u \in Thread : g.byThread[u] = IF mine /\ stream[k].kind = "turn"
                                                    /\ stream[k].thread = u
                                            THEN None ELSE reg.byThread[u]
       /\ \A x \in Stream : ~(mine /\ x = reg.bySender[s]) => g.session[x] = reg.session[x]

LEMMA LetGoIs ==
    ASSUME RegInv, NEW k \in Live, NEW g, g = LetGo(reg, stream[k].sender, k)
    PROVE  LetsGo(g, k)
<1>1. /\ Typed /\ k \in Started /\ k # None /\ stream[k] \in Turn /\ reg \in Registry
  BY Ids DEF RegInv, Typed, TypeOK
<1>2. PICK s \in Sender : s = stream[k].sender
  BY <1>1 DEF Turn
<1>3. PICK t \in Thread \cup {NoThread} : t = stream[k].thread
  BY <1>1 DEF Turn
<1>4. Served(s)
  BY DEF RegInv
<1>5. CASE reg.active[s] # k
  <2>1. g = reg
    <3>1. CASE stream[k].kind = "resume"
      BY <1>1, <1>2, <1>5, <3>1 DEF LetGo, Registry
    <3>2. CASE stream[k].kind # "resume"
      BY <1>2, <1>5, <3>2 DEF LetGo, Unregistered
    <3> QED
      BY <3>1, <3>2
  <2> QED
    BY <1>1, <1>2, <1>5, <2>1 DEF LetsGo
<1>6. CASE reg.active[s] = k /\ stream[k].kind = "resume"
  <2>1. reg.bySender[s] = None
    BY <1>4, <1>6 DEF Served
  <2> DEFINE a == [reg.active EXCEPT ![s] = None]
  <2>2. g = [reg EXCEPT !.active = a]
    BY <1>1, <1>2, <1>6 DEF LetGo, Registry
  <2>3. a \in [Sender -> Stream \cup {None}]
    BY <1>1, RegTypes
  <2> HIDE DEF a
  <2>4. /\ g \in Registry /\ g.active = a /\ g.bySender = reg.bySender
        /\ g.byThread = reg.byThread /\ g.session = reg.session
    BY <1>1, <2>2, <2>3 DEF Registry
  <2>5. [reg.bySender EXCEPT ![s] = None] = reg.bySender
    BY <1>1, <2>1, RegTypes
  <2> QED
    BY <1>2, <1>6, <2>4, <2>5 DEF LetsGo, a
<1>7. CASE reg.active[s] = k /\ stream[k].kind = "turn"
  <2>1. PICK x \in Stream : x = reg.bySender[s]
    BY <1>1, <1>4, <1>7, RegTypes DEF Served
  <2>2. /\ x # None /\ reg.session[x].threadId = t /\ reg.session[x].senderIds = {s}
        /\ reg.session[x].streamState = k
        /\ t # NoThread => t \in Thread /\ reg.byThread[t] = x
        /\ reg.session[x] \in ThreadSession
    BY <1>1, <1>3, <1>4, <1>7, <2>1, RegTypes, Ids DEF Served
  <2> DEFINE a == [reg.active EXCEPT ![s] = None]
             b == [reg.bySender EXCEPT ![s] = None]
  <2>3. a \in [Sender -> Stream \cup {None}] /\ b \in [Sender -> Stream \cup {None}]
    BY <1>1, RegTypes
  <2>4. CASE t = NoThread
    <3> DEFINE o == reg.session[x]
               c == [o EXCEPT !.streamState = IF o.streamState = k THEN None ELSE o.streamState,
                              !.steerQueue = Closed]
               n == [c EXCEPT !.senderIds = o.senderIds \ {s}]
               f == [reg.session EXCEPT ![x] = n]
    <3>1. g = [reg EXCEPT !.active = a, !.bySender = b, !.session = f]
      BY <1>1, <1>2, <1>3, <1>7, <2>1, <2>2, <2>4 DEF LetGo, Unregistered, Registry
    <3>2. f \in [Stream -> ThreadSession]
      <4>1. o \in ThreadSession
        BY <2>2
      <4> DEFINE d == [o EXCEPT !.streamState = IF o.streamState = k THEN None ELSE o.streamState]
      <4>2. d \in ThreadSession
        BY <4>1 DEF ThreadSession
      <4>3. c = [d EXCEPT !.steerQueue = Closed]
        BY <4>1 DEF ThreadSession
      <4>4. c \in ThreadSession
        BY <4>2, <4>3 DEF ThreadSession
      <4>5. o.senderIds \ {s} \in SUBSET Sender
        BY <2>2
      <4> HIDE DEF c, o
      <4>6. n \in ThreadSession
        BY <4>4, <4>5 DEF ThreadSession
      <4> QED
        BY <1>1, <4>6, RegTypes
    <3>3. \A y \in Stream : y = x \/ f[y] = reg.session[y]
      BY <1>1, RegTypes
    <3> HIDE DEF f, a, b
    <3>4. /\ g.active = a /\ g.bySender = b /\ g.byThread = reg.byThread /\ g.session = f
      BY <1>1, <3>1 DEF Registry
    <3>5. g \in Registry
      BY <1>1, <2>3, <3>1, <3>2, RegTypes DEF Registry
    <3>6. \A u \in Thread : u # t
      BY <2>4, NoThreadAssumption
    <3> QED
      BY <1>2, <1>3, <1>7, <2>1, <3>3, <3>4, <3>5, <3>6 DEF LetsGo, a, b
  <2>5. CASE t # NoThread
    <3> DEFINE h == [reg.byThread EXCEPT ![t] = None]
               n == [reg.session[x] EXCEPT !.senderIds = {}]
               f == [reg.session EXCEPT ![x] = n]
               q == [reg EXCEPT !.session = f, !.bySender = b, !.byThread = h]
    <3>1. Untracked(reg, t, s) = q
      <4>1. reg.session[x].senderIds \ {s} = {} /\ s \in reg.session[x].senderIds
        BY <2>2
      <4> QED
        BY <1>1, <2>1, <2>2, <2>5, <4>1 DEF Untracked, Registry
    <3>2. /\ h \in [Thread -> Stream \cup {None}] /\ f \in [Stream -> ThreadSession]
      <4>1. n \in ThreadSession
        BY <2>2 DEF ThreadSession
      <4> QED
        BY <1>1, <2>2, <2>5, <4>1, RegTypes
    <3>3. \A y \in Stream : y = x \/ f[y] = reg.session[y]
      BY <1>1, RegTypes
    <3>4. \A u \in Thread : h[u] = IF u = t THEN None ELSE reg.byThread[u]
      BY <1>1, RegTypes
    <3>5. b[s] = None
      BY <1>1, RegTypes
    <3> HIDE DEF f, h, n, b
    <3>6. /\ q \in Registry /\ q.active = reg.active /\ q.bySender = b /\ q.byThread = h
          /\ q.session = f
      BY <1>1, <2>3, <3>2, RegTypes DEF Registry
    <3> HIDE DEF q
    <3>7. g = Unregistered(q, s, k)
      BY <1>2, <1>3, <1>7, <2>5, <3>1 DEF LetGo
    <3>8. g = [q EXCEPT !.active = a]
      BY <1>7, <3>5, <3>6, <3>7 DEF Unregistered, Registry
    <3> HIDE DEF a
    <3>9. /\ g \in Registry /\ g.active = a /\ g.bySender = b /\ g.byThread = h /\ g.session = f
      BY <2>3, <3>6, <3>8 DEF Registry
    <3> QED
      BY <1>2, <1>3, <1>7, <2>1, <3>3, <3>4, <3>9 DEF LetsGo, a, b
  <2> QED
    BY <2>4, <2>5
<1> QED
  BY <1>1, <1>5, <1>6, <1>7 DEF Turn

LEMMA EndTurns ==
    ASSUME Typed, NEW k \in Live, End(k)
    PROVE  /\ stream' \in Seq(Turn) /\ Len(stream') = Len(stream)
           /\ Started' = Started /\ Live' = Live \ {k}
           /\ stream'[k].phase = "ended"
           /\ \A j \in Started \ {k} : stream'[j] = stream[j]
           /\ stream'[k].message = stream[k].message /\ stream'[k].thread = stream[k].thread
           /\ stream'[k].blocked = stream[k].blocked
           /\ stream'[k].heard = stream[k].heard /\ stream'[k].sent = stream[k].sent
<1> DEFINE c == [stream[k] EXCEPT !.phase = "ended", !.steered = FALSE, !.aborted = FALSE]
<1>1. stream' = [stream EXCEPT ![k] = c] /\ k \in Started /\ Started = DOMAIN stream
  BY Ids DEF End, Started
<1>2. /\ c \in Turn /\ c.phase = "ended" /\ c.message = stream[k].message
      /\ c.thread = stream[k].thread /\ c.blocked = stream[k].blocked
      /\ c.heard = stream[k].heard /\ c.sent = stream[k].sent
  <2> DEFINE d == [stream[k] EXCEPT !.phase = "ended"]
             e == [d EXCEPT !.steered = FALSE]
  <2>1. stream[k] \in Turn
    BY <1>1, Ids
  <2>2. d \in Turn
    BY <2>1 DEF Turn
  <2>3. e \in Turn
    BY <2>2 DEF Turn
  <2>4. c = [e EXCEPT !.aborted = FALSE]
    BY <2>1 DEF Turn
  <2>5. c \in Turn
    BY <2>3, <2>4 DEF Turn
  <2> QED
    BY <2>1, <2>5 DEF Turn
<1> HIDE DEF c
<1>3. /\ DOMAIN stream' = Started /\ stream' = [j \in Started |-> stream'[j]]
      /\ stream'[k] = c /\ \A j \in Started \ {k} : stream'[j] = stream[j]
  BY <1>1
<1>4. \A j \in Started : stream'[j] \in Turn
  BY <1>2, <1>3, Ids
<1>5. stream' \in Seq(Turn) /\ Len(stream') = Len(stream)
  BY <1>3, <1>4, Turns
<1>6. Started' = Started
  BY <1>3 DEF Started
<1>7. Live' = Live \ {k}
  BY <1>2, <1>3, <1>6 DEF Live
<1> QED
  BY <1>2, <1>3, <1>5, <1>6, <1>7

\* What the other senders have stays as it is.
LEMMA EndMaps ==
    ASSUME RegInv, NEW k \in Live, End(k), NEW s \in Sender, s = stream[k].sender
    PROVE  /\ reg' \in Registry
           /\ reg.active[s] = k => reg'.active[s] = None /\ reg'.bySender[s] = None
           /\ \A z \in Sender :
                 \/ z = s /\ reg.active[s] = k
                 \/ /\ reg'.active[z] = reg.active[z] /\ reg.active[z] # k
                    /\ reg'.bySender[z] = reg.bySender[z]
                    /\ reg.bySender[z] # None =>
                          reg'.session[reg.bySender[z]] = reg.session[reg.bySender[z]]
           /\ \A u \in Thread :
                 reg'.byThread[u] = IF /\ reg.active[s] = k /\ stream[k].kind = "turn"
                                       /\ stream[k].thread = u
                                    THEN None ELSE reg.byThread[u]
<1>1. Typed /\ k # None
  BY Ids DEF RegInv
<1>2. PICK g : g = LetGo(reg, stream[k].sender, k)
  OBVIOUS
<1>3. reg' = Swept(g)
  BY <1>2 DEF End
<1>4. LetsGo(g, k)
  BY <1>2, LetGoIs
<1>5. /\ g \in Registry
      /\ g.active = IF reg.active[s] = k THEN [reg.active EXCEPT ![s] = None] ELSE reg.active
      /\ g.bySender = IF reg.active[s] = k THEN [reg.bySender EXCEPT ![s] = None]
                      ELSE reg.bySender
      /\ \A u \in Thread :
            g.byThread[u] = IF /\ reg.active[s] = k /\ stream[k].kind = "turn"
                               /\ stream[k].thread = u
                            THEN None ELSE reg.byThread[u]
      /\ \A x \in Stream :
            ~(reg.active[s] = k /\ x = reg.bySender[s]) => g.session[x] = reg.session[x]
  BY <1>4 DEF LetsGo
<1>6. /\ reg' \in Registry /\ reg'.active = g.active /\ reg'.bySender = g.bySender
      /\ reg'.byThread = g.byThread
      /\ \A z \in Sender : g.bySender[z] \in Stream =>
             reg'.session[g.bySender[z]] = g.session[g.bySender[z]]
  BY <1>3, <1>5, SweptIs
<1>7. reg.active[s] = k => reg'.active[s] = None /\ reg'.bySender[s] = None
  BY <1>1, <1>5, <1>6, RegTypes
<1>8. ASSUME NEW z \in Sender, ~(z = s /\ reg.active[s] = k)
      PROVE  /\ reg'.active[z] = reg.active[z] /\ reg.active[z] # k
             /\ reg'.bySender[z] = reg.bySender[z]
             /\ reg.bySender[z] # None =>
                   reg'.session[reg.bySender[z]] = reg.session[reg.bySender[z]]
  <2>1. reg.active[z] # k
    BY <1>1, <1>8 DEF RegInv, Served
  <2>2. reg'.active[z] = reg.active[z] /\ reg'.bySender[z] = reg.bySender[z]
    <3>1. reg.active \in [Sender -> Stream \cup {None}]
          /\ reg.bySender \in [Sender -> Stream \cup {None}]
      BY <1>1, RegTypes
    <3>2. g.active[z] = reg.active[z]
      BY <1>5, <1>8, <3>1
    <3>3. g.bySender[z] = reg.bySender[z]
      BY <1>5, <1>8, <3>1
    <3> QED
      BY <1>6, <3>2, <3>3
  <2>3. ASSUME reg.bySender[z] # None
        PROVE  reg'.session[reg.bySender[z]] = reg.session[reg.bySender[z]]
    <3>1. reg.bySender[z] \in Stream
      BY <1>1, <2>3, RegTypes
    <3>2. ~(reg.active[s] = k /\ reg.bySender[z] = reg.bySender[s])
      BY <1>8, <2>3, OwnSession
    <3>3. g.bySender[z] = reg.bySender[z]
      BY <1>6, <2>2
    <3> QED
      BY <1>5, <1>6, <3>1, <3>2, <3>3, ZenonT(60)
  <2> QED
    BY <2>1, <2>2, <2>3
<1> QED
  BY <1>5, <1>6, <1>7, <1>8, ZenonT(60)

LEMMA EndInv ==
    ASSUME RegInv, SteerInv, NEW k \in Live, End(k)
    PROVE  RegInv' /\ SteerInv'
<1>1. /\ Typed /\ Locks /\ Current /\ k \in Started /\ k # None /\ Live \subseteq Started
      /\ None \notin Started
  BY Ids DEF RegInv
<1>2. PICK s \in Sender : s = stream[k].sender
  BY <1>1, Ids DEF Turn
<1>3. /\ stream' \in Seq(Turn) /\ Len(stream') = Len(stream)
      /\ Started' = Started /\ Live' = Live \ {k}
      /\ \A j \in Started \ {k} : stream'[j] = stream[j]
      /\ stream'[k].heard = stream[k].heard /\ stream'[k].sent = stream[k].sent
  BY <1>1, EndTurns
<1>4. /\ reg' \in Registry
      /\ reg.active[s] = k => reg'.active[s] = None /\ reg'.bySender[s] = None
      /\ \A z \in Sender :
            \/ z = s /\ reg.active[s] = k
            \/ /\ reg'.active[z] = reg.active[z] /\ reg.active[z] # k
               /\ reg'.bySender[z] = reg.bySender[z]
               /\ reg.bySender[z] # None =>
                     reg'.session[reg.bySender[z]] = reg.session[reg.bySender[z]]
      /\ \A u \in Thread :
            reg'.byThread[u] = IF /\ reg.active[s] = k /\ stream[k].kind = "turn"
                                  /\ stream[k].thread = u
                               THEN None ELSE reg.byThread[u]
  BY <1>2, EndMaps
<1>5. runningThreads' = runningThreads \ {stream[k].thread}
  BY DEF End
<1>6. Typed'
  <2>1. asked' \in [Stream -> Sender \cup {None}]
    BY <1>1 DEF End, CleanedUp, Typed, TypeOK
  <2>2. \A j \in Started' : stream'[j] \in Turn
    BY <1>3, ElementOfSeq DEF Started
  <2> QED
    BY <1>1, <1>3, <1>4, <1>5, <2>1, <2>2 DEF Typed, TypeOK
<1>7. Locks'
  BY <1>1, <1>3, <1>5 DEF Locks
<1>8. Current'
  <2>1. ASSUME NEW j \in Live', ~stream'[j].cancelled
        PROVE  reg'.active[stream'[j].sender] = j
    <3>1. j \in Live /\ j # k /\ stream'[j] = stream[j] /\ stream[j].sender \in Sender
      BY <1>1, <1>3, Ids DEF Turn
    <3>2. reg.active[stream[j].sender] = j
      BY <1>1, <2>1, <3>1 DEF Current
    <3> QED
      BY <1>4, <3>1, <3>2
  <2> QED
    BY <2>1 DEF Current
<1>9. ASSUME NEW z \in Sender PROVE Served(z)'
  <2>1. CASE z = s /\ reg.active[s] = k
    BY <1>4, <2>1 DEF Served
  <2>2. CASE ~(z = s /\ reg.active[s] = k)
    <3>1. /\ reg'.active[z] = reg.active[z] /\ reg.active[z] # k
          /\ reg'.bySender[z] = reg.bySender[z]
          /\ reg.bySender[z] # None =>
                reg'.session[reg.bySender[z]] = reg.session[reg.bySender[z]]
      BY <1>4, <2>2
    <3>2. Served(z)
      BY DEF RegInv
    <3>3. ASSUME reg.active[z] # None
          PROVE  reg.active[z] \in Live' /\ stream'[reg.active[z]] = stream[reg.active[z]]
      BY <1>1, <1>3, <3>1, <3>2, <3>3 DEF Served
    <3>4. ASSUME reg.bySender[z] # None, stream[reg.active[z]].thread # NoThread
          PROVE  reg'.byThread[stream[reg.active[z]].thread] = reg.bySender[z]
      <4>1. reg.active[z] \in Live /\ reg.active[z] # k
            /\ reg.byThread[stream[reg.active[z]].thread] = reg.bySender[z]
        BY <3>1, <3>2, <3>4 DEF Served
      <4>2. stream[reg.active[z]].thread \in Thread
        BY <1>1, <3>4, <4>1, Ids DEF Turn
      <4>3. stream[reg.active[z]].thread # stream[k].thread
        BY <1>1, <3>4, <4>1 DEF Locks
      <4> QED
        BY <1>4, <4>1, <4>2, <4>3
    <3> QED
      BY <1>3, <3>1, <3>2, <3>3, <3>4 DEF Served
  <2> QED
    BY <2>1, <2>2
<1>10. ASSUME NEW u \in Thread PROVE Met(u)'
  <2>1. ASSUME reg'.byThread[u] # None
        PROVE  \E z \in Sender : /\ reg'.bySender[z] = reg'.byThread[u]
                                 /\ stream'[reg'.active[z]].thread = u
    <3>1. /\ reg'.byThread[u] = reg.byThread[u]
          /\ ~(reg.active[s] = k /\ stream[k].kind = "turn" /\ stream[k].thread = u)
      BY <1>4, <2>1
    <3>2. PICK z \in Sender : /\ reg.bySender[z] = reg.byThread[u]
                              /\ stream[reg.active[z]].thread = u
      BY <2>1, <3>1 DEF RegInv, Met
    <3>3. /\ reg.active[z] \in Started /\ stream[reg.active[z]].kind = "turn"
      BY <2>1, <3>1, <3>2, ActiveStream
    <3>4. ~(z = s /\ reg.active[s] = k)
      BY <3>1, <3>2, <3>3
    <3> QED
      BY <1>3, <1>4, <3>1, <3>2, <3>3, <3>4
  <2> QED
    BY <2>1 DEF Met
<1>11. RegInv'
  BY <1>6, <1>7, <1>8, <1>9, <1>10 DEF RegInv
<1>12. ASSUME NEW j \in Started PROVE Listens(j)'
  <2>1. ASSUME Listening(j)'
        PROVE  /\ Listening(j)
               /\ stream'[j].sender = stream[j].sender
               /\ SteerMessages(reg', stream[j].sender) = SteerMessages(reg, stream[j].sender)
    <3>1. j # k /\ stream'[j] = stream[j] /\ Listening(j)
      BY <1>3, <2>1 DEF Listening
    <3>2. /\ stream[j].sender \in Sender /\ reg.active[stream[j].sender] = j
          /\ reg.bySender[stream[j].sender] # None
      BY <3>1, ListeningTurn
    <3>3. ~(stream[j].sender = s /\ reg.active[s] = k)
      BY <3>1, <3>2
    <3> QED
      BY <1>4, <3>1, <3>2, <3>3 DEF SteerMessages, SessionOf
  <2>2. Quiet(j)
    BY <1>3, <2>1 DEF Quiet
  <2> QED
    BY <2>2, QuietListens DEF SteerInv
<1>13. SteerInv'
  BY <1>3, <1>12 DEF SteerInv
<1> QED
  BY <1>11, <1>13

-----------------------------------------------------------------------------
(* The approvals that blocked turns wait for.                               *)

\* What takes them away: an answer that resumes the turn, or a cancellation.
Answered ==
    \A k \in Started :
        asked[k] # None /\ asked'[k] = None
           => \/ CancelRun(k)
              \/ Len(stream') = NextId /\ stream'[NextId].message = stream[k].message

\* Nobody starts to write a message, and nobody is asked for approvals.
LEMMA AskKept ==
    ASSUME Typed, AskInv, Started' = Started, Live' \subseteq Live,
           \A k \in Started :
              /\ stream'[k].message = stream[k].message /\ stream'[k].thread = stream[k].thread
              /\ stream'[k].blocked = stream[k].blocked
              /\ stream'[k].phase = stream[k].phase \/ stream'[k].phase \in {"closing", "ended"},
           \A k \in Stream : asked'[k] # None => asked[k] # None
    PROVE  AskInv'
<1>1. Started \subseteq Stream
  BY Ids
<1>2. \A k \in Started : stream'[k].message \in 1..k
  BY DEF AskInv
<1>3. ASSUME NEW k \in Stream, asked'[k] # None
      PROVE  /\ k \in Started /\ stream'[k].blocked /\ stream'[k].thread # NoThread
             /\ stream'[k].phase \in {"closing", "ended"}
  BY <1>3 DEF AskInv
<1>4. \A k \in Started : Writes(k)' => Writes(k)
  BY <1>1 DEF Writes
<1>5. \A j, k \in Started :
         Writes(j)' /\ Writes(k)' /\ stream'[j].message = stream'[k].message => j = k
  BY <1>4 DEF AskInv
<1> QED
  BY <1>2, <1>3, <1>5 DEF AskInv

\* A turn goes on to another phase: it may be that it starts to wait.
LEMMA PhaseStep ==
    ASSUME IInv, NEW k \in Started, NEW p \in {"working", "closing"}, NEW b \in BOOLEAN,
           stream[k].phase \in {"preparing", "working"}, p = "working" => b = stream[k].blocked,
           stream' = [stream EXCEPT ![k] = [stream[k] EXCEPT !.phase = p, !.blocked = b]],
           UNCHANGED <<runningThreads, reg>>,
           \/ asked' = asked /\ b = stream[k].blocked
           \/ /\ b /\ p = "closing" /\ stream[k].thread # NoThread
              /\ asked' = [asked EXCEPT ![k] = stream[k].sender]
    PROVE  IInv' /\ Answered
<1>1. Typed /\ RegInv /\ SteerInv /\ AskInv /\ stream[k] \in Turn /\ k \in Stream
      /\ Started \subseteq Stream
  BY Ids DEF IInv, RegInv
<1>2. stream[k].sender \in Sender /\ stream[k].sender # None /\ k \in Live
  BY <1>1, Ids DEF Turn, Live
<1>3. asked' \in [Stream -> Sender \cup {None}]
  BY <1>1, <1>2 DEF Typed, TypeOK
<1>4. RegInv' /\ Alike
  BY <1>1, <1>2, <1>3, PhaseInv DEF Live
<1>5. Started' = Started /\ Live' = Live
  BY <1>1, <1>4, SameTurns
<1>6. /\ stream'[k].phase = p /\ stream'[k].blocked = b
      /\ stream'[k].heard = stream[k].heard /\ stream'[k].sent = stream[k].sent
      /\ \A j \in Started \ {k} : stream'[j] = stream[j]
  BY <1>1 DEF Started, Turn
<1>7. SteerInv'
  BY <1>1, <1>4, <1>6, SameSteer
<1>8. AskInv'
  <2>1. CASE asked' = asked /\ b = stream[k].blocked
    <3>1. asked[k] = None
      BY <1>1 DEF AskInv
    <3>2. \A j \in Started : stream'[j].message = stream[j].message
      BY <1>4 DEF Alike
    <3>3. ASSUME NEW j \in Stream, asked'[j] # None
          PROVE  /\ j \in Started /\ stream'[j].blocked /\ stream'[j].thread # NoThread
                 /\ stream'[j].phase \in {"closing", "ended"}
      BY <1>1, <1>6, <2>1, <3>1, <3>3 DEF AskInv
    <3>4. \A j \in Started : Writes(j)' => Writes(j)
      BY <1>5, <2>1 DEF Writes
    <3> QED
      BY <1>1, <1>5, <3>2, <3>3, <3>4 DEF AskInv
  <2>2. CASE /\ b /\ p = "closing" /\ stream[k].thread # NoThread
             /\ asked' = [asked EXCEPT ![k] = stream[k].sender]
    <3>1. \A j \in Stream \ {k} : asked'[j] = asked[j]
      BY <1>1, <2>2 DEF Typed, TypeOK
    <3>2. \A j \in Started : stream'[j].message = stream[j].message
      BY <1>4 DEF Alike
    <3>3. ASSUME NEW j \in Stream, asked'[j] # None
          PROVE  /\ j \in Started /\ stream'[j].blocked /\ stream'[j].thread # NoThread
                 /\ stream'[j].phase \in {"closing", "ended"}
      <4>1. CASE j = k
        BY <1>4, <1>6, <2>2, <4>1 DEF Alike
      <4>2. CASE j # k
        BY <1>1, <1>6, <3>1, <3>3, <4>2 DEF AskInv
      <4> QED
        BY <4>1, <4>2
    <3>4. \A j \in Started : Writes(j)' => Writes(j)
      BY <1>1, <1>2, <1>5, <3>1 DEF Writes
    <3> QED
      BY <1>1, <1>5, <3>2, <3>3, <3>4 DEF AskInv
  <2> QED
    BY <2>1, <2>2
<1>9. \A j \in Stream : asked'[j] = None => asked[j] = None
  BY <1>1, <1>2 DEF Typed, TypeOK
<1> QED
  BY <1>1, <1>4, <1>7, <1>8, <1>9 DEF IInv, Answered

\* The end of a turn takes no approvals away but its own, and it has none then.
LEMMA EndStep ==
    ASSUME IInv, NEW k \in Live, End(k)
    PROVE  IInv' /\ Answered
<1>1. Typed /\ RegInv /\ SteerInv /\ AskInv /\ k \in Started /\ Started \subseteq Stream
  BY Ids DEF IInv, RegInv
<1>2. /\ stream' \in Seq(Turn) /\ Len(stream') = Len(stream)
      /\ Started' = Started /\ Live' = Live \ {k}
      /\ stream'[k].phase = "ended"
      /\ \A j \in Started \ {k} : stream'[j] = stream[j]
      /\ stream'[k].message = stream[k].message /\ stream'[k].thread = stream[k].thread
      /\ stream'[k].blocked = stream[k].blocked
  BY <1>1, EndTurns
<1>3. ASSUME NEW j \in Stream PROVE asked'[j] = asked[j]
  <2>1. CASE reg.active[stream[k].sender] = k /\ ~stream[k].blocked
    <3>1. asked'[j] = IF /\ j \in Started
                         /\ asked[j] = stream[k].sender
                         /\ stream[j].message = stream[k].message
                      THEN None ELSE asked[j]
      BY <2>1 DEF End, CleanedUp
    <3>2. ASSUME j \in Started, asked[j] # None, stream[j].message = stream[k].message
          PROVE  FALSE
      <4>1. Writes(j) /\ Writes(k)
        BY <3>2 DEF Writes
      <4>2. j = k
        BY <1>1, <3>2, <4>1 DEF AskInv
      <4> QED
        BY <1>1, <2>1, <3>2, <4>2 DEF AskInv
    <3> QED
      BY <3>1, <3>2
  <2>2. CASE ~(reg.active[stream[k].sender] = k /\ ~stream[k].blocked)
    BY <2>2 DEF End
  <2> QED
    BY <2>1, <2>2
<1>4. RegInv' /\ SteerInv'
  BY <1>1, EndInv
<1>5. AskInv'
  BY <1>1, <1>2, <1>3, AskKept
<1> QED
  BY <1>1, <1>3, <1>4, <1>5 DEF IInv, Answered

LEMMA LeaveStep ==
    ASSUME IInv, NEW k \in Started, stream[k].phase \in {"preparing", "working"}, Leave(k)
    PROVE  IInv' /\ Answered
<1>1. k \in Live /\ stream[k] \in Turn
  BY Ids DEF Live, IInv, RegInv
<1>2. CASE End(k)
  BY <1>1, <1>2, EndStep
<1>3. CASE /\ stream' = [stream EXCEPT ![k] = [@ EXCEPT !.phase = "closing"]]
           /\ UNCHANGED <<runningThreads, reg, asked>>
  <2>1. [stream[k] EXCEPT !.phase = "closing"]
          = [stream[k] EXCEPT !.phase = "closing", !.blocked = stream[k].blocked]
    BY <1>1 DEF Turn
  <2>2. stream[k].blocked \in BOOLEAN
    BY <1>1 DEF Turn
  <2>3. stream' = [stream EXCEPT ![k] =
                     [stream[k] EXCEPT !.phase = "closing", !.blocked = stream[k].blocked]]
    BY <1>3, <2>1
  <2> QED
    BY <1>3, <2>2, <2>3, PhaseStep
<1> QED
  BY <1>2, <1>3 DEF Leave

LEMMA PreparedStep ==
    ASSUME IInv, NEW k \in Stream, Prepared(k)
    PROVE  IInv' /\ Answered
<1>1. k \in Started /\ stream[k] \in Turn /\ stream[k].phase = "preparing"
  BY Ids DEF Prepared, In, IInv, RegInv
<1>2. [stream[k] EXCEPT !.phase = "working"]
        = [stream[k] EXCEPT !.phase = "working", !.blocked = stream[k].blocked]
  BY <1>1 DEF Turn
<1>3. stream[k].blocked \in BOOLEAN
  BY <1>1 DEF Turn
<1>4. /\ stream' = [stream EXCEPT ![k] =
                      [stream[k] EXCEPT !.phase = "working", !.blocked = stream[k].blocked]]
      /\ UNCHANGED <<runningThreads, reg, asked>>
  BY <1>2 DEF Prepared
<1> QED
  BY <1>1, <1>3, <1>4, PhaseStep

LEMMA BlockStep ==
    ASSUME IInv, NEW k \in Stream, Block(k)
    PROVE  IInv' /\ Answered
<1>1. k \in Started /\ stream[k] \in Turn /\ stream[k].phase = "working"
  BY Ids DEF Block, In, IInv, RegInv
<1>2. /\ stream' = [stream EXCEPT ![k] =
                      [stream[k] EXCEPT !.phase = "closing", !.blocked = TRUE]]
      /\ UNCHANGED <<runningThreads, reg>> /\ stream[k].thread # NoThread
      /\ asked' = [asked EXCEPT ![k] = stream[k].sender]
  BY DEF Block
<1> QED
  BY <1>1, <1>2, PhaseStep

\* The steps that neither start nor end a turn, and ask nobody.
LEMMA QuietStep ==
    ASSUME IInv, RegInv', SteerInv', Alike,
           \A k \in Started : stream'[k].phase = stream[k].phase
                              /\ stream'[k].blocked = stream[k].blocked,
           \A k \in Stream : asked'[k] # None => asked[k] # None
    PROVE  IInv'
<1>1. Typed /\ AskInv
  BY DEF IInv, RegInv
<1>2. Started' = Started /\ Live' = Live
  BY <1>1, SameTurns
<1>3. \A k \in Started : stream'[k].message = stream[k].message
                         /\ stream'[k].thread = stream[k].thread
  BY DEF Alike
<1>4. AskInv'
  BY <1>1, <1>2, <1>3, AskKept
<1> QED
  BY <1>4 DEF IInv

LEMMA SameAsked ==
    ASSUME Typed, \A k \in Stream : asked[k] # None => asked'[k] # None
    PROVE  Answered
BY Ids DEF Answered

-----------------------------------------------------------------------------
(* The steps.                                                               *)

LEMMA StartTurnStep ==
    ASSUME IInv, NEW s \in Sender, NEW t \in Thread \cup {NoThread}, StartTurn(s, t)
    PROVE  IInv' /\ Answered
<1>1. Typed /\ RegInv /\ SteerInv /\ AskInv /\ Started \subseteq Stream
  BY Ids DEF IInv, RegInv
<1>2. PICK k \in Stream : k = NextId
  BY <1>1, StartTurnJoins
<1>3. Joins(k, "turn", s, t, k) /\ asked' = asked
  BY <1>1, <1>2, StartTurnJoins
<1>4. RegInv' /\ SteerInv'
  BY <1>1, <1>3, JoinsInv, JoinsSteer
<1>5. /\ k \notin Started /\ Started' = Started \cup {k} /\ Live' = Live \cup {k}
      /\ stream'[k].message = k
      /\ \A j \in Started :
            /\ stream'[j].message = stream[j].message /\ stream'[j].thread = stream[j].thread
            /\ stream'[j].phase = stream[j].phase /\ stream'[j].blocked = stream[j].blocked
  BY <1>1, <1>3, JoinsTurns, NewType
<1>6. \A j \in Started : stream[j].message \in 1..j /\ j < k /\ j \in Nat
  BY <1>1, <1>2, Ids DEF NextId, AskInv
<1>7. asked[k] = None
  BY <1>1, <1>5 DEF AskInv
<1>8. AskInv'
  <2>1. \A j \in Started' : stream'[j].message \in 1..j
    BY <1>5, <1>6 DEF Stream
  <2>2. ASSUME NEW j \in Stream, asked'[j] # None
        PROVE  /\ j \in Started' /\ stream'[j].blocked /\ stream'[j].thread # NoThread
               /\ stream'[j].phase \in {"closing", "ended"}
    BY <1>1, <1>3, <1>5, <2>2 DEF AskInv
  <2>3. \A j \in Started : stream'[j].message # k /\ (Writes(j)' => Writes(j))
    BY <1>3, <1>5, <1>6 DEF Writes
  <2>4. ASSUME NEW i \in Started', NEW j \in Started', Writes(i)', Writes(j)',
               stream'[i].message = stream'[j].message
        PROVE  i = j
    BY <1>1, <1>5, <2>3, <2>4 DEF AskInv
  <2> QED
    BY <2>1, <2>2, <2>4 DEF AskInv
<1>9. Answered
  BY <1>1, <1>3, SameAsked
<1> QED
  BY <1>4, <1>8, <1>9 DEF IInv

LEMMA ResumeStep ==
    ASSUME IInv, NEW s \in Sender, NEW a \in Stream, Resume(s, a)
    PROVE  IInv' /\ Answered
<1>1. Typed /\ RegInv /\ SteerInv /\ AskInv /\ Started \subseteq Stream /\ Live \subseteq Started
  BY Ids DEF IInv, RegInv
<1>2. /\ NextId \in Stream /\ a \in Started /\ asked' = [asked EXCEPT ![a] = None]
      /\ asked[a] # None
      /\ stream[a].thread \in Thread \cup {NoThread} /\ stream[a].message \in Stream
      /\ Joins(NextId, "resume", s, stream[a].thread, stream[a].message)
  BY <1>1, ResumeJoins
<1>3. PICK k \in Stream : k = NextId
  BY <1>2
<1>4. PICK t \in Thread \cup {NoThread} : t = stream[a].thread
  BY <1>2
<1>5. PICK m \in Stream : m = stream[a].message
  BY <1>2
<1>6. Joins(k, "resume", s, t, m)
  BY <1>2, <1>3, <1>4, <1>5
<1>7. RegInv' /\ SteerInv'
  BY <1>1, <1>6, JoinsInv, JoinsSteer
<1>8. /\ k \notin Started /\ Started' = Started \cup {k} /\ Live' = Live \cup {k}
      /\ stream'[k].message = m /\ Len(stream') = k
      /\ \A j \in Started :
            /\ stream'[j].message = stream[j].message /\ stream'[j].thread = stream[j].thread
            /\ stream'[j].phase = stream[j].phase /\ stream'[j].blocked = stream[j].blocked
  BY <1>1, <1>6, JoinsTurns, NewType
<1>9. \A j \in Started : stream[j].message \in 1..j /\ j < k /\ j \in Nat
  BY <1>1, <1>3, Ids DEF NextId, AskInv
<1>10. asked'[a] = None /\ \A j \in Stream \ {a} : asked'[j] = asked[j]
  BY <1>1, <1>2 DEF Typed, TypeOK
<1>11. asked[k] = None /\ asked'[k] = None
  BY <1>1, <1>8, <1>10 DEF AskInv
\* The turn that was blocked has ended: its thread admits another one.
<1>12. a \notin Live
  <2>1. t # NoThread /\ t \notin runningThreads
    BY <1>1, <1>2, <1>4, <1>6 DEF AskInv, Joins, Admitted
  <2> QED
    BY <1>1, <1>4, <2>1 DEF RegInv, Locks
<1>13. AskInv'
  <2>1. \A j \in Started' : stream'[j].message \in 1..j
    BY <1>2, <1>5, <1>8, <1>9 DEF Stream
  <2>2. ASSUME NEW j \in Stream, asked'[j] # None
        PROVE  /\ j \in Started' /\ stream'[j].blocked /\ stream'[j].thread # NoThread
               /\ stream'[j].phase \in {"closing", "ended"}
    BY <1>1, <1>8, <1>10, <2>2 DEF AskInv
  <2>3. ASSUME NEW j \in Started, Writes(j)' PROVE Writes(j) /\ stream'[j].message # m
    <3>1. j # a /\ Writes(j)
      BY <1>1, <1>8, <1>10, <1>12, <2>3 DEF Writes
    <3>2. Writes(a)
      BY <1>2 DEF Writes
    <3> QED
      BY <1>1, <1>2, <1>5, <1>8, <3>1, <3>2 DEF AskInv
  <2>4. ASSUME NEW i \in Started', NEW j \in Started', Writes(i)', Writes(j)',
               stream'[i].message = stream'[j].message
        PROVE  i = j
    BY <1>1, <1>8, <2>3, <2>4 DEF AskInv
  <2> QED
    BY <2>1, <2>2, <2>4 DEF AskInv
<1>14. Answered
  BY <1>1, <1>3, <1>5, <1>8, <1>10 DEF Answered
<1> QED
  BY <1>7, <1>13, <1>14 DEF IInv

LEMMA CancelRunStep ==
    ASSUME IInv, NEW k \in Stream, CancelRun(k)
    PROVE  IInv' /\ Answered
<1>1. Typed /\ RegInv /\ SteerInv
  BY DEF IInv, RegInv
<1>2. /\ stream' = Cancelled({k} \cap {reg.active[stream[k].sender]}) /\ reg' = reg
      /\ asked' = [asked EXCEPT ![k] = None]
  BY DEF CancelRun
<1>3. RegInv'
  BY <1>1, CancelRunInv
<1>4. /\ Alike
      /\ \A j \in Started : /\ stream'[j].sent = stream[j].sent
                            /\ stream'[j].heard = stream[j].heard
                            /\ stream'[j].phase = stream[j].phase
                            /\ stream'[j].blocked = stream[j].blocked
  BY <1>1, <1>2, SomeCancelled
<1>5. SteerInv'
  BY <1>1, <1>2, <1>4, SameSteer
<1>6. \A j \in Stream : asked'[j] = asked[j] \/ (j = k /\ asked'[j] = None)
  BY <1>1, <1>2 DEF Typed, TypeOK
<1>7. IInv'
  BY <1>3, <1>4, <1>5, <1>6, QuietStep
<1>8. Answered
  BY <1>1, <1>6, Ids DEF Answered
<1> QED
  BY <1>7, <1>8

LEMMA StopStep ==
    ASSUME IInv, NEW s \in Sender, Stop(s)
    PROVE  IInv' /\ Answered
<1>1. Typed /\ RegInv /\ SteerInv
  BY DEF IInv, RegInv
<1>2. RegInv' /\ SteerInv'
  BY <1>1, StopSteer
<1>3. stream' = Cancelled({reg.active[s]}) /\ asked' = asked
  BY DEF Stop
<1>4. /\ Alike
      /\ \A j \in Started : /\ stream'[j].phase = stream[j].phase
                            /\ stream'[j].blocked = stream[j].blocked
  BY <1>1, <1>3, SomeCancelled
<1>5. IInv'
  BY <1>2, <1>3, <1>4, QuietStep
<1> QED
  BY <1>1, <1>3, <1>5, SameAsked

LEMMA LeaseLostStep ==
    ASSUME IInv, NEW t \in Thread, LeaseLost(t)
    PROVE  IInv' /\ Answered
<1>1. Typed /\ RegInv /\ SteerInv
  BY DEF IInv, RegInv
<1>2. /\ stream' = Cancelled({reg.session[reg.byThread[t]].streamState} \ {None})
      /\ reg' = reg /\ asked' = asked
  BY DEF LeaseLost
<1>3. RegInv'
  BY <1>1, LeaseLostInv
<1>4. /\ Alike
      /\ \A j \in Started : /\ stream'[j].sent = stream[j].sent
                            /\ stream'[j].heard = stream[j].heard
                            /\ stream'[j].phase = stream[j].phase
                            /\ stream'[j].blocked = stream[j].blocked
  BY <1>1, <1>2, SomeCancelled
<1>5. SteerInv'
  BY <1>1, <1>2, <1>4, SameSteer
<1>6. IInv'
  BY <1>2, <1>3, <1>4, <1>5, QuietStep
<1> QED
  BY <1>1, <1>2, <1>6, SameAsked

LEMMA AnswerOneStep ==
    ASSUME IInv, NEW s \in Sender, NEW j \in Stream, AnswerOne(s, j)
    PROVE  IInv' /\ Answered
<1>1. Typed /\ RegInv /\ SteerInv /\ s # None
  BY Ids DEF IInv, RegInv
<1>2. asked' = [asked EXCEPT ![j] = s] /\ UNCHANGED <<runningThreads, reg, stream>>
      /\ asked[j] # None
  BY DEF AnswerOne
<1>3. RegInv'
  BY <1>1, AnswerOneInv
<1>4. Alike
  BY <1>1, <1>2 DEF Alike, Typed
<1>5. SteerInv'
  BY <1>1, <1>2, <1>4, SameSteer
<1>6. \A i \in Stream : asked'[i] # None <=> asked[i] # None
  BY <1>1, <1>2 DEF Typed, TypeOK
<1>7. IInv'
  BY <1>2, <1>3, <1>4, <1>5, <1>6, QuietStep
<1> QED
  BY <1>1, <1>6, <1>7, SameAsked

LEMMA SteeringSteps ==
    ASSUME IInv, \/ \E s \in Sender, t \in Thread \cup {NoThread} : Steer(s, t)
                 \/ \E k \in Stream : TakeSteer(k)
    PROVE  IInv' /\ Answered
<1>1. Typed /\ RegInv /\ SteerInv
  BY DEF IInv, RegInv
<1>2. /\ RegInv' /\ SteerInv' /\ Alike /\ asked' = asked
      /\ \A k \in Started : stream'[k].phase = stream[k].phase
                            /\ stream'[k].blocked = stream[k].blocked
  <2>1. CASE \E s \in Sender, t \in Thread \cup {NoThread} : Steer(s, t)
    <3>1. PICK s \in Sender, t \in Thread \cup {NoThread} : Steer(s, t)
      BY <2>1
    <3> QED
      BY <1>1, <3>1, SteerStep
  <2>2. CASE \E k \in Stream : TakeSteer(k)
    <3>1. PICK k \in Stream : TakeSteer(k)
      BY <2>2
    <3>2. k \in Started
      BY <3>1 DEF TakeSteer, In
    <3> QED
      BY <1>1, <3>1, <3>2, TakeSteerStep
  <2> QED
    BY <2>1, <2>2
<1>3. IInv'
  BY <1>2, QuietStep
<1> QED
  BY <1>1, <1>2, <1>3, SameAsked

\* The steps that end a turn, or start the write of its message.
LEMMA LeavingSteps ==
    ASSUME IInv, NEW k \in Stream,
           \/ PreparationThrows(k) \/ BatchCancelled(k) \/ BatchFails(k)
           \/ LastBatch(k) \/ Close(k)
    PROVE  IInv' /\ Answered
<1>1. k \in Started /\ stream[k].phase \in {"preparing", "working", "closing"}
  BY DEF PreparationThrows, BatchCancelled, BatchFails, LastBatch, Close, In
<1>2. \/ End(k)
      \/ stream[k].phase \in {"preparing", "working"} /\ Leave(k)
  BY DEF PreparationThrows, BatchCancelled, BatchFails, LastBatch, Close, In
<1>3. k \in Live
  BY <1>1 DEF Live
<1> QED
  BY <1>1, <1>2, <1>3, EndStep, LeaveStep

LEMMA NextStep ==
    ASSUME IInv, Next
    PROVE  IInv' /\ Answered
<1>1. CASE \E s \in Sender, t \in Thread \cup {NoThread} : StartTurn(s, t) \/ Steer(s, t)
  BY <1>1, StartTurnStep, SteeringSteps
<1>2. CASE \E k \in Stream :
              \/ Prepared(k) \/ PreparationThrows(k)
              \/ TakeSteer(k) \/ BatchCancelled(k) \/ BatchFails(k) \/ LastBatch(k)
              \/ Block(k) \/ Close(k) \/ CancelRun(k)
  BY <1>2, PreparedStep, LeavingSteps, SteeringSteps, BlockStep, CancelRunStep
<1>3. CASE \E s \in Sender : Stop(s)
  BY <1>3, StopStep
<1>4. CASE \E t \in Thread : LeaseLost(t)
  BY <1>4, LeaseLostStep
<1>5. CASE \E s \in Sender, j \in Stream : Resume(s, j) \/ AnswerOne(s, j)
  BY <1>5, ResumeStep, AnswerOneStep
<1> QED
  BY <1>1, <1>2, <1>3, <1>4, <1>5 DEF Next

LEMMA InitInv == Init => IInv
<1> SUFFICES ASSUME Init PROVE IInv
  OBVIOUS
<1>1. /\ Stream = 1..MaxStreams /\ MaxStreams \in Nat
  BY BoundsAssumption DEF Stream
<1>2. stream \in Seq(Turn) /\ Len(stream) = 0 /\ Started = {} /\ Live = {}
  <2>1. stream = <<>>
    BY DEF Init
  <2> QED
    BY <2>1, EmptySeq DEF Started, Live
<1>3. reg \in Registry
  <2>1. NewSession(NoThread) \in ThreadSession
    BY NewSessionType
  <2> QED
    BY <2>1 DEF Init, Registry
<1>4. /\ \A s \in Sender : reg.active[s] = None /\ reg.bySender[s] = None
      /\ \A t \in Thread : reg.byThread[t] = None
      /\ asked = [k \in Stream |-> None] /\ runningThreads = {}
  BY DEF Init
<1>5. Typed
  BY <1>1, <1>2, <1>3, <1>4 DEF Typed, TypeOK
<1>6. RegInv
  BY <1>2, <1>4, <1>5 DEF RegInv, Locks, Current, Served, Met
<1> QED
  BY <1>2, <1>4, <1>6 DEF IInv, SteerInv, AskInv

LEMMA StutterInv ==
    ASSUME IInv, UNCHANGED vars
    PROVE  IInv' /\ Answered
<1>1. UNCHANGED <<runningThreads, reg, stream, asked>>
  BY DEF vars
<1>2. Started' = Started /\ Live' = Live
  BY <1>1 DEF Started, Live
<1>3. RegInv'
  BY <1>1, <1>2 DEF IInv, RegInv, Typed, TypeOK, Locks, Current, Served, Met
<1>4. SteerInv' /\ AskInv'
  <2>1. SteerInv'
    BY <1>1, <1>2 DEF IInv, SteerInv, Listens, SteerMessages, SessionOf
  <2>2. AskInv'
    BY <1>1, <1>2 DEF IInv, AskInv, Writes
  <2> QED
    BY <2>1, <2>2
<1> QED
  BY <1>1, <1>3, <1>4 DEF IInv, Answered

-----------------------------------------------------------------------------
(* The theorems.                                                            *)

\* In every state, for any number of connections, threads, turns and messages,
\* the maps of the coordinator are those of the live turns, what was sent to a
\* turn is what it heard and what waits for it, and a message has one writer.
THEOREM Invariance == Spec => []IInv
<1>1. IInv /\ [Next]_vars => IInv'
  BY NextStep, StutterInv
<1> QED
  BY <1>1, InitInv, PTL DEF Spec

\* The maps, the sessions, the turns and the approvals keep their types.
THEOREM TypeCorrect == Spec => []TypeOK
<1>1. IInv => TypeOK
  BY DEF IInv, RegInv, Typed
<1> QED
  BY <1>1, Invariance, PTL

\* A turn that nobody cancelled can be reached by stop, supersession, steering
\* and lease loss, and the maps keep nothing of a turn that has ended.
THEOREM RegistryIsExact == Spec => []RegistryExact
<1>1. ASSUME IInv PROVE LiveTurnReachable
  <2>1. ASSUME NEW k \in Live, ~stream[k].cancelled
        PROVE  /\ reg.active[stream[k].sender] = k
               /\ stream[k].kind = "turn" => Linked(k)
    <3>1. PICK s \in Sender : s = stream[k].sender
      BY <1>1, Ids DEF IInv, RegInv, Turn
    <3>2. reg.active[s] = k /\ k # None /\ Served(s)
      BY <1>1, <2>1, <3>1, Ids DEF IInv, RegInv, Current
    <3> QED
      BY <2>1, <3>1, <3>2 DEF Served, Linked
  <2> QED
    BY <2>1 DEF LiveTurnReachable
<1>2. ASSUME IInv PROVE NothingLeftBehind
  BY <1>2 DEF NothingLeftBehind, IInv, RegInv, Served, Met
<1>3. IInv => RegistryExact
  BY <1>1, <1>2 DEF RegistryExact
<1> QED
  BY <1>3, Invariance, PTL

\* A turn hears the messages that were sent to it and no others, each once and
\* in order, and what it has not heard waits in its queue until it is cancelled.
THEOREM SteeringIsExact == Spec => []SteeringExact
<1>1. IInv => SteeringExact
  BY DEF IInv, SteerInv, Listens, SteeringExact
<1> QED
  BY <1>1, Invariance, PTL

\* The approvals a blocked turn waits for go away by an answer that resumes it
\* or by the cancellation of its run, and never at the end of another turn.
THEOREM ApprovalsStay == Spec => BlockedKeepsApprovals
<1>1. IInv /\ [Next]_vars =>
        [\A k \in Started :
            asked[k] # None /\ asked'[k] = None
               => \/ CancelRun(k)
                  \/ /\ Len(stream') = NextId
                     /\ stream'[NextId].message = stream[k].message]_vars
  BY NextStep DEF Answered
<1> QED
  BY <1>1, Invariance, PTL DEF Spec, BlockedKeepsApprovals

-----------------------------------------------------------------------------
(* Within a process the registry implements ThreadAdmission: a step lets    *)
(* turns be, ends one, or starts one on a thread that no live turn has.     *)

\* The value of `executing` under the refinement.
Exec == [t \in Thread |-> Executing(t)]

LEMMA OneExecutes ==
    ASSUME IInv, NEW t \in Thread, NEW j \in Executing(t), NEW k \in Executing(t)
    PROVE  j = k
BY NoThreadAssumption DEF IInv, RegInv, Locks, Executing

\* A step in which no turn starts is an end, of the threads that are free
\* after it: before it each had one turn at most.
LEMMA NobodyStarts ==
    ASSUME IInv, Live' \subseteq Live, \A k \in Live' : stream'[k].thread = stream[k].thread
    PROVE  Admission!Next
<1> DEFINE ended == {t \in Thread : Executing(t)' = {}}
<1>1. ASSUME NEW t \in Thread PROVE Executing(t)' = IF t \in ended THEN {} ELSE Executing(t)
  <2>1. Executing(t)' \subseteq Executing(t)
    BY DEF Executing
  <2>2. \A j, k \in Executing(t) : j = k
    BY OneExecutes
  <2> QED
    BY <2>1, <2>2
<1>2. Exec' = [t \in Thread |-> IF t \in ended THEN {} ELSE Exec[t]]
  BY <1>1 DEF Exec
<1>3. ended \in SUBSET Thread
  OBVIOUS
<1> HIDE DEF ended
<1> QED
  BY <1>2, <1>3 DEF Admission!Next, Admission!End, Exec

LEMMA JoinAdmits ==
    ASSUME IInv, NEW k \in Stream, NEW kind \in {"turn", "resume"}, NEW s \in Sender,
           NEW t \in Thread \cup {NoThread}, NEW message \in Stream,
           Joins(k, kind, s, t, message)
    PROVE  [Admission!Next]_Exec
<1>1. /\ Live' = Live \cup {k} /\ k \notin Started /\ Live \subseteq Started
      /\ stream'[k].thread = t
      /\ \A j \in Started : stream'[j].thread = stream[j].thread
  BY JoinsTurns, NewType, Ids DEF IInv, RegInv
<1>2. ASSUME NEW u \in Thread
      PROVE  Executing(u)' = IF u = t THEN Executing(u) \cup {k} ELSE Executing(u)
  BY <1>1 DEF Executing
<1>3. CASE t = NoThread
  <2>1. \A u \in Thread : Executing(u)' = Executing(u)
    BY <1>2, <1>3, NoThreadAssumption
  <2> QED
    BY <2>1 DEF Exec
<1>4. CASE t \in Thread
  <2>1. Executing(t) = {}
    BY <1>4, NoThreadAssumption DEF Joins, Admitted, IInv, RegInv, Locks, Executing
  <2>2. Exec' = [Exec EXCEPT ![t] = {k}] /\ Exec[t] = {}
    BY <1>2, <1>4, <2>1 DEF Exec
  <2> QED
    BY <1>4, <2>2 DEF Admission!Next, Admission!Admit, Exec
<1> QED
  BY <1>3, <1>4

\* A step lets the turns be, ends one of them, or starts one.
Starts == \E s \in Sender : \/ \E t \in Thread \cup {NoThread} : StartTurn(s, t)
                           \/ \E j \in Stream : Resume(s, j)

LEMMA LeaveKinds ==
    ASSUME IInv, NEW k \in Started, stream[k].phase \in {"preparing", "working"}, Leave(k)
    PROVE  Alike \/ End(k)
<1>1. CASE /\ stream' = [stream EXCEPT ![k] = [@ EXCEPT !.phase = "closing"]]
           /\ UNCHANGED <<runningThreads, reg, asked>>
  <2>1. stream[k] \in Turn /\ asked \in [Stream -> Sender \cup {None}]
    BY Ids DEF IInv, RegInv, Typed, TypeOK
  <2>2. [stream[k] EXCEPT !.phase = "closing"]
          = [stream[k] EXCEPT !.phase = "closing", !.blocked = stream[k].blocked]
    BY <2>1 DEF Turn
  <2>3. stream[k].blocked \in BOOLEAN /\ RegInv
    BY <2>1 DEF Turn, IInv
  <2>4. stream' = [stream EXCEPT ![k] =
                     [stream[k] EXCEPT !.phase = "closing", !.blocked = stream[k].blocked]]
    BY <1>1, <2>2
  <2> QED
    BY <1>1, <2>1, <2>3, <2>4, PhaseInv
<1> QED
  BY <1>1 DEF Leave

LEMMA TurnKinds ==
    ASSUME IInv, NEW k \in Stream,
           \/ Prepared(k) \/ PreparationThrows(k)
           \/ TakeSteer(k) \/ BatchCancelled(k) \/ BatchFails(k) \/ LastBatch(k)
           \/ Block(k) \/ Close(k) \/ CancelRun(k)
    PROVE  Alike \/ (k \in Live /\ End(k))
<1>1. Typed /\ RegInv /\ SteerInv
  BY DEF IInv, RegInv
<1>2. ASSUME Prepared(k) \/ Block(k) PROVE Alike
  <2>1. k \in Started /\ stream[k] \in Turn /\ stream[k].phase \in {"preparing", "working"}
    BY <1>1, <1>2, Ids DEF Prepared, Block, In
  <2>2. PICK p \in {"working", "closing"}, b \in BOOLEAN :
          stream' = [stream EXCEPT ![k] = [stream[k] EXCEPT !.phase = p, !.blocked = b]]
    <3>1. CASE Prepared(k)
      <4>1. [stream[k] EXCEPT !.phase = "working"]
              = [stream[k] EXCEPT !.phase = "working", !.blocked = stream[k].blocked]
            /\ stream[k].blocked \in BOOLEAN
        BY <2>1 DEF Turn
      <4> QED
        BY <3>1, <4>1 DEF Prepared
    <3>2. CASE Block(k)
      BY <3>2 DEF Block
    <3> QED
      BY <1>2, <3>1, <3>2
  <2>3. UNCHANGED <<runningThreads, reg>> /\ asked' \in [Stream -> Sender \cup {None}]
    BY <1>1, <1>2, <2>1 DEF Prepared, Block, Typed, TypeOK, Turn
  <2> QED
    BY <1>1, <2>1, <2>2, <2>3, PhaseInv
<1>3. ASSUME TakeSteer(k) PROVE Alike
  BY <1>1, <1>3, TakeSteerStep DEF TakeSteer, In
<1>4. ASSUME CancelRun(k) PROVE Alike
  BY <1>1, <1>4, SomeCancelled DEF CancelRun
<1>5. ASSUME \/ PreparationThrows(k) \/ BatchCancelled(k) \/ BatchFails(k)
             \/ LastBatch(k) \/ Close(k)
      PROVE  Alike \/ (k \in Live /\ End(k))
  <2>1. k \in Started /\ stream[k].phase \in {"preparing", "working", "closing"}
    BY <1>5 DEF PreparationThrows, BatchCancelled, BatchFails, LastBatch, Close, In
  <2>2. \/ End(k)
        \/ stream[k].phase \in {"preparing", "working"} /\ Leave(k)
    BY <1>5 DEF PreparationThrows, BatchCancelled, BatchFails, LastBatch, Close, In
  <2> QED
    BY <2>1, <2>2, LeaveKinds DEF Live
<1> QED
  BY <1>2, <1>3, <1>4, <1>5

LEMMA StepKinds ==
    ASSUME IInv, Next
    PROVE  Alike \/ (\E k \in Live : End(k)) \/ Starts
<1>1. Typed /\ RegInv /\ SteerInv
  BY DEF IInv, RegInv
<1>2. ASSUME NEW s \in Sender, NEW t \in Thread \cup {NoThread}, StartTurn(s, t) \/ Steer(s, t)
      PROVE  Alike \/ Starts
  BY <1>1, <1>2, SteerStep DEF Starts
<1>3. ASSUME NEW s \in Sender, Stop(s) PROVE Alike
  BY <1>1, <1>3, SomeCancelled DEF Stop
<1>4. ASSUME NEW t \in Thread, LeaseLost(t) PROVE Alike
  BY <1>1, <1>4, SomeCancelled DEF LeaseLost
<1>5. ASSUME NEW s \in Sender, NEW j \in Stream, Resume(s, j) \/ AnswerOne(s, j)
      PROVE  Alike \/ Starts
  BY <1>1, <1>5 DEF Starts, AnswerOne, Alike, Typed
<1> QED
  BY <1>2, <1>3, <1>4, <1>5, TurnKinds DEF Next

LEMMA StepRefines == IInv /\ [Next]_vars => [Admission!Next]_Exec
<1> SUFFICES ASSUME IInv, [Next]_vars PROVE [Admission!Next]_Exec
  OBVIOUS
<1>1. Typed /\ RegInv
  BY DEF IInv, RegInv
<1>2. CASE Alike
  <2>1. Live' = Live /\ Live \subseteq Started
    BY <1>1, <1>2, SameTurns, Ids
  <2> QED
    BY <1>2, <2>1, NobodyStarts DEF Alike
<1>3. ASSUME NEW k \in Live, End(k) PROVE Admission!Next
  <2>1. Live' \subseteq Live /\ \A j \in Live' : stream'[j].thread = stream[j].thread
    BY <1>1, <1>3, EndTurns, Ids
  <2> QED
    BY <2>1, NobodyStarts
<1>4. CASE Starts
  <2>1. ASSUME NEW s \in Sender, NEW t \in Thread \cup {NoThread}, StartTurn(s, t)
        PROVE  [Admission!Next]_Exec
    BY <1>1, <2>1, StartTurnJoins, JoinAdmits
  <2>2. ASSUME NEW s \in Sender, NEW j \in Stream, Resume(s, j)
        PROVE  [Admission!Next]_Exec
    BY <1>1, <2>2, ResumeJoins, JoinAdmits
  <2> QED
    BY <1>4, <2>1, <2>2 DEF Starts
<1>5. CASE UNCHANGED vars
  BY <1>5 DEF vars, Exec, Executing, Live, Started
<1> QED
  BY <1>2, <1>3, <1>4, <1>5, StepKinds

\* Whatever is stopped, superseded, resumed or fails, a turn is admitted to a
\* thread only when no other is live there: the maps of a process implement the
\* same promise as the lease of the processes.
THEOREM RegistryImplementsAdmission == Spec => ImplementsAdmission
<1>1. Init => Admission!Init
  BY EmptySeq DEF Init, Admission!Init, Executing, Live, Started
<1>2. IInv /\ [Next]_vars => [Admission!Next]_[t \in Thread |-> Executing(t)]
  BY StepRefines DEF Exec
<1> QED
  BY <1>1, <1>2, Invariance, PTL DEF Spec, ImplementsAdmission, Admission!Spec

=============================================================================
