---------------------------- MODULE ThreadStreams ----------------------------
(***************************************************************************)
(* Who may steer, stop and resume what: the registry of live streams      *)
(* (thread_session/thread_stream_coordinator.ts) under the turns that use *)
(* it, those of session_loop.ts with the steering loop of outer_loop.ts,  *)
(* and those that approval.ts resumes.                                    *)
(*                                                                         *)
(* A sender is a connection (a window, a socket).  A stream id stands for *)
(* one ActiveStreamState, the turn that owns it, the assistant message it *)
(* opens and the ThreadSession object it may create.  What runs between   *)
(* two awaits is one action; a turn awaits its preparation, its batches   *)
(* and, at the end, the write of its assistant message.  Admission across *)
(* processes is ThreadRunLease, the rows of runs are RunLifecycle.        *)
(***************************************************************************)
EXTENDS Integers, Sequences, SequencesExt

CONSTANTS
    Sender,      \* transport connections
    Thread,      \* conversation threads
    NoThread,    \* the thread of a turn that was started without one
    Closed,      \* a steer queue that is null
    MaxStreams,  \* bound: turns started or resumed in a behaviour
    MaxSteers    \* bound: steering messages accepted in a behaviour

ASSUME BoundsAssumption == MaxStreams \in Nat /\ MaxSteers \in Nat
ASSUME NoThreadAssumption == NoThread \notin Thread

Stream == 1..MaxStreams
Message == 1..MaxSteers
None == 0    \* no stream, no session, no sender

ASSUME NoneAssumption == None \notin Sender
ASSUME ClosedAssumption == Closed \notin Seq(Message)

VARIABLES
    runningThreads, \* threads with a turn of this process
    reg,            \* the coordinator's maps and its ThreadSession objects
    stream,         \* ActiveStreamState and progress of every turn
    asked           \* pendingApprovalSessions: the target of the approvals
                    \* a stream is waiting for, or None

vars == <<runningThreads, reg, stream, asked>>

ThreadSession == [threadId : Thread \cup {NoThread}, senderIds : SUBSET Sender,
                  steerQueue : Seq(Message) \cup {Closed},
                  streamState : Stream \cup {None}]

\* activeStreams, sessionBySender, sessionsByThread and the session objects.
Registry == [active : [Sender -> Stream \cup {None}],
             bySender : [Sender -> Stream \cup {None}],
             byThread : [Thread -> Stream \cup {None}],
             session : [Stream -> ThreadSession]]

\* message: the stream whose assistant message this turn writes to.
\* sent is history: the steering messages acknowledged while this was the
\* sender's active stream; heard are those appended to its model history.
Turn == [kind : {"turn", "resume"}, sender : Sender, thread : Thread \cup {NoThread},
         message : Stream,
         phase : {"preparing", "working", "closing", "ended"},
         blocked : BOOLEAN,      \* it returns with approval requests
         cancelled : BOOLEAN, steered : BOOLEAN,
         aborted : BOOLEAN,      \* the signal of its current abort controller
         sent : Seq(Message), heard : Seq(Message)]

Started == DOMAIN stream
Live == {k \in Started : stream[k].phase # "ended"}
NextId == Len(stream) + 1

TypeOK ==
    /\ runningThreads \subseteq Thread
    /\ reg \in Registry
    /\ Len(stream) <= MaxStreams
    /\ \A k \in Started : stream[k] \in Turn
    /\ asked \in [Stream -> Sender \cup {None}]

NewSession(t) == [threadId |-> t, senderIds |-> {}, steerQueue |-> <<>>, streamState |-> None]

Init ==
    /\ runningThreads = {}
    /\ reg = [active |-> [s \in Sender |-> None],
              bySender |-> [s \in Sender |-> None],
              byThread |-> [t \in Thread |-> None],
              session |-> [k \in Stream |-> NewSession(NoThread)]]
    /\ stream = <<>>
    /\ asked = [k \in Stream |-> None]

-----------------------------------------------------------------------------
(* Mutated forms of definitions below, each a plausible bug.               *)

NoThreadLocked(t) == runningThreads \cup {t}
StaleUnregister(r, s, k) ==
    [r EXCEPT !.active[s] = None,
              !.session = IF r.bySender[s] = None THEN @
                          ELSE [@ EXCEPT ![r.bySender[s]].steerQueue = Closed]]
QueueKept(r, s) == r
SenderWideCleanup(k) ==
    [j \in Stream |-> IF asked[j] = stream[k].sender THEN None ELSE asked[j]]
StopIgnored(k) == stream[k].steered

-----------------------------------------------------------------------------
(* The maps: what each operation of the coordinator makes of them.        *)

SessionOf(r, s) == r.session[r.bySender[s]]

\* detachSenderSession
Detached(r, s) ==
    LET x == r.bySender[s]
        left == r.session[x].senderIds \ {s}
        t == r.session[x].threadId
    IN IF x = None THEN r
       ELSE [r EXCEPT !.bySender[s] = None,
                      !.session[x].senderIds = left,
                      !.byThread = IF t # NoThread /\ left = {}
                                   THEN [@ EXCEPT ![t] = None] ELSE @]

\* trackThreadStream, for a turn k that may have to create the session.
Tracked(r, t, s, k) ==
    LET x == IF r.byThread[t] = None THEN k ELSE r.byThread[t]
        o == IF x = k THEN NewSession(t) ELSE r.session[x]
    IN [r EXCEPT !.byThread[t] = x,
                 !.bySender[s] = x,
                 !.session[x] = [o EXCEPT !.senderIds = o.senderIds \cup {s}]]

\* untrackThreadStream
Untracked(r, t, s) ==
    LET x == r.byThread[t]
        left == r.session[x].senderIds \ {s}
    IN IF x = None THEN r
       ELSE IF s \notin r.session[x].senderIds THEN r
       ELSE [r EXCEPT !.session[x].senderIds = left,
                      !.bySender[s] = IF @ = x THEN None ELSE @,
                      !.byThread[t] = IF left = {} THEN None ELSE @]

\* registerStream: a turn without a thread gets a session of its sender.
Registered(r, s, k) ==
    LET x == IF r.bySender[s] = None THEN k ELSE r.bySender[s]
        o == IF r.bySender[s] = None THEN NewSession(NoThread) ELSE r.session[x]
    IN [r EXCEPT !.active[s] = k,
                 !.bySender[s] = x,
                 !.session[x] = [o EXCEPT !.senderIds = o.senderIds \cup {s},
                                          !.steerQueue = <<>>,
                                          !.streamState = k]]

\* unregisterStream: nothing, unless the stream is still the sender's.
Unregistered(r, s, k) ==
    LET x == r.bySender[s]
        o == r.session[x]
        closed == [o EXCEPT !.streamState = IF o.streamState = k THEN None ELSE o.streamState,
                            !.steerQueue = Closed]
    IN IF r.active[s] # k THEN r
       ELSE IF x = None THEN [r EXCEPT !.active[s] = None]
       ELSE IF o.threadId # NoThread
       THEN [r EXCEPT !.active[s] = None, !.session[x] = closed]
       ELSE [r EXCEPT !.active[s] = None, !.bySender[s] = None,
                      !.session[x] = [closed EXCEPT !.senderIds = o.senderIds \ {s}]]

\* takeSteerMessages leaves the queue empty.
Drained(r, s) ==
    IF r.bySender[s] = None \/ SessionOf(r, s).steerQueue = Closed THEN r
    ELSE [r EXCEPT !.session[r.bySender[s]].steerQueue = <<>>]

SteerMessages(r, s) ==
    IF r.bySender[s] = None \/ SessionOf(r, s).steerQueue = Closed THEN <<>>
    ELSE SessionOf(r, s).steerQueue

QueueAfterStop(q) == Closed

\* Session objects nobody refers to are as good as new.
Swept(r) ==
    [r EXCEPT !.session =
        [x \in Stream |->
            IF \/ \E s \in Sender : r.bySender[s] = x
               \/ \E t \in Thread : r.byThread[t] = x
            THEN r.session[x] ELSE NewSession(NoThread)]]

-----------------------------------------------------------------------------
(* Starting and ending turns.                                             *)

Admitted(t) == t = NoThread \/ t \notin runningThreads
Locked(t) == IF t = NoThread THEN runningThreads ELSE runningThreads \cup {t}

Cancelled(ks) ==
    [j \in Started |->
        IF j \in ks THEN [stream[j] EXCEPT !.cancelled = TRUE, !.aborted = TRUE]
        ELSE stream[j]]

\* supersedeActiveStream cancels what the sender is streaming.
Superseded(s) == {reg.active[s]} \ {None}

\* cancelThreadStreams cancels the streams of the thread's other senders.
OthersOnThread(t, s) ==
    IF t = NoThread \/ reg.byThread[t] = None THEN {}
    ELSE {reg.active[z] : z \in reg.session[reg.byThread[t]].senderIds \ {s}} \ {None}

New(kind, s, t, message) ==
    [kind |-> kind, sender |-> s, thread |-> t, message |-> message,
     phase |-> IF kind = "turn" THEN "preparing" ELSE "working", blocked |-> FALSE,
     cancelled |-> FALSE, steered |-> FALSE, aborted |-> FALSE,
     sent |-> <<>>, heard |-> <<>>]

\* stream(), up to the await of the preparation.
StartTurn(s, t) ==
    /\ NextId \in Stream
    /\ Admitted(t)
    /\ runningThreads' = Locked(t)
    /\ LET r == Detached(reg, s)
       IN reg' = Swept(Registered(IF t = NoThread THEN r ELSE Tracked(r, t, s, NextId),
                                  s, NextId))
    /\ stream' = Append(Cancelled(Superseded(s) \cup OthersOnThread(t, s)),
                        New("turn", s, t, NextId))
    /\ UNCHANGED asked

\* cleanupPendingSessionsForSender, of the turn's own message.
CleanedUp(k) ==
    [j \in Stream |->
        IF /\ j \in Started
           /\ asked[j] = stream[k].sender
           /\ stream[j].message = stream[k].message
        THEN None ELSE asked[j]]

\* What the end of the turn makes of the maps: it lets go of its own entries.
LetGo(r, s, k) ==
    IF stream[k].kind = "resume"
    THEN [r EXCEPT !.active[s] = IF @ = k THEN None ELSE @]
    ELSE Unregistered(IF stream[k].thread = NoThread \/ r.active[s] # k THEN r
                      ELSE Untracked(r, stream[k].thread, s), s, k)

\* The finally block, and the release of the thread.
End(k) ==
    /\ asked' = IF reg.active[stream[k].sender] = k /\ ~stream[k].blocked
                THEN CleanedUp(k) ELSE asked
    /\ reg' = Swept(LetGo(reg, stream[k].sender, k))
    /\ runningThreads' = runningThreads \ {stream[k].thread}
    /\ stream' = [stream EXCEPT ![k] = [@ EXCEPT !.phase = "ended", !.steered = FALSE, !.aborted = FALSE]]

\* A turn of a thread first awaits the write of its assistant message.
Leave(k) ==
    \/ /\ stream[k].thread = NoThread
       /\ End(k)
    \/ /\ stream[k].thread # NoThread
       /\ stream' = [stream EXCEPT ![k] = [@ EXCEPT !.phase = "closing"]]
       /\ UNCHANGED <<runningThreads, reg, asked>>

-----------------------------------------------------------------------------
(* A turn, between its awaits.                                            *)

In(k, phase) == k \in Started /\ stream[k].phase = phase

Close(k) ==
    /\ In(k, "closing")
    /\ End(k)

\* The preparation returns to a signal that was not aborted: the loop starts.
Prepared(k) ==
    /\ In(k, "preparing")
    /\ ~stream[k].aborted
    /\ stream' = [stream EXCEPT ![k] = [@ EXCEPT !.phase = "working"]]
    /\ UNCHANGED <<runningThreads, reg, asked>>

\* throwIfAborted, or the preparation itself, throws.
PreparationThrows(k) ==
    /\ In(k, "preparing")
    /\ \/ stream[k].cancelled /\ Leave(k)
       \/ ~stream[k].cancelled /\ End(k)

\* The batch is interrupted by a steering message: the loop takes the queue
\* into the history, and starts over with a new abort controller.
Interrupted(k) == stream[k].steered /\ ~stream[k].cancelled
TakeSteer(k) ==
    /\ In(k, "working")
    /\ stream[k].aborted
    /\ Interrupted(k)
    /\ stream' = [stream EXCEPT ![k] =
                    [@ EXCEPT !.steered = FALSE, !.aborted = FALSE,
                              !.heard = stream[k].heard \o SteerMessages(reg, stream[k].sender)]]
    /\ reg' = Drained(reg, stream[k].sender)
    /\ UNCHANGED <<runningThreads, asked>>

\* The batch throws for the abort of a cancelled stream.  A resumed turn that
\* throws skips the write of its message.
BatchCancelled(k) ==
    /\ In(k, "working")
    /\ stream[k].aborted
    /\ ~Interrupted(k)
    /\ \/ Leave(k)
       \/ stream[k].kind = "resume" /\ End(k)

\* The batch throws for another reason.
BatchFails(k) ==
    /\ In(k, "working")
    /\ ~stream[k].aborted
    /\ End(k)

\* The last batch returns: nothing looks at the signal or the queue any more.
\* (A batch that is followed by another one leaves this state as it is.)
LastBatch(k) ==
    /\ In(k, "working")
    /\ stream[k].kind = "resume" => ~stream[k].cancelled
    /\ Leave(k)

\* The batch returns with approval requests, which it announced in the same
\* breath.  A turn without a thread has no recovery context: its approvals are
\* not modelled.  A resumed turn drops the requests if it is cancelled.
Block(k) ==
    /\ In(k, "working")
    /\ stream[k].thread # NoThread
    /\ stream[k].kind = "resume" => ~stream[k].cancelled
    /\ asked' = [asked EXCEPT ![k] = stream[k].sender]
    /\ stream' = [stream EXCEPT ![k] = [@ EXCEPT !.phase = "closing", !.blocked = TRUE]]
    /\ UNCHANGED <<runningThreads, reg>>

-----------------------------------------------------------------------------
(* What connections and other modules ask of the coordinator.             *)

Stop(s) ==
    /\ reg.active[s] # None
    /\ stream' = Cancelled({reg.active[s]})
    /\ reg' = IF reg.bySender[s] = None THEN reg
              ELSE [reg EXCEPT !.session[reg.bySender[s]].steerQueue = QueueAfterStop(@)]
    /\ UNCHANGED <<runningThreads, asked>>

\* cancelRun of a run that has not ended: abortStreamByRunId, and the
\* cancellation of its approvals.
CancelRun(k) ==
    /\ k \in Started
    /\ stream[k].phase = "working" \/ stream[k].blocked
    /\ stream' = Cancelled({k} \cap {reg.active[stream[k].sender]})
    /\ asked' = [asked EXCEPT ![k] = None]
    /\ UNCHANGED <<runningThreads, reg>>

\* The thread's lease was reclaimed: abortThreadRunForLeaseLoss.
LeaseLost(t) ==
    /\ t \in runningThreads
    /\ reg.byThread[t] # None
    /\ stream' = Cancelled({reg.session[reg.byThread[t]].streamState} \ {None})
    /\ UNCHANGED <<runningThreads, reg, asked>>

\* The messages that were accepted, and the number of the next one.
Said == UNION {ToSet(stream[k].sent) : k \in Started}
IsNext(m) == m \in Message \ Said /\ \A n \in Message \ Said : m <= n

\* A steering message that is acknowledged with success.
Steer(s, t) ==
    /\ t # NoThread => /\ reg.byThread[t] # None
                       /\ s \in reg.session[reg.byThread[t]].senderIds
    /\ reg.bySender[s] # None
    /\ SessionOf(reg, s).steerQueue # Closed
    /\ \E m \in Message :
        /\ IsNext(m)
        /\ reg' = [reg EXCEPT !.session[reg.bySender[s]].steerQueue = Append(@, m)]
        /\ LET k == reg.active[s]
           IN stream' = IF k = None THEN stream
                        ELSE [stream EXCEPT ![k] =
                                [@ EXCEPT !.sent = Append(stream[k].sent, m),
                                          !.steered = stream[k].steered \/ ~stream[k].cancelled,
                                          !.aborted = TRUE]]
    /\ UNCHANGED <<runningThreads, asked>>

\* The last answer to the approvals of stream j, by sender s or by their
\* timeout: the turn resumes at s, in place of what s is streaming.
Resume(s, j) ==
    /\ NextId \in Stream
    /\ j \in Started
    /\ asked[j] # None
    /\ Admitted(stream[j].thread)
    /\ runningThreads' = Locked(stream[j].thread)
    /\ asked' = [asked EXCEPT ![j] = None]
    /\ stream' = Append(Cancelled(Superseded(s)),
                        New("resume", s, stream[j].thread, stream[j].message))
    /\ reg' = Swept([Detached(reg, s) EXCEPT !.active[s] = NextId])

\* An answer that leaves others outstanding: the approvals now belong to s.
AnswerOne(s, j) ==
    /\ j \in Started
    /\ asked[j] # None
    /\ Admitted(stream[j].thread)
    /\ asked' = [asked EXCEPT ![j] = s]
    /\ UNCHANGED <<runningThreads, reg, stream>>

Next ==
    \/ \E s \in Sender, t \in Thread \cup {NoThread} : StartTurn(s, t) \/ Steer(s, t)
    \/ \E k \in Stream :
          \/ Prepared(k) \/ PreparationThrows(k)
          \/ TakeSteer(k) \/ BatchCancelled(k) \/ BatchFails(k) \/ LastBatch(k)
          \/ Block(k) \/ Close(k) \/ CancelRun(k)
    \/ \E s \in Sender : Stop(s)
    \/ \E t \in Thread : LeaseLost(t)
    \/ \E s \in Sender, j \in Stream : Resume(s, j) \/ AnswerOne(s, j)

Spec == Init /\ [][Next]_vars

\* The preparation and the write of the message return, and a batch stops at
\* an aborted signal.
Fairness ==
    \A k \in Stream : /\ WF_vars(Prepared(k) \/ PreparationThrows(k))
                      /\ WF_vars(TakeSteer(k) \/ BatchCancelled(k))
                      /\ WF_vars(Close(k))

FairSpec == Spec /\ Fairness

-----------------------------------------------------------------------------
(* Properties.                                                             *)

\* A turn that nobody cancelled can be reached by every operation that is meant
\* for it: stop and supersession through its sender, steering and lease loss
\* through the session of its thread.  No end of an older turn, whatever its
\* sender and thread, takes any of these links away.
Linked(k) ==
    LET s == stream[k].sender
        t == stream[k].thread
        x == reg.bySender[s]
    IN /\ x # None
       /\ reg.session[x].streamState = k
       /\ reg.session[x].steerQueue # Closed
       /\ reg.session[x].threadId = t
       /\ reg.session[x].senderIds = {s}
       /\ t # NoThread => reg.byThread[t] = x

LiveTurnReachable ==
    \A k \in Live :
        ~stream[k].cancelled => /\ reg.active[stream[k].sender] = k
                                /\ stream[k].kind = "turn" => Linked(k)

\* The maps hold nothing of turns that have ended: a connection that is idle
\* can neither be stopped nor steered, and a thread keeps no members.
NothingLeftBehind ==
    /\ \A s \in Sender :
          /\ reg.active[s] # None => reg.active[s] \in Live
          /\ reg.bySender[s] # None => reg.active[s] # None
    /\ \A t \in Thread :
          reg.byThread[t] # None =>
              \E s \in Sender : reg.bySender[s] = reg.byThread[t]

\* The registry is exactly that of the turns that live.
RegistryExact == LiveTurnReachable /\ NothingLeftBehind

\* A turn reads the messages that were sent to it and no others, each once and
\* in order, and while nobody cancels it the rest wait in its queue.
SteeringExact ==
    \A k \in Started :
        /\ IsPrefix(stream[k].heard, stream[k].sent)
        /\ stream[k].kind = "turn" /\ k \in Live /\ ~stream[k].cancelled
              => stream[k].sent = stream[k].heard \o SteerMessages(reg, stream[k].sender)

\* The approvals of a blocked turn go away only when they are answered and the
\* turn resumes, or when its run is cancelled: no other turn's end cleans them.
BlockedKeepsApprovals ==
    [][\A k \in Started :
         asked[k] # None /\ asked'[k] = None
            => \/ CancelRun(k)
               \/ /\ Len(stream') = NextId
                  /\ stream'[NextId].message = stream[k].message]_vars

\* A cancelled turn ends, whatever was awaited when it was cancelled, and gives
\* its thread back.
CancelledEnds ==
    \A k \in Stream :
        (k \in Started /\ stream[k].cancelled) ~> (k \in Started /\ k \notin Live)

\* What the acknowledgement of a steering message and the backend's README
\* ("Steering appends feedback once") promise: a turn that nobody cancelled
\* ends having read everything.  The code does not keep it.
AcknowledgedSteerRead ==
    \A k \in Started :
        stream[k].phase = "ended" /\ ~stream[k].cancelled
            => stream[k].heard = stream[k].sent

\* In its process the registry's set of running threads is an implementation of
\* admission: a turn that has not ended executes its thread, alone.  (One that
\* was started without a thread executes none.)
Executing(t) == {k \in Live : stream[k].thread = t}
Admission == INSTANCE ThreadAdmission
    WITH executing <- [t \in Thread |-> Executing(t)], TurnId <- Stream
ImplementsAdmission == Admission!Spec
=============================================================================
