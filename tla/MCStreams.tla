------------------------------ MODULE MCStreams ------------------------------
(* The two ends of the chat stream, in one run of TLC: the registry of turns in
   the backend (ThreadStreams) and a window of the desktop (ChatTransport).
   They share no state in these models; `part` says which of them a behaviour
   is about, and the other stays in its initial state.  The state graph is the
   disjoint union of theirs.

   ThreadStreams is extended and not instantiated, so that TLC evaluates its
   assumptions; that about the constants of ChatTransport stands here.      *)
EXTENDS ThreadStreams, TLC

CONSTANTS
    MaxTurns,                      \* of ChatTransport
    Absent                         \* its None

ASSUME WindowAssumption == MaxTurns \in Nat /\ Absent \notin Nat \cup Thread

VARIABLES part, composer, port, slot, turn, current, up, down

Window == INSTANCE ChatTransport WITH None <- Absent

windowVars == <<composer, port, slot, turn, current, up, down>>

StreamsInit == part \in {"registry", "window"} /\ Init /\ Window!Init

StreamsNext ==
    \/ part = "registry" /\ Next /\ UNCHANGED <<part, windowVars>>
    \/ part = "window" /\ Window!Next /\ UNCHANGED <<part, vars>>

StreamsSpec == StreamsInit /\ [][StreamsNext]_<<part, vars, windowVars>>

\* Senders and threads are interchangeable; turns and messages are numbered in
\* the order of their appearance.
Symmetry == Permutations(Sender) \cup Permutations(Thread)

-----------------------------------------------------------------------------
(* Properties: those of the components, each stated and explained there.   *)

\* The type invariants of the registry and of the window.
StreamsTypeOK == TypeOK /\ Window!TypeOK
\* The stream of a send holds what its turn pushed.
StreamExact == Window!StreamExact
\* A message is saved under the thread it was sent in.
SavedUnderOwnThread == Window!SavedUnderOwnThread
\* The end of its turn frees the composer.
NothingLeftOpen == Window!NothingLeftOpen
=============================================================================
