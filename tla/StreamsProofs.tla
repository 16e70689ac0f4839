---------------------------- MODULE StreamsProofs ----------------------------
(***************************************************************************)
(* The two ends of the chat stream, proved together as they are checked     *)
(* together: beside the invariant of the registry, that of a window, for    *)
(* any number of turns and threads.                                         *)
(***************************************************************************)
EXTENDS MCStreams, ThreadStreamsProofs

-----------------------------------------------------------------------------
(* The inductive invariant of the window.                                   *)

Kind == {"stream", "stop", "leave", "start", "end", "result", "stopped", "left"}
Msgs == [kind : Kind, of : (1..MaxTurns) \cup Thread \cup {Absent}]
Chunks(m) == m.kind \in Window!ChunkKind

\* A turn is prepared only while another one may follow.
WindowTyped ==
    /\ Window!TypeOK /\ up \in Seq(Msgs) /\ down \in Seq(Msgs)
    /\ Len(turn) <= MaxTurns
    /\ composer.preparing # Absent => Len(turn) < MaxTurns

\* The one slot that is open is the active one: it is that of the last turn, and
\* the transport is bound to its thread.
ActiveIsOpen ==
    /\ port.active # Absent =>
          /\ port.active \in Window!Turns /\ port.active = Len(turn)
          /\ port.bound = turn[port.active].thread
    /\ \A k \in Window!Turns : ~slot[k].closed <=> port.active = k

Sent(kinds) == \E i \in DOMAIN up : up[i].kind \in kinds
Coming(kinds) == \E i \in DOMAIN down : down[i].kind \in kinds

\* What the composer waits for is on its way.
ComposerServed ==
    /\ composer.loading => port.active # Absent
    /\ composer.stopping => Sent({"stop"}) \/ Coming({"stopped"})
    /\ composer.leaving => Sent({"leave"}) \/ Coming({"left"})

\* A turn is asked for once, and has not begun before it is.
AskedOnce ==
    /\ \A i \in DOMAIN up :
          /\ up[i].kind = "stream" =>
                up[i].of \in Window!Turns /\ turn[up[i].of].phase = "requested"
          /\ up[i].kind = "leave" => up[i].of \in Thread \cup {Absent}
    /\ \A i, j \in DOMAIN up :
          up[i].kind = "stream" /\ up[j].kind = "stream" /\ up[i].of = up[j].of => i = j

\* No other turn may push behind the start of the last one.
Alone == Len(turn) # 0 /\ ~slot[Len(turn)].crossed

\* A chunk that is on its way was pushed by its turn; a result says it is over;
\* and what the open slot is going to take of the chunks is its own.
Fine(m) ==
    /\ Chunks(m) => m.of \in Window!Turns /\ m.kind \in turn[m.of].emitted
    /\ m.kind = "result" => m.of \in Window!Turns /\ turn[m.of].phase = "over"
    /\ m.kind = "left" => m.of \in Thread \cup {Absent}
    /\ Alone /\ (m.kind = "start" \/ (Chunks(m) /\ slot[Len(turn)].bound)) => m.of = Len(turn)

\* Nothing of a turn comes behind its end or its result, and nothing of another
\* turn behind the start of one that is alone.
InOrder(a, b) ==
    Chunks(b) =>
        /\ a.kind \in {"end", "result"} => a.of # b.of
        /\ Alone /\ a.kind = "start" => b.of = Len(turn)

Delivered ==
    /\ \A i \in DOMAIN down : Fine(down[i])
    /\ \A i, j \in DOMAIN down : i < j => InOrder(down[i], down[j])

TurnSound(k) ==
    /\ turn[k].phase = "requested" => turn[k].emitted = {}
    /\ turn[k].emitted # {} => "start" \in turn[k].emitted
    /\ "end" \in turn[k].emitted => turn[k].phase \in {"closing", "over"}
    /\ turn[k].phase = "over" /\ ~slot[k].closed =>
          \E i \in DOMAIN down : down[i].kind = "result" /\ down[i].of = k
    /\ Alone /\ k # Len(turn) => turn[k].phase \in {"closing", "over"}

\* The kinds of chunk that slot k has, and those of its turn on their way.
Shown(k) == {c.kind : c \in slot[k].content}
Pending(k) == {x \in Window!ChunkKind :
                  \E i \in DOMAIN down : down[i].kind = x /\ down[i].of = k}

SlotSound(k) ==
    /\ slot[k].saved # Absent => slot[k].closed /\ (slot[k].cut \/ slot[k].saved = turn[k].thread)
    /\ ~slot[k].closed => ~slot[k].cut
    /\ slot[k].content # {} => slot[k].bound
    /\ ~slot[k].crossed =>
          /\ \A c \in slot[k].content : c.turn = k
          /\ slot[k].closed /\ ~slot[k].cut =>
                Shown(k) = turn[k].emitted /\ turn[k].phase \in {"closing", "over"}
          /\ ~slot[k].closed => Shown(k) \cup Pending(k) = turn[k].emitted

WindowInv ==
    /\ WindowTyped /\ ActiveIsOpen /\ ComposerServed /\ AskedOnce /\ Delivered
    /\ \A k \in Window!Turns : TurnSound(k) /\ SlotSound(k)

-----------------------------------------------------------------------------
(* Types, and the channels as sets of messages.                             *)

LEMMA WindowTypes ==
    ASSUME WindowTyped
    PROVE  /\ Len(turn) \in Nat /\ Len(turn) <= MaxTurns /\ Len(slot) = Len(turn)
           /\ Window!Turns = 1..Len(turn) /\ DOMAIN turn = 1..Len(turn)
           /\ DOMAIN slot = 1..Len(turn)
           /\ \A k \in Window!Turns : turn[k] \in Window!Turn /\ slot[k] \in Window!Slot
           /\ Absent \notin Nat /\ Absent \notin Thread /\ MaxTurns \in Nat
           /\ port.bound \in Thread \cup {Absent} /\ port.view \in Thread \cup {Absent}
<1>1. turn \in Seq(Window!Turn) /\ slot \in Seq(Window!Slot) /\ Len(turn) = Len(slot)
  BY DEF WindowTyped, Window!TypeOK
<1>2. Len(turn) \in Nat /\ DOMAIN turn = 1..Len(turn) /\ DOMAIN slot = 1..Len(slot)
  BY <1>1, LenProperties
<1>3. \A k \in 1..Len(turn) : turn[k] \in Window!Turn /\ slot[k] \in Window!Slot
  BY <1>1, ElementOfSeq
<1>4. port.bound \in Thread \cup {Absent} /\ port.view \in Thread \cup {Absent}
  BY DEF WindowTyped, Window!TypeOK
<1> QED
  BY <1>1, <1>2, <1>3, <1>4, WindowAssumption DEF WindowTyped, Window!Turns

\* A record for every turn makes a sequence.
LEMMA MadeSeq ==
    ASSUME NEW S, NEW n \in Nat, NEW f, f = [i \in 1..n |-> f[i]], \A i \in 1..n : f[i] \in S
    PROVE  f \in Seq(S) /\ Len(f) = n /\ DOMAIN f = 1..n
<1>1. f \in [1..n -> S]
  OBVIOUS
<1> QED
  BY <1>1, SeqDef, LenProperties

LEMMA TailIs ==
    ASSUME NEW S, NEW q \in Seq(S), q # <<>>
    PROVE  /\ Tail(q) \in Seq(S) /\ Head(q) = q[1] /\ Head(q) \in S
           /\ 1 \in DOMAIN q /\ DOMAIN Tail(q) = 1..(Len(q) - 1) /\ DOMAIN q = 1..Len(q)
           /\ Len(q) \in Nat /\ Len(q) >= 1
           /\ \A i \in DOMAIN Tail(q) : i + 1 \in DOMAIN q /\ Tail(q)[i] = q[i + 1]
           /\ \A i \in DOMAIN q : i # 1 => i - 1 \in DOMAIN Tail(q) /\ Tail(q)[i - 1] = q[i]
<1>1. Tail(q) \in Seq(S) /\ Head(q) = q[1] /\ Head(q) \in S /\ Len(Tail(q)) = Len(q) - 1
      /\ \A i \in 1..Len(Tail(q)) : Tail(q)[i] = q[i + 1]
  BY HeadTailProperties
<1>2. Len(q) \in Nat /\ Len(q) # 0 /\ DOMAIN q = 1..Len(q)
  BY LenProperties, EmptySeq
<1>3. DOMAIN Tail(q) = 1..(Len(q) - 1)
  BY <1>1, LenProperties
<1> QED
  BY <1>1, <1>2, <1>3

LEMMA AppendIs ==
    ASSUME NEW S, NEW q \in Seq(S), NEW m \in S
    PROVE  /\ Append(q, m) \in Seq(S) /\ DOMAIN Append(q, m) = 1..(Len(q) + 1)
           /\ Len(q) \in Nat /\ DOMAIN q = 1..Len(q) /\ Len(Append(q, m)) = Len(q) + 1
           /\ \A i \in DOMAIN q : i \in DOMAIN Append(q, m) /\ Append(q, m)[i] = q[i]
           /\ Len(q) + 1 \in DOMAIN Append(q, m) /\ Append(q, m)[Len(q) + 1] = m
<1>1. Append(q, m) \in Seq(S) /\ Len(Append(q, m)) = Len(q) + 1
      /\ (\A i \in 1..Len(q) : Append(q, m)[i] = q[i]) /\ Append(q, m)[Len(q) + 1] = m
  BY AppendProperties
<1>2. Len(q) \in Nat /\ DOMAIN q = 1..Len(q) /\ DOMAIN Append(q, m) = 1..(Len(q) + 1)
  BY <1>1, LenProperties
<1> QED
  BY <1>1, <1>2

LEMMA ConcatIs ==
    ASSUME NEW S, NEW q \in Seq(S), NEW m \in Seq(S)
    PROVE  /\ q \o m \in Seq(S) /\ DOMAIN (q \o m) = 1..(Len(q) + Len(m))
           /\ Len(q) \in Nat /\ DOMAIN q = 1..Len(q) /\ Len(m) \in Nat /\ DOMAIN m = 1..Len(m)
           /\ \A i \in DOMAIN q : i \in DOMAIN (q \o m) /\ (q \o m)[i] = q[i]
           /\ \A i \in DOMAIN m : Len(q) + i \in DOMAIN (q \o m) /\ (q \o m)[Len(q) + i] = m[i]
           /\ \A i \in DOMAIN (q \o m) :
                 i \notin DOMAIN q => i - Len(q) \in DOMAIN m /\ (q \o m)[i] = m[i - Len(q)]
<1>1. q \o m \in Seq(S) /\ Len(q \o m) = Len(q) + Len(m)
      /\ \A i \in 1..(Len(q) + Len(m)) :
            (q \o m)[i] = IF i <= Len(q) THEN q[i] ELSE m[i - Len(q)]
  BY ConcatProperties
<1>2. Len(q) \in Nat /\ DOMAIN q = 1..Len(q) /\ Len(m) \in Nat /\ DOMAIN m = 1..Len(m)
      /\ DOMAIN (q \o m) = 1..(Len(q) + Len(m))
  BY <1>1, LenProperties
<1>3. \A i \in DOMAIN q : i \in DOMAIN (q \o m) /\ (q \o m)[i] = q[i]
  BY <1>1, <1>2
<1>4. \A i \in DOMAIN m : Len(q) + i \in DOMAIN (q \o m) /\ (q \o m)[Len(q) + i] = m[i]
  BY <1>1, <1>2
<1>5. \A i \in DOMAIN (q \o m) :
         i \notin DOMAIN q => i - Len(q) \in DOMAIN m /\ (q \o m)[i] = m[i - Len(q)]
  BY <1>1, <1>2
<1> QED
  BY <1>1, <1>2, <1>3, <1>4, <1>5

-----------------------------------------------------------------------------
(* Steps of the main process: they push behind what is on its way.          *)

Unseen == UNCHANGED <<composer, port, slot>>

KindsIn(m) == {x \in Window!ChunkKind : \E i \in DOMAIN m : m[i].kind = x}

\* Turn k, if it is one, goes on and pushes m.
Moved(k, m) ==
    /\ turn'[k].emitted = turn[k].emitted \cup KindsIn(m)
    /\ turn'[k].phase = "requested" => turn[k].phase = "requested" /\ turn'[k].emitted = {}
    /\ turn'[k].emitted # {} => "start" \in turn'[k].emitted
    /\ "end" \in turn'[k].emitted => turn'[k].phase \in {"closing", "over"}
    /\ turn[k].phase \in {"closing", "over"} =>
          turn'[k].phase \in {"closing", "over"} /\ KindsIn(m) = {}
    /\ turn[k].phase = "over" => turn'[k].phase = "over"
    /\ turn'[k].phase = "over" =>
          turn[k].phase = "over" \/ \E i \in DOMAIN m : m[i].kind = "result" /\ m[i].of = k

Pushed(k, m) ==
    /\ m \in Seq(Msgs)
    /\ \A i \in DOMAIN m :
          /\ Chunks(m[i]) \/ m[i].kind = "result" => k \in Window!Turns /\ m[i].of = k
          /\ m[i].kind = "result" => turn'[k].phase = "over"
          /\ m[i].kind = "left" => m[i].of \in Thread \cup {Absent}
    /\ \A i, j \in DOMAIN m :
          i < j /\ Chunks(m[j]) => m[i].kind \notin {"end", "result"}

Advances(k, m) ==
    /\ turn' \in Seq(Window!Turn) /\ Len(turn') = Len(turn)
    /\ \A j \in Window!Turns :
          /\ turn'[j].thread = turn[j].thread
          /\ j # k => turn'[j].phase = turn[j].phase /\ turn'[j].emitted = turn[j].emitted
    /\ k \in Window!Turns => Moved(k, m)
    /\ Pushed(k, m)

\* What was asked is taken from the channel and, if the window waits, answered.
Heeds(k, m) ==
    \/ up' = up /\ (k \in Window!Turns => turn[k].phase # "requested")
    \/ /\ up # <<>> /\ up' = Tail(up)
       /\ \/ up[1].kind = "stream" /\ up[1].of = k
          \/ up[1].kind = "stop" /\ k = Absent /\ \E i \in DOMAIN m : m[i].kind = "stopped"
          \/ up[1].kind = "leave" /\ k = Absent /\ \E i \in DOMAIN m : m[i].kind = "left"

LEMMA MainTyped ==
    ASSUME WindowTyped, Unseen, NEW k, NEW m, Advances(k, m), down' = down \o m, Heeds(k, m),
           current' \in Window!Turns \cup {Absent}
    PROVE  WindowTyped' /\ (Window!Turns)' = Window!Turns
<1>1. turn' \in Seq(Window!Turn) /\ Len(turn') = Len(turn) /\ m \in Seq(Msgs)
  BY DEF Advances, Pushed
<1>2. (Window!Turns)' = Window!Turns
  <2>1. DOMAIN turn' = 1..Len(turn')
    BY <1>1, LenProperties
  <2> QED
    BY <1>1, <2>1, WindowTypes DEF Window!Turns
<1>3. down' \in Seq(Msgs)
  BY <1>1, ConcatIs DEF WindowTyped
<1>4. up' \in Seq(Msgs)
  <2>1. up \in Seq(Msgs)
    BY DEF WindowTyped
  <2>2. up' = up \/ (up # <<>> /\ up' = Tail(up))
    BY DEF Heeds
  <2>3. up # <<>> => Tail(up) \in Seq(Msgs)
    BY <2>1, TailIs
  <2> QED
    BY <2>1, <2>2, <2>3
<1>5. /\ composer' = composer /\ port' = port /\ slot' = slot
  BY DEF Unseen
<1> QED
  BY <1>1, <1>2, <1>3, <1>4, <1>5 DEF WindowTyped, Window!TypeOK

LEMMA MainComposer ==
    ASSUME WindowInv, Unseen, NEW k, NEW m, Advances(k, m), down' = down \o m, Heeds(k, m)
    PROVE  ComposerServed'
<1> USE DEF ComposerServed
<1>1. up \in Seq(Msgs) /\ down \in Seq(Msgs) /\ m \in Seq(Msgs) /\ ComposerServed
  BY DEF WindowInv, WindowTyped, Advances, Pushed
<1>2. composer' = composer /\ port' = port
  BY DEF Unseen
<1>3. ASSUME NEW kind, Coming({kind}) \/ \E i \in DOMAIN m : m[i].kind = kind
      PROVE  Coming({kind})'
  <2>1. /\ \A i \in DOMAIN down : i \in DOMAIN down' /\ down'[i] = down[i]
        /\ \A i \in DOMAIN m : Len(down) + i \in DOMAIN down' /\ down'[Len(down) + i] = m[i]
    BY <1>1, ConcatIs
  <2> QED
    BY <1>3, <2>1 DEF Coming
<1>4. ASSUME NEW kind, NEW answer, Sent({kind}),
             up # <<>> /\ up[1].kind = kind /\ up' = Tail(up) =>
                \E i \in DOMAIN m : m[i].kind = answer
      PROVE  Sent({kind})' \/ Coming({answer})'
  <2>1. CASE up' = up
    BY <1>4, <2>1 DEF Sent
  <2>2. CASE up # <<>> /\ up' = Tail(up)
    <3>1. PICK i \in DOMAIN up : up[i].kind = kind
      BY <1>4 DEF Sent
    <3>2. CASE i = 1
      BY <1>3, <1>4, <2>2, <3>1, <3>2
    <3>3. CASE i # 1
      <4>1. i - 1 \in DOMAIN up' /\ up'[i - 1] = up[i]
        BY <1>1, <2>2, <3>3, TailIs
      <4> QED
        BY <3>1, <4>1 DEF Sent
    <3> QED
      BY <3>2, <3>3
  <2> QED
    BY <2>1, <2>2 DEF Heeds
<1>5. composer.stopping => Sent({"stop"})' \/ Coming({"stopped"})'
  <2>1. up # <<>> /\ up[1].kind = "stop" /\ up' = Tail(up) =>
           up' = up \/ \E i \in DOMAIN m : m[i].kind = "stopped"
    BY DEF Heeds
  <2>2. up # <<>> /\ up' = Tail(up) => up' # up
    <3> SUFFICES ASSUME up # <<>>, up' = Tail(up) PROVE DOMAIN up' # DOMAIN up
      OBVIOUS
    <3> QED
      BY <1>1, TailIs
  <2> QED
    BY <1>1, <1>3, <1>4, <2>1, <2>2
<1>6. composer.leaving => Sent({"leave"})' \/ Coming({"left"})'
  <2>1. up # <<>> /\ up[1].kind = "leave" /\ up' = Tail(up) =>
           up' = up \/ \E i \in DOMAIN m : m[i].kind = "left"
    BY DEF Heeds
  <2>2. up # <<>> /\ up' = Tail(up) => up' # up
    <3> SUFFICES ASSUME up # <<>>, up' = Tail(up) PROVE DOMAIN up' # DOMAIN up
      OBVIOUS
    <3> QED
      BY <1>1, TailIs
  <2> QED
    BY <1>1, <1>3, <1>4, <2>1, <2>2
<1> QED
  BY <1>1, <1>2, <1>5, <1>6

LEMMA MainAsked ==
    ASSUME WindowInv, NEW k, NEW m, Advances(k, m), Heeds(k, m), (Window!Turns)' = Window!Turns
    PROVE  AskedOnce'
<1>1. up \in Seq(Msgs) /\ AskedOnce
  BY DEF WindowInv, WindowTyped
<1>2. \A j \in Window!Turns : turn[j].phase = "requested" /\ j # k => turn'[j].phase = "requested"
  BY DEF Advances
<1>3. CASE up' = up /\ (k \in Window!Turns => turn[k].phase # "requested")
  BY <1>1, <1>2, <1>3 DEF AskedOnce
<1>4. CASE up # <<>> /\ up' = Tail(up) /\ up[1].kind \in {"stop", "leave"} /\ k = Absent
  <2>1. Absent \notin Window!Turns
    BY WindowTypes DEF WindowInv
  <2>2. \A i \in DOMAIN up' : i + 1 \in DOMAIN up /\ up'[i] = up[i + 1] /\ i \in Nat
    BY <1>1, <1>4, TailIs
  <2> QED
    BY <1>1, <1>2, <1>4, <2>1, <2>2 DEF AskedOnce
<1>5. CASE up # <<>> /\ up' = Tail(up) /\ up[1].kind = "stream" /\ up[1].of = k
  <2>1. /\ 1 \in DOMAIN up
        /\ \A i \in DOMAIN up' : /\ i + 1 \in DOMAIN up /\ up'[i] = up[i + 1] /\ i \in Nat
                                 /\ i + 1 # 1
    BY <1>1, <1>5, TailIs
  <2>2. \A i \in DOMAIN up' : up'[i].kind = "stream" => up'[i].of # k
    BY <1>1, <1>5, <2>1 DEF AskedOnce
  <2> QED
    BY <1>1, <1>2, <2>1, <2>2 DEF AskedOnce
<1> QED
  BY <1>3, <1>4, <1>5 DEF Heeds

\* A turn that pushes a chunk has not ended, and is the last if that is alone.
LEMMA PushesOwn ==
    ASSUME WindowInv, NEW k, NEW m, Advances(k, m), NEW j \in DOMAIN m, Chunks(m[j])
    PROVE  /\ k \in Window!Turns /\ m[j].of = k /\ m[j].kind \in turn'[k].emitted
           /\ turn[k].phase \notin {"closing", "over"}
           /\ Alone => k = Len(turn)
<1>1. k \in Window!Turns /\ m[j].of = k /\ Moved(k, m)
  BY DEF Advances, Pushed
<1>2. m[j].kind \in KindsIn(m)
  BY DEF KindsIn, Chunks
<1>3. turn[k].phase \notin {"closing", "over"} /\ m[j].kind \in turn'[k].emitted
  BY <1>1, <1>2 DEF Moved
<1>4. TurnSound(k)
  BY <1>1 DEF WindowInv
<1> QED
  BY <1>1, <1>3, <1>4 DEF TurnSound

LEMMA MainDelivered ==
    ASSUME WindowInv, Unseen, NEW k, NEW m, Advances(k, m), down' = down \o m,
           (Window!Turns)' = Window!Turns
    PROVE  Delivered'
<1>1. down \in Seq(Msgs) /\ m \in Seq(Msgs) /\ Delivered
  BY DEF WindowInv, WindowTyped, Advances, Pushed
<1>2. Alone' = Alone /\ Len(turn') = Len(turn) /\ slot' = slot
  BY DEF Alone, Unseen, Advances
<1>3. \A j \in Window!Turns : /\ turn[j].emitted \subseteq turn'[j].emitted
                              /\ turn[j].phase = "over" => turn'[j].phase = "over"
  BY DEF Advances, Moved
<1>4. ASSUME NEW i \in DOMAIN down
      PROVE  Fine(down[i]) /\ \A x : x = down[i] => Fine(x)'
  <2>1. Fine(down[i])
    BY <1>1 DEF Delivered
  <2> QED
    BY <1>2, <1>3, <2>1 DEF Fine, Chunks
<1>5. ASSUME NEW j \in DOMAIN m
      PROVE  Fine(m[j])'
  <2>1. m[j].kind = "result" => m[j].of \in Window!Turns /\ turn'[m[j].of].phase = "over"
    BY DEF Advances, Pushed
  <2>2. m[j].kind = "left" => m[j].of \in Thread \cup {Absent}
    BY DEF Advances, Pushed
  <2>3. CASE Chunks(m[j])
    BY <1>2, <2>1, <2>2, <2>3, PushesOwn DEF Fine, Chunks
  <2>4. CASE ~Chunks(m[j])
    <3>1. m[j].kind # "start"
      BY <2>4 DEF Chunks, Window!ChunkKind
    <3> QED
      BY <2>1, <2>2, <2>4, <3>1 DEF Fine, Chunks
  <2> QED
    BY <2>3, <2>4
<1>6. /\ DOMAIN down = 1..Len(down) /\ Len(down) \in Nat
      /\ \A i \in DOMAIN down' :
            \/ i \in DOMAIN down /\ down'[i] = down[i]
            \/ i \notin DOMAIN down /\ i > Len(down)
               /\ i - Len(down) \in DOMAIN m /\ down'[i] = m[i - Len(down)]
  BY <1>1, ConcatIs
<1>7. ASSUME NEW i \in DOMAIN down' PROVE Fine(down[i])'
  <2>1. PICK x : x = down'[i]
    OBVIOUS
  <2>2. Fine(x)'
    BY <1>4, <1>5, <1>6, <2>1
  <2> QED
    BY <2>1, <2>2 DEF Fine, Chunks
<1>8. ASSUME NEW i \in DOMAIN down', NEW j \in DOMAIN down', i < j
      PROVE  InOrder(down[i], down[j])'
  <2> SUFFICES ASSUME Chunks(down'[j])
               PROVE  /\ down'[i].kind \in {"end", "result"} => down'[i].of # down'[j].of
                      /\ Alone /\ down'[i].kind = "start" => down'[j].of = Len(turn)
    BY <1>2 DEF InOrder, Chunks
  <2>1. CASE i \in DOMAIN down /\ j \in DOMAIN down
    <3>1. InOrder(down[i], down[j]) /\ down'[i] = down[i] /\ down'[j] = down[j]
      BY <1>1, <1>6, <1>8, <2>1 DEF Delivered
    <3> QED
      BY <3>1 DEF InOrder
  <2>2. CASE i \in DOMAIN down /\ j \notin DOMAIN down
    <3>1. j - Len(down) \in DOMAIN m /\ down'[j] = m[j - Len(down)] /\ down'[i] = down[i]
      BY <1>6, <2>2
    <3>2. /\ k \in Window!Turns /\ down'[j].of = k /\ turn[k].phase \notin {"closing", "over"}
          /\ Alone => k = Len(turn)
      BY <3>1, PushesOwn
    <3>3. Fine(down[i]) /\ TurnSound(k)
      BY <1>4, <2>2, <3>2 DEF WindowInv
    <3>4. down[i].kind = "end" => Chunks(down[i])
      BY DEF Chunks, Window!ChunkKind
    <3> QED
      BY <3>1, <3>2, <3>3, <3>4 DEF Fine, TurnSound
  <2>3. CASE i \notin DOMAIN down /\ j \notin DOMAIN down
    <3>1. /\ j - Len(down) \in DOMAIN m /\ down'[j] = m[j - Len(down)]
          /\ i - Len(down) \in DOMAIN m /\ down'[i] = m[i - Len(down)]
      BY <1>6, <2>3
    <3>2. i - Len(down) < j - Len(down)
      <4>1. i \in Nat /\ j \in Nat
        BY <1>1, ConcatIs
      <4> QED
        BY <1>6, <1>8, <4>1
    <3>3. m[i - Len(down)].kind \notin {"end", "result"}
      BY <3>1, <3>2 DEF Advances, Pushed
    <3>4. Alone => down'[j].of = Len(turn)
      BY <3>1, PushesOwn
    <3> QED
      BY <3>1, <3>3, <3>4
  <2>4. i \notin DOMAIN down => j \notin DOMAIN down
    <3>1. i \in Nat /\ j \in Nat
      BY <1>1, ConcatIs
    <3> QED
      BY <1>6, <1>8, <3>1
  <2> QED
    BY <2>1, <2>2, <2>3, <2>4
<1> QED
  BY <1>7, <1>8 DEF Delivered

LEMMA MainTurns ==
    ASSUME WindowInv, Unseen, NEW k, NEW m, Advances(k, m), down' = down \o m,
           NEW j \in Window!Turns
    PROVE  TurnSound(j)'
<1>1. down \in Seq(Msgs) /\ m \in Seq(Msgs) /\ TurnSound(j)
  BY DEF WindowInv, WindowTyped, Advances, Pushed
<1>2. Alone' = Alone /\ Len(turn') = Len(turn) /\ slot' = slot
  BY DEF Alone, Unseen, Advances
<1>3. /\ \A i \in DOMAIN down : i \in DOMAIN down' /\ down'[i] = down[i]
      /\ \A i \in DOMAIN m : Len(down) + i \in DOMAIN down' /\ down'[Len(down) + i] = m[i]
  BY <1>1, ConcatIs
<1>4. CASE j # k
  <2>1. turn'[j].phase = turn[j].phase /\ turn'[j].emitted = turn[j].emitted
    BY <1>4 DEF Advances
  <2> QED
    BY <1>1, <1>2, <1>3, <2>1 DEF TurnSound
<1>5. CASE j = k
  <2>1. Moved(j, m)
    BY <1>5 DEF Advances
  <2>2. turn'[j].phase = "over" /\ ~slot[j].closed =>
           \E i \in DOMAIN down' : down'[i].kind = "result" /\ down'[i].of = j
    <3> SUFFICES ASSUME turn'[j].phase = "over", ~slot[j].closed
                 PROVE  \E i \in DOMAIN down' : down'[i].kind = "result" /\ down'[i].of = j
      OBVIOUS
    <3>1. CASE turn[j].phase = "over"
      BY <1>1, <1>3, <3>1 DEF TurnSound
    <3>2. CASE \E i \in DOMAIN m : m[i].kind = "result" /\ m[i].of = j
      BY <1>3, <3>2
    <3> QED
      BY <2>1, <3>1, <3>2 DEF Moved
  <2> QED
    BY <1>1, <1>2, <2>1, <2>2 DEF TurnSound, Moved
<1> QED
  BY <1>4, <1>5

LEMMA MainSlots ==
    ASSUME WindowInv, Unseen, NEW k, NEW m, Advances(k, m), down' = down \o m,
           NEW j \in Window!Turns
    PROVE  SlotSound(j)'
<1>1. down \in Seq(Msgs) /\ m \in Seq(Msgs) /\ SlotSound(j)
  BY DEF WindowInv, WindowTyped, Advances, Pushed
<1>2. slot' = slot /\ Shown(j)' = Shown(j) /\ turn'[j].thread = turn[j].thread
  BY DEF Shown, Unseen, Advances
<1>3. /\ \A i \in DOMAIN down : i \in DOMAIN down' /\ down'[i] = down[i]
      /\ \A i \in DOMAIN m : Len(down) + i \in DOMAIN down' /\ down'[Len(down) + i] = m[i]
      /\ \A i \in DOMAIN down' :
            \/ i \in DOMAIN down /\ down'[i] = down[i]
            \/ i - Len(down) \in DOMAIN m /\ down'[i] = m[i - Len(down)]
  BY <1>1, ConcatIs
<1>4. \A i \in DOMAIN m : m[i].kind \in Window!ChunkKind => m[i].of = k
  BY DEF Advances, Pushed, Chunks
<1>5. CASE j # k
  <2>1. turn'[j].phase = turn[j].phase /\ turn'[j].emitted = turn[j].emitted
    BY <1>5 DEF Advances
  <2>2. Pending(j)' = Pending(j)
    BY <1>3, <1>4, <1>5 DEF Pending
  <2> QED
    BY <1>1, <1>2, <2>1, <2>2 DEF SlotSound
<1>6. CASE j = k
  <2>1. Moved(j, m)
    BY <1>6 DEF Advances
  <2>2. Pending(j)' = Pending(j) \cup KindsIn(m)
    <3>1. ASSUME NEW x \in Window!ChunkKind
          PROVE  (\E i \in DOMAIN down' : down'[i].kind = x /\ down'[i].of = j)
                 <=> \/ \E i \in DOMAIN down : down[i].kind = x /\ down[i].of = j
                     \/ \E i \in DOMAIN m : m[i].kind = x
      <4>1. ASSUME NEW i \in DOMAIN m, m[i].kind = x
            PROVE  \E l \in DOMAIN down' : down'[l].kind = x /\ down'[l].of = j
        BY <1>3, <1>4, <1>6, <4>1
      <4>2. ASSUME NEW i \in DOMAIN down, down[i].kind = x /\ down[i].of = j
            PROVE  \E l \in DOMAIN down' : down'[l].kind = x /\ down'[l].of = j
        BY <1>3, <4>2
      <4> QED
        BY <1>3, <4>1, <4>2
    <3> QED
      BY <3>1 DEF Pending, KindsIn
  <2> QED
    BY <1>1, <1>2, <2>1, <2>2 DEF SlotSound, Moved
<1> QED
  BY <1>5, <1>6

LEMMA MainStep ==
    ASSUME WindowInv, Unseen, NEW k, NEW m, Advances(k, m), down' = down \o m, Heeds(k, m),
           current' \in Window!Turns \cup {Absent}
    PROVE  WindowInv'
<1>1. WindowTyped' /\ (Window!Turns)' = Window!Turns
  BY MainTyped DEF WindowInv
<1>2. ActiveIsOpen'
  <2>1. ActiveIsOpen /\ port' = port /\ slot' = slot /\ Len(turn') = Len(turn)
    BY DEF WindowInv, Unseen, Advances
  <2>2. \A j \in Window!Turns : turn'[j].thread = turn[j].thread
    BY DEF Advances
  <2> QED
    BY <1>1, <2>1, <2>2 DEF ActiveIsOpen
<1> QED
  BY <1>1, <1>2, MainComposer, MainAsked, MainDelivered, MainTurns, MainSlots DEF WindowInv

-----------------------------------------------------------------------------
(* The actions of the main process.                                         *)

Phases == {"requested", "preparing", "running", "closing", "over"}

Goes(k, phase, emitted) ==
    /\ turn' \in Seq(Window!Turn) /\ Len(turn') = Len(turn)
    /\ \A j \in Window!Turns :
          /\ turn'[j].thread = turn[j].thread
          /\ j # k => turn'[j].phase = turn[j].phase /\ turn'[j].emitted = turn[j].emitted
    /\ turn'[k].phase = phase /\ turn'[k].emitted = emitted

\* What a change of one turn makes of the sequence of turns.
LEMMA OneGoes ==
    ASSUME WindowTyped, NEW k \in Window!Turns, NEW r \in Window!Turn, NEW old,
           old \in [Window!Turns -> Window!Turn],
           \A j \in Window!Turns : /\ old[j].thread = turn[j].thread
                                   /\ old[j].phase = turn[j].phase
                                   /\ old[j].emitted = turn[j].emitted,
           r.thread = turn[k].thread, turn' = [old EXCEPT ![k] = r]
    PROVE  Goes(k, r.phase, r.emitted)
<1>1. Len(turn) \in Nat /\ Window!Turns = 1..Len(turn)
  BY WindowTypes
<1>2. turn' = [j \in 1..Len(turn) |-> turn'[j]] /\ turn'[k] = r
      /\ \A j \in 1..Len(turn) : turn'[j] \in Window!Turn /\ (j # k => turn'[j] = old[j])
  BY <1>1
<1>3. turn' \in Seq(Window!Turn) /\ Len(turn') = Len(turn)
  BY <1>1, <1>2, MadeSeq
<1> QED
  BY <1>1, <1>2, <1>3 DEF Goes

LEMMA TurnsAre ==
    ASSUME WindowTyped
    PROVE  turn \in [Window!Turns -> Window!Turn]
<1>1. turn \in Seq(Window!Turn)
  BY DEF WindowTyped, Window!TypeOK
<1>2. turn \in [1..Len(turn) -> Window!Turn]
  BY <1>1, LenProperties
<1> QED
  BY <1>2, WindowTypes

LEMMA PhaseGoes ==
    ASSUME WindowTyped, NEW k \in Window!Turns, NEW phase \in Phases,
           turn' = [turn EXCEPT ![k].phase = phase]
    PROVE  Goes(k, phase, turn[k].emitted)
<1>1. PICK r : r = [turn[k] EXCEPT !.phase = phase]
  OBVIOUS
<1>2. turn[k] \in Window!Turn
  BY WindowTypes
<1>3. r \in Window!Turn /\ r.phase = phase /\ r.emitted = turn[k].emitted
      /\ r.thread = turn[k].thread
  BY <1>1, <1>2 DEF Window!Turn, Phases
<1>4. turn' = [turn EXCEPT ![k] = r]
  BY <1>1
<1> QED
  BY <1>3, <1>4, OneGoes, TurnsAre

LEMMA EmittedGoes ==
    ASSUME WindowTyped, NEW k \in Window!Turns, NEW emitted \in SUBSET Window!ChunkKind,
           turn' = [turn EXCEPT ![k].emitted = emitted]
    PROVE  Goes(k, turn[k].phase, emitted)
<1>1. PICK r : r = [turn[k] EXCEPT !.emitted = emitted]
  OBVIOUS
<1>2. turn[k] \in Window!Turn
  BY WindowTypes
<1>3. r \in Window!Turn /\ r.phase = turn[k].phase /\ r.emitted = emitted
      /\ r.thread = turn[k].thread
  BY <1>1, <1>2 DEF Window!Turn
<1>4. turn' = [turn EXCEPT ![k] = r]
  BY <1>1
<1> QED
  BY <1>3, <1>4, OneGoes, TurnsAre

LEMMA BothGo ==
    ASSUME WindowTyped, NEW k \in Window!Turns, NEW phase \in Phases,
           NEW emitted \in SUBSET Window!ChunkKind,
           turn' = [turn EXCEPT ![k].phase = phase, ![k].emitted = emitted]
    PROVE  Goes(k, phase, emitted)
<1>1. PICK q : q = [turn[k] EXCEPT !.phase = phase]
  OBVIOUS
<1>2. PICK r : r = [q EXCEPT !.emitted = emitted]
  OBVIOUS
<1>3. turn[k] \in Window!Turn
  BY WindowTypes
<1>4. q \in Window!Turn /\ q.phase = phase /\ q.thread = turn[k].thread
  BY <1>1, <1>3 DEF Window!Turn, Phases
<1>5. r \in Window!Turn /\ r.phase = phase /\ r.emitted = emitted /\ r.thread = turn[k].thread
  BY <1>2, <1>4 DEF Window!Turn
<1>6. turn' = [turn EXCEPT ![k] = r]
  BY <1>1, <1>2
<1> QED
  BY <1>5, <1>6, OneGoes, TurnsAre

LEMMA SupersededTurns ==
    ASSUME WindowTyped, NEW old, old = Window!Superseding(turn)
    PROVE  /\ old \in [Window!Turns -> Window!Turn]
           /\ \A j \in Window!Turns : /\ old[j].thread = turn[j].thread
                                      /\ old[j].phase = turn[j].phase
                                      /\ old[j].emitted = turn[j].emitted
<1>1. turn \in [Window!Turns -> Window!Turn]
  BY TurnsAre
<1>2. CASE current = Absent
  BY <1>1, <1>2 DEF Window!Superseding
<1>3. CASE current # Absent
  <2>1. old = [turn EXCEPT ![current].cancelled = TRUE]
    BY <1>3 DEF Window!Superseding
  <2>2. current \in Window!Turns
    BY <1>3 DEF WindowTyped, Window!TypeOK
  <2>3. /\ \A j \in Window!Turns : j # current => old[j] = turn[j]
        /\ old[current] = [turn[current] EXCEPT !.cancelled = TRUE]
    BY <1>1, <2>1, <2>2
  <2>4. turn[current] \in Window!Turn
    BY <1>1, <2>2
  <2>5. /\ old[current] \in Window!Turn
        /\ old[current].thread = turn[current].thread
        /\ old[current].phase = turn[current].phase
        /\ old[current].emitted = turn[current].emitted
    BY <2>3, <2>4 DEF Window!Turn
  <2>6. old \in [Window!Turns -> Window!Turn]
    BY <1>1, <2>1, <2>2, <2>3, <2>5
  <2> QED
    BY <2>3, <2>5, <2>6
<1> QED
  BY <1>2, <1>3

\* The chunks that turn k pushes.
OwnChunks(k, kinds, m) ==
    /\ m \in Seq(Msgs)
    /\ \A i \in DOMAIN m : Chunks(m[i]) /\ m[i].of = k
    /\ \A i, j \in DOMAIN m : i < j => m[i].kind = "start"
    /\ Window!Emitted(k, kinds) = turn[k].emitted \cup KindsIn(m)

LEMMA ChunksPushed ==
    ASSUME WindowInv, NEW k \in Window!Turns, NEW kinds \in {{}, {"end"}},
           NEW m, m = Window!ChunksOf(k, kinds)
    PROVE  OwnChunks(k, kinds, m)
<1> DEFINE s == [kind |-> "start", of |-> k]
           e == [kind |-> "end", of |-> k]
<1>1. s \in Msgs /\ e \in Msgs
  BY WindowTypes DEF Msgs, Kind, WindowInv
<1>2. m = (IF "start" \in turn[k].emitted THEN <<>> ELSE <<s>>)
             \o (IF "end" \in kinds THEN <<e>> ELSE <<>>)
  BY DEF Window!ChunksOf, Window!Msg
<1>3. turn[k].emitted \subseteq {"start", "end"}
  BY WindowTypes DEF WindowInv, Window!Turn, Window!ChunkKind
<1> USE DEF OwnChunks, Chunks, KindsIn, Window!ChunkKind, Window!Emitted
<1>4. CASE "start" \in turn[k].emitted /\ kinds = {}
  <2>1. m = <<>>
    BY <1>2, <1>4
  <2>2. m \in Seq(Msgs) /\ DOMAIN m = {}
    BY <2>1
  <2>3. KindsIn(m) = {}
    BY <2>2
  <2> QED
    BY <1>3, <1>4, <2>2, <2>3
<1>5. CASE "start" \notin turn[k].emitted /\ kinds = {}
  <2>1. m = <<s>>
    BY <1>2, <1>5
  <2>2. m \in Seq(Msgs) /\ DOMAIN m = {1} /\ m[1] = s
    BY <1>1, <2>1
  <2>3. KindsIn(m) = {"start"}
    BY <2>2
  <2> QED
    BY <1>3, <1>5, <2>1, <2>2, <2>3
<1>6. CASE "start" \in turn[k].emitted /\ kinds = {"end"}
  <2>1. m = <<e>>
    BY <1>2, <1>6
  <2>2. m \in Seq(Msgs) /\ DOMAIN m = {1} /\ m[1] = e
    BY <1>1, <2>1
  <2>3. KindsIn(m) = {"end"}
    BY <2>2
  <2> QED
    BY <1>3, <1>6, <2>1, <2>2, <2>3
<1>7. CASE "start" \notin turn[k].emitted /\ kinds = {"end"}
  <2>1. m = <<s>> \o <<e>>
    BY <1>2, <1>7
  <2>2. m \in Seq(Msgs) /\ DOMAIN m = {1, 2} /\ m[1] = s /\ m[2] = e
    <3>1. /\ <<s>> \in Seq(Msgs) /\ Len(<<s>>) = 1 /\ <<s>>[1] = s
          /\ <<e>> \in Seq(Msgs) /\ Len(<<e>>) = 1 /\ <<e>>[1] = e
      BY <1>1
    <3>2. m \in Seq(Msgs) /\ Len(m) = 2 /\ m[1] = s /\ m[2] = e
      BY <2>1, <3>1, ConcatProperties
    <3>3. DOMAIN m = 1..2
      BY <3>2, LenProperties
    <3> QED
      BY <3>2, <3>3
  <2>3. KindsIn(m) = {"start", "end"}
    BY <2>2
  <2> QED
    BY <1>3, <1>7, <2>1, <2>2, <2>3
<1> QED
  BY <1>4, <1>5, <1>6, <1>7

\* Turn k, which runs, pushes its chunks.
LEMMA ChunkStep ==
    ASSUME WindowInv, Unseen, NEW k \in Window!Turns, NEW kinds \in {{}, {"end"}},
           turn[k].phase \in {"preparing", "running"},
           NEW phase \in {"preparing", "running", "closing"}, "end" \in kinds => phase = "closing",
           Goes(k, phase, Window!Emitted(k, kinds)), down' = down \o Window!ChunksOf(k, kinds),
           up' = up, current' = current
    PROVE  WindowInv'
<1>1. PICK m : m = Window!ChunksOf(k, kinds)
  OBVIOUS
<1>2. OwnChunks(k, kinds, m)
  BY <1>1, ChunksPushed
<1>3. TurnSound(k)
  BY DEF WindowInv
<1>4. Pushed(k, m)
  BY <1>2 DEF OwnChunks, Pushed, Chunks, Window!ChunkKind
<1>5. Moved(k, m)
  <2>1. "end" \in Window!Emitted(k, kinds) => phase = "closing"
    BY <1>3 DEF Window!Emitted, TurnSound
  <2>2. "start" \in Window!Emitted(k, kinds)
    BY DEF Window!Emitted
  <2> QED
    BY <1>2, <2>1, <2>2 DEF OwnChunks, Moved, Goes
<1>6. Advances(k, m)
  BY <1>4, <1>5 DEF Advances, Goes
<1>7. Heeds(k, m)
  BY DEF Heeds
<1>8. current' \in Window!Turns \cup {Absent}
  BY DEF WindowInv, WindowTyped, Window!TypeOK
<1> QED
  BY <1>1, <1>6, <1>7, <1>8, MainStep

\* Turn k goes on in silence.
LEMMA SilentStep ==
    ASSUME WindowInv, Unseen, NEW k \in Window!Turns,
           NEW phase \in {"preparing", "running", "closing"},
           Goes(k, phase, turn[k].emitted), turn[k].phase # "over",
           turn[k].phase = "closing" => phase = "closing",
           "end" \notin turn[k].emitted \/ phase = "closing", down' = down,
           Heeds(k, <<>>), current' \in Window!Turns \cup {Absent}
    PROVE  WindowInv'
<1>1. down' = down \o <<>>
  BY ConcatEmptySeq DEF WindowInv, WindowTyped
<1>2. KindsIn(<<>>) = {} /\ <<>> \in Seq(Msgs)
  BY DEF KindsIn
<1>3. TurnSound(k)
  BY DEF WindowInv
<1>4. Moved(k, <<>>)
  BY <1>2, <1>3 DEF Moved, Goes, TurnSound
<1>5. Pushed(k, <<>>)
  BY <1>2 DEF Pushed
<1>6. Advances(k, <<>>)
  BY <1>4, <1>5 DEF Advances, Goes
<1> QED
  BY <1>1, <1>6, MainStep

LEMMA OneMessage ==
    ASSUME NEW x \in Msgs, NEW m, m = <<x>>
    PROVE  m \in Seq(Msgs) /\ DOMAIN m = {1} /\ m[1] = x
BY DEF Msgs

\* The turn that is asked for has not begun.
LEMMA AskedTurn ==
    ASSUME WindowInv, Window!Handled("stream"), NEW k, k = Head(up).of
    PROVE  /\ k \in Window!Turns /\ turn[k].phase = "requested" /\ turn[k].emitted = {}
           /\ \A m : Heeds(k, m)
<1>1. up # <<>> /\ Head(up).kind = "stream" /\ up' = Tail(up)
  BY DEF Window!Handled
<1>2. 1 \in DOMAIN up /\ Head(up) = up[1]
  BY <1>1, TailIs DEF WindowInv, WindowTyped
<1>3. k \in Window!Turns /\ turn[k].phase = "requested"
  BY <1>1, <1>2 DEF WindowInv, AskedOnce
<1>4. TurnSound(k)
  BY <1>3 DEF WindowInv
<1> QED
  BY <1>1, <1>2, <1>3, <1>4 DEF TurnSound, Heeds

LEMMA RefuseStep == WindowInv /\ Window!RefuseStream => WindowInv'
<1> SUFFICES ASSUME WindowInv, Window!RefuseStream PROVE WindowInv'
  OBVIOUS
<1>1. PICK k : k = Head(up).of
  OBVIOUS
<1>2. PICK m : m = <<[kind |-> "result", of |-> k]>>
  OBVIOUS
<1>3. Unseen /\ Window!Handled("stream") /\ turn' = [turn EXCEPT ![k].phase = "over"]
      /\ down' = down \o m /\ current' = current
  BY <1>1, <1>2 DEF Window!RefuseStream, Window!Push, Window!Msg, Unseen
<1>4. k \in Window!Turns /\ turn[k].phase = "requested" /\ turn[k].emitted = {} /\ Heeds(k, m)
  BY <1>1, <1>3, AskedTurn
<1>5. Goes(k, "over", {})
  BY <1>3, <1>4, PhaseGoes DEF WindowInv, Phases
<1>6. m \in Seq(Msgs) /\ DOMAIN m = {1} /\ m[1] = [kind |-> "result", of |-> k]
  <2>1. [kind |-> "result", of |-> k] \in Msgs
    BY <1>4, WindowTypes DEF WindowInv, Msgs, Kind
  <2> QED
    BY <1>2, <2>1, OneMessage
<1>7. KindsIn(m) = {}
  BY <1>6 DEF KindsIn, Window!ChunkKind
<1>8. Advances(k, m)
  <2>1. Moved(k, m)
    BY <1>4, <1>5, <1>6, <1>7 DEF Moved, Goes
  <2>2. Pushed(k, m)
    BY <1>4, <1>5, <1>6 DEF Pushed, Goes, Chunks, Window!ChunkKind
  <2> QED
    BY <1>5, <2>1, <2>2 DEF Advances, Goes
<1>9. current' \in Window!Turns \cup {Absent}
  BY <1>3 DEF WindowInv, WindowTyped, Window!TypeOK
<1> QED
  BY <1>3, <1>4, <1>8, <1>9, MainStep

LEMMA LimitStep == WindowInv /\ Window!LimitStream => WindowInv'
<1> SUFFICES ASSUME WindowInv, Window!LimitStream PROVE WindowInv'
  OBVIOUS
<1>1. PICK k : k = Head(up).of
  OBVIOUS
<1>2. PICK c, r, m : /\ c = Window!ChunksOf(k, {"end"}) /\ r = <<[kind |-> "result", of |-> k]>>
                     /\ m = c \o r
  OBVIOUS
<1>3. Unseen /\ Window!Handled("stream") /\ down' = down \o m /\ current' = current
      /\ turn' = [turn EXCEPT ![k].phase = "over", ![k].emitted = Window!Emitted(k, {"end"})]
  BY <1>1, <1>2 DEF Window!LimitStream, Window!Push, Window!Msg, Unseen
<1>4. k \in Window!Turns /\ turn[k].phase = "requested" /\ turn[k].emitted = {} /\ Heeds(k, m)
  BY <1>1, <1>3, AskedTurn
<1>5. Goes(k, "over", Window!Emitted(k, {"end"}))
  <2>1. Window!Emitted(k, {"end"}) \in SUBSET Window!ChunkKind
    BY <1>4 DEF Window!Emitted, Window!ChunkKind
  <2> QED
    BY <1>3, <1>4, <2>1, BothGo DEF WindowInv, Phases
<1>6. r \in Seq(Msgs) /\ DOMAIN r = {1} /\ r[1] = [kind |-> "result", of |-> k]
  <2>1. [kind |-> "result", of |-> k] \in Msgs
    BY <1>4, WindowTypes DEF WindowInv, Msgs, Kind
  <2> QED
    BY <1>2, <2>1, OneMessage
<1>7. OwnChunks(k, {"end"}, c)
  BY <1>2, <1>4, ChunksPushed
<1>8. /\ m \in Seq(Msgs) /\ DOMAIN m \subseteq Nat
      /\ \A i \in DOMAIN c : i \in DOMAIN m /\ m[i] = c[i]
      /\ Len(c) + 1 \in DOMAIN m /\ m[Len(c) + 1] = r[1]
      /\ \A i \in DOMAIN m : \/ i \in DOMAIN c /\ m[i] = c[i] /\ i <= Len(c)
                             \/ i = Len(c) + 1 /\ m[i] = r[1]
  <2>1. c \in Seq(Msgs)
    BY <1>7 DEF OwnChunks
  <2>2. Len(r) = 1
    BY <1>2
  <2>3. Len(c) \in Nat /\ DOMAIN c = 1..Len(c) /\ DOMAIN m = 1..(Len(c) + 1) /\ m \in Seq(Msgs)
    BY <1>2, <1>6, <2>1, <2>2, ConcatIs
  <2>4. /\ \A i \in DOMAIN c : i \in DOMAIN m /\ m[i] = c[i]
        /\ Len(c) + 1 \in DOMAIN m /\ m[Len(c) + 1] = r[1]
    BY <1>2, <1>6, <2>1, ConcatIs
  <2> QED
    BY <2>3, <2>4
<1>9. KindsIn(m) = KindsIn(c)
  BY <1>6, <1>8 DEF KindsIn, Window!ChunkKind
<1>10. Advances(k, m)
  <2>1. Moved(k, m)
    <3>1. \E i \in DOMAIN m : m[i].kind = "result" /\ m[i].of = k
      BY <1>6, <1>8
    <3>2. turn'[k].emitted = turn[k].emitted \cup KindsIn(m)
      BY <1>5, <1>7, <1>9 DEF OwnChunks, Goes
    <3>3. "start" \in turn'[k].emitted
      BY <1>5 DEF Goes, Window!Emitted
    <3> QED
      BY <1>4, <1>5, <3>1, <3>2, <3>3 DEF Moved, Goes
  <2>2. Pushed(k, m)
    <3>1. \A i \in DOMAIN m : m[i].of = k /\ m[i].kind # "left"
      <4>1. \A i \in DOMAIN c : c[i].of = k /\ c[i].kind # "left"
        BY <1>7 DEF OwnChunks, Chunks, Window!ChunkKind
      <4>2. r[1].of = k /\ r[1].kind # "left"
        BY <1>6
      <4>3. \A i \in DOMAIN m : (i \in DOMAIN c /\ m[i] = c[i]) \/ m[i] = r[1]
        BY <1>8
      <4> QED
        BY <4>1, <4>2, <4>3
    <3>2. ASSUME NEW i \in DOMAIN m, NEW j \in DOMAIN m, i < j, Chunks(m[j])
          PROVE  m[i].kind = "start"
      <4>1. j \in DOMAIN c /\ m[j] = c[j]
        BY <1>6, <1>8, <3>2 DEF Chunks, Window!ChunkKind
      <4>2. i \in DOMAIN c /\ m[i] = c[i]
        <5>1. Len(c) \in Nat /\ DOMAIN c = 1..Len(c)
          BY <1>7, LenProperties DEF OwnChunks
        <5> QED
          BY <1>8, <3>2, <4>1, <5>1
      <4> QED
        BY <1>7, <3>2, <4>1, <4>2 DEF OwnChunks
    <3> QED
      BY <1>4, <1>5, <1>8, <3>1, <3>2 DEF Pushed, Goes
  <2> QED
    BY <1>5, <2>1, <2>2 DEF Advances, Goes
<1>11. current' \in Window!Turns \cup {Absent}
  BY <1>3 DEF WindowInv, WindowTyped, Window!TypeOK
<1> QED
  BY <1>3, <1>4, <1>10, <1>11, MainStep

LEMMA StartStep == WindowInv /\ Window!StartStream => WindowInv'
<1> SUFFICES ASSUME WindowInv, Window!StartStream PROVE WindowInv'
  OBVIOUS
<1>1. PICK k, old : k = Head(up).of /\ old = Window!Superseding(turn)
  OBVIOUS
<1>2. Unseen /\ Window!Handled("stream") /\ turn' = [old EXCEPT ![k].phase = "preparing"]
      /\ down' = down /\ current' = k
  BY <1>1 DEF Window!StartStream, Unseen
<1>3. /\ k \in Window!Turns /\ turn[k].phase = "requested" /\ turn[k].emitted = {}
      /\ Heeds(k, <<>>)
  BY <1>1, <1>2, AskedTurn
<1>4. Goes(k, "preparing", turn[k].emitted)
  <2>1. /\ old \in [Window!Turns -> Window!Turn]
        /\ \A j \in Window!Turns : /\ old[j].thread = turn[j].thread
                                   /\ old[j].phase = turn[j].phase
                                   /\ old[j].emitted = turn[j].emitted
    BY <1>1, SupersededTurns DEF WindowInv
  <2>2. PICK r : r = [old[k] EXCEPT !.phase = "preparing"]
    OBVIOUS
  <2>3. r \in Window!Turn /\ r.phase = "preparing" /\ r.emitted = turn[k].emitted
        /\ r.thread = turn[k].thread
    BY <1>3, <2>1, <2>2 DEF Window!Turn
  <2>4. turn' = [old EXCEPT ![k] = r]
    BY <1>2, <2>2
  <2> QED
    <3>1. Goes(k, r.phase, r.emitted)
      BY <1>3, <2>1, <2>3, <2>4, OneGoes DEF WindowInv
    <3> QED
      BY <2>3, <3>1
<1> QED
  BY <1>2, <1>3, <1>4, SilentStep

LEMMA StopStreamStep == WindowInv /\ Window!StopStream => WindowInv'
<1> SUFFICES ASSUME WindowInv, Window!StopStream PROVE WindowInv'
  OBVIOUS
<1>1. Unseen /\ turn' = Window!Superseding(turn) /\ current' = current
  BY DEF Window!StopStream, Unseen
<1>2. PICK x : /\ \/ x = [kind |-> "stopped", of |-> Absent] /\ Window!Handled("stop")
                  \/ x = [kind |-> "left", of |-> Head(up).of] /\ Window!Handled("leave")
               /\ down' = down \o <<x>>
  BY DEF Window!StopStream, Window!Push, Window!Msg
<1>3. PICK m : m = <<x>>
  OBVIOUS
<1>4. up # <<>> /\ up' = Tail(up) /\ Head(up) = up[1] /\ 1 \in DOMAIN up
  BY <1>2, TailIs DEF Window!Handled, WindowInv, WindowTyped
<1>5. /\ \/ x.kind = "stopped" /\ up[1].kind = "stop"
         \/ x.kind = "left" /\ up[1].kind = "leave"
      /\ x.of \in Thread \cup {Absent} /\ x \in Msgs
  BY <1>2, <1>4 DEF Window!Handled, WindowInv, AskedOnce, Msgs, Kind
<1>6. m \in Seq(Msgs) /\ DOMAIN m = {1} /\ m[1] = x
  BY <1>3, <1>5, OneMessage
<1>7. Advances(Absent, m)
  <2>1. /\ turn' \in [Window!Turns -> Window!Turn]
        /\ \A j \in Window!Turns : /\ turn'[j].thread = turn[j].thread
                                   /\ turn'[j].phase = turn[j].phase
                                   /\ turn'[j].emitted = turn[j].emitted
    <3>1. PICK old : old = Window!Superseding(turn)
      OBVIOUS
    <3> QED
      BY <1>1, <3>1, SupersededTurns DEF WindowInv
  <2>2. turn' \in Seq(Window!Turn) /\ Len(turn') = Len(turn)
    <3>1. Len(turn) \in Nat /\ Window!Turns = 1..Len(turn)
      BY WindowTypes DEF WindowInv
    <3> QED
      BY <2>1, <3>1, MadeSeq
  <2>3. Pushed(Absent, m)
    BY <1>5, <1>6 DEF Pushed, Chunks, Window!ChunkKind
  <2>4. Absent \notin Window!Turns
    BY WindowTypes DEF WindowInv
  <2> QED
    BY <2>1, <2>2, <2>3, <2>4 DEF Advances
<1>8. Heeds(Absent, m)
  BY <1>4, <1>5, <1>6 DEF Heeds
<1>9. current' \in Window!Turns \cup {Absent}
  BY <1>1 DEF WindowInv, WindowTyped, Window!TypeOK
<1> QED
  BY <1>1, <1>2, <1>3, <1>7, <1>8, <1>9, MainStep

LEMMA EmittedTypes ==
    ASSUME WindowInv, NEW k \in Window!Turns, NEW kinds \in {{}, {"end"}}
    PROVE  Window!Emitted(k, kinds) \in SUBSET Window!ChunkKind
BY WindowTypes DEF WindowInv, Window!Turn, Window!Emitted, Window!ChunkKind

LEMMA EmitStep ==
    ASSUME WindowInv, NEW k \in Window!Turns, Window!Emit(k)
    PROVE  WindowInv'
<1>1. Unseen /\ turn[k].phase \in {"preparing", "running"} /\ up' = up /\ current' = current
      /\ down' = down \o Window!ChunksOf(k, {})
      /\ turn' = [turn EXCEPT ![k].emitted = Window!Emitted(k, {})]
  BY DEF Window!Emit, Window!Push, Unseen
<1>2. Goes(k, turn[k].phase, Window!Emitted(k, {}))
  BY <1>1, EmittedTypes, EmittedGoes DEF WindowInv
<1>3. {} \in {{}, {"end"}}
  OBVIOUS
<1>4. PICK phase \in {"preparing", "running"} : phase = turn[k].phase
  BY <1>1
<1>5. Goes(k, phase, Window!Emitted(k, {}))
  BY <1>2, <1>4
<1> QED
  BY <1>1, <1>3, <1>5, ChunkStep

\* A turn closes, and pushes its chunks.
LEMMA CloseStep ==
    ASSUME WindowInv, NEW k \in Window!Turns, NEW kinds \in {{}, {"end"}}, Unseen,
           turn[k].phase \in {"preparing", "running"}, up' = up, current' = current,
           down' = down \o Window!ChunksOf(k, kinds),
           turn' = [turn EXCEPT ![k].phase = "closing", ![k].emitted = Window!Emitted(k, kinds)]
    PROVE  WindowInv'
<1>1. Goes(k, "closing", Window!Emitted(k, kinds))
  BY EmittedTypes, BothGo DEF WindowInv, Phases
<1> QED
  BY <1>1, ChunkStep

LEMMA FinishStep ==
    ASSUME WindowInv, NEW k \in Window!Turns, Window!Finish(k) \/ Window!Block(k)
    PROVE  WindowInv'
<1>1. CASE Window!Finish(k)
  <2>1. /\ Unseen /\ turn[k].phase \in {"preparing", "running"} /\ up' = up /\ current' = current
        /\ down' = down \o Window!ChunksOf(k, {"end"})
        /\ turn' = [turn EXCEPT ![k].phase = "closing",
                                ![k].emitted = Window!Emitted(k, {"end"})]
    BY <1>1 DEF Window!Finish, Window!Push, Unseen
  <2> QED
    BY <2>1, CloseStep
<1>2. CASE Window!Block(k)
  <2>1. /\ Unseen /\ turn[k].phase \in {"preparing", "running"} /\ up' = up /\ current' = current
        /\ down' = down \o Window!ChunksOf(k, {})
        /\ turn' = [turn EXCEPT ![k].phase = "closing", ![k].emitted = Window!Emitted(k, {})]
    BY <1>2 DEF Window!Block, Window!Push, Unseen
  <2> QED
    BY <2>1, CloseStep
<1> QED
  BY <1>1, <1>2

LEMMA QuietPhaseStep ==
    ASSUME WindowInv, NEW k \in Window!Turns, Unseen, NEW phase \in {"running", "closing"},
           turn[k].phase \in {"preparing", "running"}, turn' = [turn EXCEPT ![k].phase = phase],
           up' = up, down' = down, current' = current
    PROVE  WindowInv'
<1>1. Goes(k, phase, turn[k].emitted)
  BY PhaseGoes DEF WindowInv, Phases
<1>2. "end" \notin turn[k].emitted
  BY DEF WindowInv, TurnSound
<1>3. Heeds(k, <<>>)
  BY DEF Heeds
<1>4. current' \in Window!Turns \cup {Absent}
  BY DEF WindowInv, WindowTyped, Window!TypeOK
<1> QED
  BY <1>1, <1>2, <1>3, <1>4, SilentStep

LEMMA PreparationStep ==
    ASSUME WindowInv, NEW k \in Window!Turns, Window!Prepared(k) \/ Window!AbandonPreparation(k)
    PROVE  WindowInv'
<1>1. CASE Window!Prepared(k)
  <2>1. /\ Unseen /\ turn[k].phase = "preparing" /\ turn' = [turn EXCEPT ![k].phase = "running"]
        /\ up' = up /\ down' = down /\ current' = current
    BY <1>1 DEF Window!Prepared, Unseen
  <2> QED
    BY <2>1, QuietPhaseStep
<1>2. CASE Window!AbandonPreparation(k) /\ current = k
  <2>1. /\ Unseen /\ turn[k].phase = "preparing" /\ up' = up /\ current' = current
        /\ down' = down \o Window!ChunksOf(k, {"end"})
        /\ turn' = [turn EXCEPT ![k].phase = "closing",
                                ![k].emitted = Window!Emitted(k, {"end"})]
    BY <1>2 DEF Window!AbandonPreparation, Window!Push, Unseen
  <2> QED
    BY <2>1, CloseStep
<1>3. CASE Window!AbandonPreparation(k) /\ current # k
  <2>1. /\ Unseen /\ turn[k].phase = "preparing" /\ turn' = [turn EXCEPT ![k].phase = "closing"]
        /\ up' = up /\ down' = down /\ current' = current
    BY <1>3 DEF Window!AbandonPreparation, Unseen
  <2> QED
    BY <2>1, QuietPhaseStep
<1> QED
  BY <1>1, <1>2, <1>3

LEMMA ReturnStep ==
    ASSUME WindowInv, NEW k \in Window!Turns, Window!Return(k)
    PROVE  WindowInv'
<1>1. PICK m : m = <<[kind |-> "result", of |-> k]>>
  OBVIOUS
<1>2. Unseen /\ turn[k].phase = "closing" /\ turn' = [turn EXCEPT ![k].phase = "over"]
      /\ down' = down \o m /\ up' = up /\ current' \in {current, Absent}
  BY <1>1 DEF Window!Return, Window!Push, Window!Msg, Unseen
<1>3. Goes(k, "over", turn[k].emitted)
  BY <1>2, PhaseGoes DEF WindowInv, Phases
<1>4. m \in Seq(Msgs) /\ DOMAIN m = {1} /\ m[1] = [kind |-> "result", of |-> k]
  <2>1. [kind |-> "result", of |-> k] \in Msgs
    BY WindowTypes DEF WindowInv, Msgs, Kind
  <2> QED
    BY <1>1, <2>1, OneMessage
<1>5. KindsIn(m) = {}
  BY <1>4 DEF KindsIn, Window!ChunkKind
<1>6. TurnSound(k)
  BY DEF WindowInv
<1>7. Moved(k, m)
  BY <1>2, <1>3, <1>4, <1>5, <1>6 DEF Moved, Goes, TurnSound
<1>8. Pushed(k, m)
  BY <1>3, <1>4 DEF Pushed, Goes, Chunks, Window!ChunkKind
<1>9. Advances(k, m)
  BY <1>3, <1>7, <1>8 DEF Advances, Goes
<1>10. Heeds(k, m)
  BY <1>2 DEF Heeds
<1>11. current' \in Window!Turns \cup {Absent}
  BY <1>2 DEF WindowInv, WindowTyped, Window!TypeOK
<1> QED
  BY <1>2, <1>9, <1>10, <1>11, MainStep

-----------------------------------------------------------------------------
(* The slots.                                                               *)

ClosedAs(q, s, cut, slots) ==
    /\ slots \in Seq(Window!Slot) /\ Len(slots) = Len(turn)
    /\ \A j \in Window!Turns : j # s \/ q[j].closed => slots[j] = q[j]
    /\ s # Absent /\ ~q[s].closed =>
          /\ slots[s].bound = q[s].bound /\ slots[s].content = q[s].content
          /\ slots[s].crossed = q[s].crossed /\ slots[s].saved = q[s].saved
          /\ slots[s].closed /\ slots[s].cut = cut

LEMMA ClosedIs ==
    ASSUME WindowTyped, NEW q \in Seq(Window!Slot), Len(q) = Len(turn),
           NEW s \in Window!Turns \cup {Absent}, NEW cut \in BOOLEAN,
           NEW slots, slots = Window!ClosedSlot(q, s, cut)
    PROVE  ClosedAs(q, s, cut, slots)
<1>1. Len(turn) \in Nat /\ Window!Turns = 1..Len(turn) /\ Absent \notin Window!Turns
  BY WindowTypes
<1>2. q \in [1..Len(turn) -> Window!Slot]
  BY LenProperties
<1>3. CASE s = Absent \/ q[s].closed
  <2>1. slots = q
    BY <1>3 DEF Window!ClosedSlot, Window!Open
  <2> QED
    BY <1>1, <1>3, <2>1 DEF ClosedAs
<1>4. CASE s # Absent /\ ~q[s].closed
  <2>1. PICK r : r = [q[s] EXCEPT !.closed = TRUE, !.cut = cut]
    OBVIOUS
  <2>2. slots = [q EXCEPT ![s] = r]
    BY <1>4, <2>1 DEF Window!ClosedSlot, Window!Open
  <2>3. q[s] \in Window!Slot
    BY <1>1, <1>2, <1>4
  <2>4. /\ r \in Window!Slot /\ r.bound = q[s].bound /\ r.content = q[s].content
        /\ r.crossed = q[s].crossed /\ r.saved = q[s].saved /\ r.closed /\ r.cut = cut
    <3>1. PICK h : h = [q[s] EXCEPT !.closed = TRUE]
      OBVIOUS
    <3>2. /\ h \in Window!Slot /\ h.bound = q[s].bound /\ h.content = q[s].content
          /\ h.crossed = q[s].crossed /\ h.saved = q[s].saved /\ h.closed
      BY <2>3, <3>1 DEF Window!Slot
    <3>3. r = [h EXCEPT !.cut = cut]
      BY <2>1, <3>1
    <3> QED
      BY <3>2, <3>3 DEF Window!Slot
  <2>5. slots \in Seq(Window!Slot) /\ Len(slots) = Len(turn)
    <3>1. slots = [j \in 1..Len(turn) |-> slots[j]]
          /\ \A j \in 1..Len(turn) : slots[j] \in Window!Slot
      BY <1>2, <2>2, <2>4
    <3> QED
      BY <1>1, <3>1, MadeSeq
  <2>6. slots[s] = r /\ \A j \in Window!Turns : j # s => slots[j] = q[j]
    BY <1>1, <1>2, <1>4, <2>2
  <2> QED
    BY <1>4, <2>4, <2>5, <2>6 DEF ClosedAs
<1> QED
  BY <1>3, <1>4

\* What the renderer makes of slots: those that are closed now are saved.
Finished(slots) == {s \in Window!Turns : slots[s].closed /\ ~slot[s].closed}

Rendered(p, slots, c) ==
    /\ slot' \in Seq(Window!Slot) /\ Len(slot') = Len(slots) /\ port' = p
    /\ \A j \in 1..Len(slots) :
          /\ slot'[j].bound = slots[j].bound /\ slot'[j].closed = slots[j].closed
          /\ slot'[j].content = slots[j].content /\ slot'[j].cut = slots[j].cut
          /\ slot'[j].crossed = slots[j].crossed
          /\ j \in Finished(slots) /\ slots[j].content # {} =>
                slot'[j].saved = Window!SavedUnder(p)
          /\ j \notin Finished(slots) \/ slots[j].content = {} => slot'[j] = slots[j]
    /\ Finished(slots) = {} => composer' = c
    /\ Finished(slots) # {} => composer' = [c EXCEPT !.loading = FALSE, !.stopping = FALSE]

LEMMA RendererIs ==
    ASSUME WindowTyped, NEW slots \in Seq(Window!Slot), Len(slots) >= Len(turn),
           NEW p, p.bound \in Thread \cup {Absent}, p.view \in Thread \cup {Absent},
           NEW c, Window!Renderer(p, slots, c)
    PROVE  Rendered(p, slots, c)
<1>1. Len(slots) \in Nat /\ DOMAIN slots = 1..Len(slots) /\ DOMAIN slot = Window!Turns
      /\ Window!Turns = 1..Len(turn) /\ Len(turn) \in Nat
  BY LenProperties, WindowTypes
<1>2. \A j \in 1..Len(slots) : slots[j] \in Window!Slot
  BY ElementOfSeq
<1>3. Finished(slots) = {s \in DOMAIN slot : slots[s].closed /\ ~slot[s].closed}
  BY <1>1 DEF Finished
<1>4. /\ port' = p
      /\ slot' = [s \in 1..Len(slots) |->
                    IF s \in Finished(slots) /\ slots[s].content # {}
                    THEN [slots[s] EXCEPT !.saved = Window!SavedUnder(p)] ELSE slots[s]]
      /\ composer' = IF Finished(slots) # {} THEN [c EXCEPT !.loading = FALSE, !.stopping = FALSE]
                     ELSE c
  BY <1>1, <1>3 DEF Window!Renderer
<1>5. Window!SavedUnder(p) \in Thread \cup {Absent}
  BY DEF Window!SavedUnder
<1>6. ASSUME NEW j \in 1..Len(slots)
      PROVE  /\ slot'[j] \in Window!Slot
             /\ slot'[j].bound = slots[j].bound /\ slot'[j].closed = slots[j].closed
             /\ slot'[j].content = slots[j].content /\ slot'[j].cut = slots[j].cut
             /\ slot'[j].crossed = slots[j].crossed
             /\ j \in Finished(slots) /\ slots[j].content # {} =>
                   slot'[j].saved = Window!SavedUnder(p)
             /\ j \notin Finished(slots) \/ slots[j].content = {} => slot'[j] = slots[j]
  <2>1. CASE j \in Finished(slots) /\ slots[j].content # {}
    <3>1. slot'[j] = [slots[j] EXCEPT !.saved = Window!SavedUnder(p)]
      BY <1>4, <2>1
    <3> QED
      BY <1>2, <1>5, <2>1, <3>1 DEF Window!Slot
  <2>2. CASE ~(j \in Finished(slots) /\ slots[j].content # {})
    <3>1. slot'[j] = slots[j]
      BY <1>4, <2>2
    <3> QED
      BY <1>2, <2>2, <3>1
  <2> QED
    BY <2>1, <2>2
<1>7. slot' \in Seq(Window!Slot) /\ Len(slot') = Len(slots)
  <2>1. slot' = [s \in 1..Len(slots) |-> slot'[s]]
    BY <1>4
  <2> QED
    BY <1>1, <1>6, <2>1, MadeSeq
<1>8. /\ Finished(slots) = {} => composer' = c
      /\ Finished(slots) # {} => composer' = [c EXCEPT !.loading = FALSE, !.stopping = FALSE]
  BY <1>4
<1> QED
  BY <1>4, <1>6, <1>7, <1>8 DEF Rendered

Port == [active : Nat \cup {Absent}, bound : Thread \cup {Absent}, view : Thread \cup {Absent}]

LEMMA RenderedIs ==
    ASSUME WindowInv, NEW slots \in Seq(Window!Slot), Len(slots) = Len(turn), NEW p \in Port,
           NEW c, Window!Renderer(p, slots, c)
    PROVE  Rendered(p, slots, c)
<1>1. WindowTyped /\ Len(slots) >= Len(turn)
  BY WindowTypes DEF WindowInv
<1>2. p.bound \in Thread \cup {Absent} /\ p.view \in Thread \cup {Absent}
  BY DEF Port
<1> QED
  BY <1>1, <1>2, RendererIs

\* The active slot is cut off by the renderer, and no other is open.
Cuts ==
    \A j \in Window!Turns :
        /\ slot'[j].closed /\ slot'[j].bound = slot[j].bound
        /\ slot'[j].content = slot[j].content /\ slot'[j].crossed = slot[j].crossed
        /\ j = port.active => slot'[j].cut
        /\ j # port.active => slot'[j] = slot[j]

CutOff(slots) ==
    /\ Len(slots) \in Nat /\ Len(slots) >= Len(turn)
    /\ \E closed : /\ ClosedAs(slot, port.active, TRUE, closed)
                   /\ \A j \in Window!Turns : slots[j] = closed[j]

LEMMA CutIs ==
    ASSUME WindowInv, NEW p, NEW c, NEW slots, CutOff(slots), Rendered(p, slots, c)
    PROVE  Cuts /\ (Finished(slots) = {} <=> port.active = Absent)
<1>0. PICK closed : /\ ClosedAs(slot, port.active, TRUE, closed)
                    /\ \A j \in Window!Turns : slots[j] = closed[j]
  BY DEF CutOff
<1>1. /\ Len(turn) \in Nat /\ Window!Turns = 1..Len(turn)
      /\ \A j \in Window!Turns : slot[j] \in Window!Slot
  BY WindowTypes DEF WindowInv
<1>2. /\ \A j \in Window!Turns : ~slot[j].closed <=> port.active = j
      /\ port.active # Absent => port.active \in Window!Turns
  BY DEF WindowInv, ActiveIsOpen
<1>3. \A j \in Window!Turns : j \in 1..Len(slots)
  BY <1>1 DEF CutOff
<1>4. ASSUME NEW j \in Window!Turns, j = port.active
      PROVE  /\ slot'[j].closed /\ slot'[j].bound = slot[j].bound
             /\ slot'[j].content = slot[j].content /\ slot'[j].crossed = slot[j].crossed
             /\ slot'[j].cut /\ j \in Finished(slots)
  <2>1. j # Absent
    BY <1>1, WindowTypes DEF WindowInv
  <2>2. /\ slots[j].closed /\ slots[j].cut /\ slots[j].bound = slot[j].bound
        /\ slots[j].content = slot[j].content /\ slots[j].crossed = slot[j].crossed
    BY <1>0, <1>2, <1>4, <2>1 DEF ClosedAs
  <2> QED
    BY <1>2, <1>3, <1>4, <2>2 DEF Rendered, Finished
<1>5. ASSUME NEW j \in Window!Turns, j # port.active
      PROVE  slot'[j] = slot[j] /\ slot[j].closed /\ j \notin Finished(slots)
  <2>1. slots[j] = slot[j] /\ slot[j].closed
    BY <1>0, <1>2, <1>5 DEF ClosedAs
  <2> QED
    BY <1>3, <2>1 DEF Rendered, Finished
<1>6. Cuts
  BY <1>4, <1>5 DEF Cuts
<1>7. Finished(slots) = {} <=> port.active = Absent
  <2>1. Absent \notin Window!Turns
    BY WindowTypes DEF WindowInv
  <2> QED
    BY <1>2, <1>4, <1>5, <2>1 DEF Finished
<1> QED
  BY <1>6, <1>7

LEMMA CutSlots ==
    ASSUME WindowInv, Cuts, NEW j \in Window!Turns, Pending(j)' = Pending(j),
           turn'[j].thread = turn[j].thread, turn'[j].phase = turn[j].phase,
           turn'[j].emitted = turn[j].emitted
    PROVE  SlotSound(j)'
<1>1. SlotSound(j) /\ Shown(j)' = Shown(j)
  BY DEF WindowInv, Cuts, Shown
<1>2. CASE j = port.active
  BY <1>1, <1>2 DEF SlotSound, Cuts
<1>3. CASE j # port.active
  BY <1>1, <1>3 DEF SlotSound, Cuts
<1> QED
  BY <1>2, <1>3

Composer == [preparing : Thread \cup {Absent}, loading : BOOLEAN, stopping : BOOLEAN,
             leaving : BOOLEAN]

LEMMA FreedComposer ==
    ASSUME NEW c \in Composer, NEW d, d = [c EXCEPT !.loading = FALSE, !.stopping = FALSE]
    PROVE  d \in Composer /\ ~d.loading /\ ~d.stopping /\ d.preparing = c.preparing
           /\ d.leaving = c.leaving
<1>1. PICK h : h = [c EXCEPT !.loading = FALSE]
  OBVIOUS
<1>2. h \in Composer /\ ~h.loading /\ h.preparing = c.preparing /\ h.leaving = c.leaving
  BY <1>1 DEF Composer
<1>3. d = [h EXCEPT !.stopping = FALSE]
  BY <1>1
<1> QED
  BY <1>2, <1>3 DEF Composer

-----------------------------------------------------------------------------
(* The view and the composer.                                               *)

\* What is asked of the main process is behind what was asked before.
Asks(kinds) ==
    \E m \in Msgs : /\ m.kind \in kinds /\ up' = Append(up, m)
                    /\ m.kind = "leave" => m.of \in Thread \cup {Absent}

LEMMA AsksIs ==
    ASSUME WindowInv, NEW kinds, Asks(kinds), "stream" \notin kinds, turn' = turn
    PROVE  /\ up' \in Seq(Msgs) /\ AskedOnce' /\ Sent(kinds)'
           /\ \A kind : Sent({kind}) => Sent({kind})'
<1>1. PICK m \in Msgs : /\ m.kind \in kinds /\ up' = Append(up, m)
                        /\ m.kind = "leave" => m.of \in Thread \cup {Absent}
  BY DEF Asks
<1>2. up \in Seq(Msgs) /\ AskedOnce
  BY DEF WindowInv, WindowTyped
<1>3. /\ up' \in Seq(Msgs) /\ DOMAIN up' = 1..(Len(up) + 1) /\ DOMAIN up = 1..Len(up)
      /\ Len(up) \in Nat /\ (\A i \in DOMAIN up : i \in DOMAIN up' /\ up'[i] = up[i])
      /\ Len(up) + 1 \in DOMAIN up' /\ up'[Len(up) + 1] = m
  BY <1>1, <1>2, AppendIs
<1>4. \A i \in DOMAIN up' :
         \/ i \in DOMAIN up /\ up'[i] = up[i]
         \/ i = Len(up) + 1 /\ up'[i] = m
  BY <1>3
<1>5. m.kind # "stream"
  BY <1>1
<1>6. AskedOnce'
  BY <1>1, <1>2, <1>4, <1>5 DEF AskedOnce, Window!Turns
<1>7. Sent(kinds)' /\ \A kind : Sent({kind}) => Sent({kind})'
  BY <1>1, <1>3 DEF Sent
<1> QED
  BY <1>3, <1>6, <1>7

\* Steps that leave the turns, the slots and what is on its way.
LEMMA ViewStep ==
    ASSUME WindowInv, UNCHANGED <<slot, turn, current, down>>, port' \in Port,
           composer' \in Composer, port'.active = port.active, port'.bound = port.bound,
           composer'.preparing # Absent => Len(turn) < MaxTurns,
           up' \in Seq(Msgs), AskedOnce', ComposerServed'
    PROVE  WindowInv'
<1>1. WindowTyped'
  BY DEF WindowInv, WindowTyped, Window!TypeOK, Window!Turns, Port, Composer
<1>2. ActiveIsOpen'
  BY DEF WindowInv, ActiveIsOpen, Window!Turns
<1>3. Delivered'
  BY DEF WindowInv, Delivered, Fine, InOrder, Alone, Chunks, Window!Turns
<1>4. ASSUME NEW j \in Window!Turns PROVE TurnSound(j)' /\ SlotSound(j)'
  <2>1. TurnSound(j)'
    BY <1>4 DEF WindowInv, TurnSound, Alone
  <2>2. SlotSound(j)'
    BY <1>4 DEF WindowInv, SlotSound, Shown, Pending
  <2> QED
    BY <2>1, <2>2
<1>5. (Window!Turns)' = Window!Turns
  BY DEF Window!Turns
<1> QED
  BY <1>1, <1>2, <1>3, <1>4, <1>5 DEF WindowInv

LEMMA PrepareStep == WindowInv /\ Window!Prepare => WindowInv'
<1> SUFFICES ASSUME WindowInv, Window!Prepare PROVE WindowInv'
  OBVIOUS
<1>1. composer' = [composer EXCEPT !.preparing = port.view] /\ port' = port /\ up' = up
      /\ UNCHANGED <<slot, turn, current, down>> /\ Len(turn) < MaxTurns
  BY DEF Window!Prepare
<1>2. composer \in Composer /\ port \in Port /\ up \in Seq(Msgs)
  BY DEF WindowInv, WindowTyped, Window!TypeOK, Composer, Port
<1>3. composer' \in Composer /\ composer'.loading = composer.loading
      /\ composer'.stopping = composer.stopping /\ composer'.leaving = composer.leaving
  BY <1>1, <1>2 DEF Composer, Port
<1>4. AskedOnce' /\ ComposerServed'
  <2>1. ComposerServed'
    BY <1>1, <1>3 DEF WindowInv, ComposerServed, Sent, Coming
  <2>2. AskedOnce'
    BY <1>1 DEF WindowInv, AskedOnce, Window!Turns
  <2> QED
    BY <2>1, <2>2
<1> QED
  BY <1>1, <1>2, <1>3, <1>4, ViewStep

LEMMA StopStreamingStep == WindowInv /\ Window!StopStreaming => WindowInv'
<1> SUFFICES ASSUME WindowInv, Window!StopStreaming PROVE WindowInv'
  OBVIOUS
<1>1. composer' = [composer EXCEPT !.stopping = TRUE] /\ port' = port
      /\ UNCHANGED <<slot, turn, current, down>>
      /\ up' = Append(up, [kind |-> "stop", of |-> Absent])
  BY DEF Window!StopStreaming
<1>2. composer \in Composer /\ port \in Port
  BY DEF WindowInv, WindowTyped, Window!TypeOK, Composer, Port
<1>3. composer' \in Composer /\ composer'.loading = composer.loading
      /\ composer'.leaving = composer.leaving /\ composer'.preparing = composer.preparing
  BY <1>1, <1>2 DEF Composer
<1>4. Asks({"stop"})
  <2>1. [kind |-> "stop", of |-> Absent] \in Msgs
    BY DEF Msgs, Kind
  <2> QED
    BY <1>1, <2>1 DEF Asks
<1>5. /\ up' \in Seq(Msgs) /\ AskedOnce' /\ Sent({"stop"})'
      /\ \A kind : Sent({kind}) => Sent({kind})'
  BY <1>1, <1>4, AsksIs
<1>6. ComposerServed'
  <2>1. ComposerServed /\ Coming({"left"})' = Coming({"left"})
    BY <1>1 DEF WindowInv, Coming
  <2>2. Sent({"leave"}) => Sent({"leave"})'
    BY <1>5
  <2> QED
    BY <1>1, <1>3, <1>5, <2>1, <2>2 DEF ComposerServed
<1>7. composer'.preparing # Absent => Len(turn) < MaxTurns
  BY <1>3 DEF WindowInv, WindowTyped
<1> QED
  BY <1>1, <1>2, <1>3, <1>5, <1>6, <1>7, ViewStep

\* The stream is cut off, and the thread t is shown once it has been left.
LEMMA LeaveStreamStep ==
    ASSUME WindowInv, NEW t \in Thread \cup {Absent}, Window!StopAndShow(t),
           UNCHANGED <<turn, current, down>>
    PROVE  WindowInv'
<1>1. PICK p, c, slots : /\ p = [port EXCEPT !.active = Absent]
                         /\ c = [composer EXCEPT !.leaving = TRUE]
                         /\ slots = Window!ClosedSlot(slot, port.active, TRUE)
  OBVIOUS
<1>2. Window!Renderer(p, slots, c) /\ up' = Append(up, [kind |-> "leave", of |-> t])
  BY <1>1 DEF Window!StopAndShow
<1>3. WindowTyped /\ composer \in Composer /\ port \in Port /\ ActiveIsOpen /\ ComposerServed
  BY DEF WindowInv, WindowTyped, Window!TypeOK, Composer, Port
<1>4. p \in Port /\ p.active = Absent
  BY <1>1, <1>3 DEF Port
<1>5. c \in Composer /\ c.leaving /\ c.loading = composer.loading
      /\ c.stopping = composer.stopping /\ c.preparing = composer.preparing
  BY <1>1, <1>3 DEF Composer
<1>6. ClosedAs(slot, port.active, TRUE, slots)
  <2>1. slot \in Seq(Window!Slot) /\ Len(slot) = Len(turn)
    BY <1>3 DEF WindowTyped, Window!TypeOK
  <2>2. port.active \in Window!Turns \cup {Absent}
    BY <1>3 DEF ActiveIsOpen
  <2> QED
    BY <1>1, <1>3, <2>1, <2>2, ClosedIs
<1>7. Rendered(p, slots, c) /\ slots \in Seq(Window!Slot) /\ Len(slots) = Len(turn)
      /\ Len(turn) \in Nat
  <2>1. slots \in Seq(Window!Slot) /\ Len(slots) = Len(turn)
    BY <1>6 DEF ClosedAs
  <2>2. Len(turn) \in Nat
    BY <1>3, WindowTypes
  <2>3. Rendered(p, slots, c)
    BY <1>2, <1>4, <2>1, RenderedIs
  <2> QED
    BY <2>1, <2>2, <2>3
<1>8. Cuts /\ (Finished(slots) = {} <=> port.active = Absent)
  <2>1. CutOff(slots)
    <3>1. Len(slots) \in Nat /\ Len(slots) >= Len(turn)
      BY <1>7
    <3>2. \A j \in Window!Turns : slots[j] = slots[j]
      OBVIOUS
    <3> QED
      BY <1>6, <3>1, <3>2, Zenon DEF CutOff
  <2> QED
    BY <1>7, <2>1, CutIs
<1>9. composer' \in Composer /\ composer'.leaving /\ ~composer'.loading
      /\ (composer'.stopping => composer.stopping)
      /\ composer'.preparing = composer.preparing
  <2>1. CASE Finished(slots) = {}
    <3>1. composer' = c /\ ~composer.loading
      BY <1>3, <1>7, <1>8, <2>1 DEF Rendered, ComposerServed
    <3> QED
      BY <1>5, <3>1
  <2>2. CASE Finished(slots) # {}
    <3>1. composer' = [c EXCEPT !.loading = FALSE, !.stopping = FALSE]
      BY <1>7, <2>2 DEF Rendered
    <3> QED
      BY <1>5, <3>1, FreedComposer
  <2> QED
    BY <2>1, <2>2
<1>10. Asks({"leave"})
  <2>1. [kind |-> "leave", of |-> t] \in Msgs
    BY DEF Msgs, Kind
  <2> QED
    BY <1>2, <2>1 DEF Asks
<1>11. /\ up' \in Seq(Msgs) /\ AskedOnce' /\ Sent({"leave"})'
       /\ Sent({"stop"}) => Sent({"stop"})'
  BY <1>10, AsksIs
<1>12. ComposerServed'
  <2>1. Coming({"stopped"})' = Coming({"stopped"})
    BY DEF Coming
  <2> QED
    BY <1>3, <1>9, <1>11, <2>1 DEF ComposerServed
<1>13. WindowTyped' /\ port'.active = Absent /\ (Window!Turns)' = Window!Turns
  <2>1. slot' \in Seq(Window!Slot) /\ Len(slot') = Len(turn) /\ port' = p
    BY <1>7 DEF Rendered
  <2> QED
    BY <1>3, <1>4, <1>9, <1>11, <2>1
    DEF WindowTyped, Window!TypeOK, Window!Turns, Port, Composer
<1>14. ActiveIsOpen'
  <2>1. \A j \in Window!Turns : slot'[j].closed /\ j # Absent
    BY <1>3, <1>8, WindowTypes DEF Cuts
  <2> QED
    BY <1>13, <2>1 DEF ActiveIsOpen
<1>15. Alone' = Alone /\ (Len(turn) # 0 => slot'[Len(turn)].bound = slot[Len(turn)].bound)
  <2>1. Len(turn) # 0 => Len(turn) \in Window!Turns
    BY <1>3, WindowTypes
  <2> QED
    BY <1>8, <2>1 DEF Alone, Cuts
<1>16. Delivered'
  <2>1. Delivered /\ (Alone => Len(turn) # 0)
    BY DEF WindowInv, Alone
  <2>2. \A i \in DOMAIN down : Fine(down[i]) => Fine(down[i])'
    BY <1>13, <1>15, <2>1 DEF Fine, Chunks
  <2>3. \A i, j \in DOMAIN down : InOrder(down[i], down[j]) => InOrder(down[i], down[j])'
    BY <1>15 DEF InOrder, Chunks
  <2> QED
    BY <2>1, <2>2, <2>3 DEF Delivered
<1>17. ASSUME NEW j \in Window!Turns PROVE TurnSound(j)' /\ SlotSound(j)'
  <2>1. TurnSound(j)'
    BY <1>8, <1>15, <1>17 DEF WindowInv, TurnSound, Cuts
  <2>2. Pending(j)' = Pending(j)
    BY DEF Pending
  <2> QED
    BY <1>8, <2>1, <2>2, CutSlots
<1> QED
  BY <1>11, <1>12, <1>13, <1>14, <1>16, <1>17 DEF WindowInv

LEMMA SelectStep ==
    ASSUME WindowInv, NEW t \in Thread, Window!SelectThread(t)
    PROVE  WindowInv'
<1>1. UNCHANGED <<turn, current, down>>
  BY DEF Window!SelectThread
<1>2. CASE Window!StopAndShow(t)
  BY <1>1, <1>2, LeaveStreamStep
<1>3. CASE port' = [port EXCEPT !.view = t] /\ UNCHANGED <<slot, composer, up>>
  <2>1. composer \in Composer /\ port \in Port /\ up \in Seq(Msgs)
    BY DEF WindowInv, WindowTyped, Window!TypeOK, Composer, Port
  <2>2. port' \in Port /\ port'.active = port.active /\ port'.bound = port.bound
    BY <1>3, <2>1 DEF Port
  <2>3. ComposerServed'
    BY <1>1, <1>3, <2>2 DEF WindowInv, ComposerServed, Sent, Coming
  <2>4. AskedOnce'
    BY <1>1, <1>3 DEF WindowInv, AskedOnce, Window!Turns
  <2>5. composer'.preparing # Absent => Len(turn) < MaxTurns
    BY <1>3 DEF WindowInv, WindowTyped
  <2> QED
    BY <1>1, <1>3, <2>1, <2>2, <2>3, <2>4, <2>5, ViewStep
<1> QED
  BY <1>2, <1>3 DEF Window!SelectThread

LEMMA EditStep == WindowInv /\ Window!EditThread => WindowInv'
<1> SUFFICES ASSUME WindowInv, Window!EditThread PROVE WindowInv'
  OBVIOUS
<1>1. PICK t : t = port.view
  OBVIOUS
<1>2. t \in Thread \cup {Absent}
  BY <1>1, WindowTypes DEF WindowInv
<1>3. Window!StopAndShow(t) /\ UNCHANGED <<turn, current, down>>
  BY <1>1 DEF Window!EditThread
<1> QED
  BY <1>2, <1>3, LeaveStreamStep

\* A new turn and its slot.
Opens(k, t) ==
    /\ k = Len(turn) + 1 /\ t \in Thread /\ k <= MaxTurns
    /\ turn' \in Seq(Window!Turn) /\ Len(turn') = k
    /\ \A j \in Window!Turns : turn'[j] = turn[j]
    /\ turn'[k].thread = t /\ turn'[k].phase = "requested" /\ turn'[k].emitted = {}
    /\ slot' \in Seq(Window!Slot) /\ Len(slot') = k /\ Cuts
    /\ ~slot'[k].bound /\ ~slot'[k].closed /\ slot'[k].content = {} /\ ~slot'[k].cut
    /\ slot'[k].crossed = Window!Crossing /\ slot'[k].saved = Absent
    /\ port' \in Port /\ port'.active = k /\ port'.bound = t
    /\ composer' \in Composer /\ ~composer'.stopping /\ composer'.leaving = composer.leaving
    /\ composer'.preparing = Absent
    /\ up' = Append(up, [kind |-> "stream", of |-> k])
    /\ UNCHANGED <<current, down>>

LEMMA SubmitOpens ==
    ASSUME WindowInv, Window!Submit
    PROVE  \E k, t : Opens(k, t)
<1>1. PICK t, k : t = composer.preparing /\ k = Len(turn) + 1
  OBVIOUS
<1>2. PICK p, c, d, closed, new, slots :
         /\ p = [port EXCEPT !.active = k, !.bound = t]
         /\ c = [composer EXCEPT !.preparing = Absent, !.loading = TRUE, !.stopping = FALSE]
         /\ closed = Window!ClosedSlot(slot, port.active, TRUE)
         /\ new = Window!NewSlot
         /\ slots = Append(closed, new)
         /\ d = [thread |-> t, phase |-> "requested", cancelled |-> FALSE, emitted |-> {}]
  OBVIOUS
<1>3. /\ Window!Renderer(p, slots, c) /\ turn' = Append(turn, d) /\ t # Absent
      /\ up' = Append(up, [kind |-> "stream", of |-> k]) /\ UNCHANGED <<current, down>>
  BY <1>1, <1>2 DEF Window!Submit
<1>4. WindowTyped /\ composer \in Composer /\ port \in Port /\ ActiveIsOpen
      /\ turn \in Seq(Window!Turn) /\ slot \in Seq(Window!Slot) /\ Len(slot) = Len(turn)
  BY DEF WindowInv, WindowTyped, Window!TypeOK, Composer, Port
<1>5. t \in Thread /\ k \in Nat /\ k <= MaxTurns /\ Len(turn) \in Nat
      /\ Window!Turns = 1..Len(turn)
  BY <1>1, <1>3, <1>4, WindowTypes DEF WindowTyped, Composer
<1>6. p \in Port /\ p.active = k /\ p.bound = t
  <2>1. PICK h : h = [port EXCEPT !.active = k]
    OBVIOUS
  <2>2. h \in Port /\ h.active = k
    BY <1>4, <1>5, <2>1 DEF Port
  <2>3. p = [h EXCEPT !.bound = t]
    BY <1>2, <2>1
  <2> QED
    BY <1>5, <2>2, <2>3 DEF Port
<1>7. c \in Composer /\ ~c.stopping /\ c.leaving = composer.leaving /\ c.preparing = Absent
  <2>1. PICK g : g = [composer EXCEPT !.preparing = Absent]
    OBVIOUS
  <2>2. g \in Composer /\ g.leaving = composer.leaving /\ g.preparing = Absent
    BY <1>4, <2>1 DEF Composer
  <2>3. PICK h : h = [g EXCEPT !.loading = TRUE]
    OBVIOUS
  <2>4. h \in Composer /\ h.leaving = composer.leaving /\ h.preparing = Absent
    BY <2>2, <2>3 DEF Composer
  <2>5. c = [h EXCEPT !.stopping = FALSE]
    BY <1>2, <2>1, <2>3
  <2> QED
    BY <2>4, <2>5 DEF Composer
<1>8. ClosedAs(slot, port.active, TRUE, closed)
  <2>1. port.active \in Window!Turns \cup {Absent}
    BY <1>4 DEF ActiveIsOpen
  <2> QED
    BY <1>2, <1>4, <2>1, ClosedIs
<1>9. closed \in Seq(Window!Slot) /\ Len(closed) = Len(turn)
  BY <1>8 DEF ClosedAs
<1>10. /\ new \in Window!Slot /\ ~new.bound /\ ~new.closed /\ new.content = {} /\ ~new.cut
       /\ new.crossed = Window!Crossing /\ new.saved = Absent
  <2>1. Window!Crossing \in BOOLEAN
    BY DEF Window!Crossing
  <2> QED
    BY <1>2, <2>1 DEF Window!NewSlot, Window!Slot
<1>11. /\ slots \in Seq(Window!Slot) /\ Len(slots) = k /\ slots[k] = new
       /\ \A j \in Window!Turns : slots[j] = closed[j]
  <2>1. /\ slots \in Seq(Window!Slot) /\ Len(slots) = Len(closed) + 1
        /\ \A j \in 1..Len(closed) : slots[j] = closed[j]
        /\ slots[Len(closed) + 1] = new
    <3>1. new \in Window!Slot /\ closed \in Seq(Window!Slot)
      BY <1>9, <1>10
    <3>2. slots = Append(closed, new)
      BY <1>2
    <3> QED
      BY <3>1, <3>2, AppendProperties
  <2> QED
    BY <1>1, <1>5, <1>9, <2>1
<1>12. Rendered(p, slots, c)
  <2>1. Len(slots) >= Len(turn)
    BY <1>1, <1>5, <1>11
  <2>2. p.bound \in Thread \cup {Absent} /\ p.view \in Thread \cup {Absent}
    BY <1>6 DEF Port
  <2> QED
    BY <1>3, <1>4, <1>11, <2>1, <2>2, RendererIs
<1>13. Cuts
  <2>1. Len(slots) \in Nat /\ Len(slots) >= Len(turn)
    BY <1>1, <1>5, <1>11
  <2>2. CutOff(slots)
    BY <1>8, <1>11, <2>1, Zenon DEF CutOff
  <2> QED
    BY <1>12, <2>2, CutIs
<1>14. slot' \in Seq(Window!Slot) /\ Len(slot') = k /\ slot'[k] = new /\ port' = p
  <2>1. k \notin Finished(slots) /\ k \in 1..Len(slots)
    BY <1>1, <1>5, <1>11 DEF Finished
  <2> QED
    BY <1>11, <1>12, <2>1 DEF Rendered
<1>15. composer' \in Composer /\ ~composer'.stopping /\ composer'.leaving = composer.leaving
       /\ composer'.preparing = Absent
  <2>1. CASE composer' = c
    BY <1>7, <2>1
  <2>2. CASE composer' = [c EXCEPT !.loading = FALSE, !.stopping = FALSE]
    BY <1>7, <2>2, FreedComposer
  <2> QED
    BY <1>12, <2>1, <2>2 DEF Rendered
<1>16. d \in Window!Turn
  BY <1>2, <1>5 DEF Window!Turn
<1>17. /\ turn' \in Seq(Window!Turn) /\ Len(turn') = k /\ turn'[k] = d
       /\ \A j \in Window!Turns : turn'[j] = turn[j]
  BY <1>1, <1>3, <1>4, <1>5, <1>16, AppendProperties
<1>18. Opens(k, t)
  BY <1>1, <1>2, <1>3, <1>5, <1>6, <1>10, <1>13, <1>14, <1>15, <1>17 DEF Opens
<1> QED
  BY <1>18

LEMMA OpensTyped ==
    ASSUME WindowInv, NEW k, NEW t, Opens(k, t)
    PROVE  /\ WindowTyped' /\ ActiveIsOpen' /\ k \in Nat /\ k \notin Window!Turns
           /\ (Window!Turns)' = Window!Turns \cup {k} /\ k # Absent
<1>1. WindowTyped /\ Len(turn) \in Nat /\ Window!Turns = 1..Len(turn) /\ Absent \notin Nat
      /\ MaxTurns \in Nat
  BY WindowTypes DEF WindowInv
<1>2. k = Len(turn) + 1 /\ k \in Nat /\ k \notin Window!Turns /\ k <= MaxTurns
  BY <1>1 DEF Opens
<1>3. (Window!Turns)' = Window!Turns \cup {k} /\ Len(turn') = k
  <2>1. DOMAIN turn' = 1..k
    BY LenProperties DEF Opens
  <2> QED
    BY <1>1, <1>2, <2>1 DEF Window!Turns, Opens
<1>4. up' \in Seq(Msgs)
  <2>1. [kind |-> "stream", of |-> k] \in Msgs
    BY <1>1, <1>2 DEF Msgs, Kind
  <2> QED
    BY <1>1, <2>1, AppendProperties DEF WindowTyped, Opens
<1>5. WindowTyped'
  <2>1. current' \in Window!Turns \cup {Absent} /\ down' \in Seq(Msgs)
    BY <1>1 DEF Opens, WindowTyped, Window!TypeOK
  <2>2. composer' \in Composer /\ port' \in Port /\ composer'.preparing = Absent
        /\ slot' \in Seq(Window!Slot) /\ turn' \in Seq(Window!Turn) /\ Len(slot') = k
    BY DEF Opens
  <2> QED
    BY <1>2, <1>3, <1>4, <2>1, <2>2 DEF WindowTyped, Window!TypeOK, Composer, Port
<1>6. ActiveIsOpen'
  BY <1>1, <1>2, <1>3 DEF Opens, Cuts, ActiveIsOpen
<1> QED
  BY <1>1, <1>2, <1>3, <1>5, <1>6

LEMMA OpensAsked ==
    ASSUME WindowInv, NEW k, NEW t, Opens(k, t)
    PROVE  AskedOnce' /\ ComposerServed'
<1>1. up \in Seq(Msgs) /\ AskedOnce /\ ComposerServed
  BY DEF WindowInv, WindowTyped
<1>2. k \in Nat /\ k \notin Window!Turns /\ (Window!Turns)' = Window!Turns \cup {k} /\ k # Absent
  BY OpensTyped
<1>3. PICK m : m = [kind |-> "stream", of |-> k]
  OBVIOUS
<1>4. /\ DOMAIN up' = 1..(Len(up) + 1) /\ DOMAIN up = 1..Len(up)
      /\ Len(up) \in Nat /\ (\A i \in DOMAIN up : i \in DOMAIN up' /\ up'[i] = up[i])
      /\ up'[Len(up) + 1] = m
  <2>1. m \in Msgs
    BY <1>2, <1>3 DEF Msgs, Kind, Opens, WindowInv, WindowTyped
  <2>2. up' = Append(up, m)
    BY <1>3 DEF Opens
  <2> QED
    BY <1>1, <2>1, <2>2, AppendIs
<1>5. \A i \in DOMAIN up' :
         \/ i \in DOMAIN up /\ up'[i] = up[i]
         \/ i = Len(up) + 1 /\ up'[i] = m
  BY <1>4
<1>6. \A j \in Window!Turns : turn'[j] = turn[j]
  BY DEF Opens
<1>7. turn'[k].phase = "requested"
  BY DEF Opens
<1>8. \A i \in DOMAIN up : up[i].kind = "stream" => up[i].of \in Window!Turns
  BY <1>1 DEF AskedOnce
<1>9. AskedOnce'
  <2>1. \A i \in DOMAIN up' :
          /\ up'[i].kind = "stream" =>
                up'[i].of \in Window!Turns \cup {k} /\ turn'[up'[i].of].phase = "requested"
          /\ up'[i].kind = "leave" => up'[i].of \in Thread \cup {Absent}
    BY <1>1, <1>3, <1>5, <1>6, <1>7 DEF AskedOnce
  <2>2. \A i, j \in DOMAIN up' :
          up'[i].kind = "stream" /\ up'[j].kind = "stream" /\ up'[i].of = up'[j].of => i = j
    BY <1>1, <1>2, <1>3, <1>5, <1>8 DEF AskedOnce
  <2> QED
    BY <1>2, <2>1, <2>2 DEF AskedOnce
<1>10. ComposerServed'
  <2>1. Sent({"leave"}) => Sent({"leave"})'
    BY <1>4 DEF Sent
  <2>2. Coming({"left"})' = Coming({"left"})
    BY DEF Coming, Opens
  <2>3. ~composer'.stopping /\ composer'.leaving = composer.leaving /\ port'.active = k
    BY DEF Opens
  <2> QED
    BY <1>1, <1>2, <2>1, <2>2, <2>3 DEF ComposerServed
<1> QED
  BY <1>9, <1>10

LEMMA OpensDelivered ==
    ASSUME WindowInv, NEW k, NEW t, Opens(k, t)
    PROVE  Delivered'
<1>1. k \notin Window!Turns /\ (Window!Turns)' = Window!Turns \cup {k} /\ Delivered
      /\ Len(turn') = k /\ down' = down /\ ~slot'[k].bound
      /\ \A j \in Window!Turns : turn'[j] = turn[j]
  BY OpensTyped DEF WindowInv, Opens
<1>2. Alone' => \A i \in DOMAIN down : down[i].kind # "start"
  BY <1>1 DEF Alone, Opens, Window!Crossing
<1>3. ASSUME NEW i \in DOMAIN down PROVE Fine(down[i])'
  <2>1. Fine(down[i])
    BY <1>1 DEF Delivered
  <2> QED
    BY <1>1, <1>2, <2>1 DEF Fine, Chunks
<1>4. ASSUME NEW i \in DOMAIN down, NEW j \in DOMAIN down, i < j
      PROVE  InOrder(down[i], down[j])'
  <2>1. InOrder(down[i], down[j])
    BY <1>1, <1>4 DEF Delivered
  <2> QED
    BY <1>1, <1>2, <2>1 DEF InOrder, Chunks
<1> QED
  BY <1>1, <1>3, <1>4 DEF Delivered

LEMMA OpensTurns ==
    ASSUME WindowInv, NEW k, NEW t, Opens(k, t), NEW j \in Window!Turns \cup {k}
    PROVE  TurnSound(j)' /\ SlotSound(j)'
<1>1. k \notin Window!Turns /\ k # Absent /\ Len(turn') = k /\ down' = down
  BY OpensTyped DEF Opens
<1>2. CASE j \in Window!Turns
  <2>1. turn'[j] = turn[j] /\ slot'[j].closed /\ TurnSound(j)
    BY <1>2 DEF Opens, Cuts, WindowInv
  <2>2. Alone' => turn[j].phase \in {"closing", "over"}
    <3>1. turn[j].phase \in {"requested", "preparing", "running", "closing", "over"}
      BY <1>2, WindowTypes DEF WindowInv, Window!Turn
    <3> QED
      BY <1>1, <1>2, <3>1 DEF Alone, Opens, Window!Crossing
  <2>3. TurnSound(j)'
    BY <2>1, <2>2 DEF TurnSound
  <2>4. Pending(j)' = Pending(j)
    BY <1>1 DEF Pending
  <2>5. Cuts
    BY DEF Opens
  <2> QED
    BY <1>2, <2>1, <2>3, <2>4, <2>5, CutSlots
<1>3. CASE j = k
  <2>1. /\ turn'[j].phase = "requested" /\ turn'[j].emitted = {}
        /\ ~slot'[j].closed /\ ~slot'[j].cut /\ slot'[j].content = {} /\ slot'[j].saved = Absent
    BY <1>3 DEF Opens
  <2>2. TurnSound(j)'
    BY <1>1, <1>3, <2>1 DEF TurnSound
  <2>3. Shown(j)' = {}
    BY <2>1 DEF Shown
  <2>4. Pending(j)' = {}
    <3>1. \A i \in DOMAIN down : Chunks(down[i]) => down[i].of \in Window!Turns
      BY DEF WindowInv, Delivered, Fine
    <3> QED
      BY <1>1, <1>3, <3>1 DEF Pending, Chunks
  <2> QED
    BY <2>1, <2>2, <2>3, <2>4 DEF SlotSound
<1> QED
  BY <1>2, <1>3

LEMMA SubmitStep == WindowInv /\ Window!Submit => WindowInv'
<1> SUFFICES ASSUME WindowInv, Window!Submit PROVE WindowInv'
  OBVIOUS
<1>1. PICK k, t : Opens(k, t)
  BY SubmitOpens
<1> QED
  BY <1>1, OpensTyped, OpensAsked, OpensDelivered, OpensTurns DEF WindowInv

-----------------------------------------------------------------------------
(* Messages from the main process.                                          *)

\* h was the first of what was on its way, and is taken.
Off(h) ==
    /\ h \in Msgs /\ Fine(h) /\ down' \in Seq(Msgs)
    /\ \A i \in DOMAIN down' :
          /\ \E j \in DOMAIN down : down'[i] = down[j]
          /\ Fine(down'[i]) /\ InOrder(h, down'[i])
    /\ \A i, j \in DOMAIN down' : i < j => InOrder(down'[i], down'[j])
    /\ \A i \in DOMAIN down : down[i] = h \/ \E j \in DOMAIN down' : down'[j] = down[i]
    /\ \E i \in DOMAIN down : down[i] = h

LEMMA OffIs ==
    ASSUME WindowInv, down # <<>>, down' = Tail(down), NEW h, h = Head(down)
    PROVE  Off(h)
<1>1. down \in Seq(Msgs) /\ Delivered
  BY DEF WindowInv, WindowTyped
<1>2. /\ down' \in Seq(Msgs) /\ h = down[1] /\ h \in Msgs /\ 1 \in DOMAIN down
      /\ DOMAIN down' = 1..(Len(down) - 1) /\ Len(down) \in Nat
      /\ \A i \in DOMAIN down' : i + 1 \in DOMAIN down /\ down'[i] = down[i + 1]
      /\ \A i \in DOMAIN down : i # 1 => i - 1 \in DOMAIN down' /\ down'[i - 1] = down[i]
  BY <1>1, TailIs
<1>3. \A i \in DOMAIN down' : Fine(down'[i]) /\ InOrder(h, down'[i])
  <2> SUFFICES ASSUME NEW i \in DOMAIN down' PROVE Fine(down'[i]) /\ InOrder(h, down'[i])
    OBVIOUS
  <2>1. 1 < i + 1 /\ i + 1 \in DOMAIN down /\ down'[i] = down[i + 1]
    BY <1>2
  <2> QED
    BY <1>1, <1>2, <2>1 DEF Delivered
<1>4. \A i, j \in DOMAIN down' : i < j => InOrder(down'[i], down'[j])
  <2> SUFFICES ASSUME NEW i \in DOMAIN down', NEW j \in DOMAIN down', i < j
               PROVE  InOrder(down'[i], down'[j])
    OBVIOUS
  <2>1. i + 1 < j + 1 /\ i + 1 \in DOMAIN down /\ j + 1 \in DOMAIN down
        /\ down'[i] = down[i + 1] /\ down'[j] = down[j + 1]
    BY <1>2
  <2> QED
    BY <1>1, <2>1 DEF Delivered
<1>5. Fine(h)
  BY <1>1, <1>2 DEF Delivered
<1>6. \A i \in DOMAIN down : down[i] = h \/ \E j \in DOMAIN down' : down'[j] = down[i]
  BY <1>2
<1>7. \A i \in DOMAIN down' : \E j \in DOMAIN down : down'[i] = down[j]
  BY <1>2
<1>8. \E i \in DOMAIN down : down[i] = h
  BY <1>2
<1> QED
  BY <1>2, <1>3, <1>4, <1>5, <1>6, <1>7, <1>8 DEF Off

\* What is still to come of a turn when h is taken.
LEMMA OffPending ==
    ASSUME NEW h, Off(h), NEW j
    PROVE  /\ Pending(j)' \subseteq Pending(j)
           /\ Pending(j) \subseteq Pending(j)' \cup {h.kind}
           /\ ~(Chunks(h) /\ h.of = j) => Pending(j)' = Pending(j)
           /\ Chunks(h) /\ h.of = j => h.kind \in Pending(j)
           /\ h.kind \in {"end", "result"} /\ h.of = j => Pending(j)' = {}
<1>1. ASSUME NEW x \in Pending(j)' PROVE x \in Pending(j)
  BY <1>1 DEF Pending, Off
<1>2. ASSUME NEW x \in Pending(j) PROVE x \in Pending(j)' \/ (h.kind = x /\ Chunks(h) /\ h.of = j)
  BY <1>2 DEF Pending, Off, Chunks
<1>3. Chunks(h) /\ h.of = j => h.kind \in Pending(j)
  BY DEF Pending, Off, Chunks
<1>4. h.kind \in {"end", "result"} /\ h.of = j => Pending(j)' = {}
  BY DEF Pending, Off, InOrder, Chunks
<1> QED
  BY <1>1, <1>2, <1>3, <1>4

\* The slot of a turn alone stays so, and is bound only by a start.
Binds(h) ==
    /\ Alone' = Alone
    /\ Alone /\ slot'[Len(turn)].bound => slot[Len(turn)].bound \/ h.kind = "start"

LEMMA OffDelivered ==
    ASSUME WindowInv, NEW h, Off(h), turn' = turn, Binds(h)
    PROVE  Delivered'
<1>1. (Window!Turns)' = Window!Turns
  BY DEF Window!Turns
<1>2. ASSUME NEW i \in DOMAIN down' PROVE Fine(down[i])'
  <2>1. Fine(down'[i]) /\ InOrder(h, down'[i])
    BY DEF Off
  <2> QED
    BY <1>1, <2>1 DEF Fine, InOrder, Chunks, Binds
<1>3. ASSUME NEW i \in DOMAIN down', NEW j \in DOMAIN down', i < j
      PROVE  InOrder(down[i], down[j])'
  <2>1. InOrder(down'[i], down'[j])
    BY <1>3 DEF Off
  <2> QED
    BY <2>1 DEF InOrder, Chunks, Binds
<1> QED
  BY <1>2, <1>3 DEF Delivered

LEMMA OffTurns ==
    ASSUME WindowInv, NEW h, Off(h), turn' = turn, Binds(h), NEW j \in Window!Turns,
           slot[j].closed \/ (h.kind = "result" /\ h.of = j) => slot'[j].closed
    PROVE  TurnSound(j)'
<1>1. TurnSound(j)
  BY DEF WindowInv
<1>2. ASSUME ~slot'[j].closed, turn[j].phase = "over"
      PROVE  \E i \in DOMAIN down' : down'[i].kind = "result" /\ down'[i].of = j
  <2>1. PICK i \in DOMAIN down : down[i].kind = "result" /\ down[i].of = j
    BY <1>1, <1>2 DEF TurnSound
  <2>2. down[i] # h
    BY <1>2, <2>1
  <2> QED
    BY <2>1, <2>2 DEF Off
<1> QED
  BY <1>1, <1>2 DEF TurnSound, Binds

\* The flags that wait for something are reset when it comes.
Frees(h) ==
    /\ composer' \in Composer /\ composer'.preparing = composer.preparing
    /\ composer'.loading => port'.active # Absent
    /\ composer'.stopping => composer.stopping /\ h.kind # "stopped"
    /\ composer'.leaving => composer.leaving /\ h.kind # "left"

LEMMA OffComposer ==
    ASSUME WindowInv, NEW h, Off(h), Frees(h), up' = up
    PROVE  ComposerServed'
<1>1. ASSUME NEW kind, Coming({kind}), h.kind # kind PROVE Coming({kind})'
  <2>1. PICK i \in DOMAIN down : down[i].kind = kind
    BY <1>1 DEF Coming
  <2>2. down[i] # h
    BY <1>1, <2>1
  <2> QED
    BY <2>1, <2>2 DEF Off, Coming
<1>2. \A kind : Sent({kind})' = Sent({kind})
  BY DEF Sent
<1>3. Coming({"stopped"}) /\ h.kind # "stopped" => Coming({"stopped"})'
  BY <1>1
<1>4. Coming({"left"}) /\ h.kind # "left" => Coming({"left"})'
  BY <1>1
<1>5. Sent({"stop"})' = Sent({"stop"}) /\ Sent({"leave"})' = Sent({"leave"})
  BY <1>2
<1> QED
  BY <1>3, <1>4, <1>5 DEF WindowInv, ComposerServed, Frees

LEMMA OffStep ==
    ASSUME WindowInv, NEW h, Off(h), UNCHANGED <<turn, current, up>>,
           slot' \in Seq(Window!Slot), Len(slot') = Len(turn), port' \in Port,
           Frees(h), Binds(h), ActiveIsOpen',
           \A j \in Window!Turns :
              /\ SlotSound(j)'
              /\ slot[j].closed \/ (h.kind = "result" /\ h.of = j) => slot'[j].closed
    PROVE  WindowInv'
<1>1. (Window!Turns)' = Window!Turns
  BY DEF Window!Turns
<1>2. WindowTyped'
  <2>1. composer' \in Composer /\ composer'.preparing = composer.preparing
    BY DEF Frees
  <2>2. down' \in Seq(Msgs)
    BY DEF Off
  <2> QED
    BY <1>1, <2>1, <2>2 DEF WindowInv, WindowTyped, Window!TypeOK, Composer, Port
<1>3. AskedOnce'
  BY <1>1 DEF WindowInv, AskedOnce
<1> QED
  BY <1>1, <1>2, <1>3, OffComposer, OffDelivered, OffTurns DEF WindowInv

\* Slot j is as before.
LEMMA KeptSlot ==
    ASSUME WindowInv, NEW h, Off(h), turn' = turn, NEW j \in Window!Turns, slot'[j] = slot[j],
           ~slot[j].closed /\ ~slot[j].crossed => ~(Chunks(h) /\ h.of = j)
    PROVE  SlotSound(j)'
<1>1. SlotSound(j) /\ Shown(j)' = Shown(j)
  BY DEF WindowInv, Shown
<1>2. ~slot[j].closed /\ ~slot[j].crossed => Pending(j)' = Pending(j)
  BY OffPending
<1> QED
  BY <1>1, <1>2 DEF SlotSound

LEMMA StoppedStep == WindowInv /\ (Window!Stopped \/ Window!Left) => WindowInv'
<1> SUFFICES ASSUME WindowInv, Window!Stopped \/ Window!Left PROVE WindowInv'
  OBVIOUS
<1>1. PICK h : h = Head(down)
  OBVIOUS
<1>2. /\ down # <<>> /\ down' = Tail(down) /\ UNCHANGED <<slot, turn, current, up>>
      /\ \/ /\ h.kind = "stopped" /\ port' = port
            /\ composer' = [composer EXCEPT !.stopping = FALSE, !.loading = FALSE]
         \/ /\ h.kind = "left" /\ port' = [port EXCEPT !.view = h.of]
            /\ composer' = [composer EXCEPT !.leaving = FALSE]
  BY <1>1 DEF Window!Stopped, Window!Left, Window!Arrived
<1>3. Off(h)
  BY <1>1, <1>2, OffIs
<1>4. composer \in Composer /\ port \in Port /\ slot \in Seq(Window!Slot)
      /\ Len(slot) = Len(turn) /\ ActiveIsOpen /\ ComposerServed
  BY DEF WindowInv, WindowTyped, Window!TypeOK, Composer, Port
<1>5. port' \in Port /\ port'.active = port.active /\ port'.bound = port.bound
  <2>1. h.kind = "left" => h.of \in Thread \cup {Absent}
    BY <1>3 DEF Off, Fine
  <2> QED
    BY <1>2, <1>4, <2>1 DEF Port
<1>6. Frees(h)
  <2>1. CASE h.kind = "stopped" /\ composer' = [composer EXCEPT !.stopping = FALSE, !.loading = FALSE]
    <3>1. PICK g : g = [composer EXCEPT !.stopping = FALSE]
      OBVIOUS
    <3>2. g \in Composer /\ ~g.stopping /\ g.leaving = composer.leaving
          /\ g.preparing = composer.preparing
      BY <1>4, <3>1 DEF Composer
    <3>3. composer' = [g EXCEPT !.loading = FALSE]
      BY <2>1, <3>1
    <3> QED
      BY <2>1, <3>2, <3>3 DEF Frees, Composer
  <2>2. CASE h.kind = "left" /\ composer' = [composer EXCEPT !.leaving = FALSE]
    <3>1. /\ composer' \in Composer /\ ~composer'.leaving
          /\ composer'.loading = composer.loading /\ composer'.stopping = composer.stopping
          /\ composer'.preparing = composer.preparing
      BY <1>4, <2>2 DEF Composer
    <3> QED
      BY <1>4, <1>5, <2>2, <3>1 DEF Frees, ComposerServed
  <2> QED
    BY <1>2, <2>1, <2>2
<1>7. Binds(h) /\ ActiveIsOpen'
  BY <1>2, <1>4, <1>5 DEF Binds, Alone, ActiveIsOpen, Window!Turns
<1>8. ~Chunks(h) /\ h.kind # "result"
  BY <1>2 DEF Chunks, Window!ChunkKind
<1>9. ASSUME NEW j \in Window!Turns PROVE SlotSound(j)'
  BY <1>2, <1>3, <1>8, KeptSlot
<1> QED
  BY <1>2, <1>3, <1>4, <1>5, <1>6, <1>7, <1>8, <1>9, OffStep

\* The active slot s has taken h, if that is a chunk; the others are as before.
Took(q, s, h) ==
    /\ s \in Window!Turns /\ s = port.active
    /\ q \in Seq(Window!Slot) /\ Len(q) = Len(turn)
    /\ \A j \in Window!Turns : j # s => q[j] = slot[j]
    /\ ~q[s].closed /\ q[s].crossed = slot[s].crossed /\ q[s].saved = slot[s].saved
    /\ q[s].cut = slot[s].cut
    /\ q[s].content # {} => q[s].bound
    /\ q[s].bound => slot[s].bound \/ h.kind = "start"
    /\ Chunks(h) => /\ h.kind = "start" \/ slot[s].bound
                    /\ q[s].content = slot[s].content \cup {[kind |-> h.kind, turn |-> h.of]}
    /\ ~Chunks(h) => q[s].content = slot[s].content

LEMMA ActiveSlot ==
    ASSUME WindowInv, NEW s \in Window!Turns, s = port.active
    PROVE  /\ s = Len(turn) /\ Len(turn) # 0 /\ (Alone <=> ~slot[s].crossed)
           /\ ~slot[s].closed /\ ~slot[s].cut /\ slot[s].saved = Absent
           /\ port.bound = turn[s].thread /\ port.bound # Absent /\ s # Absent
           /\ \A j \in Window!Turns : j # s => slot[j].closed
<1>1. Len(turn) \in Nat /\ Window!Turns = 1..Len(turn) /\ turn[s] \in Window!Turn
      /\ Absent \notin Thread /\ Absent \notin Nat
  BY WindowTypes DEF WindowInv
<1>2. s # Absent /\ ActiveIsOpen /\ SlotSound(s)
  BY <1>1 DEF WindowInv
<1>3. turn[s].thread \in Thread
  BY <1>1 DEF Window!Turn
<1> QED
  BY <1>1, <1>2, <1>3 DEF ActiveIsOpen, SlotSound, Alone

\* What a slot that nobody crosses takes is its own.
LEMMA TookOwn ==
    ASSUME WindowInv, NEW h, Off(h), NEW q, NEW s, Took(q, s, h), ~slot[s].crossed
    PROVE  /\ Chunks(h) => h.of = s
           /\ \A c \in q[s].content : c.turn = s
           /\ {c.kind : c \in q[s].content} =
                 Shown(s) \cup (IF Chunks(h) THEN {h.kind} ELSE {})
<1>1. s \in Window!Turns /\ s = port.active
  BY DEF Took
<1>2. s = Len(turn) /\ Alone /\ SlotSound(s)
  BY <1>1, ActiveSlot DEF WindowInv
<1>3. Chunks(h) => h.of = s
  BY <1>2 DEF Took, Off, Fine
<1>4. CASE Chunks(h)
  <2>1. q[s].content = slot[s].content \cup {[kind |-> h.kind, turn |-> s]}
    BY <1>3, <1>4 DEF Took
  <2>2. {c.kind : c \in q[s].content} = Shown(s) \cup {h.kind}
    <3>1. PICK x : x = [kind |-> h.kind, turn |-> s]
      OBVIOUS
    <3>2. q[s].content = slot[s].content \cup {x} /\ x.kind = h.kind
      BY <2>1, <3>1
    <3>3. h.kind \in {c.kind : c \in q[s].content}
      BY <3>2
    <3> QED
      BY <3>2, <3>3 DEF Shown
  <2> QED
    BY <1>2, <1>3, <1>4, <2>1, <2>2 DEF SlotSound
<1>5. CASE ~Chunks(h)
  <2>1. q[s].content = slot[s].content
    BY <1>5 DEF Took
  <2> QED
    BY <1>2, <1>3, <1>5, <2>1 DEF SlotSound, Shown
<1> QED
  BY <1>4, <1>5

\* A chunk that is not the last is taken.
LEMMA TakeStep ==
    ASSUME WindowInv, NEW h, Off(h), NEW q, NEW s, Took(q, s, h), Chunks(h),
           UNCHANGED <<turn, current, up>>, NEW p \in Port, p.active = s, p.bound = port.bound,
           Rendered(p, q, composer)
    PROVE  WindowInv'
<1>1. s \in Window!Turns /\ s = port.active /\ Len(q) = Len(turn)
  BY DEF Took
<1>2. /\ s = Len(turn) /\ (Alone <=> ~slot[s].crossed) /\ Len(turn) # 0
      /\ ~slot[s].closed /\ ~slot[s].cut /\ slot[s].saved = Absent /\ s # Absent
      /\ \A j \in Window!Turns : j # s => slot[j].closed
  BY <1>1, ActiveSlot
<1>3. Window!Turns = 1..Len(turn)
  BY WindowTypes DEF WindowInv
<1>4. Finished(q) = {}
  BY <1>2 DEF Finished, Took
<1>5. /\ slot' \in Seq(Window!Slot) /\ Len(slot') = Len(turn) /\ port' = p
      /\ composer' = composer /\ \A j \in Window!Turns : slot'[j] = q[j]
  BY <1>1, <1>3, <1>4 DEF Rendered
<1>6. \A j \in Window!Turns : j # s => slot'[j] = slot[j]
  BY <1>5 DEF Took
<1>7. /\ ~slot'[s].closed /\ slot'[s].crossed = slot[s].crossed /\ slot'[s].saved = Absent
      /\ ~slot'[s].cut /\ slot'[s].content = q[s].content
      /\ slot'[s].content # {} => slot'[s].bound
      /\ slot'[s].bound => slot[s].bound \/ h.kind = "start"
  BY <1>1, <1>2, <1>5 DEF Took
<1>8. Binds(h)
  BY <1>2, <1>7 DEF Binds, Alone
<1>9. SlotSound(s)'
  <2>1. ASSUME ~slot[s].crossed
        PROVE  (\A c \in slot'[s].content : c.turn = s) /\ Shown(s)' \cup Pending(s)' = turn[s].emitted
    <3>1. /\ h.of = s /\ \A c \in q[s].content : c.turn = s
          /\ {c.kind : c \in q[s].content} = Shown(s) \cup {h.kind}
      BY <2>1, TookOwn
    <3>2. Shown(s)' = Shown(s) \cup {h.kind}
      BY <1>7, <3>1 DEF Shown
    <3>3. Shown(s) \cup Pending(s) = turn[s].emitted
      BY <1>1, <1>2, <2>1 DEF WindowInv, SlotSound
    <3>4. /\ Pending(s)' \subseteq Pending(s) /\ Pending(s) \subseteq Pending(s)' \cup {h.kind}
          /\ h.kind \in Pending(s)
      BY <3>1, OffPending
    <3> QED
      BY <1>7, <3>1, <3>2, <3>3, <3>4
  <2> QED
    BY <1>7, <2>1 DEF SlotSound
<1>10. ASSUME NEW j \in Window!Turns, j # s PROVE SlotSound(j)'
  BY <1>2, <1>6, <1>10, KeptSlot
<1>11. Frees(h)
  <2>1. h.kind \notin {"stopped", "left"}
    BY DEF Chunks, Window!ChunkKind
  <2> QED
    BY <1>2, <1>5, <2>1 DEF Frees, WindowInv, WindowTyped, Window!TypeOK, Composer
<1>12. ActiveIsOpen'
  <2>1. ActiveIsOpen
    BY DEF WindowInv
  <2> QED
    BY <1>1, <1>2, <1>5, <1>6, <1>7, <2>1 DEF ActiveIsOpen, Window!Turns
<1>13. h.kind # "result"
  BY DEF Chunks, Window!ChunkKind
<1> QED
  BY <1>5, <1>6, <1>8, <1>9, <1>10, <1>11, <1>12, <1>13, <1>2, OffStep

\* A turn's own end or result closes its slot.
LEMMA EndsStep ==
    ASSUME WindowInv, NEW h, Off(h), NEW q, NEW s, Took(q, s, h), h.kind \in {"end", "result"},
           h.kind = "result" => h.of = s,
           UNCHANGED <<turn, current, up>>, NEW p \in Port, p.active = Absent,
           p.bound = port.bound, NEW slots, ClosedAs(q, s, FALSE, slots),
           Rendered(p, slots, composer)
    PROVE  WindowInv'
<1>1. s \in Window!Turns /\ s = port.active /\ Len(q) = Len(turn) /\ ~q[s].closed
  BY DEF Took
<1>2. /\ s = Len(turn) /\ (Alone <=> ~slot[s].crossed) /\ Len(turn) # 0
      /\ ~slot[s].closed /\ ~slot[s].cut /\ slot[s].saved = Absent /\ s # Absent
      /\ port.bound = turn[s].thread /\ port.bound # Absent
      /\ \A j \in Window!Turns : j # s => slot[j].closed
  BY <1>1, ActiveSlot
<1>3. Window!Turns = 1..Len(turn) /\ (Window!Turns)' = Window!Turns /\ Absent \notin Window!Turns
  BY WindowTypes DEF WindowInv, Window!Turns
<1>4. /\ Len(slots) = Len(turn) /\ \A j \in Window!Turns : j # s => slots[j] = slot[j]
      /\ slots[s].closed /\ ~slots[s].cut /\ slots[s].bound = q[s].bound
      /\ slots[s].content = q[s].content /\ slots[s].crossed = slot[s].crossed
      /\ slots[s].saved = Absent
  BY <1>1, <1>2 DEF ClosedAs, Took
<1>5. s \in Finished(slots) /\ \A j \in Window!Turns : j # s => j \notin Finished(slots)
  BY <1>1, <1>2, <1>4 DEF Finished
<1>6. /\ slot' \in Seq(Window!Slot) /\ Len(slot') = Len(turn) /\ port' = p
      /\ composer' = [composer EXCEPT !.loading = FALSE, !.stopping = FALSE]
      /\ \A j \in Window!Turns : j # s => slot'[j] = slot[j]
  BY <1>3, <1>4, <1>5 DEF Rendered
<1>7. /\ slot'[s].closed /\ slot'[s].crossed = slot[s].crossed
      /\ ~slot'[s].cut /\ slot'[s].content = q[s].content
      /\ slot'[s].content # {} => slot'[s].bound
      /\ slot'[s].bound => slot[s].bound \/ h.kind = "start"
  BY <1>1, <1>3, <1>4 DEF Rendered, Took
<1>8. slot'[s].saved # Absent => slot'[s].saved = turn[s].thread
  <2>1. Window!SavedUnder(p) = turn[s].thread
    BY <1>2 DEF Window!SavedUnder
  <2> QED
    BY <1>1, <1>3, <1>4, <1>5, <2>1 DEF Rendered
<1>9. Binds(h)
  BY <1>2, <1>7 DEF Binds, Alone
<1>10. SlotSound(s)'
  <2>1. ASSUME ~slot[s].crossed
        PROVE  /\ \A c \in slot'[s].content : c.turn = s
               /\ Shown(s)' = turn[s].emitted /\ turn[s].phase \in {"closing", "over"}
    <3>1. /\ Chunks(h) => h.of = s
          /\ \A c \in q[s].content : c.turn = s
          /\ {c.kind : c \in q[s].content} = Shown(s) \cup (IF Chunks(h) THEN {h.kind} ELSE {})
      BY <2>1, TookOwn
    <3>2. h.kind = "end" <=> Chunks(h)
      BY DEF Chunks, Window!ChunkKind
    <3>3. h.of = s
      BY <3>1, <3>2
    <3>4. Shown(s)' = Shown(s) \cup (IF Chunks(h) THEN {h.kind} ELSE {})
      BY <1>7, <3>1 DEF Shown
    <3>5. Shown(s) \cup Pending(s) = turn[s].emitted
      BY <1>1, <1>2, <2>1 DEF WindowInv, SlotSound
    <3>6. Pending(s) = IF Chunks(h) THEN {h.kind} ELSE {}
      BY <3>2, <3>3, OffPending
    <3>7. turn[s].phase \in {"closing", "over"}
      <4>1. CASE h.kind = "result"
        BY <3>3, <4>1 DEF Off, Fine
      <4>2. CASE h.kind = "end"
        <5>1. "end" \in turn[s].emitted
          BY <3>2, <3>5, <3>6, <4>2
        <5> QED
          BY <1>1, <5>1 DEF WindowInv, TurnSound
      <4> QED
        BY <4>1, <4>2
    <3> QED
      BY <1>7, <3>1, <3>4, <3>5, <3>6, <3>7
  <2> QED
    BY <1>7, <1>8, <2>1 DEF SlotSound
<1>11. ASSUME NEW j \in Window!Turns, j # s PROVE SlotSound(j)'
  BY <1>2, <1>6, <1>11, KeptSlot
<1>12. Frees(h)
  <2>1. composer \in Composer
    BY DEF WindowInv, WindowTyped, Window!TypeOK, Composer
  <2>2. composer' \in Composer /\ ~composer'.loading /\ ~composer'.stopping
        /\ composer'.preparing = composer.preparing /\ composer'.leaving = composer.leaving
    BY <1>6, <2>1, FreedComposer
  <2> QED
    BY <2>2 DEF Frees
<1>13. ActiveIsOpen'
  BY <1>2, <1>3, <1>6, <1>7 DEF ActiveIsOpen
<1> QED
  BY <1>2, <1>6, <1>7, <1>9, <1>10, <1>11, <1>12, <1>13, OffStep

LEMMA PortActive ==
    ASSUME WindowInv, NEW a \in Nat \cup {Absent}, NEW p, p = [port EXCEPT !.active = a]
    PROVE  p \in Port /\ p.active = a /\ p.bound = port.bound
BY DEF WindowInv, WindowTyped, Window!TypeOK, Port

LEMMA ReceiveStep == WindowInv /\ Window!ReceiveChunk => WindowInv'
<1> SUFFICES ASSUME WindowInv, Window!ReceiveChunk PROVE WindowInv'
  OBVIOUS
<1>1. PICK h, s : h = Head(down) /\ s = port.active
  OBVIOUS
<1>2. PICK chunk, r : /\ chunk = [kind |-> h.kind, turn |-> h.of]
                      /\ r = [slot[s] EXCEPT !.bound = TRUE, !.content = slot[s].content \cup {chunk}]
  OBVIOUS
<1>3. PICK q : q = [slot EXCEPT ![s] = r]
  OBVIOUS
<1>4. /\ down # <<>> /\ down' = Tail(down) /\ Chunks(h) /\ UNCHANGED <<turn, current, up>>
      /\ ~Window!Takes(chunk) => UNCHANGED <<composer, port, slot>>
      /\ Window!Takes(chunk) /\ h.kind = "end" =>
            Window!Renderer([port EXCEPT !.active = Absent], Window!ClosedSlot(q, s, FALSE), composer)
      /\ Window!Takes(chunk) /\ h.kind # "end" =>
            Window!Renderer([port EXCEPT !.active = s], q, composer)
  BY <1>1, <1>2, <1>3 DEF Window!ReceiveChunk, Window!Arrived, Chunks
<1>5. Off(h)
  BY <1>1, <1>4, OffIs
<1>6. WindowTyped /\ slot \in Seq(Window!Slot) /\ Len(slot) = Len(turn) /\ ActiveIsOpen
      /\ composer \in Composer /\ port \in Port
  BY DEF WindowInv, WindowTyped, Window!TypeOK, Composer, Port
<1>7. CASE Window!Takes(chunk)
  <2>1. s \in Window!Turns /\ ~slot[s].closed /\ (h.kind = "start" \/ slot[s].bound) /\ s # Absent
    BY <1>1, <1>2, <1>6, <1>7 DEF Window!Takes, Window!Open, ActiveIsOpen
  <2>2. chunk \in Window!Chunk
    <3>1. h.of \in Window!Turns /\ h.kind \in Window!ChunkKind
      BY <1>4, <1>5 DEF Off, Fine, Chunks
    <3>2. h.of \in 1..MaxTurns
      BY <1>6, <3>1, WindowTypes
    <3> QED
      BY <1>2, <3>1, <3>2 DEF Window!Chunk
  <2>3. slot[s] \in Window!Slot
    BY <1>6, <2>1, WindowTypes
  <2>4. /\ r \in Window!Slot /\ r.bound /\ r.content = slot[s].content \cup {chunk}
        /\ r.closed = slot[s].closed /\ r.cut = slot[s].cut /\ r.crossed = slot[s].crossed
        /\ r.saved = slot[s].saved
    <3>1. PICK g : g = [slot[s] EXCEPT !.bound = TRUE]
      OBVIOUS
    <3>2. /\ g \in Window!Slot /\ g.bound /\ g.content = slot[s].content
          /\ g.closed = slot[s].closed /\ g.cut = slot[s].cut /\ g.crossed = slot[s].crossed
          /\ g.saved = slot[s].saved
      BY <2>3, <3>1 DEF Window!Slot
    <3>3. r = [g EXCEPT !.content = slot[s].content \cup {chunk}]
      BY <1>2, <3>1
    <3>4. slot[s].content \cup {chunk} \in SUBSET Window!Chunk
      BY <2>2, <2>3 DEF Window!Slot
    <3> QED
      BY <3>2, <3>3, <3>4 DEF Window!Slot
  <2>5. /\ q \in Seq(Window!Slot) /\ Len(q) = Len(turn) /\ q[s] = r
        /\ \A j \in Window!Turns : j # s => q[j] = slot[j]
    <3>1. Len(turn) \in Nat /\ Window!Turns = 1..Len(turn)
      BY <1>6, WindowTypes
    <3>2. slot \in [1..Len(turn) -> Window!Slot]
      BY <1>6, LenProperties
    <3>3. q = [j \in 1..Len(turn) |-> q[j]] /\ q[s] = r
          /\ \A j \in 1..Len(turn) : q[j] \in Window!Slot /\ (j # s => q[j] = slot[j])
      BY <1>3, <2>1, <2>4, <3>1, <3>2
    <3> QED
      BY <3>1, <3>3, MadeSeq
  <2>6. Took(q, s, h)
    BY <1>1, <1>2, <1>4, <2>1, <2>4, <2>5 DEF Took
  <2>7. CASE h.kind = "end"
    <3>1. PICK p, slots : /\ p = [port EXCEPT !.active = Absent]
                          /\ slots = Window!ClosedSlot(q, s, FALSE)
      OBVIOUS
    <3>2. p \in Port /\ p.active = Absent /\ p.bound = port.bound
      BY <3>1, PortActive
    <3>3. ClosedAs(q, s, FALSE, slots)
      BY <1>6, <2>1, <2>5, <3>1, ClosedIs
    <3>4. Rendered(p, slots, composer)
      <4>1. Window!Renderer(p, slots, composer)
        BY <1>4, <1>7, <2>7, <3>1
      <4>2. slots \in Seq(Window!Slot) /\ Len(slots) = Len(turn)
        BY <3>3 DEF ClosedAs
      <4> QED
        BY <3>2, <4>1, <4>2, RenderedIs
    <3> QED
      BY <1>4, <1>5, <2>6, <2>7, <3>2, <3>3, <3>4, EndsStep
  <2>8. CASE h.kind # "end"
    <3>1. PICK p : p = [port EXCEPT !.active = s]
      OBVIOUS
    <3>2. p \in Port /\ p.active = s /\ p.bound = port.bound
      <4>1. s \in Nat
        BY <1>6, <2>1, WindowTypes
      <4> QED
        BY <3>1, <4>1, PortActive
    <3>3. Rendered(p, q, composer)
      <4>1. Window!Renderer(p, q, composer)
        BY <1>4, <1>7, <2>8, <3>1
      <4> QED
        BY <2>5, <3>2, <4>1, RenderedIs
    <3> QED
      BY <1>4, <1>5, <2>6, <3>2, <3>3, TakeStep
  <2> QED
    BY <2>7, <2>8
<1>8. CASE ~Window!Takes(chunk)
  <2>1. UNCHANGED <<composer, port, slot>>
    BY <1>4, <1>8
  <2>2. h.kind \notin {"stopped", "left", "result"}
    BY <1>4 DEF Chunks, Window!ChunkKind
  <2>3. Frees(h)
    BY <1>6, <2>1, <2>2 DEF Frees, WindowInv, ComposerServed
  <2>4. Binds(h) /\ ActiveIsOpen'
    BY <1>4, <1>6, <2>1 DEF Binds, Alone, ActiveIsOpen, Window!Turns
  <2>5. ASSUME NEW j \in Window!Turns PROVE SlotSound(j)'
    <3>1. ASSUME ~slot[j].closed, ~slot[j].crossed, h.of = j PROVE FALSE
      <4>1. j = s /\ j # Absent
        BY <1>1, <1>6, <3>1, WindowTypes DEF ActiveIsOpen
      <4>2. h.kind = "end" /\ ~slot[j].bound
        BY <1>1, <1>2, <1>4, <1>8, <3>1, <4>1
        DEF Window!Takes, Window!Open, Chunks, Window!ChunkKind
      <4>3. TurnSound(j) /\ SlotSound(j)
        BY DEF WindowInv
      <4>4. Shown(j) = {}
        BY <4>2, <4>3 DEF SlotSound, Shown
      <4>5. Pending(j) = turn[j].emitted
        BY <3>1, <4>3, <4>4 DEF SlotSound
      <4>6. "end" \in turn[j].emitted /\ "start" \in turn[j].emitted
        BY <1>4, <1>5, <3>1, <4>2, <4>3, <4>5, OffPending DEF TurnSound
      <4>7. "start" \in Pending(j)' \cup {h.kind} /\ Pending(j)' = {}
        BY <1>5, <3>1, <4>2, <4>5, <4>6, OffPending
      <4> QED
        BY <4>2, <4>7
    <3> QED
      BY <1>4, <1>5, <2>1, <3>1, KeptSlot
  <2> QED
    BY <1>4, <1>5, <1>6, <2>1, <2>2, <2>3, <2>4, <2>5, OffStep
<1> QED
  BY <1>7, <1>8

LEMMA ReturnsStep == WindowInv /\ Window!StreamReturns => WindowInv'
<1> SUFFICES ASSUME WindowInv, Window!StreamReturns PROVE WindowInv'
  OBVIOUS
<1>1. PICK h, s, p, slots :
         /\ h = Head(down) /\ s = h.of
         /\ p = [port EXCEPT !.active = IF port.active = s THEN Absent ELSE port.active]
         /\ slots = Window!ClosedSlot(slot, s, FALSE)
  OBVIOUS
<1>2. /\ down # <<>> /\ down' = Tail(down) /\ h.kind = "result"
      /\ UNCHANGED <<turn, current, up>> /\ Window!Renderer(p, slots, composer)
  BY <1>1 DEF Window!StreamReturns, Window!Arrived, Window!Settled
<1>3. Off(h)
  BY <1>1, <1>2, OffIs
<1>4. WindowTyped /\ slot \in Seq(Window!Slot) /\ Len(slot) = Len(turn) /\ ActiveIsOpen
      /\ composer \in Composer /\ port \in Port
  BY DEF WindowInv, WindowTyped, Window!TypeOK, Composer, Port
<1>5. s \in Window!Turns /\ s # Absent /\ s \in Nat
  <2>1. s \in Window!Turns
    BY <1>1, <1>2, <1>3 DEF Off, Fine
  <2> QED
    BY <1>4, <2>1, WindowTypes
<1>6. ClosedAs(slot, s, FALSE, slots)
  BY <1>1, <1>4, <1>5, ClosedIs
<1>7. p \in Port /\ p.bound = port.bound
      /\ p.active = IF port.active = s THEN Absent ELSE port.active
  <2>1. PICK a : a = IF port.active = s THEN Absent ELSE port.active
    OBVIOUS
  <2>2. a \in Nat \cup {Absent}
    BY <1>4, <2>1 DEF Port
  <2> QED
    BY <1>1, <2>1, <2>2, PortActive
<1>8. Rendered(p, slots, composer) /\ slots \in Seq(Window!Slot) /\ Len(slots) = Len(turn)
  BY <1>2, <1>6, <1>7, RenderedIs DEF ClosedAs
<1>9. ~Chunks(h)
  BY <1>2 DEF Chunks, Window!ChunkKind
<1>10. CASE port.active = s
  <2>1. ~slot[s].closed /\ SlotSound(s)
    BY <1>4, <1>5, <1>10 DEF ActiveIsOpen, WindowInv
  <2>2. Took(slot, s, h)
    BY <1>4, <1>5, <1>9, <1>10, <2>1 DEF Took, SlotSound
  <2> QED
    BY <1>1, <1>2, <1>3, <1>6, <1>7, <1>8, <1>10, <2>2, EndsStep
<1>11. CASE port.active # s
  <2>1. slot[s].closed
    BY <1>4, <1>5, <1>11 DEF ActiveIsOpen
  <2>2. \A j \in Window!Turns : slots[j] = slot[j]
    BY <1>6, <2>1 DEF ClosedAs
  <2>3. Finished(slots) = {}
    BY <2>2 DEF Finished
  <2>4. Window!Turns = 1..Len(turn)
    BY <1>4, WindowTypes
  <2>5. /\ \A j \in Window!Turns : slot'[j] = slot[j]
        /\ slot' \in Seq(Window!Slot) /\ Len(slot') = Len(turn) /\ port' = p
        /\ composer' = composer
    BY <1>8, <2>2, <2>3, <2>4 DEF Rendered
  <2>6. port'.active = port.active /\ port'.bound = port.bound /\ port' \in Port
    BY <1>7, <1>11, <2>5
  <2>7. Frees(h)
    BY <1>2, <1>4, <2>5, <2>6 DEF Frees, WindowInv, ComposerServed
  <2>8. Len(turn) # 0 => Len(turn) \in Window!Turns
    BY <1>4, WindowTypes
  <2>9. Binds(h)
    BY <1>2, <2>5, <2>8 DEF Binds, Alone
  <2>10. ActiveIsOpen'
    BY <1>2, <1>4, <2>5, <2>6 DEF ActiveIsOpen, Window!Turns
  <2>11. ASSUME NEW j \in Window!Turns PROVE SlotSound(j)'
    BY <1>2, <1>3, <1>9, <2>5, KeptSlot
  <2>12. ASSUME NEW j \in Window!Turns, slot[j].closed \/ h.of = j PROVE slot'[j].closed
    BY <1>1, <2>1, <2>5, <2>12
  <2> QED
    BY <1>2, <1>3, <2>5, <2>6, <2>7, <2>9, <2>10, <2>11, <2>12, OffStep
<1> QED
  BY <1>10, <1>11

-----------------------------------------------------------------------------
(* The theorems.                                                            *)

LEMMA WindowNext ==
    ASSUME WindowInv, Window!Next
    PROVE  WindowInv'
<1>1. CASE Window!Prepare \/ Window!Submit \/ Window!StopStreaming \/ Window!EditThread
  BY <1>1, PrepareStep, SubmitStep, StopStreamingStep, EditStep
<1>2. CASE \E t \in Thread : Window!SelectThread(t)
  BY <1>2, SelectStep
<1>3. CASE Window!RefuseStream \/ Window!LimitStream \/ Window!StartStream \/ Window!StopStream
  BY <1>3, RefuseStep, LimitStep, StartStep, StopStreamStep
<1>4. CASE \E k \in Window!Turns :
              \/ Window!Emit(k) \/ Window!Prepared(k) \/ Window!AbandonPreparation(k)
              \/ Window!Finish(k) \/ Window!Block(k) \/ Window!Return(k)
  BY <1>4, EmitStep, PreparationStep, FinishStep, ReturnStep
<1>5. CASE Window!ReceiveChunk \/ Window!StreamReturns \/ Window!Stopped \/ Window!Left
  BY <1>5, ReceiveStep, ReturnsStep, StoppedStep
<1> QED
  BY <1>1, <1>2, <1>3, <1>4, <1>5 DEF Window!Next

LEMMA WindowInit == Window!Init => WindowInv
<1> SUFFICES ASSUME Window!Init PROVE WindowInv
  OBVIOUS
<1>1. /\ composer = [preparing |-> Absent, loading |-> FALSE, stopping |-> FALSE, leaving |-> FALSE]
      /\ port = [active |-> Absent, bound |-> Absent, view |-> Absent]
      /\ slot = <<>> /\ turn = <<>> /\ current = Absent /\ up = <<>> /\ down = <<>>
  BY DEF Window!Init
<1>2. Len(turn) = 0 /\ Len(slot) = 0 /\ Window!Turns = {} /\ DOMAIN up = {} /\ DOMAIN down = {}
  BY <1>1 DEF Window!Turns
<1>3. WindowTyped
  BY <1>1, <1>2, WindowAssumption DEF WindowTyped, Window!TypeOK
<1> QED
  BY <1>1, <1>2, <1>3 DEF WindowInv, ActiveIsOpen, ComposerServed, AskedOnce, Delivered

LEMMA WindowStutter ==
    ASSUME WindowInv, UNCHANGED windowVars
    PROVE  WindowInv'
<1>1. UNCHANGED <<composer, port, slot, turn, current, up, down>>
  BY DEF windowVars
<1>2. (Window!Turns)' = Window!Turns
  BY <1>1 DEF Window!Turns
<1>3. WindowTyped' /\ ActiveIsOpen' /\ AskedOnce'
  BY <1>1, <1>2 DEF WindowInv, WindowTyped, Window!TypeOK, ActiveIsOpen, AskedOnce
<1>4. ComposerServed'
  BY <1>1 DEF WindowInv, ComposerServed, Sent, Coming
<1>5. Delivered'
  BY <1>1, <1>2 DEF WindowInv, Delivered, Fine, InOrder, Alone, Chunks
<1>6. ASSUME NEW j \in Window!Turns PROVE TurnSound(j)' /\ SlotSound(j)'
  BY <1>1 DEF WindowInv, TurnSound, SlotSound, Alone, Shown, Pending
<1> QED
  BY <1>2, <1>3, <1>4, <1>5, <1>6 DEF WindowInv

\* In every state, for any number of threads and turns, what is on its way to a
\* window was pushed by the turns it is of, in their order, one slot at most is
\* open, that of the last turn, and what the composer waits for will come; and
\* the registry of the turns keeps its own invariant.
THEOREM StreamsInvariance == StreamsSpec => [](IInv /\ WindowInv)
<1>1. StreamsInit => IInv /\ WindowInv
  BY InitInv, WindowInit DEF StreamsInit
<1>2. ASSUME IInv, WindowInv, StreamsNext PROVE IInv' /\ WindowInv'
  BY <1>2, NextStep, StutterInv, WindowNext, WindowStutter DEF StreamsNext
<1>3. ASSUME IInv, WindowInv, UNCHANGED <<part, vars, windowVars>> PROVE IInv' /\ WindowInv'
  BY <1>3, StutterInv, WindowStutter
<1> QED
  BY <1>1, <1>2, <1>3, PTL DEF StreamsSpec

\* The registry and the window keep their types.
THEOREM StreamsTypeCorrect == StreamsSpec => []StreamsTypeOK
<1>1. IInv /\ WindowInv => StreamsTypeOK
  BY DEF IInv, RegInv, Typed, WindowInv, WindowTyped, StreamsTypeOK
<1> QED
  BY <1>1, StreamsInvariance, PTL

\* Unless a turn that was superseded may still push behind the start of the new
\* one, the stream of a send holds what its turn pushed and nothing else, and
\* all of that once the turn has closed it.
THEOREM StreamsAreExact == StreamsSpec => []StreamExact
<1>1. WindowInv => StreamExact
  BY DEF WindowInv, SlotSound, Shown, StreamExact, Window!StreamExact
<1> QED
  BY <1>1, StreamsInvariance, PTL

\* A message whose stream ended by itself is saved under the thread it was sent
\* in, whichever thread is shown or streamed to by then.
THEOREM SavedWhereSent == StreamsSpec => []SavedUnderOwnThread
<1>1. WindowInv => SavedUnderOwnThread
  BY DEF WindowInv, SlotSound, SavedUnderOwnThread, Window!SavedUnderOwnThread
<1> QED
  BY <1>1, StreamsInvariance, PTL

\* Once all turns are over and all messages were received no stream is open and
\* the composer waits for nothing.
THEOREM ComposerIsFreed == StreamsSpec => []NothingLeftOpen
<1>1. ASSUME WindowInv PROVE NothingLeftOpen
  <2> SUFFICES ASSUME up = <<>>, down = <<>>, \A k \in Window!Turns : turn[k].phase = "over"
               PROVE  /\ \A k \in Window!Turns : slot[k].closed
                      /\ ~composer.loading /\ ~composer.stopping /\ ~composer.leaving
    BY DEF NothingLeftOpen, Window!NothingLeftOpen
  <2>1. DOMAIN up = {} /\ DOMAIN down = {}
    OBVIOUS
  <2>2. \A k \in Window!Turns : slot[k].closed
    BY <1>1, <2>1 DEF WindowInv, TurnSound
  <2>3. port.active = Absent
    BY <1>1, <2>2 DEF WindowInv, ActiveIsOpen
  <2> QED
    BY <1>1, <2>1, <2>2, <2>3 DEF WindowInv, ComposerServed, Sent, Coming
<1> QED
  BY <1>1, StreamsInvariance, PTL

=============================================================================
