---------------------------- MODULE ChatTransport ----------------------------
(* One window of the desktop and its stream of chat chunks: the view and the
   composer (composables/useChatStreaming.ts, useChatComposerSend.ts), the
   transport that cuts the one IPC channel of chunks into streams
   (modules/chat/ipc_chat_transport.ts), the saving of messages
   (chat_instance.ts), and of the backend what a window sees: which of its
   turns runs, and what each pushes (ThreadStreams and RunLifecycle have the
   rest).  Turns that an approval resumes are left out, and with them the slot
   that is armed for them.

   The renderer and the main process exchange messages over two channels that
   keep their order; each handles one message at a time.  What the SDK's Chat
   does with a stream is external: it reads it from the start, and calls
   onFinish once it is closed and read to its end. *)
EXTENDS Naturals, Sequences

CONSTANTS
    Thread,       \* chat threads
    MaxTurns,     \* bound: turns
    None          \* no thread, no slot, no turn

VARIABLES
    composer,   \* flags of the composer and of the view
    port,       \* the locals of createIpcChatTransport, and the view
    slot,       \* the inbound slots: turn k has slot k
    turn,       \* the turns of this window
    current,    \* the backend's active stream of this window
    up, down    \* the channels to and from the main process

chatVars == <<composer, port, slot, turn, current, up, down>>

Turns == DOMAIN turn
\* A chunk between the first and the last of a turn is one with the first: it is
\* pushed behind that, and routed as the last is.
ChunkKind == {"start", "end"}
Chunk == [kind : ChunkKind, turn : 1..MaxTurns]
Slot == [bound : BOOLEAN, closed : BOOLEAN, content : SUBSET Chunk,
         cut : BOOLEAN,               \* history: closed by the renderer
         crossed : BOOLEAN,           \* history: others may push behind its start
         saved : Thread \cup {None}]  \* history: the thread it was saved under
Turn == [thread : Thread,
         phase : {"requested", "preparing", "running", "closing", "over"},
         cancelled : BOOLEAN, emitted : SUBSET ChunkKind]

TypeOK ==
    /\ composer \in [preparing : Thread \cup {None}, loading : BOOLEAN, stopping : BOOLEAN,
                     leaving : BOOLEAN]
    /\ port \in [active : Nat \cup {None}, bound : Thread \cup {None}, view : Thread \cup {None}]
    /\ slot \in Seq(Slot)
    /\ turn \in Seq(Turn) /\ Len(turn) = Len(slot)
    /\ current \in Turns \cup {None}

Init ==
    /\ composer = [preparing |-> None, loading |-> FALSE, stopping |-> FALSE, leaving |-> FALSE]
    /\ port = [active |-> None, bound |-> None, view |-> None]
    /\ slot = <<>> /\ turn = <<>>
    /\ current = None
    /\ up = <<>> /\ down = <<>>

-----------------------------------------------------------------------------
(* Slots.                                                                   *)

Open(slots, s) == s # None /\ ~slots[s].closed

\* slot.close() and slot.fail(); cut tells whether the renderer does it.
ClosedSlot(slots, s, cut) ==
    IF Open(slots, s) THEN [slots EXCEPT ![s] = [slots[s] EXCEPT !.closed = TRUE, !.cut = cut]]
    ELSE slots

\* Another turn is still to start, to push behind the start of a new one, or to
\* have its start received.
Crossing ==
    \/ \E k \in Turns : turn[k].phase \in {"requested", "preparing", "running"}
    \/ \E i \in DOMAIN down : down[i].kind = "start"

NewSlot == [bound |-> FALSE, closed |-> FALSE, content |-> {}, cut |-> FALSE,
            crossed |-> Crossing, saved |-> None]

-----------------------------------------------------------------------------
(* Mutated forms of definitions below, each a plausible bug.               *)

SavedUnderView(p) == p.view
UnboundTakes(chunk) == Open(slot, port.active)
SettledLeftOpen(slots, s) == slots

-----------------------------------------------------------------------------
(* The renderer's reactions.                                               *)

\* persistAssistantMessage: the thread under which a message is saved.
SavedUnder(p) == IF p.bound # None THEN p.bound ELSE p.view

\* The renderer goes on with transport p, these slots and composer c: a stream
\* that is closed now is read to its end, saved (onFinish), and ends its send.
Renderer(p, slots, c) ==
    LET finished == {s \in DOMAIN slot : slots[s].closed /\ ~slot[s].closed}
    IN /\ port' = p
       /\ slot' = [s \in DOMAIN slots |->
                     IF s \in finished /\ slots[s].content # {}
                     THEN [slots[s] EXCEPT !.saved = SavedUnder(p)] ELSE slots[s]]
       /\ composer' = IF finished # {} THEN [c EXCEPT !.loading = FALSE, !.stopping = FALSE]
                      ELSE c

-----------------------------------------------------------------------------
(* The view and the composer.                                               *)

\* sendMessage until the user message is saved: the turn is prepared for the
\* thread of the view.
Prepare ==
    /\ composer.preparing = None /\ ~composer.loading
    /\ port.view # None
    /\ Len(turn) < MaxTurns
    /\ composer' = [composer EXCEPT !.preparing = port.view]
    /\ UNCHANGED <<port, slot, turn, current, up, down>>

\* submitTurn, transport.sendMessages.
Submit ==
    /\ composer.preparing # None
    /\ LET t == composer.preparing
           k == Len(turn) + 1
       IN /\ turn' = Append(turn, [thread |-> t, phase |-> "requested", cancelled |-> FALSE,
                                   emitted |-> {}])
          /\ up' = Append(up, [kind |-> "stream", of |-> k])
          /\ Renderer([port EXCEPT !.active = k, !.bound = t],
                      Append(ClosedSlot(slot, port.active, TRUE), NewSlot),
                      [composer EXCEPT !.preparing = None, !.loading = TRUE, !.stopping = FALSE])
    /\ UNCHANGED <<current, down>>

\* Bound: one request to stop at a time, from the composer or from the view.
OneStop == ~composer.stopping /\ ~composer.leaving

\* stopStreaming
StopStreaming ==
    /\ composer.loading /\ OneStop
    /\ composer' = [composer EXCEPT !.stopping = TRUE]
    /\ up' = Append(up, [kind |-> "stop", of |-> None])
    /\ UNCHANGED <<port, slot, turn, current, down>>

\* stopActiveStreamIfNeeded, with transport.detachActiveStream.
StopAndShow(t) ==
    /\ Renderer([port EXCEPT !.active = None], ClosedSlot(slot, port.active, TRUE),
                [composer EXCEPT !.leaving = TRUE])
    /\ up' = Append(up, [kind |-> "leave", of |-> t])

\* selectThread, which leaves a stream that is bound to the target; the
\* messages of the thread are loaded in one step.
SelectThread(t) ==
    /\ OneStop /\ t # port.view
    /\ IF port.bound \notin {t, None}
       THEN StopAndShow(t)
       ELSE port' = [port EXCEPT !.view = t] /\ UNCHANGED <<slot, composer, up>>
    /\ UNCHANGED <<turn, current, down>>

\* beginEditMessage, handleClearCurrentThread
EditThread ==
    /\ OneStop /\ port.bound # None
    /\ StopAndShow(port.view)
    /\ UNCHANGED <<turn, current, down>>

-----------------------------------------------------------------------------
(* The main process.                                                        *)

Busy(t) == \E k \in Turns :
               turn[k].thread = t /\ turn[k].phase \in {"preparing", "running", "closing"}

Handled(kind) == up # <<>> /\ Head(up).kind = kind /\ up' = Tail(up)
Push(messages) == down' = down \o messages
Msg(kind, of) == [kind |-> kind, of |-> of]

\* Turn k pushes these kinds of chunk, its start before any other, and once.
ChunksOf(k, kinds) ==
    (IF "start" \in turn[k].emitted THEN <<>> ELSE <<Msg("start", k)>>)
        \o (IF "end" \in kinds THEN <<Msg("end", k)>> ELSE <<>>)
Emitted(k, kinds) == turn[k].emitted \cup {"start"} \cup kinds

Superseding(turns) ==
    IF current = None THEN turns ELSE [turns EXCEPT ![current].cancelled = TRUE]

\* The thread is taken, here or by another process.
RefuseStream ==
    /\ Handled("stream")
    /\ turn' = [turn EXCEPT ![Head(up).of].phase = "over"]
    /\ Push(<<Msg("result", Head(up).of)>>)
    /\ UNCHANGED <<composer, port, slot, current>>

\* The rate of the thread is exceeded, which is pushed as well.
LimitStream ==
    /\ Handled("stream")
    /\ LET k == Head(up).of
       IN /\ ~Busy(turn[k].thread)
          /\ turn' = [turn EXCEPT ![k].phase = "over", ![k].emitted = Emitted(k, {"end"})]
          /\ Push(ChunksOf(k, {"end"}) \o <<Msg("result", k)>>)
    /\ UNCHANGED <<composer, port, slot, current>>

\* A turn starts in place of the window's active stream.
StartStream ==
    /\ Handled("stream")
    /\ LET k == Head(up).of
       IN /\ ~Busy(turn[k].thread)
          /\ turn' = [Superseding(turn) EXCEPT ![k].phase = "preparing"]
          /\ current' = k
    /\ UNCHANGED <<composer, port, slot, down>>

\* stopStream, from the composer or from a change of the view.
StopStream ==
    /\ \/ Handled("stop") /\ Push(<<Msg("stopped", None)>>)
       \/ Handled("leave") /\ Push(<<Msg("left", Head(up).of)>>)
    /\ turn' = Superseding(turn)
    /\ UNCHANGED <<composer, port, slot, current>>

\* A turn begins to push text, or what its preparation found, also after it was
\* cancelled.
Emit(k) ==
    /\ turn[k].phase \in {"preparing", "running"} /\ "start" \notin turn[k].emitted
    /\ Push(ChunksOf(k, {}))
    /\ turn' = [turn EXCEPT ![k].emitted = Emitted(k, {})]
    /\ UNCHANGED <<composer, port, slot, current, up>>

Prepared(k) ==
    /\ turn[k].phase = "preparing" /\ ~turn[k].cancelled
    /\ turn' = [turn EXCEPT ![k].phase = "running"]
    /\ UNCHANGED <<composer, port, slot, current, up, down>>

\* A turn that was cancelled while it was prepared throws: it pushes abort only
\* while it is the active stream of its window.
AbandonPreparation(k) ==
    /\ turn[k].phase = "preparing" /\ turn[k].cancelled
    /\ IF current = k
       THEN /\ Push(ChunksOf(k, {"end"}))
            /\ turn' = [turn EXCEPT ![k].phase = "closing", ![k].emitted = Emitted(k, {"end"})]
       ELSE turn' = [turn EXCEPT ![k].phase = "closing"] /\ UNCHANGED down
    /\ UNCHANGED <<composer, port, slot, current, up>>

\* error, or finish, which a turn that was cancelled in a batch pushes as well.
\* The message is saved before the call returns.
Finish(k) ==
    /\ \/ turn[k].phase = "running"
       \/ turn[k].phase = "preparing" /\ ~turn[k].cancelled
    /\ Push(ChunksOf(k, {"end"}))
    /\ turn' = [turn EXCEPT ![k].phase = "closing", ![k].emitted = Emitted(k, {"end"})]
    /\ UNCHANGED <<composer, port, slot, current, up>>

\* The turn asks for approvals and ends without a last chunk.
Block(k) ==
    /\ turn[k].phase = "running"
    /\ Push(ChunksOf(k, {}))
    /\ turn' = [turn EXCEPT ![k].phase = "closing", ![k].emitted = Emitted(k, {})]
    /\ UNCHANGED <<composer, port, slot, current, up>>

\* chat.stream returns.
Return(k) ==
    /\ turn[k].phase = "closing"
    /\ turn' = [turn EXCEPT ![k].phase = "over"]
    /\ current' = IF current = k THEN None ELSE current
    /\ Push(<<Msg("result", k)>>)
    /\ UNCHANGED <<composer, port, slot, up>>

-----------------------------------------------------------------------------
(* Messages from the main process.                                          *)

Arrived(kinds) == down # <<>> /\ Head(down).kind \in kinds /\ down' = Tail(down)

\* The stale-stream guard: a slot takes chunks once it has seen a start.
Takes(chunk) ==
    /\ Open(slot, port.active)
    /\ slot[port.active].bound \/ chunk.kind = "start"

\* onUiChunk, feed
ReceiveChunk ==
    /\ Arrived(ChunkKind)
    /\ LET chunk == [kind |-> Head(down).kind, turn |-> Head(down).of]
           s == port.active
           last == chunk.kind = "end"
           fed == [slot EXCEPT ![s] = [slot[s] EXCEPT !.bound = TRUE, !.content = slot[s].content \cup {chunk}]]
       IN IF Takes(chunk)
          THEN Renderer([port EXCEPT !.active = IF last THEN None ELSE s],
                        IF last THEN ClosedSlot(fed, s, FALSE) ELSE fed, composer)
          ELSE UNCHANGED <<composer, port, slot>>
    /\ UNCHANGED <<turn, current, up>>

\* The turn ended: its slot is closed if no chunk closed it.
Settled(slots, s) == ClosedSlot(slots, s, FALSE)

\* The promise of chat.stream settles.
StreamReturns ==
    /\ Arrived({"result"})
    /\ LET s == Head(down).of
       IN Renderer([port EXCEPT !.active = IF port.active = s THEN None ELSE port.active],
                   Settled(slot, s), composer)
    /\ UNCHANGED <<turn, current, up>>

\* Whatever stopStream answers, the composer is free.
Stopped ==
    /\ Arrived({"stopped"})
    /\ composer' = [composer EXCEPT !.stopping = FALSE, !.loading = FALSE]
    /\ UNCHANGED <<port, slot, turn, current, up>>

\* The stream is left: the thread is shown.
Left ==
    /\ Arrived({"left"})
    /\ port' = [port EXCEPT !.view = Head(down).of]
    /\ composer' = [composer EXCEPT !.leaving = FALSE]
    /\ UNCHANGED <<slot, turn, current, up>>

-----------------------------------------------------------------------------
Next ==
    \/ Prepare \/ Submit \/ StopStreaming \/ EditThread
    \/ \E t \in Thread : SelectThread(t)
    \/ RefuseStream \/ LimitStream \/ StartStream \/ StopStream
    \/ \E k \in Turns :
          \/ Emit(k) \/ Prepared(k) \/ AbandonPreparation(k)
          \/ Finish(k) \/ Block(k) \/ Return(k)
    \/ ReceiveChunk \/ StreamReturns \/ Stopped \/ Left

Spec == Init /\ [][Next]_chatVars

-----------------------------------------------------------------------------
(* Properties.                                                              *)

\* Unless a turn that was superseded may still push behind the start of the new
\* one, the stream of a send holds what its turn pushed and nothing else, and
\* all of that when the turn has closed it: late chunks of others are dropped,
\* and own ones are not, in whatever order they arrive.
StreamExact ==
    \A k \in Turns : ~slot[k].crossed =>
        /\ \A c \in slot[k].content : c.turn = k
        /\ slot[k].closed /\ ~slot[k].cut =>
              {c.kind : c \in slot[k].content} = turn[k].emitted

\* A message whose stream ended by itself is saved under the thread it was sent
\* in, whichever thread is shown or streamed to by then.
SavedUnderOwnThread ==
    \A k \in Turns : slot[k].saved # None /\ ~slot[k].cut => slot[k].saved = turn[k].thread

\* When all turns are over and all messages were received no stream is open, no
\* send is waiting and no change of the view: also a turn that ends without a
\* last chunk frees the composer.
NothingLeftOpen ==
    up = <<>> /\ down = <<>> /\ (\A k \in Turns : turn[k].phase = "over") =>
        /\ \A k \in Turns : slot[k].closed
        /\ ~composer.loading /\ ~composer.stopping /\ ~composer.leaving

\* ipc_chat_transport.ts: "A new send supersedes whatever was active or armed:
\* their late chunks no longer have a `start` binding and are dropped above."
\* They are not: once the start of the new turn was received its slot takes the
\* chunks of all turns, and a superseded turn still pushes text and its finish.
LateChunksDropped ==
    \A k \in Turns : \A c \in slot[k].content : c.turn = k
=============================================================================
