--------------------------- MODULE McpManagerProofs ---------------------------
(***************************************************************************)
(* Proofs about McpManager, for every set of servers and every bound: the   *)
(* semaphores count their permits, the tools of an agent come from a client *)
(* that is open, and one operation at a time keeps what the user decided.   *)
(***************************************************************************)
EXTENDS McpManager, FiniteSetTheorems, SequenceTheorems, TLAPS

-----------------------------------------------------------------------------
(* The invariants of the calls.                                             *)

Semaphore == [limit : Limits, active : Nat, queue : Seq(Call)]
CallRec == [pc : {"idle", "queued", "granted", "running"},
            server : Server \cup {NoServer}, sem : Sem \cup {0}, aborted : BOOLEAN]

Holders(g) == {k \in Call : call[k].sem = g /\ call[k].pc \in {"granted", "running"}}
Waiting(g) == {k \in Call : call[k].sem = g /\ call[k].pc = "queued"}

CallsTyped ==
    /\ bound \in Instances
    /\ config \in [enabled : BOOLEAN, default : Mode, limit : Limits]
    /\ sem \in [Sem -> Semaphore]
    /\ current \in Sem
    /\ call \in [Call -> CallRec]
    /\ \A k \in Call : call[k].pc # "idle" => call[k].sem \in Sem

\* The semaphore x counts the calls in H, which hold its permits, never more
\* than its limit; W are those in its queue, each once, and there are none of
\* them while a permit is free.
Exact(x, H, W) ==
    /\ x.active = Cardinality(H) /\ x.active <= x.limit
    /\ W # {} => x.active = x.limit
    /\ {x.queue[i] : i \in DOMAIN x.queue} = W
    /\ Len(x.queue) = Cardinality(W)
    /\ \A i, j \in DOMAIN x.queue : x.queue[i] = x.queue[j] => i = j

SemExact(g) == Exact(sem[g], Holders(g), Waiting(g))

CallsInv == CallsTyped /\ \A g \in Sem : SemExact(g)

-----------------------------------------------------------------------------
(* The invariants of the connections.                                       *)

OpRec == [pc : {"idle", "closing", "closed", "dialing", "listing", "refreshing"},
          server : Server \cup {NoServer}, client : Client \cup {0},
          mode : Mode \cup {"default"}, then : {"end", "dial", "drop"}]
ConnRec == [client : Client, mode : Mode \cup {"default"}]
Status == {"none", "connecting", "connected", "disconnected", "error"}
Ask == Mode \cup {"default"}

\* An operation that is suspended has a server, its client unless it is between
\* the two halves of a forced connect, and, if it connects, a mode of the rows.
OpTyped(o) ==
    /\ op[o] \in OpRec
    /\ op[o].pc \in {"idle", "closed"} => op[o].client = 0
    /\ op[o].pc # "idle" => op[o].server \in Server
    /\ op[o].pc \notin {"idle", "closed"} => op[o].client \in Client
    /\ op[o].pc \in {"closed", "dialing", "listing", "refreshing"} => op[o].mode \in bound.modes
    /\ op[o].then = "dial" => op[o].mode \in bound.modes

AdminTyped ==
    /\ bound \in Instances
    /\ config \in [enabled : BOOLEAN, default : Mode, limit : Limits]
    /\ pending \in BOOLEAN
    /\ row \in [Server -> {Absent, Deleted} \cup Rows(bound.modes)]
    /\ conn \in [Server -> {NoConn} \cup [client : Client, mode : bound.modes]]
    /\ tools \in [Server -> {NoConn} \cup ToolSet]
    /\ event \in [Server -> Status]
    /\ client \in [Client -> {"opening", "open", "closed", "lost"}]
    /\ overlap \in [Server -> BOOLEAN]
    /\ DOMAIN op = Op
    /\ \A o \in Op : OpTyped(o)

Refers(s, c) ==
    \/ conn[s] # NoConn /\ conn[s].client = c
    \/ tools[s] # NoConn /\ tools[s].client = c
Uses(s, c) == Refers(s, c) \/ \E o \in Op : op[o].server = s /\ op[o].client = c

\* A client belongs to one server.
OneServer == \A c \in Client : \A s, t \in Server : Uses(s, c) /\ Uses(t, c) => s = t

\* What is entered in the maps was opened and not closed since.
MapsOpen == \A s \in Server, c \in Client : Refers(s, c) => client[c] \in {"open", "lost"}

\* The client that an operation connects is known to that operation only.
Private(o) ==
    op[o].pc \in {"dialing", "listing"} =>
        /\ \A s \in Server : ~Refers(s, op[o].client)
        /\ \A p \in Op \ {o} : op[p].client # op[o].client
        /\ client[op[o].client] \in IF op[o].pc = "dialing" THEN {"opening"} ELSE {"open", "lost"}
OwnClient == \A o \in Op : Private(o)

ConnectedHasTools == \A s \in Server : conn[s] # NoConn => tools[s] # NoConn

ClientsInv == AdminTyped /\ OneServer /\ MapsOpen /\ OwnClient /\ ConnectedHasTools

\* The modes that tools without one of their own may be registered under.
Policies == IF pending THEN Mode ELSE {config.default}

\* What a server is like between two operations.
Agrees(s) ==
    /\ conn[s] # NoConn =>
          /\ config.enabled /\ Enabled(s)
          /\ conn[s].mode = row[s].mode
          /\ \E d \in Policies : tools[s] = Registered(conn[s].client, conn[s].mode, d)
    /\ conn[s] = NoConn => tools[s] = NoConn
    /\ event[s] = "connected" <=> conn[s] # NoConn

\* What is decided of the server is what a connecting operation has read.
Decided(o, s) == config.enabled /\ Enabled(s) /\ op[o].mode = row[s].mode

\* What it is like while the operation o is suspended, alone.
AgreesWith(o, s) ==
    /\ Live(s)
    /\ op[o].pc \in {"closed", "dialing", "listing"} =>
          Decided(o, s) /\ conn[s] = NoConn /\ tools[s] = NoConn /\ event[s] # "connected"
    /\ op[o].pc = "closing" /\ op[o].then = "dial" => Decided(o, s)
    /\ op[o].pc = "refreshing" =>
          /\ Agrees(s) /\ conn[s] # NoConn
          /\ op[o].client = conn[s].client /\ op[o].mode = conn[s].mode

On(o, s) == op[o].pc # "idle" /\ op[o].server = s

\* Without overlap a server has one operation, and the state it expects.
ServerSound(s) ==
    ~overlap[s] =>
        /\ \A o, p \in Op : On(o, s) /\ On(p, s) => o = p
        /\ ~Suspended(s) => Agrees(s)
        /\ \A o \in Op : On(o, s) => AgreesWith(o, s)

AdminInv == ClientsInv /\ \A s \in Server : ServerSound(s)

IInv == CallsInv /\ AdminInv

-----------------------------------------------------------------------------
(* The connections: what the steps are made of.                             *)

LEMMA Constants ==
    ASSUME bound \in Instances
    PROVE  /\ bound.modes \subseteq Ask /\ bound.ops \in {1, 2} /\ bound.clients \in Client
           /\ NoServer \notin Server /\ 0 \notin Client /\ Client \subseteq Nat
           /\ {Absent, Deleted} \cap Rows(bound.modes) = {}
           /\ NoConn \notin ConnRec /\ NoConn \notin ToolSet
           /\ Op = {1, 2}
<1>1. bound \in [ops : {1, 2}, calls : 0..3, clients : 1..MaxClients,
                 modes : SUBSET (Mode \cup {"default"})]
  BY McpAssumption
<1>2. bound.modes \subseteq Ask /\ bound.ops \in {1, 2} /\ bound.clients \in Client
  BY <1>1 DEF Ask, Client
<1>3. NoServer \notin Server /\ 0 \notin Client /\ Client \subseteq Nat /\ Op = {1, 2}
  BY McpAssumption DEF Client, Op
<1>4. Rows(bound.modes) \subseteq Rows(Ask)
  BY <1>2 DEF Rows
<1>5. {Absent, Deleted} \cap Rows(bound.modes) = {}
  BY <1>4, McpAssumption DEF Ask
<1>6. NoConn \notin ConnRec /\ ToolSet \subseteq ConnRec
  BY McpAssumption DEF ConnRec, ToolSet
<1> QED
  BY <1>2, <1>3, <1>5, <1>6

\* The types of what a server has.
LEMMA ServerTypes ==
    ASSUME AdminTyped, NEW s \in Server
    PROVE  /\ conn[s] # NoConn => conn[s].client \in Client /\ conn[s].mode \in bound.modes
           /\ tools[s] # NoConn => tools[s].client \in Client
           /\ Live(s) => row[s] \in Rows(bound.modes) /\ row[s].mode \in bound.modes
BY DEF AdminTyped, Live, ToolSet, Rows

LEMMA RegisteredType ==
    ASSUME NEW c \in Client, NEW m \in Ask, NEW d \in Mode
    PROVE  /\ Registered(c, m, d) \in ToolSet
           /\ Registered(c, m, d).client = c
           /\ Registered(c, m, d).mode = IF m = "default" THEN d ELSE m
BY DEF Registered, ApprovalMode, ToolSet, Ask, Mode

\* An operation that changes: the others are where they were.
LEMMA OpChanged ==
    ASSUME AdminTyped, NEW o \in Op, NEW x, op' = [op EXCEPT ![o] = x]
    PROVE  /\ op'[o] = x /\ DOMAIN op' = Op
           /\ \A p \in Op : p # o => op'[p] = op[p]
BY DEF AdminTyped

LEMMA Suspends ==
    ASSUME AdminTyped, NEW o \in Op, NEW x, NEW s \in Server, x.server = s, Suspend(o, x)
    PROVE  /\ op' = [op EXCEPT ![o] = x]
           /\ overlap' \in [Server -> BOOLEAN]
           /\ \A t \in Server : t # s => overlap'[t] = overlap[t]
           /\ ~overlap'[s] => ~overlap[s] /\ \A p \in Op : p # o => ~On(p, s)
BY DEF AdminTyped, Suspend, On

\* NoOp is an operation and on no server.
LEMMA NoOpType ==
    /\ NoOp \in OpRec /\ NoOp.pc = "idle" /\ NoOp.client = 0 /\ NoOp.then = "end"
    /\ NoOp.server = NoServer
BY DEF NoOp, OpRec

\* For the server t the step is none.
SameServer(t) ==
    /\ row'[t] = row[t] /\ conn'[t] = conn[t] /\ tools'[t] = tools[t] /\ event'[t] = event[t]
    /\ overlap'[t] = overlap[t]
    /\ \A p \in Op : /\ On(p, t) => op'[p] = op[p]
                     /\ ~On(p, t) => ~On(p, t)'

LEMMA OtherServer ==
    ASSUME NEW t \in Server, ServerSound(t), SameServer(t), UNCHANGED <<config, pending>>
    PROVE  ServerSound(t)'
<1>1. \A p \in Op : /\ On(p, t) => On(p, t)' /\ op'[p] = op[p]
                    /\ On(p, t)' => On(p, t) /\ op'[p] = op[p]
  BY DEF SameServer, On
<1>2. Agrees(t) => Agrees(t)'
  BY DEF SameServer, Agrees, Policies, Enabled, Live
<1>3. \A p \in Op : On(p, t) /\ AgreesWith(p, t) => AgreesWith(p, t)'
  BY <1>1, <1>2 DEF SameServer, AgreesWith, Decided, Enabled, Live
<1>4. Suspended(t)' <=> Suspended(t)
  BY <1>1 DEF Suspended, On
<1> QED
  BY <1>1, <1>2, <1>3, <1>4 DEF ServerSound, SameServer

\* A server comes to have the operation o, or none.
LEMMA SoundWith ==
    ASSUME NEW s \in Server, NEW o \in Op,
           ~overlap'[s] => AgreesWith(o, s)' /\ \A p \in Op : On(p, s)' <=> p = o
    PROVE  ServerSound(s)'
BY DEF ServerSound, Suspended, On

LEMMA SoundAlone ==
    ASSUME NEW s \in Server,
           ~overlap'[s] => Agrees(s)' /\ \A p \in Op : ~On(p, s)'
    PROVE  ServerSound(s)'
BY DEF ServerSound, On

LEMMA Unsuspended ==
    ASSUME NEW s \in Server, ServerSound(s), ~overlap[s], \A p \in Op : ~On(p, s)
    PROVE  Agrees(s)
BY DEF ServerSound, Suspended, On

\* The maps are as they were or have lost entries.
LEMMA FewerUses ==
    ASSUME OneServer, \A s \in Server, c \in Client : Uses(s, c)' => Uses(s, c)
    PROVE  OneServer'
BY DEF OneServer

\* Only the row of the server s is written.
RowOf(s) ==
    /\ row' \in [Server -> {Absent, Deleted} \cup Rows(bound.modes)]
    /\ \A t \in Server : t # s => row'[t] = row[t]
    /\ UNCHANGED <<config, bound, pending>>

LEMMA FreeClientUnused ==
    ASSUME AdminTyped, NEW c \in Client, FreeClient(c)
    PROVE  \A s \in Server : ~Uses(s, c) /\ ~Refers(s, c)
BY DEF FreeClient, Uses, Refers

\* connectServer up to its first await.
LEMMA DialInv ==
    ASSUME AdminInv, NEW o \in Op, NEW s \in Server, NEW m \in bound.modes, Dial(o, s, m),
           RowOf(s), op[o].pc \in {"idle", "closed"},
           op[o].pc = "closed" => op[o].server = s,
           ~overlap[s] /\ (\A p \in Op : p # o => ~On(p, s)) =>
               /\ conn[s] = NoConn /\ tools[s] = NoConn /\ config.enabled
               /\ Enabled(s)' /\ row'[s].mode = m
    PROVE  AdminInv'
<1> DEFINE x(c) == [pc |-> "dialing", server |-> s, client |-> c, mode |-> m, then |-> "end"]
<1>1. AdminTyped /\ OneServer /\ MapsOpen /\ OwnClient /\ ConnectedHasTools
  BY DEF AdminInv, ClientsInv
<1>2. PICK c \in Client :
          /\ FreeClient(c) /\ client' = [client EXCEPT ![c] = "opening"]
          /\ Suspend(o, x(c))
  BY DEF Dial
<1>3. event' = [event EXCEPT ![s] = "connecting"] /\ UNCHANGED <<conn, tools>>
  BY DEF Dial
<1>4. /\ x(c) \in OpRec /\ x(c).pc = "dialing" /\ x(c).server = s /\ x(c).client = c
      /\ x(c).mode = m /\ x(c).then = "end"
  BY <1>1, Constants DEF AdminTyped, OpRec, Ask
<1>5. /\ op' = [op EXCEPT ![o] = x(c)] /\ overlap' \in [Server -> BOOLEAN]
      /\ \A t \in Server : t # s => overlap'[t] = overlap[t]
      /\ ~overlap'[s] => ~overlap[s] /\ \A p \in Op : p # o => ~On(p, s)
  BY <1>1, <1>2, <1>4, Suspends
<1> HIDE DEF x
<1>6. op'[o] = x(c) /\ DOMAIN op' = Op /\ \A p \in Op : p # o => op'[p] = op[p]
  BY <1>1, <1>5, OpChanged
<1>7. /\ client' \in [Client -> {"opening", "open", "closed", "lost"}] /\ client'[c] = "opening"
      /\ \A d \in Client : d # c => client'[d] = client[d]
  BY <1>1, <1>2 DEF AdminTyped
<1>8. AdminTyped'
  <2>1. \A p \in Op : OpTyped(p)'
    BY <1>1, <1>4, <1>6 DEF AdminTyped, OpTyped, RowOf
  <2>2. event' \in [Server -> Status]
    BY <1>1, <1>3 DEF AdminTyped, Status
  <2> QED
    BY <1>1, <1>3, <1>5, <1>6, <1>7, <2>1, <2>2 DEF AdminTyped, RowOf
<1>9. \A t \in Server, d \in Client : Refers(t, d)' <=> Refers(t, d)
  BY <1>3 DEF Refers
<1>10. \A t \in Server : ~Uses(t, c) /\ ~Refers(t, c)
  BY <1>1, <1>2, FreeClientUnused
<1>11. \A t \in Server, d \in Client : d # c /\ Uses(t, d)' => Uses(t, d)
  BY <1>4, <1>6, <1>9 DEF Uses
<1>12. \A t \in Server : Uses(t, c)' => t = s
  BY <1>4, <1>6, <1>9, <1>10 DEF Uses
<1>13. OneServer'
  BY <1>1, <1>11, <1>12 DEF OneServer
<1>14. MapsOpen'
  BY <1>1, <1>7, <1>9, <1>10 DEF MapsOpen
<1>15. OwnClient'
  <2>1. \A p \in Op : op[p].client # c
    BY <1>2 DEF FreeClient
  <2>2. \A p \in Op : op[p].pc \in {"dialing", "listing"} => op[p].client \in Client
    BY <1>1 DEF AdminTyped, OpTyped
  <2>3. ASSUME NEW p \in Op, p # o PROVE Private(p)'
    <3>1. Private(p) /\ op'[p] = op[p]
      BY <1>1, <1>6, <2>3 DEF OwnClient
    <3> QED
      BY <1>4, <1>6, <1>7, <1>9, <2>1, <2>2, <3>1 DEF Private
  <2>4. Private(o)'
    BY <1>4, <1>6, <1>7, <1>9, <1>10, <2>1 DEF Private
  <2> QED
    BY <2>3, <2>4 DEF OwnClient
<1>16. ConnectedHasTools'
  BY <1>1, <1>3 DEF ConnectedHasTools
<1>17. ServerSound(s)'
  <2>1. ASSUME ~overlap'[s] PROVE AgreesWith(o, s)' /\ \A p \in Op : On(p, s)' <=> p = o
    <3>1. /\ conn[s] = NoConn /\ tools[s] = NoConn /\ config.enabled
          /\ Enabled(s)' /\ row'[s].mode = m
      BY <1>5, <2>1
    <3>2. \A p \in Op : On(p, s)' <=> p = o
      BY <1>4, <1>5, <1>6, <2>1 DEF On
    <3>3. event'[s] = "connecting"
      BY <1>1, <1>3 DEF AdminTyped
    <3>4. AgreesWith(o, s)'
      BY <1>3, <1>4, <1>6, <3>1, <3>3 DEF AgreesWith, Decided, Enabled, RowOf
    <3> QED
      BY <3>2, <3>4
  <2> QED
    BY <2>1, SoundWith
<1>18. ASSUME NEW t \in Server, t # s PROVE ServerSound(t)'
  <2>1. event'[t] = event[t]
    BY <1>1, <1>3, <1>18 DEF AdminTyped
  <2>2. \A p \in Op : /\ On(p, t) => op'[p] = op[p]
                      /\ ~On(p, t) => ~On(p, t)'
    BY <1>4, <1>6, <1>18 DEF On
  <2>3. SameServer(t)
    BY <1>3, <1>5, <1>18, <2>1, <2>2 DEF SameServer, RowOf
  <2> QED
    BY <2>3, OtherServer DEF AdminInv, RowOf
<1> QED
  BY <1>8, <1>13, <1>14, <1>15, <1>16, <1>17, <1>18 DEF AdminInv, ClientsInv

\* An operation that waits for the client of the connection there is.
LEMMA HoldInv ==
    ASSUME AdminInv, NEW o \in Op, NEW s \in Server, NEW x \in OpRec, Suspend(o, x), RowOf(s),
           op[o].pc = "idle", conn[s] # NoConn,
           x.pc \in {"closing", "refreshing"}, x.server = s, x.client = conn[s].client,
           x.pc = "refreshing" \/ x.then = "dial" => x.mode \in bound.modes,
           UNCHANGED <<conn, tools, event, client>>,
           op'[o] = x /\ ~overlap[s] /\ (\A p \in Op : ~On(p, s)) => AgreesWith(o, s)'
    PROVE  AdminInv'
<1>1. AdminTyped /\ OneServer /\ MapsOpen /\ OwnClient /\ ConnectedHasTools
  BY DEF AdminInv, ClientsInv
<1>2. /\ op' = [op EXCEPT ![o] = x] /\ overlap' \in [Server -> BOOLEAN]
      /\ \A t \in Server : t # s => overlap'[t] = overlap[t]
      /\ ~overlap'[s] => ~overlap[s] /\ \A p \in Op : p # o => ~On(p, s)
  BY <1>1, Suspends
<1>3. op'[o] = x /\ DOMAIN op' = Op /\ \A p \in Op : p # o => op'[p] = op[p]
  BY <1>1, <1>2, OpChanged
<1>4. x.client \in Client
  BY <1>1, ServerTypes
<1>5. AdminTyped'
  <2>1. \A p \in Op : OpTyped(p)'
    BY <1>1, <1>3, <1>4 DEF AdminTyped, OpTyped, RowOf
  <2> QED
    BY <1>1, <1>2, <1>3, <2>1 DEF AdminTyped, RowOf
<1>6. \A t \in Server, d \in Client : Refers(t, d)' <=> Refers(t, d)
  BY DEF Refers
<1>7. Refers(s, x.client)
  BY DEF Refers
<1>8. \A t \in Server, d \in Client : Uses(t, d)' => Uses(t, d)
  BY <1>3, <1>6, <1>7 DEF Uses
<1>9. OneServer'
  BY <1>1, <1>8, FewerUses
<1>10. MapsOpen' /\ ConnectedHasTools'
  BY <1>1, <1>6 DEF MapsOpen, ConnectedHasTools
<1>11. OwnClient'
  <2>1. \A p \in Op : op[p].pc \in {"dialing", "listing"} =>
            op[p].client \in Client /\ op[p].client # x.client
    BY <1>1, <1>7 DEF AdminTyped, OpTyped, OwnClient, Private
  <2>2. Private(o)'
    BY <1>3 DEF Private
  <2>3. ASSUME NEW p \in Op, p # o PROVE Private(p)'
    <3>1. Private(p) /\ op'[p] = op[p]
      BY <1>1, <1>3, <2>3 DEF OwnClient
    <3> QED
      BY <1>3, <1>6, <2>1, <3>1 DEF Private
  <2> QED
    BY <2>2, <2>3 DEF OwnClient
<1>12. ServerSound(s)'
  <2>1. ASSUME ~overlap'[s] PROVE AgreesWith(o, s)' /\ \A p \in Op : On(p, s)' <=> p = o
    <3>1. \A p \in Op : ~On(p, s)
      BY <1>2, <2>1 DEF On
    <3>2. \A p \in Op : On(p, s)' <=> p = o
      BY <1>2, <1>3, <2>1 DEF On
    <3> QED
      BY <1>2, <1>3, <2>1, <3>1, <3>2
  <2> QED
    BY <2>1, SoundWith
<1>13. ASSUME NEW t \in Server, t # s PROVE ServerSound(t)'
  <2>1. \A p \in Op : /\ On(p, t) => op'[p] = op[p]
                      /\ ~On(p, t) => ~On(p, t)'
    BY <1>3, <1>13 DEF On
  <2>2. SameServer(t)
    BY <1>2, <1>13, <2>1 DEF SameServer, RowOf
  <2> QED
    BY <2>2, OtherServer DEF AdminInv, RowOf
<1> QED
  BY <1>5, <1>9, <1>10, <1>11, <1>12, <1>13 DEF AdminInv, ClientsInv

\* A server without a connection has its tools reset.
LEMMA ResetInv ==
    ASSUME AdminInv, NEW s \in Server, RowOf(s), conn[s] = NoConn,
           tools' = [tools EXCEPT ![s] = NoConn],
           overlap' = [overlap EXCEPT ![s] = @ \/ Suspended(s)],
           UNCHANGED <<conn, event, client, op>>
    PROVE  AdminInv'
<1>1. AdminTyped /\ OneServer /\ MapsOpen /\ OwnClient /\ ConnectedHasTools
  BY DEF AdminInv, ClientsInv
<1>2. /\ overlap' \in [Server -> BOOLEAN]
      /\ \A t \in Server : t # s => overlap'[t] = overlap[t]
      /\ ~overlap'[s] => ~overlap[s] /\ \A p \in Op : ~On(p, s)
  BY <1>1 DEF AdminTyped, Suspended, On
<1>3. /\ tools' \in [Server -> {NoConn} \cup ToolSet] /\ tools'[s] = NoConn
      /\ \A t \in Server : t # s => tools'[t] = tools[t]
  BY <1>1 DEF AdminTyped
<1>4. AdminTyped'
  BY <1>1, <1>2, <1>3 DEF AdminTyped, OpTyped, RowOf
<1>5. \A t \in Server, d \in Client : Refers(t, d)' => Refers(t, d)
  BY <1>3 DEF Refers
<1>6. \A t \in Server, d \in Client : Uses(t, d)' => Uses(t, d)
  BY <1>5 DEF Uses
<1>7. OneServer'
  BY <1>1, <1>6, FewerUses
<1>8. MapsOpen' /\ ConnectedHasTools' /\ OwnClient'
  BY <1>1, <1>3, <1>5 DEF MapsOpen, ConnectedHasTools, OwnClient, Private, AdminTyped, OpTyped
<1>9. ServerSound(s)'
  <2>1. ASSUME ~overlap'[s] PROVE Agrees(s)' /\ \A p \in Op : ~On(p, s)'
    <3>1. Agrees(s)
      BY <1>2, <2>1, Unsuspended DEF AdminInv
    <3> QED
      BY <1>2, <1>3, <2>1, <3>1 DEF Agrees, Policies, On
  <2> QED
    BY <2>1, SoundAlone
<1>10. ASSUME NEW t \in Server, t # s PROVE ServerSound(t)'
  <2>1. SameServer(t)
    BY <1>2, <1>3, <1>10 DEF SameServer, RowOf, On
  <2> QED
    BY <2>1, OtherServer DEF AdminInv, RowOf
<1> QED
  BY <1>4, <1>7, <1>8, <1>9, <1>10 DEF AdminInv, ClientsInv

-----------------------------------------------------------------------------
(* The connections: operations that start.                                  *)

\* disconnectServer up to its first await, for the row that is there by now.
LEMMA DisconnectInv ==
    ASSUME AdminInv, NEW o \in Op, NEW s \in Server, NEW m \in Ask,
           NEW then \in {"end", "dial", "drop"}, Disconnect(o, s, m, then),
           RowOf(s), op[o].pc = "idle",
           conn[s] # NoConn => Live(s)',
           then = "dial" => config.enabled /\ Enabled(s)' /\ row'[s].mode = m /\ m \in bound.modes
    PROVE  AdminInv'
<1>1. CASE conn[s] = NoConn
  BY <1>1, ResetInv DEF Disconnect
<1>2. CASE conn[s] # NoConn
  <2> DEFINE x == [pc |-> "closing", server |-> s, client |-> conn[s].client,
                   mode |-> m, then |-> then]
  <2>1. Suspend(o, x) /\ UNCHANGED <<conn, tools, event, client>>
    BY <1>2 DEF Disconnect
  <2>2. conn[s].client \in Client
    BY <1>2, ServerTypes DEF AdminInv, ClientsInv
  <2>3. x \in OpRec /\ x.pc = "closing" /\ x.server = s /\ x.client = conn[s].client
        /\ x.mode = m /\ x.then = then
    BY <2>2 DEF OpRec, Ask
  <2> HIDE DEF x
  <2>4. op'[o] = x => AgreesWith(o, s)'
    BY <1>2, <2>3 DEF AgreesWith, Decided, RowOf
  <2> QED
    BY <1>2, <2>1, <2>3, <2>4, HoldInv
<1> QED
  BY <1>1, <1>2

\* A row that is there is one of the rows.
LEMMA LiveRows ==
    ASSUME AdminTyped, NEW s \in Server, NEW r \in Rows(bound.modes),
           row' = [row EXCEPT ![s] = r], UNCHANGED <<config, bound, pending>>
    PROVE  /\ RowOf(s) /\ row'[s] = r /\ Live(s)' /\ r.mode \in bound.modes
           /\ r.enabled => Enabled(s)'
<1>1. row'[s] = r /\ RowOf(s)
  BY DEF AdminTyped, RowOf
<1>2. r \notin {Absent, Deleted}
  BY Constants DEF AdminTyped
<1> QED
  BY <1>1, <1>2 DEF Live, Enabled, Rows

\* A server that nothing is suspended on, and that was not overlapped, agrees.
LEMMA AloneAgrees ==
    ASSUME AdminInv, NEW o \in Op, op[o].pc = "idle", NEW s \in Server, ~overlap[s],
           \A p \in Op : p # o => ~On(p, s)
    PROVE  Agrees(s)
BY Unsuspended DEF AdminInv, On

LEMMA ConnectInv ==
    ASSUME AdminInv, NEW o \in Op, NEW s \in Server, ConnectServer(o, s), UNCHANGED <<bound, pending>>
    PROVE  AdminInv'
<1>1. /\ op[o].pc = "idle" /\ config.enabled /\ Enabled(s) /\ conn[s] = NoConn
      /\ Dial(o, s, row[s].mode) /\ UNCHANGED <<config, row>>
  BY DEF ConnectServer, Idle
<1>2. AdminTyped /\ row[s].mode \in bound.modes
  BY <1>1, ServerTypes DEF AdminInv, ClientsInv, Enabled
<1>3. RowOf(s) /\ Enabled(s)'
  BY <1>1, <1>2 DEF RowOf, AdminTyped, Enabled, Live
<1>4. ~overlap[s] /\ (\A p \in Op : p # o => ~On(p, s)) => tools[s] = NoConn
  BY <1>1, AloneAgrees DEF Agrees, Policies
<1> QED
  BY <1>1, <1>2, <1>3, <1>4, DialInv

LEMMA AddInv ==
    ASSUME AdminInv, NEW o \in Op, NEW s \in Server, NEW r \in Rows(bound.modes),
           AddServer(o, s, r), UNCHANGED <<bound, pending>>
    PROVE  AdminInv'
<1>1. /\ op[o].pc = "idle" /\ row[s] = Absent /\ row' = [row EXCEPT ![s] = r]
      /\ UNCHANGED <<config, bound, pending>>
  BY DEF AddServer, Idle
<1>2. AdminTyped
  BY DEF AdminInv, ClientsInv
<1>3. /\ RowOf(s) /\ row'[s] = r /\ r.mode \in bound.modes
      /\ r.enabled => Enabled(s)'
  BY <1>1, <1>2, LiveRows
<1>4. ~overlap[s] /\ (\A p \in Op : p # o => ~On(p, s)) =>
          conn[s] = NoConn /\ tools[s] = NoConn /\ event[s] # "connected"
  BY <1>1, AloneAgrees DEF Agrees, Policies, Enabled, Live
<1>5. CASE r.enabled /\ config.enabled
  BY <1>1, <1>3, <1>4, <1>5, DialInv DEF AddServer
<1>6. CASE ~(r.enabled /\ config.enabled)
  <2>1. UNCHANGED <<conn, tools, event, client, op, overlap>>
    BY <1>6 DEF AddServer
  <2>2. ClientsInv'
    BY <1>1, <1>3, <2>1
    DEF AdminInv, ClientsInv, AdminTyped, OpTyped, OneServer, MapsOpen, OwnClient, Private,
        ConnectedHasTools, Uses, Refers, RowOf
  <2>3. ServerSound(s)'
    <3>1. ~overlap[s] => \A p \in Op : ~On(p, s)
      BY <1>1 DEF AdminInv, ServerSound, AgreesWith, Live
    <3>2. ~overlap[s] => Agrees(s)'
      BY <1>4, <2>1, <3>1 DEF Agrees, Policies
    <3>3. ~overlap[s] => \A p \in Op : ~On(p, s)'
      BY <2>1, <3>1 DEF On
    <3> QED
      BY <2>1, <3>2, <3>3, SoundAlone
  <2>4. ASSUME NEW t \in Server, t # s PROVE ServerSound(t)'
    <3>1. SameServer(t)
      BY <1>3, <2>1, <2>4 DEF SameServer, RowOf, On
    <3> QED
      BY <1>1, <3>1, OtherServer DEF AdminInv
  <2> QED
    BY <2>2, <2>3, <2>4 DEF AdminInv
<1> QED
  BY <1>5, <1>6

LEMMA UpdateInv ==
    ASSUME AdminInv, NEW o \in Op, NEW s \in Server, NEW r \in Rows(bound.modes),
           UpdateServer(o, s, r), UNCHANGED <<bound, pending>>
    PROVE  AdminInv'
<1>1. /\ op[o].pc = "idle" /\ row' = [row EXCEPT ![s] = r] /\ UNCHANGED <<config, bound, pending>>
  BY DEF UpdateServer, Idle
<1>2. AdminTyped
  BY DEF AdminInv, ClientsInv
<1>3. /\ RowOf(s) /\ row'[s] = r /\ Live(s)' /\ r.mode \in bound.modes
      /\ r.enabled => Enabled(s)'
  BY <1>1, <1>2, LiveRows
<1>4. r.mode \in Ask /\ "default" \in Ask
  BY <1>2, <1>3, Constants DEF AdminTyped, Ask
<1>5. CASE config.enabled /\ r.enabled /\ conn[s] = NoConn
  <2>1. ~overlap[s] /\ (\A p \in Op : p # o => ~On(p, s)) => tools[s] = NoConn
    BY <1>1, <1>5, AloneAgrees DEF Agrees, Policies
  <2> QED
    BY <1>1, <1>3, <1>5, <2>1, DialInv DEF UpdateServer
<1>6. CASE config.enabled /\ r.enabled /\ conn[s] # NoConn
  <2>1. Disconnect(o, s, r.mode, "dial")
    BY <1>6 DEF UpdateServer
  <2> QED
    BY <1>1, <1>3, <1>4, <1>6, <2>1, DisconnectInv
<1>7. CASE ~(config.enabled /\ r.enabled)
  <2>1. Disconnect(o, s, "default", "end")
    BY <1>7 DEF UpdateServer
  <2> QED
    BY <1>1, <1>3, <1>4, <2>1, DisconnectInv
<1> QED
  BY <1>5, <1>6, <1>7

LEMMA EndingInv ==
    ASSUME AdminInv, NEW o \in Op, NEW s \in Server,
           DisconnectServer(o, s) \/ DeleteServer(o, s), UNCHANGED <<bound, pending>>
    PROVE  AdminInv'
<1>1. op[o].pc = "idle" /\ Live(s) /\ UNCHANGED <<config, bound, pending>>
  BY DEF DisconnectServer, DeleteServer, Idle
<1>2. AdminTyped /\ "default" \in Ask
  BY DEF AdminInv, ClientsInv, Ask
<1>3. CASE DisconnectServer(o, s)
  <2>1. Disconnect(o, s, "default", "end") /\ row' = row
    BY <1>3 DEF DisconnectServer
  <2>2. RowOf(s) /\ Live(s)'
    BY <1>1, <1>2, <2>1 DEF RowOf, AdminTyped, Live
  <2> QED
    BY <1>1, <1>2, <2>1, <2>2, DisconnectInv
<1>4. CASE DeleteServer(o, s)
  <2>1. /\ Disconnect(o, s, "default", "drop")
        /\ row' = IF conn[s] = NoConn THEN [row EXCEPT ![s] = Deleted] ELSE row
    BY <1>4 DEF DeleteServer
  <2>2. RowOf(s) /\ (conn[s] # NoConn => Live(s)')
    BY <1>1, <1>2, <2>1 DEF RowOf, AdminTyped, Live
  <2> QED
    BY <1>1, <1>2, <2>1, <2>2, DisconnectInv
<1> QED
  BY <1>3, <1>4

LEMMA RefreshStartsInv ==
    ASSUME AdminInv, NEW o \in Op, NEW s \in Server, RefreshStarts(o, s), UNCHANGED <<bound, pending>>
    PROVE  AdminInv'
<1> DEFINE x == [pc |-> "refreshing", server |-> s, client |-> conn[s].client,
                 mode |-> conn[s].mode, then |-> "end"]
<1>1. /\ op[o].pc = "idle" /\ conn[s] # NoConn /\ Suspend(o, x)
      /\ UNCHANGED <<config, row, conn, tools, event, client, bound, pending>>
  BY DEF RefreshStarts, Idle
<1>2. AdminTyped /\ conn[s].client \in Client /\ conn[s].mode \in bound.modes
      /\ conn[s].mode \in Ask
  BY <1>1, ServerTypes, Constants DEF AdminInv, ClientsInv, AdminTyped
<1>3. x \in OpRec /\ x.pc = "refreshing" /\ x.server = s /\ x.client = conn[s].client
      /\ x.mode = conn[s].mode /\ x.then = "end"
  BY <1>2 DEF OpRec, Ask
<1> HIDE DEF x
<1>4. RowOf(s)
  BY <1>1, <1>2 DEF RowOf, AdminTyped
<1>5. ASSUME op'[o] = x, ~overlap[s], \A p \in Op : ~On(p, s) PROVE AgreesWith(o, s)'
  <2>1. Agrees(s) /\ Live(s)
    BY <1>1, <1>5, Unsuspended DEF AdminInv, Agrees, Policies, Enabled
  <2>2. Agrees(s)' /\ Live(s)'
    BY <1>1, <2>1 DEF Agrees, Policies, Enabled, Live
  <2> QED
    BY <1>1, <1>3, <1>5, <2>2 DEF AgreesWith
<1> QED
  BY <1>1, <1>2, <1>3, <1>4, <1>5, HoldInv

LEMMA RedialInv ==
    ASSUME AdminInv, NEW o \in Op, Redial(o), UNCHANGED <<bound, pending>>
    PROVE  AdminInv'
<1>1. op[o].pc = "closed" /\ UNCHANGED <<config, row, bound, pending>>
  BY DEF Redial
<1>2. PICK s \in Server : s = op[o].server
  BY <1>1 DEF AdminInv, ClientsInv, AdminTyped, OpTyped
<1>3. AdminTyped /\ op[o].mode \in bound.modes /\ Dial(o, s, op[o].mode)
  BY <1>1, <1>2 DEF AdminInv, ClientsInv, AdminTyped, OpTyped, Redial
<1>4. RowOf(s)
  BY <1>1, <1>3 DEF RowOf, AdminTyped
<1>5. ~overlap[s] => AgreesWith(o, s)
  BY <1>1, <1>2 DEF AdminInv, ServerSound, On
<1>6. ~overlap[s] => /\ conn[s] = NoConn /\ tools[s] = NoConn /\ config.enabled
                     /\ Enabled(s)' /\ row'[s].mode = op[o].mode
  BY <1>1, <1>5 DEF AgreesWith, Decided, Enabled, Live
<1> QED
  BY <1>1, <1>2, <1>3, <1>4, <1>6, DialInv

-----------------------------------------------------------------------------
(* The connections: operations that go on.                                  *)

\* The operation o, on the server s, becomes x or returns, and touches only s.
Resumed(o, s, x) ==
    /\ o \in Op /\ s = op[o].server /\ op[o].pc # "idle"
    /\ op' = [op EXCEPT ![o] = x] /\ UNCHANGED <<overlap, config, bound, pending>>
    /\ x.pc = "idle" \/ x.server = s
    /\ \A t \in Server : t # s => /\ row'[t] = row[t] /\ conn'[t] = conn[t]
                                  /\ tools'[t] = tools[t] /\ event'[t] = event[t]
    /\ x.pc # "idle" /\ AgreesWith(o, s) /\ op'[o] = x => AgreesWith(o, s)'
    /\ x.pc = "idle" /\ AgreesWith(o, s) => Agrees(s)'

LEMMA ResumedSound ==
    ASSUME AdminInv, NEW o, NEW s \in Server, NEW x \in OpRec, Resumed(o, s, x)
    PROVE  \A t \in Server : ServerSound(t)'
<1> USE DEF Resumed
<1>1. op'[o] = x /\ \A p \in Op : p # o => op'[p] = op[p]
  BY OpChanged DEF AdminInv, ClientsInv
<1>2. ServerSound(s)'
  <2>1. ~overlap[s] => AgreesWith(o, s) /\ \A p \in Op : On(p, s) <=> p = o
    BY DEF AdminInv, ServerSound, On
  <2>2. CASE x.pc = "idle"
    <3>1. ~overlap'[s] => Agrees(s)' /\ \A p \in Op : ~On(p, s)'
      BY <1>1, <2>1, <2>2 DEF On
    <3> QED
      BY <3>1, SoundAlone
  <2>3. CASE x.pc # "idle"
    <3>1. ~overlap'[s] => AgreesWith(o, s)' /\ \A p \in Op : On(p, s)' <=> p = o
      BY <1>1, <2>1, <2>3 DEF On
    <3> QED
      BY <3>1, SoundWith
  <2> QED
    BY <2>2, <2>3
<1>3. ASSUME NEW t \in Server, t # s PROVE ServerSound(t)'
  <2>1. \A p \in Op : /\ On(p, t) => op'[p] = op[p]
                      /\ ~On(p, t) => ~On(p, t)'
    BY <1>1, <1>3 DEF On
  <2>2. SameServer(t)
    BY <1>3, <2>1 DEF SameServer
  <2> QED
    BY <2>2, OtherServer DEF AdminInv
<1> QED
  BY <1>2, <1>3

\* The server of an operation, its client and what goes with them.
LEMMA OpFacts ==
    ASSUME AdminInv, NEW o \in Op, op[o].pc # "idle"
    PROVE  /\ AdminTyped /\ OneServer /\ MapsOpen /\ OwnClient /\ ConnectedHasTools
           /\ op[o] \in OpRec /\ op[o].server \in Server
           /\ op[o].pc # "closed" => op[o].client \in Client /\ Uses(op[o].server, op[o].client)
           /\ \A p \in Op : Private(p)
BY DEF AdminInv, ClientsInv, AdminTyped, OpTyped, Uses, OwnClient

\* With an operation that lets its client go, or keeps it, all others are as
\* well typed as before.
LEMMA OpsTyped ==
    ASSUME AdminTyped, NEW o \in Op, NEW x \in OpRec, op' = [op EXCEPT ![o] = x],
           UNCHANGED <<bound, pending>>,
           x.pc \in {"idle", "closed"} => x.client = 0,
           x.pc # "idle" => x.server \in Server,
           x.pc \notin {"idle", "closed"} => x.client \in Client,
           x.pc \in {"closed", "dialing", "listing", "refreshing"} => x.mode \in bound.modes,
           x.then = "dial" => x.mode \in bound.modes
    PROVE  DOMAIN op' = Op /\ \A p \in Op : OpTyped(p)'
<1>1. op'[o] = x /\ DOMAIN op' = Op /\ \A p \in Op : p # o => op'[p] = op[p]
  BY OpChanged
<1>2. OpTyped(o)'
  BY <1>1 DEF OpTyped
<1>3. \A p \in Op : p # o => OpTyped(p)'
  BY <1>1 DEF OpTyped, AdminTyped
<1> QED
  BY <1>1, <1>2, <1>3

LEMMA CloseEndsInv ==
    ASSUME AdminInv, NEW o \in Op, CloseEnds(o), UNCHANGED <<bound, pending>>
    PROVE  AdminInv'
<1>1. op[o].pc = "closing"
  BY DEF CloseEnds
<1>2. PICK s \in Server, c \in Client : s = op[o].server /\ c = op[o].client
  BY <1>1, OpFacts
<1>3. /\ AdminTyped /\ OneServer /\ MapsOpen /\ OwnClient /\ ConnectedHasTools
      /\ Uses(s, c) /\ op[o] \in OpRec
  BY <1>1, <1>2, OpFacts
<1>4. /\ client' = [client EXCEPT ![c] = "closed"]
      /\ conn' = [conn EXCEPT ![s] = NoConn] /\ tools' = [tools EXCEPT ![s] = NoConn]
      /\ event' = [event EXCEPT ![s] = "disconnected"]
      /\ row' = IF op[o].then = "drop" THEN [row EXCEPT ![s] = Deleted] ELSE row
      /\ UNCHANGED <<config, overlap, bound, pending>>
  BY <1>2 DEF CloseEnds, Return
<1>5. PICK x \in OpRec :
          /\ op' = [op EXCEPT ![o] = x] /\ x.client = 0
          /\ IF op[o].then = "dial"
             THEN x.pc = "closed" /\ x.server = s /\ x.mode = op[o].mode /\ x.then = "dial"
             ELSE x.pc = "idle" /\ x.then = "end"
  <2>1. CASE op[o].then = "dial"
    <3> DEFINE x == [[op[o] EXCEPT !.pc = "closed"] EXCEPT !.client = 0]
    <3>1. op' = [op EXCEPT ![o] = x]
      BY <1>3, <2>1 DEF CloseEnds, AdminTyped
    <3>2. x \in OpRec /\ x.client = 0 /\ x.pc = "closed" /\ x.server = s
          /\ x.mode = op[o].mode /\ x.then = "dial"
      BY <1>2, <1>3, <2>1 DEF OpRec
    <3> HIDE DEF x
    <3> QED
      BY <2>1, <3>1, <3>2
  <2>2. CASE op[o].then # "dial"
    BY <2>2, NoOpType DEF CloseEnds, Return
  <2> QED
    BY <2>1, <2>2
<1>6. op'[o] = x /\ \A p \in Op : p # o => op'[p] = op[p]
  BY <1>3, <1>5, OpChanged
<1>7. AdminTyped'
  <2>1. op[o].then = "dial" => op[o].mode \in bound.modes
    BY <1>3 DEF AdminTyped, OpTyped
  <2>2. DOMAIN op' = Op /\ \A p \in Op : OpTyped(p)'
    BY <1>3, <1>4, <1>5, <2>1, OpsTyped
  <2>3. event' \in [Server -> Status]
    BY <1>3, <1>4 DEF AdminTyped, Status
  <2> QED
    BY <1>3, <1>4, <2>2, <2>3 DEF AdminTyped
<1>8. \A t \in Server, d \in Client : Refers(t, d)' => t # s /\ Refers(t, d)
  BY <1>3, <1>4 DEF Refers, AdminTyped
<1>9. \A t \in Server, d \in Client : Uses(t, d)' => Uses(t, d)
  BY <1>5, <1>6, <1>8, Constants DEF Uses, AdminInv, ClientsInv, AdminTyped
<1>10. OneServer'
  BY <1>3, <1>9, FewerUses
<1>11. \A d \in Client : d # c => client'[d] = client[d]
  BY <1>3, <1>4 DEF AdminTyped
<1>12. MapsOpen'
  <2>1. \A t \in Server, d \in Client : Refers(t, d)' => d # c
    BY <1>3, <1>8 DEF OneServer, Uses
  <2> QED
    BY <1>3, <1>8, <1>11, <2>1 DEF MapsOpen
<1>13. OwnClient'
  <2>1. Private(o)'
    BY <1>5, <1>6 DEF Private
  <2>2. ASSUME NEW p \in Op, p # o PROVE Private(p)'
    <3>1. Private(p) /\ OpTyped(p) /\ op'[p] = op[p]
      BY <1>3, <1>6, <2>2 DEF OwnClient, AdminTyped
    <3>2. op[p].pc \in {"dialing", "listing"} => op[p].client # c /\ op[p].client \in Client
      BY <1>2, <2>2, <3>1 DEF Private, OpTyped
    <3>3. 0 \notin Client
      BY Constants, <1>3 DEF AdminTyped
    <3> QED
      BY <1>5, <1>6, <1>8, <1>11, <3>1, <3>2, <3>3 DEF Private
  <2> QED
    BY <2>1, <2>2 DEF OwnClient
<1>14. ConnectedHasTools'
  BY <1>3, <1>4 DEF ConnectedHasTools, AdminTyped
<1>15. Resumed(o, s, x)
  <2>1. conn'[s] = NoConn /\ tools'[s] = NoConn /\ event'[s] = "disconnected"
    BY <1>3, <1>4 DEF AdminTyped
  <2>2. Agrees(s)'
    BY <2>1 DEF Agrees, Policies
  <2>3. op[o].then = "dial" /\ AgreesWith(o, s) => AgreesWith(o, s)'
    BY <1>1, <1>4, <1>5, <1>6, <2>1 DEF AgreesWith, Decided, Enabled, Live
  <2>4. \A t \in Server : t # s => /\ row'[t] = row[t] /\ conn'[t] = conn[t]
                                   /\ tools'[t] = tools[t] /\ event'[t] = event[t]
    BY <1>3, <1>4 DEF AdminTyped
  <2> QED
    BY <1>1, <1>2, <1>4, <1>5, <2>2, <2>3, <2>4 DEF Resumed
<1> QED
  BY <1>7, <1>10, <1>12, <1>13, <1>14, <1>15, ResumedSound DEF AdminInv, ClientsInv

LEMMA DialOpensInv ==
    ASSUME AdminInv, NEW o \in Op, DialOpens(o), UNCHANGED <<bound, pending>>
    PROVE  AdminInv'
<1>1. op[o].pc = "dialing"
  BY DEF DialOpens
<1>2. PICK s \in Server, c \in Client : s = op[o].server /\ c = op[o].client
  BY <1>1, OpFacts
<1>3. /\ AdminTyped /\ OneServer /\ MapsOpen /\ OwnClient /\ ConnectedHasTools
      /\ op[o] \in OpRec /\ op[o].mode \in bound.modes
  BY <1>1, OpFacts DEF AdminTyped, OpTyped
<1>4. /\ client' = [client EXCEPT ![c] = "open"]
      /\ op' = [op EXCEPT ![o] = [op[o] EXCEPT !.pc = "listing"]]
      /\ UNCHANGED <<config, row, conn, tools, event, overlap, bound, pending>>
  BY <1>2, <1>3 DEF DialOpens, AdminTyped
<1>5. PICK x \in OpRec :
          /\ op' = [op EXCEPT ![o] = x] /\ x.client = c /\ x.server = s /\ x.pc = "listing"
          /\ x.mode = op[o].mode /\ x.then = op[o].then
  <2> DEFINE x == [op[o] EXCEPT !.pc = "listing"]
  <2>1. x \in OpRec /\ x.client = c /\ x.server = s /\ x.pc = "listing"
        /\ x.mode = op[o].mode /\ x.then = op[o].then
    BY <1>2, <1>3 DEF OpRec
  <2> HIDE DEF x
  <2> QED
    BY <1>4, <2>1 DEF x
<1>6. op'[o] = x /\ \A p \in Op : p # o => op'[p] = op[p]
  BY <1>3, <1>5, OpChanged
<1>7. AdminTyped'
  <2>1. DOMAIN op' = Op /\ \A p \in Op : OpTyped(p)'
    BY <1>3, <1>4, <1>5, OpsTyped
  <2> QED
    BY <1>3, <1>4, <2>1 DEF AdminTyped
<1>8. \A t \in Server, d \in Client : Refers(t, d)' <=> Refers(t, d)
  BY <1>4 DEF Refers
<1>9. \A t \in Server, d \in Client : Uses(t, d)' => Uses(t, d)
  BY <1>2, <1>5, <1>6, <1>8 DEF Uses
<1>10. OneServer'
  BY <1>3, <1>9, FewerUses
<1>11. client'[c] = "open" /\ \A d \in Client : d # c => client'[d] = client[d]
  BY <1>3, <1>4 DEF AdminTyped
<1>12. MapsOpen' /\ ConnectedHasTools'
  BY <1>3, <1>4, <1>8, <1>11 DEF MapsOpen, ConnectedHasTools
<1>13. OwnClient'
  <2>1. Private(o) /\ op[o].client = c
    BY <1>2, <1>3 DEF OwnClient
  <2>2. Private(o)'
    BY <1>1, <1>5, <1>6, <1>8, <1>11, <2>1 DEF Private
  <2>3. ASSUME NEW p \in Op, p # o PROVE Private(p)'
    <3>1. Private(p) /\ OpTyped(p) /\ op'[p] = op[p]
      BY <1>3, <1>6, <2>3 DEF OwnClient, AdminTyped
    <3>2. op[p].pc \in {"dialing", "listing"} => op[p].client # c /\ op[p].client \in Client
      BY <1>1, <2>1, <2>3, <3>1 DEF Private, OpTyped
    <3> QED
      BY <1>5, <1>6, <1>8, <1>11, <3>1, <3>2 DEF Private
  <2> QED
    BY <2>2, <2>3 DEF OwnClient
<1>14. Resumed(o, s, x)
  <2>1. AgreesWith(o, s) => AgreesWith(o, s)'
    BY <1>1, <1>4, <1>5, <1>6 DEF AgreesWith, Decided, Enabled, Live
  <2> QED
    BY <1>1, <1>2, <1>4, <1>5, <2>1 DEF Resumed
<1> QED
  BY <1>7, <1>10, <1>12, <1>13, <1>14, ResumedSound DEF AdminInv, ClientsInv

\* An operation returns: the clients of the others are their own still.
LEMMA ReturnPrivate ==
    ASSUME AdminInv, NEW o \in Op, op[o].pc # "idle", op' = [op EXCEPT ![o] = NoOp],
           \A t \in Server, d \in Client : Refers(t, d)' => Refers(t, d) \/ d = op[o].client,
           \A d \in Client : d # op[o].client => client'[d] = client[d],
           \/ op[o].pc \in {"dialing", "listing"}
           \/ /\ client' = client
              /\ \A p \in Op : op[p].pc \in {"dialing", "listing"} => op[p].client # op[o].client
    PROVE  OwnClient'
<1>1. AdminTyped /\ OwnClient /\ 0 \notin Client
  BY Constants DEF AdminInv, ClientsInv, AdminTyped
<1>2. op'[o] = NoOp /\ \A p \in Op : p # o => op'[p] = op[p]
  BY <1>1, OpChanged
<1>3. Private(o)'
  BY <1>2, NoOpType DEF Private
<1>4. ASSUME NEW p \in Op, p # o PROVE Private(p)'
  <2>1. Private(p) /\ OpTyped(p) /\ op'[p] = op[p] /\ Private(o)
    BY <1>1, <1>2, <1>4 DEF OwnClient, AdminTyped
  <2>2. op[p].pc \in {"dialing", "listing"} =>
            op[p].client # op[o].client /\ op[p].client \in Client
    BY <1>4, <2>1 DEF Private, OpTyped
  <2> QED
    BY <1>1, <1>2, <2>1, <2>2, NoOpType DEF Private
<1> QED
  BY <1>3, <1>4 DEF OwnClient

LEMMA ReturnTyped ==
    ASSUME AdminTyped, NEW o \in Op, op' = [op EXCEPT ![o] = NoOp], UNCHANGED <<bound, pending>>
    PROVE  DOMAIN op' = Op /\ \A p \in Op : OpTyped(p)'
BY OpsTyped, NoOpType

LEMMA ConnectEndsInv ==
    ASSUME AdminInv, NEW o \in Op, ConnectEnds(o), UNCHANGED <<bound, pending>>
    PROVE  AdminInv'
<1>1. op[o].pc = "listing"
  BY DEF ConnectEnds
<1>2. PICK s \in Server, c \in Client : s = op[o].server /\ c = op[o].client
  BY <1>1, OpFacts
<1>3. /\ AdminTyped /\ OneServer /\ MapsOpen /\ OwnClient /\ ConnectedHasTools
      /\ op[o] \in OpRec /\ op[o].mode \in bound.modes /\ Uses(s, c)
  BY <1>1, <1>2, OpFacts DEF AdminTyped, OpTyped
<1> DEFINE m == op[o].mode
           k == [client |-> c, mode |-> m]
           r == Registered(c, m, config.default)
<1>4. /\ client[c] = "open"
      /\ conn' = [conn EXCEPT ![s] = k] /\ tools' = [tools EXCEPT ![s] = r]
      /\ event' = [event EXCEPT ![s] = "connected"] /\ op' = [op EXCEPT ![o] = NoOp]
      /\ UNCHANGED <<config, row, client, overlap, bound, pending>>
  BY <1>2 DEF ConnectEnds, Return
<1>5. r \in ToolSet /\ r.client = c
  <2>1. m \in Ask /\ config.default \in Mode
    BY <1>3, Constants DEF AdminTyped
  <2> QED
    BY <2>1, RegisteredType
<1>6. NoConn \notin ToolSet /\ k # NoConn /\ k \in [client : Client, mode : bound.modes]
      /\ k.client = c /\ k.mode = m
  <2>1. k \in ConnRec
    BY <1>3, Constants DEF ConnRec, AdminTyped, Ask
  <2> QED
    BY <1>3, <2>1, Constants DEF AdminTyped
<1> HIDE DEF k, r
<1>7. /\ conn'[s] = k /\ tools'[s] = r /\ event'[s] = "connected"
      /\ \A t \in Server : t # s => /\ conn'[t] = conn[t] /\ tools'[t] = tools[t]
                                    /\ event'[t] = event[t]
  BY <1>3, <1>4 DEF AdminTyped
<1>8. op'[o] = NoOp /\ \A p \in Op : p # o => op'[p] = op[p]
  BY <1>3, <1>4, OpChanged
<1>9. AdminTyped'
  <2>1. DOMAIN op' = Op /\ \A p \in Op : OpTyped(p)'
    BY <1>3, <1>4, ReturnTyped
  <2>2. event' \in [Server -> Status]
    BY <1>3, <1>4 DEF AdminTyped, Status
  <2> QED
    BY <1>3, <1>4, <1>5, <1>6, <2>1, <2>2 DEF AdminTyped
<1>10. \A t \in Server, d \in Client : Refers(t, d)' => Refers(t, d) \/ (t = s /\ d = c)
  BY <1>5, <1>6, <1>7 DEF Refers
<1>11. \A t \in Server, d \in Client : Uses(t, d)' => Uses(t, d)
  <2>1. 0 \notin Client
    BY <1>3, Constants DEF AdminTyped
  <2> QED
    BY <1>3, <1>8, <1>10, <2>1, NoOpType DEF Uses
<1>12. OneServer'
  BY <1>3, <1>11, FewerUses
<1>13. MapsOpen'
  BY <1>3, <1>4, <1>10 DEF MapsOpen
<1>14. OwnClient'
  <2>1. \A t \in Server, d \in Client : Refers(t, d)' => Refers(t, d) \/ d = op[o].client
    BY <1>2, <1>10
  <2> QED
    BY <1>1, <1>4, <2>1, ReturnPrivate
<1>15. ConnectedHasTools'
  BY <1>3, <1>5, <1>6, <1>7 DEF ConnectedHasTools
<1>16. Resumed(o, s, NoOp)
  <2>1. config.default \in Policies' /\ tools'[s] = Registered(c, m, config.default)
    BY <1>3, <1>4, <1>7 DEF AdminTyped, Policies, r
  <2>2. AgreesWith(o, s) => Decided(o, s)
    BY <1>1 DEF AgreesWith
  <2>3. ASSUME Decided(o, s) PROVE Agrees(s)'
    BY <1>4, <1>6, <1>7, <2>1, <2>3 DEF Decided, Agrees, Enabled, Live
  <2> QED
    BY <1>1, <1>2, <1>4, <1>7, <2>2, <2>3, NoOpType DEF Resumed
<1> QED
  BY <1>9, <1>12, <1>13, <1>14, <1>15, <1>16, ResumedSound, NoOpType DEF AdminInv, ClientsInv

LEMMA ConnectFailsInv ==
    ASSUME AdminInv, NEW o \in Op, ConnectFails(o), UNCHANGED <<bound, pending>>
    PROVE  AdminInv'
<1>1. op[o].pc \in {"dialing", "listing"}
  BY DEF ConnectFails
<1>2. PICK s \in Server, c \in Client : s = op[o].server /\ c = op[o].client
  BY <1>1, OpFacts
<1>3. /\ AdminTyped /\ OneServer /\ MapsOpen /\ OwnClient /\ ConnectedHasTools
  BY <1>1, OpFacts
<1>4. /\ client' = IF op[o].pc = "dialing" THEN [client EXCEPT ![c] = "closed"] ELSE client
      /\ event' = [event EXCEPT ![s] = "error"] /\ op' = [op EXCEPT ![o] = NoOp]
      /\ UNCHANGED <<config, row, conn, tools, overlap, bound, pending>>
  BY <1>2 DEF ConnectFails, Return
<1>5. event'[s] = "error" /\ \A t \in Server : t # s => event'[t] = event[t]
  BY <1>3, <1>4 DEF AdminTyped
<1>6. /\ client' \in [Client -> {"opening", "open", "closed", "lost"}]
      /\ \A d \in Client : d # c => client'[d] = client[d]
  BY <1>3, <1>4 DEF AdminTyped
<1>7. op'[o] = NoOp /\ \A p \in Op : p # o => op'[p] = op[p]
  BY <1>3, <1>4, OpChanged
<1>8. AdminTyped'
  <2>1. DOMAIN op' = Op /\ \A p \in Op : OpTyped(p)'
    BY <1>3, <1>4, ReturnTyped
  <2>2. event' \in [Server -> Status]
    BY <1>3, <1>4 DEF AdminTyped, Status
  <2> QED
    BY <1>3, <1>4, <1>6, <2>1, <2>2 DEF AdminTyped
<1>9. \A t \in Server, d \in Client : Refers(t, d)' <=> Refers(t, d)
  BY <1>4 DEF Refers
<1>10. \A t \in Server, d \in Client : Uses(t, d)' => Uses(t, d)
  <2>1. 0 \notin Client
    BY <1>3, Constants DEF AdminTyped
  <2> QED
    BY <1>7, <1>9, <2>1, NoOpType DEF Uses
<1>11. OneServer'
  BY <1>3, <1>10, FewerUses
<1>12. MapsOpen'
  <2>1. \A t \in Server : ~Refers(t, c)
    BY <1>1, <1>2, <1>3 DEF OwnClient, Private
  <2> QED
    BY <1>3, <1>6, <1>9, <2>1 DEF MapsOpen
<1>13. OwnClient'
  BY <1>1, <1>2, <1>4, <1>6, <1>9, ReturnPrivate
<1>14. ConnectedHasTools'
  BY <1>3, <1>4 DEF ConnectedHasTools
<1>15. Resumed(o, s, NoOp)
  <2>1. AgreesWith(o, s) => Agrees(s)'
    BY <1>1, <1>4, <1>5 DEF AgreesWith, Agrees, Policies
  <2> QED
    BY <1>1, <1>2, <1>4, <1>5, <2>1, NoOpType DEF Resumed
<1> QED
  BY <1>8, <1>11, <1>12, <1>13, <1>14, <1>15, ResumedSound, NoOpType DEF AdminInv, ClientsInv

LEMMA RefreshEndsInv ==
    ASSUME AdminInv, NEW o \in Op, RefreshEnds(o), UNCHANGED <<bound, pending>>
    PROVE  AdminInv'
<1>1. op[o].pc = "refreshing"
  BY DEF RefreshEnds
<1>2. PICK s \in Server, c \in Client : s = op[o].server /\ c = op[o].client
  BY <1>1, OpFacts
<1>3. /\ AdminTyped /\ OneServer /\ MapsOpen /\ OwnClient /\ ConnectedHasTools
      /\ op[o].mode \in bound.modes /\ Uses(s, c)
  BY <1>1, <1>2, OpFacts DEF AdminTyped, OpTyped
<1> DEFINE r == Registered(c, op[o].mode, config.default)
<1>4. /\ op' = [op EXCEPT ![o] = NoOp]
      /\ UNCHANGED <<config, row, conn, client, overlap, bound, pending>>
      /\ \/ /\ client[c] = "open" /\ tools' = [tools EXCEPT ![s] = r]
            /\ event' = [event EXCEPT ![s] = "connected"]
         \/ UNCHANGED <<tools, event>>
  BY <1>2 DEF RefreshEnds, Return
<1>5. r \in ToolSet /\ r.client = c /\ NoConn \notin ToolSet
  <2>1. op[o].mode \in Ask /\ config.default \in Mode /\ NoConn \notin ToolSet
    BY <1>3, Constants DEF AdminTyped
  <2> QED
    BY <2>1, RegisteredType
<1> HIDE DEF r
<1>6. \A t \in Server : t # s => tools'[t] = tools[t] /\ event'[t] = event[t]
  BY <1>3, <1>4 DEF AdminTyped
<1>7. \/ client[c] = "open" /\ tools'[s] = r /\ event'[s] = "connected"
      \/ tools'[s] = tools[s] /\ event'[s] = event[s]
  BY <1>3, <1>4 DEF AdminTyped
<1>8. op'[o] = NoOp /\ \A p \in Op : p # o => op'[p] = op[p]
  BY <1>3, <1>4, OpChanged
<1>9. AdminTyped'
  <2>1. DOMAIN op' = Op /\ \A p \in Op : OpTyped(p)'
    BY <1>3, <1>4, ReturnTyped
  <2>2. event' \in [Server -> Status] /\ tools' \in [Server -> {NoConn} \cup ToolSet]
    BY <1>3, <1>4, <1>5 DEF AdminTyped, Status
  <2> QED
    BY <1>3, <1>4, <2>1, <2>2 DEF AdminTyped
<1>10. \A t \in Server, d \in Client :
          Refers(t, d)' => Refers(t, d) \/ (t = s /\ d = c /\ client[c] = "open")
  BY <1>4, <1>5, <1>6, <1>7 DEF Refers
<1>11. \A t \in Server, d \in Client : Uses(t, d)' => Uses(t, d)
  <2>1. 0 \notin Client
    BY <1>3, Constants DEF AdminTyped
  <2> QED
    BY <1>3, <1>8, <1>10, <2>1, NoOpType DEF Uses
<1>12. OneServer'
  BY <1>3, <1>11, FewerUses
<1>13. MapsOpen'
  BY <1>3, <1>4, <1>10 DEF MapsOpen
<1>14. OwnClient'
  <2>1. \A t \in Server, d \in Client : Refers(t, d)' => Refers(t, d) \/ d = op[o].client
    BY <1>2, <1>10
  <2>2. \A p \in Op : op[p].pc \in {"dialing", "listing"} => op[p].client # op[o].client
    BY <1>1, <1>3 DEF OwnClient, Private
  <2> QED
    BY <1>1, <1>4, <2>1, <2>2, ReturnPrivate
<1>15. ConnectedHasTools'
  BY <1>3, <1>4, <1>5, <1>6, <1>7 DEF ConnectedHasTools
<1>16. Resumed(o, s, NoOp)
  <2>1. ASSUME AgreesWith(o, s) PROVE Agrees(s)'
    <3>1. /\ Agrees(s) /\ conn[s] # NoConn /\ c = conn[s].client /\ op[o].mode = conn[s].mode
      BY <1>1, <1>2, <2>1 DEF AgreesWith
    <3>2. config.default \in Policies' /\ r = Registered(conn[s].client, conn[s].mode, config.default)
      BY <1>3, <1>4, <3>1 DEF AdminTyped, Policies, r
    <3>3. CASE tools'[s] = r /\ event'[s] = "connected"
      BY <1>4, <3>1, <3>2, <3>3 DEF Agrees, Enabled, Live
    <3>4. CASE tools'[s] = tools[s] /\ event'[s] = event[s]
      BY <1>4, <3>1, <3>4 DEF Agrees, Policies, Enabled, Live
    <3> QED
      BY <1>7, <3>3, <3>4
  <2> QED
    BY <1>1, <1>2, <1>4, <1>6, <2>1, NoOpType DEF Resumed
<1> QED
  BY <1>9, <1>12, <1>13, <1>14, <1>15, <1>16, ResumedSound, NoOpType DEF AdminInv, ClientsInv

-----------------------------------------------------------------------------
(* The connections: settings, and servers that go away.                     *)

LEMMA DisableInv ==
    ASSUME AdminInv, DisableMcp, UNCHANGED <<bound, pending>>
    PROVE  AdminInv'
<1> DEFINE open == {s \in Server : Live(s) /\ conn[s] # NoConn}
           idle == {o \in 1..bound.ops : op[o].pc = "idle"}
           x(s) == [pc |-> "closing", server |-> s, client |-> conn[s].client,
                    mode |-> "default", then |-> "end"]
<1>1. /\ AdminTyped /\ OneServer /\ MapsOpen /\ OwnClient /\ ConnectedHasTools
      /\ Op = {1, 2} /\ bound.ops \in {1, 2} /\ NoConn \notin ToolSet
  BY Constants DEF AdminInv, ClientsInv, AdminTyped
<1>2. PICK f \in [open -> idle] :
          /\ \A s, t \in open : f[s] = f[t] => s = t
          /\ op' = [o \in Op |-> IF \E s \in open : f[s] = o
                                 THEN x(CHOOSE s \in open : f[s] = o) ELSE op[o]]
          /\ overlap' = [s \in Server |-> overlap[s] \/ (Live(s) /\ Suspended(s))]
  BY DEF DisableMcp
<1>3. /\ config' = [config EXCEPT !.enabled = FALSE]
      /\ tools' = [s \in Server |-> IF Live(s) /\ conn[s] = NoConn THEN NoConn ELSE tools[s]]
      /\ UNCHANGED <<row, conn, event, client, bound, pending>>
  BY DEF DisableMcp
<1>4. \A s \in open : /\ x(s) \in OpRec /\ x(s).pc = "closing" /\ x(s).server = s
                      /\ x(s).client = conn[s].client /\ x(s).then = "end"
                      /\ conn[s].client \in Client
  BY <1>1, ServerTypes DEF OpRec
<1> HIDE DEF x
<1>5. \A s \in open : f[s] \in Op /\ op[f[s]].pc = "idle" /\ op'[f[s]] = x(s)
  <2>1. \A s \in open : f[s] \in Op /\ op[f[s]].pc = "idle"
    BY <1>1, <1>2
  <2> QED
    BY <1>2, <2>1
<1>6. \A o \in Op : (\E s \in open : f[s] = o) \/ op'[o] = op[o]
  BY <1>2
<1> HIDE DEF idle
<1>7. AdminTyped'
  <2>1. \A o \in Op : OpTyped(o)'
    <3>1. ASSUME NEW s \in open PROVE OpTyped(f[s])'
      BY <1>4, <1>5 DEF OpTyped
    <3>2. ASSUME NEW o \in Op, op'[o] = op[o] PROVE OpTyped(o)'
      BY <1>1, <1>3, <3>2 DEF AdminTyped, OpTyped
    <3> QED
      BY <1>6, <3>1, <3>2
  <2>2. DOMAIN op' = Op /\ overlap' \in [Server -> BOOLEAN]
    BY <1>1, <1>2 DEF AdminTyped
  <2>3. tools' \in [Server -> {NoConn} \cup ToolSet]
    BY <1>1, <1>3 DEF AdminTyped
  <2>4. config' \in [enabled : BOOLEAN, default : Mode, limit : Limits]
    BY <1>1, <1>3 DEF AdminTyped
  <2> QED
    BY <1>1, <1>3, <2>1, <2>2, <2>3, <2>4 DEF AdminTyped
<1>8. \A t \in Server, d \in Client : Refers(t, d)' => Refers(t, d)
  BY <1>3 DEF Refers
<1>9. \A t \in Server, d \in Client : Uses(t, d)' => Uses(t, d)
  <2>1. ASSUME NEW t \in Server, NEW d \in Client, NEW o \in Op,
               op'[o].server = t, op'[o].client = d
        PROVE  Uses(t, d)
    <3>1. CASE op'[o] = op[o]
      BY <2>1, <3>1 DEF Uses
    <3>2. CASE \E s \in open : f[s] = o
      BY <1>4, <1>5, <2>1, <3>2 DEF Uses, Refers
    <3> QED
      BY <1>6, <3>1, <3>2
  <2> QED
    BY <1>8, <2>1 DEF Uses
<1>10. OneServer'
  BY <1>1, <1>9, FewerUses
<1>11. MapsOpen'
  BY <1>1, <1>3, <1>8 DEF MapsOpen
<1>12. ConnectedHasTools'
  BY <1>1, <1>3 DEF ConnectedHasTools
<1>13. OwnClient'
  <2>1. ASSUME NEW p \in Op PROVE Private(p)'
    <3>1. CASE op'[p] = op[p]
      <4>1. Private(p) /\ OpTyped(p)
        BY <1>1 DEF OwnClient, AdminTyped
      <4>2. ASSUME op[p].pc \in {"dialing", "listing"}, NEW q \in Op, q # p
            PROVE  op'[q].client # op[p].client
        <5>1. CASE op'[q] = op[q]
          BY <4>1, <4>2, <5>1 DEF Private
        <5>2. CASE \E s \in open : f[s] = q
          BY <1>4, <1>5, <4>1, <4>2, <5>2 DEF Private, Refers
        <5> QED
          BY <1>6, <5>1, <5>2
      <4> QED
        BY <1>3, <1>8, <3>1, <4>1, <4>2 DEF Private, OpTyped
    <3>2. CASE \E s \in open : f[s] = p
      BY <1>4, <1>5, <3>2 DEF Private
    <3> QED
      BY <1>6, <3>1, <3>2
  <2> QED
    BY <2>1 DEF OwnClient
<1>14. ASSUME NEW t \in Server PROVE ServerSound(t)'
  <2>1. ~overlap'[t] => /\ ~overlap[t] /\ ServerSound(t)
                        /\ Live(t) => \A p \in Op : ~On(p, t)
    BY <1>2 DEF AdminInv, Suspended, On
  <2>2. ~overlap'[t] => Agrees(t) /\ \A p \in Op : ~On(p, t)
    <3>1. ~overlap'[t] => \A p \in Op : ~On(p, t)
      BY <2>1 DEF ServerSound, AgreesWith
    <3> QED
      BY <2>1, <3>1, Unsuspended
  <2>3. CASE t \in open
    <3>1. PICK o \in Op : o = f[t]
      BY <1>5, <2>3
    <3>2. op'[o] = x(t)
      BY <1>5, <2>3, <3>1
    <3>3. ASSUME ~overlap'[t] PROVE AgreesWith(o, t)' /\ \A p \in Op : On(p, t)' <=> p = o
      <4>1. Live(t)'
        BY <1>3, <2>3 DEF Live
      <4>2. AgreesWith(o, t)'
        BY <1>4, <2>3, <3>2, <4>1 DEF AgreesWith
      <4>3. ASSUME NEW p \in Op PROVE On(p, t)' <=> p = o
        <5>1. CASE \E s \in open : f[s] = p
          BY <1>2, <1>4, <1>5, <2>3, <3>1, <3>2, <5>1 DEF On
        <5>2. CASE ~\E s \in open : f[s] = p
          BY <1>6, <2>2, <2>3, <3>1, <3>3, <5>2 DEF On
        <5> QED
          BY <5>1, <5>2
      <4> QED
        BY <4>2, <4>3
    <3> QED
      BY <3>3, SoundWith
  <2>4. CASE t \notin open
    <3>1. ASSUME ~overlap'[t] PROVE Agrees(t)' /\ \A p \in Op : ~On(p, t)'
      <4>1. conn[t] = NoConn
        BY <2>2, <2>4, <3>1 DEF Agrees, Policies, Enabled
      <4>2. Agrees(t)'
        BY <1>3, <2>2, <3>1, <4>1 DEF Agrees, Policies
      <4>3. ASSUME NEW p \in Op PROVE ~On(p, t)'
        BY <1>4, <1>5, <1>6, <2>2, <2>4, <3>1 DEF On
      <4> QED
        BY <4>2, <4>3
    <3> QED
      BY <3>1, SoundAlone
  <2> QED
    BY <2>3, <2>4
<1> QED
  BY <1>7, <1>10, <1>11, <1>12, <1>13, <1>14 DEF AdminInv, ClientsInv

\* Only the config is written, and mcp is not switched off.
LEMMA ConfigInv ==
    ASSUME AdminInv, UNCHANGED <<admin, bound, pending>>,
           config' \in [enabled : BOOLEAN, default : Mode, limit : Limits],
           config'.default = config.default, config.enabled => config'.enabled
    PROVE  AdminInv'
<1>1. UNCHANGED <<row, conn, tools, event, client, op, overlap, bound, pending>>
  BY DEF admin
<1>2. ClientsInv'
  BY <1>1
  DEF AdminInv, ClientsInv, AdminTyped, OpTyped, OneServer, MapsOpen, OwnClient, Private,
      ConnectedHasTools, Uses, Refers
<1>3. ASSUME NEW t \in Server PROVE ServerSound(t)'
  <2>1. Agrees(t) => Agrees(t)'
    BY <1>1 DEF Agrees, Policies, Enabled, Live
  <2>2. \A p \in Op : AgreesWith(p, t) => AgreesWith(p, t)'
    BY <1>1, <2>1 DEF AgreesWith, Decided, Enabled, Live
  <2> QED
    BY <1>1, <2>1, <2>2 DEF AdminInv, ServerSound, On, Suspended
<1> QED
  BY <1>2, <1>3 DEF AdminInv

LEMMA SettingsInv ==
    ASSUME AdminInv, EnableMcp \/ \E l \in Limits : SetLimit(l), UNCHANGED <<bound, pending>>
    PROVE  AdminInv'
<1>1. config \in [enabled : BOOLEAN, default : Mode, limit : Limits]
  BY DEF AdminInv, ClientsInv, AdminTyped
<1>2. UNCHANGED admin
  BY DEF EnableMcp, SetLimit
<1>3. /\ config' \in [enabled : BOOLEAN, default : Mode, limit : Limits]
      /\ config'.default = config.default /\ (config.enabled => config'.enabled)
  BY <1>1 DEF EnableMcp, SetLimit
<1> QED
  BY <1>2, <1>3, ConfigInv

\* The tools of every connection are registered under what the config then says.
LEMMA ReregisteredInv ==
    ASSUME AdminInv, NEW d \in Mode, tools' = Reregistered(d), pending' \in BOOLEAN,
           config' \in [enabled : BOOLEAN, default : Mode, limit : Limits],
           config'.default = d, config'.enabled = config.enabled,
           UNCHANGED <<row, conn, event, client, op, overlap, bound>>
    PROVE  AdminInv'
<1>1. /\ AdminTyped /\ OneServer /\ MapsOpen /\ OwnClient /\ ConnectedHasTools
      /\ NoConn \notin ToolSet /\ bound.modes \subseteq Ask
  BY Constants DEF AdminInv, ClientsInv, AdminTyped
<1>2. tools' = [s \in Server |-> IF conn[s] # NoConn
                                 THEN Registered(conn[s].client, conn[s].mode, d)
                                 ELSE tools[s]]
  BY DEF Reregistered
<1>3. d \in Policies'
  BY DEF Policies
<1>4. \A s \in Server : conn[s] # NoConn =>
          /\ Registered(conn[s].client, conn[s].mode, d) \in ToolSet
          /\ Registered(conn[s].client, conn[s].mode, d).client = conn[s].client
  BY <1>1, ServerTypes, RegisteredType
<1>5. tools' \in [Server -> {NoConn} \cup ToolSet]
  BY <1>1, <1>2, <1>4 DEF AdminTyped
<1>6. AdminTyped'
  BY <1>1, <1>5 DEF AdminTyped, OpTyped
<1>7. \A t \in Server, c \in Client : Refers(t, c)' => Refers(t, c)
  BY <1>2, <1>4 DEF Refers
<1>8. OneServer' /\ MapsOpen' /\ OwnClient'
  <2>1. \A t \in Server, c \in Client : Uses(t, c)' => Uses(t, c)
    BY <1>7 DEF Uses
  <2>2. OneServer'
    BY <1>1, <2>1, FewerUses
  <2> QED
    BY <1>1, <1>7, <2>2 DEF MapsOpen, OwnClient, Private, AdminTyped, OpTyped
<1>9. ConnectedHasTools'
  BY <1>1, <1>2, <1>4 DEF ConnectedHasTools
<1>10. ASSUME NEW t \in Server PROVE ServerSound(t)'
  <2>1. Agrees(t) => Agrees(t)'
    BY <1>2, <1>3 DEF Agrees, Enabled, Live
  <2>2. \A p \in Op : AgreesWith(p, t) => AgreesWith(p, t)'
    BY <1>2, <2>1 DEF AgreesWith, Decided, Enabled, Live
  <2> QED
    BY <2>1, <2>2 DEF AdminInv, ServerSound, On, Suspended
<1> QED
  BY <1>6, <1>8, <1>9, <1>10 DEF AdminInv, ClientsInv

LEMMA DefaultModeInv ==
    ASSUME AdminInv, NEW d \in Mode, SetDefaultMode(d), bound' = bound
    PROVE  AdminInv'
<1>1. AdminTyped /\ ClientsInv
  BY DEF AdminInv, ClientsInv
<1>2. /\ config' = [config EXCEPT !.default = d]
      /\ UNCHANGED <<row, conn, event, client, op, overlap, bound>>
  BY DEF SetDefaultMode
<1>3. /\ config' \in [enabled : BOOLEAN, default : Mode, limit : Limits]
      /\ config'.default = d /\ config'.enabled = config.enabled
  BY <1>1, <1>2 DEF AdminTyped
<1>4. pending' \in BOOLEAN /\ (pending => pending')
  BY <1>1 DEF SetDefaultMode, AdminTyped
<1>5. CASE tools' = Reregistered(d)
  BY <1>2, <1>3, <1>4, <1>5, ReregisteredInv
<1>6. CASE tools' = tools /\ (config.enabled => pending')
  <2>1. ClientsInv'
    BY <1>1, <1>2, <1>3, <1>4, <1>6
    DEF ClientsInv, AdminTyped, OpTyped, OneServer, MapsOpen, OwnClient, Private,
        ConnectedHasTools, Uses, Refers
  <2>2. ASSUME NEW t \in Server PROVE ServerSound(t)'
    <3>1. config.enabled => Policies \subseteq Policies'
      BY <1>1, <1>6 DEF Policies, AdminTyped
    <3>2. Agrees(t) => Agrees(t)'
      BY <1>2, <1>3, <1>6, <3>1 DEF Agrees, Enabled, Live
    <3>3. \A p \in Op : AgreesWith(p, t) => AgreesWith(p, t)'
      BY <1>2, <1>3, <1>6, <3>2 DEF AgreesWith, Decided, Enabled, Live
    <3> QED
      BY <1>2, <3>2, <3>3 DEF AdminInv, ServerSound, On, Suspended
  <2> QED
    BY <2>1, <2>2 DEF AdminInv
<1>7. \/ tools' = Reregistered(d)
      \/ tools' = tools /\ (config.enabled => pending')
  BY DEF SetDefaultMode
<1> QED
  BY <1>5, <1>6, <1>7

LEMMA RefreshPoliciesInv ==
    ASSUME AdminInv, RefreshToolPolicies, bound' = bound
    PROVE  AdminInv'
<1>1. config \in [enabled : BOOLEAN, default : Mode, limit : Limits]
  BY DEF AdminInv, ClientsInv, AdminTyped
<1>2. /\ tools' = Reregistered(config.default) /\ pending' = FALSE
      /\ UNCHANGED <<config, row, conn, event, client, op, overlap, bound>>
  BY DEF RefreshToolPolicies
<1> QED
  BY <1>1, <1>2, ReregisteredInv

LEMMA LostInv ==
    ASSUME AdminInv, NEW c \in Client, ServerLost(c), UNCHANGED <<bound, pending>>
    PROVE  AdminInv'
<1>1. /\ AdminTyped /\ OneServer /\ MapsOpen /\ OwnClient /\ ConnectedHasTools
  BY DEF AdminInv, ClientsInv
<1>2. /\ client[c] = "open" /\ client' = [client EXCEPT ![c] = "lost"]
      /\ UNCHANGED <<config, row, conn, tools, event, op, overlap, bound, pending>>
  BY DEF ServerLost
<1>3. /\ client' \in [Client -> {"opening", "open", "closed", "lost"}]
      /\ client'[c] = "lost" /\ \A d \in Client : d # c => client'[d] = client[d]
  BY <1>1, <1>2 DEF AdminTyped
<1>4. ClientsInv'
  BY <1>1, <1>2, <1>3
  DEF ClientsInv, AdminTyped, OpTyped, OneServer, MapsOpen, OwnClient, Private,
      ConnectedHasTools, Uses, Refers
<1>5. \A t \in Server : ServerSound(t)'
  BY <1>2
  DEF AdminInv, ServerSound, Agrees, Policies, AgreesWith, Decided, Enabled, Live, On, Suspended
<1> QED
  BY <1>4, <1>5 DEF AdminInv

\* The calls leave the connections alone.
LEMMA AdminKept ==
    ASSUME AdminInv, UNCHANGED <<config, admin, bound, pending>>
    PROVE  AdminInv'
BY ConfigInv DEF AdminInv, ClientsInv, AdminTyped

-----------------------------------------------------------------------------
(* A semaphore, as its operations change it.                                *)

LEMMA CallsFinite ==
    ASSUME NEW W \in SUBSET Call
    PROVE  IsFiniteSet(W) /\ Cardinality(W) \in Nat
<1>1. IsFiniteSet(Call)
  BY FS_Interval, 1 \in Int, 3 \in Int DEF Call
<1>2. IsFiniteSet(W)
  BY <1>1, FS_Subset
<1> QED
  BY <1>2, FS_CardinalityType

\* A permit is taken.
LEMMA ExactGrant ==
    ASSUME NEW x \in Semaphore, NEW H \in SUBSET Call, NEW W \in SUBSET Call, NEW k \in Call,
           Exact(x, H, W), k \notin H, x.active < x.limit
    PROVE  /\ [x EXCEPT !.active = x.active + 1] \in Semaphore
           /\ Exact([x EXCEPT !.active = x.active + 1], H \cup {k}, W)
<1>1. Cardinality(H \cup {k}) = Cardinality(H) + 1
  BY CallsFinite, FS_AddElement
<1>2. W = {}
  BY McpAssumption DEF Exact, Semaphore
<1>3. x.limit \in Nat /\ x.active \in Nat
  BY McpAssumption DEF Semaphore
<1> DEFINE y == [x EXCEPT !.active = x.active + 1]
<1>4. y \in Semaphore /\ y.active = x.active + 1 /\ y.queue = x.queue /\ y.limit = x.limit
  BY <1>3 DEF Semaphore
<1> HIDE DEF y
<1>5. x.active + 1 <= x.limit
  BY <1>3
<1>6. Exact(y, H \cup {k}, W)
  BY <1>1, <1>2, <1>4, <1>5 DEF Exact
<1> QED
  BY <1>4, <1>6 DEF y

\* A call waits when no permit is free.
LEMMA ExactQueue ==
    ASSUME NEW x \in Semaphore, NEW H \in SUBSET Call, NEW W \in SUBSET Call, NEW k \in Call,
           Exact(x, H, W), k \notin W, ~(x.active < x.limit)
    PROVE  /\ [x EXCEPT !.queue = Append(x.queue, k)] \in Semaphore
           /\ Exact([x EXCEPT !.queue = Append(x.queue, k)], H, W \cup {k})
<1> DEFINE q == x.queue
           y == [x EXCEPT !.queue = Append(x.queue, k)]
<1>1. /\ q \in Seq(Call) /\ x.limit \in Nat /\ x.active \in Nat
  BY McpAssumption DEF Semaphore
<1>2. /\ Append(q, k) \in Seq(Call) /\ Len(Append(q, k)) = Len(q) + 1
      /\ \A i \in 1..Len(q) : Append(q, k)[i] = q[i]
      /\ Append(q, k)[Len(q) + 1] = k
  BY <1>1, AppendProperties
<1>3. DOMAIN q = 1..Len(q) /\ DOMAIN Append(q, k) = 1..(Len(q) + 1) /\ Len(q) \in Nat
  BY <1>1, <1>2, LenProperties
<1>4. y \in Semaphore /\ y.queue = Append(q, k) /\ y.active = x.active /\ y.limit = x.limit
  BY <1>2 DEF Semaphore
<1>5. Cardinality(W \cup {k}) = Cardinality(W) + 1
  BY CallsFinite, FS_AddElement
<1>6. \A i \in DOMAIN q : q[i] # k
  BY DEF Exact
<1>7. \A i, j \in DOMAIN Append(q, k) : Append(q, k)[i] = Append(q, k)[j] => i = j
  BY <1>2, <1>3, <1>6 DEF Exact
<1>8. {Append(q, k)[i] : i \in DOMAIN Append(q, k)} = W \cup {k}
  BY <1>2, <1>3 DEF Exact
<1> HIDE DEF y
<1> QED
  BY <1>1, <1>2, <1>3, <1>4, <1>5, <1>7, <1>8 DEF Exact, y

\* A permit is given back.
LEMMA ExactFree ==
    ASSUME NEW x \in Semaphore, NEW H \in SUBSET Call, NEW W \in SUBSET Call, NEW k \in H,
           Exact(x, H, W), x.queue = <<>>
    PROVE  /\ [x EXCEPT !.active = x.active - 1] \in Semaphore
           /\ Exact([x EXCEPT !.active = x.active - 1], H \ {k}, W)
<1>1. Cardinality(H \ {k}) = Cardinality(H) - 1 /\ Cardinality(H \ {k}) \in Nat
  BY CallsFinite, FS_RemoveElement
<1>2. W = {}
  BY EmptySeq DEF Exact
<1>3. x.limit \in Nat /\ x.active \in Nat
  BY McpAssumption DEF Semaphore
<1>4. [x EXCEPT !.active = x.active - 1] \in Semaphore
  BY <1>1, <1>3 DEF Semaphore, Exact
<1> QED
  BY <1>1, <1>2, <1>3, <1>4 DEF Exact, Semaphore

\* A permit goes to the head of the queue.
LEMMA ExactPass ==
    ASSUME NEW x \in Semaphore, NEW H \in SUBSET Call, NEW W \in SUBSET Call, NEW k \in H,
           Exact(x, H, W), H \cap W = {}, x.queue # <<>>
    PROVE  /\ Head(x.queue) \in W
           /\ [x EXCEPT !.queue = Tail(x.queue)] \in Semaphore
           /\ Exact([x EXCEPT !.queue = Tail(x.queue)],
                    (H \ {k}) \cup {Head(x.queue)}, W \ {Head(x.queue)})
<1> DEFINE q == x.queue
           h == Head(q)
           y == [x EXCEPT !.queue = Tail(x.queue)]
<1>1. /\ q \in Seq(Call) /\ x.limit \in Nat /\ x.active \in Nat
  BY McpAssumption DEF Semaphore
<1>2. /\ Tail(q) \in Seq(Call) /\ Len(Tail(q)) = Len(q) - 1 /\ Len(q) \in Nat \ {0}
      /\ \A i \in 1..Len(Tail(q)) : Tail(q)[i] = q[i + 1]
      /\ h = q[1]
  BY <1>1, HeadTailProperties, EmptySeq
<1>3. DOMAIN q = 1..Len(q) /\ DOMAIN Tail(q) = 1..(Len(q) - 1)
  BY <1>1, <1>2, LenProperties
<1>4. h \in W
  BY <1>2, <1>3 DEF Exact
<1>5. y \in Semaphore /\ y.queue = Tail(q) /\ y.active = x.active /\ y.limit = x.limit
  BY <1>2 DEF Semaphore
<1>6. /\ Cardinality(W \ {h}) = Cardinality(W) - 1
      /\ Cardinality((H \ {k}) \cup {h}) = Cardinality(H)
  <2>1. Cardinality(H \ {k}) = Cardinality(H) - 1
    BY CallsFinite, FS_RemoveElement
  <2>2. Cardinality((H \ {k}) \cup {h}) = Cardinality(H \ {k}) + 1
    BY <1>4, CallsFinite, FS_AddElement
  <2>3. Cardinality(H) \in Nat /\ Cardinality(W \ {h}) = Cardinality(W) - 1
    BY <1>4, CallsFinite, FS_RemoveElement
  <2> QED
    BY <2>1, <2>2, <2>3
<1>7. \A i, j \in DOMAIN Tail(q) : Tail(q)[i] = Tail(q)[j] => i = j
  <2>1. \A i \in DOMAIN Tail(q) : i \in Nat /\ i + 1 \in DOMAIN q /\ Tail(q)[i] = q[i + 1]
    BY <1>2, <1>3
  <2>2. \A i, j \in DOMAIN q : q[i] = q[j] => i = j
    BY DEF Exact
  <2> QED
    BY <2>1, <2>2
<1>8. {Tail(q)[i] : i \in DOMAIN Tail(q)} = W \ {h}
  <2>1. \A i \in DOMAIN Tail(q) : Tail(q)[i] \in W /\ Tail(q)[i] # h
    BY <1>2, <1>3 DEF Exact
  <2>2. ASSUME NEW w \in W, w # h PROVE \E i \in DOMAIN Tail(q) : Tail(q)[i] = w
    <3>1. PICK j \in DOMAIN q : q[j] = w
      BY DEF Exact
    <3>2. j - 1 \in DOMAIN Tail(q) /\ Tail(q)[j - 1] = w
      BY <1>2, <1>3, <2>2, <3>1, SMTT(30)
    <3> QED
      BY <3>2
  <2> QED
    BY <2>1, <2>2
<1> HIDE DEF y, h, q
<1>9. Exact(y, (H \ {k}) \cup {h}, W \ {h})
  BY <1>2, <1>4, <1>5, <1>6, <1>7, <1>8 DEF Exact, q
<1> QED
  BY <1>4, <1>5, <1>9 DEF y, h, q

\* A sequence without its entry i.
LEMMA Removed ==
    ASSUME NEW S, NEW q \in Seq(S), NEW i \in 1..Len(q)
    PROVE  /\ RemoveAt(q, i) \in Seq(S) /\ Len(RemoveAt(q, i)) = Len(q) - 1
           /\ \A j \in 1..(Len(q) - 1) : RemoveAt(q, i)[j] = IF j < i THEN q[j] ELSE q[j + 1]
<1> DEFINE a == SubSeq(q, 1, i - 1)
           b == SubSeq(q, i + 1, Len(q))
<1>1. Len(q) \in Nat /\ \A j \in 1..Len(q) : q[j] \in S
  BY LenProperties, ElementOfSeq
<1>2. a \in Seq(S) /\ Len(a) = i - 1 /\ \A j \in 1..(i - 1) : a[j] = q[j]
  <2>1. \A j \in 1..(i - 1) : q[j] \in S
    BY <1>1
  <2> QED
    BY <1>1, <2>1, SubSeqProperties
<1>3. b \in Seq(S) /\ Len(b) = Len(q) - i /\ \A j \in 1..(Len(q) - i) : b[j] = q[i + j]
  <2>1. \A j \in (i + 1)..Len(q) : q[j] \in S
    BY <1>1
  <2>2. /\ b \in Seq(S) /\ Len(b) = IF i + 1 <= Len(q) THEN Len(q) - (i + 1) + 1 ELSE 0
        /\ \A j \in 1..(Len(q) - (i + 1) + 1) : b[j] = q[(i + 1) + j - 1]
    BY <1>1, <2>1, SubSeqProperties
  <2> QED
    BY <1>1, <2>2
<1> HIDE DEF a, b
<1>4. /\ a \o b \in Seq(S) /\ Len(a \o b) = Len(a) + Len(b)
      /\ \A j \in 1..(Len(a) + Len(b)) :
            (a \o b)[j] = IF j <= Len(a) THEN a[j] ELSE b[j - Len(a)]
  BY <1>2, <1>3, ConcatProperties
<1>5. RemoveAt(q, i) = a \o b
  BY DEF RemoveAt, a, b
<1>6. ASSUME NEW j \in 1..(Len(q) - 1)
      PROVE  (a \o b)[j] = IF j < i THEN q[j] ELSE q[j + 1]
  <2>1. (a \o b)[j] = IF j <= i - 1 THEN a[j] ELSE b[j - (i - 1)]
    BY <1>1, <1>2, <1>3, <1>4
  <2>2. CASE j < i
    BY <1>1, <1>2, <2>1, <2>2
  <2>3. CASE ~(j < i)
    <3>1. (a \o b)[j] = b[j - (i - 1)] /\ j - (i - 1) \in 1..(Len(q) - i)
      BY <1>1, <2>1, <2>3
    <3>2. b[j - (i - 1)] = q[i + (j - (i - 1))] /\ i + (j - (i - 1)) = j + 1
      BY <1>1, <1>3, <3>1
    <3> QED
      BY <2>3, <3>1, <3>2
  <2> QED
    BY <2>2, <2>3
<1> QED
  BY <1>1, <1>2, <1>3, <1>4, <1>5, <1>6

\* A call leaves the queue.
LEMMA ExactFilter ==
    ASSUME NEW x \in Semaphore, NEW H \in SUBSET Call, NEW W \in SUBSET Call, NEW k \in W,
           Exact(x, H, W)
    PROVE  /\ [x EXCEPT !.queue = Filtered(x.queue, k)] \in Semaphore
           /\ Exact([x EXCEPT !.queue = Filtered(x.queue, k)], H, W \ {k})
<1> DEFINE q == x.queue
           r == Filtered(q, k)
           y == [x EXCEPT !.queue = Filtered(x.queue, k)]
<1>1. /\ q \in Seq(Call) /\ x.limit \in Nat /\ x.active \in Nat /\ Len(q) \in Nat
      /\ DOMAIN q = 1..Len(q)
  BY McpAssumption, LenProperties DEF Semaphore
<1>2. \E i \in DOMAIN q : q[i] = k
  BY DEF Exact
<1>3. PICK i \in DOMAIN q : q[i] = k /\ r = RemoveAt(q, i)
  BY <1>2 DEF Filtered
<1> HIDE DEF r
<1>4. /\ r \in Seq(Call) /\ Len(r) = Len(q) - 1
      /\ \A j \in 1..(Len(q) - 1) : r[j] = IF j < i THEN q[j] ELSE q[j + 1]
  BY <1>1, <1>3, Removed
<1>5. DOMAIN r = 1..(Len(q) - 1)
  BY <1>4, LenProperties
<1>6. y \in Semaphore /\ y.queue = r /\ y.active = x.active /\ y.limit = x.limit
  BY <1>4 DEF Semaphore, r
<1>7. Cardinality(W \ {k}) = Cardinality(W) - 1
  BY CallsFinite, FS_RemoveElement
<1>8. \A a, b \in DOMAIN q : q[a] = q[b] => a = b
  BY DEF Exact
<1>9. \A a, b \in DOMAIN r : r[a] = r[b] => a = b
  <2>1. \A a \in DOMAIN r : /\ a < i => r[a] = q[a]
                            /\ ~(a < i) => r[a] = q[a + 1]
                            /\ a \in DOMAIN q /\ a + 1 \in DOMAIN q
    BY <1>1, <1>4, <1>5
  <2> QED
    BY <1>1, <1>5, <1>8, <2>1, SMTT(30)
<1>10. {r[a] : a \in DOMAIN r} = W \ {k}
  <2>1. \A a \in DOMAIN r : \E b \in DOMAIN q : b # i /\ r[a] = q[b]
    <3>1. ASSUME NEW a \in DOMAIN r PROVE \E b \in DOMAIN q : b # i /\ r[a] = q[b]
      <4>1. CASE a < i
        BY <1>1, <1>4, <1>5, <4>1
      <4>2. CASE ~(a < i)
        <5>1. a + 1 \in DOMAIN q /\ a + 1 # i /\ r[a] = q[a + 1]
          BY <1>1, <1>4, <1>5, <4>2, SMTT(30)
        <5> QED
          BY <5>1
      <4> QED
        BY <4>1, <4>2
    <3> QED
      BY <3>1
  <2>2. \A a \in DOMAIN r : r[a] \in W /\ r[a] # k
    BY <1>3, <1>8, <2>1 DEF Exact
  <2>3. ASSUME NEW w \in W, w # k PROVE \E a \in DOMAIN r : r[a] = w
    <3>1. PICK j \in DOMAIN q : q[j] = w
      BY DEF Exact
    <3>2. j # i
      BY <1>3, <2>3, <3>1
    <3>3. CASE j < i
      BY <1>1, <1>4, <1>5, <3>1, <3>3
    <3>4. CASE j > i
      <4>1. j - 1 \in DOMAIN r /\ r[j - 1] = w
        BY <1>1, <1>4, <1>5, <3>1, <3>4
      <4> QED
        BY <4>1
    <3> QED
      BY <1>1, <3>2, <3>3, <3>4
  <2> QED
    BY <2>2, <2>3
<1> HIDE DEF y, q
<1>11. Len(r) = Cardinality(W \ {k})
  BY <1>4, <1>7 DEF Exact, q
<1>12. /\ W \ {k} # {} => x.active = x.limit
       /\ x.active = Cardinality(H) /\ x.active <= x.limit
  BY DEF Exact
<1> HIDE DEF r
<1>13. Exact(y, H, W \ {k})
  <2>1. /\ y.active = Cardinality(H) /\ y.active <= y.limit
        /\ W \ {k} # {} => y.active = y.limit
        /\ Len(y.queue) = Cardinality(W \ {k})
    BY <1>6, <1>11, <1>12
  <2>2. {y.queue[c] : c \in DOMAIN y.queue} = W \ {k}
    BY <1>6, <1>10
  <2>3. \A a, b \in DOMAIN y.queue : y.queue[a] = y.queue[b] => a = b
    BY <1>6, <1>9
  <2> QED
    BY <2>1, <2>2, <2>3 DEF Exact
<1> QED
  BY <1>6, <1>13 DEF y

-----------------------------------------------------------------------------
(* The steps of the calls.                                                  *)

LEMMA CallsKept ==
    ASSUME CallsInv, UNCHANGED calls, bound' = bound,
           config' \in [enabled : BOOLEAN, default : Mode, limit : Limits]
    PROVE  CallsInv'
<1>1. sem' = sem /\ current' = current /\ call' = call
  BY DEF calls
<1>2. CallsTyped'
  BY <1>1 DEF CallsInv, CallsTyped
<1>3. \A g \in Sem : Holders(g)' = Holders(g) /\ Waiting(g)' = Waiting(g)
  BY <1>1 DEF Holders, Waiting
<1> QED
  BY <1>1, <1>2, <1>3 DEF CallsInv, SemExact

\* A step that changes one semaphore, and calls in no other.
LEMMA OneSemaphore ==
    ASSUME CallsInv, NEW g \in Sem, UNCHANGED <<config, bound>>, current' \in Sem,
           sem' \in [Sem -> Semaphore], \A h \in Sem : h # g => sem'[h] = sem[h],
           call' \in [Call -> CallRec],
           \A j \in Call : call'[j].pc # "idle" => call'[j].sem \in Sem,
           \A j \in Call :
               \/ call'[j] = call[j]
               \/ /\ call[j].pc # "idle" => call[j].sem = g
                  /\ call'[j].pc # "idle" => call'[j].sem = g,
           Exact(sem'[g], Holders(g)', Waiting(g)')
    PROVE  CallsInv'
<1>1. CallsTyped'
  BY DEF CallsInv, CallsTyped
<1>2. ASSUME NEW h \in Sem PROVE SemExact(h)'
  <2>1. CASE h = g
    BY <2>1 DEF SemExact
  <2>2. CASE h # g
    <3>1. Holders(h)' = Holders(h) /\ Waiting(h)' = Waiting(h) /\ sem'[h] = sem[h]
      BY <2>2 DEF Holders, Waiting, CallsInv, CallsTyped, CallRec
    <3>2. SemExact(h)
      BY DEF CallsInv
    <3> QED
      BY <3>1, <3>2 DEF SemExact
  <2> QED
    BY <2>1, <2>2
<1> QED
  BY <1>1, <1>2 DEF CallsInv

\* A semaphore that nobody refers to, made new.
LEMMA FreshSemaphore ==
    ASSUME CallsInv, NEW g \in Sem, FreeSem(g)
    PROVE  LET x == [limit |-> config.limit, active |-> 0, queue |-> <<>>] IN
           x \in Semaphore /\ Exact(x, Holders(g), Waiting(g))
<1> DEFINE x == [limit |-> config.limit, active |-> 0, queue |-> <<>>]
<1>1. Holders(g) = {} /\ Waiting(g) = {}
  BY DEF FreeSem, Holders, Waiting
<1>2. Cardinality({}) = 0
  BY FS_EmptySet
<1>3. x \in Semaphore /\ x.active = 0 /\ 0 <= x.limit /\ x.queue = <<>>
  <2>1. config.limit \in Limits /\ config.limit \in Nat
    BY McpAssumption DEF CallsInv, CallsTyped
  <2>2. <<>> \in Seq(Call)
    BY EmptySeq
  <2> QED
    BY <2>1, <2>2 DEF Semaphore
<1>4. DOMAIN x.queue = {} /\ Len(x.queue) = 0
  BY <1>3
<1> HIDE DEF x
<1>5. Exact(x, {}, {})
  BY <1>2, <1>3, <1>4 DEF Exact
<1> QED
  BY <1>1, <1>3, <1>5 DEF x

LEMMA CallToolInv ==
    ASSUME CallsInv, NEW k \in Call, NEW s \in Server, NEW g \in Sem, CallTool(k, s, g),
           bound' = bound
    PROVE  CallsInv'
<1>1. /\ call[k].pc = "idle" /\ Ensured(g) /\ current' = g
      /\ UNCHANGED <<config, bound>>
  BY DEF CallTool
<1> DEFINE x == IF g = current THEN sem[g]
                ELSE [limit |-> config.limit, active |-> 0, queue |-> <<>>]
           free == x.active < x.limit
           c == [pc |-> IF free THEN "granted" ELSE "queued",
                 server |-> s, sem |-> g, aborted |-> FALSE]
           y == IF free THEN [x EXCEPT !.active = x.active + 1]
                ELSE [x EXCEPT !.queue = Append(x.queue, k)]
<1>2. sem' = [sem EXCEPT ![g] = y] /\ call' = [call EXCEPT ![k] = c]
  BY DEF CallTool
<1>3. x \in Semaphore /\ Exact(x, Holders(g), Waiting(g))
  <2>1. CASE g = current
    BY <2>1 DEF CallsInv, CallsTyped, SemExact
  <2>2. CASE g # current
    <3>1. FreeSem(g)
      BY <1>1, <2>2 DEF Ensured
    <3> QED
      BY <2>2, <3>1, FreshSemaphore
  <2> QED
    BY <2>1, <2>2
<1> HIDE DEF x
<1>4. /\ Holders(g) \in SUBSET Call /\ Waiting(g) \in SUBSET Call
      /\ k \notin Holders(g) /\ k \notin Waiting(g)
  BY <1>1 DEF Holders, Waiting
<1>5. c \in CallRec /\ c.sem = g /\ (IF free THEN c.pc = "granted" ELSE c.pc = "queued")
  BY DEF CallRec
<1>6. /\ call' \in [Call -> CallRec] /\ call'[k] = c
      /\ \A j \in Call : j # k => call'[j] = call[j]
  BY <1>2, <1>5 DEF CallsInv, CallsTyped
<1>7. y \in Semaphore /\ Exact(y, Holders(g)', Waiting(g)')
  <2>1. CASE free
    <3>1. Holders(g)' = Holders(g) \cup {k} /\ Waiting(g)' = Waiting(g)
      BY <1>1, <1>5, <1>6, <2>1 DEF Holders, Waiting
    <3> QED
      BY <1>3, <1>4, <2>1, <3>1, ExactGrant
  <2>2. CASE ~free
    <3>1. Holders(g)' = Holders(g) /\ Waiting(g)' = Waiting(g) \cup {k}
      BY <1>1, <1>5, <1>6, <2>2 DEF Holders, Waiting
    <3> QED
      BY <1>3, <1>4, <2>2, <3>1, ExactQueue
  <2> QED
    BY <2>1, <2>2
<1> HIDE DEF y, c, free
<1>8. /\ sem' \in [Sem -> Semaphore] /\ sem'[g] = y
      /\ \A h \in Sem : h # g => sem'[h] = sem[h]
  BY <1>2, <1>7 DEF CallsInv, CallsTyped
<1>9. /\ \A j \in Call : call'[j].pc # "idle" => call'[j].sem \in Sem
      /\ \A j \in Call :
               \/ call'[j] = call[j]
               \/ /\ call[j].pc # "idle" => call[j].sem = g
                  /\ call'[j].pc # "idle" => call'[j].sem = g
  BY <1>1, <1>5, <1>6 DEF CallsInv, CallsTyped
<1> QED
  BY <1>1, <1>6, <1>7, <1>8, <1>9, OneSemaphore

LEMMA ReleaseInv ==
    ASSUME CallsInv, NEW k \in Call, call[k].pc \in {"granted", "running"}, Release(k),
           UNCHANGED <<config, current, bound>>
    PROVE  CallsInv'
<1>1. PICK g \in Sem : g = call[k].sem
  BY DEF CallsInv, CallsTyped
<1> DEFINE x == sem[g]
           H == Holders(g)
           W == Waiting(g)
           h == Head(x.queue)
<1>2. x \in Semaphore /\ Exact(x, H, W) /\ H \in SUBSET Call /\ W \in SUBSET Call
  BY DEF CallsInv, CallsTyped, SemExact, Holders, Waiting
<1>3. k \in H /\ H \cap W = {}
  BY <1>1 DEF Holders, Waiting
<1>4. NoCall \in CallRec /\ NoCall.pc = "idle"
  BY DEF NoCall, CallRec
<1>5. CASE x.queue = <<>>
  <2>1. /\ sem' = [sem EXCEPT ![g].active = @ - 1]
        /\ call' = [call EXCEPT ![k] = NoCall]
    BY <1>1, <1>5 DEF Release
  <2>2. /\ [x EXCEPT !.active = x.active - 1] \in Semaphore
        /\ Exact([x EXCEPT !.active = x.active - 1], H \ {k}, W)
    BY <1>2, <1>3, <1>5, ExactFree
  <2>3. /\ call' \in [Call -> CallRec] /\ call'[k] = NoCall
        /\ \A j \in Call : j # k => call'[j] = call[j]
    BY <1>4, <2>1 DEF CallsInv, CallsTyped
  <2>4. /\ sem'[g] = [x EXCEPT !.active = x.active - 1]
        /\ sem' \in [Sem -> Semaphore]
        /\ \A f \in Sem : f # g => sem'[f] = sem[f]
    BY <2>1, <2>2 DEF CallsInv, CallsTyped
  <2>5. Holders(g)' = H \ {k} /\ Waiting(g)' = W
    BY <1>3, <1>4, <2>3 DEF Holders, Waiting
  <2>6. /\ \A j \in Call : call'[j].pc # "idle" => call'[j].sem \in Sem
        /\ \A j \in Call :
               \/ call'[j] = call[j]
               \/ /\ call[j].pc # "idle" => call[j].sem = g
                  /\ call'[j].pc # "idle" => call'[j].sem = g
    BY <1>1, <1>4, <2>3 DEF CallsInv, CallsTyped
  <2>7. current' \in Sem /\ UNCHANGED <<config, bound>>
    BY DEF CallsInv, CallsTyped
  <2> HIDE DEF x, H, W
  <2> QED
    BY <2>2, <2>3, <2>4, <2>5, <2>6, <2>7, OneSemaphore
<1>6. CASE x.queue # <<>>
  <2>1. /\ sem' = [sem EXCEPT ![g].queue = Tail(x.queue)]
        /\ call' = [call EXCEPT ![k] = NoCall, ![h].pc = "granted"]
    BY <1>1, <1>6 DEF Release
  <2>2. /\ h \in W
        /\ [x EXCEPT !.queue = Tail(x.queue)] \in Semaphore
        /\ Exact([x EXCEPT !.queue = Tail(x.queue)], (H \ {k}) \cup {h}, W \ {h})
    BY <1>2, <1>3, <1>6, ExactPass
  <2>3. h \in Call /\ h # k /\ call[h].pc = "queued" /\ call[h].sem = g
    BY <1>3, <2>2 DEF Waiting
  <2> HIDE DEF h
  <2>4. /\ call'[k] = NoCall /\ call'[h] = [call[h] EXCEPT !.pc = "granted"]
        /\ \A j \in Call : j # k /\ j # h => call'[j] = call[j]
        /\ DOMAIN call' = Call
    BY <2>1, <2>3 DEF CallsInv, CallsTyped
  <2>5. call'[h] \in CallRec /\ call'[h].pc = "granted" /\ call'[h].sem = g
    BY <2>3, <2>4 DEF CallsInv, CallsTyped, CallRec
  <2>6. call' \in [Call -> CallRec]
    <3>1. \A j \in Call : call'[j] \in CallRec
      BY <1>4, <2>4, <2>5 DEF CallsInv, CallsTyped
    <3>2. call' = [j \in Call |-> call'[j]]
      BY <2>1 DEF CallsInv, CallsTyped
    <3> QED
      BY <3>1, <3>2
  <2>7. /\ sem'[g] = [x EXCEPT !.queue = Tail(x.queue)]
        /\ sem' \in [Sem -> Semaphore]
        /\ \A f \in Sem : f # g => sem'[f] = sem[f]
    BY <2>1, <2>2 DEF CallsInv, CallsTyped
  <2>8. Holders(g)' = (H \ {k}) \cup {h} /\ Waiting(g)' = W \ {h}
    BY <1>3, <1>4, <2>3, <2>4, <2>5 DEF Holders, Waiting
  <2>9. /\ \A j \in Call : call'[j].pc # "idle" => call'[j].sem \in Sem
        /\ \A j \in Call :
               \/ call'[j] = call[j]
               \/ /\ call[j].pc # "idle" => call[j].sem = g
                  /\ call'[j].pc # "idle" => call'[j].sem = g
    BY <1>1, <1>4, <2>3, <2>4, <2>5 DEF CallsInv, CallsTyped
  <2>10. current' \in Sem /\ UNCHANGED <<config, bound>>
    BY DEF CallsInv, CallsTyped
  <2> HIDE DEF x, H, W
  <2> QED
    BY <2>2, <2>6, <2>7, <2>8, <2>9, <2>10, OneSemaphore
<1> QED
  BY <1>5, <1>6

\* A call that changes without leaving its permit, or a permit's queue, behind.
LEMMA SamePermits ==
    ASSUME CallsInv, NEW k \in Call, NEW c \in CallRec,
           call[k].pc \in {"granted", "running"}, c.pc \in {"granted", "running"},
           c.sem = call[k].sem,
           call' = [call EXCEPT ![k] = c], UNCHANGED <<config, sem, current, bound>>
    PROVE  CallsInv'
<1>1. PICK g \in Sem : g = call[k].sem
  BY DEF CallsInv, CallsTyped
<1>2. /\ call' \in [Call -> CallRec] /\ call'[k] = c
      /\ \A j \in Call : j # k => call'[j] = call[j]
  BY DEF CallsInv, CallsTyped
<1>3. Holders(g)' = Holders(g) /\ Waiting(g)' = Waiting(g)
  BY <1>2 DEF Holders, Waiting
<1>4. Exact(sem'[g], Holders(g)', Waiting(g)')
  BY <1>3 DEF CallsInv, SemExact
<1>5. /\ \A j \in Call : call'[j].pc # "idle" => call'[j].sem \in Sem
      /\ \A j \in Call :
               \/ call'[j] = call[j]
               \/ /\ call[j].pc # "idle" => call[j].sem = g
                  /\ call'[j].pc # "idle" => call'[j].sem = g
  BY <1>1, <1>2 DEF CallsInv, CallsTyped
<1>6. /\ current' \in Sem /\ UNCHANGED <<config, bound>> /\ sem' \in [Sem -> Semaphore]
      /\ \A f \in Sem : f # g => sem'[f] = sem[f]
  BY DEF CallsInv, CallsTyped
<1> QED
  BY <1>2, <1>4, <1>5, <1>6, OneSemaphore

LEMMA ProceedInv ==
    ASSUME CallsInv, NEW k \in Call, Proceed(k), bound' = bound
    PROVE  CallsInv'
<1>1. CASE CallEnds(k)
  BY <1>1, ReleaseInv DEF CallEnds
<1>2. CASE Dispatch(k)
  <2>1. CASE call[k].aborted \/ conn[call[k].server] = NoConn
    BY <1>2, <2>1, ReleaseInv DEF Dispatch
  <2>2. CASE ~(call[k].aborted \/ conn[call[k].server] = NoConn)
    <3> DEFINE c == [call[k] EXCEPT !.pc = "running"]
    <3>1. call' = [call EXCEPT ![k] = c] /\ UNCHANGED <<config, sem, current, bound>>
      BY <1>2, <2>2 DEF Dispatch
    <3>2. c \in CallRec /\ c.pc = "running" /\ c.sem = call[k].sem /\ call[k].pc = "granted"
      BY <1>2 DEF Dispatch, CallsInv, CallsTyped, CallRec
    <3> HIDE DEF c
    <3> QED
      BY <3>1, <3>2, SamePermits
  <2> QED
    BY <2>1, <2>2
<1> QED
  BY <1>1, <1>2 DEF Proceed

LEMMA AbortCallInv ==
    ASSUME CallsInv, NEW k \in Call, AbortCall(k), bound' = bound
    PROVE  CallsInv'
<1>1. UNCHANGED <<config, bound, current>> /\ current' \in Sem
  BY DEF AbortCall, CallsInv, CallsTyped
<1>2. CASE call[k].pc = "queued"
  <2>1. PICK g \in Sem : g = call[k].sem
    BY <1>2 DEF CallsInv, CallsTyped
  <2> DEFINE x == sem[g]
             W == Waiting(g)
             y == [x EXCEPT !.queue = Filtered(x.queue, k)]
  <2>2. sem' = [sem EXCEPT ![g].queue = Filtered(@, k)] /\ call' = [call EXCEPT ![k] = NoCall]
    BY <1>2, <2>1 DEF AbortCall
  <2>3. /\ x \in Semaphore /\ Exact(x, Holders(g), W)
        /\ Holders(g) \in SUBSET Call /\ W \in SUBSET Call /\ k \in W
    BY <1>2, <2>1 DEF CallsInv, CallsTyped, SemExact, Holders, Waiting
  <2>4. y \in Semaphore /\ Exact(y, Holders(g), W \ {k})
    BY <2>3, ExactFilter
  <2>5. NoCall \in CallRec /\ NoCall.pc = "idle"
    BY DEF NoCall, CallRec
  <2>6. /\ call' \in [Call -> CallRec] /\ call'[k] = NoCall
        /\ \A j \in Call : j # k => call'[j] = call[j]
    BY <2>2, <2>5 DEF CallsInv, CallsTyped
  <2>7. /\ sem'[g] = y /\ sem' \in [Sem -> Semaphore]
        /\ \A f \in Sem : f # g => sem'[f] = sem[f]
    BY <2>2, <2>4 DEF CallsInv, CallsTyped
  <2>8. Holders(g)' = Holders(g) /\ Waiting(g)' = W \ {k}
    BY <1>2, <2>5, <2>6 DEF Holders, Waiting
  <2>9. /\ \A j \in Call : call'[j].pc # "idle" => call'[j].sem \in Sem
        /\ \A j \in Call :
               \/ call'[j] = call[j]
               \/ /\ call[j].pc # "idle" => call[j].sem = g
                  /\ call'[j].pc # "idle" => call'[j].sem = g
    BY <2>1, <2>5, <2>6 DEF CallsInv, CallsTyped
  <2> HIDE DEF x, W, y
  <2> QED
    BY <1>1, <2>4, <2>6, <2>7, <2>8, <2>9, OneSemaphore
<1>3. CASE call[k].pc # "queued"
  <2> DEFINE c == [call[k] EXCEPT !.aborted = TRUE]
  <2>1. /\ call' = [call EXCEPT ![k] = c] /\ UNCHANGED <<config, sem, current, bound>>
        /\ call[k].pc = "granted"
    BY <1>3 DEF AbortCall
  <2>2. c \in CallRec /\ c.pc = "granted" /\ c.sem = call[k].sem
    BY <2>1 DEF CallsInv, CallsTyped, CallRec
  <2> HIDE DEF c
  <2> QED
    BY <2>1, <2>2, SamePermits
<1> QED
  BY <1>2, <1>3

-----------------------------------------------------------------------------
(* All steps.                                                               *)

LEMMA InitInv == Init => IInv
<1> SUFFICES ASSUME Init PROVE IInv
  OBVIOUS
<1>1. config.limit \in Nat
  BY McpAssumption DEF Init
<1>2. CallsInv
  <2>1. sem \in [Sem -> Semaphore] /\ \A g \in Sem : sem[g] \in Semaphore
    <3>1. [limit |-> config.limit, active |-> 0, queue |-> <<>>] \in Semaphore
      BY EmptySeq DEF Init, Semaphore
    <3> QED
      BY <3>1 DEF Init
  <2>2. NoCall \in CallRec /\ NoCall.pc = "idle"
    BY DEF NoCall, CallRec
  <2>3. CallsTyped
    BY <2>1, <2>2, McpAssumption DEF Init, CallsTyped, Sem
  <2>4. ASSUME NEW g \in Sem PROVE SemExact(g)
    <3>1. Holders(g) = {} /\ Waiting(g) = {}
      BY <2>2 DEF Init, Holders, Waiting
    <3>2. Cardinality({}) = 0
      BY FS_EmptySet
    <3>3. sem[g].active = 0 /\ 0 <= sem[g].limit /\ sem[g].queue = <<>>
      BY <1>1 DEF Init
    <3>4. DOMAIN sem[g].queue = {} /\ Len(sem[g].queue) = 0
      BY <3>3
    <3>5. /\ sem[g].active = Cardinality({}) /\ sem[g].active <= sem[g].limit
          /\ {sem[g].queue[i] : i \in DOMAIN sem[g].queue} = {}
      BY <3>2, <3>3, <3>4
    <3> QED
      BY <3>1, <3>2, <3>4, <3>5 DEF SemExact, Exact
  <2> QED
    BY <2>3, <2>4 DEF CallsInv
<1>3. ClientsInv
  <2>1. AdminTyped
    <3>1. \A o \in Op : OpTyped(o)
      BY NoOpType DEF Init, OpTyped
    <3> QED
      BY <3>1 DEF Init, AdminTyped, Status
  <2>2. \A s \in Server : conn[s] = NoConn /\ tools[s] = NoConn
    BY DEF Init
  <2>3. \A o \in Op : op[o] = NoOp
    BY DEF Init
  <2>4. \A s \in Server, c \in Client : ~Uses(s, c) /\ ~Refers(s, c)
    BY <2>2, <2>3, NoOpType, Constants DEF Init, Uses, Refers
  <2> QED
    BY <2>1, <2>2, <2>3, <2>4, NoOpType
    DEF ClientsInv, OneServer, MapsOpen, OwnClient, Private, ConnectedHasTools
<1>4. ASSUME NEW s \in Server PROVE ServerSound(s)
  <2>1. \A o \in Op : ~On(o, s)
    BY NoOpType DEF Init, On
  <2>2. Agrees(s)
    BY DEF Init, Agrees
  <2> QED
    BY <2>1, <2>2 DEF ServerSound
<1> QED
  BY <1>2, <1>3, <1>4 DEF IInv, AdminInv

LEMMA NextInv == IInv /\ [Next]_vars => IInv'
<1> SUFFICES ASSUME IInv, [Next]_vars PROVE IInv'
  OBVIOUS
<1>1. CallsInv /\ AdminInv /\ config \in [enabled : BOOLEAN, default : Mode, limit : Limits]
  BY DEF IInv, CallsInv, CallsTyped
<1>2. CASE UNCHANGED vars
  BY <1>1, <1>2, CallsKept, AdminKept DEF IInv, vars
<1>3. ASSUME NEW o \in Op, NEW s \in Server, UNCHANGED <<bound, pending>>,
             \/ ConnectServer(o, s) \/ DisconnectServer(o, s) \/ DeleteServer(o, s)
             \/ RefreshStarts(o, s)
      PROVE  IInv'
  <2>1. AdminInv'
    BY <1>1, <1>3, ConnectInv, EndingInv, RefreshStartsInv
  <2>2. UNCHANGED <<config, calls>>
    BY <1>3 DEF ConnectServer, DisconnectServer, DeleteServer, RefreshStarts
  <2> QED
    BY <1>1, <1>3, <2>1, <2>2, CallsKept DEF IInv
<1>4. ASSUME NEW o \in Op, NEW s \in Server, NEW r \in Rows(bound.modes), UNCHANGED <<bound, pending>>,
             AddServer(o, s, r) \/ UpdateServer(o, s, r)
      PROVE  IInv'
  <2>1. AdminInv'
    BY <1>1, <1>4, AddInv, UpdateInv
  <2>2. UNCHANGED <<config, calls>>
    BY <1>4 DEF AddServer, UpdateServer
  <2> QED
    BY <1>1, <1>4, <2>1, <2>2, CallsKept DEF IInv
<1>5. ASSUME NEW o \in Op, Resume(o), UNCHANGED <<bound, pending>> PROVE IInv'
  <2>1. AdminInv'
    BY <1>1, <1>5, CloseEndsInv, RedialInv, DialOpensInv, ConnectEndsInv, ConnectFailsInv,
       RefreshEndsInv DEF Resume
  <2>2. UNCHANGED <<config, calls>>
    BY <1>5
    DEF Resume, CloseEnds, Redial, DialOpens, ConnectEnds, ConnectFails, RefreshEnds
  <2> QED
    BY <1>1, <1>5, <2>1, <2>2, CallsKept DEF IInv
<1>6. ASSUME DisableMcp \/ EnableMcp \/ (\E l \in Limits : SetLimit(l)), UNCHANGED <<bound, pending>>
      PROVE  IInv'
  <2>1. AdminInv'
    BY <1>1, <1>6, DisableInv, SettingsInv
  <2>2. UNCHANGED calls /\ config' \in [enabled : BOOLEAN, default : Mode, limit : Limits]
    BY <1>1, <1>6 DEF DisableMcp, EnableMcp, SetLimit
  <2> QED
    BY <1>1, <1>6, <2>1, <2>2, CallsKept DEF IInv
<1>7. ASSUME (\E d \in Mode : SetDefaultMode(d)) \/ RefreshToolPolicies, bound' = bound
      PROVE  IInv'
  <2>1. AdminInv'
    BY <1>1, <1>7, DefaultModeInv, RefreshPoliciesInv
  <2>2. UNCHANGED calls /\ config' \in [enabled : BOOLEAN, default : Mode, limit : Limits]
    BY <1>1, <1>7 DEF SetDefaultMode, RefreshToolPolicies
  <2> QED
    BY <1>1, <1>7, <2>1, <2>2, CallsKept DEF IInv
<1>8. ASSUME NEW c \in Client, ServerLost(c), UNCHANGED <<bound, pending>> PROVE IInv'
  <2>1. AdminInv'
    BY <1>1, <1>8, LostInv
  <2>2. UNCHANGED <<config, calls>>
    BY <1>8 DEF ServerLost
  <2> QED
    BY <1>1, <1>8, <2>1, <2>2, CallsKept DEF IInv
<1>9. ASSUME NEW k \in Call, UNCHANGED <<bound, pending>>,
             \/ \E s \in Server, g \in Sem : CallTool(k, s, g)
             \/ Proceed(k) \/ AbortCall(k)
      PROVE  IInv'
  <2>1. CallsInv'
    BY <1>1, <1>9, CallToolInv, ProceedInv, AbortCallInv
  <2>2. UNCHANGED <<config, admin>>
    BY <1>9 DEF CallTool, Proceed, Dispatch, CallEnds, AbortCall
  <2> QED
    BY <1>1, <1>9, <2>1, <2>2, AdminKept DEF IInv
<1> QED
  BY <1>2, <1>3, <1>4, <1>5, <1>6, <1>7, <1>8, <1>9 DEF Next, Step

\* What is true between any two steps of the manager, whatever the servers, the
\* limits and the bounds: the calls fit the semaphores, the clients fit the maps
\* and the operations.
THEOREM Invariance == Spec => []IInv
<1> QED
  BY InitInv, NextInv, PTL DEF Spec

\* Every variable of the manager keeps its type.
THEOREM TypeCorrect == Spec => []TypeOK
<1>1. IInv => TypeOK
  BY DEF IInv, CallsInv, CallsTyped, CallRec, Semaphore, AdminInv, ClientsInv, AdminTyped,
         Status, TypeOK
<1> QED
  BY <1>1, Invariance, PTL

\* acquire and release (manager.ts) neither lose nor invent a permit, whatever
\* is aborted and however often ensureSemaphore replaces the semaphore: each
\* counts the calls that hold it, within its limit, queues every waiting call
\* once, and lets none wait while a permit is free.
THEOREM PermitsAreExact == Spec => []PermitsExact
<1>1. IInv => PermitsExact
  BY DEF IInv, CallsInv, SemExact, Exact, Holders, Waiting, PermitsExact
<1> QED
  BY <1>1, Invariance, PTL

\* Whatever operations interleave on a server, the tools agents see of it are of
\* a client the manager has not closed, and a connection has its tools.
THEOREM ToolsStayOpen == Spec => []ToolsFromOpenClient
<1>1. ASSUME IInv PROVE ToolsFromOpenClient
  <2>1. AdminTyped /\ MapsOpen /\ ConnectedHasTools
    BY <1>1 DEF IInv, AdminInv, ClientsInv
  <2>2. ASSUME NEW s \in Server, tools[s] # NoConn PROVE client[tools[s].client] # "closed"
    <3>1. tools[s].client \in Client
      BY <2>1, <2>2, ServerTypes
    <3>2. client[tools[s].client] \in {"open", "lost"}
      BY <2>1, <2>2, <3>1 DEF MapsOpen, Refers
    <3> QED
      BY <3>2
  <2> QED
    BY <2>1, <2>2 DEF ToolsFromOpenClient, ConnectedHasTools
<1> QED
  BY <1>1, Invariance, PTL

\* A server that was only ever operated on one operation at a time is connected
\* when nothing is suspended only while mcp and its row are enabled, with the
\* tools of its client under the approval mode the row and the config give now;
\* only the default mode may lag behind, until a config:set that changed it has
\* called refreshToolPolicies.
THEOREM DecisionsKept == Spec => []SequentialUseAgrees
<1>1. ASSUME IInv, NEW s \in Server, ~overlap[s], ~Suspended(s)
      PROVE  /\ conn[s] # NoConn =>
                /\ config.enabled /\ Enabled(s)
                /\ tools[s].client = conn[s].client
                /\ row[s].mode # "default" => tools[s].mode = row[s].mode
                /\ row[s].mode = "default" /\ ~pending => tools[s].mode = config.default
             /\ conn[s] = NoConn => tools[s] = NoConn
             /\ event[s] = "connected" <=> conn[s] # NoConn
  <2>1. Agrees(s)
    BY <1>1 DEF IInv, AdminInv, ServerSound
  <2>2. ASSUME conn[s] # NoConn
        PROVE  /\ tools[s].client = conn[s].client
               /\ row[s].mode # "default" => tools[s].mode = row[s].mode
               /\ row[s].mode = "default" /\ ~pending => tools[s].mode = config.default
    <3>1. PICK d \in Policies : tools[s] = Registered(conn[s].client, conn[s].mode, d)
      BY <2>1, <2>2 DEF Agrees
    <3>2. conn[s].mode = row[s].mode /\ (~pending => d = config.default)
      BY <2>1, <2>2, <3>1 DEF Agrees, Policies
    <3> QED
      BY <3>1, <3>2 DEF Registered, ApprovalMode
  <2> QED
    BY <2>1, <2>2 DEF Agrees
<1>2. IInv => SequentialUseAgrees
  BY <1>1 DEF SequentialUseAgrees
<1> QED
  BY <1>2, Invariance, PTL

=============================================================================
