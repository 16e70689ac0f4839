----------------------------- MODULE McpManager -----------------------------
(***************************************************************************)
(* The connections, the registered tools and the calls of the MCP manager  *)
(* (src/packages/backend/src/mcp/manager.ts).  One manager serves a        *)
(* process: the desktop shell and the daemon embedded in it both start it. *)
(*                                                                         *)
(* An operation on a server suspends while its client connects, lists its  *)
(* tools or closes, and nothing serialises two operations on one server.   *)
(* Calls pass through a semaphore that a change of its limit replaces.     *)
(***************************************************************************)
EXTENDS Naturals, Sequences, FiniteSets, SequencesExt

CONSTANTS Server,     \* ids of rows of mcp_servers
          MaxClients, \* bound: ids of clients
          Instances,  \* bounds: operations suspended, calls in progress and
                      \* clients at a time, values of approval_mode
          MaxSems,    \* bound: semaphores in use at a time
          Limits,     \* values of mcp.maxConcurrentRequests
          Absent,     \* the row was not added yet
          Deleted,    \* the row was deleted
          NoConn,     \* no connection of the server, or no tools registered
          NoServer    \* the server of an idle slot

Mode     == {"always", "never"}       \* what registerServerTools decides
Rows(modes) == [enabled : BOOLEAN, mode : modes]
Client   == 1..MaxClients
Op       == 1..2
Call     == 1..3
Sem      == 1..MaxSems

ASSUME McpAssumption ==
    /\ IsFiniteSet(Server) /\ NoServer \notin Server
    /\ {MaxClients, MaxSems} \subseteq Nat \ {0}
    /\ Instances \subseteq [ops : {1, 2}, calls : 0..3, clients : 1..MaxClients,
                         modes : SUBSET (Mode \cup {"default"})]
    /\ Limits \subseteq Nat \ {0} /\ Limits # {}
    /\ {Absent, Deleted} \cap Rows(Mode \cup {"default"}) = {}
    /\ NoConn \notin [client : Client, mode : Mode \cup {"default"}]

VARIABLES
    config,   \* mcp section of the app config
    pending,  \* a change of defaultApprovalMode whose update of the manager still
              \* awaits something else
    row,      \* rows of mcp_servers
    conn,     \* connections: the client and the approval_mode of the row it
              \* was opened from
    tools,    \* what is registered for the server, in registry and toolIndex
    event,    \* the last status-changed event of the server
    client,   \* the SDK clients
    op,       \* suspended operations of the manager, with the row each read
    sem,      \* semaphores: limit, permits taken, queue of calls
    current,  \* this.semaphore
    call,     \* calls in callTool
    bound,    \* the element of Instances this behaviour keeps to
    overlap   \* history: two operations on the server were suspended at once

admin == <<row, conn, tools, event, client, op, overlap>>
calls == <<sem, current, call>>
vars  == <<bound, config, pending, admin, calls>>

NoOp   == [pc |-> "idle", server |-> NoServer, client |-> 0,
           mode |-> "default", then |-> "end"]
NoCall == [pc |-> "idle", server |-> NoServer, sem |-> 0,
           aborted |-> FALSE]

Live(s)    == row[s] \notin {Absent, Deleted}
Enabled(s) == Live(s) /\ row[s].enabled

\* A client nothing refers to any more, whose id may stand for a new one.
FreeClient(c) ==
    /\ c <= bound.clients /\ client[c] \in {"closed", "lost"}
    /\ \A s \in Server : /\ conn[s] # NoConn => conn[s].client # c
                         /\ tools[s] # NoConn => tools[s].client # c
    /\ \A o \in Op : op[o].client # c

-----------------------------------------------------------------------------
(* Building blocks of the operations. *)

\* resolveApprovalMode
ApprovalMode(m, default) == IF m = "default" THEN default ELSE m

\* Mutant: the mode of the row is taken as it stands.
UnresolvedMode(c, m, default) == [client |-> c, mode |-> m]

\* registerServerTools with the row the connection was opened from
Registered(c, m, default) == [client |-> c, mode |-> ApprovalMode(m, default)]

Suspended(s) == \E o \in Op : op[o].pc # "idle" /\ op[o].server = s

\* Operation o is suspended; the history notes whether it is alone.
Suspend(o, rec) ==
    /\ op' = [op EXCEPT ![o] = rec]
    /\ overlap' = [overlap EXCEPT ![rec.server] =
                      @ \/ \E p \in Op \ {o} : op[p].pc # "idle" /\ op[p].server = rec.server]

Return(o) == op' = [op EXCEPT ![o] = NoOp] /\ UNCHANGED overlap

\* The lowest idle slot takes the next operation.
Idle(o) == o <= bound.ops /\ op[o].pc = "idle" /\ \A p \in Op : p < o => op[p].pc # "idle"

\* connectServer from the status "connecting" to the await of client.connect,
\* with the row read when the operation began.
Dial(o, s, m) ==
    \E c \in Client :
        /\ FreeClient(c) /\ \A d \in Client : d < c => ~FreeClient(d)
        /\ client' = [client EXCEPT ![c] = "opening"]
        /\ Suspend(o, [pc |-> "dialing", server |-> s, client |-> c,
                       mode |-> m, then |-> "end"])
        /\ event' = [event EXCEPT ![s] = "connecting"]
        /\ UNCHANGED <<conn, tools>>

\* disconnectServer up to the await of client.close; without a connection it
\* resets the tools and returns.
Disconnect(o, s, m, then) ==
    IF conn[s] = NoConn
    THEN /\ tools' = [tools EXCEPT ![s] = NoConn]
         /\ overlap' = [overlap EXCEPT ![s] = @ \/ Suspended(s)]
         /\ UNCHANGED <<conn, event, client, op>>
    ELSE /\ Suspend(o, [pc |-> "closing", server |-> s, client |-> conn[s].client,
                        mode |-> m, then |-> then])
         /\ UNCHANGED <<conn, tools, event, client>>

-----------------------------------------------------------------------------
(* Operations of the manager. *)

\* connectServer without force: the IPC and HTTP handlers, and each server of
\* initialize, which the shell and the embedded daemon both call.  A server
\* with a connection is left as it is.
ConnectServer(o, s) ==
    /\ Idle(o) /\ config.enabled /\ Enabled(s) /\ conn[s] = NoConn
    /\ Dial(o, s, row[s].mode)
    /\ UNCHANGED <<config, row, calls>>

\* addServer
AddServer(o, s, r) ==
    /\ Idle(o) /\ row[s] = Absent
    /\ row' = [row EXCEPT ![s] = r]
    /\ IF r.enabled /\ config.enabled
       THEN Dial(o, s, r.mode)
       ELSE UNCHANGED <<conn, tools, event, client, op, overlap>>
    /\ UNCHANGED <<config, calls>>

\* Mutant: a connected server is not connected again.
UpdateNotForced(o, s, r) ==
    /\ Idle(o) /\ Live(s)
    /\ row' = [row EXCEPT ![s] = r]
    /\ IF config.enabled /\ r.enabled
       THEN IF conn[s] = NoConn THEN Dial(o, s, r.mode)
            ELSE UNCHANGED <<conn, tools, event, client, op, overlap>>
       ELSE Disconnect(o, s, "default", "end")
    /\ UNCHANGED <<config, calls>>

\* updateServer: the row is written, then the connection is made again or ended.
UpdateServer(o, s, r) ==
    /\ Idle(o) /\ Live(s)
    /\ row' = [row EXCEPT ![s] = r]
    /\ IF config.enabled /\ r.enabled
       THEN IF conn[s] = NoConn THEN Dial(o, s, r.mode) ELSE Disconnect(o, s, r.mode, "dial")
       ELSE Disconnect(o, s, "default", "end")
    /\ UNCHANGED <<config, calls>>

\* disconnectServer
DisconnectServer(o, s) ==
    /\ Idle(o) /\ Live(s)
    /\ Disconnect(o, s, "default", "end")
    /\ UNCHANGED <<config, row, calls>>

\* deleteServer
DeleteServer(o, s) ==
    /\ Idle(o) /\ Live(s)
    /\ Disconnect(o, s, "default", "drop")
    /\ row' = IF conn[s] = NoConn THEN [row EXCEPT ![s] = Deleted] ELSE row
    /\ UNCHANGED <<config, calls>>

\* Mutant: the tools are reset only when a connection is made again.
CloseKeepsTools(o) ==
    /\ op[o].pc = "closing"
    /\ LET s == op[o].server IN
        /\ client' = [client EXCEPT ![op[o].client] = "closed"]
        /\ conn'   = [conn EXCEPT ![s] = NoConn]
        /\ event'  = [event EXCEPT ![s] = "disconnected"]
        /\ row'    = IF op[o].then = "drop" THEN [row EXCEPT ![s] = Deleted] ELSE row
    /\ IF op[o].then = "dial"
       THEN op' = [op EXCEPT ![o].pc = "closed", ![o].client = 0] /\ UNCHANGED overlap
       ELSE Return(o)
    /\ UNCHANGED <<config, tools, calls>>

\* The client is closed (or was lost): whatever connection the server has by
\* now is deleted with its tools.
CloseEnds(o) ==
    /\ op[o].pc = "closing"
    /\ LET s == op[o].server IN
        /\ client' = [client EXCEPT ![op[o].client] = "closed"]
        /\ conn'   = [conn EXCEPT ![s] = NoConn]
        /\ tools'  = [tools EXCEPT ![s] = NoConn]
        /\ event'  = [event EXCEPT ![s] = "disconnected"]
        /\ row'    = IF op[o].then = "drop" THEN [row EXCEPT ![s] = Deleted] ELSE row
    /\ IF op[o].then = "dial"
       THEN /\ op' = [op EXCEPT ![o].pc = "closed", ![o].client = 0]
            /\ UNCHANGED overlap
       ELSE Return(o)
    /\ UNCHANGED <<config, calls>>

\* A forced connectServer goes on after its disconnect.
Redial(o) ==
    /\ op[o].pc = "closed"
    /\ Dial(o, op[o].server, op[o].mode)
    /\ UNCHANGED <<config, row, calls>>

\* client.connect resolves and connectInternal lists the tools.
DialOpens(o) ==
    /\ op[o].pc = "dialing"
    /\ client' = [client EXCEPT ![op[o].client] = "open"]
    /\ op' = [op EXCEPT ![o].pc = "listing"]
    /\ UNCHANGED <<config, row, conn, tools, event, overlap, calls>>

\* The connection is entered, its tools are registered.
ConnectEnds(o) ==
    /\ op[o].pc = "listing" /\ client[op[o].client] = "open"
    /\ LET s == op[o].server IN
        /\ conn'  = [conn EXCEPT ![s] = [client |-> op[o].client, mode |-> op[o].mode]]
        /\ tools' = [tools EXCEPT ![s] = Registered(op[o].client, op[o].mode, config.default)]
        /\ event' = [event EXCEPT ![s] = "connected"]
    /\ Return(o)
    /\ UNCHANGED <<config, row, client, calls>>

\* Connecting or listing fails; a client that did connect is not closed.
ConnectFails(o) ==
    /\ op[o].pc \in {"dialing", "listing"}
    /\ client' = IF op[o].pc = "dialing"
                 THEN [client EXCEPT ![op[o].client] = "closed"] ELSE client
    /\ event' = [event EXCEPT ![op[o].server] = "error"]
    /\ Return(o)
    /\ UNCHANGED <<config, row, conn, tools, calls>>

\* refreshTools: asked for, or a list_changed notification of any open client
\* of the server.
RefreshStarts(o, s) ==
    /\ Idle(o) /\ conn[s] # NoConn
    /\ Suspend(o, [pc |-> "refreshing", server |-> s, client |-> conn[s].client,
                   mode |-> conn[s].mode, then |-> "end"])
    /\ UNCHANGED <<config, row, conn, tools, event, client, calls>>

\* The list arrives, or the request fails: a closed client rejects it.
RefreshEnds(o) ==
    /\ op[o].pc = "refreshing"
    /\ \/ /\ client[op[o].client] = "open"
          /\ LET s == op[o].server IN
              /\ tools' = [tools EXCEPT ![s] = Registered(op[o].client, op[o].mode, config.default)]
              /\ event' = [event EXCEPT ![s] = "connected"]
       \/ UNCHANGED <<tools, event>>
    /\ Return(o)
    /\ UNCHANGED <<config, row, conn, client, calls>>

-----------------------------------------------------------------------------
(* The config, and servers that go away. *)

\* handleMcpConfigUpdate when mcp is switched off: disconnectAll.
DisableMcp ==
    /\ config.enabled
    /\ config' = [config EXCEPT !.enabled = FALSE]
    /\ LET open == {s \in Server : Live(s) /\ conn[s] # NoConn} IN
        \E f \in [open -> {o \in 1..bound.ops : op[o].pc = "idle"}] :
            /\ \A s, t \in open : f[s] = f[t] => s = t
            /\ op' = [o \in Op |->
                        IF \E s \in open : f[s] = o
                        THEN LET s == CHOOSE s \in open : f[s] = o IN
                             [pc |-> "closing", server |-> s, client |-> conn[s].client,
                              mode |-> "default", then |-> "end"]
                        ELSE op[o]]
            /\ overlap' = [s \in Server |-> overlap[s] \/ (Live(s) /\ Suspended(s))]
    /\ tools' = [s \in Server |-> IF Live(s) /\ conn[s] = NoConn THEN NoConn ELSE tools[s]]
    /\ UNCHANGED <<row, conn, event, client, calls>>

\* handleMcpConfigUpdate when mcp is switched on: initialize, that is
\* ConnectServer for every enabled row.
EnableMcp ==
    /\ ~config.enabled
    /\ config' = [config EXCEPT !.enabled = TRUE]
    /\ UNCHANGED <<admin, calls>>

\* refreshToolPolicies: the tools of every connection are registered again.
Reregistered(default) ==
    [s \in Server |-> IF conn[s] # NoConn
                      THEN Registered(conn[s].client, conn[s].mode, default) ELSE tools[s]]

\* A change of defaultApprovalMode, which the manager learns of only while mcp is
\* on: at once, or, if the same config:set also connects all servers or
\* disconnects the remote ones, when that is over.
SetDefaultMode(d) ==
    /\ d # config.default /\ Cardinality(bound.modes) > 1
    /\ config' = [config EXCEPT !.default = d]
    /\ \/ /\ tools' = IF config.enabled THEN Reregistered(d) ELSE tools
          /\ UNCHANGED pending
       \/ /\ config.enabled
          /\ pending' = TRUE
          /\ UNCHANGED tools
    /\ UNCHANGED <<row, conn, event, client, op, overlap, calls>>

\* What was awaited is over.  The policies are those that the config gives now:
\* of several changes that wait, the first to go on does the work of all.
RefreshToolPolicies ==
    /\ pending
    /\ pending' = FALSE
    /\ tools' = Reregistered(config.default)
    /\ UNCHANGED <<config, row, conn, event, client, op, overlap, calls>>

\* A change of maxConcurrentRequests: the next call sees it.
SetLimit(l) ==
    /\ bound.calls > 0 /\ l # config.limit
    /\ config' = [config EXCEPT !.limit = l]
    /\ UNCHANGED <<admin, calls>>

\* A server process ends or its connection breaks: nobody tells the manager.
ServerLost(c) ==
    /\ client[c] = "open"
    /\ client' = [client EXCEPT ![c] = "lost"]
    /\ UNCHANGED <<config, row, conn, tools, event, op, overlap, calls>>

-----------------------------------------------------------------------------
(* Calls and the semaphore. *)

FreeSem(g) == g # current /\ \A k \in Call : call[k].sem # g

\* ensureSemaphore: the semaphore a call starting now acquires.  A semaphore
\* that is replaced keeps its holders and its queue.
Ensured(g) ==
    IF config.limit = sem[current].limit THEN g = current
    ELSE FreeSem(g) /\ \A h \in Sem : h < g => ~FreeSem(h)

\* callTool up to the acquisition.
CallTool(k, s, g) ==
    /\ k <= bound.calls /\ call[k].pc = "idle" /\ \A j \in Call : j < k => call[j].pc # "idle"
    /\ Ensured(g)
    /\ current' = g
    /\ LET x == IF g = current THEN sem[g]
                ELSE [limit |-> config.limit, active |-> 0, queue |-> <<>>]
           free == x.active < x.limit IN
        /\ sem' = [sem EXCEPT ![g] = IF free THEN [x EXCEPT !.active = x.active + 1]
                                             ELSE [x EXCEPT !.queue = Append(x.queue, k)]]
        /\ call' = [call EXCEPT ![k] = [pc |-> IF free THEN "granted" ELSE "queued",
                                        server |-> s, sem |-> g,
                                        aborted |-> FALSE]]
    /\ UNCHANGED <<config, admin>>

\* Mutant: the permit goes to the call that came last.
ReleaseToLast(k) ==
    LET g == call[k].sem  q == sem[g].queue IN
    IF q = <<>>
    THEN /\ sem' = [sem EXCEPT ![g].active = @ - 1]
         /\ call' = [call EXCEPT ![k] = NoCall]
    ELSE /\ sem' = [sem EXCEPT ![g].queue = SubSeq(q, 1, Len(q) - 1)]
         /\ call' = [call EXCEPT ![k] = NoCall, ![q[Len(q)]].pc = "granted"]

\* release: the permit goes to the head of the queue.  The call of k is over.
Release(k) ==
    LET g == call[k].sem  q == sem[g].queue IN
    IF q = <<>>
    THEN /\ sem' = [sem EXCEPT ![g].active = @ - 1]
         /\ call' = [call EXCEPT ![k] = NoCall]
    ELSE /\ sem' = [sem EXCEPT ![g].queue = Tail(q)]
         /\ call' = [call EXCEPT ![k] = NoCall, ![Head(q)].pc = "granted"]

\* The call goes on with its permit: it is refused when it was aborted or the
\* server has no connection, else the request is sent.
Dispatch(k) ==
    /\ call[k].pc = "granted"
    /\ IF call[k].aborted \/ conn[call[k].server] = NoConn
       THEN Release(k)
       ELSE /\ call' = [call EXCEPT ![k].pc = "running"]
            /\ UNCHANGED sem
    /\ UNCHANGED <<config, admin, current>>

\* The request ends: a result, an error, the timeout, or the abort.
CallEnds(k) ==
    /\ call[k].pc = "running"
    /\ Release(k)
    /\ UNCHANGED <<config, admin, current>>

\* Mutant: an aborted call stays in the queue.
AbortKeepsEntry(k) ==
    /\ call[k].pc \in {"queued", "granted"} /\ ~call[k].aborted
    /\ call' = IF call[k].pc = "queued" THEN [call EXCEPT ![k] = NoCall]
               ELSE [call EXCEPT ![k].aborted = TRUE]
    /\ UNCHANGED <<config, admin, sem, current>>

\* What a filter that drops k leaves of a queue, which has it once.
Filtered(q, k) == RemoveAt(q, CHOOSE i \in DOMAIN q : q[i] = k)

\* The turn is stopped: a queued call leaves the queue, one that has its
\* permit finds out later.
AbortCall(k) ==
    /\ \/ /\ call[k].pc = "queued"
          /\ sem' = [sem EXCEPT ![call[k].sem].queue = Filtered(@, k)]
          /\ call' = [call EXCEPT ![k] = NoCall]
       \/ /\ call[k].pc = "granted" /\ ~call[k].aborted
          /\ call' = [call EXCEPT ![k].aborted = TRUE]
          /\ UNCHANGED sem
    /\ UNCHANGED <<config, admin, current>>

-----------------------------------------------------------------------------
Init ==
    /\ bound \in Instances
    /\ config \in [enabled : BOOLEAN, default : Mode \cap bound.modes, limit : Limits]
    /\ pending = FALSE
    /\ row \in [Server -> {Absent} \cup Rows(bound.modes)]
    /\ conn = [s \in Server |-> NoConn]
    /\ tools = [s \in Server |-> NoConn]
    /\ event = [s \in Server |-> "none"]
    /\ client = [c \in Client |-> "closed"]
    /\ op = [o \in Op |-> NoOp]
    /\ sem = [g \in Sem |-> [limit |-> config.limit, active |-> 0, queue |-> <<>>]]
    /\ current = 1
    /\ call = [k \in Call |-> NoCall]
    /\ overlap = [s \in Server |-> FALSE]

Resume(o) ==
    \/ CloseEnds(o) \/ Redial(o) \/ DialOpens(o) \/ ConnectEnds(o)
    \/ ConnectFails(o) \/ RefreshEnds(o)

Proceed(k) == Dispatch(k) \/ CallEnds(k)

Step ==
    \/ \E o \in Op, s \in Server :
        \/ ConnectServer(o, s) \/ DisconnectServer(o, s) \/ DeleteServer(o, s)
        \/ RefreshStarts(o, s)
        \/ \E r \in Rows(bound.modes) : AddServer(o, s, r) \/ UpdateServer(o, s, r)
    \/ \E o \in Op : Resume(o)
    \/ DisableMcp \/ EnableMcp
    \/ \E l \in Limits : SetLimit(l)
    \/ \E c \in Client : ServerLost(c)
    \/ \E k \in Call :
        \/ \E s \in Server, g \in Sem : CallTool(k, s, g)
        \/ Proceed(k) \/ AbortCall(k)

Next ==
    /\ \/ Step /\ UNCHANGED pending
       \/ \E d \in Mode : SetDefaultMode(d)
       \/ RefreshToolPolicies
    /\ UNCHANGED bound

Spec == Init /\ [][Next]_vars

\* A request ends: the SDK answers, fails or times out (requestTimeoutMs).
FairSpec == Spec /\ \A k \in Call : WF_vars(Proceed(k) /\ UNCHANGED <<bound, pending>>)

-----------------------------------------------------------------------------
(* What the manager promises. *)

ToolSet == [client : Client, mode : Mode]

TypeOK ==
    /\ config \in [enabled : BOOLEAN, default : Mode, limit : Limits]
    /\ pending \in BOOLEAN
    /\ row \in [Server -> {Absent, Deleted} \cup Rows(bound.modes)]
    /\ conn \in [Server -> {NoConn} \cup [client : Client, mode : bound.modes]]
    /\ tools \in [Server -> {NoConn} \cup ToolSet]
    /\ event \in [Server -> {"none", "connecting", "connected", "disconnected", "error"}]
    /\ client \in [Client -> {"opening", "open", "closed", "lost"}]
    /\ \A g \in Sem : /\ sem[g].limit \in Limits /\ sem[g].active \in Nat
                      /\ sem[g].queue \in Seq(Call)
    /\ current \in Sem
    /\ \A k \in Call : call[k].pc \in {"idle", "queued", "granted", "running"}

\* No permit is lost or invented, whatever is aborted and however often the
\* semaphore is replaced: each counts the calls that hold it, never more than
\* its limit, and lets a call wait only while all its permits are taken.  The
\* test "removes cancelled queued calls without dispatching or leaking
\* capacity" tries one order of events.
PermitsExact ==
    \A g \in Sem :
        LET holders == {k \in Call : call[k].sem = g /\ call[k].pc \in {"granted", "running"}}
            waiting == {k \in Call : call[k].sem = g /\ call[k].pc = "queued"} IN
        /\ sem[g].active = Cardinality(holders) /\ sem[g].active <= sem[g].limit
        /\ waiting # {} => sem[g].active = sem[g].limit
        /\ {sem[g].queue[i] : i \in DOMAIN sem[g].queue} = waiting
        /\ Len(sem[g].queue) = Cardinality(waiting)

\* A tool an agent can see never comes from a client the manager has closed,
\* and a connected server always has tools registered, whatever two operations
\* on the server interleave.  They may be those of another client that is still
\* open: a refresh that began before the server was connected again.
ToolsFromOpenClient ==
    \A s \in Server :
        /\ tools[s] # NoConn => client[tools[s].client] # "closed"
        /\ conn[s] # NoConn => tools[s] # NoConn

\* Used one operation at a time, the manager keeps what the user decided: when
\* nothing is suspended on a server, a connection exists only while mcp and the
\* row are enabled, its tools come from its client under the approval mode the
\* row and the config give now, and without a connection there are no tools.
\* Only the tools of a row without a mode of its own may lag behind a change of
\* the default, until the config:set that made it has refreshed them.
SequentialUseAgrees ==
    \A s \in Server :
        ~overlap[s] /\ ~Suspended(s) =>
            /\ conn[s] # NoConn =>
                /\ config.enabled /\ Enabled(s)
                /\ tools[s].client = conn[s].client
                /\ row[s].mode # "default" => tools[s].mode = row[s].mode
                /\ row[s].mode = "default" /\ ~pending => tools[s].mode = config.default
            /\ conn[s] = NoConn => tools[s] = NoConn
            /\ event[s] = "connected" <=> conn[s] # NoConn

\* A call in a queue gets its permit or is stopped, even when the semaphore it
\* waits in was replaced: the calls that hold that one still release it.
QueuedCallProceeds ==
    \A k \in Call : call[k].pc = "queued" ~> call[k].pc # "queued"

\* The contract "Retain explicit always-approval through legacy resolution."
\* (packages/backend/README.md, MCP execution): once the operations on a server
\* are over, the tools of a row that asks for approval always are registered so.
AlwaysApprovalRetained ==
    \A s \in Server :
        ~Suspended(s) /\ Live(s) /\ tools[s] # NoConn =>
            (row[s].mode = "always" => tools[s].mode = "always")

=============================================================================
