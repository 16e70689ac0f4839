--------------------------- MODULE DaemonLifecycle ---------------------------
(* The daemon that the desktop embeds: started, stopped, restarted and moved
   to another binding by the user, by the settings and by the end of the app.

   A start is a flow of awaited probes; several can be in flight, for a stop
   forgets the promise of a start and leaves its flow alone.  An action runs
   from one await of a flow to the next.  A server binds its port, and its
   ready promise settles, within the step that creates it: the hosts on offer
   are addresses, so listen looks nothing up. *)
EXTENDS Naturals, Sequences

CONSTANTS
    Host,        \* hosts of a binding, all of them probed at the loopback
    Port,        \* ports of a binding
    MaxFlows,    \* bound: starts
    None         \* no daemon, no promise, no port

VARIABLES
    config,       \* the binding in the settings
    envPort,      \* process.env.IKI_DAEMON_PORT
    daemon,       \* embeddedDaemon and embeddedBinding: its binding, or None
    servers,      \* the bindings on which servers of this process listen
    foreign,      \* the ports on which other processes run a daemon
    flow,         \* the flows of startDesktopDaemon, in the order of their start
    startPromise, \* the flow that startPromise stands for, or None
    overlapped    \* history: two flows were in flight at once

dvars == <<config, envPort, daemon, servers, foreign, flow, startPromise, overlapped>>

Binding == [host : Host, port : Port]
Phase == {"probingOwn", "probing", "waiting", "ended"}
InFlight(f) == f \in DOMAIN flow /\ flow[f].phase # "ended"

TypeOK ==
    /\ config \in Binding
    /\ envPort \in Port \cup {None}
    /\ daemon \in Binding \cup {None}
    /\ servers \subseteq Binding
    /\ foreign \subseteq Port
    /\ flow \in Seq([binding : Binding, phase : Phase])
    /\ Len(flow) <= MaxFlows
    /\ startPromise \in 1..MaxFlows \cup {None}
    /\ overlapped \in BOOLEAN

Init ==
    /\ config \in Binding
    /\ envPort = None
    /\ daemon = None
    /\ servers = {}
    /\ foreign \in SUBSET Port
    /\ flow = <<>>
    /\ startPromise = None
    /\ overlapped = FALSE

-----------------------------------------------------------------------------
(* Mutated forms of definitions below, each a plausible bug.               *)

NothingReused == FALSE

-----------------------------------------------------------------------------
(* resolveDaemonBinding: the port in the environment, which the start of a
   server sets, wins over the settings.                                    *)
Resolved(b) == [b EXCEPT !.port = IF envPort # None THEN envPort ELSE @]

\* A server that dies by itself stays embeddedDaemon.
StillListening == servers \ {daemon}

StopEmbedded == daemon' = None /\ servers' = StillListening

PortTaken(p) == p \in foreign \/ \E s \in servers : s.port = p

\* A daemon answers a probe in time; a probe without an answer is always
\* possible, for it may time out.
Answers(p) == PortTaken(p)

\* The `finally` of a flow, whichever flow the promise stands for.
PromiseCleared(f) == None

EndFlow(f) ==
    /\ flow' = [flow EXCEPT ![f].phase = "ended"]
    /\ startPromise' = PromiseCleared(f)

-----------------------------------------------------------------------------
(* The operations.                                                         *)

\* startDesktopDaemon up to its first await, called with settings b and with d
\* for the embedded daemon.
Begin(b, d) ==
    LET own == d # None /\ d = Resolved(b)
    IN /\ Len(flow) < MaxFlows
       /\ daemon' = IF own THEN d ELSE None
       /\ servers' = IF own THEN servers ELSE StillListening
       /\ flow' = Append(flow, [binding |-> Resolved(b),
                                phase |-> IF own THEN "probingOwn" ELSE "probing"])
       /\ startPromise' = Len(flow) + 1
       /\ overlapped' = (overlapped \/ \E f \in DOMAIN flow : InFlight(f))

\* A start joins the promise of one that it finds.
Start ==
    /\ startPromise = None
    /\ Begin(config, daemon)
    /\ UNCHANGED <<config, envPort, foreign>>

\* stopDesktopDaemon, by the user or by the end of the app.
Stop ==
    /\ StopEmbedded
    /\ startPromise' = None
    /\ UNCHANGED <<config, envPort, foreign, flow, overlapped>>

\* restartDesktopDaemon: stop, then start.
Restart ==
    /\ Begin(config, None)
    /\ UNCHANGED <<config, envPort, foreign>>

BindingChanged(b) == b # config

\* config:set stores the settings and calls applyDesktopDaemonConfigUpdate.
Update(b) ==
    /\ config' = b
    /\ IF BindingChanged(b)
       THEN Begin(b, None)
       ELSE UNCHANGED <<daemon, servers, flow, startPromise, overlapped>>
    /\ UNCHANGED <<envPort, foreign>>

-----------------------------------------------------------------------------
(* The flow of a start.                                                    *)

At(f, phase) == f \in DOMAIN flow /\ flow[f].phase = phase

OwnHealthy(f) ==
    /\ At(f, "probingOwn")
    /\ Answers(flow[f].binding.port)
    /\ EndFlow(f)
    /\ UNCHANGED <<config, envPort, daemon, servers, foreign, overlapped>>

\* The embedded daemon is stopped, whichever it is by now.
OwnUnhealthy(f) ==
    /\ At(f, "probingOwn")
    /\ StopEmbedded
    /\ flow' = [flow EXCEPT ![f].phase = "probing"]
    /\ UNCHANGED <<config, envPort, foreign, startPromise, overlapped>>

\* Some daemon has the port: the flow leaves it alone, on whatever host it is.
FoundRunning(f) ==
    /\ At(f, "probing")
    /\ Answers(flow[f].binding.port)
    /\ EndFlow(f)
    /\ UNCHANGED <<config, envPort, daemon, servers, foreign, overlapped>>

\* startEmbeddedDaemon hands out the daemon there is, on its own binding.
Reusable == daemon # None

Reuse(f) ==
    /\ At(f, "probing")
    /\ Reusable
    /\ flow' = [flow EXCEPT ![f] = [binding |-> daemon, phase |-> "waiting"]]
    /\ UNCHANGED <<config, envPort, daemon, servers, foreign, startPromise, overlapped>>

Launch(f) ==
    /\ At(f, "probing")
    /\ ~Reusable
    /\ ~PortTaken(flow[f].binding.port)
    /\ daemon' = flow[f].binding
    /\ servers' = servers \cup {flow[f].binding}
    /\ envPort' = flow[f].binding.port
    /\ flow' = [flow EXCEPT ![f].phase = "waiting"]
    /\ UNCHANGED <<config, foreign, startPromise, overlapped>>

\* The server throws or cannot bind: it is stopped again.
LaunchFails(f) ==
    /\ At(f, "probing")
    /\ ~Reusable
    /\ envPort' = flow[f].binding.port
    /\ EndFlow(f)
    /\ UNCHANGED <<config, daemon, servers, foreign, overlapped>>

Healthy(f) ==
    /\ At(f, "waiting")
    /\ Answers(flow[f].binding.port)
    /\ EndFlow(f)
    /\ UNCHANGED <<config, envPort, daemon, servers, foreign, overlapped>>

NotHealthyInTime(f) ==
    /\ At(f, "waiting")
    /\ StopEmbedded
    /\ EndFlow(f)
    /\ UNCHANGED <<config, envPort, foreign, overlapped>>

-----------------------------------------------------------------------------
(* The environment.                                                        *)

\* The server meets an error at run time and shuts down.
ServerDies(s) ==
    /\ s \in servers
    /\ servers' = servers \ {s}
    /\ UNCHANGED <<config, envPort, daemon, foreign, flow, startPromise, overlapped>>

ForeignEnds(p) ==
    /\ p \in foreign
    /\ foreign' = foreign \ {p}
    /\ UNCHANGED <<config, envPort, daemon, servers, flow, startPromise, overlapped>>

Next ==
    \/ Start \/ Stop \/ Restart
    \/ \E b \in Binding : Update(b)
    \/ \E f \in 1..MaxFlows :
          \/ OwnHealthy(f) \/ OwnUnhealthy(f) \/ FoundRunning(f)
          \/ Reuse(f) \/ Launch(f) \/ LaunchFails(f)
          \/ Healthy(f) \/ NotHealthyInTime(f)
    \/ \E s \in servers : ServerDies(s)
    \/ \E p \in foreign : ForeignEnds(p)

Spec == Init /\ [][Next]_dvars

-----------------------------------------------------------------------------
(* Properties.                                                             *)

\* Stop reaches every server of this process and start is never swallowed by
\* the promise of a flow that is over, whichever flows of older starts go on
\* beside newer ones.
ServersReached == servers \subseteq {daemon}
StartsAccepted == startPromise # None => InFlight(startPromise)
DaemonControllable == ServersReached /\ StartsAccepted

\* When starts do not overlap, the daemon that runs once they are over is on
\* the host of the settings, through any changes of the settings.
Settled == \A f \in DOMAIN flow : ~InFlight(f)
HostFollowsSettings ==
    Settled /\ ~overlapped /\ daemon # None => daemon.host = config.host

\* And on the port of the settings ("Changing daemon host/port will restart the
\* desktop-managed daemon after saving settings.").  The code does not keep it.
PortFollowsSettings ==
    Settled /\ ~overlapped /\ daemon # None => daemon.port = config.port
=============================================================================
