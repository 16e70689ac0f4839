-------------------------- MODULE ComponentsProofs --------------------------
(***************************************************************************)
(* The components that share no state, proved together as they are checked *)
(* together: the tasks, the embedded daemon and the file tools, each with  *)
(* an inductive invariant of its own, beside that of the awaiters.         *)
(***************************************************************************)
EXTENDS MCComponents, AwaitersProofs

-----------------------------------------------------------------------------
(* The embedded daemon.                                                     *)

\* While starts have not overlapped, the daemon and the flow in flight are of
\* the host in the settings: a change of it ends the one and starts the other.
HostKept ==
    /\ daemon # None => daemon.host = config.host
    /\ \A f \in DOMAIN flow : Daemon!InFlight(f) => flow[f].binding.host = config.host

DaemonInv ==
    /\ Daemon!TypeOK
    /\ Daemon!DaemonControllable
    /\ ~overlapped => HostKept

-----------------------------------------------------------------------------
(* The tasks.                                                               *)

\* An id is given out once, so a row that is gone does not come back.
IdsUsedOnce ==
    /\ \A t \in Task : Tasks!Exists(t) \/ run[t] # None => t \in used
    /\ \A i \in DOMAIN listed : listed[i] \in used

\* A tick lists a task once, and awaits the run of its head.
TickWalksList ==
    /\ \A i, j \in DOMAIN listed : listed[i] = listed[j] => i = j
    /\ ticking # None => listed # <<>> /\ ticking = Head(listed)

\* A run in flight is what the next time of its row will be computed from.
RunSetsNext(t) == run[t] # None => since[t] = run[t] /\ t \notin cut

\* Without one the row has that next time, unless a crash cut the last run off.
NextFollows(t) ==
    Tasks!Exists(t) /\ run[t] = None /\ t \notin cut =>
        task[t].next_run_at \in Tasks!NextRunAts(since[t].schedule, since[t].startedAt)

\* What the tick has still to run has come due, and stays so unless its next time
\* is written.
ListedIsDue ==
    \A i \in DOMAIN listed :
        Tasks!Exists(listed[i]) /\ listed[i] \notin stale => task[listed[i]].next_run_at <= clock

TasksInv ==
    /\ Tasks!TypeOK
    /\ IdsUsedOnce /\ TickWalksList /\ ListedIsDue
    /\ \A t \in Task : RunSetsNext(t) /\ NextFollows(t)

-----------------------------------------------------------------------------
(* The file tools.                                                          *)

Runs(k) == call[k] # None

\* The chain of promises is the queue q of its calls, n of them.
Queue(n, q) ==
    /\ \A k \in Files!Call : Runs(k) <=> \E i \in 1..n : q[i] = k
    /\ \A i, j \in 1..n : q[i] = q[j] => i = j
    /\ \A i \in 1..n : call[q[i]].prev = IF i = 1 THEN None ELSE q[i - 1]
    /\ last = IF n = 0 THEN None ELSE q[n]

LockIsQueue == \E n \in Nat : \E q \in [1..n -> Files!Call] : Queue(n, q)

\* A handler is under way only with the lock.
InHand(k) == Runs(k) /\ call[k].phase # "waiting"
HoldsLock == \A k \in Files!Call : InHand(k) => Files!Granted(k)

\* The entries of a stack are edits of its thread.
OwnEntries ==
    \A t \in Thread : \A i \in DOMAIN undo[t] : undo[t][i].writtenContent[1] = t

\* What a handler has read and is about to write.
HandlersSound ==
    \A k \in Files!Call : InHand(k) =>
        /\ call[k].kind = "edit" => call[k].read \in Files!Version
        /\ call[k].kind = "undo" => undo[call[k].thread] # <<>>
        /\ call[k].phase = "writing" =>
              /\ call[k].out \in Files!Version
              /\ call[k].kind = "edit" => call[k].out[1] = call[k].thread

\* Nobody who holds the lock changes the file between its reading and its
\* writing: it is as it was read, and for an undo as its thread left it.
ReadIsCurrent ==
    \A k \in Files!Call : InHand(k) /\ ~call[k].disturbed =>
        Files!EditsOnLatest(k) /\ Files!UndoesOwnWork(k)

FilesInv ==
    /\ Files!TypeOK
    /\ LockIsQueue /\ HoldsLock /\ OwnEntries /\ HandlersSound /\ ReadIsCurrent

ComponentsInv == IInv /\ TasksInv /\ DaemonInv /\ FilesInv

-----------------------------------------------------------------------------
(* The embedded daemon: its steps.                                          *)

Flow == [binding : Daemon!Binding, phase : Daemon!Phase]

LEMMA DaemonTypes ==
    ASSUME Daemon!TypeOK
    PROVE  /\ flow \in Seq(Flow) /\ Len(flow) \in Nat
           /\ DOMAIN flow = 1..Len(flow)
           /\ \A f \in DOMAIN flow : flow[f] \in Flow
           /\ MaxFlows \in Nat
<1>1. flow \in Seq(Flow)
  BY DEF Daemon!TypeOK, Flow
<1>2. MaxFlows \in Nat
  BY ComponentsAssumption
<1> QED
  BY <1>1, <1>2, ElementOfSeq, LenProperties

\* A phase is entered: the flow f has the binding b from now on.
LEMMA FlowChanged ==
    ASSUME Daemon!TypeOK, NEW f \in DOMAIN flow, NEW x \in Flow,
           flow' = [flow EXCEPT ![f] = x]
    PROVE  /\ flow' \in Seq(Flow) /\ DOMAIN flow' = DOMAIN flow /\ Len(flow') = Len(flow)
           /\ flow'[f] = x
           /\ \A g \in DOMAIN flow : g # f => flow'[g] = flow[g]
BY DaemonTypes, ExceptSeq

LEMMA ResolvedType ==
    ASSUME Daemon!TypeOK, NEW b \in Daemon!Binding
    PROVE  /\ Daemon!Resolved(b) \in Daemon!Binding
           /\ Daemon!Resolved(b).host = b.host
BY DEF Daemon!TypeOK, Daemon!Binding, Daemon!Resolved

\* startDesktopDaemon, called with the settings b for the daemon that is there
\* or for none.
LEMMA BeginInv ==
    ASSUME DaemonInv, NEW b \in Daemon!Binding, NEW d, d \in {daemon, None},
           Daemon!Begin(b, d), config' = b,
           d # None => b = config,
           UNCHANGED <<envPort, foreign>>
    PROVE  DaemonInv'
<1> DEFINE own == d # None /\ d = Daemon!Resolved(b)
           new == [binding |-> Daemon!Resolved(b),
                   phase |-> IF own THEN "probingOwn" ELSE "probing"]
<1>1. /\ Daemon!TypeOK /\ flow \in Seq(Flow) /\ Len(flow) \in Nat
      /\ DOMAIN flow = 1..Len(flow) /\ MaxFlows \in Nat
  BY DaemonTypes DEF DaemonInv
<1>2. /\ Daemon!Resolved(b) \in Daemon!Binding /\ Daemon!Resolved(b).host = b.host
  BY <1>1, ResolvedType
<1>3. new \in Flow
  BY <1>2 DEF Flow, Daemon!Phase
<1>4. /\ Len(flow) < MaxFlows
      /\ daemon' = IF own THEN d ELSE None
      /\ servers' = IF own THEN servers ELSE servers \ {daemon}
      /\ flow' = Append(flow, new)
      /\ startPromise' = Len(flow) + 1
      /\ overlapped' = (overlapped \/ \E f \in DOMAIN flow : Daemon!InFlight(f))
  BY DEF Daemon!Begin, Daemon!StillListening
<1>5. new.binding = Daemon!Resolved(b) /\ new.phase # "ended"
  OBVIOUS
<1> HIDE DEF new
<1>6. /\ flow' \in Seq(Flow) /\ Len(flow') = Len(flow) + 1
      /\ DOMAIN flow' = 1..(Len(flow) + 1)
      /\ \A f \in DOMAIN flow : flow'[f] = flow[f]
      /\ flow'[Len(flow) + 1] = new
  BY <1>1, <1>3, <1>4, AppendProperties
<1>7. servers \subseteq {daemon} /\ servers \subseteq Daemon!Binding
  BY DEF DaemonInv, Daemon!DaemonControllable, Daemon!ServersReached, Daemon!TypeOK
<1>8. daemon' \in Daemon!Binding \cup {None} /\ servers' \subseteq Daemon!Binding
      /\ servers' \subseteq {daemon'}
  <2>1. CASE own
    BY <1>1, <1>2, <1>4, <1>7, <2>1 DEF Daemon!TypeOK
  <2>2. CASE ~own
    BY <1>4, <1>7, <2>2
  <2> QED
    BY <2>1, <2>2
<1>9. Daemon!TypeOK'
  <2>1. Len(flow') <= MaxFlows /\ startPromise' \in 1..MaxFlows
    BY <1>1, <1>4, <1>6
  <2> QED
    BY <1>1, <1>4, <1>6, <1>8, <2>1 DEF Daemon!TypeOK, Flow
<1>10. Daemon!DaemonControllable'
  BY <1>1, <1>4, <1>5, <1>6, <1>8
  DEF Daemon!DaemonControllable, Daemon!ServersReached, Daemon!StartsAccepted, Daemon!InFlight
<1>11. ASSUME ~overlapped' PROVE HostKept'
  <2>1. \A f \in DOMAIN flow : flow[f].phase = "ended"
    BY <1>4, <1>11 DEF Daemon!InFlight
  <2>2. \A f \in DOMAIN flow' : Daemon!InFlight(f)' => f = Len(flow) + 1
    BY <1>1, <1>6, <2>1 DEF Daemon!InFlight
  <2>3. flow'[Len(flow) + 1].binding.host = config'.host
    BY <1>2, <1>5, <1>6
  <2>4. daemon' # None => daemon'.host = config'.host
    BY <1>2, <1>4
  <2> QED
    BY <2>2, <2>3, <2>4 DEF HostKept
<1> QED
  BY <1>9, <1>10, <1>11 DEF DaemonInv

\* A flow f ends, or goes on under the binding of the daemon there is.
FlowStep(f, x) ==
    /\ flow[f].phase # "ended"
    /\ flow' = [flow EXCEPT ![f] = x]
    /\ \/ x.phase = "ended"
       \/ x.binding = flow[f].binding
       \/ daemon # None /\ x.binding = daemon
    /\ startPromise' = None \/ (startPromise' = startPromise /\ x.phase # "ended")
    /\ daemon' \in {daemon, None, flow[f].binding}
    /\ servers' \subseteq {daemon'} /\ servers' \subseteq Daemon!Binding
    /\ envPort' \in Port \cup {None}
    /\ UNCHANGED <<config, foreign, overlapped>>

LEMMA FlowStepInv ==
    ASSUME DaemonInv, NEW f \in DOMAIN flow, NEW x \in Flow, FlowStep(f, x)
    PROVE  DaemonInv'
<1> USE DEF FlowStep
<1>1. /\ flow' \in Seq(Flow) /\ DOMAIN flow' = DOMAIN flow /\ Len(flow') = Len(flow)
      /\ flow'[f] = x
      /\ \A g \in DOMAIN flow : g # f => flow'[g] = flow[g]
      /\ flow[f] \in Flow
  BY FlowChanged, DaemonTypes DEF DaemonInv
<1>2. daemon' \in Daemon!Binding \cup {None}
  BY <1>1 DEF DaemonInv, Daemon!TypeOK, Flow
<1>3. Daemon!TypeOK'
  BY <1>1, <1>2 DEF DaemonInv, Daemon!TypeOK, Flow
<1>4. Daemon!DaemonControllable'
  BY <1>1
  DEF DaemonInv, Daemon!DaemonControllable, Daemon!ServersReached, Daemon!StartsAccepted,
      Daemon!InFlight
<1>5. ASSUME ~overlapped' PROVE HostKept'
  <2>1. HostKept /\ flow[f].binding.host = config.host
    BY <1>5 DEF DaemonInv, HostKept, Daemon!InFlight
  <2>2. daemon' # None => daemon'.host = config.host
    BY <2>1 DEF HostKept
  <2>3. x.phase # "ended" => x.binding.host = config.host
    BY <2>1 DEF HostKept
  <2> QED
    BY <1>1, <2>1, <2>2, <2>3 DEF HostKept, Daemon!InFlight
<1> QED
  BY <1>3, <1>4, <1>5 DEF DaemonInv

\* A record that differs in its phase, or its binding, is a flow.
LEMMA FlowType ==
    ASSUME NEW x \in Flow, NEW phase \in Daemon!Phase
    PROVE  /\ [x EXCEPT !.phase = phase] \in Flow
           /\ [x EXCEPT !.phase = phase].phase = phase
           /\ [x EXCEPT !.phase = phase].binding = x.binding
BY DEF Flow

LEMMA EndFlowInv ==
    ASSUME DaemonInv, NEW f \in DOMAIN flow, flow[f].phase # "ended", Daemon!EndFlow(f),
           daemon' \in {daemon, None},
           servers' \subseteq {daemon'}, servers' \subseteq Daemon!Binding,
           envPort' \in Port \cup {None},
           UNCHANGED <<config, foreign, overlapped>>
    PROVE  DaemonInv'
<1>1. /\ flow' = [flow EXCEPT ![f] = [flow[f] EXCEPT !.phase = "ended"]]
      /\ startPromise' = None
  BY DEF Daemon!EndFlow, Daemon!PromiseCleared
<1>2. PICK x \in Flow : x = [flow[f] EXCEPT !.phase = "ended"] /\ x.phase = "ended"
  BY FlowType, DaemonTypes DEF DaemonInv, Daemon!Phase
<1> QED
  <2>1. flow' = [flow EXCEPT ![f] = x] /\ x.phase = "ended"
    BY <1>1, <1>2
  <2>2. startPromise' = None /\ UNCHANGED <<config, foreign, overlapped>>
    BY <1>1
  <2>3. FlowStep(f, x)
    BY <2>1, <2>2 DEF FlowStep
  <2> QED
    BY <2>3, FlowStepInv

\* What there is of servers is the daemon.
LEMMA ServersType ==
    ASSUME DaemonInv
    PROVE  /\ servers \subseteq {daemon} /\ servers \subseteq Daemon!Binding
           /\ daemon \in Daemon!Binding \cup {None} /\ envPort \in Port \cup {None}
           /\ None \notin Daemon!Binding
           /\ Daemon!StillListening = {}
BY ComponentsAssumption
DEF DaemonInv, Daemon!DaemonControllable, Daemon!ServersReached, Daemon!TypeOK,
    Daemon!StillListening

LEMMA FlowsInv ==
    ASSUME DaemonInv, NEW f \in 1..MaxFlows,
           \/ Daemon!OwnHealthy(f) \/ Daemon!OwnUnhealthy(f) \/ Daemon!FoundRunning(f)
           \/ Daemon!Reuse(f) \/ Daemon!Launch(f) \/ Daemon!LaunchFails(f)
           \/ Daemon!Healthy(f) \/ Daemon!NotHealthyInTime(f)
    PROVE  DaemonInv'
<1>1. f \in DOMAIN flow /\ flow[f].phase # "ended"
  BY DEF Daemon!OwnHealthy, Daemon!OwnUnhealthy, Daemon!FoundRunning, Daemon!Reuse,
         Daemon!Launch, Daemon!LaunchFails, Daemon!Healthy, Daemon!NotHealthyInTime, Daemon!At
<1>2. flow[f] \in Flow /\ flow[f].binding \in Daemon!Binding
  BY <1>1, DaemonTypes DEF DaemonInv, Flow
<1>3. flow[f].binding.port \in Port
  BY <1>2 DEF Daemon!Binding
<1>4. ASSUME Daemon!OwnHealthy(f) \/ Daemon!FoundRunning(f) \/ Daemon!Healthy(f)
      PROVE  DaemonInv'
  <2>1. Daemon!EndFlow(f) /\ UNCHANGED <<config, envPort, daemon, servers, foreign, overlapped>>
    BY <1>4 DEF Daemon!OwnHealthy, Daemon!FoundRunning, Daemon!Healthy
  <2> QED
    BY <1>1, <2>1, ServersType, EndFlowInv
<1>5. ASSUME Daemon!NotHealthyInTime(f)
      PROVE  DaemonInv'
  <2>1. Daemon!EndFlow(f) /\ daemon' = None /\ servers' = {}
        /\ UNCHANGED <<config, envPort, foreign, overlapped>>
    BY <1>5, ServersType DEF Daemon!NotHealthyInTime, Daemon!StopEmbedded
  <2> QED
    BY <1>1, <2>1, ServersType, EndFlowInv
<1>6. ASSUME Daemon!LaunchFails(f)
      PROVE  DaemonInv'
  <2>1. Daemon!EndFlow(f) /\ envPort' \in Port
        /\ UNCHANGED <<config, daemon, servers, foreign, overlapped>>
    BY <1>3, <1>6 DEF Daemon!LaunchFails
  <2> QED
    BY <1>1, <2>1, ServersType, EndFlowInv
<1>7. ASSUME Daemon!OwnUnhealthy(f)
      PROVE  DaemonInv'
  <2>1. PICK x \in Flow : /\ flow' = [flow EXCEPT ![f] = x]
                          /\ x.phase = "probing" /\ x.binding = flow[f].binding
    BY <1>2, <1>7, FlowType DEF Daemon!OwnUnhealthy, Daemon!Phase
  <2>2. /\ daemon' = None /\ servers' = {}
        /\ UNCHANGED <<config, envPort, foreign, startPromise, overlapped>>
    BY <1>7, ServersType DEF Daemon!OwnUnhealthy, Daemon!StopEmbedded
  <2> QED
    <3>1. FlowStep(f, x)
      BY <1>1, <2>1, <2>2, ServersType DEF FlowStep
    <3> QED
      BY <1>1, <3>1, FlowStepInv
<1>8. ASSUME Daemon!Reuse(f)
      PROVE  DaemonInv'
  <2>1. daemon # None /\ UNCHANGED <<config, envPort, daemon, servers, foreign, startPromise,
                                     overlapped>>
    BY <1>8 DEF Daemon!Reuse, Daemon!Reusable
  <2>2. PICK x \in Flow : /\ flow' = [flow EXCEPT ![f] = x]
                          /\ x.phase = "waiting" /\ x.binding = daemon
    <3> DEFINE x == [binding |-> daemon, phase |-> "waiting"]
    <3>1. daemon \in Daemon!Binding
      BY <2>1, ServersType
    <3>2. x \in Flow
      BY <3>1 DEF Flow, Daemon!Phase
    <3> QED
      BY <1>8, <3>2 DEF Daemon!Reuse
  <2> QED
    <3>1. FlowStep(f, x)
      BY <1>1, <2>1, <2>2, ServersType DEF FlowStep
    <3> QED
      BY <1>1, <3>1, FlowStepInv
<1>9. ASSUME Daemon!Launch(f)
      PROVE  DaemonInv'
  <2>1. PICK x \in Flow : /\ flow' = [flow EXCEPT ![f] = x]
                          /\ x.phase = "waiting" /\ x.binding = flow[f].binding
    BY <1>2, <1>9, FlowType DEF Daemon!Launch, Daemon!Phase
  <2>2. /\ daemon = None /\ daemon' = flow[f].binding
        /\ servers' = servers \cup {flow[f].binding} /\ envPort' \in Port
        /\ UNCHANGED <<config, foreign, startPromise, overlapped>>
    BY <1>3, <1>9 DEF Daemon!Launch, Daemon!Reusable
  <2>3. servers = {}
    BY <2>2, ServersType
  <2> QED
    <3>1. FlowStep(f, x)
      BY <1>1, <1>2, <2>1, <2>2, <2>3 DEF FlowStep
    <3> QED
      BY <1>1, <3>1, FlowStepInv
<1> QED
  BY <1>4, <1>5, <1>6, <1>7, <1>8, <1>9

LEMMA DaemonStarts ==
    ASSUME DaemonInv,
           Daemon!Start \/ Daemon!Restart \/ \E b \in Daemon!Binding : Daemon!Update(b)
    PROVE  DaemonInv'
<1>1. config \in Daemon!Binding
  BY DEF DaemonInv, Daemon!TypeOK
<1>2. CASE Daemon!Start \/ Daemon!Restart
  <2>1. PICK d \in {daemon, None} : Daemon!Begin(config, d)
    BY <1>2 DEF Daemon!Start, Daemon!Restart
  <2>2. UNCHANGED <<config, envPort, foreign>>
    BY <1>2 DEF Daemon!Start, Daemon!Restart
  <2> QED
    BY <1>1, <2>1, <2>2, BeginInv
<1>3. ASSUME NEW b \in Daemon!Binding, Daemon!Update(b) PROVE DaemonInv'
  <2>1. CASE b = config
    <3>1. UNCHANGED Daemon!dvars
      BY <1>3, <2>1 DEF Daemon!Update, Daemon!BindingChanged, Daemon!dvars
    <3> QED
      BY <3>1
      DEF Daemon!dvars, DaemonInv, Daemon!TypeOK, Daemon!DaemonControllable,
          Daemon!ServersReached, Daemon!StartsAccepted, Daemon!InFlight, HostKept
  <2>2. CASE b # config
    <3>1. Daemon!Begin(b, None) /\ config' = b /\ UNCHANGED <<envPort, foreign>>
      BY <1>3, <2>2 DEF Daemon!Update, Daemon!BindingChanged
    <3> QED
      BY <3>1, BeginInv
  <2> QED
    BY <2>1, <2>2
<1> QED
  BY <1>2, <1>3

LEMMA DaemonNext == DaemonInv /\ [Daemon!Next]_daemonVars => DaemonInv'
<1> SUFFICES ASSUME DaemonInv, [Daemon!Next]_daemonVars PROVE DaemonInv'
  OBVIOUS
<1>1. CASE Daemon!Stop
  <2>1. /\ daemon' = None /\ servers' = {} /\ startPromise' = None
        /\ UNCHANGED <<config, envPort, foreign, flow, overlapped>>
    BY <1>1, ServersType DEF Daemon!Stop, Daemon!StopEmbedded
  <2> QED
    BY <2>1
    DEF DaemonInv, Daemon!TypeOK, Daemon!DaemonControllable, Daemon!ServersReached,
        Daemon!StartsAccepted, Daemon!InFlight, HostKept
<1>2. CASE UNCHANGED daemonVars
  BY <1>2
  DEF daemonVars, DaemonInv, Daemon!TypeOK, Daemon!DaemonControllable, Daemon!ServersReached,
      Daemon!StartsAccepted, Daemon!InFlight, HostKept
<1>3. ASSUME NEW s \in servers, Daemon!ServerDies(s) PROVE DaemonInv'
  <2>1. /\ servers' \subseteq servers
        /\ UNCHANGED <<config, envPort, daemon, foreign, flow, startPromise, overlapped>>
    BY <1>3 DEF Daemon!ServerDies
  <2> QED
    BY <2>1
    DEF DaemonInv, Daemon!TypeOK, Daemon!DaemonControllable, Daemon!ServersReached,
        Daemon!StartsAccepted, Daemon!InFlight, HostKept
<1>4. ASSUME NEW p \in foreign, Daemon!ForeignEnds(p) PROVE DaemonInv'
  <2>1. /\ foreign' \subseteq foreign
        /\ UNCHANGED <<config, envPort, daemon, servers, flow, startPromise, overlapped>>
    BY <1>4 DEF Daemon!ForeignEnds
  <2> QED
    BY <2>1
    DEF DaemonInv, Daemon!TypeOK, Daemon!DaemonControllable, Daemon!ServersReached,
        Daemon!StartsAccepted, Daemon!InFlight, HostKept
<1> QED
  BY <1>1, <1>2, <1>3, <1>4, DaemonStarts, FlowsInv DEF Daemon!Next

LEMMA DaemonInit == Daemon!Init => DaemonInv
<1> SUFFICES ASSUME Daemon!Init PROVE DaemonInv
  OBVIOUS
<1>1. flow = <<>> /\ Len(flow) = 0 /\ DOMAIN flow = {} /\ 0 <= MaxFlows
  BY ComponentsAssumption DEF Daemon!Init
<1>2. flow \in Seq(Flow)
  BY <1>1
<1> QED
  BY <1>1, <1>2
  DEF Daemon!Init, DaemonInv, Daemon!TypeOK, Daemon!DaemonControllable,
      Daemon!ServersReached, Daemon!StartsAccepted, HostKept, Flow

-----------------------------------------------------------------------------
(* The file tools: the lock.                                                *)

Call == Files!Call
Op == Files!Op

LEMMA FilesNone == None \notin Call /\ None \notin Op /\ None \notin Files!Version
BY ComponentsAssumption DEF Call, Op

LEMMA CallType ==
    ASSUME Files!TypeOK, NEW k \in Call, Runs(k)
    PROVE  call[k] \in Op /\ call[k].thread \in Thread /\ call[k].prev \in Call \cup {None}
BY DEF Files!TypeOK, Runs, Call, Op, Files!Op

\* The lock is granted to one call at a time.
LEMMA GrantedOnce ==
    ASSUME LockIsQueue, NEW k \in Call, NEW j \in Call, Runs(k), Runs(j),
           Files!Granted(k), Files!Granted(j)
    PROVE  k = j
<1>0. PICK n \in Nat : \E q \in [1..n -> Call] : Queue(n, q)
  BY DEF LockIsQueue, Call
<1>1. PICK q \in [1..n -> Call] : Queue(n, q)
  BY <1>0
<1>2. PICK a \in 1..n : q[a] = k
  BY <1>1 DEF Queue, Call
<1>3. PICK b \in 1..n : q[b] = j
  BY <1>1 DEF Queue, Call
<1>4. \A i \in 1..n : call[q[i]].prev = None => i = 1
  <2> SUFFICES ASSUME NEW i \in 1..n, i # 1 PROVE call[q[i]].prev # None
    OBVIOUS
  <2>1. call[q[i]].prev = q[i - 1] /\ i - 1 \in 1..n
    BY <1>1 DEF Queue
  <2> QED
    BY <2>1, FilesNone
<1> QED
  BY <1>2, <1>3, <1>4 DEF Files!Granted

\* Who has the lock has it alone.
LEMMA HandsOnce ==
    ASSUME LockIsQueue, HoldsLock, NEW k \in Call, Runs(k), Files!Granted(k),
           NEW j \in Call, InHand(j)
    PROVE  j = k
BY GrantedOnce DEF HoldsLock, InHand, Call

\* A step that lets the calls and their predecessors be keeps the queue.
LEMMA QueueKept ==
    ASSUME LockIsQueue, last' = last,
           \A k \in Call : (Runs(k)' <=> Runs(k)) /\ (Runs(k) => call'[k].prev = call[k].prev)
    PROVE  LockIsQueue'
<1>0. PICK n \in Nat : \E q \in [1..n -> Call] : Queue(n, q)
  BY DEF LockIsQueue, Call
<1>1. PICK q \in [1..n -> Call] : Queue(n, q)
  BY <1>0
<1>2. \A i \in 1..n : q[i] \in Call /\ Runs(q[i])
  BY <1>1 DEF Queue, Call
<1>3. Queue(n, q)'
  BY <1>1, <1>2 DEF Queue, Call
<1> QED
  BY <1>3 DEF LockIsQueue, Call

\* A call that comes is the last of the chain.
LEMMA QueueGrows ==
    ASSUME LockIsQueue, NEW k \in Call, ~Runs(k), last' = k,
           Runs(k)', call'[k].prev = last,
           \A j \in Call : j # k => call'[j] = call[j]
    PROVE  LockIsQueue'
<1>0. PICK n \in Nat : \E q \in [1..n -> Call] : Queue(n, q)
  BY DEF LockIsQueue, Call
<1>1. PICK q \in [1..n -> Call] : Queue(n, q)
  BY <1>0
<1> DEFINE r == [i \in 1..(n + 1) |-> IF i = n + 1 THEN k ELSE q[i]]
<1>2. r \in [1..(n + 1) -> Call] /\ n + 1 \in Nat
  OBVIOUS
<1>3. \A i \in 1..n : r[i] = q[i] /\ q[i] \in Call /\ q[i] # k
  BY <1>1 DEF Queue, Call
<1>4. r[n + 1] = k
  OBVIOUS
<1> HIDE DEF r
<1>5. \A j \in Call : Runs(j)' <=> \E i \in 1..(n + 1) : r[i] = j
  <2> SUFFICES ASSUME NEW j \in Call PROVE Runs(j)' <=> \E i \in 1..(n + 1) : r[i] = j
    OBVIOUS
  <2>1. CASE j = k
    BY <1>4, <2>1
  <2>2. CASE j # k
    <3>1. Runs(j)' <=> \E i \in 1..n : q[i] = j
      BY <1>1, <2>2 DEF Queue, Runs, Call
    <3>2. \A i \in 1..(n + 1) : r[i] = j <=> i \in 1..n /\ q[i] = j
      BY <1>3, <1>4, <2>2
    <3>3. \A i \in 1..n : i \in 1..(n + 1)
      OBVIOUS
    <3> QED
      BY <3>1, <3>2, <3>3
  <2> QED
    BY <2>1, <2>2
<1>6. \A i, j \in 1..(n + 1) : r[i] = r[j] => i = j
  <2>1. \A i \in 1..(n + 1) : i # n + 1 => i \in 1..n
    OBVIOUS
  <2>2. \A i, j \in 1..n : q[i] = q[j] => i = j
    BY <1>1 DEF Queue
  <2> QED
    BY <1>3, <1>4, <2>1, <2>2
<1>7. ASSUME NEW i \in 1..(n + 1)
      PROVE  call'[r[i]].prev = IF i = 1 THEN None ELSE r[i - 1]
  <2>1. CASE i = n + 1
    <3>1. call'[r[i]].prev = last
      BY <1>4, <2>1
    <3>2. CASE n = 0
      BY <1>1, <2>1, <3>1, <3>2 DEF Queue
    <3>3. CASE n # 0
      <4>1. i # 1 /\ i - 1 = n /\ n \in 1..n
        BY <2>1, <3>3
      <4>2. last = q[n]
        BY <1>1, <3>3 DEF Queue
      <4> QED
        BY <1>3, <3>1, <4>1, <4>2
    <3> QED
      BY <3>2, <3>3
  <2>2. CASE i # n + 1
    <3>1. i \in 1..n /\ call'[r[i]] = call[q[i]]
      BY <1>3, <2>2
    <3>2. i # 1 => i - 1 \in 1..n /\ r[i - 1] = q[i - 1]
      BY <1>3, <3>1
    <3> QED
      BY <1>1, <3>1, <3>2 DEF Queue
  <2> QED
    BY <2>1, <2>2
<1>8. last' = IF n + 1 = 0 THEN None ELSE r[n + 1]
  BY <1>4
<1>9. \E p \in [1..(n + 1) -> Call] : Queue(n + 1, p)'
  BY <1>2, <1>5, <1>6, <1>7, <1>8 DEF Queue, Call
<1> QED
  BY <1>2, <1>9 DEF LockIsQueue, Call

\* The call that holds the lock is the first; when it ends the next one is.
LEMMA QueueShrinks ==
    ASSUME Files!TypeOK, LockIsQueue, NEW k \in Call, Runs(k), Files!Granted(k), Files!End(k)
    PROVE  LockIsQueue'
<1>0. PICK n \in Nat : \E q \in [1..n -> Call] : Queue(n, q)
  BY DEF LockIsQueue, Call
<1>1. PICK q \in [1..n -> Call] : Queue(n, q)
  BY <1>0
<1>2. \A i \in 1..n : q[i] \in Call /\ Runs(q[i])
  BY <1>1 DEF Queue, Call
<1>3. n >= 1 /\ q[1] = k
  <2>1. PICK a \in 1..n : q[a] = k
    BY <1>1 DEF Queue, Call
  <2>2. 1 \in 1..n /\ call[q[1]].prev = None
    BY <1>1, <2>1 DEF Queue
  <2> QED
    BY <1>2, <2>1, <2>2, GrantedOnce DEF Files!Granted
<1> DEFINE r == [i \in 1..(n - 1) |-> q[i + 1]]
<1>4. r \in [1..(n - 1) -> Call] /\ n - 1 \in Nat
  BY <1>3
<1>5. \A i \in 1..(n - 1) : r[i] = q[i + 1] /\ i \in 1..n /\ i + 1 \in 1..n
  OBVIOUS
<1> HIDE DEF r
<1>6. \A i \in 1..n : q[i] = k <=> i = 1
  BY <1>1, <1>3 DEF Queue
<1>7. \A j \in Call : /\ call'[j] = IF j = k \/ ~Runs(j) THEN None
                                   ELSE [call[j] EXCEPT !.prev = IF @ = k THEN None ELSE @]
                      /\ j # k /\ Runs(j) => call[j] \in Op
  BY CallType DEF Files!End, Runs, Call
<1>8. \A j \in Call : j # k /\ Runs(j) =>
          /\ Runs(j)'
          /\ call'[j].prev = IF call[j].prev = k THEN None ELSE call[j].prev
  <2> SUFFICES ASSUME NEW j \in Call, j # k, Runs(j)
               PROVE  /\ Runs(j)'
                      /\ call'[j].prev = IF call[j].prev = k THEN None ELSE call[j].prev
    OBVIOUS
  <2>1. /\ call'[j] = [call[j] EXCEPT !.prev = IF call[j].prev = k THEN None ELSE call[j].prev]
        /\ call[j] \in Op
    BY <1>7 DEF Op, Files!Op
  <2>2. (IF call[j].prev = k THEN None ELSE call[j].prev) \in Call \cup {None}
    BY CallType
  <2>3. call'[j] \in Op
    BY <2>1, <2>2 DEF Op, Files!Op, Call
  <2> QED
    BY <2>1, <2>3, FilesNone DEF Runs, Op, Files!Op
<1>9. \A j \in Call : Runs(j)' <=> \E i \in 1..(n - 1) : r[i] = j
  <2> SUFFICES ASSUME NEW j \in Call PROVE Runs(j)' <=> \E i \in 1..(n - 1) : r[i] = j
    OBVIOUS
  <2>1. Runs(j)' <=> Runs(j) /\ j # k
    BY <1>7, <1>8 DEF Runs
  <2>2. Runs(j) /\ j # k <=> \E i \in 1..n : i # 1 /\ q[i] = j
    BY <1>1, <1>6 DEF Queue, Call
  <2>3. ASSUME NEW i \in 1..n, i # 1, q[i] = j PROVE \E a \in 1..(n - 1) : r[a] = j
    <3>1. i - 1 \in 1..(n - 1) /\ r[i - 1] = q[i]
      BY <1>5, <2>3
    <3> QED
      BY <2>3, <3>1
  <2>4. ASSUME NEW a \in 1..(n - 1), r[a] = j PROVE \E i \in 1..n : i # 1 /\ q[i] = j
    BY <1>5, <2>4
  <2> QED
    BY <2>1, <2>2, <2>3, <2>4
<1>10. \A i, j \in 1..(n - 1) : r[i] = r[j] => i = j
  <2> SUFFICES ASSUME NEW i \in 1..(n - 1), NEW j \in 1..(n - 1), r[i] = r[j] PROVE i = j
    OBVIOUS
  <2>1. q[i + 1] = q[j + 1] /\ i + 1 \in 1..n /\ j + 1 \in 1..n
    BY <1>5
  <2>2. i + 1 = j + 1
    BY <1>1, <2>1 DEF Queue
  <2> QED
    BY <2>2
<1>11. ASSUME NEW i \in 1..(n - 1)
       PROVE  call'[r[i]].prev = IF i = 1 THEN None ELSE r[i - 1]
  <2>1. r[i] = q[i + 1] /\ i \in 1..n /\ i + 1 \in 1..n /\ i + 1 # 1
    BY <1>5
  <2>2. call[q[i + 1]].prev = q[i] /\ q[i + 1] # k /\ Runs(q[i + 1]) /\ q[i + 1] \in Call
    BY <1>1, <1>2, <1>6, <2>1 DEF Queue
  <2>3. call'[r[i]].prev = IF q[i] = k THEN None ELSE q[i]
    BY <1>8, <2>1, <2>2
  <2>4. i # 1 => i - 1 \in 1..(n - 1) /\ r[i - 1] = q[i]
    BY <1>5, <2>1
  <2> QED
    BY <1>6, <2>1, <2>3, <2>4
<1>12. last' = IF n - 1 = 0 THEN None ELSE r[n - 1]
  <2>1. last = q[n] /\ n \in 1..n
    BY <1>1, <1>3 DEF Queue
  <2>2. last' = IF last = k THEN None ELSE last
    BY DEF Files!End, Files!Released
  <2>3. n - 1 # 0 => n - 1 \in 1..(n - 1) /\ r[n - 1] = q[n]
    BY <1>3, <1>5
  <2> QED
    BY <1>3, <1>6, <2>1, <2>2, <2>3
<1>13. \E p \in [1..(n - 1) -> Call] : Queue(n - 1, p)'
  BY <1>4, <1>9, <1>10, <1>11, <1>12 DEF Queue, Call
<1> QED
  BY <1>4, <1>13 DEF LockIsQueue, Call

-----------------------------------------------------------------------------
(* The file tools: the handlers.                                            *)

Stacks == \A t \in Thread : undo[t] \in Seq(Files!Entry) /\ Len(undo[t]) <= MaxUndo

\* A call that ends leaves nobody under way, for it had the lock.
LEMMA EndInv ==
    ASSUME FilesInv, NEW k \in Call, Runs(k), Files!Granted(k), Files!End(k),
           file' \in Files!Version \cup {None}, made' \in 1..MaxVersions,
           DOMAIN undo' = Thread, Stacks', OwnEntries'
    PROVE  FilesInv'
<1>1. \A j \in Call : /\ call'[j] = IF j = k \/ ~Runs(j) THEN None
                                   ELSE [call[j] EXCEPT !.prev = IF @ = k THEN None ELSE @]
                      /\ Runs(j) => call[j] \in Op /\ call[j].prev \in Call \cup {None}
  BY CallType DEF FilesInv, Files!End, Runs, Call
<1>2. \A j \in Call : /\ call'[j] \in Op \cup {None}
                      /\ Runs(j)' => Runs(j) /\ j # k /\ call'[j].phase = call[j].phase
  <2> SUFFICES ASSUME NEW j \in Call
               PROVE  /\ call'[j] \in Op \cup {None}
                      /\ Runs(j)' => Runs(j) /\ j # k /\ call'[j].phase = call[j].phase
    OBVIOUS
  <2>1. CASE j = k \/ ~Runs(j)
    BY <1>1, <2>1 DEF Runs
  <2>2. CASE j # k /\ Runs(j)
    <3>1. call'[j] = [call[j] EXCEPT !.prev = IF call[j].prev = k THEN None ELSE call[j].prev]
      BY <1>1, <2>2 DEF Op, Files!Op
    <3>2. (IF call[j].prev = k THEN None ELSE call[j].prev) \in Call \cup {None}
      BY <1>1, <2>2
    <3> QED
      BY <1>1, <2>2, <3>1, <3>2 DEF Op, Files!Op, Call
  <2> QED
    BY <2>1, <2>2
<1>3. \A j \in Call : ~InHand(j)'
  BY <1>2, HandsOnce DEF FilesInv, InHand
<1>4. call' \in [Call -> Op \cup {None}]
  BY <1>2 DEF Files!End, Call
<1>5. last' \in Call \cup {None}
  BY DEF FilesInv, Files!TypeOK, Files!End, Files!Released, Call
<1>6. Files!TypeOK'
  BY <1>4, <1>5 DEF Files!TypeOK, Call, Op, Stacks
<1>7. LockIsQueue'
  BY QueueShrinks DEF FilesInv
<1>8. HoldsLock' /\ HandlersSound' /\ ReadIsCurrent'
  BY <1>3 DEF HoldsLock, HandlersSound, ReadIsCurrent, Call
<1> QED
  BY <1>6, <1>7, <1>8 DEF FilesInv

\* The stacks take an edit of their thread, and give back the newest.
LEMMA PushedType ==
    ASSUME NEW stack \in Seq(Files!Entry), Len(stack) <= MaxUndo, NEW entry \in Files!Entry,
           NEW t, \A i \in DOMAIN stack : stack[i].writtenContent[1] = t,
           entry.writtenContent[1] = t
    PROVE  /\ Files!Pushed(stack, entry) \in Seq(Files!Entry)
           /\ Len(Files!Pushed(stack, entry)) <= MaxUndo
           /\ \A i \in DOMAIN Files!Pushed(stack, entry) :
                 Files!Pushed(stack, entry)[i].writtenContent[1] = t
<1> DEFINE s == Append(stack, entry)
<1>1. /\ s \in Seq(Files!Entry) /\ Len(s) = Len(stack) + 1
      /\ \A i \in 1..Len(stack) : s[i] = stack[i]
      /\ s[Len(stack) + 1] = entry
  BY AppendProperties
<1>2. Len(stack) \in Nat /\ DOMAIN stack = 1..Len(stack) /\ MaxUndo \in Nat
  BY LenProperties, ComponentsAssumption
<1>3. \A i \in 1..Len(s) : s[i].writtenContent[1] = t
  <2>1. \A i \in 1..Len(s) : i # Len(stack) + 1 => i \in 1..Len(stack)
    BY <1>1, <1>2
  <2> QED
    BY <1>1, <1>2, <2>1
<1>4. Files!Pushed(stack, entry) = IF Len(s) > MaxUndo THEN Tail(s) ELSE s
  BY DEF Files!Pushed
<1> HIDE DEF s
<1>5. s # <<>>
  BY <1>1, <1>2
<1>6. /\ Tail(s) \in Seq(Files!Entry) /\ Len(Tail(s)) = Len(s) - 1
      /\ \A i \in 1..Len(Tail(s)) : Tail(s)[i] = s[i + 1]
  BY <1>1, <1>5, HeadTailProperties
<1>7. \A i \in 1..Len(Tail(s)) : i + 1 \in 1..Len(s)
  BY <1>1, <1>2, <1>6
<1>8. \A i \in 1..Len(Tail(s)) : Tail(s)[i].writtenContent[1] = t
  BY <1>3, <1>6, <1>7
<1>9. DOMAIN s = 1..Len(s) /\ DOMAIN Tail(s) = 1..Len(Tail(s))
  BY <1>1, <1>6, LenProperties
<1>10. CASE Len(s) > MaxUndo
  BY <1>1, <1>2, <1>4, <1>6, <1>8, <1>9, <1>10
<1>11. CASE ~(Len(s) > MaxUndo)
  BY <1>1, <1>2, <1>3, <1>4, <1>9, <1>11
<1> QED
  BY <1>10, <1>11

LEMMA PoppedType ==
    ASSUME NEW stack \in Seq(Files!Entry), stack # <<>>, Len(stack) <= MaxUndo,
           NEW t, \A i \in DOMAIN stack : stack[i].writtenContent[1] = t
    PROVE  /\ Files!Popped(stack) \in Seq(Files!Entry)
           /\ Len(Files!Popped(stack)) <= MaxUndo
           /\ \A i \in DOMAIN Files!Popped(stack) :
                 Files!Popped(stack)[i].writtenContent[1] = t
<1>1. Len(stack) \in Nat \ {0} /\ DOMAIN stack = 1..Len(stack) /\ MaxUndo \in Nat
  BY EmptySeq, LenProperties, ComponentsAssumption
<1> DEFINE p == Files!Popped(stack)
<1>2. p = SubSeq(stack, 1, Len(stack) - 1)
  BY DEF Files!Popped
<1>3. /\ p \in Seq(Files!Entry) /\ Len(p) = Len(stack) - 1
      /\ \A i \in 1..Len(p) : p[i] = stack[i]
  BY <1>1, <1>2, SubSeqProperties
<1> HIDE DEF p
<1>4. DOMAIN p = 1..Len(p) /\ \A i \in 1..Len(p) : i \in DOMAIN stack
  BY <1>1, <1>3, LenProperties
<1>5. Len(p) <= MaxUndo /\ \A i \in DOMAIN p : p[i].writtenContent[1] = t
  BY <1>1, <1>3, <1>4
<1> QED
  BY <1>3, <1>5 DEF p

\* A handler under way has its lock and its call.
LEMMA HandFacts ==
    ASSUME FilesInv, NEW k \in Call, InHand(k)
    PROVE  /\ Runs(k) /\ Files!Granted(k) /\ call[k] \in Op /\ call[k].thread \in Thread
           /\ undo[call[k].thread] \in Seq(Files!Entry)
           /\ Len(undo[call[k].thread]) <= MaxUndo
           /\ \A i \in DOMAIN undo[call[k].thread] :
                 undo[call[k].thread][i].writtenContent[1] = call[k].thread
BY CallType DEF FilesInv, HoldsLock, InHand, Files!TypeOK, OwnEntries, Call

LEMMA SameStacks ==
    ASSUME FilesInv, undo' = undo
    PROVE  DOMAIN undo' = Thread /\ Stacks' /\ OwnEntries'
BY DEF FilesInv, Files!TypeOK, Stacks, OwnEntries

LEMMA RenameInv ==
    ASSUME FilesInv, NEW k \in Call, Files!Rename(k)
    PROVE  FilesInv'
<1>1. InHand(k) /\ call[k].phase = "writing"
  BY DEF Files!Rename, Files!At, InHand, Runs
<1>2. PICK t \in Thread : t = call[k].thread
  BY <1>1, HandFacts
<1>3. PICK stack \in Seq(Files!Entry) :
          /\ stack = undo[t] /\ Len(stack) <= MaxUndo
          /\ \A i \in DOMAIN stack : stack[i].writtenContent[1] = t
  BY <1>1, <1>2, HandFacts
<1>4. /\ call[k].kind \in {"write", "edit", "undo"}
      /\ call[k].kind = "edit" => call[k].read \in Files!Version /\ call[k].out[1] = t
      /\ call[k].kind = "undo" => stack # <<>>
      /\ call[k].out \in Files!Version
  <2>1. call[k] \in Op
    BY <1>1, HandFacts
  <2>2. call[k].kind \in {"write", "edit", "undo"}
    BY <2>1 DEF Op, Files!Op
  <2> QED
    BY <1>1, <1>2, <1>3, <2>2 DEF FilesInv, HandlersSound, Call
<1>5. PICK left \in Seq(Files!Entry) :
          /\ undo' = [undo EXCEPT ![t] = left]
          /\ Len(left) <= MaxUndo
          /\ \A i \in DOMAIN left : left[i].writtenContent[1] = t
  <2>1. CASE call[k].kind = "edit"
    <3> DEFINE entry == [previousContent |-> call[k].read, writtenContent |-> call[k].out]
    <3>1. entry \in Files!Entry /\ entry.writtenContent[1] = t
      BY <1>4, <2>1 DEF Files!Entry
    <3>2. undo' = [undo EXCEPT ![t] = Files!Pushed(stack, entry)]
      BY <1>2, <1>3, <2>1 DEF Files!Rename
    <3> HIDE DEF entry
    <3> QED
      <4> DEFINE left == Files!Pushed(stack, entry)
      <4>1. /\ left \in Seq(Files!Entry) /\ Len(left) <= MaxUndo
            /\ \A i \in DOMAIN left : left[i].writtenContent[1] = t
        BY <1>3, <3>1, PushedType
      <4>2. undo' = [undo EXCEPT ![t] = left]
        BY <3>2
      <4> HIDE DEF left
      <4> QED
        BY <4>1, <4>2
  <2>2. CASE call[k].kind = "undo"
    <3>1. undo' = [undo EXCEPT ![t] = Files!Popped(stack)]
      BY <1>2, <1>3, <2>2 DEF Files!Rename
    <3> QED
      BY <1>3, <1>4, <2>2, <3>1, PoppedType
  <2>3. CASE call[k].kind = "write"
    <3>1. undo' = [undo EXCEPT ![t] = stack]
      BY <1>2, <1>3, <2>3 DEF Files!Rename
    <3> QED
      BY <1>3, <3>1
  <2> QED
    BY <1>4, <2>1, <2>2, <2>3
<1>6. DOMAIN undo' = Thread /\ Stacks' /\ OwnEntries'
  BY <1>5 DEF FilesInv, Files!TypeOK, Stacks, OwnEntries
<1>7. file' \in Files!Version \cup {None} /\ made' \in 1..MaxVersions /\ Files!End(k)
  BY <1>4 DEF Files!Rename, FilesInv, Files!TypeOK
<1> QED
  BY <1>1, <1>6, <1>7, HandFacts, EndInv

LEMMA EndsInv ==
    ASSUME FilesInv, NEW k \in Call,
           Files!Refused(k) \/ Files!NotWritten(k) \/ Files!RenameFails(k)
    PROVE  FilesInv'
<1>1. /\ Runs(k) /\ Files!Granted(k) /\ Files!End(k)
      /\ UNCHANGED <<file, undo, made>>
  BY HandFacts DEF Files!Refused, Files!NotWritten, Files!RenameFails, Files!At, InHand, Runs
<1> QED
  BY <1>1, SameStacks, EndInv DEF FilesInv, Files!TypeOK

\* The handler of k goes on with the record x for its call.
HandStep(k, x) ==
    /\ Runs(k) /\ Files!Granted(k)
    /\ call' = [call EXCEPT ![k] = x]
    /\ x.prev = call[k].prev /\ x.thread = call[k].thread /\ x.kind = call[k].kind
    /\ x.kind = "edit" => x.read \in Files!Version
    /\ x.kind = "undo" => undo[x.thread] # <<>>
    /\ x.phase = "writing" =>
          x.out \in Files!Version /\ (x.kind = "edit" => x.out[1] = x.thread)
    /\ ~x.disturbed =>
          /\ x.kind = "edit" => file = x.read
          /\ x.kind = "undo" => file # None /\ file[1] = x.thread
    /\ made' \in 1..MaxVersions
    /\ UNCHANGED <<file, last, undo>>

LEMMA HandStepInv ==
    ASSUME FilesInv, NEW k \in Call, NEW x \in Op, HandStep(k, x)
    PROVE  FilesInv'
<1>1. /\ call \in [Call -> Op \cup {None}]
      /\ call'[k] = x /\ \A j \in Call : j # k => call'[j] = call[j]
      /\ call' \in [Call -> Op \cup {None}]
  BY DEF HandStep, FilesInv, Files!TypeOK, Call, Op
<1>2. Runs(k)' /\ \A j \in Call : j # k => (Runs(j)' <=> Runs(j))
  BY <1>1, FilesNone DEF Runs
<1>3. \A j \in Call : InHand(j)' => j = k
  BY <1>1, <1>2, HandsOnce DEF HandStep, FilesInv, InHand
<1>4. Files!TypeOK'
  BY <1>1 DEF HandStep, FilesInv, Files!TypeOK, Call, Op
<1>5. LockIsQueue'
  <2>1. \A j \in Call : (Runs(j)' <=> Runs(j)) /\ (Runs(j) => call'[j].prev = call[j].prev)
    BY <1>1, <1>2 DEF HandStep
  <2> QED
    BY <2>1, QueueKept DEF HandStep, FilesInv
<1>6. HoldsLock'
  BY <1>1, <1>3 DEF HandStep, HoldsLock, Files!Granted, Call
<1>7. OwnEntries'
  BY SameStacks DEF HandStep
<1>8. HandlersSound'
  <2>1. /\ x.kind = "edit" => x.read \in Files!Version
        /\ x.kind = "undo" => undo[x.thread] # <<>>
        /\ x.phase = "writing" =>
              x.out \in Files!Version /\ (x.kind = "edit" => x.out[1] = x.thread)
        /\ undo' = undo
    BY DEF HandStep
  <2> QED
    BY <1>1, <1>3, <2>1 DEF HandlersSound, Call
<1>9. ReadIsCurrent'
  <2>1. /\ ~x.disturbed =>
              /\ x.kind = "edit" => file = x.read
              /\ x.kind = "undo" => file # None /\ file[1] = x.thread
        /\ file' = file
    BY DEF HandStep
  <2> QED
    BY <1>1, <1>3, <2>1 DEF ReadIsCurrent, Files!EditsOnLatest, Files!UndoesOwnWork, Call
<1> QED
  BY <1>4, <1>5, <1>6, <1>7, <1>8, <1>9 DEF FilesInv

\* What Begin and StartWriting make of the record of a call.
LEMMA CallChanges ==
    ASSUME NEW c \in Op, NEW phase \in {"checking", "writing"},
           NEW v \in Files!Version \cup {None}
    PROVE  /\ [[c EXCEPT !.phase = phase] EXCEPT !.read = v] \in Op
           /\ [[c EXCEPT !.phase = phase] EXCEPT !.out = v] \in Op
BY DEF Op, Files!Op

LEMMA BeginHandler ==
    ASSUME FilesInv, NEW k \in Call, Files!Begin(k)
    PROVE  FilesInv'
<1> DEFINE v == IF call[k].kind = "write" THEN None ELSE file
           x == [[call[k] EXCEPT !.phase = "checking"] EXCEPT !.read = v]
<1>1. /\ Runs(k) /\ Files!Granted(k) /\ call[k] \in Op /\ call[k].thread \in Thread
      /\ call[k].kind = "edit" => file # None
      /\ call[k].kind = "undo" =>
            file # None /\ undo[call[k].thread] # <<>> /\ Files!Unchanged(k)
      /\ UNCHANGED <<file, last, undo, made>>
  BY CallType DEF FilesInv, Files!Begin, Files!At, Runs
<1>2. v \in Files!Version \cup {None} /\ made' \in 1..MaxVersions
  BY <1>1 DEF FilesInv, Files!TypeOK
<1>3. x \in Op
  BY <1>1, <1>2, CallChanges
<1>4. call' = [call EXCEPT ![k] = x]
  BY <1>1 DEF Files!Begin, FilesInv, Files!TypeOK, Call
<1>5. /\ x.prev = call[k].prev /\ x.thread = call[k].thread /\ x.kind = call[k].kind
      /\ x.phase = "checking" /\ x.read = v
  BY <1>1 DEF Op, Files!Op
<1>6. ASSUME x.kind = "undo" PROVE file # None /\ file[1] = x.thread
  <2> DEFINE stack == undo[call[k].thread]
  <2>1. /\ stack \in Seq(Files!Entry) /\ stack # <<>>
        /\ \A i \in DOMAIN stack : stack[i].writtenContent[1] = call[k].thread
    BY <1>1, <1>5, <1>6 DEF FilesInv, Files!TypeOK, OwnEntries
  <2>2. Len(stack) \in DOMAIN stack
    BY <2>1, EmptySeq, LenProperties
  <2>3. file = stack[Len(stack)].writtenContent
    BY <1>1, <1>5, <1>6 DEF Files!Unchanged, Files!Top
  <2> QED
    BY <1>1, <1>5, <1>6, <2>1, <2>2, <2>3
<1>7. x.kind = "edit" => x.read \in Files!Version /\ file = x.read
  BY <1>1, <1>5 DEF FilesInv, Files!TypeOK
<1>8. x.kind = "undo" => undo[x.thread] # <<>>
  BY <1>1, <1>5
<1> HIDE DEF x, v
<1>9. HandStep(k, x)
  BY <1>1, <1>2, <1>4, <1>5, <1>6, <1>7, <1>8 DEF HandStep
<1> QED
  BY <1>3, <1>9, HandStepInv

LEMMA WritingInv ==
    ASSUME FilesInv, NEW k \in Call, Files!StartWriting(k)
    PROVE  FilesInv'
<1>1. InHand(k) /\ UNCHANGED <<file, last, undo>>
  BY DEF Files!StartWriting, Files!At, InHand, Runs
<1>2. /\ Runs(k) /\ Files!Granted(k) /\ call[k] \in Op /\ call[k].thread \in Thread
      /\ call[k].kind = "edit" => call[k].read \in Files!Version
      /\ call[k].kind = "undo" => undo[call[k].thread] # <<>>
      /\ ~call[k].disturbed => Files!EditsOnLatest(k) /\ Files!UndoesOwnWork(k)
  BY <1>1, HandFacts DEF FilesInv, HandlersSound, ReadIsCurrent, Call
<1>3. made \in 1..MaxVersions /\ MaxVersions \in Nat
  BY ComponentsAssumption DEF FilesInv, Files!TypeOK
<1>4. PICK v \in Files!Version :
          /\ call' = [call EXCEPT ![k] = [[call[k] EXCEPT !.phase = "writing"] EXCEPT !.out = v]]
          /\ call[k].kind = "edit" => v[1] = call[k].thread
          /\ made' \in 1..MaxVersions
  <2>1. CASE call[k].kind = "undo"
    <3> DEFINE stack == undo[call[k].thread]
    <3>1. stack \in Seq(Files!Entry) /\ stack # <<>>
      BY <1>1, <1>2, <2>1, HandFacts
    <3>2. Len(stack) \in DOMAIN stack
      BY <3>1, EmptySeq, LenProperties
    <3>3. stack[Len(stack)] \in Files!Entry
      BY <3>1, <3>2, ElementOfSeq, LenProperties
    <3>4. stack[Len(stack)].previousContent \in Files!Version
      BY <3>3 DEF Files!Entry
    <3>5. /\ call' = [call EXCEPT ![k] = [[call[k] EXCEPT !.phase = "writing"]
                                           EXCEPT !.out = stack[Len(stack)].previousContent]]
          /\ made' = made
      BY <1>2, <2>1 DEF Files!StartWriting, Files!Top, FilesInv, Files!TypeOK, Call
    <3> QED
      BY <1>3, <2>1, <3>4, <3>5
  <2>2. CASE call[k].kind # "undo"
    <3> DEFINE v == <<call[k].thread, made + 1>>
    <3>1. made + 1 \in 1..MaxVersions /\ made' = made + 1
      BY <1>3, <2>2 DEF Files!StartWriting
    <3>2. v \in Files!Version /\ v[1] = call[k].thread
      BY <1>2, <3>1 DEF Files!Version
    <3>3. call' = [call EXCEPT ![k] = [[call[k] EXCEPT !.phase = "writing"] EXCEPT !.out = v]]
      BY <1>2, <2>2 DEF Files!StartWriting, FilesInv, Files!TypeOK, Call
    <3> HIDE DEF v
    <3> QED
      BY <3>1, <3>2, <3>3
  <2> QED
    BY <2>1, <2>2
<1> DEFINE x == [[call[k] EXCEPT !.phase = "writing"] EXCEPT !.out = v]
<1>5. x \in Op
  BY <1>2, CallChanges
<1>6. /\ x.prev = call[k].prev /\ x.thread = call[k].thread /\ x.kind = call[k].kind
      /\ x.phase = "writing" /\ x.read = call[k].read /\ x.out = v
      /\ x.disturbed = call[k].disturbed
  BY <1>2 DEF Op, Files!Op
<1>7. call' = [call EXCEPT ![k] = x]
  BY <1>4
<1> HIDE DEF x
<1>8. HandStep(k, x)
  BY <1>1, <1>2, <1>4, <1>6, <1>7 DEF HandStep, Files!EditsOnLatest, Files!UndoesOwnWork
<1> QED
  BY <1>5, <1>8, HandStepInv

\* A call comes and waits.
LEMMA EnterInv ==
    ASSUME FilesInv, NEW k \in Call, NEW t \in Thread, NEW kind \in {"write", "edit", "undo"},
           Files!Enter(k, t, kind)
    PROVE  FilesInv'
<1> DEFINE x == [kind |-> kind, thread |-> t, prev |-> last, phase |-> "waiting",
                 read |-> None, out |-> None, disturbed |-> FALSE]
<1>1. /\ ~Runs(k) /\ last \in Call \cup {None} /\ call \in [Call -> Op \cup {None}]
      /\ call' = [call EXCEPT ![k] = x]
      /\ last' = k /\ UNCHANGED <<file, undo, made>>
  BY DEF FilesInv, Files!TypeOK, Files!Enter, Runs, Call, Op
<1>2. x \in Op
  BY <1>1 DEF Op, Files!Op, Call
<1>3. x.prev = last /\ x.phase = "waiting"
  OBVIOUS
<1> HIDE DEF x
<1>4. /\ call'[k] = x /\ \A j \in Call : j # k => call'[j] = call[j]
      /\ call' \in [Call -> Op \cup {None}]
  BY <1>1, <1>2
<1>5. Runs(k)' /\ \A j \in Call : InHand(j)' => j # k /\ InHand(j)
  BY <1>2, <1>3, <1>4, FilesNone DEF Runs, InHand
<1>6. Files!TypeOK'
  BY <1>1, <1>4 DEF FilesInv, Files!TypeOK, Call, Op
<1>7. LockIsQueue'
  BY <1>1, <1>3, <1>4, <1>5, QueueGrows DEF FilesInv
<1>8. HoldsLock' /\ HandlersSound' /\ ReadIsCurrent' /\ OwnEntries'
  BY <1>1, <1>4, <1>5
  DEF FilesInv, HoldsLock, HandlersSound, ReadIsCurrent, OwnEntries, Files!Granted,
      Files!EditsOnLatest, Files!UndoesOwnWork, Call
<1> QED
  BY <1>6, <1>7, <1>8 DEF FilesInv

\* Whoever knows of no lock disturbs those who hold it.
LEMMA DisturbedInv ==
    ASSUME FilesInv, Files!Delete \/ Files!OutsideWrite
    PROVE  FilesInv'
<1>1. call' = Files!Disturbed /\ UNCHANGED <<last, undo>>
  BY DEF Files!Delete, Files!OutsideWrite
<1>2. file' \in Files!Version \cup {None} /\ made' \in 1..MaxVersions
  <2>1. made \in 1..MaxVersions /\ MaxVersions \in Nat
    BY ComponentsAssumption DEF FilesInv, Files!TypeOK
  <2>2. CASE Files!Delete
    BY <2>1, <2>2 DEF Files!Delete
  <2>3. CASE Files!OutsideWrite
    <3>1. made + 1 \in 1..MaxVersions /\ made' = made + 1 /\ file' = <<None, made + 1>>
      BY <2>1, <2>3 DEF Files!OutsideWrite
    <3> QED
      BY <3>1 DEF Files!Version
  <2> QED
    BY <2>2, <2>3
<1>3. call \in [Call -> Op \cup {None}]
  BY DEF FilesInv, Files!TypeOK, Call, Op
<1>4. ASSUME NEW k \in Call
      PROVE  IF InHand(k) THEN /\ call'[k] \in Op /\ call'[k].disturbed
                               /\ call'[k].kind = call[k].kind /\ call'[k].thread = call[k].thread
                               /\ call'[k].prev = call[k].prev /\ call'[k].phase = call[k].phase
                               /\ call'[k].read = call[k].read /\ call'[k].out = call[k].out
                          ELSE call'[k] = call[k]
  <2>1. InHand(k) => call[k] \in Op
    BY HandFacts
  <2>2. InHand(k) <=> Files!At(k, "checking") \/ Files!At(k, "writing")
    BY <1>3, <2>1, CallType DEF InHand, Runs, Files!At, Op, Files!Op, FilesInv
  <2>3. call'[k] = IF InHand(k) THEN [call[k] EXCEPT !.disturbed = TRUE] ELSE call[k]
    BY <1>1, <2>2 DEF Files!Disturbed, Call
  <2> QED
    BY <2>1, <2>3 DEF Op, Files!Op
<1>5. \A k \in Call : /\ call'[k] \in Op \cup {None}
                      /\ Runs(k)' <=> Runs(k)
                      /\ Runs(k) => call'[k].prev = call[k].prev
                      /\ InHand(k)' <=> InHand(k)
  BY <1>3, <1>4, FilesNone DEF InHand, Runs
<1>6. Files!TypeOK'
  <2>1. call' \in [Call -> Op \cup {None}]
    BY <1>1, <1>5 DEF Files!Disturbed, Call
  <2> QED
    BY <1>1, <1>2, <2>1 DEF FilesInv, Files!TypeOK, Call, Op
<1>7. LockIsQueue'
  BY <1>1, <1>5, QueueKept DEF FilesInv
<1>8. HoldsLock' /\ ReadIsCurrent'
  BY <1>4, <1>5
  DEF FilesInv, HoldsLock, ReadIsCurrent, Files!Granted, Call
<1>9. HandlersSound' /\ OwnEntries'
  BY <1>1, <1>4, <1>5 DEF FilesInv, HandlersSound, OwnEntries, Call
<1> QED
  BY <1>6, <1>7, <1>8, <1>9 DEF FilesInv

LEMMA FilesNext == FilesInv /\ [Files!Next]_fileVars => FilesInv'
<1> SUFFICES ASSUME FilesInv, [Files!Next]_fileVars PROVE FilesInv'
  OBVIOUS
<1>1. ASSUME NEW k \in Files!Call, Files!Handler(k) PROVE FilesInv'
  BY <1>1, BeginHandler, EndsInv, WritingInv, RenameInv DEF Files!Handler, Call
<1>2. ASSUME NEW k \in Files!Call, NEW t \in Thread, NEW kind \in {"write", "edit", "undo"},
             Files!Enter(k, t, kind)
      PROVE  FilesInv'
  BY <1>2, EnterInv DEF Call
<1>3. CASE UNCHANGED fileVars
  <2>1. UNCHANGED <<file, call, last, undo, made>>
    BY <1>3 DEF fileVars
  <2>2. LockIsQueue'
    BY <2>1, QueueKept DEF FilesInv, Runs
  <2> QED
    BY <2>1, <2>2
    DEF FilesInv, Files!TypeOK, HoldsLock, OwnEntries, HandlersSound, ReadIsCurrent,
        InHand, Runs, Files!Granted, Files!EditsOnLatest, Files!UndoesOwnWork
<1> QED
  BY <1>1, <1>2, <1>3, DisturbedInv DEF Files!Next

LEMMA FilesInit == Files!Init => FilesInv
<1> SUFFICES ASSUME Files!Init PROVE FilesInv
  OBVIOUS
<1>1. \A k \in Call : ~Runs(k) /\ ~InHand(k)
  BY DEF Files!Init, Runs, InHand, Call
<1>2. \A t \in Thread : undo[t] = <<>> /\ Len(undo[t]) = 0 /\ DOMAIN undo[t] = {}
  BY DEF Files!Init
<1>3. Files!TypeOK
  <2>1. \A t \in Thread : undo[t] \in Seq(Files!Entry) /\ Len(undo[t]) <= MaxUndo
    <3>1. MaxUndo \in Nat /\ <<>> \in Seq(Files!Entry)
      BY ComponentsAssumption
    <3>2. 0 <= MaxUndo
      BY <3>1
    <3> QED
      BY <1>2, <3>1, <3>2, Zenon
  <2>2. 1 \in 1..MaxVersions
    BY ComponentsAssumption
  <2>3. file \in Files!Version
    BY <2>2 DEF Files!Init, Files!Version
  <2> QED
    BY <2>1, <2>2, <2>3 DEF Files!Init, Files!TypeOK
<1>4. LockIsQueue
  <2> DEFINE q == [i \in 1..0 |-> None]
  <2>1. q \in [1..0 -> Files!Call] /\ 0 \in Nat
    OBVIOUS
  <2>2. Queue(0, q)
    BY <1>1 DEF Queue, Files!Init, Call
  <2> QED
    BY <2>1, <2>2 DEF LockIsQueue
<1> QED
  BY <1>1, <1>2, <1>3, <1>4
  DEF FilesInv, HoldsLock, OwnEntries, HandlersSound, ReadIsCurrent, Call

-----------------------------------------------------------------------------
(* The tasks: their steps.                                                  *)

TaskRow == Tasks!Row
TaskRun == Tasks!Run

LEMMA TaskFacts ==
    ASSUME Tasks!TypeOK
    PROVE  /\ clock \in Nat /\ MaxClock \in Nat /\ clock <= MaxClock /\ clock \in Tasks!Time
           /\ None \notin Task /\ None \notin TaskRow /\ None \notin TaskRun
           /\ task \in [Task -> TaskRow \cup {None}]
           /\ run \in [Task -> TaskRun \cup {None}]
           /\ since \in [Task -> TaskRun \cup {None}]
           /\ \A t \in Task : Tasks!Exists(t) => task[t] \in TaskRow
           /\ \A t \in Task : run[t] # None => run[t] \in TaskRun
<1>1. clock \in 0..MaxClock /\ MaxClock \in Nat
  BY ComponentsAssumption DEF Tasks!TypeOK, Tasks!Time
<1> QED
  BY <1>1, ComponentsAssumption DEF Tasks!TypeOK, Tasks!Exists, TaskRow, TaskRun, Tasks!Time

\* The next time is one, also where local time is set back.
LEMMA NextRunAtsAreTimes ==
    ASSUME NEW s \in Tasks!Schedule, NEW from \in Nat
    PROVE  Tasks!NextRunAts(s, from) \subseteq Nat
<1>1. /\ Change \in Nat /\ Shift \in Int /\ Change + Shift >= 0 /\ MaxGap \in Nat
      /\ Interval \subseteq Nat \ {0}
  BY ComponentsAssumption
<1>2. CASE s = Cron
  BY <1>1, <1>2 DEF Tasks!NextRunAts
<1>3. CASE s # Cron
  <2>1. s \in Nat
    BY <1>1, <1>3 DEF Tasks!Schedule
  <2>2. Tasks!LocalOf(from) \in Int /\ Tasks!LocalOf(from) >= 0
    BY <1>1 DEF Tasks!LocalOf
  <2>3. Tasks!UtcOf(Tasks!LocalOf(from) + s) \in Nat
    BY <1>1, <2>1, <2>2 DEF Tasks!UtcOf
  <2> QED
    BY <1>3, <2>3 DEF Tasks!NextRunAts
<1> QED
  BY <1>2, <1>3

\* A step that is about one task leaves the others as they are.
LEMMA OthersKept ==
    ASSUME TasksInv, NEW t \in Task,
           \A u \in Task : u # t =>
               /\ task'[u] = task[u] /\ run'[u] = run[u] /\ since'[u] = since[u]
               /\ u \in cut' => u \in cut
               /\ u \in cut => u \in cut',
           RunSetsNext(t)', NextFollows(t)'
    PROVE  \A u \in Task : RunSetsNext(u)' /\ NextFollows(u)'
<1> SUFFICES ASSUME NEW u \in Task, u # t PROVE RunSetsNext(u)' /\ NextFollows(u)'
  OBVIOUS
<1>1. RunSetsNext(u) /\ NextFollows(u)
  BY DEF TasksInv
<1> QED
  BY <1>1 DEF RunSetsNext, NextFollows, Tasks!Exists

\* A step of nobody who walks the list.
LEMMA ListKept ==
    ASSUME TasksInv, UNCHANGED <<listed, ticking>>, used \subseteq used',
           clock' \in Nat, clock <= clock',
           \A u \in Task : /\ Tasks!Exists(u)' \/ run'[u] # None => u \in used'
                           /\ u \in used /\ u \in Tasks!Range(listed)
                                  /\ Tasks!Exists(u)' /\ u \notin stale' =>
                                 /\ Tasks!Exists(u) /\ u \notin stale
                                 /\ task'[u].next_run_at = task[u].next_run_at
    PROVE  IdsUsedOnce' /\ TickWalksList' /\ ListedIsDue'
<1>1. /\ \A i \in DOMAIN listed : listed[i] \in Task /\ listed[i] \in used
                                  /\ listed[i] \in Tasks!Range(listed)
      /\ clock \in Nat
  BY ElementOfSeq, LenProperties, TaskFacts
  DEF TasksInv, Tasks!TypeOK, IdsUsedOnce, Tasks!Range
<1>2. IdsUsedOnce' /\ TickWalksList'
  BY <1>1 DEF TasksInv, IdsUsedOnce, TickWalksList
<1>3. ListedIsDue'
  <2> SUFFICES ASSUME NEW i \in DOMAIN listed,
                      Tasks!Exists(listed[i])', listed[i] \notin stale'
               PROVE  task'[listed[i]].next_run_at <= clock'
    BY DEF ListedIsDue
  <2>1. PICK u \in Task : u = listed[i] /\ u \in used /\ u \in Tasks!Range(listed)
    BY <1>1
  <2>2. Tasks!Exists(u) /\ u \notin stale /\ task'[u].next_run_at = task[u].next_run_at
    BY <2>1 DEF Tasks!Exists
  <2>3. task[u].next_run_at \in Nat /\ task[u].next_run_at <= clock
    BY <2>1, <2>2, TaskFacts DEF TasksInv, ListedIsDue, TaskRow, Tasks!Row
  <2> QED
    BY <1>1, <2>1, <2>2, <2>3
<1> QED
  BY <1>2, <1>3

LEMMA TimePassesInv ==
    ASSUME TasksInv, Tasks!TimePasses
    PROVE  TasksInv'
<1>1. Tasks!TypeOK /\ \A t \in Task : Tasks!Exists(t) \/ run[t] # None => t \in used
  BY DEF TasksInv, IdsUsedOnce
<1>2. clock + 1 \in 0..MaxClock /\ clock + 1 \in Nat /\ clock <= clock + 1
  BY <1>1, TaskFacts DEF Tasks!TimePasses
<1>3. /\ clock' = clock + 1
      /\ UNCHANGED <<task, used, listed, ticking, run, since, cut, stale, edits, restarts>>
  BY DEF Tasks!TimePasses
<1>4. Tasks!TypeOK'
  BY <1>1, <1>2, <1>3 DEF Tasks!TypeOK, Tasks!Time
<1>5. IdsUsedOnce' /\ TickWalksList' /\ ListedIsDue'
  BY <1>1, <1>2, <1>3, ListKept DEF Tasks!Exists
<1>6. \A t \in Task : RunSetsNext(t)' /\ NextFollows(t)'
  BY <1>3 DEF TasksInv, RunSetsNext, NextFollows, Tasks!Exists
<1> QED
  BY <1>4, <1>5, <1>6 DEF TasksInv

LEMMA CreateInv ==
    ASSUME TasksInv, NEW t \in Task, NEW e \in BOOLEAN, NEW s \in Tasks!Schedule,
           Tasks!Create(t, e, s)
    PROVE  TasksInv'
<1>1. /\ Tasks!TypeOK /\ RunSetsNext(t) /\ \A u \in Task : Tasks!Exists(u) \/ run[u] # None => u \in used
  BY DEF TasksInv, IdsUsedOnce
<1>2. PICK n \in Tasks!NextRunAts(s, clock) :
          task' = [task EXCEPT ![t] = [enabled |-> e, schedule |-> s, next_run_at |-> n,
                                       last_status |-> "idle"]]
  BY DEF Tasks!Create
<1> DEFINE x == [enabled |-> e, schedule |-> s, next_run_at |-> n, last_status |-> "idle"]
           r == [schedule |-> s, startedAt |-> clock]
<1>3. /\ t \notin used /\ used' = used \cup {t} /\ since' = [since EXCEPT ![t] = r]
      /\ UNCHANGED <<clock, listed, ticking, run, cut, stale, edits, restarts>>
  BY DEF Tasks!Create
<1>4. n \in Nat
  BY <1>1, TaskFacts, NextRunAtsAreTimes
<1>5. x \in TaskRow /\ x.next_run_at = n
  BY <1>4 DEF TaskRow, Tasks!Row
<1>6. r \in TaskRun /\ r.schedule = s /\ r.startedAt = clock
  BY <1>1, TaskFacts DEF TaskRun, Tasks!Run
<1>7. task' = [task EXCEPT ![t] = x]
  BY <1>2
<1> HIDE DEF x, r
<1>8. /\ task'[t] = x /\ since'[t] = r
      /\ \A u \in Task : u # t => task'[u] = task[u] /\ since'[u] = since[u]
      /\ task' \in [Task -> TaskRow \cup {None}] /\ since' \in [Task -> TaskRun \cup {None}]
  BY <1>1, <1>3, <1>5, <1>6, <1>7, TaskFacts
<1>9. Tasks!TypeOK'
  BY <1>1, <1>3, <1>8 DEF Tasks!TypeOK, TaskRow, TaskRun
<1>10. IdsUsedOnce' /\ TickWalksList' /\ ListedIsDue'
  <2>1. clock' \in Nat /\ clock <= clock'
    BY <1>1, <1>3, TaskFacts
  <2>2. \A u \in Task : u \in used => u # t /\ task'[u] = task[u]
    BY <1>3, <1>8
  <2>3. \A u \in Task : Tasks!Exists(u)' \/ run'[u] # None => u \in used'
    BY <1>1, <1>3, <1>8 DEF Tasks!Exists
  <2> QED
    BY <1>3, <2>1, <2>2, <2>3, ListKept DEF Tasks!Exists
<1>11. RunSetsNext(t)'
  BY <1>1, <1>3 DEF RunSetsNext
<1>12. NextFollows(t)'
  BY <1>3, <1>5, <1>6, <1>8 DEF NextFollows
<1>13. \A u \in Task : RunSetsNext(u)' /\ NextFollows(u)'
  BY <1>3, <1>8, <1>11, <1>12, OthersKept
<1> QED
  BY <1>9, <1>10, <1>13 DEF TasksInv

LEMMA UpdateInv ==
    ASSUME TasksInv, NEW t \in Task, NEW e \in BOOLEAN,
           NEW c \in Tasks!Schedule \cup {None}, Tasks!Update(t, e, c)
    PROVE  TasksInv'
<1> DEFINE s == IF c = None THEN task[t].schedule ELSE c
           renews == Tasks!Renews(t, e, c)
<1>1. /\ Tasks!TypeOK /\ RunSetsNext(t) /\ NextFollows(t)
      /\ \A u \in Task : Tasks!Exists(u) \/ run[u] # None => u \in used
  BY DEF TasksInv, IdsUsedOnce
<1>2. /\ Tasks!Exists(t) /\ edits < MaxEdits /\ edits' = edits + 1
      /\ UNCHANGED <<clock, used, listed, ticking, run, restarts>>
  BY DEF Tasks!Update
<1>3. task[t] \in TaskRow /\ t \in used
  BY <1>1, <1>2, TaskFacts
<1>4. s \in Tasks!Schedule
  BY <1>3 DEF TaskRow, Tasks!Row
<1>5. PICK n \in IF renews THEN Tasks!NextRunAts(s, clock) ELSE {task[t].next_run_at} :
          task' = Tasks!Edited(t, e, s, n)
  BY DEF Tasks!Update
<1>6. /\ IF renews /\ run[t] = None
         THEN /\ since' = [since EXCEPT ![t] = [schedule |-> s, startedAt |-> clock]]
              /\ cut' = cut \ {t}
         ELSE UNCHANGED <<since, cut>>
      /\ stale' = IF renews THEN stale \cup ({t} \cap Tasks!Range(listed)) ELSE stale
  BY DEF Tasks!Update
<1> HIDE DEF s, renews
<1>7. n \in Nat
  BY <1>1, <1>3, <1>4, <1>5, TaskFacts, NextRunAtsAreTimes DEF TaskRow, Tasks!Row
<1> DEFINE x == [[[task[t] EXCEPT !.enabled = e] EXCEPT !.schedule = s] EXCEPT !.next_run_at = n]
           r == [schedule |-> s, startedAt |-> clock]
<1>8. /\ x \in TaskRow /\ x.next_run_at = n
      /\ x = [task[t] EXCEPT !.enabled = e, !.schedule = s, !.next_run_at = n]
  BY <1>3, <1>4, <1>7 DEF TaskRow, Tasks!Row
<1>9. r \in TaskRun /\ r.schedule = s /\ r.startedAt = clock
  BY <1>1, <1>4, TaskFacts DEF TaskRun, Tasks!Run
<1>10. /\ task' = [task EXCEPT ![t] = x]
       /\ since' = since \/ since' = [since EXCEPT ![t] = r]
  BY <1>5, <1>6, <1>8 DEF Tasks!Edited
<1>11. renews /\ run[t] = None => since' = [since EXCEPT ![t] = r] /\ cut' = cut \ {t}
  BY <1>6
<1> HIDE DEF x, r
<1>12. /\ task'[t] = x
       /\ \A u \in Task : u # t => task'[u] = task[u] /\ since'[u] = since[u]
       /\ task' \in [Task -> TaskRow \cup {None}] /\ since' \in [Task -> TaskRun \cup {None}]
  BY <1>1, <1>8, <1>9, <1>10, TaskFacts
<1>13. Tasks!TypeOK'
  <2>1. edits' \in 0..MaxEdits
    BY <1>1, <1>2, ComponentsAssumption DEF Tasks!TypeOK
  <2>2. cut' \subseteq Task /\ stale' \subseteq Task
    BY <1>1, <1>6 DEF Tasks!TypeOK
  <2> QED
    BY <1>1, <1>2, <1>12, <2>1, <2>2 DEF Tasks!TypeOK, TaskRow, TaskRun
<1>14. IdsUsedOnce' /\ TickWalksList' /\ ListedIsDue'
  <2>1. clock' \in Nat /\ clock <= clock'
    BY <1>1, <1>2, TaskFacts
  <2>2. \A u \in Task : Tasks!Exists(u)' \/ run'[u] # None => u \in used'
    BY <1>1, <1>2, <1>3, <1>12 DEF Tasks!Exists
  <2>3. ASSUME NEW u \in Task, u \in Tasks!Range(listed), Tasks!Exists(u)', u \notin stale'
        PROVE  Tasks!Exists(u) /\ u \notin stale /\ task'[u].next_run_at = task[u].next_run_at
    <3>1. CASE u # t
      BY <1>6, <1>12, <2>3, <3>1 DEF Tasks!Exists
    <3>2. CASE u = t
      <4>1. ~renews /\ u \notin stale
        BY <1>6, <2>3, <3>2
      <4>2. n = task[t].next_run_at
        BY <1>5, <4>1
      <4> QED
        BY <1>2, <1>8, <1>12, <3>2, <4>1, <4>2
    <3> QED
      BY <3>1, <3>2
  <2> QED
    BY <1>2, <2>1, <2>2, <2>3, ListKept
<1>15. RunSetsNext(t)'
  <2>1. CASE renews /\ run[t] = None
    BY <1>2, <2>1 DEF RunSetsNext
  <2>2. CASE ~(renews /\ run[t] = None)
    BY <1>1, <1>2, <1>6, <2>2 DEF RunSetsNext
  <2> QED
    BY <2>1, <2>2
<1>16. NextFollows(t)'
  <2>1. CASE renews /\ run[t] = None
    <3>1. since'[t] = r
      BY <1>1, <1>11, <2>1, TaskFacts
    <3>2. task'[t].next_run_at \in Tasks!NextRunAts(s, clock)
      BY <1>5, <1>8, <1>12, <2>1
    <3> QED
      BY <1>9, <3>1, <3>2 DEF NextFollows
  <2>2. CASE run[t] # None
    BY <1>2, <2>2 DEF NextFollows
  <2>3. CASE ~renews
    <3>1. task'[t].next_run_at = task[t].next_run_at /\ UNCHANGED <<since, cut, run>>
      BY <1>2, <1>5, <1>6, <1>8, <1>12, <2>3
    <3> QED
      BY <1>1, <1>2, <3>1 DEF NextFollows
  <2> QED
    BY <2>1, <2>2, <2>3
<1>17. \A u \in Task : RunSetsNext(u)' /\ NextFollows(u)'
  BY <1>2, <1>6, <1>12, <1>15, <1>16, OthersKept
<1> QED
  BY <1>13, <1>14, <1>17 DEF TasksInv

LEMMA DeleteTaskInv ==
    ASSUME TasksInv, NEW t \in Task, Tasks!Delete(t)
    PROVE  TasksInv'
<1>1. /\ Tasks!TypeOK /\ RunSetsNext(t)
      /\ \A u \in Task : Tasks!Exists(u) \/ run[u] # None => u \in used
  BY DEF TasksInv, IdsUsedOnce
<1>2. /\ task' = [task EXCEPT ![t] = None]
      /\ UNCHANGED <<clock, used, listed, ticking, run, since, cut, stale, edits, restarts>>
  BY DEF Tasks!Delete
<1>3. /\ task'[t] = None /\ \A u \in Task : u # t => task'[u] = task[u]
      /\ task' \in [Task -> TaskRow \cup {None}]
  BY <1>1, <1>2, TaskFacts
<1>4. Tasks!TypeOK'
  BY <1>1, <1>2, <1>3 DEF Tasks!TypeOK, TaskRow
<1>5. IdsUsedOnce' /\ TickWalksList' /\ ListedIsDue'
  <2>1. clock' \in Nat /\ clock <= clock'
    BY <1>1, <1>2, TaskFacts
  <2>2. \A u \in Task : Tasks!Exists(u)' => Tasks!Exists(u) /\ task'[u] = task[u]
    BY <1>3 DEF Tasks!Exists
  <2> QED
    BY <1>1, <1>2, <2>1, <2>2, ListKept
<1>6. RunSetsNext(t)' /\ NextFollows(t)'
  BY <1>1, <1>2, <1>3 DEF RunSetsNext, NextFollows, Tasks!Exists
<1>7. \A u \in Task : RunSetsNext(u)' /\ NextFollows(u)'
  BY <1>2, <1>3, <1>6, OthersKept
<1> QED
  BY <1>4, <1>5, <1>7 DEF TasksInv

\* The start of a run of a task, by hand or by the tick.
LEMMA BeginFacts ==
    ASSUME TasksInv, NEW t \in Task, Tasks!Exists(t), Tasks!Begin(t)
    PROVE  /\ task' \in [Task -> TaskRow \cup {None}] /\ run' \in [Task -> TaskRun \cup {None}]
           /\ since' \in [Task -> TaskRun \cup {None}] /\ cut' = cut \ {t} /\ run'[t] # None
           /\ task'[t] \in TaskRow /\ task'[t].next_run_at = task[t].next_run_at
           /\ \A u \in Task : Tasks!Exists(u)' <=> Tasks!Exists(u)
           /\ \A u \in Task : u # t =>
                 task'[u] = task[u] /\ run'[u] = run[u] /\ since'[u] = since[u]
           /\ \A u \in Task : RunSetsNext(u)' /\ NextFollows(u)'
<1> DEFINE x == [task[t] EXCEPT !.last_status = "running"]
           r == [schedule |-> task[t].schedule, startedAt |-> clock]
<1>1. Tasks!TypeOK
  BY DEF TasksInv
<1>2. task[t] \in TaskRow /\ clock \in Tasks!Time
  BY <1>1, TaskFacts
<1>3. x \in TaskRow /\ x.next_run_at = task[t].next_run_at
  BY <1>2 DEF TaskRow, Tasks!Row
<1>4. r \in TaskRun
  BY <1>2 DEF TaskRow, Tasks!Row, TaskRun, Tasks!Run
<1>5. /\ task' = [task EXCEPT ![t] = x] /\ run' = [run EXCEPT ![t] = r]
      /\ since' = [since EXCEPT ![t] = r] /\ cut' = cut \ {t}
  BY DEF Tasks!Begin
<1> HIDE DEF x, r
<1>6. x # None /\ r # None
  BY <1>1, <1>3, <1>4, TaskFacts
<1>7. /\ task'[t] = x /\ run'[t] = r /\ since'[t] = r
      /\ task' \in [Task -> TaskRow \cup {None}] /\ run' \in [Task -> TaskRun \cup {None}]
      /\ since' \in [Task -> TaskRun \cup {None}]
      /\ \A u \in Task : u # t => task'[u] = task[u] /\ run'[u] = run[u] /\ since'[u] = since[u]
  BY <1>1, <1>3, <1>4, <1>5, TaskFacts
<1>8. RunSetsNext(t)' /\ NextFollows(t)'
  BY <1>5, <1>6, <1>7 DEF RunSetsNext, NextFollows
<1>9. \A u \in Task : RunSetsNext(u)' /\ NextFollows(u)'
  BY <1>5, <1>7, <1>8, OthersKept
<1>10. \A u \in Task : Tasks!Exists(u)' <=> Tasks!Exists(u)
  BY <1>6, <1>7 DEF Tasks!Exists
<1> QED
  BY <1>3, <1>5, <1>6, <1>7, <1>9, <1>10

LEMMA RunByHandInv ==
    ASSUME TasksInv, NEW t \in Task, Tasks!RunByHand(t)
    PROVE  TasksInv'
<1>1. /\ Tasks!TypeOK
      /\ \A u \in Task : Tasks!Exists(u) \/ run[u] # None => u \in used
  BY DEF TasksInv, IdsUsedOnce
<1>2. /\ Tasks!Exists(t) /\ Tasks!Begin(t) /\ edits < MaxEdits /\ edits' = edits + 1
      /\ UNCHANGED <<clock, used, listed, ticking, stale, restarts>>
  BY DEF Tasks!RunByHand
<1>3. Tasks!TypeOK'
  <2>1. edits' \in 0..MaxEdits
    BY <1>1, <1>2, ComponentsAssumption DEF Tasks!TypeOK
  <2>2. /\ task' \in [Task -> TaskRow \cup {None}] /\ run' \in [Task -> TaskRun \cup {None}]
        /\ since' \in [Task -> TaskRun \cup {None}] /\ cut' = cut \ {t}
    BY <1>2, BeginFacts
  <2> QED
    BY <1>1, <1>2, <2>1, <2>2 DEF Tasks!TypeOK, TaskRow, TaskRun
<1>4. IdsUsedOnce' /\ TickWalksList' /\ ListedIsDue'
  <2>1. clock' \in Nat /\ clock <= clock'
    BY <1>1, <1>2, TaskFacts
  <2>2. \A u \in Task : /\ Tasks!Exists(u)' <=> Tasks!Exists(u)
                        /\ u # t => task'[u] = task[u] /\ run'[u] = run[u]
    BY <1>2, BeginFacts
  <2>3. task'[t].next_run_at = task[t].next_run_at /\ t \in used
    BY <1>1, <1>2, BeginFacts
  <2>4. \A u \in Task : Tasks!Exists(u)' \/ run'[u] # None => u \in used'
    BY <1>1, <1>2, <2>2, <2>3
  <2>5. \A u \in Task : task'[u].next_run_at = task[u].next_run_at
    BY <2>2, <2>3
  <2> QED
    BY <1>2, <2>1, <2>2, <2>4, <2>5, ListKept
<1>5. \A u \in Task : RunSetsNext(u)' /\ NextFollows(u)'
  BY <1>2, BeginFacts
<1> QED
  BY <1>3, <1>4, <1>5 DEF TasksInv

LEMMA EditsInv ==
    ASSUME TasksInv, Tasks!Edit
    PROVE  TasksInv'
BY CreateInv, UpdateInv, DeleteTaskInv, RunByHandInv DEF Tasks!Edit

\* The list of a tick: what was due, each task once.
LEMMA TickInv ==
    ASSUME TasksInv, Tasks!Tick
    PROVE  TasksInv'
<1> DEFINE S == {t \in Task : Tasks!Due(t)}
<1>1. PICK s \in Tasks!SetToSeqs(S) : listed' = s /\ s # <<>>
  BY DEF Tasks!Tick
<1>2. /\ listed = <<>>
      /\ UNCHANGED <<clock, task, used, ticking, run, since, cut, stale, edits, restarts>>
  BY DEF Tasks!Tick
<1>3. Cardinality(S) \in Nat
  BY ComponentsAssumption, FS_Subset, FS_CardinalityType
<1>4. s \in [1..Cardinality(S) -> S] /\ \A i, j \in 1..Cardinality(S) : i # j => s[i] # s[j]
  BY <1>1 DEF Tasks!SetToSeqs, Tasks!Cardinality, Cardinality
<1>5. s \in Seq(Task) /\ DOMAIN s = 1..Cardinality(S)
  BY <1>3, <1>4
<1>6. \A i \in DOMAIN s : s[i] \in Task /\ Tasks!Due(s[i])
  BY <1>4, <1>5
<1>7. ticking = None
  BY <1>2 DEF TasksInv, TickWalksList
<1>8. Tasks!TypeOK'
  BY <1>1, <1>2, <1>5 DEF TasksInv, Tasks!TypeOK
<1>9. IdsUsedOnce' /\ ListedIsDue'
  BY <1>1, <1>2, <1>6 DEF TasksInv, IdsUsedOnce, ListedIsDue, Tasks!Due, Tasks!Exists
<1>10. TickWalksList'
  BY <1>1, <1>2, <1>4, <1>5, <1>7 DEF TickWalksList
<1>11. \A t \in Task : RunSetsNext(t)' /\ NextFollows(t)'
  BY <1>2 DEF TasksInv, RunSetsNext, NextFollows, Tasks!Exists
<1> QED
  BY <1>8, <1>9, <1>10, <1>11 DEF TasksInv

LEMMA HeadFacts ==
    ASSUME TasksInv, listed # <<>>
    PROVE  /\ Head(listed) \in Task /\ Head(listed) = listed[1] /\ 1 \in DOMAIN listed
           /\ Tail(listed) \in Seq(Task)
           /\ \A i \in DOMAIN Tail(listed) :
                 i + 1 \in DOMAIN listed /\ Tail(listed)[i] = listed[i + 1]
           /\ \A i \in DOMAIN listed : listed[i] \in Task
           /\ \A i \in DOMAIN Tail(listed) : Tail(listed)[i] # Head(listed)
<1>1. listed \in Seq(Task) /\ \A i, j \in DOMAIN listed : listed[i] = listed[j] => i = j
  BY DEF TasksInv, Tasks!TypeOK, TickWalksList
<1>2. DOMAIN listed = 1..Len(listed) /\ Len(listed) \in Nat \ {0}
  BY <1>1, EmptySeq, LenProperties
<1>3. /\ Head(listed) = listed[1] /\ Tail(listed) \in Seq(Task)
      /\ Len(Tail(listed)) = Len(listed) - 1
      /\ \A i \in 1..Len(Tail(listed)) : Tail(listed)[i] = listed[i + 1]
  BY <1>1, HeadTailProperties
<1>4. \A i \in DOMAIN listed : listed[i] \in Task
  BY <1>1, <1>2, ElementOfSeq
<1>5. DOMAIN Tail(listed) = 1..Len(Tail(listed))
  BY <1>3, LenProperties
<1>6. \A i \in DOMAIN Tail(listed) : i \in Nat /\ i + 1 \in DOMAIN listed /\ i + 1 # 1
  BY <1>2, <1>3, <1>5
<1> QED
  BY <1>1, <1>2, <1>3, <1>4, <1>5, <1>6

\* The list goes on without its head.
LEMMA TailInv ==
    ASSUME TasksInv, listed # <<>>, listed' = Tail(listed), used' = used
    PROVE  /\ listed' \in Seq(Task)
           /\ \A i \in DOMAIN listed' : listed'[i] \in used /\ listed'[i] # Head(listed)
           /\ \A i, j \in DOMAIN listed' : listed'[i] = listed'[j] => i = j
           /\ \A i \in DOMAIN listed' : /\ listed'[i] \in Task
                                        /\ \E j \in DOMAIN listed : listed'[i] = listed[j]
<1>1. \A i, j \in DOMAIN listed : listed[i] = listed[j] => i = j
  BY DEF TasksInv, TickWalksList
<1>2. \A i \in DOMAIN listed : listed[i] \in used
  BY DEF TasksInv, IdsUsedOnce
<1>3. DOMAIN Tail(listed) \subseteq Nat
  BY HeadFacts, LenProperties
<1>4. \A i, j \in DOMAIN listed' : listed'[i] = listed'[j] => i + 1 = j + 1
  BY <1>1, HeadFacts
<1>5. \A i, j \in DOMAIN listed' : i + 1 = j + 1 => i = j
  BY <1>3
<1> QED
  BY <1>2, <1>4, <1>5, HeadFacts

LEMMA SkipInv ==
    ASSUME TasksInv, Tasks!SkipListed
    PROVE  TasksInv'
<1>1. /\ listed # <<>> /\ ticking = None /\ listed' = Tail(listed)
      /\ stale' = stale \ {Head(listed)}
      /\ UNCHANGED <<clock, task, used, ticking, run, since, cut, edits, restarts>>
  BY DEF Tasks!SkipListed
<1>2. Tasks!TypeOK'
  BY <1>1, TailInv DEF TasksInv, Tasks!TypeOK
<1>3. IdsUsedOnce' /\ TickWalksList'
  BY <1>1, TailInv DEF TasksInv, IdsUsedOnce, TickWalksList, Tasks!Exists
<1>4. \A t \in Task : RunSetsNext(t)' /\ NextFollows(t)'
  BY <1>1 DEF TasksInv, RunSetsNext, NextFollows, Tasks!Exists
<1>5. ListedIsDue'
  BY <1>1, TailInv DEF TasksInv, ListedIsDue, Tasks!Exists
<1> QED
  BY <1>2, <1>3, <1>4, <1>5 DEF TasksInv

LEMMA StartInv ==
    ASSUME TasksInv, Tasks!StartListed
    PROVE  TasksInv'
<1>1. PICK t \in Task :
         /\ t = Head(listed) /\ listed # <<>> /\ ticking = None /\ ticking' = t
         /\ Tasks!Exists(t) /\ Tasks!Begin(t)
         /\ UNCHANGED <<clock, used, listed, stale, edits, restarts>>
  BY HeadFacts DEF Tasks!StartListed, Tasks!Startable
<1>2. Tasks!TypeOK /\ t \in used
  BY <1>1 DEF TasksInv, IdsUsedOnce
<1>3. Tasks!TypeOK'
  <2>1. /\ task' \in [Task -> TaskRow \cup {None}] /\ run' \in [Task -> TaskRun \cup {None}]
        /\ since' \in [Task -> TaskRun \cup {None}] /\ cut' = cut \ {t}
    BY <1>1, BeginFacts
  <2> QED
    BY <1>1, <1>2, <2>1 DEF Tasks!TypeOK, TaskRow, TaskRun
<1>4. /\ \A u \in Task : Tasks!Exists(u)' <=> Tasks!Exists(u)
      /\ \A u \in Task : u # t => run'[u] = run[u]
      /\ \A u \in Task : task'[u].next_run_at = task[u].next_run_at
  BY <1>1, BeginFacts
<1>5. IdsUsedOnce' /\ TickWalksList'
  BY <1>1, <1>2, <1>4 DEF TasksInv, IdsUsedOnce, TickWalksList
<1>6. ListedIsDue'
  <2>1. \A i \in DOMAIN listed : listed[i] \in Task
    BY <1>1, HeadFacts
  <2> QED
    BY <1>1, <1>4, <2>1 DEF TasksInv, ListedIsDue
<1>7. \A u \in Task : RunSetsNext(u)' /\ NextFollows(u)'
  BY <1>1, BeginFacts
<1> QED
  BY <1>3, <1>5, <1>6, <1>7 DEF TasksInv

\* The end of a run writes the next time from what the run captured.
LEMMA WrittenFacts ==
    ASSUME TasksInv, NEW t \in Task, NEW status \in {"success", "error"},
           Tasks!EndRun(t, status)
    PROVE  /\ task' \in [Task -> TaskRow \cup {None}] /\ run' \in [Task -> TaskRun \cup {None}]
           /\ run'[t] = None
           /\ \A u \in Task : u # t => task'[u] = task[u] /\ run'[u] = run[u]
           /\ \A u \in Task : Tasks!Exists(u)' <=> Tasks!Exists(u)
           /\ \A u \in Task : RunSetsNext(u)' /\ NextFollows(u)'
<1>1. /\ run[t] # None /\ run' = [run EXCEPT ![t] = None]
      /\ UNCHANGED <<clock, used, since, cut, edits, restarts>>
  BY DEF Tasks!EndRun
<1>2. PICK n \in Tasks!NextRunAts(run[t].schedule, run[t].startedAt) :
          task' = Tasks!Written(t, status, n)
  BY DEF Tasks!EndRun
<1>3. Tasks!TypeOK /\ RunSetsNext(t) /\ run[t] \in TaskRun
  BY <1>1, TaskFacts DEF TasksInv
<1>4. n \in Nat
  BY <1>3, NextRunAtsAreTimes DEF TaskRun, Tasks!Run, Tasks!Time
<1>5. /\ run' \in [Task -> TaskRun \cup {None}] /\ run'[t] = None
      /\ \A u \in Task : u # t => run'[u] = run[u]
  BY <1>1, <1>3, TaskFacts
<1>6. CASE ~Tasks!Exists(t)
  <2>1. task' = task
    BY <1>2, <1>6 DEF Tasks!Written
  <2>2. RunSetsNext(t)' /\ NextFollows(t)'
    BY <1>5, <1>6, <2>1 DEF RunSetsNext, NextFollows, Tasks!Exists
  <2>3. \A u \in Task : RunSetsNext(u)' /\ NextFollows(u)'
    BY <1>1, <1>5, <2>1, <2>2, OthersKept
  <2>4. task' \in [Task -> TaskRow \cup {None}]
    BY <1>3, <2>1, TaskFacts
  <2> QED
    BY <1>5, <2>1, <2>3, <2>4 DEF Tasks!Exists
<1>7. CASE Tasks!Exists(t)
  <2> DEFINE x == [[task[t] EXCEPT !.next_run_at = n] EXCEPT !.last_status = status]
  <2>1. task[t] \in TaskRow
    BY <1>3, <1>7, TaskFacts
  <2>2. /\ x \in TaskRow /\ x.next_run_at = n
        /\ x = [task[t] EXCEPT !.next_run_at = n, !.last_status = status]
    BY <1>4, <2>1 DEF TaskRow, Tasks!Row
  <2>3. task' = [task EXCEPT ![t] = x]
    BY <1>2, <1>7, <2>2 DEF Tasks!Written
  <2> HIDE DEF x
  <2>4. /\ task'[t] = x /\ \A u \in Task : u # t => task'[u] = task[u]
        /\ task' \in [Task -> TaskRow \cup {None}] /\ x # None
    BY <1>3, <2>2, <2>3, TaskFacts
  <2>5. since'[t] = run[t] /\ t \notin cut'
    BY <1>1, <1>3 DEF RunSetsNext
  <2>6. RunSetsNext(t)' /\ NextFollows(t)'
    BY <1>2, <1>5, <2>2, <2>4, <2>5 DEF RunSetsNext, NextFollows
  <2>7. \A u \in Task : RunSetsNext(u)' /\ NextFollows(u)'
    BY <1>1, <1>5, <2>4, <2>6, OthersKept
  <2> QED
    BY <1>5, <1>7, <2>4, <2>7 DEF Tasks!Exists
<1> QED
  BY <1>6, <1>7

LEMMA EndRunInv ==
    ASSUME TasksInv, NEW t \in Task, NEW status \in {"success", "error"},
           Tasks!EndRun(t, status)
    PROVE  TasksInv'
<1>1. /\ IF ticking = t
         THEN ticking' = None /\ listed' = Tail(listed) /\ stale' = stale \ {t}
         ELSE stale' = stale \cup ({t} \cap Tasks!Range(listed)) /\ UNCHANGED <<ticking, listed>>
      /\ UNCHANGED <<clock, used, since, cut, edits, restarts>>
  BY DEF Tasks!EndRun
<1>2. Tasks!TypeOK /\ \A u \in Task : Tasks!Exists(u) \/ run[u] # None => u \in used
  BY DEF TasksInv, IdsUsedOnce
<1>3. /\ task' \in [Task -> TaskRow \cup {None}] /\ run' \in [Task -> TaskRun \cup {None}]
      /\ run'[t] = None
      /\ \A u \in Task : u # t => task'[u] = task[u] /\ run'[u] = run[u]
      /\ \A u \in Task : Tasks!Exists(u)' <=> Tasks!Exists(u)
  BY WrittenFacts
<1>4. \A u \in Task : RunSetsNext(u)' /\ NextFollows(u)'
  BY WrittenFacts
<1>5. \A u \in Task : Tasks!Exists(u)' \/ run'[u] # None => u \in used'
  BY <1>1, <1>2, <1>3
<1>6. CASE ticking = t
  <2>1. listed # <<>> /\ t = Head(listed) /\ ticking' = None /\ listed' = Tail(listed)
        /\ stale' = stale \ {t}
    BY <1>1, <1>2, <1>6, TaskFacts DEF TasksInv, TickWalksList
  <2>2. Tasks!TypeOK'
    <3>1. listed' \in Seq(Task)
      BY <1>1, <2>1, TailInv
    <3> QED
      BY <1>1, <1>2, <1>3, <2>1, <3>1 DEF Tasks!TypeOK, TaskRun, TaskRow
  <2>3. IdsUsedOnce' /\ TickWalksList'
    BY <1>1, <1>5, <2>1, TailInv DEF IdsUsedOnce, TickWalksList
  <2>4. ListedIsDue'
    <3> SUFFICES ASSUME NEW i \in DOMAIN listed',
                        Tasks!Exists(listed[i])', listed'[i] \notin stale'
                 PROVE  task'[listed'[i]].next_run_at <= clock'
      BY DEF ListedIsDue
    <3>1. \A k \in DOMAIN listed' : /\ listed'[k] \in Task /\ listed'[k] # t
                                    /\ \E j \in DOMAIN listed : listed'[k] = listed[j]
      BY <1>1, <2>1, TailInv
    <3>2. PICK u \in Task : u = listed'[i] /\ u # t /\ \E j \in DOMAIN listed : u = listed[j]
      BY <3>1
    <3>3. Tasks!Exists(u)' /\ u \notin stale'
      BY <3>2 DEF Tasks!Exists
    <3>4. Tasks!Exists(u) /\ u \notin stale /\ task'[u] = task[u]
      BY <1>3, <2>1, <3>2, <3>3
    <3>5. task[u].next_run_at <= clock
      BY <3>2, <3>4 DEF TasksInv, ListedIsDue
    <3> QED
      BY <1>1, <3>2, <3>4, <3>5
  <2> QED
    BY <1>4, <2>2, <2>3, <2>4 DEF TasksInv
<1>7. CASE ticking # t
  <2>1. /\ stale' = stale \cup ({t} \cap Tasks!Range(listed))
        /\ UNCHANGED <<ticking, listed>>
    BY <1>1, <1>7
  <2>2. Tasks!TypeOK'
    BY <1>1, <1>2, <1>3, <2>1 DEF Tasks!TypeOK, TaskRun, TaskRow
  <2>3. \A u \in Task : u \in Tasks!Range(listed) /\ Tasks!Exists(u)' /\ u \notin stale' =>
            Tasks!Exists(u) /\ u \notin stale /\ task'[u].next_run_at = task[u].next_run_at
    BY <1>3, <2>1
  <2>4. clock' \in Nat /\ clock <= clock'
    BY <1>1, <1>2, TaskFacts
  <2>5. IdsUsedOnce' /\ TickWalksList' /\ ListedIsDue'
    BY <1>1, <1>5, <2>1, <2>3, <2>4, ListKept
  <2> QED
    BY <1>4, <2>2, <2>5 DEF TasksInv
<1> QED
  BY <1>6, <1>7

LEMMA RestartTasksInv ==
    ASSUME TasksInv, Tasks!Restart
    PROVE  TasksInv'
<1>1. /\ listed' = <<>> /\ ticking' = None /\ run' = [t \in Task |-> None] /\ stale' = {}
      /\ cut' = cut \cup {t \in Task : run[t] # None}
      /\ restarts < MaxRestarts /\ restarts' = restarts + 1
      /\ UNCHANGED <<clock, task, used, since, edits>>
  BY DEF Tasks!Restart
<1>2. restarts + 1 \in 0..MaxRestarts
  BY <1>1, ComponentsAssumption DEF TasksInv, Tasks!TypeOK
<1>3. Tasks!TypeOK'
  BY <1>1, <1>2 DEF TasksInv, Tasks!TypeOK
<1>4. DOMAIN listed' = {} /\ \A t \in Task : run'[t] = None
  BY <1>1
<1>5. IdsUsedOnce' /\ TickWalksList' /\ ListedIsDue'
  BY <1>1, <1>4 DEF TasksInv, IdsUsedOnce, TickWalksList, ListedIsDue, Tasks!Exists
<1>6. \A t \in Task : RunSetsNext(t)' /\ NextFollows(t)'
  BY <1>1, <1>4 DEF TasksInv, RunSetsNext, NextFollows, Tasks!Exists
<1> QED
  BY <1>3, <1>5, <1>6 DEF TasksInv

LEMMA TasksNext == TasksInv /\ [Tasks!Next]_taskVars => TasksInv'
<1> SUFFICES ASSUME TasksInv, [Tasks!Next]_taskVars PROVE TasksInv'
  OBVIOUS
<1>1. ASSUME NEW t \in Task, Tasks!RunEnds(t) PROVE TasksInv'
  BY <1>1, EndRunInv DEF Tasks!RunEnds
<1>2. CASE UNCHANGED taskVars
  BY <1>2
  DEF taskVars, TasksInv, Tasks!TypeOK, IdsUsedOnce, TickWalksList, ListedIsDue,
      RunSetsNext, NextFollows, Tasks!Exists
<1> QED
  BY <1>1, <1>2, TimePassesInv, EditsInv, RestartTasksInv, TickInv, StartInv, SkipInv
  DEF Tasks!Next

LEMMA TasksInit == Tasks!Init => TasksInv
<1> SUFFICES ASSUME Tasks!Init PROVE TasksInv
  OBVIOUS
<1>1. /\ \A t \in Task : ~Tasks!Exists(t) /\ run[t] = None
      /\ listed = <<>> /\ DOMAIN listed = {} /\ ticking = None
  BY DEF Tasks!Init, Tasks!Exists
<1>2. Tasks!TypeOK
  <2>1. 0 \in 0..MaxClock /\ 0 \in 0..MaxEdits /\ 0 \in 0..MaxRestarts
    BY ComponentsAssumption
  <2> QED
    BY <2>1 DEF Tasks!Init, Tasks!TypeOK, Tasks!Time
<1> QED
  BY <1>1, <1>2
  DEF TasksInv, IdsUsedOnce, TickWalksList, ListedIsDue, RunSetsNext, NextFollows

-----------------------------------------------------------------------------
(* Together.                                                                *)

LEMMA ComponentsStart == ComponentsInit => ComponentsInv
BY InitInv, TasksInit, DaemonInit, FilesInit DEF ComponentsInit, ComponentsInv

\* A step of one component is a step, or no step, of each.
LEMMA StepOfEach ==
    [ComponentsNext]_components =>
        /\ [Next]_vars /\ [Tasks!Next]_taskVars
        /\ [Daemon!Next]_daemonVars /\ [Files!Next]_fileVars
BY DEF ComponentsNext, components

LEMMA ComponentsStep == ComponentsInv /\ [ComponentsNext]_components => ComponentsInv'
BY StepOfEach, NextInv, TasksNext, DaemonNext, FilesNext DEF ComponentsInv

\* The invariants above hold whatever steps the components take.
THEOREM ComponentsInvariance == ComponentsSpec => []ComponentsInv
BY ComponentsStart, ComponentsStep, PTL DEF ComponentsSpec

\* The states of the awaiters, the tasks, the embedded daemon and the file tools
\* are well formed.
THEOREM ComponentsTypeCorrect == ComponentsSpec => []ComponentsTypeOK
<1>1. ComponentsInv => ComponentsTypeOK
  BY DEF ComponentsInv, IInv, TasksInv, DaemonInv, FilesInv, ComponentsTypeOK
<1> QED
  BY <1>1, ComponentsInvariance, PTL

\* Stop reaches every server of the process, no start is swallowed by the promise
\* of one that is over, and the daemon follows the host of the settings, for any
\* overlap of starts, stops and changes of the settings (desktop_daemon.ts).
THEOREM DaemonFollowsSettings == ComponentsSpec => []DaemonFollows
<1>1. ComponentsInv => DaemonFollows
  BY DEF ComponentsInv, DaemonInv, HostKept, DaemonFollows, Daemon!HostFollowsSettings
<1> QED
  BY <1>1, ComponentsInvariance, PTL

\* A call that holds the lock of the file replaces only what it has read, and an
\* undo only the work of its own thread, for any number of calls, in any order
\* and with any of them failing (withFileLock, edit_file, undo_edit).
THEOREM NothingOverwritten == ComponentsSpec => NoWorkLost
<1> DEFINE CurrentlyRead ==
        \A k \in Files!Call : Files!Renaming(k) /\ ~call[k].disturbed
            => Files!EditsOnLatest(k) /\ Files!UndoesOwnWork(k)
<1>1. ComponentsInv => CurrentlyRead
  BY FilesNone DEF ComponentsInv, FilesInv, ReadIsCurrent, InHand, Runs, Files!Renaming, Files!At
<1>2. ComponentsInv => [CurrentlyRead]_Files!fvars
  BY <1>1
<1> QED
  BY <1>2, ComponentsInvariance, PTL DEF NoWorkLost, Files!NoWorkLost

\* What the tick starts has come due, unless its next time was written since, and
\* that time follows its last start, unless a crash cut that run off.
LEMMA RunsDue ==
    ASSUME TasksInv, [Tasks!Next]_taskVars, NEW t \in Task, ticking # t, ticking' = t
    PROVE  \/ t \in stale
           \/ /\ clock >= task[t].next_run_at
              /\ \/ t \in cut
                 \/ task[t].next_run_at \in
                        Tasks!NextRunAts(since[t].schedule, since[t].startedAt)
<1>1. Tasks!TypeOK /\ None \notin Task /\ clock \in Nat
  BY TaskFacts DEF TasksInv
<1>2. ticking' # ticking /\ ticking' # None
  BY <1>1
<1>3. ASSUME Tasks!Edit PROVE FALSE
  BY <1>2, <1>3
  DEF Tasks!Edit, Tasks!Create, Tasks!Update, Tasks!Delete, Tasks!RunByHand
<1>4. ASSUME NEW u \in Task, Tasks!RunEnds(u) PROVE FALSE
  BY <1>2, <1>4 DEF Tasks!RunEnds, Tasks!EndRun
<1>5. Tasks!StartListed
  BY <1>2, <1>3, <1>4
  DEF Tasks!Next, taskVars, Tasks!TimePasses, Tasks!Restart, Tasks!Tick, Tasks!SkipListed
<1>6. listed # <<>> /\ t = Head(listed) /\ Tasks!Exists(t) /\ run[t] = None
  BY <1>5 DEF Tasks!StartListed, Tasks!Startable
<1>7. 1 \in DOMAIN listed /\ listed[1] = t
  BY <1>6, HeadFacts
<1>8. t \in stale \/ task[t].next_run_at <= clock
  BY <1>6, <1>7 DEF TasksInv, ListedIsDue
<1>9. t \in cut \/ task[t].next_run_at \in
                       Tasks!NextRunAts(since[t].schedule, since[t].startedAt)
  BY <1>6 DEF TasksInv, NextFollows
<1>10. task[t].next_run_at \in Nat
  BY <1>1, <1>6, TaskFacts DEF TaskRow, Tasks!Row
<1> QED
  BY <1>1, <1>8, <1>9, <1>10

\* The scheduler does not make up for missed times: what a tick starts has come
\* due, at the time that follows its last start, creation or rescheduling; apart
\* from a task whose last run a crash cut off, and from one whose next time was
\* put off after the tick listed it (tick, runProactiveTask, computeNextRunAt).
THEOREM NoRunMadeUpFor == ComponentsSpec => MissedNotRepeated
<1> DEFINE Later ==
        \A t \in Task :
            ticking # t /\ ticking' = t =>
                \/ t \in stale
                \/ /\ clock >= task[t].next_run_at
                   /\ \/ t \in cut
                      \/ task[t].next_run_at \in
                             Tasks!NextRunAts(since[t].schedule, since[t].startedAt)
<1>1. ComponentsInv /\ [ComponentsNext]_components => [Later]_Tasks!tvars
  BY StepOfEach, RunsDue DEF ComponentsInv
<1> QED
  BY <1>1, ComponentsInvariance, PTL DEF ComponentsSpec, MissedNotRepeated, Tasks!MissedNotRepeated

=============================================================================
