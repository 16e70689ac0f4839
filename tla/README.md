# iKi: TLA+ models of the turn runtime

iKi is a local-first assistant. An Electron desktop and a headless daemon link
the same backend package (`src/packages/backend`) and share one SQLite
database; a turn of a conversation can run in either process. This directory
models what makes that hard: who may run a thread, what becomes of a run when
its turn, a cancellation, an approval and a crash race, what a turn's loop keeps
through retries and restarts, who can reach a live stream and what of it a
window shows, and what the schedulers, the MCP connections, the embedded daemon
and the file tools promise while several of their operations are in flight.

Paths below are relative to `src/packages/backend/src/` unless they start with
another package.

## 1. Inventory

| Component | State it keeps | Operations | Who touches it |
|---|---|---|---|
| Admission of turns (`db/thread_run_locks.ts`, `thread_session/thread_stream_coordinator.ts`) | the table `thread_run_locks` (thread, token, expiry), per process the set `runningThreads`, per turn a heartbeat timer | acquire (purge and insert in a transaction), heartbeat, release, abort on lease loss | every streamed, resumed and sent turn of every process |
| Run lifecycle (`thread_session/run_tracker.ts`, `runs.ts`, `db/agent_runs.ts`) | `agent_runs`, `agent_run_steps`, per turn a cached row | append a step, mark blocked or a verdict, cancel, retry, recover at startup | turns, approvals, users, startup |
| Tool approvals (`thread_session/approval.ts`, `db/tool_call_approval.ts`) | `tool_call_approvals`, per process the pending sessions and their timers | register, answer, time out, recover, resume, cancel | turns, users, timers |
| Registry of live streams (`thread_session/thread_stream_coordinator.ts`) | `activeStreams`, `sessionsByThread`, `sessionBySender`, steer queues | register, track, unregister, supersede, stop, steer, attach, detach, abort by run | turns, connections, cancellation, lease loss |
| Outer loop of a turn (`thread_session/outer_loop.ts`, `session_loop.ts`) | the turn's history, counters and abort controller | batch, steer restart, block, handoff, end | the registry and the run lifecycle |
| Agent runner and harness (`agent/runners/simple_agent_runner.ts`, `agent/harness/`) | the locals of a batch: attempt, steps, history, model | stream a step, retry, give up, abort | the outer loop |
| Send path (`thread_session/message_send.ts`) | none of its own | one turn without a stream | awaiters, tasks, bridges |
| Awaiters (`awaiters/awaiter_manager.ts`, `db/awaiters.ts`, `packages/desktop/.../awaiters/awaiters.ts`) | `awaiters`, `awaiter_wake_events`, the tick in flight | create, reschedule, move, delete, tick, wake, settle | tools of turns, the desktop's interval, thread deletion |
| Proactive tasks (`tasks/proactive_task_manager.ts`, `packages/desktop/.../tasks/proactive_tasks.ts`) | `proactive_tasks`, runs in flight | tick, run, run now, create, update, delete | the desktop's interval, users, tools |
| MCP connections (`mcp/manager.ts`) | connections, registered tools, statuses, a semaphore | connect, disconnect, refresh, update, configure, call | tools of turns, settings, startup |
| Embedded daemon (`packages/desktop/.../daemon/daemon_lifecycle.ts`) | the server and its binding, the promise of a start, an environment variable | start, stop, restart, change the binding, probe | settings, startup, quit |
| File tools (`tools/file_tools.ts`) | a chain of locks per path, an undo stack per thread and path | write, edit, undo, delete | tools of turns that share a workspace |
| Chat window and transport (`packages/desktop/src/renderer/modules/chat/`, `composables/useChat*.ts`) | inbound slots, the bound thread, flags of the composer | send, stop, select a thread, edit, receive a chunk, settle | the user, the IPC channel |

The other parts are listed with the reason they are not modelled in
`PROJECT.json` and in section 8.

What is hard about them:

* two processes and one database: locks expire under a process that is merely
  asleep, recovery runs beside live turns, each process caches what the other
  may change;
* one event loop, many turns: between any two awaits a turn may be stopped,
  steered, superseded, cancelled by run id, or lose its thread's lease, and its
  cleanup runs over maps that may belong to a newer turn by then;
* a resumption is five commits, and the process may die between any two;
* a scheduler that uses a list it read before it waited for something else;
* operations on one server or one daemon that nothing serialises: a connect, a
  probe or a stop that returns finds a state other operations have changed;
* one channel for the chunks of all turns of a window, and a window that has
  moved on when they arrive.

What makes each component correct:

* admission: one turn per thread in a process; across processes two only after
  a TTL of silence; the loser notices and stops; a dead holder does not block a
  thread for good;
* runs: one verdict, in the row and in the audit trail, for ever; no error path
  leaves a run running; a cancellation reaches the row;
* approvals: a batch resumes once, never for a run that has ended; rows of runs
  and of approvals agree; somebody or a timer ends a blocked run;
* streams: a live turn can be reached by all that is meant for it and the end of
  an older one cuts none of it; steering is read once and in order; a cancelled
  turn ends;
* the loop of a turn: what was observed stays in the history once and in order;
  budgets hold through retries, handoffs and restarts; an abort takes effect;
* awaiters and tasks: an arming runs once and is settled by its own wake, missed
  times of a task are not made up for, nothing due is forgotten;
* MCP: permits are exact, what an agent sees comes from a client that is open;
* daemon: stop reaches every server and no start is swallowed;
* files: an edit replaces what it has read and nothing newer;
* window: a stream shows its own turn, is saved under its own thread, and its
  end frees the composer.

## 2. Modules

| Module | Is | Uses |
|---|---|---|
| `ThreadAdmission` | abstract: at most one turn executes a thread | |
| `ThreadRunLease` | lease row, heartbeat, release, in-memory set; stalls, crashes, database errors | implements `ThreadAdmission` |
| `ThreadRunLeaseProofs` | its inductive invariant, four invariants and the refinement | |
| `RunRecord` | abstract: a run moves forward only and gets one verdict | |
| `RunLifecycle` | runs, steps, approvals and sessions of one thread under turns, cancellation, resumption, recovery, crashes | implements `RunRecord`; assumes one turn at a time, as `ThreadAdmission` promises |
| `RunLifecycleProofs` | its inductive invariants, type correctness, five properties and the refinement | |
| `ThreadStreams` | registry of live streams, steering, supersession, resumption, the set of running threads | implements `ThreadAdmission` within the process |
| `ThreadStreamsProofs` | its inductive invariant, type correctness, three properties and the refinement | |
| `AgentRunner` | one batch: attempts, steps, retries, abort | |
| `OuterLoop` | the loop of a turn over its batches, the runs and their verdicts | extends `AgentRunner`, implements `RunRecord` |
| `OuterLoopProofs` | the inductive invariants of a turn and its batch, type correctness, four properties and the refinement | `AgentRunner`'s part included |
| `Awaiters` | table, scheduler, wake, edits during a wake, crashes | turn and bridge are outcomes |
| `AwaitersProofs` | its inductive invariant and three theorems | |
| `McpManager` | connections, tools, semaphores and calls over awaits | clients of the SDK are external |
| `McpManagerProofs` | its inductive invariants, type correctness and three properties | |
| `ProactiveTasks` | table, scheduler, runs by schedule and by hand, crashes | turn and bridge are outcomes |
| `DaemonLifecycle` | flows of starts, servers, settings and environment | probes are outcomes |
| `FileTools` | locks, undo stacks and replacement of one file | matching is an outcome |
| `ChatTransport` | one window, its slots and channels, its turns as it sees them | the SDK's Chat is external |
| `StreamsProofs` | the inductive invariant of the window, type correctness and three properties | beside `ThreadStreamsProofs`, on the sum `MCStreams` |
| `MCStreams`, `MCComponents` | sums of components for one run of TLC | |
| `ComponentsProofs` | the inductive invariants of tasks, daemon and files, type correctness and three properties | beside `AwaitersProofs`, on the sum |
| other `MC...` | model values, bounds and symmetry for TLC | |

The modules are deliberately separate. Each models one table, map or loop with
all its writers, and takes from the others only what they promise: composed, the
state spaces multiply without new interactions, because the interfaces are
narrow (an admitted turn, an aborted signal, an outcome of send). Where two
interact step by step they are composed: `OuterLoop` runs the batches of
`AgentRunner`, and `ChatTransport` has both ends of its channel.

A sum (`MCStreams`, `MCComponents`) is a device for checking, not a composition.
Its variable `part` is chosen at the start and says which component acts; the
others stay in their initial state. The state graph is the disjoint union of the
components' graphs, so an invariant or an action property of the sum is that of
its component, and the fairness of a component is vacuous where it does not act,
for it asks for steps that are not enabled there.

### ThreadRunLease

A tick is the unit of time. A row keeps the ticks left until it expires, so
`expires_at <= now` is `left = 0`. `Purged` is the `DELETE` of expired rows that
opens the acquire transaction, of every thread; `Admit` is that transaction with
its `INSERT`, behind the in-memory check; `Refuse` is the insert that finds a
row, whose purge is committed all the same. `BeatRenews`, `BeatFindsLoss` and
`BeatErrors` are the three ends of the timer's callback. `AbortedOnLoss` says
which kinds of turn `abortThreadRunForLeaseLoss` can reach: it looks the thread
up in `sessionsByThread`, where only streamed turns are. A process that is awake
runs its due timers before time passes (`Tick` waits for them), a stalled one
runs nothing.

`quiet` and `exposed` are history: time since the last successful refresh, and
time a turn ran awake and unaborted without its row.

### RunLifecycle

One thread; all processes; the rows as the database holds them. A tracker is a
record `[row, steps, cache, ok]`: operators such as `Inserted`, `Mark` and
`Persist` are the tracker's methods, composed in the order the code calls them.
`ok` turns false when an operation throws, the later ones are then skipped and
the earlier ones stay committed, and `Caught` is what the catch of the turn makes
of it. That is how the model keeps which status is checked (the cached one),
which index is used (the cached one) and which status is kept when none is given
(the row's): the disagreement of the two is the subject.

A turn is working or has asked for approvals. It starts with `StartTurn`, or with
`ResumeRun`, the user's request to run a blocked or a queued run again
(`service.ts`, `resumeRun`), which begins a new run and leaves the old one and its
approvals as they are. Its steps are `Work`, `Complete`, `Throw`, `HandOff`,
`HandOffEnds`, `RequestApproval` and `Block`, after which it awaits nothing but
microtasks and is over; the writers that take no lease are `CancelRun`, `Recover`
and `RetryRun`; `RepeatAnswer`, `Answer` and `Resume` are `approveTool`, and
`TimeOut` is the timer that calls it.

An action is what a process does between two awaits, and that is often several
commits. Other handlers of the process cannot come between them, a crash can:
`CrashInRequest` (approvals are registered in one transaction, their requests
recorded one by one), `CrashInCancel` (the verdict, then the approvals one by
one), `CrashInRecover` (the approvals, then the verdict) and `CrashInApprove`
(the four commits of a resumption) leave what was committed by then. `unserved`
and `torn` are history: runs whose turn was lost, and runs whose cancellation a
crash has cut. A behaviour has one of `Deployments`: which processes exist (`Present`)
and which approvals its turns may ask for (`Askable`). With it one run checks two
processes that race for the same runs and one process that collects a batch of
approvals, instead of the product of both.

### ThreadStreams

`reg` is the coordinator: three maps and the session objects they point to. A
session is named by the stream that created it, and forgotten (`Swept`) when no
map points to it. Each operator from `Detached` to `SteerMessages` is a function
of the coordinator over `reg`, and the actions compose them in the code's order.
A turn prepares, works in batches, closes and ends; a batch is one step, because
what happens inside it (model calls, tools) touches neither maps nor queues. The
end of a turn (`End`) is the `finally` block: clean up its approvals, let go of
its own entries, release the thread. `sent` and `heard` are history: steering
messages acknowledged while the turn was its sender's stream, and those appended
to its model history.

### AgentRunner and OuterLoop

`runner` is the locals of `run`: the head of the retry loop (`top`), the stream,
the promises behind it (`ending`, after the last look at the signal) and the
delay before a retry. Messages of a history are facts (a finished tool step, a
steering message, a note of the loop), so that losing, repeating or reordering
one shows; `made` numbers the steps and `open` counts models that are not
disposed. `OuterLoop` starts a batch with the history it keeps, reads what the
batch came to, and does in one action what the code does synchronously between
two batches: take up steering with a new abort controller, go on, hand off to a
new run, block, or end with the verdict `session_loop.ts` gives. `log` is
history: the facts as they happened.

### McpManager

An operation on a server suspends where its client connects, lists tools or
closes (`op`), and goes on over whatever the state is by then, with the row it
read when it began. Each action runs from one await to the next, updates of rows
and settings included, which disconnect and connect inside. A change of the default
approval mode reaches the tools at once, or, where the same change of the settings
also awaits connects or disconnects, with `RefreshToolPolicies` at some later time;
`pending` says that one is due. `sem` holds several
semaphores: a change of the limit replaces `current`, and calls keep the one they
took their permit from. A client that nothing refers to gives its id back.
`overlap` is history: two operations on a server were suspended at once, which is
when `SequentialUseAgrees` promises nothing.

### Awaiters

An action runs from one await of the wake to the next. `StartTick` reads the due
list; `StartWake` reads the row again, sets it waking and calls `send`;
`SendFails`, `SendThrows`, `SendSucceeds` are its answers, `Delivered` and
`BridgeFails` those of the bridge; each settles the row only while it is still
waking (`Settled`), writes the audit row and the message (`Reported`). While a
wake is awaited the rows are created, rescheduled, moved and deleted and threads
are cleared and deleted (`Edit`); `Yielded` says that nobody acts inside the
scheduler's synchronous sections. `Restart` is the death of the desktop:
the table remains. `arming` is history: which arming of the awaiter a row stands
for, so that runs can be counted per arming.

### ProactiveTasks

The same shape with recurrence: `Tick` reads the list of due tasks (`Due`),
`StartListed` and `SkipListed` walk it, `RunByHand` runs a task beside it, and
`EndRun` writes `last_run_at`, the status and the next time back by the schedule
the run captured when it started (`Written`). `NextRunAts` are the times that
`task_schedule.ts` may compute: of an interval, the time that `setMinutes` gives in
local time (`LocalOf`, `UtcOf`), which at the time `Change` is put forward or back
by `Shift`; of a cron expression, any later time up to `MaxGap` ahead. `since`,
`cut` and `stale` are history, for `MissedNotRepeated`: what the next time of a row
is computed from (the start and the schedule of its last run, or its creation or
rescheduling), whether a crash has cut that run off, so that the row is still due,
and whether the next time was put off after the tick in flight had listed the task.

### DaemonLifecycle

`flow` holds the starts: each awaits a probe of its own server, a probe of the
binding, or the server becoming healthy, and several can be in flight, because
`stopDesktopDaemon` forgets the promise of a start without waiting for it.
`Reuse`, `Launch` and `LaunchFails` are `startEmbeddedDaemon`, which also stores
the port in `envPort`; `Resolved` lets that win over the settings as
`readConfigDaemonBinding` does. `foreign` are ports on which another process
answers the probe.

### FileTools

One file. `last` is the tail of the chain in `pathWriteLocks`; a call waits for
the one that was last when it came (`prev`), and the last of the chain removes the
entry (`Released`). A version is its author and a number, so that "replaces what
it read" is an equation. `DeleteFileTool` and outsiders write without the lock;
`disturbed` is history and marks the calls they overran.

### ChatTransport

The window: what the user does (`Prepare`, `Submit`, `StopStreaming`,
`SelectThread`, `EditThread`), the slots of the transport (`slot`, one per send),
and what arrives (`ReceiveChunk`, `StreamReturns`, `Stopped`, `Left`). The main
process: calls in order (`up`), turns that are refused, limited, started, cancelled
and that push chunks (`down`) before, between and after that. `Renderer` ends a
stream that was closed: its message is saved (`SavedUnder`) and its send returns.
`crossed`, `cut` and `saved` are history: whether another turn could still push
behind the start of this one, whether the renderer closed the stream, and the
thread its message was saved under.

## 3. Runs

State counts are distinct states.

| Run | Instance | Checks | Result |
|---|---|---|---|
| `lease` | 3 processes, 2 threads, 2 tokens, TTL 3, refresh 1; crashes, stalls, database errors; 260k | `TypeOK`, `DoubleRunNeedsSilence`, `StreamLossWindow`, `OrphanFreed`, `ImplementsAdmission` | holds |
| `lifecycle` | 2 processes and 1 approval, or 1 process and 2 approvals; 3 runs (1 reserved for resumption); crashes between any two commits, failed starts; 147k | `TypeOK`, `VerdictExact`, `RunningServed`, `ResumedOnce`, `ApprovalsAgree`, `ImplementsRecord`, `EndedNotResumed` | holds |
| `lifecycle_live` | 1 process, 3 runs (1 reserved for resumption), 1 approval, no crash; 14k | `CancelTakesEffect`, `BlockedEnds` | holds |
| `lifecycle_preempt` | 2 processes, 2 runs, 1 approval; another process may write between the request of an approval and `markBlocked` | `TerminalIsFinal` | violated, see 6 |
| `streams_safety` | 2 connections, 2 threads and none, 3 turns, 1 message; or a window with 2 threads and 2 turns; 838k | `StreamsTypeOK`, `RegistryExact`, `BlockedKeepsApprovals`, `StreamExact`, `SavedUnderOwnThread`, `NothingLeftOpen` | holds |
| `streams_steering` | 2 connections, 2 threads and none, 2 turns, 2 messages; 132k | `SteeringExact`, `CancelledEnds` | holds |
| `agent_loop` | 2 iterations, 2 retries, 2 batches, chain of 2, 1 steering message; 670k | `TypeOK`, `ObservationsExact`, `ResourcesBounded`, `OnlyLastRuns`, `NoModelAfterCancel`, `AbortTakesEffect` | holds |
| `agent_restart` | the same | `RestartShowsNothing` | violated, see 6 |
| `mcp` | 1 server; 2 operations and 2 clients, or 3 calls and 2 semaphores beside one operation; limits 1 and 2; 589k | `TypeOK`, `PermitsExact`, `ToolsFromOpenClient`, `SequentialUseAgrees`, `QueuedCallProceeds` | holds |
| `mcp_overlap` | 2 operations | `AlwaysApprovalRetained` | violated, see 6 |
| `services` | one of: 2 awaiters, 2 threads (1 bridged), time 0 to 2, 2 armings each, 1 crash; 2 tasks, an interval of 1 and a cron expression up to 2 ahead, clock 0 to 3, local time set back by 2 at 2, 1 edit, 1 crash; 2 hosts, 2 ports, 3 starts; 2 calls, 4 versions, undo depth 2 | `ComponentsTypeOK`, `OneShot`, `SettledByOwnWake`, `DaemonFollows`, `NoWorkLost`, `MissedNotRepeated`, `DueIsRun` | holds |
| `daemon_port` | 2 hosts, 2 ports, 3 starts | `PortFollowsSettings` | violated, see 6 |

Why the bounds are enough:

* Lease. Deadlines are counted down and history counters are cut off where they
  stop mattering, so the state is finite without a bound on time. Two tokens are
  the stalled turn and the one that replaced it, three processes let a third
  contend. The code has a TTL of 120 s and a refresh of 30 s; what matters is that
  several beats fit into a TTL. All but `OrphanFreed` is proved for all values.
* Lifecycle. Three runs are a run, its continuation and the continuation of that
  (or a second continuation of the first, which must not exist); two approvals
  are one answered and one outstanding. A turn of the instance with two processes
  may append one audit step, enough for its cached index to be behind or level.
  `Reserve` keeps a run id for resumptions, so that no run stays blocked for want
  of one; in the liveness run a second turn competes with the approval's timer for
  the thread. Two processes with two approvals exceed the
  time of a run, so the properties whose violation needs two approvals are checked
  with one process (`Alone`).
* Streams. Three turns are a superseded one, its successor and a third that
  contends with either; two connections and two threads let them meet on one
  thread and be apart on two. Two messages show order and double reading.
* Window. Two turns are the old stream and the new; each pushes a first chunk,
  with which those between go the same way, and a last one. One request to stop is
  in flight at a time.
* Loop. Two of everything: a bound that is reached, and one step before it.
* MCP. Two operations overlap, and a third would meet states two have left; three
  calls are one that runs, one that waits, one that waits behind it, on a
  semaphore that is replaced while they do.
* Awaiters. Two awaiters make a list of which the second goes stale; two armings
  are the one in flight and the one set meanwhile; one crash leaves a row waking.
* Tasks. A clock of 3 holds a run, a missed time and the next one, and both passes
  of the hour that a change of local time repeats; that the clock jumps over an hour
  is left to the proof, which has any `Shift`.
* Daemon. The third start arrives while the first, which a stop has forgotten,
  and the second are in flight.
* Files. A third call takes the number of one that has ended; four versions are
  two edits, an outsider's and one more.

Runs say `CHECK_DEADLOCK FALSE` where the instance runs out of run ids, turns,
armings or starts; the lease and the MCP manager never stop and are checked for
deadlock.

### Fairness

* `ThreadRunLease`: the timers of a process that is awake run
  (strong fairness of the heartbeat), and time goes on (`SF(Tick)`: real time
  diverges, and `Tick` is disabled now and then only because a timer is due first).
* `RunLifecycle`: a turn that was aborted throws, because the runner looks at its
  signal after every part of the model's stream (`WF(Throw /\ turn.aborted)`);
  blocking follows the request in the same synchronous section (`WF(Block)`);
  approval timers retry every second (`WF(TimeOut)`). Nothing says that a turn which nobody aborts ends, so
  `BlockedEnds` is conditional: if the thread becomes free again and again.
* `ThreadStreams`: preparation and message writes return; a batch stops at an
  aborted signal. Nothing is assumed of turns that nobody stops.
* `OuterLoop`: an abort is delivered, the promises of a stream that has ended are
  settled, the timer of a retry fires, and the loop goes on. Of the model nothing
  is assumed: it may stream, or hang, for ever.
* `McpManager`: a call that holds a permit returns or is stopped, for each has a
  timeout. Connects and closes may hang.
* `Awaiters`, `ProactiveTasks`: the interval fires, a tick walks its list, `send`
  and the bridge return. The last is an assumption on the model provider and the
  bridge: nothing in the schedulers bounds them. In `ProactiveTasks` time goes on
  (`SF(TimePasses)`: a task whose next time is over already is run by every tick,
  and the clock stands still within a tick only).

### Hazards and properties

`PROJECT.json` lists the hazards, each at its line, with the properties that
cover it. Each property has a mutant: a form of one definition changed the way a
plausible bug would change it (a dropped guard, a stale entry cleaned up, a
queue not emptied), under which TLC finds that property violated. The mutated
forms stand in the modules, next to what they replace.

## 4. Proofs

`tlapm` checks eight proof modules. What they take for granted is named: the
assumptions on constants (`TimingAssumption`: 0 < refresh < TTL; `IdAssumption`,
`ProcAssumption`: finitely many awaiters and processes; `ClosedAssumption` and its
like: null values are not records, queues or threads; bounds are naturals) and, in
`RunLifecycle`, for the refinement alone, the hypothesis `NoPreemption` (section 5). In each module one lemma
per action, or per group of actions that change the same variables, shows that the
inductive invariant is kept; a property is then a consequence of it.

`ThreadRunLeaseProofs`. `InProcessExclusive` is not inductive: a second turn of a
process could be admitted if the in-memory set did not hold the first (`Held`).
`DoubleRunNeedsSilence` follows from `LossNeedsSilence`, and that needs the sum
`left + quiet = Ttl` of a turn that owns its row (`OwnedRow`): a purge takes a row
with `left = 0` only, whose turn has `quiet = Ttl`, and a release takes its own
token's row only, which `RowOfTurn` ties to the turn's thread. `StreamLossWindow`
follows from `StreamWatched`: exposure and the time to the next beat never exceed
the interval together. Then:

* `TypeCorrect`, `OneTurnPerProcess`, `DoubleRunOnlyAfterSilence`,
  `StreamsAbortInTime`: for every set of processes, threads and tokens, every TTL
  and interval, every choice of faults. `OneTurnPerProcess` is proved only; no run
  repeats it.
* `LeaseImplementsAdmission`: every behaviour of the lease is one of
  `ThreadAdmission` under the mapping of `ThreadRunLease`. A turn that counts
  there owns its row (`ExecutingOwnsRow`), and a row has one token, so one turn
  counts per thread (`OneExecutes`). Initial states map to initial states; an
  acquire and a renewal that makes a turn count again are `Admit`, for then no
  other counts; every other step lets turns stop counting (`End`) or changes
  nothing.

`AwaitersProofs`. `OneShot` is not inductive: a wake may only run a turn for an
arming whose count still allows it. An armed row was never run (`ArmedUnsent`,
which needs `FutureUnsent` and `RowCurrent` when the row is armed again); a row
in waking without a wake in flight was left by a crash, and has run at most as
often as there were crashes (`Abandoned`); a wake in flight whose row is still
waking is a wake of the row's own arming (`WakeCurrent`), which is what makes the
outcome that `Settled` writes the right one. Steps that arm nothing and run
nothing share one lemma (`KeptInv`), creation and rescheduling another
(`ArmInv`). Then:

* `TypeCorrect`, `RunsOncePerLife`, `SettledRightly`: the type invariant and two
  properties of `services`, for every set of awaiters and threads and every bound.

`RunLifecycleProofs`. A writer of the run works on a tracker, which caches the row.
Three predicates say all that can be true of it: the cache agrees with the row
(`Fits`), another writer has ended the run under the index the tracker will use
next (`Lost`), or the tracker has written the verdict itself (`Settled`). Each
operation of the tracker takes one of them to one of them, so that the whole of a
handler, a chain of such operations, needs no case analysis. The invariant `IInv`
says that row and trail agree (`RunsExact`), that a running run has a turn
(`RunningServed`), that the turn's cache is right or beaten (`TurnFollowsRow`), and
that approvals are asked of blocked runs only (`AskedWhenBlocked`). Where one
process answers approvals (`Alone`) more holds, `AloneInv`: a turn that is beaten
has been told to stop, approvals of a batch are consumed together, an ended run
leaves none to answer, a continuation has a consumed parent, which has no other.
Of a step, `Kept` says that a row moves along the table or stays, and that a new row is
queued or running (`Goes`): a tracker that is beaten changes nothing, and one that fits
has a status the table was asked about. So every step is one of `RunRecord`
(`RecordStep`): most rewrite one row (`RewriteMoves`), a handoff and a resumption end a
run and create the next together (`TakeOverContinues`); a resumption whose parent
cannot be completed only creates it. Then `TypeCorrect`, `VerdictsExact`,
`RunningIsServed`, `ResumedAtMostOnce`, `ApprovalsAgreeWithRuns` and
`EndedRunsStayEnded`, for every set of processes, runs and approvals and every
environment. `RowsImplementRecord` needs `NoPreemption`: nobody writes between the
request of an approval and the blocking of its run. `VerdictsExact` names what
happens without it, a row that was taken back behind its trail (`Overwritten`), and
shows that the trail has one verdict all the same.

`ThreadStreamsProofs`. `RegistryExact` speaks of turns that nobody cancelled, and is
not inductive: a cancelled turn that lingers could, when it ends, take its
successor's entries. The invariant says of every sender that its active stream is
live and its own, that it has a session exactly if that stream is a turn, and that
this session is of its stream, its thread and nobody else (`Served`); of every
thread that its session is one of those (`Met`); and that a live turn holds its
thread alone (`Locks`). Hence a thread that admits a turn has no session left
(`FreeThread`), so that a start never cancels another sender's stream, and an end
that is not of the active stream changes nothing (`LetGoIs`). `SteerInv` follows a
message from the queue to the history: sent = heard followed by the queue, until the
turn is cancelled. `AskInv` says that an assistant message has one writer, live or
waiting; so the clean-up at the end of a turn, which looks for approvals of its
message, finds none. Then `TypeCorrect`, `RegistryIsExact`, `SteeringIsExact` and
`ApprovalsStay`. `RegistryImplementsAdmission`: under the mapping of `ThreadStreams` a
turn executes its thread until it has ended, a cancelled one that lingers and one that
closes included. By `Locks` a thread has one such turn at most (`OneExecutes`) and one
that admits has none; a start is `Admit`, an end is `End`, and every other step,
whatever it does to maps and queues, executes nothing new (`StepKinds`).

`StreamsProofs`. The window, on the sum that the run checks. `StreamExact` speaks of what
a slot has taken, so its invariant speaks of what is on its way: a chunk in the channel
was pushed by the turn it is of, nothing of a turn comes behind its last chunk or its
result (`InOrder`), and shown and pending chunks of an open slot make up what its turn
pushed (`SlotSound`). Nobody may push behind the start of a last turn that is `Alone`: so
nothing of another turn comes behind that start, and what a slot takes once it is bound
is its own (`Fine`, `TookOwn`); a last chunk that a slot still unbound drops is not its
own, for its start would have come first (`ReceiveStep`). One slot at most is open, that
of the last turn, on whose thread the transport is (`ActiveIsOpen`): what is saved
goes there. A turn that is over has closed its slot or has its result on its way
(`TurnSound`), and what the composer waits for is on its way too (`ComposerServed`).
Steps of the main process, which the window does not see, share the lemma `MainStep`,
those that take a message `OffStep`. Then `StreamsTypeCorrect`, `StreamsAreExact`,
`SavedWhereSent` and `ComposerIsFreed`: for every set of threads and any number of turns.

`OuterLoopProofs`. `ResourcesBounded` needs the steps of a batch counted by its
attempts (`BatchInv`: an attempt that may be restarted has made one step at most) and
every call of the harness charged to a batch of the budget, a handoff or a steering
message (`Counted`); `NoModelAfterCancel` needs that the signal of a cancelled turn is
never replaced (`CancelAborts`). `ObservationsExact` needs what an attempt starts with
(`HistoryExact`): between attempts its history holds all facts; within one, all but the
steps it has made itself, for those are in what it keeps; and an attempt that has made
a step is never retried, so its history is not used again. What `Facts` selects from
a history is a recursive function, and the lemmas about it (`FactsAppend`,
`FactsConcat`) are inductions over its messages. The library's induction theorems
take an operator as a parameter and cannot be instantiated here; stated of a set of
numbers instead (`SetInduction`), induction follows from the well-foundedness of `<`
and serves any definition. Then `TypeCorrect`, `TurnsAreBounded`, `StreamNamesTheRun`,
`CancelledForGood` and `HistoryIsExact`: for every budget, limit and number of
steering messages. `RunsImplementRecord` needs that the last run is running until the
turn ends and is the one the tracker holds (`TurnOpen`): the verdict moves that run and
a handoff continues it in its child; a cancellation finds its stream, by `OnlyLastRuns`,
and leaves the row to the turn.

The two refinements of `RunRecord` are of one promise made twice. `OuterLoop` shows that
a turn, alone with its runs, asks for no move the record would refuse; `RunLifecycle`
shows that with other writers the moves it asks for too late are refused.

`McpManagerProofs`. A semaphore is `Exact`: `active` is the number of its holders, its
queue lists its waiting calls once each, and nobody waits while a permit is free.
Tools come from an open client because a client belongs to one server (`OneServer`),
what is entered in the maps was opened and not closed since (`MapsOpen`), and a
client that is being connected is known to its operation only (`OwnClient`). A server
without overlap has at most one operation, and is in the state that one expects
(`AgreesWith`), which is the decision of the user where none is suspended; the mode
of tools without one of their own is among `Policies`, any while a change of the
default is pending. Then
`TypeCorrect`, `PermitsAreExact`, `ToolsStayOpen` and `DecisionsKept`.

`ComponentsProofs`. Three more invariants beside that of the awaiters, on the sum that
the run checks. Daemon: without overlap the flow in flight and the daemon are on the
host of the settings (`HostKept`). Files: the chain of promises is a queue of its calls
(`LockIsQueue`); only its head is under way (`HoldsLock`), so what a handler read is
still there when it writes (`ReadIsCurrent`). Tasks: a run in flight is what the next
time will be computed from (`RunSetsNext`); that of a task at rest follows what it was
computed from, unless a crash has cut its run off (`NextFollows`); and what a tick has
listed stays due until it is run or put off (`ListedIsDue`). Then `ComponentsTypeCorrect`,
`DaemonFollowsSettings`, `NothingOverwritten` and `NoRunMadeUpFor`.

Model-checked only: liveness (`OrphanFreed`, `DueIsRun`, `CancelTakesEffect`,
`BlockedEnds`, `CancelledEnds`, `AbortTakesEffect`, `QueuedCallProceeds`), which is out
of the prover's reach, as ENABLED is. Every invariant, every other action property and
every refinement of a passing run is proved. Proved and in no run: `OneTurnPerProcess`,
`RegistryImplementsAdmission` and `RunsImplementRecord`; TLC agrees with each on the instances of section 3.

## 5. Abstractions

* Every SQLite statement or transaction is atomic, foreign keys cascade. What
  runs between two awaits is one action. Two gaps that only microtasks separate
  are closed too: the request of an approval and the blocking of the run in
  `ThreadStreams` (in `RunLifecycle` they are two steps), and the end of a wake or
  a task and the start of the next.
* `RunLifecycle` has one thread. Its turns are admitted one at a time, which is
  `ThreadAdmission`; the double run that a stall makes possible (see
  `ThreadRunLease`) is not composed with it.
* In `RunLifecycle` another process writes between the commits of an action at one
  place only, between a turn's requests and the blocking of its run, and there only
  if `Environment` has `"preempt"`, as in `lifecycle_preempt`: the window is that of
  two processes between two statements. Without it `ImplementsRecord` holds. That
  another process writes between two requests of one batch, between the verdict of
  a cancellation and the expiry of its approvals, or within a resumption, is not
  modelled; that a crash falls there is.
* One `request` step stands for the requests of a batch, or, after a crash, for
  those of it that were recorded.
* `RunLifecycle` closes a turn without a step of its own: after the run is blocked
  the turn awaits `buildPersistedMessage`, which waits for nothing but microtasks,
  and writes to SQLite. No handler of the process comes between. `ThreadStreams`
  keeps the writing of a message as a phase (`Closing`), in which more may
  interleave than the code allows: its properties hold all the same.
* The catch of a resumed turn calls `uiChunkEmitter.abort()` before it marks the run
  cancelled (`approval.ts`, 800-804), that of a streamed one likewise. That the
  emitter does not throw is assumed; if it did, the run would stay running.
* Approvals of turns without a thread are not modelled: they have no recovery
  context. Sessions recovered from the database are in `RunLifecycle` only; in
  `ThreadStreams` sessions live in memory.
* The send path takes the lock in `ThreadRunLease` and runs in `RunLifecycle`; it
  registers no stream.
* `AgentRunner` leaves out token budgets and compaction: a stream may fail for any
  reason. Of text, thinking and calls it keeps whether they were shown, whether
  they count as output, and which kinds of call a step made.
* `McpManager` has the approval mode of a tool and no other data of it; transports,
  headers and schemas are left out. What a change of the settings awaits before
  `refreshToolPolicies` is any length of time, not the particular operations it
  starts; several changes that wait are one.
* `ProactiveTasks` has one change of local time, and calendars no more than that:
  the time within an hour that is left out counts as in JavaScript, by the offset
  before it. Which later time a cron expression names is not computed.
* `Awaiters` leaves out the branch for a missing thread (a foreign key makes it
  unreachable), the statuses `cancelled` and `expired` (never written) and
  `expires_at` (never compared with the clock). The settling of a row, its audit
  and its message are one step, in one synchronous section.
* `DaemonLifecycle`: the switches that turn the embedding off are left out, hosts
  are addresses, so that `listen` binds within the step.
* `FileTools` has one path, already resolved. Whether an edit matches, and whether
  the syntax check refuses it, are outcomes.
* `ChatTransport` has one window. Turns that an approval resumes are left out, and
  with them the slot that is armed for them. The guards of `sendMessage` and the
  start of its preparation are one step (the code awaits between them, so that two
  presses of Enter can both pass), and messages of a thread load at once.

## 6. What the runs found

Violated runs, each about a sentence of the repository (quoted in `PROJECT.json`):

* A cancelled run can become blocked again (`lifecycle_preempt`), for good. If
  another process commits the cancellation between a turn's approval request and its
  `markBlocked`, the latter checks its cached status and persists the cached row over
  the verdict. Every later verdict is then refused by the index of the steps.
* A server set to ask for approval always while it is connecting gets its tools
  without approval (`mcp_overlap`): the connect registers them by the row it read
  before it awaited.
* An attempt is restarted after the user has seen thinking or the start of a tool
  call (`agent_restart`): only text and complete tool calls count as output.
* The embedded daemon keeps the port of its first start (`daemon_port`): the port
  is stored in an environment variable, which wins over the settings.

What TLC shows with other constants, or without a condition that a property
states, and no run is kept for:

* Lease. Its loss aborts streamed turns only: `abortThreadRunForLeaseLoss` looks
  the thread up in `sessionsByThread`, where a resumed and a sent turn are not.
* Lifecycle. With two processes `ResumedOnce` fails, because a session in memory
  is looked up before the database; `EndedNotResumed` and the first half of
  `ApprovalsAgree` fail, because a turn cancelled by another process registers its
  approvals before it notices. A resumption whose parent cannot be completed
  leaves a child run running (`unserved`). The queued run `retryRun` creates is
  executed by nobody: executing it creates another. A crash within `cancelRun`
  leaves a cancelled run with approvals to answer, because the startup recovery looks
  at running and blocked runs only; without the exception for `torn` runs TLC finds
  `ApprovalsAgree` and `EndedNotResumed` violated. The recovery itself expires the
  approvals first and gives the verdict last, and says why
  (`run_tracker.ts`, 531-533).
* Steering. A message accepted while its turn is prepared is lost and ends the
  turn with an error; one after the runner's last look at the signal is
  acknowledged and never read (`AcknowledgedSteerRead` in `ThreadStreams` says the
  contrary). The result of a tool in a step that steering interrupts is not kept.
* Awaiters. One that is put off while a tick waits for another is woken at once.
  A wake that meets a busy thread fails for good.
* Tasks. The schedule an edit sets during a run is overwritten by the next time of
  the captured one (`Written`) until the task has run again. An interval is added in
  local time: where an hour comes twice, the next time of a run in its second pass is
  computed as one of the first, which may be over, and the task is run by every tick
  until the hour is over. A listed task that is put off is run at once, and so is, after
  a restart, one whose run a crash has cut off. `MissedNotRepeated` names both.
* MCP. A server that ends by itself is not noticed: its tools stay registered.
* Window. `ipc_chat_transport.ts:174` says that late chunks of a superseded turn
  are dropped, for they have no `start` binding any more. They are dropped only
  until the start of the new turn arrives: `LateChunksDropped` in `ChatTransport`
  is violated, and so is `StreamExact` without its condition on `crossed`. A turn
  that was cancelled in a batch pushes its `finish` unconditionally, and
  where that comes behind the start of the new turn, as one on another thread can,
  it closes the new stream.

Read in the code beside the models: an approval given in another thread does not
re-bind the transport (`boundThreadId` is set by `sendMessages` only, although
`chat_instance.ts:130` says that resumes re-bind it), so the resumed message is
saved under the thread of the last send; and the composer is free as soon as a
stop is answered, while the backend refuses the next turn until the old one is
unwound.

## 7. Plan

Next, in this order:

1. Approvals in `ChatTransport`: the armed slot and the turns that are resumed into
   it. With them the window has 6 to 15 million states, so the rest of it has to
   be abstracted first.
2. The renderer's store of threads and its persistence of messages, which races
   with the backend's own write of the same message (`turn_persistence.ts`).
3. Abstract specifications: a mailbox read once, implemented by the steer queue.
4. Composition of `ThreadRunLease` and `RunLifecycle`, so that a double run after a
   stall meets the tracker's checks.
5. Smaller state machines: the rate limit of turns, the NapCat bridge's connection,
   the update of the app.

## 8. Not modelled

`PROJECT.json` gives the reason for each component; in short:

* Adapters and I/O around single calls: model providers, shell, web and skill
  tools, git worktrees, speech, the HTTP and WebSocket handlers of the daemon
  (whose calls are the actions of the models), the formats of the NapCat bridge.
* Pure functions over data that no property here tells apart: prompts and context
  budgets, memory and affect scores, chunks and message parts, i18n catalogs,
  themes.
* The schema and its migrations: statements are atomic in the models.
* Presentation: the components and stores of the renderer other than the chat
  window. They, the catalogs and the styles are most of the repository's lines,
  and have little state that outlives a render, which is why the share of lines
  the models stand for is small.
* The rate limit of turns per thread: a sliding window in memory, whose only other
  effect (a turn that is refused) is an action of `ChatTransport`.
