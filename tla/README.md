# Compute-Fabric in TLA+

Models of the control plane of Compute-Fabric: the coordinator and its
connections, the store, the node runtime and its registration, the client, the
transport, the wire format and the local launcher. TLC checks them on small
instances; TLAPS proves every safety property that the runs check, for every
instance.

## The system

| Part | Source | What it does |
|---|---|---|
| Coordinator core | `src/coordinator/coordinator.cpp` | One thread that owns the task graph, attempts, reservations, node registry and store; handles queued commands and sweeps timers every 20 ms |
| Coordinator connections | same file | Acceptor, reader, writer and reaper threads; bounded core and outbound queues; shutdown |
| Idempotency cache | same file | Bounded cache of responses; nothing calls it |
| Task lifecycle, graph, attempts | `src/task/` | Legal transitions, dependencies, retry policy |
| Reservations, capacity | `src/resource/` | Slots and scratch memory per node |
| Scheduler | `src/scheduler/` | Exclusion of nodes, cost of the rest, history |
| Store | `src/persist/store.cpp` | State file, replaced by rename |
| Node runtime | `src/node/node_runtime.cpp` | Registers, runs attempts, reports through a completion queue |
| Executors, kernels | `src/executor/` | Worker threads, cancellation tokens, CPU and CUDA work |
| Client | `src/net/client.cpp` | Requests with deadlines |
| Channel, frames, sockets | `src/net/`, `src/protocol/frame.cpp` | Framing over TCP |
| Messages | `src/protocol/` | Encoders and decoders |
| Launcher | `src/launcher/launcher.cpp` | Spawns and reaps a local fabric |
| State locality | `src/state/` | Inputs of the cost model |
| Telemetry, core utilities, CLI, benchmarks | `src/telemetry/`, `src/core/`, `src/cli/` | Output, values, measurement |

A client submits a task; the core puts it in the graph Ready or Blocked. A
sweep places each Ready task on a node, reserves a slot, creates an attempt
bound to the epoch and the node's session, and sends it. The node reports
started, then completed, failed or cancelled, then releases the reservation.
The sweep also handles lost nodes, dispatch timeouts, retries and deadlines. A
restart reads the store, raises the epoch and requeues what was in flight.

## Modules

| Module | Models | Instance, proofs |
|---|---|---|
| `TaskLifecycle` | the task states, the legal transitions, and `set_state`, which drops an illegal one | used by the next two |
| `TaskService`, `Coordinator` | the tasks as clients see them; the core thread: command handlers, sweep, recovery | `MCCoordinator`, `CoordinatorProofs` |
| `Connections` | acceptors, readers, writers, reaper, queues and `stop()` of the coordinator | `MCConnections`, `ConnectionsProofs` |
| `AtomicStore`, `Store` | what the store promises; staging, write and rename with crashes and faults | `MCStore`, `SystemProofs` |
| `NodeRuntime` | the threads of a registered node and of its CPU executor | `MCNodeRuntime`, `NodeRuntimeProofs` |
| `NodeRegistration` | a node's tries to register, and the coordinator's side of them | `NodeRegistrationProofs` |
| `ClientRequests` | requests with deadlines, given up and repeated over new connections | `MCClientRequests`, `ClientProofs` |
| `FrameQueue`, `Channel` | what a channel promises; frames over a byte stream, with partial sends and receives | `MCChannel`, `ChannelProofs` |
| `Socket` | the lifetime of a descriptor that threads use and close | `SystemProofs` |
| `Codec` | every serialize and deserialize function, and the readers' bounds | `MCCodec`, `CodecProofs` |
| `Launcher` | a local fabric of processes, spawned, watched, killed and reaped | `ClientProofs` |

A module without an `MC` module is run as it is, with its constants in the
configuration. Each module keeps the names of the functions and members it models;
`PROJECT.json` maps every definition to its lines.

### Coordinator

One action per command handler (`handle_task_submit`,
`handle_attempt_complete`, ...), one per kind of step of the sweep
(`handle_node_loss`, `sweep_timers`, `schedule_ready_task`), and `start` for a
crash followed by recovery.

| Variable | Code |
|---|---|
| `state` | the states of `graph_`; `Absent` for an id not in it |
| `attempts`, `next_attempt` | `attempts_`; fresh ids |
| `held`, `task_reservation` | live entries of `reservations_`; `task_reservation_` |
| `cancel_requested`, `retry_ready` | the maps of those names |
| `nodes`, `sessions`, `link`, `ended` | `nodes_`, registrations so far, `node_conns_`, sessions whose connection ended |
| `told` | how far the node's reports about an attempt have reached the core |
| `disk`, `epoch` | the store file, `durable_.epoch` |
| `pc`, `todo` | where the sweep is and which Ready tasks it still visits |
| `cancel_acked`, `cancel_sent`, `drained` | history for the properties and the node's cancellation messages |

Abstractions. A handler is one step, because one thread owns the state. The
sweep writes the store between items, so its loops are separate steps and a
crash may fall between them; a `sweep_timers` step over fewer tasks followed by
`start` is a crash inside that loop. A timer may expire at any sweep. An
attempt and its reservation are created together and share an id. A task needs
one slot of one executor. `place` chooses any node that is not excluded: costs
only order the candidates. A store write succeeds and is atomic (`Store` shows
when it is).

### The other modules

* `Connections`. A step is a thread's run from one lock, wait or thread
  operation to the next. A command is what it does to connections and queues.
* `Store`. One action per step of `write_file_atomic` (`OpenTmp`, `WriteTmp`,
  `Rename`, `WriteReturns`; `WriteFails` for a failed one), `Open`, `Load` and
  `Persist`, `Crash` between any two, and the faults in `Faults`: a full disk,
  loss of power before write-back, damage, a file that cannot be opened. `faults`
  records which kinds have happened, so that a property can say which of them
  end its promise. A file is the records it was written from, its length, and
  whether it is unharmed.
* `NodeRuntime`. Reader, heartbeat, completion and worker threads, `run()` and
  `stop()`; a step is what a thread does between two points where it can wait.
* `NodeRegistration`. Every try has a connection of its own; an abandoned
  registration may still be in the transport, in a reader or in the core queue.
* `TaskService`. Only the states of the tasks and the requests to stop one. A
  client submits or cancels; `Execute` is what reports, losses and timers do to
  any tasks in one step, and `Restart` a crash with recovery. `Moves` is narrower
  than `is_legal` (a task asked to stop does not succeed) and wider (a task passes
  through Planning, Reserved and Lost within a handler).
* `ClientRequests`. Client, wire, reader, core queue and the submit and cancel
  handlers with their refusals, over the tasks of `TaskService`; `stop` and
  `start` of the coordinator at any point. An answer "task already X" is the
  state X.
* `Channel`. A byte is a frame and a position in it; sends and receives move
  any number of bytes. Checksums tell every mixture of frames from a frame.
  `FrameQueue` is the same without bytes: a frame is sent, lost, returned or
  refused as a whole. `sent` is the order of the first bytes, `lost` the frames
  whose send was cut short.
* `Socket`. `handle`, `closing` and `active_operations` of `SocketState` beside
  the descriptor in the system.
* `Codec`. A serialize function is the sequence of fields it puts, a
  deserialize function the sequence it reads, each from its own source. Writer
  and reader take one field per step. What is put is a chunk with its offset,
  its width and the member it came from; a reader takes the bytes at its own
  offset, so that one which reads other widths finds other bytes. A shape gives
  the lengths and flags that a value may have.
* `Launcher`. `proc` is the operating system's view of the children, the rest
  the owner's. A step is one system call on one child, or one request.

Composition. `Coordinator` implements `TaskService` (`IsService`), and
`ClientRequests` is built on `TaskService`: what is shown of the client holds
whatever nodes, attempts and the store do below. `Coordinator` takes the store for atomic, which `Store` implements
(`AtomicStore`); reports for ordered per attempt, which `NodeRuntime` and
`Channel` show (`ReportsInOrder`, `IsQueue`); and a closed connection
for reported, which `Connections` shows (`NoZombie`). `NodeRegistration` and
`ClientRequests` put both ends of a connection into one module.

## Runs

| Run | Instance | Shows |
|---|---|---|
| `restart` | a task and its dependent, one node, two sessions, two epochs, two attempts | types, dependency gating, success only by commit, current store, no stale authority, honoured cancellations, durable commits; `Coordinator` implements `TaskService` |
| `slots` | two tasks on one slot, or one task with two symmetric nodes; two attempts | `CapacityRespected`, `NoLeakedReservation` |
| `timers` | one task, three attempts, fair | `RetryLeaves`, `DispatchResolves` |
| `connections` | one connection, a node's or a client's, queues of one, fair | no lookup map keeps a dead connection; the answer to a shutdown leaves before the coordinator stops; `stop()` returns; a dead connection is forgotten and destroyed |
| `node_runtime` | two attempts, the first already filling the queue, one worker, queues of one, sends that may time out, every event within `OneEnding`, fair | reports leave once and in order; the token table matches the work; every attempt is answered, its answer timed out, or the node stops; `stop()` returns |
| `node_registration` | three tries, fair | node and coordinator never hold different sessions of a live connection, and agree in the end |
| `client_requests` | a task and its dependent, two connections, two requests each, one restart | no answer is taken for another's; what a client was told of a task stays true |
| `channel` | two senders, three frames, one over the limit, fair | `Channel` implements `FrameQueue`; a malformed frame has a cause; a frame begun is received, the connection closes or a send was cut short |
| `socket` | three users, three closers, fair | no use or close of a descriptor given back; `close` returns |
| `codec` | every type; lists, strings and optionals to one past the bounds; cuts before, in and after every length and number of one value | round trip, nothing within the bounds refused, no read past the end |
| `store` | four states, the largest over both limits of `load`, deaths at every step, all faults | `Store` implements `AtomicStore` until the disk loses data; until then the file at the path is one whole state, and loads if that is within the limits; `start()` fails or loads a state that was saved; a restart knows every persisted commit until the first fault |
| `launcher` | three nodes | no process left behind, no foreign pid signalled, confirmed ends and registrations are real |

Two more configurations pass and look at larger instances: `Supersede.cfg`
(two connections of one node id, `NoZombie`) and `NodeEndings.cfg`
(`node_runtime` without its bound `OneEnding`).

### Disagreements

The repository's docs, comments and tests say some things that the code does not
keep. Each of these configurations checks such a sentence as a property, and TLC
finds a behaviour of the model, hence of the code, that violates it. They are
kept beside the runs above because a change to the code may settle them. The
constraint of `DrainNodes.cfg` only shortens the way to its counterexample.

| Configuration (module) | Property | Said | The code |
|---|---|---|---|
| `SingleAuthority.cfg` (`MCCoordinator`) | `SingleAuthority` | `attempt.h:39`: "Only one attempt may hold active execution authority for a non-speculative task at a time" | `coordinator.cpp:1852`: a timed-out attempt stays live beside its successor |
| `StaleSession.cfg` (`MCCoordinator`) | `OnlyCurrentSessionCommits` | `SECURITY.md:52`: "Stale coordinator epochs and node sessions cannot commit execution results" | `coordinator.cpp:1262`: the session of a completion is not compared |
| `SessionBound.cfg` (`MCCoordinator`) | `ReservationsSessionBound` | `reservation.h:16`: reservations "are invalidated on coordinator restart and on node session changes" | `coordinator.cpp:954`: a new session inherits them |
| `RetryAfterRestart.cfg` (`MCCoordinator`) | `RetryLeaves` | `coordinator.cpp:165`: "requeue eligible work" | `coordinator.cpp:168`: a stored RetryPending task is never retried |
| `CancelAfterRestart.cfg` (`MCCoordinator`) | `CancelHonoured` | `coordinator.cpp:1620`: "cancel requested; will take effect cooperatively" | `coordinator.cpp:1618`: a restart forgets the request |
| `Drain.cfg` (`MCCoordinator`) | `DrainSticks` | `README.md:25`: "drain control" | `coordinator.cpp:1008`: the next heartbeat undoes a drain |
| `LateCommit.cfg` (`MCCoordinator`) | `CommitSucceeds` | `dag.h:16`: "have committed successfully (state == Succeeded)" | `coordinator.cpp:1325`: a commit while Dispatching does not make the task Succeeded |
| `LateDependent.cfg` (`MCCoordinator`) | `SatisfiedLeavesBlocked` | `test_coordinator.cpp:163`: a dependent comes to `TaskState::Succeeded` | `coordinator.cpp:1528`: one submitted after its dependency succeeded stays Blocked |
| `ReaderHandle.cfg` (`MCConnections`) | `NoJoinableDestroyed` | `coordinator.h:260`: "never destroy a std::thread while joinable" | `coordinator.cpp:349`: the reaper may pass over a reader whose handle is assigned later |
| `StopJoins.cfg` (`MCConnections`) | `StopJoinsAll` | `coordinator.h:172`: "joins all threads" | `coordinator.cpp:412`: a retirement between flag and push is joined by nobody |
| `DrainNodes.cfg` (`MCConnections`) | `NodesLeaveFirst` | `coordinator.cpp:1801`: "one shared, bounded opportunity to leave" | `coordinator.cpp:1808`: one failed node ends the drain of the others |
| `NodeTimeout.cfg` (`MCNodeRuntime`) | `OutcomesNeverLost` | `node_runtime.cpp:400`: "A terminal outcome must never disappear while its reservation remains live" | `node_runtime.cpp:488`: an outcome whose send timed out is not sent again |
| `NodeWakeup.cfg` (`MCNodeRuntime`) | `ShutsDown` | `node_runtime.h:39`: "shuts down cleanly" | `node_runtime.cpp:49`: `run()` can miss the only notification |
| `CancelRetry.cfg` (`MCClientRequests`) | `RepeatedCancelSameAnswer` | `coordinator.h:132`: duplicates "return the cached response instead of being re-applied" | `coordinator.cpp:90`: nothing uses the cache |
| `StoreLimit.cfg` (`MCStore`) | `EverySaveLoads` | `README.md:37`: "Durable coordinator recovery" | `store.cpp:273`: `save` writes what `load` refuses |

The conditions in the properties of `Store` mark three more. `persist()` only
logs a failed save (`coordinator.cpp:246`), so a crash before the next save
loses a commit. `file_exists` is false for a file that cannot be opened
(`store.cpp:120`), so `open` replaces it by an empty store. Nothing is synced to
the disk before the rename (`store.cpp:53`), so a loss of power can leave a file
that `load` refuses.

Bounds. `MaxAttempt` 2 gives an older and a newer attempt of a task, the case
all late reports are about; 3 in `timers` lets a task be retried and time out
again. `MaxSession` 2 gives a superseded session, `MaxEpoch` 2 a restart with
reports of the old epoch under way. `DrainNode` limits the nodes that clients
drain. The constraint `TaskOrNode` of `slots` leaves out behaviours with a
second node and also a second task or a drain; the theorems cover those. The
constraint `OneEnding` of `node_runtime` lets the coordinator cancel at most one
attempt, and lets the connection break, or an operator interrupt, only before
something else stops the node. It restricts no step that fairness is assumed of.
Queues of one element are both empty and full. The initial states of
`connections` have one connection yet to come, of either side, and all others
come and gone; that of `node_runtime` has one attempt already queued. Both are
states the program reaches. Three tries give an abandoned registration between two others; two
connections of two requests let a client give one up, repeat it and make another.
No task of that instance has the zero id, which the theorems allow. Three states
within the limits let the store lose, keep and add a commitment, and a fourth is
over them. Three nodes give the launcher's loops a first,
a middle and a last child. Three frames of different lengths, one of them without
a payload and one over the limit, let a fragment lie between two others. The
bounds of `codec` are 2 for lists and 1 for strings: an empty list, one item,
the bound, and one more. Symmetry is used for invariants only, on nodes in
`slots`. Deadlock is not checked
where everything may come to rest: after a shutdown, when all requests, tries or
frames are used up, and when a message of `codec` is accepted or refused.

Fairness.

* `timers`: the sweep runs every 20 ms and an expired timer stays expired, so a
  dispatch or retry timer armed in infinitely many sweeps fires (strong, per
  task), and a sweep that has begun ends (weak). Nodes and clients are not fair.
* `Connections`, `NodeRuntime`, `Socket`: a thread that can take a step takes it
  (weak, per thread): every wait, send and receive has a timeout and kernels are
  bounded. Peers, operators, interrupts and the network are not fair.
* `NodeRegistration`: weak for the node, the readers and the core; losing the
  connection is not fair.
* `Channel`: strong for senders and the receiver. Receive timeouts come between
  two looks at the stream, so a look is not enabled without a break; a sender
  waits for a mutex that other senders hold for finitely many frames each.

## Proofs

Every proof has the same form: an inductive invariant (`IInv`; `Inv`, `SocketInv`,
`LauncherInv`, `ChannelInv` and `CodecInv` in the modules of those parts), a lemma per action or thread that it is kept, and the properties
from it. TLC checked each new invariant on the instances of its run, and those
of `Connections` and `NodeRuntime` on their larger configurations too, before it
was proved.

### Coordinator

Assumptions: `ConstantsAssumption` only (types of the constants; the bounds are
any naturals). `TypeCorrect` proves the type invariant, which includes that no
handler leaves a task in a state the code only passes through. `Safety` proves
the inductive invariant `IInv`: the safety invariants and four facts they need.

* `FreshIds`: an id not given out names no attempt, so a dispatch overwrites none.
* `CommitReported`: a committed attempt was reported complete, so the handlers
  that do not look at `committed` cannot alter it.
* `TodoReady`: the tasks a sweep has yet to visit are Ready.
* `CancelKept`: before a restart an acknowledged cancellation is flagged or done.

Each action has a lemma (`InvSubmit`, `InvCommit`, `InvLoss`, ...) that it keeps
`IInv` and makes a `SoundStep`: final states stay, gated states are entered
with satisfied dependencies, success comes with a commit, commits stay. From
these follow `GatingHolds`, `SucceededIsCommittedHolds`, `NoLeak`,
`DiskIsCurrent`, `EpochFences`, `CancelHolds`, `SettledHolds` and `CommitsHold`.
`CapacityHolds` adds that only a dispatch reserves, and only below capacity.

`Serves` is the refinement `IsService`, by the identity on `state` and
`cancel_requested`. `ReportMoves` and `LossMoves` say that what a report or a
loss makes of a task through `set_state` is among `Moves`; `ServesClient`,
`ServesReport`, `ServesSweep` and `ServesStart` put the handlers together. It
needs `IInv` in four places: a task at rest is in no state that is only passed
through, it leaves Blocked with its dependencies satisfied (`SoundStep`), the
sweep dispatches Ready tasks only (`TodoReady`), and a restart finds the states
the core had (`DiskCurrent`).

### Store

`SystemProofs` uses `StoreAssumption`: types, files no shorter than the header,
and committed attempts only in stored states. The inductive invariant `Inv`
holds under all faults: whatever is at the path, in the staging file or on the
disk was written from a state offered to `save`. `LoadsWhatWasSaved` follows.
Until power is lost or bytes are harmed the file at the path is whole, which gives
`StoreNeverTorn` (whatever the sizes: `load` accepts the file exactly if its state
is within the limits) and the refinement
`StoreIsAtomic`: the register's value is what `load` makes of the file, a save
in progress is `wanted`, and it is committed from the rename on, so that
`Rename` is the register's write, the steps before it and the failures leave
the value alone, and a death forgets only what was wanted. The register is
`broken`, and promises nothing more, once power was lost or bytes were harmed.
Until the first fault of any kind, `CommitsSurvive` adds that the file holds
every commit persisted.

### Connections

Assumptions: `ConnAssumption`. Nodes' and clients' connections are disjoint, the
queues have room for one element, and the set of nodes' connections is finite (the
core puts the open ones in some order when it drains them). `ConnectionsSafe`
proves `IInv`.

* `NoneLost` is what `NoZombie` rests on: until `stopping_`, a connection that is
  in `node_conns_` or `client_conns_`, or that a queued command will put there,
  has sent its registration, and either its reader has not yet reported the
  disconnection or the last queued command about it is that report. It is not
  enough to look at the maps: a registration may be queued behind the report of
  another connection, and the reader may wait for room in the queue.
* `Announced`: the reader notes a registration before the core can see it, so
  that an end at any later point is reported.
* `SettingUp`: an acceptor sets up only connections of its side that have no
  reader yet.
* `AnswerFirst`: while the core drains, the client that asked for the shutdown
  is the first it waits for or has been answered. A writer may still take frames
  from the queue, and nobody adds any for that client.

The lemmas say what a thread may do to one connection and what that leaves of the
invariant (`ReaderGoes`, `WriterMoves`, `AcceptorMoves`, `CoreHandles`, ...);
`PopKeeps` and `PushKeeps` say what a pop and a push do to the commands about a
connection. `MapsForget` is `NoZombie`, `ClientAnswered` is `AnswerLeavesFirst`.

### Node runtime

Assumptions: `RuntimeAssumption`: `None` is no attempt, and kernels end in one of
the three outcomes. `RuntimeSafe` proves `IInv`.

* `OnePlace`: an attempt is with the reader, in the executor's queue, with one
  worker, in the completion queue or with the completion thread, and in one of
  them at most; one that has not been dispatched is in none.
* `Reported`: its place says what has been sent about it, from nothing to
  everything. This needs `OnePlace`: two threads that hold the same attempt could
  both report it.
* `InTurn`: the reports of an attempt are a beginning of start, outcome, release,
  or of failure, release.
* `Tokens`: which of these places imply an entry in `active_tokens_`, and that
  an entry has a place.

`ToldInOrder` is `ReportsInOrder`, about the reports in the order of their sends.
A send that times out while the connection lasts leaves a gap in what arrives:
an outcome can be lost and the release still arrive (`NodeTimeout.cfg`).
`TokensRight` is `TokensMatchWork`.

### Registration

`NodeRegistrationProofs` assumes a positive number of tries. `OneRegistration`
says that a connection's registration is queued at most once, and that the core
has not answered a connection whose registration is with its reader or queued.
`AckOrSession` says that the session of the current connection is in the ack on
its way or with the node. From them follow `SessionsAgree` (`SameSession`) and
the action property `OneSessionPerTry`.

### Client requests

`ClientProofs` assumes `ClientBounds` (positive bounds; dependencies are tasks).
`UnderWay` says of every request and response, in whichever sequence it waits,
that the client made it, that it is for the client's operation if it has the
number of the client's last request on the current connection, and that a
response is true of the tasks (`Holds`). `AnswersHold` is not inductive for the
answer "cancel requested": `Holds` adds that the request is still flagged or the
task Cancelled. `TasksKeep` is that no step of `TaskService` makes an answer
untrue; the answers "task already failed" and "task already preempted" promise
nothing, because another attempt's failure or loss may revive such a task.
`OwnAnswers` and `ToldForGood` follow.

### Launcher

For every number of nodes (`N` is a positive natural) `LauncherSafe` proves
`LauncherInv`, and the four invariants follow as `NothingOrphaned`, `OwnPidsOnly`,
`GoneWhenConfirmed` and `AliveWhenRegistered`. They are not inductive alone:
`LauncherInv` adds how far each loop of the owner has come: which children `launch` has
started (`Launching`), which ones `wait_registered` has seen (`Watching`), and
which ones the forced phase of `shutdown_all` has killed (`Killing`, `Killed`).

### Socket

`SocketSafe` proves `DescriptorIsOurs` for every finite set of users and any
closers. The invariant ties `active_operations` to the number of threads it
counts (`Counted`), and the flags to the one closer that goes on (`Guarded`).

### Channel

Assumptions: `ChannelAssumption`. A header has at least one byte, lengths and the
receiver's limit are naturals; there may be any senders and any frames. What
recv_frame returns depends on bytes that several senders wrote, of which some
were cut short, and on a buffer that outlives its timeouts, so that the invariant
`ChannelInv` is about all bytes that were sent and not yet returned, in the buffer
or under way.

* `OneAtATime`: only the holder of `send_mu_` has sent a part of its frame, and
  that is the frame begun last.
* `Due`: the first of the bytes begins the frame that recv_frame is due, also in
  the middle of a frame and after a timeout.
* `Unbroken`, `Following`: a frame that was not cut short is there byte by byte,
  and the next begins right after it.
* `Sent`, `Ending`: which bytes there can be, and which is the last. The last
  byte of a frame that was cut short is not among them, so that no fragment passes
  for a frame.

It holds until recv_frame fails for good; what is buffered or under way then is
never looked at again, and the connection is closed. From it follow
`ChannelWholeAndInOrder`, `ChannelMalformedHasCause`, `ChannelReturnsOnce` and the
refinement `ChannelIsQueue`: a frame enters the queue with its first byte, leaves
it when `TakeFrame` returns it, is lost when `SendEnds` gives up on it, and all
other steps are invisible to the queue but the two that end it.

### Codec

Assumptions: `CodecAssumption`: the bounds and the lengths in a shape are
naturals. `SameFields` compares the deserialize function of each message and
stored type with its serialize function, field by field. The invariant `CodecInv`
says that the chunks lie side by side (`Layout`) and that a reader at the offset
of a chunk has those fields left to read that the writer had left to put when it
was there (`Resumes`). The fields that follow depend on the counts and flags
found on the way, and there is no bound on how many there are: the invariant
keeps the fields left before each chunk as a history (`History`), which a `Put`
makes longer and a read moves along, so that no induction over the message is
needed. `CodecRoundTrip`, `CodecInBoundsAccepted` and `CodecNoOverread` follow.

### Only model-checked

* Liveness under fairness, which is outside the prover: `RetryLeaves`,
  `DispatchResolves`, `StopReturns`, `DeadIsReaped`, `EveryAttemptAnswered`,
  `Settles`, `Delivered`, `CloseReturns`.

## Not modelled

* Costs, history and state locality: floating-point sums that order eligible
  nodes and exclude none. `place` is any eligible node.
* The CUDA executor: device calls behind the interface of the CPU executor,
  whose queue, workers and shutdown are modelled. Kernels are their outcome.
* Windows branches of sockets, store and launcher; only the POSIX ones are.
* Name resolution, `connect`, `bind` and socket options: single system calls. A
  foreign process that takes a port the launcher picked is not modelled either.
* Checksum collisions: `Crc32` is taken to tell harmed from unharmed.
* `invalidate_before`, `invalidate_session`, `handle_dispatch_ack`,
  `cancel_attempt` of the executor and the idempotency cache have no caller in
  the program.
* The task graph's cycle search, roll-back and order: a task submitted through
  the coordinator names only tasks that are there, so none of them can refuse it.
* Tasks that ask for several slots, for scratch memory or for none, and a node
  that registers with another capacity than before.
* What becomes of a dependent of a failed task, and whether losses count
  towards `max_attempts`: the model follows the code, and nothing in the
  repository says what should happen.
* Telemetry, logging, JSON, the CLI, benchmarks and examples: no decision of
  the control plane reads them.
