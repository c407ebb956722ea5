---------------------------- MODULE NodeRuntime ----------------------------
(***************************************************************************)
(* A registered node: the reader, heartbeat, completion and worker threads *)
(* of NodeRuntime (src/src/node/node_runtime.cpp) and CpuExecutorBackend   *)
(* (src/src/executor/cpu_executor.cpp), the thread in run() and the one    *)
(* that calls stop() (cmd_node in src/src/cli/cli.cpp).                    *)
(*                                                                         *)
(* A step is what a thread does between two points where it can wait: a    *)
(* locked region, a send, a wait.  Sends are serialised by send_mu_ and    *)
(* bounded by io_timeout_ms, so each is one step.  The coordinator at the  *)
(* other end dispatches, cancels, shuts down or goes away at will.         *)
(***************************************************************************)
EXTENDS Naturals, Sequences, Functions

CONSTANTS
  Attempt, Worker,
  kMaxQueue,       \* bound of the executor's queue (1024)
  kMaxCompQueue,   \* bound of the completion queue (4096)
  Events,          \* what happens besides dispatches: some of "refuse", "cancel",
                   \* "stop", "lost", "interrupt"
  KernelEnds,      \* how a kernel may end: "Succeeded", "Failed"
  SendTimeouts,    \* whether a send may time out while the connection lasts
  None

VARIABLES
  stopping,       \* NodeRuntime::stopping_
  channel,        \* whether the node's channel is open
  peer,           \* whether the coordinator's end is
  main,           \* the thread that waits for an interrupt and calls stop()
  runner,         \* the thread in run()
  reader, hb, completion,
  worker,
  queue,          \* of the executor
  exec_stopping,  \* CpuExecutorBackend::stopping_
  comp_queue,
  token,          \* the attempts whose CancellationToken was requested
  active_tokens,  \* NodeRuntime::active_tokens_: the attempts it has entries for
  outcome,        \* how the executor ended each attempt
  given,          \* the attempts dispatched so far
  wire            \* the reports sent about each attempt, and what became of each

flags == <<stopping, channel, peer, runner>>
work == <<queue, exec_stopping, comp_queue>>
book == <<token, active_tokens, outcome, given, wire>>
vars == <<flags, main, reader, hb, completion, worker, work, book>>

At(pc, a) == [pc |-> pc, item |-> a]

Terminal == {"Succeeded", "Failed", "Cancelled"}

ASSUME RuntimeAssumption == None \notin Attempt /\ KernelEnds \subseteq Terminal

-----------------------------------------------------------------------------
(* Shared steps.                                                           *)

\* What can become of a frame that is sent now
Fates ==
  CASE ~(channel /\ peer) -> {"lost"}
    [] channel /\ peer /\ SendTimeouts -> {"arrived", "timed out"}
    [] OTHER -> {"arrived"}

\* send_frame.  The result of a report is ignored by every caller.
Send(a, m) ==
  \E f \in Fates: wire' = [wire EXCEPT ![a] = Append(@, [report |-> m, fate |-> f])]

\* request_runtime_stop: the flag is set and the waiters notified without
\* lifecycle_mu_; a thread that has not parked yet misses it.
request_runtime_stop ==
  /\ stopping' = TRUE
  /\ runner' = IF runner = "parked" THEN "check" ELSE runner

forget_attempt(a) == active_tokens' = active_tokens \ {a}

-----------------------------------------------------------------------------
(* read_loop.                                                              *)

ReaderKeeps == UNCHANGED <<main, hb, completion, worker, exec_stopping, comp_queue, outcome, peer, channel>>

\* A timeout, or the end of a turn, looks at stopping_.
ReadStops ==
  /\ reader.pc = "recv" /\ stopping
  /\ reader' = At("exit", None)
  /\ UNCHANGED <<stopping, runner, queue, token, active_tokens, given, wire>> /\ ReaderKeeps

ReadFails ==
  /\ reader.pc = "recv" /\ ~(channel /\ peer)
  /\ reader' = At("exit", None) /\ request_runtime_stop
  /\ UNCHANGED <<queue, token, active_tokens, given, wire>> /\ ReaderKeeps

\* kDispatchAttempt, up to the first send or to enqueue: a stale epoch is
\* refused at once, a task no executor can run after its token is forgotten.
handle_dispatch(a) ==
  /\ reader.pc = "recv" /\ channel /\ peer /\ a \notin given
  /\ given' = given \union {a}
  /\ \/ "refuse" \in Events /\ reader' = At("refuse", a) /\ UNCHANGED active_tokens
     \/ reader' = At("enqueue", a) /\ active_tokens' = active_tokens \union {a}
  /\ UNCHANGED <<stopping, runner, queue, token, wire>> /\ ReaderKeeps

\* Mutant: a refused attempt keeps its token
enqueue_unforgotten ==
  /\ reader.pc = "enqueue"
  /\ IF ~exec_stopping /\ Len(queue) < kMaxQueue
     THEN queue' = Append(queue, reader.item) /\ reader' = At("recv", None)
     ELSE reader' = At("refuse", reader.item) /\ UNCHANGED queue
  /\ UNCHANGED <<stopping, runner, active_tokens, token, given, wire>> /\ ReaderKeeps

\* CpuExecutorBackend::enqueue, and handle_dispatch's answer to a refusal
enqueue ==
  /\ reader.pc = "enqueue"
  /\ IF ~exec_stopping /\ Len(queue) < kMaxQueue
     THEN /\ queue' = Append(queue, reader.item) /\ reader' = At("recv", None)
          /\ UNCHANGED active_tokens
     ELSE /\ forget_attempt(reader.item) /\ reader' = At("refuse", reader.item)
          /\ UNCHANGED queue
  /\ UNCHANGED <<stopping, runner, token, given, wire>> /\ ReaderKeeps

\* send_failed on the reader thread: the report, then the release
Refuse ==
  /\ \/ reader.pc = "refuse" /\ Send(reader.item, "Failed") /\ reader' = At("release", reader.item)
     \/ reader.pc = "release" /\ Send(reader.item, "Release") /\ reader' = At("recv", None)
  /\ UNCHANGED <<stopping, runner, queue, token, active_tokens, given>> /\ ReaderKeeps

\* kAttemptCancel
handle_cancel(a) ==
  /\ reader.pc = "recv" /\ channel /\ peer /\ a \in given /\ "cancel" \in Events
  /\ token' = IF a \in active_tokens THEN token \union {a} ELSE token
  /\ UNCHANGED <<reader, stopping, runner, queue, active_tokens, given, wire>> /\ ReaderKeeps

\* kNodeShutdown with this session, or a refused heartbeat
ToldToStop ==
  /\ reader.pc = "recv" /\ channel /\ peer /\ "stop" \in Events
  /\ request_runtime_stop
  /\ UNCHANGED <<reader, queue, token, active_tokens, given, wire>> /\ ReaderKeeps

-----------------------------------------------------------------------------
(* CpuExecutorBackend::worker_loop and run_one.                            *)

WorkerKeeps == UNCHANGED <<main, reader, hb, completion, exec_stopping, token, given, peer>>

WorkerAt(w, pc) == worker[w].pc = pc
WorkerTo(w, pc) == worker' = [worker EXCEPT ![w].pc = pc]

TakeWork(w) ==
  /\ WorkerAt(w, "idle") /\ queue # <<>>
  /\ worker' = [worker EXCEPT ![w] = At("start", Head(queue))] /\ queue' = Tail(queue)
  /\ UNCHANGED <<stopping, runner, channel, comp_queue, active_tokens, outcome, wire>> /\ WorkerKeeps

\* Only an empty queue lets a worker leave.
WorkerExit(w) ==
  /\ WorkerAt(w, "idle") /\ queue = <<>> /\ exec_stopping
  /\ WorkerTo(w, "exit")
  /\ UNCHANGED <<stopping, runner, channel, queue, comp_queue, active_tokens, outcome, wire>> /\ WorkerKeeps

\* on_start: send_started
OnStart(w) ==
  /\ WorkerAt(w, "start") /\ Send(worker[w].item, "Started") /\ WorkerTo(w, "test")
  /\ UNCHANGED <<stopping, runner, channel, queue, comp_queue, active_tokens, outcome>> /\ WorkerKeeps

\* run_one: a token requested before execution ends the attempt; after that
\* the kernel polls it, and may end before it sees a request.
TestToken(w) ==
  /\ WorkerAt(w, "test")
  /\ IF worker[w].item \in token
     THEN outcome' = [outcome EXCEPT ![worker[w].item] = "Cancelled"] /\ WorkerTo(w, "report")
     ELSE WorkerTo(w, "run") /\ UNCHANGED outcome
  /\ UNCHANGED <<stopping, runner, channel, queue, comp_queue, active_tokens, wire>> /\ WorkerKeeps

RunKernel(w) ==
  /\ WorkerAt(w, "run") /\ WorkerTo(w, "report")
  /\ \E o \in KernelEnds: outcome' = [outcome EXCEPT ![worker[w].item] = o]
  /\ UNCHANGED <<stopping, runner, channel, queue, comp_queue, active_tokens, wire>> /\ WorkerKeeps

\* on_complete: queued, or dropped because the runtime stops
OnComplete(w) ==
  /\ WorkerAt(w, "report") /\ worker' = [worker EXCEPT ![w] = At("idle", None)]
  /\ \/ /\ ~stopping /\ Len(comp_queue) < kMaxCompQueue
        /\ comp_queue' = Append(comp_queue, worker[w].item) /\ UNCHANGED active_tokens
     \/ stopping /\ forget_attempt(worker[w].item) /\ UNCHANGED comp_queue
  /\ UNCHANGED <<stopping, runner, channel, queue, outcome, wire>> /\ WorkerKeeps

\* Mutant: an outcome without room is dropped and the transport kept
Saturated_drops(w) ==
  /\ WorkerAt(w, "report") /\ ~stopping /\ Len(comp_queue) >= kMaxCompQueue
  /\ forget_attempt(worker[w].item)
  /\ worker' = [worker EXCEPT ![w] = At("idle", None)]
  /\ UNCHANGED <<stopping, runner, channel, queue, comp_queue, outcome, wire>> /\ WorkerKeeps

\* on_complete: no room within 5 s; terminate_transport
Saturated(w) ==
  /\ WorkerAt(w, "report") /\ ~stopping /\ Len(comp_queue) >= kMaxCompQueue
  /\ forget_attempt(worker[w].item)
  /\ request_runtime_stop /\ channel' = FALSE
  /\ worker' = [worker EXCEPT ![w] = At("idle", None)]
  /\ UNCHANGED <<queue, comp_queue, outcome, wire>> /\ WorkerKeeps

-----------------------------------------------------------------------------
(* completion_loop.                                                        *)

CompletionKeeps ==
  UNCHANGED <<flags, main, reader, hb, worker, queue, exec_stopping, token, outcome, given>>

\* Mutant: the item is copied, and popped only by the next turn's wait
TakeCompletion_copies ==
  /\ completion.pc = "wait" /\ ~stopping /\ comp_queue # <<>>
  /\ completion' = At("report", Head(comp_queue))
  /\ forget_attempt(Head(comp_queue))
  /\ UNCHANGED <<comp_queue, wire>> /\ CompletionKeeps

\* The loop ends with stopping_, whatever is still queued; an item is taken
\* under the lock and forgotten next.
TakeCompletion ==
  /\ completion.pc = "wait" /\ ~stopping /\ comp_queue # <<>>
  /\ completion' = At("report", Head(comp_queue)) /\ comp_queue' = Tail(comp_queue)
  /\ forget_attempt(Head(comp_queue))
  /\ UNCHANGED wire /\ CompletionKeeps

CompletionExit ==
  /\ completion.pc = "wait" /\ stopping
  /\ completion' = At("exit", None)
  /\ UNCHANGED <<comp_queue, active_tokens, wire>> /\ CompletionKeeps

\* send_complete, send_cancelled, send_failed: the report, then the release
Report ==
  /\ LET a == completion.item IN
     \/ completion.pc = "report" /\ Send(a, outcome[a]) /\ completion' = At("release", a)
     \/ completion.pc = "release" /\ Send(a, "Release") /\ completion' = At("wait", None)
  /\ UNCHANGED <<comp_queue, active_tokens>> /\ CompletionKeeps

-----------------------------------------------------------------------------
(* heartbeat_loop: one whose send fails stops the runtime.                 *)

HeartbeatFails ==
  /\ hb = "wait" /\ ~stopping /\ (SendTimeouts \/ ~channel \/ ~peer)
  /\ hb' = "exit" /\ request_runtime_stop
  /\ UNCHANGED <<channel, peer, main, reader, completion, worker, work, book>>

\* Mutant: the loop does not look at stopping_ between two waits
HeartbeatExit_unseen ==
  /\ hb = "wait" /\ stopping /\ hb' = "wait"
  /\ UNCHANGED <<flags, main, reader, completion, worker, work, book>>

HeartbeatExit ==
  /\ hb = "wait" /\ stopping /\ hb' = "exit"
  /\ UNCHANGED <<flags, main, reader, completion, worker, work, book>>

-----------------------------------------------------------------------------
(* run(): the predicate is tested under lifecycle_mu_, then the thread     *)
(* parks; request_runtime_stop can run between the two.                    *)

RunTests ==
  /\ runner = "check" /\ runner' = IF stopping THEN "done" ELSE "tested"
  /\ UNCHANGED <<stopping, channel, peer, main, reader, hb, completion, worker, work, book>>

RunParks ==
  /\ runner = "tested" /\ runner' = "parked"
  /\ UNCHANGED <<stopping, channel, peer, main, reader, hb, completion, worker, work, book>>

\* The standard lets a wait return for no reason.
RunWakes ==
  /\ runner = "parked" /\ runner' = "check"
  /\ UNCHANGED <<stopping, channel, peer, main, reader, hb, completion, worker, work, book>>

-----------------------------------------------------------------------------
(* stop(), called when run() has returned or at an interrupt.              *)

MainKeeps == UNCHANGED <<peer, reader, hb, completion, worker, queue, comp_queue, outcome, given, wire>>

BeginStop(interrupted) ==
  /\ main = "poll" /\ (runner = "done" \/ (interrupted /\ "interrupt" \in Events))
  /\ main' = "tokens" /\ request_runtime_stop
  /\ UNCHANGED <<channel, exec_stopping, token, active_tokens>> /\ MainKeeps

CancelTokens ==
  /\ main = "tokens" /\ main' = "close"
  /\ token' = token \union active_tokens
  /\ UNCHANGED <<stopping, channel, runner, exec_stopping, active_tokens>> /\ MainKeeps

CloseChannel ==
  /\ main = "close" /\ main' = "executor" /\ channel' = FALSE
  /\ UNCHANGED <<stopping, runner, exec_stopping, token, active_tokens>> /\ MainKeeps

\* CpuExecutorBackend::shutdown(false): the flag, then the queued tokens
ExecutorStops ==
  /\ main = "executor" /\ main' = "drain" /\ exec_stopping' = TRUE
  /\ UNCHANGED <<stopping, channel, runner, token, active_tokens>> /\ MainKeeps

CancelQueued ==
  /\ main = "drain" /\ main' = "workers"
  /\ token' = token \union Range(queue)
  /\ UNCHANGED <<stopping, channel, runner, exec_stopping, active_tokens>> /\ MainKeeps

JoinWorkers ==
  /\ main = "workers" /\ \A w \in Worker: WorkerAt(w, "exit")
  /\ main' = "threads"
  /\ UNCHANGED <<stopping, channel, runner, exec_stopping, token, active_tokens>> /\ MainKeeps

JoinThreads ==
  /\ main = "threads" /\ hb = "exit" /\ reader.pc = "exit" /\ completion.pc = "exit"
  /\ main' = "stopped" /\ active_tokens' = {}
  /\ UNCHANGED <<stopping, channel, runner, exec_stopping, token>> /\ MainKeeps

\* cmd_node: runner.join(), and the process ends
JoinRunner ==
  /\ main = "stopped" /\ runner = "done" /\ main' = "exit"
  /\ UNCHANGED <<stopping, channel, runner, exec_stopping, token, active_tokens>> /\ MainKeeps

\* The coordinator closes its end, or the connection breaks.
PeerLost ==
  /\ peer /\ channel /\ "lost" \in Events /\ peer' = FALSE
  /\ UNCHANGED <<stopping, channel, runner, main, reader, hb, completion, worker, work, book>>

Exited == main = "exit" /\ UNCHANGED vars

-----------------------------------------------------------------------------
Init ==
  /\ stopping = FALSE /\ channel = TRUE /\ peer = TRUE
  /\ main = "poll" /\ runner = "check" /\ hb = "wait"
  /\ reader = At("recv", None) /\ completion = At("wait", None)
  /\ worker = [w \in Worker |-> At("idle", None)]
  /\ queue = <<>> /\ exec_stopping = FALSE /\ comp_queue = <<>>
  /\ token = {} /\ active_tokens = {} /\ given = {}
  /\ outcome = [a \in Attempt |-> "None"] /\ wire = [a \in Attempt |-> <<>>]

read_loop == ReadStops \/ ReadFails \/ enqueue \/ Refuse

worker_loop(w) ==
  \/ TakeWork(w) \/ WorkerExit(w) \/ OnStart(w) \/ TestToken(w) \/ RunKernel(w)
  \/ OnComplete(w) \/ Saturated(w)

completion_loop == TakeCompletion \/ CompletionExit \/ Report

run == RunTests \/ RunParks

stop ==
  \/ BeginStop(FALSE) \/ CancelTokens \/ CloseChannel \/ ExecutorStops \/ CancelQueued
  \/ JoinWorkers \/ JoinThreads \/ JoinRunner

Next ==
  \/ read_loop \/ ToldToStop \/ PeerLost
  \/ \E a \in Attempt: handle_dispatch(a) \/ handle_cancel(a)
  \/ \E w \in Worker: worker_loop(w)
  \/ completion_loop \/ HeartbeatFails \/ HeartbeatExit
  \/ run \/ RunWakes \/ stop \/ BeginStop(TRUE) \/ Exited

\* Every thread that can take a step takes it in the end: kernels are bounded
\* (64M elements), waits and sends have timeouts.  What the coordinator, an
\* operator or the network does is never assumed.
Fairness ==
  /\ WF_vars(read_loop) /\ WF_vars(completion_loop) /\ WF_vars(HeartbeatExit)
  /\ \A w \in Worker: WF_vars(worker_loop(w))
  /\ WF_vars(run) /\ WF_vars(stop)

Spec == Init /\ [][Next]_vars /\ Fairness

-----------------------------------------------------------------------------
(* Properties.                                                             *)

\* The reports s are those of t, as far as they have come.
Follows(s, t) == Len(s) <= Len(t) /\ \A i \in 1 .. Len(s): s[i].report = t[i]

\* An attempt is reported in the order the coordinator relies on: that it
\* started, then one outcome, then the release, each once, from whichever
\* threads the reports come; an attempt that is refused has no start.  The
\* threads go on whatever becomes of a report, so what arrives is in that
\* order too, with a gap only where a send of its own timed out.
ReportsInOrder ==
  \A a \in Attempt: \E o \in Terminal:
    \/ Follows(wire[a], <<"Started", o, "Release">>)
    \/ Follows(wire[a], <<"Failed", "Release">>)

\* A cancellation finds the token of every attempt that waits or runs, and
\* the runtime keeps no token of an attempt it is done with.
TokensMatchWork ==
  LET executing == (Range(queue) \union {worker[w].item: w \in Worker}) \ {None}
  IN  main \notin {"stopped", "exit"} =>
        /\ executing \subseteq active_tokens
        /\ active_tokens \subseteq executing \union Range(comp_queue) \union {reader.item}

\* Some outcome of a was sent, with the fate f.
OutcomeSent(a, f) == \E i \in DOMAIN wire[a]: wire[a][i].report \in Terminal /\ wire[a][i].fate = f

\* Every attempt a node was given is answered, unless the runtime stops and
\* node-loss recovery takes over, or the one send of its outcome timed out.
EveryAttemptAnswered ==
  \A a \in Attempt:
    a \in given ~> (stopping \/ OutcomeSent(a, "arrived") \/ OutcomeSent(a, "timed out"))

\* "A terminal outcome must never disappear while its reservation remains
\* live."  One whose send times out does: nothing sends it again.
OutcomesNeverLost ==
  \A a \in Attempt: a \in given ~> (stopping \/ OutcomeSent(a, "arrived"))

\* stop() returns, with every thread it started joined.
StopReturns == main = "tokens" ~> main = "stopped"

\* A runtime that was told to stop shuts down: the process ends.
ShutsDown == stopping ~> main = "exit"
=============================================================================
