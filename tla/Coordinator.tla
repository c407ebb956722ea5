---------------------------- MODULE Coordinator ----------------------------
(***************************************************************************)
(* The coordinator's core thread (src/coordinator/coordinator.cpp): the    *)
(* task graph, the execution attempts, the reservations, the node registry *)
(* and the durable store, with one action per command handler, per step of *)
(* the periodic sweep and for a crash followed by start().                 *)
(*                                                                         *)
(* One thread owns all of this state, so a handler is one atomic action.   *)
(* The sweep persists after every item of its loops, so a crash can fall   *)
(* between two items: its loops are separate steps, ordered by pc, and no  *)
(* command is handled until the sweep is over.                             *)
(*                                                                         *)
(* Time is abstracted: a heartbeat, dispatch, backoff or deadline timer    *)
(* may expire at any sweep.  Nodes appear through the reports that reach   *)
(* the core queue: per attempt they arrive in the order in which the node  *)
(* sends them (one TCP stream, one queue), and with any delay.             *)
(***************************************************************************)
EXTENDS Integers, FiniteSets, TaskLifecycle

CONSTANTS
  Task,         \* task ids that clients may submit
  Node,         \* stable node ids
  TaskSpec,     \* the immutable ComputeTask of each id
  Capacity,     \* executor slots that each node registers with
  DrainNode,    \* bound: the nodes that clients drain
  MaxAttempt,   \* bound: attempts ever created
  MaxSession,   \* bound: registrations of one node
  MaxEpoch      \* bound: coordinator incarnations

\* The fields of ComputeTask and its RetryPolicy that change control flow.
\* "runs_on" holds the nodes not excluded for a static reason (executor,
\* capability, tags, forbidden nodes, total slots).  A task asks for one slot.
ComputeTask ==
  [deps : SUBSET Task, runs_on : SUBSET Node, priority : Nat,
   max_attempts : Nat \ {0}, retry_on_node_loss : BOOLEAN,
   retry_on_executor_failure : BOOLEAN, has_deadline : BOOLEAN]

ASSUME ConstantsAssumption ==
  /\ TaskSpec \in [Task -> ComputeTask]
  /\ Capacity \in [Node -> Nat]
  /\ DrainNode \subseteq Node
  /\ MaxAttempt \in Nat
  /\ MaxSession \in Nat
  /\ MaxEpoch \in Nat

AttemptId == 1..MaxAttempt   \* random 128-bit ids: fresh, never reused

\* ExecutionAttempt (attempt.h).  An attempt and its reservation are created
\* together, so one id names both.
AttemptState == {"Dispatched", "Started", "Succeeded", "Failed", "Cancelled"}

ExecutionAttempt ==
  [task : Task, node : Node, session : Nat, epoch : Nat, number : Nat,
   state : AttemptState, committed : BOOLEAN]

\* An id that attempts_ does not hold.
NoAttempt == [state |-> "None", committed |-> FALSE]

\* What the coordinator has been told about an attempt: "unsent" if its
\* DispatchAttempt never left, then the node's reports in stream order.
Report == {"unsent", "dispatched", "started", "completed", "ended", "released"}

\* NodeRecord: the fields that decide placement and liveness.
NodeHealth == {"Unknown", "Online", "Draining", "Offline"}
NodeRecord == [health : NodeHealth, connected : BOOLEAN, session : Nat]
NoNode == [health |-> "Unknown", connected |-> FALSE, session |-> 0]

VARIABLES
  state,             \* graph_ states_: [Task -> GraphState]
  attempts,          \* attempts_, by attempt id
  next_attempt,      \* the next fresh attempt (and reservation) id
  held,              \* reservations_: the ids that are not released
  task_reservation,  \* task_reservation_, 0 for no entry
  cancel_requested,  \* cancel_requested_: the tasks mapped to true
  retry_ready,       \* the keys of retry_ready_at_ms_
  nodes,             \* nodes_
  link,              \* node_conns_: no entry, an open or a stopped connection
  sessions,          \* number of sessions ever given to each node
  ended,             \* sessions whose NodeDisconnected has been handled
  told,              \* [AttemptId -> Report]
  cancel_sent,       \* attempts to which AttemptCancel was sent
  cancel_acked,      \* history: tasks whose client was answered cancelled=true
  drained,           \* history: nodes that a client drained since they registered
  epoch,             \* durable_.epoch
  disk,              \* the store file
  pc,                \* where the core thread is: "idle", "sweep", "schedule"
  todo               \* the Ready tasks schedule_ready_tasks still has to try

taskVars == <<state, attempts, next_attempt, held, task_reservation>>
nodeVars == <<nodes, link, sessions, ended>>
clientVars == <<cancel_requested, cancel_sent, cancel_acked, drained>>
sweepVars == <<pc, todo>>
vars == <<taskVars, nodeVars, clientVars, sweepVars, retry_ready, told,
          epoch, disk>>

-----------------------------------------------------------------------------
(* Task graph (src/task/dag.cpp) and policies (task.h).                    *)

Deps(t) == TaskSpec[t].deps

dependencies_satisfied(s, t) == \A d \in Deps(t) : s[d] = "Succeeded"

dependency_poisoned(s, t) ==
  \E d \in Deps(t) : s[d] \in {"Failed", "Lost", "Cancelled", "Expired"}

\* Retry rule of node loss and of restart: the attempts made are not counted.
retry_on_loss(t) ==
  TaskSpec[t].retry_on_node_loss /\ TaskSpec[t].max_attempts > 1

\* Retry rule of handle_attempt_failed.
can_retry(t, number, kind) ==
  /\ TaskSpec[t].max_attempts > 1
  /\ number + 1 < TaskSpec[t].max_attempts
  /\ kind # "NodeLost" \/ TaskSpec[t].retry_on_node_loss
  /\ kind # "ExecutorFailed" \/ TaskSpec[t].retry_on_executor_failure

\* Mutant: the second transition is forgotten.
AfterLoss_only(t, s) == After(s, "Lost")

\* Lost, then RetryPending or Failed, each applied only if legal.
AfterLoss(t, s) ==
  After(After(s, "Lost"), IF retry_on_loss(t) THEN "RetryPending" ELSE "Failed")

\* The dependents of id after it succeeded.  A poisoned dependent is sent to
\* Lost and Failed, and both are illegal from Blocked; the recursion below it
\* meets only tasks with a dependency that has not succeeded.
on_task_succeeded(s, id) ==
  [t \in Task |->
    LET r == IF s[t] = "Blocked" /\ dependencies_satisfied(s, t)
             THEN "Ready" ELSE s[t]
    IN  IF id \notin Deps(t) THEN s[t]
        ELSE IF dependency_poisoned(s, t) /\ r \in {"Blocked", "Submitted"}
             THEN After(After(r, "Lost"), "Failed")
             ELSE r]

-----------------------------------------------------------------------------
(* Store, reservations and connections.                                    *)

known(a) == attempts[a].state # "None"

\* An attempt that node loss and cancellation regard as executing.
executing(a) == attempts[a].state \in {"Started", "Dispatched"}

\* Mutant: the test of "committed" is inverted.
Saved_inverted(e, s, at) ==
  [epoch |-> e, state |-> s,
   attempts |-> [a \in AttemptId |-> IF at[a].committed THEN NoAttempt ELSE at[a]]]

\* Mutant: every attempt is stored.
Saved_all(e, s, at) == [epoch |-> e, state |-> s, attempts |-> at]

\* The file that persist() writes: every task state, only committed attempts.
Saved(e, s, at) ==
  [epoch |-> e, state |-> s,
   attempts |-> [a \in AttemptId |-> IF at[a].committed THEN at[a] ELSE NoAttempt]]

\* Mutant: the store is written only when an attempt changed.
persist_attempts(s, at) ==
  disk' = IF at = attempts THEN disk ELSE Saved(epoch, s, at)

persist(s, at) == disk' = Saved(epoch, s, at)

\* Mutant: the entry is erased and the reservation stays in the registry.
release_entry_only(S) ==
  /\ held' = held
  /\ task_reservation' =
       [t \in Task |-> IF t \in S THEN 0 ELSE task_reservation[t]]

\* Releases whatever reservation each task of S holds now.
release_task_reservation(S) ==
  /\ held' = held \ {task_reservation[t] : t \in S}
  /\ task_reservation' =
       [t \in Task |-> IF t \in S THEN 0 ELSE task_reservation[t]]

reservations_on(n) == {a \in held : attempts[a].node = n}

\* Mutant: the new reservation itself is not counted.
try_reserve_off_by_one(n) ==
  /\ nodes[n].health = "Online"
  /\ Cardinality(reservations_on(n)) <= Capacity[n]

try_reserve(n) ==
  /\ nodes[n].health = "Online"
  /\ Cardinality(reservations_on(n)) + 1 <= Capacity[n]

\* The candidates of SchedulerPolicyEngine::place: slots in use do not count,
\* and a node that lost its connection stays a candidate while it is Online.
place(t) == {n \in TaskSpec[t].runs_on : nodes[n].health = "Online"}

-----------------------------------------------------------------------------
(* Client commands.                                                        *)

\* Mutant: the dependencies are not looked at.
initial_state_ready(t) == "Ready"

\* A dependency that has already succeeded does not make the task Ready.
initial_state(t) == IF Deps(t) = {} THEN "Ready" ELSE "Blocked"

\* A task id that the graph holds is accepted again without effect.
handle_task_submit(t) ==
  LET s == set_state([state EXCEPT ![t] = "Submitted"], t, initial_state(t))
  IN  /\ pc = "idle"
      /\ state[t] = "Absent"
      /\ \A d \in Deps(t) : state[d] # "Absent"
      /\ state' = s
      /\ persist(s, attempts)
      /\ UNCHANGED <<attempts, next_attempt, held, task_reservation, nodeVars,
                     clientVars, sweepVars, retry_ready, told, epoch>>

\* Cancelling a Running task is cooperative: a flag that is not persisted and
\* an AttemptCancel to the oldest executing attempt, if its node is reachable.
cancel_running(t) ==
  LET live == {a \in AttemptId : executing(a) /\ attempts[a].task = t}
  IN  /\ state[t] = "Running"
      /\ cancel_requested' = cancel_requested \cup {t}
      /\ cancel_sent' = cancel_sent \cup
           {a \in live : /\ \A b \in live : a <= b
                         /\ link[attempts[a].node] = "open"}
      /\ UNCHANGED <<taskVars, disk>>

cancel_queued(t) ==
  LET s == set_state(state, t, "Cancelled")
  IN  /\ state[t] # "Running"
      /\ state' = s
      /\ release_task_reservation({t})
      /\ cancel_requested' = cancel_requested \ {t}
      /\ persist(s, attempts)
      /\ UNCHANGED <<attempts, next_attempt, cancel_sent>>

handle_task_cancel(t) ==
  /\ pc = "idle"
  /\ state[t] # "Absent" /\ ~is_terminal(state[t])
  /\ cancel_running(t) \/ cancel_queued(t)
  /\ cancel_acked' = cancel_acked \cup {t}
  /\ UNCHANGED <<nodeVars, sweepVars, drained, retry_ready, told, epoch>>

handle_node_drain(n, drain) ==
  /\ pc = "idle"
  /\ nodes[n].health \in {"Online", "Draining"}
  /\ nodes' = [nodes EXCEPT ![n].health = IF drain THEN "Draining" ELSE "Online"]
  /\ drained' = IF drain THEN drained \cup {n} ELSE drained \ {n}
  /\ UNCHANGED <<taskVars, link, sessions, ended, cancel_requested, cancel_sent,
                 cancel_acked, sweepVars, retry_ready, told, epoch, disk>>

-----------------------------------------------------------------------------
(* Attempt reports.  None of the handlers looks at the reporting session:  *)
(* a report counts until the NodeDisconnected queued behind it is handled. *)
(* After a restart an uncommitted attempt is unknown and the report of it  *)
(* that a node still delivers changes nothing.                             *)

\* find_active_attempt, and the epoch check of every report handler.
current(a) == known(a) /\ attempts[a].epoch = epoch

\* The next report about attempt a reaches the core, moving told[a] to "to".
report(a, from, to) ==
  /\ pc = "idle"
  /\ told[a] \in from
  /\ current(a) => attempts[a].session \notin ended[attempts[a].node]
  /\ told' = [told EXCEPT ![a] = to]
  /\ UNCHANGED <<nodeVars, sweepVars, cancel_sent, cancel_acked, drained,
                 epoch, next_attempt>>

ignored == UNCHANGED <<state, attempts, held, task_reservation,
                       cancel_requested, retry_ready, disk>>

apply_started(a) ==
  LET at == [attempts EXCEPT ![a].state = "Started"]
      s == set_state(state, attempts[a].task, "Running")
  IN  /\ attempts' = at
      /\ state' = s
      /\ persist(s, at)
      /\ UNCHANGED <<held, task_reservation, cancel_requested, retry_ready>>

handle_attempt_started(a) ==
  /\ report(a, {"dispatched"}, "started")
  /\ \/ ~current(a) /\ ignored
     \/ current(a) /\ apply_started(a)

\* The checks before a commit.  The reservation token always matches here.
completion_valid(a) ==
  /\ current(a)
  /\ executing(a)
  /\ state[attempts[a].task] \in {"Running", "Dispatching"}

\* Mutant: the flag is not looked at.
never_cancelled(a) == FALSE

cancelled_by_client(a) == attempts[a].task \in cancel_requested

\* The attempt ends Cancelled and its task Preempted, if that is legal.
apply_cancelled(a) ==
  LET t == attempts[a].task
      at == [attempts EXCEPT ![a].state = "Cancelled"]
      s == set_state(state, t, "Preempted")
  IN  /\ attempts' = at
      /\ state' = s
      /\ release_task_reservation({t})
      /\ persist(s, at)
      /\ UNCHANGED <<cancel_requested, retry_ready>>

\* Mutant: the attempt succeeds without being marked committed.
succeeded_only(a) == [attempts EXCEPT ![a].state = "Succeeded"]

\* The commit.  set_state(Succeeded) is dropped when the task is Dispatching.
committed(a) ==
  [attempts EXCEPT ![a].state = "Succeeded", ![a].committed = TRUE]

commit(a) ==
  LET t == attempts[a].task
      s == on_task_succeeded(set_state(state, t, "Succeeded"), t)
  IN  /\ attempts' = committed(a)
      /\ state' = s
      /\ release_task_reservation({t})
      /\ cancel_requested' = cancel_requested \ {t}
      /\ persist(s, committed(a))
      /\ UNCHANGED retry_ready

uncommitted(a) == known(a) /\ ~attempts[a].committed

\* A completion may be delivered again: a committed one is acknowledged again.
\* The cancellation check comes last and overrides the other reasons.
handle_attempt_complete(a) ==
  /\ report(a, {"started", "completed"}, "completed")
  /\ \/ ~uncommitted(a) /\ ignored
     \/ uncommitted(a) /\ cancelled_by_client(a) /\ apply_cancelled(a)
     \/ /\ uncommitted(a) /\ ~cancelled_by_client(a) /\ completion_valid(a)
        /\ commit(a)
     \/ /\ uncommitted(a) /\ ~cancelled_by_client(a) /\ ~completion_valid(a)
        /\ ignored

\* The task's reservation is released whichever attempt obtained it, and the
\* retry time is set even if the move to RetryPending is illegal.
apply_failed(a, kind) ==
  LET t == attempts[a].task
      retry == can_retry(t, attempts[a].number, kind)
      at == [attempts EXCEPT ![a].state = "Failed"]
      s == IF state[t] = "Succeeded" THEN state
           ELSE set_state(state, t, IF retry THEN "RetryPending" ELSE "Failed")
  IN  /\ attempts' = at
      /\ release_task_reservation({t})
      /\ state' = s
      /\ retry_ready' = IF retry /\ state[t] # "Succeeded"
                        THEN retry_ready \cup {t} ELSE retry_ready
      /\ persist(s, at)
      /\ UNCHANGED cancel_requested

\* A node reports a failure before the start (stale epoch, no executor, full
\* queue) or after it (the kernel failed or was cancelled while running).
handle_attempt_failed(a, kind) ==
  /\ report(a, {"dispatched", "started"}, "ended")
  /\ \/ ~(current(a) /\ uncommitted(a)) /\ ignored
     \/ current(a) /\ uncommitted(a) /\ apply_failed(a, kind)

\* Sent when the worker finds the attempt cancelled before it executes it.
handle_attempt_cancelled(a) ==
  /\ a \in cancel_sent
  /\ report(a, {"started"}, "ended")
  /\ \/ ~current(a) /\ ignored
     \/ current(a) /\ apply_cancelled(a)

\* Follows every terminal report; task_reservation_ keeps its entry.
handle_reservation_release(a) ==
  /\ report(a, {"completed", "ended"}, "released")
  /\ held' = held \ {a}
  /\ UNCHANGED <<state, attempts, task_reservation, cancel_requested,
                 retry_ready, disk>>

-----------------------------------------------------------------------------
(* Node registry and node connections.                                     *)

\* A new connection supersedes the previous one, whose queued reports and
\* NodeDisconnected are still to come.  Reservations are not touched.
handle_node_register(n) ==
  /\ pc = "idle"
  /\ sessions[n] < MaxSession
  /\ sessions' = [sessions EXCEPT ![n] = @ + 1]
  /\ nodes' = [nodes EXCEPT ![n] = [health |-> "Online", connected |-> TRUE,
                                    session |-> sessions[n] + 1]]
  /\ link' = [link EXCEPT ![n] = "open"]
  /\ drained' = drained \ {n}
  /\ UNCHANGED <<taskVars, ended, cancel_requested, cancel_sent, cancel_acked,
                 sweepVars, retry_ready, told, epoch, disk>>

\* Of the current session: others are rejected and change nothing.  It may
\* still be queued when the connection has stopped or the node is Offline.
handle_node_heartbeat(n) ==
  /\ pc = "idle"
  /\ nodes[n].session \in 1..sessions[n] \ ended[n]
  /\ nodes' = [nodes EXCEPT ![n].health = "Online"]
  /\ UNCHANGED <<taskVars, link, sessions, ended, clientVars, sweepVars,
                 retry_ready, told, epoch, disk>>

\* The transport breaks, the node asks to shut down (NodeShutdownMsg) or its
\* outbound queue overflows.  The reader thread does this at any moment.
stop_connection(n) ==
  /\ link[n] = "open"
  /\ link' = [link EXCEPT ![n] = "stopped"]
  /\ UNCHANGED <<taskVars, nodes, sessions, ended, clientVars, sweepVars,
                 retry_ready, told, epoch, disk>>

\* Queued by the reader of session s behind all of its reports.
handle_node_disconnect(n, s) ==
  LET mine == s = nodes[n].session
  IN  /\ pc = "idle"
      /\ s \in 1..sessions[n] \ ended[n]
      /\ mine => link[n] = "stopped"
      /\ ended' = [ended EXCEPT ![n] = @ \cup {s}]
      /\ link' = IF mine THEN [link EXCEPT ![n] = "none"] ELSE link
      /\ nodes' = IF mine /\ nodes[n].health # "Offline"
                  THEN [nodes EXCEPT ![n].connected = FALSE] ELSE nodes
      /\ UNCHANGED <<taskVars, sessions, clientVars, sweepVars, retry_ready,
                     told, epoch, disk>>

-----------------------------------------------------------------------------
(* The sweep: lost nodes, then the timers, then the Ready tasks in order.  *)

affected(n) ==
  {t \in Task : \E a \in AttemptId :
     /\ executing(a) /\ ~attempts[a].committed
     /\ attempts[a].task = t /\ attempts[a].node = n}

\* The heartbeat of a registered node timed out.  The attempts keep their
\* state; a Failed or Preempted task with such an attempt is retried as well.
handle_node_loss(n) ==
  LET s == [t \in Task |-> IF t \in affected(n) THEN AfterLoss(t, state[t])
                           ELSE state[t]]
  IN  /\ pc \in {"idle", "sweep"}
      /\ nodes[n].health \in {"Online", "Draining"}
      /\ nodes' = [nodes EXCEPT ![n].health = "Offline", ![n].connected = FALSE]
      /\ link' = [link EXCEPT ![n] = IF @ = "open" THEN "stopped" ELSE @]
      /\ held' = (held \ reservations_on(n))
                   \ {task_reservation[t] : t \in affected(n)}
      /\ task_reservation' = [t \in Task |-> IF t \in affected(n) THEN 0
                                             ELSE task_reservation[t]]
      /\ state' = s
      /\ retry_ready' = retry_ready \cup {t \in affected(n) : retry_on_loss(t)}
      /\ persist(s, attempts)
      /\ pc' = "sweep"
      /\ UNCHANGED <<attempts, next_attempt, sessions, ended, clientVars, todo,
                     told, epoch>>

\* Mutant: a dispatch times out only while its reservation is held.
dispatch_timers_held ==
  {t \in Task : state[t] = "Dispatching" /\ task_reservation[t] \in held}

\* Mutant: the retry loop looks for failed tasks.
retry_timers_failed == {t \in retry_ready : state[t] = "Failed"}

\* Tasks with a running dispatch timeout, and with a retry time.
dispatch_timers == {t \in Task : state[t] = "Dispatching"}
retry_timers == {t \in retry_ready : state[t] = "RetryPending"}

\* T: the dispatch and retry timers that have expired.
requeued(T) ==
  [t \in Task |-> IF t \in T THEN After(state[t], "Ready") ELSE state[t]]

\* The tasks that the deadline loop looks at.
deadline_timers(s) ==
  {t \in Task : TaskSpec[t].has_deadline /\ s[t] \in {"Ready", "Blocked", "RetryPending"}}

\* X: the deadlines that have passed.
expired(s, X) == [t \in Task |-> IF t \in X THEN After(s[t], "Expired") ELSE s[t]]

sweep_timers(T, X) ==
  LET s == expired(requeued(T), X)
      ready == {t \in Task : s[t] = "Ready"}
  IN  /\ pc \in {"idle", "sweep"}
      /\ T \subseteq dispatch_timers \cup retry_timers
      /\ X \subseteq deadline_timers(requeued(T))
      /\ state' = s
      /\ release_task_reservation((T \cap dispatch_timers) \cup X)
      /\ IF T \cup X = {} THEN UNCHANGED disk ELSE persist(s, attempts)
      /\ todo' = ready
      /\ pc' = IF ready = {} THEN "idle" ELSE "schedule"
      /\ UNCHANGED <<attempts, next_attempt, nodeVars, clientVars, retry_ready,
                     told, epoch>>

\* schedule_ready_tasks looks at t next: lowest priority value first.  Equal
\* priorities are ordered by ready time, which the model does not fix.
next_ready(t) ==
  /\ pc = "schedule"
  /\ t \in todo
  /\ \A u \in todo : TaskSpec[t].priority <= TaskSpec[u].priority
  /\ todo' = todo \ {t}
  /\ pc' = IF todo = {t} THEN "idle" ELSE "schedule"
  /\ UNCHANGED <<nodeVars, clientVars, retry_ready, epoch>>

expire_ready(t) ==
  LET s == set_state(state, t, "Expired")
  IN  /\ next_ready(t)
      /\ TaskSpec[t].has_deadline
      /\ state' = s
      /\ persist(s, attempts)
      /\ UNCHANGED <<attempts, next_attempt, held, task_reservation, told>>

can_dispatch(n) == nodes[n].connected /\ try_reserve(n)

\* No candidate, or the chosen one is not connected or has no free slot.
leave_ready(t) ==
  /\ next_ready(t)
  /\ \/ place(t) = {}
     \/ \E n \in place(t) : ~can_dispatch(n)
     \/ next_attempt > MaxAttempt   \* bound
  /\ UNCHANGED <<taskVars, told, disk>>

dispatch(t, n) ==
  LET a == next_attempt
      s == set_state(set_state(set_state(state, t, "Planning"), t, "Reserved"),
                     t, "Dispatching")
      earlier == {b \in AttemptId : known(b) /\ attempts[b].task = t}
      at == [attempts EXCEPT ![a] =
               [task |-> t, node |-> n, session |-> nodes[n].session,
                epoch |-> epoch, number |-> Cardinality(earlier),
                state |-> "Dispatched", committed |-> FALSE]]
  IN  /\ next_ready(t)
      /\ n \in place(t) /\ can_dispatch(n)
      /\ a <= MaxAttempt
      /\ next_attempt' = a + 1
      /\ held' = held \cup {a}
      /\ task_reservation' = [task_reservation EXCEPT ![t] = a]
      /\ attempts' = at
      /\ told' = [told EXCEPT ![a] =
                    IF link[n] = "open" THEN "dispatched" ELSE "unsent"]
      /\ state' = s
      /\ persist(s, at)

schedule_ready_task(t) ==
  expire_ready(t) \/ leave_ready(t) \/ \E n \in Node : dispatch(t, n)

-----------------------------------------------------------------------------
(* Crash and restart, and the specification.                               *)

recovered(s) ==
  [t \in Task |-> IF is_active(s[t]) THEN AfterLoss(t, s[t]) ELSE s[t]]

\* The process dies at any point between two writes of the store and start()
\* loads it.  Every connection is gone, the maps that are not stored are empty.
start ==
  LET s == recovered(disk.state)
  IN  /\ epoch < MaxEpoch
      /\ epoch' = disk.epoch + 1
      /\ state' = s
      /\ attempts' = disk.attempts
      /\ retry_ready' = {t \in Task : is_active(disk.state[t]) /\ retry_on_loss(t)}
      /\ disk' = Saved(disk.epoch + 1, s, disk.attempts)
      /\ held' = {}
      /\ task_reservation' = [t \in Task |-> 0]
      /\ cancel_requested' = {}
      /\ nodes' = [n \in Node |-> NoNode]
      /\ link' = [n \in Node |-> "none"]
      /\ ended' = [n \in Node |-> 1..sessions[n]]
      /\ pc' = "idle"
      /\ todo' = {}
      /\ drained' = {}
      /\ UNCHANGED <<next_attempt, sessions, told, cancel_sent, cancel_acked>>

\* The first start() on an empty store directory.
Init ==
  /\ epoch = 1
  /\ state = [t \in Task |-> "Absent"]
  /\ attempts = [a \in AttemptId |-> NoAttempt]
  /\ next_attempt = 1
  /\ held = {}
  /\ task_reservation = [t \in Task |-> 0]
  /\ cancel_requested = {} /\ cancel_sent = {} /\ cancel_acked = {}
  /\ drained = {}
  /\ retry_ready = {}
  /\ nodes = [n \in Node |-> NoNode]
  /\ link = [n \in Node |-> "none"]
  /\ sessions = [n \in Node |-> 0]
  /\ ended = [n \in Node |-> {}]
  /\ told = [a \in AttemptId |-> "unsent"]
  /\ disk = Saved(1, state, attempts)
  /\ pc = "idle"
  /\ todo = {}

client_step ==
  \/ \E t \in Task : handle_task_submit(t) \/ handle_task_cancel(t)
  \/ \E n \in DrainNode, drain \in BOOLEAN : handle_node_drain(n, drain)

FailureKind == {"ExecutorFailed", "Internal"}

report_step ==
  \E a \in AttemptId :
    \/ handle_attempt_started(a)
    \/ handle_attempt_complete(a)
    \/ \E kind \in FailureKind : handle_attempt_failed(a, kind)
    \/ handle_attempt_cancelled(a)
    \/ handle_reservation_release(a)

node_step ==
  \E n \in Node :
    \/ handle_node_register(n)
    \/ handle_node_heartbeat(n)
    \/ stop_connection(n)
    \/ \E s \in 1..MaxSession : handle_node_disconnect(n, s)

sweep_step ==
  \/ \E n \in Node : handle_node_loss(n)
  \/ \E T, X \in SUBSET Task : sweep_timers(T, X)
  \/ \E t \in Task : schedule_ready_task(t)

Next == client_step \/ report_step \/ node_step \/ sweep_step \/ start

Spec == Init /\ [][Next]_vars

(* The sweep runs every 20 ms between commands and an expired timer stays  *)
(* expired: a dispatch or retry timer that is armed in infinitely many     *)
(* sweeps fires.  A sweep that has begun ends.  Nothing else is fair: a    *)
(* node may never report and a client may never return.                    *)
Fairness ==
  /\ \A t \in Task :
       SF_vars(\E T, X \in SUBSET Task : t \in T /\ sweep_timers(T, X))
  /\ WF_vars(\E t \in Task : schedule_ready_task(t))

FairSpec == Spec /\ Fairness

-----------------------------------------------------------------------------
(* Properties that hold.                                                   *)

AttemptTable == [AttemptId -> ExecutionAttempt \cup {NoAttempt}]

\* Type invariant of the core's maps and of the store file.  It includes that
\* no handler returns with a task in one of the states that schedule_ready_tasks,
\* handle_node_loss, recovery and add_task only pass through.
TypeOK ==
  /\ state \in [Task -> RestState]
  /\ attempts \in AttemptTable
  /\ next_attempt \in 1..(MaxAttempt + 1)
  /\ held \subseteq AttemptId
  /\ task_reservation \in [Task -> AttemptId \cup {0}]
  /\ cancel_requested \subseteq Task /\ cancel_acked \subseteq Task
  /\ cancel_sent \subseteq AttemptId
  /\ drained \subseteq Node
  /\ retry_ready \subseteq Task
  /\ nodes \in [Node -> NodeRecord]
  /\ link \in [Node -> {"none", "open", "stopped"}]
  /\ sessions \in [Node -> Nat]
  /\ ended \in [Node -> SUBSET Nat]
  /\ told \in [AttemptId -> Report]
  /\ epoch \in Nat \ {0}
  /\ disk \in [epoch : Nat, state : [Task -> RestState], attempts : AttemptTable]
  /\ pc \in {"idle", "sweep", "schedule"}
  /\ todo \subseteq Task

\* A task with dependencies leaves Blocked for execution only when all of them
\* have succeeded, and stays entitled to run through retries, node losses and
\* restarts (dag.h: "only marks a task Ready when all task dependencies have
\* committed successfully").
DependencyGating ==
  \A t \in Task : state[t] \notin {"Absent", "Blocked", "Cancelled", "Expired"}
                    => dependencies_satisfied(state, t)

\* A task is Succeeded only if one of its attempts is committed, in memory and
\* after any restart: handle_attempt_complete is the only way to succeed.
SucceededIsCommitted ==
  \A t \in Task : state[t] = "Succeeded" =>
    \E a \in AttemptId : attempts[a].committed /\ attempts[a].task = t

\* No slot leaks: a reservation that is still held is the one its task knows
\* of, and that task is in flight.  Every path out of Dispatching and Running
\* (completion, failure, cancellation, timeout, node loss, restart) releases it,
\* also when the report is about an older attempt of the task.
NoLeakedReservation ==
  \A a \in held : /\ attempts[a].state # "None"
                  /\ task_reservation[attempts[a].task] = a
                  /\ state[attempts[a].task] \in {"Dispatching", "Running"}

\* The reservations held on a node never exceed the slots it registered with.
CapacityRespected ==
  \A n \in Node : Cardinality(reservations_on(n)) <= Capacity[n]

\* Every handler that changes a task state or commits an attempt has written
\* the store before the next command: a crash loses no answered transition.
DiskCurrent == disk = Saved(epoch, state, attempts)

\* No attempt of an earlier epoch is left with a result still to come: the
\* restart drops every uncommitted attempt (coordinator.cpp: "bump epoch,
\* invalidating all prior execution authority").
NoStaleAuthority ==
  \A a \in AttemptId : attempts[a].state # "None" /\ ~attempts[a].committed
                         => attempts[a].epoch = epoch

\* Until the coordinator restarts, a task whose cancellation was acknowledged
\* never succeeds, whatever retries, timeouts and late completions follow.
CancelHonouredUntilRestart ==
  epoch = 1 => \A t \in cancel_acked : state[t] # "Succeeded"

\* Succeeded, Cancelled and Expired are final, also across a crash at any
\* point and the recovery that follows (Failed and Preempted are not final).
SettledForever ==
  [][\A t \in Task : state[t] \in {"Succeeded", "Cancelled", "Expired"}
                       => state'[t] = state[t]]_vars

\* The tasks of the coordinator without what executes them
Service == INSTANCE TaskService WITH Dependencies <- [t \in Task |-> Deps(t)]

\* To its clients the coordinator is the TaskService, whatever nodes report and
\* wherever it crashes: a task moves only along the edges given there, starts
\* when what it depends on has succeeded, does not succeed once it was asked to
\* stop, and comes back from a crash as it was, or retried or failed if it was
\* at work.  Succeeded, Cancelled and Expired are final there.
IsService == Service!Spec

\* A committed attempt is never altered or forgotten: no later report, node
\* loss or restart touches it.
CommitsAreDurable ==
  [][\A a \in AttemptId : attempts[a].committed => attempts'[a] = attempts[a]]_vars

\* Without a restart, a task waiting for its retry leaves RetryPending.
RetryLeaves ==
  \A t \in Task : state[t] = "RetryPending" ~> state[t] # "RetryPending"

\* A dispatched task does not stay Dispatching: the dispatch timeout requeues
\* it when neither the node nor the client ends it, even if a late report about
\* an older attempt has released its reservation.
DispatchResolves ==
  \A t \in Task : state[t] = "Dispatching" ~> state[t] # "Dispatching"

-----------------------------------------------------------------------------
(* Statements of the repository that the code does not keep.               *)

\* attempt.h: "Only one attempt may hold active execution authority for a
\* non-speculative task at a time."  An attempt holds it while the coordinator
\* would still accept its completion and its node has not reported the end.
SingleAuthority ==
  \A a, b \in AttemptId :
    /\ executing(a) /\ told[a] \in {"dispatched", "started"}
    /\ executing(b) /\ told[b] \in {"dispatched", "started"}
    /\ attempts[a].task = attempts[b].task
    => a = b

\* SECURITY.md: "Stale coordinator epochs and node sessions cannot commit
\* execution results."  handle_attempt_complete does not look at the session.
OnlyCurrentSessionCommits ==
  [][\A a \in AttemptId : attempts'[a].committed /\ ~attempts[a].committed
       => attempts[a].session = nodes[attempts[a].node].session]_vars

\* reservation.h: reservations "are invalidated on coordinator restart and on
\* node session changes".  handle_node_register leaves them alone.
ReservationsSessionBound ==
  \A a \in held : attempts[a].session = nodes[attempts[a].node].session

\* handle_task_cancel answers "cancel requested; will take effect
\* cooperatively".  The flag behind that promise is not stored.
CancelHonoured == \A t \in cancel_acked : state[t] # "Succeeded"

\* A drained node takes no new work until the client undoes the drain or the
\* node registers again (the node_drain test expects it Draining).  The next
\* heartbeat sets it Online.
DrainSticks == \A n \in drained : nodes[n].health \in {"Draining", "Offline"}

\* dag.h: a task has "committed successfully (state == Succeeded)".  A
\* completion that arrives while the task is Dispatching is committed, and the
\* illegal transition to Succeeded is dropped.
CommitSucceeds ==
  \A a \in AttemptId :
    attempts[a].committed => state[attempts[a].task] = "Succeeded"

\* The dag_execution_order test submits a task, then its dependent, and expects
\* the dependent to run.  One that is submitted after its dependency succeeded
\* is Blocked, and nothing looks at it again.
SatisfiedLeavesBlocked ==
  \A t \in Task : (state[t] = "Blocked" /\ dependencies_satisfied(state, t))
                    ~> state[t] # "Blocked"
====
