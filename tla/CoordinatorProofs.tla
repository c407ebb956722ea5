------------------------- MODULE CoordinatorProofs -------------------------
(***************************************************************************)
(* Proofs about Coordinator for every set of tasks and nodes, every task   *)
(* specification and every bound.                                          *)
(***************************************************************************)
EXTENDS Coordinator, FiniteSetTheorems, TLAPS

FinalState == {"Succeeded", "Cancelled", "Expired"}

\* The states of a task that need not have its dependencies satisfied.
Ungated == {"Absent", "Blocked", "Cancelled", "Expired"}

InFlight == {"Dispatching", "Running"}

\* The targets of set_state that are not left again in the same handler.
RestTarget ==
  {"Ready", "Blocked", "Running", "Succeeded", "Failed", "RetryPending",
   "Cancelled", "Preempted", "Expired", "Dispatching"}

-----------------------------------------------------------------------------
(* The state machine of one task.                                          *)

\* set_state with a resting target leaves the task in a resting state.
LEMMA AfterType ==
  ASSUME NEW s \in RestState, NEW to \in RestTarget
  PROVE  After(s, to) \in RestState
BY DEF After, RestState, RestTarget, GraphState, TaskState

\* set_state never leaves Succeeded, Cancelled or Expired.
LEMMA AfterFinal ==
  ASSUME NEW s \in FinalState, NEW to
  PROVE  After(s, to) = s
BY DEF After, FinalState, is_legal

\* A task enters the gated states only from Blocked, by becoming Ready.
LEMMA AfterGate ==
  ASSUME NEW s \in RestState, NEW to \in RestTarget, s \in Ungated,
         After(s, to) \notin Ungated
  PROVE  s = "Blocked" /\ to = "Ready"
BY DEF After, is_legal, Ungated, RestState, RestTarget, GraphState, TaskState

\* A lost task comes to rest, stays final if it was, does not pass the gate,
\* and does not become Succeeded.
LEMMA AfterLossFacts ==
  ASSUME NEW t \in Task, NEW s \in RestState
  PROVE  /\ AfterLoss(t, s) \in RestState
         /\ s \in FinalState => AfterLoss(t, s) = s
         /\ s \in Ungated => AfterLoss(t, s) = s
         /\ AfterLoss(t, s) = "Succeeded" => s = "Succeeded"
         /\ AfterLoss(t, s) \notin {"Ready", "Dispatching", "Running"}
              \/ AfterLoss(t, s) = s
         /\ s \in InFlight => AfterLoss(t, s) \in {"RetryPending", "Failed"}
<1> DEFINE x == IF retry_on_loss(t) THEN "RetryPending" ELSE "Failed"
<1>1. x \in {"RetryPending", "Failed"}
  OBVIOUS
<1>2. AfterLoss(t, s) = After(After(s, "Lost"), x)
  BY DEF AfterLoss
<1>3. CASE s \in InFlight
  <2>1. After(s, "Lost") = "Lost"
    BY <1>3 DEF After, is_legal, InFlight
  <2>2. After("Lost", x) = x
    BY <1>1 DEF After, is_legal
  <2> QED BY <1>1, <1>2, <1>3, <2>1, <2>2
        DEF RestState, GraphState, TaskState, FinalState, Ungated, InFlight
<1>4. CASE s \notin InFlight
  <2>1. After(s, "Lost") = s
    BY <1>4 DEF After, is_legal, InFlight, RestState, GraphState, TaskState
  <2>2. After(s, x) \in {s, x}
    BY DEF After
  <2>3. s \in Ungated \cup FinalState => After(s, x) = s
    BY <1>1 DEF After, is_legal, Ungated, FinalState
  <2> QED BY <1>1, <1>2, <1>4, <2>1, <2>2, <2>3
        DEF RestState, GraphState, TaskState, FinalState, Ungated, InFlight
<1> QED BY <1>3, <1>4

-----------------------------------------------------------------------------
(* Type correctness.                                                       *)

\* set_state on the whole graph.
LEMMA SetStateType ==
  ASSUME NEW s \in [Task -> RestState], NEW t \in Task, NEW to \in RestTarget
  PROVE  set_state(s, t, to) \in [Task -> RestState]
BY AfterType DEF set_state

\* An attempt that the coordinator knows is a full record.
LEMMA KnownAttempt ==
  ASSUME NEW at \in AttemptTable, NEW a \in AttemptId, at[a].state # "None"
  PROVE  at[a] \in ExecutionAttempt
BY DEF AttemptTable, NoAttempt

\* Ending or starting a known attempt keeps the table well typed and changes
\* neither the other attempts nor any other field.
LEMMA AttemptStateType ==
  ASSUME NEW at \in AttemptTable, NEW a \in AttemptId, at[a].state # "None",
         NEW v \in AttemptState
  PROVE  [at EXCEPT ![a].state = v] \in AttemptTable
<1>1. at[a] \in ExecutionAttempt
  BY KnownAttempt
<1>2. [at[a] EXCEPT !.state = v] \in ExecutionAttempt
  BY <1>1 DEF ExecutionAttempt
<1> QED BY <1>2 DEF AttemptTable

\* A commit of handle_attempt_complete keeps the types of states and attempts.
LEMMA CommittedType ==
  ASSUME NEW a \in AttemptId, attempts \in AttemptTable, known(a)
  PROVE  committed(a) \in AttemptTable
<1>1. attempts[a] \in ExecutionAttempt
  BY KnownAttempt DEF known
<1>2. [attempts[a] EXCEPT !.state = "Succeeded", !.committed = TRUE]
        \in ExecutionAttempt
  BY <1>1, Zenon DEF ExecutionAttempt, AttemptState
<1> QED BY <1>2 DEF AttemptTable, committed

\* What persist() writes is well typed.
LEMMA SavedType ==
  ASSUME NEW e \in Nat, NEW s \in [Task -> RestState], NEW at \in AttemptTable
  PROVE  Saved(e, s, at) \in
           [epoch : Nat, state : [Task -> RestState], attempts : AttemptTable]
BY DEF Saved, AttemptTable

\* A poisoned dependent stays put: Blocked and Submitted tasks may turn neither
\* Lost nor Failed.
LEMMA PoisonRefused ==
  \A r \in {"Blocked", "Submitted"} : After(After(r, "Lost"), "Failed") = r
<1>1. ~is_legal("Blocked", "Lost") /\ ~is_legal("Blocked", "Failed")
  BY DEF is_legal
<1>2. ~is_legal("Submitted", "Lost") /\ ~is_legal("Submitted", "Failed")
  BY DEF is_legal
<1>3. After("Blocked", "Lost") = "Blocked" /\ After("Blocked", "Failed") = "Blocked"
  BY <1>1 DEF After
<1>4. After("Submitted", "Lost") = "Submitted" /\ After("Submitted", "Failed") = "Submitted"
  BY <1>2 DEF After
<1> QED BY <1>3, <1>4

\* The dependents of a succeeded task come to rest.
LEMMA OnTaskSucceededType ==
  ASSUME NEW s \in [Task -> RestState], NEW id \in Task
  PROVE  on_task_succeeded(s, id) \in [Task -> RestState]
<1> SUFFICES ASSUME NEW t \in Task
             PROVE  on_task_succeeded(s, id)[t] \in RestState
  BY DEF on_task_succeeded
<1>1. s[t] \in RestState
  OBVIOUS
<1>2. "Ready" \in RestState
  BY DEF RestState, GraphState, TaskState
<1>3. on_task_succeeded(s, id)[t] \in {s[t], "Ready"}
  BY PoisonRefused DEF on_task_succeeded
<1> QED BY <1>1, <1>2, <1>3

\* The first start() of an empty store has the right types.
LEMMA InitType == Init => TypeOK
<1> SUFFICES ASSUME Init PROVE TypeOK
  OBVIOUS
<1>1. attempts \in AttemptTable
  BY DEF Init, AttemptTable
<1>2. state \in [Task -> RestState]
  BY DEF Init, RestState, GraphState, TaskState
<1>3. disk \in [epoch : Nat, state : [Task -> RestState], attempts : AttemptTable]
  BY <1>1, <1>2, SavedType DEF Init
<1>4. nodes \in [Node -> NodeRecord]
  BY DEF Init, NoNode, NodeRecord, NodeHealth
<1>5. ended \in [Node -> SUBSET Nat]
  BY DEF Init
<1>6. next_attempt \in 1..(MaxAttempt + 1)
  BY ConstantsAssumption DEF Init
<1>7. epoch \in Nat \ {0}
  BY DEF Init
<1> QED BY <1>1, <1>2, <1>3, <1>4, <1>5, <1>6, <1>7 DEF Init, TypeOK, Report

\* release_task_reservation only removes reservations.
LEMMA ReleaseType ==
  ASSUME TypeOK, NEW S \in SUBSET Task, release_task_reservation(S)
  PROVE  /\ held' \subseteq held
         /\ task_reservation' \in [Task -> AttemptId \cup {0}]
BY DEF TypeOK, release_task_reservation

\* A submitted task starts Ready or Blocked; nothing else moves.
LEMMA SubmitState ==
  ASSUME TypeOK, NEW t \in Task, handle_task_submit(t)
  PROVE  /\ state' = [state EXCEPT ![t] = initial_state(t)]
         /\ state' \in [Task -> RestState]
<1>1. initial_state(t) \in {"Ready", "Blocked"}
  BY DEF initial_state
<1>2. After("Submitted", initial_state(t)) = initial_state(t)
  BY <1>1 DEF After, is_legal
<1>3. state' = [state EXCEPT ![t] = initial_state(t)]
  BY <1>2, Zenon DEF handle_task_submit, set_state, TypeOK
<1> QED BY <1>1, <1>3 DEF TypeOK, RestState, GraphState, TaskState

\* The handlers of client commands preserve the type invariant.
LEMMA TypeClient ==
  ASSUME TypeOK, client_step
  PROVE  TypeOK'
<1>0. /\ state \in [Task -> RestState] /\ attempts \in AttemptTable
      /\ epoch \in Nat
  BY DEF TypeOK
<1>1. CASE \E t \in Task : handle_task_submit(t)
  <2> PICK t \in Task : handle_task_submit(t)
    BY <1>1
  <2>1. state' \in [Task -> RestState]
    BY SubmitState
  <2>2. disk' = Saved(epoch, state', attempts)
    BY DEF handle_task_submit, persist
  <2>3. disk' \in [epoch : Nat, state : [Task -> RestState], attempts : AttemptTable]
    BY <1>0, <2>1, <2>2, SavedType
  <2> QED BY <2>1, <2>3, Zenon DEF TypeOK, handle_task_submit, nodeVars, clientVars, sweepVars
<1>2. CASE \E t \in Task : handle_task_cancel(t)
  <2> PICK t \in Task : handle_task_cancel(t)
    BY <1>2
  <2>1. cancel_acked' \subseteq Task
    BY DEF TypeOK, handle_task_cancel
  <2>2. CASE cancel_running(t)
    <3>1. cancel_sent' \subseteq AttemptId /\ cancel_requested' \subseteq Task
      BY <2>2 DEF TypeOK, cancel_running
    <3> QED BY <2>1, <2>2, <3>1 DEF TypeOK, handle_task_cancel, cancel_running,
              taskVars, nodeVars, sweepVars
  <2>3. CASE cancel_queued(t)
    <3>1. state' \in [Task -> RestState]
      BY <1>0, <2>3, SetStateType DEF cancel_queued, RestTarget
    <3>2. disk' = Saved(epoch, state', attempts)
      BY <2>3 DEF cancel_queued, persist
    <3>3. disk' \in [epoch : Nat, state : [Task -> RestState], attempts : AttemptTable]
      BY <1>0, <3>1, <3>2, SavedType
    <3>4. /\ held' \subseteq held
          /\ task_reservation' \in [Task -> AttemptId \cup {0}]
      BY <2>3, ReleaseType DEF cancel_queued
    <3> QED BY <2>1, <2>3, <3>1, <3>3, <3>4 DEF TypeOK, handle_task_cancel,
              cancel_queued, nodeVars, sweepVars
  <2> QED BY <2>2, <2>3 DEF handle_task_cancel
<1>3. CASE \E n \in DrainNode, drain \in BOOLEAN : handle_node_drain(n, drain)
  <2> PICK n \in DrainNode, drain \in BOOLEAN : handle_node_drain(n, drain)
    BY <1>3
  <2>1. n \in Node
    BY ConstantsAssumption
  <2>2. nodes' \in [Node -> NodeRecord]
    BY <2>1 DEF TypeOK, handle_node_drain, NodeRecord, NodeHealth
  <2>3. drained' \subseteq Node
    BY <2>1 DEF TypeOK, handle_node_drain
  <2> QED BY <2>2, <2>3 DEF TypeOK, handle_node_drain, taskVars, sweepVars
<1> QED BY <1>1, <1>2, <1>3 DEF client_step

\* The effects that a report can have on the core's maps.
Effect(a) ==
  \/ ignored
  \/ current(a) /\ told[a] = "dispatched" /\ apply_started(a)
  \/ known(a) /\ ~attempts[a].committed /\ apply_cancelled(a)
  \/ current(a) /\ told[a] = "started" /\ apply_cancelled(a)
  \/ /\ ~attempts[a].committed /\ ~cancelled_by_client(a) /\ completion_valid(a)
     /\ told'[a] = "completed" /\ commit(a)
  \/ \E kind \in FailureKind :
       current(a) /\ ~attempts[a].committed /\ apply_failed(a, kind)

\* What each report handler assigns has the right types.
LEMMA EffectType ==
  ASSUME TypeOK, NEW a \in AttemptId, Effect(a)
  PROVE  /\ state' \in [Task -> RestState]
         /\ attempts' \in AttemptTable
         /\ held' \subseteq held
         /\ task_reservation' \in [Task -> AttemptId \cup {0}]
         /\ cancel_requested' \subseteq Task
         /\ retry_ready' \subseteq Task
         /\ disk' \in [epoch : Nat, state : [Task -> RestState], attempts : AttemptTable]
<1>0. /\ state \in [Task -> RestState] /\ attempts \in AttemptTable
      /\ epoch \in Nat
  BY DEF TypeOK
<1>1. CASE ignored
  BY <1>1 DEF ignored, TypeOK
<1> SUFFICES ASSUME known(a), ~ignored
             PROVE  /\ state' \in [Task -> RestState]
                    /\ attempts' \in AttemptTable
                    /\ held' \subseteq held
                    /\ task_reservation' \in [Task -> AttemptId \cup {0}]
                    /\ cancel_requested' \subseteq Task
                    /\ retry_ready' \subseteq Task
                    /\ disk' = Saved(epoch, state', attempts')
  <2>1. known(a) \/ ignored
    BY DEF Effect, current, completion_valid
  <2> HIDE DEF Effect, known, ignored
  <2> QED BY <1>0, <1>1, <2>1, SavedType
<1> DEFINE t == attempts[a].task
<1>2. t \in Task
  BY <1>0, KnownAttempt DEF known, ExecutionAttempt
<1>3. CASE apply_started(a)
  <2>1. state' \in [Task -> RestState]
    BY <1>0, <1>2, <1>3, SetStateType DEF apply_started, RestTarget
  <2>2. attempts' \in AttemptTable
    BY <1>0, <1>3, AttemptStateType, Zenon DEF apply_started, AttemptState, known
  <2> QED BY <1>3, <2>1, <2>2 DEF TypeOK, apply_started, persist
<1>4. CASE apply_cancelled(a)
  <2>1. state' \in [Task -> RestState]
    BY <1>0, <1>2, <1>4, SetStateType DEF apply_cancelled, RestTarget
  <2>2. attempts' \in AttemptTable
    BY <1>0, <1>4, AttemptStateType, Zenon DEF apply_cancelled, AttemptState, known
  <2>3. /\ held' \subseteq held
        /\ task_reservation' \in [Task -> AttemptId \cup {0}]
    BY <1>2, <1>4, ReleaseType DEF apply_cancelled
  <2> QED BY <1>4, <2>1, <2>2, <2>3 DEF TypeOK, apply_cancelled, persist
<1>5. CASE commit(a)
  <2>1. set_state(state, t, "Succeeded") \in [Task -> RestState]
    BY <1>0, <1>2, SetStateType DEF RestTarget
  <2>2. state' \in [Task -> RestState]
    BY <1>2, <1>5, <2>1, OnTaskSucceededType DEF commit
  <2>3. attempts' \in AttemptTable
    BY <1>0, <1>5, CommittedType DEF commit
  <2>4. /\ held' \subseteq held
        /\ task_reservation' \in [Task -> AttemptId \cup {0}]
    BY <1>2, <1>5, ReleaseType DEF commit
  <2>5. disk' = Saved(epoch, state', attempts')
    BY <1>5 DEF commit, persist
  <2>6. cancel_requested' \subseteq Task /\ retry_ready' \subseteq Task
    BY <1>5 DEF commit, TypeOK
  <2> QED BY <2>2, <2>3, <2>4, <2>5, <2>6
<1>6. CASE \E kind \in FailureKind : apply_failed(a, kind)
  <2> PICK kind \in FailureKind : apply_failed(a, kind)
    BY <1>6
  <2>1. state' \in [Task -> RestState]
    BY <1>0, <1>2, SetStateType DEF apply_failed, RestTarget
  <2>2. attempts' \in AttemptTable
    BY <1>0, AttemptStateType, Zenon DEF apply_failed, AttemptState, known
  <2>3. /\ held' \subseteq held
        /\ task_reservation' \in [Task -> AttemptId \cup {0}]
    BY <1>2, ReleaseType DEF apply_failed
  <2>4. cancel_requested' \subseteq Task /\ retry_ready' \subseteq Task
    BY <1>2 DEF apply_failed, TypeOK
  <2>5. disk' = Saved(epoch, state', attempts')
    BY DEF apply_failed, persist
  <2> QED BY <2>1, <2>2, <2>3, <2>4, <2>5
<1> QED BY <1>3, <1>4, <1>5, <1>6 DEF Effect

\* A terminal success report has been delivered.
Reported == {"completed", "released"}

\* Every report handler, except the one for ReservationRelease, has one of
\* those effects and otherwise only records what it was told.
LEMMA ReportCases ==
  ASSUME TypeOK, report_step
  PROVE  \E a \in AttemptId, from \in SUBSET Report, to \in Report :
           /\ report(a, from, to)
           /\ told[a] \in Reported => to \in Reported
           /\ Effect(a) \/ handle_reservation_release(a)
<1> USE DEF Effect, Report, Reported
<1> PICK a \in AttemptId :
      \/ handle_attempt_started(a)
      \/ handle_attempt_complete(a)
      \/ \E kind \in FailureKind : handle_attempt_failed(a, kind)
      \/ handle_attempt_cancelled(a)
      \/ handle_reservation_release(a)
  BY DEF report_step
<1>1. CASE handle_attempt_started(a)
  BY <1>1, Zenon DEF handle_attempt_started, report
<1>2. CASE handle_attempt_complete(a)
  <2>1. told'[a] = "completed"
    BY <1>2 DEF handle_attempt_complete, report, TypeOK
  <2> QED BY <1>2, <2>1 DEF handle_attempt_complete, uncommitted
<1>3. CASE \E kind \in FailureKind : handle_attempt_failed(a, kind)
  <2>1. report(a, {"dispatched", "started"}, "ended")
    BY <1>3 DEF handle_attempt_failed
  <2>2. told[a] \notin Reported
    BY <2>1 DEF report
  <2>3. Effect(a)
    BY <1>3 DEF handle_attempt_failed, uncommitted
  <2> QED BY <2>1, <2>2, <2>3
<1>4. CASE handle_attempt_cancelled(a)
  BY <1>4, Zenon DEF handle_attempt_cancelled, report
<1>5. CASE handle_reservation_release(a)
  BY <1>5, Zenon DEF handle_reservation_release
<1> QED BY <1>1, <1>2, <1>3, <1>4, <1>5, Zenon

\* The handlers of node reports preserve the type invariant.
LEMMA TypeReport ==
  ASSUME TypeOK, report_step
  PROVE  TypeOK'
<1> PICK a \in AttemptId, from \in SUBSET Report, to \in Report :
      /\ report(a, from, to)
      /\ Effect(a) \/ handle_reservation_release(a)
  BY ReportCases
<1>1. told' \in [AttemptId -> Report]
  BY DEF report, TypeOK
<1>2. CASE Effect(a)
  <2> HIDE DEF Effect
  <2> QED BY <1>1, <1>2, EffectType DEF TypeOK, report, nodeVars, sweepVars
<1>3. CASE handle_reservation_release(a)
  BY <1>1, <1>3 DEF TypeOK, handle_reservation_release, report, nodeVars, sweepVars
<1> QED BY <1>2, <1>3

\* Registration, heartbeat and disconnection of nodes preserve the type invariant.
LEMMA TypeNode ==
  ASSUME TypeOK, node_step
  PROVE  TypeOK'
<1> PICK n \in Node :
      \/ handle_node_register(n)
      \/ handle_node_heartbeat(n)
      \/ stop_connection(n)
      \/ \E s \in 1..MaxSession : handle_node_disconnect(n, s)
  BY DEF node_step
<1>1. CASE handle_node_register(n)
  <2>1. nodes' \in [Node -> NodeRecord] /\ sessions' \in [Node -> Nat]
    <3>1. /\ nodes \in [Node -> NodeRecord] /\ sessions \in [Node -> Nat]
          /\ sessions[n] + 1 \in Nat
      BY DEF TypeOK
    <3>2. [health |-> "Online", connected |-> TRUE, session |-> sessions[n] + 1]
            \in NodeRecord
      BY <3>1 DEF NodeRecord, NodeHealth
    <3> QED BY <1>1, <3>1, <3>2 DEF handle_node_register
  <2> QED BY <1>1, <2>1 DEF TypeOK, handle_node_register, taskVars, sweepVars
<1>2. CASE handle_node_heartbeat(n)
  <2>1. nodes' \in [Node -> NodeRecord]
    <3>1. nodes \in [Node -> NodeRecord]
      BY DEF TypeOK
    <3> DEFINE alive == [nodes[n] EXCEPT !.health = "Online"]
    <3>2. nodes' = [nodes EXCEPT ![n] = alive]
      BY <1>2 DEF handle_node_heartbeat
    <3>3. alive \in NodeRecord
      <4>1. nodes[n] \in NodeRecord
        BY <3>1
      <4> QED BY <4>1 DEF NodeRecord, NodeHealth
    <3> HIDE DEF alive
    <3> QED BY <3>1, <3>2, <3>3
  <2> QED BY <1>2, <2>1 DEF TypeOK, handle_node_heartbeat, taskVars, clientVars, sweepVars
<1>3. CASE stop_connection(n)
  BY <1>3 DEF TypeOK, stop_connection, taskVars, clientVars, sweepVars
<1>4. CASE \E s \in 1..MaxSession : handle_node_disconnect(n, s)
  <2> PICK s \in 1..MaxSession : handle_node_disconnect(n, s)
    BY <1>4
  <2>1. nodes' \in [Node -> NodeRecord]
    <3>1. nodes \in [Node -> NodeRecord]
      BY DEF TypeOK
    <3>2. [nodes EXCEPT ![n].connected = FALSE] \in [Node -> NodeRecord]
      BY <3>1, Zenon DEF NodeRecord
    <3> QED BY <3>1, <3>2 DEF handle_node_disconnect
  <2>2. ended' \in [Node -> SUBSET Nat]
    <3>1. s \in Nat
      BY ConstantsAssumption
    <3> QED BY <3>1 DEF TypeOK, handle_node_disconnect
  <2>3. link' \in [Node -> {"none", "open", "stopped"}]
    BY DEF TypeOK, handle_node_disconnect
  <2> QED BY <2>1, <2>2, <2>3 DEF TypeOK, handle_node_disconnect, taskVars,
            clientVars, sweepVars
<1> QED BY <1>1, <1>2, <1>3, <1>4

\* Node loss moves the affected tasks along Lost and no other.
LEMMA LossState ==
  ASSUME TypeOK, NEW n \in Node, handle_node_loss(n)
  PROVE  /\ state' \in [Task -> RestState]
         /\ \A t \in Task :
              state'[t] = IF t \in affected(n) THEN AfterLoss(t, state[t])
                          ELSE state[t]
<1>1. state \in [Task -> RestState]
  BY DEF TypeOK
<1>2. state' = [t \in Task |-> IF t \in affected(n) THEN AfterLoss(t, state[t])
                               ELSE state[t]]
  BY DEF handle_node_loss
<1>3. \A t \in Task : AfterLoss(t, state[t]) \in RestState
  BY <1>1, AfterLossFacts
<1> QED BY <1>1, <1>2, <1>3

\* The timers make tasks Ready and then Expired.
LEMMA TimersType ==
  ASSUME state \in [Task -> RestState], NEW T \in SUBSET Task, NEW X \in SUBSET Task
  PROVE  /\ requeued(T) \in [Task -> RestState]
         /\ expired(requeued(T), X) \in [Task -> RestState]
<1>1. requeued(T) \in [Task -> RestState]
  BY AfterType DEF requeued, RestTarget
<1>2. expired(requeued(T), X) \in [Task -> RestState]
  BY <1>1, AfterType DEF expired, RestTarget
<1> QED BY <1>1, <1>2

\* The three transitions of a dispatch.
LEMMA DispatchState ==
  ASSUME TypeOK, NEW t \in Task, NEW n \in Node, dispatch(t, n)
  PROVE  /\ state' \in [Task -> RestState]
         /\ state[t] = "Ready" => state' = [state EXCEPT ![t] = "Dispatching"]
<1> DEFINE D(x) == After(After(After(x, "Planning"), "Reserved"), "Dispatching")
<1>0. state \in [Task -> RestState]
  BY DEF TypeOK
<1>1. state' = [state EXCEPT ![t] = D(state[t])]
  BY <1>0, Zenon DEF dispatch, set_state
<1>2. CASE state[t] = "Ready"
  <2>1. D(state[t]) = "Dispatching"
    <3>1. After("Ready", "Planning") = "Planning"
      BY DEF After, is_legal
    <3>2. After("Planning", "Reserved") = "Reserved"
      BY DEF After, is_legal
    <3>3. After("Reserved", "Dispatching") = "Dispatching"
      BY DEF After, is_legal
    <3> QED BY <1>2, <3>1, <3>2, <3>3
  <2> QED BY <1>0, <1>1, <2>1, Zenon DEF RestState, GraphState, TaskState
<1>3. CASE state[t] # "Ready"
  <2>0. state[t] \notin {"Planning", "Reserved"}
    BY <1>0 DEF RestState
  <2>1. After(state[t], "Planning") = state[t]
    <3>1. ~is_legal(state[t], "Planning")
      BY <1>3, <2>0 DEF is_legal
    <3> QED BY <3>1 DEF After
  <2>2. After(state[t], "Reserved") = state[t]
    <3>1. ~is_legal(state[t], "Reserved")
      BY <1>3, <2>0 DEF is_legal
    <3> QED BY <3>1 DEF After
  <2>3. D(state[t]) \in RestState
    BY <1>0, <2>1, <2>2, AfterType DEF RestTarget
  <2> QED BY <1>0, <1>1, <1>3, <2>3
<1> QED BY <1>2, <1>3

\* A dispatch adds one attempt record under the fresh id.
LEMMA DispatchAttempt ==
  ASSUME TypeOK, NEW t \in Task, NEW n \in Node, dispatch(t, n)
  PROVE  /\ next_attempt \in AttemptId
         /\ attempts' \in AttemptTable
         /\ attempts'[next_attempt].task = t
         /\ attempts'[next_attempt].node = n
         /\ attempts'[next_attempt].state = "Dispatched"
         /\ attempts'[next_attempt].epoch = epoch
         /\ attempts'[next_attempt].committed = FALSE
         /\ \A b \in AttemptId \ {next_attempt} : attempts'[b] = attempts[b]
<1> DEFINE a == next_attempt
           earlier == {b \in AttemptId : known(b) /\ attempts[b].task = t}
           new == [task |-> t, node |-> n, session |-> nodes[n].session,
                   epoch |-> epoch, number |-> Cardinality(earlier),
                   state |-> "Dispatched", committed |-> FALSE]
<1>1. a \in AttemptId
  <2>1. a <= MaxAttempt
    BY DEF dispatch
  <2>2. a \in 1..(MaxAttempt + 1)
    BY DEF TypeOK
  <2> QED BY <2>1, <2>2, ConstantsAssumption DEF AttemptId
<1>2. attempts' = [attempts EXCEPT ![a] = new]
  BY DEF dispatch
<1>3. Cardinality(earlier) \in Nat
  <2>1. IsFiniteSet(AttemptId)
    BY ConstantsAssumption, FS_Interval DEF AttemptId
  <2>2. IsFiniteSet(earlier)
    BY <2>1, FS_Subset
  <2> QED BY <2>2, FS_CardinalityType
<1>4. nodes[n].session \in Nat
  BY DEF TypeOK, NodeRecord
<1>5. epoch \in Nat
  BY DEF TypeOK
<1> HIDE DEF earlier
<1>6. new \in ExecutionAttempt
  BY <1>3, <1>4, <1>5 DEF ExecutionAttempt, AttemptState
<1>7. attempts \in AttemptTable
  BY DEF TypeOK
<1>8. attempts' \in AttemptTable
  BY <1>1, <1>2, <1>6, <1>7 DEF AttemptTable
<1>9. attempts'[a] = new /\ \A b \in AttemptId \ {a} : attempts'[b] = attempts[b]
  <2> HIDE DEF new
  <2>1. DOMAIN attempts = AttemptId
    BY <1>7 DEF AttemptTable
  <2> QED BY <1>1, <1>2, <2>1
<1>10. /\ new.task = t /\ new.node = n /\ new.state = "Dispatched"
       /\ new.epoch = epoch /\ new.committed = FALSE
  OBVIOUS
<1> HIDE DEF new
<1> QED BY <1>1, <1>8, <1>9, <1>10

\* Every step of sweep() preserves the type invariant.
LEMMA TypeSweep ==
  ASSUME TypeOK, sweep_step
  PROVE  TypeOK'
<1>0. /\ state \in [Task -> RestState] /\ attempts \in AttemptTable
      /\ epoch \in Nat
  BY DEF TypeOK
<1>1. CASE \E n \in Node : handle_node_loss(n)
  <2> PICK n \in Node : handle_node_loss(n)
    BY <1>1
  <2>1. state' \in [Task -> RestState]
    BY LossState
  <2>2. disk' = Saved(epoch, state', attempts)
    BY DEF handle_node_loss, persist
  <2>3. disk' \in [epoch : Nat, state : [Task -> RestState], attempts : AttemptTable]
    BY <1>0, <2>1, <2>2, SavedType
  <2>4. nodes' \in [Node -> NodeRecord]
    <3>1. nodes \in [Node -> NodeRecord]
      BY DEF TypeOK
    <3>2. nodes' = [nodes EXCEPT ![n].health = "Offline", ![n].connected = FALSE]
      BY DEF handle_node_loss
    <3> DEFINE lost == [nodes[n] EXCEPT !.health = "Offline", !.connected = FALSE]
    <3>3. nodes' = [nodes EXCEPT ![n] = lost]
      BY <3>1, <3>2, Zenon
    <3>4. lost \in NodeRecord
      <4>1. nodes[n] \in NodeRecord
        BY <3>1
      <4> QED BY <4>1, Zenon DEF NodeRecord, NodeHealth
    <3> HIDE DEF lost
    <3> QED BY <3>1, <3>3, <3>4
  <2>5. link' \in [Node -> {"none", "open", "stopped"}]
    BY DEF TypeOK, handle_node_loss
  <2>6. held' \subseteq AttemptId
    BY DEF TypeOK, handle_node_loss
  <2>7. task_reservation' \in [Task -> AttemptId \cup {0}]
    BY DEF TypeOK, handle_node_loss
  <2>8. retry_ready' \subseteq Task
    BY DEF TypeOK, handle_node_loss, affected
  <2> QED BY <2>1, <2>3, <2>4, <2>5, <2>6, <2>7, <2>8
        DEF TypeOK, handle_node_loss, clientVars
<1>2. CASE \E T, X \in SUBSET Task : sweep_timers(T, X)
  <2> PICK T \in SUBSET Task, X \in SUBSET Task : sweep_timers(T, X)
    BY <1>2
  <2>1. state' \in [Task -> RestState]
    <3>1. state' = expired(requeued(T), X)
      BY DEF sweep_timers
    <3> QED BY <1>0, <3>1, TimersType
  <2>2. disk' \in {disk, Saved(epoch, state', attempts)}
    BY DEF sweep_timers, persist
  <2>3. disk' \in [epoch : Nat, state : [Task -> RestState], attempts : AttemptTable]
    <3>1. disk \in [epoch : Nat, state : [Task -> RestState], attempts : AttemptTable]
      BY DEF TypeOK
    <3>2. Saved(epoch, state', attempts)
            \in [epoch : Nat, state : [Task -> RestState], attempts : AttemptTable]
      BY <1>0, <2>1, SavedType
    <3> QED BY <2>2, <3>1, <3>2
  <2>4. /\ held' \subseteq held
        /\ task_reservation' \in [Task -> AttemptId \cup {0}]
    BY ReleaseType DEF sweep_timers
  <2>5. pc' \in {"idle", "sweep", "schedule"} /\ todo' \subseteq Task
    BY DEF sweep_timers
  <2> QED BY <2>1, <2>3, <2>4, <2>5 DEF TypeOK, sweep_timers, nodeVars, clientVars
<1>3. CASE \E t \in Task : schedule_ready_task(t)
  <2> PICK t \in Task : schedule_ready_task(t)
    BY <1>3
  <2>1. next_ready(t) => /\ pc' \in {"idle", "sweep", "schedule"}
                         /\ todo' \subseteq Task
    BY DEF next_ready, TypeOK
  <2>2. CASE expire_ready(t)
    <3>1. state' \in [Task -> RestState]
      BY <1>0, <2>2, SetStateType DEF expire_ready, RestTarget
    <3>2. disk' = Saved(epoch, state', attempts)
      BY <2>2 DEF expire_ready, persist
    <3>3. disk' \in [epoch : Nat, state : [Task -> RestState], attempts : AttemptTable]
      BY <1>0, <3>1, <3>2, SavedType
    <3> QED BY <2>1, <2>2, <3>1, <3>3, Zenon DEF TypeOK, expire_ready, next_ready,
              nodeVars, clientVars
  <2>3. CASE leave_ready(t)
    BY <2>1, <2>3 DEF TypeOK, leave_ready, next_ready, taskVars, nodeVars, clientVars
  <2>4. CASE \E n \in Node : dispatch(t, n)
    <3> PICK n \in Node : dispatch(t, n)
      BY <2>4
    <3>1. state' \in [Task -> RestState]
      BY DispatchState
    <3>2. next_attempt \in AttemptId /\ attempts' \in AttemptTable
      BY DispatchAttempt, Zenon
    <3>3. disk' = Saved(epoch, state', attempts')
      BY Zenon DEF dispatch, persist
    <3>4. disk' \in [epoch : Nat, state : [Task -> RestState], attempts : AttemptTable]
      BY <1>0, <3>1, <3>2, <3>3, SavedType
    <3>5. next_attempt' \in 1..(MaxAttempt + 1)
      <4>1. next_attempt' = next_attempt + 1
        BY Zenon DEF dispatch
      <4> QED BY <3>2, <4>1, ConstantsAssumption DEF AttemptId
    <3>6. held' \subseteq AttemptId
      BY <3>2 DEF dispatch, TypeOK
    <3>7. task_reservation' \in [Task -> AttemptId \cup {0}]
      BY <3>2 DEF dispatch, TypeOK
    <3>8. told' \in [AttemptId -> Report]
      BY <3>2 DEF dispatch, TypeOK, Report
    <3>9. next_ready(t)
      BY Zenon DEF dispatch
    <3> QED BY <2>1, <3>1, <3>2, <3>4, <3>5, <3>6, <3>7, <3>8, <3>9
          DEF TypeOK, next_ready, nodeVars, clientVars
  <2> QED BY <2>2, <2>3, <2>4 DEF schedule_ready_task
<1> QED BY <1>1, <1>2, <1>3 DEF sweep_step

\* Recovery moves the stored active tasks along Lost and no other.
LEMMA RecoveredType ==
  ASSUME NEW s \in [Task -> RestState]
  PROVE  recovered(s) \in [Task -> RestState]
<1>1. \A t \in Task : AfterLoss(t, s[t]) \in RestState
  BY AfterLossFacts
<1> QED BY <1>1 DEF recovered

\* A crash followed by start() preserves the type invariant.
LEMMA TypeStart ==
  ASSUME TypeOK, start
  PROVE  TypeOK'
<1>1. /\ disk.state \in [Task -> RestState] /\ disk.attempts \in AttemptTable
      /\ disk.epoch \in Nat
  BY DEF TypeOK
<1>2. state' \in [Task -> RestState]
  BY <1>1, RecoveredType DEF start
<1>3. disk' \in [epoch : Nat, state : [Task -> RestState], attempts : AttemptTable]
  <2>1. disk' = Saved(disk.epoch + 1, state', disk.attempts)
    BY DEF start
  <2>2. disk.epoch + 1 \in Nat
    BY <1>1
  <2> QED BY <1>1, <1>2, <2>1, <2>2, SavedType
<1>4. nodes' \in [Node -> NodeRecord]
  BY DEF start, NoNode, NodeRecord, NodeHealth
<1>5. ended' \in [Node -> SUBSET Nat]
  <2>1. /\ ended' = [n \in Node |-> 1..sessions[n]]
        /\ sessions \in [Node -> Nat]
    BY DEF start, TypeOK
  <2> QED BY <2>1
<1>6. attempts' \in AttemptTable
  BY <1>1 DEF start
<1>7. epoch' \in Nat \ {0}
  <2>1. epoch' = disk.epoch + 1
    BY DEF start
  <2> QED BY <1>1, <2>1
<1>8. retry_ready' \subseteq Task
  BY DEF start
<1>9. task_reservation' \in [Task -> AttemptId \cup {0}]
  BY DEF start
<1> QED BY <1>2, <1>3, <1>4, <1>5, <1>6, <1>7, <1>8, <1>9 DEF start, TypeOK

\* A step that changes nothing preserves the type invariant.
LEMMA TypeStutter ==
  ASSUME TypeOK, UNCHANGED vars
  PROVE  TypeOK'
BY DEF TypeOK, vars, taskVars, nodeVars, clientVars, sweepVars

\* Type correctness: no handler, sweep step or recovery leaves a task in one of
\* the transitional states, and the store file is always well formed.
THEOREM TypeCorrect == Spec => []TypeOK
<1>1. TypeOK /\ [Next]_vars => TypeOK'
  BY TypeClient, TypeReport, TypeNode, TypeSweep, TypeStart, TypeStutter DEF Next
<1> QED BY <1>1, InitType, PTL DEF Spec

-----------------------------------------------------------------------------
(* The safety properties, from one inductive invariant.                    *)

\* An id that has not been given out names no attempt, so a dispatch never
\* overwrites one.
FreshIds == \A a \in AttemptId : a >= next_attempt => attempts[a] = NoAttempt

\* A committed attempt has been reported complete: the AttemptStarted and
\* AttemptCancelled handlers, which do not look at "committed", come too late.
CommitReported ==
  \A a \in AttemptId : attempts[a].committed => told[a] \in Reported

\* What is left of a sweep: the listed tasks are still Ready.
TodoReady ==
  /\ pc # "schedule" => todo = {}
  /\ \A t \in todo : state[t] = "Ready"

\* Before a restart an acknowledged cancellation is either still flagged or done.
CancelKept ==
  epoch = 1 => \A t \in cancel_acked : /\ state[t] # "Succeeded"
                                       /\ t \in cancel_requested \/ state[t] = "Cancelled"

\* The inductive invariant.
IInv ==
  /\ TypeOK
  /\ DependencyGating
  /\ SucceededIsCommitted
  /\ NoLeakedReservation
  /\ DiskCurrent
  /\ NoStaleAuthority
  /\ FreshIds
  /\ CommitReported
  /\ TodoReady
  /\ CancelKept

\* What every step does to task states and attempts.
SoundStep ==
  /\ \A t \in Task : state[t] \in FinalState => state'[t] = state[t]
  /\ \A t \in Task : state'[t] \notin Ungated =>
       state[t] \notin Ungated \/ dependencies_satisfied(state', t)
  /\ \A t \in Task : state'[t] = "Succeeded" =>
       \/ state[t] = "Succeeded"
       \/ \E a \in AttemptId : attempts'[a].committed /\ attempts'[a].task = t
  /\ \A a \in AttemptId : attempts[a].committed => attempts'[a] = attempts[a]

-----------------------------------------------------------------------------
(* Consequences of what a step does.                                       *)

\* The first start() establishes the inductive invariant.
LEMMA InitInv == Init => IInv
<1> SUFFICES ASSUME Init PROVE IInv
  OBVIOUS
<1>1. TypeOK
  BY InitType
<1>2. /\ DependencyGating /\ SucceededIsCommitted
  BY DEF Init, DependencyGating, SucceededIsCommitted
<1>3. NoLeakedReservation /\ FreshIds /\ CommitReported /\ NoStaleAuthority
  BY DEF Init, NoLeakedReservation, FreshIds, CommitReported, NoStaleAuthority,
         NoAttempt
<1>4. DiskCurrent /\ TodoReady /\ CancelKept
  BY DEF Init, DiskCurrent, TodoReady, CancelKept
<1> QED BY <1>1, <1>2, <1>3, <1>4 DEF IInv

\* The gate stays shut: dependencies that have succeeded stay succeeded.
LEMMA GatingStep ==
  ASSUME TypeOK, DependencyGating, SoundStep
  PROVE  DependencyGating'
<1> SUFFICES ASSUME NEW t \in Task, state'[t] \notin Ungated, NEW d \in Deps(t)
             PROVE  state'[d] = "Succeeded"
  BY DEF DependencyGating, dependencies_satisfied, Ungated
<1>1. d \in Task
  BY ConstantsAssumption DEF Deps, ComputeTask
<1>2. CASE dependencies_satisfied(state', t)
  BY <1>2 DEF dependencies_satisfied
<1>3. CASE state[t] \notin Ungated
  <2>1. state[d] = "Succeeded"
    BY <1>3 DEF DependencyGating, dependencies_satisfied, Ungated
  <2> QED BY <1>1, <2>1, Zenon DEF SoundStep, FinalState
<1> QED BY <1>2, <1>3, Zenon DEF SoundStep

\* A task that succeeds in a step has a committed attempt after it, if commits persist.
LEMMA CommittedStep ==
  ASSUME SucceededIsCommitted, SoundStep
  PROVE  SucceededIsCommitted'
<1> SUFFICES ASSUME NEW t \in Task, state'[t] = "Succeeded"
             PROVE  \E a \in AttemptId : attempts'[a].committed /\ attempts'[a].task = t
  BY DEF SucceededIsCommitted
<1>1. CASE state[t] = "Succeeded"
  <2>1. PICK a \in AttemptId : attempts[a].committed /\ attempts[a].task = t
    BY <1>1, Zenon DEF SucceededIsCommitted
  <2>2. attempts'[a] = attempts[a]
    BY <2>1, Zenon DEF SoundStep
  <2> QED BY <2>1, <2>2, Zenon
<1> QED BY <1>1, Zenon DEF SoundStep

\* Releasing the reservations of the tasks in S leaks none, if only those
\* tasks leave the in-flight states.
LEMMA LeakStep ==
  ASSUME TypeOK, NoLeakedReservation, NEW S \in SUBSET Task,
         held' \subseteq held \ {task_reservation[t] : t \in S},
         task_reservation' = [t \in Task |-> IF t \in S THEN 0
                                             ELSE task_reservation[t]],
         \A t \in Task \ S : state[t] \in InFlight => state'[t] \in InFlight,
         \A b \in held : /\ attempts'[b].task = attempts[b].task
                         /\ attempts'[b].state # "None"
  PROVE  NoLeakedReservation'
<1> SUFFICES ASSUME NEW b \in held'
             PROVE  /\ attempts'[b].state # "None"
                    /\ task_reservation'[attempts'[b].task] = b
                    /\ state'[attempts'[b].task] \in InFlight
  BY DEF NoLeakedReservation, InFlight
<1> DEFINE t == attempts[b].task
<1>1. b \in held /\ b \in AttemptId
  BY DEF TypeOK
<1>2. /\ attempts[b].state # "None"
      /\ task_reservation[t] = b
      /\ state[t] \in InFlight
  BY <1>1 DEF NoLeakedReservation, InFlight
<1>3. t \in Task
  BY <1>1, <1>2, KnownAttempt DEF TypeOK, ExecutionAttempt
<1>4. t \notin S
  BY <1>2
<1>5. attempts'[b].task = t /\ attempts'[b].state # "None"
  BY <1>1
<1> QED BY <1>2, <1>3, <1>4, <1>5

\* The conjuncts of the invariant, each preserved on its own, make a sound step.
LEMMA Assemble ==
  ASSUME IInv, TypeOK', SoundStep, NoLeakedReservation', DiskCurrent',
         NoStaleAuthority', FreshIds', CommitReported', TodoReady', CancelKept'
  PROVE  IInv' /\ SoundStep
BY GatingStep, CommittedStep DEF IInv

\* A step that leaves tasks, attempts and the store alone.
LEMMA QuietStep ==
  ASSUME IInv, held' \subseteq held,
         UNCHANGED <<state, attempts, next_attempt, task_reservation, epoch, disk>>
  PROVE  /\ SoundStep /\ NoLeakedReservation' /\ DiskCurrent'
         /\ NoStaleAuthority' /\ FreshIds'
<1>1. SoundStep
  BY DEF SoundStep
<1>2. NoLeakedReservation'
  BY DEF IInv, NoLeakedReservation
<1>3. DiskCurrent'
  BY DEF IInv, DiskCurrent, Saved
<1>4. NoStaleAuthority' /\ FreshIds'
  BY DEF IInv, NoStaleAuthority, FreshIds
<1> QED BY <1>1, <1>2, <1>3, <1>4

\* Registration, heartbeat and disconnection leave tasks and attempts sound.
LEMMA InvNode ==
  ASSUME IInv, node_step
  PROVE  IInv' /\ SoundStep
<1>1. UNCHANGED <<taskVars, cancel_requested, cancel_sent, cancel_acked,
                  sweepVars, retry_ready, told, epoch, disk>>
  BY DEF node_step, handle_node_register, handle_node_heartbeat, stop_connection,
         handle_node_disconnect, clientVars
<1>2. /\ SoundStep /\ NoLeakedReservation' /\ DiskCurrent'
      /\ NoStaleAuthority' /\ FreshIds'
  BY <1>1, QuietStep DEF taskVars
<1>3. TypeOK'
  BY TypeNode DEF IInv
<1>4. CommitReported' /\ TodoReady' /\ CancelKept'
  BY <1>1 DEF IInv, CommitReported, TodoReady, CancelKept, taskVars, sweepVars
<1> QED BY <1>2, <1>3, <1>4, Assemble

\* handle_task_submit adds a task Blocked or Ready and keeps the invariant.
LEMMA InvSubmit ==
  ASSUME IInv, NEW t \in Task, handle_task_submit(t), TypeOK'
  PROVE  IInv' /\ SoundStep
<1>0. TypeOK
  BY DEF IInv
<1>1. UNCHANGED <<attempts, next_attempt, held, task_reservation, nodeVars,
                  clientVars, sweepVars, retry_ready, told, epoch>>
  BY DEF handle_task_submit
<1>2. /\ state[t] = "Absent" /\ state' = [state EXCEPT ![t] = initial_state(t)]
      /\ pc = "idle"
  BY <1>0, SubmitState, Zenon DEF handle_task_submit
<1>3. /\ initial_state(t) \in {"Ready", "Blocked"}
      /\ initial_state(t) = "Ready" => Deps(t) = {}
  BY DEF initial_state
<1>4. \A u \in Task : state'[u] = IF u = t THEN initial_state(t) ELSE state[u]
  BY <1>0, <1>2 DEF TypeOK
<1>5. SoundStep
  BY <1>1, <1>2, <1>3, <1>4 DEF SoundStep, FinalState, Ungated, dependencies_satisfied
<1>6. NoLeakedReservation'
  <2>1. \A u \in Task \ {} : state[u] \in InFlight => state'[u] \in InFlight
    BY <1>2, <1>4 DEF InFlight
  <2>2. task_reservation' = [u \in Task |-> IF u \in {} THEN 0 ELSE task_reservation[u]]
    BY <1>0, <1>1 DEF TypeOK
  <2>3. \A b \in held : /\ attempts'[b].task = attempts[b].task
                        /\ attempts'[b].state # "None"
    BY <1>1 DEF IInv, NoLeakedReservation
  <2>4. held' \subseteq held \ {task_reservation[u] : u \in {}}
    BY <1>1
  <2>5. {} \in SUBSET Task /\ NoLeakedReservation
    BY DEF IInv
  <2> QED BY <1>0, <2>1, <2>2, <2>3, <2>4, <2>5, LeakStep, Zenon
<1>7. DiskCurrent'
  BY <1>1 DEF handle_task_submit, persist, DiskCurrent, Saved
<1>8. NoStaleAuthority' /\ FreshIds' /\ CommitReported'
  BY <1>1, Zenon DEF IInv, NoStaleAuthority, FreshIds, CommitReported
<1>9. TodoReady'
  BY <1>1, <1>2 DEF IInv, TodoReady, sweepVars
<1>10. CancelKept'
  BY <1>0, <1>1, <1>2, <1>3, <1>4, Zenon DEF IInv, CancelKept, clientVars, TypeOK
<1> QED BY <1>5, <1>6, <1>7, <1>8, <1>9, <1>10, Assemble

\* handle_task_cancel, queued or running, keeps the invariant.
LEMMA InvCancel ==
  ASSUME IInv, NEW t \in Task, handle_task_cancel(t), TypeOK'
  PROVE  IInv' /\ SoundStep
<1>0. TypeOK /\ pc = "idle" /\ ~is_terminal(state[t])
  BY DEF IInv, handle_task_cancel
<1>1. UNCHANGED <<nodeVars, sweepVars, retry_ready, told, epoch>>
      /\ cancel_acked' = cancel_acked \cup {t}
  BY DEF handle_task_cancel
<1>2. CASE cancel_running(t)
  <2>1. UNCHANGED <<taskVars, disk>> /\ cancel_requested' = cancel_requested \cup {t}
        /\ state[t] = "Running"
    BY <1>2 DEF cancel_running
  <2>2. /\ SoundStep /\ NoLeakedReservation' /\ DiskCurrent'
        /\ NoStaleAuthority' /\ FreshIds'
    BY <1>1, <2>1, QuietStep DEF taskVars
  <2>3. CommitReported' /\ TodoReady' /\ CancelKept'
    BY <1>1, <2>1, Zenon DEF IInv, CommitReported, TodoReady, CancelKept, taskVars, sweepVars
  <2> QED BY <2>2, <2>3, Assemble
<1>3. CASE cancel_queued(t)
  <2>1. /\ UNCHANGED <<attempts, next_attempt>>
        /\ cancel_requested' = cancel_requested \ {t}
        /\ state' = set_state(state, t, "Cancelled")
        /\ disk' = Saved(epoch, state', attempts)
    BY <1>3 DEF cancel_queued, persist
  <2>2. state[t] \in RestState /\ state[t] # "Running" /\ state[t] # "Absent"
    BY <1>0, <1>3 DEF TypeOK, cancel_queued, handle_task_cancel
  <2>3. After(state[t], "Cancelled") = "Cancelled"
    BY <1>0, <2>2 DEF After, is_legal, is_terminal, RestState, GraphState, TaskState
  <2>4. \A u \in Task : state'[u] = IF u = t THEN "Cancelled" ELSE state[u]
    BY <1>0, <2>1, <2>3, Zenon DEF TypeOK, set_state
  <2>5. SoundStep
    BY <1>0, <2>1, <2>4, Zenon DEF SoundStep, FinalState, Ungated, is_terminal
  <2>6. NoLeakedReservation'
    <3>1. \A u \in Task \ {t} : state[u] \in InFlight => state'[u] \in InFlight
      BY <2>4
    <3>2. \A b \in held : attempts[b].state # "None"
      BY DEF IInv, NoLeakedReservation
    <3>3. /\ held' = held \ {task_reservation[u] : u \in {t}}
          /\ task_reservation' = [u \in Task |-> IF u \in {t} THEN 0
                                                 ELSE task_reservation[u]]
      BY <1>3, Zenon DEF cancel_queued, release_task_reservation
    <3> QED BY <1>0, <2>1, <3>1, <3>2, <3>3, LeakStep, Zenon DEF IInv
  <2>7. DiskCurrent' /\ NoStaleAuthority' /\ FreshIds' /\ CommitReported'
    BY <1>1, <2>1, Zenon DEF IInv, DiskCurrent, NoStaleAuthority, FreshIds,
                      CommitReported, Saved
  <2>8. TodoReady'
    BY <1>0, <1>1 DEF IInv, TodoReady, sweepVars
  <2>9. CancelKept'
    BY <1>0, <1>1, <2>1, <2>4, Zenon DEF IInv, CancelKept, TypeOK
  <2> QED BY <2>5, <2>6, <2>7, <2>8, <2>9, Assemble
<1> QED BY <1>2, <1>3 DEF handle_task_cancel

\* Every handler of a client command keeps the invariant.
LEMMA InvClient ==
  ASSUME IInv, client_step
  PROVE  IInv' /\ SoundStep
<1>1. TypeOK'
  BY TypeClient DEF IInv
<1>2. CASE \E n \in DrainNode, drain \in BOOLEAN : handle_node_drain(n, drain)
  <2>1. UNCHANGED <<taskVars, cancel_requested, cancel_acked, sweepVars, told,
                    epoch, disk>>
    BY <1>2 DEF handle_node_drain
  <2>2. /\ SoundStep /\ NoLeakedReservation' /\ DiskCurrent'
        /\ NoStaleAuthority' /\ FreshIds'
    BY <2>1, QuietStep DEF taskVars
  <2>3. CommitReported' /\ TodoReady' /\ CancelKept'
    BY <2>1, Zenon DEF IInv, CommitReported, TodoReady, CancelKept, taskVars, sweepVars
  <2> QED BY <1>1, <2>2, <2>3, Assemble
<1> QED BY <1>1, <1>2, InvSubmit, InvCancel DEF client_step

-----------------------------------------------------------------------------
(* Reports.                                                                *)

\* One task is sent to a state other than Ready or Succeeded.
LEMMA OneTaskMove ==
  ASSUME TypeOK, NEW t \in Task, NEW to \in RestTarget \ {"Ready", "Succeeded"},
         state' = set_state(state, t, to) \/ state' = state
  PROVE  /\ \A u \in Task \ {t} : state'[u] = state[u]
         /\ state'[t] \in {state[t], to}
         /\ \A u \in Task : state[u] \in FinalState => state'[u] = state[u]
         /\ \A u \in Task : state'[u] \notin Ungated => state[u] \notin Ungated
<1>0. state \in [Task -> RestState]
  BY DEF TypeOK
<1>1. CASE state' = state
  BY <1>1
<1>2. CASE state' = set_state(state, t, to)
  <2>1. \A u \in Task : state'[u] = IF u = t THEN After(state[t], to) ELSE state[u]
    BY <1>0, <1>2 DEF set_state
  <2>2. After(state[t], to) \in {state[t], to}
    BY DEF After
  <2>3. state[t] \in FinalState => After(state[t], to) = state[t]
    BY AfterFinal
  <2>4. After(state[t], to) \notin Ungated => state[t] \notin Ungated
    BY <1>0, AfterGate
  <2> QED BY <2>1, <2>2, <2>3, <2>4
<1> QED BY <1>1, <1>2

\* What a report about the known, uncommitted attempt a leaves in place.
LEMMA ReportFrame ==
  ASSUME IInv, NEW a \in AttemptId, NEW from, NEW to, report(a, from, to),
         known(a), ~attempts[a].committed,
         \A b \in AttemptId \ {a} : attempts'[b] = attempts[b],
         attempts'[a].epoch = attempts[a].epoch,
         attempts'[a].committed => to \in Reported
  PROVE  /\ NoStaleAuthority' /\ FreshIds' /\ CommitReported' /\ TodoReady'
         /\ \A b \in AttemptId : attempts[b].committed => attempts'[b] = attempts[b]
         /\ epoch' = epoch /\ cancel_acked' = cancel_acked /\ attempts[a].task \in Task
<1>0. TypeOK
  BY DEF IInv
<1>1. /\ epoch' = epoch /\ next_attempt' = next_attempt
      /\ pc = "idle" /\ pc' = pc /\ todo' = todo /\ cancel_acked' = cancel_acked
  BY DEF report, sweepVars
<1>2. \A b \in AttemptId : told'[b] = IF b = a THEN to ELSE told[b]
  BY <1>0, Zenon DEF report, TypeOK
<1>3. attempts[a].epoch = epoch
  BY DEF IInv, NoStaleAuthority, known
<1>4. NoStaleAuthority'
  BY <1>1, <1>3 DEF IInv, NoStaleAuthority
<1>5. FreshIds'
  <2>1. ~(a >= next_attempt)
    BY DEF IInv, FreshIds, known, NoAttempt
  <2> QED BY <1>1, <2>1 DEF IInv, FreshIds
<1>6. CommitReported'
  BY <1>2 DEF IInv, CommitReported
<1>7. TodoReady'
  BY <1>1 DEF IInv, TodoReady
<1>8. attempts[a].task \in Task
  BY <1>0, KnownAttempt, Zenon DEF TypeOK, known, ExecutionAttempt
<1> QED BY <1>1, <1>4, <1>5, <1>6, <1>7, <1>8

\* A new state of a known attempt, everything else in the table unchanged.
LEMMA NewAttemptState ==
  ASSUME TypeOK, NEW a \in AttemptId, known(a), NEW v \in AttemptState,
         attempts' = [attempts EXCEPT ![a].state = v]
  PROVE  /\ \A b \in AttemptId \ {a} : attempts'[b] = attempts[b]
         /\ attempts'[a].state = v
         /\ attempts'[a].epoch = attempts[a].epoch
         /\ attempts'[a].task = attempts[a].task
         /\ attempts'[a].node = attempts[a].node
         /\ attempts'[a].committed = attempts[a].committed
<1>1. attempts[a] \in ExecutionAttempt /\ attempts \in AttemptTable
  BY KnownAttempt DEF TypeOK, known
<1>2. attempts'[a] = [attempts[a] EXCEPT !.state = v]
  BY <1>1 DEF AttemptTable
<1>3. \A b \in AttemptId \ {a} : attempts'[b] = attempts[b]
  BY <1>1 DEF AttemptTable
<1> QED BY <1>1, <1>2, <1>3 DEF ExecutionAttempt

\* The effects other than a commit: the attempt gets a state, its task moves
\* on (not to Ready or Succeeded), and the task's reservation is released or
\* the task remains in flight.
LEMMA InvMove ==
  ASSUME IInv, TypeOK', NEW a \in AttemptId, NEW from, NEW to, report(a, from, to),
         known(a), ~attempts[a].committed, NEW v \in AttemptState,
         attempts' = [attempts EXCEPT ![a].state = v],
         NEW x \in RestTarget \ {"Ready", "Succeeded"},
         state' = set_state(state, attempts[a].task, x) \/ state' = state,
         disk' = Saved(epoch, state', attempts'),
         cancel_requested' = cancel_requested,
         \/ release_task_reservation({attempts[a].task})
         \/ UNCHANGED <<held, task_reservation>> /\ x \in InFlight
  PROVE  IInv' /\ SoundStep
<1>0. TypeOK
  BY DEF IInv
<1> DEFINE t == attempts[a].task
<1>1. /\ \A b \in AttemptId \ {a} : attempts'[b] = attempts[b]
      /\ attempts'[a].state = v
      /\ attempts'[a].epoch = attempts[a].epoch
      /\ attempts'[a].task = t
      /\ attempts'[a].committed = attempts[a].committed
  BY <1>0, NewAttemptState, Zenon
<1>2. /\ NoStaleAuthority' /\ FreshIds' /\ CommitReported' /\ TodoReady'
      /\ \A b \in AttemptId : attempts[b].committed => attempts'[b] = attempts[b]
      /\ epoch' = epoch /\ cancel_acked' = cancel_acked /\ t \in Task
  BY <1>1, ReportFrame
<1>3. /\ \A u \in Task \ {t} : state'[u] = state[u]
      /\ state'[t] \in {state[t], x}
      /\ \A u \in Task : state[u] \in FinalState => state'[u] = state[u]
      /\ \A u \in Task : state'[u] \notin Ungated => state[u] \notin Ungated
  BY <1>0, <1>2, OneTaskMove
<1>4. SoundStep
  BY <1>2, <1>3 DEF SoundStep
<1>5. DiskCurrent'
  BY <1>2 DEF DiskCurrent, Saved
<1>6. CancelKept'
  <2> SUFFICES ASSUME epoch = 1, NEW u \in cancel_acked
               PROVE  /\ state'[u] # "Succeeded"
                      /\ u \in cancel_requested \/ state'[u] = "Cancelled"
    BY <1>2 DEF CancelKept
  <2>1. /\ u \in Task /\ state[u] # "Succeeded"
        /\ u \in cancel_requested \/ state[u] = "Cancelled"
    BY <1>0 DEF IInv, CancelKept, TypeOK
  <2>2. state'[u] # "Succeeded"
    BY <1>2, <1>3, <2>1
  <2>3. state[u] = "Cancelled" => state'[u] = "Cancelled"
    BY <1>3, <2>1 DEF FinalState
  <2> QED BY <2>1, <2>2, <2>3
<1>7. NoLeakedReservation'
  <2>1. held \subseteq AttemptId /\ v # "None"
    BY <1>0 DEF TypeOK, AttemptState
  <2>2. \A b \in held : /\ attempts'[b].task = attempts[b].task
                        /\ attempts'[b].state # "None"
    BY <1>1, <2>1 DEF IInv, NoLeakedReservation
  <2>3. CASE release_task_reservation({t})
    <3>1. /\ held' \subseteq held \ {task_reservation[u] : u \in {t}}
          /\ task_reservation' = [u \in Task |-> IF u \in {t} THEN 0
                                                 ELSE task_reservation[u]]
      BY <2>3 DEF release_task_reservation
    <3>2. {t} \in SUBSET Task
          /\ \A u \in Task \ {t} : state[u] \in InFlight => state'[u] \in InFlight
      BY <1>2, <1>3
    <3> QED BY <1>0, <2>2, <3>1, <3>2, LeakStep, SMTT(30) DEF IInv
  <2>4. CASE UNCHANGED <<held, task_reservation>> /\ x \in InFlight
    <3>1. \A u \in Task : state[u] \in InFlight => state'[u] \in InFlight
      BY <1>3, <2>4
    <3>2. \A b \in held : attempts[b].task \in Task
      BY <1>0, <2>1, KnownAttempt DEF TypeOK, IInv, NoLeakedReservation, ExecutionAttempt
    <3> SUFFICES ASSUME NEW b \in held
                 PROVE  /\ attempts'[b].state # "None"
                        /\ task_reservation'[attempts'[b].task] = b
                        /\ state'[attempts'[b].task] \in InFlight
      BY <2>4 DEF NoLeakedReservation, InFlight
    <3>3. /\ attempts[b].task \in Task /\ task_reservation[attempts[b].task] = b
          /\ state[attempts[b].task] \in InFlight
      BY <3>2 DEF IInv, NoLeakedReservation, InFlight
    <3> QED BY <2>2, <2>4, <3>1, <3>3
  <2> QED BY <2>3, <2>4
<1> QED BY <1>2, <1>4, <1>5, <1>6, <1>7, Assemble

\* After a success, a dependent stays put or, all its dependencies having
\* succeeded, turns from Blocked to Ready.
LEMMA OnSucceeded ==
  ASSUME NEW s \in [Task -> RestState], NEW id \in Task, NEW u \in Task
  PROVE  \/ on_task_succeeded(s, id)[u] = s[u]
         \/ /\ s[u] = "Blocked" /\ dependencies_satisfied(s, u)
            /\ on_task_succeeded(s, id)[u] = "Ready"
BY PoisonRefused DEF on_task_succeeded

\* The committing path of handle_attempt_complete keeps the invariant.
LEMMA InvCommit ==
  ASSUME IInv, TypeOK', NEW a \in AttemptId, NEW from, NEW to, report(a, from, to),
         ~attempts[a].committed, ~cancelled_by_client(a), completion_valid(a),
         told'[a] = "completed", commit(a)
  PROVE  IInv' /\ SoundStep
<1>0. TypeOK /\ known(a)
  BY Zenon DEF IInv, completion_valid, current
<1> DEFINE t == attempts[a].task
           s == set_state(state, t, "Succeeded")
<1>1. /\ attempts' = committed(a) /\ state' = on_task_succeeded(s, t)
      /\ cancel_requested' = cancel_requested \ {t}
      /\ disk' = Saved(epoch, state', attempts')
      /\ release_task_reservation({t})
  BY Zenon DEF commit, persist
<1>2. attempts[a] \in ExecutionAttempt /\ attempts \in AttemptTable /\ t \in Task
  BY <1>0, KnownAttempt, Zenon DEF TypeOK, known, ExecutionAttempt
<1>3. /\ \A b \in AttemptId \ {a} : attempts'[b] = attempts[b]
      /\ attempts'[a] = [attempts[a] EXCEPT !.state = "Succeeded", !.committed = TRUE]
  BY <1>1, <1>2 DEF committed, AttemptTable
<1>4. /\ attempts'[a].epoch = attempts[a].epoch /\ attempts'[a].task = t
      /\ attempts'[a].committed /\ attempts'[a].state = "Succeeded"
  BY <1>2, <1>3 DEF ExecutionAttempt
<1>5. to \in Reported
  BY <1>0, Zenon DEF report, TypeOK, Reported
<1>6. /\ NoStaleAuthority' /\ FreshIds' /\ CommitReported' /\ TodoReady'
      /\ \A b \in AttemptId : attempts[b].committed => attempts'[b] = attempts[b]
      /\ epoch' = epoch /\ cancel_acked' = cancel_acked
  BY <1>0, <1>3, <1>4, <1>5, ReportFrame, Zenon
<1>7. state[t] \in InFlight /\ t \notin cancel_requested
  BY DEF completion_valid, InFlight, cancelled_by_client
<1>8. /\ s \in [Task -> RestState]
      /\ \A u \in Task \ {t} : s[u] = state[u]
      /\ s[t] \in {"Succeeded", state[t]}
  <2>1. s \in [Task -> RestState]
    BY <1>0, <1>2, SetStateType, Zenon DEF TypeOK, RestTarget
  <2> QED BY <1>0, <1>2, <2>1, Zenon DEF TypeOK, set_state, After
<1> HIDE DEF s
<1>9. \A u \in Task : \/ state'[u] = s[u]
                      \/ /\ s[u] = "Blocked" /\ dependencies_satisfied(s, u)
                         /\ state'[u] = "Ready"
  <2> SUFFICES ASSUME NEW u \in Task
               PROVE  \/ state'[u] = s[u]
                      \/ /\ s[u] = "Blocked" /\ dependencies_satisfied(s, u)
                         /\ state'[u] = "Ready"
    BY Zenon
  <2>1. \/ on_task_succeeded(s, t)[u] = s[u]
        \/ /\ s[u] = "Blocked" /\ dependencies_satisfied(s, u)
           /\ on_task_succeeded(s, t)[u] = "Ready"
    <3>1. s \in [Task -> RestState] /\ t \in Task
      BY <1>2, <1>8
    <3> HIDE DEF t
    <3> QED BY <3>1, OnSucceeded
  <2> QED BY <1>1, <2>1, Zenon
<1>10. \A u \in Task : dependencies_satisfied(s, u) => dependencies_satisfied(state', u)
  <2> SUFFICES ASSUME NEW u \in Task, NEW d \in Deps(u), s[d] = "Succeeded"
               PROVE  state'[d] = "Succeeded"
    BY DEF dependencies_satisfied
  <2>1. d \in Task
    BY ConstantsAssumption DEF Deps, ComputeTask
  <2> QED BY <1>9, <2>1
<1>11. SoundStep
  <2>1. \A u \in Task : state[u] \in FinalState => state'[u] = state[u]
    BY <1>7, <1>8, <1>9, Zenon DEF FinalState, InFlight
  <2>2. \A u \in Task : state'[u] \notin Ungated =>
          state[u] \notin Ungated \/ dependencies_satisfied(state', u)
    BY <1>7, <1>8, <1>9, <1>10, Zenon DEF Ungated, InFlight
  <2>3. \A u \in Task : state'[u] = "Succeeded" => state[u] = "Succeeded" \/ u = t
    BY <1>8, <1>9, Zenon
  <2> QED BY <1>4, <1>6, <2>1, <2>2, <2>3 DEF SoundStep
<1>12. DiskCurrent'
  BY <1>1, <1>6, Zenon DEF DiskCurrent, Saved
<1>13. CancelKept'
  <2>1. epoch = 1 => t \notin cancel_acked
    BY <1>7 DEF IInv, CancelKept, InFlight
  <2>2. \A u \in Task \ {t} : /\ state[u] # "Succeeded" => state'[u] # "Succeeded"
                              /\ state[u] = "Cancelled" => state'[u] = "Cancelled"
    BY <1>8, <1>9, Zenon
  <2> SUFFICES ASSUME epoch = 1, NEW u \in cancel_acked
               PROVE  /\ state'[u] # "Succeeded"
                      /\ u \in cancel_requested' \/ state'[u] = "Cancelled"
    BY <1>6, Zenon DEF CancelKept
  <2>3. /\ u \in Task \ {t} /\ state[u] # "Succeeded"
        /\ u \in cancel_requested \/ state[u] = "Cancelled"
    BY <1>0, <2>1, Zenon DEF IInv, CancelKept, TypeOK
  <2> QED BY <1>1, <2>2, <2>3, Zenon
<1>14. NoLeakedReservation'
  <2>1. \A b \in held : /\ attempts'[b].task = attempts[b].task
                        /\ attempts'[b].state # "None"
    <3> SUFFICES ASSUME NEW b \in held
                 PROVE  /\ attempts'[b].task = attempts[b].task
                        /\ attempts'[b].state # "None"
      OBVIOUS
    <3>1. b \in AttemptId /\ attempts[b].state # "None"
      BY <1>0, Zenon DEF IInv, NoLeakedReservation, TypeOK
    <3>2. CASE b = a
      BY <1>4, <3>2, Zenon
    <3>3. CASE b # a
      BY <1>3, <3>1, <3>3
    <3> QED BY <3>2, <3>3
  <2>2. {t} \in SUBSET Task
        /\ \A u \in Task \ {t} : state[u] \in InFlight => state'[u] \in InFlight
    BY <1>2, <1>8, <1>9, Zenon DEF InFlight
  <2>3. /\ held' \subseteq held \ {task_reservation[u] : u \in {t}}
        /\ task_reservation' = [u \in Task |-> IF u \in {t} THEN 0
                                               ELSE task_reservation[u]]
    BY <1>1, Zenon DEF release_task_reservation
  <2> QED BY <1>0, <2>1, <2>2, <2>3, LeakStep, Zenon DEF IInv
<1> QED BY <1>6, <1>11, <1>12, <1>13, <1>14, Assemble, Zenon

\* Every handler of a node report keeps the invariant.
LEMMA InvReport ==
  ASSUME IInv, report_step
  PROVE  IInv' /\ SoundStep
<1>0. TypeOK /\ TypeOK'
  BY TypeReport DEF IInv
<1> PICK a \in AttemptId, from \in SUBSET Report, to \in Report :
      /\ report(a, from, to)
      /\ told[a] \in Reported => to \in Reported
      /\ Effect(a) \/ handle_reservation_release(a)
  BY <1>0, ReportCases
<1>1. CASE ignored \/ handle_reservation_release(a)
  <2>1. /\ UNCHANGED <<state, attempts, next_attempt, task_reservation, epoch, disk,
                       cancel_requested, cancel_acked, sweepVars>>
        /\ held' \subseteq held
        /\ told' = [told EXCEPT ![a] = to]
    BY <1>1, Zenon DEF ignored, handle_reservation_release, report
  <2>2. /\ SoundStep /\ NoLeakedReservation' /\ DiskCurrent'
        /\ NoStaleAuthority' /\ FreshIds'
    BY <2>1, QuietStep
  <2>3. CommitReported'
    BY <1>0, <2>1, Zenon DEF IInv, CommitReported, TypeOK
  <2>4. TodoReady' /\ CancelKept'
    BY <2>1 DEF IInv, TodoReady, CancelKept, sweepVars
  <2> QED BY <1>0, <2>2, <2>3, <2>4, Assemble
<1>2. CASE current(a) /\ told[a] = "dispatched" /\ apply_started(a)
  <2>1. known(a) /\ ~attempts[a].committed
    BY <1>0, <1>2, Zenon DEF current, known, IInv, CommitReported, Reported, TypeOK
  <2>2. /\ "Started" \in AttemptState
        /\ "Running" \in RestTarget \ {"Ready", "Succeeded"} /\ "Running" \in InFlight
    BY DEF AttemptState, RestTarget, InFlight
  <2> QED BY <1>0, <1>2, <2>1, <2>2, InvMove, Zenon DEF apply_started, persist
<1>3. CASE known(a) /\ ~attempts[a].committed /\ apply_cancelled(a)
  <2>2. /\ "Cancelled" \in AttemptState
        /\ "Preempted" \in RestTarget \ {"Ready", "Succeeded"}
    BY DEF AttemptState, RestTarget
  <2> QED BY <1>0, <1>3, <2>2, InvMove, Zenon DEF apply_cancelled, persist
<1>4. CASE current(a) /\ told[a] = "started" /\ apply_cancelled(a)
  <2>1. known(a) /\ ~attempts[a].committed
    BY <1>0, <1>4, Zenon DEF current, known, IInv, CommitReported, Reported, TypeOK
  <2> QED BY <1>3, <1>4, <2>1
<1>5. CASE /\ ~attempts[a].committed /\ ~cancelled_by_client(a) /\ completion_valid(a)
           /\ told'[a] = "completed" /\ commit(a)
  BY <1>0, <1>5, InvCommit, Zenon
<1>6. CASE \E kind \in FailureKind :
             current(a) /\ ~attempts[a].committed /\ apply_failed(a, kind)
  <2> PICK kind \in FailureKind :
        current(a) /\ ~attempts[a].committed /\ apply_failed(a, kind)
    BY <1>6, Zenon
  <2> DEFINE x == IF can_retry(attempts[a].task, attempts[a].number, kind)
                  THEN "RetryPending" ELSE "Failed"
  <2>1. /\ "Failed" \in AttemptState
        /\ x \in RestTarget \ {"Ready", "Succeeded"}
    BY DEF AttemptState, RestTarget
  <2>2. /\ known(a)
        /\ attempts' = [attempts EXCEPT ![a].state = "Failed"]
        /\ release_task_reservation({attempts[a].task})
        /\ state' = set_state(state, attempts[a].task, x) \/ state' = state
        /\ disk' = Saved(epoch, state', attempts')
        /\ cancel_requested' = cancel_requested
    BY DEF current, apply_failed, persist
  <2> HIDE DEF x
  <2> QED BY <1>0, <2>1, <2>2, InvMove, Zenon
<1> QED BY <1>1, <1>2, <1>3, <1>4, <1>5, <1>6, Zenon DEF Effect

-----------------------------------------------------------------------------
(* The sweep.                                                              *)

\* A part of the sweep that moves tasks and no attempt, and releases the
\* reservations of the tasks in S.
LEMMA TaskMoves ==
  ASSUME IInv, TypeOK', TodoReady', NEW S \in SUBSET Task,
         UNCHANGED <<attempts, next_attempt, told, epoch, clientVars>>,
         held' \subseteq held \ {task_reservation[t] : t \in S},
         task_reservation' = [t \in Task |-> IF t \in S THEN 0
                                             ELSE task_reservation[t]],
         disk' = Saved(epoch, state', attempts),
         \A t \in Task :
           /\ state[t] \in FinalState => state'[t] = state[t]
           /\ state'[t] \notin Ungated => state[t] \notin Ungated
           /\ state'[t] = "Succeeded" => state[t] = "Succeeded"
           /\ t \notin S /\ state[t] \in InFlight => state'[t] \in InFlight
  PROVE  IInv' /\ SoundStep
<1>0. TypeOK
  BY Zenon DEF IInv
<1>1. SoundStep
  BY Zenon DEF SoundStep
<1>2. DiskCurrent' /\ NoStaleAuthority' /\ FreshIds' /\ CommitReported'
  BY Zenon DEF IInv, DiskCurrent, NoStaleAuthority, FreshIds, CommitReported, Saved
<1>3. CancelKept'
  <2>1. cancel_requested' = cancel_requested /\ cancel_acked' = cancel_acked
    BY Zenon DEF clientVars
  <2> QED BY <1>0, <2>1, Zenon DEF IInv, CancelKept, TypeOK, FinalState
<1>4. \A b \in held : /\ attempts'[b].task = attempts[b].task
                      /\ attempts'[b].state # "None"
  BY Zenon DEF IInv, NoLeakedReservation
<1>5. \A t \in Task \ S : state[t] \in InFlight => state'[t] \in InFlight
  BY Zenon
<1>6. NoLeakedReservation /\ (held' \subseteq held \ {task_reservation[t] : t \in S})
  BY Zenon DEF IInv
<1>7. NoLeakedReservation'
  BY <1>0, <1>4, <1>5, <1>6, LeakStep, Zenon
<1> QED BY <1>1, <1>2, <1>3, <1>7, Assemble

\* handle_node_loss keeps the invariant.
LEMMA InvLoss ==
  ASSUME IInv, TypeOK', NEW n \in Node, handle_node_loss(n)
  PROVE  IInv' /\ SoundStep
<1>0. TypeOK /\ state \in [Task -> RestState]
  BY DEF IInv, TypeOK
<1>1. \A t \in Task : state'[t] = IF t \in affected(n) THEN AfterLoss(t, state[t])
                                  ELSE state[t]
  BY <1>0, LossState
<1>2. \A t \in Task :
        /\ state[t] \in FinalState => state'[t] = state[t]
        /\ state'[t] \notin Ungated => state[t] \notin Ungated
        /\ state'[t] = "Succeeded" => state[t] = "Succeeded"
        /\ t \notin affected(n) /\ state[t] \in InFlight => state'[t] \in InFlight
  BY <1>0, <1>1, AfterLossFacts
<1>3. /\ UNCHANGED <<attempts, next_attempt, told, epoch, clientVars>>
      /\ held' \subseteq held \ {task_reservation[t] : t \in affected(n)}
      /\ task_reservation' = [t \in Task |-> IF t \in affected(n) THEN 0
                                             ELSE task_reservation[t]]
      /\ disk' = Saved(epoch, state', attempts)
  BY DEF handle_node_loss, persist
<1>4. TodoReady'
  BY DEF handle_node_loss, IInv, TodoReady
<1>5. affected(n) \in SUBSET Task
  BY DEF affected
<1> HIDE DEF affected
<1> QED BY <1>2, <1>3, <1>4, <1>5, TaskMoves, Zenon

\* The dispatch and retry timers of sweep() keep the invariant.
LEMMA InvTimers ==
  ASSUME IInv, TypeOK', NEW T \in SUBSET Task, NEW X \in SUBSET Task, sweep_timers(T, X)
  PROVE  IInv' /\ SoundStep
<1>0. TypeOK /\ state \in [Task -> RestState]
  BY DEF IInv, TypeOK
<1> DEFINE q == requeued(T)
           S == (T \cap dispatch_timers) \cup X
<1>1. /\ UNCHANGED <<attempts, next_attempt, told, epoch, clientVars>>
      /\ release_task_reservation(S)
      /\ state' = expired(q, X)
      /\ X \subseteq deadline_timers(q)
      /\ T \subseteq dispatch_timers \cup retry_timers
  BY DEF sweep_timers
<1>2. S \in SUBSET Task
  OBVIOUS
<1>3. /\ held' \subseteq held \ {task_reservation[t] : t \in S}
      /\ task_reservation' = [t \in Task |-> IF t \in S THEN 0
                                             ELSE task_reservation[t]]
  BY <1>1, Zenon DEF release_task_reservation
<1>4. \A t \in Task :
        /\ t \in T => state[t] \in {"Dispatching", "RetryPending"} /\ q[t] = "Ready"
        /\ t \in T /\ t \notin S => state[t] = "RetryPending"
        /\ t \notin T => q[t] = state[t]
  BY <1>0, <1>1, Zenon DEF requeued, dispatch_timers, retry_timers, After, is_legal
<1>5. \A t \in Task :
        /\ t \in X => /\ q[t] \in {"Ready", "Blocked", "RetryPending"}
                      /\ state'[t] = "Expired"
        /\ t \notin X => state'[t] = q[t]
  BY <1>1, Zenon DEF expired, deadline_timers, After, is_legal
<1> HIDE DEF q
<1>6. \A t \in Task :
        /\ state[t] \in FinalState => state'[t] = state[t]
        /\ state'[t] \notin Ungated => state[t] \notin Ungated
        /\ state'[t] = "Succeeded" => state[t] = "Succeeded"
        /\ t \notin S /\ state[t] \in InFlight => state'[t] \in InFlight
  BY <1>4, <1>5 DEF FinalState, Ungated, InFlight
<1>7. TodoReady'
  BY DEF sweep_timers, TodoReady
<1>8. disk' = Saved(epoch, state', attempts)
  <2>1. CASE T \cup X = {}
    <3>1. \A t \in Task : state'[t] = state[t]
      BY <1>4, <1>5, <2>1
    <3>2. state' \in [Task -> RestState]
      BY DEF TypeOK
    <3>3. state' = state
      BY <1>0, <3>1, <3>2
    <3> QED BY <2>1, <3>3 DEF sweep_timers, IInv, DiskCurrent
  <2>2. CASE T \cup X # {}
    BY <2>2 DEF sweep_timers, persist
  <2> QED BY <2>1, <2>2
<1> HIDE DEF S
<1> QED BY <1>1, <1>2, <1>3, <1>6, <1>7, <1>8, TaskMoves, Zenon

\* Expiry of a ready task in schedule_ready_tasks keeps the invariant.
LEMMA InvExpire ==
  ASSUME IInv, TypeOK', NEW t \in Task, expire_ready(t)
  PROVE  IInv' /\ SoundStep
<1>0. TypeOK /\ state \in [Task -> RestState]
  BY DEF IInv, TypeOK
<1>1. /\ state[t] = "Ready" /\ pc = "schedule"
      /\ \A u \in todo : state[u] = "Ready"
      /\ todo' = todo \ {t} /\ pc' = IF todo = {t} THEN "idle" ELSE "schedule"
  BY Zenon DEF expire_ready, next_ready, IInv, TodoReady
<1>2. \A u \in Task : state'[u] = IF u = t THEN "Expired" ELSE state[u]
  BY <1>0, <1>1 DEF expire_ready, set_state, After, is_legal
<1>3. TodoReady'
  BY <1>0, <1>1, <1>2 DEF TodoReady, TypeOK
<1>4. /\ UNCHANGED <<attempts, next_attempt, told, epoch, clientVars>>
      /\ held' \subseteq held \ {task_reservation[u] : u \in {}}
      /\ disk' = Saved(epoch, state', attempts)
  BY Zenon DEF expire_ready, next_ready, persist
<1>5. task_reservation' = [u \in Task |-> IF u \in {} THEN 0 ELSE task_reservation[u]]
  BY <1>0 DEF expire_ready, TypeOK
<1>6. \A u \in Task :
        /\ state[u] \in FinalState => state'[u] = state[u]
        /\ state'[u] \notin Ungated => state[u] \notin Ungated
        /\ state'[u] = "Succeeded" => state[u] = "Succeeded"
        /\ u \notin {} /\ state[u] \in InFlight => state'[u] \in InFlight
  BY <1>1, <1>2 DEF FinalState, Ungated, InFlight
<1>7. {} \in SUBSET Task
  OBVIOUS
<1> QED BY <1>3, <1>4, <1>5, <1>6, <1>7, TaskMoves, Zenon

\* A ready task that cannot be placed leaves the invariant intact.
LEMMA InvLeave ==
  ASSUME IInv, TypeOK', NEW t \in Task, leave_ready(t)
  PROVE  IInv' /\ SoundStep
<1>1. /\ UNCHANGED <<taskVars, clientVars, told, epoch, disk>>
      /\ pc = "schedule" /\ todo' = todo \ {t}
      /\ pc' = IF todo = {t} THEN "idle" ELSE "schedule"
  BY DEF leave_ready, next_ready
<1>2. /\ SoundStep /\ NoLeakedReservation' /\ DiskCurrent'
      /\ NoStaleAuthority' /\ FreshIds'
  BY <1>1, QuietStep DEF taskVars
<1>3. CommitReported' /\ CancelKept' /\ TodoReady'
  BY <1>1 DEF IInv, CommitReported, CancelKept, TodoReady, taskVars, clientVars
<1> QED BY <1>2, <1>3, Assemble

\* The new attempt has an id that no reservation, report or commit mentions.
LEMMA InvDispatch ==
  ASSUME IInv, TypeOK', NEW t \in Task, NEW n \in Node, dispatch(t, n)
  PROVE  IInv' /\ SoundStep
<1>0. TypeOK /\ state \in [Task -> RestState]
  BY DEF IInv, TypeOK
<1> DEFINE a == next_attempt
<1>1. /\ state[t] = "Ready" /\ pc = "schedule" /\ t \in todo
      /\ \A u \in todo : state[u] = "Ready"
      /\ todo' = todo \ {t} /\ pc' = IF todo = {t} THEN "idle" ELSE "schedule"
      /\ UNCHANGED <<clientVars, epoch>>
  BY Zenon DEF dispatch, next_ready, IInv, TodoReady
<1>2. \A u \in Task : state'[u] = IF u = t THEN "Dispatching" ELSE state[u]
  BY <1>0, <1>1, DispatchState
<1>3. /\ a \in AttemptId /\ attempts'[a].task = t /\ attempts'[a].epoch = epoch
      /\ attempts'[a].state = "Dispatched" /\ attempts'[a].committed = FALSE
      /\ \A b \in AttemptId \ {a} : attempts'[b] = attempts[b]
  BY <1>0, DispatchAttempt, Zenon
<1>4. /\ next_attempt' = a + 1 /\ held' = held \cup {a}
      /\ task_reservation' = [task_reservation EXCEPT ![t] = a]
      /\ disk' = Saved(epoch, state', attempts')
      /\ \A b \in AttemptId \ {a} : told'[b] = told[b]
  BY <1>0, Zenon DEF dispatch, persist, TypeOK
<1>5. attempts[a] = NoAttempt /\ ~attempts[a].committed /\ attempts[a].state = "None"
  <2>1. a \in AttemptId
    BY <1>3
  <2>2. a >= a
    BY <2>1 DEF AttemptId
  <2>3. attempts[a] = NoAttempt
    BY <2>1, <2>2 DEF IInv, FreshIds
  <2>4. NoAttempt.state = "None" /\ NoAttempt.committed = FALSE
    BY DEF NoAttempt
  <2> QED BY <2>3, <2>4
<1>6. SoundStep
  BY <1>1, <1>2, <1>3, <1>5, Zenon DEF SoundStep, FinalState, Ungated
<1>7. NoLeakedReservation'
  <2> SUFFICES ASSUME NEW b \in held'
               PROVE  /\ attempts'[b].state # "None"
                      /\ task_reservation'[attempts'[b].task] = b
                      /\ state'[attempts'[b].task] \in InFlight
    BY DEF NoLeakedReservation, InFlight
  <2>1. CASE b = a
    BY <1>0, <1>2, <1>3, <1>4, <2>1, Zenon DEF TypeOK, InFlight
  <2>2. CASE b # a
    <3> DEFINE u == attempts[b].task
    <3>1. b \in held /\ b \in AttemptId /\ attempts'[b] = attempts[b]
      BY <1>0, <1>3, <1>4, <2>2, Zenon DEF TypeOK
    <3>2. /\ attempts[b].state # "None" /\ task_reservation[u] = b
          /\ state[u] \in InFlight
      BY <3>1, Zenon DEF IInv, NoLeakedReservation, InFlight
    <3>3. u \in Task /\ u # t
      BY <1>0, <1>1, <3>1, <3>2, KnownAttempt, Zenon DEF TypeOK, ExecutionAttempt, InFlight
    <3> QED BY <1>0, <1>2, <1>4, <3>1, <3>2, <3>3, Zenon DEF TypeOK
  <2> QED BY <2>1, <2>2
<1>8. DiskCurrent'
  BY <1>1, <1>4, Zenon DEF DiskCurrent
<1>9. NoStaleAuthority'
  BY <1>1, <1>3, Zenon DEF IInv, NoStaleAuthority
<1>10. FreshIds'
  <2> SUFFICES ASSUME NEW b \in AttemptId, b >= a + 1
               PROVE  attempts'[b] = NoAttempt
    BY <1>4 DEF FreshIds
  <2>1. a \in AttemptId
    BY <1>3
  <2>2. b # a /\ b >= a
    BY <2>1 DEF AttemptId
  <2>3. attempts'[b] = attempts[b]
    BY <1>3, <2>2
  <2> QED BY <2>2, <2>3 DEF IInv, FreshIds
<1>11. CommitReported'
  BY <1>3, <1>4 DEF IInv, CommitReported
<1>12. TodoReady'
  BY <1>0, <1>1, <1>2 DEF TodoReady, TypeOK
<1>13. CancelKept'
  <2>1. cancel_requested' = cancel_requested /\ cancel_acked' = cancel_acked
    BY <1>1 DEF clientVars
  <2> QED BY <1>0, <1>1, <1>2, <2>1, Zenon DEF IInv, CancelKept, TypeOK
<1> QED BY <1>6, <1>7, <1>8, <1>9, <1>10, <1>11, <1>12, <1>13, Assemble

\* Every step of sweep() keeps the invariant.
LEMMA InvSweep ==
  ASSUME IInv, sweep_step
  PROVE  IInv' /\ SoundStep
<1>1. TypeOK'
  BY TypeSweep DEF IInv
<1> QED BY <1>1, InvLoss, InvTimers, InvExpire, InvLeave, InvDispatch
        DEF sweep_step, schedule_ready_task

-----------------------------------------------------------------------------
(* Restart, and the theorems.                                              *)

\* The store holds every task state and every committed attempt, so recovery
\* starts from the state the process had, less its uncommitted attempts.
LEMMA InvStart ==
  ASSUME IInv, start
  PROVE  IInv' /\ SoundStep
<1>0. TypeOK /\ TypeOK' /\ state \in [Task -> RestState] /\ epoch \in Nat \ {0}
  BY TypeStart, Zenon DEF IInv, TypeOK
<1>1. /\ disk.state = state /\ disk.epoch = epoch
      /\ disk.attempts = [a \in AttemptId |-> IF attempts[a].committed
                                              THEN attempts[a] ELSE NoAttempt]
  BY DEF IInv, DiskCurrent, Saved
<1>2. /\ epoch' = epoch + 1 /\ state' = recovered(state) /\ attempts' = disk.attempts
      /\ disk' = Saved(epoch', state', attempts') /\ held' = {} /\ todo' = {}
      /\ UNCHANGED <<next_attempt, told>>
  BY <1>1 DEF start
<1>3. \A a \in AttemptId :
        attempts'[a] = IF attempts[a].committed THEN attempts[a] ELSE NoAttempt
  BY <1>1, <1>2
<1>4. NoAttempt.state = "None" /\ NoAttempt.committed = FALSE
  BY DEF NoAttempt
<1>5. SoundStep
  <2>1. \A t \in Task : state'[t] \in {state[t], AfterLoss(t, state[t])}
    BY <1>2 DEF recovered
  <2>2. \A t \in Task :
          /\ state[t] \in FinalState => state'[t] = state[t]
          /\ state'[t] \notin Ungated => state[t] \notin Ungated
          /\ state'[t] = "Succeeded" => state[t] = "Succeeded"
    <3> TAKE t \in Task
    <3>1. state[t] \in RestState
      BY <1>0
    <3>2. /\ state[t] \in FinalState => AfterLoss(t, state[t]) = state[t]
          /\ state[t] \in Ungated => AfterLoss(t, state[t]) = state[t]
          /\ AfterLoss(t, state[t]) = "Succeeded" => state[t] = "Succeeded"
      BY <3>1, AfterLossFacts
    <3>3. state'[t] \in {state[t], AfterLoss(t, state[t])}
      BY <2>1
    <3> QED BY <3>2, <3>3
  <2> QED BY <1>3, <2>2 DEF SoundStep
<1>6. NoLeakedReservation' /\ DiskCurrent' /\ TodoReady'
  BY <1>2 DEF NoLeakedReservation, DiskCurrent, TodoReady
<1>7. NoStaleAuthority'
  <2> SUFFICES ASSUME NEW a \in AttemptId
               PROVE  attempts'[a].state = "None" \/ attempts'[a].committed
    BY DEF NoStaleAuthority
  <2> QED BY <1>3, <1>4
<1>8. FreshIds' /\ CommitReported'
  BY <1>2, <1>3, <1>4 DEF IInv, FreshIds, CommitReported
<1>9. CancelKept'
  BY <1>0, <1>2 DEF CancelKept
<1> QED BY <1>0, <1>5, <1>6, <1>7, <1>8, <1>9, Assemble

\* A step that changes nothing keeps the invariant.
LEMMA InvStutter ==
  ASSUME IInv, UNCHANGED vars
  PROVE  IInv' /\ SoundStep
<1>1. TypeOK'
  BY TypeStutter DEF IInv
<1>2. /\ SoundStep /\ NoLeakedReservation' /\ DiskCurrent'
      /\ NoStaleAuthority' /\ FreshIds'
  BY QuietStep DEF vars, taskVars
<1>3. CommitReported' /\ CancelKept' /\ TodoReady'
  BY DEF IInv, CommitReported, CancelKept, TodoReady, vars, taskVars, clientVars,
         sweepVars
<1> QED BY <1>1, <1>2, <1>3, Assemble

\* Every step of the coordinator keeps the invariant.
LEMMA InvStep ==
  ASSUME IInv, [Next]_vars
  PROVE  IInv' /\ SoundStep
BY InvClient, InvReport, InvNode, InvSweep, InvStart, InvStutter DEF Next

\* The inductive invariant holds in every reachable state of the core.
THEOREM Safety == Spec => []IInv
<1>1. IInv /\ [Next]_vars => IInv'
  BY InvStep
<1> QED BY <1>1, InitInv, PTL DEF Spec

\* schedule_ready_tasks never runs a task before its dependencies succeeded.
THEOREM GatingHolds == Spec => []DependencyGating
<1>1. IInv => DependencyGating
  BY DEF IInv
<1> QED BY <1>1, Safety, PTL

\* Only handle_attempt_complete makes a task Succeeded, with a committed attempt.
THEOREM SucceededIsCommittedHolds == Spec => []SucceededIsCommitted
<1>1. IInv => SucceededIsCommitted
  BY DEF IInv
<1> QED BY <1>1, Safety, PTL

\* Every way out of Dispatching and Running releases the task's reservation.
THEOREM NoLeak == Spec => []NoLeakedReservation
<1>1. IInv => NoLeakedReservation
  BY DEF IInv
<1> QED BY <1>1, Safety, PTL

\* Between two steps of the core the store file is up to date.
THEOREM DiskIsCurrent == Spec => []DiskCurrent
<1>1. IInv => DiskCurrent
  BY DEF IInv
<1> QED BY <1>1, Safety, PTL

\* A restart leaves no uncommitted attempt of an earlier epoch.
THEOREM EpochFences == Spec => []NoStaleAuthority
<1>1. IInv => NoStaleAuthority
  BY DEF IInv
<1> QED BY <1>1, Safety, PTL

\* Before a restart, an acknowledged cancellation excludes success.
THEOREM CancelHolds == Spec => []CancelHonouredUntilRestart
<1>1. IInv => CancelHonouredUntilRestart
  BY DEF IInv, CancelKept, CancelHonouredUntilRestart
<1> QED BY <1>1, Safety, PTL

\* No step, recovery included, changes a Succeeded, Cancelled or Expired task.
THEOREM SettledHolds == Spec => SettledForever
<1>1. IInv /\ [Next]_vars =>
        [\A t \in Task : state[t] \in {"Succeeded", "Cancelled", "Expired"}
                           => state'[t] = state[t]]_vars
  BY InvStep, Zenon DEF SoundStep, FinalState
<1> QED BY <1>1, Safety, PTL DEF Spec, SettledForever

\* No step, recovery included, changes a committed attempt.
THEOREM CommitsHold == Spec => CommitsAreDurable
<1>1. IInv /\ [Next]_vars =>
        [\A a \in AttemptId : attempts[a].committed => attempts'[a] = attempts[a]]_vars
  BY InvStep, Zenon DEF SoundStep
<1> QED BY <1>1, Safety, PTL DEF Spec, CommitsAreDurable

-----------------------------------------------------------------------------
(* The coordinator implements TaskService.                                 *)

\* TaskService has the same states of a task at rest.
LEMMA SameRest == Service!RestState = RestState
BY DEF RestState, Service!RestState, GraphState, Service!GraphState, TaskState, Service!TaskState

\* Where a report other than success takes a task, TaskService lets it go.
LEMMA ReportMoves ==
  ASSUME NEW s \in RestState, NEW u \in Task, NEW requested \in SUBSET Task,
         NEW to \in {"Running", "Preempted", "RetryPending", "Failed"}
  PROVE  After(s, to) = s \/ After(s, to) \in Service!Moves(s, u \in requested)
<1>1. CASE ~is_legal(s, to)
  BY <1>1 DEF After
<1>2. CASE is_legal(s, to)
  <2>1. s = to \/ <<s, to>> \in {<<"Dispatching", "Running">>,
          <<"Dispatching", "Preempted">>, <<"Running", "Preempted">>,
          <<"Running", "RetryPending">>, <<"Failed", "RetryPending">>,
          <<"Preempted", "RetryPending">>, <<"Running", "Failed">>, <<"Preempted", "Failed">>}
    BY <1>2 DEF is_legal, RestState
  <2>2. After(s, to) \in {s, to}
    BY DEF After
  <2> QED BY <2>1, <2>2 DEF Service!Moves
<1> QED BY <1>1, <1>2

\* So it does where the loss of a node or a restart takes it.
LEMMA LossMoves ==
  ASSUME NEW t \in Task, NEW s \in RestState, NEW requested \in SUBSET Task
  PROVE  AfterLoss(t, s) = s \/ AfterLoss(t, s) \in Service!Moves(s, t \in requested)
<1> DEFINE x == IF retry_on_loss(t) THEN "RetryPending" ELSE "Failed"
<1>1. CASE s \in InFlight
  <2>1. AfterLoss(t, s) \in {"RetryPending", "Failed"}
    BY <1>1, AfterLossFacts
  <2> QED BY <1>1, <2>1 DEF InFlight, Service!Moves
<1>2. CASE s \notin InFlight
  <2>1. After(s, "Lost") = s
    BY <1>2 DEF After, is_legal, InFlight, RestState, GraphState, TaskState
  <2>2. AfterLoss(t, s) = After(s, x)
    BY <2>1 DEF AfterLoss
  <2> QED BY <2>2, ReportMoves
<1> QED BY <1>1, <1>2

\* A step that moves each task as TaskService lets it go is a step of its.
LEMMA ServesMoves ==
  ASSUME TypeOK', SoundStep, UNCHANGED cancel_requested,
         \A t \in Task : \/ state'[t] = state[t]
                         \/ state'[t] \in Service!Moves(state[t], t \in cancel_requested)
  PROVE  Service!Execute
<1>1. state' \in [Task -> Service!RestState]
  BY SameRest DEF TypeOK
<1>2. ASSUME NEW t \in Task, state[t] = "Blocked", state'[t] = "Ready"
      PROVE  \A d \in [u \in Task |-> Deps(u)][t] : state'[d] = "Succeeded"
  <2>1. dependencies_satisfied(state', t)
    BY <1>2 DEF SoundStep, Ungated
  <2> QED BY <2>1 DEF dependencies_satisfied
<1> QED BY <1>1, <1>2, Zenon DEF Service!Execute

\* The client commands are those of TaskService.
LEMMA ServesClient ==
  ASSUME IInv, client_step
  PROVE  [Service!Next]_(Service!vars)
<1>0. TypeOK /\ state \in [Task -> RestState]
  BY DEF IInv, TypeOK
<1>1. ASSUME NEW t \in Task, handle_task_submit(t) PROVE Service!Submit(t)
  <2>1. state' = [state EXCEPT ![t] = initial_state(t)] /\ UNCHANGED cancel_requested
    BY <1>0, <1>1, SubmitState, Zenon DEF handle_task_submit, clientVars
  <2>2. state[t] = "Absent" /\ \A d \in Deps(t) : state[d] # "Absent"
    BY <1>1 DEF handle_task_submit
  <2> QED BY <2>1, <2>2 DEF Service!Submit, initial_state
<1>2. ASSUME NEW t \in Task, handle_task_cancel(t) PROVE Service!Cancel(t)
  <2>1. state[t] # "Absent" /\ ~is_terminal(state[t]) /\ (cancel_running(t) \/ cancel_queued(t))
    BY <1>2 DEF handle_task_cancel
  <2>2. CASE cancel_running(t)
    BY <2>2 DEF cancel_running, Service!Cancel, taskVars
  <2>3. CASE cancel_queued(t)
    <3>1. /\ state[t] # "Running" /\ state' = set_state(state, t, "Cancelled")
          /\ cancel_requested' = cancel_requested \ {t}
      BY <2>3 DEF cancel_queued
    <3>2. state[t] \in {"Blocked", "Ready", "Dispatching", "RetryPending"}
      BY <1>0, <2>1, <3>1 DEF RestState, GraphState, TaskState, is_terminal
    <3>3. After(state[t], "Cancelled") = "Cancelled"
      BY <3>2 DEF After, is_legal
    <3>4. state' = [state EXCEPT ![t] = "Cancelled"]
      BY <3>1, <3>3, Zenon DEF set_state
    <3> QED BY <2>1, <3>1, <3>4 DEF Service!Cancel, is_terminal, Service!is_terminal
  <2> QED BY <2>1, <2>2, <2>3
<1>3. CASE \E n \in DrainNode, drain \in BOOLEAN : handle_node_drain(n, drain)
  BY <1>3 DEF handle_node_drain, taskVars, Service!vars
<1> QED BY <1>1, <1>2, <1>3, Zenon DEF client_step, Service!Next

\* A report moves tasks as TaskService lets them go: the flag that a client set
\* keeps handle_attempt_complete from committing.
LEMMA ServesReport ==
  ASSUME IInv, report_step
  PROVE  [Service!Next]_(Service!vars)
<1>0. TypeOK /\ TypeOK' /\ SoundStep /\ state \in [Task -> RestState]
  BY InvReport, Zenon DEF IInv, TypeOK
<1> PICK a \in AttemptId : Effect(a) \/ handle_reservation_release(a)
  BY <1>0, ReportCases
<1> DEFINE t == attempts[a].task
           Along == \A u \in Task :
                      \/ state'[u] = state[u]
                      \/ state'[u] \in Service!Moves(state[u], u \in cancel_requested)
<1>1. CASE ignored \/ handle_reservation_release(a)
  BY <1>1 DEF ignored, handle_reservation_release, Service!vars
<1>2. ASSUME NEW to \in {"Running", "Preempted", "RetryPending", "Failed"}, known(a),
             state' = set_state(state, t, to)
      PROVE  Along
  <2>1. t \in Task
    BY <1>0, <1>2, KnownAttempt, Zenon DEF known, ExecutionAttempt, TypeOK
  <2>2. \A u \in Task : state'[u] = IF u = t THEN After(state[u], to) ELSE state[u]
    BY <1>0, <1>2, <2>1 DEF set_state
  <2>3. \A u \in Task : \/ After(state[u], to) = state[u]
                        \/ After(state[u], to) \in Service!Moves(state[u], u \in cancel_requested)
    <3> TAKE u \in Task
    <3>1. state[u] \in RestState /\ cancel_requested \in SUBSET Task
      BY <1>0 DEF TypeOK
    <3> QED BY <1>2, <3>1, ReportMoves, Zenon
  <2> QED BY <2>2, <2>3
<1>3. CASE current(a) /\ apply_started(a)
  <2>1. Along /\ UNCHANGED cancel_requested
    BY <1>2, <1>3 DEF apply_started, current
  <2> QED BY <1>0, <2>1, ServesMoves DEF Service!Next
<1>4. CASE known(a) /\ apply_cancelled(a)
  <2>1. Along /\ UNCHANGED cancel_requested
    BY <1>2, <1>4 DEF apply_cancelled
  <2> QED BY <1>0, <2>1, ServesMoves DEF Service!Next
<1>5. CASE ~cancelled_by_client(a) /\ completion_valid(a) /\ commit(a)
  <2> DEFINE s == set_state(state, t, "Succeeded")
  <2>1. /\ t \in Task /\ t \notin cancel_requested /\ state[t] \in InFlight
        /\ state' = on_task_succeeded(s, t) /\ cancel_requested' = cancel_requested \ {t}
    BY <1>0, <1>5, KnownAttempt, Zenon
       DEF cancelled_by_client, completion_valid, current, known, commit, ExecutionAttempt,
           InFlight, TypeOK
  <2>2. s \in [Task -> RestState]
    BY <1>0, <2>1, SetStateType DEF RestTarget
  <2>3. s[t] = state[t] \/ (state[t] = "Running" /\ s[t] = "Succeeded")
    <3>1. s[t] = After(state[t], "Succeeded")
      BY <1>0, <2>1 DEF set_state
    <3>2. ~is_legal("Dispatching", "Succeeded")
      BY DEF is_legal
    <3>3. state[t] = "Dispatching" \/ state[t] = "Running"
      BY <2>1, Zenon DEF InFlight
    <3>4. After("Dispatching", "Succeeded") = "Dispatching"
      BY <3>2 DEF After
    <3>5. After("Running", "Succeeded") = "Succeeded"
      BY DEF After, is_legal
    <3> QED BY <3>1, <3>3, <3>4, <3>5, Zenon
  <2>4. \A u \in Task \ {t} : s[u] = state[u]
    BY <1>0, <2>1 DEF set_state
  <2> HIDE DEF s
  <2>5. \A u \in Task : state'[u] = s[u] \/ (s[u] = "Blocked" /\ state'[u] = "Ready")
    <3> TAKE u \in Task
    <3>1. s \in [Task -> RestState] /\ t \in Task
      BY <2>1, <2>2
    <3>2. \/ on_task_succeeded(s, t)[u] = s[u]
          \/ /\ s[u] = "Blocked" /\ dependencies_satisfied(s, u)
             /\ on_task_succeeded(s, t)[u] = "Ready"
      <4> HIDE DEF t
      <4> QED BY <3>1, OnSucceeded
    <3> QED BY <2>1, <3>2, Zenon
  <2>6. Along
    <3> SUFFICES ASSUME NEW u \in Task, state'[u] # state[u]
                 PROVE  state'[u] \in Service!Moves(state[u], u \in cancel_requested)
      OBVIOUS
    <3>1. CASE u = t
      BY <2>1, <2>3, <2>5, <3>1 DEF InFlight, Service!Moves
    <3>2. CASE u # t
      <4>1. state[u] = "Blocked" /\ state'[u] = "Ready"
        BY <2>4, <2>5, <3>2
      <4> QED BY <4>1 DEF Service!Moves
    <3> QED BY <3>1, <3>2
  <2>7. UNCHANGED cancel_requested
    BY <2>1
  <2> QED BY <1>0, <2>6, <2>7, ServesMoves DEF Service!Next
<1>6. ASSUME NEW kind \in FailureKind, current(a), apply_failed(a, kind)
      PROVE  [Service!Next]_(Service!vars)
  <2>1. Along
    <3>1. CASE state' = state
      BY <3>1
    <3>2. CASE state' # state
      BY <1>2, <1>6, <3>2 DEF apply_failed, current
    <3> QED BY <3>1, <3>2
  <2>2. UNCHANGED cancel_requested
    BY <1>6 DEF apply_failed
  <2> QED BY <1>0, <2>1, <2>2, ServesMoves DEF Service!Next
<1> QED BY <1>1, <1>3, <1>4, <1>5, <1>6, Zenon DEF Effect, current

\* The loss of a node, the timers and the scheduler move tasks that way too.
LEMMA ServesSweep ==
  ASSUME IInv, sweep_step
  PROVE  [Service!Next]_(Service!vars)
<1>0. TypeOK /\ TypeOK' /\ SoundStep /\ state \in [Task -> RestState]
  BY InvSweep, Zenon DEF IInv, TypeOK
<1> DEFINE Along == \A u \in Task :
                      \/ state'[u] = state[u]
                      \/ state'[u] \in Service!Moves(state[u], u \in cancel_requested)
<1>1. ASSUME NEW n \in Node, handle_node_loss(n) PROVE Along
  <2>1. \A u \in Task : state'[u] \in {state[u], AfterLoss(u, state[u])}
    BY <1>0, <1>1, LossState
  <2>2. \A u \in Task :
          \/ AfterLoss(u, state[u]) = state[u]
          \/ AfterLoss(u, state[u]) \in Service!Moves(state[u], u \in cancel_requested)
    <3> TAKE u \in Task
    <3>1. state[u] \in RestState /\ cancel_requested \in SUBSET Task
      BY <1>0 DEF TypeOK
    <3> QED BY <3>1, LossMoves, Zenon
  <2> QED BY <2>1, <2>2
<1>2. ASSUME NEW T \in SUBSET Task, NEW X \in SUBSET Task, sweep_timers(T, X) PROVE Along
  <2> DEFINE q == requeued(T)
  <2>1. /\ state' = expired(q, X) /\ X \subseteq deadline_timers(q)
        /\ T \subseteq dispatch_timers \cup retry_timers
    BY <1>2 DEF sweep_timers
  <2>2. \A u \in Task : /\ u \in T => state[u] \in {"Dispatching", "RetryPending"} /\ q[u] = "Ready"
                        /\ u \notin T => q[u] = state[u]
    BY <1>0, <2>1, Zenon DEF requeued, dispatch_timers, retry_timers, After, is_legal
  <2>3. \A u \in Task : /\ u \in X => /\ q[u] \in {"Ready", "Blocked", "RetryPending"}
                                      /\ state'[u] = "Expired"
                        /\ u \notin X => state'[u] = q[u]
    BY <2>1, Zenon DEF expired, deadline_timers, After, is_legal
  <2> HIDE DEF q
  <2> QED BY <2>2, <2>3 DEF Service!Moves
<1>3. ASSUME NEW t \in Task, schedule_ready_task(t) PROVE Along
  <2>1. state[t] = "Ready"
    BY <1>3, Zenon DEF schedule_ready_task, expire_ready, leave_ready, dispatch, next_ready, IInv,
                       TodoReady
  <2>2. \/ state' = state
        \/ \E to \in {"Expired", "Dispatching"} : state' = [state EXCEPT ![t] = to]
    <3>1. CASE expire_ready(t)
      <4>1. After("Ready", "Expired") = "Expired"
        BY DEF After, is_legal
      <4> QED BY <2>1, <3>1, <4>1, Zenon DEF expire_ready, set_state
    <3>2. CASE leave_ready(t)
      BY <3>2 DEF leave_ready, taskVars
    <3>3. CASE \E n \in Node : dispatch(t, n)
      BY <1>0, <2>1, <3>3, DispatchState
    <3> QED BY <1>3, <3>1, <3>2, <3>3 DEF schedule_ready_task
  <2>3. \A u \in Task : \/ state'[u] = state[u]
                        \/ state[u] = "Ready" /\ state'[u] \in {"Expired", "Dispatching"}
    BY <1>0, <2>1, <2>2
  <2> QED BY <2>3 DEF Service!Moves
<1>4. UNCHANGED cancel_requested
  BY Zenon DEF sweep_step, handle_node_loss, sweep_timers, schedule_ready_task, expire_ready,
               leave_ready, dispatch, next_ready, clientVars
<1>5. Along
  BY <1>1, <1>2, <1>3 DEF sweep_step
<1> QED BY <1>0, <1>4, <1>5, ServesMoves DEF Service!Next

\* Since the store is current, recovery starts from the states the clients saw.
LEMMA ServesStart ==
  ASSUME IInv, start
  PROVE  Service!Restart
<1>0. TypeOK' /\ state \in [Task -> RestState]
  BY InvStart DEF IInv, TypeOK
<1>1. state' = recovered(state) /\ cancel_requested' = {}
  BY Zenon DEF start, IInv, DiskCurrent, Saved
<1>2. state' \in [Task -> Service!RestState]
  BY <1>0, SameRest DEF TypeOK
<1>3. ASSUME NEW t \in Task
      PROVE  IF is_active(state[t]) THEN state'[t] \in {"RetryPending", "Failed"}
             ELSE state'[t] = state[t]
  <2>1. is_active(state[t]) => state[t] \in InFlight
    BY <1>0 DEF is_active, InFlight, RestState
  <2>2. state[t] \in InFlight => AfterLoss(t, state[t]) \in {"RetryPending", "Failed"}
    BY <1>0, AfterLossFacts
  <2> QED BY <1>1, <2>1, <2>2 DEF recovered
<1> QED BY <1>1, <1>2, <1>3 DEF Service!Restart, is_active, Service!is_active

\* Every step of the coordinator is one of TaskService, or one its clients do
\* not see.
LEMMA ServesStep ==
  ASSUME IInv, [Next]_vars
  PROVE  [Service!Next]_(Service!vars)
<1>1. CASE node_step \/ UNCHANGED vars
  BY <1>1 DEF node_step, handle_node_register, handle_node_heartbeat, stop_connection,
              handle_node_disconnect, vars, taskVars, clientVars, Service!vars
<1>2. CASE start
  BY <1>2, ServesStart DEF Service!Next
<1> QED BY <1>1, <1>2, ServesClient, ServesReport, ServesSweep DEF Next

\* The coordinator implements TaskService: nothing that nodes report, no loss of
\* one and no crash shows its clients a task that moves otherwise.
THEOREM Serves == Spec => IsService
<1>1. Init => Service!Init
  BY DEF Init, Service!Init
<1>2. IInv /\ [Next]_vars => [Service!Next]_(Service!vars)
  BY ServesStep
<1> QED BY <1>1, <1>2, Safety, PTL DEF Spec, IsService, Service!Spec

-----------------------------------------------------------------------------
(* Capacity.                                                               *)

\* A report renames no attempt's node and reserves nothing.
LEMMA ReportReserves ==
  ASSUME IInv, report_step
  PROVE  held' \subseteq held /\ \A b \in held : attempts'[b].node = attempts[b].node
<1>0. TypeOK /\ attempts \in AttemptTable
  BY DEF IInv, TypeOK
<1> PICK a \in AttemptId : Effect(a) \/ handle_reservation_release(a)
  BY <1>0, ReportCases
<1>1. CASE handle_reservation_release(a)
  BY <1>1 DEF handle_reservation_release
<1>2. CASE Effect(a)
  <2>1. held' \subseteq held
    BY <1>0, <1>2, EffectType
  <2>2. CASE attempts' = attempts
    BY <2>1, <2>2
  <2>3. CASE attempts' # attempts
    <3>1. /\ known(a)
          /\ \/ \E v \in AttemptState : attempts' = [attempts EXCEPT ![a].state = v]
             \/ attempts' = committed(a)
      BY <1>2, <2>3, Zenon DEF Effect, ignored, current, completion_valid, apply_started,
                        apply_cancelled, apply_failed, commit, AttemptState
    <3>2. attempts[a] \in ExecutionAttempt
      BY <1>0, <3>1, KnownAttempt DEF known
    <3>3. /\ \A b \in AttemptId \ {a} : attempts'[b] = attempts[b]
          /\ attempts'[a].node = attempts[a].node
      BY <1>0, <3>1, <3>2 DEF committed, AttemptTable, ExecutionAttempt
    <3> QED BY <1>0, <2>1, <3>3, Zenon DEF TypeOK
  <2> QED BY <2>2, <2>3
<1> QED BY <1>1, <1>2

\* Only a dispatch reserves.
LEMMA OnlyDispatchReserves ==
  ASSUME IInv, [Next]_vars, ~\E t \in Task, n \in Node : dispatch(t, n)
  PROVE  held' \subseteq held /\ \A b \in held' : attempts'[b].node = attempts[b].node
<1>1. CASE client_step
  BY <1>1, Zenon DEF client_step, handle_task_submit, handle_task_cancel, handle_node_drain,
              cancel_running, cancel_queued, release_task_reservation, taskVars
<1>2. CASE report_step
  BY <1>2, ReportReserves
<1>3. CASE node_step
  BY <1>3 DEF node_step, handle_node_register, handle_node_heartbeat, stop_connection,
              handle_node_disconnect, taskVars
<1>4. CASE \E n \in Node : handle_node_loss(n)
  BY <1>4 DEF handle_node_loss
<1>5. CASE \E T, X \in SUBSET Task : sweep_timers(T, X)
  BY <1>5, Zenon DEF sweep_timers, release_task_reservation
<1>6. CASE \E t \in Task : expire_ready(t) \/ leave_ready(t)
  BY <1>6 DEF expire_ready, leave_ready, taskVars
<1>7. CASE start
  BY <1>7, Zenon DEF start
<1>8. CASE UNCHANGED vars
  BY <1>8 DEF vars, taskVars
<1> QED BY <1>1, <1>2, <1>3, <1>4, <1>5, <1>6, <1>7, <1>8, Zenon
        DEF Next, sweep_step, schedule_ready_task

\* Every step keeps the reservations of a node within its slots: only dispatch adds one.
LEMMA CapacityStep ==
  ASSUME IInv, [Next]_vars, CapacityRespected
  PROVE  CapacityRespected'
<1>0. TypeOK /\ IsFiniteSet(AttemptId)
  BY ConstantsAssumption, FS_Interval DEF IInv, AttemptId
<1> SUFFICES ASSUME NEW m \in Node
             PROVE  Cardinality(reservations_on(m)') <= Capacity[m]
  BY DEF CapacityRespected
<1> DEFINE R == reservations_on(m)
<1>1. /\ IsFiniteSet(R) /\ Cardinality(R) \in Nat
      /\ Cardinality(R) <= Capacity[m] /\ Capacity[m] \in Nat
  <2>1. R \in SUBSET AttemptId
    BY <1>0 DEF reservations_on, TypeOK
  <2> QED BY <1>0, <2>1, FS_Subset, FS_CardinalityType, ConstantsAssumption
          DEF CapacityRespected
<1>2. CASE \E t \in Task, n \in Node : dispatch(t, n)
  <2> PICK t \in Task, n \in Node : dispatch(t, n)
    BY <1>2
  <2> DEFINE a == next_attempt
  <2>1. /\ attempts'[a].node = n /\ \A b \in AttemptId \ {a} : attempts'[b] = attempts[b]
        /\ a \in AttemptId
    BY <1>0, DispatchAttempt, Zenon
  <2>2. held' = held \cup {a} /\ try_reserve(n)
    BY Zenon DEF dispatch, can_dispatch
  <2>3. attempts[a] = NoAttempt
    <3>1. a \in AttemptId
      BY <2>1
    <3>2. a >= a
      BY <3>1 DEF AttemptId
    <3> QED BY <3>1, <3>2 DEF IInv, FreshIds
  <2>4. a \notin held
    <3>1. NoAttempt.state = "None"
      BY DEF NoAttempt
    <3> QED BY <2>3, <3>1 DEF IInv, NoLeakedReservation
  <2>5. R' = IF m = n THEN R \cup {a} ELSE R
    <3>1. held \subseteq AttemptId
      BY <1>0 DEF TypeOK
    <3>2. \A b \in held : attempts'[b].node = attempts[b].node
      BY <2>1, <2>4, <3>1
    <3> QED BY <2>1, <2>2, <3>2 DEF reservations_on
  <2>6. Cardinality(R \cup {a}) = Cardinality(R) + 1
    BY <1>1, <2>4, FS_AddElement, Zenon DEF reservations_on
  <2>7. m = n => Cardinality(R) + 1 <= Capacity[m]
    BY <2>2, Zenon DEF try_reserve
  <2> QED BY <1>1, <2>5, <2>6, <2>7
<1>3. CASE ~\E t \in Task, n \in Node : dispatch(t, n)
  <2>1. R' \in SUBSET R
    BY <1>3, OnlyDispatchReserves, Zenon DEF reservations_on
  <2>2. Cardinality(R') <= Cardinality(R) /\ Cardinality(R') \in Nat
    BY <1>1, <2>1, FS_Subset, FS_CardinalityType
  <2> QED BY <1>1, <2>2
<1> QED BY <1>2, <1>3

\* ReservationRegistry never overcommits a node, for any capacity and any
\* number of tasks and nodes.
THEOREM CapacityHolds == Spec => []CapacityRespected
<1>1. Init => CapacityRespected
  <2>1. Init => \A n \in Node : reservations_on(n) = {}
    BY DEF Init, reservations_on
  <2>2. Cardinality({}) = 0
    BY FS_EmptySet
  <2>3. \A n \in Node : 0 <= Capacity[n]
    BY ConstantsAssumption
  <2> QED BY <2>1, <2>2, <2>3 DEF CapacityRespected
<1> QED BY <1>1, Safety, CapacityStep, PTL DEF Spec
====
