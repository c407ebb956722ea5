---------------------------- MODULE TaskService ----------------------------
(***************************************************************************)
(* The coordinator's tasks as its clients see them, without the nodes, the *)
(* attempts and the store below: the states a task moves through by itself *)
(* and at a client's request.  Coordinator implements this specification   *)
(* and ClientRequests is built on it.                                      *)
(***************************************************************************)
EXTENDS TaskLifecycle

CONSTANTS
  Task,
  Dependencies   \* of each task: what has to succeed before it may run

VARIABLES
  state,             \* [Task -> RestState]
  cancel_requested   \* the tasks that are to stop when they next report

vars == <<state, cancel_requested>>

Init == state = [t \in Task |-> "Absent"] /\ cancel_requested = {}

-----------------------------------------------------------------------------
(* At a client's request.                                                  *)

Submit(t) ==
  /\ state[t] = "Absent" /\ \A d \in Dependencies[t]: state[d] # "Absent"
  /\ state' = [state EXCEPT ![t] = IF Dependencies[t] = {} THEN "Ready" ELSE "Blocked"]
  /\ UNCHANGED cancel_requested

\* A running task is only asked to stop; any other that has not ended is
\* cancelled, once.
Cancel(t) ==
  \/ /\ state[t] = "Running"
     /\ cancel_requested' = cancel_requested \union {t}
     /\ UNCHANGED state
  \/ /\ state[t] \notin {"Absent", "Running"} /\ ~is_terminal(state[t])
     /\ state' = [state EXCEPT ![t] = "Cancelled"]
     /\ cancel_requested' = cancel_requested \ {t}

-----------------------------------------------------------------------------
(* By itself.                                                              *)

\* Where the reports of nodes, their loss and the timers take a task.  One
\* that was asked to stop does not succeed; one that has Failed or was
\* Preempted is revived by the failure or the loss of another of its attempts.
Moves(from, requested) ==
  CASE from = "Blocked" -> {"Ready", "Expired"}
    [] from = "Ready" -> {"Dispatching", "Expired"}
    [] from = "Dispatching" -> {"Running", "Ready", "Expired", "Preempted", "RetryPending", "Failed"}
    [] from = "Running" -> {"Preempted", "RetryPending", "Failed"}
                             \union (IF requested THEN {} ELSE {"Succeeded"})
    [] from = "Failed" -> {"RetryPending"}
    [] from = "Preempted" -> {"RetryPending", "Failed"}
    [] from = "RetryPending" -> {"Ready", "Expired"}
    [] OTHER -> {}

\* A task leaves Blocked to run only when all it depends on has succeeded.
Execute ==
  /\ state' \in [Task -> RestState]
  /\ \A t \in Task: state'[t] # state[t] =>
       /\ state'[t] \in Moves(state[t], t \in cancel_requested)
       /\ state[t] = "Blocked" /\ state'[t] = "Ready" =>
            \A d \in Dependencies[t]: state'[d] = "Succeeded"
  /\ UNCHANGED cancel_requested

\* The coordinator dies and starts again: tasks at work are retried or have
\* failed, and the requests to stop are forgotten.
Restart ==
  /\ state' \in [Task -> RestState]
  /\ \A t \in Task: IF is_active(state[t]) THEN state'[t] \in {"RetryPending", "Failed"}
                    ELSE state'[t] = state[t]
  /\ cancel_requested' = {}

Next == (\E t \in Task: Submit(t) \/ Cancel(t)) \/ Execute \/ Restart

Spec == Init /\ [][Next]_vars
=============================================================================
