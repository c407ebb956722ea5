--------------------------- MODULE TaskLifecycle ---------------------------
(***************************************************************************)
(* The task state machine of src/task/lifecycle.cpp: the states, the two   *)
(* classifications of lifecycle.h and the legal transitions.  TaskGraph    *)
(* applies a transition only when it is legal and otherwise leaves the     *)
(* state alone (src/task/dag.cpp, set_state); the coordinator ignores the  *)
(* error in most places, so "the transition is dropped" is behaviour that  *)
(* the other modules depend on.                                            *)
(***************************************************************************)

\* TaskState of lifecycle.h, plus "Absent" for an id that is not in the graph.
TaskState ==
  {"Submitted", "Blocked", "Ready", "Planning", "Reserved", "Dispatching",
   "Running", "Succeeded", "Failed", "RetryPending", "Cancelled", "Lost",
   "Preempted", "Expired"}

GraphState == TaskState \cup {"Absent"}

\* The states in which a task can be between two handlers of the coordinator.
RestState == GraphState \ {"Submitted", "Planning", "Reserved", "Lost"}

is_terminal(s) ==
  s \in {"Succeeded", "Failed", "Cancelled", "Lost", "Preempted", "Expired"}

is_active(s) == s \in {"Planning", "Reserved", "Dispatching", "Running"}

is_legal(from, to) ==
  \/ from = to
  \/ from = "Submitted"    /\ to \in {"Blocked", "Ready", "Cancelled", "Expired"}
  \/ from = "Blocked"      /\ to \in {"Ready", "Cancelled", "Expired"}
  \/ from = "Ready"        /\ to \in {"Planning", "Cancelled", "Expired"}
  \/ from = "Planning"     /\ to \in {"Reserved", "Ready", "Cancelled", "Lost",
                                      "Expired"}
  \/ from = "Reserved"     /\ to \in {"Dispatching", "Ready", "Cancelled", "Lost",
                                      "Preempted", "Expired"}
  \/ from = "Dispatching"  /\ to \in {"Running", "Ready", "Lost", "Cancelled",
                                      "Preempted", "Expired"}
  \/ from = "Running"      /\ to \in {"Succeeded", "Failed", "Lost", "Preempted",
                                      "RetryPending", "Cancelled", "Expired"}
  \/ from = "Failed"       /\ to = "RetryPending"
  \/ from = "Lost"         /\ to \in {"RetryPending", "Failed"}
  \/ from = "Preempted"    /\ to \in {"RetryPending", "Ready", "Failed"}
  \/ from = "RetryPending" /\ to \in {"Ready", "Cancelled", "Expired"}

\* Mutant: the state is assigned without asking is_legal.
After_unchecked(from, to) == IF from = "Absent" THEN from ELSE to

\* The state of one task after set_state(id, to): unchanged if the id is
\* unknown or the transition is illegal.
After(from, to) ==
  IF from # "Absent" /\ is_legal(from, to) THEN to ELSE from

\* TaskGraph::set_state on the map of all task states.
set_state(s, t, to) == [s EXCEPT ![t] = After(s[t], to)]
=============================================================================
