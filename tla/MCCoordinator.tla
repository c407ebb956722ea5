--------------------------- MODULE MCCoordinator ---------------------------
(* Instances of Coordinator for TLC.                                       *)
EXTENDS Coordinator, TLC

CONSTANTS t1, t2, n1, n2

\* The defaults of RetryPolicy (task.h) with a bound of two attempts.
Default ==
  [deps |-> {}, runs_on |-> Node, priority |-> 2, max_attempts |-> 2,
   retry_on_node_loss |-> TRUE, retry_on_executor_failure |-> TRUE,
   has_deadline |-> FALSE]

\* t2 needs the result of t1, is urgent, is not retried and has a deadline.
ChainSpec ==
  t1 :> Default @@
  t2 :> [Default EXCEPT !.deps = {t1}, !.priority = 1, !.max_attempts = 1,
                        !.has_deadline = TRUE]

\* Two tasks that compete for slots.
PairSpec ==
  t1 :> Default @@
  t2 :> [Default EXCEPT !.priority = 1, !.retry_on_node_loss = FALSE]

OneSpec == t1 :> Default

\* Bound of the run on slots: a second node, or a second task and drains.
TaskOrNode ==
  \/ Cardinality({n \in Node: sessions[n] > 0}) <= 1
  \/ state[t2] = "Absent" /\ drained = {}

OneSlot == [n \in Node |-> 1]

NodeSymmetry == Permutations(Node)
====
