--------------------------- MODULE MCNodeRuntime ---------------------------
(* Instances of NodeRuntime.                                               *)
EXTENDS NodeRuntime

CONSTANTS a1, a2, w1

\* Bound of the fair run: a2 has been dispatched, and fills the queue, when
\* a1 may be.
QueueFull ==
  /\ stopping = FALSE /\ channel = TRUE /\ peer = TRUE
  /\ main = "poll" /\ runner = "check" /\ hb = "wait"
  /\ reader = At("recv", None) /\ completion = At("wait", None)
  /\ worker = [w \in Worker |-> At("idle", None)]
  /\ queue = <<a2>> /\ exec_stopping = FALSE /\ comp_queue = <<>>
  /\ token = {} /\ active_tokens = {a2} /\ given = {a2}
  /\ outcome = [a \in Attempt |-> "None"] /\ wire = [a \in Attempt |-> <<>>]

QueueFullSpec == QueueFull /\ [][Next]_vars /\ Fairness

TimedOut(a) == {i \in DOMAIN wire[a]: wire[a][i].fate = "timed out"}

\* Bound on what the node does not decide: the coordinator cancels at most
\* one attempt, or one report times out, and the connection is lost, a send
\* times out or an operator interrupts only before something else stops the
\* runtime.
OneEnding ==
  LET quiet == token = {} /\ \A a \in Attempt: TimedOut(a) = {}
  IN  /\ token' # token => quiet \/ main \in {"tokens", "drain"}
      /\ (\E a \in Attempt: TimedOut(a)' # TimedOut(a)) => quiet /\ ~stopping
      /\ peer' # peer => ~stopping
      /\ main = "poll" /\ main' # main => runner = "done" \/ (peer /\ ~stopping)
=============================================================================
