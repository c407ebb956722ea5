--------------------------- MODULE MCConnections ---------------------------
(* Instances of Connections for TLC.                                       *)
EXTENDS Connections, TLC

CONSTANTS c1, c2, k1, a1, a2

\* Each connection is another node.
OwnId == c1 :> a1 @@ c2 :> a2
\* Two connections of one node.
SameId == [c \in NodeConn |-> a1]

\* A connection that came and went before the behaviour begins.
Past ==
  [Fresh EXCEPT !.reader = "done", !.writer = "done", !.stop = TRUE,
                !.reader_handle = "joined", !.writer_handle = "joined",
                !.registered = TRUE, !.retirement_queued = TRUE]

\* Bound of the fair run: one new connection, of either side.  The core sends
\* on its own account to nodes only.
StartsWith(c) ==
  /\ conn = [d \in Conn |-> IF d = c THEN Fresh ELSE Past]
  /\ acceptor = [s \in Side |-> [pc |-> "accept", conn |-> None]]
  /\ all_conns = {} /\ retired = [s \in Side |-> <<>>]
  /\ reaper = [pc |-> "wait", conn |-> None]
  /\ core = [pc |-> "loop", waiting |-> <<>>, draining |-> {}, late |-> FALSE,
             sends |-> IF c \in NodeConn THEN CoreSends ELSE 0]
  /\ core_queue = <<>>
  /\ node_conns = [n \in NodeId |-> None] /\ client_conns = {}
  /\ stopping = FALSE /\ main = [pc |-> "run", todo |-> {}, held |-> {}]

OneAtATime == (\E c \in Conn: StartsWith(c)) /\ [][Next]_vars /\ Fairness

\* Search bound for a counterexample at shutdown: nothing fails before the
\* drain, peers send what they have to, and one side is accepted at a time.
QuietUntilDrain ==
  /\ ~stopping /\ core.pc \in {"loop", "drain"}
  /\ Len(core_queue) <= 1
  /\ core.pc = "loop" =>
       /\ \A c \in Conn: ~conn[c].stop /\ conn[c].command # "report"
                        /\ conn[c].reader \notin {"end", "refuse"}
       /\ \A c \in NodeConn: conn[c].command # "shutdown"
       /\ \A c \in ClientConn: conn[c].command # "request"
       /\ acceptor["client"].pc # "accept" \/ client_conns # {} => \A n \in NodeId: node_conns[n] # None
  /\ core.pc = "drain" => \A c \in ClientConn: conn[c].reader = "loop"
====
