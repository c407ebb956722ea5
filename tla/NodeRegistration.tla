-------------------------- MODULE NodeRegistration --------------------------
(***************************************************************************)
(* How a node and the coordinator come to agree on a session: start() and  *)
(* try_register of src/src/node/node_runtime.cpp on one side, the readers  *)
(* of the connections and handle_node_register and handle_node_disconnect  *)
(* of src/src/coordinator/coordinator.cpp on the other.                    *)
(*                                                                         *)
(* Every try uses a connection of its own.  A try that times out is        *)
(* abandoned while its registration may still be in the transport, in a    *)
(* reader or in the core queue, and readers push in no particular order.   *)
(***************************************************************************)
EXTENDS Naturals, Sequences

CONSTANT Tries   \* bound: how many tries fit before total_deadline

ASSUME TriesAssumption == Tries \in Nat \ {0}

Conn == 1 .. Tries

VARIABLES
  node,        \* [pc, conn, session]: the thread in start(), then the runtime
  up,          \* [Conn -> Seq]: frames to the coordinator
  down,        \* [Conn -> Seq]: the sessions of acks to the node
  open,        \* [Conn -> BOOLEAN]: neither side has closed the connection
  reader,      \* [Conn -> where its reader is]
  core_queue,  \* core_queue_: commands of readers
  nodes,       \* [connected, session]: the NodeRecord, session 0 for none
  node_conns   \* the node's entry of node_conns_, 0 for none

coordinator == <<core_queue, nodes, node_conns>>
vars == <<node, up, down, open, reader, coordinator>>

Close(C) == open' = [c \in Conn |-> c \notin C /\ open[c]]

-----------------------------------------------------------------------------
(* The node.                                                               *)

Node(pc) == node' = [node EXCEPT !.pc = pc]

\* A connection for this try; one that is refused is one lost at once.
Connect ==
  /\ node.pc = "connect" /\ node.conn < Tries
  /\ node' = [node EXCEPT !.pc = "hello", !.conn = @ + 1]
  /\ open' = [open EXCEPT ![node.conn + 1] = TRUE]
  /\ reader' = [reader EXCEPT ![node.conn + 1] = "hello"]
  /\ UNCHANGED <<up, down, coordinator>>

\* try_register sends the Hello, then the registration.
SendHello ==
  /\ node.pc = "hello" /\ open[node.conn] /\ Node("register")
  /\ up' = [up EXCEPT ![node.conn] = Append(@, "hello")]
  /\ UNCHANGED <<down, open, reader, coordinator>>

SendRegister ==
  /\ node.pc = "register" /\ open[node.conn] /\ Node("ack")
  /\ up' = [up EXCEPT ![node.conn] = Append(@, "register")]
  /\ UNCHANGED <<down, open, reader, coordinator>>

\* Mutant: the channel of an abandoned try is read as well.
ReadAck_late ==
  /\ node.pc = "ack"
  /\ \E c \in 1 .. node.conn:
       /\ down[c] # << >>
       /\ node' = [node EXCEPT !.pc = "running", !.session = Head(down[c])]
       /\ down' = [down EXCEPT ![c] = Tail(@)]
  /\ UNCHANGED <<up, open, reader, coordinator>>

\* The ack of this try's connection carries the session.
ReadAck ==
  /\ node.pc = "ack" /\ down[node.conn] # << >>
  /\ node' = [node EXCEPT !.pc = "running", !.session = Head(down[node.conn])]
  /\ down' = [down EXCEPT ![node.conn] = Tail(@)]
  /\ UNCHANGED <<up, open, reader, coordinator>>

\* A failed send or receive, or the deadline of the try:
\* the channel is closed and reset, and the next try begins.
TryFails ==
  /\ node.pc \in {"hello", "register", "ack"} /\ Node("connect") /\ Close({node.conn})
  /\ UNCHANGED <<up, down, reader, coordinator>>

\* total_deadline has passed: start() returns the last error.
start_fails ==
  /\ node.pc = "connect" /\ Node("ended")
  /\ UNCHANGED <<up, down, open, reader, coordinator>>

\* A runtime ends when it is stopped or its connection is closed.
RuntimeEnds ==
  /\ node.pc = "running" /\ Node("ended") /\ Close({node.conn})
  /\ UNCHANGED <<up, down, reader, coordinator>>

-----------------------------------------------------------------------------
(* The coordinator.                                                        *)

Push(kind, c) == core_queue' = Append(core_queue, [kind |-> kind, conn |-> c])

\* node_reader: the Hello, the registration, and the end of the connection,
\* which is reported only if a registration was read
ReadHello(c) ==
  /\ reader[c] = "hello" /\ up[c] # << >>
  /\ reader' = [reader EXCEPT ![c] = "read"] /\ up' = [up EXCEPT ![c] = Tail(@)]
  /\ UNCHANGED <<node, down, open, coordinator>>

ReadRegister(c) ==
  /\ reader[c] = "read" /\ up[c] # << >>
  /\ reader' = [reader EXCEPT ![c] = "push"] /\ up' = [up EXCEPT ![c] = Tail(@)]
  /\ UNCHANGED <<node, down, open, coordinator>>

PushRegister(c) ==
  /\ reader[c] = "push" /\ reader' = [reader EXCEPT ![c] = "registered"]
  /\ Push("register", c)
  /\ UNCHANGED <<node, up, down, open, nodes, node_conns>>

\* The core queue was full for kQueuePushTimeoutMs.
PushTimesOut(c) ==
  /\ reader[c] = "push" /\ reader' = [reader EXCEPT ![c] = "report"] /\ Close({c})
  /\ UNCHANGED <<node, up, down, coordinator>>

\* A closed connection is seen once what it delivered has been read, or
\* before if the coordinator closed it.
ReaderEnds(c) ==
  /\ reader[c] \in {"hello", "read", "registered"} /\ ~open[c]
  /\ reader' = [reader EXCEPT ![c] = IF @ = "registered" THEN "report" ELSE "done"]
  /\ UNCHANGED <<node, up, down, open, coordinator>>

PushDisconnected(c) ==
  /\ reader[c] = "report" /\ reader' = [reader EXCEPT ![c] = "done"]
  /\ Push("disconnected", c)
  /\ UNCHANGED <<node, up, down, open, nodes, node_conns>>

IsNext(kind, c) == core_queue # << >> /\ Head(core_queue) = [kind |-> kind, conn |-> c]

\* conn->stop: set by the reader once it ends, and by the core
Stopped(c) == reader[c] \in {"report", "done"}

\* A registration makes a new session and stops the connection before it; a
\* stopped connection's registration is dropped.
handle_node_register(c) ==
  /\ IsNext("register", c) /\ core_queue' = Tail(core_queue)
  /\ IF Stopped(c) THEN UNCHANGED <<nodes, node_conns, down, open>>
     ELSE /\ nodes' = [connected |-> TRUE, session |-> nodes.session + 1]
          /\ node_conns' = c
          /\ Close({node_conns} \ {c})
          /\ down' = [down EXCEPT ![c] = Append(@, nodes'.session)]
  /\ UNCHANGED <<node, up, reader>>

\* Mutant: the end of any connection of the node disconnects it.
handle_node_disconnect_any(c) ==
  /\ IsNext("disconnected", c) /\ core_queue' = Tail(core_queue)
  /\ node_conns' = 0 /\ nodes' = [nodes EXCEPT !.connected = FALSE]
  /\ UNCHANGED <<node, up, down, open, reader>>

\* Only the end of the current connection counts.
handle_node_disconnect(c) ==
  /\ IsNext("disconnected", c) /\ core_queue' = Tail(core_queue)
  /\ IF node_conns # c THEN UNCHANGED <<nodes, node_conns>>
     ELSE node_conns' = 0 /\ nodes' = [nodes EXCEPT !.connected = FALSE]
  /\ UNCHANGED <<node, up, down, open, reader>>

\* The network loses a connection; both ends notice.
ConnectionLost(c) ==
  /\ open[c] /\ Close({c})
  /\ UNCHANGED <<node, up, down, reader, coordinator>>

-----------------------------------------------------------------------------
Init ==
  /\ node = [pc |-> "connect", conn |-> 0, session |-> 0]
  /\ up = [c \in Conn |-> << >>] /\ down = [c \in Conn |-> << >>]
  /\ open = [c \in Conn |-> FALSE] /\ reader = [c \in Conn |-> "none"]
  /\ core_queue = << >> /\ nodes = [connected |-> FALSE, session |-> 0] /\ node_conns = 0

NodeStep ==
  \/ Connect \/ SendHello \/ SendRegister \/ ReadAck \/ start_fails
  \/ node.pc \in {"hello", "register", "ack"} /\ ~open[node.conn] /\ TryFails
  \/ node.pc = "running" /\ ~open[node.conn] /\ RuntimeEnds

node_reader(c) ==
  ReadHello(c) \/ ReadRegister(c) \/ PushRegister(c) \/ ReaderEnds(c) \/ PushDisconnected(c)

process == \E c \in Conn: handle_node_register(c) \/ handle_node_disconnect(c)

Next ==
  \/ NodeStep \/ TryFails \/ RuntimeEnds
  \/ \E c \in Conn: node_reader(c) \/ PushTimesOut(c) \/ ConnectionLost(c)
  \/ process

Spec == Init /\ [][Next]_vars

\* Threads run: the node's, every reader and the core.  No timeout, loss or
\* stop has to happen, except that a try does not wait for ever.
Fairness ==
  /\ WF_vars(NodeStep) /\ WF_vars(TryFails) /\ WF_vars(process)
  /\ \A c \in Conn: WF_vars(node_reader(c))

FairSpec == Spec /\ Fairness

-----------------------------------------------------------------------------
(* Properties.                                                             *)

\* A node that runs on a connection the coordinator keeps as current has the
\* session the coordinator gave that connection, whatever registrations of
\* abandoned tries arrived when: its reports will not be refused as stale.
SameSession ==
  node.pc = "running" /\ node_conns = node.conn /\ open[node.conn]
     => node.session = nodes.session

\* In the end both sides agree: the node runs on the current connection and is
\* listed as connected, or it has ended and is not.  A late registration of an
\* abandoned try may end the node, but it leaves no phantom of it.
Settles ==
  <>[](IF node.pc = "running"
       THEN nodes.connected /\ node_conns = node.conn /\ node.session = nodes.session
       ELSE node.pc = "ended" /\ ~nodes.connected)
=============================================================================
