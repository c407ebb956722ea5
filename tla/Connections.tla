---------------------------- MODULE Connections ----------------------------
(***************************************************************************)
(* The coordinator's connection threads (src/src/coordinator/              *)
(* coordinator.cpp): two acceptors, a reader and a writer per connection,  *)
(* the core thread that owns the lookup maps, the reaper that joins, and   *)
(* the thread that calls stop().  Task state is left to Coordinator; here  *)
(* a command is only what it does to connections and queues.               *)
(*                                                                         *)
(* A step is a thread's run from one lock, wait or thread operation to the *)
(* next.  stop_connection is one step: what its close() waits for is the   *)
(* subject of Socket.  A connection registers one node id, as NodeRuntime  *)
(* does.                                                                   *)
(***************************************************************************)
EXTENDS Naturals, Sequences, FiniteSets, Functions

CONSTANTS
  NodeConn, ClientConn,  \* the connections peers may open
  NodeId,                \* stable node ids
  NodeOf,                \* [NodeConn -> NodeId]: the id a connection registers
  kMaxOutboundFrames,    \* frames queued per connection
  kMaxQueue,             \* core commands above which readers wait
  PeerFrames,            \* bound: frames a peer sends after its Hello
  CoreSends,             \* bound: frames the core sends on its own account
  Interrupts,            \* whether the process may be interrupted (SIGINT)
  None

Conn == NodeConn \union ClientConn

ASSUME ConnAssumption ==
  /\ NodeOf \in [NodeConn -> NodeId]
  /\ NodeConn \intersect ClientConn = {} /\ IsFiniteSet(NodeConn)
  /\ None \notin Conn
  /\ kMaxOutboundFrames \in Nat \ {0} /\ kMaxQueue \in Nat \ {0}
  /\ PeerFrames \in Nat /\ CoreSends \in Nat /\ Interrupts \in BOOLEAN

Side == {"node", "client"}
SideOf(c) == IF c \in NodeConn THEN "node" ELSE "client"

VARIABLES
  conn,          \* [Conn -> the connection object and its two threads]
  acceptor,      \* [Side -> [pc, conn]]: the two accept loops
  all_conns,     \* all_node_conns_ and all_client_conns_
  retired,       \* [Side -> Seq(Conn)]: retired_node_conns_, retired_client_conns_
  reaper,        \* [pc, conn]
  core,          \* [pc, waiting, draining, late, sends]: the core thread
  core_queue,    \* core_queue_
  node_conns,    \* node_conns_: [NodeId -> NodeConn or None]
  client_conns,  \* client_conns_: a subset of ClientConn
  stopping,      \* stopping_
  main           \* [pc, todo, held]: the thread in run() or stop()

maps == <<node_conns, client_conns>>
lists == <<all_conns, retired>>
vars == <<conn, acceptor, lists, reaper, core, core_queue, maps, stopping, main>>

\* A NodeConn or ClientConn.  The transport is open until stop is set.
Fresh ==
  [reader |-> "none",         \* where the reader thread is
   registered |-> FALSE,      \* registered_node_id # 0; a client past its Hello
   command |-> "none",        \* the command the reader wants to push
   budget |-> PeerFrames,     \* frames its peer may still send
   writer |-> "none",         \* where the writer thread is
   reader_handle |-> "empty", \* conn->reader: "empty", "joinable", "joined"
   writer_handle |-> "empty", \* conn->writer
   stop |-> FALSE, outbound |-> 0, in_flight |-> FALSE,
   retirement_queued |-> FALSE]

-----------------------------------------------------------------------------
(* Operations on connections, as functions of the map of all connections.  *)

\* Closes the transport, so that a pending receive or send fails, and drops
\* what was queued.
stop_connection(f, C) ==
  [c \in Conn |-> IF c \in C THEN [f[c] EXCEPT !.stop = TRUE, !.outbound = 0] ELSE f[c]]

\* A frame for each connection of C; one whose queue is full is disconnected.
queue_outbound(f, C) ==
  LET open == {c \in C: ~f[c].stop}
      full == {c \in open: f[c].outbound >= kMaxOutboundFrames}
  IN stop_connection([c \in Conn |-> IF c \in open \ full
                                     THEN [f[c] EXCEPT !.outbound = @ + 1] ELSE f[c]],
                     full)

\* The connections that respond_client and send_to_node reach.
respond_client(c) == {c} \intersect client_conns
send_to_node(n) == {node_conns[n]} \ {None}

outbound_empty(c) == conn[c].outbound = 0 /\ ~conn[c].in_flight

Push(kind, c) == core_queue' = Append(core_queue, [kind |-> kind, conn |-> c])
PushFront(kind) == core_queue' = <<[kind |-> kind, conn |-> None]>> \o core_queue

\* retire_*_connection after exchange(true) returned false
Retire(c) == retired' = [retired EXCEPT ![SideOf(c)] = Append(@, c)]

-----------------------------------------------------------------------------
(* The lifetime of a connection object (shared_ptr).                       *)

\* Someone still refers to the connection.
Held(c) ==
  \/ conn[c].reader \notin {"none", "done"} \/ conn[c].writer \notin {"none", "done"}
  \/ c \in all_conns \/ c \in main.held \/ c \in client_conns
  \/ reaper.conn = c
  \/ \E s \in Side: acceptor[s].conn = c \/ c \in Range(retired[s])
  \/ \E i \in DOMAIN core_queue: core_queue[i].conn = c
  \/ \E n \in NodeId: node_conns[n] = c

\* Its destructor ran while a thread object was joinable: std::terminate.
JoinableDestroyed(c) ==
  /\ conn[c].reader_handle = "joinable" \/ conn[c].writer_handle = "joinable"
  /\ ~Held(c)

Terminated == \E c \in Conn: JoinableDestroyed(c)

\* The process takes no step after that.
Alive == ~Terminated

-----------------------------------------------------------------------------
(* Acceptors.                                                              *)

AcceptorTo(s, pc, c) == acceptor' = [acceptor EXCEPT ![s] = [pc |-> pc, conn |-> c]]
AcceptorKeeps == Alive /\ UNCHANGED <<retired, reaper, core, core_queue, maps, stopping, main>>

\* A new connection enters the list before its threads exist.
Accept(s, c) ==
  /\ acceptor[s].pc = "accept" /\ ~stopping
  /\ SideOf(c) = s /\ conn[c] = Fresh /\ c \notin all_conns
  /\ all_conns' = all_conns \union {c}
  /\ AcceptorTo(s, "writer", c)
  /\ UNCHANGED conn /\ AcceptorKeeps

StartWriter(s) ==
  /\ acceptor[s].pc = "writer"
  /\ LET c == acceptor[s].conn
     IN /\ conn' = [conn EXCEPT ![c].writer = "wait", ![c].writer_handle = "joinable"]
        /\ AcceptorTo(s, "reader", c)
  /\ UNCHANGED all_conns /\ AcceptorKeeps

\* std::thread's constructor lets the reader run; conn->reader is still empty.
StartReader(s) ==
  /\ acceptor[s].pc = "reader"
  /\ conn' = [conn EXCEPT ![acceptor[s].conn].reader = "hello"]
  /\ AcceptorTo(s, "assign", acceptor[s].conn)
  /\ UNCHANGED all_conns /\ AcceptorKeeps

\* The assignment to conn->reader; the acceptor then drops its reference.
AssignReader(s) ==
  /\ acceptor[s].pc = "assign"
  /\ conn' = [conn EXCEPT ![acceptor[s].conn].reader_handle = "joinable"]
  /\ AcceptorTo(s, "accept", None)
  /\ UNCHANGED all_conns /\ AcceptorKeeps

\* accept() timed out or was woken; or a socket arrived too late and is closed.
AcceptorExit(s) ==
  /\ acceptor[s].pc = "accept" /\ stopping
  /\ AcceptorTo(s, "done", None)
  /\ UNCHANGED <<conn, all_conns>> /\ AcceptorKeeps

accept_loop(s) ==
  \/ \E c \in Conn: Accept(s, c)
  \/ StartWriter(s) \/ StartReader(s) \/ AssignReader(s) \/ AcceptorExit(s)

-----------------------------------------------------------------------------
(* Readers.  After its loop a reader stops the connection ("end"), reports *)
(* the disconnect ("report", "push_end") and retires the connection        *)
(* ("exchange", "retire"); a client that is refused skips the report.      *)

At(c, pc) == conn[c].reader = pc
ReaderTo(c, pc) == conn' = [conn EXCEPT ![c].reader = pc]
ReaderKeeps == Alive /\ UNCHANGED <<acceptor, all_conns, reaper, core, maps, stopping, main>>

\* The first frame is the Hello the side expects.  A client's reader announces
\* the connection, whatever the length of the queue, unless stop() has begun.
Hello(c) ==
  /\ At(c, "hello") /\ ~conn[c].stop
  /\ CASE c \in NodeConn -> ReaderTo(c, "loop") /\ UNCHANGED core_queue
       [] c \in ClientConn /\ stopping -> ReaderTo(c, "refuse") /\ UNCHANGED core_queue
       [] OTHER -> /\ conn' = [conn EXCEPT ![c].reader = "loop", ![c].registered = TRUE]
                   /\ Push("connected", c)
  /\ UNCHANGED retired /\ ReaderKeeps

\* No Hello: a closed transport, a frame of another kind, or the time limit.
NoHello(c) ==
  /\ At(c, "hello")
  /\ ReaderTo(c, IF c \in NodeConn THEN "end" ELSE "refuse")
  /\ UNCHANGED <<retired, core_queue>> /\ ReaderKeeps

\* A frame that decodes to a command (any other frame is passed over).
Receive(c) ==
  /\ At(c, "loop") /\ ~conn[c].stop /\ conn[c].budget > 0
  /\ \E kind \in IF c \in NodeConn THEN {"register", "report", "shutdown"}
                                  ELSE {"request", "shutdown"}:
       conn' = [conn EXCEPT ![c].reader = "push", ![c].command = kind,
                            ![c].registered = @ \/ kind = "register",
                            ![c].budget = @ - 1]
  /\ UNCHANGED <<retired, core_queue>> /\ ReaderKeeps

\* The peer closed or sent what is not a frame.
ReceiveFails(c) ==
  /\ At(c, "loop") /\ ~conn[c].stop
  /\ ReaderTo(c, "end")
  /\ UNCHANGED <<retired, core_queue>> /\ ReaderKeeps

ReceiveStopped(c) ==
  /\ At(c, "loop") /\ conn[c].stop
  /\ ReaderTo(c, "end")
  /\ UNCHANGED <<retired, core_queue>> /\ ReaderKeeps

PushCommand(c) ==
  /\ At(c, "push") /\ ~stopping /\ Len(core_queue) < kMaxQueue
  /\ Push(conn[c].command, c)
  /\ conn' = [conn EXCEPT ![c].reader = "loop", ![c].command = "none"]
  /\ UNCHANGED retired /\ ReaderKeeps

\* Mutant: a reader that waits for room does not look at stopping_.
PushFails_full(c) ==
  /\ At(c, "push") /\ Len(core_queue) >= kMaxQueue
  /\ ReaderTo(c, "end")
  /\ UNCHANGED <<retired, core_queue>> /\ ReaderKeeps

\* stopping_, or the queue stayed full for kQueuePushTimeoutMs.
PushFails(c) ==
  /\ At(c, "push") /\ (stopping \/ Len(core_queue) >= kMaxQueue)
  /\ ReaderTo(c, "end")
  /\ UNCHANGED <<retired, core_queue>> /\ ReaderKeeps

\* Mutant: a connection that someone else stopped is not reported.
EndReader_silent(c) ==
  /\ At(c, "end") \/ At(c, "refuse")
  /\ conn' = stop_connection([conn EXCEPT ![c].reader =
                IF @ = "end" /\ ~conn[c].stop THEN "report" ELSE "exchange"], {c})
  /\ UNCHANGED <<retired, core_queue>> /\ ReaderKeeps

EndReader(c) ==
  /\ At(c, "end") \/ At(c, "refuse")
  /\ conn' = stop_connection([conn EXCEPT ![c].reader =
                                IF @ = "end" THEN "report" ELSE "exchange"], {c})
  /\ UNCHANGED <<retired, core_queue>> /\ ReaderKeeps

Report(c) ==
  /\ At(c, "report")
  /\ ReaderTo(c, IF ~stopping /\ conn[c].registered THEN "push_end" ELSE "exchange")
  /\ UNCHANGED <<retired, core_queue>> /\ ReaderKeeps

PushDisconnected(c) ==
  /\ At(c, "push_end")
  /\ Push("disconnected", c)
  /\ ReaderTo(c, "exchange")
  /\ UNCHANGED retired /\ ReaderKeeps

\* retirement_queued.exchange(true), then the push, then the thread returns.
ExchangeRetirement(c) ==
  /\ At(c, "exchange")
  /\ conn' = [conn EXCEPT ![c].retirement_queued = TRUE,
                ![c].reader = IF conn[c].retirement_queued THEN "done" ELSE "retire"]
  /\ UNCHANGED <<retired, core_queue>> /\ ReaderKeeps

\* Mutant: the flag is set, but the connection is not queued for the reaper.
RetireConnection_lost(c) ==
  /\ At(c, "retire")
  /\ ReaderTo(c, "done")
  /\ UNCHANGED <<retired, core_queue>> /\ ReaderKeeps

RetireConnection(c) ==
  /\ At(c, "retire")
  /\ Retire(c) /\ ReaderTo(c, "done")
  /\ UNCHANGED core_queue /\ ReaderKeeps

\* What the reader does of itself, and what only the peer can cause.
reader_step(c) ==
  \/ NoHello(c) \/ ReceiveStopped(c) \/ PushCommand(c) \/ PushFails(c)
  \/ EndReader(c) \/ Report(c) \/ PushDisconnected(c)
  \/ ExchangeRetirement(c) \/ RetireConnection(c)
peer_step(c) == Hello(c) \/ Receive(c) \/ ReceiveFails(c)

-----------------------------------------------------------------------------
(* Writers (node_writer and client_writer are the same code).              *)

WriterKeeps == Alive /\ UNCHANGED <<acceptor, lists, reaper, core, core_queue, maps, stopping, main>>

TakeFrame(c) ==
  /\ conn[c].writer = "wait" /\ ~conn[c].stop /\ conn[c].outbound > 0
  /\ conn' = [conn EXCEPT ![c].writer = "send", ![c].outbound = @ - 1,
                          ![c].in_flight = TRUE]
  /\ WriterKeeps

\* send_frame returned.
SendReturns(c) ==
  /\ conn[c].writer = "send"
  /\ \E pc \in {"wait", "failed"}:
       conn' = [conn EXCEPT ![c].writer = pc, ![c].in_flight = FALSE]
  /\ WriterKeeps

SendFailed(c) ==
  /\ conn[c].writer = "failed"
  /\ conn' = stop_connection([conn EXCEPT ![c].writer = "done"], {c})
  /\ WriterKeeps

WriterExit(c) ==
  /\ conn[c].writer = "wait" /\ conn[c].stop
  /\ conn' = [conn EXCEPT ![c].writer = "done"]
  /\ WriterKeeps

writer_step(c) == TakeFrame(c) \/ SendReturns(c) \/ SendFailed(c) \/ WriterExit(c)

-----------------------------------------------------------------------------
(* The core thread.  A handler is one step, except where it waits for an   *)
(* outbound queue to drain.                                                *)

CoreKeeps == Alive /\ UNCHANGED <<acceptor, lists, reaper, main>>

\* The core thread takes the first command; c is its connection.
Command(kind, c) ==
  /\ core.pc = "loop" /\ core_queue # <<>>
  /\ Head(core_queue) = [kind |-> kind, conn |-> c]
  /\ core_queue' = Tail(core_queue)
  /\ CoreKeeps

\* A stopped connection is not registered; a connection that carried the same
\* id is superseded; the acknowledgement is queued (also for a replay).
handle_node_register(c) ==
  /\ Command("register", c)
  /\ LET n == NodeOf[c]
     IN IF conn[c].stop THEN UNCHANGED <<conn, node_conns>>
        ELSE /\ node_conns' = [node_conns EXCEPT ![n] = c]
             /\ conn' = queue_outbound(stop_connection(conn, send_to_node(n) \ {c}), {c})
  /\ UNCHANGED <<core, client_conns, stopping>>

\* A heartbeat or an attempt report: at most one acknowledgement.
HandleReport(c) ==
  /\ Command("report", c)
  /\ conn' = queue_outbound(conn, {c}) \/ UNCHANGED conn
  /\ UNCHANGED <<core, maps, stopping>>

\* handle_node_disconnect, and ClientDisconnected
handle_node_disconnect(c) ==
  /\ Command("disconnected", c)
  /\ node_conns' = [n \in NodeId |-> IF node_conns[n] = c THEN None ELSE node_conns[n]]
  /\ client_conns' = client_conns \ {c}
  /\ UNCHANGED <<conn, core, stopping>>

HandleConnected(c) ==
  /\ Command("connected", c)
  /\ client_conns' = IF conn[c].stop THEN client_conns ELSE client_conns \union {c}
  /\ UNCHANGED <<conn, core, node_conns, stopping>>

\* A client's request is answered on its own connection, if that is known.
HandleRequest(c) ==
  /\ Command("request", c)
  /\ conn' = queue_outbound(conn, respond_client(c))
  /\ UNCHANGED <<core, maps, stopping>>

\* A node announces that it shuts down: acknowledge, drain, then close.
HandleNodeShutdown(c) ==
  /\ c \in NodeConn /\ Command("shutdown", c)
  /\ IF node_conns[NodeOf[c]] = c
     THEN /\ conn' = queue_outbound(conn, {c})
          /\ core' = [core EXCEPT !.pc = "goodbye", !.waiting = <<c>>]
     ELSE UNCHANGED <<conn, core>>
  /\ UNCHANGED <<maps, stopping>>

\* The wait ended: the queue is empty, the connection stopped, or time is up.
Goodbye ==
  /\ core.pc = "goodbye"
  /\ conn' = stop_connection(conn, {Head(core.waiting)})
  /\ core' = [core EXCEPT !.pc = "loop", !.waiting = <<>>]
  /\ UNCHANGED <<core_queue, maps, stopping>> /\ CoreKeeps

\* A client asks the coordinator to shut down: its answer, and a NodeShutdown
\* for every connected node, are queued; then their queues are waited for, in
\* the order of the map (any order here).
handle_coordinator_shutdown(c) ==
  /\ c \in ClientConn /\ Command("shutdown", c)
  /\ LET open == {d \in NodeConn: ~conn[d].stop /\ \E n \in NodeId: node_conns[n] = d}
     IN /\ conn' = queue_outbound(conn, respond_client(c) \union open)
        /\ \E order \in Bijection(1 .. Cardinality(open), open):
             core' = [core EXCEPT !.pc = "drain", !.waiting = <<c>> \o order,
                                  !.draining = {c} \union open]
  /\ UNCHANGED <<maps, stopping>>

\* Mutant: an empty queue is taken for a completed send.
DrainOne_empty_queue ==
  /\ core.pc = "drain" /\ core.waiting # <<>>
  /\ LET c == Head(core.waiting)
     IN /\ conn[c].stop \/ conn[c].outbound = 0
        /\ core' = [core EXCEPT !.waiting = Tail(@)]
  /\ UNCHANGED <<conn, core_queue, maps, stopping>> /\ CoreKeeps

\* wait_for_outbound_drain returns before the deadline.  The first node for
\* which it returns false ends the loop; its result for the client is unused.
DrainOne ==
  /\ core.pc = "drain" /\ core.waiting # <<>>
  /\ LET c == Head(core.waiting)
     IN /\ conn[c].stop \/ outbound_empty(c)
        /\ core' = [core EXCEPT !.waiting = IF c \in ClientConn \/ outbound_empty(c)
                                            THEN Tail(@) ELSE <<>>]
  /\ UNCHANGED <<conn, core_queue, maps, stopping>> /\ CoreKeeps

DrainDeadline ==
  /\ core.pc = "drain" /\ core.waiting # <<>>
  /\ core' = [core EXCEPT !.late = TRUE, !.waiting = <<>>]
  /\ UNCHANGED <<conn, core_queue, maps, stopping>> /\ CoreKeeps

\* stopping_, the last persist(), and Shutdown ahead of every other command.
FinishShutdown ==
  /\ core.pc = "drain" /\ core.waiting = <<>>
  /\ stopping' = TRUE
  /\ PushFront("exit")
  /\ core' = [core EXCEPT !.pc = "loop", !.draining = {}]
  /\ UNCHANGED <<conn, maps>> /\ CoreKeeps

CoreExit ==
  /\ Command("exit", None)
  /\ core' = [core EXCEPT !.pc = "done"]
  /\ UNCHANGED <<conn, maps, stopping>>

process ==
  \/ \E c \in Conn: \/ handle_node_register(c) \/ HandleReport(c)
                    \/ handle_node_disconnect(c) \/ HandleConnected(c)
                    \/ HandleRequest(c) \/ HandleNodeShutdown(c)
                    \/ handle_coordinator_shutdown(c)
  \/ Goodbye \/ DrainOne \/ DrainDeadline \/ FinishShutdown

\* sweep: a dispatch or a cancellation is sent to a node, or the connection of
\* a node whose heartbeats stopped is closed.
CoreSweep ==
  /\ core.pc = "loop" /\ core.sends > 0
  /\ core' = [core EXCEPT !.sends = @ - 1]
  /\ \E n \in NodeId: \/ conn' = queue_outbound(conn, send_to_node(n))
                      \/ conn' = stop_connection(conn, send_to_node(n))
  /\ UNCHANGED <<core_queue, maps, stopping>> /\ CoreKeeps

-----------------------------------------------------------------------------
(* The reaper and stop().                                                  *)

ReaperTo(pc, c) == reaper' = [pc |-> pc, conn |-> c]
ReaperKeeps == Alive /\ UNCHANGED <<acceptor, core, core_queue, maps, stopping, main>>
reaper_stopping == main.pc \in {"join_reaper", "done"}

\* The next retirement, nodes first; the connection is stopped (again).
Reap(s) ==
  /\ reaper.pc = "wait" /\ retired[s] # <<>>
  /\ s = "client" => retired["node"] = <<>>
  /\ retired' = [retired EXCEPT ![s] = Tail(@)]
  /\ conn' = stop_connection(conn, {Head(retired[s])})
  /\ ReaperTo("join_reader", Head(retired[s]))
  /\ UNCHANGED all_conns /\ ReaperKeeps

Joined(handle) == IF handle = "joinable" THEN "joined" ELSE handle

\* if (joinable()) join(): an empty handle is passed over.
JoinReader ==
  /\ reaper.pc = "join_reader"
  /\ conn[reaper.conn].reader_handle = "joinable" => At(reaper.conn, "done")
  /\ conn' = [conn EXCEPT ![reaper.conn].reader_handle = Joined(@)]
  /\ ReaperTo("join_writer", reaper.conn)
  /\ UNCHANGED lists /\ ReaperKeeps

JoinWriter ==
  /\ reaper.pc = "join_writer"
  /\ conn[reaper.conn].writer_handle = "joinable" => conn[reaper.conn].writer = "done"
  /\ conn' = [conn EXCEPT ![reaper.conn].writer_handle = Joined(@)]
  /\ all_conns' = all_conns \ {reaper.conn}
  /\ ReaperTo("wait", None)
  /\ UNCHANGED retired /\ ReaperKeeps

ReaperExit ==
  /\ reaper.pc = "wait" /\ reaper_stopping /\ \A s \in Side: retired[s] = <<>>
  /\ ReaperTo("done", None)
  /\ UNCHANGED <<conn, lists>> /\ ReaperKeeps

connection_reaper_loop == (\E s \in Side: Reap(s)) \/ JoinReader \/ JoinWriter \/ ReaperExit

MainTo(pc, todo, held) == main' = [pc |-> pc, todo |-> todo, held |-> held]
MainKeeps == Alive /\ UNCHANGED <<acceptor, reaper, core>>

\* run() returned because of stopping_, or the process was interrupted.
BeginStop ==
  /\ main.pc = "run" /\ (stopping \/ Interrupts)
  /\ stopping' = TRUE
  /\ PushFront("exit")
  /\ MainTo("join_acceptors", {}, {})
  /\ UNCHANGED <<conn, lists, maps>> /\ MainKeeps

JoinAcceptors ==
  /\ main.pc = "join_acceptors" /\ \A s \in Side: acceptor[s].pc = "done"
  /\ MainTo("stop", all_conns, all_conns)
  /\ UNCHANGED <<conn, lists, core_queue, maps, stopping>> /\ MainKeeps

\* For each connection of the snapshot: stop it, then retire it.
StopConn(c) ==
  /\ main.pc = "stop" /\ c \in main.todo
  /\ conn' = stop_connection(conn, {c})
  /\ MainTo("retire", main.todo, main.held)
  /\ UNCHANGED <<lists, core_queue, maps, stopping>> /\ MainKeeps

RetireConn(c) ==
  /\ main.pc = "retire" /\ c \in main.todo /\ conn[c].stop
  /\ conn' = [conn EXCEPT ![c].retirement_queued = TRUE]
  /\ IF conn[c].retirement_queued THEN UNCHANGED retired ELSE Retire(c)
  /\ MainTo("stop", main.todo \ {c}, main.held)
  /\ UNCHANGED <<all_conns, core_queue, maps, stopping>> /\ MainKeeps

JoinCore ==
  /\ main.pc = "stop" /\ main.todo = {} /\ core.pc = "done"
  /\ MainTo("join_reaper", {}, main.held)
  /\ UNCHANGED <<conn, lists, core_queue, maps, stopping>> /\ MainKeeps

\* The queue, the maps and the lists are cleared and stop() returns.
JoinReaper ==
  /\ main.pc = "join_reaper" /\ reaper.pc = "done"
  /\ core_queue' = <<>>
  /\ node_conns' = [n \in NodeId |-> None] /\ client_conns' = {}
  /\ all_conns' = {}
  /\ MainTo("done", {}, {})
  /\ UNCHANGED <<conn, retired, stopping>> /\ MainKeeps

stop_step ==
  \/ JoinAcceptors \/ JoinCore \/ JoinReaper
  \/ \E c \in Conn: StopConn(c) \/ RetireConn(c)

-----------------------------------------------------------------------------
Init ==
  /\ conn = [c \in Conn |-> Fresh]
  /\ acceptor = [s \in Side |-> [pc |-> "accept", conn |-> None]]
  /\ all_conns = {} /\ retired = [s \in Side |-> <<>>]
  /\ reaper = [pc |-> "wait", conn |-> None]
  /\ core = [pc |-> "loop", waiting |-> <<>>, draining |-> {}, late |-> FALSE,
             sends |-> CoreSends]
  /\ core_queue = <<>>
  /\ node_conns = [n \in NodeId |-> None] /\ client_conns = {}
  /\ stopping = FALSE /\ main = [pc |-> "run", todo |-> {}, held |-> {}]

Next ==
  \/ \E s \in Side: accept_loop(s)
  \/ \E c \in Conn: reader_step(c) \/ peer_step(c) \/ writer_step(c)
  \/ process \/ CoreExit \/ CoreSweep
  \/ connection_reaper_loop \/ BeginStop \/ stop_step

Spec == Init /\ [][Next]_vars

\* Every thread keeps running: the operating system schedules it, every wait of
\* the code has a time limit or is notified, and a receive or send on a closed
\* transport returns.  Nothing is assumed of peers, of the sweep or of signals.
Fairness ==
  /\ \A s \in Side: WF_vars(accept_loop(s))
  /\ \A c \in Conn: /\ WF_vars(reader_step(c))
                    /\ WF_vars(writer_step(c))
  /\ WF_vars(process \/ CoreExit)
  /\ WF_vars(connection_reaper_loop)
  /\ WF_vars((stopping /\ BeginStop) \/ stop_step)

FairSpec == Spec /\ Fairness

-----------------------------------------------------------------------------
(* Properties.                                                             *)

\* The lookup maps hold no dead connection: once a connection's reader has
\* returned and no command about it is queued, no map refers to it, whatever
\* order its registration, a superseding registration, a full queue or a loss
\* came in (node_reader's NodeDisconnected, client_reader's ClientDisconnected).
\* During shutdown stop() clears the maps itself.
NoZombie ==
  \A c \in Conn:
    /\ conn[c].reader = "done" /\ ~stopping
    /\ \A i \in DOMAIN core_queue: core_queue[i].conn # c
    => c \notin client_conns /\ \A n \in NodeId: node_conns[n] # c

\* The client that asked for the shutdown has its answer handed to the transport
\* before stopping_ is set, unless its connection failed or the drain deadline
\* passed (handle_coordinator_shutdown, wait_for_outbound_drain).
AnswerLeavesFirst ==
  core.pc = "drain" /\ core.waiting = <<>> /\ ~core.late =>
    \A c \in core.draining \intersect ClientConn: conn[c].stop \/ outbound_empty(c)

\* The same for the NodeShutdown of every connected node.
NodesLeaveFirst ==
  core.pc = "drain" /\ core.waiting = <<>> /\ ~core.late =>
    \A c \in core.draining: conn[c].stop \/ outbound_empty(c)

\* No connection object is destroyed while one of its threads is joinable (the
\* reaper's joins against the acceptor's assignment of conn->reader).
NoJoinableDestroyed == \A c \in Conn: ~JoinableDestroyed(c)

\* When stop() returns every reader and writer thread has returned and has been
\* joined (the reaper drains all retirements before it exits).
StopJoinsAll ==
  main.pc = "done" =>
    \A c \in Conn: /\ conn[c].reader \in {"none", "done"}
                   /\ conn[c].writer \in {"none", "done"}
                   /\ "joinable" \notin {conn[c].reader_handle, conn[c].writer_handle}

\* stop() returns: nobody it joins waits for something that only happens later
\* (stop's joins against the queues, the drain waits and the reaper).
StopReturns == stopping ~> (main.pc = "done" \/ Terminated)

\* A stopped connection is forgotten by every map, list and queue and its object
\* is destroyed, without waiting for a shutdown (the readers' retirements, the
\* core's disconnect handlers and the reaper together).
DeadIsReaped ==
  \A c \in Conn: conn[c].stop ~> (~Held(c) \/ Terminated \/ stopping)
====
