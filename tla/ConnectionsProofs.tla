------------------------- MODULE ConnectionsProofs -------------------------
(***************************************************************************)
(* Proofs about the coordinator's connections: no lookup map keeps a dead  *)
(* connection, and the client that asks for the shutdown is answered first.*)
(*                                                                         *)
(* The argument: a reader that has sent a registration reports the end of  *)
(* its connection after it, through the same queue, so the last command    *)
(* about a connection takes it from the maps; and the core waits for the   *)
(* answer to the shutdown before it waits for any node.                    *)
(***************************************************************************)
EXTENDS Connections, SequenceTheorems, FiniteSetTheorems, TLAPS

-----------------------------------------------------------------------------
(* Types.                                                                  *)

ReaderPoint ==
  {"none", "hello", "loop", "push", "refuse", "end", "report", "push_end", "exchange", "retire", "done"}
WriterPoint == {"none", "wait", "send", "failed", "done"}
Handle == {"empty", "joinable", "joined"}
Kind == {"register", "report", "request", "shutdown", "connected", "disconnected", "exit", "none"}

ConnState ==
  [reader: ReaderPoint, registered: BOOLEAN, command: Kind, budget: Nat, writer: WriterPoint,
   reader_handle: Handle, writer_handle: Handle, stop: BOOLEAN, outbound: Nat,
   in_flight: BOOLEAN, retirement_queued: BOOLEAN]

AcceptorState ==
  [pc: {"accept", "writer", "reader", "assign", "done"}, conn: Conn \union {None}]
CoreState ==
  [pc: {"loop", "goodbye", "drain", "done"}, waiting: Seq(Conn), draining: SUBSET Conn,
   late: BOOLEAN, sends: Nat]
CoreCommand == [kind: Kind, conn: Conn \union {None}]

Typed ==
  /\ conn \in [Conn -> ConnState] /\ acceptor \in [Side -> AcceptorState]
  /\ core \in CoreState /\ core_queue \in Seq(CoreCommand)
  /\ node_conns \in [NodeId -> Conn \union {None}] /\ client_conns \subseteq Conn

-----------------------------------------------------------------------------
(* Connections that the core knows, or will know.                          *)

Disconnected(c) == [kind |-> "disconnected", conn |-> c]

\* A queued command will enter c in a map.
Introduced(q, c) ==
  \E i \in DOMAIN q: q[i].conn = c /\ q[i].kind \in {"connected", "register"}

\* The last queued command about c takes it from the maps.
Farewell(q, c) ==
  \E j \in DOMAIN q: /\ q[j] = Disconnected(c)
                     /\ \A i \in DOMAIN q: i > j => q[i].conn # c

Known(c) == c \in client_conns \/ \E n \in NodeId: node_conns[n] = c

\* The reader has not yet come to its report, and will make it.
WillReport(c) == conn[c].reader \in {"loop", "push", "end", "report", "push_end"}

\* A connection that is in a map, or is about to be, will be taken out.
Tracked(c) ==
  Known(c) \/ Introduced(core_queue, c) =>
    conn[c].registered /\ (WillReport(c) \/ Farewell(core_queue, c))

NoneLost == ~stopping => \A c \in Conn: Tracked(c)

\* The reader remembers that it sent a registration before the core sees it.
Announced ==
  \A c \in Conn: conn[c].reader = "push" /\ conn[c].command \in {"connected", "register"}
                 => conn[c].registered

\* A connection that an acceptor sets up has no reader yet.
SettingUp ==
  \A s \in Side, c \in Conn:
    acceptor[s].pc \in {"writer", "reader"} /\ acceptor[s].conn = c
    => SideOf(c) = s /\ conn[c].reader = "none"

-----------------------------------------------------------------------------
(* The answer to the client that asks for the shutdown.                    *)

Answered(c) == conn[c].stop \/ outbound_empty(c)

\* The wait for it is the first; nothing is queued for it after that.
AnswerFirst ==
  core.pc = "drain" /\ ~core.late =>
    \A c \in core.draining \intersect ClientConn:
      (core.waiting # << >> /\ Head(core.waiting) = c) \/ Answered(c)

IInv == Typed /\ SettingUp /\ Announced /\ NoneLost /\ AnswerFirst

-----------------------------------------------------------------------------
(* Lemmas about the queue.                                                 *)

\* What the core's pop does to the commands about a connection.
LEMMA PopKeeps ==
  ASSUME NEW q \in Seq(CoreCommand), q # << >>, NEW c \in Conn
  PROVE  /\ Tail(q) \in Seq(CoreCommand)
         /\ Introduced(Tail(q), c) => Introduced(q, c)
         /\ Farewell(q, c) /\ (Head(q) # Disconnected(c) \/ Introduced(Tail(q), c))
            => Farewell(Tail(q), c)
<1>1. /\ Tail(q) \in Seq(CoreCommand) /\ Len(Tail(q)) = Len(q) - 1 /\ Head(q) = q[1]
      /\ \A i \in 1 .. Len(q) - 1: Tail(q)[i] = q[i + 1]
      /\ DOMAIN q = 1 .. Len(q) /\ DOMAIN Tail(q) = 1 .. Len(q) - 1 /\ Len(q) \in Nat
  BY HeadTailProperties, LenProperties
<1>2. Introduced(Tail(q), c) => \E i \in DOMAIN q: i > 1 /\ q[i].conn = c /\ q[i].kind \in {"connected", "register"}
  <2> SUFFICES ASSUME NEW i \in DOMAIN Tail(q), Tail(q)[i].conn = c,
                      Tail(q)[i].kind \in {"connected", "register"}
               PROVE  \E k \in DOMAIN q: k > 1 /\ q[k].conn = c /\ q[k].kind \in {"connected", "register"}
    BY DEF Introduced
  <2>1. i + 1 \in DOMAIN q /\ i + 1 > 1 /\ q[i + 1] = Tail(q)[i]
    BY <1>1
  <2> QED
    BY <2>1
<1>3. ASSUME Farewell(q, c), Head(q) # Disconnected(c) \/ Introduced(Tail(q), c)
      PROVE  Farewell(Tail(q), c)
  <2>1. PICK j \in DOMAIN q: q[j] = Disconnected(c) /\ \A i \in DOMAIN q: i > j => q[i].conn # c
    BY <1>3 DEF Farewell
  <2>2. j > 1
    BY <1>1, <1>2, <1>3, <2>1
  <2>3. j - 1 \in DOMAIN Tail(q) /\ Tail(q)[j - 1] = Disconnected(c)
    BY <1>1, <2>1, <2>2
  <2>4. \A i \in DOMAIN Tail(q): i > j - 1 => Tail(q)[i].conn # c
    BY <1>1, <2>1, <2>2
  <2> QED
    BY <2>3, <2>4 DEF Farewell
<1> QED
  BY <1>1, <1>2, <1>3 DEF Introduced

\* What a push does.
LEMMA PushKeeps ==
  ASSUME NEW q \in Seq(CoreCommand), NEW m \in CoreCommand, NEW c \in Conn
  PROVE  /\ Append(q, m) \in Seq(CoreCommand)
         /\ Introduced(Append(q, m), c)
            => Introduced(q, c) \/ (m.conn = c /\ m.kind \in {"connected", "register"})
         /\ Farewell(q, c) /\ m.conn # c => Farewell(Append(q, m), c)
         /\ m = Disconnected(c) => Farewell(Append(q, m), c)
<1>1. /\ Append(q, m) \in Seq(CoreCommand) /\ Len(Append(q, m)) = Len(q) + 1
      /\ \A i \in 1 .. Len(q): Append(q, m)[i] = q[i]
      /\ Append(q, m)[Len(q) + 1] = m
      /\ DOMAIN q = 1 .. Len(q) /\ DOMAIN Append(q, m) = 1 .. Len(q) + 1 /\ Len(q) \in Nat
  BY AppendProperties, LenProperties
<1>2. Farewell(q, c) /\ m.conn # c => Farewell(Append(q, m), c)
  <2> SUFFICES ASSUME NEW j \in DOMAIN q, q[j] = Disconnected(c),
                      \A i \in DOMAIN q: i > j => q[i].conn # c, m.conn # c
               PROVE  Farewell(Append(q, m), c)
    BY SMTT(30) DEF Farewell
  <2>1. j \in DOMAIN Append(q, m) /\ Append(q, m)[j] = Disconnected(c)
    BY <1>1
  <2>2. \A i \in DOMAIN Append(q, m): i > j => Append(q, m)[i].conn # c
    BY <1>1
  <2> QED
    BY <2>1, <2>2 DEF Farewell
<1>3. m = Disconnected(c) => Farewell(Append(q, m), c)
  <2>1. Len(q) + 1 \in DOMAIN Append(q, m) /\ \A i \in DOMAIN Append(q, m): ~(i > Len(q) + 1)
    BY <1>1
  <2> QED
    BY <1>1, <2>1 DEF Farewell
<1>4. Introduced(Append(q, m), c)
      => Introduced(q, c) \/ (m.conn = c /\ m.kind \in {"connected", "register"})
  BY <1>1 DEF Introduced
<1> QED
  BY <1>1, <1>2, <1>3, <1>4

-----------------------------------------------------------------------------
(* Lemmas about the operations on connections.                             *)

\* stop_connection leaves the threads where they are.
LEMMA Stopping ==
  ASSUME NEW f \in [Conn -> ConnState], NEW C
  PROVE  /\ stop_connection(f, C) \in [Conn -> ConnState]
         /\ \A c \in Conn:
              LET r == stop_connection(f, C)[c]
              IN  /\ r.reader = f[c].reader /\ r.registered = f[c].registered
                  /\ r.command = f[c].command /\ r.in_flight = f[c].in_flight
                  /\ f[c].stop \/ c \in C => r.stop
                  /\ r.outbound = f[c].outbound \/ r.stop
<1> USE DEF stop_connection
<1>1. ASSUME NEW r \in ConnState
      PROVE  LET t == [r EXCEPT !.stop = TRUE, !.outbound = 0]
             IN  /\ t \in ConnState /\ t.stop /\ t.reader = r.reader /\ t.registered = r.registered
                 /\ t.command = r.command /\ t.in_flight = r.in_flight
  BY Zenon DEF ConnState
<1>2. \A c \in Conn: f[c] \in ConnState
  OBVIOUS
<1> QED
  BY <1>1, <1>2, Zenon

\* So does queue_outbound, which may stop a connection and never reopens one.
LEMMA Queueing ==
  ASSUME NEW f \in [Conn -> ConnState], NEW C
  PROVE  /\ queue_outbound(f, C) \in [Conn -> ConnState]
         /\ \A c \in Conn:
              LET r == queue_outbound(f, C)[c]
              IN  /\ r.reader = f[c].reader /\ r.registered = f[c].registered
                  /\ r.command = f[c].command
                  /\ f[c].stop => r.stop
<1> DEFINE open == {c \in C: ~f[c].stop}
           full == {c \in open: f[c].outbound >= kMaxOutboundFrames}
           g == [c \in Conn |-> IF c \in open \ full THEN [f[c] EXCEPT !.outbound = @ + 1] ELSE f[c]]
<1>1. ASSUME NEW r \in ConnState
      PROVE  LET t == [r EXCEPT !.outbound = @ + 1]
             IN  /\ t \in ConnState /\ t.stop = r.stop /\ t.reader = r.reader
                 /\ t.registered = r.registered /\ t.command = r.command
  BY DEF ConnState
<1>2. \A c \in Conn: f[c] \in ConnState
  OBVIOUS
<1>3. /\ g \in [Conn -> ConnState]
      /\ \A c \in Conn: /\ g[c].reader = f[c].reader /\ g[c].registered = f[c].registered
                        /\ g[c].command = f[c].command /\ g[c].stop = f[c].stop
  BY <1>1, <1>2
<1>4. queue_outbound(f, C) = stop_connection(g, full)
  BY DEF queue_outbound
<1> QED
  <2> HIDE DEF g, full
  <2> QED
    BY <1>3, <1>4, Stopping

-----------------------------------------------------------------------------
(* What keeps each part of the invariant.                                  *)

\* No step makes a reader disappear.
LEMMA SettingUpKept ==
  ASSUME SettingUp, UNCHANGED acceptor,
         \A c \in Conn: conn[c].reader = "none" => conn'[c].reader = "none"
  PROVE  SettingUp'
BY DEF SettingUp

\* Only a received frame brings a reader to its push.
LEMMA AnnouncedKept ==
  ASSUME Announced,
         \A c \in Conn: conn'[c].reader = "push" =>
           /\ conn[c].reader = "push" /\ conn'[c].command = conn[c].command
           /\ conn'[c].registered = conn[c].registered
  PROVE  Announced'
BY DEF Announced

\* Once a connection is drained or stopped it stays so while the core waits.
LEMMA AnswerKept ==
  ASSUME AnswerFirst, UNCHANGED core, \A c \in Conn: Answered(c) => Answered(c)', Typed
  PROVE  AnswerFirst'
<1>1. core.draining \subseteq Conn
  BY DEF Typed, CoreState
<1> QED
  BY <1>1 DEF AnswerFirst

\* A step that leaves the queue and the maps leaves the core's knowledge.
LEMMA TrackedKept ==
  ASSUME NEW c \in Conn, Tracked(c), UNCHANGED <<core_queue, node_conns, client_conns>>,
         conn[c].registered => conn'[c].registered, WillReport(c) => WillReport(c)'
  PROVE  Tracked(c)'
BY DEF Tracked, Known

\* So does one that queues a command about another connection.
LEMMA TrackedBeside ==
  ASSUME NEW c \in Conn, Tracked(c), UNCHANGED <<node_conns, client_conns>>, Typed,
         NEW m \in CoreCommand, m.conn # c, core_queue' = Append(core_queue, m),
         conn'[c] = conn[c]
  PROVE  Tracked(c)'
<1>1. /\ Introduced(core_queue', c) => Introduced(core_queue, c)
      /\ Farewell(core_queue, c) => Farewell(core_queue', c)
  BY PushKeeps DEF Typed
<1> QED
  BY <1>1 DEF Tracked, Known, WillReport

-----------------------------------------------------------------------------
(* Readers.                                                                *)

\* What the update of a connection by its own reader does to the invariant.
LEMMA ReaderUpdates ==
  ASSUME IInv, NEW c \in Conn, ReaderKeeps, conn' \in [Conn -> ConnState],
         \A d \in Conn \ {c}: conn'[d] = conn[d],
         conn[c].reader # "none",
         conn[c].registered => conn'[c].registered,
         Answered(c) => Answered(c)',
         conn'[c].reader = "push" /\ conn'[c].command \in {"connected", "register"}
           => conn'[c].registered,
         \/ UNCHANGED core_queue /\ (Tracked(c) /\ ~stopping => Tracked(c)')
         \/ \E m \in CoreCommand:
              m.conn = c /\ core_queue' = Append(core_queue, m) /\ (Tracked(c) /\ ~stopping => Tracked(c)')
  PROVE  IInv'
<1>0. Typed /\ SettingUp /\ Announced /\ NoneLost /\ AnswerFirst
  BY DEF IInv
<1>1. UNCHANGED <<acceptor, core, node_conns, client_conns, stopping>>
  BY DEF ReaderKeeps, maps
<1>2. core_queue' \in Seq(CoreCommand)
  BY <1>0, PushKeeps, SMTT(30) DEF Typed
<1>3. Typed'
  BY <1>0, <1>1, <1>2 DEF Typed
<1>4. SettingUp'
  BY <1>0, <1>1, SettingUpKept
<1>5. Announced'
  BY <1>0 DEF Announced
<1>6. \A d \in Conn: Answered(d) => Answered(d)'
  BY DEF Answered, outbound_empty
<1>7. AnswerFirst'
  BY <1>0, <1>1, <1>6, AnswerKept
<1>8. NoneLost'
  <2> SUFFICES ASSUME ~stopping, NEW d \in Conn PROVE Tracked(d)'
    BY <1>1 DEF NoneLost
  <2>1. Tracked(d)
    BY <1>0 DEF NoneLost
  <2>2. CASE d = c
    BY <2>1, <2>2
  <2>3. CASE d # c /\ UNCHANGED core_queue
    BY <1>1, <2>1, <2>3, TrackedKept DEF WillReport
  <2>4. CASE d # c /\ \E m \in CoreCommand: m.conn = c /\ core_queue' = Append(core_queue, m)
    BY <1>0, <1>1, <2>1, <2>4, TrackedBeside
  <2> QED
    BY <2>2, <2>3, <2>4
<1> QED
  BY <1>3, <1>4, <1>5, <1>7, <1>8 DEF IInv

\* A reader that goes on to another point of its code.
LEMMA ReaderGoes ==
  ASSUME Typed, NEW c \in Conn, NEW pc \in ReaderPoint, ReaderTo(c, pc)
  PROVE  /\ conn' \in [Conn -> ConnState] /\ \A d \in Conn \ {c}: conn'[d] = conn[d]
         /\ conn'[c].reader = pc /\ conn'[c].registered = conn[c].registered
         /\ Answered(c) => Answered(c)'
<1>1. conn[c] \in ConnState /\ conn' = [conn EXCEPT ![c] = [conn[c] EXCEPT !.reader = pc]]
  BY DEF Typed, ReaderTo
<1>2. /\ conn'[c] \in ConnState /\ conn'[c].reader = pc
      /\ conn'[c].registered = conn[c].registered /\ conn'[c].stop = conn[c].stop
      /\ conn'[c].outbound = conn[c].outbound /\ conn'[c].in_flight = conn[c].in_flight
  BY <1>1, Zenon DEF Typed, ConnState
<1> QED
  BY <1>1, <1>2 DEF Typed, Answered, outbound_empty

\* The other updates that a reader makes of its connection.
LEMMA Updates ==
  ASSUME NEW r \in ConnState, NEW pc \in ReaderPoint, NEW k \in Kind, NEW b \in BOOLEAN, NEW n \in Nat
  PROVE  /\ [r EXCEPT !.reader = pc] \in ConnState
         /\ [r EXCEPT !.reader = pc, !.registered = b] \in ConnState
         /\ [r EXCEPT !.reader = pc, !.command = k] \in ConnState
         /\ [r EXCEPT !.reader = pc, !.command = k, !.registered = b, !.budget = n] \in ConnState
         /\ [r EXCEPT !.retirement_queued = b, !.reader = pc] \in ConnState
<1>1. [r EXCEPT !.reader = pc] \in ConnState
  BY DEF ConnState
<1>2. [r EXCEPT !.reader = pc, !.registered = b] \in ConnState
  BY Zenon DEF ConnState
<1>3. [r EXCEPT !.reader = pc, !.command = k] \in ConnState
  BY Zenon DEF ConnState
<1>4. [r EXCEPT !.reader = pc, !.command = k, !.registered = b, !.budget = n] \in ConnState
  BY Zenon DEF ConnState
<1>5. [r EXCEPT !.retirement_queued = b, !.reader = pc] \in ConnState
  BY Zenon DEF ConnState
<1> QED
  BY <1>1, <1>2, <1>3, <1>4, <1>5

\* A command and its parts.
LEMMA Commands ==
  ASSUME NEW k \in Kind, NEW c \in Conn \union {None}
  PROVE  /\ [kind |-> k, conn |-> c] \in CoreCommand
         /\ [kind |-> k, conn |-> c].kind = k /\ [kind |-> k, conn |-> c].conn = c
BY DEF CoreCommand

\* The reader's steps that neither queue a command nor receive one.
LEMMA ReaderWalks ==
  ASSUME IInv, NEW c \in Conn,
         \/ NoHello(c) \/ ReceiveFails(c) \/ ReceiveStopped(c) \/ PushFails(c) \/ Report(c)
         \/ RetireConnection(c)
  PROVE  IInv'
<1>0. Typed
  BY DEF IInv
<1>1. PICK pc \in ReaderPoint:
        /\ ReaderTo(c, pc) /\ UNCHANGED core_queue /\ ReaderKeeps
        /\ pc # "push" /\ conn[c].reader # "none"
        /\ ~stopping /\ conn[c].registered /\ WillReport(c) => pc \in {"end", "push_end"}
  <2>1. CASE NoHello(c)
    BY <2>1 DEF NoHello, At, WillReport, ReaderPoint
  <2>2. CASE ReceiveFails(c) \/ ReceiveStopped(c) \/ PushFails(c)
    BY <2>2 DEF ReceiveFails, ReceiveStopped, PushFails, At, ReaderPoint
  <2>3. CASE Report(c)
    BY <2>3 DEF Report, At, ReaderPoint
  <2>4. CASE RetireConnection(c)
    BY <2>4 DEF RetireConnection, At, WillReport, ReaderPoint
  <2> QED
    BY <2>1, <2>2, <2>3, <2>4
<1>2. /\ conn' \in [Conn -> ConnState] /\ \A d \in Conn \ {c}: conn'[d] = conn[d]
      /\ conn'[c].reader = pc /\ conn'[c].registered = conn[c].registered
      /\ Answered(c) => Answered(c)'
  BY <1>0, <1>1, ReaderGoes
<1>3. Tracked(c) /\ ~stopping => Tracked(c)'
  BY <1>1, <1>2 DEF Tracked, Known, WillReport, ReaderKeeps, maps
<1> QED
  BY <1>1, <1>2, <1>3, ReaderUpdates

\* The reader's other steps.
LEMMA ReaderWorks ==
  ASSUME IInv, NEW c \in Conn,
         \/ Hello(c) \/ Receive(c) \/ PushCommand(c) \/ EndReader(c) \/ PushDisconnected(c)
         \/ ExchangeRetirement(c)
  PROVE  IInv'
<1>0. /\ Typed /\ Announced /\ conn[c] \in ConnState /\ DOMAIN conn = Conn
      /\ conn \in [Conn -> ConnState] /\ c \in Conn \union {None}
      /\ core_queue \in Seq(CoreCommand)
  BY DEF IInv, Typed
<1>a. /\ {"loop", "refuse", "exchange", "push"} \subseteq ReaderPoint
      /\ {"none", "connected", "disconnected"} \subseteq Kind
      /\ TRUE \in BOOLEAN /\ 0 \in Nat
  BY DEF ReaderPoint, Kind
<1>1. ReaderKeeps /\ conn[c].reader # "none"
  BY Zenon DEF Hello, Receive, PushCommand, EndReader, PushDisconnected, ExchangeRetirement, At
<1>2. UNCHANGED <<node_conns, client_conns, stopping>>
  BY <1>1 DEF ReaderKeeps, maps
<1>3. CASE Hello(c)
  <2>1. CASE ReaderTo(c, "loop") /\ UNCHANGED core_queue
    <3>1. /\ conn' \in [Conn -> ConnState] /\ \A d \in Conn \ {c}: conn'[d] = conn[d]
          /\ conn'[c].reader = "loop" /\ conn'[c].registered = conn[c].registered
          /\ Answered(c) => Answered(c)'
      BY <1>0, <1>a, <2>1, ReaderGoes
    <3>2. Tracked(c) => Tracked(c)'
      BY <1>2, <2>1, <3>1 DEF Tracked, Known, WillReport
    <3> QED
      BY <1>1, <2>1, <3>1, <3>2, ReaderUpdates
  <2>2. CASE stopping /\ ReaderTo(c, "refuse") /\ UNCHANGED core_queue
    <3>1. /\ conn' \in [Conn -> ConnState] /\ \A d \in Conn \ {c}: conn'[d] = conn[d]
          /\ conn'[c].reader = "refuse" /\ conn'[c].registered = conn[c].registered
          /\ Answered(c) => Answered(c)'
      BY <1>0, <1>a, <2>2, ReaderGoes
    <3> QED
      BY <1>1, <2>2, <3>1, ReaderUpdates
  <2>3. CASE /\ conn' = [conn EXCEPT ![c].reader = "loop", ![c].registered = TRUE]
             /\ Push("connected", c)
    <3>1. PICK r \in ConnState: r = [conn[c] EXCEPT !.reader = "loop", !.registered = TRUE]
      BY <1>0, <1>a, Updates, Zenon
    <3>2. /\ r.reader = "loop" /\ r.registered /\ r.stop = conn[c].stop
          /\ r.outbound = conn[c].outbound /\ r.in_flight = conn[c].in_flight
      BY <1>0, <3>1 DEF ConnState
    <3>3. conn' = [conn EXCEPT ![c] = r]
      BY <1>0, <2>3, <3>1, Zenon
    <3>4. /\ conn' \in [Conn -> ConnState] /\ conn'[c] = r
          /\ \A d \in Conn \ {c}: conn'[d] = conn[d]
      BY <1>0, <3>3
    <3>5. PICK m \in CoreCommand: m.conn = c /\ core_queue' = Append(core_queue, m)
      <4>1. core_queue' = Append(core_queue, [kind |-> "connected", conn |-> c])
        BY <2>3 DEF Push
      <4> QED
        BY <1>0, <1>a, <4>1, Commands
    <3>6. Tracked(c)' /\ (Answered(c) => Answered(c)')
      BY <3>2, <3>4 DEF Tracked, WillReport, Answered, outbound_empty
    <3> QED
      BY <1>1, <3>2, <3>4, <3>5, <3>6, ReaderUpdates
  <2> QED
    BY <1>3, <2>1, <2>2, <2>3 DEF Hello, Conn
<1>4. CASE Receive(c)
  <2>1. PICK kind \in {"register", "report", "shutdown", "request"}:
          conn' = [conn EXCEPT ![c].reader = "push", ![c].command = kind,
                               ![c].registered = @ \/ kind = "register", ![c].budget = @ - 1]
    BY <1>4, Zenon DEF Receive
  <2>2. conn[c].budget \in Nat /\ conn[c].budget > 0 /\ conn[c].registered \in BOOLEAN
    BY <1>0, <1>4, Zenon DEF Receive, ConnState
  <2>3. PICK b \in BOOLEAN: b = (conn[c].registered \/ kind = "register")
    BY Zenon
  <2>4. PICK r \in ConnState:
          r = [conn[c] EXCEPT !.reader = "push", !.command = kind, !.registered = b,
                              !.budget = conn[c].budget - 1]
    <3>1. conn[c].budget - 1 \in Nat /\ kind \in Kind
      BY <2>2 DEF Kind
    <3> QED
      BY <1>0, <1>a, <3>1, Updates, Zenon
  <2>5. /\ r.reader = "push" /\ r.command = kind /\ r.registered = b /\ r.stop = conn[c].stop
        /\ r.outbound = conn[c].outbound /\ r.in_flight = conn[c].in_flight
    BY <1>0, <2>4 DEF ConnState
  <2>6. conn' = [conn EXCEPT ![c] = r]
    BY <1>0, <2>1, <2>3, <2>4, Zenon
  <2>7. /\ conn' \in [Conn -> ConnState] /\ conn'[c] = r
        /\ \A d \in Conn \ {c}: conn'[d] = conn[d]
    BY <1>0, <2>6
  <2>8. UNCHANGED core_queue /\ conn[c].reader = "loop"
    BY <1>4, Zenon DEF Receive, At
  <2>9. (Tracked(c) => Tracked(c)') /\ (Answered(c) => Answered(c)')
    BY <1>2, <2>3, <2>5, <2>7, <2>8, Zenon DEF Tracked, Known, WillReport, Answered, outbound_empty
  <2> QED
    BY <1>1, <2>3, <2>5, <2>7, <2>8, <2>9, ReaderUpdates, Zenon
<1>5. CASE PushCommand(c)
  <2>1. PICK r \in ConnState: r = [conn[c] EXCEPT !.reader = "loop", !.command = "none"]
    BY <1>0, <1>a, Updates, Zenon
  <2>2. /\ r.reader = "loop" /\ r.registered = conn[c].registered /\ r.stop = conn[c].stop
        /\ r.outbound = conn[c].outbound /\ r.in_flight = conn[c].in_flight
    BY <1>0, <2>1 DEF ConnState
  <2>3. conn' = [conn EXCEPT ![c] = r]
    BY <1>0, <1>5, <2>1, Zenon DEF PushCommand
  <2>4. /\ conn' \in [Conn -> ConnState] /\ conn'[c] = r
        /\ \A d \in Conn \ {c}: conn'[d] = conn[d]
    BY <1>0, <2>3
  <2>5. PICK m \in CoreCommand: /\ m.conn = c /\ m.kind = conn[c].command
                                /\ core_queue' = Append(core_queue, m)
    <3>1. core_queue' = Append(core_queue, [kind |-> conn[c].command, conn |-> c])
      BY <1>5 DEF PushCommand, Push
    <3>2. conn[c].command \in Kind
      BY <1>0 DEF ConnState
    <3> QED
      BY <1>0, <3>1, <3>2, Commands
  <2>6. m.kind \in {"connected", "register"} => conn[c].registered
    BY <1>0, <1>5, <2>5 DEF Announced, PushCommand, At
  <2>7. Introduced(core_queue', c) => Introduced(core_queue, c) \/ conn[c].registered
    BY <1>0, <2>5, <2>6, PushKeeps
  <2>8. (Tracked(c) => Tracked(c)') /\ (Answered(c) => Answered(c)')
    BY <1>2, <2>2, <2>4, <2>7 DEF Tracked, Known, WillReport, Answered, outbound_empty
  <2> QED
    BY <1>1, <2>2, <2>4, <2>5, <2>8, ReaderUpdates
<1>6. CASE EndReader(c)
  <2>1. PICK pc \in {"report", "exchange"}:
          /\ pc = IF conn[c].reader = "end" THEN "report" ELSE "exchange"
          /\ conn[c].reader \in {"end", "refuse"}
    BY <1>6 DEF EndReader, At
  <2>2. PICK r \in ConnState: r = [conn[c] EXCEPT !.reader = pc]
    <3>1. pc \in ReaderPoint
      BY DEF ReaderPoint
    <3> QED
      BY <1>0, <1>a, <3>1, Updates, Zenon
  <2>3. r.reader = pc /\ r.registered = conn[c].registered
    BY <1>0, <2>2 DEF ConnState
  <2>4. PICK f \in [Conn -> ConnState]: f = [conn EXCEPT ![c] = r]
    BY <1>0, Zenon
  <2>5. conn' = stop_connection(f, {c})
    BY <1>0, <1>6, <2>1, <2>2, <2>4 DEF EndReader
  <2>6. /\ conn' \in [Conn -> ConnState] /\ conn'[c].reader = pc
        /\ conn'[c].registered = conn[c].registered /\ conn'[c].stop
    <3>1. f[c].reader = pc /\ f[c].registered = conn[c].registered /\ c \in {c}
      BY <1>0, <2>3, <2>4
    <3>2. /\ stop_connection(f, {c}) \in [Conn -> ConnState]
          /\ stop_connection(f, {c})[c].reader = f[c].reader
          /\ stop_connection(f, {c})[c].registered = f[c].registered
          /\ stop_connection(f, {c})[c].stop
      BY <3>1, Stopping
    <3> QED
      BY <2>5, <3>1, <3>2
  <2>7. \A d \in Conn \ {c}: conn'[d] = conn[d]
    BY <1>0, <2>4, <2>5 DEF stop_connection
  <2>8. UNCHANGED core_queue
    BY <1>6 DEF EndReader
  <2>9. (Tracked(c) => Tracked(c)') /\ Answered(c)'
    BY <1>2, <2>1, <2>6, <2>8 DEF Tracked, Known, WillReport, Answered
  <2> QED
    BY <1>1, <2>1, <2>6, <2>7, <2>8, <2>9, ReaderUpdates
<1>7. CASE PushDisconnected(c)
  <2>1. /\ conn' \in [Conn -> ConnState] /\ \A d \in Conn \ {c}: conn'[d] = conn[d]
        /\ conn'[c].reader = "exchange" /\ conn'[c].registered = conn[c].registered
        /\ Answered(c) => Answered(c)'
    <3>1. ReaderTo(c, "exchange")
      BY <1>7 DEF PushDisconnected
    <3> QED
      BY <1>0, <1>a, <3>1, ReaderGoes
  <2>2. PICK m \in CoreCommand: /\ m.conn = c /\ m = Disconnected(c) /\ m.kind = "disconnected"
                                /\ core_queue' = Append(core_queue, m)
    <3>1. core_queue' = Append(core_queue, Disconnected(c))
      BY <1>7 DEF PushDisconnected, Push, Disconnected
    <3>2. Disconnected(c) \in CoreCommand /\ Disconnected(c).conn = c /\ Disconnected(c).kind = "disconnected"
      BY <1>0, <1>a, Commands DEF Disconnected
    <3> QED
      BY <3>1, <3>2
  <2>3. /\ Farewell(core_queue', c)
        /\ Introduced(core_queue', c) => Introduced(core_queue, c)
    BY <1>0, <2>2, PushKeeps
  <2>4. Tracked(c) => Tracked(c)'
    BY <1>2, <2>1, <2>3 DEF Tracked, Known
  <2> QED
    BY <1>1, <2>1, <2>2, <2>4, ReaderUpdates
<1>8. CASE ExchangeRetirement(c)
  <2>1. PICK pc \in {"done", "retire"}:
          conn' = [conn EXCEPT ![c].retirement_queued = TRUE, ![c].reader = pc]
    BY <1>8, Zenon DEF ExchangeRetirement
  <2>2. PICK r \in ConnState: r = [conn[c] EXCEPT !.retirement_queued = TRUE, !.reader = pc]
    <3>1. pc \in ReaderPoint
      BY DEF ReaderPoint
    <3> QED
      BY <1>0, <1>a, <3>1, Updates, Zenon
  <2>3. /\ r.reader = pc /\ r.registered = conn[c].registered /\ r.stop = conn[c].stop
        /\ r.outbound = conn[c].outbound /\ r.in_flight = conn[c].in_flight
    BY <1>0, <2>2 DEF ConnState
  <2>4. conn' = [conn EXCEPT ![c] = r]
    BY <1>0, <2>1, <2>2, Zenon
  <2>5. /\ conn' \in [Conn -> ConnState] /\ conn'[c] = r
        /\ \A d \in Conn \ {c}: conn'[d] = conn[d]
    BY <1>0, <2>4
  <2>6. UNCHANGED core_queue /\ ~WillReport(c)
    BY <1>8 DEF ExchangeRetirement, At, WillReport
  <2>7. (Tracked(c) => Tracked(c)') /\ (Answered(c) => Answered(c)')
    BY <1>2, <2>3, <2>5, <2>6 DEF Tracked, Known, Answered, outbound_empty
  <2> QED
    BY <1>1, <2>3, <2>5, <2>6, <2>7, ReaderUpdates
<1> QED
  BY <1>3, <1>4, <1>5, <1>6, <1>7, <1>8

-----------------------------------------------------------------------------
(* Writers, the reaper and stop().                                         *)

\* A step that leaves the readers, the core and the queue where they are.
LEMMA Unmoved ==
  ASSUME IInv, conn' \in [Conn -> ConnState],
         \A c \in Conn: /\ conn'[c].reader = conn[c].reader
                        /\ conn'[c].registered = conn[c].registered
                        /\ conn'[c].command = conn[c].command,
         \A c \in Conn: Answered(c) => Answered(c)',
         UNCHANGED <<core, core_queue, node_conns, client_conns, stopping>>,
         UNCHANGED acceptor \/ (acceptor' \in [Side -> AcceptorState] /\ SettingUp')
  PROVE  IInv'
<1>0. Typed /\ SettingUp /\ Announced /\ NoneLost /\ AnswerFirst
  BY DEF IInv
<1>1. Typed'
  BY <1>0 DEF Typed
<1>2. SettingUp'
  BY <1>0, SettingUpKept
<1>3. Announced'
  BY <1>0, AnnouncedKept
<1>4. AnswerFirst'
  BY <1>0, AnswerKept
<1>5. NoneLost'
  <2> SUFFICES ASSUME ~stopping, NEW c \in Conn PROVE Tracked(c)'
    BY DEF NoneLost
  <2>1. Tracked(c) /\ (WillReport(c) => WillReport(c)')
    BY <1>0 DEF NoneLost, WillReport
  <2> QED
    BY <2>1, TrackedKept
<1> QED
  BY <1>1, <1>2, <1>3, <1>4, <1>5 DEF IInv

\* One connection object changes, outside what its reader and the core use.
LEMMA Aside ==
  ASSUME Typed, NEW c,  NEW r,
         conn' = [conn EXCEPT ![c] = r],
         c \in Conn => /\ r \in ConnState /\ r.reader = conn[c].reader
                       /\ r.registered = conn[c].registered /\ r.command = conn[c].command
                       /\ Answered(c) => r.stop \/ (r.outbound = 0 /\ ~r.in_flight)
  PROVE  /\ conn' \in [Conn -> ConnState]
         /\ \A d \in Conn: /\ conn'[d].reader = conn[d].reader
                           /\ conn'[d].registered = conn[d].registered
                           /\ conn'[d].command = conn[d].command
         /\ \A d \in Conn: Answered(d) => Answered(d)'
<1>0. conn \in [Conn -> ConnState]
  BY DEF Typed
<1>1. CASE c \notin Conn
  <2>1. conn' = conn
    BY <1>0, <1>1
  <2> QED
    BY <1>0, <2>1, Zenon DEF Answered, outbound_empty
<1>2. CASE c \in Conn
  <2>1. conn'[c] = r /\ \A d \in Conn \ {c}: conn'[d] = conn[d]
    BY <1>0, <1>2
  <2>2. conn' \in [Conn -> ConnState]
    BY <1>0, <1>2
  <2> QED
    BY <1>2, <2>1, <2>2 DEF Answered, outbound_empty
<1> QED
  BY <1>1, <1>2

\* stop_connection leaves an answered client answered.
LEMMA StopsAside ==
  ASSUME Typed, NEW C, conn' = stop_connection(conn, C)
  PROVE  /\ conn' \in [Conn -> ConnState]
         /\ \A d \in Conn: /\ conn'[d].reader = conn[d].reader
                           /\ conn'[d].registered = conn[d].registered
                           /\ conn'[d].command = conn[d].command
         /\ \A d \in Conn: Answered(d) => Answered(d)'
<1>0. conn \in [Conn -> ConnState]
  BY DEF Typed
<1>1. /\ stop_connection(conn, C) \in [Conn -> ConnState]
      /\ \A c \in Conn:
           LET r == stop_connection(conn, C)[c]
           IN  /\ r.reader = conn[c].reader /\ r.registered = conn[c].registered
               /\ r.command = conn[c].command /\ r.in_flight = conn[c].in_flight
               /\ conn[c].stop \/ c \in C => r.stop
               /\ r.outbound = conn[c].outbound \/ r.stop
  BY <1>0, Stopping
<1> QED
  BY <1>1 DEF Answered, outbound_empty

\* The updates that a writer makes.
LEMMA WriterUpdates ==
  ASSUME NEW r \in ConnState, NEW pc \in WriterPoint, NEW n \in Nat, NEW b \in BOOLEAN
  PROVE  /\ [r EXCEPT !.writer = pc, !.outbound = n, !.in_flight = b] \in ConnState
         /\ [r EXCEPT !.writer = pc, !.in_flight = b] \in ConnState
         /\ [r EXCEPT !.writer = pc] \in ConnState
<1>1. [r EXCEPT !.writer = pc, !.outbound = n, !.in_flight = b] \in ConnState
  BY Zenon DEF ConnState
<1>2. [r EXCEPT !.writer = pc, !.in_flight = b] \in ConnState
  BY Zenon DEF ConnState
<1>3. [r EXCEPT !.writer = pc] \in ConnState
  BY DEF ConnState
<1> QED
  BY <1>1, <1>2, <1>3

\* A writer's steps.
LEMMA WriterMoves ==
  ASSUME IInv, NEW c \in Conn, writer_step(c)
  PROVE  IInv'
<1>0. Typed /\ conn[c] \in ConnState /\ conn \in [Conn -> ConnState]
  BY DEF IInv, Typed
<1>1. UNCHANGED <<acceptor, core, core_queue, node_conns, client_conns, stopping>>
  BY DEF writer_step, TakeFrame, SendReturns, SendFailed, WriterExit, WriterKeeps, maps
<1>a. {"wait", "send", "failed", "done"} \subseteq WriterPoint /\ TRUE \in BOOLEAN /\ FALSE \in BOOLEAN
  BY DEF WriterPoint
<1>b. conn[c].outbound \in Nat
  BY <1>0 DEF ConnState
<1>2. CASE TakeFrame(c)
  <2>1. conn' = [conn EXCEPT ![c] = [conn[c] EXCEPT !.writer = "send", !.outbound = conn[c].outbound - 1,
                                                    !.in_flight = TRUE]]
    BY <1>0, <1>2, Zenon DEF TakeFrame
  <2>2. PICK r \in ConnState: r = [conn[c] EXCEPT !.writer = "send", !.outbound = conn[c].outbound - 1,
                                                  !.in_flight = TRUE]
    <3>1. conn[c].outbound - 1 \in Nat
      BY <1>2, <1>b DEF TakeFrame
    <3> QED
      BY <1>0, <1>a, <1>b, <3>1, WriterUpdates, Zenon
  <2>3. /\ r.reader = conn[c].reader /\ r.registered = conn[c].registered
        /\ r.command = conn[c].command
    BY <1>0, <2>2 DEF ConnState
  <2>4. ~Answered(c)
    BY <1>2, <1>b DEF TakeFrame, Answered, outbound_empty
  <2>5. conn' = [conn EXCEPT ![c] = r]
    BY <2>1, <2>2
  <2> QED
    BY <1>0, <1>1, <2>3, <2>4, <2>5, Aside, Unmoved, Zenon
<1>3. CASE SendReturns(c)
  <2>1. PICK pc \in {"wait", "failed"}:
          conn' = [conn EXCEPT ![c] = [conn[c] EXCEPT !.writer = pc, !.in_flight = FALSE]]
    BY <1>0, <1>3, Zenon DEF SendReturns
  <2>2. PICK r \in ConnState: r = [conn[c] EXCEPT !.writer = pc, !.in_flight = FALSE]
    BY <1>0, <1>a, <1>b, WriterUpdates, Zenon
  <2>3. /\ r.reader = conn[c].reader /\ r.registered = conn[c].registered
        /\ r.command = conn[c].command /\ r.stop = conn[c].stop
        /\ r.outbound = conn[c].outbound /\ ~r.in_flight
    BY <1>0, <2>2 DEF ConnState
  <2>4. Answered(c) => r.stop \/ (r.outbound = 0 /\ ~r.in_flight)
    BY <2>3 DEF Answered, outbound_empty
  <2>5. conn' = [conn EXCEPT ![c] = r]
    BY <2>1, <2>2
  <2> QED
    BY <1>0, <1>1, <2>3, <2>4, <2>5, Aside, Unmoved, Zenon
<1>4. CASE SendFailed(c)
  <2>1. conn' = stop_connection([conn EXCEPT ![c] = [conn[c] EXCEPT !.writer = "done"]], {c})
    BY <1>0, <1>4 DEF SendFailed
  <2>2. PICK r \in ConnState: r = [[conn[c] EXCEPT !.writer = "done"] EXCEPT !.stop = TRUE, !.outbound = 0]
    <3>1. PICK t \in ConnState: t = [conn[c] EXCEPT !.writer = "done"]
      BY <1>0, <1>a, <1>b, WriterUpdates, Zenon
    <3>2. [t EXCEPT !.stop = TRUE, !.outbound = 0] \in ConnState
      BY Zenon DEF ConnState
    <3> QED
      BY <3>1, <3>2
  <2>3. /\ r.reader = conn[c].reader /\ r.registered = conn[c].registered
        /\ r.command = conn[c].command /\ r.stop
    BY <1>0, <2>2 DEF ConnState
  <2>4. conn' = [conn EXCEPT ![c] = r]
    BY <1>0, <2>1, <2>2, Zenon DEF stop_connection
  <2> QED
    BY <1>0, <1>1, <2>3, <2>4, Aside, Unmoved, Zenon
<1>5. CASE WriterExit(c)
  <2>1. conn' = [conn EXCEPT ![c] = [conn[c] EXCEPT !.writer = "done"]]
    BY <1>0, <1>5 DEF WriterExit
  <2>2. PICK r \in ConnState: r = [conn[c] EXCEPT !.writer = "done"]
    BY <1>0, <1>a, <1>b, WriterUpdates, Zenon
  <2>3. /\ r.reader = conn[c].reader /\ r.registered = conn[c].registered
        /\ r.command = conn[c].command /\ r.stop = conn[c].stop
        /\ r.outbound = conn[c].outbound /\ r.in_flight = conn[c].in_flight
    BY <1>0, <2>2 DEF ConnState
  <2>4. Answered(c) => r.stop \/ (r.outbound = 0 /\ ~r.in_flight)
    BY <2>3 DEF Answered, outbound_empty
  <2>5. conn' = [conn EXCEPT ![c] = r]
    BY <2>1, <2>2
  <2> QED
    BY <1>0, <1>1, <2>3, <2>4, <2>5, Aside, Unmoved, Zenon
<1> QED
  BY <1>2, <1>3, <1>4, <1>5 DEF writer_step

\* The reaper's steps, and those of stop() before it clears the maps.
LEMMA ReaperMoves ==
  ASSUME IInv,
         \/ connection_reaper_loop \/ JoinAcceptors \/ JoinCore
         \/ \E c \in Conn: StopConn(c) \/ RetireConn(c)
  PROVE  IInv'
<1>0. Typed /\ conn \in [Conn -> ConnState]
  BY DEF IInv, Typed
<1>1. UNCHANGED <<acceptor, core, core_queue, node_conns, client_conns, stopping>>
  BY Zenon DEF connection_reaper_loop, Reap, JoinReader, JoinWriter, ReaperExit, ReaperKeeps, maps,
         JoinAcceptors, JoinCore, StopConn, RetireConn, MainKeeps
<1>2. CASE ReaperExit \/ JoinAcceptors \/ JoinCore
  <2>1. conn' = conn
    BY <1>2 DEF ReaperExit, JoinAcceptors, JoinCore
  <2> QED
    BY <1>0, <1>1, <2>1, Unmoved DEF Answered, outbound_empty
<1>3. CASE (\E s \in Side: Reap(s)) \/ \E c \in Conn: StopConn(c)
  <2>1. PICK C: conn' = stop_connection(conn, C)
    BY <1>3, Zenon DEF Reap, StopConn
  <2> QED
    BY <1>0, <1>1, <2>1, StopsAside, Unmoved
<1>4. CASE JoinReader \/ JoinWriter \/ \E c \in Conn: RetireConn(c)
  <2>1. PICK c, r:
          /\ conn' = [conn EXCEPT ![c] = r]
          /\ c \in Conn => \/ \E h \in Handle: r = [conn[c] EXCEPT !.reader_handle = h]
                           \/ \E h \in Handle: r = [conn[c] EXCEPT !.writer_handle = h]
                           \/ r = [conn[c] EXCEPT !.retirement_queued = TRUE]
    <3>1. CASE JoinReader
      <4>1. conn' = [conn EXCEPT ![reaper.conn] =
                       [conn[reaper.conn] EXCEPT !.reader_handle = Joined(conn[reaper.conn].reader_handle)]]
        BY <1>0, <3>1 DEF JoinReader
      <4>2. reaper.conn \in Conn => Joined(conn[reaper.conn].reader_handle) \in Handle
        BY <1>0 DEF Joined, ConnState, Handle
      <4> QED
        BY <4>1, <4>2, Zenon
    <3>2. CASE JoinWriter
      <4>1. conn' = [conn EXCEPT ![reaper.conn] =
                       [conn[reaper.conn] EXCEPT !.writer_handle = Joined(conn[reaper.conn].writer_handle)]]
        BY <1>0, <3>2 DEF JoinWriter
      <4>2. reaper.conn \in Conn => Joined(conn[reaper.conn].writer_handle) \in Handle
        BY <1>0 DEF Joined, ConnState, Handle
      <4> QED
        BY <4>1, <4>2, Zenon
    <3>3. CASE \E c \in Conn: RetireConn(c)
      BY <1>0, <3>3, Zenon DEF RetireConn
    <3> QED
      BY <1>4, <3>1, <3>2, <3>3
  <2>2. ASSUME c \in Conn
        PROVE  /\ r \in ConnState /\ r.reader = conn[c].reader
               /\ r.registered = conn[c].registered /\ r.command = conn[c].command
               /\ r.stop = conn[c].stop /\ r.outbound = conn[c].outbound
               /\ r.in_flight = conn[c].in_flight
    <3>1. conn[c] \in ConnState
      BY <1>0, <2>2
    <3>2. CASE \E h \in Handle: r = [conn[c] EXCEPT !.reader_handle = h]
      BY <3>1, <3>2 DEF ConnState
    <3>3. CASE \E h \in Handle: r = [conn[c] EXCEPT !.writer_handle = h]
      BY <3>1, <3>3 DEF ConnState
    <3>4. CASE r = [conn[c] EXCEPT !.retirement_queued = TRUE]
      BY <3>1, <3>4, Zenon DEF ConnState
    <3> QED
      BY <2>1, <2>2, <3>2, <3>3, <3>4
  <2>3. c \in Conn /\ Answered(c) => r.stop \/ (r.outbound = 0 /\ ~r.in_flight)
    BY <2>2 DEF Answered, outbound_empty
  <2> QED
    BY <1>0, <1>1, <2>1, <2>2, <2>3, Aside, Unmoved, Zenon
<1> QED
  BY <1>2, <1>3, <1>4 DEF connection_reaper_loop

-----------------------------------------------------------------------------
(* Acceptors.                                                              *)

\* The acceptors' steps; the two sides never set up the same connection.
LEMMA AcceptorMoves ==
  ASSUME IInv, NEW s \in Side, accept_loop(s)
  PROVE  IInv'
<1>0. /\ Typed /\ SettingUp /\ Announced /\ NoneLost /\ AnswerFirst
      /\ conn \in [Conn -> ConnState] /\ acceptor \in [Side -> AcceptorState]
      /\ acceptor[s] \in AcceptorState
  BY DEF IInv, Typed
<1>1. UNCHANGED <<core, core_queue, node_conns, client_conns, stopping>>
  BY DEF accept_loop, Accept, StartWriter, StartReader, AssignReader, AcceptorExit, AcceptorKeeps, maps
<1>2. acceptor[s].conn \in Conn \union {None}
  BY <1>0 DEF AcceptorState
<1>3. ASSUME NEW pc \in {"accept", "writer", "reader", "assign", "done"}, NEW c \in Conn \union {None},
             AcceptorTo(s, pc, c)
      PROVE  /\ acceptor' \in [Side -> AcceptorState] /\ acceptor'[s].pc = pc /\ acceptor'[s].conn = c
             /\ \A t \in Side \ {s}: acceptor'[t] = acceptor[t]
  <2>1. [pc |-> pc, conn |-> c] \in AcceptorState
    BY DEF AcceptorState
  <2> QED
    BY <1>0, <1>3, <2>1 DEF AcceptorTo
<1>4. CASE \E c \in Conn: Accept(s, c)
  <2>1. PICK c \in Conn: Accept(s, c)
    BY <1>4
  <2>2. conn' = conn /\ SideOf(c) = s /\ AcceptorTo(s, "writer", c) /\ conn[c].reader = "none"
    BY <2>1 DEF Accept, Fresh
  <2>3. /\ acceptor' \in [Side -> AcceptorState] /\ acceptor'[s].pc = "writer" /\ acceptor'[s].conn = c
        /\ \A t \in Side \ {s}: acceptor'[t] = acceptor[t]
    BY <1>3, <2>2
  <2>4. SettingUp'
    BY <1>0, <2>2, <2>3 DEF SettingUp
  <2> QED
    BY <1>0, <1>1, <2>2, <2>3, <2>4, Unmoved DEF Answered, outbound_empty
<1>5. CASE AcceptorExit(s)
  <2>1. conn' = conn /\ AcceptorTo(s, "done", None)
    BY <1>5 DEF AcceptorExit
  <2>2. /\ acceptor' \in [Side -> AcceptorState] /\ acceptor'[s].pc = "done"
        /\ \A t \in Side \ {s}: acceptor'[t] = acceptor[t]
    BY <1>3, <2>1
  <2>3. SettingUp'
    BY <1>0, <2>1, <2>2 DEF SettingUp
  <2> QED
    BY <1>0, <1>1, <2>1, <2>2, <2>3, Unmoved DEF Answered, outbound_empty
<1>6. CASE StartWriter(s) \/ AssignReader(s)
  <2>1. PICK c \in Conn \union {None}: c = acceptor[s].conn
    BY <1>2
  <2>2. PICK r:
          /\ conn' = [conn EXCEPT ![c] = r]
          /\ \/ r = [conn[c] EXCEPT !.writer = "wait", !.writer_handle = "joinable"]
             \/ r = [conn[c] EXCEPT !.reader_handle = "joinable"]
    <3>1. CASE StartWriter(s)
      <4>1. conn' = [conn EXCEPT ![c] = [conn[c] EXCEPT !.writer = "wait", !.writer_handle = "joinable"]]
        BY <1>0, <2>1, <3>1, Zenon DEF StartWriter
      <4> QED
        BY <4>1, Zenon
    <3>2. CASE AssignReader(s)
      <4>1. conn' = [conn EXCEPT ![c] = [conn[c] EXCEPT !.reader_handle = "joinable"]]
        BY <1>0, <2>1, <3>2 DEF AssignReader
      <4> QED
        BY <4>1, Zenon
    <3> QED
      BY <1>6, <3>1, <3>2
  <2>3. ASSUME c \in Conn
        PROVE  /\ r \in ConnState /\ r.reader = conn[c].reader
               /\ r.registered = conn[c].registered /\ r.command = conn[c].command
               /\ r.stop = conn[c].stop /\ r.outbound = conn[c].outbound
               /\ r.in_flight = conn[c].in_flight
    <3>1. conn[c] \in ConnState
      BY <1>0, <2>3
    <3>2. CASE r = [conn[c] EXCEPT !.writer = "wait", !.writer_handle = "joinable"]
      BY <3>1, <3>2, Zenon DEF ConnState, WriterPoint, Handle
    <3>3. CASE r = [conn[c] EXCEPT !.reader_handle = "joinable"]
      BY <3>1, <3>3 DEF ConnState, Handle
    <3> QED
      BY <2>2, <3>2, <3>3
  <2>4. c \in Conn /\ Answered(c) => r.stop \/ (r.outbound = 0 /\ ~r.in_flight)
    BY <2>3 DEF Answered, outbound_empty
  <2>5. /\ conn' \in [Conn -> ConnState]
        /\ \A d \in Conn: /\ conn'[d].reader = conn[d].reader
                          /\ conn'[d].registered = conn[d].registered
                          /\ conn'[d].command = conn[d].command
        /\ \A d \in Conn: Answered(d) => Answered(d)'
    BY <1>0, <2>2, <2>3, <2>4, Aside, Zenon
  <2>6. PICK pc \in {"reader", "accept"}: \E d \in {c, None}:
          /\ AcceptorTo(s, pc, d)
          /\ pc = "reader" => acceptor[s].pc = "writer" /\ d = c
    BY <1>6, <2>1 DEF StartWriter, AssignReader
  <2>7. /\ acceptor' \in [Side -> AcceptorState] /\ acceptor'[s].pc = pc
        /\ pc = "reader" => acceptor'[s].conn = acceptor[s].conn
        /\ \A t \in Side \ {s}: acceptor'[t] = acceptor[t]
    BY <1>3, <2>1, <2>6
  <2>8. SettingUp'
    BY <1>0, <2>5, <2>6, <2>7 DEF SettingUp
  <2> QED
    BY <1>0, <1>1, <2>5, <2>7, <2>8, Unmoved
<1>7. CASE StartReader(s)
  <2>1. PICK c \in Conn \union {None}: c = acceptor[s].conn
    BY <1>2
  <2>2. /\ ReaderTo(c, "hello") /\ AcceptorTo(s, "assign", c)
        /\ c \in Conn => conn[c].reader = "none" /\ SideOf(c) = s
    BY <1>0, <1>7, <2>1 DEF StartReader, ReaderTo, SettingUp
  <2>3. /\ acceptor' \in [Side -> AcceptorState] /\ acceptor'[s].pc = "assign"
        /\ \A t \in Side \ {s}: acceptor'[t] = acceptor[t]
    BY <1>3, <2>2
  <2>4. CASE c \notin Conn
    <3>1. conn' = conn
      BY <1>0, <2>2, <2>4 DEF ReaderTo
    <3>2. SettingUp'
      BY <1>0, <2>3, <3>1 DEF SettingUp
    <3> QED
      BY <1>0, <1>1, <2>3, <3>1, <3>2, Unmoved DEF Answered, outbound_empty
  <2>5. CASE c \in Conn
    <3>0. "hello" \in ReaderPoint
      BY DEF ReaderPoint
    <3>1. /\ conn' \in [Conn -> ConnState] /\ \A d \in Conn \ {c}: conn'[d] = conn[d]
          /\ conn'[c].reader = "hello" /\ conn'[c].registered = conn[c].registered
          /\ Answered(c) => Answered(c)'
      BY <1>0, <2>2, <2>5, <3>0, ReaderGoes
    <3>2. Typed'
      BY <1>0, <1>1, <2>3, <3>1 DEF Typed
    <3>3. SettingUp'
      <4> SUFFICES ASSUME NEW t \in Side, NEW d \in Conn, acceptor'[t].pc \in {"writer", "reader"},
                          acceptor'[t].conn = d
                   PROVE  SideOf(d) = t /\ conn'[d].reader = "none"
        BY DEF SettingUp
      <4>1. t # s
        BY <2>3
      <4>2. SideOf(d) = t /\ conn[d].reader = "none"
        BY <1>0, <2>3, <4>1 DEF SettingUp
      <4> QED
        BY <2>2, <2>5, <3>1, <4>1, <4>2
    <3>4. Announced'
      BY <1>0, <3>1 DEF Announced
    <3>5. \A d \in Conn: Answered(d) => Answered(d)'
      BY <3>1 DEF Answered, outbound_empty
    <3>6. AnswerFirst'
      BY <1>0, <1>1, <3>5, AnswerKept
    <3>7. NoneLost'
      <4> SUFFICES ASSUME ~stopping, NEW d \in Conn PROVE Tracked(d)'
        BY <1>1 DEF NoneLost
      <4>1. /\ Tracked(d) /\ (WillReport(d) => WillReport(d)')
            /\ conn[d].registered => conn'[d].registered
        BY <1>0, <2>2, <2>5, <3>1 DEF NoneLost, WillReport
      <4> QED
        BY <1>1, <4>1, TrackedKept
    <3> QED
      BY <3>2, <3>3, <3>4, <3>6, <3>7 DEF IInv
  <2> QED
    BY <2>4, <2>5
<1> QED
  BY <1>4, <1>5, <1>6, <1>7 DEF accept_loop

-----------------------------------------------------------------------------
(* The core thread.                                                        *)

\* What the core may do to connections: it stops them, or queues frames.
LEMMA CoreTouches ==
  ASSUME Typed, NEW C, NEW D,
         \/ conn' = conn \/ conn' = stop_connection(conn, C) \/ conn' = queue_outbound(conn, C)
         \/ conn' = queue_outbound(stop_connection(conn, C), D)
  PROVE  /\ conn' \in [Conn -> ConnState]
         /\ \A d \in Conn: /\ conn'[d].reader = conn[d].reader
                           /\ conn'[d].registered = conn[d].registered
                           /\ conn'[d].command = conn[d].command
<1>0. conn \in [Conn -> ConnState]
  BY DEF Typed
<1>1. CASE conn' = conn
  BY <1>0, <1>1
<1>2. CASE conn' = stop_connection(conn, C)
  BY <1>2, StopsAside
<1>3. CASE conn' = queue_outbound(conn, C)
  BY <1>0, <1>3, Queueing
<1>4. CASE conn' = queue_outbound(stop_connection(conn, C), D)
  <2>1. PICK f \in [Conn -> ConnState]:
          /\ f = stop_connection(conn, C)
          /\ \A c \in Conn: /\ f[c].reader = conn[c].reader /\ f[c].registered = conn[c].registered
                            /\ f[c].command = conn[c].command
    BY <1>0, Stopping
  <2>2. /\ queue_outbound(f, D) \in [Conn -> ConnState]
        /\ \A c \in Conn: /\ queue_outbound(f, D)[c].reader = f[c].reader
                          /\ queue_outbound(f, D)[c].registered = f[c].registered
                          /\ queue_outbound(f, D)[c].command = f[c].command
    BY Queueing
  <2> QED
    BY <1>4, <2>1, <2>2
<1> QED
  BY <1>1, <1>2, <1>3, <1>4

\* A step of the core thread that leaves every reader where it is.
LEMMA CoreSteps ==
  ASSUME IInv, UNCHANGED acceptor, conn' \in [Conn -> ConnState],
         \A d \in Conn: /\ conn'[d].reader = conn[d].reader
                        /\ conn'[d].registered = conn[d].registered
                        /\ conn'[d].command = conn[d].command,
         core' \in CoreState, core_queue' \in Seq(CoreCommand),
         node_conns' \in [NodeId -> Conn \union {None}], client_conns' \subseteq Conn,
         AnswerFirst',
         ~stopping' => ~stopping /\ \A c \in Conn: Tracked(c) => Tracked(c)'
  PROVE  IInv'
<1>0. Typed /\ SettingUp /\ Announced /\ NoneLost /\ AnswerFirst
  BY DEF IInv
<1>1. Typed'
  BY <1>0 DEF Typed
<1>2. SettingUp'
  BY <1>0, SettingUpKept
<1>3. Announced'
  BY <1>0, AnnouncedKept
<1>4. NoneLost'
  BY <1>0 DEF NoneLost
<1> QED
  BY <1>1, <1>2, <1>3, <1>4 DEF IInv

\* A command is taken from the queue.
LEMMA Pops ==
  ASSUME Typed, NEW k \in Kind, NEW c \in Conn \union {None}, Command(k, c)
  PROVE  /\ core_queue' \in Seq(CoreCommand)
         /\ k \in {"connected", "register"} => Introduced(core_queue, c)
         /\ \A d \in Conn: Introduced(core_queue', d) => Introduced(core_queue, d)
         /\ \A d \in Conn: Farewell(core_queue, d) /\ (k # "disconnected" \/ d # c)
                           => Farewell(core_queue', d)
         /\ \A d \in Conn: Farewell(core_queue, d) /\ Introduced(core_queue', d)
                           => Farewell(core_queue', d)
         /\ UNCHANGED acceptor /\ core.pc = "loop"
<1>1. /\ core_queue \in Seq(CoreCommand) /\ core_queue # << >> /\ core_queue' = Tail(core_queue)
      /\ Head(core_queue) = [kind |-> k, conn |-> c]
  BY DEF Typed, Command
<1>2. Head(core_queue) = core_queue[1] /\ 1 \in DOMAIN core_queue
  BY <1>1
<1>3. k \in {"connected", "register"} => Introduced(core_queue, c)
  BY <1>1, <1>2 DEF Introduced
<1>4. \A d \in Conn: k # "disconnected" \/ d # c => Head(core_queue) # Disconnected(d)
  BY <1>1 DEF Disconnected
<1>5. UNCHANGED acceptor /\ core.pc = "loop"
  BY DEF Command, CoreKeeps
<1> QED
  BY <1>1, <1>3, <1>4, <1>5, PopKeeps

\* The handlers that keep the maps or add a connection to them.
LEMMA CoreHandles ==
  ASSUME IInv, NEW c \in Conn,
         \/ handle_node_register(c) \/ HandleReport(c) \/ HandleConnected(c) \/ HandleRequest(c)
         \/ handle_node_disconnect(c)
  PROVE  IInv'
<1>0. /\ Typed /\ core \in CoreState /\ client_conns \subseteq Conn /\ c \in Conn \union {None}
      /\ node_conns \in [NodeId -> Conn \union {None}]
  BY DEF IInv, Typed
<1>1. PICK k \in Kind:
        /\ Command(k, c)
        /\ handle_node_register(c) <=> k = "register"
        /\ HandleConnected(c) <=> k = "connected"
        /\ handle_node_disconnect(c) <=> k = "disconnected"
  <2>1. ASSUME NEW k \in Kind, NEW l \in Kind, Command(k, c), Command(l, c) PROVE k = l
    BY <2>1 DEF Command
  <2>2. {"register", "report", "connected", "request", "disconnected"} \subseteq Kind
    BY DEF Kind
  <2>3. /\ handle_node_register(c) => Command("register", c)
        /\ HandleReport(c) => Command("report", c)
        /\ HandleConnected(c) => Command("connected", c)
        /\ HandleRequest(c) => Command("request", c)
        /\ handle_node_disconnect(c) => Command("disconnected", c)
    BY Zenon DEF handle_node_register, HandleReport, HandleConnected, HandleRequest, handle_node_disconnect
  <2> QED
    BY <2>1, <2>2, <2>3
<1>2. /\ core_queue' \in Seq(CoreCommand)
      /\ k \in {"connected", "register"} => Introduced(core_queue, c)
      /\ \A d \in Conn: Introduced(core_queue', d) => Introduced(core_queue, d)
      /\ \A d \in Conn: Farewell(core_queue, d) /\ (k # "disconnected" \/ d # c)
                        => Farewell(core_queue', d)
      /\ \A d \in Conn: Farewell(core_queue, d) /\ Introduced(core_queue', d)
                        => Farewell(core_queue', d)
      /\ UNCHANGED acceptor /\ core.pc = "loop"
  BY <1>0, <1>1, Pops
<1>3. UNCHANGED <<core, stopping>>
  BY DEF handle_node_register, HandleReport, HandleConnected, HandleRequest, handle_node_disconnect
<1>4. AnswerFirst'
  BY <1>2, <1>3, Zenon DEF AnswerFirst
<1>5. \E C, D: \/ conn' = conn \/ conn' = stop_connection(conn, C) \/ conn' = queue_outbound(conn, C)
               \/ conn' = queue_outbound(stop_connection(conn, C), D)
  BY DEF handle_node_register, HandleReport, HandleConnected, HandleRequest, handle_node_disconnect
<1>6. /\ conn' \in [Conn -> ConnState]
      /\ \A d \in Conn: /\ conn'[d].reader = conn[d].reader
                        /\ conn'[d].registered = conn[d].registered
                        /\ conn'[d].command = conn[d].command
  BY <1>0, <1>5, CoreTouches
<1>7. /\ node_conns' \in [NodeId -> Conn \union {None}] /\ client_conns' \subseteq Conn
      /\ \A d \in Conn: Known(d)' => Known(d) \/ (d = c /\ k \in {"connected", "register"})
      /\ k = "disconnected" => ~Known(c)'
  <2>1. CASE handle_node_register(c)
    <3>1. PICK n: node_conns' = [node_conns EXCEPT ![n] = c] \/ node_conns' = node_conns
      BY <2>1 DEF handle_node_register
    <3>2. client_conns' = client_conns /\ k = "register"
      BY <1>1, <2>1, Zenon DEF handle_node_register
    <3>3. node_conns' \in [NodeId -> Conn \union {None}]
      BY <1>0, <3>1
    <3> QED
      BY <1>0, <3>1, <3>2, <3>3 DEF Known
  <2>2. CASE HandleReport(c) \/ HandleRequest(c)
    <3>1. UNCHANGED <<node_conns, client_conns>> /\ k # "disconnected"
      BY <1>1, <2>2 DEF HandleReport, HandleRequest, maps, Command
    <3> QED
      BY <1>0, <3>1 DEF Known
  <2>3. CASE HandleConnected(c)
    <3>1. /\ UNCHANGED node_conns /\ k = "connected"
          /\ client_conns' = client_conns \/ client_conns' = client_conns \union {c}
      BY <1>1, <2>3 DEF HandleConnected
    <3> QED
      BY <1>0, <3>1 DEF Known
  <2>4. CASE handle_node_disconnect(c)
    <3>1. /\ node_conns' = [n \in NodeId |-> IF node_conns[n] = c THEN None ELSE node_conns[n]]
          /\ client_conns' = client_conns \ {c}
      BY <2>4 DEF handle_node_disconnect
    <3> QED
      BY <1>0, <3>1, ConnAssumption DEF Known
  <2> QED
    BY <2>1, <2>2, <2>3, <2>4
<1>8. \A d \in Conn: Tracked(d) => Tracked(d)'
  <2> SUFFICES ASSUME NEW d \in Conn, Tracked(d), Known(d)' \/ Introduced(core_queue', d)
               PROVE  conn'[d].registered /\ (WillReport(d)' \/ Farewell(core_queue', d))
    BY Zenon DEF Tracked
  <2>1. Known(d) \/ Introduced(core_queue, d)
    BY <1>2, <1>7
  <2>2. conn[d].registered /\ (WillReport(d) \/ Farewell(core_queue, d))
    BY <2>1 DEF Tracked
  <2>3. Farewell(core_queue, d) => Farewell(core_queue', d)
    BY <1>2, <1>7
  <2> QED
    BY <1>6, <2>2, <2>3, Zenon DEF WillReport
<1> QED
  BY <1>0, <1>2, <1>3, <1>4, <1>6, <1>7, <1>8, CoreSteps, Zenon

\* A step of the core that leaves the maps, and takes from the queue at most a
\* command that is no disconnect.
LEMMA CoreCloses ==
  ASSUME IInv, UNCHANGED <<acceptor, node_conns, client_conns, stopping>>, core' \in CoreState,
         AnswerFirst',
         NEW C,
         conn' = conn \/ conn' = stop_connection(conn, C) \/ conn' = queue_outbound(conn, C),
         \/ UNCHANGED core_queue
         \/ \E c \in Conn \union {None}, k \in Kind: Command(k, c) /\ k # "disconnected"
  PROVE  IInv'
<1>0. /\ Typed /\ node_conns' \in [NodeId -> Conn \union {None}] /\ client_conns' \subseteq Conn
  BY DEF IInv, Typed
<1>1. /\ conn' \in [Conn -> ConnState]
      /\ \A d \in Conn: /\ conn'[d].reader = conn[d].reader
                        /\ conn'[d].registered = conn[d].registered
                        /\ conn'[d].command = conn[d].command
  BY <1>0, CoreTouches
<1>2. /\ core_queue' \in Seq(CoreCommand)
      /\ \A d \in Conn: Introduced(core_queue', d) => Introduced(core_queue, d)
      /\ \A d \in Conn: Farewell(core_queue, d) => Farewell(core_queue', d)
  <2>1. CASE UNCHANGED core_queue
    BY <1>0, <2>1 DEF Typed
  <2>2. CASE \E c \in Conn \union {None}, k \in Kind: Command(k, c) /\ k # "disconnected"
    BY <1>0, <2>2, Pops
  <2> QED
    BY <2>1, <2>2
<1>3. \A d \in Conn: Tracked(d) => Tracked(d)'
  BY <1>1, <1>2 DEF Tracked, Known, WillReport
<1> QED
  BY <1>0, <1>1, <1>2, <1>3, CoreSteps

\* The steps of the core thread around a shutdown, and its sweep.
LEMMA CoreDrains ==
  ASSUME IInv,
         \/ Goodbye \/ DrainOne \/ DrainDeadline \/ CoreExit \/ CoreSweep
         \/ \E c \in Conn: HandleNodeShutdown(c) \/ handle_coordinator_shutdown(c)
  PROVE  IInv'
<1>0. /\ Typed /\ core \in CoreState /\ AnswerFirst /\ conn \in [Conn -> ConnState]
      /\ core.waiting \in Seq(Conn) /\ core.draining \in SUBSET Conn /\ core.sends \in Nat
  BY Zenon DEF IInv, Typed, CoreState
<1>1. UNCHANGED <<acceptor, node_conns, client_conns, stopping>>
  BY Zenon DEF Goodbye, DrainOne, DrainDeadline, CoreExit, CoreSweep, HandleNodeShutdown,
         handle_coordinator_shutdown, maps, CoreKeeps, Command
<1>a. << >> \in Seq(Conn) /\ {"shutdown", "exit"} \subseteq Kind /\ 0 \in Nat /\ {} \in SUBSET Conn
  BY DEF Kind
<1>2. CASE Goodbye
  <2>1. core' = [core EXCEPT !.pc = "loop", !.waiting = << >>] /\ UNCHANGED core_queue
    BY <1>2 DEF Goodbye
  <2>2. core' \in CoreState /\ core'.pc = "loop"
    BY <1>0, <1>a, <2>1, Zenon DEF CoreState
  <2>3. AnswerFirst'
    BY <2>2 DEF AnswerFirst
  <2>4. PICK C: conn' = stop_connection(conn, C)
    BY <1>2 DEF Goodbye
  <2> QED
    BY <1>1, <2>1, <2>2, <2>3, <2>4, CoreCloses
<1>3. CASE DrainOne
  <2>1. PICK c \in Conn, q \in Seq(Conn):
          /\ core.pc = "drain" /\ core.waiting # << >> /\ c = Head(core.waiting)
          /\ Answered(c) /\ core' = [core EXCEPT !.waiting = q]
    <3>1. Head(core.waiting) \in Conn /\ Tail(core.waiting) \in Seq(Conn) /\ core.waiting # << >>
      BY <1>0, <1>3 DEF DrainOne
    <3>2. core' = [core EXCEPT !.waiting = Tail(core.waiting)] \/ core' = [core EXCEPT !.waiting = << >>]
      BY <1>3, SMTT(30) DEF DrainOne
    <3>3. core.pc = "drain" /\ Answered(Head(core.waiting))
      BY <1>3 DEF DrainOne, Answered
    <3> QED
      BY <1>a, <3>1, <3>2, <3>3, Zenon
  <2>2. conn' = conn /\ UNCHANGED core_queue
    BY <1>3 DEF DrainOne
  <2>3. /\ core' \in CoreState /\ core'.pc = core.pc /\ core'.draining = core.draining
        /\ core'.late = core.late
    BY <1>0, <1>a, <2>1, SMTT(30) DEF CoreState
  <2>4. \A d \in Conn: Answered(d) => Answered(d)'
    BY <2>2 DEF Answered, outbound_empty
  <2>5. AnswerFirst'
    BY <1>0, <2>1, <2>3, <2>4 DEF AnswerFirst
  <2> QED
    BY <1>1, <2>2, <2>3, <2>5, CoreCloses
<1>4. CASE DrainDeadline
  <2>1. core' = [core EXCEPT !.late = TRUE, !.waiting = << >>] /\ UNCHANGED core_queue /\ conn' = conn
    BY <1>4 DEF DrainDeadline
  <2>2. core' \in CoreState /\ core'.late
    BY <1>0, <1>a, <2>1, Zenon DEF CoreState
  <2>3. AnswerFirst'
    BY <2>2 DEF AnswerFirst
  <2> QED
    BY <1>1, <2>1, <2>2, <2>3, CoreCloses
<1>5. CASE CoreExit
  <2>1. core' = [core EXCEPT !.pc = "done"] /\ conn' = conn /\ Command("exit", None)
    BY <1>5 DEF CoreExit
  <2>2. core' \in CoreState /\ core'.pc = "done"
    BY <1>0, <1>a, <2>1 DEF CoreState
  <2>3. AnswerFirst'
    BY <2>2 DEF AnswerFirst
  <2>4. \E c \in Conn \union {None}, k \in Kind: Command(k, c) /\ k # "disconnected"
    BY <1>a, <2>1
  <2> QED
    BY <1>1, <2>1, <2>2, <2>3, <2>4, CoreCloses
<1>6. CASE CoreSweep
  <2>1. /\ core' = [core EXCEPT !.sends = core.sends - 1] /\ core.pc = "loop" /\ core.sends > 0
        /\ UNCHANGED core_queue
    BY <1>6 DEF CoreSweep
  <2>2. core.sends - 1 \in Nat
    BY <1>0, <2>1
  <2>3. core' \in CoreState /\ core'.pc = "loop"
    BY <1>0, <1>a, <2>1, <2>2 DEF CoreState
  <2>4. AnswerFirst'
    BY <2>3 DEF AnswerFirst
  <2>5. PICK C: conn' = stop_connection(conn, C) \/ conn' = queue_outbound(conn, C)
    BY <1>6 DEF CoreSweep
  <2> QED
    BY <1>1, <2>1, <2>3, <2>4, <2>5, CoreCloses
<1>7. CASE \E c \in Conn: HandleNodeShutdown(c)
  <2>1. PICK c \in Conn: HandleNodeShutdown(c)
    BY <1>7
  <2>2. Command("shutdown", c) /\ core.pc = "loop"
    BY <2>1, Zenon DEF HandleNodeShutdown, Command
  <2>3. core' = core \/ core' = [core EXCEPT !.pc = "goodbye", !.waiting = <<c>>]
    BY <2>1, Zenon DEF HandleNodeShutdown
  <2>4. <<c>> \in Seq(Conn)
    OBVIOUS
  <2>5. core' \in CoreState /\ core'.pc # "drain"
    BY <1>0, <1>a, <2>2, <2>3, <2>4, Zenon DEF CoreState
  <2>6. AnswerFirst'
    BY <2>5 DEF AnswerFirst
  <2>7. conn' = queue_outbound(conn, {c}) \/ conn' = conn
    BY <2>1, Zenon DEF HandleNodeShutdown
  <2>8. \E d \in Conn \union {None}, k \in Kind: Command(k, d) /\ k # "disconnected"
    BY <1>a, <2>2
  <2> QED
    BY <1>1, <2>5, <2>6, <2>7, <2>8, CoreCloses
<1>8. CASE \E c \in Conn: handle_coordinator_shutdown(c)
  <2>1. PICK c \in Conn: handle_coordinator_shutdown(c)
    BY <1>8
  <2>2. PICK D: /\ D = {d \in NodeConn: ~conn[d].stop /\ \E n \in NodeId: node_conns[n] = d}
                /\ conn' = queue_outbound(conn, respond_client(c) \union D)
                /\ \E order \in Bijection(1 .. Cardinality(D), D):
                     core' = [core EXCEPT !.pc = "drain", !.waiting = <<c>> \o order,
                                          !.draining = {c} \union D]
    BY <2>1, Zenon DEF handle_coordinator_shutdown
  <2>3. D \subseteq NodeConn /\ D \subseteq Conn /\ {c} \union D \in SUBSET Conn /\ Cardinality(D) \in Nat
    <3>1. IsFiniteSet(D)
      BY <2>2, ConnAssumption, FS_Subset
    <3> QED
      BY <2>2, <3>1, FS_CardinalityType DEF Conn
  <2>4. PICK order \in Seq(Conn): core' = [core EXCEPT !.pc = "drain", !.waiting = <<c>> \o order,
                                                       !.draining = {c} \union D]
    <3>1. PICK order \in Bijection(1 .. Cardinality(D), D):
            core' = [core EXCEPT !.pc = "drain", !.waiting = <<c>> \o order, !.draining = {c} \union D]
      BY <2>2, Zenon
    <3>2. order \in [1 .. Cardinality(D) -> D]
      BY DEF Bijection, Injection
    <3>3. order \in Seq(Conn)
      BY <2>3, <3>2
    <3> QED
      BY <3>1, <3>3, Zenon
  <2>5. PICK q \in Seq(Conn): q = <<c>> \o order /\ q # << >> /\ Head(q) = c
    <3>1. <<c>> \in Seq(Conn) /\ Len(<<c>>) = 1 /\ <<c>>[1] = c
      OBVIOUS
    <3>2. /\ <<c>> \o order \in Seq(Conn) /\ Len(<<c>> \o order) = 1 + Len(order)
          /\ (<<c>> \o order)[1] = c /\ Len(order) \in Nat
      BY <3>1, ConcatProperties, LenProperties
    <3>3. <<c>> \o order # << >>
      BY <3>2, EmptySeq
    <3>4. Head(<<c>> \o order) = c
      BY <3>2, <3>3, HeadTailProperties
    <3> QED
      BY <3>2, <3>3, <3>4, Zenon
  <2>6. /\ core' \in CoreState /\ core'.pc = "drain" /\ core'.waiting = q
        /\ core'.draining = {c} \union D
    BY <1>0, <1>a, <2>3, <2>4, <2>5, Zenon DEF CoreState
  <2>7. AnswerFirst'
    <3>1. \A d \in core'.draining \intersect ClientConn: d = c
      BY <2>3, <2>6, ConnAssumption
    <3> QED
      BY <2>5, <2>6, <3>1 DEF AnswerFirst
  <2>8. \E d \in Conn \union {None}, k \in Kind: Command(k, d) /\ k # "disconnected"
    BY <1>a, <2>1, Zenon DEF handle_coordinator_shutdown
  <2> QED
    BY <1>1, <2>2, <2>6, <2>7, <2>8, CoreCloses, Zenon
<1> QED
  BY <1>2, <1>3, <1>4, <1>5, <1>6, <1>7, <1>8

\* What sets stopping_, and the end of stop().
LEMMA StopMoves ==
  ASSUME IInv, FinishShutdown \/ BeginStop \/ JoinReaper
  PROVE  IInv'
<1>0. /\ Typed /\ core \in CoreState /\ AnswerFirst /\ conn \in [Conn -> ConnState]
      /\ core_queue \in Seq(CoreCommand)
      /\ node_conns \in [NodeId -> Conn \union {None}] /\ client_conns \subseteq Conn
  BY DEF IInv, Typed
<1>1. UNCHANGED <<acceptor, conn>>
  BY DEF FinishShutdown, BeginStop, JoinReaper, CoreKeeps, MainKeeps
<1>2. \A d \in Conn: Answered(d) => Answered(d)'
  BY <1>1 DEF Answered, outbound_empty
<1>3. CASE FinishShutdown \/ BeginStop
  <2>1. core_queue' \in Seq(CoreCommand)
    <3>1. core_queue' = <<[kind |-> "exit", conn |-> None]>> \o core_queue
      BY <1>3 DEF FinishShutdown, BeginStop, PushFront
    <3>2. PICK m \in CoreCommand: m = [kind |-> "exit", conn |-> None]
      BY Zenon DEF CoreCommand, Kind
    <3> QED
      BY <1>0, <3>1, <3>2
  <2>2. stopping' /\ UNCHANGED <<node_conns, client_conns>>
    BY <1>3 DEF FinishShutdown, BeginStop, maps
  <2>3. core' \in CoreState /\ AnswerFirst'
    <3>1. CASE FinishShutdown
      <4>1. core' \in CoreState /\ core'.pc = "loop"
        <5>1. << >> \in Seq(Conn) /\ {} \in SUBSET Conn /\ 0 \in Nat
          OBVIOUS
        <5> QED
          BY <1>0, <3>1, <5>1, Zenon DEF FinishShutdown, CoreState
      <4> QED
        BY <4>1 DEF AnswerFirst
    <3>2. CASE BeginStop
      <4>1. UNCHANGED core
        BY <3>2 DEF BeginStop, MainKeeps
      <4> QED
        BY <1>0, <1>2, <4>1, AnswerKept
    <3> QED
      BY <1>3, <3>1, <3>2
  <2> QED
    BY <1>0, <1>1, <2>1, <2>2, <2>3, CoreSteps
<1>4. CASE JoinReaper
  <2>1. /\ core_queue' = << >> /\ node_conns' = [n \in NodeId |-> None] /\ client_conns' = {}
        /\ UNCHANGED <<core, stopping>>
    BY <1>4 DEF JoinReaper, MainKeeps
  <2>2. AnswerFirst'
    BY <1>0, <1>2, <2>1, AnswerKept
  <2>3. \A c \in Conn: ~Known(c)' /\ ~Introduced(core_queue', c)
    BY <2>1, ConnAssumption DEF Known, Introduced
  <2>4. \A c \in Conn: Tracked(c)'
    BY <2>3 DEF Tracked
  <2>5. core_queue' \in Seq(CoreCommand) /\ node_conns' \in [NodeId -> Conn \union {None}]
    BY <2>1
  <2> QED
    BY <1>0, <1>1, <2>1, <2>2, <2>4, <2>5, CoreSteps
<1> QED
  BY <1>3, <1>4

-----------------------------------------------------------------------------
(* Theorems.                                                               *)

\* The invariant holds throughout, for any number of connections and nodes and
\* any bounds of the queues.
THEOREM ConnectionsSafe == Spec => []IInv
<1>1. Init => IInv
  <2> SUFFICES ASSUME Init PROVE IInv
    OBVIOUS
  <2>1. Fresh \in ConnState /\ Fresh.reader = "none"
    BY ConnAssumption DEF Fresh, ConnState, ReaderPoint, WriterPoint, Handle, Kind
  <2>2. conn = [c \in Conn |-> Fresh] /\ conn \in [Conn -> ConnState]
    BY <2>1 DEF Init
  <2>3. /\ acceptor \in [Side -> AcceptorState] /\ \A s \in Side: acceptor[s].pc = "accept"
    BY DEF Init, AcceptorState
  <2>4. core \in CoreState /\ core.pc = "loop"
    <3>1. core = [pc |-> "loop", waiting |-> << >>, draining |-> {}, late |-> FALSE, sends |-> CoreSends]
      BY DEF Init
    <3>2. << >> \in Seq(Conn) /\ {} \in SUBSET Conn /\ CoreSends \in Nat
      BY ConnAssumption
    <3> QED
      BY <3>1, <3>2 DEF CoreState
  <2>5. /\ core_queue = << >> /\ node_conns = [n \in NodeId |-> None] /\ client_conns = {}
    BY DEF Init
  <2>6. Typed
    BY <2>2, <2>3, <2>4, <2>5 DEF Typed
  <2>7. SettingUp /\ AnswerFirst
    BY <2>3, <2>4 DEF SettingUp, AnswerFirst
  <2>8. Announced
    BY <2>1, <2>2 DEF Announced
  <2>9. \A c \in Conn: ~Known(c) /\ ~Introduced(core_queue, c)
    BY <2>5, ConnAssumption DEF Known, Introduced
  <2>10. NoneLost
    BY <2>9 DEF NoneLost, Tracked
  <2> QED
    BY <2>6, <2>7, <2>8, <2>10 DEF IInv
<1>2. IInv /\ [Next]_vars => IInv'
  <2> SUFFICES ASSUME IInv, [Next]_vars PROVE IInv'
    OBVIOUS
  <2>1. CASE UNCHANGED vars
    <3>1. /\ conn' = conn /\ conn \in [Conn -> ConnState]
          /\ UNCHANGED <<acceptor, core, core_queue, node_conns, client_conns, stopping>>
      BY <2>1 DEF vars, maps, lists, IInv, Typed
    <3> QED
      BY <3>1, Unmoved DEF Answered, outbound_empty
  <2>2. CASE \E s \in Side: accept_loop(s)
    BY <2>2, AcceptorMoves
  <2>3. CASE \E c \in Conn: reader_step(c) \/ peer_step(c)
    BY <2>3, ReaderWalks, ReaderWorks DEF reader_step, peer_step
  <2>4. CASE \E c \in Conn: writer_step(c)
    BY <2>4, WriterMoves
  <2>5. CASE process \/ CoreExit \/ CoreSweep
    BY <2>5, CoreHandles, CoreDrains, StopMoves DEF process
  <2>6. CASE connection_reaper_loop \/ BeginStop \/ stop_step
    BY <2>6, ReaperMoves, StopMoves DEF stop_step
  <2> QED
    BY <2>1, <2>2, <2>3, <2>4, <2>5, <2>6 DEF Next
<1> QED
  BY <1>1, <1>2, PTL DEF Spec

\* No map refers to a connection whose reader has returned and about which no
\* command is queued, whatever order readers, the core and the queue came in.
THEOREM MapsForget == Spec => []NoZombie
<1>1. IInv => NoZombie
  <2> SUFFICES ASSUME IInv, NEW c \in Conn, conn[c].reader = "done", ~stopping,
                      \A i \in DOMAIN core_queue: core_queue[i].conn # c
               PROVE  ~Known(c)
    BY DEF NoZombie, Known
  <2>1. ~WillReport(c) /\ Tracked(c)
    BY DEF WillReport, IInv, NoneLost
  <2>2. ~Farewell(core_queue, c)
    BY DEF Farewell, Disconnected
  <2> QED
    BY <2>1, <2>2 DEF Tracked
<1> QED
  BY <1>1, ConnectionsSafe, PTL

\* The client that asked for the shutdown has its answer handed to the transport
\* before stopping_ is set, unless its connection failed or the deadline passed.
THEOREM ClientAnswered == Spec => []AnswerLeavesFirst
<1>1. IInv => AnswerLeavesFirst
  BY DEF IInv, AnswerFirst, AnswerLeavesFirst, Answered
<1> QED
  BY <1>1, ConnectionsSafe, PTL

=============================================================================
