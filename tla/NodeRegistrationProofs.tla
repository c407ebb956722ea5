----------------------- MODULE NodeRegistrationProofs -----------------------
(***************************************************************************)
(* For any number of tries, a node that runs on the connection the         *)
(* coordinator keeps as current has the session the coordinator keeps.     *)
(* The argument: a reader hands on at most one registration, so the core   *)
(* answers each connection once, and the current one was answered last.    *)
(***************************************************************************)
EXTENDS NodeRegistration, SequenceTheorems, TLAPS

Pc == {"connect", "hello", "register", "ack", "running", "ended"}
Early == {"none", "hello", "read", "push"}
Command == [kind: {"register", "disconnected"}, conn: Conn]

Typed ==
  /\ node \in [pc: Pc, conn: 0 .. Tries, session: Nat]
  /\ node.pc \in {"hello", "register", "ack", "running"} => node.conn \in Conn
  /\ down \in [Conn -> Seq(Nat)]
  /\ reader \in [Conn -> Early \union {"registered", "report", "done"}]
  /\ core_queue \in Seq(Command)
  /\ nodes \in [connected: BOOLEAN, session: Nat]
  /\ node_conns \in 0 .. Tries

\* The core has not answered a registration of connection c.
Unanswered(c) ==
  down[c] = << >> /\ node_conns # c /\ ~(node.pc = "running" /\ node.conn = c)

Register(c) == [kind |-> "register", conn |-> c]

\* A connection whose reader has not handed its registration on is unanswered,
\* and so is one whose registration is queued; it is queued once.
OneRegistration ==
  /\ \A c \in Conn: c > node.conn => reader[c] = "none"
  /\ \A c \in Conn: reader[c] \in Early => Unanswered(c)
  /\ \A c \in Conn, i \in 1 .. Len(core_queue): core_queue[i] = Register(c) =>
       reader[c] \notin Early /\ Unanswered(c)
  /\ \A c \in Conn, i, j \in 1 .. Len(core_queue):
       core_queue[i] = Register(c) /\ core_queue[j] = Register(c) => i = j

\* The session of the current connection is in its ack, or the node has it.
AckOrSession ==
  /\ \A c \in Conn: Len(down[c]) <= 1
  /\ node.pc = "running" => down[node.conn] = << >>
  /\ \A c \in Conn: node_conns = c =>
       \/ down[c] = <<nodes.session>>
       \/ node.conn = c /\ node.pc \in {"running", "ended"} /\ node.session = nodes.session

IInv == Typed /\ OneRegistration /\ AckOrSession

\* A sequence of one element has nothing behind its head.
LEMMA TailOfOne ==
  ASSUME NEW S, NEW s \in Seq(S), s # << >>, Len(s) <= 1
  PROVE  Head(s) \in S /\ Tail(s) = << >>
<1>1. Len(s) \in Nat \ {0} /\ Len(Tail(s)) = Len(s) - 1 /\ Tail(s) \in Seq(S)
  BY EmptySeq, HeadTailProperties
<1>2. Len(Tail(s)) = 0
  BY <1>1
<1> QED
  BY <1>1, <1>2, EmptySeq, HeadTailProperties

\* The node's steps keep the invariant: it connects, sends its hello and its
\* registration, reads the ack, gives a try up or loses its connection.
LEMMA NodeKeeps ==
  ASSUME IInv, NodeStep \/ TryFails \/ RuntimeEnds
  PROVE  IInv'
<1> USE TriesAssumption DEF Conn
<1>0. Typed /\ OneRegistration /\ AckOrSession
  BY DEF IInv
<1>1. CASE Connect
  <2>1. node.conn + 1 \in Conn /\ node' = [node EXCEPT !.pc = "hello", !.conn = @ + 1]
    BY <1>0, <1>1 DEF Connect, Typed
  <2>2. Typed'
    <3>1. node' \in [pc: Pc, conn: 0 .. Tries, session: Nat] /\ node'.conn \in Conn
      <4>1. "hello" \in Pc /\ node.conn + 1 \in 0 .. Tries
        BY <2>1 DEF Pc
      <4> QED
        BY <1>0, <2>1, <4>1, Zenon DEF Typed
    <3>2. reader' \in [Conn -> Early \union {"registered", "report", "done"}]
      BY <1>0, <1>1 DEF Connect, Typed, Early
    <3> QED
      BY <1>0, <1>1, <3>1, <3>2, SMTT(30) DEF Connect, coordinator, Typed
  <2>3. OneRegistration'
    <3>1. /\ node.pc = "connect" /\ node.conn \in Nat
          /\ node'.pc = "hello" /\ node'.conn = node.conn + 1 /\ node'.conn \in Conn
      BY <1>0, <1>1, <2>1 DEF Connect, Typed
    <3>2. /\ UNCHANGED core_queue /\ UNCHANGED down /\ UNCHANGED node_conns
          /\ reader'[node'.conn] = "hello"
          /\ \A d \in Conn: d # node'.conn => reader'[d] = reader[d]
      BY <1>0, <1>1, <3>1 DEF Connect, coordinator, Typed
    <3>3. reader[node'.conn] = "none" /\ \A d \in Conn: d > node'.conn => reader[d] = "none"
      BY <1>0, <3>1 DEF OneRegistration
    <3>4. \A d \in Conn: Unanswered(d) => Unanswered(d)'
      BY <3>1, <3>2 DEF Unanswered
    <3>5. \A d \in Conn: (reader'[d] \in Early) = (reader[d] \in Early)
      BY <3>2, <3>3 DEF Early
    <3>6. \A d \in Conn: d > node'.conn => reader'[d] = "none"
      BY <3>1, <3>2, <3>3
    <3> QED
      BY <1>0, <3>2, <3>4, <3>5, <3>6, Zenon DEF OneRegistration
  <2>4. AckOrSession'
    BY <1>0, <1>1, <2>1 DEF Connect, coordinator, Typed, AckOrSession
  <2> QED
    BY <2>2, <2>3, <2>4 DEF IInv
<1>2. CASE ReadAck
  <2> DEFINE c == node.conn
  <2>1. /\ c \in Conn /\ down[c] \in Seq(Nat) /\ down[c] # << >> /\ Len(down[c]) <= 1
    BY <1>0, <1>2 DEF ReadAck, Typed, AckOrSession
  <2>2. Head(down[c]) \in Nat /\ Tail(down[c]) = << >>
    BY <2>1, TailOfOne
  <2>3. /\ node' = [node EXCEPT !.pc = "running", !.session = Head(down[c])]
        /\ down' = [down EXCEPT ![c] = << >>] /\ UNCHANGED <<reader, core_queue, nodes, node_conns>>
    BY <1>2, <2>2, Zenon DEF ReadAck, coordinator
  <2>4. node' \in [pc: Pc, conn: 0 .. Tries, session: Nat]
    BY <1>0, <2>2, <2>3, Zenon DEF Typed, Pc
  <2>5. node'.pc = "running" /\ node'.conn = c /\ node'.session = Head(down[c])
    BY <1>0, <2>3 DEF Typed
  <2>6. Typed'
    BY <1>0, <2>1, <2>3, <2>4, <2>5, EmptySeq, SMTT(30) DEF Typed
  <2>7. \A d \in Conn: Unanswered(d) => Unanswered(d)'
    BY <1>0, <2>1, <2>3, <2>5 DEF Typed, Unanswered
  <2>8. OneRegistration'
    BY <1>0, <2>3, <2>5, <2>7 DEF OneRegistration
  <2>9. AckOrSession'
    <3>1. node_conns = c => Head(down[c]) = nodes.session
      <4>1. node_conns = c => down[c] = <<nodes.session>>
        BY <1>0, <1>2, <2>1 DEF AckOrSession, ReadAck
      <4> QED
        BY <4>1
    <3>2. down'[c] = << >> /\ \A d \in Conn: d # c => down'[d] = down[d]
      BY <1>0, <2>1, <2>3 DEF Typed
    <3>3. \A d \in Conn: Len(down'[d]) <= 1
      BY <1>0, <3>2, EmptySeq DEF AckOrSession
    <3>4. ASSUME NEW d \in Conn, node_conns = d
          PROVE  \/ down'[d] = <<nodes.session>>
                 \/ node'.conn = d /\ node'.session = nodes.session
      <4>1. CASE d = c
        BY <2>5, <3>1, <3>4, <4>1
      <4>2. CASE d # c
        BY <1>0, <3>2, <3>4, <4>2 DEF AckOrSession
      <4> QED
        BY <4>1, <4>2
    <3> QED
      BY <2>3, <2>5, <3>2, <3>3, <3>4 DEF AckOrSession
  <2> QED
    BY <2>6, <2>8, <2>9 DEF IInv
<1>3. CASE SendHello \/ SendRegister \/ TryFails \/ start_fails \/ RuntimeEnds
  <2>1. /\ UNCHANGED <<down, reader, coordinator>>
        /\ \E pc \in Pc \ {"running"}: node' = [node EXCEPT !.pc = pc]
        /\ node'.pc \in {"hello", "register", "ack"} => node.pc \in {"hello", "register", "ack"}
        /\ node.pc = "ended" \/ node.pc = "running" => node'.pc = "ended"
    BY <1>0, <1>3 DEF SendHello, SendRegister, TryFails, start_fails, RuntimeEnds, Node, Typed, Pc
  <2>2. Typed'
    BY <1>0, <2>1, Zenon DEF coordinator, Typed, Pc
  <2>3. OneRegistration'
    BY <1>0, <2>1 DEF coordinator, Typed, OneRegistration, Unanswered, Pc
  <2>4. AckOrSession'
    BY <1>0, <2>1 DEF coordinator, Typed, AckOrSession, Pc
  <2> QED
    BY <2>2, <2>3, <2>4 DEF IInv
<1> QED
  BY <1>1, <1>2, <1>3 DEF NodeStep

\* The readers hand on one registration each.
LEMMA ReaderKeeps ==
  ASSUME IInv, NEW c \in Conn, node_reader(c) \/ PushTimesOut(c) \/ ConnectionLost(c)
  PROVE  IInv'
<1> USE TriesAssumption DEF Conn
<1>0. Typed /\ OneRegistration /\ AckOrSession
  BY DEF IInv
<1>1. UNCHANGED <<node, down, nodes, node_conns>>
  BY DEF node_reader, PushTimesOut, ConnectionLost, ReadHello, ReadRegister, PushRegister,
         ReaderEnds, PushDisconnected, coordinator
<1>2. AckOrSession'
  BY <1>0, <1>1 DEF AckOrSession
<1>3. /\ reader' \in [Conn -> Early \union {"registered", "report", "done"}]
      /\ \A d \in Conn: reader[d] = "none" => reader'[d] = "none"
      /\ \A d \in Conn: reader'[d] \in Early => reader[d] \in Early
  BY <1>0, Zenon DEF node_reader, PushTimesOut, ConnectionLost, ReadHello, ReadRegister, PushRegister,
              ReaderEnds, PushDisconnected, Typed, Early
<1>4. CASE UNCHANGED core_queue
  <2>1. Typed'
    BY <1>0, <1>1, <1>3, <1>4 DEF Typed
  <2>2. OneRegistration'
    <3>1. \A d \in Conn: Unanswered(d)' = Unanswered(d)
      BY <1>1 DEF Unanswered
    <3>2. \A d \in Conn: d > node'.conn => reader'[d] = "none"
      BY <1>0, <1>1, <1>3, Zenon DEF OneRegistration
    <3> QED
      BY <1>0, <1>3, <1>4, <3>1, <3>2, Zenon DEF OneRegistration
  <2> QED
    BY <1>2, <2>1, <2>2 DEF IInv
<1>5. CASE PushRegister(c) \/ PushDisconnected(c)
  <2>1. PICK kind \in {"register", "disconnected"}:
          /\ Push(kind, c) /\ reader'[c] \notin Early
          /\ kind = "register" => reader[c] = "push"
    BY <1>0, <1>5, SMTT(30) DEF PushRegister, PushDisconnected, Typed, Early
  <2> DEFINE m == [kind |-> kind, conn |-> c]
             n == Len(core_queue)
  <2>2. m \in Command /\ n \in Nat
    BY <1>0 DEF Command, Typed
  <2>3. /\ core_queue' \in Seq(Command) /\ Len(core_queue') = n + 1 /\ core_queue'[n + 1] = m
        /\ \A i \in 1 .. n: core_queue'[i] = core_queue[i]
    BY <1>0, <2>1, <2>2, AppendProperties DEF Push, Typed
  <2>4. Typed'
    BY <1>0, <1>1, <1>3, <2>3, SMTT(30) DEF Typed
  <2>5. \A d \in Conn: m = Register(d) => d = c /\ reader[c] = "push"
    BY <2>1 DEF Register
  <2>6. \A d \in Conn: Unanswered(d) => Unanswered(d)'
    BY <1>1 DEF Unanswered
  <2> HIDE DEF m, n
  <2>7. \A i \in 1 .. Len(core_queue'): i \in 1 .. n \/ i = n + 1
    BY <2>2, <2>3
  <2>8. OneRegistration'
    <3>1. \A d \in Conn: d > node'.conn => reader'[d] = "none"
      BY <1>0, <1>1, <1>3 DEF OneRegistration
    <3>2. \A d \in Conn: reader'[d] \in Early => Unanswered(d)'
      BY <1>0, <1>3, <2>6 DEF OneRegistration
    <3>3. \A d \in Conn, i \in 1 .. Len(core_queue'): core_queue'[i] = Register(d) =>
            reader'[d] \notin Early /\ Unanswered(d)'
      BY <1>0, <1>3, <2>1, <2>3, <2>5, <2>6, <2>7 DEF OneRegistration, n, Early
    <3>4. \A d \in Conn, i, j \in 1 .. Len(core_queue'):
            core_queue'[i] = Register(d) /\ core_queue'[j] = Register(d) => i = j
      BY <1>0, <2>3, <2>5, <2>7, SMTT(30) DEF OneRegistration, n, Early
    <3> QED
      BY <3>1, <3>2, <3>3, <3>4 DEF OneRegistration
  <2> QED
    BY <1>2, <2>4, <2>8 DEF IInv
<1> QED
  BY <1>4, <1>5 DEF node_reader, PushTimesOut, ConnectionLost, ReadHello, ReadRegister, ReaderEnds,
                    coordinator

\* The core answers a registration; what is left in the queue is of others.
LEMMA CoreKeeps ==
  ASSUME IInv, NEW c \in Conn, handle_node_register(c) \/ handle_node_disconnect(c)
  PROVE  IInv'
<1> USE TriesAssumption DEF Conn
<1>0. Typed /\ OneRegistration /\ AckOrSession
  BY DEF IInv
<1> DEFINE n == Len(core_queue)
<1>1. /\ UNCHANGED <<node, reader>> /\ core_queue # << >> /\ core_queue' = Tail(core_queue)
      /\ Head(core_queue).conn = c
  BY DEF handle_node_register, handle_node_disconnect, IsNext
<1>2. /\ n \in Nat \ {0} /\ core_queue' \in Seq(Command) /\ Len(core_queue') = n - 1
      /\ Head(core_queue) = core_queue[1]
      /\ \A i \in 1 .. n - 1: core_queue'[i] = core_queue[i + 1]
  BY <1>0, <1>1, HeadTailProperties, EmptySeq DEF Typed
<1> HIDE DEF n
<1>3. \A i \in 1 .. n - 1: i + 1 \in 1 .. n
  BY <1>2
<1>4. ASSUME \A d \in Conn, i \in 1 .. n - 1:
               core_queue[i + 1] = Register(d) /\ Unanswered(d) => Unanswered(d)',
             \A d \in Conn: reader[d] \in Early => Unanswered(d)'
      PROVE  OneRegistration'
  <2>1. \A d \in Conn: d > node'.conn => reader'[d] = "none"
    BY <1>0, <1>1 DEF OneRegistration
  <2>2. \A d \in Conn, i \in 1 .. Len(core_queue'): core_queue'[i] = Register(d) =>
          reader'[d] \notin Early /\ Unanswered(d)'
    BY <1>0, <1>1, <1>2, <1>3, <1>4 DEF OneRegistration, n
  <2>3. \A d \in Conn, i, j \in 1 .. Len(core_queue'):
          core_queue'[i] = Register(d) /\ core_queue'[j] = Register(d) => i = j
    <3> SUFFICES ASSUME NEW d \in Conn, NEW i \in 1 .. n - 1, NEW j \in 1 .. n - 1,
                        core_queue'[i] = Register(d), core_queue'[j] = Register(d)
                 PROVE  i = j
      BY <1>2
    <3>1. /\ i + 1 \in 1 .. Len(core_queue) /\ core_queue[i + 1] = Register(d)
          /\ j + 1 \in 1 .. Len(core_queue) /\ core_queue[j + 1] = Register(d)
      BY <1>2, <1>3 DEF n
    <3>2. i + 1 = j + 1
      BY <1>0, <3>1 DEF OneRegistration
    <3> QED
      BY <3>2, <1>2
  <2>4. \A d \in Conn: reader'[d] \in Early => Unanswered(d)'
    BY <1>1, <1>4
  <2> QED
    BY <2>1, <2>2, <2>3, <2>4 DEF OneRegistration
<1>6. CASE UNCHANGED <<nodes, node_conns, down>>
  <2>1. Typed'
    BY <1>0, <1>1, <1>2, <1>6 DEF Typed
  <2>2. AckOrSession'
    BY <1>0, <1>1, <1>6 DEF AckOrSession
  <2>3. \A d \in Conn: Unanswered(d) => Unanswered(d)'
    BY <1>1, <1>6 DEF Unanswered
  <2>4. OneRegistration'
    BY <1>0, <1>4, <2>3 DEF OneRegistration
  <2> QED
    BY <2>1, <2>2, <2>4 DEF IInv
<1>7. CASE handle_node_disconnect(c) /\ node_conns = c
  <2>1. node_conns' = 0 /\ nodes' = [nodes EXCEPT !.connected = FALSE] /\ UNCHANGED down
    BY <1>7 DEF handle_node_disconnect
  <2>2. nodes' \in [connected: BOOLEAN, session: Nat]
    BY <1>0, <2>1, Zenon DEF Typed
  <2>3. Typed'
    BY <1>0, <1>1, <1>2, <2>1, <2>2, SMTT(30) DEF Typed
  <2>4. AckOrSession'
    BY <1>0, <1>1, <2>1 DEF AckOrSession
  <2>5. \A d \in Conn: Unanswered(d) => Unanswered(d)'
    BY <1>1, <2>1 DEF Unanswered
  <2>6. OneRegistration'
    BY <1>0, <1>4, <2>5 DEF OneRegistration
  <2> QED
    BY <2>3, <2>4, <2>6 DEF IInv
<1>8. CASE handle_node_register(c) /\ ~Stopped(c)
  <2> DEFINE s == nodes.session + 1
  <2>1. core_queue[1] = Register(c)
    BY <1>2, <1>8 DEF handle_node_register, IsNext, Register
  <2>2. reader[c] \notin Early /\ Unanswered(c)
    BY <1>0, <1>2, <2>1 DEF OneRegistration, n
  <2>3. nodes' = [connected |-> TRUE, session |-> s]
    BY <1>8 DEF handle_node_register
  <2>4. nodes'.session = s /\ s \in Nat /\ nodes' \in [connected: BOOLEAN, session: Nat]
    BY <1>0, <2>3 DEF Typed
  <2>5. node_conns' = c /\ down' = [down EXCEPT ![c] = Append(@, s)]
    BY <1>8, <2>4 DEF handle_node_register
  <2> HIDE DEF s
  <2>6. down'[c] = <<s>> /\ \A d \in Conn \ {c}: down'[d] = down[d]
    BY <1>0, <2>2, <2>4, <2>5 DEF Typed, Unanswered
  <2>7. <<s>> \in Seq(Nat) /\ Len(<<s>>) = 1
    BY <2>4
  <2>8. down' \in [Conn -> Seq(Nat)]
    BY <1>0, <2>5, <2>6, <2>7 DEF Typed
  <2>9. Typed'
    BY <1>0, <1>1, <1>2, <2>4, <2>5, <2>8, SMTT(30) DEF Typed
  <2>10. AckOrSession'
    <3>1. \A d \in Conn: Len(down'[d]) <= 1
      <4> SUFFICES ASSUME NEW d \in Conn PROVE Len(down'[d]) <= 1
        OBVIOUS
      <4>1. CASE d = c
        <5>1. Len(down'[d]) = 1
          BY <2>6, <2>7, <4>1, Zenon
        <5> QED
          BY <5>1
      <4>2. CASE d # c
        BY <1>0, <2>6, <4>2 DEF AckOrSession
      <4> QED
        BY <4>1, <4>2
    <3>2. node'.pc = "running" => down'[node'.conn] = << >>
      BY <1>0, <1>1, <2>2, <2>6, Zenon DEF AckOrSession, Unanswered, Typed
    <3> QED
      BY <2>4, <2>5, <2>6, <3>1, <3>2 DEF AckOrSession
  <2>11. \A d \in Conn \ {c}: Unanswered(d) => Unanswered(d)'
    BY <1>1, <2>5, <2>6 DEF Unanswered
  <2>12. \A i \in 1 .. n - 1: core_queue[i + 1] # Register(c)
    <3> SUFFICES ASSUME NEW i \in 1 .. n - 1, core_queue[i + 1] = Register(c)
                 PROVE  FALSE
      OBVIOUS
    <3>1. i + 1 \in 1 .. Len(core_queue) /\ 1 \in 1 .. Len(core_queue)
      BY <1>2, <1>3 DEF n
    <3>2. i + 1 = 1
      BY <1>0, <2>1, <3>1 DEF OneRegistration
    <3> QED
      BY <3>2, <1>2
  <2>13. OneRegistration'
    BY <1>0, <1>4, <2>2, <2>11, <2>12 DEF OneRegistration
  <2> QED
    BY <2>9, <2>10, <2>13 DEF IInv
<1> QED
  BY <1>6, <1>7, <1>8 DEF handle_node_register, handle_node_disconnect

\* The invariant holds throughout, for any number of tries.
THEOREM RegistrationSafe == Spec => []IInv
<1>1. Init => IInv
  BY TriesAssumption, EmptySeq
     DEF Init, IInv, Typed, OneRegistration, AckOrSession, Unanswered, Pc, Early, Conn
<1>2. IInv /\ [Next]_vars => IInv'
  <2>1. IInv /\ UNCHANGED vars => IInv'
    BY DEF IInv, Typed, OneRegistration, AckOrSession, Unanswered, vars, coordinator
  <2> QED
    BY <2>1, NodeKeeps, ReaderKeeps, CoreKeeps DEF Next, process
<1> QED
  BY <1>1, <1>2, PTL DEF Spec

\* A running node on the current connection has the session the coordinator
\* gave that connection, whatever abandoned registrations arrived when.
THEOREM SessionsAgree == Spec => []SameSession
<1>1. IInv => SameSession
  <2> SUFFICES ASSUME IInv, node.pc = "running", node_conns = node.conn PROVE node.session = nodes.session
    BY DEF SameSession
  <2>1. node.conn \in Conn /\ down[node.conn] = << >> /\ <<nodes.session>> # << >>
    BY DEF IInv, Typed, AckOrSession
  <2> QED
    BY <2>1 DEF IInv, AckOrSession
<1> QED
  BY <1>1, RegistrationSafe, PTL

\* handle_node_register makes at most one session per connection: when it
\* takes a registration it does not drop, that connection is not the current
\* one, no ack is on its way to it, and the node has read none from it.
THEOREM OneSessionPerTry ==
  Spec => [][\A c \in Conn: handle_node_register(c) /\ ~Stopped(c) => Unanswered(c)]_vars
<1>1. ASSUME IInv, NEW c \in Conn, handle_node_register(c) PROVE Unanswered(c)
  <2>1. /\ core_queue \in Seq(Command) /\ core_queue # << >> /\ Head(core_queue) = Register(c)
    BY <1>1 DEF handle_node_register, IsNext, Register, IInv, Typed
  <2>2. 1 \in 1 .. Len(core_queue) /\ core_queue[1] = Register(c)
    BY <2>1, EmptySeq
  <2> QED
    BY <1>1, <2>2 DEF IInv, OneRegistration
<1>2. IInv /\ [Next]_vars
        => [\A c \in Conn: handle_node_register(c) /\ ~Stopped(c) => Unanswered(c)]_vars
  BY <1>1
<1> QED
  BY <1>2, RegistrationSafe, PTL DEF Spec
=============================================================================
