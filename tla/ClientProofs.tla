--------------------------- MODULE ClientProofs ----------------------------
(***************************************************************************)
(* What a user runs: the client and the launcher.                          *)
(*                                                                         *)
(* For every set of tasks with any dependencies, number of connections and *)
(* number of requests on each, what a client's call returns answers that   *)
(* call, and what it says of the task stays true.  The inductive invariant *)
(* says of every request and response under way, in whichever sequence it  *)
(* waits, how its connection and id relate to the client's current ones,   *)
(* and of every response that it is true of the tasks already.             *)
(*                                                                         *)
(* For every number of nodes, the four invariants of Launcher hold in      *)
(* every reachable state.  The inductive invariant says how far each loop  *)
(* of the owner has come: launch owns exactly the children before k, the   *)
(* forced phase of shutdown_all has killed the children before k, and the  *)
(* second look of wait_registered has found the children before k among    *)
(* those that the status saw.                                              *)
(***************************************************************************)
EXTENDS ClientRequests, Launcher, SequenceTheorems, TLAPS

-----------------------------------------------------------------------------
(* The client.                                                             *)

Pc == {"closed", "idle", "waiting"}
Answer == {"accepted", "rejected", "not found", "cancel requested", "cancelled"} \union RestState

\* A request of connection c with this id and operation is one the client has
\* made: an earlier one, or the one it made last.
Made(c, id, op) ==
  /\ c <= client.conn
  /\ c = client.conn => /\ id < client.next_request_id
                        /\ id = client.next_request_id - 1 => op = client.op

\* The coordinator knows that t is to stop, or has cancelled it since.
ToStop(t) == state[t] # "Succeeded" /\ (t \in cancel_requested \/ state[t] = "Cancelled")

\* What an answer about task t says is true.
Holds(t, answer) ==
  /\ answer = "accepted" => state[t] # "Absent"
  /\ answer = "cancelled" => state[t] = "Cancelled"
  /\ answer \in Settled => state[t] = answer
  /\ answer = "cancel requested" /\ epoch = 1 => ToStop(t)

\* The requests and the responses that can be under way.
Message == {m \in [conn: Conn, id: Nat, op: Op]: Made(m.conn, m.id, m.op)}
Response == [id: Nat, op: Op, answer: Answer]
Reply(c) == {r \in Response: Made(c, r.id, r.op) /\ Holds(r.op[2], r.answer)}

Typed ==
  /\ client \in [pc: Pc, conn: 0 .. Conns, next_request_id: Nat \ {0}, op: Op \union {None}]
  /\ client.pc # "closed" => client.conn \in Conn
  /\ client.pc = "waiting" => client.op \in Op
  /\ open \in [Conn -> BOOLEAN]
  /\ state \in [Task -> RestState] /\ epoch \in Nat \ {0}

UnderWay ==
  /\ wire \in [Conn -> Seq(Message)] /\ core_queue \in Seq(Message)
  /\ replies \in [Conn -> Seq(Response)]
  /\ \A c \in Conn: replies[c] \in Seq(Reply(c))

Answered ==
  /\ answers \in SUBSET [op: Op, answer: Answer, for: Op] /\ AnswersOwnRequest
  /\ \A a \in answers: Holds(a.op[2], a.answer)

IInv == Typed /\ UnderWay /\ Answered

\* No step makes an answer untrue.
TruthStays == \A t \in Task, a \in Answer: Holds(t, a) => Holds(t, a)'

\* Every step that tasks take, by themselves, at a client's request or at a
\* restart of the coordinator, leaves what was said of them true.
LEMMA TasksKeep ==
  ASSUME state \in [Task -> RestState], epoch \in Nat \ {0},
         \/ UNCHANGED <<tasks, epoch>>
         \/ (\E t \in Task: Tasks!Submit(t) \/ Tasks!Cancel(t)) /\ UNCHANGED epoch
         \/ Tasks!Execute /\ UNCHANGED epoch
         \/ Tasks!Restart /\ epoch' = epoch + 1
  PROVE  state' \in [Task -> RestState] /\ epoch' \in Nat \ {0} /\ TruthStays
<1> DEFINE Kept(t) ==
             /\ state[t] # "Absent" => state'[t] # "Absent"
             /\ state[t] \in Settled => state'[t] = state[t]
             /\ epoch' = 1 => epoch = 1 /\ (ToStop(t) => ToStop(t)')
<1>0. Tasks!RestState = RestState
  BY DEF RestState, Tasks!RestState, GraphState, Tasks!GraphState, TaskState, Tasks!TaskState
<1>1. CASE UNCHANGED <<tasks, epoch>>
  <2>1. \A t \in Task: Kept(t)
    BY <1>1 DEF tasks, ToStop
  <2> QED
    BY <1>1, <2>1, Zenon DEF tasks, TruthStays, Holds
<1>2. ASSUME NEW u \in Task, Tasks!Submit(u), UNCHANGED epoch
      PROVE  state' \in [Task -> RestState] /\ \A t \in Task: Kept(t)
  <2>1. state[u] = "Absent" /\ \E s \in {"Ready", "Blocked"}: state' = [state EXCEPT ![u] = s]
    BY <1>2, Zenon DEF Tasks!Submit
  <2>2. UNCHANGED cancel_requested
    BY <1>2 DEF Tasks!Submit
  <2> QED
    BY <1>2, <2>1, <2>2 DEF ToStop, Settled, RestState, GraphState, TaskState
<1>3. ASSUME NEW u \in Task, Tasks!Cancel(u), UNCHANGED epoch
      PROVE  state' \in [Task -> RestState] /\ \A t \in Task: Kept(t)
  <2>1. CASE state[u] = "Running"
    <3>1. state' = state /\ cancel_requested' = cancel_requested \union {u}
      BY <1>3, <2>1 DEF Tasks!Cancel
    <3> QED
      BY <1>3, <3>1 DEF ToStop
  <2>2. CASE state[u] # "Running"
    <3>1. /\ state[u] \notin Settled
          /\ state' = [state EXCEPT ![u] = "Cancelled"]
          /\ cancel_requested' = cancel_requested \ {u}
      BY <1>3, <2>2 DEF Tasks!Cancel, Settled, is_terminal, Tasks!is_terminal
    <3> QED
      BY <1>3, <3>1 DEF ToStop, RestState, GraphState, TaskState
  <2> QED
    BY <2>1, <2>2
<1>4. ASSUME Tasks!Execute, UNCHANGED epoch
      PROVE  state' \in [Task -> RestState] /\ \A t \in Task: Kept(t)
  <2>1. state' \in [Task -> RestState] /\ UNCHANGED cancel_requested
    BY <1>0, <1>4 DEF Tasks!Execute
  <2>2. ASSUME NEW t \in Task, state'[t] # state[t] PROVE Kept(t)
    <3>1. state'[t] \in Tasks!Moves(state[t], t \in cancel_requested)
      BY <1>4, <2>2 DEF Tasks!Execute
    <3>2. /\ state[t] \notin Settled /\ state'[t] # "Absent"
          /\ t \in cancel_requested => state'[t] # "Succeeded"
      BY <3>1 DEF Tasks!Moves, Settled
    <3> QED
      BY <1>4, <2>1, <3>2 DEF ToStop, Settled
  <2>3. ASSUME NEW t \in Task, state'[t] = state[t] PROVE Kept(t)
    BY <1>4, <2>1, <2>3 DEF ToStop
  <2> QED
    BY <2>1, <2>2, <2>3
<1>5. ASSUME Tasks!Restart, epoch' = epoch + 1
      PROVE  state' \in [Task -> RestState] /\ \A t \in Task: Kept(t)
  <2>1. state' \in [Task -> RestState]
    BY <1>0, <1>5 DEF Tasks!Restart
  <2>2. ASSUME NEW t \in Task
        PROVE  \/ state'[t] = state[t]
               \/ state[t] \notin Settled /\ state'[t] \in {"RetryPending", "Failed"}
    BY <1>5, <2>2 DEF Tasks!Restart, is_active, Tasks!is_active, Settled
  <2>3. epoch' # 1
    BY <1>5
  <2> QED
    BY <2>1, <2>2, <2>3
<1>6. ASSUME \A t \in Task: Kept(t) PROVE TruthStays
  BY <1>6, Zenon DEF TruthStays, Holds, Settled
<1> QED
  BY <1>1, <1>2, <1>3, <1>4, <1>5, <1>6

\* What is under way stays possible as long as the client's record keeps what
\* Made says, and no answer becomes untrue.
LEMMA UnderWayStays ==
  ASSUME TruthStays,
         \A c \in Conn, id \in Nat, op \in Op: Made(c, id, op) => Made(c, id, op)'
  PROVE  /\ \A s \in Seq(Message): s \in Seq(Message')
         /\ \A c \in Conn: \A s \in Seq(Reply(c)): s \in Seq(Reply(c)')
<1>1. Message \subseteq Message'
  BY DEF Message
<1>2. ASSUME NEW c \in Conn PROVE Reply(c) \subseteq Reply(c)'
  BY <1>2 DEF Reply, Response, Op, TruthStays
<1> QED
  BY <1>1, <1>2, SeqMonotonic

\* Steps that leave the client's ids alone keep what is under way possible.
LEMMA UnderWayKept ==
  ASSUME TruthStays, client'.conn = client.conn, client'.op = client.op,
         client'.next_request_id = client.next_request_id
  PROVE  /\ \A s \in Seq(Message): s \in Seq(Message')
         /\ \A c \in Conn: \A s \in Seq(Reply(c)): s \in Seq(Reply(c)')
<1>1. \A c \in Conn, id \in Nat, op \in Op: Made(c, id, op) => Made(c, id, op)'
  BY DEF Made
<1> QED
  BY <1>1, UnderWayStays

\* What was answered stays true.
LEMMA AnsweredKept ==
  ASSUME Answered, TruthStays, UNCHANGED answers
  PROVE  Answered'
BY DEF Answered, TruthStays, AnswersOwnRequest, Op

\* A response to a request under way is one that can be, if it tells the truth.
LEMMA Responds ==
  ASSUME UnderWay, NEW m \in Message, NEW a \in Answer, respond_client(m, a), UNCHANGED client,
         TruthStays, Holds(m.op[2], a)'
  PROVE  replies' \in [Conn -> Seq(Response)] /\ \A c \in Conn: replies'[c] \in Seq(Reply(c)')
<1> DEFINE r == [id |-> m.id, op |-> m.op, answer |-> a]
<1>1. m.conn \in Conn /\ m.id \in Nat /\ m.op \in Op /\ Made(m.conn, m.id, m.op)
  BY DEF Message
<1>2. \A c \in Conn: \A s \in Seq(Reply(c)): s \in Seq(Reply(c)')
  BY UnderWayKept
<1>3. r \in Reply(m.conn)' /\ r \in Response
  BY <1>1 DEF Reply, Response, Made
<1>4. /\ Append(replies[m.conn], r) \in Seq(Reply(m.conn)')
      /\ Append(replies[m.conn], r) \in Seq(Response)
  BY <1>1, <1>2, <1>3, AppendProperties DEF UnderWay
<1> QED
  BY <1>1, <1>2, <1>4 DEF respond_client, UnderWay

\* The client's steps keep the invariant.
LEMMA ClientKeeps ==
  ASSUME IInv, connect \/ (\E op \in Op: Request(op)) \/ Receive \/ GiveUp \/ Disconnect
  PROVE  IInv'
<1> USE ClientBounds DEF Conn
<1>0. /\ client \in [pc: Pc, conn: 0 .. Conns, next_request_id: Nat \ {0}, op: Op \union {None}]
      /\ client.conn \in 0 .. Conns /\ client.next_request_id \in Nat \ {0}
      /\ Typed /\ UnderWay /\ Answered
  BY DEF IInv, Typed
<1>1. UNCHANGED <<state, cancel_requested, epoch>> /\ TruthStays
  <2>1. UNCHANGED <<state, cancel_requested, epoch>>
    BY Zenon DEF connect, Request, Receive, GiveUp, Disconnect, coordinator, tasks
  <2> QED
    BY <1>0, <2>1, TasksKeep DEF Typed, tasks
<1>2. CASE connect
  <2>1. /\ client.conn + 1 \in Conn
        /\ client' = [pc |-> "idle", conn |-> client.conn + 1, next_request_id |-> 1, op |-> None]
    BY <1>0, <1>2 DEF connect
  <2>2. \A c \in Conn, id \in Nat, op \in Op: Made(c, id, op) => Made(c, id, op)'
    BY <1>0, <2>1 DEF Made
  <2>3. UnderWay'
    BY <1>0, <1>1, <1>2, <2>2, UnderWayStays, SMTT(30) DEF connect, coordinator, UnderWay
  <2>4. Answered'
    BY <1>0, <1>1, <1>2, AnsweredKept DEF connect
  <2>5. Typed'
    BY <1>0, <1>1, <1>2, <2>1 DEF connect, Typed, Pc
  <2> QED
    BY <2>3, <2>4, <2>5 DEF IInv
<1>3. ASSUME NEW op \in Op, Request(op) PROVE IInv'
  <2> DEFINE m == [conn |-> client.conn, id |-> client.next_request_id, op |-> op]
  <2>1. /\ client.conn \in Conn
        /\ client' = [client EXCEPT !.pc = "waiting", !.op = op, !.next_request_id = @ + 1]
    BY <1>0, <1>3, Zenon DEF Request, Typed
  <2>2. \A c \in Conn, id \in Nat, o \in Op: Made(c, id, o) => Made(c, id, o)'
    BY <1>0, <2>1 DEF Made
  <2>3. /\ \A x \in Seq(Message): x \in Seq(Message')
        /\ \A c \in Conn: \A x \in Seq(Reply(c)): x \in Seq(Reply(c)')
    BY <1>1, <2>2, UnderWayStays
  <2>4. m \in Message'
    BY <1>0, <2>1 DEF Message, Made
  <2>5. Append(wire[client.conn], m) \in Seq(Message')
    BY <1>0, <2>1, <2>3, <2>4, AppendProperties DEF UnderWay
  <2>6. wire' \in [Conn -> Seq(Message')]
    BY <1>0, <1>3, <2>3, <2>5, Zenon DEF Request, UnderWay
  <2>7. UnderWay'
    BY <1>0, <1>3, <2>3, <2>6, Zenon DEF Request, coordinator, UnderWay
  <2>8. Answered'
    BY <1>0, <1>1, <1>3, AnsweredKept, Zenon DEF Request
  <2>9. Typed'
    <3>1. client' \in [pc: Pc, conn: 0 .. Conns, next_request_id: Nat \ {0}, op: Op \union {None}]
      <4>1. client.next_request_id + 1 \in Nat \ {0} /\ "waiting" \in Pc
        BY <1>0 DEF Pc
      <4> QED
        BY <1>0, <2>1, <4>1, Zenon
    <3>2. client'.conn \in Conn /\ client'.op \in Op
      BY <1>0, <2>1
    <3>3. UNCHANGED <<open, state, epoch>>
      BY <1>1, <1>3, Zenon DEF Request
    <3> QED
      BY <1>0, <3>1, <3>2, <3>3 DEF Typed
  <2> QED
    BY <2>7, <2>8, <2>9 DEF IInv
<1>4. CASE Receive
  <2> DEFINE c == client.conn
             r == Head(replies[c])
  <2>1. c \in Conn /\ client.op \in Op /\ replies[c] \in Seq(Reply(c)) /\ replies[c] # << >>
    BY <1>0, <1>4 DEF Receive, Typed, UnderWay
  <2>2. r \in Reply(c) /\ Tail(replies[c]) \in Seq(Reply(c))
    BY <2>1, HeadTailProperties, Zenon
  <2>3. Tail(replies[c]) \in Seq(Response)
    BY <1>0, <2>1, HeadTailProperties DEF UnderWay
  <2>4. client' = client \/ client' = [client EXCEPT !.pc = "idle"]
    BY <1>4 DEF Receive
  <2>5. /\ \A x \in Seq(Message): x \in Seq(Message')
        /\ \A d \in Conn: \A x \in Seq(Reply(d)): x \in Seq(Reply(d)')
    BY <1>0, <1>1, <2>4, UnderWayKept
  <2>6. replies' \in [Conn -> Seq(Response)] /\ \A d \in Conn: replies'[d] \in Seq(Reply(d)')
    BY <1>0, <1>4, <2>1, <2>2, <2>3, <2>5, SMTT(30) DEF Receive, UnderWay
  <2>7. UnderWay'
    BY <1>0, <1>4, <2>5, <2>6 DEF Receive, coordinator, UnderWay
  <2>8. Answered'
    <3>1. r.op \in Op /\ r.answer \in Answer /\ (r.id = client.next_request_id - 1 => r.op = client.op)
      BY <2>2 DEF Reply, Response, Made
    <3>2. Holds(r.op[2], r.answer)
      BY <2>2 DEF Reply
    <3>3. CASE r.id = client.next_request_id - 1
      <4> DEFINE a == [op |-> client.op, answer |-> r.answer, for |-> r.op]
      <4>1. answers' = answers \union {a}
        BY <1>4, <3>3 DEF Receive
      <4>2. /\ a \in [op: Op, answer: Answer, for: Op] /\ a.for = a.op
            /\ Holds(a.op[2], a.answer)
        BY <2>1, <3>1, <3>2, <3>3
      <4>3. \A t \in Task, x \in Answer: Holds(t, x) => Holds(t, x)'
        BY <1>1 DEF TruthStays
      <4>4. a.op[2] \in Task /\ a.answer \in Answer
        BY <4>2 DEF Op
      <4> HIDE DEF a
      <4> QED
        BY <1>0, <4>1, <4>2, <4>3, <4>4 DEF Answered, AnswersOwnRequest, Op
    <3>4. CASE r.id # client.next_request_id - 1
      BY <1>0, <1>1, <1>4, <3>4, AnsweredKept DEF Receive
    <3> QED
      BY <3>3, <3>4
  <2>9. Typed'
    <3>1. UNCHANGED open
      BY <1>4 DEF Receive
    <3>2. client' \in [pc: Pc, conn: 0 .. Conns, next_request_id: Nat \ {0}, op: Op \union {None}]
      BY <1>0, <2>4 DEF Pc
    <3>3. client'.conn = client.conn /\ client'.op = client.op
      BY <1>0, <2>4
    <3> QED
      BY <1>0, <1>1, <2>1, <3>1, <3>2, <3>3 DEF Typed
  <2> QED
    BY <2>7, <2>8, <2>9 DEF IInv
<1>5. CASE GiveUp \/ Disconnect
  <2>1. client' = [client EXCEPT !.pc = "closed"] /\ client.conn \in Conn
    BY <1>0, <1>5 DEF GiveUp, Disconnect, Typed
  <2>2. UnderWay'
    BY <1>0, <1>1, <1>5, <2>1, UnderWayKept DEF GiveUp, Disconnect, coordinator, UnderWay
  <2>3. Answered'
    BY <1>0, <1>1, <1>5, AnsweredKept DEF GiveUp, Disconnect
  <2>4. Typed'
    BY <1>0, <1>1, <1>5, <2>1, Zenon DEF GiveUp, Disconnect, Typed, Pc
  <2> QED
    BY <2>2, <2>3, <2>4 DEF IInv
<1> QED
  BY <1>2, <1>3, <1>4, <1>5

\* The transport's and the coordinator's steps keep it.
LEMMA CoordinatorKeeps ==
  ASSUME IInv,
         \/ \E c \in Conn: client_reader(c) \/ Lost(c)
         \/ handle_task_submit \/ handle_task_cancel \/ Execute \/ stop \/ start
  PROVE  IInv'
<1>0. UnderWay /\ Answered /\ Typed
  BY DEF IInv
<1>1. UNCHANGED <<client, answers>> /\ open' \in [Conn -> BOOLEAN]
  BY <1>0, Zenon DEF client_reader, Lost, handle_task_submit, handle_task_cancel, Execute, stop, start,
     HandlerKeeps, Typed
<1>2. ASSUME core_queue # << >>, NEW m, m = Head(core_queue)
      PROVE  m \in Message /\ Tail(core_queue) \in Seq(Message) /\ m.op[2] \in Task
  <2>1. m \in Message /\ Tail(core_queue) \in Seq(Message)
    BY <1>0, <1>2, HeadTailProperties DEF UnderWay
  <2> QED
    BY <2>1 DEF Message, Op
<1>3. state' \in [Task -> RestState] /\ epoch' \in Nat \ {0} /\ TruthStays
  <2>1. \/ UNCHANGED <<tasks, epoch>>
        \/ (\E t \in Task: Tasks!Submit(t) \/ Tasks!Cancel(t)) /\ UNCHANGED epoch
        \/ Tasks!Execute /\ UNCHANGED epoch
        \/ Tasks!Restart /\ epoch' = epoch + 1
    <3>1. CASE (\E c \in Conn: client_reader(c) \/ Lost(c)) \/ stop
      BY <3>1, Zenon DEF client_reader, Lost, stop, coordinator
    <3>2. CASE handle_task_submit
      BY <1>2, <3>2, Zenon DEF handle_task_submit, HandlerKeeps, IsNext
    <3>3. CASE handle_task_cancel
      BY <1>2, <3>3, Zenon DEF handle_task_cancel, HandlerKeeps, IsNext
    <3>4. CASE Execute \/ start
      BY <3>4, Zenon DEF Execute, start
    <3> QED
      BY <3>1, <3>2, <3>3, <3>4
  <2> QED
    BY <1>0, <2>1, TasksKeep DEF Typed
<1>4. Typed' /\ Answered'
  BY <1>0, <1>1, <1>3, AnsweredKept DEF Typed
<1>5. /\ \A x \in Seq(Message): x \in Seq(Message')
      /\ \A d \in Conn: \A x \in Seq(Reply(d)): x \in Seq(Reply(d)')
  BY <1>1, <1>3, UnderWayKept
<1>6. UnderWay'
  <2>1. ASSUME NEW c \in Conn, client_reader(c) PROVE UnderWay'
    <3>1. Head(wire[c]) \in Message /\ Tail(wire[c]) \in Seq(Message)
      BY <1>0, <2>1, HeadTailProperties DEF client_reader, UnderWay
    <3>2. Append(core_queue, Head(wire[c])) \in Seq(Message)
      BY <1>0, <3>1, AppendProperties DEF UnderWay
    <3> QED
      BY <1>0, <1>5, <2>1, <3>1, <3>2 DEF client_reader, UnderWay
  <2>2. ASSUME NEW c \in Conn, Lost(c) PROVE UnderWay'
    BY <1>0, <1>5, <2>2, EmptySeq DEF Lost, coordinator, UnderWay
  <2>3. CASE handle_task_submit \/ handle_task_cancel
    <3>1. core_queue # << >> /\ core_queue' = Tail(core_queue) /\ UNCHANGED wire
      BY <2>3, Zenon DEF handle_task_submit, handle_task_cancel, IsNext, HandlerKeeps
    <3>2. PICK m \in Message, t \in Task: m = Head(core_queue) /\ t = m.op[2] /\ state[t] \in RestState
      BY <1>0, <1>2, <3>1 DEF Typed
    <3>3. \E a \in Answer: respond_client(m, a) /\ Holds(t, a)'
      <4>1. CASE handle_task_submit
        <5>1. CASE state[t] # "Absent" /\ respond_client(m, "accepted") /\ UNCHANGED tasks
          <6>1. Holds(t, "accepted")'
            BY <5>1 DEF Holds, tasks, Settled
          <6> QED
            BY <5>1, <6>1, Zenon DEF Answer
        <5>2. CASE respond_client(m, "rejected")
          <6>1. Holds(t, "rejected")'
            BY DEF Holds, Settled
          <6> QED
            BY <5>2, <6>1, Zenon DEF Answer
        <5>3. CASE Tasks!Submit(t) /\ respond_client(m, "accepted")
          <6>1. state'[t] # "Absent"
            BY <1>0, <3>2, <5>3 DEF Tasks!Submit, Typed
          <6>2. Holds(t, "accepted")'
            BY <6>1 DEF Holds, Settled
          <6> QED
            BY <5>3, <6>2, Zenon DEF Answer
        <5> QED
          BY <3>2, <4>1, <5>1, <5>2, <5>3, Zenon DEF handle_task_submit
      <4>2. CASE handle_task_cancel
        <5>1. CASE respond_client(m, "not found")
          <6>1. Holds(t, "not found")'
            BY DEF Holds, Settled
          <6> QED
            BY <5>1, <6>1, Zenon DEF Answer
        <5>2. CASE respond_client(m, state[t]) /\ UNCHANGED tasks
          <6>1. PICK s \in RestState: s = state[t]
            BY <3>2
          <6>2. state'[t] = s
            BY <5>2, <6>1 DEF tasks
          <6>3. Holds(t, s)'
            BY <6>2, Zenon DEF Holds, RestState, GraphState, TaskState
          <6> QED
            BY <5>2, <6>1, <6>3, Zenon DEF Answer
        <5>3. CASE /\ Tasks!Cancel(t)
                   /\ respond_client(m, IF state[t] = "Running" THEN "cancel requested" ELSE "cancelled")
          <6>1. CASE state[t] = "Running"
            <7>1. t \in cancel_requested' /\ state'[t] = "Running"
              BY <5>3, <6>1, Zenon DEF Tasks!Cancel
            <7>2. Holds(t, "cancel requested")'
              BY <7>1 DEF Holds, ToStop, Settled
            <7> QED
              BY <5>3, <6>1, <7>2, Zenon DEF Answer
          <6>2. CASE state[t] # "Running"
            <7>1. state'[t] = "Cancelled"
              BY <1>0, <3>2, <5>3, <6>2 DEF Tasks!Cancel, Typed
            <7>2. Holds(t, "cancelled")'
              BY <7>1 DEF Holds, Settled
            <7> QED
              BY <5>3, <6>2, <7>2, Zenon DEF Answer
          <6> QED
            BY <6>1, <6>2
        <5> QED
          BY <3>2, <4>2, <5>1, <5>2, <5>3, Zenon DEF handle_task_cancel
      <4> QED
        BY <2>3, <4>1, <4>2
    <3>4. replies' \in [Conn -> Seq(Response)] /\ \A c \in Conn: replies'[c] \in Seq(Reply(c)')
      BY <1>0, <1>1, <1>3, <3>2, <3>3, Responds
    <3> QED
      BY <1>0, <1>2, <1>5, <3>1, <3>4 DEF UnderWay
  <2>4. CASE Execute \/ stop
    BY <1>0, <1>5, <2>4 DEF Execute, stop, UnderWay
  <2>5. CASE start
    BY <1>0, <1>5, <2>5, EmptySeq DEF start, UnderWay
  <2> QED
    BY <2>1, <2>2, <2>3, <2>4, <2>5
<1> QED
  BY <1>4, <1>6 DEF IInv

\* The invariant holds throughout, for every set of tasks and every bound.
THEOREM ClientSafe == Spec => []IInv
<1>1. Init => IInv
  <2> SUFFICES ASSUME Init PROVE IInv
    OBVIOUS
  <2> USE ClientBounds DEF Conn
  <2>1. /\ wire \in [Conn -> Seq(Message)] /\ core_queue \in Seq(Message)
        /\ replies \in [Conn -> Seq(Response)]
        /\ \A c \in Conn: replies[c] \in Seq(Reply(c))
    BY EmptySeq DEF Init
  <2> QED
    BY <2>1 DEF Init, Tasks!Init, IInv, Typed, UnderWay, Answered, Pc, RestState, GraphState,
       TaskState, AnswersOwnRequest
<1>2. IInv /\ [Next]_vars => IInv'
  <2> SUFFICES ASSUME IInv, [Next]_vars PROVE IInv'
    OBVIOUS
  <2>1. CASE UNCHANGED vars
    <3>1. TruthStays
      BY <2>1, TasksKeep DEF vars, coordinator, tasks, IInv, Typed
    <3>2. UnderWay'
      BY <2>1, <3>1, UnderWayKept DEF vars, coordinator, IInv, UnderWay
    <3>3. Typed'
      BY <2>1 DEF vars, coordinator, tasks, IInv, Typed
    <3>4. Answered'
      BY <2>1, <3>1, AnsweredKept DEF vars, IInv
    <3> QED
      BY <3>2, <3>3, <3>4 DEF IInv
  <2> QED
    BY <2>1, ClientKeeps, CoordinatorKeeps DEF Next
<1> QED
  BY <1>1, <1>2, PTL DEF Spec

\* What a call returns answers that call, however many requests were given up
\* before it and whatever of them is still under way.
THEOREM OwnAnswers == Spec => []AnswersOwnRequest
<1>1. IInv => AnswersOwnRequest
  BY DEF IInv, Answered
<1> QED
  BY <1>1, ClientSafe, PTL

\* What a caller was told of a task stays true, whatever is repeated, given up
\* or arrives late, and across restarts of the coordinator.
THEOREM ToldForGood == Spec => []AnswersHold
<1>1. IInv => AnswersHold
  BY Zenon DEF IInv, Answered, Holds, ToStop, AnswersHold
<1> QED
  BY <1>1, ClientSafe, PTL

-----------------------------------------------------------------------------
(* The launcher.                                                           *)

\* What the operating system and the owner can hold
LauncherTyped ==
  /\ proc \in [Child -> {"none", "alive", "dying", "zombie", "gone"}]
  /\ owned \in SUBSET Child /\ reaped \in SUBSET owned
  /\ k \in 0 .. (N + 1) /\ after \in {"launch", "user", "destroy"}

\* A child has a pid from the moment its process is started.
Spawned == \A c \in Child: c \notin owned <=> proc[c] = "none"

\* launch: the children before k are started, and there is no result yet.
Launching ==
  /\ pc = "ports" => owned = {}
  /\ pc = "spawn" => k \in Child /\ owned = {c \in Child: c < k}
  /\ pc \in {"probe", "status", "recheck"} => owned = {Coordinator}
  /\ pc \in {"ports", "spawn", "probe", "status", "recheck"} => result = "none"

\* wait_registered: k is a child, and after the status every process that
\* has not exited since was seen.
Watching ==
  /\ pc \in {"check", "checkagain", "lastcheck"} => k \in Child
  /\ pc \in {"check", "list", "checkagain", "lastcheck"} => result = "none"
  /\ pc = "checkagain" => \A c \in Child: c < k \/ proc[c] \in {"alive", "dying"} => c \in seen
  /\ seen \in SUBSET Child

\* kill_node_by_label waits for a node.
Killing == pc = "killed" => k \in Child

\* shutdown_all: the children before k are killed, then all of them.
Killed ==
  /\ pc = "terminate" => k \in Child /\ \A c \in Child: c < k => proc[c] # "alive"
  /\ pc \in {"reap", "lastreap", "destroyed"} => \A c \in Child: proc[c] # "alive"

LauncherInv ==
  /\ LauncherTyped /\ Spawned /\ PidsAreOurs /\ Launching /\ Watching /\ Killing /\ Killed
  /\ ConfirmedGone /\ RegisteredAlive

\* process_running changes at most one child, from a zombie to reaped and
\* gone, so it keeps what is known of pids, of the dead and of the running.
LEMMA PolledKeeps ==
  ASSUME LauncherTyped, Spawned, PidsAreOurs, NEW c \in Child, Polled(c)
  PROVE  /\ proc' \in [Child -> {"none", "alive", "dying", "zombie", "gone"}]
         /\ reaped' \in SUBSET owned
         /\ \A d \in Child: \/ proc'[d] = proc[d] /\ (d \in reaped' <=> d \in reaped)
                            \/ proc[d] = "zombie" /\ proc'[d] = "gone" /\ d \in reaped' /\ d \in owned
  BY DEF LauncherTyped, Spawned, PidsAreOurs, Polled, Unreaped

\* terminate changes at most one child, from alive to dying, and the child it
\* was called for is not alive afterwards.
LEMMA TerminateKeeps ==
  ASSUME LauncherTyped, Spawned, PidsAreOurs, NEW c \in Child, terminate(c)
  PROVE  /\ proc' \in [Child -> {"none", "alive", "dying", "zombie", "gone"}]
         /\ reaped' = reaped
         /\ proc'[c] # "alive"
         /\ \A d \in Child: proc'[d] = proc[d] \/ (proc[d] = "alive" /\ proc'[d] = "dying")
  BY DEF LauncherTyped, Spawned, PidsAreOurs, terminate, Unreaped

\* Every step of the owner and of the processes keeps the invariant.
LEMMA StepKeeps == LauncherInv /\ [LauncherNext]_launcher_vars => LauncherInv'
<1> USE NodeCount DEF Child, Node, Coordinator
<1> SUFFICES ASSUME LauncherInv, [LauncherNext]_launcher_vars PROVE LauncherInv'
    OBVIOUS
<1> USE DEF LauncherInv, LauncherTyped, Spawned, PidsAreOurs, Launching, Watching, Killing, Killed, ConfirmedGone,
            RegisteredAlive, Unreaped, os
<1>1. CASE PickPorts
  <2>1. CASE Go("spawn", 0)
    <3>1. {c \in Child: c < 0} = {}
      OBVIOUS
    <3>2. owned' = {c \in Child: c < k'}
      BY <1>1, <2>1, <3>1, Zenon DEF PickPorts, Go
    <3> QED
      BY <1>1, <2>1, <3>2 DEF PickPorts, Go
  <2>2. CASE Go("destroyed", 0)
    BY <1>1, <2>2 DEF PickPorts, Go
  <2> QED
    BY <1>1, <2>1, <2>2 DEF PickPorts
<1>2. CASE Spawn
  BY <1>2 DEF Spawn, Go, Return
<1>3. CASE SpawnFails
  BY <1>3 DEF SpawnFails, Go, Shutdown
<1>4. CASE Probe
  BY <1>4, PolledKeeps DEF Probe, Go, Shutdown, Running
<1>5. CASE ProbeAnswers
  BY <1>5 DEF ProbeAnswers, Go
<1>6. CASE ProbeFails
  BY <1>6 DEF ProbeFails, Go
<1>7. CASE ReadyDeadline
  BY <1>7 DEF ReadyDeadline, Shutdown
<1>8. CASE ReadyRecheck
  BY <1>8, PolledKeeps DEF ReadyRecheck, Go, Running
<1>9. CASE RequireRunning
  <2>1. CASE ~Running(k)
    BY <1>9, <2>1, PolledKeeps DEF RequireRunning, Return
  <2>2. CASE Running(k) /\ k < N
    BY <1>9, <2>2, PolledKeeps, SMTT(30) DEF RequireRunning, Go, Running
  <2>3. CASE Running(k) /\ k = N
    <3>1. proc' = proc /\ reaped' = reaped /\ proc[k] \in {"alive", "dying"}
      BY <1>9, <2>3 DEF RequireRunning, Polled, Running
    <3>2. pc = "checkagain" => seen = Child
      <4>1. ASSUME pc = "checkagain", NEW c \in Child PROVE c \in seen
        BY <2>3, <3>1, <4>1
      <4> QED
        BY <4>1, Zenon
    <3> QED
      BY <1>9, <2>3, <3>1, <3>2 DEF RequireRunning, Go, Return
  <2>4. k \in Child
    BY <1>9 DEF RequireRunning
  <2> QED
    BY <2>1, <2>2, <2>3, <2>4
<1>10. CASE ListNodes
  BY <1>10 DEF ListNodes, Go
<1>11. CASE ListFails
  BY <1>11 DEF ListFails, Go
<1>12. CASE WaitDeadline
  BY <1>12 DEF WaitDeadline, Go
<1>13. CASE WaitRegistered
  <2>1. CASE Go("check", 0) /\ result' = "none"
    BY <1>13, <2>1 DEF WaitRegistered, Go
  <2>2. CASE Return("timeout")
    BY <1>13, <2>2 DEF WaitRegistered, Return
  <2> QED
    BY <1>13, <2>1, <2>2 DEF WaitRegistered
<1>14. CASE WaitKilled
  BY <1>14, PolledKeeps DEF WaitKilled, Return, Running
<1>15. ASSUME NEW n \in Node, KillNode(n) PROVE LauncherInv'
  <2>1. /\ proc' \in [Child -> {"none", "alive", "dying", "zombie", "gone"}] /\ reaped' = reaped
        /\ \A d \in Child: proc'[d] = proc[d] \/ (proc[d] = "alive" /\ proc'[d] = "dying")
    BY <1>15, TerminateKeeps DEF KillNode
  <2> QED
    BY <1>15, <2>1 DEF KillNode, Go
<1>16. ASSUME NEW a \in {"user", "destroy"}, CallShutdown(a) PROVE LauncherInv'
  BY <1>16 DEF CallShutdown, Shutdown
<1>17. CASE AskCoordinator
  BY <1>17, PolledKeeps DEF AskCoordinator, Go
<1>18. CASE PollOne
  BY <1>18, PolledKeeps DEF PollOne, Go
<1>19. CASE PollAgain
  BY <1>19 DEF PollAgain, Go
<1>20. CASE PollEnds
  <2>1. CASE pc = "poll" /\ Go("lastpoll", 0)
    BY <1>20, <2>1 DEF PollEnds, Go
  <2>2. CASE pc = "lastpoll" /\ Go("terminate", 0)
    BY <1>20, <2>2 DEF PollEnds, Go
  <2>3. CASE pc = "reap" /\ Go("lastreap", 0)
    BY <1>20, <2>3 DEF PollEnds, Go
  <2> QED
    BY <1>20, <2>1, <2>2, <2>3 DEF PollEnds
<1>21. CASE TerminateOne
  <2>1. /\ proc' \in [Child -> {"none", "alive", "dying", "zombie", "gone"}] /\ reaped' = reaped
        /\ proc'[k] # "alive"
        /\ \A d \in Child: proc'[d] = proc[d] \/ (proc[d] = "alive" /\ proc'[d] = "dying")
    BY <1>21, TerminateKeeps DEF TerminateOne
  <2>2. \A d \in Child: d < k + 1 => proc'[d] # "alive"
    BY <1>21, <2>1 DEF TerminateOne
  <2>3. CASE k < N
    BY <1>21, <2>1, <2>2, <2>3 DEF TerminateOne, Go
  <2>4. CASE k = N
    <3>1. \A d \in Child: proc'[d] # "alive"
      BY <2>2, <2>4
    <3> QED
      BY <1>21, <2>1, <3>1, <2>4 DEF TerminateOne, Go
  <2> QED
    BY <1>21, <2>3, <2>4 DEF TerminateOne
<1>22. CASE ShutdownReturns
  <2>1. AllReaped => \A c \in Child: proc[c] \in {"none", "gone"}
    BY DEF AllReaped
  <2>2. CASE after = "launch"
    BY <1>22, <2>1, <2>2 DEF ShutdownReturns
  <2>3. CASE after = "user"
    BY <1>22, <2>1, <2>3 DEF ShutdownReturns
  <2>4. CASE after = "destroy"
    BY <1>22, <2>1, <2>4 DEF ShutdownReturns
  <2> QED
    BY <2>2, <2>3, <2>4
<1>23. ASSUME NEW c \in Child, Exits(c) PROVE LauncherInv'
  BY <1>23 DEF Exits, Owner
<1>24. ASSUME NEW n \in Node, Registers(n) PROVE LauncherInv'
  BY <1>24 DEF Registers, Owner
<1>25. ASSUME NEW n \in Node, LossNoticed(n) PROVE LauncherInv'
  BY <1>25 DEF LossNoticed, Owner
<1>26. CASE UNCHANGED launcher_vars
  BY <1>26 DEF launcher_vars
<1> QED
  BY <1>1, <1>2, <1>3, <1>4, <1>5, <1>6, <1>7, <1>8, <1>9, <1>10, <1>11, <1>12, <1>13, <1>14, <1>15,
     <1>16, <1>17, <1>18, <1>19, <1>20, <1>21, <1>22, <1>23, <1>24, <1>25, <1>26, Zenon
     DEF LauncherNext, launch, wait_registered, shutdown_all

\* The invariant holds throughout, for every number of nodes and from every
\* step of launch, wait_registered and shutdown_all.
THEOREM LauncherSafe == LauncherSpec => []LauncherInv
<1>1. LauncherInit => LauncherInv
  BY NodeCount DEF LauncherInit, LauncherInv, LauncherTyped, Spawned, PidsAreOurs, Launching, Watching, Killing, Killed,
                   ConfirmedGone, RegisteredAlive, Unreaped, Child, Coordinator
<1> QED
  BY <1>1, StepKeeps, PTL DEF LauncherSpec

\* A fabric that is destroyed leaves no process running that was not sent
\* SIGKILL, wherever launch or shutdown_all gave up.
THEOREM NothingOrphaned == LauncherSpec => []NoOrphans
<1>1. LauncherInv => NoOrphans
  BY DEF LauncherInv, Killed, NoOrphans
<1> QED
  BY <1>1, LauncherSafe, PTL

\* poll and terminate signal and wait for pids of children that still have
\* them; a pid that waitpid has returned is never used again.
THEOREM OwnPidsOnly == LauncherSpec => []PidsAreOurs
<1>1. LauncherInv => PidsAreOurs
  BY DEF LauncherInv
<1> QED
  BY <1>1, LauncherSafe, PTL

\* When shutdown_all has confirmed every child, every child is gone.
THEOREM GoneWhenConfirmed == LauncherSpec => []ConfirmedGone
<1>1. LauncherInv => ConfirmedGone
  BY DEF LauncherInv
<1> QED
  BY <1>1, LauncherSafe, PTL

\* When wait_registered succeeds, no process had exited before the status that
\* listed every node was asked for.
THEOREM AliveWhenRegistered == LauncherSpec => []RegisteredAlive
<1>1. LauncherInv => RegisteredAlive
  BY DEF LauncherInv
<1> QED
  BY <1>1, LauncherSafe, PTL
=============================================================================
