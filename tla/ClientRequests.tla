--------------------------- MODULE ClientRequests ---------------------------
(***************************************************************************)
(* FabricClient (src/src/net/client.cpp) against the submit and cancel     *)
(* handlers of the coordinator.  A request that gets no answer in time     *)
(* closes the connection; the caller connects again, under a new client    *)
(* id, and may repeat the request or make another, while the coordinator   *)
(* may still apply the abandoned one, stop, or die and start again.  What  *)
(* the coordinator does to tasks meanwhile is TaskService's subject.       *)
(***************************************************************************)
EXTENDS Naturals, Sequences, TaskLifecycle

CONSTANTS
  Task,
  ZeroId,        \* the id no task may have
  Dependencies,  \* of each task: the ids it names
  Conns,         \* bound: connections the client makes
  Requests,      \* bound: requests it makes on one connection
  MaxEpoch       \* bound: coordinator incarnations

ASSUME ClientBounds ==
  /\ Conns \in Nat \ {0} /\ Requests \in Nat \ {0} /\ MaxEpoch \in Nat
  /\ Dependencies \in [Task -> SUBSET Task]

Conn == 1 .. Conns
Op == {"submit", "cancel"} \X Task
None == <<"none">>

VARIABLES
  client,      \* [pc, conn, next_request_id, op]
  wire,        \* [Conn -> Seq]: requests on their way
  replies,     \* [Conn -> Seq]: responses on their way
  open,        \* [Conn -> BOOLEAN]
  core_queue,  \* client commands
  stopping,    \* Coordinator::stopping_
  epoch,       \* incarnation of the coordinator
  state, cancel_requested,   \* as in TaskService
  answers      \* history: [op, answer, for] of every request that returned

tasks == <<state, cancel_requested>>
coordinator == <<core_queue, stopping, epoch, tasks>>
vars == <<client, wire, replies, open, coordinator, answers>>

Tasks == INSTANCE TaskService

-----------------------------------------------------------------------------
(* The client.                                                             *)

\* connect: a new channel and client id, request ids from 1
connect ==
  /\ client.pc = "closed" /\ client.conn < Conns
  /\ client' = [pc |-> "idle", conn |-> client.conn + 1, next_request_id |-> 1, op |-> None]
  /\ open' = [open EXCEPT ![client.conn + 1] = TRUE]
  /\ UNCHANGED <<wire, replies, coordinator, answers>>

\* submit and cancel, up to the send in request
Request(op) ==
  /\ client.pc = "idle" /\ open[client.conn] /\ client.next_request_id <= Requests
  /\ client' = [client EXCEPT !.pc = "waiting", !.op = op, !.next_request_id = @ + 1]
  /\ wire' = [wire EXCEPT ![client.conn] =
                Append(@, [conn |-> client.conn, id |-> client.next_request_id, op |-> op])]
  /\ UNCHANGED <<replies, open, coordinator, answers>>

\* A frame with the id of the request is the answer; any other is skipped.
Receive ==
  /\ client.pc = "waiting" /\ replies[client.conn] # << >>
  /\ LET r == Head(replies[client.conn])
     IN  IF r.id = client.next_request_id - 1
         THEN /\ client' = [client EXCEPT !.pc = "idle"]
              /\ answers' = answers \union {[op |-> client.op, answer |-> r.answer, for |-> r.op]}
         ELSE UNCHANGED <<client, answers>>
  /\ replies' = [replies EXCEPT ![client.conn] = Tail(@)]
  /\ UNCHANGED <<wire, open, coordinator>>

\* Mutant: the connection survives the timeout and the next try takes the id
\* of the one given up.
GiveUp_keeps ==
  /\ client.pc = "waiting"
  /\ client' = [client EXCEPT !.pc = "idle", !.next_request_id = @ - 1]
  /\ UNCHANGED <<wire, replies, open, coordinator, answers>>

\* A send that fails, a closed connection or the deadline: close()
GiveUp ==
  /\ client.pc = "waiting"
  /\ client' = [client EXCEPT !.pc = "closed"]
  /\ open' = [open EXCEPT ![client.conn] = FALSE]
  /\ UNCHANGED <<wire, replies, coordinator, answers>>

\* The caller closes the client between requests, or the connection is lost.
Disconnect ==
  /\ client.pc = "idle"
  /\ client' = [client EXCEPT !.pc = "closed"]
  /\ open' = [open EXCEPT ![client.conn] = FALSE]
  /\ UNCHANGED <<wire, replies, coordinator, answers>>

-----------------------------------------------------------------------------
(* The coordinator.                                                        *)

\* client_reader hands on what a connection delivers, in order, until the
\* coordinator stops; what was sent before the client closed may still come, or
\* be lost.
client_reader(c) ==
  /\ wire[c] # << >> /\ ~stopping
  /\ core_queue' = Append(core_queue, Head(wire[c]))
  /\ wire' = [wire EXCEPT ![c] = Tail(@)]
  /\ UNCHANGED <<client, replies, open, stopping, epoch, tasks, answers>>

Lost(c) ==
  /\ ~open[c] /\ wire[c] # << >> /\ wire' = [wire EXCEPT ![c] = << >>]
  /\ UNCHANGED <<client, replies, open, coordinator, answers>>

\* A response goes to the connection of the request, if it is still there.
respond_client(m, answer) ==
  replies' = IF open[m.conn]
             THEN [replies EXCEPT ![m.conn] = Append(@, [id |-> m.id, op |-> m.op, answer |-> answer])]
             ELSE replies

IsNext(kind) == core_queue # << >> /\ Head(core_queue).op[1] = kind

HandlerKeeps == UNCHANGED <<client, wire, open, stopping, epoch, answers>>

\* Mutant: a task that has ended may be submitted again.
handle_task_submit_again ==
  /\ IsNext("submit") /\ core_queue' = Tail(core_queue)
  /\ LET t == Head(core_queue).op[2]
     IN  state' = [state EXCEPT ![t] = IF @ = "Absent" \/ is_terminal(@) THEN "Ready" ELSE @]
  /\ respond_client(Head(core_queue), "accepted")
  /\ UNCHANGED cancel_requested /\ HandlerKeeps

\* A task that is there already is accepted as it is; a new one is refused by
\* a coordinator that stops, for its id, or for a dependency that is not there.
handle_task_submit ==
  /\ IsNext("submit") /\ core_queue' = Tail(core_queue)
  /\ LET m == Head(core_queue)
         t == m.op[2]
         refused == stopping \/ t = ZeroId \/ \E d \in Dependencies[t]: state[d] = "Absent"
     IN  \/ state[t] # "Absent" /\ respond_client(m, "accepted") /\ UNCHANGED tasks
         \/ state[t] = "Absent" /\ refused /\ respond_client(m, "rejected") /\ UNCHANGED tasks
         \/ ~refused /\ Tasks!Submit(t) /\ respond_client(m, "accepted")
  /\ HandlerKeeps

\* The answer "task already X" is the state X; a running task is asked to stop
\* and any other is cancelled.
handle_task_cancel ==
  /\ IsNext("cancel") /\ core_queue' = Tail(core_queue)
  /\ LET m == Head(core_queue)
         t == m.op[2]
     IN  \/ state[t] = "Absent" /\ respond_client(m, "not found") /\ UNCHANGED tasks
         \/ is_terminal(state[t]) /\ respond_client(m, state[t]) /\ UNCHANGED tasks
         \/ /\ Tasks!Cancel(t)
            /\ respond_client(m, IF state[t] = "Running" THEN "cancel requested" ELSE "cancelled")
  /\ HandlerKeeps

\* The other commands and the sweep move the tasks.
Execute ==
  /\ Tasks!Execute /\ state' # state
  /\ UNCHANGED <<client, wire, replies, open, core_queue, stopping, epoch, answers>>

\* stop(), or a client's shutdown request: the core may take more commands before
\* it sees the Shutdown.
stop ==
  /\ ~stopping /\ stopping' = TRUE
  /\ UNCHANGED <<client, wire, replies, open, core_queue, epoch, tasks, answers>>

\* The process ends, stopped or not, and start() recovers the tasks: every
\* connection is gone, with the requests that were on it or queued.
start ==
  /\ epoch < MaxEpoch /\ epoch' = epoch + 1 /\ stopping' = FALSE
  /\ Tasks!Restart
  /\ core_queue' = << >> /\ wire' = [c \in Conn |-> << >>] /\ open' = [c \in Conn |-> FALSE]
  /\ UNCHANGED <<client, replies, answers>>

-----------------------------------------------------------------------------
Init ==
  /\ client = [pc |-> "closed", conn |-> 0, next_request_id |-> 1, op |-> None]
  /\ wire = [c \in Conn |-> << >>] /\ replies = [c \in Conn |-> << >>]
  /\ open = [c \in Conn |-> FALSE]
  /\ core_queue = << >> /\ stopping = FALSE /\ epoch = 1 /\ Tasks!Init
  /\ answers = {}

Next ==
  \/ connect \/ (\E op \in Op: Request(op)) \/ Receive \/ GiveUp \/ Disconnect
  \/ \E c \in Conn: client_reader(c) \/ Lost(c)
  \/ handle_task_submit \/ handle_task_cancel
  \/ Execute \/ stop \/ start

Spec == Init /\ [][Next]_vars

-----------------------------------------------------------------------------
(* Properties.                                                             *)

\* What a call returns answers that call: request ids start again on every
\* connection, and an answer to a request given up must never be taken for
\* the answer to a later one.
AnswersOwnRequest == \A a \in answers: a.for = a.op

\* The states no report, loss, timer or restart takes a task out of
Settled == {"Succeeded", "Cancelled", "Expired"}

\* What the caller was told stays true, whatever it repeated, gave up or asked
\* in between and however late that arrives: a task that was accepted is there,
\* one that was cancelled, or had ended in a settled state, is in that state,
\* across restarts too; one that was asked to stop does not succeed before the
\* coordinator restarts.  Nothing of the kind holds for "task already failed"
\* and "task already preempted": both may run again.
AnswersHold ==
  \A a \in answers: LET t == a.op[2] IN
    /\ a.answer = "accepted" => state[t] # "Absent"
    /\ a.answer = "cancelled" => state[t] = "Cancelled"
    /\ a.answer \in Settled => state[t] = a.answer
    /\ a.answer = "cancel requested" /\ epoch = 1 => state[t] # "Succeeded"

\* "Duplicate mutating requests return the cached response instead of being
\* re-applied": a repeated cancel is not told that the task had ended before.
RepeatedCancelSameAnswer ==
  \A c, d \in Conn: \A i \in 1 .. Len(replies[c]), j \in 1 .. Len(replies[d]):
    LET r == replies[c][i]
        s == replies[d][j]
    IN  r.op = s.op /\ r.op[1] = "cancel" /\ r.answer = "cancelled" => s.answer # "Cancelled"
=============================================================================
