---------------------------- MODULE CodecProofs ----------------------------
(***************************************************************************)
(* For every message, every value of its members and every truncation,     *)
(* what a reader accepts is what was written, it refuses no complete       *)
(* message within the bounds, and it reads nothing past the end.           *)
(*                                                                         *)
(* Each deserialize function has the fields of its serialize function, in  *)
(* the same order: that is shown function by function.  The inductive      *)
(* invariant is that a reader, at the offset of a chunk, has left to read  *)
(* the fields that the writer had left to put when it put that chunk.      *)
(* What follows a count or a flag depends on its value, so that this also  *)
(* says that the reader has found every count and flag where it was put.   *)
(***************************************************************************)
EXTENDS Codec, TLAPS

\* The chunk c is what a writer puts that has the fields fs left.
IsPut(c, fs, s) ==
  /\ fs # << >> /\ c.name = Head(fs).name /\ c.lead = Lead(Head(fs))
  /\ c.val \in Values(Head(fs), s)
  /\ c.width = Lead(Head(fs)) + IF Head(fs).kind = "str" THEN c.val ELSE 0

\* h tells the fields that were left before each chunk was put, and at the end.
History(h) ==
  /\ h[1] = Format[message][1]
  /\ \A j \in 1 .. Len(buf_): IsPut(buf_[j], h[j], shape) /\ h[j + 1] = After(h[j], buf_[j].val)

\* The writer has come to the fields fs.
Written(fs) == \E h: History(h) /\ fs = h[Len(buf_) + 1]

\* The chunks lie side by side, from the first byte to the last.
Layout ==
  /\ \E S: buf_ \in Seq(S)
  /\ size \in Nat
  /\ \A j \in 1 .. Len(buf_):
       /\ buf_[j].at \in Nat /\ buf_[j].width \in Nat \ {0}
       /\ buf_[j].at + buf_[j].width <= size
       /\ j = 1 => buf_[j].at = 0
  /\ \A i, j \in 1 .. Len(buf_): i < j => buf_[i].at + buf_[i].width <= buf_[j].at
  /\ \A j \in 1 .. Len(buf_): j < Len(buf_) => buf_[j + 1].at = buf_[j].at + buf_[j].width

\* p is the offset of the j-th chunk, or the end of the buffer.
IsOffset(p, j) ==
  /\ j \in 1 .. Len(buf_) + 1
  /\ j <= Len(buf_) => p = buf_[j].at
  /\ j = Len(buf_) + 1 => p = size

\* The message is written, and a reader at the offset p has the fields to read
\* that the writer had to put when it was there.
Resumes(p, fs) ==
  \E h: /\ History(h) /\ h[Len(buf_) + 1] = << >>
        /\ \E j: IsOffset(p, j) /\ fs = h[j]

\* The reader's counters.
Counters ==
  /\ message \in DOMAIN Format /\ shape \in Shapes
  /\ len_ \in Nat /\ pos_ \in Nat /\ pos_ <= len_ /\ len_ <= size
  /\ status = "writing" => pos_ = 0 /\ len_ = 0

\* Writer and reader agree on where they are, and nothing was misread.
CodecInv ==
  /\ Counters /\ Layout
  /\ shape.cap < 256 => wrong = {}
  /\ status = "writing" => Written(fields)
  /\ status = "reading" => Resumes(pos_, fields)
  /\ RoundTrip /\ InBoundsAccepted

-----------------------------------------------------------------------------
\* serialize.cpp: each domain type is read in the order in which it is written.
LEMMA SameTypes ==
  /\ serialize_retry_policy = deserialize_retry_policy
  /\ serialize_state_dep = deserialize_state_dep
  /\ serialize_task = deserialize_task
  /\ serialize_workload = deserialize_workload
  /\ serialize_attempt = deserialize_attempt
  /\ serialize_placement = deserialize_placement
<1>1. serialize_retry_policy = deserialize_retry_policy /\ serialize_state_dep = deserialize_state_dep
  BY DEF serialize_retry_policy, deserialize_retry_policy, serialize_state_dep, deserialize_state_dep
<1>2. serialize_task = deserialize_task
  BY <1>1 DEF serialize_task, deserialize_task
<1>3. serialize_workload = deserialize_workload
  BY DEF serialize_workload, deserialize_workload
<1>4. serialize_attempt = deserialize_attempt
  BY DEF serialize_attempt, deserialize_attempt
<1>5. serialize_placement = deserialize_placement
  BY DEF serialize_placement, deserialize_placement
<1> QED
  BY <1>1, <1>2, <1>3, <1>4, <1>5

\* messages.cpp: so is every message between coordinator and node about sessions and capacity.
LEMMA SameNodeMessages ==
  /\ serialize_Hello = deserialize_hello
  /\ serialize_NodeRegister = deserialize_node_register
  /\ serialize_NodeRegisterAck = deserialize_node_register_ack
  /\ serialize_NodeHeartbeat = deserialize_node_heartbeat
  /\ serialize_NodeHeartbeatAck = deserialize_node_heartbeat_ack
  /\ serialize_NodeShutdown = deserialize_node_shutdown
  /\ serialize_NodeShutdownAck = deserialize_node_shutdown_ack
<1>1. serialize_Hello = deserialize_hello
  BY DEF serialize_Hello, deserialize_hello
<1>2. serialize_NodeRegister = deserialize_node_register
  BY DEF serialize_NodeRegister, deserialize_node_register, serialize_capacity,
    deserialize_capacity, deserialize_executor_cap
<1>3. serialize_NodeRegisterAck = deserialize_node_register_ack
  BY DEF serialize_NodeRegisterAck, deserialize_node_register_ack
<1>4. serialize_NodeHeartbeat = deserialize_node_heartbeat
  BY DEF serialize_NodeHeartbeat, deserialize_node_heartbeat
<1>5. serialize_NodeHeartbeatAck = deserialize_node_heartbeat_ack
  BY DEF serialize_NodeHeartbeatAck, deserialize_node_heartbeat_ack
<1>6. serialize_NodeShutdown = deserialize_node_shutdown
  BY DEF serialize_NodeShutdown, deserialize_node_shutdown
<1>7. serialize_NodeShutdownAck = deserialize_node_shutdown_ack
  BY DEF serialize_NodeShutdownAck, deserialize_node_shutdown_ack
<1> QED
  BY <1>1, <1>2, <1>3, <1>4, <1>5, <1>6, <1>7

\* messages.cpp: so is every message of the client protocol.
LEMMA SameClientMessages ==
  /\ serialize_TaskSubmit = deserialize_task_submit
  /\ serialize_TaskSubmitResponse = deserialize_task_submit_response
  /\ serialize_TaskInspect = deserialize_task_inspect
  /\ serialize_TaskInspectResponse = deserialize_task_inspect_response
  /\ serialize_TaskList = deserialize_task_list
  /\ serialize_TaskListResponse = deserialize_task_list_response
  /\ serialize_TaskCancel = deserialize_task_cancel
  /\ serialize_TaskCancelResponse = deserialize_task_cancel_response
  /\ serialize_WorkloadInspect = deserialize_workload_inspect
  /\ serialize_WorkloadInspectResponse = deserialize_workload_inspect_response
  /\ serialize_FabricStatus = deserialize_fabric_status
  /\ serialize_FabricStatusResponse = deserialize_fabric_status_response
  /\ serialize_PlacementQuery = deserialize_placement_query
  /\ serialize_PlacementResponse = deserialize_placement_response
  /\ serialize_NodeList = deserialize_node_list
  /\ serialize_NodeListResponse = deserialize_node_list_response
  /\ serialize_NodeDrain = deserialize_node_drain
  /\ serialize_NodeDrainResponse = deserialize_node_drain_response
  /\ serialize_CoordinatorShutdown = deserialize_coordinator_shutdown
  /\ serialize_CoordinatorShutdownResponse = deserialize_coordinator_shutdown_response
  /\ serialize_ErrorResponse = deserialize_error_response
<1>1. serialize_TaskSubmit = deserialize_task_submit
  BY SameTypes DEF serialize_TaskSubmit, deserialize_task_submit
<1>2. serialize_TaskSubmitResponse = deserialize_task_submit_response
  BY DEF serialize_TaskSubmitResponse, deserialize_task_submit_response
<1>3. serialize_TaskInspect = deserialize_task_inspect
  BY DEF serialize_TaskInspect, deserialize_task_inspect
<1>4. serialize_TaskInspectResponse = deserialize_task_inspect_response
  BY SameTypes DEF serialize_TaskInspectResponse, deserialize_task_inspect_response
<1>5. serialize_TaskList = deserialize_task_list
  BY DEF serialize_TaskList, deserialize_task_list
<1>6. serialize_TaskListResponse = deserialize_task_list_response
  BY DEF serialize_TaskListResponse, deserialize_task_list_response,
    serialize_TaskListEntry, deserialize_task_list_entry
<1>7. serialize_TaskCancel = deserialize_task_cancel
  BY DEF serialize_TaskCancel, deserialize_task_cancel
<1>8. serialize_TaskCancelResponse = deserialize_task_cancel_response
  BY DEF serialize_TaskCancelResponse, deserialize_task_cancel_response
<1>9. serialize_WorkloadInspect = deserialize_workload_inspect
  BY DEF serialize_WorkloadInspect, deserialize_workload_inspect
<1>10. serialize_WorkloadInspectResponse = deserialize_workload_inspect_response
  BY DEF serialize_WorkloadInspectResponse, deserialize_workload_inspect_response,
    serialize_TaskListEntry, deserialize_task_list_entry
<1>11. serialize_FabricStatus = deserialize_fabric_status
  BY DEF serialize_FabricStatus, deserialize_fabric_status
<1>12. serialize_FabricStatusResponse = deserialize_fabric_status_response
  BY DEF serialize_FabricStatusResponse, deserialize_fabric_status_response,
    serialize_NodeStatusEntry, deserialize_node_status_entry
<1>13. serialize_PlacementQuery = deserialize_placement_query
  BY SameTypes DEF serialize_PlacementQuery, deserialize_placement_query
<1>14. serialize_PlacementResponse = deserialize_placement_response
  BY SameTypes DEF serialize_PlacementResponse, deserialize_placement_response
<1>15. serialize_NodeList = deserialize_node_list
  BY DEF serialize_NodeList, deserialize_node_list
<1>16. serialize_NodeListResponse = deserialize_node_list_response
  BY DEF serialize_NodeListResponse, deserialize_node_list_response,
    serialize_NodeStatusEntry, deserialize_node_status_entry
<1>17. serialize_NodeDrain = deserialize_node_drain
  BY DEF serialize_NodeDrain, deserialize_node_drain
<1>18. serialize_NodeDrainResponse = deserialize_node_drain_response
  BY DEF serialize_NodeDrainResponse, deserialize_node_drain_response
<1>19. serialize_CoordinatorShutdown = deserialize_coordinator_shutdown
  BY DEF serialize_CoordinatorShutdown, deserialize_coordinator_shutdown
<1>20. serialize_CoordinatorShutdownResponse = deserialize_coordinator_shutdown_response
  BY DEF serialize_CoordinatorShutdownResponse, deserialize_coordinator_shutdown_response
<1>21. serialize_ErrorResponse = deserialize_error_response
  BY DEF serialize_ErrorResponse, deserialize_error_response
<1> QED
  BY <1>1, <1>2, <1>3, <1>4, <1>5, <1>6, <1>7, <1>8, <1>9, <1>10, <1>11, <1>12, <1>13,
    <1>14, <1>15, <1>16, <1>17, <1>18, <1>19, <1>20, <1>21

\* messages.cpp: so is every message about attempts and reservations.
LEMMA SameAttemptMessages ==
  /\ serialize_DispatchAttempt = deserialize_dispatch_attempt
  /\ serialize_DispatchAck = deserialize_dispatch_ack
  /\ serialize_AttemptStarted = deserialize_attempt_started
  /\ serialize_AttemptProgress = deserialize_attempt_progress
  /\ serialize_AttemptComplete = deserialize_attempt_complete
  /\ serialize_AttemptFailed = deserialize_attempt_failed
  /\ serialize_AttemptCancelled = deserialize_attempt_cancelled
  /\ serialize_AttemptCancel = deserialize_attempt_cancel
  /\ serialize_AttemptCancelAck = deserialize_attempt_cancel_ack
  /\ serialize_AttemptAck = deserialize_attempt_ack
  /\ serialize_ReservationGrant = deserialize_reservation_grant
  /\ serialize_ReservationRelease = deserialize_reservation_release
  /\ serialize_ReservationReleaseAck = deserialize_reservation_release_ack
<1>1. serialize_DispatchAttempt = deserialize_dispatch_attempt
  BY SameTypes DEF serialize_DispatchAttempt, deserialize_dispatch_attempt
<1>2. serialize_DispatchAck = deserialize_dispatch_ack
  BY DEF serialize_DispatchAck, deserialize_dispatch_ack
<1>3. serialize_AttemptStarted = deserialize_attempt_started
  BY DEF serialize_AttemptStarted, deserialize_attempt_started
<1>4. serialize_AttemptProgress = deserialize_attempt_progress
  BY DEF serialize_AttemptProgress, deserialize_attempt_progress
<1>5. serialize_AttemptComplete = deserialize_attempt_complete
  BY DEF serialize_AttemptComplete, deserialize_attempt_complete
<1>6. serialize_AttemptFailed = deserialize_attempt_failed
  BY DEF serialize_AttemptFailed, deserialize_attempt_failed
<1>7. serialize_AttemptCancelled = deserialize_attempt_cancelled
  BY DEF serialize_AttemptCancelled, deserialize_attempt_cancelled
<1>8. serialize_AttemptCancel = deserialize_attempt_cancel
  BY DEF serialize_AttemptCancel, deserialize_attempt_cancel
<1>9. serialize_AttemptCancelAck = deserialize_attempt_cancel_ack
  BY DEF serialize_AttemptCancelAck, deserialize_attempt_cancel_ack
<1>10. serialize_AttemptAck = deserialize_attempt_ack
  BY DEF serialize_AttemptAck, deserialize_attempt_ack
<1>11. serialize_ReservationGrant = deserialize_reservation_grant
  BY DEF serialize_ReservationGrant, deserialize_reservation_grant
<1>12. serialize_ReservationRelease = deserialize_reservation_release
  BY DEF serialize_ReservationRelease, deserialize_reservation_release
<1>13. serialize_ReservationReleaseAck = deserialize_reservation_release_ack
  BY DEF serialize_ReservationReleaseAck, deserialize_reservation_release_ack
<1> QED
  BY <1>1, <1>2, <1>3, <1>4, <1>5, <1>6, <1>7, <1>8, <1>9, <1>10, <1>11, <1>12, <1>13

\* A deserialize function reads the fields its serialize function puts, in the
\* same order (Format lists every message and every type of the store).
THEOREM SameFields == \A m \in DOMAIN Format: Format[m][1] = Format[m][2]
<1> DEFINE Same(m) == Format[m][1] = Format[m][2]
<1>1. Same("workload") /\ Same("task") /\ Same("attempt") /\ Same("placement")
  BY SameTypes, Zenon DEF Format
<1>2. Same("hello") /\ Same("node_register") /\ Same("node_register_ack") /\
        Same("node_heartbeat") /\ Same("node_heartbeat_ack") /\ Same("node_shutdown") /\
        Same("node_shutdown_ack")
  BY SameNodeMessages, ZenonT(60) DEF Format
<1>3. Same("task_submit") /\ Same("task_submit_response") /\ Same("task_inspect") /\
        Same("task_inspect_response") /\ Same("task_list") /\ Same("task_list_response") /\
        Same("task_cancel") /\ Same("task_cancel_response") /\ Same("workload_inspect") /\
        Same("workload_inspect_response") /\ Same("fabric_status") /\
        Same("fabric_status_response") /\ Same("placement_query")
  BY SameClientMessages, ZenonT(60) DEF Format
<1>4. Same("placement_response") /\ Same("node_list") /\ Same("node_list_response") /\
        Same("node_drain") /\ Same("node_drain_response") /\ Same("coordinator_shutdown") /\
        Same("coordinator_shutdown_response") /\ Same("error_response")
  BY SameClientMessages, ZenonT(60) DEF Format
<1>5. Same("dispatch_attempt") /\ Same("dispatch_ack") /\ Same("attempt_started") /\
        Same("attempt_progress") /\ Same("attempt_complete") /\ Same("attempt_failed") /\
        Same("attempt_cancelled") /\ Same("attempt_cancel") /\ Same("attempt_cancel_ack") /\
        Same("attempt_ack") /\ Same("reservation_grant") /\ Same("reservation_release") /\
        Same("reservation_release_ack")
  BY SameAttemptMessages, ZenonT(60) DEF Format
<1> HIDE DEF Same
<1>6. DOMAIN Format =
        {"workload", "task", "attempt", "placement", "hello", "node_register",
          "node_register_ack", "node_heartbeat", "node_heartbeat_ack", "node_shutdown",
          "node_shutdown_ack", "task_submit", "task_submit_response", "task_inspect",
          "task_inspect_response", "task_list", "task_list_response", "task_cancel",
          "task_cancel_response", "workload_inspect", "workload_inspect_response",
          "fabric_status", "fabric_status_response", "placement_query",
          "placement_response", "node_list", "node_list_response", "node_drain",
          "node_drain_response", "coordinator_shutdown", "coordinator_shutdown_response",
          "dispatch_attempt", "dispatch_ack", "attempt_started", "attempt_progress",
          "attempt_complete", "attempt_failed", "attempt_cancelled", "attempt_cancel",
          "attempt_cancel_ack", "attempt_ack", "reservation_grant", "reservation_release",
          "reservation_release_ack", "error_response"}
  BY Zenon DEF Format
<1>7. \A m \in DOMAIN Format: Same(m)
  BY <1>1, <1>2, <1>3, <1>4, <1>5, <1>6
<1> QED
  BY <1>7 DEF Same

-----------------------------------------------------------------------------
\* Every field takes at least a byte, and what a shape allows for it is a number.
LEMMA FieldFacts ==
  ASSUME NEW f, NEW s \in Shapes
  PROVE  /\ Lead(f) \in Nat \ {0}
         /\ Values(f, s) \subseteq Nat
         /\ f.kind \in {"str", "list"} => Lead(f) = 4
         /\ f.kind = "opt" => Lead(f) = 1
<1>1. Lead(f) \in Nat \ {0} /\ (f.kind \in {"str", "list"} => Lead(f) = 4)
      /\ (f.kind = "opt" => Lead(f) = 1)
  BY DEF Lead, Number
<1>2. s.list \subseteq Nat /\ s.opt \subseteq Nat /\ s.str \subseteq Nat /\ s.cap \in Nat
  BY CodecAssumption
<1>3. s.cap % 256 \in Nat
  BY <1>2
<1>4. Values(f, s) \subseteq Nat
  BY <1>2, <1>3 DEF Values
<1> QED
  BY <1>1, <1>4

\* What a chunk holds: the bytes of its field, and a value the shape allows.
LEMMA PutFacts ==
  ASSUME NEW c, NEW fs, shape \in Shapes, IsPut(c, fs, shape)
  PROVE  /\ fs # << >> /\ c.name = Head(fs).name
         /\ c.val \in Nat /\ c.width \in Nat \ {0}
         /\ c.lead = Lead(Head(fs)) /\ c.lead \in Nat \ {0} /\ c.lead <= c.width
         /\ Head(fs).kind = "str" => c.lead = 4 /\ c.width = 4 + c.val /\ c.val \in shape.str
         /\ Head(fs).kind = "list" => c.lead = 4 /\ c.width = 4 /\ c.val \in shape.list
         /\ Head(fs).kind = "opt" => c.lead = 1 /\ c.width = 1
         /\ Head(fs).kind # "str" => c.width = c.lead
<1> DEFINE f == Head(fs)
<1> HIDE DEF f
<1>1. /\ fs # << >> /\ c.name = f.name /\ c.lead = Lead(f) /\ c.val \in Values(f, shape)
      /\ c.width = Lead(f) + IF f.kind = "str" THEN c.val ELSE 0
  BY DEF IsPut, f
<1>2. /\ Lead(f) \in Nat \ {0} /\ Values(f, shape) \subseteq Nat
      /\ f.kind \in {"str", "list"} => Lead(f) = 4
      /\ f.kind = "opt" => Lead(f) = 1
  BY FieldFacts
<1>3. /\ f.kind = "str" => Values(f, shape) = shape.str
      /\ f.kind = "list" => Values(f, shape) = shape.list
  BY DEF Values
<1>4. c.val \in Nat
  BY <1>1, <1>2
<1>5. /\ c.width \in Nat \ {0} /\ c.lead \in Nat \ {0} /\ c.lead <= c.width
      /\ f.kind = "str" => c.lead = 4 /\ c.width = 4 + c.val
      /\ f.kind = "list" => c.lead = 4 /\ c.width = 4
      /\ f.kind = "opt" => c.lead = 1 /\ c.width = 1
      /\ f.kind # "str" => c.width = c.lead
  BY <1>1, <1>2, <1>4
<1>6. /\ f.kind = "str" => c.val \in shape.str
      /\ f.kind = "list" => c.val \in shape.list
  BY <1>1, <1>3
<1> QED
  BY <1>1, <1>4, <1>5, <1>6 DEF f

\* No two chunks start at the same byte: what the reader finds at the offset of
\* a chunk is that chunk.
LEMMA ChunkAt ==
  ASSUME Layout, NEW j \in 1 .. Len(buf_), buf_[j].at = pos_
  PROVE  Chunk(buf_[j].lead) = buf_[j]
<1> DEFINE starting == {c \in Range(buf_): c.at = pos_ /\ c.lead = buf_[j].lead}
<1>1. PICK S: buf_ \in Seq(S)
  BY DEF Layout
<1>2. Len(buf_) \in Nat /\ DOMAIN buf_ = 1 .. Len(buf_)
  BY <1>1
<1>3. buf_[j] \in starting
  BY <1>2 DEF Range
<1>4. ASSUME NEW c \in starting PROVE c = buf_[j]
  <2>1. PICK i \in 1 .. Len(buf_): c = buf_[i]
    BY <1>2 DEF Range
  <2>2. buf_[i].at = buf_[j].at
    BY <2>1
  <2>3. /\ buf_[i].at \in Nat /\ buf_[i].width \in Nat \ {0}
        /\ buf_[j].at \in Nat /\ buf_[j].width \in Nat \ {0}
        /\ i < j => buf_[i].at + buf_[i].width <= buf_[j].at
        /\ j < i => buf_[j].at + buf_[j].width <= buf_[i].at
    BY DEF Layout
  <2>4. i = j
    BY <1>2, <2>2, <2>3
  <2> QED
    BY <2>1, <2>4
<1>5. (CHOOSE c \in starting: TRUE) = buf_[j]
  BY <1>3, <1>4
<1> QED
  BY <1>3, <1>5, Zenon DEF Chunk

\* A chunk ends where the next one starts, the last one at the end.
LEMMA NextOffset ==
  ASSUME Layout, NEW j \in 1 .. Len(buf_), IsOffset(pos_, j)
  PROVE  /\ pos_ = buf_[j].at /\ pos_ + buf_[j].width <= size
         /\ IsOffset(pos_ + buf_[j].width, j + 1)
<1>1. PICK S: buf_ \in Seq(S)
  BY DEF Layout
<1>2. Len(buf_) \in Nat /\ buf_ # << >>
  BY <1>1
<1>3. pos_ = buf_[j].at
  BY <1>2 DEF IsOffset
<1>4. j < Len(buf_) => buf_[j + 1].at = buf_[j].at + buf_[j].width
  BY DEF Layout
<1>5. j = Len(buf_) => size = buf_[j].at + buf_[j].width
  BY <1>2 DEF size
<1>6. buf_[j].at + buf_[j].width <= size
  BY DEF Layout
<1> QED
  BY <1>2, <1>3, <1>4, <1>5, <1>6 DEF IsOffset

\* A reader that has fields left is at the chunk that was put from the next of
\* them, and after that chunk it is at the fields that were left for the writer.
LEMMA Here ==
  ASSUME CodecInv, status = "reading", fields # << >>
  PROVE  \E c: /\ IsPut(c, fields, shape) /\ Chunk(Lead(Head(fields))) = c
               /\ pos_ + c.width <= size
               /\ Resumes(pos_ + c.width, After(fields, c.val))
<1>1. Layout /\ Resumes(pos_, fields)
  BY DEF CodecInv
<1>2. PICK h: /\ History(h) /\ h[Len(buf_) + 1] = << >>
              /\ \E j: IsOffset(pos_, j) /\ fields = h[j]
  BY <1>1 DEF Resumes
<1>3. PICK j: IsOffset(pos_, j) /\ fields = h[j]
  BY <1>2
<1>4. PICK S: buf_ \in Seq(S)
  BY <1>1 DEF Layout
<1>5. j \in 1 .. Len(buf_)
  BY <1>2, <1>3, <1>4 DEF IsOffset
<1>6. IsPut(buf_[j], fields, shape) /\ h[j + 1] = After(fields, buf_[j].val)
  BY <1>2, <1>3, <1>5 DEF History
<1>7. /\ pos_ = buf_[j].at /\ pos_ + buf_[j].width <= size
      /\ IsOffset(pos_ + buf_[j].width, j + 1)
  BY <1>1, <1>3, <1>5, NextOffset
<1>8. buf_[j].lead = Lead(Head(fields))
  BY <1>6 DEF IsPut
<1>9. Chunk(Lead(Head(fields))) = buf_[j]
  BY <1>1, <1>5, <1>7, <1>8, ChunkAt
<1>10. Resumes(pos_ + buf_[j].width, After(fields, buf_[j].val))
  BY <1>2, <1>6, <1>7 DEF Resumes
<1> QED
  BY <1>6, <1>7, <1>9, <1>10

-----------------------------------------------------------------------------
\* A failed read keeps the invariant if it is not the refusal of a complete
\* message within the bounds: what it has consumed, a length or nothing, is there.
LEMMA FailKeeps ==
  ASSUME CodecInv, NEW reason \in {"truncated", "bound"}, NEW n \in Nat, n = 0 \/ Has(n),
         Fail(reason, n), InBounds => len_ < size
  PROVE  CodecInv'
<1>1. /\ status' = reason /\ pos_' = pos_ + n
      /\ message' = message /\ shape' = shape /\ buf_' = buf_ /\ len_' = len_
      /\ wrong' = wrong
  BY DEF Fail
<1>2. size' = size /\ InBounds' = InBounds
  BY <1>1 DEF size, InBounds
<1>3. Counters'
  <2>1. pos_' \in Nat /\ pos_' <= len_
    BY <1>1 DEF CodecInv, Counters, Has
  <2> QED
    BY <1>1, <1>2, <2>1 DEF CodecInv, Counters
<1>4. Layout'
  BY <1>1, <1>2 DEF CodecInv, Layout
<1>5. RoundTrip' /\ InBoundsAccepted'
  BY <1>1, <1>2 DEF RoundTrip, InBoundsAccepted
<1> QED
  BY <1>1, <1>3, <1>4, <1>5 DEF CodecInv

\* A read that takes the chunk it is at, all of which is there, keeps the
\* invariant.
LEMMA AdvanceKeeps ==
  ASSUME CodecInv, status = "reading", NEW c, c.width \in Nat,
         Resumes(pos_ + c.width, After(fields, c.val)), Has(c.width),
         NEW v, After(fields, v) = After(fields, c.val),
         NEW right, shape.cap < 256 => right, Advance(c.width, v, right)
  PROVE  CodecInv'
<1>1. /\ pos_' = pos_ + c.width /\ fields' = After(fields, c.val)
      /\ wrong' = IF right THEN wrong ELSE wrong \union {Head(fields).name}
      /\ message' = message /\ shape' = shape /\ buf_' = buf_ /\ len_' = len_
      /\ status' = status
  BY DEF Advance
<1>2. size' = size
  BY <1>1 DEF size
<1>3. Counters'
  BY <1>1, <1>2 DEF CodecInv, Counters, Has
<1>4. Layout'
  BY <1>1, <1>2 DEF CodecInv, Layout
<1>5. shape.cap < 256 => wrong' = {}
  BY <1>1 DEF CodecInv
<1>6. Resumes(pos_, fields)'
  BY <1>1, <1>2, Zenon DEF Resumes, History, IsOffset
<1>7. RoundTrip' /\ InBoundsAccepted'
  BY <1>1 DEF RoundTrip, InBoundsAccepted
<1> QED
  BY <1>1, <1>3, <1>4, <1>5, <1>6, <1>7 DEF CodecInv

\* read_u8 .. read_id: the width that is read is the width that was put.
LEMMA ReadNumberKeeps ==
  ASSUME CodecInv, ReadNumber
  PROVE  CodecInv'
<1>1. PICK c: /\ IsPut(c, fields, shape) /\ Chunk(Lead(Head(fields))) = c
              /\ pos_ + c.width <= size
              /\ Resumes(pos_ + c.width, After(fields, c.val))
  BY Here DEF ReadNumber, Reading
<1>2. shape \in Shapes /\ len_ \in Nat /\ pos_ \in Nat /\ size \in Nat
  BY DEF CodecInv, Counters, Layout
<1> DEFINE f == Head(fields)
<1> HIDE DEF f
<1>3. f.kind \in DOMAIN Number \union {"narrow"} /\ status = "reading"
  BY DEF ReadNumber, Reading, f
<1>4. f.kind \notin {"str", "list", "opt"}
  BY <1>3 DEF Number
<1>5. /\ c.name = f.name /\ c.width \in Nat \ {0} /\ c.width = Lead(f)
      /\ c.val \in Values(f, shape)
  BY <1>1, <1>2, <1>4, PutFacts, SMTT(30) DEF IsPut, f
<1>6. After(fields, 0) = After(fields, c.val)
  BY <1>4, Zenon DEF After, f
<1>7. f.kind = "narrow" /\ shape.cap < 256 => c.val = shape.cap
  <2>1. f.kind = "narrow" => c.val = shape.cap % 256
    BY <1>5 DEF Values
  <2>2. shape.cap \in Nat
    BY <1>2, CodecAssumption
  <2> QED
    BY <2>1, <2>2
<1>8. CASE ~Has(Lead(f))
  <2>1. Fail("truncated", 0)
    BY <1>8 DEF ReadNumber, f
  <2>2. len_ < size
    BY <1>1, <1>2, <1>5, <1>8 DEF Has
  <2> QED
    BY <2>1, <2>2, FailKeeps
<1>9. CASE Has(Lead(f))
  <2> DEFINE right == c.name = f.name /\ (f.kind = "narrow" => c.val = shape.cap)
  <2>1. Advance(c.width, 0, right)
    BY <1>1, <1>5, <1>9 DEF ReadNumber, f
  <2>2. shape.cap < 256 => right
    BY <1>5, <1>7
  <2> HIDE DEF right
  <2> QED
    BY <1>1, <1>3, <1>5, <1>6, <1>9, <2>1, <2>2, AdvanceKeeps, Zenon
<1> QED
  BY <1>8, <1>9

\* read_string: a string within the bound is refused only if its bytes are
\* missing.
LEMMA read_stringKeeps ==
  ASSUME CodecInv, read_string
  PROVE  CodecInv'
<1>1. PICK c: /\ IsPut(c, fields, shape) /\ Chunk(Lead(Head(fields))) = c
              /\ pos_ + c.width <= size
              /\ Resumes(pos_ + c.width, After(fields, c.val))
  BY Here DEF read_string, Reading
<1>2. shape \in Shapes /\ len_ \in Nat /\ pos_ \in Nat /\ size \in Nat
  BY DEF CodecInv, Counters, Layout
<1>3. Head(fields).kind = "str" /\ status = "reading"
  BY DEF read_string, Reading
<1>4. /\ c.name = Head(fields).name /\ c.val \in Nat /\ c.width = 4 + c.val
      /\ c.val \in shape.str /\ Chunk(4) = c
  BY <1>1, <1>2, <1>3, PutFacts
<1>5. kMaxString \in Nat
  BY CodecAssumption
<1>6. CASE ~Has(4)
  <2>1. Fail("truncated", 0)
    BY <1>6 DEF read_string
  <2>2. len_ < size
    BY <1>1, <1>2, <1>4, <1>6 DEF Has
  <2> QED
    BY <2>1, <2>2, FailKeeps
<1>7. CASE Has(4) /\ c.val > kMaxString
  <2>1. Fail("bound", 4)
    BY <1>4, <1>5, <1>7 DEF read_string
  <2>2. ~InBounds
    BY <1>4, <1>5, <1>7 DEF InBounds
  <2> QED
    BY <1>7, <2>1, <2>2, FailKeeps
<1>8. CASE Has(4) /\ c.val <= kMaxString /\ ~Has(4 + c.val)
  <2>1. Fail("truncated", 4)
    BY <1>4, <1>5, <1>8 DEF read_string
  <2>2. len_ < size
    BY <1>1, <1>2, <1>4, <1>8 DEF Has
  <2> QED
    BY <1>8, <2>1, <2>2, FailKeeps
<1>9. CASE Has(4) /\ c.val <= kMaxString /\ Has(4 + c.val)
  <2> DEFINE right == c.name = Head(fields).name /\ c.width = 4 + c.val
  <2>1. Advance(c.width, c.val, right)
    BY <1>4, <1>5, <1>9 DEF read_string
  <2>2. right
    BY <1>4
  <2>3. c.width \in Nat /\ Has(c.width)
    BY <1>4, <1>9
  <2> HIDE DEF right
  <2> QED
    BY <1>1, <1>3, <2>1, <2>2, <2>3, AdvanceKeeps, Zenon
<1> QED
  BY <1>4, <1>5, <1>6, <1>7, <1>8, <1>9

\* A list within the bound is refused only if its count is missing.
LEMMA ReadListKeeps ==
  ASSUME CodecInv, ReadList
  PROVE  CodecInv'
<1>1. PICK c: /\ IsPut(c, fields, shape) /\ Chunk(Lead(Head(fields))) = c
              /\ pos_ + c.width <= size
              /\ Resumes(pos_ + c.width, After(fields, c.val))
  BY Here DEF ReadList, Reading
<1>2. shape \in Shapes /\ len_ \in Nat /\ pos_ \in Nat /\ size \in Nat
  BY DEF CodecInv, Counters, Layout
<1>3. Head(fields).kind = "list" /\ status = "reading"
  BY DEF ReadList, Reading
<1>4. /\ c.name = Head(fields).name /\ c.val \in Nat /\ c.width = 4
      /\ c.val \in shape.list /\ Chunk(4) = c
  BY <1>1, <1>2, <1>3, PutFacts
<1>5. kMaxList \in Nat
  BY CodecAssumption
<1>6. CASE ~Has(4)
  <2>1. Fail("truncated", 0)
    BY <1>6 DEF ReadList
  <2>2. len_ < size
    BY <1>1, <1>2, <1>4, <1>6 DEF Has
  <2> QED
    BY <2>1, <2>2, FailKeeps
<1>7. CASE Has(4) /\ c.val > kMaxList
  <2>1. Fail("bound", 4)
    BY <1>4, <1>5, <1>7 DEF ReadList
  <2>2. ~InBounds
    BY <1>4, <1>5, <1>7 DEF InBounds
  <2> QED
    BY <1>7, <2>1, <2>2, FailKeeps
<1>8. CASE Has(4) /\ c.val <= kMaxList
  <2> DEFINE right == c.name = Head(fields).name
  <2>1. Advance(c.width, c.val, right)
    BY <1>4, <1>5, <1>8 DEF ReadList
  <2>2. right
    BY <1>4
  <2>3. c.width \in Nat /\ Has(c.width)
    BY <1>4, <1>8
  <2> HIDE DEF right
  <2> QED
    BY <1>1, <1>3, <2>1, <2>2, <2>3, AdvanceKeeps, Zenon
<1> QED
  BY <1>4, <1>5, <1>6, <1>7, <1>8

\* read_optional_id: the flag decides whether the identifier follows, as it did
\* when it was put.
LEMMA read_optional_idKeeps ==
  ASSUME CodecInv, read_optional_id
  PROVE  CodecInv'
<1>1. PICK c: /\ IsPut(c, fields, shape) /\ Chunk(Lead(Head(fields))) = c
              /\ pos_ + c.width <= size
              /\ Resumes(pos_ + c.width, After(fields, c.val))
  BY Here DEF read_optional_id, Reading
<1>2. shape \in Shapes /\ len_ \in Nat /\ pos_ \in Nat /\ size \in Nat
  BY DEF CodecInv, Counters, Layout
<1>3. Head(fields).kind = "opt" /\ status = "reading"
  BY DEF read_optional_id, Reading
<1>4. c.name = Head(fields).name /\ c.width = 1 /\ Chunk(1) = c
  BY <1>1, <1>2, <1>3, PutFacts
<1>5. CASE ~Has(1)
  <2>1. Fail("truncated", 0)
    BY <1>5 DEF read_optional_id
  <2>2. len_ < size
    BY <1>1, <1>2, <1>4, <1>5 DEF Has
  <2> QED
    BY <2>1, <2>2, FailKeeps
<1>6. CASE Has(1)
  <2> DEFINE right == c.name = Head(fields).name
  <2>1. Advance(c.width, c.val, right)
    BY <1>4, <1>6 DEF read_optional_id
  <2>2. right
    BY <1>4
  <2>3. c.width \in Nat /\ Has(c.width)
    BY <1>4, <1>6
  <2> HIDE DEF right
  <2> QED
    BY <1>1, <1>3, <2>1, <2>2, <2>3, AdvanceKeeps, Zenon
<1> QED
  BY <1>5, <1>6

-----------------------------------------------------------------------------
\* put_u8 .. put_string: the new chunk lies behind the others.
LEMMA PutLayout ==
  ASSUME CodecInv, Put
  PROVE  /\ Layout' /\ size <= size'
         /\ \E v \in Values(Head(fields), shape):
              /\ fields' = After(fields, v)
              /\ Len(buf_') = Len(buf_) + 1
              /\ \A i \in 1 .. Len(buf_): buf_'[i] = buf_[i]
              /\ IsPut(buf_'[Len(buf_) + 1], fields, shape)
              /\ buf_'[Len(buf_) + 1].val = v
<1> DEFINE f == Head(fields)
           n == Len(buf_)
<1>1. Layout /\ shape \in Shapes
  BY DEF CodecInv, Counters
<1>2. PICK v \in Values(f, shape):
        /\ buf_' = Append(buf_, [at |-> size, name |-> f.name, lead |-> Lead(f), val |-> v,
                                 width |-> Lead(f) + IF f.kind = "str" THEN v ELSE 0])
        /\ fields' = After(fields, v)
  BY DEF Put
<1> DEFINE c == [at |-> size, name |-> f.name, lead |-> Lead(f), val |-> v,
                 width |-> Lead(f) + IF f.kind = "str" THEN v ELSE 0]
<1>3. c.at = size /\ c.val = v /\ IsPut(c, fields, shape)
  BY <1>2 DEF IsPut, Put
<1>4. c.width \in Nat \ {0}
  BY <1>1, <1>3, PutFacts
<1>5. buf_' = Append(buf_, c)
  BY <1>2
<1> HIDE DEF c
<1>6. PICK S: buf_ \in Seq(S)
  BY <1>1 DEF Layout
<1>7. buf_ \in Seq(S \union {c})
  BY <1>6
<1>8. buf_' \in Seq(S \union {c})
  BY <1>5, <1>7
<1>9. /\ n \in Nat /\ Len(buf_') = n + 1 /\ buf_'[n + 1] = c
      /\ \A i \in 1 .. n: buf_'[i] = buf_[i]
  BY <1>5, <1>7
<1>10. size' = size + c.width
  BY <1>3, <1>8, <1>9 DEF size
<1> HIDE DEF n
<1>11. /\ size \in Nat
       /\ \A j \in 1 .. n:
            /\ buf_[j].at \in Nat /\ buf_[j].width \in Nat \ {0}
            /\ buf_[j].at + buf_[j].width <= size
            /\ j = 1 => buf_[j].at = 0
       /\ \A i, j \in 1 .. n: i < j => buf_[i].at + buf_[i].width <= buf_[j].at
       /\ \A j \in 1 .. n: j < n => buf_[j + 1].at = buf_[j].at + buf_[j].width
  BY <1>1 DEF Layout, n
<1>12. n = 0 => size = 0
  BY <1>6 DEF size, n
<1>13. n > 0 => size = buf_[n].at + buf_[n].width
  BY <1>6 DEF size, n
<1>14. size' \in Nat /\ size <= size'
  BY <1>4, <1>10, <1>11
<1>15. \A j \in 1 .. n + 1:
         /\ buf_'[j].at \in Nat /\ buf_'[j].width \in Nat \ {0}
         /\ buf_'[j].at + buf_'[j].width <= size'
         /\ j = 1 => buf_'[j].at = 0
  <2> SUFFICES ASSUME NEW j \in 1 .. n + 1
               PROVE  /\ buf_'[j].at \in Nat /\ buf_'[j].width \in Nat \ {0}
                      /\ buf_'[j].at + buf_'[j].width <= size'
                      /\ j = 1 => buf_'[j].at = 0
    OBVIOUS
  <2>1. CASE j \in 1 .. n
    <3>1. /\ buf_[j].at \in Nat /\ buf_[j].width \in Nat \ {0}
          /\ buf_[j].at + buf_[j].width <= size
          /\ j = 1 => buf_[j].at = 0
      BY <1>11, <2>1
    <3>2. buf_'[j] = buf_[j]
      BY <1>9, <2>1 DEF n
    <3> QED
      BY <1>4, <1>10, <1>11, <3>1, <3>2
  <2>2. CASE j = n + 1
    <3>1. buf_'[j] = c
      BY <1>9, <2>2 DEF n
    <3>2. n \in Nat
      BY <1>9 DEF n
    <3> QED
      BY <1>3, <1>4, <1>10, <1>11, <1>12, <2>2, <3>1, <3>2
  <2> QED
    BY <1>9, <2>1, <2>2 DEF n
<1>16. \A i, j \in 1 .. n + 1: i < j => buf_'[i].at + buf_'[i].width <= buf_'[j].at
  <2> SUFFICES ASSUME NEW i \in 1 .. n + 1, NEW j \in 1 .. n + 1, i < j
               PROVE  buf_'[i].at + buf_'[i].width <= buf_'[j].at
    OBVIOUS
  <2>1. n \in Nat /\ i \in 1 .. n
    BY <1>9 DEF n
  <2>2. buf_'[i] = buf_[i] /\ buf_[i].at + buf_[i].width <= size
    BY <1>9, <1>11, <2>1 DEF n
  <2>3. CASE j \in 1 .. n
    <3>1. buf_'[j] = buf_[j] /\ buf_[i].at + buf_[i].width <= buf_[j].at
      BY <1>9, <1>11, <2>1, <2>3 DEF n
    <3> QED
      BY <2>2, <3>1
  <2>4. CASE j = n + 1
    BY <1>3, <1>9, <2>2, <2>4 DEF n
  <2> QED
    BY <2>1, <2>3, <2>4
<1>17. \A j \in 1 .. n + 1: j < n + 1 => buf_'[j + 1].at = buf_'[j].at + buf_'[j].width
  <2> SUFFICES ASSUME NEW j \in 1 .. n PROVE buf_'[j + 1].at = buf_'[j].at + buf_'[j].width
    BY <1>9
  <2>1. n \in Nat /\ buf_'[j] = buf_[j]
    BY <1>9 DEF n
  <2>2. CASE j < n
    <3>1. j + 1 \in 1 .. n
      BY <2>1, <2>2
    <3>2. buf_'[j + 1] = buf_[j + 1]
      BY <1>9, <3>1 DEF n
    <3>3. buf_[j + 1].at = buf_[j].at + buf_[j].width
      BY <1>11, <2>2
    <3> QED
      BY <2>1, <3>2, <3>3
  <2>3. CASE j = n
    <3>1. buf_'[j + 1] = c
      BY <1>9, <2>3 DEF n
    <3>2. size = buf_[j].at + buf_[j].width
      BY <1>13, <2>1, <2>3
    <3> QED
      BY <1>3, <2>1, <3>1, <3>2
  <2> QED
    BY <2>1, <2>2, <2>3
<1>18. Layout'
  BY <1>8, <1>9, <1>14, <1>15, <1>16, <1>17, SMTT(30) DEF Layout
<1> QED
  BY <1>2, <1>3, <1>9, <1>14, <1>18 DEF n

\* A serialize function that puts a field has come to the fields behind it.
LEMMA PutKeeps ==
  ASSUME CodecInv, Put
  PROVE  CodecInv'
<1>1. /\ message' = message /\ shape' = shape /\ len_' = len_ /\ pos_' = pos_
      /\ wrong' = wrong /\ status' = status /\ status = "writing"
  BY DEF Put
<1>2. PICK v \in Values(Head(fields), shape):
              /\ fields' = After(fields, v)
              /\ Len(buf_') = Len(buf_) + 1
              /\ \A i \in 1 .. Len(buf_): buf_'[i] = buf_[i]
              /\ IsPut(buf_'[Len(buf_) + 1], fields, shape)
              /\ buf_'[Len(buf_) + 1].val = v
  BY PutLayout
<1>3. PICK h: History(h) /\ fields = h[Len(buf_) + 1]
  BY <1>1 DEF CodecInv, Written
<1>4. Len(buf_) \in Nat
  BY DEF CodecInv, Layout
<1> DEFINE n == Len(buf_)
<1> HIDE DEF n
<1>5. PICK g: /\ n \in Nat /\ g[n + 2] = After(fields, v)
              /\ \A i \in 1 .. n + 1: g[i] = h[i]
  <2> DEFINE longer == [i \in 1 .. n + 2 |-> IF i <= n + 1 THEN h[i] ELSE After(fields, v)]
  <2>1. /\ n \in Nat /\ longer[n + 2] = After(fields, v)
        /\ \A i \in 1 .. n + 1: longer[i] = h[i]
    BY <1>4 DEF n
  <2> HIDE DEF longer
  <2> QED
    BY <2>1
<1>6. g[1] = Format[message'][1]
  BY <1>1, <1>3, <1>5 DEF History
<1>7. ASSUME NEW j \in 1 .. n + 1
      PROVE  IsPut(buf_'[j], g[j], shape) /\ g[j + 1] = After(g[j], buf_'[j].val)
  <2>1. CASE j \in 1 .. n
    BY <1>2, <1>3, <1>5, <2>1 DEF History, n
  <2>2. CASE j = n + 1
    BY <1>2, <1>3, <1>5, <2>2 DEF n
  <2> QED
    BY <1>5, <2>1, <2>2
<1>8. Written(fields)'
  <2>1. History(g)'
    BY <1>1, <1>2, <1>6, <1>7 DEF History, IsPut, n
  <2>2. fields' = g[Len(buf_') + 1]
    BY <1>2, <1>5 DEF n
  <2> QED
    BY <2>1, <2>2 DEF Written
<1>9. Layout' /\ size <= size' /\ size \in Nat /\ size' \in Nat
  BY PutLayout, SMTT(30) DEF CodecInv, Layout
<1>10. Counters'
  BY <1>1, <1>9 DEF CodecInv, Counters
<1>11. RoundTrip' /\ InBoundsAccepted'
  BY <1>1 DEF RoundTrip, InBoundsAccepted
<1> QED
  BY <1>1, <1>8, <1>9, <1>10, <1>11 DEF CodecInv

\* The reader starts at the first byte with the fields that the writer started
\* with.
LEMMA DeliverKeeps ==
  ASSUME CodecInv, Deliver
  PROVE  CodecInv'
<1>1. /\ message' = message /\ shape' = shape /\ buf_' = buf_ /\ pos_' = pos_
      /\ wrong' = wrong /\ status = "writing" /\ status' = "reading"
      /\ fields = << >> /\ fields' = Format[message][2]
      /\ len_' \in {size} \union (Cuts(buf_, shape) \intersect 0 .. size)
  BY DEF Deliver
<1>2. size' = size
  BY <1>1 DEF size
<1>3. Layout'
  BY <1>1, <1>2 DEF CodecInv, Layout
<1>4. pos_ = 0 /\ size \in Nat /\ message \in DOMAIN Format
  BY <1>1 DEF CodecInv, Counters, Layout
<1>5. len_' \in Nat /\ len_' <= size
  BY <1>1, <1>4
<1>6. Counters'
  BY <1>1, <1>2, <1>4, <1>5 DEF CodecInv, Counters
<1>7. PICK h: History(h) /\ fields = h[Len(buf_) + 1]
  BY <1>1 DEF CodecInv, Written
<1>8. IsOffset(0, 1)
  BY DEF CodecInv, Layout, IsOffset, size
<1>9. fields' = h[1]
  BY <1>1, <1>4, <1>7, SameFields DEF History
<1>10. Resumes(0, fields')
  BY <1>1, <1>7, <1>8, <1>9 DEF Resumes
<1>11. Resumes(pos_, fields)'
  BY <1>1, <1>2, <1>4, <1>10 DEF Resumes, History, IsOffset
<1>12. RoundTrip' /\ InBoundsAccepted'
  BY <1>1 DEF RoundTrip, InBoundsAccepted
<1> QED
  BY <1>1, <1>3, <1>6, <1>11, <1>12, Zenon DEF CodecInv

\* A deserialize function that has no field left is behind the last chunk.
LEMMA AcceptKeeps ==
  ASSUME CodecInv, Accept
  PROVE  CodecInv'
<1>1. /\ message' = message /\ shape' = shape /\ buf_' = buf_ /\ len_' = len_ /\ pos_' = pos_
      /\ fields' = fields /\ wrong' = wrong
      /\ status = "reading" /\ fields = << >> /\ status' = "ok"
  BY DEF Accept
<1>2. size' = size
  BY <1>1 DEF size
<1>3. Layout'
  BY <1>1, <1>2 DEF CodecInv, Layout
<1>4. Counters'
  BY <1>1, <1>2 DEF CodecInv, Counters
<1>5. PICK h: History(h) /\ \E j: IsOffset(pos_, j) /\ fields = h[j]
  BY <1>1 DEF CodecInv, Resumes
<1>6. PICK j: IsOffset(pos_, j) /\ fields = h[j]
  BY <1>5
<1>7. j = Len(buf_) + 1
  <2>1. j \in 1 .. Len(buf_) => fields # << >>
    BY <1>5, <1>6 DEF History, IsPut
  <2>2. Len(buf_) \in Nat /\ j \in 1 .. Len(buf_) + 1
    BY <1>6 DEF CodecInv, Layout, IsOffset
  <2> QED
    BY <1>1, <2>1, <2>2
<1>8. pos_ = size
  BY <1>6, <1>7 DEF IsOffset
<1>9. len_ = size
  BY <1>8 DEF CodecInv, Counters, Layout
<1>10. RoundTrip' /\ InBoundsAccepted'
  BY <1>1, <1>2, <1>8, <1>9 DEF CodecInv, RoundTrip, InBoundsAccepted
<1> QED
  BY <1>1, <1>3, <1>4, <1>10 DEF CodecInv

\* The invariant holds of the reachable states.
THEOREM CodecSafe == CodecSpec => []CodecInv
<1>1. CodecInit => CodecInv
  <2> SUFFICES ASSUME CodecInit PROVE CodecInv
    OBVIOUS
  <2>1. buf_ \in Seq({}) /\ Len(buf_) = 0 /\ size = 0
    BY DEF CodecInit, size
  <2>2. Counters
    BY <2>1 DEF CodecInit, Counters
  <2>3. Layout
    BY <2>1 DEF Layout
  <2>4. Written(fields)
    <3> DEFINE h == <<Format[message][1]>>
    <3>1. History(h)
      BY <2>1 DEF History
    <3>2. fields = h[Len(buf_) + 1]
      BY <2>1 DEF CodecInit
    <3> QED
      BY <3>1, <3>2 DEF Written
  <2>5. RoundTrip /\ InBoundsAccepted
    BY DEF CodecInit, RoundTrip, InBoundsAccepted
  <2> QED
    BY <2>2, <2>3, <2>4, <2>5 DEF CodecInv, CodecInit
<1>2. CodecInv /\ [CodecNext]_codec_vars => CodecInv'
  <2>1. ASSUME CodecInv, UNCHANGED codec_vars PROVE CodecInv'
    <3>1. /\ message' = message /\ shape' = shape /\ buf_' = buf_ /\ len_' = len_
          /\ pos_' = pos_ /\ fields' = fields /\ wrong' = wrong /\ status' = status
      BY <2>1 DEF codec_vars
    <3>2. size' = size /\ InBounds' = InBounds
      BY <3>1 DEF size, InBounds
    <3>3. Counters' /\ RoundTrip' /\ InBoundsAccepted'
      BY <2>1, <3>1, <3>2 DEF CodecInv, Counters, RoundTrip, InBoundsAccepted
    <3>4. Layout'
      BY <2>1, <3>1, <3>2 DEF CodecInv, Layout
    <3>5. Written(fields)' = Written(fields)
      BY <3>1 DEF Written, History
    <3>6. Resumes(pos_, fields)' = Resumes(pos_, fields)
      BY <3>1, <3>2, Zenon DEF Resumes, History, IsOffset
    <3> QED
      BY <2>1, <3>1, <3>3, <3>4, <3>5, <3>6 DEF CodecInv
  <2> QED
    BY <2>1, PutKeeps, DeliverKeeps, ReadNumberKeeps, read_stringKeeps, ReadListKeeps,
       read_optional_idKeeps, AcceptKeeps DEF CodecNext
<1> QED
  BY <1>1, <1>2, PTL DEF CodecSpec

\* For every format in Format, every value and every truncation, a message the
\* reader accepts is the message the writer encoded (messages.cpp and
\* serialize.cpp).
THEOREM CodecRoundTrip == CodecSpec => []RoundTrip
<1>1. CodecInv => RoundTrip
  BY DEF CodecInv
<1> QED
  BY <1>1, CodecSafe, PTL

\* A complete message within the bounds is never refused, whatever its optional
\* members (read_string, read_optional_id and the list readers).
THEOREM CodecInBoundsAccepted == CodecSpec => []InBoundsAccepted
<1>1. CodecInv => InBoundsAccepted
  BY DEF CodecInv
<1> QED
  BY <1>1, CodecSafe, PTL

\* No read runs past the end of the buffer (BinaryReader's bounds checks).
THEOREM CodecNoOverread == CodecSpec => []NoOverread
<1>1. CodecInv => NoOverread
  BY DEF CodecInv, Counters, NoOverread
<1> QED
  BY <1>1, CodecSafe, PTL
=============================================================================
