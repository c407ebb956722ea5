------------------------------- MODULE Codec -------------------------------
(***************************************************************************)
(* The wire format shared by the control protocol and the durable store:   *)
(* BinaryWriter and BinaryReader (src/src/protocol/wire.cpp), the domain   *)
(* types (serialize.cpp) and every message (messages.cpp).                 *)
(*                                                                         *)
(* The format carries no tags: a reader finds a member only because it     *)
(* reads the same widths in the same order as the writer wrote them.  A    *)
(* serialize function is modelled by the sequence of fields it puts, a     *)
(* deserialize function by the sequence of fields it reads, each written   *)
(* down from its own function; a field is the struct member and its kind.  *)
(* The bytes are abstracted to chunks that remember the member they were   *)
(* put from; only counts, lengths, presence flags and the one narrowed     *)
(* integer keep a value.  One message is put field by field, delivered,    *)
(* and read field by field.                                                *)
(***************************************************************************)
EXTENDS Naturals, Sequences, Functions

CONSTANTS
  kMaxList,     \* longest list a reader accepts (1 << 16)
  kMaxString,   \* longest string a reader accepts (1 << 20)
  Shapes,       \* the values to encode: the lengths a list may have, the
                \* presence flags of an optional, the lengths of a string, and
                \* the compute capability
  Cuts(_, _)    \* the truncations delivered of a buffer and a shape

ASSUME CodecAssumption ==
  /\ kMaxList \in Nat /\ kMaxString \in Nat
  /\ \A s \in Shapes:
       s.list \subseteq Nat /\ s.opt \subseteq {0, 1} /\ s.str \subseteq Nat /\ s.cap \in Nat

VARIABLES
  message,  \* the kind of the message
  shape,    \* the value that is encoded
  buf_,     \* what the writer has put: chunks in the order of their offsets
  len_,     \* bytes in the reader's buffer
  pos_,     \* bytes consumed
  fields,   \* fields that are still to be put, or to be read
  wrong,    \* members that were assigned other bytes than those put from them
  status    \* "writing", "reading", "ok" or the reason for an error

codec_vars == <<message, shape, buf_, len_, pos_, fields, wrong, status>>

-----------------------------------------------------------------------------
(* Fields.  bool, i32, i64 and f64 travel as u8, u32, u64 and u64.         *)

Number == [u8 |-> 1, u16 |-> 2, u32 |-> 4, u64 |-> 8, id |-> 16]

Num(name, kind) == [kind |-> kind, name |-> name]
U8(name) == Num(name, "u8")
U16(name) == Num(name, "u16")
U32(name) == Num(name, "u32")
U64(name) == Num(name, "u64")
Id(name) == Num(name, "id")
Str(name) == Num(name, "str")
List(name, item) == [kind |-> "list", name |-> name, item |-> item]
Opt(name, item) == [kind |-> "opt", name |-> name, item |-> item]
\* an int member cast to uint8_t by the writer
Narrow(name) == Num(name, "narrow")

\* The bytes of a number, of a count or length, or of a presence flag
Lead(f) ==
  CASE f.kind \in DOMAIN Number -> Number[f.kind]
    [] f.kind \in {"str", "list"} -> 4
    [] OTHER -> 1

\* n values of the same fields
Repeat(n, item) == [i \in 1 .. n * Len(item) |-> item[1 + ((i - 1) % Len(item))]]

\* The fields that are left after the first, for its count or flag v
After(fs, v) ==
  (CASE Head(fs).kind = "list" -> Repeat(v, Head(fs).item)
     [] Head(fs).kind = "opt" /\ v # 0 -> Head(fs).item
     [] OTHER -> << >>) \o Tail(fs)

-----------------------------------------------------------------------------
(* serialize.cpp: the domain types, used by messages and by the store.     *)

serialize_retry_policy == <<U32("max_attempts"), U8("retry_on_node_loss"),
  U8("retry_on_executor_failure"), U8("retry_on_timeout"), U64("retry_backoff_ms")>>
deserialize_retry_policy == <<U32("max_attempts"), U8("retry_on_node_loss"),
  U8("retry_on_executor_failure"), U8("retry_on_timeout"), U64("retry_backoff_ms")>>

serialize_state_dep == <<Str("state_id"), Str("generation"), U64("size_bytes"),
  List("resident_nodes", <<Id("resident")>>), U64("locality_quality"),
  U64("transfer_estimate_seconds"), U64("recompute_estimate_seconds"),
  U8("provider_backed"), Str("compatibility")>>
deserialize_state_dep == <<Str("state_id"), Str("generation"), U64("size_bytes"),
  List("resident_nodes", <<Id("resident")>>), U64("locality_quality"),
  U64("transfer_estimate_seconds"), U64("recompute_estimate_seconds"),
  U8("provider_backed"), Str("compatibility")>>

serialize_task == <<Id("id"), Id("workload"), Str("name"), U8("task_class"),
  U8("required_executor"), Narrow("min_compute_capability_major"),
  Narrow("min_compute_capability_minor"), U32("required_cpu_slots"),
  U32("required_gpu_slots"), U64("scratch_memory_bytes"),
  List("dependencies", <<Id("dependency")>>),
  List("state_dependencies", serialize_state_dep), U64("expected_input_bytes"),
  U64("expected_output_bytes"), U64("estimated_duration_seconds"),
  U8("has_deadline"), U64("deadline_epoch_ms"), U8("priority")>>
  \o serialize_retry_policy \o
  <<List("preferred_nodes", <<Id("preferred")>>),
  List("forbidden_nodes", <<Id("forbidden")>>),
  List("required_tags", <<Str("required_tag")>>),
  List("preferred_tags", <<Str("preferred_tag")>>), Str("anti_affinity_group"),
  Opt("same_node_as_task", <<Id("same_node")>>),
  Opt("different_node_from_task", <<Id("different_node")>>),
  U64("expected_transfer_gb"), U64("expected_recompute_cost_seconds"),
  U64("cost_estimate"), U8("preemptible"), U8("kernel"), U64("kernel_param_n"),
  U64("kernel_param_a"), U64("kernel_param_b"), U64("seed"),
  List("user_tags", <<Str("key"), Str("value")>>), Str("payload")>>
deserialize_task == <<Id("id"), Id("workload"), Str("name"), U8("task_class"),
  U8("required_executor"), Narrow("min_compute_capability_major"),
  Narrow("min_compute_capability_minor"), U32("required_cpu_slots"),
  U32("required_gpu_slots"), U64("scratch_memory_bytes"),
  List("dependencies", <<Id("dependency")>>),
  List("state_dependencies", deserialize_state_dep), U64("expected_input_bytes"),
  U64("expected_output_bytes"), U64("estimated_duration_seconds"),
  U8("has_deadline"), U64("deadline_epoch_ms"), U8("priority")>>
  \o deserialize_retry_policy \o
  <<List("preferred_nodes", <<Id("preferred")>>),
  List("forbidden_nodes", <<Id("forbidden")>>),
  List("required_tags", <<Str("required_tag")>>),
  List("preferred_tags", <<Str("preferred_tag")>>), Str("anti_affinity_group"),
  Opt("same_node_as_task", <<Id("same_node")>>),
  Opt("different_node_from_task", <<Id("different_node")>>),
  U64("expected_transfer_gb"), U64("expected_recompute_cost_seconds"),
  U64("cost_estimate"), U8("preemptible"), U8("kernel"), U64("kernel_param_n"),
  U64("kernel_param_a"), U64("kernel_param_b"), U64("seed"),
  List("user_tags", <<Str("key"), Str("value")>>), Str("payload")>>

serialize_workload ==
  <<Id("id"), Str("name"), List("user_tags", <<Str("key"), Str("value")>>)>>
deserialize_workload ==
  <<Id("id"), Str("name"), List("user_tags", <<Str("key"), Str("value")>>)>>

serialize_attempt == <<Id("id"), Id("task_id"), Id("node_id"),
  Id("node_session"), U64("coordinator_epoch"), Id("reservation_id"),
  U8("executor"), U32("attempt_number"), U64("dispatched_at_ms"),
  U64("started_at_ms"), U64("completed_at_ms"), U8("state"), U8("failure_kind"),
  Str("failure_reason"), U64("output_size"), Str("output_integrity"),
  U64("cpu_millis"), U64("bytes_transferred"), Str("device"), U8("committed")>>
deserialize_attempt == <<Id("id"), Id("task_id"), Id("node_id"),
  Id("node_session"), U64("coordinator_epoch"), Id("reservation_id"),
  U8("executor"), U32("attempt_number"), U64("dispatched_at_ms"),
  U64("started_at_ms"), U64("completed_at_ms"), U8("state"), U8("failure_kind"),
  Str("failure_reason"), U64("output_size"), Str("output_integrity"),
  U64("cpu_millis"), U64("bytes_transferred"), Str("device"), U8("committed")>>

serialize_placement == <<U8("feasible"), Opt("chosen_node", <<Id("node")>>),
  Opt("chosen_executor", <<U8("executor")>>), Str("chosen_device"),
  List("candidates", <<Id("node_id"), U8("executor"), Str("device"),
    U64("score"), U64("execution_cost"), U64("queue_cost"), U64("transfer_cost"),
    U64("recompute_cost"), U64("pressure_cost"), U64("affinity_cost"),
    U64("capability_cost"), U64("state_locality_score"),
    U64("resource_pressure_score")>>),
  List("excluded", <<Id("node_id"), List("reasons", <<Str("reason")>>)>>),
  U64("total_cost"), U64("execution_cost"), U64("queue_cost"),
  U64("transfer_cost"), U64("recompute_cost"), U64("pressure_cost"),
  U64("affinity_cost"), U64("capability_cost"), U64("state_locality_score"),
  U64("resource_pressure_score"), Str("reason")>>
deserialize_placement == <<U8("feasible"), Opt("chosen_node", <<Id("node")>>),
  Opt("chosen_executor", <<U8("executor")>>), Str("chosen_device"),
  List("candidates", <<Id("node_id"), U8("executor"), Str("device"),
    U64("score"), U64("execution_cost"), U64("queue_cost"), U64("transfer_cost"),
    U64("recompute_cost"), U64("pressure_cost"), U64("affinity_cost"),
    U64("capability_cost"), U64("state_locality_score"),
    U64("resource_pressure_score")>>),
  List("excluded", <<Id("node_id"), List("reasons", <<Str("reason")>>)>>),
  U64("total_cost"), U64("execution_cost"), U64("queue_cost"),
  U64("transfer_cost"), U64("recompute_cost"), U64("pressure_cost"),
  U64("affinity_cost"), U64("capability_cost"), U64("state_locality_score"),
  U64("resource_pressure_score"), Str("reason")>>

-----------------------------------------------------------------------------
(* messages.cpp: what each message puts and reads.                         *)

serialize_Hello == <<U16("protocol_version"), Str("role")>>
deserialize_hello == <<U16("protocol_version"), Str("role")>>

serialize_capacity == <<U32("cpu_worker_slots"), U64("host_memory_scheduling_bytes"),
  List("executors", <<U8("type"), Str("name"), U32("slots"), U32("major"),
    U32("minor"), Str("vendor"), Str("architecture"), Str("device_name"),
    U64("device_memory_bytes"), List("device_ids", <<U32("device_id")>>),
    U64("relative_speed"), U8("healthy"), U8("supports_preemption")>>),
  List("tags", <<Str("key"), Str("value")>>), Str("address"), Str("label")>>
deserialize_executor_cap == <<U8("type"), Str("name"), U32("slots"), U32("major"),
  U32("minor"), Str("vendor"), Str("architecture"), Str("device_name"),
  U64("device_memory_bytes"), List("device_ids", <<U32("device_id")>>),
  U64("relative_speed"), U8("healthy"), U8("supports_preemption")>>
deserialize_capacity == <<U32("cpu_worker_slots"), U64("host_memory_scheduling_bytes"),
  List("executors", deserialize_executor_cap),
  List("tags", <<Str("key"), Str("value")>>), Str("address"), Str("label")>>

serialize_NodeRegister ==
  <<Id("node_id"), Str("label"), Str("address")>> \o serialize_capacity
deserialize_node_register ==
  <<Id("node_id"), Str("label"), Str("address")>> \o deserialize_capacity

serialize_NodeRegisterAck == <<Id("node_id"), Id("session_id"),
  U64("coordinator_epoch"), U64("session_epoch"), Str("error")>>
deserialize_node_register_ack == <<Id("node_id"), Id("session_id"),
  U64("coordinator_epoch"), U64("session_epoch"), Str("error")>>

serialize_NodeHeartbeat == <<Id("node_id"), Id("session_id"),
  U64("session_epoch"), U64("coordinator_epoch"), U32("active_cpu_slots"),
  U32("active_gpu_slots"), List("executors", <<Str("name"), U32("active")>>)>>
deserialize_node_heartbeat == <<Id("node_id"), Id("session_id"),
  U64("session_epoch"), U64("coordinator_epoch"), U32("active_cpu_slots"),
  U32("active_gpu_slots"), List("executors", <<Str("name"), U32("active")>>)>>

serialize_NodeHeartbeatAck == <<U8("accepted"), Str("error")>>
deserialize_node_heartbeat_ack == <<U8("accepted"), Str("error")>>

serialize_NodeShutdown == <<Id("node_id"), Id("session_id")>>
deserialize_node_shutdown == <<Id("node_id"), Id("session_id")>>

serialize_NodeShutdownAck == <<U8("accepted")>>
deserialize_node_shutdown_ack == <<U8("accepted")>>

serialize_TaskSubmit == <<Id("workload_id"), Str("workload_name")>> \o serialize_task
deserialize_task_submit ==
  <<Id("workload_id"), Str("workload_name")>> \o deserialize_task

serialize_TaskSubmitResponse == <<U8("accepted"), Id("task_id"), Str("error")>>
deserialize_task_submit_response == <<U8("accepted"), Id("task_id"), Str("error")>>

serialize_TaskInspect == <<Id("task_id")>>
deserialize_task_inspect == <<Id("task_id")>>

serialize_TaskInspectResponse == <<U8("found"), Id("task_id"), Str("name"),
  U8("task_class"), U8("state"), Str("error"), List("attempts", serialize_attempt),
  U32("retry_count"), Str("workload_id_hex")>>
deserialize_task_inspect_response == <<U8("found"), Id("task_id"), Str("name"),
  U8("task_class"), U8("state"), Str("error"), List("attempts", deserialize_attempt),
  U32("retry_count"), Str("workload_id_hex")>>

serialize_TaskList == <<Str("filter_state")>>
deserialize_task_list == <<Str("filter_state")>>

serialize_TaskListEntry ==
  <<Id("task_id"), Str("name"), U8("state"), U8("task_class"), U8("priority")>>
deserialize_task_list_entry ==
  <<Id("task_id"), Str("name"), U8("state"), U8("task_class"), U8("priority")>>

serialize_TaskListResponse == <<List("tasks", serialize_TaskListEntry)>>
deserialize_task_list_response == <<List("tasks", deserialize_task_list_entry)>>

serialize_TaskCancel == <<Id("task_id")>>
deserialize_task_cancel == <<Id("task_id")>>

serialize_TaskCancelResponse == <<U8("found"), U8("cancelled"), Str("error")>>
deserialize_task_cancel_response == <<U8("found"), U8("cancelled"), Str("error")>>

serialize_WorkloadInspect == <<Id("workload_id")>>
deserialize_workload_inspect == <<Id("workload_id")>>

serialize_WorkloadInspectResponse == <<U8("found"), Id("workload_id"),
  Str("name"), List("tasks", serialize_TaskListEntry), Str("error")>>
deserialize_workload_inspect_response == <<U8("found"), Id("workload_id"),
  Str("name"), List("tasks", deserialize_task_list_entry), Str("error")>>

serialize_FabricStatus == <<Str("detail")>>
deserialize_fabric_status == <<Str("detail")>>

serialize_NodeStatusEntry == <<Id("node_id"), Str("label"), Str("address"),
  U8("health"), U8("connected"), U32("cpu_slots"), U32("cpu_used"),
  U64("session_epoch"), List("executors", <<Str("executor")>>)>>
deserialize_node_status_entry == <<Id("node_id"), Str("label"), Str("address"),
  U8("health"), U8("connected"), U32("cpu_slots"), U32("cpu_used"),
  U64("session_epoch"), List("executors", <<Str("executor")>>)>>

serialize_FabricStatusResponse == <<U64("coordinator_epoch"), Str("policy"),
  U32("node_count"), U32("task_count"), U32("running_count"),
  U32("reserved_count"), U32("completed_count"),
  List("nodes", serialize_NodeStatusEntry), Str("error")>>
deserialize_fabric_status_response == <<U64("coordinator_epoch"), Str("policy"),
  U32("node_count"), U32("task_count"), U32("running_count"),
  U32("reserved_count"), U32("completed_count"),
  List("nodes", deserialize_node_status_entry), Str("error")>>

serialize_PlacementQuery == serialize_task
deserialize_placement_query == deserialize_task

serialize_PlacementResponse == <<U8("found")>> \o serialize_placement \o <<Str("error")>>
deserialize_placement_response ==
  <<U8("found")>> \o deserialize_placement \o <<Str("error")>>

serialize_NodeList == <<>>
deserialize_node_list == <<>>

serialize_NodeListResponse == <<List("nodes", serialize_NodeStatusEntry)>>
deserialize_node_list_response == <<List("nodes", deserialize_node_status_entry)>>

serialize_NodeDrain == <<Id("node_id"), U8("drain")>>
deserialize_node_drain == <<Id("node_id"), U8("drain")>>

serialize_NodeDrainResponse == <<U8("found"), U8("accepted"), Str("error")>>
deserialize_node_drain_response == <<U8("found"), U8("accepted"), Str("error")>>

serialize_CoordinatorShutdown == <<>>
deserialize_coordinator_shutdown == <<>>

serialize_CoordinatorShutdownResponse == <<U8("accepted"), Str("error")>>
deserialize_coordinator_shutdown_response == <<U8("accepted"), Str("error")>>

serialize_DispatchAttempt == serialize_task \o <<Id("attempt_id"),
  Id("reservation_id"), U64("coordinator_epoch"), U32("attempt_number")>>
deserialize_dispatch_attempt == deserialize_task \o <<Id("attempt_id"),
  Id("reservation_id"), U64("coordinator_epoch"), U32("attempt_number")>>

serialize_DispatchAck == <<Id("attempt_id"), U8("accepted"), Str("error")>>
deserialize_dispatch_ack == <<Id("attempt_id"), U8("accepted"), Str("error")>>

serialize_AttemptStarted == <<Id("attempt_id"), U64("started_at_ms"), Str("device")>>
deserialize_attempt_started == <<Id("attempt_id"), U64("started_at_ms"), Str("device")>>

serialize_AttemptProgress == <<Id("attempt_id"), U32("percent")>>
deserialize_attempt_progress == <<Id("attempt_id"), U32("percent")>>

serialize_AttemptComplete == <<Id("attempt_id"), Id("task_id"),
  Id("reservation_id"), U64("coordinator_epoch"), U8("result_code"),
  U64("output_size"), Str("output_integrity"), U64("duration_ms"),
  U64("cpu_millis"), U64("bytes_transferred"), Str("device"),
  List("notes", <<Str("note")>>)>>
\* Mutant: the two durations are read in the other order.
SwappedDurations == <<Id("attempt_id"), Id("task_id"),
  Id("reservation_id"), U64("coordinator_epoch"), U8("result_code"),
  U64("output_size"), Str("output_integrity"), U64("cpu_millis"),
  U64("duration_ms"), U64("bytes_transferred"), Str("device"),
  List("notes", <<Str("note")>>)>>
deserialize_attempt_complete == <<Id("attempt_id"), Id("task_id"),
  Id("reservation_id"), U64("coordinator_epoch"), U8("result_code"),
  U64("output_size"), Str("output_integrity"), U64("duration_ms"),
  U64("cpu_millis"), U64("bytes_transferred"), Str("device"),
  List("notes", <<Str("note")>>)>>

serialize_AttemptFailed == <<Id("attempt_id"), Id("task_id"),
  Id("reservation_id"), U64("coordinator_epoch"), U8("failure_kind"),
  Str("failure_reason"), U64("duration_ms")>>
deserialize_attempt_failed == <<Id("attempt_id"), Id("task_id"),
  Id("reservation_id"), U64("coordinator_epoch"), U8("failure_kind"),
  Str("failure_reason"), U64("duration_ms")>>

serialize_AttemptCancelled == <<Id("attempt_id"), Id("task_id"),
  Id("reservation_id"), U64("coordinator_epoch"), Str("reason")>>
deserialize_attempt_cancelled == <<Id("attempt_id"), Id("task_id"),
  Id("reservation_id"), U64("coordinator_epoch"), Str("reason")>>

serialize_AttemptCancel == <<Id("attempt_id"), Str("reason")>>
deserialize_attempt_cancel == <<Id("attempt_id"), Str("reason")>>

serialize_AttemptCancelAck == <<Id("attempt_id"), U8("accepted")>>
deserialize_attempt_cancel_ack == <<Id("attempt_id"), U8("accepted")>>

serialize_AttemptAck == <<Id("attempt_id"), U8("accepted"), Str("error")>>
deserialize_attempt_ack == <<Id("attempt_id"), U8("accepted"), Str("error")>>

serialize_ReservationGrant ==
  <<Id("reservation_id"), Id("task_id"), U8("executor"), U32("slots")>>
deserialize_reservation_grant ==
  <<Id("reservation_id"), Id("task_id"), U8("executor"), U32("slots")>>

serialize_ReservationRelease == <<Id("reservation_id"), Id("task_id"),
  Id("node_id"), Id("session_id"), U64("coordinator_epoch")>>
deserialize_reservation_release == <<Id("reservation_id"), Id("task_id"),
  Id("node_id"), Id("session_id"), U64("coordinator_epoch")>>

serialize_ReservationReleaseAck == <<Id("reservation_id"), U8("accepted"), Str("error")>>
deserialize_reservation_release_ack ==
  <<Id("reservation_id"), U8("accepted"), Str("error")>>

serialize_ErrorResponse == <<U16("for_message_type"), Str("error")>>
deserialize_error_response == <<U16("for_message_type"), Str("error")>>

\* The serialize and the deserialize function of every record and message.
Format == [
  workload |-> <<serialize_workload, deserialize_workload>>,
  task |-> <<serialize_task, deserialize_task>>,
  attempt |-> <<serialize_attempt, deserialize_attempt>>,
  placement |-> <<serialize_placement, deserialize_placement>>,
  hello |-> <<serialize_Hello, deserialize_hello>>,
  node_register |-> <<serialize_NodeRegister, deserialize_node_register>>,
  node_register_ack |-> <<serialize_NodeRegisterAck, deserialize_node_register_ack>>,
  node_heartbeat |-> <<serialize_NodeHeartbeat, deserialize_node_heartbeat>>,
  node_heartbeat_ack |-> <<serialize_NodeHeartbeatAck, deserialize_node_heartbeat_ack>>,
  node_shutdown |-> <<serialize_NodeShutdown, deserialize_node_shutdown>>,
  node_shutdown_ack |-> <<serialize_NodeShutdownAck, deserialize_node_shutdown_ack>>,
  task_submit |-> <<serialize_TaskSubmit, deserialize_task_submit>>,
  task_submit_response |->
    <<serialize_TaskSubmitResponse, deserialize_task_submit_response>>,
  task_inspect |-> <<serialize_TaskInspect, deserialize_task_inspect>>,
  task_inspect_response |->
    <<serialize_TaskInspectResponse, deserialize_task_inspect_response>>,
  task_list |-> <<serialize_TaskList, deserialize_task_list>>,
  task_list_response |-> <<serialize_TaskListResponse, deserialize_task_list_response>>,
  task_cancel |-> <<serialize_TaskCancel, deserialize_task_cancel>>,
  task_cancel_response |->
    <<serialize_TaskCancelResponse, deserialize_task_cancel_response>>,
  workload_inspect |-> <<serialize_WorkloadInspect, deserialize_workload_inspect>>,
  workload_inspect_response |->
    <<serialize_WorkloadInspectResponse, deserialize_workload_inspect_response>>,
  fabric_status |-> <<serialize_FabricStatus, deserialize_fabric_status>>,
  fabric_status_response |->
    <<serialize_FabricStatusResponse, deserialize_fabric_status_response>>,
  placement_query |-> <<serialize_PlacementQuery, deserialize_placement_query>>,
  placement_response |-> <<serialize_PlacementResponse, deserialize_placement_response>>,
  node_list |-> <<serialize_NodeList, deserialize_node_list>>,
  node_list_response |-> <<serialize_NodeListResponse, deserialize_node_list_response>>,
  node_drain |-> <<serialize_NodeDrain, deserialize_node_drain>>,
  node_drain_response |-> <<serialize_NodeDrainResponse, deserialize_node_drain_response>>,
  coordinator_shutdown |->
    <<serialize_CoordinatorShutdown, deserialize_coordinator_shutdown>>,
  coordinator_shutdown_response |->
    <<serialize_CoordinatorShutdownResponse, deserialize_coordinator_shutdown_response>>,
  dispatch_attempt |-> <<serialize_DispatchAttempt, deserialize_dispatch_attempt>>,
  dispatch_ack |-> <<serialize_DispatchAck, deserialize_dispatch_ack>>,
  attempt_started |-> <<serialize_AttemptStarted, deserialize_attempt_started>>,
  attempt_progress |-> <<serialize_AttemptProgress, deserialize_attempt_progress>>,
  attempt_complete |-> <<serialize_AttemptComplete, deserialize_attempt_complete>>,
  attempt_failed |-> <<serialize_AttemptFailed, deserialize_attempt_failed>>,
  attempt_cancelled |-> <<serialize_AttemptCancelled, deserialize_attempt_cancelled>>,
  attempt_cancel |-> <<serialize_AttemptCancel, deserialize_attempt_cancel>>,
  attempt_cancel_ack |-> <<serialize_AttemptCancelAck, deserialize_attempt_cancel_ack>>,
  attempt_ack |-> <<serialize_AttemptAck, deserialize_attempt_ack>>,
  reservation_grant |-> <<serialize_ReservationGrant, deserialize_reservation_grant>>,
  reservation_release |-> <<serialize_ReservationRelease, deserialize_reservation_release>>,
  reservation_release_ack |->
    <<serialize_ReservationReleaseAck, deserialize_reservation_release_ack>>,
  error_response |-> <<serialize_ErrorResponse, deserialize_error_response>>]

-----------------------------------------------------------------------------
(* The writer.                                                             *)

\* BinaryWriter::size
size == IF buf_ = << >> THEN 0 ELSE buf_[Len(buf_)].at + buf_[Len(buf_)].width

\* The counts, lengths and flags that the shape allows for a field; of other
\* values only the narrowed integer matters.
Values(f, s) ==
  CASE f.kind = "list" -> s.list
    [] f.kind = "opt" -> s.opt
    [] f.kind = "str" -> s.str
    [] f.kind = "narrow" -> {s.cap % 256}
    [] OTHER -> {0}

\* put_u8 .. put_id and put_string: a serialize function appends its next
\* field.  The bytes of a string follow its length in the same chunk.
Put ==
  /\ status = "writing" /\ fields # << >>
  /\ \E v \in Values(Head(fields), shape):
       LET f == Head(fields)
       IN  /\ buf_' = Append(buf_, [at |-> size, name |-> f.name, lead |-> Lead(f), val |-> v,
                                   width |-> Lead(f) + IF f.kind = "str" THEN v ELSE 0])
           /\ fields' = After(fields, v)
  /\ UNCHANGED <<message, shape, len_, pos_, wrong, status>>

\* The payload arrives, complete or in part, and is read.
Deliver ==
  /\ status = "writing" /\ fields = << >>
  /\ len_' \in {size} \union (Cuts(buf_, shape) \intersect 0 .. size)
  /\ fields' = Format[message][2] /\ status' = "reading"
  /\ UNCHANGED <<message, shape, buf_, pos_, wrong>>

-----------------------------------------------------------------------------
(* The reader.                                                             *)

\* The n bytes at the reader's position, as the chunk they start if they do.
Chunk(n) ==
  LET starting == {c \in Range(buf_): c.at = pos_ /\ c.lead = n}
  IN  IF starting # {} THEN CHOOSE c \in starting: TRUE
      ELSE [at |-> pos_, name |-> "other bytes", lead |-> n, val |-> 0, width |-> n]

Has(n) == pos_ + n <= len_

\* The reader gives up after n bytes of the field.
Fail(reason, n) ==
  /\ status' = reason /\ fields' = << >> /\ pos_' = pos_ + n
  /\ UNCHANGED <<message, shape, buf_, len_, wrong>>

\* The reader advances by n bytes, goes on with the fields after a count or
\* flag v, and records the member if it was not assigned its own bytes.
Advance(n, v, right) ==
  /\ pos_' = pos_ + n /\ fields' = After(fields, v)
  /\ wrong' = IF right THEN wrong ELSE wrong \union {Head(fields).name}
  /\ UNCHANGED <<message, shape, buf_, len_, status>>

Reading(kinds) == status = "reading" /\ fields # << >> /\ Head(fields).kind \in kinds

\* read_u8 .. read_u64, read_f64, read_bool, read_id
ReadNumber ==
  /\ Reading(DOMAIN Number \union {"narrow"})
  /\ LET f == Head(fields)
         c == Chunk(Lead(f))
     IN  IF ~Has(Lead(f)) THEN Fail("truncated", 0)
         ELSE Advance(Lead(f), 0, c.name = f.name /\ (f.kind = "narrow" => c.val = shape.cap))

\* Mutant: the length is not checked against what is left.
UncheckedReadString ==
  /\ Reading({"str"})
  /\ LET c == Chunk(4)
     IN  CASE ~Has(4) -> Fail("truncated", 0)
           [] Has(4) /\ c.val > kMaxString -> Fail("bound", 4)
           [] OTHER -> Advance(4 + c.val, c.val, TRUE)

\* read_string, and read_u32 followed by read_raw_bytes for the payload
read_string ==
  /\ Reading({"str"})
  /\ LET c == Chunk(4)
     IN  CASE ~Has(4) -> Fail("truncated", 0)
           [] Has(4) /\ c.val > kMaxString -> Fail("bound", 4)
           [] Has(4) /\ c.val <= kMaxString /\ ~Has(4 + c.val) -> Fail("truncated", 4)
           [] OTHER -> Advance(4 + c.val, c.val,
                               c.name = Head(fields).name /\ c.width = 4 + c.val)

\* Mutant: the bound itself is refused.
StrictListBound ==
  /\ Reading({"list"})
  /\ LET c == Chunk(4)
     IN  CASE ~Has(4) -> Fail("truncated", 0)
           [] Has(4) /\ c.val >= kMaxList -> Fail("bound", 4)
           [] OTHER -> Advance(4, c.val, c.name = Head(fields).name)

\* a u32 count that is refused above kMaxList, then that many items
ReadList ==
  /\ Reading({"list"})
  /\ LET c == Chunk(4)
     IN  CASE ~Has(4) -> Fail("truncated", 0)
           [] Has(4) /\ c.val > kMaxList -> Fail("bound", 4)
           [] OTHER -> Advance(4, c.val, c.name = Head(fields).name)

\* read_optional_id, and the flags of a placement decision
read_optional_id ==
  /\ Reading({"opt"})
  /\ LET c == Chunk(1)
     IN  IF ~Has(1) THEN Fail("truncated", 0) ELSE Advance(1, c.val, c.name = Head(fields).name)

\* A deserialize function returns its message once its last field is read; it
\* does not look at what may follow in the buffer.
Accept ==
  /\ status = "reading" /\ fields = << >> /\ status' = "ok"
  /\ UNCHANGED <<message, shape, buf_, len_, pos_, fields, wrong>>

CodecInit ==
  /\ message \in DOMAIN Format /\ shape \in Shapes
  /\ buf_ = << >> /\ fields = Format[message][1] /\ status = "writing"
  /\ len_ = 0 /\ pos_ = 0 /\ wrong = {}

CodecNext ==
  \/ Put \/ Deliver
  \/ ReadNumber \/ read_string \/ ReadList \/ read_optional_id \/ Accept

CodecSpec == CodecInit /\ [][CodecNext]_codec_vars

-----------------------------------------------------------------------------
InBounds == shape.list \subseteq 0 .. kMaxList /\ shape.str \subseteq 0 .. kMaxString

\* A message the reader accepts is the message the writer encoded: it was
\* delivered to its last byte, the reader consumed exactly those bytes, and
\* every member was assigned the bytes that were put from that member (the
\* deserialize functions of messages.cpp and serialize.cpp against their
\* serialize functions).  The compute capability, an int that serialize_task
\* casts to uint8_t, survives only below 256.
RoundTrip ==
  status = "ok" => len_ = size /\ pos_ = len_ /\ (shape.cap < 256 => wrong = {})

\* A reader never refuses a complete message whose lists and strings are within
\* the bounds the readers enforce, whatever its optional members.
InBoundsAccepted ==
  status \in {"truncated", "bound"} /\ InBounds => len_ < size

\* No read runs past the end of the buffer, not even for a payload that ends
\* inside a length prefix or whose count promises more than is there
\* (BinaryReader's bounds checks).
NoOverread == pos_ <= len_
=============================================================================
