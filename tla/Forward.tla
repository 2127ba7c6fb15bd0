------------------------------ MODULE Forward ------------------------------
(***************************************************************************)
(* examples/qoffload_service/src/Forward.cpp: task identifiers and the     *)
(* rewriting of tasks and results.  Identifiers are 64-bit unsigned in the *)
(* service and 32-bit signed in the protobuf messages; the widths are      *)
(* parameters so that TLC can meet their limits on small numbers.          *)
(***************************************************************************)
EXTENDS TaskStore

CONSTANTS Stride,       \* 10000 in nextTaskId()
          WireMod,      \* number of values of std::int32_t
          MaxStarts,    \* bound: times the process is started
          InstanceUid,  \* InstanceUid[n]: instance_uid of the n-th process
          MaxTasks,     \* bound: tasks one process numbers
          Origin        \* Origin[j]: id and result queue a direct client chose

Incarnations == 1 .. MaxStarts
HalfWire == WireMod \div 2
WireIds == -HalfWire .. HalfWire - 1

ASSUME ForwardAssumption ==
  /\ Stride \in Nat \ {0}
  /\ WireMod \in Nat \ {0} /\ WireMod % 2 = 0 /\ WordMod % WireMod = 0
  /\ MaxTasks \in Nat
  /\ MaxStarts \in Nat \ {0}
  /\ InstanceUid \in [Incarnations -> Nat]
  /\ Origin \in [DirectJobs -> [id : WireIds, dest : Destinations]]

VARIABLES nextTaskIndex,   \* next_task_index_
          incarnation      \* which process this is: 1 is the first start

(* Seeded fault: the identifier is read back as unsigned. *)
ToUint32(n) == n % WireMod

(* Implicit conversion of std::uint64_t to a protobuf int32 field, and     *)
(* static_cast<std::uint64_t> of such a field (which extends the sign).    *)
ToInt32(n) == LET m == n % WireMod IN IF m < HalfWire THEN m ELSE m - WireMod
ToUint64(i) == i % WordMod

(* Seeded fault: identifiers without the instance uid. *)
TaskIdWithoutUid(n, index) == (index * Stride) % WordMod

TaskId(n, index) == (index * Stride + InstanceUid[n]) % WordMod

(* nextTaskId(): one atomic fetch_add. *)
NextTaskId(id) ==
  /\ nextTaskIndex < MaxTasks
  /\ id = TaskId(incarnation, nextTaskIndex)
  /\ nextTaskIndex' = nextTaskIndex + 1

(* The second half of forwardDirectTask() and createControlTask(). *)
RegisterDirect(id, job) ==
  AddDirectTask(id, [kind |-> "direct", original |-> ToUint64(Origin[job].id),
                     dest |-> Origin[job].dest])
RegisterControl(id) == AddControlTask(id)

(* The QuantumTask sent to QRM, and the QuantumResult that answers it. *)
OutboundTask(id, job) == [id |-> ToInt32(id), job |-> job]
TaskMessages == [id : WireIds, job : Jobs]
ResultMessages == [id : WireIds, job : Jobs, ok : BOOLEAN, copy : Nat]

(* The key processResult() looks up, and the direct result it produces. *)
ResultKey(msg) == ToUint64(msg.id)
RestoredUnderServiceId(msg, task) ==   \* seeded fault: the client's id is not restored
  [job |-> msg.job, id |-> msg.id, dest |-> task.dest]
RestoredResult(msg, task) ==
  [job |-> msg.job, id |-> ToInt32(task.original), dest |-> task.dest]
=============================================================================
