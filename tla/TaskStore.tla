----------------------------- MODULE TaskStore -----------------------------
(***************************************************************************)
(* examples/qoffload_service/src/TaskStore.cpp: the tasks waiting for a    *)
(* result of the Quantum Resource Manager (QRM) and the results of control *)
(* tasks waiting for their client.  Every public member function holds the *)
(* store's mutex from its first to its last line, so each one is a single  *)
(* atomic action; what the callers do between two of them is not.          *)
(*                                                                         *)
(* A job stands for what a task computes: its circuits on the way out, its *)
(* counts on the way back.                                                 *)
(***************************************************************************)
EXTENDS Integers, FiniteSets

CONSTANTS DirectJobs,    \* jobs submitted on the task interface
          ControlJobs,   \* jobs submitted on the control interface
          Destinations,  \* result queues of direct clients
          NoDest,        \* the empty destination of a control task
          WordMod        \* number of values of std::uint64_t

ASSUME StoreAssumption ==
  /\ DirectJobs \cap ControlJobs = {}
  /\ NoDest \notin Destinations
  /\ WordMod \in Nat \ {0}

Jobs == DirectJobs \cup ControlJobs
Ids == 0 .. WordMod - 1

PendingTasks == [kind : {"direct", "control"}, original : Ids,
                 dest : Destinations \cup {NoDest}]
CompletedTasks == [job : Jobs, ok : BOOLEAN]

VARIABLES pending,     \* pending_: forwarded id -> PendingTask
          completed    \* completed_control_tasks_: id -> CompletedControlTask

InsertOrAssign(f, k, v) == [x \in DOMAIN f \cup {k} |-> IF x = k THEN v ELSE f[x]]
Erase(f, k) == [x \in DOMAIN f \ {k} |-> f[x]]
EmptyMap == [x \in {} |-> x]

StoreInit == pending = EmptyMap /\ completed = EmptyMap

AddDirectTask(id, task) ==
  /\ pending' = InsertOrAssign(pending, id, task)
  /\ UNCHANGED completed

(* A control task is registered through addDirectTask(), under its own id  *)
(* and without a destination.                                              *)
AddControlTask(id) ==
  AddDirectTask(id, [kind |-> "control", original |-> id, dest |-> NoDest])

(* Seeded fault: the entry is looked up and not removed. *)
PeekPending(id) == UNCHANGED <<pending, completed>>

(* The caller has found id among the pending tasks. *)
TakePending(id) ==
  /\ pending' = Erase(pending, id)
  /\ UNCHANGED completed

Status(id) ==
  IF id \in DOMAIN pending THEN "Waiting"
  ELSE IF id \notin DOMAIN completed THEN "NotFound"
  ELSE IF completed[id].ok THEN "Completed" ELSE "Cancelled"

PendingCount == Cardinality(DOMAIN pending)

StoreCompletedControlTask(id, task) ==
  /\ completed' = InsertOrAssign(completed, id, task)
  /\ UNCHANGED pending

(* Seeded fault: a fetched result stays in the store. *)
PeekCompletedControlTask(id) == UNCHANGED <<pending, completed>>

(* Erasing an absent id leaves the map as it is. *)
TakeCompletedControlTask(id) ==
  /\ completed' = Erase(completed, id)
  /\ UNCHANGED pending
=============================================================================
