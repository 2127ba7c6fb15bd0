------------------------------ MODULE Control ------------------------------
(***************************************************************************)
(* examples/qoffload_service/src/Control.cpp: the semantic commands of the *)
(* control interface and their results.  A protocol adapter (module        *)
(* ControlProtocol) decodes the request and encodes the result.            *)
(***************************************************************************)
EXTENDS Forward

CONSTANTS Commands,    \* the commands clients use
          QueryIds,    \* identifiers clients ask about: int32 or uint64 values
          NoJob        \* "this reply carries no result"

ASSUME ControlAssumption == QueryIds \subseteq WireIds \cup Ids /\ NoJob \notin Jobs

(* cmd is the alternative of the ControlCommand variant, id the uuid of a  *)
(* task query, known whether the registry knows the named resource, reply  *)
(* whether the request names a response queue.                             *)
Requests ==
  [cmd : Commands \cap {"create", "list", "invalid"}, id : {0}, known : {TRUE},
   reply : BOOLEAN]
    \cup
  [cmd : Commands \cap {"status", "result", "cancel"}, id : QueryIds,
   known : {TRUE}, reply : BOOLEAN]
    \cup
  [cmd : Commands \cap {"resource", "pending"}, id : {0}, known : BOOLEAN,
   reply : BOOLEAN]

(* kind is the alternative of the ControlResult variant, text a status or  *)
(* an error message (one stands for all messages of InvalidControlCommand), *)
(* num an identifier or a count.                                           *)
Reply(kind, text, job, num) == [kind |-> kind, text |-> text, job |-> job, num |-> num]
Error(message) == Reply("error", message, NoJob, 0)
ReplyKinds == {"created", "status", "result", "cancelReason", "resources", "resource",
               "pendingTasks", "error"}
ReplyTexts == {"none", "Waiting", "Completed", "Cancelled", "NotFound", "JOB IS WAITING",
               "JOB NOT FOUND", "RESOURCE NOT FOUND", "INVALID REQUEST"}
Replies == [kind : ReplyKinds, text : ReplyTexts, job : Jobs \cup {NoJob}, num : Int]

(* handleCommand() for the commands that need at most one look at the      *)
(* store.                                                                  *)
AnswerAtOnce(req) ==
  CASE req.cmd = "status" -> Reply("status", Status(ToUint64(req.id)), NoJob, 0)
    [] req.cmd = "list" -> Reply("resources", "none", NoJob, 0)
    [] req.cmd = "resource" /\ req.known -> Reply("resource", "none", NoJob, 0)
    [] req.cmd = "pending" /\ req.known -> Reply("pendingTasks", "none", NoJob, PendingCount)
    [] req.cmd \in {"resource", "pending"} /\ ~req.known -> Error("RESOURCE NOT FOUND")
    [] req.cmd = "invalid" -> Error("INVALID REQUEST")

(* GetTaskResult and GetCancelReason look at the status first and take the *)
(* completed task in a second access to the store.                         *)
StillWaiting(req) == Status(ToUint64(req.id)) = "Waiting"

(* Seeded fault: any completed task answers the query. *)
AnswerAny(req) ==
  IF DOMAIN completed = {} THEN Error("JOB NOT FOUND")
  ELSE Reply("result", "none", completed[CHOOSE id \in DOMAIN completed : TRUE].job, 0)

(* What the second access finds; the cancel reason is never filled in. *)
AnswerTaken(req) ==
  LET id == ToUint64(req.id) IN
  IF id \notin DOMAIN completed THEN Error("JOB NOT FOUND")
  ELSE IF req.cmd = "result" THEN Reply("result", "none", completed[id].job, 0)
  ELSE Reply("cancelReason", "none", NoJob, 0)

(* The result of CreateQuantumTask: the identifier as the outbound message *)
(* carries it.                                                             *)
Created(id) == Reply("created", "none", NoJob, ToUint64(ToInt32(id)))
=============================================================================
