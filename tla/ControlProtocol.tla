-------------------------- MODULE ControlProtocol --------------------------
(***************************************************************************)
(* examples/qoffload_service/src/control: the typed protobuf and the       *)
(* REST-like adapter of the control interface, and Control::process(),     *)
(* which decodes a request, executes its command and encodes the result    *)
(* with the same adapter.  Requests are processed one after the other; the *)
(* interleaving with the other workers is the subject of module QOffload.  *)
(*                                                                         *)
(* A path is the sequence of texts between its slashes, empty ones         *)
(* included.  A text is a word or the decimal form of a number.            *)
(***************************************************************************)
EXTENDS Control, Sequences, FiniteSetsExt

CONSTANTS Registry,      \* names the ResourceRegistry knows
          RestRequests,  \* REST requests clients send: method, path and data
          NoHandle       \* "this request was not built from an earlier answer"

Word(w) == <<"word", w>>
Number(n) == <<"number", n>>
EmptyText == Word("")
IsText(text) == text[1] \in {"word", "number"} /\ text = <<text[1], text[2]>>

(* A REST request has no oneof case, and its path is a sequence of texts. *)
ASSUME ProtocolAssumption ==
  \A req \in RestRequests :
    /\ req.case = "not_set"
    /\ req.path \in Seq({req.path[i] : i \in DOMAIN req.path})
    /\ \A i \in DOMAIN req.path : IsText(req.path[i])

(* The kind of a Struct field that a create request must have. *)
DataKeys == {"shots", "circuit", "circuit_format", "resource_name", "no_modify"}

VARIABLES
  stage,     \* where Control::process() is
  request,   \* the APIRequest
  command,   \* the ControlCommand
  result,    \* the ControlResult
  response,  \* the APIResponse
  handle,    \* the answer the request was built from
  told,      \* tasks clients were told about: protocol, uuid and identifier
  jobAt,     \* the job of every task created
  taken      \* history: tasks whose result a query took out of the store

cvars == <<pending, completed, nextTaskIndex, incarnation, stage, request, command,
           result, response, handle, told, jobAt, taken>>

----------------------------------------------------------------------------
(* Decoding *)

Command(cmd, id, resource, message) ==
  [cmd |-> cmd, id |-> id, resource |-> resource, message |-> message]
Invalid(message) == Command("invalid", 0, EmptyText, message)
TaskCommand(cmd, id) == Command(cmd, id, EmptyText, "none")
ResourceCommand(cmd, name) == Command(cmd, 0, name, "none")

(* The oneof case of a typed request selects the command. *)
TypedDecode(req) ==
  CASE req.case = "create_task" -> TaskCommand("create", 0)
    [] req.case = "task_status" -> TaskCommand("status", ToUint64(req.uuid))
    [] req.case = "task_result" -> TaskCommand("result", ToUint64(req.uuid))
    [] req.case = "cancel_reason" -> TaskCommand("cancel", ToUint64(req.uuid))
    [] req.case = "list_resources" -> ResourceCommand("list", EmptyText)
    [] req.case = "resource_info" -> ResourceCommand("resource", req.resource)
    [] req.case = "pending_tasks" -> ResourceCommand("pending", req.resource)
    [] OTHER -> Invalid("INVALID CONTROL REQUEST")

(* Seeded fault: one slash is removed from each end instead of all. *)
SplitPathOnce(path) ==
  LET from == IF path[1] = EmptyText THEN 2 ELSE 1
      upto == IF path[Len(path)] = EmptyText THEN Len(path) - 1 ELSE Len(path)
  IN SubSeq(path, from, upto)

(* Slashes at both ends are removed; two slashes inside the path leave an  *)
(* empty part.                                                             *)
SplitPath(path) ==
  LET full == {i \in DOMAIN path : path[i] # EmptyText} IN
  IF full = {} THEN <<>> ELSE SubSeq(path, Min(full), Max(full))

(* std::from_chars must use up the whole text and stay in range. *)
ParsesAsTaskId(text) == text[1] = "number" /\ text[2] \in Ids

(* required*(): the field is there and of its kind; a count of shots is    *)
(* integral, in the range of int and, as createTaskCommand() adds, not     *)
(* negative.                                                               *)
ValidData(data) == \A key \in DataKeys : data[key] = "valid"

CreateTaskCommand(req) ==
  IF req.method # "POST" THEN Invalid("INVALID METHOD")
  ELSE IF ~ValidData(req.data) THEN Invalid("INVALID JOB REQUEST")
  ELSE TaskCommand("create", 0)

JobCommand(path) ==
  IF ~ParsesAsTaskId(path[2]) THEN Invalid("INVALID JOB ID")
  ELSE CASE path[3] = Word("status") -> TaskCommand("status", path[2][2])
         [] path[3] = Word("result") -> TaskCommand("result", path[2][2])
         [] path[3] = Word("cancel_reason") -> TaskCommand("cancel", path[2][2])
         [] OTHER -> Invalid("UNKNOWN CONTROL REQUEST")

ResourcesCommand(path) ==
  CASE Len(path) = 1 -> ResourceCommand("list", EmptyText)
    [] Len(path) = 2 /\ path[2] # EmptyText -> ResourceCommand("resource", path[2])
    [] Len(path) = 3 /\ path[2] # EmptyText /\ path[3] = Word("num_pending_jobs") ->
         ResourceCommand("pending", path[2])
    [] OTHER -> Invalid("UNKNOWN CONTROL REQUEST")

RestDecode(req) ==
  LET path == SplitPath(req.path) IN
  CASE path = <<Word("job")>> -> CreateTaskCommand(req)
    [] path # <<Word("job")>> /\ req.method # "GET" -> Invalid("INVALID METHOD")
    [] req.method = "GET" /\ Len(path) = 3 /\ path[1] = Word("job") -> JobCommand(path)
    [] req.method = "GET" /\ Len(path) > 0 /\ path[1] = Word("resources") ->
         ResourcesCommand(path)
    [] OTHER -> Invalid("UNKNOWN CONTROL REQUEST")

(* controlProtocolFor(): a request without a oneof case is a REST request. *)
IsTyped(req) == req.case # "not_set"
Decoded(req) == IF IsTyped(req) THEN TypedDecode(req) ELSE RestDecode(req)

----------------------------------------------------------------------------
(* Encoding *)

TypedCase ==
  [created |-> "create_task", status |-> "task_status", result |-> "task_result",
   cancelReason |-> "cancel_reason", resources |-> "resources",
   resource |-> "resource_info", pendingTasks |-> "pending_tasks", error |-> "error"]

RestKey ==
  [created |-> "uuid", status |-> "status", result |-> "result",
   cancelReason |-> "cancel_reason", resources |-> "resources", resource |-> "name",
   pendingTasks |-> "num_pending_jobs", error |-> "Error"]

IsNotFound(r) == r.kind = "status" /\ r.text = "NotFound"
NotFoundError == Error("JOB NOT FOUND")

(* Seeded fault: the NotFound alternative of the status is not handled and *)
(* leaves the default value of the enumeration.                            *)
TypedEncodeDefault(r) ==
  [case |-> TypedCase[r.kind], text |-> IF IsNotFound(r) THEN "Waiting" ELSE r.text,
   job |-> r.job, num |-> ToInt32(r.num)]

(* A typed response: an identifier or a count is narrowed to an int32. *)
TypedEncode(r) ==
  LET said == IF IsNotFound(r) THEN NotFoundError ELSE r IN
  [case |-> TypedCase[said.kind], text |-> said.text, job |-> said.job,
   num |-> ToInt32(said.num)]

(* Seeded fault: the identifier is narrowed before it is formatted. *)
UuidTextOfInt32(id) == IF ToInt32(id) < 0 THEN Word("negative") ELSE Number(ToInt32(id))

(* std::to_string of the 64-bit identifier. *)
UuidText(id) == Number(id)

(* A REST response: one field of response_body, its value a text or a      *)
(* number.                                                                 *)
RestEncode(r) ==
  LET said == IF IsNotFound(r) THEN NotFoundError ELSE r IN
  [case |-> "not_set", key |-> RestKey[said.kind], text |-> said.text, job |-> said.job,
   value |-> IF said.kind = "created" THEN UuidText(said.num) ELSE Number(said.num)]

Encoded(req, r) == IF IsTyped(req) THEN TypedEncode(r) ELSE RestEncode(r)

----------------------------------------------------------------------------
(* Control::process() *)

NoRequest == [case |-> "not_set"]
NoCommand == Invalid("none")
NoResult == Error("none")
NoResponse == [case |-> "not_set"]

CInit ==
  /\ StoreInit /\ nextTaskIndex = 0 /\ incarnation = 1
  /\ stage = "idle" /\ request = NoRequest /\ command = NoCommand
  /\ result = NoResult /\ response = NoResponse /\ handle = NoHandle
  /\ told = {} /\ jobAt = EmptyMap /\ taken = {}

TypedRequests ==
  [case : {"create_task", "list_resources"}]
    \cup [case : {"task_status", "task_result", "cancel_reason"}, uuid : QueryIds]
    \cup [case : {"resource_info", "pending_tasks"}, resource : Registry \cup {EmptyText}]

(* The request a client builds from an identifier it was told, in the      *)
(* protocol it was told it in.                                             *)
FollowUp(h, query) ==
  IF h.typed THEN [case |-> query, uuid |-> h.uuid[2]]
  ELSE [case |-> "not_set", method |-> "GET", data |-> [key \in DataKeys |-> "absent"],
        path |-> <<EmptyText, Word("job"), h.uuid,
                   Word(CASE query = "task_status" -> "status"
                          [] query = "task_result" -> "result"
                          [] query = "cancel_reason" -> "cancel_reason")>>]

Receive(req, h) ==
  /\ stage = "idle"
  /\ request' = req /\ handle' = h
  /\ stage' = "decode"
  /\ UNCHANGED <<pending, completed, nextTaskIndex, incarnation, command, result, response,
                 told, jobAt, taken>>

Decode ==
  /\ stage = "decode"
  /\ command' = Decoded(request)
  /\ stage' = "execute"
  /\ UNCHANGED <<pending, completed, nextTaskIndex, incarnation, request, result,
                 response, handle, told, jobAt, taken>>

(* The command as module Control names it. *)
AsRequest(cmd) ==
  [cmd |-> cmd.cmd, id |-> cmd.id, known |-> cmd.resource \in Registry, reply |-> TRUE]

(* Seeded fault: the task is numbered and not registered. *)
CreateUnregistered(job) ==
  \E id \in Ids :
    /\ NextTaskId(id)
    /\ jobAt' = InsertOrAssign(jobAt, id, job)
    /\ result' = Created(id)
    /\ UNCHANGED <<pending, completed>>

(* createControlTask() for a new job. *)
Create(job) ==
  \E id \in Ids :
    /\ NextTaskId(id)
    /\ RegisterControl(id)
    /\ jobAt' = InsertOrAssign(jobAt, id, job)
    /\ result' = Created(id)

Execute ==
  LET req == AsRequest(command) IN
  /\ stage = "execute"
  /\ stage' = "encode"
  /\ \/ /\ command.cmd = "create"
        /\ Create(CHOOSE job \in ControlJobs : \A id \in DOMAIN jobAt : jobAt[id] # job)
        /\ UNCHANGED taken
     \/ /\ command.cmd = "invalid"
        /\ result' = Error(command.message)
        /\ UNCHANGED <<pending, completed, nextTaskIndex, jobAt, taken>>
     \/ /\ command.cmd \in {"status", "list", "resource", "pending"}
        /\ result' = AnswerAtOnce(req)
        /\ UNCHANGED <<pending, completed, nextTaskIndex, jobAt, taken>>
     \/ /\ command.cmd \in {"result", "cancel"} /\ StillWaiting(req)
        /\ result' = Error("JOB IS WAITING")
        /\ UNCHANGED <<pending, completed, nextTaskIndex, jobAt, taken>>
     \/ /\ command.cmd \in {"result", "cancel"} /\ ~StillWaiting(req)
        /\ result' = AnswerTaken(req)
        /\ TakeCompletedControlTask(req.id)
        /\ taken' = taken \cup {req.id}
        /\ UNCHANGED <<nextTaskIndex, jobAt>>
  /\ UNCHANGED <<incarnation, request, command, response, handle, told>>

Encode ==
  /\ stage = "encode"
  /\ stage' = "reply"
  /\ response' = Encoded(request, result)
  /\ UNCHANGED <<pending, completed, nextTaskIndex, incarnation, request, command,
                 result, handle, told, jobAt, taken>>

(* The response is sent; a client remembers the uuid of a task it created. *)
Send ==
  /\ stage = "reply"
  /\ told' = IF result.kind # "created" THEN told
             ELSE told \cup {[typed |-> IsTyped(request), task |-> result.num,
                    uuid |-> IF IsTyped(request) THEN Number(response.num) ELSE response.value]}
  /\ stage' = "idle" /\ request' = NoRequest /\ command' = NoCommand
  /\ result' = NoResult /\ response' = NoResponse /\ handle' = NoHandle
  /\ UNCHANGED <<pending, completed, nextTaskIndex, incarnation, jobAt, taken>>

(* A result comes back from QRM (Forward::processResult). *)
Finish(id, ok) ==
  /\ stage = "idle" /\ id \in DOMAIN pending
  /\ pending' = Erase(pending, id)
  /\ completed' = InsertOrAssign(completed, id, [job |-> jobAt[id], ok |-> ok])
  /\ UNCHANGED <<nextTaskIndex, incarnation, stage, request, command, result, response,
                 handle, told, jobAt, taken>>

(* Another task can only be created while there is a job and a number left. *)
MayCreate == nextTaskIndex < MaxTasks /\ Cardinality(DOMAIN jobAt) < Cardinality(ControlJobs)

CNext ==
  \/ \E req \in TypedRequests \cup RestRequests :
       /\ Receive(req, NoHandle)
       /\ Decoded(req).cmd = "create" => MayCreate
  \/ \E h \in told, query \in {"task_status", "task_result", "cancel_reason"} :
       Receive(FollowUp(h, query), h)
  \/ Decode \/ Execute \/ Encode \/ Send
  \/ \E id \in DOMAIN pending, ok \in BOOLEAN : Finish(id, ok)

CSpec == CInit /\ [][CNext]_cvars

----------------------------------------------------------------------------
(* The REST interface as a table of method, path and command, which is     *)
(* what RestControlProtocol::decode spells out as nested conditions, for   *)
(* the identifiers and the resource names among the texts of a path.       *)
Routes(texts) ==
  LET ids == {id \in Ids : Number(id) \in texts}
      names == texts \ {EmptyText}
  IN
  {<<"POST", <<Word("job")>>, "create">>, <<"GET", <<Word("resources")>>, "list">>}
    \cup {<<"GET", <<Word("job"), Number(id), Word("status")>>, "status">> : id \in ids}
    \cup {<<"GET", <<Word("job"), Number(id), Word("result")>>, "result">> : id \in ids}
    \cup {<<"GET", <<Word("job"), Number(id), Word("cancel_reason")>>, "cancel">> : id \in ids}
    \cup {<<"GET", <<Word("resources"), name>>, "resource">> : name \in names}
    \cup {<<"GET", <<Word("resources"), name, Word("num_pending_jobs")>>, "pending">> :
             name \in names}

(* path is core with any number of slashes around it. *)
Surrounds(path, core) ==
  \E i \in 0 .. Len(path) - Len(core) :
    path = [k \in 1 .. i |-> EmptyText] \o core
             \o [k \in 1 .. Len(path) - Len(core) - i |-> EmptyText]

(* Both adapters decode exactly the operations of the interface: a REST    *)
(* request becomes the command its method and path name, whatever slashes  *)
(* surround the path, and nothing else becomes a command; a typed request  *)
(* never reaches the INVALID CONTROL REQUEST fallback.                     *)
DecodeMatchesRoutes ==
  stage = "execute" =>
    IF IsTyped(request) THEN command.cmd # "invalid"
    ELSE LET texts == {request.path[i] : i \in DOMAIN request.path}
             named == {route[3] : route \in {r \in Routes(texts) :
                         r[1] = request.method /\ Surrounds(request.path, r[2])}}
         IN {command.cmd} =
              IF named = {} \/ (named = {"create"} /\ ~ValidData(request.data))
              THEN {"invalid"} ELSE named

(* A task identifier that a "created" answer told the client comes back as *)
(* the identifier of that task, in both protocols: through int32 and sign  *)
(* extension in one, through its decimal form in the other.                *)
HandleNamesTask == stage = "execute" /\ handle # NoHandle => command.id = handle.task

(* What a client reads from a response of either kind. *)
ReadTyped(rsp) == [kind |-> CHOOSE k \in ReplyKinds : TypedCase[k] = rsp.case,
                   text |-> rsp.text, job |-> rsp.job, num |-> rsp.num]
ReadRest(rsp) == [kind |-> CHOOSE k \in ReplyKinds : RestKey[k] = rsp.key,
                  text |-> rsp.text, job |-> rsp.job, num |-> rsp.value[2]]

(* Both adapters say the same about every result the service can produce,  *)
(* up to the narrowing of the typed identifier, and both report exactly    *)
(* the errors and the unknown tasks as errors.                             *)
ProtocolsAgree ==
  stage = "encode" =>
    LET typed == ReadTyped(TypedEncode(result))
        rest == ReadRest(RestEncode(result))
    IN /\ [rest EXCEPT !.num = ToInt32(@)] = typed
       /\ typed.kind = "error" <=> result.kind = "error" \/ IsNotFound(result)

(* A client that asks for the status of a task it was told about, whose    *)
(* identifier fits the wire and whose result nobody has taken, is not told *)
(* an error.                                                               *)
FollowUpSucceeds ==
  stage = "encode" /\ handle # NoHandle /\ command.cmd = "status"
    /\ handle.task < HalfWire /\ handle.task \notin taken => ~IsNotFound(result)
=============================================================================
