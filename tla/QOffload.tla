----------------------------- MODULE QOffload -----------------------------
(***************************************************************************)
(* examples/qoffload_service/src/QOffload.cpp and main.cpp: three worker   *)
(* threads around one TaskStore and one Forward, the broker queues between *)
(* them, their clients and QRM, and the life of the process.               *)
(*                                                                         *)
(* A step of a worker is one access to shared state: a receive, the atomic *)
(* counter, one member function of TaskStore, a send.  All receives use    *)
(* AckMode::Auto, so a message that has been received is nowhere else.     *)
(* Queues are sets: clients and QRM decide in which order messages arrive, *)
(* so a worker may meet them in any order.  A control request has no       *)
(* effect until it is received and is drawn at that moment.                *)
(***************************************************************************)
EXTENDS Control

CONSTANTS Faults,      \* BOOLEAN: sends, receives and the process may fail
          MaxCopies    \* bound: times QRM or its broker sends one result

ASSUME QOffloadAssumption == Faults \in BOOLEAN /\ MaxCopies \in Nat

VARIABLES
  main,        \* "up", "stopping" (stop requested, joining) or "down"
  taskPc, taskJob, taskId,                   \* task-interface worker
  ctlPc, ctlReq, ctlJob, ctlId, ctlResp,     \* control-interface worker
  resPc, resMsg, resTask,                    \* QRM-result worker
  requestQ,    \* direct jobs in the request queue
  freshJobs,   \* control jobs no client has submitted yet
  qrmTasks,    \* tasks that reached QRM
  resultQ,     \* results in the service's result queue
  copies,      \* copies[j]: results QRM has sent for j
  clientQ,     \* results sent to direct clients
  \* history variables: no step depends on them
  jobOf,       \* jobOf[id]: the job last registered under id
  deliveries,  \* deliveries[j]: results of j sent to direct clients
  fetched,     \* fetched[j]: results of j sent to control clients
  dropped      \* jobs lost to a failed send, a failed receive, a query or a stop

taskVars == <<taskPc, taskJob, taskId>>
ctlVars == <<ctlPc, ctlReq, ctlJob, ctlId, ctlResp>>
resVars == <<resPc, resMsg, resTask>>
storeVars == <<pending, completed>>
forwardVars == <<nextTaskIndex, incarnation>>
netVars == <<requestQ, freshJobs, qrmTasks, resultQ, copies, clientQ>>
histVars == <<jobOf, deliveries, fetched, dropped>>
vars == <<main, taskVars, ctlVars, resVars, storeVars, forwardVars, netVars, histVars>>

IdleRequest == [cmd |-> "invalid", id |-> 0, known |-> TRUE, reply |-> FALSE]
IdleMessage == [id |-> 0, job |-> NoJob, ok |-> FALSE, copy |-> 0]
IdleTask == [kind |-> "control", original |-> 0, dest |-> NoDest]

NoReply == Error("none")

(* A worker leaves the body of its loop: its locals die. *)
EndTask == taskJob' = NoJob /\ taskId' = 0
EndControl == ctlReq' = IdleRequest /\ ctlJob' = NoJob /\ ctlId' = 0 /\ ctlResp' = NoReply
EndResult == resMsg' = IdleMessage /\ resTask' = IdleTask

Init ==
  /\ main = "up"
  /\ taskPc = "head" /\ taskJob = NoJob /\ taskId = 0
  /\ ctlPc = "head" /\ ctlReq = IdleRequest /\ ctlJob = NoJob /\ ctlId = 0
  /\ ctlResp = NoReply
  /\ resPc = "head" /\ resMsg = IdleMessage /\ resTask = IdleTask
  /\ StoreInit
  /\ nextTaskIndex = 0 /\ incarnation = 1
  /\ requestQ = DirectJobs /\ freshJobs = ControlJobs
  /\ qrmTasks = {} /\ resultQ = {} /\ clientQ = {}
  /\ copies = [j \in Jobs |-> 0]
  /\ jobOf = EmptyMap
  /\ deliveries = [j \in DirectJobs |-> 0]
  /\ fetched = [j \in ControlJobs |-> 0]
  /\ dropped = {}

(* Seeded fault: a worker drains the store before it stops. *)
LoopUntilDrained ==
  IF main = "up" \/ completed # EmptyMap THEN "receive" ELSE "exited"

(* while (!stop.stop_requested()) *)
LoopHead == IF main = "up" THEN "receive" ELSE "exited"
-----------------------------------------------------------------------------
(* Task-interface worker. *)
TaskLoop ==
  /\ taskPc = "head" /\ taskPc' = LoopHead
  /\ UNCHANGED <<main, taskJob, taskId, ctlVars, resVars, storeVars, forwardVars,
                 netVars, histVars>>

(* No message within 500 ms, or an error that consumed none. *)
TaskReceiveNothing ==
  /\ taskPc = "receive" /\ taskPc' = "head"
  /\ UNCHANGED <<main, taskJob, taskId, ctlVars, resVars, storeVars, forwardVars,
                 netVars, histVars>>

TaskReceive(j) ==
  /\ taskPc = "receive" /\ j \in requestQ
  /\ requestQ' = requestQ \ {j}
  /\ taskJob' = j /\ taskPc' = "number"
  /\ UNCHANGED <<main, taskId, ctlVars, resVars, storeVars, forwardVars, freshJobs,
                 qrmTasks, resultQ, copies, clientQ, histVars>>

(* The message was acknowledged and then not decoded or lost with its channel. *)
TaskReceiveLost(j) ==
  /\ Faults /\ taskPc = "receive" /\ j \in requestQ
  /\ requestQ' = requestQ \ {j}
  /\ dropped' = dropped \cup {j}
  /\ taskPc' = "head"
  /\ UNCHANGED <<main, taskJob, taskId, ctlVars, resVars, storeVars, forwardVars,
                 freshJobs, qrmTasks, resultQ, copies, clientQ, jobOf, deliveries,
                 fetched>>

(* Seeded fault: the task is sent before it is registered. *)
TaskNumberAndSend ==
  /\ taskPc = "number"
  /\ NextTaskId(taskId')
  /\ taskPc' = "register"
  /\ qrmTasks' = qrmTasks \cup {OutboundTask(taskId', taskJob)}
  /\ UNCHANGED <<main, taskJob, ctlVars, resVars, storeVars, incarnation, requestQ,
                 freshJobs, resultQ, copies, clientQ, histVars>>

TaskNumber ==
  /\ taskPc = "number"
  /\ NextTaskId(taskId')
  /\ taskPc' = "register"
  /\ UNCHANGED <<main, taskJob, ctlVars, resVars, storeVars, incarnation, netVars,
                 histVars>>

TaskRegister ==
  /\ taskPc = "register"
  /\ RegisterDirect(taskId, taskJob)
  /\ jobOf' = InsertOrAssign(jobOf, taskId, taskJob)
  /\ taskPc' = "send"
  /\ UNCHANGED <<main, taskJob, taskId, ctlVars, resVars, forwardVars, netVars,
                 deliveries, fetched, dropped>>

(* A failed send is logged; the pending entry stays. *)
TaskSend ==
  /\ taskPc = "send"
  /\ \/ /\ qrmTasks' = qrmTasks \cup {OutboundTask(taskId, taskJob)}
        /\ UNCHANGED dropped
     \/ /\ Faults
        /\ dropped' = dropped \cup {taskJob}
        /\ UNCHANGED qrmTasks
  /\ taskPc' = "head" /\ EndTask
  /\ UNCHANGED <<main, ctlVars, resVars, storeVars, forwardVars, requestQ, freshJobs,
                 resultQ, copies, clientQ, jobOf, deliveries, fetched>>
-----------------------------------------------------------------------------
(* Control-interface worker. *)
CtlLoop ==
  /\ ctlPc = "head" /\ ctlPc' = LoopHead
  /\ UNCHANGED <<main, taskVars, ctlReq, ctlJob, ctlId, ctlResp, resVars, storeVars,
                 forwardVars, netVars, histVars>>

CtlReceiveNothing ==
  /\ ctlPc = "receive" /\ ctlPc' = "head"
  /\ UNCHANGED <<main, taskVars, ctlReq, ctlJob, ctlId, ctlResp, resVars, storeVars,
                 forwardVars, netVars, histVars>>

CtlReceive(req) ==
  /\ ctlPc = "receive"
  /\ ctlReq' = req
  /\ \/ /\ req.cmd = "create"
        /\ \E j \in freshJobs : ctlJob' = j /\ freshJobs' = freshJobs \ {j}
        /\ ctlPc' = "number"
     \/ /\ req.cmd # "create"
        /\ ctlPc' = "handle"
        /\ UNCHANGED <<ctlJob, freshJobs>>
  /\ UNCHANGED <<main, taskVars, ctlId, ctlResp, resVars, storeVars, forwardVars,
                 requestQ, qrmTasks, resultQ, copies, clientQ, histVars>>

(* Seeded fault: the task is sent before it is registered. *)
CtlNumberAndSend ==
  /\ ctlPc = "number"
  /\ NextTaskId(ctlId')
  /\ ctlPc' = "register"
  /\ qrmTasks' = qrmTasks \cup {OutboundTask(ctlId', ctlJob)}
  /\ UNCHANGED <<main, taskVars, ctlReq, ctlJob, ctlResp, resVars, storeVars,
                 incarnation, requestQ, freshJobs, resultQ, copies, clientQ, histVars>>

CtlNumber ==
  /\ ctlPc = "number"
  /\ NextTaskId(ctlId')
  /\ ctlPc' = "register"
  /\ UNCHANGED <<main, taskVars, ctlReq, ctlJob, ctlResp, resVars, storeVars,
                 incarnation, netVars, histVars>>

CtlRegister ==
  /\ ctlPc = "register"
  /\ RegisterControl(ctlId)
  /\ jobOf' = InsertOrAssign(jobOf, ctlId, ctlJob)
  /\ ctlPc' = "send"
  /\ UNCHANGED <<main, taskVars, ctlReq, ctlJob, ctlId, ctlResp, resVars, forwardVars,
                 netVars, deliveries, fetched, dropped>>

(* The client is told "created" even when the task did not reach QRM. *)
CtlSend ==
  /\ ctlPc = "send"
  /\ \/ /\ qrmTasks' = qrmTasks \cup {OutboundTask(ctlId, ctlJob)}
        /\ UNCHANGED dropped
     \/ /\ Faults
        /\ dropped' = dropped \cup {ctlJob}
        /\ UNCHANGED qrmTasks
  /\ ctlResp' = Created(ctlId)
  /\ ctlPc' = "respond"
  /\ UNCHANGED <<main, taskVars, ctlReq, ctlJob, ctlId, resVars, storeVars, forwardVars,
                 requestQ, freshJobs, resultQ, copies, clientQ, jobOf, deliveries,
                 fetched>>

CtlHandle ==
  /\ ctlPc = "handle"
  /\ \/ /\ ctlReq.cmd \notin {"result", "cancel"}
        /\ ctlResp' = AnswerAtOnce(ctlReq)
        /\ ctlPc' = "respond"
     \/ /\ ctlReq.cmd \in {"result", "cancel"} /\ StillWaiting(ctlReq)
        /\ ctlResp' = Error("JOB IS WAITING")
        /\ ctlPc' = "respond"
     \/ /\ ctlReq.cmd \in {"result", "cancel"} /\ ~StillWaiting(ctlReq)
        /\ ctlPc' = "take"
        /\ UNCHANGED ctlResp
  /\ UNCHANGED <<main, taskVars, ctlReq, ctlJob, ctlId, resVars, storeVars, forwardVars,
                 netVars, histVars>>

(* The job a cancel-reason query consumes without handing it out. *)
Discarded ==
  {completed[id].job : id \in {i \in DOMAIN completed :
                                 ctlReq.cmd = "cancel" /\ i = ToUint64(ctlReq.id)}}

CtlTake ==
  /\ ctlPc = "take"
  /\ ctlResp' = AnswerTaken(ctlReq)
  /\ TakeCompletedControlTask(ToUint64(ctlReq.id))
  /\ dropped' = dropped \cup Discarded
  /\ ctlPc' = "respond"
  /\ UNCHANGED <<main, taskVars, ctlReq, ctlJob, ctlId, resVars, forwardVars, netVars,
                 jobOf, deliveries, fetched>>

(* Nothing is sent when the request named no response queue; a failed send *)
(* is logged and a result taken out of the store is gone.                  *)
CtlRespond ==
  /\ ctlPc = "respond"
  /\ \/ /\ ctlReq.reply
        /\ fetched' = [j \in ControlJobs |->
                         IF j = ctlResp.job THEN fetched[j] + 1 ELSE fetched[j]]
        /\ UNCHANGED dropped
     \/ /\ ~ctlReq.reply \/ Faults
        /\ dropped' = dropped \cup ({ctlResp.job} \ {NoJob})
        /\ UNCHANGED fetched
  /\ ctlPc' = "head" /\ EndControl
  /\ UNCHANGED <<main, taskVars, resVars, storeVars, forwardVars, netVars, jobOf,
                 deliveries>>
-----------------------------------------------------------------------------
(* QRM-result worker. *)
ResLoop ==
  /\ resPc = "head" /\ resPc' = LoopHead
  /\ UNCHANGED <<main, taskVars, ctlVars, resMsg, resTask, storeVars, forwardVars,
                 netVars, histVars>>

ResReceiveNothing ==
  /\ resPc = "receive" /\ resPc' = "head"
  /\ UNCHANGED <<main, taskVars, ctlVars, resMsg, resTask, storeVars, forwardVars,
                 netVars, histVars>>

ResReceive(msg) ==
  /\ resPc = "receive" /\ msg \in resultQ
  /\ resultQ' = resultQ \ {msg}
  /\ resMsg' = msg /\ resPc' = "correlate"
  /\ UNCHANGED <<main, taskVars, ctlVars, resTask, storeVars, forwardVars, requestQ,
                 freshJobs, qrmTasks, copies, clientQ, histVars>>

ResReceiveLost(msg) ==
  /\ Faults /\ resPc = "receive" /\ msg \in resultQ
  /\ resultQ' = resultQ \ {msg}
  /\ dropped' = dropped \cup {msg.job}
  /\ resPc' = "head"
  /\ UNCHANGED <<main, taskVars, ctlVars, resMsg, resTask, storeVars, forwardVars,
                 requestQ, freshJobs, qrmTasks, copies, clientQ, jobOf, deliveries,
                 fetched>>

(* processResult() up to takePending(): a result without a pending task is *)
(* dropped, a control result is stored next, a direct one is sent on.      *)
ResCorrelate ==
  LET id == ResultKey(resMsg) IN
  /\ resPc = "correlate"
  /\ \/ /\ id \notin DOMAIN pending
        /\ resPc' = "head" /\ EndResult
        /\ UNCHANGED storeVars
     \/ /\ id \in DOMAIN pending
        /\ TakePending(id)
        /\ resTask' = pending[id]
        /\ resPc' = IF pending[id].kind = "control" THEN "store" ELSE "deliver"
        /\ UNCHANGED resMsg
  /\ UNCHANGED <<main, taskVars, ctlVars, forwardVars, netVars, histVars>>

ResStore ==
  /\ resPc = "store"
  /\ StoreCompletedControlTask(resTask.original, [job |-> resMsg.job, ok |-> resMsg.ok])
  /\ resPc' = "head" /\ EndResult
  /\ UNCHANGED <<main, taskVars, ctlVars, forwardVars, netVars, histVars>>

(* Seeded fault: a send that succeeded is retried. *)
ResDeliverAgain ==
  /\ resPc = "deliver"
  /\ clientQ' = clientQ \cup {RestoredResult(resMsg, resTask)}
  /\ deliveries' = [j \in DirectJobs |->
                      IF j = resMsg.job THEN deliveries[j] + 1 ELSE deliveries[j]]
  /\ UNCHANGED <<main, taskVars, ctlVars, resVars, storeVars, forwardVars, requestQ,
                 freshJobs, qrmTasks, resultQ, copies, jobOf, fetched, dropped>>

ResDeliver ==
  /\ resPc = "deliver"
  /\ \/ /\ clientQ' = clientQ \cup {RestoredResult(resMsg, resTask)}
        /\ deliveries' = [j \in DirectJobs |->
                            IF j = resMsg.job THEN deliveries[j] + 1 ELSE deliveries[j]]
        /\ UNCHANGED dropped
     \/ /\ Faults
        /\ dropped' = dropped \cup {resMsg.job}
        /\ UNCHANGED <<clientQ, deliveries>>
  /\ resPc' = "head" /\ EndResult
  /\ UNCHANGED <<main, taskVars, ctlVars, storeVars, forwardVars, requestQ, freshJobs,
                 qrmTasks, resultQ, copies, jobOf, fetched>>
-----------------------------------------------------------------------------
(* QRM (external): it answers the tasks it has in any order, with success  *)
(* or failure, and a result may reach the queue more than once.            *)
QrmAnswer(task, ok) ==
  /\ task \in qrmTasks
  /\ copies[task.job] < MaxCopies
  /\ copies' = [copies EXCEPT ![task.job] = @ + 1]
  /\ resultQ' = resultQ \cup {[id |-> task.id, job |-> task.job, ok |-> ok,
                               copy |-> copies[task.job] + 1]}
  /\ UNCHANGED <<main, taskVars, ctlVars, resVars, storeVars, forwardVars, requestQ,
                 freshJobs, qrmTasks, clientQ, histVars>>
-----------------------------------------------------------------------------
(* Life of the process.  requestStop() asks every worker to stop and joins *)
(* them; nothing of the store survives the process.                        *)
RequestStop ==
  /\ main = "up" /\ main' = "stopping"
  /\ UNCHANGED <<taskVars, ctlVars, resVars, storeVars, forwardVars, netVars, histVars>>

InHand ==
  {taskJob : x \in {taskPc} \cap {"number", "register", "send"}}
    \cup {ctlJob : x \in {ctlPc} \cap {"number", "register", "send"}}
    \cup {ctlResp.job : x \in {ctlPc} \cap {"respond"}}
    \cup {resMsg.job : x \in {resPc} \cap {"correlate", "store", "deliver"}}

ForgetStore ==
  /\ pending' = EmptyMap /\ completed' = EmptyMap
  /\ dropped' = dropped \cup (InHand \ {NoJob})
                        \cup {jobOf[id] : id \in DOMAIN pending}
                        \cup {completed[id].job : id \in DOMAIN completed}

Joined ==
  /\ main = "stopping" /\ taskPc = "exited" /\ ctlPc = "exited" /\ resPc = "exited"
  /\ main' = "down"
  /\ ForgetStore
  /\ UNCHANGED <<taskVars, ctlVars, resVars, forwardVars, netVars, jobOf, deliveries,
                 fetched>>

(* The process is killed at any point. *)
Crash ==
  /\ Faults /\ main # "down" /\ main' = "down"
  /\ taskPc' = "exited" /\ EndTask
  /\ ctlPc' = "exited" /\ EndControl
  /\ resPc' = "exited" /\ EndResult
  /\ ForgetStore
  /\ UNCHANGED <<forwardVars, netVars, jobOf, deliveries, fetched>>

(* A new process: an empty store and a counter that starts at 0 again.     *)
Restart ==
  /\ main = "down" /\ incarnation + 1 \in Incarnations
  /\ main' = "up"
  /\ incarnation' = incarnation + 1 /\ nextTaskIndex' = 0
  /\ taskPc' = "head" /\ ctlPc' = "head" /\ resPc' = "head"
  /\ UNCHANGED <<taskJob, taskId, ctlReq, ctlJob, ctlId, ctlResp, resMsg, resTask,
                 storeVars, netVars, histVars>>

Terminated ==
  /\ main = "down" /\ incarnation + 1 \notin Incarnations
  /\ UNCHANGED vars
-----------------------------------------------------------------------------
TaskWork == TaskLoop \/ TaskNumber \/ TaskRegister \/ TaskSend
CtlWork == CtlLoop \/ CtlNumber \/ CtlRegister \/ CtlSend \/ CtlHandle \/ CtlTake
             \/ CtlRespond
ResWork == ResLoop \/ ResCorrelate \/ ResStore \/ ResDeliver
ReceiveNothing == TaskReceiveNothing \/ CtlReceiveNothing \/ ResReceiveNothing

Next ==
  \/ TaskWork \/ CtlWork \/ ResWork \/ ReceiveNothing
  \/ \E j \in DirectJobs : TaskReceive(j) \/ TaskReceiveLost(j)
  \/ \E req \in Requests : CtlReceive(req)
  \/ \E msg \in resultQ : ResReceive(msg) \/ ResReceiveLost(msg)
  \/ \E task \in qrmTasks, ok \in BOOLEAN : QrmAnswer(task, ok)
  \/ RequestStop \/ Joined \/ Crash \/ Restart \/ Terminated

Spec == Init /\ [][Next]_vars

(* Workers are scheduled; a receive ends within its 500 ms; a message that *)
(* waits in a queue is eventually handed to a worker that keeps asking for *)
(* it; QRM answers every task once; main joins the workers.                *)
FairSpec ==
  /\ Spec
  /\ WF_vars(TaskWork) /\ WF_vars(CtlWork) /\ WF_vars(ResWork)
  /\ WF_vars(TaskReceiveNothing) /\ WF_vars(CtlReceiveNothing)
  /\ WF_vars(ResReceiveNothing)
  /\ \A j \in DirectJobs : SF_vars(TaskReceive(j))
  /\ \A j \in Jobs : SF_vars(\E msg \in resultQ : msg.job = j /\ ResReceive(msg))
  /\ \A j \in Jobs :
       WF_vars(\E task \in qrmTasks, ok \in BOOLEAN :
                 task.job = j /\ copies[j] = 0 /\ QrmAnswer(task, ok))
  /\ WF_vars(Joined)
-----------------------------------------------------------------------------
TaskTypeOK ==
  /\ taskPc \in {"head", "receive", "number", "register", "send", "exited"}
  /\ taskJob \in DirectJobs \cup {NoJob} /\ taskId \in Ids
CtlTypeOK ==
  /\ ctlPc \in {"head", "receive", "number", "register", "send", "handle", "take",
                "respond", "exited"}
  /\ ctlReq \in Requests \cup {IdleRequest}
  /\ ctlJob \in ControlJobs \cup {NoJob} /\ ctlId \in Ids
  /\ ctlResp \in Replies
ResTypeOK ==
  /\ resPc \in {"head", "receive", "correlate", "store", "deliver", "exited"}
  /\ resMsg \in ResultMessages \cup {IdleMessage} /\ resTask \in PendingTasks
StoreTypeOK ==
  /\ DOMAIN pending \subseteq Ids /\ \A id \in DOMAIN pending : pending[id] \in PendingTasks
  /\ DOMAIN completed \subseteq Ids
  /\ \A id \in DOMAIN completed : completed[id] \in CompletedTasks
  /\ nextTaskIndex \in 0 .. MaxTasks /\ incarnation \in Incarnations
NetTypeOK ==
  /\ requestQ \subseteq DirectJobs /\ freshJobs \subseteq ControlJobs
  /\ qrmTasks \subseteq TaskMessages /\ resultQ \subseteq ResultMessages
  /\ copies \in [Jobs -> 0 .. MaxCopies]
  /\ clientQ \subseteq [job : Jobs, id : WireIds, dest : Destinations \cup {NoDest}]
HistTypeOK ==
  /\ DOMAIN jobOf \subseteq Ids /\ \A id \in DOMAIN jobOf : jobOf[id] \in Jobs
  /\ deliveries \in [DirectJobs -> Nat] /\ fetched \in [ControlJobs -> Nat]
  /\ dropped \subseteq Jobs

(* Every variable has its type. *)
TypeOK ==
  /\ main \in {"up", "stopping", "down"}
  /\ TaskTypeOK /\ CtlTypeOK /\ ResTypeOK
  /\ StoreTypeOK /\ NetTypeOK /\ HistTypeOK

(* Correlation: whatever order results arrive in and however often, a      *)
(* direct client only ever gets the result of its own job, under the id    *)
(* and on the queue it chose.                                              *)
ResultsReachTheirClient ==
  \A r \in clientQ :
    r.job \in DirectJobs /\ r.id = Origin[r.job].id /\ r.dest = Origin[r.job].dest

(* A direct client gets at most one result per job, although QRM or the    *)
(* broker may send the result again at any later time.                     *)
DeliveredOnce == \A j \in DirectJobs : deliveries[j] <= 1

(* A control result is handed out at most once, however often its client   *)
(* asks for it.                                                            *)
FetchedOnce == \A j \in ControlJobs : fetched[j] <= 1

(* A result reply carries the result of the task the client asked about,   *)
(* although the status and the result are read in two critical sections.   *)
ReplyMatchesQuery ==
  (ctlPc = "respond" /\ ctlResp.kind = "result") =>
    /\ ToUint64(ctlReq.id) \in DOMAIN jobOf
    /\ jobOf[ToUint64(ctlReq.id)] = ctlResp.job /\ ctlResp.job \in ControlJobs

(* The answer a pending entry waits for is on its way: the task is about   *)
(* to be sent or is at QRM unanswered, or a result is queued or in the     *)
(* result worker's hands.                                                  *)
Tracked(j) ==
  \E id \in DOMAIN pending :
    /\ jobOf[id] = j
    /\ \/ taskPc = "send" /\ taskJob = j
       \/ ctlPc = "send" /\ ctlJob = j
       \/ copies[j] = 0 /\ \E task \in qrmTasks : task.job = j /\ ResultKey(task) = id
       \/ \E msg \in resultQ : msg.job = j /\ ResultKey(msg) = id
       \/ resPc = "correlate" /\ resMsg.job = j /\ ResultKey(resMsg) = id

(* No job disappears between two steps of different workers: unless a      *)
(* send, a receive, a query or a stop lost it, it is queued, in a worker's *)
(* hands, tracked by the store, stored or delivered.  In particular a task *)
(* is registered before any result of it can be correlated.                *)
JobsAccounted ==
  /\ \A j \in DirectJobs :
       \/ j \in requestQ \cup dropped
       \/ taskPc \in {"number", "register"} /\ taskJob = j
       \/ Tracked(j)
       \/ resPc = "deliver" /\ resMsg.job = j
       \/ deliveries[j] > 0
  /\ \A j \in ControlJobs :
       \/ j \in freshJobs \cup dropped
       \/ ctlPc \in {"number", "register"} /\ ctlJob = j
       \/ Tracked(j)
       \/ resPc = "store" /\ resMsg.job = j
       \/ \E id \in DOMAIN completed : completed[id].job = j
       \/ ctlPc = "respond" /\ ctlResp.job = j
       \/ fetched[j] > 0

(* Pending and completed tasks are kept apart although a result moves from *)
(* one map to the other in two critical sections, and only results of      *)
(* control tasks are kept, each under the id its client was told.          *)
StoreConsistent ==
  \A id \in DOMAIN completed :
    id \notin DOMAIN pending /\ completed[id].job \in ControlJobs
      /\ completed[id].job = jobOf[id]

(* The store keeps entries for tasks that can still be answered; the only  *)
(* ones it keeps for ever are those of jobs that were lost.                *)
PendingOnlyLeaksLost ==
  \A id \in DOMAIN pending : jobOf[id] \in dropped \/ Tracked(jobOf[id])

(* A result stays in the store as it came until a query names it or the    *)
(* process ends: neither a later result, repeated or of another task, nor  *)
(* a query for another task touches it.                                    *)
ResultKept ==
  [][\A id \in DOMAIN completed :
       \/ id \in DOMAIN completed' /\ completed'[id] = completed[id]
       \/ ctlPc = "take" /\ ToUint64(ctlReq.id) = id
       \/ main' = "down"]_vars

(* While the service stays up, every direct job that is not lost to a      *)
(* fault is answered.                                                      *)
DirectJobsAnswered ==
  \A j \in DirectJobs : j \in requestQ ~> (deliveries[j] > 0 \/ main # "up")

(* Every control job the service took in reaches the completed results.    *)
ControlJobsComplete ==
  \A j \in ControlJobs :
    (ctlPc = "number" /\ ctlJob = j)
      ~> (main # "up" \/ \E id \in DOMAIN completed : completed[id].job = j)

(* A stop request ends all three workers and the process, whatever each of *)
(* them is doing and whatever waits in its queue.                          *)
StopEnds == main = "stopping" ~> main = "down"
-----------------------------------------------------------------------------
(* Statements of the repository that the code does not keep; each has a    *)
(* run that shows how.                                                     *)

(* tests/integration/ControlRoundtrip.cpp polls the status of a task it    *)
(* created and asserts that no answer is an error.                         *)
CreatedTaskIsKnown ==
  (ctlPc = "respond" /\ ctlReq.cmd = "status" /\ ToUint64(ctlReq.id) \in DOMAIN jobOf
     /\ jobOf[ToUint64(ctlReq.id)] \in ControlJobs
     /\ fetched[jobOf[ToUint64(ctlReq.id)]] = 0
     /\ jobOf[ToUint64(ctlReq.id)] \notin dropped)
   => ctlResp.text # "NotFound"

(* Forward.hpp: processResult() correlates a returned result with pending  *)
(* task state.                                                             *)
PendingResultRecognised ==
  \A id \in DOMAIN pending :
    (resPc = "correlate" /\ resMsg.job = jobOf[id]) => ResultKey(resMsg) \in DOMAIN pending
=============================================================================
