-------------------------- MODULE QOffload_proofs --------------------------
(***************************************************************************)
(* Proofs about QOffload, for any sets of jobs, any number of restarts and *)
(* any widths of the identifiers, on one condition: the identifiers of all *)
(* processes together are distinct and survive the trip over the wire      *)
(* (IdsCorrelate).  IdsFromRange derives the condition from bounds on the  *)
(* instance uids and on the number of tasks.                               *)
(***************************************************************************)
EXTENDS QOffload, Forward_proofs, FiniteSetTheorems

(* Identifiers handed out so far, by this process or an earlier one. *)
Issued ==
  {id \in Ids : \E n \in Incarnations, i \in Indices :
     /\ id = TaskId(n, i)
     /\ n < incarnation \/ (n = incarnation /\ i < nextTaskIndex)}

Registered(j) == \E id \in DOMAIN jobOf : jobOf[id] = j

(* The pending entry that belongs to job j under identifier id. *)
Entry(id, j) ==
  IF j \in DirectJobs
  THEN [kind |-> "direct", original |-> ToUint64(Origin[j].id), dest |-> Origin[j].dest]
  ELSE [kind |-> "control", original |-> id, dest |-> NoDest]

(* Message m carries the identifier its job was registered under. *)
Owned(m) == ResultKey(m) \in DOMAIN jobOf /\ jobOf[ResultKey(m)] = m.job

(* Identifiers and jobs correspond one to one, also while two workers      *)
(* number their tasks at the same time.                                    *)
NumberedOnce ==
  /\ DOMAIN jobOf \subseteq Issued
  /\ \A a, b \in DOMAIN jobOf : jobOf[a] = jobOf[b] => a = b
  /\ \A j \in requestQ \cup freshJobs : ~Registered(j)
TaskNumbering ==
  /\ taskPc \in {"number", "register", "send"} => taskJob \in DirectJobs \ requestQ
  /\ taskPc \in {"number", "register"} => ~Registered(taskJob)
  /\ taskPc = "register" => taskId \in Issued \ DOMAIN jobOf
  /\ taskPc = "send" => taskId \in DOMAIN jobOf /\ jobOf[taskId] = taskJob
CtlNumbering ==
  /\ ctlPc \in {"number", "register", "send"} => ctlJob \in ControlJobs \ freshJobs
  /\ ctlPc \in {"number", "register"} => ~Registered(ctlJob)
  /\ ctlPc = "register" => ctlId \in Issued \ DOMAIN jobOf
  /\ ctlPc = "send" => ctlId \in DOMAIN jobOf /\ jobOf[ctlId] = ctlJob
  /\ taskPc = "register" /\ ctlPc = "register" => taskId # ctlId

(* Every message and every pending entry belongs to the job it names. *)
Routing ==
  /\ \A id \in DOMAIN pending :
       id \in DOMAIN jobOf /\ pending[id] = Entry(id, jobOf[id])
  /\ \A m \in qrmTasks \cup resultQ : Owned(m)
  /\ resPc \in {"correlate", "store", "deliver"} => Owned(resMsg)
  /\ resPc \in {"store", "deliver"} =>
       /\ resTask = Entry(ResultKey(resMsg), resMsg.job)
       /\ ResultKey(resMsg) \notin DOMAIN pending
  /\ resPc = "deliver" => resMsg.job \in DirectJobs
  /\ resPc = "store" => resMsg.job \in ControlJobs

(* Results of control tasks, in the store and in the control worker. *)
Completion ==
  /\ \A id \in DOMAIN completed :
       /\ id \in DOMAIN jobOf \ DOMAIN pending
       /\ completed[id].job = jobOf[id] /\ jobOf[id] \in ControlJobs
  /\ resPc = "store" => ResultKey(resMsg) \notin DOMAIN completed
  /\ ctlPc = "respond" /\ ctlResp.kind = "result" =>
       /\ ToUint64(ctlReq.id) \in DOMAIN jobOf \ (DOMAIN pending \cup DOMAIN completed)
       /\ jobOf[ToUint64(ctlReq.id)] = ctlResp.job /\ ctlResp.job \in ControlJobs
       /\ resPc = "store" => resMsg.job # ctlResp.job
  /\ ctlPc = "respond" /\ ctlResp.job # NoJob => ctlResp.kind = "result"

(* A job that has been answered is nowhere else in the service. *)
Once ==
  /\ \A j \in DirectJobs :
       /\ deliveries[j] <= 1
       /\ deliveries[j] > 0 =>
            /\ \E id \in DOMAIN jobOf : jobOf[id] = j /\ id \notin DOMAIN pending
            /\ ~(resPc = "deliver" /\ resMsg.job = j)
  /\ \A j \in ControlJobs :
       /\ fetched[j] <= 1
       /\ fetched[j] > 0 =>
            /\ \E id \in DOMAIN jobOf :
                 jobOf[id] = j /\ id \notin DOMAIN pending \cup DOMAIN completed
            /\ ~(resPc = "store" /\ resMsg.job = j)
            /\ ~(ctlPc = "respond" /\ ctlResp.job = j)

(* A worker in the middle of a message holds one, and every pending entry  *)
(* has been registered.                                                    *)
HandsFull ==
  /\ taskPc \in {"number", "register", "send"} => taskJob # NoJob
  /\ ctlPc \in {"number", "register", "send"} => ctlJob # NoJob
  /\ ctlPc = "handle" => ctlReq.cmd # "create"
  /\ resPc \in {"correlate", "store", "deliver"} => resMsg # IdleMessage
  /\ DOMAIN pending \subseteq DOMAIN jobOf

(* The inductive invariant of the service. *)
Inv ==
  /\ TypeOK /\ NumberedOnce /\ TaskNumbering /\ CtlNumbering
  /\ Routing /\ Completion /\ Once
  /\ ResultsReachTheirClient
-----------------------------------------------------------------------------
(* Type correctness. *)

(* The next-state relation, one disjunct per action. *)
LEMMA StepCases ==
  ASSUME Next
  PROVE \/ TaskLoop \/ TaskNumber \/ TaskRegister \/ TaskSend \/ TaskReceiveNothing
        \/ CtlLoop \/ CtlNumber \/ CtlRegister \/ CtlSend \/ CtlHandle \/ CtlTake
        \/ CtlRespond \/ CtlReceiveNothing
        \/ ResLoop \/ ResCorrelate \/ ResStore \/ ResDeliver \/ ResReceiveNothing
        \/ \E j \in DirectJobs : TaskReceive(j)
        \/ \E j \in DirectJobs : TaskReceiveLost(j)
        \/ \E req \in Requests : CtlReceive(req)
        \/ \E msg \in resultQ : ResReceive(msg)
        \/ \E msg \in resultQ : ResReceiveLost(msg)
        \/ \E task \in qrmTasks, ok \in BOOLEAN : QrmAnswer(task, ok)
        \/ RequestStop \/ Joined \/ Crash \/ Restart \/ UNCHANGED vars
BY Zenon DEF Next, TaskWork, CtlWork, ResWork, ReceiveNothing, Terminated

(* Requests have the shape the handlers rely on. *)
LEMMA RequestCommands ==
  ASSUME NEW req \in Requests
  PROVE req.cmd \in {"create", "list", "invalid", "status", "result", "cancel",
                    "resource", "pending"}
BY Zenon DEF Requests

(* Idle or not, the request of the control worker has them too. *)
LEMMA RequestTypes ==
  ASSUME NEW req \in Requests \cup {IdleRequest}
  PROVE /\ req.id \in Int
        /\ req.cmd \in {"create", "list", "invalid", "status", "result", "cancel",
                        "resource", "pending"}
<1>1. CASE req = IdleRequest
  BY <1>1 DEF IdleRequest
<1>2. CASE req \in Requests
  <2>1. req.id \in QueryIds \cup {0}
    BY <1>2 DEF Requests
  <2>2. \A x \in QueryIds \cup {0} : x \in Int
    BY ControlAssumption, IdTypes
  <2> QED BY <1>2, <2>1, <2>2, RequestCommands, Zenon
<1> QED BY <1>1, <1>2

(* A reply put together from its parts is a reply. *)
LEMMA ReplyType ==
  ASSUME NEW kind \in ReplyKinds, NEW text \in ReplyTexts,
         NEW job \in Jobs \cup {NoJob}, NEW num \in Int
  PROVE Reply(kind, text, job, num) \in Replies
BY DEF Reply, Replies

(* The first state is well typed. *)
LEMMA InitTypeOK == Init => TypeOK /\ HandsFull
<1> SUFFICES ASSUME Init PROVE TypeOK /\ HandsFull
  OBVIOUS
<1> USE DEF Init
<1>1. TaskTypeOK
  BY IdTypes DEF TaskTypeOK
<1>2. CtlTypeOK
  <2>1. NoReply \in Replies
    BY DEF NoReply, Error, Reply, Replies, ReplyKinds, ReplyTexts
  <2> QED BY <2>1, IdTypes DEF CtlTypeOK
<1>3. ResTypeOK
  BY IdTypes DEF ResTypeOK, IdleTask, PendingTasks
<1>4. StoreTypeOK
  BY ForwardAssumption DEF StoreTypeOK, StoreInit, EmptyMap, Incarnations
<1>5. NetTypeOK
  BY QOffloadAssumption DEF NetTypeOK
<1>6. HistTypeOK
  BY DEF HistTypeOK, EmptyMap
<1>7. HandsFull
  BY DEF HandsFull, StoreInit, EmptyMap
<1> QED BY <1>1, <1>2, <1>3, <1>4, <1>5, <1>6, <1>7 DEF TypeOK

(* Every answer of Control.cpp is a reply. *)
LEMMA AnswerTypes ==
  ASSUME TypeOK, ctlPc = "handle" => ctlReq.cmd # "create"
  PROVE /\ NoReply \in Replies /\ Error("JOB IS WAITING") \in Replies
        /\ \A id \in Ids : Created(id) \in Replies
        /\ ctlPc = "handle" /\ ctlReq.cmd \notin {"result", "cancel"} =>
             AnswerAtOnce(ctlReq) \in Replies
        /\ AnswerTaken(ctlReq) \in Replies
<1>0. /\ "none" \in ReplyTexts /\ "JOB IS WAITING" \in ReplyTexts
      /\ "JOB NOT FOUND" \in ReplyTexts /\ "RESOURCE NOT FOUND" \in ReplyTexts
      /\ "INVALID REQUEST" \in ReplyTexts
      /\ "created" \in ReplyKinds /\ "status" \in ReplyKinds /\ "result" \in ReplyKinds
      /\ "cancelReason" \in ReplyKinds /\ "resources" \in ReplyKinds
      /\ "resource" \in ReplyKinds /\ "pendingTasks" \in ReplyKinds
      /\ "error" \in ReplyKinds /\ NoJob \in Jobs \cup {NoJob} /\ 0 \in Int
  BY DEF ReplyTexts, ReplyKinds
<1>1. ctlReq \in Requests \cup {IdleRequest} /\ ctlReq.id \in Int
  BY RequestTypes DEF TypeOK, CtlTypeOK
<1>2. \A message \in ReplyTexts : Error(message) \in Replies
  BY <1>0, ReplyType, Zenon DEF Error
<1>3. \A id \in Ids : Created(id) \in Replies
  <2> SUFFICES ASSUME NEW id \in Ids PROVE Created(id) \in Replies
    OBVIOUS
  <2>1. Ids \subseteq Int
    BY IdTypes
  <2>2. ToUint64(ToInt32(id)) \in Int
    BY <2>1, IdTypes, Zenon
  <2> QED BY <1>0, <2>2, ReplyType, Zenon DEF Created
<1>4. AnswerTaken(ctlReq) \in Replies
  <2>1. CASE ToUint64(ctlReq.id) \notin DOMAIN completed
    BY <2>1, <1>0, <1>2 DEF AnswerTaken
  <2>2. CASE ToUint64(ctlReq.id) \in DOMAIN completed
    <3>1. completed[ToUint64(ctlReq.id)].job \in Jobs
      BY <2>2 DEF TypeOK, StoreTypeOK, CompletedTasks
    <3>2. /\ Reply("result", "none", completed[ToUint64(ctlReq.id)].job, 0) \in Replies
          /\ Reply("cancelReason", "none", NoJob, 0) \in Replies
      BY <3>1, <1>0, ReplyType, Zenon
    <3> QED BY <2>2, <3>2 DEF AnswerTaken
  <2> QED BY <2>1, <2>2
<1>5. PendingCount \in Int
  <2>1. IsFiniteSet(Ids)
    BY FS_Interval, StoreAssumption DEF Ids
  <2>2. IsFiniteSet(DOMAIN pending)
    BY <2>1, FS_Subset DEF TypeOK, StoreTypeOK
  <2> QED BY <2>2, FS_CardinalityType DEF PendingCount
<1>6. \A id : Status(id) \in ReplyTexts
  BY DEF Status, ReplyTexts
<1>7. /\ \A id : Reply("status", Status(id), NoJob, 0) \in Replies
      /\ Reply("resources", "none", NoJob, 0) \in Replies
      /\ Reply("resource", "none", NoJob, 0) \in Replies
      /\ Reply("pendingTasks", "none", NoJob, PendingCount) \in Replies
  BY <1>0, <1>5, <1>6, ReplyType, Zenon
<1>8. ASSUME ctlPc = "handle", ctlReq.cmd \notin {"result", "cancel"}
      PROVE AnswerAtOnce(ctlReq) \in Replies
  <2>1. ctlReq.cmd \in {"list", "invalid", "status", "resource", "pending"}
    BY <1>1, <1>8, RequestTypes
  <2> QED BY <2>1, <1>0, <1>2, <1>7 DEF AnswerAtOnce
<1> QED BY <1>0, <1>2, <1>3, <1>4, <1>8 DEF NoReply

(* Which actions change which part of the state. *)
LEMMA Frames ==
  ASSUME [Next]_vars
  PROVE /\ \/ TaskLoop \/ TaskNumber \/ TaskRegister \/ TaskSend \/ TaskReceiveNothing
           \/ \E j \in DirectJobs : TaskReceive(j) \/ TaskReceiveLost(j)
           \/ Crash \/ Restart \/ UNCHANGED taskVars
        /\ \/ CtlLoop \/ CtlNumber \/ CtlRegister \/ CtlSend \/ CtlHandle \/ CtlTake
           \/ CtlRespond \/ CtlReceiveNothing
           \/ \E req \in Requests : CtlReceive(req)
           \/ Crash \/ Restart \/ UNCHANGED ctlVars
        /\ \/ ResLoop \/ ResCorrelate \/ ResStore \/ ResDeliver \/ ResReceiveNothing
           \/ \E msg \in resultQ : ResReceive(msg) \/ ResReceiveLost(msg)
           \/ Crash \/ Restart \/ UNCHANGED resVars
        /\ TaskRegister \/ CtlRegister \/ ResCorrelate \/ Joined \/ Crash
             \/ UNCHANGED pending
        /\ CtlTake \/ ResStore \/ Joined \/ Crash \/ UNCHANGED completed
        /\ TaskNumber \/ CtlNumber \/ Restart \/ UNCHANGED forwardVars
        /\ \/ \E j \in DirectJobs : TaskReceive(j) \/ TaskReceiveLost(j)
           \/ UNCHANGED requestQ
        /\ (\E req \in Requests : CtlReceive(req)) \/ UNCHANGED freshJobs
        /\ TaskSend \/ CtlSend \/ UNCHANGED qrmTasks
        /\ \/ \E msg \in resultQ : ResReceive(msg) \/ ResReceiveLost(msg)
           \/ \E task \in qrmTasks, ok \in BOOLEAN : QrmAnswer(task, ok)
           \/ UNCHANGED resultQ
        /\ \/ \E task \in qrmTasks, ok \in BOOLEAN : QrmAnswer(task, ok)
           \/ UNCHANGED copies
        /\ TaskRegister \/ CtlRegister \/ UNCHANGED jobOf
        /\ ResDeliver \/ UNCHANGED <<clientQ, deliveries>>
        /\ CtlRespond \/ UNCHANGED fetched
        /\ \/ TaskSend \/ CtlSend \/ CtlTake \/ CtlRespond \/ ResDeliver
           \/ \E j \in DirectJobs : TaskReceiveLost(j)
           \/ \E msg \in resultQ : ResReceiveLost(msg)
           \/ Joined \/ Crash \/ UNCHANGED dropped
<1> USE DEF taskVars, ctlVars, resVars, storeVars, forwardVars, netVars, histVars
<1>1. CASE TaskLoop
  BY <1>1 DEF TaskLoop
<1>2. CASE TaskNumber
  BY <1>2 DEF TaskNumber, NextTaskId
<1>3. CASE TaskRegister
  BY <1>3 DEF TaskRegister, RegisterDirect, AddDirectTask
<1>4. CASE TaskSend
  BY <1>4 DEF TaskSend
<1>5. CASE TaskReceiveNothing
  BY <1>5 DEF TaskReceiveNothing
<1>6. CASE CtlLoop
  BY <1>6 DEF CtlLoop
<1>7. CASE CtlNumber
  BY <1>7 DEF CtlNumber, NextTaskId
<1>8. CASE CtlRegister
  BY <1>8 DEF CtlRegister, RegisterControl, AddControlTask, AddDirectTask
<1>9. CASE CtlSend
  BY <1>9 DEF CtlSend
<1>10. CASE CtlHandle
  BY <1>10 DEF CtlHandle
<1>11. CASE CtlTake
  BY <1>11 DEF CtlTake, TakeCompletedControlTask
<1>12. CASE CtlRespond
  BY <1>12 DEF CtlRespond
<1>13. CASE CtlReceiveNothing
  BY <1>13 DEF CtlReceiveNothing
<1>14. CASE ResLoop
  BY <1>14 DEF ResLoop
<1>15. CASE ResCorrelate
  BY <1>15 DEF ResCorrelate, TakePending
<1>16. CASE ResStore
  BY <1>16 DEF ResStore, StoreCompletedControlTask
<1>17. CASE ResDeliver
  BY <1>17 DEF ResDeliver
<1>18. CASE ResReceiveNothing
  BY <1>18 DEF ResReceiveNothing
<1>19. CASE RequestStop
  BY <1>19 DEF RequestStop
<1>20. CASE Joined
  BY <1>20 DEF Joined
<1>21. CASE Crash
  BY <1>21 DEF Crash
<1>22. CASE Restart
  BY <1>22 DEF Restart
<1>23. CASE \E j \in DirectJobs : TaskReceive(j)
  BY <1>23 DEF TaskReceive
<1>24. CASE \E j \in DirectJobs : TaskReceiveLost(j)
  BY <1>24 DEF TaskReceiveLost
<1>25. CASE \E req \in Requests : CtlReceive(req)
  BY <1>25 DEF CtlReceive
<1>26. CASE \E msg \in resultQ : ResReceive(msg)
  BY <1>26 DEF ResReceive
<1>27. CASE \E msg \in resultQ : ResReceiveLost(msg)
  BY <1>27 DEF ResReceiveLost
<1>28. CASE \E task \in qrmTasks, ok \in BOOLEAN : QrmAnswer(task, ok)
  BY <1>28 DEF QrmAnswer
<1>29. CASE UNCHANGED vars
  BY <1>29 DEF vars
<1> QED BY StepCases, <1>1, <1>2, <1>3, <1>4, <1>5, <1>6, <1>7, <1>8, <1>9, <1>10, <1>11, <1>12, <1>13, <1>14, <1>15, <1>16, <1>17, <1>18, <1>19, <1>20, <1>21, <1>22, <1>23, <1>24, <1>25, <1>26, <1>27, <1>28, <1>29

(* Every step keeps every variable in its type. *)
LEMMA NextTypeOK ==
  ASSUME TypeOK, HandsFull, [Next]_vars
  PROVE TypeOK' /\ HandsFull'
<1>0. NoJob \notin Jobs
  BY ControlAssumption
<1> USE IdTypes DEF TypeOK
<1>1. main' \in {"up", "stopping", "down"}
  BY StepCases DEF vars, TaskLoop, TaskNumber, TaskRegister, TaskSend, TaskReceiveNothing,
     CtlLoop, CtlNumber, CtlRegister, CtlSend, CtlHandle, CtlTake, CtlRespond,
     CtlReceiveNothing, ResLoop, ResCorrelate, ResStore, ResDeliver, ResReceiveNothing,
     TaskReceive, TaskReceiveLost, CtlReceive, ResReceive, ResReceiveLost, QrmAnswer,
     RequestStop, Joined, Crash, Restart
<1>2. TaskTypeOK'
  <2>1. CASE TaskNumber
    BY <2>1 DEF TaskNumber, NextTaskId, TaskTypeOK, StoreTypeOK
  <2>2. CASE TaskLoop \/ TaskRegister \/ TaskReceiveNothing \/ UNCHANGED taskVars
    BY <2>2 DEF TaskLoop, LoopHead, TaskRegister, TaskReceiveNothing, taskVars, TaskTypeOK
  <2>3. CASE TaskSend \/ Crash \/ Restart
    BY <2>3 DEF TaskSend, Crash, Restart, EndTask, TaskTypeOK
  <2>4. CASE \E j \in DirectJobs : TaskReceive(j) \/ TaskReceiveLost(j)
    BY <2>4 DEF TaskReceive, TaskReceiveLost, TaskTypeOK
  <2> QED BY <2>1, <2>2, <2>3, <2>4, Frames
<1>3. CtlTypeOK'
  <2>0. ctlPc = "handle" => ctlReq.cmd # "create"
    BY DEF HandsFull
  <2>1. CASE CtlNumber
    BY <2>1 DEF CtlNumber, NextTaskId, CtlTypeOK, StoreTypeOK
  <2>2. CASE CtlLoop \/ CtlRegister \/ CtlReceiveNothing \/ UNCHANGED ctlVars
    BY <2>2 DEF CtlLoop, LoopHead, CtlRegister, CtlReceiveNothing, ctlVars, CtlTypeOK
  <2>3. CASE CtlRespond \/ Crash \/ Restart
    BY <2>0, <2>3, AnswerTypes DEF CtlRespond, Crash, Restart, EndControl, CtlTypeOK
  <2>4. CASE \E req \in Requests : CtlReceive(req)
    BY <2>4 DEF CtlReceive, NetTypeOK, CtlTypeOK
  <2>5. CASE CtlSend
    BY <2>0, <2>5, AnswerTypes DEF CtlSend, CtlTypeOK
  <2>6. CASE CtlHandle
    BY <2>0, <2>6, AnswerTypes DEF CtlHandle, CtlTypeOK
  <2>7. CASE CtlTake
    BY <2>0, <2>7, AnswerTypes DEF CtlTake, CtlTypeOK
  <2> QED BY <2>1, <2>2, <2>3, <2>4, <2>5, <2>6, <2>7, Frames
<1>4. ResTypeOK'
  <2>1. CASE ResLoop \/ ResReceiveNothing \/ UNCHANGED resVars
    BY <2>1 DEF ResLoop, LoopHead, ResReceiveNothing, resVars, ResTypeOK
  <2>2. CASE ResStore \/ ResDeliver \/ Crash \/ Restart
    BY <2>2 DEF ResStore, ResDeliver, Crash, Restart, EndResult, IdleTask, PendingTasks,
                ResTypeOK
  <2>3. CASE ResCorrelate
    BY <2>3 DEF ResCorrelate, EndResult, IdleTask, PendingTasks, StoreTypeOK, ResTypeOK
  <2>4. CASE \E msg \in resultQ : ResReceive(msg) \/ ResReceiveLost(msg)
    BY <2>4 DEF ResReceive, ResReceiveLost, NetTypeOK, ResTypeOK
  <2> QED BY <2>1, <2>2, <2>3, <2>4, Frames
<1>5. StoreTypeOK'
  <2> DEFINE PendingOK == DOMAIN pending \subseteq Ids
                          /\ \A id \in DOMAIN pending : pending[id] \in PendingTasks
             CompletedOK == DOMAIN completed \subseteq Ids
                            /\ \A id \in DOMAIN completed : completed[id] \in CompletedTasks
             CounterOK == nextTaskIndex \in 0 .. MaxTasks /\ incarnation \in Incarnations
  <2>0. PendingOK /\ CompletedOK /\ CounterOK
    BY DEF StoreTypeOK
  <2>1. PendingOK'
    <3>1. CASE TaskRegister
      <4>1. taskJob \in DirectJobs
        BY <3>1 DEF TaskRegister, HandsFull, TaskTypeOK
      <4>2. [kind |-> "direct", original |-> ToUint64(Origin[taskJob].id),
             dest |-> Origin[taskJob].dest] \in PendingTasks
        BY <4>1, ForwardAssumption DEF PendingTasks
      <4> QED BY <3>1, <2>0, <4>2 DEF TaskRegister, RegisterDirect, AddDirectTask,
                 InsertOrAssign, TaskTypeOK
    <3>2. CASE CtlRegister
      BY <3>2, <2>0 DEF CtlRegister, RegisterControl, AddControlTask, AddDirectTask,
         InsertOrAssign, PendingTasks, CtlTypeOK
    <3>3. CASE ResCorrelate
      BY <3>3, <2>0 DEF ResCorrelate, TakePending, Erase, storeVars
    <3>4. CASE Joined \/ Crash
      BY <3>4 DEF Joined, Crash, ForgetStore, EmptyMap
    <3>5. CASE UNCHANGED pending
      BY <3>5, <2>0
    <3> HIDE DEF PendingOK
    <3> QED BY <3>1, <3>2, <3>3, <3>4, <3>5, Frames
  <2>2. CompletedOK'
    <3>1. CASE CtlTake
      BY <3>1, <2>0 DEF CtlTake, TakeCompletedControlTask, Erase
    <3>2. CASE ResStore
      <4>1. resMsg \in ResultMessages /\ resTask \in PendingTasks
        BY <3>2 DEF ResStore, HandsFull, ResTypeOK
      <4>2. /\ [job |-> resMsg.job, ok |-> resMsg.ok] \in CompletedTasks
            /\ resTask.original \in Ids
        BY <4>1 DEF ResultMessages, CompletedTasks, PendingTasks
      <4> QED BY <3>2, <2>0, <4>2 DEF ResStore, StoreCompletedControlTask, InsertOrAssign
    <3>3. CASE Joined \/ Crash
      BY <3>3 DEF Joined, Crash, ForgetStore, EmptyMap
    <3>4. CASE UNCHANGED completed
      BY <3>4, <2>0
    <3> HIDE DEF CompletedOK
    <3> QED BY <3>1, <3>2, <3>3, <3>4, Frames
  <2>3. CounterOK'
    BY <2>0, Frames, ForwardAssumption DEF TaskNumber, CtlNumber, NextTaskId, Restart,
       forwardVars, Incarnations
  <2> QED BY <2>1, <2>2, <2>3 DEF StoreTypeOK
<1>6. NetTypeOK'
  <2>1. (requestQ \subseteq DirectJobs /\ freshJobs \subseteq ControlJobs)'
    BY Frames DEF TaskReceive, TaskReceiveLost, CtlReceive, NetTypeOK
  <2>2. (qrmTasks \subseteq TaskMessages)'
    <3>1. CASE TaskSend
      <4>1. taskJob \in DirectJobs
        BY <3>1 DEF TaskSend, HandsFull, TaskTypeOK
      <4>2. OutboundTask(taskId, taskJob) \in TaskMessages
        BY <4>1 DEF OutboundTask, TaskMessages, Jobs, TaskTypeOK
      <4> QED BY <3>1, <4>2 DEF TaskSend, NetTypeOK
    <3>2. CASE CtlSend
      <4>1. ctlJob \in ControlJobs
        BY <3>2 DEF CtlSend, HandsFull, CtlTypeOK
      <4>2. OutboundTask(ctlId, ctlJob) \in TaskMessages
        BY <4>1 DEF OutboundTask, TaskMessages, Jobs, CtlTypeOK
      <4> QED BY <3>2, <4>2 DEF CtlSend, NetTypeOK
    <3>3. CASE UNCHANGED qrmTasks
      BY <3>3 DEF NetTypeOK
    <3> QED BY <3>1, <3>2, <3>3, Frames
  <2>3. (resultQ \subseteq ResultMessages /\ copies \in [Jobs -> 0 .. MaxCopies])'
    <3>1. ASSUME NEW task \in qrmTasks, NEW ok \in BOOLEAN, QrmAnswer(task, ok)
          PROVE (resultQ \subseteq ResultMessages /\ copies \in [Jobs -> 0 .. MaxCopies])'
      <4>1. task.id \in WireIds /\ task.job \in Jobs
        BY DEF NetTypeOK, TaskMessages
      <4>2. copies[task.job] \in 0 .. MaxCopies /\ copies[task.job] < MaxCopies
        BY <3>1, <4>1 DEF QrmAnswer, NetTypeOK
      <4>3. [id |-> task.id, job |-> task.job, ok |-> ok, copy |-> copies[task.job] + 1]
              \in ResultMessages
        BY <4>1, <4>2, QOffloadAssumption DEF ResultMessages
      <4> QED BY <3>1, <4>1, <4>2, <4>3, QOffloadAssumption DEF QrmAnswer, NetTypeOK
    <3>2. ASSUME NEW msg \in resultQ, ResReceive(msg) \/ ResReceiveLost(msg)
          PROVE (resultQ \subseteq ResultMessages /\ copies \in [Jobs -> 0 .. MaxCopies])'
      BY <3>2 DEF ResReceive, ResReceiveLost, NetTypeOK
    <3> QED BY <3>1, <3>2, Frames DEF NetTypeOK
  <2>4. (clientQ \subseteq [job : Jobs, id : WireIds, dest : Destinations \cup {NoDest}])'
    <3>1. CASE ResDeliver
      <4>1. resMsg \in ResultMessages /\ resTask \in PendingTasks
        BY <3>1 DEF ResDeliver, HandsFull, ResTypeOK
      <4>2. RestoredResult(resMsg, resTask)
              \in [job : Jobs, id : WireIds, dest : Destinations \cup {NoDest}]
        <5>1. /\ resMsg.job \in Jobs /\ resTask.original \in Ids
              /\ resTask.dest \in Destinations \cup {NoDest}
          BY <4>1 DEF ResultMessages, PendingTasks
        <5>2. \A x \in Ids : ToInt32(x) \in WireIds
          OBVIOUS
        <5>3. ToInt32(resTask.original) \in WireIds
          BY <5>1, <5>2, Zenon
        <5> QED BY <5>1, <5>3 DEF RestoredResult
      <4> QED BY <3>1, <4>2 DEF ResDeliver, NetTypeOK
    <3>2. CASE UNCHANGED clientQ
      BY <3>2 DEF NetTypeOK
    <3> QED BY <3>1, <3>2, Frames
  <2> QED BY <2>1, <2>2, <2>3, <2>4 DEF NetTypeOK
<1>7. HistTypeOK'
  <2>1. (DOMAIN jobOf \subseteq Ids /\ \A id \in DOMAIN jobOf : jobOf[id] \in Jobs)'
    <3>1. CASE TaskRegister
      BY <3>1 DEF TaskRegister, InsertOrAssign, HistTypeOK, HandsFull, TaskTypeOK, Jobs
    <3>2. CASE CtlRegister
      BY <3>2 DEF CtlRegister, InsertOrAssign, HistTypeOK, HandsFull, CtlTypeOK, Jobs
    <3>3. CASE UNCHANGED jobOf
      BY <3>3 DEF HistTypeOK
    <3> QED BY <3>1, <3>2, <3>3, Frames
  <2>2. (deliveries \in [DirectJobs -> Nat])'
    BY Frames DEF ResDeliver, HistTypeOK
  <2>3. (fetched \in [ControlJobs -> Nat])'
    BY Frames DEF CtlRespond, HistTypeOK
  <2>4. (dropped \subseteq Jobs)'
    <3>1. CASE TaskSend
      BY <3>1 DEF TaskSend, HandsFull, TaskTypeOK, HistTypeOK, Jobs
    <3>2. CASE CtlSend
      BY <3>2 DEF CtlSend, HandsFull, CtlTypeOK, HistTypeOK, Jobs
    <3>3. CASE CtlTake
      BY <3>3 DEF CtlTake, Discarded, StoreTypeOK, CompletedTasks, HistTypeOK
    <3>4. CASE CtlRespond
      BY <3>4 DEF CtlRespond, CtlTypeOK, Replies, HistTypeOK
    <3>5. CASE ResDeliver
      BY <3>5 DEF ResDeliver, HandsFull, ResTypeOK, ResultMessages, HistTypeOK
    <3>6. CASE \E j \in DirectJobs : TaskReceiveLost(j)
      BY <3>6 DEF TaskReceiveLost, HistTypeOK, Jobs
    <3>7. CASE \E msg \in resultQ : ResReceiveLost(msg)
      BY <3>7 DEF ResReceiveLost, NetTypeOK, ResultMessages, HistTypeOK
    <3>8. CASE Joined \/ Crash
      <4>1. InHand \ {NoJob} \subseteq Jobs
        BY DEF InHand, TaskTypeOK, CtlTypeOK, ResTypeOK, Jobs, Replies, ResultMessages,
           IdleMessage
      <4>2. {jobOf[id] : id \in DOMAIN pending} \subseteq Jobs
        BY DEF HandsFull, HistTypeOK
      <4>3. {completed[id].job : id \in DOMAIN completed} \subseteq Jobs
        BY DEF StoreTypeOK, CompletedTasks
      <4> QED BY <3>8, <4>1, <4>2, <4>3 DEF Joined, Crash, ForgetStore, HistTypeOK
    <3> QED BY <3>1, <3>2, <3>3, <3>4, <3>5, <3>6, <3>7, <3>8, Frames DEF HistTypeOK
  <2> QED BY <2>1, <2>2, <2>3, <2>4 DEF HistTypeOK
<1>8. HandsFull'
  <2>1. (taskPc \in {"number", "register", "send"} => taskJob # NoJob)'
    BY <1>0, Frames DEF HandsFull, TaskLoop, LoopHead, TaskNumber, TaskRegister, TaskSend,
       TaskReceiveNothing, TaskReceive, TaskReceiveLost, Crash, Restart, taskVars, Jobs
  <2>2. (ctlPc \in {"number", "register", "send"} => ctlJob # NoJob)'
    BY <1>0, Frames DEF HandsFull, NetTypeOK, CtlLoop, LoopHead, CtlNumber, CtlRegister,
       CtlSend, CtlHandle, CtlTake, CtlRespond, CtlReceiveNothing, CtlReceive, Crash,
       Restart, ctlVars, Jobs
  <2>3. (ctlPc = "handle" => ctlReq.cmd # "create")'
    BY Frames DEF HandsFull, CtlLoop, LoopHead, CtlNumber, CtlRegister, CtlSend, CtlHandle,
       CtlTake, CtlRespond, CtlReceiveNothing, CtlReceive, Crash, Restart, ctlVars
  <2>4. (resPc \in {"correlate", "store", "deliver"} => resMsg # IdleMessage)'
    BY <1>0, Frames DEF HandsFull, NetTypeOK, ResLoop, LoopHead, ResCorrelate, ResStore,
       ResDeliver, ResReceiveNothing, ResReceive, ResReceiveLost, Crash, Restart, resVars,
       ResultMessages, IdleMessage
  <2>5. (DOMAIN pending \subseteq DOMAIN jobOf)'
    <3>1. CASE TaskRegister
      BY <3>1 DEF TaskRegister, RegisterDirect, AddDirectTask, InsertOrAssign, HandsFull
    <3>2. CASE CtlRegister
      BY <3>2 DEF CtlRegister, RegisterControl, AddControlTask, AddDirectTask,
         InsertOrAssign, HandsFull
    <3>3. CASE ResCorrelate
      BY <3>3 DEF ResCorrelate, TakePending, Erase, storeVars, histVars, HandsFull
    <3>4. CASE Joined \/ Crash
      BY <3>4 DEF Joined, Crash, ForgetStore, EmptyMap
    <3>5. CASE UNCHANGED <<pending, jobOf>>
      BY <3>5 DEF HandsFull
    <3> QED BY <3>1, <3>2, <3>3, <3>4, <3>5, Frames
  <2> QED BY <2>1, <2>2, <2>3, <2>4, <2>5 DEF HandsFull
<1> QED BY <1>1, <1>2, <1>3, <1>4, <1>5, <1>6, <1>7, <1>8

(* Every variable of the service keeps its type, whatever the widths of    *)
(* the identifiers and however often the process crashes.                  *)
THEOREM TypeCorrect == Spec => []TypeOK
<1>1. TypeOK /\ HandsFull /\ [Next]_vars => (TypeOK /\ HandsFull)'
  BY NextTypeOK
<1> QED BY InitTypeOK, <1>1, PTL DEF Spec
-----------------------------------------------------------------------------
(* Identifiers. *)

(* No identifier is taken back, not even by a restart. *)
LEMMA IssuedGrows == ASSUME TypeOK, [Next]_vars PROVE Issued \subseteq Issued'
<1>1. \/ incarnation' = incarnation /\ nextTaskIndex' \in {nextTaskIndex, nextTaskIndex + 1}
      \/ incarnation' = incarnation + 1
  BY Frames DEF TaskNumber, CtlNumber, NextTaskId, Restart, forwardVars
<1>2. nextTaskIndex \in Int /\ incarnation \in Int
  BY ForwardAssumption DEF TypeOK, StoreTypeOK, Incarnations
<1>3. Indices \subseteq Int /\ Incarnations \subseteq Int
  BY ForwardAssumption DEF Indices, Incarnations
<1> QED BY <1>1, <1>2, <1>3 DEF Issued

(* A new identifier has never been handed out before. *)
LEMMA NewId ==
  ASSUME IdsCorrelate, TypeOK, NEW id, NextTaskId(id), UNCHANGED incarnation
  PROVE id \in Issued' \ Issued
<1>1. /\ nextTaskIndex \in Indices /\ nextTaskIndex \in Nat /\ incarnation \in Incarnations
      /\ id = TaskId(incarnation, nextTaskIndex)
      /\ nextTaskIndex' = nextTaskIndex + 1 /\ nextTaskIndex < nextTaskIndex'
  BY ForwardAssumption DEF NextTaskId, TypeOK, StoreTypeOK, Indices
<1>2. id \in Ids
  BY <1>1, IdTypes
<1>3. id \in Issued'
  BY <1>1, <1>2 DEF Issued
<1>4. ASSUME NEW n \in Incarnations, NEW i \in Indices, id = TaskId(n, i),
             n < incarnation \/ (n = incarnation /\ i < nextTaskIndex)
      PROVE FALSE
  <2>1. n = incarnation /\ i = nextTaskIndex
    <3>1. TaskId(n, i) = TaskId(incarnation, nextTaskIndex)
      BY <1>1, <1>4
    <3>2. incarnation \in Incarnations /\ nextTaskIndex \in Indices
      BY <1>1
    <3> QED BY <3>1, <3>2 DEF IdsCorrelate, IdsDistinct
  <2>2. incarnation \in Int /\ nextTaskIndex \in Int
    BY <1>1, ForwardAssumption DEF Incarnations
  <2> QED BY <1>4, <2>1, <2>2
<1> QED BY <1>3, <1>4 DEF Issued

(* Registering an identifier in hand changes nothing about the others. *)
LEMMA JobOfSteps ==
  ASSUME Inv, [Next]_vars
  PROVE \/ /\ TaskRegister
           /\ DOMAIN jobOf' = DOMAIN jobOf \cup {taskId} /\ jobOf'[taskId] = taskJob
           /\ \A id \in DOMAIN jobOf : jobOf'[id] = jobOf[id]
           /\ taskId \in Issued \ DOMAIN jobOf /\ taskJob \in DirectJobs \ requestQ
           /\ ~Registered(taskJob) /\ UNCHANGED <<requestQ, freshJobs>>
        \/ /\ CtlRegister
           /\ DOMAIN jobOf' = DOMAIN jobOf \cup {ctlId} /\ jobOf'[ctlId] = ctlJob
           /\ \A id \in DOMAIN jobOf : jobOf'[id] = jobOf[id]
           /\ ctlId \in Issued \ DOMAIN jobOf /\ ctlJob \in ControlJobs \ freshJobs
           /\ ~Registered(ctlJob) /\ UNCHANGED <<requestQ, freshJobs>>
        \/ UNCHANGED jobOf
<1>1. CASE TaskRegister
  <2>1. /\ taskId \in Issued \ DOMAIN jobOf /\ taskJob \in DirectJobs \ requestQ
        /\ ~Registered(taskJob)
    BY <1>1 DEF TaskRegister, Inv, TaskNumbering
  <2> QED BY <1>1, <2>1 DEF TaskRegister, InsertOrAssign, netVars
<1>2. CASE CtlRegister
  <2>1. /\ ctlId \in Issued \ DOMAIN jobOf /\ ctlJob \in ControlJobs \ freshJobs
        /\ ~Registered(ctlJob)
    BY <1>2 DEF CtlRegister, Inv, CtlNumbering
  <2> QED BY <1>2, <2>1 DEF CtlRegister, InsertOrAssign, netVars
<1> QED BY <1>1, <1>2, Frames

(* Identifiers and jobs stay in one-to-one correspondence. *)
LEMMA NextNumberedOnce == ASSUME Inv, [Next]_vars PROVE NumberedOnce'
<1>1. TypeOK /\ NumberedOnce /\ Issued \subseteq Issued'
  BY IssuedGrows DEF Inv
<1>2. /\ requestQ' \subseteq requestQ /\ freshJobs' \subseteq freshJobs
      /\ requestQ \subseteq DirectJobs /\ freshJobs \subseteq ControlJobs
      /\ DirectJobs \cap ControlJobs = {}
  BY <1>1, Frames, StoreAssumption DEF TaskReceive, TaskReceiveLost, CtlReceive, TypeOK,
     NetTypeOK
<1>3. (DOMAIN jobOf \subseteq Issued)'
  BY <1>1, JobOfSteps DEF NumberedOnce
<1>4. (\A a, b \in DOMAIN jobOf : jobOf[a] = jobOf[b] => a = b)'
  BY <1>1, JobOfSteps DEF NumberedOnce, Registered
<1>5. (\A j \in requestQ \cup freshJobs : ~Registered(j))'
  BY <1>1, <1>2, JobOfSteps DEF NumberedOnce, Registered
<1> QED BY <1>3, <1>4, <1>5 DEF NumberedOnce

(* What the task worker has numbered or registered is its own. *)
LEMMA NextTaskNumbering == ASSUME IdsCorrelate, Inv, [Next]_vars PROVE TaskNumbering'
<1>1. /\ TypeOK /\ NumberedOnce /\ TaskNumbering /\ CtlNumbering
      /\ Issued \subseteq Issued'
  BY IssuedGrows DEF Inv
<1>2. DirectJobs \cap ControlJobs = {}
  BY StoreAssumption
<1>3. CASE UNCHANGED taskVars
  <2>1. requestQ' \subseteq requestQ \/ taskPc = "receive"
    BY Frames DEF TaskReceive, TaskReceiveLost
  <2>2. CASE CtlRegister
    <3>1. /\ DOMAIN jobOf' = DOMAIN jobOf \cup {ctlId} /\ jobOf'[ctlId] = ctlJob
          /\ \A id \in DOMAIN jobOf : jobOf'[id] = jobOf[id]
          /\ ctlJob \in ControlJobs /\ requestQ' = requestQ /\ ctlPc = "register"
      BY <2>2, <1>1 DEF CtlRegister, InsertOrAssign, netVars, CtlNumbering
    <3> QED BY <1>1, <1>2, <1>3, <3>1 DEF taskVars, TaskNumbering, CtlNumbering, Registered
  <2>3. CASE UNCHANGED jobOf
    BY <1>1, <1>3, <2>1, <2>3, Frames DEF taskVars, TaskNumbering, Registered,
       TaskReceive, TaskReceiveLost
  <2>4. CASE TaskRegister
    BY <1>3, <2>4 DEF TaskRegister, taskVars
  <2> QED BY <2>2, <2>3, <2>4, Frames
<1>4. CASE TaskNumber
  <2>1. taskId' \in Issued' \ Issued
    BY <1>1, <1>4, NewId DEF TaskNumber
  <2> QED BY <1>1, <1>4, <2>1 DEF TaskNumber, TaskNumbering, NumberedOnce, netVars, histVars,
             Registered
<1>5. CASE TaskRegister
  BY <1>1, <1>5 DEF TaskRegister, InsertOrAssign, netVars, TaskNumbering
<1>6. CASE \E j \in DirectJobs : TaskReceive(j) \/ TaskReceiveLost(j)
  BY <1>1, <1>6 DEF TaskReceive, TaskReceiveLost, TaskNumbering, NumberedOnce, Registered,
     histVars
<1>7. CASE TaskLoop \/ TaskSend \/ TaskReceiveNothing \/ Crash \/ Restart
  BY <1>7 DEF TaskLoop, LoopHead, TaskSend, TaskReceiveNothing, Crash, Restart, TaskNumbering
<1> QED BY <1>3, <1>4, <1>5, <1>6, <1>7, Frames

(* The same for the control worker, and the two never share an identifier. *)
LEMMA NextCtlNumbering == ASSUME IdsCorrelate, Inv, [Next]_vars PROVE CtlNumbering'
<1>1. /\ TypeOK /\ NumberedOnce /\ TaskNumbering /\ CtlNumbering
      /\ Issued \subseteq Issued'
  BY IssuedGrows DEF Inv
<1>2. DirectJobs \cap ControlJobs = {}
  BY StoreAssumption
<1> DEFINE Own ==
      /\ ctlPc \in {"number", "register", "send"} => ctlJob \in ControlJobs \ freshJobs
      /\ ctlPc \in {"number", "register"} => ~Registered(ctlJob)
      /\ ctlPc = "register" => ctlId \in Issued \ DOMAIN jobOf
      /\ ctlPc = "send" => ctlId \in DOMAIN jobOf /\ jobOf[ctlId] = ctlJob
<1>3. Own'
  <2>1. CASE UNCHANGED ctlVars
    <3>1. UNCHANGED freshJobs \/ ctlPc = "receive"
      BY Frames DEF CtlReceive
    <3>2. CASE TaskRegister
      <4>1. /\ DOMAIN jobOf' = DOMAIN jobOf \cup {taskId} /\ jobOf'[taskId] = taskJob
            /\ \A id \in DOMAIN jobOf : jobOf'[id] = jobOf[id]
            /\ taskJob \in DirectJobs /\ freshJobs' = freshJobs /\ taskPc = "register"
        BY <3>2, <1>1 DEF TaskRegister, InsertOrAssign, netVars, TaskNumbering
      <4> QED BY <1>1, <1>2, <2>1, <4>1 DEF ctlVars, CtlNumbering, Registered
    <3>3. CASE UNCHANGED jobOf
      BY <1>1, <2>1, <3>1, <3>3, Frames DEF ctlVars, CtlNumbering, Registered, CtlReceive
    <3>4. CASE CtlRegister
      BY <2>1, <3>4 DEF CtlRegister, ctlVars
    <3> QED BY <3>2, <3>3, <3>4, Frames
  <2>2. CASE CtlNumber
    <3>1. ctlId' \in Issued' \ Issued
      BY <1>1, <2>2, NewId DEF CtlNumber
    <3> QED BY <1>1, <2>2, <3>1 DEF CtlNumber, CtlNumbering, NumberedOnce, netVars, histVars,
               Registered
  <2>3. CASE CtlRegister
    BY <1>1, <2>3 DEF CtlRegister, InsertOrAssign, netVars, CtlNumbering
  <2>4. CASE \E req \in Requests : CtlReceive(req)
    BY <1>1, <2>4 DEF CtlReceive, CtlNumbering, NumberedOnce, Registered, histVars, TypeOK,
       NetTypeOK
  <2>5. CASE CtlLoop \/ CtlSend \/ CtlHandle \/ CtlTake \/ CtlRespond \/ CtlReceiveNothing
               \/ Crash \/ Restart
    BY <2>5 DEF CtlLoop, LoopHead, CtlSend, CtlHandle, CtlTake, CtlRespond,
       CtlReceiveNothing, Crash, Restart
  <2> HIDE DEF Own
  <2> QED BY <2>1, <2>2, <2>3, <2>4, <2>5, Frames
<1>4. (taskPc = "register" /\ ctlPc = "register" => taskId # ctlId)'
  <2>1. CASE TaskNumber
    <3>1. taskId' \in Issued' \ Issued
      BY <1>1, <2>1, NewId DEF TaskNumber
    <3> QED BY <1>1, <2>1, <3>1 DEF TaskNumber, ctlVars, CtlNumbering
  <2>2. CASE CtlNumber
    <3>1. ctlId' \in Issued' \ Issued
      BY <1>1, <2>2, NewId DEF CtlNumber
    <3> QED BY <1>1, <2>2, <3>1 DEF CtlNumber, taskVars, TaskNumbering
  <2>3. CASE ~TaskNumber /\ ~CtlNumber
    BY <1>1, <2>3, Frames DEF taskVars, ctlVars, CtlNumbering, TaskLoop, LoopHead,
       TaskRegister, TaskSend, TaskReceiveNothing, TaskReceive, TaskReceiveLost, CtlLoop,
       CtlRegister, CtlSend, CtlHandle, CtlTake, CtlRespond, CtlReceiveNothing, CtlReceive,
       Crash, Restart
  <2> QED BY <2>1, <2>2, <2>3
<1> QED BY <1>3, <1>4 DEF CtlNumbering
-----------------------------------------------------------------------------
(* Routing. *)

(* An identifier in use keeps its job. *)
LEMMA JobOfStable ==
  ASSUME Inv, [Next]_vars
  PROVE \A id \in DOMAIN jobOf : id \in DOMAIN jobOf' /\ jobOf'[id] = jobOf[id]
BY JobOfSteps

(* QRM answers a task under an identifier that finds its pending entry. *)
LEMMA OutboundKey ==
  ASSUME IdsCorrelate, NEW id \in Issued, NEW j
  PROVE ResultKey(OutboundTask(id, j)) = id /\ OutboundTask(id, j).job = j
<1>1. PICK n \in Incarnations, i \in Indices : id = TaskId(n, i)
  BY DEF Issued
<1>2. ToUint64(ToInt32(id)) = id
  BY <1>1 DEF IdsCorrelate, IdsSurvive
<1> QED BY <1>2 DEF ResultKey, OutboundTask

(* Entries and messages keep the job they belong to. *)
LEMMA NextRouting == ASSUME IdsCorrelate, Inv, HandsFull, [Next]_vars PROVE Routing'
<1>1. /\ TypeOK /\ NumberedOnce /\ TaskNumbering /\ CtlNumbering /\ Routing
      /\ DirectJobs \cap ControlJobs = {}
  BY StoreAssumption DEF Inv
<1>2. \A id \in DOMAIN jobOf : id \in DOMAIN jobOf' /\ jobOf'[id] = jobOf[id]
  BY JobOfStable
<1>3. \A m : Owned(m) => ResultKey(m) \in DOMAIN jobOf' /\ jobOf'[ResultKey(m)] = m.job
  BY <1>2 DEF Owned
<1>4. (\A id \in DOMAIN pending : id \in DOMAIN jobOf /\ pending[id] = Entry(id, jobOf[id]))'
  <2>1. \A id \in DOMAIN pending : id \in DOMAIN jobOf /\ pending[id] = Entry(id, jobOf[id])
    BY <1>1 DEF Routing
  <2>2. CASE TaskRegister
    <3>1. taskJob \in DirectJobs /\ jobOf' = InsertOrAssign(jobOf, taskId, taskJob)
      BY <1>1, <2>2 DEF TaskRegister, TaskNumbering
    <3>2. pending' = InsertOrAssign(pending, taskId, Entry(taskId, taskJob))
      BY <2>2, <3>1 DEF TaskRegister, RegisterDirect, AddDirectTask, Entry
    <3> QED BY <1>2, <2>1, <3>1, <3>2 DEF InsertOrAssign
  <2>3. CASE CtlRegister
    <3>1. ctlJob \notin DirectJobs /\ jobOf' = InsertOrAssign(jobOf, ctlId, ctlJob)
      BY <1>1, <2>3 DEF CtlRegister, CtlNumbering
    <3>2. pending' = InsertOrAssign(pending, ctlId, Entry(ctlId, ctlJob))
      BY <2>3, <3>1 DEF CtlRegister, RegisterControl, AddControlTask, AddDirectTask, Entry
    <3> QED BY <1>2, <2>1, <3>1, <3>2 DEF InsertOrAssign
  <2>4. CASE ResCorrelate
    BY <1>2, <2>1, <2>4 DEF ResCorrelate, TakePending, Erase, storeVars
  <2>5. CASE Joined \/ Crash
    BY <2>5 DEF Joined, Crash, ForgetStore, EmptyMap
  <2>6. CASE UNCHANGED pending
    BY <1>2, <2>1, <2>6
  <2> QED BY <2>2, <2>3, <2>4, <2>5, <2>6, Frames
<1>5. (\A m \in qrmTasks \cup resultQ : Owned(m))'
  <2>0. SUFFICES ASSUME NEW m \in (qrmTasks \cup resultQ)'
                 PROVE ResultKey(m) \in DOMAIN jobOf' /\ jobOf'[ResultKey(m)] = m.job
    BY DEF Owned, ResultKey
  <2>1. CASE m \in qrmTasks \cup resultQ
    BY <1>1, <1>3, <2>1 DEF Routing
  <2>2. CASE m \in qrmTasks' \ qrmTasks
    <3>1. CASE TaskSend
      <4>1. /\ m = OutboundTask(taskId, taskJob) /\ taskId \in Issued
            /\ taskId \in DOMAIN jobOf /\ jobOf[taskId] = taskJob
        BY <1>1, <2>2, <3>1 DEF TaskSend, TaskNumbering, NumberedOnce
      <4> QED BY <4>1, <1>2, OutboundKey
    <3>2. CASE CtlSend
      <4>1. /\ m = OutboundTask(ctlId, ctlJob) /\ ctlId \in Issued
            /\ ctlId \in DOMAIN jobOf /\ jobOf[ctlId] = ctlJob
        BY <1>1, <2>2, <3>2 DEF CtlSend, CtlNumbering, NumberedOnce
      <4> QED BY <4>1, <1>2, OutboundKey
    <3> QED BY <2>2, <3>1, <3>2, Frames
  <2>3. CASE m \in resultQ' \ resultQ
    <3>1. ASSUME NEW task \in qrmTasks, NEW ok \in BOOLEAN, QrmAnswer(task, ok)
          PROVE ResultKey(m) \in DOMAIN jobOf' /\ jobOf'[ResultKey(m)] = m.job
      <4>1. m.id = task.id /\ m.job = task.job
        BY <2>3, <3>1 DEF QrmAnswer
      <4>2. ResultKey(m) = ResultKey(task)
        BY <4>1 DEF ResultKey
      <4> QED BY <1>1, <1>3, <4>1, <4>2 DEF Routing
    <3> QED BY <2>3, <3>1, Frames DEF ResReceive, ResReceiveLost
  <2> QED BY <2>1, <2>2, <2>3
<1> DEFINE Held ==
      /\ resPc \in {"correlate", "store", "deliver"} => Owned(resMsg)
      /\ resPc \in {"store", "deliver"} =>
           /\ resTask = Entry(ResultKey(resMsg), resMsg.job)
           /\ ResultKey(resMsg) \notin DOMAIN pending
      /\ resPc = "deliver" => resMsg.job \in DirectJobs
      /\ resPc = "store" => resMsg.job \in ControlJobs
<1>6. Held'
  <2>1. Held
    BY <1>1 DEF Routing
  <2>2. CASE UNCHANGED resVars
    <3>1. UNCHANGED <<resPc, resMsg, resTask>> /\ UNCHANGED ResultKey(resMsg)
      BY <2>2 DEF resVars, ResultKey
    <3>2. Owned(resMsg) => Owned(resMsg)'
      BY <3>1, <1>3 DEF Owned
    <3>3. ASSUME ResultKey(resMsg) \notin DOMAIN pending, Owned(resMsg), resPc # "correlate"
          PROVE ResultKey(resMsg) \notin DOMAIN pending'
      <4>1. CASE TaskRegister
        BY <4>1, <3>3, <1>1 DEF TaskRegister, RegisterDirect, AddDirectTask, InsertOrAssign,
           TaskNumbering, Owned
      <4>2. CASE CtlRegister
        BY <4>2, <3>3, <1>1 DEF CtlRegister, RegisterControl, AddControlTask, AddDirectTask,
           InsertOrAssign, CtlNumbering, Owned
      <4>3. CASE Joined \/ Crash
        BY <4>3 DEF Joined, Crash, ForgetStore, EmptyMap
      <4> QED BY <3>3, <4>1, <4>2, <4>3, Frames DEF ResCorrelate
    <3>4. UNCHANGED Entry(ResultKey(resMsg), resMsg.job)
      BY <3>1 DEF Entry
    <3> QED BY <2>1, <3>1, <3>2, <3>3, <3>4
  <2>3. CASE ResCorrelate
    <3>1. CASE resPc' = "head"
      BY <3>1
    <3>2. CASE resPc' # "head"
      <4> DEFINE id == ResultKey(resMsg)
      <4>1. /\ id \in DOMAIN pending /\ pending' = Erase(pending, id)
            /\ resTask' = pending[id] /\ UNCHANGED <<resMsg, jobOf>>
            /\ resPc' = IF pending[id].kind = "control" THEN "store" ELSE "deliver"
            /\ resPc = "correlate"
        BY <2>3, <3>2 DEF ResCorrelate, TakePending, histVars
      <4>2. Owned(resMsg) /\ pending[id] = Entry(id, resMsg.job)
        BY <1>1, <4>1 DEF Routing, Owned
      <4>3. UNCHANGED id /\ UNCHANGED Entry(id, resMsg.job) /\ UNCHANGED Owned(resMsg)
        BY <4>1 DEF Entry, ResultKey, Owned
      <4>4. id \notin DOMAIN pending'
        BY <4>1 DEF Erase
      <4>5. resMsg.job \in Jobs
        BY <1>1, <4>2 DEF Owned, TypeOK, HistTypeOK
      <4>6. /\ pending[id].kind = "control" => resMsg.job \in ControlJobs
            /\ pending[id].kind # "control" => resMsg.job \in DirectJobs
        BY <4>2, <4>5 DEF Entry, Jobs
      <4> HIDE DEF id
      <4> QED BY <4>1, <4>2, <4>3, <4>4, <4>6 DEF id
    <3> QED BY <3>1, <3>2
  <2>4. CASE \E msg \in resultQ : ResReceive(msg) \/ ResReceiveLost(msg)
    BY <1>1, <2>4 DEF ResReceive, ResReceiveLost, Routing, Owned, ResultKey, histVars
  <2>5. CASE ResLoop \/ ResReceiveNothing \/ ResStore \/ ResDeliver \/ Crash \/ Restart
    BY <2>5 DEF ResLoop, LoopHead, ResReceiveNothing, ResStore, ResDeliver, Crash, Restart
  <2> HIDE DEF Held
  <2> QED BY <2>2, <2>3, <2>4, <2>5, Frames
<1> QED BY <1>4, <1>5, <1>6 DEF Routing
-----------------------------------------------------------------------------
(* Completed control tasks. *)

(* Identifiers not pending yet become pending only as new identifiers. *)
LEMMA PendingGrowth ==
  ASSUME Inv, [Next]_vars
  PROVE \A id \in DOMAIN jobOf : id \in DOMAIN pending' => id \in DOMAIN pending
<1>1. TaskNumbering /\ CtlNumbering
  BY DEF Inv
<1>2. CASE TaskRegister
  BY <1>1, <1>2 DEF TaskRegister, RegisterDirect, AddDirectTask, InsertOrAssign, TaskNumbering
<1>3. CASE CtlRegister
  BY <1>1, <1>3 DEF CtlRegister, RegisterControl, AddControlTask, AddDirectTask,
     InsertOrAssign, CtlNumbering
<1>4. CASE ResCorrelate
  BY <1>4 DEF ResCorrelate, TakePending, Erase, storeVars
<1>5. CASE Joined \/ Crash
  BY <1>5 DEF Joined, Crash, ForgetStore, EmptyMap
<1> QED BY <1>2, <1>3, <1>4, <1>5, Frames

(* A result is stored under the identifier its task is registered under. *)
LEMMA CompletedSteps ==
  ASSUME Inv, [Next]_vars
  PROVE \/ /\ ResStore /\ resPc = "store"
           /\ completed' = InsertOrAssign(completed, ResultKey(resMsg),
                                          [job |-> resMsg.job, ok |-> resMsg.ok])
           /\ Owned(resMsg) /\ resMsg.job \in ControlJobs
           /\ ResultKey(resMsg) \notin DOMAIN pending
           /\ UNCHANGED <<jobOf, pending>>
        \/ /\ DOMAIN completed' \subseteq DOMAIN completed
           /\ \A id \in DOMAIN completed' : completed'[id] = completed[id]
<1>1. CASE ResStore
  <2>1. /\ resPc = "store" /\ Owned(resMsg) /\ resMsg.job \in ControlJobs
        /\ ResultKey(resMsg) \notin DOMAIN pending
        /\ resTask = Entry(ResultKey(resMsg), resMsg.job)
    BY <1>1 DEF ResStore, Inv, Routing
  <2>2. resTask.original = ResultKey(resMsg)
    BY <2>1, StoreAssumption DEF Entry
  <2> QED BY <1>1, <2>1, <2>2 DEF ResStore, StoreCompletedControlTask, histVars
<1>2. CASE CtlTake
  BY <1>2 DEF CtlTake, TakeCompletedControlTask, Erase
<1>3. CASE Joined \/ Crash
  BY <1>3 DEF Joined, Crash, ForgetStore, EmptyMap
<1>4. CASE UNCHANGED completed
  BY <1>4
<1> QED BY <1>1, <1>2, <1>3, <1>4, Frames

(* The replies that can carry a result. *)
LEMMA ReplyShapes ==
  ASSUME Inv, HandsFull
  PROVE /\ NoReply.kind # "result" /\ NoReply.job = NoJob
        /\ Error("JOB IS WAITING").kind # "result" /\ Error("JOB IS WAITING").job = NoJob
        /\ \A id : Created(id).kind # "result" /\ Created(id).job = NoJob
        /\ ctlPc = "handle" /\ ctlReq.cmd \notin {"result", "cancel"} =>
             AnswerAtOnce(ctlReq).kind # "result" /\ AnswerAtOnce(ctlReq).job = NoJob
        /\ AnswerTaken(ctlReq).kind = "result" =>
             /\ ToUint64(ctlReq.id) \in DOMAIN completed
             /\ AnswerTaken(ctlReq).job = completed[ToUint64(ctlReq.id)].job
        /\ AnswerTaken(ctlReq).job # NoJob => AnswerTaken(ctlReq).kind = "result"
<1>1. ctlReq.cmd \in {"create", "list", "invalid", "status", "result", "cancel",
                     "resource", "pending"}
  BY RequestTypes DEF Inv, TypeOK, CtlTypeOK
<1>2. ASSUME ctlPc = "handle", ctlReq.cmd \notin {"result", "cancel"}
      PROVE AnswerAtOnce(ctlReq).kind # "result" /\ AnswerAtOnce(ctlReq).job = NoJob
  <2>1. ctlReq.cmd \in {"list", "invalid", "status", "resource", "pending"}
    BY <1>1, <1>2 DEF HandsFull
  <2> QED BY <2>1 DEF AnswerAtOnce, Reply, Error
<1>3. /\ AnswerTaken(ctlReq).kind = "result" =>
           /\ ToUint64(ctlReq.id) \in DOMAIN completed
           /\ AnswerTaken(ctlReq).job = completed[ToUint64(ctlReq.id)].job
      /\ AnswerTaken(ctlReq).job # NoJob => AnswerTaken(ctlReq).kind = "result"
  BY DEF AnswerTaken, Reply, Error
<1> QED BY <1>2, <1>3 DEF NoReply, Created, Reply, Error

(* A reply that carries a result was just taken from the store, or has not *)
(* changed.                                                                *)
LEMMA ReplySteps ==
  ASSUME Inv, HandsFull, [Next]_vars, ctlPc' = "respond"
  PROVE /\ (ctlResp.job # NoJob => ctlResp.kind = "result")'
        /\ ctlResp'.kind = "result" =>
             \/ UNCHANGED ctlVars
             \/ /\ CtlTake /\ UNCHANGED <<ctlReq, pending, jobOf, resVars>>
                /\ ToUint64(ctlReq.id) \in DOMAIN completed \ DOMAIN completed'
                /\ ctlResp'.job = completed[ToUint64(ctlReq.id)].job
<1>1. Completion
  BY DEF Inv
<1>2. CASE UNCHANGED ctlVars
  BY <1>1, <1>2 DEF ctlVars, Completion
<1>3. CASE CtlSend
  BY <1>3, ReplyShapes DEF CtlSend
<1>4. CASE CtlHandle
  BY <1>4, ReplyShapes DEF CtlHandle
<1>5. CASE CtlTake
  BY <1>5, ReplyShapes DEF CtlTake, TakeCompletedControlTask, Erase
<1> QED BY <1>2, <1>3, <1>4, <1>5, Frames DEF CtlLoop, LoopHead, CtlNumber, CtlRegister,
           CtlRespond, CtlReceiveNothing, CtlReceive, Crash, Restart

(* When the result worker starts to store, it has just taken the pending   *)
(* entry.                                                                  *)
LEMMA CorrelateSteps ==
  ASSUME Inv, [Next]_vars, resPc' \in {"store", "deliver"}
  PROVE \/ UNCHANGED resVars
        \/ /\ ResCorrelate /\ UNCHANGED <<resMsg, completed, jobOf, ctlVars>>
           /\ ResultKey(resMsg) \in DOMAIN pending
           /\ pending' = Erase(pending, ResultKey(resMsg))
           /\ Owned(resMsg)
<1>1. CASE ResCorrelate
  BY <1>1 DEF ResCorrelate, TakePending, histVars, Inv, Routing
<1> QED BY <1>1, Frames DEF ResLoop, LoopHead, ResStore, ResDeliver, ResReceiveNothing,
           ResReceive, ResReceiveLost, Crash, Restart

(* The store keeps each result under the identifier of its task, until it  *)
(* is taken out for good.                                                  *)
LEMMA NextCompletion == ASSUME Inv, HandsFull, [Next]_vars PROVE Completion'
<1>1. /\ TypeOK /\ NumberedOnce /\ Routing /\ Completion
      /\ \A id \in DOMAIN jobOf : id \in DOMAIN jobOf' /\ jobOf'[id] = jobOf[id]
      /\ \A id \in DOMAIN jobOf : id \in DOMAIN pending' => id \in DOMAIN pending
  BY JobOfStable, PendingGrowth DEF Inv
<1>2. (\A id \in DOMAIN completed :
         /\ id \in DOMAIN jobOf \ DOMAIN pending
         /\ completed[id].job = jobOf[id] /\ jobOf[id] \in ControlJobs)'
  <2>1. \A id \in DOMAIN completed :
          /\ id \in DOMAIN jobOf \ DOMAIN pending
          /\ completed[id].job = jobOf[id] /\ jobOf[id] \in ControlJobs
    BY <1>1 DEF Completion
  <2>2. CASE ResStore
    BY <1>1, <2>1, <2>2, CompletedSteps DEF InsertOrAssign, Owned
  <2>3. CASE ~ResStore
    BY <1>1, <2>1, <2>3, CompletedSteps
  <2> QED BY <2>2, <2>3
<1>3. (resPc = "store" => ResultKey(resMsg) \notin DOMAIN completed)'
  <2> SUFFICES ASSUME resPc' = "store"
               PROVE ResultKey(resMsg)' \notin DOMAIN completed'
    OBVIOUS
  <2>1. CASE UNCHANGED resVars
    <3>1. resPc = "store" /\ UNCHANGED ResultKey(resMsg)
      BY <2>1 DEF resVars, ResultKey
    <3>2. ~ResStore
      BY <3>1 DEF ResStore
    <3> QED BY <1>1, <3>1, <3>2, CompletedSteps DEF Completion
  <2>2. CASE ResCorrelate
    <3>1. /\ ResultKey(resMsg) \in DOMAIN pending /\ completed' = completed
          /\ UNCHANGED ResultKey(resMsg)
      BY <2>2 DEF ResCorrelate, TakePending, EndResult, ResultKey
    <3> QED BY <1>1, <3>1 DEF Completion
  <2> QED BY <2>1, <2>2, CorrelateSteps
<1>4. ASSUME ctlPc' = "respond", ctlResp'.kind = "result"
      PROVE (/\ ToUint64(ctlReq.id) \in DOMAIN jobOf \ (DOMAIN pending \cup DOMAIN completed)
             /\ jobOf[ToUint64(ctlReq.id)] = ctlResp.job /\ ctlResp.job \in ControlJobs
             /\ resPc = "store" => resMsg.job # ctlResp.job)'
  <2> DEFINE id == ToUint64(ctlReq.id)
  <2>1. CASE UNCHANGED ctlVars
    <3>1. /\ id \in DOMAIN jobOf \ (DOMAIN pending \cup DOMAIN completed)
          /\ jobOf[id] = ctlResp.job /\ ctlResp.job \in ControlJobs
          /\ resPc = "store" => resMsg.job # ctlResp.job
          /\ UNCHANGED id /\ UNCHANGED ctlResp
      BY <1>1, <1>4, <2>1 DEF Completion, ctlVars, ToUint64
    <3> HIDE DEF id
    <3>2. id \in DOMAIN jobOf' \ DOMAIN pending' /\ jobOf'[id] = ctlResp.job
      BY <1>1, <3>1
    <3>3. id \notin DOMAIN completed'
      BY <3>1, CompletedSteps DEF InsertOrAssign, Owned
    <3>4. resPc' = "store" => resMsg'.job # ctlResp.job
      <4>1. CASE UNCHANGED resVars
        BY <3>1, <4>1 DEF resVars
      <4>2. CASE /\ resMsg' = resMsg /\ ResultKey(resMsg) \in DOMAIN pending /\ Owned(resMsg)
        BY <1>1, <3>1, <4>2 DEF Owned, NumberedOnce
      <4> QED BY <4>1, <4>2, CorrelateSteps
    <3> QED BY <3>1, <3>2, <3>3, <3>4 DEF id
  <2>2. CASE /\ CtlTake /\ UNCHANGED <<ctlReq, pending, jobOf, resVars>>
             /\ id \in DOMAIN completed \ DOMAIN completed'
             /\ ctlResp'.job = completed[id].job
    <3>1. UNCHANGED id
      BY <2>2 DEF ToUint64
    <3> HIDE DEF id
    <3>2. /\ id \in DOMAIN jobOf \ DOMAIN pending /\ completed[id].job = jobOf[id]
          /\ jobOf[id] \in ControlJobs
      BY <1>1, <2>2 DEF Completion
    <3>3. resPc = "store" => resMsg.job # jobOf[id]
      <4>1. resPc = "store" => Owned(resMsg) /\ ResultKey(resMsg) \notin DOMAIN completed
        BY <1>1 DEF Routing, Completion
      <4> QED BY <4>1, <3>2, <2>2, <1>1 DEF Owned, NumberedOnce
    <3> QED BY <2>2, <3>1, <3>2, <3>3 DEF id, resVars
  <2> QED BY <1>4, <2>1, <2>2, ReplySteps
<1>5. (ctlPc = "respond" /\ ctlResp.job # NoJob => ctlResp.kind = "result")'
  BY ReplySteps
<1> QED BY <1>2, <1>3, <1>4, <1>5 DEF Completion
-----------------------------------------------------------------------------
(* At most one answer per job. *)

(* A job that has been answered stays answered and is not picked up again. *)
LEMMA NextOnce == ASSUME Inv, HandsFull, [Next]_vars PROVE Once'
<1>1. /\ TypeOK /\ NumberedOnce /\ Routing /\ Completion /\ Once
      /\ \A id \in DOMAIN jobOf : id \in DOMAIN jobOf' /\ jobOf'[id] = jobOf[id]
      /\ \A id \in DOMAIN jobOf : id \in DOMAIN pending' => id \in DOMAIN pending
      /\ DirectJobs \cap ControlJobs = {}
      /\ deliveries \in [DirectJobs -> Nat] /\ fetched \in [ControlJobs -> Nat]
  BY JobOfStable, PendingGrowth, StoreAssumption DEF Inv, TypeOK, HistTypeOK
<1>2. ASSUME NEW j \in DirectJobs
      PROVE (/\ deliveries[j] <= 1
             /\ deliveries[j] > 0 =>
                  /\ \E id \in DOMAIN jobOf : jobOf[id] = j /\ id \notin DOMAIN pending
                  /\ ~(resPc = "deliver" /\ resMsg.job = j))'
  <2>1. CASE ResDeliver /\ resMsg.job = j
    <3>1. /\ resPc = "deliver" /\ resPc' = "head"
          /\ deliveries'[j] \in {deliveries[j], deliveries[j] + 1}
      BY <2>1, <1>1 DEF ResDeliver
    <3>2. deliveries[j] = 0
      BY <1>1, <2>1, <3>1 DEF Once
    <3>3. /\ ResultKey(resMsg) \in DOMAIN jobOf /\ jobOf[ResultKey(resMsg)] = j
          /\ ResultKey(resMsg) \notin DOMAIN pending
      BY <1>1, <2>1, <3>1 DEF Routing, Owned
    <3> QED BY <1>1, <3>1, <3>2, <3>3
  <2>2. CASE ~(ResDeliver /\ resMsg.job = j)
    <3>1. deliveries'[j] = deliveries[j]
      BY <2>2, <1>1, Frames DEF ResDeliver
    <3>2. deliveries[j] <= 1
      BY <1>1 DEF Once
    <3>3. ASSUME deliveries[j] > 0
          PROVE /\ \E id \in DOMAIN jobOf' : jobOf'[id] = j /\ id \notin DOMAIN pending'
                /\ ~(resPc' = "deliver" /\ resMsg'.job = j)
      <4>1. PICK id \in DOMAIN jobOf : jobOf[id] = j /\ id \notin DOMAIN pending
        BY <1>1, <3>3 DEF Once
      <4>2. id \in DOMAIN jobOf' /\ jobOf'[id] = j /\ id \notin DOMAIN pending'
        BY <1>1, <4>1
      <4>3. ASSUME resPc' = "deliver", resMsg'.job = j PROVE FALSE
        <5>1. CASE UNCHANGED resVars
          BY <1>1, <3>3, <4>3, <5>1 DEF resVars, Once
        <5>2. CASE resMsg' = resMsg /\ ResultKey(resMsg) \in DOMAIN pending /\ Owned(resMsg)
          BY <1>1, <4>1, <4>3, <5>2 DEF Owned, NumberedOnce
        <5> QED BY <4>3, <5>1, <5>2, CorrelateSteps
      <4> QED BY <4>2, <4>3
    <3> QED BY <3>1, <3>2, <3>3
  <2> QED BY <2>1, <2>2
<1>3. ASSUME NEW j \in ControlJobs
      PROVE (/\ fetched[j] <= 1
             /\ fetched[j] > 0 =>
                  /\ \E id \in DOMAIN jobOf :
                       jobOf[id] = j /\ id \notin DOMAIN pending \cup DOMAIN completed
                  /\ ~(resPc = "store" /\ resMsg.job = j)
                  /\ ~(ctlPc = "respond" /\ ctlResp.job = j))'
  <2>0. NoJob # j
    BY ControlAssumption DEF Jobs
  <2>1. CASE CtlRespond /\ ctlResp.job = j
    <3>1. /\ ctlPc = "respond" /\ ctlPc' = "head"
          /\ fetched'[j] \in {fetched[j], fetched[j] + 1}
          /\ UNCHANGED <<pending, completed, jobOf, resPc, resMsg>>
      BY <2>1, <1>1 DEF CtlRespond, storeVars, resVars
    <3>2. fetched[j] = 0
      BY <1>1, <2>1, <3>1 DEF Once
    <3>3. ctlResp.kind = "result"
      BY <1>1, <2>0, <2>1, <3>1 DEF Completion
    <3>4. /\ ToUint64(ctlReq.id) \in DOMAIN jobOf \ (DOMAIN pending \cup DOMAIN completed)
          /\ jobOf[ToUint64(ctlReq.id)] = j
          /\ resPc = "store" => resMsg.job # j
      BY <1>1, <2>1, <3>1, <3>3 DEF Completion
    <3> QED BY <3>1, <3>2, <3>4
  <2>2. CASE ~(CtlRespond /\ ctlResp.job = j)
    <3>1. fetched'[j] = fetched[j]
      BY <2>2, <1>1, Frames DEF CtlRespond
    <3>2. fetched[j] <= 1
      BY <1>1 DEF Once
    <3>3. ASSUME fetched[j] > 0
          PROVE /\ \E id \in DOMAIN jobOf' :
                     jobOf'[id] = j /\ id \notin DOMAIN pending' \cup DOMAIN completed'
                /\ ~(resPc' = "store" /\ resMsg'.job = j)
                /\ ~(ctlPc' = "respond" /\ ctlResp'.job = j)
      <4>1. PICK id \in DOMAIN jobOf :
              jobOf[id] = j /\ id \notin DOMAIN pending \cup DOMAIN completed
        BY <1>1, <3>3 DEF Once
      <4>2. id \in DOMAIN jobOf' /\ jobOf'[id] = j /\ id \notin DOMAIN pending'
        BY <1>1, <4>1
      <4>3. id \notin DOMAIN completed'
        <5>1. ~(resPc = "store" /\ resMsg.job = j)
          BY <1>1, <3>3 DEF Once
        <5> QED BY <4>1, <5>1, CompletedSteps DEF InsertOrAssign, Owned
      <4>4. ASSUME resPc' = "store", resMsg'.job = j PROVE FALSE
        <5>1. CASE UNCHANGED resVars
          BY <1>1, <3>3, <4>4, <5>1 DEF resVars, Once
        <5>2. CASE resMsg' = resMsg /\ ResultKey(resMsg) \in DOMAIN pending /\ Owned(resMsg)
          BY <1>1, <4>1, <4>4, <5>2 DEF Owned, NumberedOnce
        <5> QED BY <4>4, <5>1, <5>2, CorrelateSteps
      <4>5. ASSUME ctlPc' = "respond", ctlResp'.job = j PROVE FALSE
        <5>1. ctlResp'.kind = "result"
          BY <2>0, <4>5, ReplySteps
        <5>2. CASE UNCHANGED ctlVars
          BY <1>1, <3>3, <4>5, <5>2 DEF ctlVars, Once
        <5>3. CASE /\ ToUint64(ctlReq.id) \in DOMAIN completed
                   /\ ctlResp'.job = completed[ToUint64(ctlReq.id)].job
          BY <1>1, <4>1, <4>5, <5>3 DEF Completion, NumberedOnce
        <5> QED BY <4>5, <5>1, <5>2, <5>3, ReplySteps
      <4> QED BY <4>2, <4>3, <4>4, <4>5
    <3> QED BY <3>1, <3>2, <3>3
  <2> QED BY <2>1, <2>2
<1> QED BY <1>2, <1>3 DEF Once
-----------------------------------------------------------------------------
(* What direct clients get, and the invariant. *)

(* A direct result goes to the queue and under the id its client chose. *)
LEMMA NextResultsReachTheirClient ==
  ASSUME Inv, [Next]_vars PROVE ResultsReachTheirClient'
<1>1. ResultsReachTheirClient /\ Routing
  BY DEF Inv
<1>2. CASE ResDeliver
  <2>1. /\ resMsg.job \in DirectJobs /\ resTask = Entry(ResultKey(resMsg), resMsg.job)
    BY <1>1, <1>2 DEF ResDeliver, Routing
  <2> DEFINE j == resMsg.job
             r == RestoredResult(resMsg, resTask)
  <2>2. Origin[j].id \in WireIds
    BY <2>1, ForwardAssumption
  <2>3. ToInt32(ToUint64(Origin[j].id)) = Origin[j].id
    BY <2>2, ClientIdKept, Zenon
  <2>4. r.job = j /\ r.id = Origin[j].id /\ r.dest = Origin[j].dest
    BY <2>1, <2>3 DEF RestoredResult, Entry
  <2>5. clientQ' \subseteq clientQ \cup {r}
    BY <1>2 DEF ResDeliver
  <2> HIDE DEF r
  <2> QED BY <1>1, <2>1, <2>4, <2>5 DEF ResultsReachTheirClient
<1>3. CASE UNCHANGED clientQ
  BY <1>1, <1>3 DEF ResultsReachTheirClient
<1> QED BY <1>2, <1>3, Frames

(* The first state satisfies the invariant. *)
LEMMA InitInv == Init => Inv
<1> SUFFICES ASSUME Init PROVE Inv
  OBVIOUS
<1>1. TypeOK
  BY InitTypeOK
<1>2. NumberedOnce /\ TaskNumbering /\ CtlNumbering
  BY DEF Init, EmptyMap, NumberedOnce, TaskNumbering, CtlNumbering, Registered
<1>3. Routing /\ Completion
  BY DEF Init, StoreInit, EmptyMap, Routing, Completion
<1>4. Once
  BY DEF Init, Once
<1>5. ResultsReachTheirClient
  BY DEF Init, ResultsReachTheirClient
<1> QED BY <1>1, <1>2, <1>3, <1>4, <1>5 DEF Inv

(* The invariant of the service is inductive when identifiers correlate. *)
THEOREM InvHolds == ASSUME IdsCorrelate PROVE Spec => []Inv
<1>1. Init => Inv /\ HandsFull
  BY InitInv, InitTypeOK
<1>2. Inv /\ HandsFull /\ [Next]_vars => (Inv /\ HandsFull)'
  <2> SUFFICES ASSUME Inv, HandsFull, [Next]_vars PROVE Inv' /\ HandsFull'
    OBVIOUS
  <2>1. TypeOK' /\ HandsFull'
    BY NextTypeOK DEF Inv
  <2> QED BY <2>1, NextNumberedOnce, NextTaskNumbering, NextCtlNumbering, NextRouting,
             NextCompletion, NextOnce, NextResultsReachTheirClient DEF Inv
<1> QED BY <1>1, <1>2, PTL DEF Spec

(* forwardDirectTask() and processResult(): a direct client only gets the  *)
(* result of its own job, under its own id and on its own queue, whatever  *)
(* the order, loss and repetition of results, and across restarts.         *)
THEOREM Correlation == ASSUME IdsCorrelate PROVE Spec => []ResultsReachTheirClient
<1>1. Inv => ResultsReachTheirClient
  BY DEF Inv
<1> QED BY <1>1, InvHolds, PTL

(* takePending(): a repeated result is not delivered to the direct client  *)
(* a second time.                                                          *)
THEOREM AtMostOneDelivery == ASSUME IdsCorrelate PROVE Spec => []DeliveredOnce
<1>1. Inv => DeliveredOnce
  BY DEF Inv, Once, DeliveredOnce
<1> QED BY <1>1, InvHolds, PTL

(* takeCompletedControlTask(): a control result is handed out only once.   *)
THEOREM AtMostOneFetch == ASSUME IdsCorrelate PROVE Spec => []FetchedOnce
<1>1. Inv => FetchedOnce
  BY DEF Inv, Once, FetchedOnce
<1> QED BY <1>1, InvHolds, PTL

(* GetTaskResult: the reply carries the result of the task asked about.    *)
THEOREM RepliesMatch == ASSUME IdsCorrelate PROVE Spec => []ReplyMatchesQuery
<1>1. Inv => ReplyMatchesQuery
  BY DEF Inv, Completion, ReplyMatchesQuery
<1> QED BY <1>1, InvHolds, PTL

(* takePending() and storeCompletedControlTask() are two critical          *)
(* sections; still no task is both pending and completed, and each result  *)
(* is kept under the identifier its client was told.                       *)
THEOREM Consistency == ASSUME IdsCorrelate PROVE Spec => []StoreConsistent
<1>1. Inv => StoreConsistent
  BY DEF Inv, Completion, StoreConsistent
<1> QED BY <1>1, InvHolds, PTL
-----------------------------------------------------------------------------
(* No job disappears between the workers, the store only keeps entries     *)
(* that can still be answered or whose job was lost, and a stored result   *)
(* is left alone, on the same condition.                                   *)

(* A task is sent once, and QRM answers what it was sent. *)
SentOnce ==
  /\ \A j \in Jobs : copies[j] > 0 => \E task \in qrmTasks : task.job = j
  /\ taskPc = "send" => \A task \in qrmTasks : task.job # taskJob
  /\ ctlPc = "send" => \A task \in qrmTasks : task.job # ctlJob

(* Nothing of a process is left when it is down. *)
Down ==
  main = "down" =>
    /\ taskPc = "exited" /\ ctlPc = "exited" /\ resPc = "exited"
    /\ DOMAIN pending = {} /\ DOMAIN completed = {}

(* Only two commands take a result out of the store. *)
TakeShape == ctlPc = "take" => ctlReq.cmd \in {"result", "cancel"}

(* The answer for the pending entry of job j under identifier id is on its *)
(* way.                                                                    *)
OnTheWay(id, j) ==
  \/ taskPc = "send" /\ taskJob = j
  \/ ctlPc = "send" /\ ctlJob = j
  \/ copies[j] = 0 /\ \E task \in qrmTasks : task.job = j /\ ResultKey(task) = id
  \/ \E msg \in resultQ : msg.job = j /\ ResultKey(msg) = id
  \/ resPc = "correlate" /\ resMsg.job = j /\ ResultKey(resMsg) = id

LEMMA TrackedDef ==
  \A j : Tracked(j) <=> \E id \in DOMAIN pending : jobOf[id] = j /\ OnTheWay(id, j)
BY DEF Tracked, OnTheWay

(* The inductive invariant. *)
AInv ==
  /\ Inv /\ HandsFull /\ SentOnce /\ Down /\ TakeShape
  /\ PendingOnlyLeaksLost /\ JobsAccounted
-----------------------------------------------------------------------------
(* Jobs that were lost stay lost. *)
LEMMA DroppedGrows == ASSUME [Next]_vars PROVE dropped \subseteq dropped'
BY Frames DEF TaskSend, CtlSend, CtlTake, CtlRespond, ResDeliver, TaskReceiveLost,
              ResReceiveLost, Joined, Crash, ForgetStore

LEMMA NextDown == ASSUME Down, [Next]_vars PROVE Down'
<1>1. CASE main = "down"
  <2>1. taskPc = "exited" /\ ctlPc = "exited" /\ resPc = "exited"
        /\ DOMAIN pending = {} /\ DOMAIN completed = {}
    BY <1>1 DEF Down
  <2>2. Restart \/ UNCHANGED <<taskPc, ctlPc, resPc, pending, completed, main>>
    BY <1>1, <2>1, StepCases DEF TaskLoop, TaskNumber, TaskRegister, TaskSend,
       TaskReceiveNothing, CtlLoop, CtlNumber, CtlRegister, CtlSend, CtlHandle, CtlTake,
       CtlRespond, CtlReceiveNothing, ResLoop, ResCorrelate, ResStore, ResDeliver,
       ResReceiveNothing, TaskReceive, TaskReceiveLost, CtlReceive, ResReceive,
       ResReceiveLost, QrmAnswer, RequestStop, Joined, Crash, vars, taskVars, ctlVars,
       resVars, storeVars
  <2>3. CASE Restart
    BY <2>3 DEF Restart, Down
  <2>4. CASE UNCHANGED <<taskPc, ctlPc, resPc, pending, completed, main>>
    BY <2>1, <2>4 DEF Down
  <2> QED BY <2>2, <2>3, <2>4
<1>2. CASE main # "down"
  <2>1. CASE Joined
    BY <2>1 DEF Joined, ForgetStore, EmptyMap, Down, taskVars, ctlVars, resVars
  <2>2. CASE Crash
    BY <2>2 DEF Crash, ForgetStore, EmptyMap, Down
  <2>3. CASE ~Joined /\ ~Crash
    <3>1. main' # "down"
      BY <1>2, <2>3, StepCases DEF TaskLoop, TaskNumber, TaskRegister, TaskSend,
         TaskReceiveNothing, CtlLoop, CtlNumber, CtlRegister, CtlSend, CtlHandle, CtlTake,
         CtlRespond, CtlReceiveNothing, ResLoop, ResCorrelate, ResStore, ResDeliver,
         ResReceiveNothing, TaskReceive, TaskReceiveLost, CtlReceive, ResReceive,
         ResReceiveLost, QrmAnswer, RequestStop, Restart, vars
    <3> QED BY <3>1 DEF Down
  <2> QED BY <2>1, <2>2, <2>3
<1> QED BY <1>1, <1>2

LEMMA NextTakeShape == ASSUME TakeShape, [Next]_vars PROVE TakeShape'
BY Frames DEF TakeShape, CtlLoop, LoopHead, CtlNumber, CtlRegister, CtlSend, CtlHandle,
              CtlTake, CtlRespond, CtlReceiveNothing, CtlReceive, Crash, Restart, ctlVars

LEMMA NextSentOnce == ASSUME Inv, SentOnce, [Next]_vars PROVE SentOnce'
<1>0. /\ TypeOK /\ TaskNumbering /\ CtlNumbering /\ Routing /\ NumberedOnce
      /\ DirectJobs \cap ControlJobs = {}
  BY StoreAssumption DEF Inv
<1>1. qrmTasks \subseteq qrmTasks'
  BY Frames DEF TaskSend, CtlSend
<1>2. \A task \in qrmTasks : Registered(task.job)
  BY <1>0 DEF Routing, Owned, Registered
<1>3. (\A j \in Jobs : copies[j] > 0 => \E task \in qrmTasks : task.job = j)'
  <2> SUFFICES ASSUME NEW j \in Jobs, copies'[j] > 0 PROVE \E task \in qrmTasks' : task.job = j
    OBVIOUS
  <2>1. CASE copies'[j] = copies[j]
    BY <1>1, <2>1 DEF SentOnce
  <2>2. ASSUME NEW task \in qrmTasks, NEW ok \in BOOLEAN, QrmAnswer(task, ok),
               copies'[j] # copies[j]
        PROVE  \E tk \in qrmTasks' : tk.job = j
    <3>1. task.job = j
      BY <2>2, <1>0 DEF QrmAnswer, TypeOK, NetTypeOK
    <3> QED BY <1>1, <2>2, <3>1
  <2> QED BY <2>1, <2>2, Frames
<1>4. ASSUME taskPc' = "send" PROVE \A task \in qrmTasks' : task.job # taskJob'
  <2>1. CASE TaskRegister
    <3>1. qrmTasks' = qrmTasks /\ taskJob' = taskJob /\ ~Registered(taskJob)
      BY <1>0, <2>1 DEF TaskRegister, netVars, TaskNumbering
    <3> QED BY <1>2, <3>1
  <2>2. CASE UNCHANGED taskVars
    <3>1. taskPc = "send" /\ taskJob' = taskJob /\ taskJob \in DirectJobs
      BY <1>0, <1>4, <2>2 DEF taskVars, TaskNumbering
    <3>2. \A task \in qrmTasks : task.job # taskJob
      BY <3>1 DEF SentOnce
    <3>3. CASE TaskSend
      BY <1>4, <3>3 DEF TaskSend
    <3>4. CASE CtlSend
      <4>1. ctlJob \in ControlJobs
        BY <1>0, <3>4 DEF CtlSend, CtlNumbering
      <4>2. OutboundTask(ctlId, ctlJob).job = ctlJob
        BY DEF OutboundTask
      <4>3. qrmTasks' \subseteq qrmTasks \cup {OutboundTask(ctlId, ctlJob)}
        BY <3>4 DEF CtlSend
      <4> QED BY <1>0, <3>1, <3>2, <4>1, <4>2, <4>3
    <3> QED BY <3>1, <3>2, <3>3, <3>4, Frames
  <2> QED BY <1>4, <2>1, <2>2, Frames DEF TaskLoop, LoopHead, TaskNumber, TaskSend,
             TaskReceiveNothing, TaskReceive, TaskReceiveLost, Crash, Restart
<1>5. ASSUME ctlPc' = "send" PROVE \A task \in qrmTasks' : task.job # ctlJob'
  <2>1. CASE CtlRegister
    <3>1. qrmTasks' = qrmTasks /\ ctlJob' = ctlJob /\ ~Registered(ctlJob)
      BY <1>0, <2>1 DEF CtlRegister, netVars, CtlNumbering
    <3> QED BY <1>2, <3>1
  <2>2. CASE UNCHANGED ctlVars
    <3>1. ctlPc = "send" /\ ctlJob' = ctlJob /\ ctlJob \in ControlJobs
      BY <1>0, <1>5, <2>2 DEF ctlVars, CtlNumbering
    <3>2. \A task \in qrmTasks : task.job # ctlJob
      BY <3>1 DEF SentOnce
    <3>3. CASE CtlSend
      BY <1>5, <3>3 DEF CtlSend
    <3>4. CASE TaskSend
      <4>1. taskJob \in DirectJobs
        BY <1>0, <3>4 DEF TaskSend, TaskNumbering
      <4>2. OutboundTask(taskId, taskJob).job = taskJob
        BY DEF OutboundTask
      <4>3. qrmTasks' \subseteq qrmTasks \cup {OutboundTask(taskId, taskJob)}
        BY <3>4 DEF TaskSend
      <4> QED BY <1>0, <3>1, <3>2, <4>1, <4>2, <4>3
    <3> QED BY <3>1, <3>2, <3>3, <3>4, Frames
  <2> QED BY <1>5, <2>1, <2>2, Frames DEF CtlLoop, LoopHead, CtlNumber, CtlSend, CtlHandle,
             CtlTake, CtlRespond, CtlReceiveNothing, CtlReceive, Crash, Restart
<1> QED BY <1>3, <1>4, <1>5 DEF SentOnce
-----------------------------------------------------------------------------
(* Answers on their way. *)

(* The result worker has taken the pending entry of job j and is about to  *)
(* hand its result on.                                                     *)
Taken(id, j) ==
  /\ id \notin DOMAIN pending'
  /\ resPc' = (IF j \in DirectJobs THEN "deliver" ELSE "store")
  /\ resMsg'.job = j

(* An answer that is on its way stays so until it is lost or its pending   *)
(* entry is taken.                                                         *)
LEMMA NextOnTheWay ==
  ASSUME IdsCorrelate, Inv, SentOnce, Down, [Next]_vars,
         NEW id \in DOMAIN pending, NEW j, jobOf[id] = j, OnTheWay(id, j)
  PROVE  \/ j \in dropped'
         \/ id \in DOMAIN pending' /\ jobOf'[id] = j /\ OnTheWay(id, j)'
         \/ Taken(id, j)
<1>0. /\ TypeOK /\ TaskNumbering /\ CtlNumbering /\ Routing /\ NumberedOnce
      /\ id \in DOMAIN jobOf /\ j \in Jobs /\ pending[id] = Entry(id, j)
      /\ DirectJobs \cap ControlJobs = {}
  BY StoreAssumption DEF Inv, Routing, TypeOK, HistTypeOK
<1>1. id \in DOMAIN jobOf' /\ jobOf'[id] = j
  BY <1>0, JobOfStable
<1>a. \A m : Owned(m) /\ m.job = j => ResultKey(m) = id
  BY <1>0 DEF Owned, NumberedOnce
<1>2. CASE Joined \/ Crash
  <2>1. j \in dropped'
    BY <1>2 DEF Joined, Crash, ForgetStore
  <2> QED BY <2>1
<1>3. CASE ~Joined /\ ~Crash /\ id \notin DOMAIN pending'
  <2>1. ResCorrelate
    BY <1>3, Frames DEF TaskRegister, RegisterDirect, CtlRegister, RegisterControl,
       AddControlTask, AddDirectTask, InsertOrAssign
  <2>2. /\ ResultKey(resMsg) = id /\ resMsg' = resMsg /\ resPc = "correlate"
        /\ resPc' = IF pending[id].kind = "control" THEN "store" ELSE "deliver"
    BY <1>3, <2>1 DEF ResCorrelate, TakePending, Erase, storeVars
  <2>3. resMsg.job = j
    BY <1>0, <2>2 DEF Routing, Owned
  <2>4. pending[id].kind = IF j \in DirectJobs THEN "direct" ELSE "control"
    BY <1>0 DEF Entry
  <2> QED BY <1>3, <2>2, <2>3, <2>4 DEF Taken
<1>4. CASE ~Joined /\ ~Crash /\ id \in DOMAIN pending'
  <2> SUFFICES j \in dropped' \/ OnTheWay(id, j)'
    BY <1>1, <1>4
  <2>0. main # "down" /\ ~Restart
    BY DEF Down, Restart
  <2>1. CASE taskPc = "send" /\ taskJob = j
    <3>1. CASE TaskSend
      <4>1. taskId = id /\ taskId \in Issued
        BY <1>0, <2>1 DEF TaskNumbering, NumberedOnce
      <4>2. ResultKey(OutboundTask(id, j)) = id /\ OutboundTask(id, j).job = j
        BY <4>1, OutboundKey
      <4>3. copies[j] = 0 /\ copies' = copies
        <5>1. ~(copies[j] > 0) /\ copies[j] \in Nat
          BY <1>0, <2>1, QOffloadAssumption DEF SentOnce, TypeOK, NetTypeOK
        <5> QED BY <3>1, <5>1 DEF TaskSend
      <4>4. j \in dropped' \/ OutboundTask(id, j) \in qrmTasks'
        BY <2>1, <3>1, <4>1 DEF TaskSend
      <4>5. CASE OutboundTask(id, j) \in qrmTasks'
        BY <4>2, <4>3, <4>5 DEF OnTheWay, ResultKey
      <4> QED BY <4>4, <4>5
    <3>2. CASE ~TaskSend
      <4>1. taskPc' = "send" /\ taskJob' = j
        BY <1>4, <2>0, <2>1, <3>2, Frames DEF TaskLoop, TaskNumber, TaskRegister,
           TaskReceiveNothing, TaskReceive, TaskReceiveLost, taskVars
      <4> QED BY <4>1 DEF OnTheWay
    <3> QED BY <3>1, <3>2
  <2>2. CASE ctlPc = "send" /\ ctlJob = j
    <3>1. CASE CtlSend
      <4>1. ctlId = id /\ ctlId \in Issued
        BY <1>0, <2>2 DEF CtlNumbering, NumberedOnce
      <4>2. ResultKey(OutboundTask(id, j)) = id /\ OutboundTask(id, j).job = j
        BY <4>1, OutboundKey
      <4>3. copies[j] = 0 /\ copies' = copies
        <5>1. ~(copies[j] > 0) /\ copies[j] \in Nat
          BY <1>0, <2>2, QOffloadAssumption DEF SentOnce, TypeOK, NetTypeOK
        <5> QED BY <3>1, <5>1 DEF CtlSend
      <4>4. j \in dropped' \/ OutboundTask(id, j) \in qrmTasks'
        BY <2>2, <3>1, <4>1 DEF CtlSend
      <4>5. CASE OutboundTask(id, j) \in qrmTasks'
        BY <4>2, <4>3, <4>5 DEF OnTheWay, ResultKey
      <4> QED BY <4>4, <4>5
    <3>2. CASE ~CtlSend
      <4>1. ctlPc' = "send" /\ ctlJob' = j
        BY <1>4, <2>0, <2>2, <3>2, Frames DEF CtlLoop, CtlNumber, CtlRegister, CtlHandle,
           CtlTake, CtlRespond, CtlReceiveNothing, CtlReceive, ctlVars
      <4> QED BY <4>1 DEF OnTheWay
    <3> QED BY <3>1, <3>2
  <2>3. ASSUME copies[j] = 0, NEW task \in qrmTasks, task.job = j, ResultKey(task) = id
        PROVE  j \in dropped' \/ OnTheWay(id, j)'
    <3>1. task \in qrmTasks'
      BY Frames DEF TaskSend, CtlSend
    <3>2. CASE copies'[j] = 0
      BY <2>3, <3>1, <3>2 DEF OnTheWay, ResultKey
    <3>3. ASSUME NEW other \in qrmTasks, NEW ok \in BOOLEAN, QrmAnswer(other, ok),
                 copies'[j] # 0
          PROVE  OnTheWay(id, j)'
      <4> DEFINE msg == [id |-> other.id, job |-> other.job, ok |-> ok,
                         copy |-> copies[other.job] + 1]
      <4>1. other.job = j
        BY <1>0, <2>3, <3>3 DEF QrmAnswer, TypeOK, NetTypeOK
      <4>2. msg \in resultQ' /\ msg.job = j /\ msg.id = other.id
        BY <3>3, <4>1 DEF QrmAnswer
      <4>3. ResultKey(other) = id
        BY <1>0, <1>a, <3>3, <4>1 DEF Routing
      <4> HIDE DEF msg
      <4>4. ResultKey(msg) = id
        BY <4>2, <4>3 DEF ResultKey
      <4> QED BY <4>2, <4>4 DEF OnTheWay, ResultKey
    <3>4. (\E tk \in qrmTasks, ok \in BOOLEAN : QrmAnswer(tk, ok)) \/ copies' = copies
      BY Frames
    <3> QED BY <2>3, <3>2, <3>3, <3>4
  <2>4. ASSUME NEW msg \in resultQ, msg.job = j, ResultKey(msg) = id
        PROVE  j \in dropped' \/ OnTheWay(id, j)'
    <3>1. CASE msg \in resultQ'
      BY <2>4, <3>1 DEF OnTheWay, ResultKey
    <3>2. CASE msg \notin resultQ'
      <4>1. ResReceive(msg) \/ ResReceiveLost(msg)
        BY <2>4, <3>2, Frames DEF ResReceive, ResReceiveLost, QrmAnswer
      <4>2. CASE ResReceive(msg)
        <5>1. resPc' = "correlate" /\ resMsg' = msg
          BY <4>2 DEF ResReceive
        <5> QED BY <2>4, <5>1 DEF OnTheWay, ResultKey
      <4>3. CASE ResReceiveLost(msg)
        BY <2>4, <4>3 DEF ResReceiveLost
      <4> QED BY <4>1, <4>2, <4>3
    <3> QED BY <3>1, <3>2
  <2>5. CASE resPc = "correlate" /\ resMsg.job = j /\ ResultKey(resMsg) = id
    <3>1. ~ResCorrelate
      BY <1>4, <2>5 DEF ResCorrelate, TakePending, Erase
    <3>2. resPc' = "correlate" /\ resMsg' = resMsg
      BY <1>4, <2>0, <2>5, <3>1, Frames DEF ResLoop, ResStore, ResDeliver, ResReceiveNothing,
         ResReceive, ResReceiveLost, resVars
    <3> QED BY <2>5, <3>2 DEF OnTheWay, ResultKey
  <2> QED BY <2>1, <2>2, <2>3, <2>4, <2>5 DEF OnTheWay
<1> QED BY <1>2, <1>3, <1>4

LEMMA NextPendingOnlyLeaksLost ==
  ASSUME IdsCorrelate, Inv, SentOnce, Down, PendingOnlyLeaksLost, [Next]_vars
  PROVE  PendingOnlyLeaksLost'
<1> SUFFICES ASSUME NEW id \in DOMAIN pending' PROVE jobOf'[id] \in dropped' \/ Tracked(jobOf[id])'
  BY DEF PendingOnlyLeaksLost
<1>t. ASSUME NEW j, jobOf'[id] = j, OnTheWay(id, j)' PROVE Tracked(jobOf[id])'
  BY <1>t DEF Tracked, OnTheWay
<1>0. NumberedOnce /\ Routing /\ DOMAIN pending \subseteq DOMAIN jobOf
  BY DEF Inv, Routing
<1>1. CASE id \in DOMAIN pending
  <2>1. jobOf'[id] = jobOf[id]
    BY <1>0, <1>1, JobOfStable
  <2>2. CASE jobOf[id] \in dropped
    BY <2>1, <2>2, DroppedGrows
  <2>3. CASE Tracked(jobOf[id])
    <3>1. PICK a \in DOMAIN pending : jobOf[a] = jobOf[id] /\ OnTheWay(a, jobOf[id])
      BY <2>3 DEF Tracked, OnTheWay
    <3>2. a = id
      BY <1>0, <1>1, <3>1 DEF NumberedOnce
    <3>3. PICK k : k = jobOf[id]
      OBVIOUS
    <3>4. OnTheWay(id, k) /\ jobOf[id] = k
      BY <3>1, <3>2, <3>3
    <3>5. \/ k \in dropped'
          \/ jobOf'[id] = k /\ OnTheWay(id, k)'
          \/ Taken(id, k)
      BY <1>1, <3>4, NextOnTheWay
    <3> QED BY <1>t, <2>1, <3>3, <3>5 DEF Taken
  <2> QED BY <1>1, <2>2, <2>3 DEF PendingOnlyLeaksLost
<1>2. CASE id \notin DOMAIN pending
  <2>1. CASE TaskRegister
    <3>1. /\ id = taskId /\ taskPc' = "send" /\ taskJob' = taskJob
      BY <1>2, <2>1 DEF TaskRegister, RegisterDirect, AddDirectTask, InsertOrAssign
    <3>2. jobOf'[id] = taskJob
      BY <2>1, <3>1 DEF TaskRegister, InsertOrAssign
    <3> QED BY <1>t, <3>1, <3>2 DEF OnTheWay
  <2>2. CASE CtlRegister
    <3>1. /\ id = ctlId /\ ctlPc' = "send" /\ ctlJob' = ctlJob
      BY <1>2, <2>2 DEF CtlRegister, RegisterControl, AddControlTask, AddDirectTask,
                        InsertOrAssign
    <3>2. jobOf'[id] = ctlJob
      BY <2>2, <3>1 DEF CtlRegister, InsertOrAssign
    <3> QED BY <1>t, <3>1, <3>2 DEF OnTheWay
  <2> QED BY <1>2, <2>1, <2>2, Frames DEF ResCorrelate, TakePending, Erase, storeVars, Joined,
             Crash, ForgetStore, EmptyMap
<1> QED BY <1>1, <1>2
-----------------------------------------------------------------------------
(* No job disappears. *)
DirectAccounted(j) ==
  \/ j \in requestQ \cup dropped
  \/ taskPc \in {"number", "register"} /\ taskJob = j
  \/ Tracked(j)
  \/ resPc = "deliver" /\ resMsg.job = j
  \/ deliveries[j] > 0

ControlAccounted(j) ==
  \/ j \in freshJobs \cup dropped
  \/ ctlPc \in {"number", "register"} /\ ctlJob = j
  \/ Tracked(j)
  \/ resPc = "store" /\ resMsg.job = j
  \/ \E id \in DOMAIN completed : completed[id].job = j
  \/ ctlPc = "respond" /\ ctlResp.job = j
  \/ fetched[j] > 0

LEMMA AccountedParts ==
  JobsAccounted <=> /\ \A j \in DirectJobs : DirectAccounted(j)
                    /\ \A j \in ControlJobs : ControlAccounted(j)
BY DEF JobsAccounted, DirectAccounted, ControlAccounted

(* A stop or a crash counts what the workers hold as lost. *)
LEMMA HandsLost ==
  ASSUME NEW j \in Jobs, Joined \/ Crash,
         \/ taskPc \in {"number", "register", "send"} /\ taskJob = j
         \/ ctlPc \in {"number", "register", "send"} /\ ctlJob = j
         \/ ctlPc = "respond" /\ ctlResp.job = j
         \/ resPc \in {"correlate", "store", "deliver"} /\ resMsg.job = j
  PROVE  j \in dropped'
<1>1. j \in InHand /\ j # NoJob
  BY ControlAssumption DEF InHand
<1> QED BY <1>1 DEF Joined, Crash, ForgetStore

(* A tracked job stays tracked, is lost or is in the result worker's hands. *)
LEMMA NextTracked ==
  ASSUME IdsCorrelate, Inv, SentOnce, Down, [Next]_vars, NEW j, Tracked(j)
  PROVE  \/ j \in dropped' \/ Tracked(j)'
         \/ resPc' = (IF j \in DirectJobs THEN "deliver" ELSE "store") /\ resMsg'.job = j
<1>1. PICK id \in DOMAIN pending : jobOf[id] = j /\ OnTheWay(id, j)
  BY DEF Tracked, OnTheWay
<1>2. \/ j \in dropped'
      \/ id \in DOMAIN pending' /\ jobOf'[id] = j /\ OnTheWay(id, j)'
      \/ Taken(id, j)
  BY <1>1, NextOnTheWay
<1>3. ASSUME id \in DOMAIN pending', jobOf'[id] = j, OnTheWay(id, j)' PROVE Tracked(j)'
  BY <1>3 DEF Tracked, OnTheWay
<1> QED BY <1>2, <1>3 DEF Taken

LEMMA NextDirectAccounted ==
  ASSUME IdsCorrelate, Inv, SentOnce, Down, [Next]_vars,
         NEW j \in DirectJobs, DirectAccounted(j)
  PROVE  DirectAccounted(j)'
<1>0. TypeOK /\ j \in Jobs /\ deliveries \in [DirectJobs -> Nat] /\ deliveries[j] \in Nat
  BY DEF Inv, TypeOK, HistTypeOK, Jobs
<1>1. CASE j \in dropped
  BY <1>1, DroppedGrows DEF DirectAccounted
<1>2. CASE j \in requestQ
  BY <1>2, Frames DEF TaskReceive, TaskReceiveLost, DirectAccounted
<1>3. CASE taskPc \in {"number", "register"} /\ taskJob = j
  <2>1. CASE TaskNumber
    BY <1>3, <2>1 DEF TaskNumber, DirectAccounted
  <2>2. CASE TaskRegister
    <3>1. /\ taskId \in DOMAIN pending' /\ jobOf'[taskId] = j
          /\ taskPc' = "send" /\ taskJob' = j
      BY <1>3, <2>2 DEF TaskRegister, RegisterDirect, AddDirectTask, InsertOrAssign
    <3>2. Tracked(j)'
      BY <3>1 DEF Tracked
    <3> QED BY <3>2 DEF DirectAccounted
  <2>3. CASE Crash
    BY <1>0, <1>3, <2>3, HandsLost DEF DirectAccounted
  <2>4. CASE UNCHANGED taskVars
    BY <1>3, <2>4 DEF taskVars, DirectAccounted
  <2> QED BY <1>3, <2>1, <2>2, <2>3, <2>4, Frames DEF TaskLoop, TaskSend, TaskReceiveNothing,
             TaskReceive, TaskReceiveLost, Restart, Down
<1>4. CASE Tracked(j)
  BY <1>4, NextTracked DEF DirectAccounted
<1>5. CASE resPc = "deliver" /\ resMsg.job = j
  <2>1. CASE ResDeliver
    <3>1. j \in dropped' \/ deliveries'[j] = deliveries[j] + 1
      BY <1>5, <2>1 DEF ResDeliver
    <3>2. deliveries[j] + 1 > 0
      BY <1>0
    <3> QED BY <3>1, <3>2 DEF DirectAccounted
  <2>2. CASE Crash
    BY <1>0, <1>5, <2>2, HandsLost DEF DirectAccounted
  <2>3. CASE UNCHANGED resVars
    BY <1>5, <2>3 DEF resVars, DirectAccounted
  <2> QED BY <1>5, <2>1, <2>2, <2>3, Frames DEF ResLoop, ResCorrelate, ResStore,
             ResReceiveNothing, ResReceive, ResReceiveLost, Restart, Down
<1>6. CASE deliveries[j] > 0
  <2>1. deliveries'[j] = deliveries[j] \/ deliveries'[j] = deliveries[j] + 1
    BY <1>0, Frames DEF ResDeliver
  <2>2. deliveries'[j] > 0
    BY <1>0, <1>6, <2>1
  <2> QED BY <2>2 DEF DirectAccounted
<1> QED BY <1>1, <1>2, <1>3, <1>4, <1>5, <1>6 DEF DirectAccounted

(* A stored result stays in the store as it is, unless the store is asked  *)
(* for it or the process ends.                                             *)
LEMMA StoredStays ==
  ASSUME Inv, [Next]_vars, NEW id \in DOMAIN completed
  PROVE  \/ id \in DOMAIN completed' /\ completed'[id] = completed[id]
         \/ CtlTake /\ ToUint64(ctlReq.id) = id
         \/ Joined \/ Crash
<1>1. CASE ResStore
  <2>1. /\ resPc = "store"
        /\ completed' = InsertOrAssign(completed, resTask.original,
                                       [job |-> resMsg.job, ok |-> resMsg.ok])
        /\ resTask = Entry(ResultKey(resMsg), resMsg.job) /\ resMsg.job \in ControlJobs
        /\ ResultKey(resMsg) \notin DOMAIN completed
    BY <1>1 DEF ResStore, StoreCompletedControlTask, Inv, Routing, Completion
  <2>2. resTask.original = ResultKey(resMsg)
    BY <2>1, StoreAssumption DEF Entry
  <2> QED BY <2>1, <2>2 DEF InsertOrAssign
<1>2. CASE CtlTake
  BY <1>2 DEF CtlTake, TakeCompletedControlTask, Erase
<1> QED BY <1>1, <1>2, Frames

LEMMA NextControlAccounted ==
  ASSUME IdsCorrelate, Inv, SentOnce, Down, TakeShape, [Next]_vars,
         NEW j \in ControlJobs, ControlAccounted(j)
  PROVE  ControlAccounted(j)'
<1>0. /\ TypeOK /\ j \in Jobs /\ fetched \in [ControlJobs -> Nat] /\ fetched[j] \in Nat
      /\ j \notin DirectJobs /\ j # NoJob
  BY StoreAssumption, ControlAssumption DEF Inv, TypeOK, HistTypeOK, Jobs
<1>1. CASE j \in dropped
  BY <1>1, DroppedGrows DEF ControlAccounted
<1>2. CASE j \in freshJobs
  BY <1>2, Frames DEF CtlReceive, ControlAccounted
<1>3. CASE ctlPc \in {"number", "register"} /\ ctlJob = j
  <2>1. CASE CtlNumber
    BY <1>3, <2>1 DEF CtlNumber, ControlAccounted
  <2>2. CASE CtlRegister
    <3>1. /\ ctlId \in DOMAIN pending' /\ jobOf'[ctlId] = j
          /\ ctlPc' = "send" /\ ctlJob' = j
      BY <1>3, <2>2 DEF CtlRegister, RegisterControl, AddControlTask, AddDirectTask,
                        InsertOrAssign
    <3>2. Tracked(j)'
      BY <3>1 DEF Tracked
    <3> QED BY <3>2 DEF ControlAccounted
  <2>3. CASE Crash
    BY <1>0, <1>3, <2>3, HandsLost DEF ControlAccounted
  <2>4. CASE UNCHANGED ctlVars
    BY <1>3, <2>4 DEF ctlVars, ControlAccounted
  <2> QED BY <1>3, <2>1, <2>2, <2>3, <2>4, Frames DEF CtlLoop, CtlSend, CtlHandle, CtlTake,
             CtlRespond, CtlReceiveNothing, CtlReceive, Restart, Down
<1>4. CASE Tracked(j)
  BY <1>0, <1>4, NextTracked DEF ControlAccounted
<1>5. CASE resPc = "store" /\ resMsg.job = j
  <2>1. CASE ResStore
    <3>1. completed' = InsertOrAssign(completed, resTask.original,
                                      [job |-> j, ok |-> resMsg.ok])
      BY <1>5, <2>1 DEF ResStore, StoreCompletedControlTask
    <3>2. resTask.original \in DOMAIN completed' /\ completed'[resTask.original].job = j
      BY <3>1 DEF InsertOrAssign
    <3> QED BY <3>2 DEF ControlAccounted
  <2>2. CASE Crash
    BY <1>0, <1>5, <2>2, HandsLost DEF ControlAccounted
  <2>3. CASE UNCHANGED resVars
    BY <1>5, <2>3 DEF resVars, ControlAccounted
  <2> QED BY <1>5, <2>1, <2>2, <2>3, Frames DEF ResLoop, ResCorrelate, ResDeliver,
             ResReceiveNothing, ResReceive, ResReceiveLost, Restart, Down
<1>6. ASSUME NEW id \in DOMAIN completed, completed[id].job = j PROVE ControlAccounted(j)'
  <2>1. CASE id \in DOMAIN completed' /\ completed'[id] = completed[id]
    BY <1>6, <2>1 DEF ControlAccounted
  <2>2. CASE CtlTake /\ ToUint64(ctlReq.id) = id
    <3>1. ctlReq.cmd = "cancel" \/ ctlReq.cmd = "result"
      BY <2>2 DEF CtlTake, TakeShape
    <3>2. CASE ctlReq.cmd = "cancel"
      <4>1. j \in Discarded
        BY <1>6, <2>2, <3>2 DEF Discarded
      <4> QED BY <2>2, <4>1 DEF CtlTake, ControlAccounted
    <3>3. CASE ctlReq.cmd = "result"
      <4>1. AnswerTaken(ctlReq).job = j
        BY <1>6, <2>2, <3>3 DEF AnswerTaken, Reply
      <4> QED BY <2>2, <4>1 DEF CtlTake, ControlAccounted
    <3> QED BY <3>1, <3>2, <3>3
  <2>3. CASE Joined \/ Crash
    <3>1. j \in dropped'
      BY <1>6, <2>3 DEF Joined, Crash, ForgetStore
    <3> QED BY <3>1 DEF ControlAccounted
  <2> QED BY <2>1, <2>2, <2>3, StoredStays
<1>7. CASE ctlPc = "respond" /\ ctlResp.job = j
  <2>1. CASE CtlRespond
    <3>1. j \in dropped' \/ fetched'[j] = fetched[j] + 1
      BY <1>0, <1>7, <2>1 DEF CtlRespond
    <3>2. fetched[j] + 1 > 0
      BY <1>0
    <3> QED BY <3>1, <3>2 DEF ControlAccounted
  <2>2. CASE Crash
    BY <1>0, <1>7, <2>2, HandsLost DEF ControlAccounted
  <2>3. CASE UNCHANGED ctlVars
    BY <1>7, <2>3 DEF ctlVars, ControlAccounted
  <2> QED BY <1>7, <2>1, <2>2, <2>3, Frames DEF CtlLoop, CtlNumber, CtlRegister, CtlSend,
             CtlHandle, CtlTake, CtlReceiveNothing, CtlReceive, Restart, Down
<1>8. CASE fetched[j] > 0
  <2>1. fetched'[j] = fetched[j] \/ fetched'[j] = fetched[j] + 1
    BY <1>0, Frames DEF CtlRespond
  <2>2. fetched'[j] > 0
    BY <1>0, <1>8, <2>1
  <2> QED BY <2>2 DEF ControlAccounted
<1> QED BY <1>1, <1>2, <1>3, <1>4, <1>5, <1>6, <1>7, <1>8 DEF ControlAccounted
-----------------------------------------------------------------------------
LEMMA InitAccounting == Init => AInv
<1> SUFFICES ASSUME Init PROVE AInv
  OBVIOUS
<1>1. Inv /\ HandsFull
  BY InitInv, InitTypeOK
<1>2. SentOnce
  BY DEF Init, SentOnce
<1>3. Down /\ TakeShape
  BY DEF Init, Down, TakeShape
<1>4. PendingOnlyLeaksLost
  BY DEF Init, StoreInit, EmptyMap, PendingOnlyLeaksLost
<1>5. JobsAccounted
  BY DEF Init, JobsAccounted
<1> QED BY <1>1, <1>2, <1>3, <1>4, <1>5 DEF AInv

(* Every part of the invariant is preserved when identifiers correlate.    *)
LEMMA AccountingHolds == ASSUME IdsCorrelate PROVE Spec => []AInv
<1>1. AInv /\ [Next]_vars => AInv'
  <2> SUFFICES ASSUME AInv, [Next]_vars PROVE AInv'
    OBVIOUS
  <2>0. /\ Inv /\ HandsFull /\ SentOnce /\ Down /\ TakeShape
        /\ PendingOnlyLeaksLost /\ JobsAccounted
    BY DEF AInv
  <2>1. Inv' /\ HandsFull'
    <3>1. TypeOK' /\ HandsFull'
      BY <2>0, NextTypeOK DEF Inv
    <3> QED BY <2>0, <3>1, NextNumberedOnce, NextTaskNumbering, NextCtlNumbering, NextRouting,
               NextCompletion, NextOnce, NextResultsReachTheirClient DEF Inv
  <2>2. SentOnce' /\ Down' /\ TakeShape'
    BY <2>0, NextSentOnce, NextDown, NextTakeShape
  <2>3. PendingOnlyLeaksLost'
    BY <2>0, NextPendingOnlyLeaksLost
  <2>4. JobsAccounted'
    <3>1. /\ \A j \in DirectJobs : DirectAccounted(j)
          /\ \A j \in ControlJobs : ControlAccounted(j)
      BY <2>0, AccountedParts
    <3>2. /\ \A j \in DirectJobs : DirectAccounted(j)'
          /\ \A j \in ControlJobs : ControlAccounted(j)'
      BY <2>0, <3>1, NextDirectAccounted, NextControlAccounted
    <3> QED BY <3>2 DEF JobsAccounted, DirectAccounted, ControlAccounted
  <2> QED BY <2>1, <2>2, <2>3, <2>4 DEF AInv
<1> QED BY <1>1, InitAccounting, PTL DEF Spec

(* Between a receive, nextTaskId(), addDirectTask(), a send, takePending() *)
(* and storeCompletedControlTask() of three workers no job disappears: it  *)
(* is queued, in a worker's hands, tracked, stored, answered or lost to a  *)
(* fault, a query or a stop, for any number of jobs, results and restarts. *)
THEOREM NoJobDisappears == ASSUME IdsCorrelate PROVE Spec => []JobsAccounted
<1>1. AInv => JobsAccounted
  BY DEF AInv
<1> QED BY <1>1, AccountingHolds, PTL

(* pending_ does not grow with tasks that were answered: an entry either   *)
(* still has an answer on its way or belongs to a job that was lost.       *)
THEOREM PendingBounded == ASSUME IdsCorrelate PROVE Spec => []PendingOnlyLeaksLost
<1>1. AInv => PendingOnlyLeaksLost
  BY DEF AInv
<1> QED BY <1>1, AccountingHolds, PTL

(* storeCompletedControlTask() and takeCompletedControlTask(): a stored    *)
(* result is neither overwritten nor removed by anything but a query that  *)
(* names it and the end of the process.                                    *)
THEOREM ResultsKept == ASSUME IdsCorrelate PROVE Spec => ResultKept
<1>1. AInv /\ [Next]_vars =>
        [\A id \in DOMAIN completed :
           \/ id \in DOMAIN completed' /\ completed'[id] = completed[id]
           \/ ctlPc = "take" /\ ToUint64(ctlReq.id) = id
           \/ main' = "down"]_vars
  <2> SUFFICES ASSUME AInv, [Next]_vars, NEW id \in DOMAIN completed
               PROVE  \/ id \in DOMAIN completed' /\ completed'[id] = completed[id]
                      \/ ctlPc = "take" /\ ToUint64(ctlReq.id) = id
                      \/ main' = "down"
    OBVIOUS
  <2>1. \/ id \in DOMAIN completed' /\ completed'[id] = completed[id]
        \/ CtlTake /\ ToUint64(ctlReq.id) = id
        \/ Joined \/ Crash
    BY StoredStays DEF AInv
  <2> QED BY <2>1 DEF CtlTake, Joined, Crash
<1> QED BY <1>1, AccountingHolds, PTL DEF Spec, ResultKept
=============================================================================
