---------------------------- MODULE QrmWorkflow ----------------------------
(***************************************************************************)
(* examples/qrm_workflow: the daemon sends a task and waits for a result;  *)
(* scheduler, compiler and submitter pass tasks on through queues.  Every  *)
(* program has one Messenger over RabbitMqSimpleTransport and receives     *)
(* with AckMode::Auto.  Of a circuit the lines are kept by what            *)
(* stripSpuriousGateDefs() sees in them.                                   *)
(***************************************************************************)
EXTENDS Startup, FiniteSets

CONSTANTS MaxFaults,    \* bound: connections that break
          NoTask        \* an empty hand

VARIABLES
  queue,      \* queue[name]: a RabbitMQ queue
  hand,       \* hand[w]: the task or result worker w works on
  sendCh,     \* sendCh[p]: the send channel of p, "none", "open" or "broken"
  faults,
  report,     \* report[d]: the result daemon d printed
  \* history variables: no step depends on them
  order,      \* the tasks in the order they were sent
  lost        \* the tasks that are gone: dropped, or lost with a channel or a program

flowVars == <<queue, hand, sendCh, faults, report, order, lost>>
vars == <<startVars, flowVars>>

QueueNames == {qrmLoadConfig(s.env)[f] : s \in Scenarios, f \in QrmQueueFields}
Mlir == <<"mlir">>                     \* the circuit is the path of an MLIR file

Init ==
  /\ StartInit
  /\ queue = [q \in QueueNames |-> <<>>]
  /\ hand = [w \in Workers |-> NoTask]
  /\ sendCh = [p \in QrmPrograms |-> "none"]
  /\ faults = 0
  /\ report = [d \in Daemons |-> NoTask]
  /\ order = <<>> /\ lost = {}

Fault == faults < MaxFaults /\ faults' = faults + 1

(* Messenger::send() of program p: an empty destination is refused, a      *)
(* broken channel stays broken, and the broker may have stored the message *)
(* although the send failed.                                               *)
Send(p, q, msg, next, failed) ==
  LET added == [queue EXCEPT ![q] = Append(@, msg)] IN
  \/ /\ q # "" /\ sendCh[p] # "broken"
     /\ queue' = added /\ Goto(p, next)
     /\ sendCh' = [sendCh EXCEPT ![p] = "open"]
     /\ UNCHANGED <<faults, lost>>
  \/ /\ q # "" /\ sendCh[p] = "none" /\ Fault
     /\ lost' = lost \cup {msg.task} /\ Goto(p, failed)
     /\ UNCHANGED <<queue, sendCh>>
  \/ /\ q # "" /\ sendCh[p] = "open" /\ Fault
     /\ sendCh' = [sendCh EXCEPT ![p] = "broken"] /\ Goto(p, failed)
     /\ \/ queue' = added /\ UNCHANGED lost
        \/ lost' = lost \cup {msg.task} /\ UNCHANGED queue
  \/ /\ q = "" \/ sendCh[p] = "broken"
     /\ lost' = lost \cup {msg.task} /\ Goto(p, failed)
     /\ UNCHANGED <<queue, sendCh, faults>>

(* The broker pushes n messages of q to a receive(): the first is taken,   *)
(* the others are acknowledged and lost with the channel.                  *)
Taken(q, n, kept) ==
  /\ queue' = [queue EXCEPT ![q] = SubSeq(@, n + 1, Len(@))]
  /\ lost' = lost \cup {queue[q][i].task : i \in kept + 1 .. n}

(* Seeded fault: the default AckMode::Manual, and nothing acknowledges. *)
ReceiveUnacknowledged(w) ==
  LET q == stored[w][w] IN
  /\ main[w] = "running" /\ queue[q] # <<>>
  /\ hand' = [hand EXCEPT ![w] = queue[q][1]]
  /\ Goto(w, IF w = "scheduler" THEN "send" ELSE "process")
  /\ UNCHANGED <<queue, lost>>

(* Seeded fault: what the broker pushed last is taken. *)
ReceiveNewest(w) ==
  LET q == stored[w][w] IN
  /\ main[w] = "running" /\ queue[q] # <<>>
  /\ hand' = [hand EXCEPT ![w] = queue[q][Len(queue[q])]]
  /\ queue' = [queue EXCEPT ![q] = Front(@)]
  /\ Goto(w, IF w = "scheduler" THEN "send" ELSE "process")
  /\ UNCHANGED lost

(* A worker's queue is configured under its own name. *)
Receive(w) ==
  LET q == stored[w][w] IN
  /\ main[w] = "running" /\ queue[q] # <<>>
  /\ \E n \in 1 .. Len(queue[q]) : Taken(q, n, 1)
  /\ hand' = [hand EXCEPT ![w] = queue[q][1]]
  /\ Goto(w, IF w = "scheduler" THEN "send" ELSE "process")

WorkerReceive(w) ==
  /\ Receive(w)
  /\ UNCHANGED <<scenario, loaded, stored, logger, reported, sendCh, faults, report, order>>

(* The deadline passes, or the connection breaks, after the broker has     *)
(* pushed messages.                                                        *)
WorkerReceiveNothing(w) ==
  LET q == stored[w][w] IN
  /\ main[w] = "running"
  /\ \E n \in 1 .. Len(queue[q]) : Taken(q, n, 0)
  /\ UNCHANGED <<startVars, hand, sendCh, faults, report, order>>

(* The program ends with what it holds. *)
Die(w) ==
  /\ Goto(w, "down")
  /\ lost' = lost \cup {hand[w].task}
  /\ hand' = [hand EXCEPT ![w] = NoTask]

(* Seeded fault: the scheduler sends to the queue it reads. *)
ForwardToItself(w) ==
  CASE w = "scheduler" -> stored[w].scheduler
    [] w = "compiler" -> stored[w].submitter
    [] w = "submitter" -> hand[w].dest

(* Seeded fault: the submitter does not look at result_destination. *)
ForwardToSubmitter(w) ==
  CASE w = "scheduler" -> stored[w].compiler [] OTHER -> stored[w].submitter

(* Where each worker sends what it holds. *)
Destination(w) ==
  CASE w = "scheduler" -> stored[w].compiler
    [] w = "compiler" -> stored[w].submitter
    [] w = "submitter" -> hand[w].dest

(* A failed send is logged; in either case the loop begins again. *)
WorkerSend(w) ==
  /\ main[w] = "send"
  /\ Send(w, Destination(w), hand[w], "running", "running")
  /\ hand' = [hand EXCEPT ![w] = NoTask]
  /\ UNCHANGED <<scenario, loaded, stored, logger, reported, report, order>>
-----------------------------------------------------------------------------
(* Compiler. *)
Opens == {"gate {", "gate {}"}      \* lines with "gate " and "{"
Closes == {"gate {}", "}"}          \* lines with "}"

(* Seeded fault: the line that closes a definition is kept. *)
stripKeepingBrace(acc, line) ==
  IF line \in Opens THEN [acc EXCEPT !.inside = TRUE]
  ELSE IF acc.inside /\ line \notin Closes THEN acc
  ELSE [inside |-> FALSE, out |-> Append(acc.out, line)]

(* One line of the loop, which is inside a definition or not; a line that  *)
(* opens a definition is not searched for its end.                         *)
stripLine(acc, line) ==
  IF line \in Opens THEN [acc EXCEPT !.inside = TRUE]
  ELSE IF acc.inside THEN [acc EXCEPT !.inside = line \notin Closes]
  ELSE [acc EXCEPT !.out = Append(@, line)]

stripSpuriousGateDefs(text) ==
  LET after[i \in 0 .. Len(text)] ==
        IF i = 0 THEN [inside |-> FALSE, out |-> <<>>] ELSE stripLine(after[i - 1], text[i])
  IN  after[Len(text)].out

(* A pipeline that fails is only logged, and what it had written by then   *)
(* is the result; what is not the path of an MLIR file cannot be parsed.   *)
lowerToOutputFormat(circuit) ==
  {SubSeq(scenario.qasm, 1, k) : k \in {j \in 0 .. Len(scenario.qasm) : circuit = Mlir}}

applyOptimizationPasses(circuit) ==
  {stripSpuriousGateDefs(out) : out \in lowerToOutputFormat(circuit)}

(* mkstemp() may throw, which drops the task; a file that cannot be parsed *)
(* is logged and then dereferenced.                                        *)
Compile ==
  /\ main["compiler"] = "process"
  /\ \/ /\ \E out \in applyOptimizationPasses(hand["compiler"].circuit) :
             hand' = [hand EXCEPT !["compiler"].circuit = out]
        /\ Goto("compiler", "send") /\ UNCHANGED lost
     \/ /\ lost' = lost \cup {hand["compiler"].task}
        /\ hand' = [hand EXCEPT !["compiler"] = NoTask]
        /\ Goto("compiler", "running")
     \/ Die("compiler")
  /\ UNCHANGED <<scenario, loaded, stored, logger, reported, queue, sendCh, faults,
                 report, order>>

(* Submitter.  The device (external) may accept any circuit; the result    *)
(* carries the task's identifier and the circuit, and execution_status is  *)
(* always 0.                                                               *)
createAndSubmitQDMIJobToQDMIDevice(task) == [task EXCEPT !.kind = "result"]

(* A QDMI call that fails ends the process by assert(). *)
Execute ==
  /\ main["submitter"] = "process"
  /\ \/ /\ hand' = [hand EXCEPT !["submitter"] = createAndSubmitQDMIJobToQDMIDevice(@)]
        /\ Goto("submitter", "send") /\ UNCHANGED lost
     \/ Die("submitter")
  /\ UNCHANGED <<scenario, loaded, stored, logger, reported, queue, sendCh, faults,
                 report, order>>
-----------------------------------------------------------------------------
(* Daemon: every execution sends a task with the same identifier. *)
SendTask(d) ==
  /\ main[d] = "running"
  /\ Send(d, stored[d].scheduler,
          [kind |-> "task", task |-> d, id |-> 111, circuit |-> Mlir,
           dest |-> stored[d].results],
          "waiting", "failed")
  /\ order' = Append(order, d)
  /\ UNCHANGED <<scenario, loaded, stored, logger, reported, hand, report>>

(* It takes whatever result comes first. *)
Await(d) ==
  LET q == stored[d].results IN
  /\ main[d] = "waiting" /\ queue[q] # <<>>
  /\ \E n \in 1 .. Len(queue[q]) : Taken(q, n, 1)
  /\ report' = [report EXCEPT ![d] = queue[q][1]]
  /\ Goto(d, "done")
  /\ UNCHANGED <<scenario, loaded, stored, logger, reported, hand, sendCh, faults, order>>

(* No result within 60 s, or a receive that fails. *)
GiveUp(d) ==
  LET q == stored[d].results IN
  /\ main[d] = "waiting"
  /\ \E n \in 0 .. Len(queue[q]) : Taken(q, n, 0)
  /\ Goto(d, "failed")
  /\ UNCHANGED <<scenario, loaded, stored, logger, reported, hand, sendCh, faults, report,
                 order>>
-----------------------------------------------------------------------------
Starting ==
  /\ LoadConfig \/ MakeLogger \/ InitConfig \/ \E p \in QrmPrograms : QrmStart(p)
  /\ UNCHANGED flowVars

Work(w) ==
  \/ WorkerReceive(w) \/ WorkerSend(w)
  \/ w = "compiler" /\ Compile
  \/ w = "submitter" /\ Execute

Next ==
  \/ Starting
  \/ \E w \in Workers : Work(w) \/ WorkerReceiveNothing(w)
  \/ \E d \in Daemons : SendTask(d) \/ Await(d) \/ GiveUp(d)

(* Every program that has been started is scheduled; neither faults, nor   *)
(* timeouts, nor the start of a program are forced.                        *)
Spec == Init /\ [][Next]_vars /\ \A w \in Workers : WF_vars(Work(w))
-----------------------------------------------------------------------------
DistinctQueues == Cardinality({qrmLoadConfig(env)[f] : f \in QrmQueueFields}) = 4
ResultQueue == qrmLoadConfig(env).results

MessagesOf(s) ==
  [kind : {"task", "result"}, task : Daemons, id : {111},
   circuit : {Mlir} \cup {stripSpuriousGateDefs(SubSeq(s.qasm, 1, k)) : k \in 0 .. Len(s.qasm)},
   dest : QueueNames]
Messages == MessagesOf(scenario)

(* Programs are told apart by their names, an empty hand from a message;   *)
(* the compiler's output is a text of lines.                               *)
ASSUME WorkflowAssumption ==
  /\ MaxFaults \in Nat
  /\ Daemons \cap (Workers \cup {"qoffload"}) = {}
  /\ \A s \in Scenarios : s.qasm \in Seq(STRING) /\ NoTask \notin MessagesOf(s)

(* Every variable has its type; a worker holds something exactly while it  *)
(* works on it; and results are found in the queue of results only.        *)
TypeOK ==
  /\ \A p \in QrmPrograms : main[p] \in {"start", "running", "process", "send", "waiting",
                                         "done", "failed", "down"}
  /\ \A w \in Workers : /\ hand[w] \in Messages \cup {NoTask}
                        /\ hand[w] # NoTask <=> main[w] \in {"process", "send"}
  /\ \A q \in QueueNames : \A i \in DOMAIN queue[q] :
       /\ queue[q][i] \in Messages
       /\ DistinctQueues => (queue[q][i].kind = "result" <=> q = ResultQueue)
  /\ \A d \in Daemons : report[d] \in Messages \cup {NoTask}
  /\ lost \subseteq Daemons /\ faults \in 0 .. MaxFaults
  /\ \A p \in QrmPrograms : sendCh[p] \in {"none", "open", "broken"}

Places(d) ==
  {x \in QueueNames \X (1 .. Len(order)) :
     x[2] \in DOMAIN queue[x[1]] /\ queue[x[1]][x[2]].task = d}
  \cup {<<w, 0>> : w \in {v \in Workers : hand[v] # NoTask /\ hand[v].task = d}}
  \cup {<<c, -1>> : c \in {e \in Daemons : report[e] # NoTask /\ report[e].task = d}}

(* A task that was sent is lost or in exactly one place: in a queue, in    *)
(* the hands of one program, or printed.  No step of two programs forgets  *)
(* it or repeats it, although a failed send may have stored it, queues may *)
(* share a name and every program may stop at any step.                    *)
TasksAccounted ==
  \A d \in Daemons :
    Cardinality(Places(d)) = IF d \in ToSet(order) \ lost THEN 1 ELSE 0

(* With distinct queues the tasks stand in a line: results first, what was *)
(* sent last behind.                                                       *)
Held(w) == IF hand[w] = NoTask THEN <<>> ELSE <<hand[w]>>
Standing ==
  LET config == qrmLoadConfig(env)
      all == queue[config.results] \o Held("submitter") \o queue[config.submitter]
               \o Held("compiler") \o queue[config.compiler]
               \o Held("scheduler") \o queue[config.scheduler]
  IN  IF DistinctQueues THEN [i \in DOMAIN all |-> all[i].task] ELSE <<>>
Printed == [d \in Daemons |-> IF report[d] = NoTask \/ ~DistinctQueues THEN {}
                              ELSE {report[d].task}]

Line == INSTANCE TaskLine WITH line <- Standing, printed <- Printed, sent <- ToSet(order)

(* The programs together are one lossy line of tasks: whatever breaks, a   *)
(* task is never repeated, no task overtakes another, and each daemon      *)
(* prints the oldest result there is.  The daemons depend on it, since     *)
(* they do not look at whose result they get.                              *)
ImplementsTaskLine == Line!Spec

(* The lines of a text that belong to no gate definition. *)
Outside(text) ==
  {i \in DOMAIN text :
     ~\E a \in 1 .. i : text[a] \in Opens
                          /\ (a = i \/ \A k \in a .. i - 1 : text[k] \notin Closes)}

(* The lines of text at the positions S, in their order. *)
Lists(out, text, S) ==
  \E at \in [1 .. Len(out) -> S] :
    /\ \A i, j \in 1 .. Len(out) : i < j => at[i] < at[j]
    /\ S = {at[i] : i \in 1 .. Len(out)}
    /\ \A i \in 1 .. Len(out) : out[i] = text[at[i]]

(* The circuit handed to the device is a compiled one: the compiler's      *)
(* output without its gate definitions, statement for statement, as far as *)
(* the pipeline came; provided that no definition is closed on the line    *)
(* that opens it, and that the queues are distinct.                        *)
CircuitFaithful ==
  LET qasm == scenario.qasm IN
  (DistinctQueues /\ hand["submitter"] # NoTask /\ "gate {}" \notin ToSet(qasm))
    => \E k \in 0 .. Len(qasm) :
         Lists(hand["submitter"].circuit, qasm, Outside(qasm) \cap 1 .. k)

Arrived(d) ==
  \/ \E i \in DOMAIN queue[ResultQueue] : queue[ResultQueue][i].task = d
  \/ \E c \in Daemons : report[c] # NoTask /\ report[c].task = d

(* With distinct queues a task that was sent reaches the queue of results, *)
(* a daemon or the list of losses, unless a worker is not running.         *)
PipelineDelivers ==
  \A d \in Daemons :
    (DistinctQueues /\ d \in ToSet(order))
      ~> (d \in lost \/ Arrived(d) \/ \E w \in Workers : main[w] \in {"start", "down"})
=============================================================================
