------------------------- MODULE QrmWorkflow_proofs -------------------------
(***************************************************************************)
(* The QRM workflow for any daemons, environments and circuits: what the   *)
(* programs keep, where a task can be, and that the programs together are  *)
(* the line of tasks of TaskLine.                                          *)
(***************************************************************************)
EXTENDS QrmWorkflow, SequenceTheorems, FiniteSetTheorems, FunctionTheorems, TLAPS

Config == qrmLoadConfig(env)
InHand == {"process", "send"}

(* Each program is somewhere in main(), with the configuration loaded      *)
(* before it runs, and a worker has something in hand while it works.      *)
Labels ==
  /\ DOMAIN main = Programs /\ DOMAIN stored = Programs
  /\ \A w \in Workers : /\ main[w] \in {"start", "running", "process", "send", "down"}
                        /\ hand[w] # NoTask <=> main[w] \in InHand
  /\ \A d \in Daemons : main[d] \in {"start", "running", "waiting", "done", "failed", "down"}
  /\ \A p \in QrmPrograms : main[p] # "start" => stored[p] = Config

Contents ==
  /\ hand \in [Workers -> Messages \cup {NoTask}]
  /\ queue \in [QueueNames -> Seq(Messages)]
  /\ report \in [Daemons -> Messages \cup {NoTask}]
  /\ sendCh \in [QrmPrograms -> {"none", "open", "broken"}]
  /\ lost \subseteq Daemons /\ order \in Seq(Daemons) /\ faults \in 0 .. MaxFaults

(* Every task asks for its result in the queue the daemons wait for. *)
Addressed ==
  /\ \A q \in QueueNames : \A i \in DOMAIN queue[q] : queue[q][i].dest = ResultQueue
  /\ \A w \in Workers : hand[w] # NoTask => hand[w].dest = ResultQueue

(* With distinct queues what a program holds shows how far the task is. *)
Stages ==
  DistinctQueues =>
    /\ \A q \in QueueNames : \A i \in DOMAIN queue[q] :
         queue[q][i].kind = "result" <=> q = ResultQueue
    /\ \A w \in Workers : hand[w] # NoTask =>
         (hand[w].kind = "result" <=> w = "submitter" /\ main[w] = "send")

Types == scenario \in Scenarios /\ Labels /\ Contents /\ Addressed /\ Stages
-----------------------------------------------------------------------------
(* Constants of the programs. *)
LEMMA Names ==
  /\ Workers = {"scheduler", "compiler", "submitter"}
  /\ QrmPrograms = Workers \cup Daemons /\ Programs = {"qoffload"} \cup QrmPrograms
  /\ "qoffload" \notin QrmPrograms /\ Daemons \cap Workers = {}
  /\ \A w \in Workers : w \in QrmQueueFields
  /\ "results" \in QrmQueueFields
  /\ QrmQueueFields = {"scheduler", "compiler", "submitter", "results"}
BY WorkflowAssumption DEF Workers, QrmPrograms, Programs, QrmQueueFields

(* Nothing changes the scenario, nor what depends on it alone. *)
LEMMA Fixed ==
  ASSUME [Next]_vars
  PROVE /\ scenario' = scenario /\ Config' = Config /\ Messages' = Messages
        /\ DistinctQueues' = DistinctQueues /\ ResultQueue' = ResultQueue
<1>1. scenario' = scenario
  BY DEF Next, Starting, Work, WorkerReceive, WorkerReceiveNothing, WorkerSend, Compile,
         Execute, SendTask, Await, GiveUp, LoadConfig, MakeLogger, InitConfig, QrmStart,
         vars, startVars
<1> QED BY <1>1 DEF Config, Messages, DistinctQueues, ResultQueue, env

(* The queues of the configuration. *)
LEMMA ConfiguredQueues ==
  ASSUME scenario \in Scenarios
  PROVE  /\ \A f \in QrmQueueFields : Config[f] \in QueueNames
         /\ ResultQueue = Config["results"] /\ ResultQueue \in QueueNames
BY Names DEF Config, QueueNames, env, ResultQueue

(* Four names with four values are told apart. *)
LEMMA FourValues ==
  ASSUME NEW a, NEW b, NEW c, NEW d, Cardinality({a, b, c, d}) = 4
  PROVE  a # b /\ a # c /\ a # d /\ b # c /\ b # d /\ c # d
<1>1. ASSUME NEW x, NEW y, NEW z PROVE IsFiniteSet({x, y, z}) /\ Cardinality({x, y, z}) <= 3
  <2>1. IsFiniteSet({x}) /\ Cardinality({x}) = 1
    BY FS_Singleton
  <2>2. IsFiniteSet({x} \cup {y}) /\ Cardinality({x} \cup {y}) \in {1, 2}
    BY <2>1, FS_AddElement
  <2>3. /\ IsFiniteSet(({x} \cup {y}) \cup {z})
        /\ Cardinality(({x} \cup {y}) \cup {z}) \in {1, 2, 3}
    BY <2>2, FS_AddElement
  <2>4. ({x} \cup {y}) \cup {z} = {x, y, z}
    OBVIOUS
  <2> QED BY <2>3, <2>4
<1>2. ASSUME NEW x, NEW y, NEW z, {a, b, c, d} = {x, y, z} PROVE FALSE
  <2>1. ASSUME NEW S, NEW T, S = T, Cardinality(S) = 4, Cardinality(T) <= 3 PROVE FALSE
    BY <2>1
  <2>2. Cardinality({x, y, z}) <= 3
    BY <1>1
  <2> QED BY <1>2, <2>1, <2>2, Zenon
<1>3. a = b => {a, b, c, d} = {b, c, d}
  OBVIOUS
<1>4. a = c => {a, b, c, d} = {b, c, d}
  OBVIOUS
<1>5. a = d => {a, b, c, d} = {b, c, d}
  OBVIOUS
<1>6. b = c => {a, b, c, d} = {a, c, d}
  OBVIOUS
<1>7. b = d => {a, b, c, d} = {a, c, d}
  OBVIOUS
<1>8. c = d => {a, b, c, d} = {a, b, d}
  OBVIOUS
<1> QED BY <1>2, <1>3, <1>4, <1>5, <1>6, <1>7, <1>8

LEMMA Distinct ==
  ASSUME DistinctQueues
  PROVE  \A f, g \in QrmQueueFields : Config[f] = Config[g] => f = g
<1> DEFINE a == Config["scheduler"]  b == Config["compiler"]
           c == Config["submitter"]  d == Config["results"]
<1>1. {Config[f] : f \in QrmQueueFields} = {a, b, c, d}
  BY Names
<1>2. Cardinality({a, b, c, d}) = 4
  BY <1>1 DEF DistinctQueues, Config
<1>3. a # b /\ a # c /\ a # d /\ b # c /\ b # d /\ c # d
  <2> HIDE DEF a, b, c, d
  <2> QED BY <1>2, FourValues
<1> QED BY <1>3, Names

(* What a send leaves behind: the message is stored or its task is lost. *)
LEMMA SendOutcome ==
  ASSUME NEW p, NEW q, NEW msg, NEW next, NEW failed, Send(p, q, msg, next, failed),
         DOMAIN queue = QueueNames, q \in QueueNames, sendCh \in [QrmPrograms -> {"none", "open", "broken"}],
         faults \in 0 .. MaxFaults
  PROVE  /\ \/ queue' = [queue EXCEPT ![q] = Append(@, msg)] /\ lost' = lost
            \/ queue' = queue /\ lost' = lost \cup {msg.task}
         /\ main' = [main EXCEPT ![p] = next] \/ main' = [main EXCEPT ![p] = failed]
         /\ sendCh' \in [QrmPrograms -> {"none", "open", "broken"}]
         /\ faults' \in 0 .. MaxFaults
<1>1. MaxFaults \in Nat
  BY WorkflowAssumption
<1>2. faults' = faults \/ (faults < MaxFaults /\ faults' = faults + 1)
  BY DEF Send, Fault
<1>3. faults' \in 0 .. MaxFaults
  BY <1>1, <1>2
<1>4. sendCh' \in [QrmPrograms -> {"none", "open", "broken"}]
  BY DEF Send
<1> QED BY <1>3, <1>4 DEF Send, Goto
-----------------------------------------------------------------------------
LEMMA InitTypes == Init => Types
<1> SUFFICES ASSUME Init PROVE Types
  OBVIOUS
<1>1. scenario \in Scenarios
  BY DEF Init, StartInit
<1>2. Labels
  BY Names DEF Init, StartInit, Labels, InHand
<1>3. Contents
  BY WorkflowAssumption DEF Init, Contents
<1>4. Addressed /\ Stages
  BY DEF Init, Addressed, Stages
<1> QED BY <1>1, <1>2, <1>3, <1>4 DEF Types

(* Starting a program touches neither queues nor hands. *)
LEMMA TypesStart == ASSUME Types, Starting, [Next]_vars PROVE Types'
<1>0. UNCHANGED flowVars /\ scenario' = scenario
  BY Fixed DEF Starting
<1>1. Contents' /\ Addressed'
  BY <1>0, Fixed DEF Types, Contents, Addressed, flowVars
<1>2. ASSUME \/ LoadConfig \/ MakeLogger \/ InitConfig
      PROVE \A p \in QrmPrograms : main'[p] = main[p] /\ stored'[p] = stored[p]
  <2>1. DOMAIN main = Programs /\ DOMAIN stored = Programs
    BY DEF Types, Labels
  <2> QED BY <1>2, <2>1, Names DEF LoadConfig, MakeLogger, InitConfig, Goto
<1>3. ASSUME \/ LoadConfig \/ MakeLogger \/ InitConfig
      PROVE DOMAIN main' = Programs /\ DOMAIN stored' = Programs
  BY <1>3 DEF LoadConfig, MakeLogger, InitConfig, Goto, Types, Labels
<1>4. ASSUME NEW p \in QrmPrograms, QrmStart(p)
      PROVE  /\ DOMAIN main' = Programs /\ DOMAIN stored' = Programs
             /\ main[p] = "start" /\ main'[p] \in {"running", "down"} /\ stored'[p] = Config
             /\ \A r \in QrmPrograms : r # p => main'[r] = main[r] /\ stored'[r] = stored[r]
  BY <1>4, Names DEF QrmStart, Goto, Types, Labels, Config
<1>5. Labels'
  <2>1. CASE LoadConfig \/ MakeLogger \/ InitConfig
    BY <1>0, <1>2, <1>3, <2>1, Names, Fixed DEF Types, Labels, flowVars
  <2>2. ASSUME NEW p \in QrmPrograms, QrmStart(p) PROVE Labels'
    <3>1. \A w \in Workers : /\ main'[w] \in {"start", "running", "process", "send", "down"}
                             /\ hand'[w] # NoTask <=> main'[w] \in InHand
      BY <1>0, <1>4, <2>2, Names DEF Types, Labels, flowVars, InHand
    <3>2. \A d \in Daemons :
            main'[d] \in {"start", "running", "waiting", "done", "failed", "down"}
      BY <1>4, <2>2, Names DEF Types, Labels
    <3>3. \A r \in QrmPrograms : main'[r] # "start" => stored'[r] = Config'
      BY <1>4, <2>2, Fixed DEF Types, Labels
    <3> QED BY <1>4, <2>2, <3>1, <3>2, <3>3 DEF Labels
  <2> QED BY <2>1, <2>2 DEF Starting
<1>6. Stages'
  <2>1. \A w \in Workers : hand[w] # NoTask => main'[w] = main[w]
    BY <1>2, <1>4, Names DEF Starting, Types, Labels, InHand
  <2> QED BY <1>0, <2>1, Fixed DEF Types, Stages, flowVars
<1> QED BY <1>0, <1>1, <1>5, <1>6 DEF Types
-----------------------------------------------------------------------------
(* The queue after n messages were pushed to a receiver. *)
LEMMA TakenQueue ==
  ASSUME Types, NEW q \in QueueNames, NEW n \in 0 .. Len(queue[q]), NEW kept \in {0, 1},
         Taken(q, n, kept)
  PROVE  /\ queue' \in [QueueNames -> Seq(Messages)]
         /\ \A r \in QueueNames : r # q => queue'[r] = queue[r]
         /\ queue'[q] = SubSeq(queue[q], n + 1, Len(queue[q]))
         /\ Len(queue'[q]) = Len(queue[q]) - n
         /\ \A i \in 1 .. Len(queue[q]) - n : queue'[q][i] = queue[q][i + n]
         /\ lost' = lost \cup {queue[q][i].task : i \in kept + 1 .. n}
         /\ lost' \subseteq Daemons
<1> DEFINE s == queue[q]  l == Len(queue[q])  rest == SubSeq(s, n + 1, l)
<1>1. queue \in [QueueNames -> Seq(Messages)] /\ lost \subseteq Daemons
  BY DEF Types, Contents
<1>2. s \in Seq(Messages) /\ l \in Nat /\ DOMAIN s = 1 .. l
  BY <1>1, LenProperties
<1>3. \A i \in 1 .. l : s[i] \in Messages
  BY <1>2, ElementOfSeq
<1>4. queue' = [queue EXCEPT ![q] = rest]
      /\ lost' = lost \cup {s[i].task : i \in kept + 1 .. n}
  BY DEF Taken
<1>5. /\ rest \in Seq(Messages) /\ Len(rest) = l - n
      /\ \A i \in 1 .. l - n : rest[i] = s[i + n]
  <2>1. n \in Nat /\ n <= l
    BY <1>2
  <2>2. n + 1 \in Int /\ l \in Int /\ \A i \in n + 1 .. l : s[i] \in Messages
    BY <1>2, <1>3, <2>1
  <2> HIDE DEF s, l
  <2>3. /\ rest \in Seq(Messages)
        /\ Len(rest) = IF n + 1 <= l THEN l - (n + 1) + 1 ELSE 0
        /\ \A i \in 1 .. l - (n + 1) + 1 : rest[i] = s[(n + 1) + i - 1]
    BY <2>2, SubSeqProperties
  <2>4. Len(rest) = l - n
    BY <1>2, <2>1, <2>3
  <2>5. ASSUME NEW i \in 1 .. l - n PROVE rest[i] = s[i + n]
    <3>1. i \in 1 .. l - (n + 1) + 1 /\ (n + 1) + i - 1 = i + n
      BY <1>2, <2>1
    <3>2. rest[i] = s[(n + 1) + i - 1]
      BY <2>3, <3>1
    <3> QED BY <3>1, <3>2
  <2> QED BY <2>3, <2>4, <2>5
<1>6. \A i \in kept + 1 .. n : s[i].task \in Daemons
  <2>1. \A i \in kept + 1 .. n : i \in 1 .. l
    BY <1>2
  <2> QED BY <1>3, <2>1 DEF Messages, MessagesOf
<1> HIDE DEF s, l, rest
<1>7. queue'[q] = rest /\ queue' \in [QueueNames -> Seq(Messages)]
      /\ \A r \in QueueNames : r # q => queue'[r] = queue[r]
  BY <1>1, <1>4, <1>5
<1>8. lost' \subseteq Daemons
  BY <1>1, <1>4, <1>6
<1> QED BY <1>4, <1>5, <1>7, <1>8 DEF s, l, rest

(* What is left in the queues was there before. *)
LEMMA TakenFrom ==
  ASSUME Types, NEW q \in QueueNames, NEW n \in 0 .. Len(queue[q]), NEW kept \in {0, 1},
         Taken(q, n, kept)
  PROVE  \A r \in QueueNames : \A i \in DOMAIN queue'[r] :
           \E j \in DOMAIN queue[r] : queue'[r][i] = queue[r][j]
<1> TAKE r \in QueueNames
<1> TAKE i \in DOMAIN queue'[r]
<1>1. queue[r] \in Seq(Messages) /\ queue'[r] \in Seq(Messages)
  BY TakenQueue DEF Types, Contents
<1>2. CASE r # q
  BY <1>2, TakenQueue
<1>3. CASE r = q
  <2>1. /\ DOMAIN queue[q] = 1 .. Len(queue[q]) /\ Len(queue[q]) \in Nat
        /\ DOMAIN queue'[q] = 1 .. Len(queue'[q])
    BY <1>1, <1>3, LenProperties
  <2>2. Len(queue'[q]) = Len(queue[q]) - n
    BY TakenQueue
  <2>3. i \in 1 .. Len(queue[q]) - n /\ i + n \in DOMAIN queue[q]
    BY <1>3, <2>1, <2>2
  <2>4. queue'[q][i] = queue[q][i + n]
    <3>1. \A k \in 1 .. Len(queue[q]) - n : queue'[q][k] = queue[q][k + n]
      BY TakenQueue
    <3> QED BY <2>3, <3>1
  <2> QED BY <1>3, <2>3, <2>4
<1> QED BY <1>2, <1>3

(* The queue after a message was stored. *)
LEMMA AddedQueue ==
  ASSUME Types, NEW q \in QueueNames, NEW msg \in Messages,
         queue' = [queue EXCEPT ![q] = Append(@, msg)]
  PROVE  /\ queue' \in [QueueNames -> Seq(Messages)]
         /\ \A r \in QueueNames : r # q => queue'[r] = queue[r]
         /\ queue'[q] = Append(queue[q], msg)
         /\ Len(queue'[q]) = Len(queue[q]) + 1
         /\ \A i \in 1 .. Len(queue[q]) : queue'[q][i] = queue[q][i]
         /\ queue'[q][Len(queue[q]) + 1] = msg
<1>1. queue \in [QueueNames -> Seq(Messages)] /\ queue[q] \in Seq(Messages)
  BY DEF Types, Contents
<1>2. queue'[q] = Append(queue[q], msg)
  BY <1>1
<1>3. /\ Append(queue[q], msg) \in Seq(Messages)
      /\ Len(Append(queue[q], msg)) = Len(queue[q]) + 1
      /\ \A i \in 1 .. Len(queue[q]) : Append(queue[q], msg)[i] = queue[q][i]
      /\ Append(queue[q], msg)[Len(queue[q]) + 1] = msg
  BY <1>1, AppendProperties
<1>4. queue' \in [QueueNames -> Seq(Messages)]
      /\ \A r \in QueueNames : r # q => queue'[r] = queue[r]
  BY <1>1, <1>3
<1> QED BY <1>2, <1>3, <1>4

LEMMA AddedFrom ==
  ASSUME Types, NEW q \in QueueNames, NEW msg \in Messages,
         queue' = [queue EXCEPT ![q] = Append(@, msg)]
  PROVE  \A r \in QueueNames : \A i \in DOMAIN queue'[r] :
           \/ \E j \in DOMAIN queue[r] : queue'[r][i] = queue[r][j]
           \/ r = q /\ queue'[r][i] = msg
<1> TAKE r \in QueueNames
<1> TAKE i \in DOMAIN queue'[r]
<1>1. queue[r] \in Seq(Messages) /\ queue'[r] \in Seq(Messages)
  BY AddedQueue DEF Types, Contents
<1>2. CASE r # q
  BY <1>2, AddedQueue
<1>3. CASE r = q
  <2>1. /\ DOMAIN queue[q] = 1 .. Len(queue[q]) /\ Len(queue[q]) \in Nat
        /\ DOMAIN queue'[q] = 1 .. Len(queue'[q])
    BY <1>1, <1>3, LenProperties
  <2>2. Len(queue'[q]) = Len(queue[q]) + 1
    BY AddedQueue
  <2>3. i \in 1 .. Len(queue[q]) \/ i = Len(queue[q]) + 1
    BY <1>3, <2>1, <2>2
  <2> QED BY <1>3, <2>1, <2>3, AddedQueue
<1> QED BY <1>2, <1>3
-----------------------------------------------------------------------------
(* The labels after a program went on and, if it is a worker, its hand     *)
(* became full or empty with it.                                           *)
LEMMA TypesLabels ==
  ASSUME Types, [Next]_vars, stored' = stored, hand \in [Workers -> Messages \cup {NoTask}],
         NEW p \in QrmPrograms, NEW label, main' = [main EXCEPT ![p] = label],
         main[p] # "start",
         p \in Workers =>
           /\ label \in {"running", "process", "send", "down"}
           /\ hand'[p] # NoTask <=> label \in InHand,
         \A w \in Workers : w # p => hand'[w] = hand[w],
         p \in Daemons => label \in {"waiting", "done", "failed"}
  PROVE  Labels'
<1>1. DOMAIN main' = Programs /\ DOMAIN stored' = Programs /\ main'[p] = label
      /\ \A r \in QrmPrograms : r # p => main'[r] = main[r]
  BY Names DEF Types, Labels
<1>2. \A w \in Workers : /\ main'[w] \in {"start", "running", "process", "send", "down"}
                         /\ hand'[w] # NoTask <=> main'[w] \in InHand
  <2> TAKE w \in Workers
  <2>1. CASE w = p
    BY <1>1, <2>1 DEF Types
  <2>2. CASE w # p
    <3>1. /\ main[w] \in {"start", "running", "process", "send", "down"}
          /\ hand[w] # NoTask <=> main[w] \in InHand
      BY DEF Types, Labels
    <3>2. main'[w] = main[w] /\ hand'[w] = hand[w]
      BY <1>1, <2>2, Names
    <3> QED BY <3>1, <3>2
  <2> QED BY <2>1, <2>2
<1>3. \A d \in Daemons :
        main'[d] \in {"start", "running", "waiting", "done", "failed", "down"}
  BY <1>1, Names DEF Types, Labels
<1>4. \A r \in QrmPrograms : main'[r] # "start" => stored'[r] = Config'
  BY <1>1, Fixed DEF Types, Labels
<1> QED BY <1>1, <1>2, <1>3, <1>4 DEF Labels

(* Messages that only move keep their address and their stage. *)
LEMMA TypesQueues ==
  ASSUME Types, [Next]_vars,
         \A r \in QueueNames : \A i \in DOMAIN queue'[r] :
           \/ \E j \in DOMAIN queue[r] : queue'[r][i] = queue[r][j]
           \/ /\ queue'[r][i].dest = ResultQueue
              /\ DistinctQueues => (queue'[r][i].kind = "result" <=> r = ResultQueue),
         \A w \in Workers :
           \/ hand'[w] = NoTask
           \/ hand'[w] = hand[w] /\ main'[w] = main[w]
           \/ /\ hand'[w].dest = ResultQueue
              /\ DistinctQueues =>
                   (hand'[w].kind = "result" <=> w = "submitter" /\ main'[w] = "send")
  PROVE  Addressed' /\ Stages'
<1>1. Addressed'
  BY Fixed DEF Types, Addressed
<1>2. Stages'
  <2>1. CASE ~DistinctQueues
    BY <2>1, Fixed DEF Stages
  <2>2. CASE DistinctQueues
    <3>1. ASSUME NEW r \in QueueNames, NEW i \in DOMAIN queue'[r]
          PROVE  queue'[r][i].kind = "result" <=> r = ResultQueue
      BY <2>2, <3>1 DEF Types, Stages
    <3>2. ASSUME NEW w \in Workers, hand'[w] # NoTask
          PROVE  hand'[w].kind = "result" <=> w = "submitter" /\ main'[w] = "send"
      BY <2>2, <3>2 DEF Types, Stages
    <3> QED BY <3>1, <3>2, Fixed DEF Stages
  <2> QED BY <2>1, <2>2
<1> QED BY <1>1, <1>2

(* A worker's queue, and its first message. *)
LEMMA OwnQueue ==
  ASSUME Types, NEW p \in QrmPrograms, main[p] # "start", NEW f \in QrmQueueFields
  PROVE  stored[p][f] = Config[f] /\ Config[f] \in QueueNames
BY ConfiguredQueues DEF Types, Labels

LEMMA FirstMessage ==
  ASSUME Types, NEW q \in QueueNames, queue[q] # <<>>
  PROVE  /\ 1 \in DOMAIN queue[q] /\ queue[q][1] \in Messages /\ queue[q][1] # NoTask
         /\ Len(queue[q]) \in Nat \ {0}
<1>1. queue[q] \in Seq(Messages) /\ scenario \in Scenarios
  BY DEF Types, Contents
<1>2. Len(queue[q]) \in Nat \ {0} /\ DOMAIN queue[q] = 1 .. Len(queue[q])
  BY <1>1, EmptySeq, LenProperties
<1>3. 1 \in 1 .. Len(queue[q])
  BY <1>2
<1>4. queue[q][1] \in Messages
  BY <1>1, <1>3, ElementOfSeq
<1> QED BY <1>1, <1>2, <1>3, <1>4, WorkflowAssumption DEF Messages

LEMMA TypesReceive ==
  ASSUME Types, [Next]_vars, NEW w \in Workers, WorkerReceive(w) PROVE Types'
<1> DEFINE q == stored[w][w]  label == IF w = "scheduler" THEN "send" ELSE "process"
<1>0. /\ main[w] = "running" /\ queue[q] # <<>>
      /\ hand' = [hand EXCEPT ![w] = queue[q][1]] /\ main' = [main EXCEPT ![w] = label]
      /\ UNCHANGED <<stored, sendCh, faults, report, order>>
  BY DEF WorkerReceive, Receive, Goto
<1>1. q = Config[w] /\ q \in QueueNames
  BY <1>0, OwnQueue, Names
<1>2. PICK n \in 1 .. Len(queue[q]) : Taken(q, n, 1)
  BY DEF WorkerReceive, Receive
<1>3. label \in InHand
  BY DEF InHand
<1> HIDE DEF q, label
<1>4. 1 \in DOMAIN queue[q] /\ queue[q][1] \in Messages /\ queue[q][1] # NoTask
  BY <1>0, <1>1, FirstMessage
<1>5. n \in 0 .. Len(queue[q])
  BY <1>0, <1>1, FirstMessage
<1>6. /\ hand \in [Workers -> Messages \cup {NoTask}] /\ hand'[w] = queue[q][1]
      /\ \A v \in Workers : v # w => hand'[v] = hand[v]
  BY <1>0 DEF Types, Contents
<1>7. Labels'
  BY <1>0, <1>3, <1>4, <1>6, Names, TypesLabels DEF InHand
<1>8. Contents'
  <2>1. queue' \in [QueueNames -> Seq(Messages)] /\ lost' \subseteq Daemons
    BY <1>1, <1>2, <1>5, TakenQueue
  <2> QED BY <1>0, <1>4, <2>1, Fixed DEF Types, Contents
<1>9. Addressed' /\ Stages'
  <2>1. \A r \in QueueNames : \A i \in DOMAIN queue'[r] :
          \E j \in DOMAIN queue[r] : queue'[r][i] = queue[r][j]
    BY <1>1, <1>2, <1>5, TakenFrom
  <2>2. queue[q][1].dest = ResultQueue
    BY <1>1, <1>4 DEF Types, Addressed
  <2>3. DistinctQueues =>
          (queue[q][1].kind = "result" <=> w = "submitter" /\ main'[w] = "send")
    <3> SUFFICES ASSUME DistinctQueues
                 PROVE  queue[q][1].kind # "result" /\ ~(w = "submitter" /\ main'[w] = "send")
      OBVIOUS
    <3>1. q # ResultQueue
      BY <1>1, Names, Distinct, ConfiguredQueues DEF Types
    <3>2. main'[w] = label
      BY <1>0, Names DEF Types, Labels
    <3> QED BY <1>1, <1>4, <3>1, <3>2 DEF Types, Stages, label
  <2>4. \A v \in Workers : v # w => main'[v] = main[v] /\ hand'[v] = hand[v]
    BY <1>0, <1>6, Names DEF Types, Labels
  <2> QED BY <1>6, <2>1, <2>2, <2>3, <2>4, TypesQueues
<1> QED BY <1>7, <1>8, <1>9, Fixed DEF Types

LEMMA TypesReceiveNothing ==
  ASSUME Types, [Next]_vars, NEW w \in Workers, WorkerReceiveNothing(w) PROVE Types'
<1> DEFINE q == stored[w][w]
<1>0. main[w] = "running" /\ UNCHANGED <<startVars, hand, sendCh, faults, report, order>>
  BY DEF WorkerReceiveNothing
<1>1. q = Config[w] /\ q \in QueueNames
  BY <1>0, OwnQueue, Names
<1>2. PICK n \in 1 .. Len(queue[q]) : Taken(q, n, 0)
  BY DEF WorkerReceiveNothing
<1> HIDE DEF q
<1>3. queue[q] \in Seq(Messages) /\ Len(queue[q]) \in Nat
  BY <1>1, LenProperties DEF Types, Contents
<1>4. n \in 0 .. Len(queue[q])
  BY <1>3
<1>5. Labels'
  BY <1>0, Fixed DEF Types, Labels, startVars
<1>6. queue' \in [QueueNames -> Seq(Messages)] /\ lost' \subseteq Daemons
  BY <1>1, <1>2, <1>4, TakenQueue
<1>7. Contents'
  BY <1>0, <1>6, Fixed DEF Types, Contents
<1>8. \A r \in QueueNames : \A i \in DOMAIN queue'[r] :
        \E j \in DOMAIN queue[r] : queue'[r][i] = queue[r][j]
  BY <1>1, <1>2, <1>4, TakenFrom
<1>9. Addressed' /\ Stages'
  BY <1>0, <1>8, TypesQueues DEF startVars
<1> QED BY <1>5, <1>7, <1>9, Fixed DEF Types

(* A message in a worker's hand. *)
LEMMA HeldMessage ==
  ASSUME Types, NEW w \in Workers, main[w] \in InHand
  PROVE  /\ hand[w] \in Messages /\ hand[w] # NoTask /\ hand[w].task \in Daemons
         /\ hand[w].dest = ResultQueue /\ ResultQueue \in QueueNames
<1>1. hand[w] \in Messages /\ hand[w] # NoTask
  BY DEF Types, Labels, Contents
<1>2. hand[w].task \in Daemons
  BY <1>1 DEF Messages, MessagesOf
<1> QED BY <1>1, <1>2, ConfiguredQueues DEF Types, Addressed

(* A worker sends to the queue of the next stage. *)
LEMMA NextStage ==
  ASSUME Types, NEW w \in Workers, main[w] \in InHand
  PROVE  /\ w = "scheduler" => Destination(w) = Config["compiler"]
         /\ w = "compiler" => Destination(w) = Config["submitter"]
         /\ w = "submitter" => Destination(w) = Config["results"]
         /\ Destination(w) \in QueueNames
<1>1. main[w] # "start" /\ w \in QrmPrograms
  BY Names DEF InHand
<1>2. \A f \in QrmQueueFields : stored[w][f] = Config[f] /\ Config[f] \in QueueNames
  BY <1>1, OwnQueue
<1>3. w = "scheduler" => Destination(w) = Config["compiler"]
  BY <1>2, Names DEF Destination
<1>4. w = "compiler" => Destination(w) = Config["submitter"]
  BY <1>2, Names DEF Destination
<1>5. w = "submitter" => Destination(w) = Config["results"]
  <2>1. hand[w].dest = Config["results"]
    BY HeldMessage, ConfiguredQueues DEF Types
  <2> QED BY <2>1 DEF Destination
<1> QED BY <1>2, <1>3, <1>4, <1>5, Names

LEMMA TypesSend ==
  ASSUME Types, [Next]_vars, NEW w \in Workers, WorkerSend(w) PROVE Types'
<1> DEFINE q == Destination(w)  msg == hand[w]
<1>0. /\ main[w] = "send" /\ Send(w, q, msg, "running", "running")
      /\ hand' = [hand EXCEPT ![w] = NoTask] /\ UNCHANGED <<stored, report, order>>
  BY DEF WorkerSend
<1>1. main[w] \in InHand
  BY <1>0 DEF InHand
<1>2. q \in QueueNames /\ msg \in Messages /\ msg.task \in Daemons /\ msg.dest = ResultQueue
      /\ msg # NoTask
  BY <1>1, HeldMessage, NextStage
<1> HIDE DEF q, msg
<1>3. /\ \/ queue' = [queue EXCEPT ![q] = Append(@, msg)] /\ lost' = lost
         \/ queue' = queue /\ lost' = lost \cup {msg.task}
      /\ main' = [main EXCEPT ![w] = "running"]
      /\ sendCh' \in [QrmPrograms -> {"none", "open", "broken"}] /\ faults' \in 0 .. MaxFaults
  BY <1>0, <1>2, SendOutcome DEF Types, Contents
<1>4. hand \in [Workers -> Messages \cup {NoTask}]
      /\ hand'[w] = NoTask /\ \A v \in Workers : v # w => hand'[v] = hand[v]
  BY <1>0 DEF Types, Contents
<1>5. Labels'
  BY <1>0, <1>3, <1>4, Names, TypesLabels DEF InHand
<1>6. Contents'
  <2>1. queue' \in [QueueNames -> Seq(Messages)]
    BY <1>2, <1>3, AddedQueue DEF Types, Contents
  <2> QED BY <1>0, <1>2, <1>3, <2>1, Fixed DEF Types, Contents
<1>7. DistinctQueues => (msg.kind = "result" <=> q = ResultQueue)
  <2> SUFFICES ASSUME DistinctQueues PROVE msg.kind = "result" <=> q = ResultQueue
    OBVIOUS
  <2>1. msg.kind = "result" <=> w = "submitter"
    BY <1>0, <1>2 DEF Types, Stages, msg
  <2>2. ResultQueue = Config["results"]
    BY ConfiguredQueues DEF Types
  <2>3. Config["compiler"] # ResultQueue /\ Config["submitter"] # ResultQueue
    BY <2>2, Distinct, Names
  <2> QED BY <1>1, <2>1, <2>2, <2>3, NextStage, Names DEF q
<1>8. Addressed' /\ Stages'
  <2>1. \A r \in QueueNames : \A i \in DOMAIN queue'[r] :
          \/ \E j \in DOMAIN queue[r] : queue'[r][i] = queue[r][j]
          \/ r = q /\ queue'[r][i] = msg
    BY <1>2, <1>3, AddedFrom
  <2>2. \A v \in Workers : v # w => main'[v] = main[v]
    BY <1>3, Names DEF Types, Labels
  <2>3. \A r \in QueueNames : \A i \in DOMAIN queue'[r] :
          \/ \E j \in DOMAIN queue[r] : queue'[r][i] = queue[r][j]
          \/ /\ queue'[r][i].dest = ResultQueue
             /\ DistinctQueues => (queue'[r][i].kind = "result" <=> r = ResultQueue)
    BY <1>2, <1>7, <2>1
  <2> QED BY <1>4, <2>2, <2>3, TypesQueues
<1> QED BY <1>5, <1>6, <1>8, Fixed DEF Types

(* A worker puts down what it holds. *)
LEMMA TypesDrop ==
  ASSUME Types, [Next]_vars, NEW w \in Workers, main[w] \in InHand,
         NEW label \in {"running", "down"}, main' = [main EXCEPT ![w] = label],
         lost' = lost \cup {hand[w].task}, hand' = [hand EXCEPT ![w] = NoTask],
         UNCHANGED <<stored, queue, sendCh, faults, report, order>>
  PROVE  Types'
<1>1. hand \in [Workers -> Messages \cup {NoTask}]
      /\ hand'[w] = NoTask /\ \A v \in Workers : v # w => hand'[v] = hand[v]
  BY DEF Types, Contents
<1>2. Labels'
  BY <1>1, Names, TypesLabels DEF InHand
<1>3. Contents'
  BY HeldMessage, Fixed DEF Types, Contents
<1>4. \A v \in Workers : v # w => main'[v] = main[v]
  BY Names DEF Types, Labels
<1>5. Addressed' /\ Stages'
  BY <1>1, <1>4, TypesQueues
<1> QED BY <1>2, <1>3, <1>5, Fixed DEF Types

(* A worker has done its work on what it holds. *)
LEMMA TypesProcess ==
  ASSUME Types, [Next]_vars, NEW w \in Workers, main[w] = "process",
         NEW msg \in Messages, msg.dest = hand[w].dest,
         DistinctQueues => (msg.kind = "result" <=> w = "submitter"),
         hand' = [hand EXCEPT ![w] = msg], main' = [main EXCEPT ![w] = "send"],
         UNCHANGED <<stored, queue, sendCh, faults, report, order, lost>>
  PROVE  Types'
<1>0. main[w] \in InHand /\ msg # NoTask
  BY WorkflowAssumption DEF InHand, Types, Messages
<1>1. hand \in [Workers -> Messages \cup {NoTask}]
      /\ hand'[w] = msg /\ \A v \in Workers : v # w => hand'[v] = hand[v]
  BY DEF Types, Contents
<1>2. Labels'
  BY <1>0, <1>1, Names, TypesLabels DEF InHand
<1>3. Contents'
  BY Fixed DEF Types, Contents
<1>4. main'[w] = "send" /\ \A v \in Workers : v # w => main'[v] = main[v]
  BY Names DEF Types, Labels
<1>5. msg.dest = ResultQueue
  BY <1>0, HeldMessage
<1>6. Addressed' /\ Stages'
  BY <1>1, <1>4, <1>5, TypesQueues
<1> QED BY <1>2, <1>3, <1>6, Fixed DEF Types

(* The compiler only produces outputs of the scenario, and only from the   *)
(* path of an MLIR file.                                                   *)
LEMMA CompiledCircuit ==
  ASSUME NEW circuit, NEW out \in applyOptimizationPasses(circuit)
  PROVE  /\ circuit = Mlir
         /\ out \in {stripSpuriousGateDefs(SubSeq(scenario.qasm, 1, k)) :
                       k \in 0 .. Len(scenario.qasm)}
<1>1. PICK low \in lowerToOutputFormat(circuit) : out = stripSpuriousGateDefs(low)
  BY DEF applyOptimizationPasses
<1>2. PICK k \in {j \in 0 .. Len(scenario.qasm) : circuit = Mlir} :
        low = SubSeq(scenario.qasm, 1, k)
  BY DEF lowerToOutputFormat
<1> QED BY <1>1, <1>2

LEMMA TypesCompile == ASSUME Types, [Next]_vars, Compile PROVE Types'
<1> DEFINE w == "compiler"
<1>0. /\ w \in Workers /\ main[w] = "process" /\ main[w] \in InHand
      /\ UNCHANGED <<stored, queue, sendCh, faults, report, order>>
  BY Names DEF Compile, InHand
<1>1. CASE /\ \E out \in applyOptimizationPasses(hand[w].circuit) :
                hand' = [hand EXCEPT ![w].circuit = out]
           /\ Goto(w, "send") /\ UNCHANGED lost
  <2>1. PICK out \in applyOptimizationPasses(hand[w].circuit) :
          hand' = [hand EXCEPT ![w].circuit = out]
    BY <1>1
  <2> DEFINE msg == [hand[w] EXCEPT !.circuit = out]
  <2>2. hand[w] \in Messages
    BY <1>0, HeldMessage
  <2>3. msg \in Messages
    BY <2>2, CompiledCircuit DEF Messages, MessagesOf
  <2>4. msg.dest = hand[w].dest /\ msg.kind = hand[w].kind
    BY <2>2 DEF Messages, MessagesOf
  <2>5. hand' = [hand EXCEPT ![w] = msg]
    BY <2>1
  <2>6. DistinctQueues => (msg.kind = "result" <=> w = "submitter")
    BY <1>0, <2>4, HeldMessage DEF Types, Stages
  <2>7. main' = [main EXCEPT ![w] = "send"] /\ lost' = lost
    BY <1>1 DEF Goto
  <2> HIDE DEF msg, w
  <2> QED BY <1>0, <2>3, <2>4, <2>5, <2>6, <2>7, TypesProcess
<1>2. CASE /\ lost' = lost \cup {hand[w].task} /\ hand' = [hand EXCEPT ![w] = NoTask]
           /\ Goto(w, "running")
  <2> HIDE DEF w
  <2> QED BY <1>0, <1>2, TypesDrop DEF Goto
<1>3. CASE Die(w)
  <2> HIDE DEF w
  <2> QED BY <1>0, <1>3, TypesDrop DEF Goto, Die
<1> QED BY <1>1, <1>2, <1>3 DEF Compile

LEMMA TypesExecute == ASSUME Types, [Next]_vars, Execute PROVE Types'
<1> DEFINE w == "submitter"
<1>0. /\ w \in Workers /\ main[w] = "process" /\ main[w] \in InHand
      /\ UNCHANGED <<stored, queue, sendCh, faults, report, order>>
  BY Names DEF Execute, InHand
<1>1. CASE /\ hand' = [hand EXCEPT ![w] = createAndSubmitQDMIJobToQDMIDevice(@)]
           /\ Goto(w, "send") /\ UNCHANGED lost
  <2> DEFINE msg == [hand[w] EXCEPT !.kind = "result"]
  <2>1. hand[w] \in Messages
    BY <1>0, HeldMessage
  <2>2. msg \in Messages /\ msg.dest = hand[w].dest /\ msg.kind = "result"
    BY <2>1 DEF Messages, MessagesOf
  <2>3. hand' = [hand EXCEPT ![w] = msg]
    BY <1>1 DEF createAndSubmitQDMIJobToQDMIDevice
  <2>4. main' = [main EXCEPT ![w] = "send"] /\ lost' = lost
    BY <1>1 DEF Goto
  <2>5. w = "submitter"
    OBVIOUS
  <2> HIDE DEF msg, w
  <2> QED BY <1>0, <2>2, <2>3, <2>4, <2>5, TypesProcess
<1>2. CASE Die(w)
  <2> HIDE DEF w
  <2> QED BY <1>0, <1>2, TypesDrop DEF Goto, Die
<1> QED BY <1>1, <1>2 DEF Execute

(* The task a daemon sends. *)
NewTask(d) == [kind |-> "task", task |-> d, id |-> 111, circuit |-> Mlir, dest |-> ResultQueue]

LEMMA NewTaskMessage ==
  ASSUME Types, NEW d \in Daemons
  PROVE  /\ NewTask(d) \in Messages /\ NewTask(d).task = d /\ NewTask(d).kind = "task"
         /\ NewTask(d).dest = ResultQueue
BY ConfiguredQueues DEF Types, NewTask, Messages, MessagesOf

LEMMA TypesSendTask ==
  ASSUME Types, [Next]_vars, NEW d \in Daemons, SendTask(d) PROVE Types'
<1> DEFINE q == Config["scheduler"]  msg == NewTask(d)
<1>0. main[d] = "running" /\ d \in QrmPrograms /\ UNCHANGED <<stored, hand, report>>
      /\ order' = Append(order, d)
  BY Names DEF SendTask
<1>1. stored[d].scheduler = q /\ stored[d].results = ResultQueue /\ q \in QueueNames
  BY <1>0, OwnQueue, Names, ConfiguredQueues DEF Types
<1>2. Send(d, q, msg, "waiting", "failed")
  BY <1>1 DEF SendTask, NewTask
<1>3. msg \in Messages /\ msg.task = d /\ msg.kind = "task" /\ msg.dest = ResultQueue
  BY NewTaskMessage
<1> HIDE DEF q, msg
<1>4. /\ \/ queue' = [queue EXCEPT ![q] = Append(@, msg)] /\ lost' = lost
         \/ queue' = queue /\ lost' = lost \cup {msg.task}
      /\ main' = [main EXCEPT ![d] = "waiting"] \/ main' = [main EXCEPT ![d] = "failed"]
      /\ sendCh' \in [QrmPrograms -> {"none", "open", "broken"}] /\ faults' \in 0 .. MaxFaults
  BY <1>1, <1>2, SendOutcome DEF Types, Contents
<1>5. Labels'
  BY <1>0, <1>4, Names, TypesLabels DEF Types, Contents
<1>6. Contents'
  <2>1. queue' \in [QueueNames -> Seq(Messages)]
    BY <1>1, <1>3, <1>4, AddedQueue DEF Types, Contents
  <2>2. order' \in Seq(Daemons)
    BY <1>0, AppendProperties DEF Types, Contents
  <2> QED BY <1>0, <1>3, <1>4, <2>1, <2>2, Fixed DEF Types, Contents
<1>7. Addressed' /\ Stages'
  <2>1. \A r \in QueueNames : \A i \in DOMAIN queue'[r] :
          \/ \E j \in DOMAIN queue[r] : queue'[r][i] = queue[r][j]
          \/ r = q /\ queue'[r][i] = msg
    BY <1>1, <1>3, <1>4, AddedFrom
  <2>2. \A v \in Workers : main'[v] = main[v] /\ hand'[v] = hand[v]
    BY <1>0, <1>4, Names DEF Types, Labels
  <2>3. DistinctQueues => q # ResultQueue
    BY Distinct, ConfiguredQueues, Names DEF q, Types
  <2>4. \A r \in QueueNames : \A i \in DOMAIN queue'[r] :
          \/ \E j \in DOMAIN queue[r] : queue'[r][i] = queue[r][j]
          \/ /\ queue'[r][i].dest = ResultQueue
             /\ DistinctQueues => (queue'[r][i].kind = "result" <=> r = ResultQueue)
    BY <1>3, <2>1, <2>3
  <2> QED BY <2>2, <2>4, TypesQueues
<1> QED BY <1>5, <1>6, <1>7, Fixed DEF Types

(* A daemon that waits ends. *)
LEMMA TypesEnd ==
  ASSUME Types, [Next]_vars, NEW d \in Daemons, main[d] = "waiting",
         NEW label \in {"done", "failed"}, main' = [main EXCEPT ![d] = label],
         NEW q \in QueueNames, NEW n \in 0 .. Len(queue[q]), NEW kept \in {0, 1},
         Taken(q, n, kept), report' \in [Daemons -> Messages \cup {NoTask}],
         UNCHANGED <<stored, hand, sendCh, faults, order>>
  PROVE  Types'
<1>1. Labels'
  BY Names, TypesLabels DEF Types, Contents
<1>2. Contents'
  BY TakenQueue, Fixed DEF Types, Contents
<1>3. \A v \in Workers : main'[v] = main[v] /\ hand'[v] = hand[v]
  BY Names DEF Types, Labels
<1>4. Addressed' /\ Stages'
  BY <1>3, TakenFrom, TypesQueues
<1> QED BY <1>1, <1>2, <1>4, Fixed DEF Types

LEMMA TypesDaemon ==
  ASSUME Types, [Next]_vars, NEW d \in Daemons, Await(d) \/ GiveUp(d) PROVE Types'
<1> DEFINE q == Config["results"]
<1>0. main[d] = "waiting" /\ UNCHANGED <<stored, hand, sendCh, faults, order>>
  BY DEF Await, GiveUp
<1>1. stored[d].results = q /\ q \in QueueNames
  BY <1>0, OwnQueue, Names
<1>2. queue[q] \in Seq(Messages) /\ Len(queue[q]) \in Nat
  BY <1>1, LenProperties DEF Types, Contents
<1>3. CASE Await(d)
  <2>1. PICK n \in 1 .. Len(queue[q]) : Taken(q, n, 1)
    BY <1>1, <1>3 DEF Await
  <2>2. main' = [main EXCEPT ![d] = "done"] /\ report' = [report EXCEPT ![d] = queue[q][1]]
        /\ queue[q] # <<>>
    BY <1>1, <1>3 DEF Await, Goto
  <2> HIDE DEF q
  <2>3. n \in 0 .. Len(queue[q]) /\ queue[q][1] \in Messages
    BY <1>1, <1>2, <2>2, FirstMessage
  <2>4. report' \in [Daemons -> Messages \cup {NoTask}]
    BY <2>2, <2>3 DEF Types, Contents
  <2> QED BY <1>0, <1>1, <2>1, <2>2, <2>3, <2>4, TypesEnd
<1>4. CASE GiveUp(d)
  <2>1. PICK n \in 0 .. Len(queue[q]) : Taken(q, n, 0)
    BY <1>1, <1>4 DEF GiveUp
  <2>2. main' = [main EXCEPT ![d] = "failed"] /\ report' = report
    BY <1>4 DEF GiveUp, Goto
  <2> HIDE DEF q
  <2>3. report' \in [Daemons -> Messages \cup {NoTask}]
    BY <2>2 DEF Types, Contents
  <2> QED BY <1>0, <1>1, <2>1, <2>2, <2>3, TypesEnd
<1> QED BY <1>3, <1>4

LEMMA NextTypes == ASSUME Types, [Next]_vars PROVE Types'
<1>1. CASE UNCHANGED vars
  <2>1. UNCHANGED <<scenario, main, stored, queue, hand, sendCh, faults, report, order, lost>>
    BY <1>1 DEF vars, startVars, flowVars
  <2>2. Labels' /\ Contents'
    BY <2>1, Fixed DEF Types, Labels, Contents
  <2>3. Addressed' /\ Stages'
    BY <2>1, TypesQueues
  <2> QED BY <2>1, <2>2, <2>3 DEF Types
<1>2. CASE Next
  BY <1>2, TypesStart, TypesReceive, TypesReceiveNothing, TypesSend, TypesCompile,
     TypesExecute, TypesSendTask, TypesDaemon DEF Next, Work
<1> QED BY <1>1, <1>2

LEMMA TypesHold == Spec => []Types
<1>1. Types /\ [Next]_vars => Types'
  BY NextTypes
<1> QED BY InitTypes, <1>1, PTL DEF Spec

(* Every variable of the workflow keeps its type, a worker holds a message *)
(* exactly between its receive and its send or end, and results are found  *)
(* in the queue of results only, unless two queues share a name.           *)
THEOREM WorkflowTypes == Spec => []TypeOK
<1>1. Types => TypeOK
  <2> SUFFICES ASSUME Types PROVE TypeOK
    OBVIOUS
  <2>1. \A p \in QrmPrograms :
          /\ main[p] \in {"start", "running", "process", "send", "waiting", "done",
                          "failed", "down"}
          /\ sendCh[p] \in {"none", "open", "broken"}
    BY Names DEF Types, Labels, Contents
  <2>2. \A w \in Workers : /\ hand[w] \in Messages \cup {NoTask}
                           /\ hand[w] # NoTask <=> main[w] \in {"process", "send"}
    BY DEF Types, Labels, Contents, InHand
  <2>3. ASSUME NEW q \in QueueNames, NEW i \in DOMAIN queue[q]
        PROVE  /\ queue[q][i] \in Messages
               /\ DistinctQueues => (queue[q][i].kind = "result" <=> q = ResultQueue)
    <3>1. queue[q] \in Seq(Messages) /\ i \in 1 .. Len(queue[q])
      BY LenProperties DEF Types, Contents
    <3> QED BY <3>1, ElementOfSeq DEF Types, Stages
  <2>4. (\A d \in Daemons : report[d] \in Messages \cup {NoTask})
        /\ lost \subseteq Daemons /\ faults \in 0 .. MaxFaults
    BY DEF Types, Contents
  <2> QED BY <2>1, <2>2, <2>3, <2>4 DEF TypeOK
<1> QED BY <1>1, TypesHold, PTL
-----------------------------------------------------------------------------
(* What a step does to the tasks, whichever program takes it.              *)

(* Worker w takes the first of n messages pushed to it. *)
Lift(w, n) ==
  /\ queue[Config[w]] # <<>> /\ hand[w] = NoTask
  /\ Taken(Config[w], n, 1) /\ hand' = [hand EXCEPT ![w] = queue[Config[w]][1]]
  /\ UNCHANGED <<report, order>>

(* The n messages pushed to a receiver are lost. *)
Discard(q, n) == Taken(q, n, 0) /\ UNCHANGED <<hand, report, order>>

(* Worker w passes on what it holds, puts it down, or changes it. *)
PassOn(w) ==
  /\ main[w] \in InHand /\ hand' = [hand EXCEPT ![w] = NoTask]
  /\ queue' = [queue EXCEPT ![Destination(w)] = Append(@, hand[w])]
  /\ UNCHANGED <<report, order, lost>>
Drop(w) ==
  /\ main[w] \in InHand /\ hand' = [hand EXCEPT ![w] = NoTask]
  /\ lost' = lost \cup {hand[w].task}
  /\ UNCHANGED <<queue, report, order>>
Rework(w) ==
  /\ main[w] \in InHand
  /\ \E msg \in Messages : msg.task = hand[w].task /\ hand' = [hand EXCEPT ![w] = msg]
  /\ UNCHANGED <<queue, report, order, lost>>

(* Daemon d sends its task, or fails to, or prints a result. *)
Enter(d) ==
  /\ queue' = [queue EXCEPT ![Config["scheduler"]] = Append(@, NewTask(d))]
  /\ order' = Append(order, d) /\ UNCHANGED <<hand, report, lost>>
Miss(d) ==
  /\ lost' = lost \cup {d}
  /\ order' = Append(order, d) /\ UNCHANGED <<hand, report, queue>>
Show(d, n) ==
  /\ main[d] = "waiting" /\ queue[ResultQueue] # <<>>
  /\ Taken(ResultQueue, n, 1) /\ report' = [report EXCEPT ![d] = queue[ResultQueue][1]]
  /\ UNCHANGED <<hand, order>>

LEMMA SendEffect ==
  ASSUME Types, NEW w \in Workers, WorkerSend(w) PROVE PassOn(w) \/ Drop(w)
<1>1. main[w] = "send" /\ Send(w, Destination(w), hand[w], "running", "running")
      /\ hand' = [hand EXCEPT ![w] = NoTask] /\ UNCHANGED <<report, order>>
  BY DEF WorkerSend
<1>2. main[w] \in InHand
  BY <1>1 DEF InHand
<1>3. Destination(w) \in QueueNames
  BY <1>2, NextStage
<1>4. \/ queue' = [queue EXCEPT ![Destination(w)] = Append(@, hand[w])] /\ lost' = lost
      \/ queue' = queue /\ lost' = lost \cup {hand[w].task}
  BY <1>1, <1>3, SendOutcome DEF Types, Contents
<1> QED BY <1>1, <1>2, <1>4 DEF PassOn, Drop

LEMMA CompileEffect ==
  ASSUME Types, Compile PROVE Rework("compiler") \/ Drop("compiler")
<1> DEFINE w == "compiler"
<1>0. /\ w \in Workers /\ main[w] \in InHand /\ UNCHANGED <<queue, report, order>>
  BY Names DEF Compile, InHand
<1>1. CASE /\ \E out \in applyOptimizationPasses(hand[w].circuit) :
                hand' = [hand EXCEPT ![w].circuit = out]
           /\ Goto(w, "send") /\ UNCHANGED lost
  <2>1. PICK out \in applyOptimizationPasses(hand[w].circuit) :
          hand' = [hand EXCEPT ![w].circuit = out]
    BY <1>1
  <2> DEFINE msg == [hand[w] EXCEPT !.circuit = out]
  <2>2. hand[w] \in Messages
    BY <1>0, HeldMessage
  <2>3. msg \in Messages /\ msg.task = hand[w].task
    BY <2>2, CompiledCircuit DEF Messages, MessagesOf
  <2>4. hand' = [hand EXCEPT ![w] = msg]
    BY <2>1
  <2> HIDE DEF msg
  <2> QED BY <1>0, <1>1, <2>3, <2>4 DEF Rework
<1>2. CASE /\ lost' = lost \cup {hand[w].task} /\ hand' = [hand EXCEPT ![w] = NoTask]
           /\ Goto(w, "running")
  BY <1>0, <1>2 DEF Drop
<1>3. CASE Die(w)
  BY <1>0, <1>3 DEF Drop, Die
<1> QED BY <1>1, <1>2, <1>3 DEF Compile

LEMMA ExecuteEffect ==
  ASSUME Types, Execute PROVE Rework("submitter") \/ Drop("submitter")
<1> DEFINE w == "submitter"
<1>0. /\ w \in Workers /\ main[w] \in InHand /\ UNCHANGED <<queue, report, order>>
  BY Names DEF Execute, InHand
<1>1. CASE /\ hand' = [hand EXCEPT ![w] = createAndSubmitQDMIJobToQDMIDevice(@)]
           /\ Goto(w, "send") /\ UNCHANGED lost
  <2> DEFINE msg == [hand[w] EXCEPT !.kind = "result"]
  <2>1. hand[w] \in Messages
    BY <1>0, HeldMessage
  <2>2. msg \in Messages /\ msg.task = hand[w].task
    BY <2>1 DEF Messages, MessagesOf
  <2>3. hand' = [hand EXCEPT ![w] = msg]
    BY <1>1 DEF createAndSubmitQDMIJobToQDMIDevice
  <2> HIDE DEF msg
  <2> QED BY <1>0, <1>1, <2>2, <2>3 DEF Rework
<1>2. CASE Die(w)
  BY <1>0, <1>2 DEF Drop, Die
<1> QED BY <1>1, <1>2 DEF Execute

LEMMA SendTaskEffect ==
  ASSUME Types, NEW d \in Daemons, SendTask(d)
  PROVE  main[d] = "running" /\ (Enter(d) \/ Miss(d))
<1> DEFINE q == Config["scheduler"]  msg == NewTask(d)
<1>0. main[d] = "running" /\ d \in QrmPrograms /\ UNCHANGED <<hand, report>>
      /\ order' = Append(order, d)
  BY Names DEF SendTask
<1>1. stored[d].scheduler = q /\ stored[d].results = ResultQueue /\ q \in QueueNames
  BY <1>0, OwnQueue, Names, ConfiguredQueues DEF Types
<1>2. Send(d, q, msg, "waiting", "failed")
  BY <1>1 DEF SendTask, NewTask
<1>3. msg.task = d
  BY NewTaskMessage
<1> HIDE DEF q, msg
<1>4. \/ queue' = [queue EXCEPT ![q] = Append(@, msg)] /\ lost' = lost
      \/ queue' = queue /\ lost' = lost \cup {msg.task}
  BY <1>1, <1>2, SendOutcome DEF Types, Contents
<1> QED BY <1>0, <1>3, <1>4 DEF Enter, Miss, q, msg

LEMMA ReceiveEffect ==
  ASSUME Types, NEW w \in Workers, WorkerReceive(w)
  PROVE  Config[w] \in QueueNames /\ \E n \in 1 .. Len(queue[Config[w]]) : Lift(w, n)
<1>1. main[w] = "running" /\ stored[w][w] = Config[w] /\ Config[w] \in QueueNames
  BY OwnQueue, Names DEF WorkerReceive, Receive
<1>2. hand[w] = NoTask
  BY <1>1 DEF Types, Labels, InHand
<1> QED BY <1>1, <1>2 DEF WorkerReceive, Receive, Lift

LEMMA NothingEffect ==
  ASSUME Types, NEW w \in Workers, WorkerReceiveNothing(w)
  PROVE  Config[w] \in QueueNames /\ \E n \in 1 .. Len(queue[Config[w]]) : Discard(Config[w], n)
<1>1. main[w] = "running" /\ stored[w][w] = Config[w] /\ Config[w] \in QueueNames
  BY OwnQueue, Names DEF WorkerReceiveNothing
<1> QED BY <1>1 DEF WorkerReceiveNothing, Discard

LEMMA DaemonEffect ==
  ASSUME Types, NEW d \in Daemons
  PROVE  /\ Await(d) => \E n \in 1 .. Len(queue[ResultQueue]) : Show(d, n)
         /\ GiveUp(d) => \E n \in 0 .. Len(queue[ResultQueue]) : Discard(ResultQueue, n)
<1>1. main[d] # "start" => stored[d].results = ResultQueue
  BY OwnQueue, Names, ConfiguredQueues DEF Types
<1>2. Await(d) => \E n \in 1 .. Len(queue[ResultQueue]) : Show(d, n)
  BY <1>1 DEF Await, Show
<1>3. GiveUp(d) => \E n \in 0 .. Len(queue[ResultQueue]) : Discard(ResultQueue, n)
  BY <1>1 DEF GiveUp, Discard
<1> QED BY <1>2, <1>3

(* Every step is one of these, or leaves all tasks where they are. *)
LEMMA Effects ==
  ASSUME Types, [Next]_vars
  PROVE  \/ UNCHANGED <<queue, hand, report, order, lost>>
         \/ \E w \in Workers : \/ \E n \in 1 .. Len(queue[Config[w]]) : Lift(w, n)
                               \/ PassOn(w) \/ Drop(w) \/ Rework(w)
         \/ \E q \in QueueNames : \E n \in 0 .. Len(queue[q]) : Discard(q, n)
         \/ \E d \in Daemons : \/ main[d] = "running" /\ (Enter(d) \/ Miss(d))
                               \/ \E n \in 1 .. Len(queue[ResultQueue]) : Show(d, n)
<1>1. CASE Starting \/ UNCHANGED vars
  BY <1>1 DEF Starting, vars, flowVars
<1>2. ASSUME NEW w \in Workers, Work(w) \/ WorkerReceiveNothing(w)
      PROVE  \/ \E n \in 1 .. Len(queue[Config[w]]) : Lift(w, n)
             \/ PassOn(w) \/ Drop(w) \/ Rework(w)
             \/ \E q \in QueueNames : \E n \in 0 .. Len(queue[q]) : Discard(q, n)
  <2>1. CASE WorkerReceiveNothing(w)
    <3>1. PICK n \in 1 .. Len(queue[Config[w]]) : Discard(Config[w], n)
      BY <2>1, NothingEffect
    <3>2. Config[w] \in QueueNames /\ queue[Config[w]] \in Seq(Messages)
      BY <2>1, NothingEffect DEF Types, Contents
    <3>3. n \in 0 .. Len(queue[Config[w]])
      BY <3>2, LenProperties
    <3> QED BY <3>1, <3>2, <3>3
  <2>2. CASE WorkerReceive(w)
    BY <2>2, ReceiveEffect
  <2>3. CASE WorkerSend(w)
    BY <2>3, SendEffect
  <2>4. CASE w = "compiler" /\ Compile
    BY <2>4, CompileEffect
  <2>5. CASE w = "submitter" /\ Execute
    BY <2>5, ExecuteEffect
  <2> QED BY <1>2, <2>1, <2>2, <2>3, <2>4, <2>5 DEF Work
<1>3. ASSUME NEW d \in Daemons, SendTask(d) \/ Await(d) \/ GiveUp(d)
      PROVE  \/ main[d] = "running" /\ (Enter(d) \/ Miss(d))
             \/ \E n \in 1 .. Len(queue[ResultQueue]) : Show(d, n)
             \/ \E q \in QueueNames : \E n \in 0 .. Len(queue[q]) : Discard(q, n)
  <2>1. ResultQueue \in QueueNames
    BY ConfiguredQueues DEF Types
  <2> QED BY <1>3, <2>1, SendTaskEffect, DaemonEffect
<1> QED BY <1>1, <1>2, <1>3 DEF Next
-----------------------------------------------------------------------------
(* Where tasks are.  Place (a, k) is position k of queue a, the hand of    *)
(* worker a for k = 0, and what daemon a printed for k = -1.               *)
Holds(a, k, d) ==
  \/ k > 0 /\ a \in QueueNames /\ k \in DOMAIN queue[a] /\ queue[a][k].task = d
  \/ k = 0 /\ a \in Workers /\ hand[a] # NoTask /\ hand[a].task = d
  \/ k = -1 /\ a \in Daemons /\ report[a] # NoTask /\ report[a].task = d

(* A daemon sends its task once, and prints at its end. *)
Submitted ==
  /\ ToSet(order) = {d \in Daemons : main[d] \in {"waiting", "done", "failed"}}
  /\ \A d \in Daemons : report[d] # NoTask => main[d] = "done"

(* A task is in one place at most, and somewhere exactly when it was sent  *)
(* and is not lost.                                                        *)
Once ==
  \A d \in Daemons : \A a, b : \A k, l \in Int :
    Holds(a, k, d) /\ Holds(b, l, d) => a = b /\ k = l
Somewhere ==
  \A d \in Daemons : d \in ToSet(order) \ lost <=> \E a : \E k \in Int : Holds(a, k, d)

(* Only a task that was sent can be lost. *)
LostSent == lost \subseteq ToSet(order)

Accounts == Types /\ Submitted /\ Once /\ Somewhere /\ LostSent

LEMMA InitAccounts == Init => Accounts
<1> SUFFICES ASSUME Init PROVE Accounts
  OBVIOUS
<1>1. ToSet(order) = {}
  BY DEF Init, ToSet
<1>2. Submitted
  BY <1>1, Names DEF Init, StartInit, Submitted
<1>3. \A a : \A k \in Int : \A d : ~Holds(a, k, d)
  BY DEF Init, Holds
<1>4. Once /\ Somewhere /\ LostSent
  BY <1>1, <1>3 DEF Once, Somewhere, LostSent, Init
<1> QED BY <1>2, <1>4, InitTypes DEF Accounts

(* The task a daemon adds. *)
LEMMA AppendedSet ==
  ASSUME NEW S, NEW s \in Seq(S), NEW x \in S
  PROVE  ToSet(Append(s, x)) = ToSet(s) \cup {x}
<1>1. /\ Append(s, x) \in Seq(S) /\ Len(Append(s, x)) = Len(s) + 1
      /\ \A i \in 1 .. Len(s) : Append(s, x)[i] = s[i]
      /\ Append(s, x)[Len(s) + 1] = x
  BY AppendProperties
<1>2. /\ DOMAIN s = 1 .. Len(s) /\ Len(s) \in Nat
      /\ DOMAIN Append(s, x) = 1 .. Len(Append(s, x))
  BY <1>1, LenProperties
<1> DEFINE t == Append(s, x)
<1>3. /\ DOMAIN t = 1 .. Len(s) + 1 /\ t[Len(s) + 1] = x
      /\ \A i \in 1 .. Len(s) : t[i] = s[i]
  BY <1>1, <1>2
<1> HIDE DEF t
<1>4. ToSet(t) \subseteq ToSet(s) \cup {x}
  <2> SUFFICES ASSUME NEW i \in DOMAIN t PROVE t[i] \in ToSet(s) \cup {x}
    BY DEF ToSet
  <2>1. i \in 1 .. Len(s) \/ i = Len(s) + 1
    BY <1>2, <1>3
  <2> QED BY <1>2, <1>3, <2>1 DEF ToSet
<1>5. ToSet(s) \cup {x} \subseteq ToSet(t)
  <2>1. \A i \in 1 .. Len(s) : i \in DOMAIN t
    BY <1>2, <1>3
  <2>2. Len(s) + 1 \in DOMAIN t
    BY <1>2, <1>3
  <2> QED BY <1>2, <1>3, <2>1, <2>2 DEF ToSet
<1> QED BY <1>4, <1>5 DEF t

LEMMA NextSubmitted == ASSUME Types, Submitted, [Next]_vars PROVE Submitted'
<1>0. /\ DOMAIN main = Programs /\ \A d \in Daemons : d \in Programs
      /\ report \in [Daemons -> Messages \cup {NoTask}] /\ order \in Seq(Daemons)
  BY Names DEF Types, Labels, Contents
<1>1. ASSUME NEW d \in Daemons, SendTask(d) PROVE Submitted'
  <2>1. main[d] = "running" /\ order' = Append(order, d) /\ report' = report
    BY <1>1 DEF SendTask
  <2>2. main' = [main EXCEPT ![d] = "waiting"] \/ main' = [main EXCEPT ![d] = "failed"]
    BY <1>1 DEF SendTask, Send, Goto
  <2>3. ToSet(order') = ToSet(order) \cup {d}
    BY <1>0, <2>1, AppendedSet
  <2>4. main'[d] \in {"waiting", "failed"} /\ \A e \in Daemons : e # d => main'[e] = main[e]
    BY <1>0, <2>2
  <2>5. \A e \in Daemons : e \in ToSet(order') <=> main'[e] \in {"waiting", "done", "failed"}
    BY <2>3, <2>4 DEF Submitted
  <2>6. ToSet(order') \subseteq Daemons
    BY <2>3 DEF Submitted
  <2>7. \A e \in Daemons : report'[e] # NoTask => main'[e] = "done"
    BY <2>1, <2>4 DEF Submitted
  <2> QED BY <2>5, <2>6, <2>7 DEF Submitted
<1>2. ASSUME NEW d \in Daemons, Await(d) \/ GiveUp(d) PROVE Submitted'
  <2>1. main[d] = "waiting" /\ order' = order
    BY <1>2 DEF Await, GiveUp
  <2>2. main' = [main EXCEPT ![d] = "done"]
        \/ (main' = [main EXCEPT ![d] = "failed"] /\ report' = report)
    BY <1>2 DEF Await, GiveUp, Goto
  <2>3. \A e \in Daemons : e # d => report'[e] = report[e]
    BY <1>0, <1>2 DEF Await, GiveUp
  <2>4. \A e \in Daemons : e # d => main'[e] = main[e]
    BY <1>0, <2>2
  <2>5. main'[d] = "done" \/ (main'[d] = "failed" /\ report'[d] = report[d])
    BY <1>0, <2>2
  <2>6. ToSet(order') = {e \in Daemons : main'[e] \in {"waiting", "done", "failed"}}
    BY <2>1, <2>4, <2>5 DEF Submitted
  <2>7. \A e \in Daemons : report'[e] # NoTask => main'[e] = "done"
    BY <2>1, <2>3, <2>4, <2>5 DEF Submitted
  <2> QED BY <2>6, <2>7 DEF Submitted
<1>3. ASSUME NEW p \in QrmPrograms, QrmStart(p) PROVE
        \A d \in Daemons : \/ main'[d] = main[d]
                           \/ main[d] = "start" /\ main'[d] \in {"running", "down"}
  BY <1>0, <1>3 DEF QrmStart, Goto
<1>4. ASSUME LoadConfig \/ MakeLogger \/ InitConfig PROVE \A d \in Daemons : main'[d] = main[d]
  BY <1>0, <1>4, Names DEF LoadConfig, MakeLogger, InitConfig, Goto
<1>5. ASSUME Starting
      PROVE  /\ UNCHANGED <<order, report>>
             /\ \A d \in Daemons : \/ main'[d] = main[d]
                                   \/ main[d] = "start" /\ main'[d] \in {"running", "down"}
  BY <1>3, <1>4, <1>5 DEF Starting, flowVars
<1>6. ASSUME NEW w \in Workers, Work(w) \/ WorkerReceiveNothing(w)
      PROVE  /\ UNCHANGED <<order, report>> /\ \A d \in Daemons : main'[d] = main[d]
  <2>1. UNCHANGED <<order, report>>
    BY <1>6 DEF Work, WorkerReceive, WorkerReceiveNothing, WorkerSend, Compile, Execute
  <2>2. main' = main \/ \E v \in Workers : \E label : main' = [main EXCEPT ![v] = label]
    BY <1>6 DEF Work, WorkerReceive, WorkerReceiveNothing, WorkerSend, Compile, Execute, Receive,
       Goto, Die, Send, startVars
  <2> QED BY <1>0, <2>1, <2>2, Names
<1>7. ASSUME UNCHANGED vars
      PROVE  UNCHANGED <<order, report>> /\ \A d \in Daemons : main'[d] = main[d]
  BY <1>7 DEF vars, startVars, flowVars
<1>8. ASSUME UNCHANGED <<order, report>>,
             \A d \in Daemons : \/ main'[d] = main[d]
                                \/ main[d] = "start" /\ main'[d] \in {"running", "down"}
      PROVE  Submitted'
  BY <1>8 DEF Submitted
<1> QED BY <1>1, <1>2, <1>5, <1>6, <1>7, <1>8 DEF Next

(* Messages leave the front of queue q: the first goes to the empty place  *)
(* (c, z) when one is kept, the others are lost.                           *)
Moves(q, kept, c, z) ==
  /\ kept = 1 => \A d \in Daemons : ~Holds(c, z, d)
  /\ \A a : \A k \in Int : \A d \in Daemons :
       k <= 0 => (Holds(a, k, d)' <=> IF kept = 1 /\ a = c /\ k = z THEN Holds(q, 1, d)
                                      ELSE Holds(a, k, d))

LEMMA AccountsTaken ==
  ASSUME Types, Types', Once, Somewhere, order' = order,
         NEW q \in QueueNames, NEW n \in 0 .. Len(queue[q]), NEW kept \in {0, 1}, kept <= n,
         Taken(q, n, kept), NEW c, NEW z \in {-1, 0}, Moves(q, kept, c, z)
  PROVE  Once' /\ Somewhere'
<1>m. /\ kept = 1 => \A d \in Daemons : ~Holds(c, z, d)
      /\ \A a : \A k \in Int : \A d \in Daemons :
           k <= 0 => (Holds(a, k, d)' <=> IF kept = 1 /\ a = c /\ k = z THEN Holds(q, 1, d)
                                          ELSE Holds(a, k, d))
  BY DEF Moves
<1>0. /\ queue[q] \in Seq(Messages) /\ Len(queue[q]) \in Nat
      /\ DOMAIN queue[q] = 1 .. Len(queue[q]) /\ n \in Nat /\ n <= Len(queue[q])
      /\ queue'[q] \in Seq(Messages) /\ DOMAIN queue'[q] = 1 .. Len(queue[q]) - n
  <2>1. queue[q] \in Seq(Messages)
    BY DEF Types, Contents
  <2>2. queue'[q] \in Seq(Messages) /\ Len(queue'[q]) = Len(queue[q]) - n
    BY TakenQueue
  <2>3. /\ Len(queue[q]) \in Nat /\ DOMAIN queue[q] = 1 .. Len(queue[q])
        /\ DOMAIN queue'[q] = 1 .. Len(queue'[q])
    BY <2>1, <2>2, LenProperties
  <2> QED BY <2>1, <2>2, <2>3
<1>1. /\ \A r \in QueueNames : r # q => queue'[r] = queue[r]
      /\ \A i \in 1 .. Len(queue[q]) - n : queue'[q][i] = queue[q][i + n]
      /\ lost' = lost \cup {queue[q][i].task : i \in kept + 1 .. n}
  BY TakenQueue
<1>2. ASSUME NEW k \in Int, k > 0, NEW d \in Daemons
      PROVE  Holds(q, k, d)' <=> Holds(q, k + n, d)
  <2>1. Holds(q, k, d)' <=> k \in DOMAIN queue'[q] /\ queue'[q][k].task = d
    BY <1>2 DEF Holds
  <2>2. Holds(q, k + n, d) <=> k + n \in DOMAIN queue[q] /\ queue[q][k + n].task = d
    <3>1. k + n > 0 /\ k + n # 0 /\ k + n # -1
      BY <1>0, <1>2
    <3> QED BY <3>1 DEF Holds
  <2>3. k \in DOMAIN queue'[q] <=> k + n \in DOMAIN queue[q]
    BY <1>0, <1>2
  <2>4. k \in DOMAIN queue'[q] => queue'[q][k] = queue[q][k + n]
    BY <1>0, <1>1
  <2> QED BY <2>1, <2>2, <2>3, <2>4
<1>3. ASSUME NEW a, a # q, NEW k \in Int, k > 0, NEW d \in Daemons
      PROVE  Holds(a, k, d)' <=> Holds(a, k, d)
  <2>1. k # 0 /\ k # -1
    BY <1>3
  <2> QED BY <1>1, <1>3, <2>1 DEF Holds
<1>4. \A d \in Daemons : d \in lost' <=> d \in lost \/ \E i \in kept + 1 .. n : Holds(q, i, d)
  <2> TAKE d \in Daemons
  <2>1. ASSUME NEW i \in kept + 1 .. n PROVE Holds(q, i, d) <=> queue[q][i].task = d
    <3>1. i \in DOMAIN queue[q] /\ i > 0 /\ i # 0 /\ i # -1
      BY <1>0
    <3> QED BY <3>1 DEF Holds
  <2> QED BY <1>1, <2>1
<1> DEFINE From(a, k) == IF k > 0 /\ a = q THEN q ELSE IF kept = 1 /\ a = c /\ k = z THEN q ELSE a
           At(a, k) == IF k > 0 /\ a = q THEN k + n
                       ELSE IF kept = 1 /\ a = c /\ k = z THEN 1 ELSE k
<1>5. \A a : \A k \in Int : \A d \in Daemons :
        /\ Holds(a, k, d)' <=> Holds(From(a, k), At(a, k), d)
        /\ At(a, k) \in Int
  <2> TAKE a
  <2> TAKE k \in Int
  <2> TAKE d \in Daemons
  <2>1. CASE k > 0 /\ a = q
    BY <1>0, <1>2, <2>1
  <2>2. CASE k > 0 /\ a # q
    <3>1. k # z
      BY <2>2
    <3> QED BY <1>3, <2>2, <3>1
  <2>3. CASE ~(k > 0)
    BY <1>m, <2>3
  <2> QED BY <2>1, <2>2, <2>3
<1>6. ASSUME NEW a, NEW b, NEW k \in Int, NEW l \in Int, From(a, k) = From(b, l), At(a, k) = At(b, l),
             NEW d \in Daemons, Holds(a, k, d)', Holds(b, l, d)'
      PROVE  a = b /\ k = l
  <2>0. /\ kept = 1 => n >= 1
        /\ n \in Nat /\ z \in {-1, 0}
    BY <1>0
  <2>1. CASE k > 0 /\ a = q
    <3>1. At(a, k) = k + n /\ From(a, k) = q
      BY <2>1
    <3>2. ~(l > 0 /\ b = q) => ~(kept = 1 /\ b = c /\ l = z)
      BY <1>6, <2>0, <2>1, <3>1
    <3>3. ~(l > 0 /\ b = q) => From(b, l) = b /\ At(b, l) = l
      BY <3>2
    <3>4. l > 0 /\ b = q
      BY <1>6, <2>0, <2>1, <3>1, <3>3
    <3> QED BY <1>6, <2>0, <2>1, <3>1, <3>4
  <2>2. CASE ~(k > 0 /\ a = q) /\ kept = 1 /\ a = c /\ k = z
    <3>1. At(a, k) = 1 /\ From(a, k) = q
      BY <2>2
    <3>2. ~(l > 0 /\ b = q)
      BY <1>6, <2>0, <2>2, <3>1
    <3>3. ~(b = c /\ l = z) => From(b, l) = b /\ At(b, l) = l
      BY <3>2
    <3>4. b = c /\ l = z
      BY <1>6, <3>1, <3>2, <3>3
    <3> QED BY <2>2, <3>4
  <2>3. CASE ~(k > 0 /\ a = q) /\ ~(kept = 1 /\ a = c /\ k = z)
    <3>1. At(a, k) = k /\ From(a, k) = a
      BY <2>3
    <3>2. ~(l > 0 /\ b = q)
      BY <1>6, <2>0, <2>3, <3>1
    <3>3. ~(kept = 1 /\ b = c /\ l = z)
      BY <1>6, <2>0, <2>3, <3>1, <3>2
    <3> QED BY <1>6, <3>1, <3>2, <3>3
  <2> QED BY <2>1, <2>2, <2>3
<1>7. Once'
  <2> SUFFICES ASSUME NEW d \in Daemons, NEW a, NEW b, NEW k \in Int, NEW l \in Int,
                      Holds(a, k, d)', Holds(b, l, d)'
               PROVE  a = b /\ k = l
    BY DEF Once
  <2>1. /\ Holds(From(a, k), At(a, k), d) /\ Holds(From(b, l), At(b, l), d)
        /\ At(a, k) \in Int /\ At(b, l) \in Int
    BY <1>5
  <2> HIDE DEF From, At
  <2>2. From(a, k) = From(b, l) /\ At(a, k) = At(b, l)
    BY <2>1 DEF Once
  <2> QED BY <1>6, <2>2
<1>8. ASSUME NEW d \in Daemons, NEW a, NEW k \in Int, Holds(a, k, d)'
      PROVE  d \in ToSet(order) \ lost'
  <2>1. Holds(From(a, k), At(a, k), d) /\ At(a, k) \in Int
    BY <1>5, <1>8
  <2>2. d \in ToSet(order) \ lost
    <3> HIDE DEF From, At
    <3> QED BY <2>1 DEF Somewhere
  <2>3. ASSUME NEW i \in kept + 1 .. n, Holds(q, i, d) PROVE FALSE
    <3>1. i \in Int /\ i > 0 /\ i <= n
      BY <1>0
    <3>2. From(a, k) = q /\ At(a, k) = i
      <4> HIDE DEF From, At
      <4> QED BY <2>1, <2>3, <3>1 DEF Once
    <3>3. ~(k > 0 /\ a = q)
      BY <1>0, <3>1, <3>2
    <3>4. ~(kept = 1 /\ a = c /\ k = z)
      BY <1>0, <2>3, <3>1, <3>2, <3>3
    <3> QED BY <3>1, <3>2, <3>3, <3>4
  <2> QED BY <1>4, <2>2, <2>3
<1>9. ASSUME NEW d \in Daemons, d \in ToSet(order) \ lost'
      PROVE  \E a : \E k \in Int : Holds(a, k, d)'
  <2>1. d \in ToSet(order) \ lost /\ \A i \in kept + 1 .. n : ~Holds(q, i, d)
    BY <1>4, <1>9
  <2>2. PICK a : \E k \in Int : Holds(a, k, d)
    BY <2>1 DEF Somewhere
  <2>3. PICK k \in Int : Holds(a, k, d)
    BY <2>2
  <2>4. CASE k > 0 /\ a = q
    <3>1. k \notin kept + 1 .. n
      BY <2>1, <2>3, <2>4
    <3>2. CASE kept = 1 /\ k = 1
      <4>1. z \in Int /\ z <= 0
        OBVIOUS
      <4>2. Holds(c, z, d)'
        BY <1>m, <2>3, <2>4, <3>2, <4>1
      <4> QED BY <4>1, <4>2
    <3>3. CASE ~(kept = 1 /\ k = 1)
      <4>1. k > n
        BY <1>0, <2>4, <3>1, <3>3
      <4>2. k - n \in Int /\ k - n > 0 /\ (k - n) + n = k
        BY <1>0, <4>1
      <4>3. Holds(q, k - n, d)' <=> Holds(q, (k - n) + n, d)
        BY <1>2, <4>2
      <4>4. Holds(q, k - n, d)'
        BY <2>3, <2>4, <4>2, <4>3
      <4> QED BY <4>2, <4>4
    <3> QED BY <3>2, <3>3
  <2>5. CASE k > 0 /\ a # q
    BY <1>3, <2>3, <2>5
  <2>6. CASE ~(k > 0)
    BY <1>m, <2>3, <2>6
  <2> QED BY <2>4, <2>5, <2>6
<1>10. Somewhere'
  BY <1>8, <1>9 DEF Somewhere
<1> QED BY <1>7, <1>10

(* A message is stored at the end of queue q. *)
LEMMA HoldsAdded ==
  ASSUME Types, NEW q \in QueueNames, NEW msg \in Messages,
         queue' = [queue EXCEPT ![q] = Append(@, msg)],
         NEW a, NEW k \in Int, k > 0, NEW d \in Daemons
  PROVE  /\ Len(queue[q]) + 1 \in Int /\ Len(queue[q]) + 1 > 0
         /\ ~Holds(q, Len(queue[q]) + 1, d)
         /\ Holds(a, k, d)' <=> \/ Holds(a, k, d)
                                \/ a = q /\ k = Len(queue[q]) + 1 /\ d = msg.task
<1>0. k # 0 /\ k # -1
  OBVIOUS
<1>1. /\ queue[q] \in Seq(Messages) /\ queue'[q] \in Seq(Messages)
      /\ Len(queue'[q]) = Len(queue[q]) + 1
  BY AddedQueue DEF Types, Contents
<1>2. /\ Len(queue[q]) \in Nat /\ DOMAIN queue[q] = 1 .. Len(queue[q])
      /\ DOMAIN queue'[q] = 1 .. Len(queue[q]) + 1
  BY <1>1, LenProperties
<1>3. ~Holds(q, Len(queue[q]) + 1, d)
  <2>1. /\ Len(queue[q]) + 1 \notin DOMAIN queue[q]
        /\ Len(queue[q]) + 1 # 0 /\ Len(queue[q]) + 1 # -1
    BY <1>2
  <2> QED BY <2>1 DEF Holds
<1>4. CASE a # q
  <2>1. a \in QueueNames => queue'[a] = queue[a]
    BY <1>4, AddedQueue
  <2> QED BY <1>0, <1>2, <1>3, <1>4, <2>1 DEF Holds
<1>5. CASE a = q
  <2>1. Holds(a, k, d)' <=> k \in DOMAIN queue'[q] /\ queue'[q][k].task = d
    BY <1>0, <1>5 DEF Holds
  <2>2. Holds(a, k, d) <=> k \in DOMAIN queue[q] /\ queue[q][k].task = d
    BY <1>0, <1>5 DEF Holds
  <2>3. \A i \in 1 .. Len(queue[q]) : queue'[q][i] = queue[q][i]
    BY AddedQueue
  <2>4. queue'[q][Len(queue[q]) + 1] = msg
    BY AddedQueue
  <2>5. k \in DOMAIN queue'[q] <=> k \in DOMAIN queue[q] \/ k = Len(queue[q]) + 1
    BY <1>2
  <2>6. k \in DOMAIN queue[q] => k # Len(queue[q]) + 1 /\ queue'[q][k] = queue[q][k]
    BY <1>2, <2>3
  <2> QED BY <1>2, <1>3, <1>5, <2>1, <2>2, <2>4, <2>5, <2>6
<1> QED BY <1>4, <1>5

LEMMA AccountsDrop ==
  ASSUME Types, Once, Somewhere, NEW w \in Workers, Drop(w) PROVE Once' /\ Somewhere'
<1>0. hand[w] # NoTask /\ hand[w].task \in Daemons /\ hand \in [Workers -> Messages \cup {NoTask}]
  BY HeldMessage DEF Drop, Types, Contents
<1> DEFINE t == hand[w].task
<1>1. hand'[w] = NoTask /\ \A v \in Workers : v # w => hand'[v] = hand[v]
  BY <1>0 DEF Drop
<1>2. \A a : \A k \in Int : \A d \in Daemons :
        Holds(a, k, d)' <=> Holds(a, k, d) /\ ~(a = w /\ k = 0)
  BY <1>1 DEF Drop, Holds
<1>3. \A d \in Daemons : Holds(w, 0, d) <=> d = t
  BY <1>0 DEF Holds
<1>4. lost' = lost \cup {t} /\ order' = order
  BY DEF Drop
<1> HIDE DEF t
<1>5. Once'
  BY <1>2 DEF Once
<1>6. \A a : \A k \in Int : Holds(a, k, t) => a = w /\ k = 0
  BY <1>0, <1>3 DEF Once, t
<1>7. ASSUME NEW d \in Daemons
      PROVE  d \in ToSet(order') \ lost' <=> \E a : \E k \in Int : Holds(a, k, d)'
  <2>1. CASE d = t
    BY <1>2, <1>4, <1>6, <2>1
  <2>2. CASE d # t
    <3>1. \A a : \A k \in Int : Holds(a, k, d)' <=> Holds(a, k, d)
      BY <1>2, <1>3, <2>2
    <3> QED BY <1>4, <2>2, <3>1 DEF Somewhere
  <2> QED BY <2>1, <2>2
<1> QED BY <1>5, <1>7 DEF Somewhere

LEMMA AccountsPassOn ==
  ASSUME Types, Once, Somewhere, NEW w \in Workers, PassOn(w) PROVE Once' /\ Somewhere'
<1> DEFINE q == Destination(w)  msg == hand[w]  new == Len(queue[q]) + 1
<1>0. /\ hand[w] # NoTask /\ hand[w].task \in Daemons /\ hand[w] \in Messages
      /\ hand \in [Workers -> Messages \cup {NoTask}] /\ q \in QueueNames
  BY HeldMessage, NextStage DEF PassOn, Types, Contents
<1>1. hand'[w] = NoTask /\ \A v \in Workers : v # w => hand'[v] = hand[v]
  BY <1>0 DEF PassOn
<1>2. /\ queue' = [queue EXCEPT ![q] = Append(@, msg)]
      /\ report' = report /\ lost' = lost /\ order' = order
  BY DEF PassOn
<1>t. PICK t \in Daemons : t = msg.task
  BY <1>0
<1>3. \A d \in Daemons : Holds(w, 0, d) <=> d = t
  BY <1>0, <1>t DEF Holds
<1>4. \A a : \A k \in Int : \A d \in Daemons :
        k <= 0 => (Holds(a, k, d)' <=> Holds(a, k, d) /\ ~(a = w /\ k = 0))
  BY <1>1, <1>2 DEF Holds
<1> HIDE DEF q, msg
<1>5. \A a : \A k \in Int : \A d \in Daemons :
        k > 0 => (Holds(a, k, d)' <=> Holds(a, k, d) \/ (a = q /\ k = new /\ d = t))
  BY <1>0, <1>2, <1>t, HoldsAdded DEF msg
<1>6. new \in Int /\ new > 0 /\ \A d \in Daemons : ~Holds(q, new, d)
  <2>1. 1 \in Int /\ 1 > 0
    OBVIOUS
  <2> QED BY <1>0, <1>2, <2>1, <1>t, HoldsAdded DEF msg
<1> HIDE DEF new
<1>7. \A a : \A k \in Int : Holds(a, k, t) => a = w /\ k = 0
  BY <1>3 DEF Once
<1>8. ASSUME NEW d \in Daemons, d # t, NEW a, NEW k \in Int
      PROVE  Holds(a, k, d)' <=> Holds(a, k, d)
  BY <1>3, <1>4, <1>5, <1>8
<1>9. ASSUME NEW a, NEW k \in Int
      PROVE  Holds(a, k, t)' <=> a = q /\ k = new
  <2>1. CASE k > 0
    BY <1>5, <1>7, <2>1
  <2>2. CASE ~(k > 0)
    BY <1>4, <1>6, <1>7, <2>2
  <2> QED BY <2>1, <2>2
<1>10. Once'
  <2> SUFFICES ASSUME NEW d \in Daemons, NEW a, NEW b, NEW k \in Int, NEW l \in Int,
                      Holds(a, k, d)', Holds(b, l, d)'
               PROVE  a = b /\ k = l
    BY DEF Once
  <2>1. CASE d = t
    BY <1>9, <2>1
  <2>2. CASE d # t
    BY <1>8, <2>2 DEF Once
  <2> QED BY <2>1, <2>2
<1>11. ASSUME NEW d \in Daemons
       PROVE  d \in ToSet(order') \ lost' <=> \E a : \E k \in Int : Holds(a, k, d)'
  <2>1. CASE d = t
    <3>1. 0 \in Int /\ Holds(w, 0, d)
      BY <1>3, <2>1
    <3>2. d \in ToSet(order) \ lost
      BY <3>1 DEF Somewhere
    <3> QED BY <1>2, <1>6, <1>9, <2>1, <3>2
  <2>2. CASE d # t
    <3>1. \A a : \A k \in Int : Holds(a, k, d)' <=> Holds(a, k, d)
      BY <1>8, <2>2
    <3> QED BY <1>2, <3>1 DEF Somewhere
  <2> QED BY <2>1, <2>2
<1> QED BY <1>10, <1>11 DEF Somewhere

LEMMA AccountsRework ==
  ASSUME Types, Once, Somewhere, NEW w \in Workers, Rework(w) PROVE Once' /\ Somewhere'
<1>1. PICK msg \in Messages : msg.task = hand[w].task /\ hand' = [hand EXCEPT ![w] = msg]
  BY DEF Rework
<1>2. hand[w] # NoTask /\ msg # NoTask /\ hand \in [Workers -> Messages \cup {NoTask}]
  BY HeldMessage, WorkflowAssumption DEF Rework, Types, Contents, Messages
<1>3. hand'[w] = msg /\ \A v \in Workers : v # w => hand'[v] = hand[v]
  BY <1>1, <1>2
<1>4. \A a : \A k \in Int : \A d \in Daemons : Holds(a, k, d)' <=> Holds(a, k, d)
  BY <1>1, <1>2, <1>3 DEF Rework, Holds
<1>5. lost' = lost /\ order' = order
  BY DEF Rework
<1> QED BY <1>4, <1>5 DEF Once, Somewhere

(* A daemon that has not sent its task finds it nowhere. *)
LEMMA AccountsSubmit ==
  ASSUME Types, Submitted, Once, Somewhere, LostSent, NEW d \in Daemons, main[d] = "running",
         Enter(d) \/ Miss(d)
  PROVE  Once' /\ Somewhere'
<1> DEFINE q == Config["scheduler"]  msg == NewTask(d)  new == Len(queue[q]) + 1
<1>0. /\ msg \in Messages /\ msg.task = d /\ q \in QueueNames
      /\ order \in Seq(Daemons) /\ lost \subseteq Daemons
  BY NewTaskMessage, ConfiguredQueues, Names DEF Types, Contents
<1>1. d \notin ToSet(order) /\ d \notin lost
  BY DEF Submitted, LostSent
<1>2. \A a : \A k \in Int : ~Holds(a, k, d)
  BY <1>1 DEF Somewhere
<1>3. order' = Append(order, d) /\ ToSet(order') = ToSet(order) \cup {d}
  <2>1. order' = Append(order, d)
    BY DEF Enter, Miss
  <2>2. ToSet(Append(order, d)) = ToSet(order) \cup {d}
    BY <1>0, AppendedSet
  <2> QED BY <2>1, <2>2
<1>4. ASSUME Miss(d) PROVE Once' /\ Somewhere'
  <2>1. \A a : \A k \in Int : \A e \in Daemons : Holds(a, k, e)' <=> Holds(a, k, e)
    BY <1>4 DEF Miss, Holds
  <2>2. lost' = lost \cup {d}
    BY <1>4 DEF Miss
  <2>3. Once'
    BY <2>1 DEF Once
  <2>4. ASSUME NEW e \in Daemons
        PROVE  e \in ToSet(order') \ lost' <=> \E a : \E k \in Int : Holds(a, k, e)'
    <3>1. e # d => (e \in ToSet(order') \ lost' <=> e \in ToSet(order) \ lost)
      BY <1>3, <2>2
    <3>2. e = d => e \notin ToSet(order') \ lost'
      BY <2>2
    <3> QED BY <1>2, <2>1, <3>1, <3>2 DEF Somewhere
  <2> QED BY <2>3, <2>4 DEF Somewhere
<1>5. ASSUME Enter(d) PROVE Once' /\ Somewhere'
  <2>0. queue' = [queue EXCEPT ![q] = Append(@, msg)] /\ lost' = lost
    BY <1>5 DEF Enter
  <2>1. \A a : \A k \in Int : \A e \in Daemons :
          k <= 0 => (Holds(a, k, e)' <=> Holds(a, k, e))
    BY <1>5 DEF Enter, Holds
  <2> HIDE DEF q, msg
  <2>2. \A a : \A k \in Int : \A e \in Daemons :
          k > 0 => (Holds(a, k, e)' <=> Holds(a, k, e) \/ (a = q /\ k = new /\ e = d))
    BY <1>0, <2>0, HoldsAdded
  <2>3. new \in Int /\ new > 0
    <3>1. 1 \in Int /\ 1 > 0
      OBVIOUS
    <3> QED BY <1>0, <2>0, <3>1, HoldsAdded
  <2> HIDE DEF new
  <2>4. ASSUME NEW e \in Daemons, e # d, NEW a, NEW k \in Int
        PROVE  Holds(a, k, e)' <=> Holds(a, k, e)
    BY <2>1, <2>2, <2>4
  <2>5. \A a : \A k \in Int : Holds(a, k, d)' <=> a = q /\ k = new
    BY <1>2, <2>1, <2>2, <2>3
  <2>6. Once'
    <3> SUFFICES ASSUME NEW e \in Daemons, NEW a, NEW b, NEW k \in Int, NEW l \in Int,
                        Holds(a, k, e)', Holds(b, l, e)'
                 PROVE  a = b /\ k = l
      BY DEF Once
    <3>1. CASE e = d
      BY <2>5, <3>1
    <3>2. CASE e # d
      BY <2>4, <3>2 DEF Once
    <3> QED BY <3>1, <3>2
  <2>7. ASSUME NEW e \in Daemons
        PROVE  e \in ToSet(order') \ lost' <=> \E a : \E k \in Int : Holds(a, k, e)'
    <3>1. CASE e = d
      BY <1>1, <1>3, <2>0, <2>3, <2>5, <3>1
    <3>2. CASE e # d
      BY <1>3, <2>0, <2>4, <3>2 DEF Somewhere
    <3> QED BY <3>1, <3>2
  <2> QED BY <2>6, <2>7 DEF Somewhere
<1> QED BY <1>4, <1>5

LEMMA AccountsReceive ==
  ASSUME Types, Types', Submitted, Once, Somewhere,
         \/ \E w \in Workers : \E n \in 1 .. Len(queue[Config[w]]) : Lift(w, n)
         \/ \E q \in QueueNames : \E n \in 0 .. Len(queue[q]) : Discard(q, n)
         \/ \E d \in Daemons : \E n \in 1 .. Len(queue[ResultQueue]) : Show(d, n)
  PROVE  Once' /\ Somewhere'
<1>1. ASSUME NEW w \in Workers, NEW n \in 1 .. Len(queue[Config[w]]), Lift(w, n)
      PROVE  Once' /\ Somewhere'
  <2> DEFINE q == Config[w]
  <2>1. q \in QueueNames /\ hand \in [Workers -> Messages \cup {NoTask}]
    BY ConfiguredQueues, Names DEF Types, Contents
  <2>2. /\ queue[q] # <<>> /\ hand[w] = NoTask /\ Taken(q, n, 1) /\ order' = order
        /\ report' = report /\ hand'[w] = queue[q][1]
        /\ \A v \in Workers : v # w => hand'[v] = hand[v]
    BY <1>1, <2>1 DEF Lift
  <2> HIDE DEF q
  <2>3. /\ 1 \in DOMAIN queue[q] /\ queue[q][1] # NoTask /\ n \in 0 .. Len(queue[q]) /\ 1 <= n
    <3>1. n \in 1 .. Len(queue[q])
      BY DEF q
    <3> QED BY <2>1, <2>2, <3>1, FirstMessage
  <2>4. \A d \in Daemons : ~Holds(w, 0, d)
    BY <2>2 DEF Holds
  <2>5. \A d \in Daemons : Holds(q, 1, d) <=> queue[q][1].task = d
    BY <2>1, <2>3 DEF Holds
  <2>6. \A a : \A k \in Int : \A d \in Daemons :
          k <= 0 => (Holds(a, k, d)' <=> IF a = w /\ k = 0 THEN Holds(q, 1, d)
                                         ELSE Holds(a, k, d))
    <3> TAKE a
    <3> TAKE k \in Int
    <3> TAKE d \in Daemons
    <3>1. CASE a = w /\ k = 0
      BY <2>2, <2>3, <2>5, <3>1 DEF Holds
    <3>2. CASE ~(a = w /\ k = 0)
      BY <2>2, <3>2 DEF Holds
    <3> QED BY <3>1, <3>2
  <2>7. Moves(q, 1, w, 0)
    BY <2>4, <2>6 DEF Moves
  <2>8. 1 \in {0, 1} /\ 0 \in {-1, 0}
    OBVIOUS
  <2> QED BY <2>1, <2>2, <2>3, <2>7, <2>8, AccountsTaken
<1>2. ASSUME NEW q \in QueueNames, NEW n \in 0 .. Len(queue[q]), Discard(q, n)
      PROVE  Once' /\ Somewhere'
  <2>1. \A a : \A k \in Int : \A d \in Daemons :
          k <= 0 => (Holds(a, k, d)' <=> Holds(a, k, d))
    BY <1>2 DEF Discard, Holds
  <2>2. Taken(q, n, 0) /\ order' = order /\ 0 <= n
    BY <1>2 DEF Discard
  <2>3. Moves(q, 0, q, 0)
    BY <2>1 DEF Moves
  <2>4. 0 \in {0, 1} /\ 0 \in {-1, 0}
    OBVIOUS
  <2> QED BY <1>2, <2>2, <2>3, <2>4, AccountsTaken
<1>3. ASSUME NEW e \in Daemons, NEW n \in 1 .. Len(queue[ResultQueue]), Show(e, n)
      PROVE  Once' /\ Somewhere'
  <2> DEFINE q == ResultQueue
  <2>1. q \in QueueNames /\ report \in [Daemons -> Messages \cup {NoTask}]
    BY ConfiguredQueues DEF Types, Contents
  <2>2. /\ queue[q] # <<>> /\ Taken(q, n, 1) /\ order' = order
        /\ hand' = hand /\ report'[e] = queue[q][1]
        /\ \A v \in Daemons : v # e => report'[v] = report[v]
    BY <1>3, <2>1 DEF Show
  <2>3. report[e] = NoTask
    BY <1>3 DEF Show, Submitted
  <2> HIDE DEF q
  <2>4. /\ 1 \in DOMAIN queue[q] /\ queue[q][1] # NoTask /\ n \in 0 .. Len(queue[q]) /\ 1 <= n
    <3>1. n \in 1 .. Len(queue[q])
      BY DEF q
    <3> QED BY <2>1, <2>2, <3>1, FirstMessage
  <2>5. \A d \in Daemons : ~Holds(e, -1, d)
    BY <2>3 DEF Holds
  <2>6. \A d \in Daemons : Holds(q, 1, d) <=> queue[q][1].task = d
    BY <2>1, <2>4 DEF Holds
  <2>7. \A a : \A k \in Int : \A d \in Daemons :
          k <= 0 => (Holds(a, k, d)' <=> IF a = e /\ k = -1 THEN Holds(q, 1, d)
                                         ELSE Holds(a, k, d))
    <3> TAKE a
    <3> TAKE k \in Int
    <3> TAKE d \in Daemons
    <3>1. CASE a = e /\ k = -1
      BY <2>2, <2>4, <2>6, <3>1 DEF Holds
    <3>2. CASE ~(a = e /\ k = -1)
      BY <2>2, <3>2 DEF Holds
    <3> QED BY <3>1, <3>2
  <2>8. Moves(q, 1, e, -1)
    BY <2>5, <2>7 DEF Moves
  <2>9. 1 \in {0, 1} /\ -1 \in {-1, 0}
    OBVIOUS
  <2> QED BY <2>1, <2>2, <2>4, <2>8, <2>9, AccountsTaken
<1> QED BY <1>1, <1>2, <1>3

(* What a receiver loses had been sent. *)
LEMMA TakenSent ==
  ASSUME Types, Somewhere, LostSent, NEW q \in QueueNames, NEW n \in 0 .. Len(queue[q]),
         NEW kept \in {0, 1}, Taken(q, n, kept)
  PROVE  lost' \subseteq ToSet(order)
<1>1. queue[q] \in Seq(Messages) /\ DOMAIN queue[q] = 1 .. Len(queue[q]) /\ Len(queue[q]) \in Nat
  BY LenProperties DEF Types, Contents
<1>2. ASSUME NEW i \in kept + 1 .. n PROVE queue[q][i].task \in ToSet(order)
  <2>1. i \in Int /\ i > 0 /\ i \in 1 .. Len(queue[q])
    BY <1>1
  <2>2. queue[q][i] \in Messages
    BY <1>1, <2>1, ElementOfSeq
  <2>3. queue[q][i].task \in Daemons
    BY <2>2 DEF Messages, MessagesOf
  <2>4. Holds(q, i, queue[q][i].task)
    BY <1>1, <2>1 DEF Holds
  <2> QED BY <2>1, <2>3, <2>4 DEF Somewhere
<1>3. lost' = lost \cup {queue[q][i].task : i \in kept + 1 .. n}
  BY DEF Taken
<1> QED BY <1>2, <1>3 DEF LostSent

LEMMA NextLostSent == ASSUME Accounts, [Next]_vars PROVE LostSent'
<1>0. Types /\ Somewhere /\ LostSent
  BY DEF Accounts
<1>1. CASE \/ \E w \in Workers : \E n \in 1 .. Len(queue[Config[w]]) : Lift(w, n)
           \/ \E q \in QueueNames : \E n \in 0 .. Len(queue[q]) : Discard(q, n)
           \/ \E d \in Daemons : \E n \in 1 .. Len(queue[ResultQueue]) : Show(d, n)
  <2>1. \E q \in QueueNames : \E kept \in {0, 1} : \E n \in 0 .. Len(queue[q]) : Taken(q, n, kept)
    <3>1. ASSUME NEW w \in Workers, NEW n \in 1 .. Len(queue[Config[w]]), Lift(w, n)
          PROVE  Taken(Config[w], n, 1) /\ Config[w] \in QueueNames
                 /\ n \in 0 .. Len(queue[Config[w]])
      <4>1. Config[w] \in QueueNames /\ queue[Config[w]] # <<>>
        BY <1>0, <3>1, ConfiguredQueues, Names DEF Types, Lift
      <4>2. Len(queue[Config[w]]) \in Nat
        BY <1>0, <4>1, FirstMessage
      <4>3. n \in 0 .. Len(queue[Config[w]])
        BY <4>2
      <4> QED BY <3>1, <4>1, <4>3 DEF Lift
    <3>2. ASSUME NEW d \in Daemons, NEW n \in 1 .. Len(queue[ResultQueue]), Show(d, n)
          PROVE  Taken(ResultQueue, n, 1) /\ ResultQueue \in QueueNames
                 /\ n \in 0 .. Len(queue[ResultQueue])
      <4>1. ResultQueue \in QueueNames /\ queue[ResultQueue] # <<>>
        BY <1>0, <3>2, ConfiguredQueues DEF Types, Show
      <4>2. Len(queue[ResultQueue]) \in Nat
        BY <1>0, <4>1, FirstMessage
      <4>3. n \in 0 .. Len(queue[ResultQueue])
        BY <4>2
      <4> QED BY <3>2, <4>1, <4>3 DEF Show
    <3> QED BY <1>1, <3>1, <3>2 DEF Discard
  <2>2. lost' \subseteq ToSet(order)
    BY <1>0, <2>1, TakenSent
  <2>3. order' = order
    BY <1>1 DEF Lift, Discard, Show
  <2> QED BY <2>2, <2>3 DEF LostSent
<1>2. ASSUME NEW w \in Workers, Drop(w) PROVE LostSent'
  <2>1. hand[w] # NoTask /\ hand[w].task \in Daemons
    BY <1>0, <1>2, HeldMessage DEF Drop
  <2>2. Holds(w, 0, hand[w].task) /\ 0 \in Int
    BY <2>1 DEF Holds
  <2>3. hand[w].task \in ToSet(order)
    BY <1>0, <2>1, <2>2 DEF Somewhere
  <2> QED BY <1>0, <1>2, <2>3 DEF LostSent, Drop
<1>3. ASSUME NEW d \in Daemons, Enter(d) \/ Miss(d) PROVE LostSent'
  <2>1. order \in Seq(Daemons) /\ order' = Append(order, d) /\ lost' \subseteq lost \cup {d}
    BY <1>0, <1>3 DEF Types, Contents, Enter, Miss
  <2>2. ToSet(Append(order, d)) = ToSet(order) \cup {d}
    BY <2>1, AppendedSet
  <2> QED BY <1>0, <2>1, <2>2 DEF LostSent
<1>4. ASSUME UNCHANGED <<order, lost>> PROVE LostSent'
  BY <1>0, <1>4 DEF LostSent
<1> QED BY <1>0, <1>1, <1>2, <1>3, <1>4, Effects DEF PassOn, Rework

LEMMA NextAccounts == ASSUME Accounts, [Next]_vars PROVE Accounts'
<1>0. Types /\ Submitted /\ Once /\ Somewhere /\ LostSent
  BY DEF Accounts
<1>1. Types' /\ Submitted' /\ LostSent'
  BY <1>0, NextTypes, NextSubmitted, NextLostSent
<1>2. ASSUME UNCHANGED <<queue, hand, report, order, lost>> PROVE Once' /\ Somewhere'
  <2>1. \A a : \A k \in Int : \A d \in Daemons : Holds(a, k, d)' <=> Holds(a, k, d)
    BY <1>2 DEF Holds
  <2> QED BY <1>0, <1>2, <2>1 DEF Once, Somewhere
<1>3. Once' /\ Somewhere'
  BY <1>0, <1>1, <1>2, Effects, AccountsReceive, AccountsDrop, AccountsPassOn,
     AccountsRework, AccountsSubmit
<1> QED BY <1>1, <1>3 DEF Accounts

(* No queue is longer than the list of the tasks sent: its tasks are       *)
(* different, and each was sent.                                           *)
LEMMA QueueBounded ==
  ASSUME Accounts, NEW q \in QueueNames
  PROVE  Len(queue[q]) <= Len(order)
<1> DEFINE s == queue[q]
<1>0. s \in Seq(Messages) /\ order \in Seq(Daemons)
  BY DEF Accounts, Types, Contents
<1>1. /\ Len(s) \in Nat /\ DOMAIN s = 1 .. Len(s)
      /\ Len(order) \in Nat /\ DOMAIN order = 1 .. Len(order)
  BY <1>0, LenProperties
<1>2. ASSUME NEW i \in 1 .. Len(s)
      PROVE  i \in Int /\ s[i].task \in Daemons /\ Holds(q, i, s[i].task)
  <2>1. i \in Int /\ i > 0
    BY <1>1
  <2>2. s[i] \in Messages
    BY <1>0, ElementOfSeq
  <2>3. s[i].task \in Daemons
    BY <2>2 DEF Messages, MessagesOf
  <2> QED BY <1>1, <2>1, <2>3 DEF Holds
<1>3. ASSUME NEW i \in 1 .. Len(s) PROVE \E j \in 1 .. Len(order) : order[j] = s[i].task
  <2>1. s[i].task \in ToSet(order)
    BY <1>2 DEF Accounts, Somewhere
  <2> QED BY <1>1, <2>1 DEF ToSet
<1> DEFINE f == [i \in 1 .. Len(s) |-> CHOOSE j \in 1 .. Len(order) : order[j] = s[i].task]
<1>4. ASSUME NEW i \in 1 .. Len(s) PROVE f[i] \in 1 .. Len(order) /\ order[f[i]] = s[i].task
  BY <1>3
<1>5. ASSUME NEW i \in 1 .. Len(s), NEW j \in 1 .. Len(s), f[i] = f[j] PROVE i = j
  <2>1. s[i].task = s[j].task
    BY <1>4, <1>5
  <2> QED BY <1>2, <2>1 DEF Accounts, Once
<1>6. f \in [1 .. Len(s) -> 1 .. Len(order)]
  BY <1>4
<1> HIDE DEF f, s
<1>7. f \in Injection(1 .. Len(s), 1 .. Len(order))
  BY <1>5, <1>6 DEF Injection, IsInjective
<1>8. IsFiniteSet(1 .. Len(order)) /\ Cardinality(1 .. Len(order)) = Len(order)
      /\ Cardinality(1 .. Len(s)) = Len(s)
  <2>1. ASSUME NEW m \in Nat PROVE IsFiniteSet(1 .. m) /\ Cardinality(1 .. m) = m
    <3>1. 1 \in Int /\ m \in Int
      OBVIOUS
    <3>2. IsFiniteSet(1 .. m) /\ Cardinality(1 .. m) = IF 1 > m THEN 0 ELSE m - 1 + 1
      BY <3>1, FS_Interval
    <3> QED BY <3>2
  <2> QED BY <1>1, <2>1
<1>9. Cardinality(1 .. Len(s)) <= Cardinality(1 .. Len(order))
  BY <1>7, <1>8, FS_Injection
<1> QED BY <1>8, <1>9 DEF s

LEMMA PlacesHold ==
  ASSUME Accounts, NEW d \in Daemons, NEW x
  PROVE  x \in Places(d) <=> \E a : \E k \in Int : x = <<a, k>> /\ Holds(a, k, d)
<1> DEFINE InQueue == {y \in QueueNames \X (1 .. Len(order)) :
                         y[2] \in DOMAIN queue[y[1]] /\ queue[y[1]][y[2]].task = d}
           ByWorker == {<<w, 0>> : w \in {v \in Workers : hand[v] # NoTask /\ hand[v].task = d}}
           ByDaemon == {<<c, -1>> : c \in {e \in Daemons : report[e] # NoTask
                                                             /\ report[e].task = d}}
<1>1. Places(d) = InQueue \cup ByWorker \cup ByDaemon
  BY DEF Places
<1>2. ASSUME NEW q \in QueueNames, NEW i
      PROVE  /\ i \in DOMAIN queue[q] <=> i \in 1 .. Len(queue[q])
             /\ i \in DOMAIN queue[q] => i \in 1 .. Len(order) /\ i \in Int /\ i > 0
  <2>1. queue[q] \in Seq(Messages) /\ order \in Seq(Daemons)
    BY DEF Accounts, Types, Contents
  <2>2. Len(queue[q]) \in Nat /\ DOMAIN queue[q] = 1 .. Len(queue[q]) /\ Len(order) \in Nat
    BY <2>1, LenProperties
  <2>3. Len(queue[q]) <= Len(order)
    BY QueueBounded
  <2> QED BY <2>2, <2>3
<1>3. ASSUME x \in Places(d) PROVE \E a : \E k \in Int : x = <<a, k>> /\ Holds(a, k, d)
  <2>1. CASE x \in InQueue
    <3>1. PICK q \in QueueNames, i \in 1 .. Len(order) : x = <<q, i>>
      BY <2>1
    <3>2. i \in DOMAIN queue[q] /\ queue[q][i].task = d
      BY <2>1, <3>1
    <3>3. i \in Int /\ Holds(q, i, d)
      BY <1>2, <3>2 DEF Holds
    <3> QED BY <3>1, <3>3
  <2>2. CASE x \in ByWorker
    <3>1. PICK w \in Workers : x = <<w, 0>> /\ hand[w] # NoTask /\ hand[w].task = d
      BY <2>2
    <3>2. Holds(w, 0, d) /\ 0 \in Int
      BY <3>1 DEF Holds
    <3> QED BY <3>1, <3>2
  <2>3. CASE x \in ByDaemon
    <3>1. PICK e \in Daemons : x = <<e, -1>> /\ report[e] # NoTask /\ report[e].task = d
      BY <2>3
    <3>2. Holds(e, -1, d) /\ -1 \in Int
      BY <3>1 DEF Holds
    <3> QED BY <3>1, <3>2
  <2> QED BY <1>1, <1>3, <2>1, <2>2, <2>3
<1>4. ASSUME NEW a, NEW k \in Int, x = <<a, k>>, Holds(a, k, d) PROVE x \in Places(d)
  <2>1. CASE k > 0 /\ a \in QueueNames /\ k \in DOMAIN queue[a] /\ queue[a][k].task = d
    <3>1. k \in 1 .. Len(order)
      BY <1>2, <2>1
    <3>2. x \in InQueue
      BY <1>4, <2>1, <3>1
    <3> QED BY <1>1, <3>2
  <2>2. CASE k = 0 /\ a \in Workers /\ hand[a] # NoTask /\ hand[a].task = d
    <3>1. x \in ByWorker
      BY <1>4, <2>2
    <3> QED BY <1>1, <3>1
  <2>3. CASE k = -1 /\ a \in Daemons /\ report[a] # NoTask /\ report[a].task = d
    <3>1. x \in ByDaemon
      BY <1>4, <2>3
    <3> QED BY <1>1, <3>1
  <2> QED BY <1>4, <2>1, <2>2, <2>3 DEF Holds
<1> QED BY <1>3, <1>4

(* A task that was sent is lost or in exactly one place: no interleaving   *)
(* of the programs, no failed send that stored the message all the same,   *)
(* no shared queue name and no program that stops forgets or repeats it.   *)
THEOREM WorkflowAccounts == Spec => []TasksAccounted
<1>1. Accounts => TasksAccounted
  <2> SUFFICES ASSUME Accounts, NEW d \in Daemons
               PROVE  Cardinality(Places(d)) = IF d \in ToSet(order) \ lost THEN 1 ELSE 0
    BY DEF TasksAccounted
  <2>1. CASE d \in ToSet(order) \ lost
    <3>1. PICK a : \E k \in Int : Holds(a, k, d)
      BY <2>1 DEF Accounts, Somewhere
    <3>2. PICK k \in Int : Holds(a, k, d)
      BY <3>1
    <3>3. \A b : \A l \in Int : Holds(b, l, d) => b = a /\ l = k
      BY <3>2 DEF Accounts, Once
    <3>4. <<a, k>> \in Places(d)
      BY <3>2, PlacesHold
    <3>5. \A x \in Places(d) : x = <<a, k>>
      BY <3>3, PlacesHold
    <3>6. Places(d) = {<<a, k>>}
      BY <3>4, <3>5
    <3> QED BY <2>1, <3>6, FS_Singleton
  <2>2. CASE d \notin ToSet(order) \ lost
    <3>1. \A a : \A k \in Int : ~Holds(a, k, d)
      BY <2>2 DEF Accounts, Somewhere
    <3>2. \A x : x \notin Places(d)
      BY <3>1, PlacesHold
    <3>3. Places(d) = {}
      BY <3>2
    <3> QED BY <2>2, <3>3, FS_EmptySet
  <2> QED BY <2>1, <2>2
<1>2. Accounts /\ [Next]_vars => Accounts'
  BY NextAccounts
<1> QED BY <1>1, <1>2, InitAccounts, PTL DEF Spec
-----------------------------------------------------------------------------
(* The line of tasks.  Left(t, s): the messages of t stand for some of the *)
(* tasks of s, in their order.                                             *)
Left(t, s) ==
  /\ Len(t) <= Len(s)
  /\ \E f \in [1 .. Len(t) -> 1 .. Len(s)] :
       /\ \A i, j \in 1 .. Len(t) : i < j => f[i] < f[j]
       /\ \A i \in 1 .. Len(t) : t[i].task = s[f[i]].task

TasksOf(s) == [i \in DOMAIN s |-> s[i].task]

LEMMA LeftSame ==
  ASSUME NEW s \in Seq(Messages), NEW t \in Seq(Messages), Len(t) = Len(s),
         \A i \in 1 .. Len(s) : t[i].task = s[i].task
  PROVE  Left(t, s)
<1> DEFINE f == [i \in 1 .. Len(t) |-> i]
<1>1. Len(s) \in Nat /\ f \in [1 .. Len(t) -> 1 .. Len(s)]
  BY LenProperties
<1>2. \A i, j \in 1 .. Len(t) : i < j => f[i] < f[j]
  OBVIOUS
<1>3. \A i \in 1 .. Len(t) : t[i].task = s[f[i]].task
  OBVIOUS
<1> HIDE DEF f
<1> QED BY <1>1, <1>2, <1>3 DEF Left

LEMMA LeftNothing == ASSUME NEW s \in Seq(Messages) PROVE Left(<<>>, s)
<1> DEFINE t == <<>>  f == [i \in 1 .. Len(t) |-> i]
<1>1. Len(t) = 0 /\ 1 .. Len(t) = {} /\ Len(s) \in Nat
  BY LenProperties
<1>2. f \in [1 .. Len(t) -> 1 .. Len(s)] /\ Len(t) <= Len(s)
  BY <1>1
<1> HIDE DEF f, t
<1>3. Left(t, s)
  BY <1>1, <1>2 DEF Left
<1> QED BY <1>3 DEF t

(* The parts of a line can be looked at one by one. *)
LEMMA LeftConcat ==
  ASSUME NEW s \in Seq(Messages), NEW t \in Seq(Messages),
         NEW u \in Seq(Messages), NEW v \in Seq(Messages), Left(t, s), Left(v, u)
  PROVE  Left(t \o v, s \o u)
<1>0. /\ Len(s) \in Nat /\ Len(t) \in Nat /\ Len(u) \in Nat /\ Len(v) \in Nat
      /\ Len(t) <= Len(s) /\ Len(v) <= Len(u)
  BY LenProperties DEF Left
<1>1. PICK f \in [1 .. Len(t) -> 1 .. Len(s)] :
        /\ \A i, j \in 1 .. Len(t) : i < j => f[i] < f[j]
        /\ \A i \in 1 .. Len(t) : t[i].task = s[f[i]].task
  BY DEF Left
<1>2. PICK g \in [1 .. Len(v) -> 1 .. Len(u)] :
        /\ \A i, j \in 1 .. Len(v) : i < j => g[i] < g[j]
        /\ \A i \in 1 .. Len(v) : v[i].task = u[g[i]].task
  BY DEF Left
<1> DEFINE tv == t \o v  su == s \o u
           h == [i \in 1 .. Len(t) + Len(v) |->
                   IF i <= Len(t) THEN f[i] ELSE Len(s) + g[i - Len(t)]]
<1>3. /\ Len(tv) = Len(t) + Len(v) /\ Len(su) = Len(s) + Len(u)
      /\ \A i \in 1 .. Len(t) + Len(v) : tv[i] = IF i <= Len(t) THEN t[i] ELSE v[i - Len(t)]
      /\ \A i \in 1 .. Len(s) + Len(u) : su[i] = IF i <= Len(s) THEN s[i] ELSE u[i - Len(s)]
  BY ConcatProperties
<1>h. \A i \in 1 .. Len(t) + Len(v) :
        h[i] = IF i <= Len(t) THEN f[i] ELSE Len(s) + g[i - Len(t)]
  OBVIOUS
<1>f. /\ \A i \in 1 .. Len(t) : f[i] \in 1 .. Len(s)
      /\ \A i \in 1 .. Len(v) : g[i] \in 1 .. Len(u)
  OBVIOUS
<1>4. ASSUME NEW i \in 1 .. Len(t) + Len(v), i <= Len(t)
      PROVE  h[i] = f[i] /\ h[i] \in 1 .. Len(s) /\ tv[i].task = su[h[i]].task
  <2> HIDE DEF h, tv, su
  <2>0. i \in 1 .. Len(t)
    BY <1>0, <1>4
  <2>1. i \in 1 .. Len(t) /\ h[i] = f[i] /\ f[i] \in 1 .. Len(s)
    BY <1>4, <1>h, <1>f, <2>0
  <2>2. f[i] \in 1 .. Len(s) + Len(u) /\ f[i] <= Len(s)
    BY <1>0, <2>1
  <2>3. tv[i] = t[i] /\ su[f[i]] = s[f[i]]
    BY <1>3, <1>4, <2>2
  <2> QED BY <1>1, <2>1, <2>3
<1>5. ASSUME NEW i \in 1 .. Len(t) + Len(v), ~(i <= Len(t))
      PROVE  /\ h[i] = Len(s) + g[i - Len(t)] /\ h[i] \in Len(s) + 1 .. Len(s) + Len(u)
             /\ i - Len(t) \in 1 .. Len(v) /\ tv[i].task = su[h[i]].task
  <2> HIDE DEF h, tv, su
  <2>0. i - Len(t) \in 1 .. Len(v)
    BY <1>0, <1>5
  <2>1. i - Len(t) \in 1 .. Len(v) /\ h[i] = Len(s) + g[i - Len(t)]
        /\ g[i - Len(t)] \in 1 .. Len(u)
    BY <1>5, <1>h, <1>f, <2>0
  <2> DEFINE k == g[i - Len(t)]
  <2>2. k \in 1 .. Len(u) /\ v[i - Len(t)].task = u[k].task
    BY <1>2, <2>1
  <2> HIDE DEF k
  <2>3. /\ Len(s) + k \in Len(s) + 1 .. Len(s) + Len(u) /\ ~(Len(s) + k <= Len(s))
        /\ Len(s) + k \in 1 .. Len(s) + Len(u) /\ (Len(s) + k) - Len(s) = k
    BY <1>0, <2>2
  <2>4. tv[i] = v[i - Len(t)] /\ su[Len(s) + k] = u[k]
    BY <1>3, <1>5, <2>3
  <2> QED BY <2>1, <2>2, <2>3, <2>4 DEF k
<1> HIDE DEF h, tv, su
<1>6. ASSUME NEW i \in 1 .. Len(t) + Len(v), NEW j \in 1 .. Len(t) + Len(v), i < j
      PROVE  h[i] < h[j]
  <2>1. CASE j <= Len(t)
    <3>1. i <= Len(t) /\ i \in 1 .. Len(t) /\ j \in 1 .. Len(t)
      BY <1>0, <1>6, <2>1
    <3> QED BY <1>1, <1>4, <1>6, <2>1, <3>1
  <2>2. CASE i <= Len(t) /\ ~(j <= Len(t))
    <3>1. h[i] \in 1 .. Len(s) /\ h[j] \in Len(s) + 1 .. Len(s) + Len(u)
      BY <1>4, <1>5, <2>2
    <3> QED BY <1>0, <3>1
  <2>3. CASE ~(i <= Len(t))
    <3>0. ~(j <= Len(t))
      BY <1>0, <1>6, <2>3
    <3>1. /\ i - Len(t) \in 1 .. Len(v) /\ j - Len(t) \in 1 .. Len(v)
          /\ h[i] = Len(s) + g[i - Len(t)] /\ h[j] = Len(s) + g[j - Len(t)]
      BY <1>5, <2>3, <3>0
    <3>2. i - Len(t) < j - Len(t)
      BY <1>0, <1>6
    <3>3. g[i - Len(t)] < g[j - Len(t)]
          /\ g[i - Len(t)] \in 1 .. Len(u) /\ g[j - Len(t)] \in 1 .. Len(u)
      BY <1>2, <3>1, <3>2
    <3> QED BY <1>0, <3>1, <3>3
  <2> QED BY <2>1, <2>2, <2>3
<1>7. ASSUME NEW i \in 1 .. Len(t) + Len(v)
      PROVE  h[i] \in 1 .. Len(s) + Len(u) /\ tv[i].task = su[h[i]].task
  <2>1. CASE i <= Len(t)
    <3>1. h[i] \in 1 .. Len(s) /\ tv[i].task = su[h[i]].task
      BY <1>4, <2>1
    <3> QED BY <1>0, <3>1
  <2>2. CASE ~(i <= Len(t))
    <3>1. h[i] \in Len(s) + 1 .. Len(s) + Len(u) /\ tv[i].task = su[h[i]].task
      BY <1>5, <2>2
    <3> QED BY <1>0, <3>1
  <2> QED BY <2>1, <2>2
<1>8. h \in [1 .. Len(tv) -> 1 .. Len(su)]
  BY <1>3, <1>7 DEF h
<1>9. Len(tv) <= Len(su)
  BY <1>0, <1>3
<1>10. Left(tv, su)
  BY <1>3, <1>6, <1>7, <1>8, <1>9 DEF Left
<1> QED BY <1>10 DEF tv, su

(* What is left of a queue when n messages were taken from its front; the  *)
(* first of them may go in front of it again.                              *)
LEMMA LeftTaken ==
  ASSUME NEW s \in Seq(Messages), NEW n \in 0 .. Len(s)
  PROVE  /\ SubSeq(s, n + 1, Len(s)) \in Seq(Messages)
         /\ Left(SubSeq(s, n + 1, Len(s)), s)
         /\ n >= 1 => Left(SubSeq(s, n + 1, Len(s)), SubSeq(s, 2, Len(s)))
<1>0. Len(s) \in Nat /\ n \in Nat /\ n <= Len(s) /\ \A i \in 1 .. Len(s) : s[i] \in Messages
  BY LenProperties, ElementOfSeq
<1>1. ASSUME NEW m \in 0 .. Len(s)
      PROVE  /\ SubSeq(s, m + 1, Len(s)) \in Seq(Messages)
             /\ Len(SubSeq(s, m + 1, Len(s))) = Len(s) - m
             /\ \A i \in 1 .. Len(s) - m : SubSeq(s, m + 1, Len(s))[i] = s[i + m]
  <2>1. m + 1 \in Int /\ Len(s) \in Int /\ \A i \in m + 1 .. Len(s) : s[i] \in Messages
    BY <1>0
  <2> DEFINE r == SubSeq(s, m + 1, Len(s))
  <2>2. /\ r \in Seq(Messages)
        /\ Len(r) = IF m + 1 <= Len(s) THEN Len(s) - (m + 1) + 1 ELSE 0
        /\ \A i \in 1 .. Len(s) - (m + 1) + 1 : r[i] = s[(m + 1) + i - 1]
    BY <2>1, SubSeqProperties
  <2> HIDE DEF r
  <2>3. Len(r) = Len(s) - m
    BY <1>0, <2>2
  <2>4. ASSUME NEW i \in 1 .. Len(s) - m PROVE r[i] = s[i + m]
    <3>1. i \in 1 .. Len(s) - (m + 1) + 1 /\ (m + 1) + i - 1 = i + m
      BY <1>0
    <3>2. r[i] = s[(m + 1) + i - 1]
      BY <2>2, <3>1
    <3> QED BY <3>1, <3>2
  <2> QED BY <2>2, <2>3, <2>4 DEF r
<1>2. ASSUME NEW m \in 0 .. n PROVE Left(SubSeq(s, n + 1, Len(s)), SubSeq(s, m + 1, Len(s)))
  <2> DEFINE t == SubSeq(s, n + 1, Len(s))  r == SubSeq(s, m + 1, Len(s))
             f == [i \in 1 .. Len(s) - n |-> i + (n - m)]
  <2>0. m \in 0 .. Len(s) /\ m \in Nat /\ m <= n
    BY <1>0
  <2>1. /\ Len(t) = Len(s) - n /\ \A i \in 1 .. Len(s) - n : t[i] = s[i + n]
        /\ Len(r) = Len(s) - m /\ \A i \in 1 .. Len(s) - m : r[i] = s[i + m]
    BY <1>1, <2>0
  <2>2. \A i \in 1 .. Len(s) - n :
          f[i] = i + (n - m) /\ f[i] \in 1 .. Len(s) - m /\ f[i] + m = i + n
    BY <1>0, <2>0
  <2>3. f \in [1 .. Len(s) - n -> 1 .. Len(s) - m]
    BY <2>2
  <2> HIDE DEF t, r, f
  <2>4. ASSUME NEW i \in 1 .. Len(t), NEW j \in 1 .. Len(t), i < j PROVE f[i] < f[j]
    <3>1. i \in 1 .. Len(s) - n /\ j \in 1 .. Len(s) - n
      BY <2>1
    <3>2. f[i] = i + (n - m) /\ f[j] = j + (n - m) /\ i \in Int /\ j \in Int
      BY <2>2, <3>1
    <3> QED BY <1>0, <2>0, <2>4, <3>2
  <2>5. ASSUME NEW i \in 1 .. Len(t) PROVE t[i].task = r[f[i]].task
    <3>1. i \in 1 .. Len(s) - n
      BY <2>1
    <3>2. f[i] \in 1 .. Len(s) - m /\ f[i] + m = i + n
      BY <2>2, <3>1
    <3>3. r[f[i]] = s[f[i] + m] /\ t[i] = s[i + n]
      BY <2>1, <3>1, <3>2
    <3> QED BY <3>2, <3>3
  <2>6. Len(t) <= Len(r) /\ f \in [1 .. Len(t) -> 1 .. Len(r)]
    BY <1>0, <2>0, <2>1, <2>3
  <2>7. Left(t, r)
    BY <2>4, <2>5, <2>6 DEF Left
  <2> QED BY <2>7 DEF t, r
<1>3. SubSeq(s, 0 + 1, Len(s)) = s
  BY SubSeqFull
<1>4. Left(SubSeq(s, n + 1, Len(s)), SubSeq(s, 0 + 1, Len(s)))
  <2>1. 0 \in 0 .. n
    BY <1>0
  <2> QED BY <1>2, <2>1
<1>5. n >= 1 => Left(SubSeq(s, n + 1, Len(s)), SubSeq(s, 2, Len(s)))
  <2>1. n >= 1 => 1 \in 0 .. n /\ 1 + 1 = 2
    BY <1>0
  <2>2. n >= 1 => Left(SubSeq(s, n + 1, Len(s)), SubSeq(s, 1 + 1, Len(s)))
    BY <1>2, <2>1
  <2> QED BY <2>1, <2>2
<1> QED BY <1>1, <1>3, <1>4, <1>5

LEMMA LeftFirst ==
  ASSUME NEW s \in Seq(Messages), s # <<>>, NEW n \in 1 .. Len(s)
  PROVE  /\ SubSeq(s, n + 1, Len(s)) \in Seq(Messages)
         /\ <<s[1]>> \in Seq(Messages)
         /\ Left(<<s[1]>> \o SubSeq(s, n + 1, Len(s)), s)
<1>0. Len(s) \in Nat /\ n \in 0 .. Len(s) /\ n >= 1 /\ 1 \in 1 .. Len(s) /\ 1 \in 0 .. Len(s)
  BY LenProperties
<1>1. s[1] \in Messages
  BY <1>0, ElementOfSeq
<1>2. <<s[1]>> \in Seq(Messages)
  BY <1>1
<1>3. SubSeq(s, n + 1, Len(s)) \in Seq(Messages)
      /\ Left(SubSeq(s, n + 1, Len(s)), SubSeq(s, 2, Len(s)))
  BY <1>0, LeftTaken
<1>4. SubSeq(s, 1 + 1, Len(s)) \in Seq(Messages)
  BY <1>0, LeftTaken
<1>5. Left(<<s[1]>>, <<s[1]>>)
  BY <1>2, LeftSame
<1>6. Left(<<s[1]>> \o SubSeq(s, n + 1, Len(s)), <<s[1]>> \o SubSeq(s, 2, Len(s)))
  <2>1. SubSeq(s, 2, Len(s)) \in Seq(Messages)
    BY <1>4
  <2> QED BY <1>2, <1>3, <1>5, <2>1, LeftConcat
<1>7. SubSeq(s, 1, Len(s)) = <<s[1]>> \o SubSeq(s, 1 + 1, Len(s)) /\ SubSeq(s, 1, Len(s)) = s
  <2>1. Len(s) \in 1 .. Len(s)
    BY <1>0
  <2> QED BY <1>0, <2>1, SubSeqRecursiveFirst, SubSeqFull
<1>8. <<s[1]>> \o SubSeq(s, 2, Len(s)) = s
  BY <1>7
<1> QED BY <1>2, <1>3, <1>6, <1>8

(* A line in seven parts. *)
Join(a, b, c, d, e, f, g) == a \o b \o c \o d \o e \o f \o g

LEMMA JoinLeft ==
  ASSUME NEW a \in Seq(Messages), NEW b \in Seq(Messages), NEW c \in Seq(Messages),
         NEW d \in Seq(Messages), NEW e \in Seq(Messages), NEW f \in Seq(Messages),
         NEW g \in Seq(Messages), NEW a1 \in Seq(Messages), NEW b1 \in Seq(Messages),
         NEW c1 \in Seq(Messages), NEW d1 \in Seq(Messages), NEW e1 \in Seq(Messages),
         NEW f1 \in Seq(Messages), NEW g1 \in Seq(Messages),
         Left(a1, a), Left(b1, b), Left(c1, c), Left(d1, d), Left(e1, e), Left(f1, f),
         Left(g1, g)
  PROVE  Left(Join(a1, b1, c1, d1, e1, f1, g1), Join(a, b, c, d, e, f, g))
<1>0. \A x, y \in Seq(Messages) : x \o y \in Seq(Messages)
  BY ConcatProperties
<1>1. ASSUME NEW x \in Seq(Messages), NEW y \in Seq(Messages), NEW x1 \in Seq(Messages),
             NEW y1 \in Seq(Messages), Left(x1, x), Left(y1, y)
      PROVE  Left(x1 \o y1, x \o y) /\ x \o y \in Seq(Messages) /\ x1 \o y1 \in Seq(Messages)
  BY <1>0, <1>1, LeftConcat
<1> DEFINE u2 == a \o b    v2 == a1 \o b1   u3 == u2 \o c  v3 == v2 \o c1
           u4 == u3 \o d   v4 == v3 \o d1   u5 == u4 \o e  v5 == v4 \o e1
           u6 == u5 \o f   v6 == v5 \o f1
<1> HIDE DEF u2, v2, u3, v3, u4, v4, u5, v5, u6, v6
<1>2. Left(v2, u2) /\ u2 \in Seq(Messages) /\ v2 \in Seq(Messages)
  BY <1>1, Zenon DEF u2, v2
<1>3. Left(v3, u3) /\ u3 \in Seq(Messages) /\ v3 \in Seq(Messages)
  BY <1>1, <1>2, Zenon DEF u3, v3
<1>4. Left(v4, u4) /\ u4 \in Seq(Messages) /\ v4 \in Seq(Messages)
  BY <1>1, <1>3, Zenon DEF u4, v4
<1>5. Left(v5, u5) /\ u5 \in Seq(Messages) /\ v5 \in Seq(Messages)
  BY <1>1, <1>4, Zenon DEF u5, v5
<1>6. Left(v6, u6) /\ u6 \in Seq(Messages) /\ v6 \in Seq(Messages)
  BY <1>1, <1>5, Zenon DEF u6, v6
<1>7. Left(v6 \o g1, u6 \o g)
  BY <1>1, <1>6, Zenon
<1> QED BY <1>7 DEF Join, u6, v6, u5, v5, u4, v4, u3, v3, u2, v2

(* What stands between two neighbours can be counted to either. *)
Regrouped(x, h, q, z) ==
  (x \o h) \o q = (x \o z) \o (h \o q) /\ (x \o h) \o q = (x \o (h \o q)) \o z

LEMMA Regroup ==
  ASSUME NEW x \in Seq(Messages), NEW h \in Seq(Messages), NEW q \in Seq(Messages)
  PROVE  Regrouped(x, h, q, <<>>)
<1>1. h \o q \in Seq(Messages) /\ x \o (h \o q) \in Seq(Messages)
  <2>1. h \o q \in Seq(Messages)
    BY ConcatProperties
  <2> QED BY <2>1, ConcatProperties
<1>2. x \o <<>> = x /\ (x \o (h \o q)) \o <<>> = x \o (h \o q)
  BY <1>1, ConcatEmptySeq
<1>3. (x \o h) \o q = x \o (h \o q)
  BY ConcatAssociative
<1> QED BY <1>2, <1>3 DEF Regrouped

SameJoin(a, b, c, d, e, f, g, z) ==
  /\ Join(a, b, c, d, e, f, g) = Join(a, z, b \o c, d, e, f, g)
  /\ Join(a, b, c, d, e, f, g) = Join(a, b, c, z, d \o e, f, g)
  /\ Join(a, b, c, d, e, f, g) = Join(a, b, c, d, e, z, f \o g)
  /\ Join(a, b, c, d, e, f, g) = Join(a \o b, z, c, d, e, f, g)
  /\ Join(a, b, c, d, e, f, g) = Join(a, b, c \o d, z, e, f, g)
  /\ Join(a, b, c, d, e, f, g) = Join(a, b, c, d, e \o f, z, g)

LEMMA JoinRegroup ==
  ASSUME NEW a \in Seq(Messages), NEW b \in Seq(Messages), NEW c \in Seq(Messages),
         NEW d \in Seq(Messages), NEW e \in Seq(Messages), NEW f \in Seq(Messages),
         NEW g \in Seq(Messages)
  PROVE  SameJoin(a, b, c, d, e, f, g, <<>>)
<1> DEFINE z == <<>>
<1>0. \A x, y \in Seq(Messages) : x \o y \in Seq(Messages)
  BY ConcatProperties
<1>1. ASSUME NEW x \in Seq(Messages) PROVE x \o z = x
  BY ConcatEmptySeq
<1>2. \A x, h, q \in Seq(Messages) : Regrouped(x, h, q, z)
  BY Regroup
<1> HIDE DEF z
<1> DEFINE ab == a \o b  abc == ab \o c  abcd == abc \o d  abcde == abcd \o e
<1> HIDE DEF ab, abc, abcd, abcde
<1>3. ab \in Seq(Messages)
  BY <1>0, Zenon DEF ab
<1>4. abc \in Seq(Messages)
  BY <1>0, <1>3, Zenon DEF abc
<1>5. abcd \in Seq(Messages)
  BY <1>0, <1>4, Zenon DEF abcd
<1>6. abcde \in Seq(Messages)
  BY <1>0, <1>5, Zenon DEF abcde
<1>7. abc = (a \o z) \o (b \o c)
  <2>1. Regrouped(a, b, c, z)
    BY <1>2, Zenon
  <2> QED BY <2>1, Zenon DEF ab, abc, Regrouped
<1>8. ab = ab \o z
  BY <1>1, <1>3, Zenon
<1>9. abcde = (abc \o z) \o (d \o e)
  <2>1. Regrouped(abc, d, e, z)
    BY <1>2, <1>4, Zenon
  <2> QED BY <2>1, Zenon DEF abcd, abcde, Regrouped
<1>10. abcd = (ab \o (c \o d)) \o z
  <2>1. Regrouped(ab, c, d, z)
    BY <1>2, <1>3, Zenon
  <2> QED BY <2>1, Zenon DEF abc, abcd, Regrouped
<1>11. (abcde \o f) \o g = (abcde \o z) \o (f \o g)
  <2>1. Regrouped(abcde, f, g, z)
    BY <1>2, <1>6, Zenon
  <2> QED BY <2>1, Zenon DEF Regrouped
<1>12. abcde \o f = (abcd \o (e \o f)) \o z
  <2>1. Regrouped(abcd, e, f, z)
    BY <1>2, <1>5, Zenon
  <2> QED BY <2>1, Zenon DEF abcde, Regrouped
<1>13. Join(a, b, c, d, e, f, g) = (abcde \o f) \o g
  BY Zenon DEF Join, abcde, abcd, abc, ab
<1>14. Join(a, z, b \o c, d, e, f, g) = ((abc \o d) \o e) \o f \o g
  BY <1>7, Zenon DEF Join
<1>15. Join(a, b, c, z, d \o e, f, g) = (abcde \o f) \o g
  BY <1>9, Zenon DEF Join, abc, ab
<1>16. Join(a, b, c, d, e, z, f \o g) = (abcde \o f) \o g
  BY <1>11, Zenon DEF Join, abcde, abcd, abc, ab
<1>17. Join(a \o b, z, c, d, e, f, g) = ((abc \o d) \o e) \o f \o g
  BY <1>8, Zenon DEF Join, abc, ab
<1>18. Join(a, b, c \o d, z, e, f, g) = (abcde \o f) \o g
  BY <1>10, Zenon DEF Join, abcde, ab
<1>19. Join(a, b, c, d, e \o f, z, g) = (abcde \o f) \o g
  BY <1>12, Zenon DEF Join, abcd, abc, ab
<1>20. ((abc \o d) \o e) \o f \o g = (abcde \o f) \o g
  BY Zenon DEF abcde, abcd
<1>21. SameJoin(a, b, c, d, e, f, g, z)
  BY <1>13, <1>14, <1>15, <1>16, <1>17, <1>18, <1>19, <1>20 DEF SameJoin
<1> QED BY <1>21 DEF z

Associated(x, h, q) == (x \o h) \o q = x \o (h \o q)

LEMMA Associates ==
  ASSUME NEW x \in Seq(Messages), NEW h \in Seq(Messages), NEW q \in Seq(Messages)
  PROVE  Associated(x, h, q)
BY ConcatAssociative DEF Associated

(* The front of a line. *)
Leads(x, first, rest) == x \in Seq(Messages) /\ x # <<>> /\ Head(x) = first /\ Tail(x) = rest

LEMMA LeadsConcat ==
  ASSUME NEW first, NEW rest \in Seq(Messages), NEW x, NEW y \in Seq(Messages),
         Leads(x, first, rest)
  PROVE  Leads(x \o y, first, rest \o y)
<1>0. x \in Seq(Messages) /\ x # <<>> /\ Head(x) = first /\ Tail(x) = rest
  BY DEF Leads
<1>1. /\ Len(x) \in Nat \ {0} /\ Len(y) \in Nat /\ Len(rest) \in Nat /\ Len(rest) = Len(x) - 1
      /\ \A i \in 1 .. Len(rest) : rest[i] = x[i + 1]
  BY <1>0, LenProperties, HeadTailProperties, EmptySeq
<1> DEFINE xy == x \o y  ry == rest \o y
<1>2. /\ xy \in Seq(Messages) /\ Len(xy) = Len(x) + Len(y)
      /\ \A i \in 1 .. Len(x) + Len(y) : xy[i] = IF i <= Len(x) THEN x[i] ELSE y[i - Len(x)]
  BY <1>0, ConcatProperties
<1>3. /\ ry \in Seq(Messages) /\ Len(ry) = Len(rest) + Len(y)
      /\ \A i \in 1 .. Len(rest) + Len(y) :
           ry[i] = IF i <= Len(rest) THEN rest[i] ELSE y[i - Len(rest)]
  BY ConcatProperties
<1> HIDE DEF xy, ry
<1>4. xy # <<>>
  BY <1>1, <1>2
<1>5. Head(xy) = xy[1] /\ xy[1] = x[1] /\ x[1] = first
  BY <1>0, <1>1, <1>2, <1>4
<1>6. /\ Tail(xy) \in Seq(Messages) /\ Len(Tail(xy)) = Len(xy) - 1
      /\ \A i \in 1 .. Len(Tail(xy)) : Tail(xy)[i] = xy[i + 1]
  BY <1>2, <1>4, HeadTailProperties
<1>7. Len(Tail(xy)) = Len(ry)
  BY <1>1, <1>2, <1>3, <1>6
<1>8. ASSUME NEW i \in 1 .. Len(ry) PROVE Tail(xy)[i] = ry[i]
  <2>1. /\ i \in 1 .. Len(Tail(xy)) /\ i + 1 \in 1 .. Len(x) + Len(y)
        /\ i \in 1 .. Len(rest) + Len(y)
    BY <1>1, <1>2, <1>3, <1>7
  <2>2. Tail(xy)[i] = xy[i + 1]
    BY <1>6, <2>1
  <2>3. CASE i <= Len(rest)
    <3>1. i \in 1 .. Len(rest) /\ i + 1 <= Len(x)
      BY <1>1, <2>1, <2>3
    <3> QED BY <1>1, <1>2, <1>3, <2>1, <2>2, <2>3, <3>1
  <2>4. CASE ~(i <= Len(rest))
    <3>1. ~(i + 1 <= Len(x)) /\ (i + 1) - Len(x) = i - Len(rest)
      BY <1>1, <2>1, <2>4
    <3>2. xy[i + 1] = y[(i + 1) - Len(x)] /\ ry[i] = y[i - Len(rest)]
      BY <1>2, <1>3, <2>1, <2>4, <3>1
    <3> QED BY <2>2, <3>1, <3>2
  <2> QED BY <2>3, <2>4
<1>9. Tail(xy) = ry
  BY <1>3, <1>6, <1>7, <1>8, SeqEqual
<1>10. Leads(xy, first, ry)
  BY <1>2, <1>4, <1>5, <1>9 DEF Leads
<1> QED BY <1>10 DEF xy, ry

LEMMA JoinSeq ==
  ASSUME NEW a \in Seq(Messages), NEW b \in Seq(Messages), NEW c \in Seq(Messages),
         NEW d \in Seq(Messages), NEW e \in Seq(Messages), NEW f \in Seq(Messages),
         NEW g \in Seq(Messages)
  PROVE  Join(a, b, c, d, e, f, g) \in Seq(Messages)
<1>0. \A x, y \in Seq(Messages) : x \o y \in Seq(Messages)
  BY ConcatProperties
<1> DEFINE ab == a \o b  abc == ab \o c  abcd == abc \o d  abcde == abcd \o e
           abcdef == abcde \o f
<1> HIDE DEF ab, abc, abcd, abcde, abcdef
<1>1. ab \in Seq(Messages)
  BY <1>0, Zenon DEF ab
<1>2. abc \in Seq(Messages)
  BY <1>0, <1>1, Zenon DEF abc
<1>3. abcd \in Seq(Messages)
  BY <1>0, <1>2, Zenon DEF abcd
<1>4. abcde \in Seq(Messages)
  BY <1>0, <1>3, Zenon DEF abcde
<1>5. abcdef \in Seq(Messages)
  BY <1>0, <1>4, Zenon DEF abcdef
<1>6. abcdef \o g \in Seq(Messages)
  BY <1>0, <1>5, Zenon
<1> QED BY <1>6, Zenon DEF Join, abcdef, abcde, abcd, abc, ab

Appends(a, b, c, d, e, f, g, m) ==
  Join(a, b, c, d, e, f, Append(g, m)) = Append(Join(a, b, c, d, e, f, g), m)

LEMMA JoinAppend ==
  ASSUME NEW a \in Seq(Messages), NEW b \in Seq(Messages), NEW c \in Seq(Messages),
         NEW d \in Seq(Messages), NEW e \in Seq(Messages), NEW f \in Seq(Messages),
         NEW g \in Seq(Messages), NEW m \in Messages
  PROVE  Appends(a, b, c, d, e, f, g, m)
<1>0. \A x, y \in Seq(Messages) : x \o y \in Seq(Messages)
  BY ConcatProperties
<1> DEFINE abcdef == a \o b \o c \o d \o e \o f  one == <<m>>
<1>1. abcdef \in Seq(Messages)
  <2> DEFINE ab == a \o b  abc == ab \o c  abcd == abc \o d  abcde == abcd \o e
  <2> HIDE DEF ab, abc, abcd, abcde
  <2>1. ab \in Seq(Messages)
    BY <1>0, Zenon DEF ab
  <2>2. abc \in Seq(Messages)
    BY <1>0, <2>1, Zenon DEF abc
  <2>3. abcd \in Seq(Messages)
    BY <1>0, <2>2, Zenon DEF abcd
  <2>4. abcde \in Seq(Messages)
    BY <1>0, <2>3, Zenon DEF abcde
  <2> QED BY <1>0, <2>4, Zenon DEF abcde, abcd, abc, ab
<1>2. Append(g, m) = g \o one /\ one \in Seq(Messages)
  BY AppendIsConcat
<1>3. Join(a, b, c, d, e, f, g) \in Seq(Messages)
  BY JoinSeq, Zenon
<1>4. Append(Join(a, b, c, d, e, f, g), m) = Join(a, b, c, d, e, f, g) \o one
  BY <1>3, AppendIsConcat
<1> HIDE DEF one, abcdef
<1>5. Associated(abcdef, g, one)
  BY <1>1, <1>2, Associates, Zenon
<1> QED BY <1>2, <1>4, <1>5, Zenon DEF Join, abcdef, Associated, Appends

LEMMA JoinLeads ==
  ASSUME NEW first, NEW rest \in Seq(Messages), NEW a, Leads(a, first, rest),
         NEW b \in Seq(Messages), NEW c \in Seq(Messages),
         NEW d \in Seq(Messages), NEW e \in Seq(Messages), NEW f \in Seq(Messages),
         NEW g \in Seq(Messages)
  PROVE  Leads(Join(a, b, c, d, e, f, g), first, Join(rest, b, c, d, e, f, g))
<1>0. \A x, y \in Seq(Messages) : x \o y \in Seq(Messages)
  BY ConcatProperties
<1>1. ASSUME NEW x, NEW r \in Seq(Messages), NEW y \in Seq(Messages), Leads(x, first, r)
      PROVE  Leads(x \o y, first, r \o y) /\ r \o y \in Seq(Messages)
  BY <1>0, <1>1, LeadsConcat
<1> DEFINE u2 == a \o b    v2 == rest \o b  u3 == u2 \o c  v3 == v2 \o c
           u4 == u3 \o d   v4 == v3 \o d    u5 == u4 \o e  v5 == v4 \o e
           u6 == u5 \o f   v6 == v5 \o f
<1> HIDE DEF u2, v2, u3, v3, u4, v4, u5, v5, u6, v6
<1>2. Leads(u2, first, v2) /\ v2 \in Seq(Messages)
  BY <1>1, Zenon DEF u2, v2
<1>3. Leads(u3, first, v3) /\ v3 \in Seq(Messages)
  BY <1>1, <1>2, Zenon DEF u3, v3
<1>4. Leads(u4, first, v4) /\ v4 \in Seq(Messages)
  BY <1>1, <1>3, Zenon DEF u4, v4
<1>5. Leads(u5, first, v5) /\ v5 \in Seq(Messages)
  BY <1>1, <1>4, Zenon DEF u5, v5
<1>6. Leads(u6, first, v6) /\ v6 \in Seq(Messages)
  BY <1>1, <1>5, Zenon DEF u6, v6
<1>7. Leads(u6 \o g, first, v6 \o g)
  BY <1>1, <1>6, Zenon
<1> QED BY <1>7 DEF Join, u6, v6, u5, v5, u4, v4, u3, v3, u2, v2

(* What is left of a line in the words of TaskLine. *)
LEMMA LeftRemains ==
  ASSUME NEW s \in Seq(Messages), NEW t \in Seq(Messages), Left(t, s)
  PROVE  TasksOf(t) \in Line!Remains(TasksOf(s))
<1>0. /\ Len(s) \in Nat /\ Len(t) \in Nat /\ Len(t) <= Len(s)
      /\ DOMAIN s = 1 .. Len(s) /\ DOMAIN t = 1 .. Len(t)
  BY LenProperties DEF Left
<1>1. PICK f \in [1 .. Len(t) -> 1 .. Len(s)] :
        /\ \A i, j \in 1 .. Len(t) : i < j => f[i] < f[j]
        /\ \A i \in 1 .. Len(t) : t[i].task = s[f[i]].task
  BY DEF Left
<1>2. f \in Line!SeqOf(1 .. Len(s), Len(s)) /\ DOMAIN f = 1 .. Len(t)
  BY <1>0 DEF Line!SeqOf
<1> DEFINE ts == TasksOf(s)
<1>3. Len(ts) = Len(s) /\ \A i \in 1 .. Len(s) : ts[i] = s[i].task
  BY <1>0 DEF TasksOf
<1>4. f \in Line!Increasing(Len(ts))
  BY <1>1, <1>2, <1>3 DEF Line!Increasing
<1>5. TasksOf(t) = [i \in DOMAIN f |-> ts[f[i]]]
  <2>1. \A i \in 1 .. Len(t) : ts[f[i]] = t[i].task
    BY <1>1, <1>3
  <2> HIDE DEF ts
  <2> QED BY <1>0, <1>2, <2>1 DEF TasksOf
<1> HIDE DEF ts
<1>6. TasksOf(t) \in Line!Remains(ts)
  BY <1>4, <1>5 DEF Line!Remains
<1> QED BY <1>6 DEF ts
-----------------------------------------------------------------------------
(* The line as the programs keep it: the queues and hands, from the queue  *)
(* of results back to that of the scheduler.                               *)
Part(f) == queue[Config[f]]
Row ==
  Join(Part("results"), Held("submitter"), Part("submitter"), Held("compiler"),
       Part("compiler"), Held("scheduler"), Part("scheduler"))

Parts ==
  /\ \A f \in QrmQueueFields : Config[f] \in QueueNames /\ Part(f) \in Seq(Messages)
  /\ \A w \in Workers : Held(w) \in Seq(Messages)
  /\ Row \in Seq(Messages)

LEMMA RowParts == Types => Parts
<1> SUFFICES ASSUME Types PROVE Parts
  OBVIOUS
<1>1. ASSUME NEW f \in QrmQueueFields
      PROVE  Config[f] \in QueueNames /\ Part(f) \in Seq(Messages)
  BY ConfiguredQueues DEF Types, Contents, Part
<1>2. ASSUME NEW w \in Workers PROVE Held(w) \in Seq(Messages)
  <2>1. hand[w] \in Messages \cup {NoTask}
    BY DEF Types, Contents
  <2>2. CASE hand[w] = NoTask
    BY <2>2, EmptySeq DEF Held
  <2>3. CASE hand[w] # NoTask
    <3>1. hand[w] \in Messages
      BY <2>1, <2>3
    <3>2. <<hand[w]>> \in Seq(Messages)
      BY <3>1
    <3> QED BY <2>3, <3>2 DEF Held
  <2> QED BY <2>2, <2>3
<1>3. /\ Part("results") \in Seq(Messages) /\ Part("submitter") \in Seq(Messages)
      /\ Part("compiler") \in Seq(Messages) /\ Part("scheduler") \in Seq(Messages)
  BY <1>1, Names
<1>4. /\ Held("submitter") \in Seq(Messages) /\ Held("compiler") \in Seq(Messages)
      /\ Held("scheduler") \in Seq(Messages)
  BY <1>2, Names
<1>5. Row \in Seq(Messages)
  BY <1>3, <1>4, JoinSeq, Zenon DEF Row
<1> QED BY <1>1, <1>2, <1>5 DEF Parts

LEMMA RowPartsNext ==
  ASSUME Types', [Next]_vars
  PROVE  /\ \A f \in QrmQueueFields : Part(f)' \in Seq(Messages)
         /\ \A w \in Workers : Held(w)' \in Seq(Messages)
         /\ Row' \in Seq(Messages)
<1>1. Messages' = Messages
  BY Fixed
<1>2. Parts'
  BY RowParts, PTL
<1> QED BY <1>1, <1>2 DEF Parts

(* Where every part of the line keeps some of its tasks, so does the line. *)
LEMMA RowLeft ==
  ASSUME Types, Types', [Next]_vars,
         \A f \in QrmQueueFields : Left(Part(f)', Part(f)),
         \A w \in Workers : Left(Held(w)', Held(w))
  PROVE  Left(Row', Row)
<1>1. /\ Part("results") \in Seq(Messages) /\ Part("submitter") \in Seq(Messages)
      /\ Part("compiler") \in Seq(Messages) /\ Part("scheduler") \in Seq(Messages)
      /\ Held("submitter") \in Seq(Messages) /\ Held("compiler") \in Seq(Messages)
      /\ Held("scheduler") \in Seq(Messages)
  BY RowParts, Names DEF Parts
<1>4. /\ Part("results")' \in Seq(Messages) /\ Part("submitter")' \in Seq(Messages)
      /\ Part("compiler")' \in Seq(Messages) /\ Part("scheduler")' \in Seq(Messages)
      /\ Held("submitter")' \in Seq(Messages) /\ Held("compiler")' \in Seq(Messages)
      /\ Held("scheduler")' \in Seq(Messages)
  BY RowPartsNext, Names
<1>5. /\ Left(Part("results")', Part("results")) /\ Left(Part("submitter")', Part("submitter"))
      /\ Left(Part("compiler")', Part("compiler")) /\ Left(Part("scheduler")', Part("scheduler"))
      /\ Left(Held("submitter")', Held("submitter")) /\ Left(Held("compiler")', Held("compiler"))
      /\ Left(Held("scheduler")', Held("scheduler"))
  BY Names
<1> QED BY <1>1, <1>4, <1>5, JoinLeft, Zenon DEF Row

(* A message moves from the front of a queue to the hand before it, and    *)
(* from a hand to the end of the queue before it.                          *)
LEMMA JoinLift ==
  ASSUME NEW a \in Seq(Messages), NEW b \in Seq(Messages), NEW c \in Seq(Messages),
         NEW d \in Seq(Messages), NEW e \in Seq(Messages), NEW f \in Seq(Messages),
         NEW g \in Seq(Messages), NEW m \in Seq(Messages), NEW r \in Seq(Messages)
  PROVE  /\ Left(m \o r, c) => Left(Join(a, m, r, d, e, f, g), Join(a, <<>>, c, d, e, f, g))
         /\ Left(m \o r, e) => Left(Join(a, b, c, m, r, f, g), Join(a, b, c, <<>>, e, f, g))
         /\ Left(m \o r, g) => Left(Join(a, b, c, d, e, m, r), Join(a, b, c, d, e, <<>>, g))
<1> DEFINE mr == m \o r  z == <<>>
<1>1. mr \in Seq(Messages) /\ z \in Seq(Messages)
  BY ConcatProperties, EmptySeq
<1>0. /\ SameJoin(a, m, r, d, e, f, g, z) /\ SameJoin(a, b, c, m, r, f, g, z)
      /\ SameJoin(a, b, c, d, e, m, r, z)
  BY JoinRegroup, Zenon
<1> HIDE DEF mr, z
<1>2. Join(a, m, r, d, e, f, g) = Join(a, z, mr, d, e, f, g)
  BY <1>0, Zenon DEF SameJoin, mr
<1>3. Join(a, b, c, m, r, f, g) = Join(a, b, c, z, mr, f, g)
  BY <1>0, Zenon DEF SameJoin, mr
<1>4. Join(a, b, c, d, e, m, r) = Join(a, b, c, d, e, z, mr)
  BY <1>0, Zenon DEF SameJoin, mr
<1>5. ASSUME NEW s \in Seq(Messages) PROVE Left(s, s)
  BY LeftSame
<1>6. Left(mr, c) => Left(Join(a, z, mr, d, e, f, g), Join(a, z, c, d, e, f, g))
  BY <1>1, <1>5, JoinLeft, Zenon
<1>7. Left(mr, e) => Left(Join(a, b, c, z, mr, f, g), Join(a, b, c, z, e, f, g))
  BY <1>1, <1>5, JoinLeft, Zenon
<1>8. Left(mr, g) => Left(Join(a, b, c, d, e, z, mr), Join(a, b, c, d, e, z, g))
  BY <1>1, <1>5, JoinLeft, Zenon
<1> QED BY <1>2, <1>3, <1>4, <1>6, <1>7, <1>8 DEF mr, z

Passes(a, b, c, d, e, f, g, m) ==
  /\ Join(Append(a, m), <<>>, c, d, e, f, g) = Join(a, <<m>>, c, d, e, f, g)
  /\ Join(a, b, Append(c, m), <<>>, e, f, g) = Join(a, b, c, <<m>>, e, f, g)
  /\ Join(a, b, c, d, Append(e, m), <<>>, g) = Join(a, b, c, d, e, <<m>>, g)

LEMMA JoinPass ==
  ASSUME NEW a \in Seq(Messages), NEW b \in Seq(Messages), NEW c \in Seq(Messages),
         NEW d \in Seq(Messages), NEW e \in Seq(Messages), NEW f \in Seq(Messages),
         NEW g \in Seq(Messages), NEW m \in Messages
  PROVE  Passes(a, b, c, d, e, f, g, m)
<1> DEFINE one == <<m>>  z == <<>>
<1>1. one \in Seq(Messages)
  OBVIOUS
<1>2. Append(a, m) = a \o one /\ Append(c, m) = c \o one /\ Append(e, m) = e \o one
  BY AppendIsConcat
<1> HIDE DEF one
<1>0. /\ SameJoin(a, one, c, d, e, f, g, z) /\ SameJoin(a, b, c, one, e, f, g, z)
      /\ SameJoin(a, b, c, d, e, one, g, z)
  BY <1>1, JoinRegroup, Zenon
<1> HIDE DEF z
<1>3. Join(a, one, c, d, e, f, g) = Join(a \o one, z, c, d, e, f, g)
  BY <1>0, Zenon DEF SameJoin
<1>4. Join(a, b, c, one, e, f, g) = Join(a, b, c \o one, z, e, f, g)
  BY <1>0, Zenon DEF SameJoin
<1>5. Join(a, b, c, d, e, one, g) = Join(a, b, c, d, e \o one, z, g)
  BY <1>0, Zenon DEF SameJoin
<1> QED BY <1>2, <1>3, <1>4, <1>5 DEF one, z, Passes
-----------------------------------------------------------------------------
(* What each effect does to the line. *)
LEMMA PartsTaken ==
  ASSUME Types, [Next]_vars, NEW q \in QueueNames, NEW n \in 0 .. Len(queue[q]),
         NEW kept \in {0, 1}, Taken(q, n, kept), NEW f \in QrmQueueFields
  PROVE  /\ Config[f] # q => Part(f)' = Part(f)
         /\ Config[f] = q => Part(f)' = SubSeq(Part(f), n + 1, Len(Part(f)))
<1>1. Config[f] \in QueueNames /\ Config' = Config
  BY ConfiguredQueues, Fixed DEF Types
<1>2. /\ \A r \in QueueNames : r # q => queue'[r] = queue[r]
      /\ queue'[q] = SubSeq(queue[q], n + 1, Len(queue[q]))
  BY TakenQueue
<1> QED BY <1>1, <1>2 DEF Part

LEMMA PartsAdded ==
  ASSUME Types, [Next]_vars, NEW q \in QueueNames, NEW msg \in Messages,
         queue' = [queue EXCEPT ![q] = Append(@, msg)], NEW f \in QrmQueueFields
  PROVE  /\ Config[f] # q => Part(f)' = Part(f)
         /\ Config[f] = q => Part(f)' = Append(Part(f), msg)
<1>1. Config[f] \in QueueNames /\ Config' = Config
  BY ConfiguredQueues, Fixed DEF Types
<1>2. /\ \A r \in QueueNames : r # q => queue'[r] = queue[r]
      /\ queue'[q] = Append(queue[q], msg)
  BY AddedQueue
<1> QED BY <1>1, <1>2 DEF Part

LEMMA PartsSame ==
  ASSUME [Next]_vars, queue' = queue, NEW f \in QrmQueueFields PROVE Part(f)' = Part(f)
BY Fixed DEF Part

LEMMA HandsSame ==
  ASSUME hand' = hand, NEW w \in Workers PROVE Held(w)' = Held(w)
BY DEF Held

LEMMA HandSet ==
  ASSUME Types, NEW w \in Workers, NEW m, hand' = [hand EXCEPT ![w] = m]
  PROVE  /\ m = NoTask => Held(w)' = <<>>
         /\ m # NoTask => Held(w)' = <<m>>
         /\ \A v \in Workers : v # w => Held(v)' = Held(v)
<1>1. DOMAIN hand = Workers
  BY DEF Types, Contents
<1>2. hand'[w] = m /\ \A v \in Workers : v # w => hand'[v] = hand[v]
  BY <1>1
<1> QED BY <1>2 DEF Held

LEMMA RowDiscard ==
  ASSUME Types, Types', [Next]_vars, NEW q \in QueueNames, NEW n \in 0 .. Len(queue[q]),
         Discard(q, n)
  PROVE  Left(Row', Row)
<1>1. Taken(q, n, 0) /\ hand' = hand
  BY DEF Discard
<1>2. ASSUME NEW f \in QrmQueueFields PROVE Left(Part(f)', Part(f))
  <2>1. Part(f) \in Seq(Messages) /\ Config[f] \in QueueNames
    BY RowParts DEF Parts
  <2>2. CASE Config[f] # q
    <3>1. Part(f)' = Part(f)
      BY <1>1, <2>2, PartsTaken
    <3>2. Left(Part(f), Part(f))
      BY <2>1, LeftSame
    <3> QED BY <3>1, <3>2
  <2>3. CASE Config[f] = q
    <3>1. Part(f)' = SubSeq(Part(f), n + 1, Len(Part(f)))
      BY <1>1, <2>3, PartsTaken
    <3>2. n \in 0 .. Len(Part(f))
      BY <2>3 DEF Part
    <3>3. Left(SubSeq(Part(f), n + 1, Len(Part(f))), Part(f))
      BY <2>1, <3>2, LeftTaken
    <3> QED BY <3>1, <3>3
  <2> QED BY <2>2, <2>3
<1>3. ASSUME NEW w \in Workers PROVE Left(Held(w)', Held(w))
  <2>1. Held(w)' = Held(w)
    BY <1>1, HandsSame
  <2>2. Left(Held(w), Held(w))
    BY RowParts, LeftSame DEF Parts
  <2> QED BY <2>1, <2>2
<1> QED BY <1>2, <1>3, RowLeft

LEMMA RowKept ==
  ASSUME Types, Types', [Next]_vars, NEW w \in Workers, Drop(w) \/ Rework(w)
  PROVE  Left(Row', Row)
<1>0. main[w] \in InHand /\ queue' = queue
  BY DEF Drop, Rework
<1>1. ASSUME NEW f \in QrmQueueFields PROVE Left(Part(f)', Part(f))
  <2>1. Part(f)' = Part(f)
    BY <1>0, PartsSame
  <2>2. Left(Part(f), Part(f))
    BY RowParts, LeftSame DEF Parts
  <2> QED BY <2>1, <2>2
<1>2. ASSUME NEW m, m = NoTask \/ (m \in Messages /\ m.task = hand[w].task),
             hand' = [hand EXCEPT ![w] = m], NEW v \in Workers
      PROVE  Left(Held(v)', Held(v))
  <2>1. Held(v) \in Seq(Messages)
    BY RowParts DEF Parts
  <2>2. CASE v # w
    <3>1. Held(v)' = Held(v)
      BY <1>2, <2>2, HandSet
    <3>2. Left(Held(v), Held(v))
      BY <2>1, LeftSame
    <3> QED BY <3>1, <3>2
  <2>3. CASE v = w /\ m = NoTask
    <3>1. Held(v)' = <<>>
      BY <1>2, <2>3, HandSet
    <3>2. Left(<<>>, Held(v))
      BY <2>1, LeftNothing
    <3> QED BY <3>1, <3>2
  <2>4. CASE v = w /\ m # NoTask
    <3>1. Held(v)' = <<m>>
      BY <1>2, <2>4, HandSet
    <3>2. Held(v) = <<hand[v]>> /\ hand[v] \in Messages
      BY <1>0, <2>4, HeldMessage DEF Held
    <3>3. m \in Messages /\ m.task = hand[v].task
      BY <1>2, <2>4
    <3>4. Left(<<m>>, <<hand[v]>>)
      <4> DEFINE t == <<m>>  s == <<hand[v]>>
      <4>1. /\ t \in Seq(Messages) /\ s \in Seq(Messages) /\ Len(t) = 1 /\ Len(s) = 1
        BY <3>2, <3>3
      <4>2. \A i \in 1 .. Len(s) : t[i].task = s[i].task
        BY <3>3
      <4> HIDE DEF s, t
      <4>3. Left(t, s)
        BY <4>1, <4>2, LeftSame
      <4> QED BY <4>3 DEF s, t
    <3> QED BY <3>1, <3>2, <3>4
  <2> QED BY <2>2, <2>3, <2>4
<1>3. PICK m : (m = NoTask \/ (m \in Messages /\ m.task = hand[w].task))
               /\ hand' = [hand EXCEPT ![w] = m]
  <2>1. CASE Drop(w)
    <3>1. hand' = [hand EXCEPT ![w] = NoTask]
      BY <2>1 DEF Drop
    <3> QED BY <3>1, Zenon
  <2>2. CASE Rework(w)
    <3>1. PICK msg \in Messages : msg.task = hand[w].task /\ hand' = [hand EXCEPT ![w] = msg]
      BY <2>2 DEF Rework
    <3> QED BY <3>1, Zenon
  <2> QED BY <2>1, <2>2
<1>4. ASSUME NEW v \in Workers PROVE Left(Held(v)', Held(v))
  BY <1>2, <1>3
<1> QED BY <1>1, <1>4, RowLeft

LEMMA RowLift ==
  ASSUME Types, Types', [Next]_vars, DistinctQueues, NEW w \in Workers,
         NEW n \in 1 .. Len(queue[Config[w]]), Lift(w, n)
  PROVE  Left(Row', Row)
<1>0. /\ w \in QrmQueueFields /\ Config[w] \in QueueNames /\ queue[Config[w]] \in Seq(Messages)
      /\ queue[Config[w]] # <<>> /\ hand[w] = NoTask /\ Taken(Config[w], n, 1)
      /\ hand' = [hand EXCEPT ![w] = queue[Config[w]][1]]
  BY RowParts, Names DEF Parts, Part, Lift
<1>1. n \in 0 .. Len(queue[Config[w]])
  BY <1>0, LenProperties
<1> DEFINE r == SubSeq(Part(w), n + 1, Len(Part(w)))  m == <<Part(w)[1]>>
<1>2. Part(w)' = r /\ \A f \in QrmQueueFields : f # w => Part(f)' = Part(f)
  BY <1>0, <1>1, PartsTaken, Distinct
<1>3. Held(w) = <<>> /\ Held(w)' = m /\ \A v \in Workers : v # w => Held(v)' = Held(v)
  <2>1. queue[Config[w]][1] # NoTask
    BY <1>0, FirstMessage
  <2>2. PICK first : first = queue[Config[w]][1]
    OBVIOUS
  <2>3. Held(w)' = <<first>> /\ \A v \in Workers : v # w => Held(v)' = Held(v)
    BY <1>0, <2>1, <2>2, HandSet
  <2> QED BY <1>0, <2>2, <2>3 DEF Held, Part
<1>4. r \in Seq(Messages) /\ m \in Seq(Messages) /\ Left(m \o r, Part(w))
  BY <1>0, LeftFirst DEF Part
<1> HIDE DEF r, m
<1>5. /\ Part("results") \in Seq(Messages) /\ Part("submitter") \in Seq(Messages)
      /\ Part("compiler") \in Seq(Messages) /\ Part("scheduler") \in Seq(Messages)
      /\ Held("submitter") \in Seq(Messages) /\ Held("compiler") \in Seq(Messages)
      /\ Held("scheduler") \in Seq(Messages)
  BY RowParts, Names DEF Parts
<1> DEFINE a == Part("results")  b == Held("submitter")  c == Part("submitter")
           d == Held("compiler")  e == Part("compiler")  f == Held("scheduler")
           g == Part("scheduler")
<1>6. CASE w = "submitter"
  <2>1. Row' = Join(a, m, r, d, e, f, g) /\ Row = Join(a, <<>>, c, d, e, f, g)
    BY <1>2, <1>3, <1>6, Names DEF Row
  <2>2. Left(m \o r, c)
    BY <1>4, <1>6
  <2> HIDE DEF a, b, c, d, e, f, g
  <2>3. Left(Join(a, m, r, d, e, f, g), Join(a, <<>>, c, d, e, f, g))
    BY <1>4, <1>5, <2>2, JoinLift DEF a, b, c, d, e, f, g
  <2> QED BY <2>1, <2>3
<1>7. CASE w = "compiler"
  <2>1. Row' = Join(a, b, c, m, r, f, g) /\ Row = Join(a, b, c, <<>>, e, f, g)
    BY <1>2, <1>3, <1>7, Names DEF Row
  <2>2. Left(m \o r, e)
    BY <1>4, <1>7
  <2> HIDE DEF a, b, c, d, e, f, g
  <2>3. Left(Join(a, b, c, m, r, f, g), Join(a, b, c, <<>>, e, f, g))
    BY <1>4, <1>5, <2>2, JoinLift DEF a, b, c, d, e, f, g
  <2> QED BY <2>1, <2>3
<1>8. CASE w = "scheduler"
  <2>1. Row' = Join(a, b, c, d, e, m, r) /\ Row = Join(a, b, c, d, e, <<>>, g)
    BY <1>2, <1>3, <1>8, Names DEF Row
  <2>2. Left(m \o r, g)
    BY <1>4, <1>8
  <2> HIDE DEF a, b, c, d, e, f, g
  <2>3. Left(Join(a, b, c, d, e, m, r), Join(a, b, c, d, e, <<>>, g))
    BY <1>4, <1>5, <2>2, JoinLift DEF a, b, c, d, e, f, g
  <2> QED BY <2>1, <2>3
<1> QED BY <1>6, <1>7, <1>8, Names

LEMMA RowPass ==
  ASSUME Types, Types', [Next]_vars, DistinctQueues, NEW w \in Workers, PassOn(w)
  PROVE  Row' = Row
<1>0. /\ main[w] \in InHand /\ hand' = [hand EXCEPT ![w] = NoTask]
      /\ queue' = [queue EXCEPT ![Destination(w)] = Append(@, hand[w])]
  BY DEF PassOn
<1>1. PICK m \in Messages : m = hand[w] /\ m # NoTask
  BY <1>0, HeldMessage
<1>2. PICK q \in QueueNames : q = Destination(w)
  BY <1>0, NextStage
<1>3. queue' = [queue EXCEPT ![q] = Append(@, m)]
  BY <1>0, <1>1, <1>2
<1>4. \A f \in QrmQueueFields : /\ Config[f] # q => Part(f)' = Part(f)
                                /\ Config[f] = q => Part(f)' = Append(Part(f), m)
  BY <1>3, PartsAdded
<1>5. Held(w) = <<m>> /\ Held(w)' = <<>> /\ \A v \in Workers : v # w => Held(v)' = Held(v)
  BY <1>0, <1>1, HandSet DEF Held
<1>6. /\ Part("results") \in Seq(Messages) /\ Part("submitter") \in Seq(Messages)
      /\ Part("compiler") \in Seq(Messages) /\ Part("scheduler") \in Seq(Messages)
      /\ Held("submitter") \in Seq(Messages) /\ Held("compiler") \in Seq(Messages)
      /\ Held("scheduler") \in Seq(Messages)
  BY RowParts, Names DEF Parts
<1> DEFINE a == Part("results")  b == Held("submitter")  c == Part("submitter")
           d == Held("compiler")  e == Part("compiler")  f == Held("scheduler")
           g == Part("scheduler")
<1>7. CASE w = "submitter"
  <2>1. q = Config["results"]
    BY <1>0, <1>2, <1>7, NextStage
  <2>2. Part("results")' = Append(a, m)
        /\ \A h \in QrmQueueFields : h # "results" => Part(h)' = Part(h)
    BY <1>4, <2>1, Distinct, Names
  <2>3. Row' = Join(Append(a, m), <<>>, c, d, e, f, g) /\ Row = Join(a, <<m>>, c, d, e, f, g)
    BY <1>5, <1>7, <2>2, Names DEF Row
  <2> HIDE DEF a, b, c, d, e, f, g
  <2>4. Passes(a, b, c, d, e, f, g, m)
    BY <1>6, JoinPass DEF a, b, c, d, e, f, g
  <2> QED BY <2>3, <2>4 DEF Passes
<1>8. CASE w = "compiler"
  <2>1. q = Config["submitter"]
    BY <1>0, <1>2, <1>8, NextStage
  <2>2. Part("submitter")' = Append(c, m)
        /\ \A h \in QrmQueueFields : h # "submitter" => Part(h)' = Part(h)
    BY <1>4, <2>1, Distinct, Names
  <2>3. Row' = Join(a, b, Append(c, m), <<>>, e, f, g) /\ Row = Join(a, b, c, <<m>>, e, f, g)
    BY <1>5, <1>8, <2>2, Names DEF Row
  <2> HIDE DEF a, b, c, d, e, f, g
  <2>4. Passes(a, b, c, d, e, f, g, m)
    BY <1>6, JoinPass DEF a, b, c, d, e, f, g
  <2> QED BY <2>3, <2>4 DEF Passes
<1>9. CASE w = "scheduler"
  <2>1. q = Config["compiler"]
    BY <1>0, <1>2, <1>9, NextStage
  <2>2. Part("compiler")' = Append(e, m)
        /\ \A h \in QrmQueueFields : h # "compiler" => Part(h)' = Part(h)
    BY <1>4, <2>1, Distinct, Names
  <2>3. Row' = Join(a, b, c, d, Append(e, m), <<>>, g) /\ Row = Join(a, b, c, d, e, <<m>>, g)
    BY <1>5, <1>9, <2>2, Names DEF Row
  <2> HIDE DEF a, b, c, d, e, f, g
  <2>4. Passes(a, b, c, d, e, f, g, m)
    BY <1>6, JoinPass DEF a, b, c, d, e, f, g
  <2> QED BY <2>3, <2>4 DEF Passes
<1> QED BY <1>7, <1>8, <1>9, Names

LEMMA RowEnter ==
  ASSUME Types, Types', [Next]_vars, DistinctQueues, NEW d \in Daemons, Enter(d)
  PROVE  Row' = Append(Row, NewTask(d))
<1>0. /\ queue' = [queue EXCEPT ![Config["scheduler"]] = Append(@, NewTask(d))]
      /\ hand' = hand
  BY DEF Enter
<1>1. PICK m \in Messages : m = NewTask(d)
  BY NewTaskMessage
<1>2. "scheduler" \in QrmQueueFields /\ Config["scheduler"] \in QueueNames
  BY RowParts, Names DEF Parts
<1>3. /\ Part("scheduler")' = Append(Part("scheduler"), m)
      /\ \A h \in QrmQueueFields : h # "scheduler" => Part(h)' = Part(h)
  <2>1. PICK q \in QueueNames : q = Config["scheduler"]
    BY <1>2
  <2>2. queue' = [queue EXCEPT ![q] = Append(@, m)]
    BY <1>0, <1>1, <2>1
  <2>3. \A h \in QrmQueueFields : /\ Config[h] # q => Part(h)' = Part(h)
                                  /\ Config[h] = q => Part(h)' = Append(Part(h), m)
    BY <2>2, PartsAdded
  <2> QED BY <1>2, <2>1, <2>3, Distinct
<1>4. \A w \in Workers : Held(w)' = Held(w)
  BY <1>0, HandsSame
<1>5. /\ Part("results") \in Seq(Messages) /\ Part("submitter") \in Seq(Messages)
      /\ Part("compiler") \in Seq(Messages) /\ Part("scheduler") \in Seq(Messages)
      /\ Held("submitter") \in Seq(Messages) /\ Held("compiler") \in Seq(Messages)
      /\ Held("scheduler") \in Seq(Messages)
  BY RowParts, Names DEF Parts
<1>6. Row' = Join(Part("results"), Held("submitter"), Part("submitter"), Held("compiler"),
                  Part("compiler"), Held("scheduler"), Append(Part("scheduler"), m))
  BY <1>3, <1>4, Names DEF Row
<1>7. Appends(Part("results"), Held("submitter"), Part("submitter"), Held("compiler"),
              Part("compiler"), Held("scheduler"), Part("scheduler"), m)
  BY <1>5, JoinAppend, Zenon
<1>8. Row' = Append(Row, m)
  BY <1>6, <1>7, Zenon DEF Row, Appends
<1> QED BY <1>1, <1>8

LEMMA RowShow ==
  ASSUME Types, Types', [Next]_vars, DistinctQueues, NEW d \in Daemons,
         NEW n \in 1 .. Len(queue[ResultQueue]), Show(d, n)
  PROVE  /\ Row # <<>> /\ Head(Row) = queue[ResultQueue][1] /\ Tail(Row) \in Seq(Messages)
         /\ Left(Row', Tail(Row))
<1>0. /\ ResultQueue = Config["results"] /\ ResultQueue \in QueueNames
      /\ "results" \in QrmQueueFields /\ Part("results") = queue[ResultQueue]
  BY ConfiguredQueues, Names DEF Types, Part
<1>1. /\ Part("results") \in Seq(Messages) /\ Part("submitter") \in Seq(Messages)
      /\ Part("compiler") \in Seq(Messages) /\ Part("scheduler") \in Seq(Messages)
      /\ Held("submitter") \in Seq(Messages) /\ Held("compiler") \in Seq(Messages)
      /\ Held("scheduler") \in Seq(Messages)
  BY RowParts, Names DEF Parts
<1>2. Part("results") # <<>> /\ Taken(ResultQueue, n, 1) /\ hand' = hand
  BY <1>0 DEF Show
<1>3. n \in 0 .. Len(queue[ResultQueue]) /\ n >= 1 /\ 1 \in {0, 1}
  BY <1>0, <1>1, LenProperties
<1> DEFINE s == Part("results")  r == SubSeq(s, n + 1, Len(s))  rest == Tail(s)
<1>4. Part("results")' = r /\ \A h \in QrmQueueFields : h # "results" => Part(h)' = Part(h)
  BY <1>0, <1>2, <1>3, PartsTaken, Distinct
<1>5. \A w \in Workers : Held(w)' = Held(w)
  BY <1>2, HandsSame
<1>6. r \in Seq(Messages) /\ Left(r, SubSeq(s, 2, Len(s)))
  BY <1>0, <1>1, <1>3, LeftTaken
<1>7. rest = SubSeq(s, 2, Len(s)) /\ rest \in Seq(Messages)
  BY <1>1, <1>2, TailIsSubSeq, HeadTailProperties
<1>8. Leads(s, Head(s), rest)
  BY <1>1, <1>2 DEF Leads
<1>9. Head(s) = queue[ResultQueue][1]
  BY <1>0
<1> DEFINE b == Held("submitter")  c == Part("submitter")
           x == Held("compiler")  e == Part("compiler")  f == Held("scheduler")
           g == Part("scheduler")
<1>10. Row' = Join(r, b, c, x, e, f, g) /\ Row = Join(s, b, c, x, e, f, g)
  BY <1>4, <1>5, Names DEF Row
<1>11. Left(r, rest)
  BY <1>6, <1>7
<1> HIDE DEF s, r, rest, b, c, x, e, f, g
<1>12. /\ b \in Seq(Messages) /\ c \in Seq(Messages) /\ x \in Seq(Messages)
       /\ e \in Seq(Messages) /\ f \in Seq(Messages) /\ g \in Seq(Messages)
  BY <1>1 DEF b, c, x, e, f, g
<1>13. Leads(Row, Head(s), Join(rest, b, c, x, e, f, g))
  BY <1>7, <1>8, <1>10, <1>12, JoinLeads, Zenon
<1>14. ASSUME NEW y \in Seq(Messages) PROVE Left(y, y)
  BY LeftSame
<1>15. Left(Join(r, b, c, x, e, f, g), Join(rest, b, c, x, e, f, g))
  BY <1>6, <1>7, <1>11, <1>12, <1>14, JoinLeft, Zenon
<1>16. Join(rest, b, c, x, e, f, g) \in Seq(Messages)
  BY <1>7, <1>12, JoinSeq, Zenon
<1> QED BY <1>9, <1>10, <1>13, <1>15, <1>16 DEF Leads

(* The tasks of a line, and of its front and its end. *)
LEMMA TasksAppend ==
  ASSUME NEW s \in Seq(Messages), NEW m \in Messages, NEW d, m.task = d
  PROVE  TasksOf(Append(s, m)) = Append(TasksOf(s), d)
<1>1. /\ Len(s) \in Nat /\ DOMAIN s = 1 .. Len(s)
      /\ Append(s, m) \in Seq(Messages) /\ Len(Append(s, m)) = Len(s) + 1
      /\ \A i \in 1 .. Len(s) : Append(s, m)[i] = s[i]
      /\ Append(s, m)[Len(s) + 1] = m /\ DOMAIN Append(s, m) = 1 .. Len(s) + 1
  BY LenProperties, AppendProperties
<1> DEFINE t == Append(s, m)  u == TasksOf(s)  v == TasksOf(t)
           S == {t[i].task : i \in 1 .. Len(s) + 1}
<1>2. u \in Seq(S) /\ Len(u) = Len(s) /\ \A i \in 1 .. Len(s) : u[i] = s[i].task
  <2>1. \A i \in 1 .. Len(s) : s[i].task \in S
    <3>1. \A i \in 1 .. Len(s) : i \in 1 .. Len(s) + 1 /\ t[i] = s[i]
      BY <1>1
    <3> QED BY <3>1
  <2>2. u = [i \in 1 .. Len(s) |-> s[i].task]
    BY <1>1 DEF TasksOf
  <2> HIDE DEF S, u
  <2> QED BY <1>1, <2>1, <2>2
<1>3. /\ v \in Seq(S) /\ Len(v) = Len(s) + 1
      /\ \A i \in 1 .. Len(s) + 1 : v[i] = t[i].task
  <2>1. v = [i \in 1 .. Len(s) + 1 |-> t[i].task]
    BY <1>1 DEF TasksOf
  <2>2. \A i \in 1 .. Len(s) + 1 : t[i].task \in S
    OBVIOUS
  <2> HIDE DEF S, v, t
  <2> QED BY <1>1, <2>1, <2>2
<1>4. d \in S
  <2>1. Len(s) + 1 \in 1 .. Len(s) + 1 /\ t[Len(s) + 1].task = d
    BY <1>1
  <2> QED BY <2>1
<1>5. \A i \in 1 .. Len(s) : t[i] = s[i]
  BY <1>1
<1>6. t[Len(s) + 1] = m
  BY <1>1
<1> HIDE DEF t, u, v, S
<1>7. /\ Append(u, d) \in Seq(S) /\ Len(Append(u, d)) = Len(s) + 1
      /\ \A i \in 1 .. Len(s) : Append(u, d)[i] = u[i]
      /\ Append(u, d)[Len(s) + 1] = d
  BY <1>2, <1>4, AppendProperties
<1>8. ASSUME NEW i \in 1 .. Len(s) + 1 PROVE v[i] = Append(u, d)[i]
  <2>1. CASE i \in 1 .. Len(s)
    BY <1>2, <1>3, <1>5, <1>7, <2>1
  <2>2. CASE i = Len(s) + 1
    BY <1>3, <1>6, <1>7, <2>2
  <2>3. Len(s) \in Nat
    BY <1>1
  <2>4. i \in 1 .. Len(s) \/ i = Len(s) + 1
    BY <2>3
  <2> QED BY <2>1, <2>2, <2>4
<1>9. v = Append(u, d)
  BY <1>3, <1>7, <1>8, SeqEqual
<1> QED BY <1>9 DEF t, u, v

LEMMA TasksFront ==
  ASSUME NEW s \in Seq(Messages), s # <<>>
  PROVE  /\ TasksOf(s) # <<>> /\ Head(TasksOf(s)) = Head(s).task
         /\ Tail(TasksOf(s)) = TasksOf(Tail(s))
<1>1. /\ Len(s) \in Nat \ {0} /\ DOMAIN s = 1 .. Len(s) /\ Head(s) = s[1]
      /\ Tail(s) \in Seq(Messages) /\ Len(Tail(s)) = Len(s) - 1
      /\ \A i \in 1 .. Len(s) - 1 : Tail(s)[i] = s[i + 1]
      /\ DOMAIN Tail(s) = 1 .. Len(s) - 1
  BY LenProperties, EmptySeq, HeadTailProperties
<1> DEFINE u == TasksOf(s)  v == TasksOf(Tail(s))
<1>2. u = [i \in 1 .. Len(s) |-> s[i].task] /\ v = [i \in 1 .. Len(s) - 1 |-> s[i + 1].task]
  BY <1>1 DEF TasksOf
<1> DEFINE S == {s[i].task : i \in 1 .. Len(s)}
<1>3. u \in Seq(S) /\ Len(u) = Len(s) /\ \A i \in 1 .. Len(s) : u[i] = s[i].task
  <2>1. \A i \in 1 .. Len(s) : s[i].task \in S
    OBVIOUS
  <2> HIDE DEF S, u
  <2> QED BY <1>1, <1>2, <2>1
<1>4. v \in Seq(S) /\ Len(v) = Len(s) - 1 /\ \A i \in 1 .. Len(s) - 1 : v[i] = s[i + 1].task
  <2>1. \A i \in 1 .. Len(s) - 1 : s[i + 1].task \in S
    BY <1>1
  <2> HIDE DEF S, v
  <2> QED BY <1>1, <1>2, <2>1
<1> HIDE DEF u, v, S
<1>5. u # <<>> /\ Head(u) = u[1] /\ u[1] = s[1].task
  BY <1>1, <1>3
<1>6. /\ Tail(u) \in Seq(S) /\ Len(Tail(u)) = Len(s) - 1
      /\ \A i \in 1 .. Len(s) - 1 : Tail(u)[i] = u[i + 1]
  BY <1>3, <1>5, HeadTailProperties
<1>7. ASSUME NEW i \in 1 .. Len(s) - 1 PROVE Tail(u)[i] = v[i]
  <2>1. i + 1 \in 1 .. Len(s)
    BY <1>1
  <2> QED BY <1>3, <1>4, <1>6, <2>1
<1>8. Tail(u) = v
  BY <1>4, <1>6, <1>7, SeqEqual
<1> QED BY <1>1, <1>5, <1>8 DEF u, v
-----------------------------------------------------------------------------
(* The mapping to TaskLine. *)
LEMMA StandingIs == Standing = IF DistinctQueues THEN TasksOf(Row) ELSE <<>>
BY DEF Standing, TasksOf, Row, Join, Part, Config

LEMMA StandingNext ==
  ASSUME [Next]_vars
  PROVE  /\ DistinctQueues => Standing = TasksOf(Row) /\ Standing' = TasksOf(Row')
         /\ ~DistinctQueues => Standing = <<>> /\ Standing' = <<>>
<1>1. DistinctQueues' = DistinctQueues
  BY Fixed
<1>2. Standing' = IF DistinctQueues' THEN TasksOf(Row') ELSE <<>>
  BY DEF Standing, TasksOf, Row, Join, Part, Config
<1> QED BY <1>1, <1>2, StandingIs

LEMMA PrintedSame == ASSUME [Next]_vars, report' = report PROVE Printed' = Printed
BY Fixed DEF Printed

(* A step that only loses tasks. *)
LEMMA LineLoses ==
  ASSUME Types, Types', [Next]_vars, DistinctQueues => Left(Row', Row),
         UNCHANGED <<report, order>>
  PROVE  Line!Next \/ UNCHANGED Line!vars
<1>1. Printed' = Printed /\ ToSet(order)' = ToSet(order)
  BY PrintedSame
<1>2. CASE DistinctQueues
  <2>1. Row \in Seq(Messages) /\ Row' \in Seq(Messages)
    BY RowParts, RowPartsNext DEF Parts
  <2>2. TasksOf(Row') \in Line!Remains(TasksOf(Row))
    BY <1>2, <2>1, LeftRemains
  <2>3. Standing' \in Line!Remains(Standing)
    BY <1>2, <2>2, StandingNext
  <2> QED BY <1>1, <2>3 DEF Line!Next, Line!Lose
<1>3. CASE ~DistinctQueues
  BY <1>1, <1>3, StandingNext DEF Line!vars
<1> QED BY <1>2, <1>3

LEMMA LineSubmits ==
  ASSUME Accounts, Types', [Next]_vars, NEW d \in Daemons, main[d] = "running",
         Enter(d) \/ Miss(d)
  PROVE  Line!Submit(d)
<1>0. Types /\ Submitted /\ order \in Seq(Daemons) /\ order' = Append(order, d)
      /\ report' = report
  BY DEF Accounts, Types, Contents, Enter, Miss
<1>1. d \notin ToSet(order) /\ ToSet(order)' = ToSet(order) \cup {d}
  <2>1. ToSet(Append(order, d)) = ToSet(order) \cup {d}
    BY <1>0, AppendedSet
  <2>2. ToSet(order)' = ToSet(order')
    BY DEF ToSet
  <2> QED BY <1>0, <2>1, <2>2 DEF Submitted
<1>2. Printed' = Printed
  BY <1>0, PrintedSame
<1>3. Standing' \in {Standing, Append(Standing, d)}
  <2>1. CASE ~DistinctQueues
    BY <2>1, StandingNext
  <2>2. CASE DistinctQueues /\ Enter(d)
    <3>1. Row \in Seq(Messages) /\ NewTask(d) \in Messages /\ NewTask(d).task = d
      BY <1>0, RowParts, NewTaskMessage DEF Parts
    <3>2. Row' = Append(Row, NewTask(d))
      BY <1>0, <2>2, RowEnter
    <3>3. PICK m : m = NewTask(d)
      OBVIOUS
    <3>4. TasksOf(Append(Row, m)) = Append(TasksOf(Row), d)
      BY <3>1, <3>3, TasksAppend
    <3> QED BY <2>2, <3>2, <3>3, <3>4, StandingNext
  <2>3. CASE DistinctQueues /\ Miss(d)
    <3>1. queue' = queue /\ hand' = hand
      BY <2>3 DEF Miss
    <3>2. Row' = Row
      <4>1. \A f \in QrmQueueFields : Part(f)' = Part(f)
        BY <3>1, PartsSame
      <4>2. \A w \in Workers : Held(w)' = Held(w)
        BY <3>1, HandsSame
      <4> QED BY <4>1, <4>2, Names DEF Row
    <3> QED BY <2>3, <3>2, StandingNext
  <2> QED BY <2>1, <2>2, <2>3
<1> QED BY <1>1, <1>2, <1>3 DEF Line!Submit

LEMMA LineShows ==
  ASSUME Accounts, Types', [Next]_vars, NEW d \in Daemons,
         NEW n \in 1 .. Len(queue[ResultQueue]), Show(d, n)
  PROVE  Line!Next \/ UNCHANGED Line!vars
<1>0. /\ Types /\ Submitted /\ main[d] = "waiting" /\ order' = order
      /\ ResultQueue \in QueueNames /\ queue[ResultQueue] # <<>>
      /\ report' = [report EXCEPT ![d] = queue[ResultQueue][1]]
      /\ report \in [Daemons -> Messages \cup {NoTask}]
  BY ConfiguredQueues DEF Accounts, Types, Contents, Show
<1>1. PICK m \in Messages : m = queue[ResultQueue][1] /\ m # NoTask
  BY <1>0, FirstMessage
<1>2. ToSet(order)' = ToSet(order) /\ d \in ToSet(order) /\ report[d] = NoTask
  <2>1. ToSet(order)' = ToSet(order')
    BY DEF ToSet
  <2> QED BY <1>0, <2>1 DEF Submitted
<1>3. DistinctQueues' = DistinctQueues
  BY Fixed
<1>4. CASE ~DistinctQueues
  <2>1. Printed' = Printed
    BY <1>3, <1>4 DEF Printed
  <2> QED BY <1>2, <1>4, <2>1, StandingNext DEF Line!vars
<1>5. CASE DistinctQueues
  <2>1. /\ Row # <<>> /\ Head(Row) = m /\ Tail(Row) \in Seq(Messages)
        /\ Left(Row', Tail(Row)) /\ Row \in Seq(Messages) /\ Row' \in Seq(Messages)
    BY <1>0, <1>1, <1>5, RowShow, RowParts, RowPartsNext DEF Parts
  <2>2. /\ TasksOf(Row) # <<>> /\ Head(TasksOf(Row)) = m.task
        /\ Tail(TasksOf(Row)) = TasksOf(Tail(Row))
    BY <2>1, TasksFront
  <2>3. TasksOf(Row') \in Line!Remains(TasksOf(Tail(Row)))
    BY <2>1, LeftRemains
  <2>4. /\ Standing # <<>> /\ Head(Standing) = m.task
        /\ Standing' \in Line!Remains(Tail(Standing))
    BY <1>5, <2>2, <2>3, StandingNext
  <2>5. Printed[d] = {} /\ Printed' = [Printed EXCEPT ![d] = {m.task}]
    <3>1. Printed[d] = {}
      BY <1>2 DEF Printed
    <3>2. report'[d] = m /\ \A c \in Daemons : c # d => report'[c] = report[c]
      BY <1>0, <1>1
    <3>3. ASSUME NEW c \in Daemons
          PROVE  Printed'[c] = [Printed EXCEPT ![d] = {m.task}][c]
      BY <1>1, <1>3, <1>5, <3>2 DEF Printed
    <3>4. Printed' = [c \in Daemons |-> Printed'[c]] /\ DOMAIN Printed = Daemons
      BY DEF Printed
    <3> QED BY <3>1, <3>3, <3>4
  <2>6. Line!Show(d)
    BY <1>2, <2>4, <2>5 DEF Line!Show
  <2> QED BY <2>6 DEF Line!Next
<1> QED BY <1>4, <1>5

(* Every step of the programs is a step of the line, or is not seen there. *)
LEMMA NextLine ==
  ASSUME Accounts, [Next]_vars PROVE Line!Next \/ UNCHANGED Line!vars
<1>0. Types /\ Types'
  BY NextTypes DEF Accounts
<1>1. CASE UNCHANGED <<queue, hand, report, order, lost>>
  <2>1. Row' = Row
    <3>1. \A f \in QrmQueueFields : Part(f)' = Part(f)
      BY <1>1, PartsSame
    <3>2. \A w \in Workers : Held(w)' = Held(w)
      BY <1>1, HandsSame
    <3> QED BY <3>1, <3>2, Names DEF Row
  <2>2. Left(Row, Row)
    BY <1>0, RowParts, LeftSame DEF Parts
  <2> QED BY <1>0, <1>1, <2>1, <2>2, LineLoses
<1>2. ASSUME NEW w \in Workers, NEW n \in 1 .. Len(queue[Config[w]]), Lift(w, n)
      PROVE  Line!Next \/ UNCHANGED Line!vars
  <2>1. DistinctQueues => Left(Row', Row)
    BY <1>0, <1>2, RowLift
  <2> QED BY <1>0, <1>2, <2>1, LineLoses DEF Lift
<1>3. ASSUME NEW w \in Workers, PassOn(w)
      PROVE  Line!Next \/ UNCHANGED Line!vars
  <2>1. DistinctQueues => Row' = Row
    BY <1>0, <1>3, RowPass
  <2>2. Left(Row, Row)
    BY <1>0, RowParts, LeftSame DEF Parts
  <2> QED BY <1>0, <1>3, <2>1, <2>2, LineLoses DEF PassOn
<1>4. ASSUME NEW w \in Workers, Drop(w) \/ Rework(w)
      PROVE  Line!Next \/ UNCHANGED Line!vars
  <2>1. Left(Row', Row)
    BY <1>0, <1>4, RowKept
  <2> QED BY <1>0, <1>4, <2>1, LineLoses DEF Drop, Rework
<1>5. ASSUME NEW q \in QueueNames, NEW n \in 0 .. Len(queue[q]), Discard(q, n)
      PROVE  Line!Next \/ UNCHANGED Line!vars
  <2>1. Left(Row', Row)
    BY <1>0, <1>5, RowDiscard
  <2> QED BY <1>0, <1>5, <2>1, LineLoses DEF Discard
<1>6. ASSUME NEW d \in Daemons, main[d] = "running", Enter(d) \/ Miss(d) PROVE Line!Next
  BY <1>0, <1>6, LineSubmits DEF Line!Next
<1>7. ASSUME NEW d \in Daemons, NEW n \in 1 .. Len(queue[ResultQueue]), Show(d, n)
      PROVE  Line!Next \/ UNCHANGED Line!vars
  BY <1>0, <1>7, LineShows
<1> QED BY <1>0, <1>1, <1>2, <1>3, <1>4, <1>5, <1>6, <1>7, Effects

LEMMA InitLine == Init => Line!Init
<1> SUFFICES ASSUME Init PROVE Line!Init
  OBVIOUS
<1>1. Types
  BY InitTypes
<1>2. order = <<>> /\ report = [d \in Daemons |-> NoTask]
      /\ hand = [w \in Workers |-> NoTask] /\ queue = [q \in QueueNames |-> <<>>]
  BY DEF Init
<1>3. ToSet(order) = {}
  BY <1>2 DEF ToSet
<1>4. Printed = [d \in Daemons |-> {}]
  BY <1>2 DEF Printed
<1>5. (\A f \in QrmQueueFields : Part(f) = <<>>) /\ (\A w \in Workers : Held(w) = <<>>)
  <2>1. \A f \in QrmQueueFields : Config[f] \in QueueNames
    BY <1>1, RowParts DEF Parts
  <2> QED BY <1>2, <2>1 DEF Part, Held
<1>6. Row = Join(<<>>, <<>>, <<>>, <<>>, <<>>, <<>>, <<>>)
  BY <1>5, Names DEF Row
<1>7. Row = <<>>
  BY <1>6 DEF Join
<1>8. Standing = <<>>
  BY <1>7, StandingIs DEF TasksOf
<1> QED BY <1>3, <1>4, <1>8 DEF Line!Init

(* The programs of the workflow, with their queues, breaking               *)
(* connections, discarded messages and crashes, are to the daemons one     *)
(* lossy line of tasks: no task is repeated, none overtakes another, and   *)
(* receive() of a daemon gives it the result at the head of the line.      *)
THEOREM WorkflowImplementsTaskLine == Spec => ImplementsTaskLine
<1>1. Accounts /\ [Next]_vars => Accounts'
  BY NextAccounts
<1>2. Accounts /\ [Next]_vars => [Line!Next]_(Line!vars)
  BY NextLine
<1> QED BY <1>1, <1>2, InitAccounts, InitLine, PTL DEF Spec, ImplementsTaskLine, Line!Spec
=============================================================================
