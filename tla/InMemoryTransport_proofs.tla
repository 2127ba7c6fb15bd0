---------------------- MODULE InMemoryTransport_proofs ----------------------
(***************************************************************************)
(* Proofs about InMemoryTransport, for every set of threads and addresses  *)
(* and every number of calls.                                              *)
(***************************************************************************)
EXTENDS InMemoryTransport, SequenceTheorems, TLAPS

(* What the position of a thread says about its arguments. *)
CallShape ==
  \A t \in Threads :
    /\ pc[t] \in {"enqueue", "notify"} =>
         op[t].kind = "send" /\ op[t].addr \in Addresses
    /\ pc[t] \in {"check", "waiting", "woken", "expired"} =>
         op[t].kind = "receive" /\ op[t].addr \in Addresses
    /\ pc[t] \in {"waiting", "woken"} => op[t].policy # "poll"
    /\ pc[t] = "expired" => op[t].policy = "timed"

(* The flag the receivers look at is set exactly when the destructor ran. *)
StopShape == stopped <=> dtor # "live"

(* The inductive invariant of the transport. *)
Inv ==
  /\ TypeOK
  /\ CallShape
  /\ StopShape
  /\ NoLostWakeup
  /\ FifoPerAddress
  /\ UnboundedNeverTimesOut

(* The calls a thread can make. *)
LEMMA OpTypes ==
  /\ \A a \in Addresses, e \in Envelopes :
       [kind |-> "send", addr |-> a, confirm |-> FALSE, env |-> e] \in Ops
  /\ \A a \in Addresses \cup {NoName}, p \in Contract!Policies :
       [kind |-> "receive", addr |-> a, policy |-> p] \in Ops
BY DEF Ops, Contract!Ops, Contract!SendOps, Contract!ReceiveOps, Contract!Policies

(* The results a call can return. *)
LEMMA ResultTypes ==
  /\ \A s \in {"Ok", "Timeout", "Unavailable", "Unsupported", "InvalidArgument"} :
       Failure(s) \in Results
  /\ \A e \in Envelopes : Contract!Result("Ok", e) \in Results
BY DEF Failure, Results, Contract!Results, Contract!Result

(* The first state is well typed. *)
LEMMA InitTypeOK == Init => TypeOK
<1> SUFFICES ASSUME Init PROVE TypeOK
  OBVIOUS
<1>1. op \in [Threads -> Ops]
  BY OpTypes DEF Init, Contract!Policies
<1>2. res \in [Threads -> Results]
  BY ResultTypes DEF Init
<1>3. calls \in [Threads -> 0 .. MaxCalls]
  BY ConstantsAssumption DEF Init
<1>4. /\ queues \in [Addresses -> Seq(Envelopes)]
      /\ accepted \in [Addresses -> Seq(Envelopes)]
      /\ delivered \in [Addresses -> Seq(Envelopes)]
  BY EmptySeq DEF Init
<1>5. pc \in [Threads -> PCs] /\ stopped \in BOOLEAN /\ dtor \in {"live", "notify", "gone"}
  BY DEF Init, PCs
<1> QED
  BY <1>1, <1>2, <1>3, <1>4, <1>5 DEF TypeOK

(* The end of receive() keeps the types. *)
LEMMA ConcludeTypeOK ==
  ASSUME TypeOK, NEW t \in Threads, op[t].addr \in Addresses, Conclude(t)
  PROVE  TypeOK'
<1> DEFINE a == op[t].addr
<1>1. CASE queues[a] = <<>> \/ stopped
  <2>1. pc' \in [Threads -> PCs] /\ res' \in [Threads -> Results]
    BY <1>1, ResultTypes DEF Conclude, Return, TypeOK, PCs
  <2> QED
    BY <1>1, <2>1 DEF Conclude, TypeOK
<1>2. CASE queues[a] # <<>> /\ ~stopped
  <2>1. /\ Head(queues[a]) \in Envelopes
        /\ Tail(queues[a]) \in Seq(Envelopes)
        /\ Append(delivered[a], Head(queues[a])) \in Seq(Envelopes)
    BY <1>2, HeadTailProperties, AppendProperties DEF TypeOK
  <2>2. pc' \in [Threads -> PCs] /\ res' \in [Threads -> Results]
    <3>1. /\ pc' = [pc EXCEPT ![t] = "idle"]
          /\ res' = [res EXCEPT ![t] = Contract!Result("Ok", Head(queues[a]))]
      BY <1>2 DEF Conclude, Return
    <3>2. Contract!Result("Ok", Head(queues[a])) \in Results
      BY <2>1, ResultTypes
    <3> QED
      BY <3>1, <3>2 DEF TypeOK, PCs
  <2>3. queues' \in [Addresses -> Seq(Envelopes)]
    BY <1>2, <2>1 DEF Conclude, TypeOK
  <2>4. delivered' \in [Addresses -> Seq(Envelopes)]
    BY <1>2, <2>1 DEF Conclude, TypeOK
  <2> QED
    BY <1>2, <2>2, <2>3, <2>4 DEF Conclude, TypeOK
<1> QED
  BY <1>1, <1>2

(* Going to sleep keeps the types. *)
LEMMA BlockTypeOK ==
  ASSUME TypeOK, NEW t \in Threads, Block(t) PROVE TypeOK'
BY DEF Block, TypeOK, PCs

(* Waking keeps every thread at a program counter. *)
LEMMA WakeAllType ==
  ASSUME NEW p \in [Threads -> PCs] PROVE WakeAll(p) \in [Threads -> PCs]
BY DEF WakeAll, PCs

(* Every step keeps every variable in its type. *)
LEMMA NextTypeOK == TypeOK /\ CallShape /\ [Next]_vars => TypeOK'
<1> SUFFICES ASSUME TypeOK, CallShape, [Next]_vars PROVE TypeOK'
  OBVIOUS
<1>1. ASSUME NEW t \in Threads, NEW a \in Addresses \cup {NoName}, NEW c \in BOOLEAN,
             SendCall(t, a, c)
      PROVE  TypeOK'
  <2>1. calls' \in [Threads -> 0 .. MaxCalls] /\ <<t, calls[t] + 1>> \in Envelopes
    BY <1>1, ConstantsAssumption DEF SendCall, Idle, TypeOK, Envelopes
  <2>2. pc' \in [Threads -> PCs] /\ res' \in [Threads -> Results]
    BY <1>1, ResultTypes DEF SendCall, Return, TypeOK, PCs
  <2>3. op' \in [Threads -> Ops]
    <3>1. CASE op' = op
      BY <3>1 DEF TypeOK
    <3>2. CASE a # NoName /\ ~c
      <4>1. [kind |-> "send", addr |-> a, confirm |-> FALSE, env |-> <<t, calls[t] + 1>>]
              \in Ops
        BY <3>2, <2>1, OpTypes
      <4> QED
        BY <1>1, <3>2, <4>1 DEF SendCall, TypeOK
    <3> QED
      BY <1>1, <3>1, <3>2 DEF SendCall
  <2> QED
    BY <1>1, <2>1, <2>2, <2>3 DEF SendCall, TypeOK
<1>2. ASSUME NEW t \in Threads, NEW a \in Addresses \cup {NoName},
             NEW p \in Contract!Policies, ReceiveCall(t, a, p)
      PROVE  TypeOK'
  <2>1. calls' \in [Threads -> 0 .. MaxCalls]
    BY <1>2, ConstantsAssumption DEF ReceiveCall, Idle, TypeOK
  <2>2. pc' \in [Threads -> PCs] /\ res' \in [Threads -> Results]
    BY <1>2, ResultTypes DEF ReceiveCall, Return, TypeOK, PCs
  <2>3. op' \in [Threads -> Ops]
    <3>1. [kind |-> "receive", addr |-> a, policy |-> p] \in Ops
      BY OpTypes
    <3>2. op' = op \/ op' = [op EXCEPT ![t] =
                               [kind |-> "receive", addr |-> a, policy |-> p]]
      BY <1>2 DEF ReceiveCall
    <3> QED
      BY <3>1, <3>2 DEF TypeOK
  <2> QED
    BY <1>2, <2>1, <2>2, <2>3 DEF ReceiveCall, TypeOK
<1>3. ASSUME NEW t \in Threads, Enqueue(t) PROVE TypeOK'
  <2>1. op[t].addr \in Addresses /\ op[t].kind = "send"
    BY <1>3 DEF Enqueue, CallShape
  <2>2. op[t].env \in Envelopes
    BY <2>1 DEF TypeOK, Ops, Contract!Ops, Contract!SendOps, Contract!ReceiveOps
  <2>3. /\ Append(queues[op[t].addr], op[t].env) \in Seq(Envelopes)
        /\ Append(accepted[op[t].addr], op[t].env) \in Seq(Envelopes)
    BY <2>1, <2>2, AppendProperties DEF TypeOK
  <2>4. pc' \in [Threads -> PCs] /\ res' \in [Threads -> Results]
    BY <1>3, ResultTypes DEF Enqueue, Return, TypeOK, PCs
  <2>5. /\ queues' \in [Addresses -> Seq(Envelopes)]
        /\ accepted' \in [Addresses -> Seq(Envelopes)]
    <3>1. \/ queues' = queues /\ accepted' = accepted
          \/ /\ queues' = [queues EXCEPT ![op[t].addr] = Append(@, op[t].env)]
             /\ accepted' = [accepted EXCEPT ![op[t].addr] = Append(@, op[t].env)]
      BY <1>3 DEF Enqueue
    <3>2. /\ queues \in [Addresses -> Seq(Envelopes)]
          /\ accepted \in [Addresses -> Seq(Envelopes)]
      BY DEF TypeOK
    <3> QED
      BY <3>1, <3>2, <2>1, <2>3
  <2> QED
    BY <1>3, <2>4, <2>5 DEF Enqueue, TypeOK
<1>4. ASSUME NEW t \in Threads, SendNotify(t) PROVE TypeOK'
  <2>1. pc' \in [Threads -> PCs]
    BY <1>4, WakeAllType DEF SendNotify, TypeOK, PCs
  <2> QED
    BY <1>4, <2>1 DEF SendNotify, TypeOK
<1>5. ASSUME NEW t \in Threads, Check(t) \/ Recheck(t) \/ LastCheck(t) PROVE TypeOK'
  <2>1. op[t].addr \in Addresses
    BY <1>5 DEF Check, Recheck, LastCheck, CallShape
  <2>2. Conclude(t) \/ Block(t)
    BY <1>5 DEF Check, Recheck, LastCheck
  <2> QED
    BY <2>1, <2>2, ConcludeTypeOK, BlockTypeOK
<1>6. ASSUME NEW t \in Threads, SpuriousWake(t) \/ Expire(t) PROVE TypeOK'
  BY <1>6 DEF SpuriousWake, Expire, TypeOK, PCs
<1>7. CASE Destroy
  BY <1>7 DEF Destroy, TypeOK
<1>8. CASE ShutdownNotify
  <2>1. pc' \in [Threads -> PCs]
    BY <1>8, WakeAllType DEF ShutdownNotify, TypeOK
  <2> QED
    BY <1>8, <2>1 DEF ShutdownNotify, TypeOK
<1>9. CASE UNCHANGED vars
  BY <1>9 DEF vars, TypeOK
<1> QED
  BY <1>1, <1>2, <1>3, <1>4, <1>5, <1>6, <1>7, <1>8, <1>9
     DEF Next, Continue, Terminated

(* The disjuncts of a step, with Continue and Terminated unfolded. *)
LEMMA StepCases ==
  ASSUME [Next]_vars
  PROVE  \/ \E t \in Threads, a \in Addresses \cup {NoName}, c \in BOOLEAN :
              SendCall(t, a, c)
         \/ \E t \in Threads, a \in Addresses \cup {NoName}, p \in Contract!Policies :
              ReceiveCall(t, a, p)
         \/ \E t \in Threads : \/ Enqueue(t) \/ SendNotify(t)
                               \/ Check(t) \/ Recheck(t) \/ LastCheck(t)
                               \/ SpuriousWake(t) \/ Expire(t)
         \/ Destroy \/ ShutdownNotify \/ UNCHANGED vars
BY DEF Next, Continue, Terminated

(* What one step does to the threads, the queues and the flags. *)
LEMMA NextShape ==
  TypeOK /\ CallShape /\ StopShape /\ [Next]_vars => CallShape' /\ StopShape'
<1> SUFFICES ASSUME TypeOK, CallShape, StopShape, [Next]_vars
             PROVE  CallShape' /\ StopShape'
  OBVIOUS
<1>1. ASSUME NEW t \in Threads, NEW a \in Addresses \cup {NoName}, NEW c \in BOOLEAN,
             SendCall(t, a, c)
      PROVE  CallShape' /\ StopShape'
  <2>1. CASE op' = op /\ Return(t, res'[t])
    BY <1>1, <2>1 DEF SendCall, Return, TypeOK, CallShape, StopShape
  <2>2. CASE a # NoName /\ ~c
    <3>1. /\ pc' = [pc EXCEPT ![t] = "enqueue"]
          /\ op'[t].kind = "send" /\ op'[t].addr = a
          /\ \A u \in Threads \ {t} : op'[u] = op[u]
      BY <1>1, <2>2 DEF SendCall, TypeOK
    <3> QED
      BY <1>1, <2>2, <3>1 DEF SendCall, TypeOK, CallShape, StopShape
  <2> QED
    BY <1>1, <2>1, <2>2 DEF SendCall, Return, TypeOK
<1>2. ASSUME NEW t \in Threads, NEW a \in Addresses \cup {NoName},
             NEW p \in Contract!Policies, ReceiveCall(t, a, p)
      PROVE  CallShape' /\ StopShape'
  BY <1>2 DEF ReceiveCall, Return, Idle, TypeOK, CallShape, StopShape
<1>3. ASSUME NEW t \in Threads, Enqueue(t) PROVE CallShape' /\ StopShape'
  BY <1>3 DEF Enqueue, Return, TypeOK, CallShape, StopShape
<1>4. ASSUME NEW t \in Threads, SendNotify(t) PROVE CallShape' /\ StopShape'
  BY <1>4 DEF SendNotify, WakeAll, TypeOK, CallShape, StopShape
<1>5. ASSUME NEW t \in Threads, Check(t) \/ Recheck(t) \/ LastCheck(t)
      PROVE  CallShape' /\ StopShape'
  <2>1. CASE Conclude(t)
    BY <2>1 DEF Conclude, Return, TypeOK, CallShape, StopShape
  <2>2. CASE Block(t) /\ (Check(t) \/ Recheck(t)) /\ ~Conclude(t)
    <3>1. op[t].policy # "poll" /\ op[t].kind = "receive" /\ op[t].addr \in Addresses
      BY <2>2 DEF Check, Recheck, CallShape
    <3> QED
      BY <2>2, <3>1 DEF Block, TypeOK, CallShape, StopShape
  <2> QED
    BY <1>5, <2>1, <2>2 DEF Check, Recheck, LastCheck
<1>6. ASSUME NEW t \in Threads, SpuriousWake(t) \/ Expire(t)
      PROVE  CallShape' /\ StopShape'
  BY <1>6 DEF SpuriousWake, Expire, TypeOK, CallShape, StopShape
<1>7. CASE Destroy
  BY <1>7 DEF Destroy, TypeOK, CallShape, StopShape
<1>8. CASE ShutdownNotify
  BY <1>8 DEF ShutdownNotify, WakeAll, TypeOK, CallShape, StopShape
<1>9. CASE UNCHANGED vars
  BY <1>9 DEF vars, CallShape, StopShape
<1> QED
  BY <1>1, <1>2, <1>3, <1>4, <1>5, <1>6, <1>7, <1>8, <1>9, StepCases

(* Ready(t) becomes true only by a step that leaves a notify_all() owed, a *)
(* thread blocks only while Ready(t) is false, and a notify_all() leaves   *)
(* nobody blocked.                                                         *)
LEMMA NextNoLostWakeup ==
  TypeOK /\ CallShape /\ NoLostWakeup /\ [Next]_vars => NoLostWakeup'
<1> SUFFICES ASSUME TypeOK, CallShape, NoLostWakeup, [Next]_vars
             PROVE  NoLostWakeup'
  OBVIOUS
<1>1. ASSUME NEW t \in Threads, NEW a \in Addresses \cup {NoName}, NEW c \in BOOLEAN,
             SendCall(t, a, c)
      PROVE  NoLostWakeup'
  BY <1>1 DEF SendCall, Return, Idle, TypeOK, NoLostWakeup, Ready
<1>2. ASSUME NEW t \in Threads, NEW a \in Addresses \cup {NoName},
             NEW p \in Contract!Policies, ReceiveCall(t, a, p)
      PROVE  NoLostWakeup'
  BY <1>2 DEF ReceiveCall, Return, Idle, TypeOK, NoLostWakeup, Ready
<1>3. ASSUME NEW t \in Threads, Enqueue(t) PROVE NoLostWakeup'
  BY <1>3 DEF Enqueue, Return, TypeOK, NoLostWakeup, Ready
<1>4. ASSUME NEW t \in Threads, SendNotify(t) PROVE NoLostWakeup'
  BY <1>4 DEF SendNotify, WakeAll, TypeOK, NoLostWakeup
<1>5. ASSUME NEW t \in Threads, Check(t) \/ Recheck(t) \/ LastCheck(t)
      PROVE  NoLostWakeup'
  <2>1. pc[t] # "notify" /\ pc[t] # "waiting" /\ op[t].addr \in Addresses
    BY <1>5 DEF Check, Recheck, LastCheck, CallShape
  <2>2. CASE Conclude(t)
    <3>1. \A u \in Threads : pc'[u] = "waiting" =>
             pc[u] = "waiting" /\ (Ready(u)' => Ready(u))
      <4> SUFFICES ASSUME NEW u \in Threads, pc'[u] = "waiting"
                   PROVE  pc[u] = "waiting" /\ (Ready(u)' => Ready(u))
        OBVIOUS
      <4>1. pc[u] = "waiting" /\ op[u].addr \in Addresses
        BY <2>2 DEF Conclude, Return, TypeOK, CallShape
      <4> QED
        BY <2>1, <2>2, <4>1 DEF Conclude, TypeOK, Ready
    <3>2. \A u \in Threads : pc[u] = "notify" => pc'[u] = "notify"
      BY <2>1, <2>2 DEF Conclude, Return, TypeOK
    <3> QED
      BY <2>2, <3>1, <3>2 DEF Conclude, NoLostWakeup
  <2>3. CASE ~Ready(t) /\ Block(t)
    BY <2>1, <2>3 DEF Block, TypeOK, NoLostWakeup, Ready
  <2> QED
    BY <1>5, <2>2, <2>3 DEF Check, Recheck, LastCheck
<1>6. ASSUME NEW t \in Threads, SpuriousWake(t) \/ Expire(t) PROVE NoLostWakeup'
  BY <1>6 DEF SpuriousWake, Expire, TypeOK, NoLostWakeup, Ready
<1>7. CASE Destroy
  BY <1>7 DEF Destroy, NoLostWakeup
<1>8. CASE ShutdownNotify
  BY <1>8 DEF ShutdownNotify, WakeAll, TypeOK, NoLostWakeup
<1>9. CASE UNCHANGED vars
  BY <1>9 DEF vars, NoLostWakeup, Ready
<1> QED
  BY <1>1, <1>2, <1>3, <1>4, <1>5, <1>6, <1>7, <1>8, <1>9, StepCases

(* Appending to the end of a concatenation. *)
LEMMA AppendConcat ==
  \A u, v \in Seq(Envelopes), e \in Envelopes :
    Append(u \o v, e) = u \o Append(v, e)
OBVIOUS

(* Moving the head of a queue to the delivered messages. *)
LEMMA HeadMoves ==
  ASSUME NEW S, NEW u \in Seq(S), NEW v \in Seq(S), v # <<>>
  PROVE  u \o v = Append(u, Head(v)) \o Tail(v)
OBVIOUS

(* Every step keeps the queues first-in, first-out. *)
LEMMA NextFifo ==
  TypeOK /\ CallShape /\ FifoPerAddress /\ [Next]_vars => FifoPerAddress'
<1> SUFFICES ASSUME TypeOK, CallShape, FifoPerAddress, [Next]_vars,
                    NEW b \in Addresses
             PROVE  accepted'[b] = delivered'[b] \o queues'[b]
  BY DEF FifoPerAddress
<1>0. /\ accepted[b] = delivered[b] \o queues[b]
      /\ delivered[b] \in Seq(Envelopes) /\ queues[b] \in Seq(Envelopes)
  BY DEF FifoPerAddress, TypeOK
<1>1. CASE UNCHANGED <<queues, accepted, delivered>>
  BY <1>0, <1>1
<1>2. ASSUME NEW t \in Threads, Enqueue(t)
      PROVE  accepted'[b] = delivered'[b] \o queues'[b]
  <2>1. op[t].addr \in Addresses /\ op[t].kind = "send"
    BY <1>2 DEF Enqueue, CallShape
  <2>2. op[t].env \in Envelopes
    BY <2>1 DEF TypeOK, Ops, Contract!Ops, Contract!SendOps, Contract!ReceiveOps
  <2>3. CASE op[t].addr = b /\ ~stopped
    <3>1. /\ accepted'[b] = Append(accepted[b], op[t].env)
          /\ queues'[b] = Append(queues[b], op[t].env)
          /\ delivered' = delivered
      BY <1>2, <2>1, <2>3 DEF Enqueue, TypeOK
    <3> QED
      BY <1>0, <2>2, <3>1, AppendConcat, Zenon
  <2>4. CASE op[t].addr # b \/ stopped
    BY <1>0, <1>2, <2>4 DEF Enqueue, TypeOK
  <2> QED
    BY <2>3, <2>4
<1>3. ASSUME NEW t \in Threads, op[t].addr \in Addresses, Conclude(t)
      PROVE  accepted'[b] = delivered'[b] \o queues'[b]
  <2>1. CASE op[t].addr = b /\ ~stopped /\ queues[b] # <<>>
    <3>1. /\ queues'[b] = Tail(queues[b])
          /\ delivered'[b] = Append(delivered[b], Head(queues[b]))
          /\ accepted' = accepted
      BY <1>3, <2>1 DEF Conclude, TypeOK
    <3>2. delivered[b] \o queues[b]
            = Append(delivered[b], Head(queues[b])) \o Tail(queues[b])
      BY <1>0, <2>1, HeadMoves
    <3> QED
      BY <1>0, <3>1, <3>2
  <2>2. CASE ~(op[t].addr = b /\ ~stopped /\ queues[b] # <<>>)
    BY <1>0, <1>3, <2>2 DEF Conclude, TypeOK
  <2> QED
    BY <2>1, <2>2
<1>4. ASSUME NEW t \in Threads, Check(t) \/ Recheck(t) \/ LastCheck(t)
      PROVE  accepted'[b] = delivered'[b] \o queues'[b]
  <2>1. op[t].addr \in Addresses
    BY <1>4 DEF Check, Recheck, LastCheck, CallShape
  <2>2. Conclude(t) \/ UNCHANGED <<queues, accepted, delivered>>
    BY <1>4 DEF Check, Recheck, LastCheck, Block
  <2> QED
    BY <2>1, <2>2, <1>1, <1>3
<1> QED
  BY <1>1, <1>2, <1>4, StepCases
     DEF SendCall, ReceiveCall, SendNotify, SpuriousWake, Expire, Destroy,
         ShutdownNotify, vars

(* No step makes an unbounded receive time out. *)
LEMMA NextUnbounded ==
  TypeOK /\ CallShape /\ UnboundedNeverTimesOut /\ [Next]_vars
    => UnboundedNeverTimesOut'
<1> SUFFICES ASSUME TypeOK, CallShape, UnboundedNeverTimesOut, [Next]_vars,
                    NEW u \in Threads, pc'[u] = "idle",
                    op'[u].kind = "receive", op'[u].policy = "forever"
             PROVE  res'[u].status # "Timeout"
  BY DEF UnboundedNeverTimesOut
<1>1. CASE pc[u] = "idle" /\ op'[u] = op[u] /\ res'[u] = res[u]
  BY <1>1 DEF UnboundedNeverTimesOut
<1>2. ASSUME NEW t \in Threads, NEW a \in Addresses \cup {NoName}, NEW c \in BOOLEAN,
             SendCall(t, a, c)
      PROVE  res'[u].status # "Timeout"
  <2>1. CASE u = t
    BY <1>2, <2>1 DEF SendCall, Return, TypeOK, Failure, Contract!Result
  <2>2. CASE u # t
    BY <1>1, <1>2, <2>2 DEF SendCall, Return, TypeOK
  <2> QED
    BY <2>1, <2>2
<1>3. ASSUME NEW t \in Threads, NEW a \in Addresses \cup {NoName},
             NEW p \in Contract!Policies, ReceiveCall(t, a, p)
      PROVE  res'[u].status # "Timeout"
  <2>1. CASE u = t
    BY <1>3, <2>1 DEF ReceiveCall, Return, TypeOK, Failure, Contract!Result
  <2>2. CASE u # t
    BY <1>1, <1>3, <2>2 DEF ReceiveCall, Return, TypeOK
  <2> QED
    BY <2>1, <2>2
<1>4. ASSUME NEW t \in Threads, Enqueue(t) PROVE res'[u].status # "Timeout"
  <2>1. u # t
    BY <1>4 DEF Enqueue, CallShape
  <2> QED
    BY <1>1, <1>4, <2>1 DEF Enqueue, Return, TypeOK
<1>5. ASSUME NEW t \in Threads, SendNotify(t) PROVE res'[u].status # "Timeout"
  <2>1. u # t
    BY <1>5 DEF SendNotify, CallShape
  <2> QED
    BY <1>1, <1>5, <2>1 DEF SendNotify, WakeAll, TypeOK
<1>6. ASSUME NEW t \in Threads, Check(t) \/ Recheck(t) \/ LastCheck(t)
      PROVE  res'[u].status # "Timeout"
  <2>1. CASE u # t
    BY <1>1, <1>6, <2>1
       DEF Check, Recheck, LastCheck, Conclude, Block, Return, TypeOK
  <2>2. CASE u = t
    <3>1. pc[t] # "idle"
      BY <1>6 DEF Check, Recheck, LastCheck
    <3>2. Conclude(t)
      BY <1>6, <2>2 DEF Check, Recheck, LastCheck, Block, TypeOK
    <3>3. ~Block(t) /\ op[t].policy = "forever"
      BY <2>2, <3>2 DEF Block, Conclude, TypeOK
    <3>4. Ready(t)
      BY <1>6, <3>3 DEF Check, Recheck, LastCheck, CallShape
    <3> QED
      BY <2>2, <3>2, <3>4
         DEF Conclude, Ready, Return, Failure, Contract!Result, TypeOK
  <2> QED
    BY <2>1, <2>2
<1>7. ASSUME NEW t \in Threads, SpuriousWake(t) \/ Expire(t)
      PROVE  res'[u].status # "Timeout"
  BY <1>1, <1>7 DEF SpuriousWake, Expire, TypeOK
<1>8. CASE Destroy \/ ShutdownNotify \/ UNCHANGED vars
  BY <1>1, <1>8 DEF Destroy, ShutdownNotify, WakeAll, TypeOK, vars
<1> QED
  BY <1>2, <1>3, <1>4, <1>5, <1>6, <1>7, <1>8, StepCases

(* The inductive invariant holds in every state of the transport. *)
THEOREM InvHolds == Spec => []Inv
<1>1. Init => Inv
  <2> SUFFICES ASSUME Init PROVE Inv
    OBVIOUS
  <2>1. FifoPerAddress
    <3>1. \A a \in Addresses :
            accepted[a] = <<>> /\ delivered[a] = <<>> /\ queues[a] = <<>>
      BY DEF Init
    <3>2. <<>> = <<>> \o <<>>
      OBVIOUS
    <3> QED
      BY <3>1, <3>2 DEF FifoPerAddress
  <2> QED
    BY InitTypeOK, <2>1
       DEF Init, Inv, CallShape, StopShape, NoLostWakeup, UnboundedNeverTimesOut
<1>2. Inv /\ [Next]_vars => Inv'
  BY NextTypeOK, NextShape, NextNoLostWakeup, NextFifo, NextUnbounded DEF Inv
<1> QED
  BY <1>1, <1>2, PTL DEF Spec

(* Every variable of the transport keeps its type. *)
THEOREM TypeCorrect == Spec => []TypeOK
BY InvHolds, PTL DEF Inv

(* No interleaving of notify_all() with a blocking receive() loses a       *)
(* wake-up, for any number of threads and addresses on the one condition   *)
(* variable.                                                               *)
THEOREM LostWakeupFreedom == Spec => []NoLostWakeup
BY InvHolds, PTL DEF Inv

(* Messages of an address come out in the order they were accepted, each   *)
(* once.                                                                   *)
THEOREM Fifo == Spec => []FifoPerAddress
BY InvHolds, PTL DEF Inv

(* receive() without a timeout never answers Timeout. *)
THEOREM UnboundedWaits == Spec => []UnboundedNeverTimesOut
BY InvHolds, PTL DEF Inv

(* After the destructor has set the flag no call changes a queue. *)
THEOREM Frozen == Spec => FrozenAfterStop
<1>1. [Next]_vars => [stopped => UNCHANGED <<queues, accepted, delivered>>]_vars
  BY StepCases
     DEF SendCall, Enqueue, SendNotify, ReceiveCall, Check, Recheck, LastCheck,
         Conclude, Block, SpuriousWake, Expire, Destroy, ShutdownNotify, vars
<1> QED
  BY <1>1, PTL DEF Spec, FrozenAfterStop
-----------------------------------------------------------------------------
(* How a change of one program counter shows through the mapping. *)
LEMMA PhaseUpdate ==
  ASSUME TypeOK, NEW t \in Threads, NEW q \in PCs,
         pc' = [pc EXCEPT ![t] = q]
  PROVE  Phase' = [Phase EXCEPT ![t] = PhaseOf(q)]
BY DEF Phase, TypeOK

(* The end of a receive is a step of the contract. *)
LEMMA ConcludeImplements ==
  ASSUME TypeOK, NEW t \in Threads, Conclude(t),
         Phase[t] = "called", op[t].kind = "receive", op[t].addr \in Addresses,
         Ready(t) \/ op[t].policy # "forever"
  PROVE  Contract!Effect(t)
<1> DEFINE a == op[t].addr
<1>1. Phase' = [Phase EXCEPT ![t] = "idle"]
  BY PhaseUpdate DEF Conclude, Return, PCs, PhaseOf
<1>2. CASE stopped
  <2>1. Contract!Refuse(t)
    BY <1>1, <1>2 DEF Conclude, Return, Failure, Contract!Refuse, Contract!Finish
  <2> QED
    BY <2>1 DEF Contract!Effect
<1>3. CASE ~stopped /\ queues[a] = <<>>
  <2>1. Contract!GiveUp(t)
    BY <1>1, <1>3
       DEF Conclude, Return, Failure, Ready, Contract!GiveUp, Contract!Pending,
           Contract!Finish
  <2> QED
    BY <2>1 DEF Contract!Effect
<1>4. CASE ~stopped /\ queues[a] # <<>>
  <2>1. Contract!Deliver(t)
    BY <1>1, <1>4
       DEF Conclude, Return, Contract!Deliver, Contract!Pending, Contract!Finish
  <2> QED
    BY <2>1 DEF Contract!Effect
<1> QED
  BY <1>2, <1>3, <1>4

(* Every step of the transport is a step of the contract or changes        *)
(* nothing the contract can see.                                           *)
LEMMA StepImplements ==
  ASSUME Inv, [Next]_vars
  PROVE  Contract!Next \/ UNCHANGED Contract!vars
<1> USE DEF Inv
<1>1. ASSUME NEW t \in Threads, NEW a \in Addresses \cup {NoName}, NEW c \in BOOLEAN,
             SendCall(t, a, c)
      PROVE  Contract!Next
  <2> DEFINE o == [kind |-> "send", addr |-> a, confirm |-> c,
                   env |-> <<t, calls[t] + 1>>]
  <2>1. <<t, calls[t] + 1>> \in Envelopes /\ Phase[t] = "idle" /\ ~stopped
    BY <1>1, ConstantsAssumption
       DEF SendCall, Idle, TypeOK, StopShape, Envelopes, Phase, PhaseOf
  <2>2. o \in Contract!Ops
    BY <2>1 DEF Contract!Ops, Contract!SendOps
  <2>3. CASE a = NoName \/ c
    <3>1. Phase' = Phase
      <4>1. pc' = pc
        BY <1>1, <2>3 DEF SendCall, Return, Idle, TypeOK
      <4> QED
        BY <4>1 DEF Phase
    <3>2. Contract!Reject(t, o)
      BY <1>1, <2>1, <2>3, <3>1 DEF SendCall, Return, Failure, Contract!Reject
    <3> QED
      BY <2>2, <3>2 DEF Contract!Next
  <2>4. CASE a # NoName /\ ~c
    <3>1. Phase' = [Phase EXCEPT ![t] = "called"]
      BY <1>1, <2>4, PhaseUpdate DEF SendCall, PCs, PhaseOf
    <3>2. op' = [op EXCEPT ![t] = o]
      BY <1>1, <2>4 DEF SendCall
    <3>3. Contract!Call(t, o)
      BY <1>1, <2>1, <2>4, <3>1, <3>2 DEF SendCall, Contract!Call
    <3> QED
      BY <2>2, <3>3 DEF Contract!Next
  <2> QED
    BY <2>3, <2>4
<1>2. ASSUME NEW t \in Threads, NEW a \in Addresses \cup {NoName},
             NEW p \in Contract!Policies, ReceiveCall(t, a, p)
      PROVE  Contract!Next
  <2> DEFINE o == [kind |-> "receive", addr |-> a, policy |-> p]
  <2>1. Phase[t] = "idle" /\ ~stopped
    BY <1>2 DEF ReceiveCall, Idle, TypeOK, StopShape, Phase, PhaseOf
  <2>2. o \in Contract!Ops
    BY DEF Contract!Ops, Contract!ReceiveOps
  <2>3. CASE a = NoName
    <3>1. Phase' = Phase
      <4>1. pc' = pc
        BY <1>2, <2>3 DEF ReceiveCall, Return, Idle, TypeOK
      <4> QED
        BY <4>1 DEF Phase
    <3>2. Contract!Reject(t, o)
      BY <1>2, <2>1, <2>3, <3>1 DEF ReceiveCall, Return, Failure, Contract!Reject
    <3> QED
      BY <2>2, <3>2 DEF Contract!Next
  <2>4. CASE a # NoName
    <3>1. Phase' = [Phase EXCEPT ![t] = "called"]
      BY <1>2, <2>4, PhaseUpdate DEF ReceiveCall, PCs, PhaseOf
    <3>2. op' = [op EXCEPT ![t] = o]
      BY <1>2, <2>4 DEF ReceiveCall
    <3>3. Contract!Call(t, o)
      BY <1>2, <2>1, <2>4, <3>1, <3>2 DEF ReceiveCall, Contract!Call
    <3> QED
      BY <2>2, <3>3 DEF Contract!Next
  <2> QED
    BY <2>3, <2>4
<1>3. ASSUME NEW t \in Threads, Enqueue(t) PROVE Contract!Next
  <2>1. Phase[t] = "called" /\ op[t].kind = "send"
    BY <1>3 DEF Enqueue, CallShape, Phase, PhaseOf
  <2>2. CASE stopped
    <3>1. Phase' = [Phase EXCEPT ![t] = "idle"]
      BY <1>3, <2>2, PhaseUpdate DEF Enqueue, Return, PCs, PhaseOf
    <3>2. Contract!Refuse(t)
      BY <1>3, <2>1, <2>2, <3>1
         DEF Enqueue, Return, Failure, Contract!Refuse, Contract!Finish
    <3> QED
      BY <3>2 DEF Contract!Effect, Contract!Next
  <2>3. CASE ~stopped
    <3>1. Phase' = [Phase EXCEPT ![t] = "done"]
      BY <1>3, <2>3, PhaseUpdate DEF Enqueue, PCs, PhaseOf
    <3>2. Contract!Accept(t)
      BY <1>3, <2>1, <2>3, <3>1
         DEF Enqueue, Failure, Contract!Accept, Contract!Pending, Contract!Finish
    <3> QED
      BY <3>2 DEF Contract!Effect, Contract!Next
  <2> QED
    BY <2>2, <2>3
<1>4. ASSUME NEW t \in Threads, SendNotify(t) PROVE Contract!Next
  <2>1. Phase[t] = "done"
    BY <1>4 DEF SendNotify, Phase, PhaseOf
  <2>2. Phase' = [Phase EXCEPT ![t] = "idle"]
    BY <1>4 DEF SendNotify, WakeAll, TypeOK, Phase, PhaseOf
  <2>3. Contract!Return(t)
    BY <1>4, <2>1, <2>2 DEF SendNotify, Contract!Return
  <2> QED
    BY <2>3 DEF Contract!Next
<1>5. ASSUME NEW t \in Threads, Check(t) \/ Recheck(t) \/ LastCheck(t)
      PROVE  Contract!Next \/ UNCHANGED Contract!vars
  <2>1. /\ Phase[t] = "called" /\ op[t].kind = "receive" /\ op[t].addr \in Addresses
    BY <1>5 DEF Check, Recheck, LastCheck, CallShape, Phase, PhaseOf
  <2>2. CASE Conclude(t) /\ (Ready(t) \/ op[t].policy # "forever")
    BY <2>1, <2>2, ConcludeImplements DEF Contract!Next
  <2>3. CASE Block(t)
    <3>1. Phase' = [Phase EXCEPT ![t] = "called"]
      BY <2>3, PhaseUpdate DEF Block, PCs, PhaseOf
    <3>2. Phase' = Phase
      BY <2>1, <3>1 DEF Phase
    <3> QED
      BY <2>3, <3>2 DEF Block, Contract!vars
  <2> QED
    BY <1>5, <2>2, <2>3 DEF Check, Recheck, LastCheck, CallShape
<1>6. ASSUME NEW t \in Threads, SpuriousWake(t) \/ Expire(t)
      PROVE  UNCHANGED Contract!vars
  <2>1. Phase' = Phase
    BY <1>6 DEF SpuriousWake, Expire, TypeOK, Phase, PhaseOf
  <2> QED
    BY <1>6, <2>1 DEF SpuriousWake, Expire, Contract!vars
<1>7. CASE Destroy
  <2>1. Phase' = Phase /\ ~stopped
    BY <1>7 DEF Destroy, Phase, StopShape
  <2>2. Contract!Close
    BY <1>7, <2>1 DEF Destroy, Contract!Close
  <2> QED
    BY <2>2 DEF Contract!Next
<1>8. CASE ShutdownNotify
  <2>1. Phase' = Phase
    BY <1>8 DEF ShutdownNotify, WakeAll, TypeOK, Phase, PhaseOf
  <2> QED
    BY <1>8, <2>1 DEF ShutdownNotify, Contract!vars
<1>9. CASE UNCHANGED vars
  BY <1>9 DEF vars, Contract!vars, Phase
<1> QED
  BY <1>1, <1>2, <1>3, <1>4, <1>5, <1>6, <1>7, <1>8, <1>9, StepCases

(* The transport implements the safety part of the contract: each call     *)
(* takes effect once, atomically, on a FIFO channel that closing freezes.  *)
THEOREM Refinement == Spec => Contract!SafeSpec
<1>1. Init => Contract!Init
  BY InitTypeOK DEF Init, TypeOK, Contract!Init, Phase, PhaseOf, Ops, Results
<1>2. Inv /\ [Next]_vars => [Contract!Next]_(Contract!vars)
  BY StepImplements
<1> QED
  BY <1>1, <1>2, InvHolds, PTL DEF Spec, Contract!SafeSpec
=============================================================================
