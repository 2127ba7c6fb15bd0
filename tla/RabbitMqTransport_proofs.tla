---------------------- MODULE RabbitMqTransport_proofs ----------------------
(***************************************************************************)
(* Proofs about RabbitMqTransport, for any threads, queues and numbers of  *)
(* calls and failures.                                                     *)
(***************************************************************************)
EXTENDS RabbitMqTransport, SequenceTheorems, FiniteSetTheorems, TLAPS

Sending(t) == pc[t] \in {"lock", "publish"}
Consuming(t) == pc[t] \in {"loop", "wait"}
Receiving(t) == pc[t] \in {"get", "loop", "wait"}

(* Thread t holds a Message it has to acknowledge. *)
Owes(t) == held[t] # NoMessage /\ held[t].mode = "Manual"

(* What the position of a thread says about its arguments. *)
CallShapeAt(t) ==
  /\ Sending(t) => op[t] \in SendOps /\ op[t].msg.from = t /\ op[t].msg.nr = calls[t]
  /\ Receiving(t) \/ pc[t] = "open" => op[t] \in ReceiveOps /\ held[t] = NoMessage
CallShape == \A t \in Threads : CallShapeAt(t)

(* A channel lives from its receive() to the end of the Message it led to; *)
(* what the broker waits for on it is what has been pushed or handed out.  *)
ChannelShapeAt(t) ==
  /\ chan[t] = "none" <=> ~Receiving(t) /\ ~Owes(t)
  /\ chan[t] # "open" => unacked[t] = <<>> /\ wire[t] = "none"
  /\ ~Owes(t) => wire[t] = "none"
  /\ ~Consuming(t) => pushed[t] = <<>>
  /\ pc[t] = "get" => unacked[t] = <<>>
  /\ Consuming(t) /\ op[t].mode = "Auto" => unacked[t] = <<>>
  /\ Consuming(t) /\ op[t].mode = "Manual" =>
       Len(pushed[t]) <= 1 /\ (chan[t] = "open" => unacked[t] = pushed[t])
  /\ Owes(t) /\ chan[t] = "open" =>
       unacked[t] = IF held[t].completed /\ wire[t] = "none" THEN <<>>
                    ELSE <<held[t].msg>>
  /\ wire[t] # "none" => held[t].completed
ChannelShape == \A t \in Threads : ChannelShapeAt(t)

Pool == InQueues \cup InChannels

(* The broker has a message at most once. *)
Placement ==
  /\ \A q \in Queues : IsInjective(ready[q]) /\ \A m \in ToSet(ready[q]) : m.to = q
  /\ InQueues \cap InChannels = {}
  /\ \A t, u \in Threads : t # u => ToSet(unacked[t]) \cap ToSet(unacked[u]) = {}

(* What is about to be published is nowhere yet. *)
Fresh ==
  \A m \in Pool \cup settled \cup autoTaken :
    /\ m.nr <= calls[m.from]
    /\ Sending(m.from) => m.nr < calls[m.from]

(* What has left the broker does not come back, and consumers in mode Auto *)
(* have different messages, none of which was returned before.             *)
AutoWaits(t) == Consuming(t) /\ op[t].mode = "Auto"
GoneForGood ==
  /\ (settled \cup autoTaken) \cap Pool = {}
  /\ returned \subseteq autoTaken
  /\ \A t \in Threads : AutoWaits(t) => ToSet(pushed[t]) \subseteq autoTaken \ returned
  /\ \A t, u \in Threads :
       t # u /\ AutoWaits(t) /\ AutoWaits(u) => ToSet(pushed[t]) \cap ToSet(pushed[u]) = {}

(* The inductive invariant. *)
Inv ==
  /\ TypeOK /\ CallShape /\ ChannelShape
  /\ Placement /\ Fresh /\ GoneForGood /\ NothingLost
-----------------------------------------------------------------------------
(* Sequences: what is in them and whether something is in them twice. *)

LEMMA ToSetAppend ==
  ASSUME NEW S, NEW s \in Seq(S), NEW m \in S
  PROVE  /\ ToSet(Append(s, m)) = ToSet(s) \cup {m}
         /\ IsInjective(s) /\ m \notin ToSet(s) => IsInjective(Append(s, m))
<1> DEFINE a == Append(s, m)
<1>1. /\ Len(s) \in Nat /\ DOMAIN s = 1 .. Len(s) /\ DOMAIN a = 1 .. Len(s) + 1
      /\ \A i \in 1 .. Len(s) : a[i] = s[i]
      /\ a[Len(s) + 1] = m
  BY AppendProperties, LenProperties
<1> HIDE DEF a
<1>2. ToSet(a) = ToSet(s) \cup {m}
  BY <1>1 DEF ToSet
<1>3. IsInjective(s) /\ m \notin ToSet(s) => IsInjective(a)
  BY <1>1 DEF ToSet, IsInjective
<1> QED BY <1>2, <1>3 DEF a

LEMMA ToSetTail ==
  ASSUME NEW S, NEW s \in Seq(S), s # <<>>
  PROVE  /\ Head(s) \in S /\ Tail(s) \in Seq(S)
         /\ ToSet(s) = ToSet(Tail(s)) \cup {Head(s)}
         /\ IsInjective(s) => IsInjective(Tail(s)) /\ Head(s) \notin ToSet(Tail(s))
<1> DEFINE r == Tail(s)
<1>1. /\ Len(s) \in Nat \ {0} /\ DOMAIN s = 1 .. Len(s) /\ DOMAIN r = 1 .. Len(s) - 1
      /\ \A i \in 1 .. Len(s) - 1 : r[i] = s[i + 1]
      /\ Head(s) = s[1]
  BY HeadTailProperties, LenProperties, EmptySeq
<1>2. Head(s) \in S /\ r \in Seq(S)
  BY HeadTailProperties
<1> HIDE DEF r
<1>3. /\ 1 \in DOMAIN s /\ s[1] = Head(s)
      /\ \A i \in DOMAIN r : i + 1 \in DOMAIN s /\ i + 1 # 1 /\ s[i + 1] = r[i]
      /\ \A i \in DOMAIN s : i = 1 \/ (i - 1 \in DOMAIN r /\ s[i] = r[i - 1])
  BY <1>1
<1>4. ToSet(s) = ToSet(r) \cup {Head(s)}
  BY <1>3 DEF ToSet
<1>5. ASSUME IsInjective(s) PROVE IsInjective(r) /\ Head(s) \notin ToSet(r)
  <2>1. \A i, j \in DOMAIN r : r[i] = r[j] => i + 1 = j + 1
    BY <1>3, <1>5 DEF IsInjective
  <2>2. IsInjective(r)
    BY <1>1, <2>1 DEF IsInjective
  <2>3. Head(s) \notin ToSet(r)
    BY <1>3, <1>5 DEF ToSet, IsInjective
  <2> QED BY <2>2, <2>3
<1> QED BY <1>2, <1>4, <1>5 DEF r

LEMMA ToSetCons ==
  ASSUME NEW S, NEW s \in Seq(S), NEW m \in S
  PROVE  /\ <<m>> \o s \in Seq(S)
         /\ ToSet(<<m>> \o s) = ToSet(s) \cup {m}
         /\ IsInjective(s) /\ m \notin ToSet(s) => IsInjective(<<m>> \o s)
<1> DEFINE c == <<m>> \o s
<1>0. <<m>> \in Seq(S) /\ Len(<<m>>) = 1 /\ <<m>>[1] = m
  OBVIOUS
<1>1. c \in Seq(S) /\ Len(c) = 1 + Len(s)
  BY <1>0, ConcatProperties
<1>2. \A i \in 1 .. 1 + Len(s) : c[i] = IF i <= 1 THEN <<m>>[i] ELSE s[i - 1]
  BY <1>0, ConcatProperties
<1>3. Len(s) \in Nat /\ DOMAIN s = 1 .. Len(s) /\ DOMAIN c = 1 .. 1 + Len(s)
  BY <1>1, LenProperties
<1> HIDE DEF c
<1>4. c[1] = m /\ \A i \in 1 .. Len(s) : i + 1 \in DOMAIN c /\ c[i + 1] = s[i]
  BY <1>0, <1>2, <1>3
<1>5. \A i \in DOMAIN c : i = 1 \/ (i - 1 \in DOMAIN s /\ c[i] = s[i - 1])
  BY <1>2, <1>3
<1>6. ToSet(c) = ToSet(s) \cup {m}
  BY <1>3, <1>4, <1>5 DEF ToSet
<1>7. IsInjective(s) /\ m \notin ToSet(s) => IsInjective(c)
  BY <1>3, <1>4, <1>5 DEF ToSet, IsInjective
<1> QED BY <1>1, <1>6, <1>7 DEF c

LEMMA ShortSeqs ==
  /\ ToSet(<<>>) = {}
  /\ \A m : ToSet(<<m>>) = {m} /\ Head(<<m>>) = m /\ Tail(<<m>>) = <<>> /\ <<m>> # <<>>
<1>1. ToSet(<<>>) = {}
  BY DEF ToSet
<1>2. ASSUME NEW m
      PROVE ToSet(<<m>>) = {m} /\ Head(<<m>>) = m /\ Tail(<<m>>) = <<>> /\ <<m>> # <<>>
  BY DEF ToSet
<1> QED BY <1>1, <1>2

LEMMA UnitSeq ==
  ASSUME NEW S, NEW s \in Seq(S), Len(s) <= 1
  PROVE  s = <<>> \/ (s = <<Head(s)>> /\ Head(s) \in S)
<1>1. CASE Len(s) = 0
  BY <1>1, EmptySeq
<1>2. CASE Len(s) = 1
  <2>1. DOMAIN s = 1 .. 1 /\ s[1] \in S /\ Head(s) = s[1]
    BY <1>2, LenProperties, ElementOfSeq
  <2> QED BY <1>2, <2>1
<1>3. Len(s) = 0 \/ Len(s) = 1
  <2>1. Len(s) \in Nat /\ Len(s) <= 1
    BY LenProperties
  <2>2. \A n \in Nat : n <= 1 => n = 0 \/ n = 1
    OBVIOUS
  <2> QED BY <2>1, <2>2, Zenon
<1> QED BY <1>1, <1>2, <1>3
-----------------------------------------------------------------------------
(* Steps.  A Messenger on the transport makes two steps of its own: it     *)
(* destroys a Message and reports a status with it, and it counts a call   *)
(* that does not reach the transport.                                      *)
Discards(t) ==
  /\ pc[t] = "idle" /\ held[t] # NoMessage
  /\ held' = [held EXCEPT ![t] = NoMessage]
  /\ EndChannel(t)
  /\ ready' = Requeued(Left(t))
  /\ res' \in [Threads -> Statuses]
  /\ UNCHANGED <<pc, op, calls, stopped, sendVars, faults, accepted, autoTaken, returned>>
Counts(t) ==
  /\ Idle(t)
  /\ calls' = [calls EXCEPT ![t] = @ + 1]
  /\ res' \in [Threads -> Statuses]
  /\ UNCHANGED <<pc, op, stopped, sendVars, recvVars, brokerVars, faults, histVars>>

(* The steps by the thread or the channel they belong to. *)
ThreadStep(t) ==
  \/ Push(t) \/ Settle(t) \/ Break(t)
  \/ Calls(t) \/ Counts(t)
  \/ (\E frame \in {"ack", "requeue", "reject"} : Complete(t, frame)) \/ Discards(t)
  \/ Step(t)
OtherStep == Shutdown \/ BreakSend \/ UNCHANGED vars
AnyStep == OtherStep \/ \E t \in Threads : ThreadStep(t)

LEMMA NextIsAnyStep == ASSUME TypeOK, [Next]_vars PROVE AnyStep
<1>1. ASSUME NEW t \in Threads, Drop(t) PROVE Discards(t)
  BY <1>1 DEF Drop, Discards, TypeOK, callVars
<1> QED
  BY <1>1 DEF Next, Environment, Uses, AnyStep, OtherStep, ThreadStep

(* BasicGet finds a message. *)
Fetches(t) ==
  LET q == op[t].addr
      m == Head(ready[q])
  IN
  /\ pc[t] = "get" /\ chan[t] = "open" /\ ready[q] # <<>>
  /\ Return(t, "Ok")
  /\ held' = [held EXCEPT ![t] = [msg |-> m, mode |-> op[t].mode, completed |-> FALSE]]
  /\ ready' = [ready EXCEPT ![q] = Tail(@)]
  /\ unacked' = [unacked EXCEPT ![t] = Take(t, m)]
  /\ chan' = IF op[t].mode = "Manual" THEN chan ELSE [chan EXCEPT ![t] = "none"]
  /\ returned' = IF op[t].mode = "Auto" THEN returned \cup {m} ELSE returned
  /\ autoTaken' = AutoTaken(t, m)
  /\ UNCHANGED <<pushed, wire, settled, op, calls, stopped, sendVars, faults, accepted>>

LEMMA GetCases ==
  ASSUME NEW t, Get(t)
  PROVE  Fetches(t) \/ \E status \in Statuses : GiveUp(t, status)
BY DEF Get, Fetches, Statuses

(* A step of thread t leaves the calls and channels of the others alone. *)
Untouched(u) ==
  /\ pc'[u] = pc[u] /\ op'[u] = op[u] /\ calls'[u] = calls[u] /\ held'[u] = held[u]
  /\ chan'[u] = chan[u] /\ pushed'[u] = pushed[u] /\ wire'[u] = wire[u]
  /\ unacked'[u] = unacked[u]

LEMMA GiveUpLocal ==
  ASSUME TypeOK, NEW t \in Threads, NEW status, GiveUp(t, status), NEW u \in Threads \ {t}
  PROVE  /\ pc'[u] = pc[u] /\ held'[u] = held[u]
         /\ chan'[u] = chan[u] /\ pushed'[u] = pushed[u] /\ wire'[u] = wire[u]
         /\ unacked'[u] = unacked[u]
BY DEF GiveUp, Return, EndChannel, TypeOK

LEMMA Locality ==
  ASSUME TypeOK, NEW t \in Threads, ThreadStep(t), NEW u \in Threads \ {t}
  PROVE  Untouched(u)
<1>1. CASE Push(t) \/ Settle(t) \/ Break(t)
  BY <1>1 DEF Push, Settle, Break, TypeOK, Untouched, callVars
<1>2. CASE Calls(t)
  BY <1>2 DEF Calls, SendCall, ReceiveCall, Return, Goto, TypeOK, Untouched, recvVars,
              brokerVars
<1>3. CASE Counts(t)
  BY <1>3 DEF Counts, TypeOK, Untouched, recvVars, brokerVars
<1>4. CASE \E frame \in {"ack", "requeue", "reject"} : Complete(t, frame)
  BY <1>4 DEF Complete, Return, TypeOK, Untouched, brokerVars
<1>5. CASE Discards(t)
  BY <1>5 DEF Discards, EndChannel, TypeOK, Untouched
<1>6. CASE SendLock(t) \/ Publish(t) \/ Open(t)
  BY <1>6 DEF SendLock, Publish, Open, Return, Goto, TypeOK, Untouched, recvVars, brokerVars
<1>7. CASE Get(t)
  BY <1>7, GiveUpLocal DEF Get, Return, TypeOK, Untouched
<1>8. CASE Loop(t)
  BY <1>8, GiveUpLocal DEF Loop, Goto, TypeOK, Untouched, recvVars, brokerVars
<1>9. CASE Wait(t)
  BY <1>9, GiveUpLocal DEF Wait, Deliver, EndChannel, Return, Goto, TypeOK, Untouched,
                           recvVars, brokerVars
<1> QED
  BY <1>1, <1>2, <1>3, <1>4, <1>5, <1>6, <1>7, <1>8, <1>9 DEF ThreadStep, Step
-----------------------------------------------------------------------------
(* Types. *)

LEMMA MessageTypes ==
  /\ \A m \in Msgs : m.to \in Queues /\ m.from \in Threads /\ m.nr \in 1 .. MaxCalls
  /\ \A d \in Deliveries : d.msg \in Msgs /\ d.mode \in Modes /\ d.completed \in BOOLEAN
  /\ \A m \in Msgs, mode \in Modes, b \in BOOLEAN :
       [msg |-> m, mode |-> mode, completed |-> b] \in Deliveries
BY DEF Msgs, Deliveries

LEMMA OpTypes ==
  /\ \A o \in SendOps : o.msg \in Msgs
  /\ \A o \in ReceiveOps :
       o.addr \in Queues /\ o.policy \in Policies /\ o.mode \in Modes
  /\ \A o \in ReceiveOps : o.mode = "Auto" \/ o.mode = "Manual"
BY RabbitAssumption DEF SendOps, ReceiveOps

LEMMA RequeuedType ==
  ASSUME TypeOK, NEW s \in Seq(Msgs)
  PROVE  Requeued(s) \in [Queues -> Seq(Msgs)]
<1>1. CASE s = <<>>
  BY <1>1 DEF Requeued, TypeOK
<1>2. CASE s # <<>>
  <2>1. Head(s).to \in Queues
    BY <1>2, HeadTailProperties, MessageTypes
  <2>2. s \o ready[Head(s).to] \in Seq(Msgs)
    BY <2>1, ConcatProperties DEF TypeOK
  <2> QED BY <1>2, <2>1, <2>2 DEF Requeued, TypeOK
<1> QED BY <1>1, <1>2

LEMMA ChannelTypes ==
  ASSUME TypeOK, NEW t \in Threads
  PROVE  /\ First(t) \in Seq(Msgs) /\ Others(t) \in Seq(Msgs) /\ Left(t) \in Seq(Msgs)
         /\ Settles(t) \subseteq Msgs
         /\ Requeued(First(t)) \in [Queues -> Seq(Msgs)]
         /\ Requeued(Left(t)) \in [Queues -> Seq(Msgs)]
         /\ Requeued(unacked[t]) \in [Queues -> Seq(Msgs)]
<1>1. unacked[t] \in Seq(Msgs) /\ <<>> \in Seq(Msgs)
  BY DEF TypeOK
<1>2. First(t) \in Seq(Msgs) /\ Others(t) \in Seq(Msgs)
  <2>1. CASE unacked[t] = <<>>
    BY <2>1 DEF First, Others
  <2>2. CASE unacked[t] # <<>>
    <3>1. Head(unacked[t]) \in Msgs /\ Tail(unacked[t]) \in Seq(Msgs)
      BY <1>1, <2>2, HeadTailProperties
    <3> QED BY <2>2, <3>1 DEF First, Others
  <2> QED BY <2>1, <2>2
<1>3. ToSet(First(t)) \subseteq Msgs
  BY <1>2, LenProperties, ElementOfSeq DEF ToSet
<1>4. Left(t) \in Seq(Msgs) /\ Settles(t) \subseteq Msgs
  BY <1>1, <1>2, <1>3 DEF Left, Settles
<1> QED
  BY <1>1, <1>2, <1>4, RequeuedType

LEMMA EndChannelTypes ==
  ASSUME TypeOK, NEW t \in Threads, EndChannel(t)
  PROVE  /\ chan' \in [Threads -> Links] /\ pushed' \in [Threads -> Seq(Msgs)]
         /\ wire' \in [Threads -> {"none", "ack", "requeue", "reject"}]
         /\ unacked' \in [Threads -> Seq(Msgs)] /\ settled' \subseteq Msgs
<1>1. <<>> \in Seq(Msgs) /\ Settles(t) \subseteq Msgs
  BY ChannelTypes
<1> QED BY <1>1 DEF EndChannel, TypeOK, Links

(* The parts of the type invariant. *)
CallTypes ==
  /\ pc \in [Threads -> {"idle", "lock", "publish", "open", "get", "loop", "wait"}]
  /\ op \in [Threads -> SendOps \cup ReceiveOps \cup {[kind |-> "none"]}]
  /\ res \in [Threads -> Statuses]
  /\ calls \in [Threads -> 0 .. MaxCalls]
  /\ stopped \in BOOLEAN
  /\ faults \in 0 .. MaxFaults
SendTypes ==
  /\ sendMu \in Threads \cup {NoThread}
  /\ \A t \in Threads : sendMu = t <=> pc[t] = "publish"
  /\ sendCh \in Links
  /\ accepted \subseteq Msgs
ReceiveTypes ==
  /\ chan \in [Threads -> Links]
  /\ pushed \in [Threads -> Seq(Msgs)]
  /\ held \in [Threads -> Deliveries \cup {NoMessage}]
  /\ wire \in [Threads -> {"none", "ack", "requeue", "reject"}]
  /\ unacked \in [Threads -> Seq(Msgs)]
  /\ settled \subseteq Msgs /\ autoTaken \subseteq Msgs /\ returned \subseteq Msgs
QueueTypes == ready \in [Queues -> Seq(Msgs)]

LEMMA TypeParts == TypeOK <=> CallTypes /\ SendTypes /\ ReceiveTypes /\ QueueTypes
BY DEF TypeOK, CallTypes, SendTypes, ReceiveTypes, QueueTypes

LEMMA NextCallTypes ==
  ASSUME TypeOK, AnyStep PROVE CallTypes'
<1> DEFINE PCs == {"idle", "lock", "publish", "open", "get", "loop", "wait"}
<1> USE DEF CallTypes
<1>0. /\ \A t \in Threads, st \in Statuses : Return(t, st) =>
           pc' \in [Threads -> PCs] /\ res' \in [Threads -> Statuses]
      /\ \A t \in Threads, l \in PCs : Goto(t, l) =>
           pc' \in [Threads -> PCs] /\ res' \in [Threads -> Statuses]
      /\ Fault => faults' \in 0 .. MaxFaults
  <2>1. pc \in [Threads -> PCs] /\ res \in [Threads -> Statuses] /\ faults \in 0 .. MaxFaults
    BY DEF TypeOK
  <2>2. ASSUME NEW t \in Threads, NEW st \in Statuses, Return(t, st)
        PROVE  pc' \in [Threads -> PCs] /\ res' \in [Threads -> Statuses]
    BY <2>1, <2>2 DEF Return
  <2>3. ASSUME NEW t \in Threads, NEW l \in PCs, Goto(t, l)
        PROVE  pc' \in [Threads -> PCs] /\ res' \in [Threads -> Statuses]
    BY <2>1, <2>3 DEF Goto
  <2>4. Fault => faults' \in 0 .. MaxFaults
    BY <2>1, RabbitAssumption DEF Fault
  <2> QED BY <2>2, <2>3, <2>4
<1>1. CASE OtherStep
  BY <1>0, <1>1 DEF OtherStep, Shutdown, BreakSend, vars, callVars, TypeOK
<1>2. ASSUME NEW t \in Threads, ThreadStep(t) PROVE CallTypes'
  <2>1. CASE Push(t) \/ Settle(t) \/ Break(t)
    BY <1>0, <2>1 DEF Push, Settle, Break, TypeOK, callVars
  <2>2. CASE Calls(t)
    <3>0. Idle(t) => [calls EXCEPT ![t] = @ + 1] \in [Threads -> 0 .. MaxCalls]
                       /\ calls[t] + 1 \in 1 .. MaxCalls
      BY RabbitAssumption DEF Idle, TypeOK
    <3>1. ASSUME NEW a \in Queues \cup {NoName}, NEW confirm \in BOOLEAN,
                 SendCall(t, a, confirm)
          PROVE  CallTypes'
      <4>1. pc' \in [Threads -> PCs] /\ res' \in [Threads -> Statuses]
        BY <3>1, <1>0 DEF SendCall, Statuses
      <4>2. op' \in [Threads -> SendOps \cup ReceiveOps \cup {[kind |-> "none"]}]
        <5>1. CASE UNCHANGED op
          BY <5>1 DEF TypeOK
        <5>2. CASE a # NoName /\ op' = [op EXCEPT ![t] = [kind |-> "send",
                      msg |-> [to |-> a, from |-> t, nr |-> calls[t] + 1]]]
          <6>1. [kind |-> "send", msg |-> [to |-> a, from |-> t, nr |-> calls[t] + 1]]
                  \in SendOps
            BY <3>0, <3>1, <5>2 DEF SendCall, SendOps, Msgs
          <6> QED BY <5>2, <6>1 DEF TypeOK
        <5> QED BY <3>1, <5>1, <5>2 DEF SendCall
      <4> QED BY <3>0, <3>1, <4>1, <4>2 DEF SendCall, TypeOK
    <3>2. ASSUME NEW a \in Queues \cup {NoName}, NEW policy \in Policies,
                 NEW mode \in Modes, ReceiveCall(t, a, policy, mode)
          PROVE  CallTypes'
      <4>1. pc' \in [Threads -> PCs] /\ res' \in [Threads -> Statuses]
        BY <3>2, <1>0 DEF ReceiveCall, Statuses
      <4>2. op' \in [Threads -> SendOps \cup ReceiveOps \cup {[kind |-> "none"]}]
        <5>1. CASE UNCHANGED op
          BY <5>1 DEF TypeOK
        <5>2. CASE a # NoName /\ op' = [op EXCEPT ![t] = [kind |-> "receive", addr |-> a,
                                           policy |-> policy, mode |-> mode]]
          <6>1. [kind |-> "receive", addr |-> a, policy |-> policy, mode |-> mode]
                  \in ReceiveOps
            BY <5>2 DEF ReceiveOps
          <6> QED BY <5>2, <6>1 DEF TypeOK
        <5> QED BY <3>2, <5>1, <5>2 DEF ReceiveCall
      <4> QED BY <3>0, <3>2, <4>1, <4>2 DEF ReceiveCall, TypeOK
    <3> QED BY <2>2, <3>1, <3>2 DEF Calls
  <2>3. CASE Counts(t)
    BY <2>3, RabbitAssumption DEF Counts, Idle, TypeOK
  <2>4. CASE \E frame \in {"ack", "requeue", "reject"} : Complete(t, frame)
    BY <1>0, <2>4 DEF Complete, TypeOK, Statuses
  <2>5. CASE Discards(t)
    BY <2>5 DEF Discards, TypeOK
  <2>6. CASE SendLock(t)
    BY <1>0, <2>6 DEF SendLock, TypeOK, Statuses
  <2>7. CASE Publish(t)
    BY <1>0, <2>7 DEF Publish, TypeOK, Statuses
  <2>8. CASE Open(t)
    BY <1>0, <2>8 DEF Open, TypeOK, Statuses
  <2>9. CASE Get(t) \/ Loop(t) \/ Wait(t)
    BY <1>0, <2>9 DEF Get, Loop, Wait, GiveUp, Deliver, TypeOK, Statuses
  <2> QED
    BY <1>2, <2>1, <2>2, <2>3, <2>4, <2>5, <2>6, <2>7, <2>8, <2>9 DEF ThreadStep, Step
<1> QED BY <1>1, <1>2 DEF AnyStep

LEMMA NextSendTypes ==
  ASSUME TypeOK, CallShape, AnyStep PROVE SendTypes'
<1> USE DEF SendTypes
<1>1. CASE OtherStep
  BY <1>1 DEF OtherStep, Shutdown, BreakSend, vars, callVars, sendVars, histVars, TypeOK, Links
<1>2. ASSUME NEW t \in Threads, ThreadStep(t), sendMu' = sendMu, sendCh' = sendCh,
             accepted' = accepted, pc[t] # "publish", pc'[t] # "publish"
      PROVE  SendTypes'
  BY <1>2, Locality DEF Untouched, TypeOK
<1>3. ASSUME NEW t \in Threads, SendLock(t) PROVE SendTypes'
  BY <1>3, RabbitAssumption DEF SendLock, Return, Goto, TypeOK, Links, sendVars, histVars
<1>4. ASSUME NEW t \in Threads, Publish(t) PROVE SendTypes'
  <2>1. op[t].msg \in Msgs
    BY <1>4, OpTypes DEF Publish, CallShape, CallShapeAt, Sending
  <2> QED
    BY <1>4, <2>1, RabbitAssumption DEF Publish, Return, TypeOK, Links
<1>5. ASSUME NEW t \in Threads, ThreadStep(t), ~SendLock(t), ~Publish(t)
      PROVE  SendTypes'
  <2>1. CASE Push(t) \/ Settle(t) \/ Break(t)
    BY <2>1 DEF Push, Settle, Break, TypeOK, callVars, sendVars, histVars
  <2>2. CASE Calls(t)
    BY <1>2, <1>5, <2>2 DEF Calls, SendCall, ReceiveCall, Idle, Return, Goto, TypeOK, sendVars, histVars
  <2>3. CASE Counts(t)
    BY <2>3 DEF Counts, TypeOK, sendVars, histVars
  <2>4. CASE \E frame \in {"ack", "requeue", "reject"} : Complete(t, frame)
    BY <1>2, <1>5, <2>4 DEF Complete, Return, TypeOK, sendVars, histVars
  <2>5. CASE Discards(t)
    BY <2>5 DEF Discards, TypeOK, sendVars
  <2>6. CASE Open(t) \/ Get(t) \/ Loop(t) \/ Wait(t)
    BY <1>2, <1>5, <2>6 DEF Open, Get, Loop, Wait, GiveUp, Deliver, Return, Goto, TypeOK, sendVars, histVars
  <2> QED
    BY <1>5, <2>1, <2>2, <2>3, <2>4, <2>5, <2>6 DEF ThreadStep, Step
<1> QED BY <1>1, <1>3, <1>4, <1>5 DEF AnyStep

LEMMA NextQueueTypes ==
  ASSUME TypeOK, CallShape, AnyStep PROVE QueueTypes'
<1> USE DEF QueueTypes
<1>0. ready \in [Queues -> Seq(Msgs)]
  BY DEF TypeOK
<1>1. CASE OtherStep
  BY <1>0, <1>1 DEF OtherStep, Shutdown, BreakSend, vars, brokerVars
<1>2. ASSUME NEW t \in Threads, ThreadStep(t) PROVE QueueTypes'
  <2>0. \A q \in Queues : ready[q] # <<>> => [ready EXCEPT ![q] = Tail(@)] \in [Queues -> Seq(Msgs)]
    BY <1>0, HeadTailProperties
  <2>1. CASE Push(t)
    <3>1. op[t].addr \in Queues
      BY <2>1, OpTypes DEF Push, CallShape, CallShapeAt, Receiving
    <3> QED BY <2>0, <2>1, <3>1 DEF Push
  <2>2. CASE Settle(t) \/ Break(t) \/ Discards(t)
    BY <1>0, <2>2, ChannelTypes DEF Settle, Break, Discards
  <2>3. CASE Calls(t) \/ Counts(t)
    BY <1>0, <2>3 DEF Calls, SendCall, ReceiveCall, Counts, brokerVars
  <2>4. CASE \E frame \in {"ack", "requeue", "reject"} : Complete(t, frame)
    BY <1>0, <2>4 DEF Complete, brokerVars
  <2>5. CASE Publish(t)
    <3>1. op[t].msg \in Msgs /\ op[t].msg.to \in Queues
      BY <2>5, OpTypes, MessageTypes DEF Publish, CallShape, CallShapeAt, Sending
    <3>2. Append(ready[op[t].msg.to], op[t].msg) \in Seq(Msgs)
      BY <1>0, <3>1, AppendProperties
    <3> QED BY <1>0, <2>5, <3>1, <3>2 DEF Publish
  <2>6. CASE SendLock(t) \/ Open(t)
    BY <1>0, <2>6 DEF SendLock, Open, brokerVars
  <2>7. CASE Get(t)
    <3>1. op[t].addr \in Queues
      BY <2>7, OpTypes DEF Get, CallShape, CallShapeAt, Receiving
    <3> QED BY <2>0, <2>7, <3>1, ChannelTypes DEF Get, GiveUp
  <2>8. CASE Loop(t) \/ Wait(t)
    BY <1>0, <2>8, ChannelTypes DEF Loop, Wait, GiveUp, Deliver, brokerVars
  <2> QED
    BY <1>2, <2>1, <2>2, <2>3, <2>4, <2>5, <2>6, <2>7, <2>8 DEF ThreadStep, Step
<1> QED BY <1>1, <1>2 DEF AnyStep

LEMMA NextReceiveTypes ==
  ASSUME TypeOK, CallShape, AnyStep PROVE ReceiveTypes'
<1> USE DEF ReceiveTypes
<1>0. /\ chan \in [Threads -> Links] /\ pushed \in [Threads -> Seq(Msgs)]
      /\ held \in [Threads -> Deliveries \cup {NoMessage}]
      /\ wire \in [Threads -> {"none", "ack", "requeue", "reject"}]
      /\ unacked \in [Threads -> Seq(Msgs)]
      /\ settled \subseteq Msgs /\ autoTaken \subseteq Msgs /\ returned \subseteq Msgs
  BY DEF TypeOK
<1>1. CASE OtherStep
  BY <1>0, <1>1 DEF OtherStep, Shutdown, BreakSend, vars, recvVars, brokerVars, histVars
<1>2. ASSUME NEW t \in Threads, ThreadStep(t) PROVE ReceiveTypes'
  <2>0. ASSUME Receiving(t), NEW q, q = op[t].addr, ready[q] # <<>>
        PROVE  /\ Head(ready[q]) \in Msgs
               /\ Take(t, Head(ready[q])) \in Seq(Msgs)
               /\ AutoTaken(t, Head(ready[q])) \subseteq Msgs
               /\ Append(pushed[t], Head(ready[q])) \in Seq(Msgs)
    <3>1. Head(ready[q]) \in Msgs
      BY <2>0, OpTypes, HeadTailProperties DEF TypeOK, CallShape, CallShapeAt
    <3> QED BY <1>0, <3>1, AppendProperties DEF Take, AutoTaken
  <2>1. CASE Push(t)
    <3>1. Receiving(t)
      BY <2>1 DEF Push, Receiving
    <3> QED BY <1>0, <2>0, <2>1, <3>1 DEF Push
  <2>2. CASE Settle(t)
    BY <1>0, <2>2, ChannelTypes DEF Settle
  <2>3. CASE Break(t)
    <3>1. <<>> \in Seq(Msgs)
      OBVIOUS
    <3> QED BY <1>0, <2>3, <3>1 DEF Break, histVars, Links
  <2>4. CASE Discards(t)
    BY <1>0, <2>4, EndChannelTypes DEF Discards
  <2>5. CASE Calls(t) \/ Counts(t)
    BY <1>0, <2>5 DEF Calls, SendCall, ReceiveCall, Counts, brokerVars, recvVars, histVars
  <2>6. CASE \E frame \in {"ack", "requeue", "reject"} : Complete(t, frame)
    <3>1. PICK frame \in {"ack", "requeue", "reject"} : Complete(t, frame)
      BY <2>6
    <3>2. wire' \in [Threads -> {"none", "ack", "requeue", "reject"}]
      BY <1>0, <3>1 DEF Complete
    <3>3. held' \in [Threads -> Deliveries \cup {NoMessage}]
      <4>1. CASE held' = held
        BY <1>0, <4>1
      <4>2. CASE held' = [held EXCEPT ![t].completed = TRUE]
        <5>1. held[t] \in Deliveries
          BY <1>0, <3>1 DEF Complete
        <5>2. [held[t] EXCEPT !.completed = TRUE] \in Deliveries
          BY <5>1 DEF Deliveries
        <5> QED BY <1>0, <4>2, <5>2
      <4> QED BY <3>1, <4>1, <4>2 DEF Complete
    <3> QED BY <1>0, <3>1, <3>2, <3>3 DEF Complete, brokerVars, histVars
  <2>7. CASE SendLock(t) \/ Publish(t) \/ Open(t)
    BY <1>0, <2>7 DEF SendLock, Publish, Open, recvVars, brokerVars, histVars, Links
  <2>8. ASSUME NEW status, GiveUp(t, status) PROVE ReceiveTypes'
    BY <1>0, <2>8, EndChannelTypes DEF GiveUp
  <2>9. CASE Get(t)
    <3>1. Receiving(t) /\ op[t].mode \in Modes
      BY <2>9, OpTypes DEF Get, Receiving, CallShape, CallShapeAt
    <3>2. CASE Fetches(t)
      <4> DEFINE m == Head(ready[op[t].addr])
      <4>1. /\ m \in Msgs /\ Take(t, m) \in Seq(Msgs) /\ AutoTaken(t, m) \subseteq Msgs
        BY <2>0, <3>1, <3>2 DEF Fetches
      <4>2. [msg |-> m, mode |-> op[t].mode, completed |-> FALSE] \in Deliveries
        BY <3>1, <4>1, MessageTypes
      <4>3. /\ held' = [held EXCEPT ![t] = [msg |-> m, mode |-> op[t].mode, completed |-> FALSE]]
            /\ unacked' = [unacked EXCEPT ![t] = Take(t, m)]
            /\ chan' = chan \/ chan' = [chan EXCEPT ![t] = "none"]
            /\ returned' \subseteq returned \cup {m}
            /\ autoTaken' = AutoTaken(t, m)
            /\ UNCHANGED <<pushed, wire, settled>>
        BY <3>2 DEF Fetches
      <4> HIDE DEF m
      <4> QED BY <1>0, <4>1, <4>2, <4>3 DEF Links
    <3> QED BY <2>8, <2>9, <3>2, GetCases
  <2>10. CASE Loop(t)
    BY <1>0, <2>8, <2>10 DEF Loop, recvVars, brokerVars
  <2>11. CASE Wait(t)
    <3>1. ASSUME pushed[t] # <<>>, Deliver(t, Head(pushed[t])) PROVE ReceiveTypes'
      <4>1. Head(pushed[t]) \in Msgs /\ op[t].mode \in Modes
        BY <1>0, <2>11, <3>1, HeadTailProperties, OpTypes
           DEF Wait, Receiving, CallShape, CallShapeAt
      <4>2. [msg |-> Head(pushed[t]), mode |-> op[t].mode, completed |-> FALSE] \in Deliveries
        BY <4>1, MessageTypes
      <4>3. <<>> \in Seq(Msgs)
        OBVIOUS
      <4> QED BY <1>0, <3>1, <4>1, <4>2, <4>3, EndChannelTypes DEF Deliver
    <3> QED BY <1>0, <2>8, <2>11, <3>1 DEF Wait, recvVars, brokerVars
  <2> QED
    BY <1>2, <2>1, <2>2, <2>3, <2>4, <2>5, <2>6, <2>7, <2>9, <2>10, <2>11
       DEF ThreadStep, Step
<1> QED BY <1>1, <1>2 DEF AnyStep

LEMMA NextTypeOK == ASSUME TypeOK, CallShape, AnyStep PROVE TypeOK'
<1>1. CallTypes' /\ SendTypes' /\ ReceiveTypes' /\ QueueTypes'
  BY NextCallTypes, NextSendTypes, NextReceiveTypes, NextQueueTypes
<1> QED BY <1>1 DEF TypeOK, CallTypes, SendTypes, ReceiveTypes, QueueTypes
-----------------------------------------------------------------------------
(* Calls and channels. *)

LEMMA UntouchedShapes ==
  ASSUME NEW u \in Threads, Untouched(u)
  PROVE  /\ CallShapeAt(u) => CallShapeAt(u)'
         /\ ChannelShapeAt(u) => ChannelShapeAt(u)'
<1>1. /\ Sending(u)' <=> Sending(u)
      /\ Receiving(u)' <=> Receiving(u)
      /\ Consuming(u)' <=> Consuming(u)
      /\ Owes(u)' <=> Owes(u)
  BY DEF Untouched, Sending, Receiving, Consuming, Owes
<1>2. CallShapeAt(u) => CallShapeAt(u)'
  BY <1>1 DEF Untouched, CallShapeAt
<1>3. ChannelShapeAt(u) => ChannelShapeAt(u)'
  BY <1>1 DEF Untouched, ChannelShapeAt
<1> QED BY <1>2, <1>3

LEMMA OthersUntouched == ASSUME OtherStep, NEW u \in Threads PROVE Untouched(u)
BY DEF OtherStep, Shutdown, BreakSend, Untouched, vars, callVars, recvVars, brokerVars

LEMMA NextCallShape ==
  ASSUME TypeOK, CallShape, AnyStep PROVE CallShape'
<1>1. CASE OtherStep
  BY <1>1, OthersUntouched, UntouchedShapes DEF CallShape
<1>2. ASSUME NEW t \in Threads, ThreadStep(t) PROVE CallShape'
  <2>0. CallShapeAt(t)
    BY DEF CallShape
  <2> SUFFICES CallShapeAt(t)'
    BY <1>2, Locality, UntouchedShapes DEF CallShape
  <2>1. CASE pc'[t] = "idle"
    BY <2>1 DEF CallShapeAt, Sending, Receiving
  <2>2. CASE Push(t) \/ Settle(t) \/ Break(t)
    BY <2>0, <2>2 DEF Push, Settle, Break, CallShapeAt, Sending, Receiving, callVars
  <2>3. CASE Calls(t)
    <3>1. ASSUME NEW a \in Queues \cup {NoName}, NEW confirm \in BOOLEAN,
                 SendCall(t, a, confirm), pc'[t] # "idle"
          PROVE  CallShapeAt(t)'
      <4>1. /\ a \in Queues /\ pc'[t] = "lock" /\ calls'[t] = calls[t] + 1
            /\ op'[t] = [kind |-> "send", msg |-> [to |-> a, from |-> t, nr |-> calls[t] + 1]]
            /\ calls[t] + 1 \in 1 .. MaxCalls
        BY <3>1, RabbitAssumption DEF SendCall, Return, Goto, Idle, TypeOK
      <4>2. op'[t] \in SendOps
        BY <4>1 DEF SendOps, Msgs
      <4> QED BY <4>1, <4>2 DEF CallShapeAt, Sending, Receiving
    <3>2. ASSUME NEW a \in Queues \cup {NoName}, NEW policy \in Policies,
                 NEW mode \in Modes, ReceiveCall(t, a, policy, mode), pc'[t] # "idle"
          PROVE  CallShapeAt(t)'
      <4>1. /\ a \in Queues /\ pc'[t] = "open" /\ held'[t] = NoMessage
            /\ op'[t] = [kind |-> "receive", addr |-> a, policy |-> policy, mode |-> mode]
        BY <3>2, RabbitAssumption DEF ReceiveCall, Return, Goto, TypeOK, recvVars
      <4>2. op'[t] \in ReceiveOps
        BY <4>1 DEF ReceiveOps
      <4> QED BY <4>1, <4>2 DEF CallShapeAt, Sending, Receiving
    <3> QED BY <2>1, <2>3, <3>1, <3>2 DEF Calls
  <2>4. CASE Counts(t)
    BY <2>0, <2>4 DEF Counts, Idle, CallShapeAt, Sending, Receiving
  <2>5. CASE (\E frame \in {"ack", "requeue", "reject"} : Complete(t, frame)) \/ Publish(t)
    BY <2>1, <2>5 DEF Complete, Publish, Return, TypeOK
  <2>6. CASE Discards(t)
    BY <2>1, <2>6 DEF Discards
  <2>7. CASE SendLock(t)
    BY <2>0, <2>1, <2>7 DEF SendLock, Return, Goto, TypeOK, CallShapeAt, Sending, Receiving
  <2>8. CASE Open(t)
    BY <2>0, <2>1, <2>8 DEF Open, Return, Goto, TypeOK, CallShapeAt, Sending, Receiving
  <2>9. CASE Get(t)
    BY <2>1, <2>9 DEF Get, GiveUp, Return, TypeOK
  <2>10. CASE Loop(t) \/ Wait(t)
    BY <2>0, <2>1, <2>10 DEF Loop, Wait, GiveUp, Deliver, Return, Goto, TypeOK, CallShapeAt,
                             Sending, Receiving, recvVars
  <2> QED
    BY <1>2, <2>2, <2>3, <2>4, <2>5, <2>6, <2>7, <2>8, <2>9, <2>10 DEF ThreadStep, Step
<1> QED BY <1>1, <1>2 DEF AnyStep

(* The channel is gone. *)
Closed(t) ==
  /\ chan[t] = "none" /\ pushed[t] = <<>> /\ wire[t] = "none" /\ unacked[t] = <<>>
  /\ ~Receiving(t) /\ ~Owes(t)

LEMMA ClosedShape == \A t : Closed(t) => ChannelShapeAt(t)
BY DEF Closed, ChannelShapeAt, Receiving, Consuming, Owes

LEMMA NextChannelShape ==
  ASSUME TypeOK, CallShape, ChannelShape, AnyStep PROVE ChannelShape'
<1>1. CASE OtherStep
  BY <1>1, OthersUntouched, UntouchedShapes DEF ChannelShape
<1>2. ASSUME NEW t \in Threads, ThreadStep(t) PROVE ChannelShape'
  <2>0. ChannelShapeAt(t) /\ CallShapeAt(t)
    BY DEF ChannelShape, CallShape
  <2> SUFFICES ChannelShapeAt(t)'
    BY <1>2, Locality, UntouchedShapes DEF ChannelShape
  <2>a. ASSUME EndChannel(t), pc'[t] = "idle", held'[t] = NoMessage \/ held'[t].mode = "Auto"
        PROVE  ChannelShapeAt(t)'
    <3>1. Closed(t)'
      BY <2>a DEF Closed, EndChannel, Receiving, Owes, TypeOK
    <3> QED BY <3>1 DEF Closed, ChannelShapeAt, Receiving, Consuming, Owes
  <2>b. ASSUME NEW status, GiveUp(t, status), Receiving(t) PROVE ChannelShapeAt(t)'
    BY <2>a, <2>b, <2>0 DEF GiveUp, Return, TypeOK, CallShapeAt
  <2>1. CASE Push(t)
    <3>1. op[t] \in ReceiveOps /\ Consuming(t) /\ held[t] = NoMessage
      BY <2>0, <2>1 DEF Push, Consuming, Receiving, CallShapeAt
    <3>2. op[t].addr \in Queues /\ (op[t].mode = "Auto" \/ op[t].mode = "Manual")
      BY <3>1, OpTypes
    <3>3. Head(ready[op[t].addr]) \in Msgs
      BY <2>1, <3>2, HeadTailProperties DEF Push, TypeOK
    <3>4. /\ Consuming(t)' /\ Receiving(t)' /\ ~Owes(t)' /\ Receiving(t) /\ ~Owes(t)
          /\ op' = op /\ chan' = chan /\ wire' = wire /\ pc' = pc
      BY <2>1, <3>1 DEF Push, Consuming, Receiving, Owes, callVars
    <3>5. CASE op[t].mode = "Auto"
      <4>1. unacked'[t] = unacked[t]
        BY <2>1, <3>5 DEF Push, Take, NoAck, TypeOK
      <4> QED BY <2>0, <3>1, <3>4, <3>5, <4>1 DEF ChannelShapeAt, Consuming
    <3>6. CASE op[t].mode = "Manual"
      <4>1. unacked[t] = pushed[t] /\ Len(unacked[t]) < 1 /\ chan[t] = "open"
        BY <2>0, <2>1, <3>1, <3>6 DEF ChannelShapeAt, Push, NoAck, Prefetch
      <4>2. unacked[t] = <<>>
        BY <4>1, EmptySeq DEF TypeOK
      <4>3. /\ unacked'[t] = Append(<<>>, Head(ready[op[t].addr]))
            /\ pushed'[t] = Append(<<>>, Head(ready[op[t].addr]))
        BY <2>1, <3>6, <4>1, <4>2 DEF Push, Take, NoAck, TypeOK
      <4>4. Len(pushed'[t]) = 1
        BY <3>3, <4>3, AppendProperties, EmptySeq
      <4> QED BY <2>0, <3>1, <3>4, <3>6, <4>1, <4>3, <4>4 DEF ChannelShapeAt, Consuming
    <3> QED BY <3>2, <3>5, <3>6
  <2>2. CASE Settle(t)
    <3>1. wire[t] # "none" /\ Owes(t) /\ chan[t] = "open" /\ held[t].completed
      BY <2>0, <2>2 DEF Settle, ChannelShapeAt
    <3>2. unacked[t] = <<held[t].msg>> /\ ~Receiving(t) /\ ~Consuming(t) /\ pushed[t] = <<>>
      BY <2>0, <3>1 DEF ChannelShapeAt, CallShapeAt, Owes, Receiving, Consuming
    <3>3. unacked'[t] = <<>> /\ wire'[t] = "none"
      BY <2>2, <3>2, ShortSeqs DEF Settle, Others, TypeOK
    <3>4. /\ Owes(t)' /\ ~Receiving(t)' /\ ~Consuming(t)' /\ pc'[t] # "get" /\ chan'[t] = "open"
          /\ pushed'[t] = <<>> /\ held'[t].completed
      BY <2>2, <3>1, <3>2 DEF Settle, Owes, Receiving, Consuming, callVars
    <3> QED BY <3>3, <3>4 DEF ChannelShapeAt
  <2>3. CASE Break(t)
    <3>1. /\ chan'[t] = "broken" /\ wire'[t] = "none" /\ unacked'[t] = <<>>
          /\ pushed' = pushed /\ pc' = pc /\ op' = op /\ held' = held /\ chan[t] = "open"
      BY <2>3 DEF Break, TypeOK, callVars
    <3>2. Owes(t)' = Owes(t) /\ Receiving(t)' = Receiving(t) /\ Consuming(t)' = Consuming(t)
      BY <3>1 DEF Owes, Receiving, Consuming
    <3> QED BY <2>0, <3>1, <3>2 DEF ChannelShapeAt
  <2>4. CASE Calls(t)
    <3>1. /\ ~Receiving(t) /\ ~Consuming(t) /\ pc[t] = "idle"
          /\ ~Receiving(t)' /\ ~Consuming(t)' /\ pc'[t] \in {"idle", "lock", "open"}
          /\ chan' = chan /\ pushed' = pushed /\ held' = held /\ wire' = wire
          /\ unacked' = unacked
      BY <2>4 DEF Calls, SendCall, ReceiveCall, Idle, Return, Goto, TypeOK, Receiving,
                  Consuming, recvVars, brokerVars
    <3>2. Owes(t)' <=> Owes(t)
      BY <3>1 DEF Owes
    <3> QED BY <2>0, <3>1, <3>2 DEF ChannelShapeAt
  <2>5. CASE Counts(t)
    <3>1. /\ pc' = pc /\ op' = op /\ chan' = chan /\ pushed' = pushed /\ held' = held
          /\ wire' = wire /\ unacked' = unacked
      BY <2>5 DEF Counts, recvVars, brokerVars
    <3> QED BY <2>0, <3>1 DEF ChannelShapeAt, Receiving, Consuming, Owes
  <2>6. CASE \E frame \in {"ack", "requeue", "reject"} : Complete(t, frame)
    <3>1. PICK frame \in {"ack", "requeue", "reject"} : Complete(t, frame)
      BY <2>6
    <3>2. /\ pc[t] = "idle" /\ pc'[t] = "idle" /\ chan' = chan /\ pushed' = pushed
          /\ unacked' = unacked /\ held[t] # NoMessage
          /\ ~Receiving(t) /\ ~Consuming(t) /\ ~Receiving(t)' /\ ~Consuming(t)'
      BY <3>1 DEF Complete, Return, TypeOK, Receiving, Consuming, brokerVars
    <3>3. CASE UNCHANGED <<held, wire>>
      <4>1. Owes(t)' <=> Owes(t)
        BY <3>3 DEF Owes
      <4> QED BY <2>0, <3>2, <3>3, <4>1 DEF ChannelShapeAt
    <3>4. CASE ~UNCHANGED <<held, wire>>
      <4>1. /\ held[t].mode = "Manual" /\ ~held[t].completed /\ chan[t] = "open"
            /\ wire' = [wire EXCEPT ![t] = frame]
            /\ held' = [held EXCEPT ![t].completed = TRUE]
        BY <3>1, <3>4 DEF Complete
      <4>2. held[t] \in Deliveries
        BY <3>2 DEF TypeOK
      <4>3. /\ held'[t] = [held[t] EXCEPT !.completed = TRUE] /\ held'[t] \in Deliveries
            /\ held'[t].msg = held[t].msg /\ held'[t].mode = "Manual" /\ held'[t].completed
            /\ wire'[t] = frame
        BY <4>1, <4>2 DEF TypeOK, Deliveries
      <4>4. Owes(t) /\ Owes(t)'
        BY <3>2, <4>1, <4>3, NoMessageAssumption DEF Owes
      <4>5. unacked[t] = <<held[t].msg>>
        BY <2>0, <4>1, <4>4 DEF ChannelShapeAt
      <4> QED BY <2>0, <3>2, <4>1, <4>3, <4>4, <4>5 DEF ChannelShapeAt
    <3> QED BY <3>3, <3>4
  <2>7. CASE Discards(t)
    BY <2>a, <2>7 DEF Discards, TypeOK
  <2>8. CASE SendLock(t) \/ Publish(t)
    <3>1. /\ ~Receiving(t) /\ ~Consuming(t) /\ pc[t] # "get"
          /\ ~Receiving(t)' /\ ~Consuming(t)' /\ pc'[t] # "get"
          /\ chan' = chan /\ pushed' = pushed /\ held' = held /\ wire' = wire
          /\ unacked' = unacked
      BY <2>8 DEF SendLock, Publish, Return, Goto, TypeOK, Receiving, Consuming, recvVars,
                  brokerVars
    <3>2. Owes(t)' <=> Owes(t)
      BY <3>1 DEF Owes
    <3> QED BY <2>0, <3>1, <3>2 DEF ChannelShapeAt
  <2>9. CASE Open(t)
    <3>1. held[t] = NoMessage /\ ~Owes(t) /\ ~Receiving(t) /\ ~Consuming(t) /\ held' = held
          /\ pushed' = pushed /\ wire' = wire /\ unacked' = unacked /\ ~Owes(t)'
      BY <2>0, <2>9 DEF Open, CallShapeAt, Owes, Receiving, Consuming, brokerVars
    <3>2. pushed[t] = <<>> /\ unacked[t] = <<>> /\ wire[t] = "none" /\ chan[t] = "none"
      BY <2>0, <3>1 DEF ChannelShapeAt
    <3>3. \/ pc'[t] = "idle" /\ chan'[t] = "none"
          \/ pc'[t] \in {"get", "loop"} /\ chan'[t] = "open"
      BY <2>9, <3>2 DEF Open, Return, Goto, TypeOK
    <3>4. Len(<<>>) = 0
      OBVIOUS
    <3> QED BY <3>1, <3>2, <3>3, <3>4 DEF ChannelShapeAt, Receiving, Consuming
  <2>10. CASE Get(t)
    <3>1. Receiving(t) /\ pc[t] = "get" /\ ~Consuming(t) /\ op[t] \in ReceiveOps
          /\ unacked[t] = <<>> /\ pushed[t] = <<>> /\ wire[t] = "none"
      BY <2>0, <2>10 DEF Get, Receiving, Consuming, CallShapeAt, ChannelShapeAt, Owes
    <3>2. CASE Fetches(t)
      <4> DEFINE m == Head(ready[op[t].addr])
      <4>0. op[t].addr \in Queues /\ op[t].mode \in Modes
            /\ (op[t].mode = "Auto" \/ op[t].mode = "Manual")
        BY <3>1, OpTypes
      <4>1. /\ pc'[t] = "idle" /\ pushed'[t] = <<>> /\ wire'[t] = "none"
            /\ held'[t] = [msg |-> m, mode |-> op[t].mode, completed |-> FALSE]
            /\ unacked'[t] = Take(t, m) /\ chan[t] = "open"
            /\ chan'[t] = IF op[t].mode = "Manual" THEN "open" ELSE "none"
        BY <3>1, <3>2 DEF Fetches, Return, TypeOK
      <4>2. m \in Msgs
        BY <3>2, <4>0, HeadTailProperties DEF Fetches, TypeOK
      <4>3. unacked'[t] = IF op[t].mode = "Manual" THEN <<m>> ELSE <<>>
        BY <3>1, <4>0, <4>1, <4>2 DEF Take, NoAck
      <4>4. held'[t] \in Deliveries /\ held'[t] # NoMessage
        BY <4>0, <4>1, <4>2, MessageTypes, NoMessageAssumption
      <4> HIDE DEF m
      <4>5. held'[t].mode = op[t].mode /\ held'[t].msg = m
        BY <4>1
      <4>6. /\ ~Receiving(t)' /\ ~Consuming(t)' /\ pc'[t] # "get"
            /\ Owes(t)' <=> op[t].mode = "Manual"
        BY <4>1, <4>4, <4>5 DEF Receiving, Consuming, Owes
      <4> QED BY <4>0, <4>1, <4>3, <4>5, <4>6 DEF ChannelShapeAt
    <3> QED BY <2>10, <2>b, <3>1, <3>2, GetCases
  <2>c. ASSUME pc[t] \in {"loop", "wait"}, pc'[t] \in {"loop", "wait"}, op' = op,
               UNCHANGED <<recvVars, unacked>>
        PROVE  ChannelShapeAt(t)'
    <3>1. Receiving(t) /\ Receiving(t)' /\ Consuming(t) /\ Consuming(t)'
          /\ (Owes(t)' <=> Owes(t)) /\ pc'[t] # "get"
      BY <2>c DEF Receiving, Consuming, Owes, recvVars
    <3>2. /\ chan' = chan /\ pushed' = pushed /\ held' = held /\ wire' = wire
          /\ unacked' = unacked
      BY <2>c DEF recvVars
    <3> QED BY <2>0, <2>c, <3>1, <3>2 DEF ChannelShapeAt
  <2>11. CASE Loop(t)
    BY <2>b, <2>c, <2>11 DEF Loop, Goto, TypeOK, Receiving, brokerVars
  <2>12. CASE Wait(t)
    <3>1. Receiving(t) /\ Consuming(t) /\ op[t] \in ReceiveOps
      BY <2>0, <2>12 DEF Wait, Receiving, Consuming, CallShapeAt
    <3>2. CASE pushed[t] # <<>> /\ Deliver(t, Head(pushed[t]))
      <4> DEFINE m == Head(pushed[t])
      <4>0. op[t].mode \in Modes /\ (op[t].mode = "Auto" \/ op[t].mode = "Manual")
        BY <3>1, OpTypes
      <4>1. m \in Msgs
        BY <3>2, HeadTailProperties DEF TypeOK
      <4>2. /\ pc'[t] = "idle"
            /\ held'[t] = [msg |-> m, mode |-> op[t].mode, completed |-> FALSE]
        BY <3>2 DEF Deliver, Return, TypeOK
      <4>3. held'[t] \in Deliveries /\ held'[t] # NoMessage
        BY <4>0, <4>1, <4>2, MessageTypes, NoMessageAssumption
      <4>4. CASE op[t].mode = "Auto"
        <5>1. EndChannel(t) /\ held'[t].mode = "Auto"
          BY <3>2, <4>2, <4>4 DEF Deliver
        <5> QED BY <2>a, <4>2, <5>1
      <4>5. CASE op[t].mode = "Manual"
        <5>1. /\ pushed'[t] = <<>> /\ chan' = chan /\ wire' = wire /\ unacked' = unacked
          BY <3>2, <4>5 DEF Deliver, TypeOK
        <5>2. Len(pushed[t]) <= 1 /\ wire[t] = "none" /\ chan[t] # "none"
              /\ (chan[t] = "open" => unacked[t] = pushed[t])
          BY <2>0, <3>1, <4>5 DEF ChannelShapeAt, CallShapeAt, Owes
        <5>3. pushed[t] = <<m>>
          <6>1. pushed[t] \in Seq(Msgs) /\ pushed[t] # <<>>
            BY <3>2 DEF TypeOK
          <6> QED BY <5>2, <6>1, UnitSeq
        <5> HIDE DEF m
        <5>4. held'[t].mode = "Manual" /\ held'[t].msg = m /\ held'[t].completed = FALSE
          BY <4>2, <4>5
        <5>5. ~Receiving(t)' /\ ~Consuming(t)' /\ pc'[t] # "get" /\ Owes(t)'
          BY <4>2, <4>3, <5>4 DEF Receiving, Consuming, Owes
        <5>6. chan[t] # "open" => unacked[t] = <<>>
          BY <2>0 DEF ChannelShapeAt
        <5> QED BY <5>1, <5>2, <5>3, <5>4, <5>5, <5>6 DEF ChannelShapeAt
      <4> QED BY <4>0, <4>4, <4>5
    <3>3. CASE GiveUp(t, "Unavailable")
      BY <2>b, <3>1, <3>3
    <3>4. CASE Goto(t, "loop") /\ UNCHANGED <<recvVars, brokerVars>>
      BY <2>c, <2>12, <3>4 DEF Wait, Goto, TypeOK, brokerVars
    <3> QED BY <2>12, <3>2, <3>3, <3>4 DEF Wait
  <2> QED
    BY <1>2, <2>1, <2>2, <2>3, <2>4, <2>5, <2>6, <2>7, <2>8, <2>9, <2>10, <2>11, <2>12
       DEF ThreadStep, Step
<1> QED BY <1>1, <1>2 DEF AnyStep
-----------------------------------------------------------------------------
(* Messages.  What a step does to the broker's queues and channels is one  *)
(* of six moves.                                                           *)
Stays(t) ==
  accepted' = accepted /\ ready' = ready /\ unacked' = unacked
  /\ settled' = settled /\ autoTaken' = autoTaken

Puts(t) ==
  LET m == op[t].msg IN
  /\ pc[t] = "publish" /\ pc'[t] = "idle"
  /\ ready' = [ready EXCEPT ![m.to] = Append(@, m)]
  /\ accepted' \subseteq accepted \cup {m}
  /\ unacked' = unacked /\ settled' = settled /\ autoTaken' = autoTaken

Takes(t, q) ==
  /\ ready[q] # <<>>
  /\ ready' = [ready EXCEPT ![q] = Tail(@)]
  /\ accepted' = accepted /\ settled' = settled

Lends(t, q) ==
  /\ Takes(t, q)
  /\ unacked[t] = <<>> /\ unacked' = [unacked EXCEPT ![t] = <<Head(ready[q])>>]
  /\ autoTaken' = autoTaken

Gives(t, q) ==
  /\ Takes(t, q)
  /\ unacked' = unacked
  /\ autoTaken' = autoTaken \cup {Head(ready[q])}

Frees(t, m) ==
  /\ unacked[t] = <<m>> /\ unacked' = [unacked EXCEPT ![t] = <<>>]
  /\ accepted' = accepted /\ autoTaken' = autoTaken

Returns(t, m) ==
  /\ Frees(t, m)
  /\ ready' = [ready EXCEPT ![m.to] = <<m>> \o @] /\ settled' = settled

Settled(t, m) ==
  /\ Frees(t, m)
  /\ ready' = ready /\ settled' = settled \cup {m}

BrokerMove(t) ==
  \/ Stays(t) \/ Puts(t)
  \/ \E q \in Queues : Lends(t, q) \/ Gives(t, q)
  \/ \E m \in Msgs : Returns(t, m) \/ Settled(t, m)

LEMMA ChannelContents ==
  ASSUME TypeOK, CallShape, ChannelShape, NEW t \in Threads
  PROVE  unacked[t] = <<>> \/ \E m \in Msgs : unacked[t] = <<m>>
<1>1. ChannelShapeAt(t) /\ CallShapeAt(t)
  BY DEF ChannelShape, CallShape
<1>2. CASE chan[t] # "open"
  BY <1>1, <1>2 DEF ChannelShapeAt
<1>3. CASE chan[t] = "open" /\ Owes(t)
  <2>1. held[t].msg \in Msgs
    BY <1>3, MessageTypes DEF Owes, TypeOK
  <2> QED BY <1>1, <1>3, <2>1 DEF ChannelShapeAt
<1>4. CASE chan[t] = "open" /\ Receiving(t)
  <2>1. op[t] \in ReceiveOps
    BY <1>1, <1>4 DEF CallShapeAt
  <2>2. pc[t] = "get" \/ (Consuming(t) /\ (op[t].mode = "Auto" \/ op[t].mode = "Manual"))
    BY <1>4, <2>1, OpTypes DEF Receiving, Consuming
  <2>3. unacked[t] = <<>> \/ (Len(unacked[t]) <= 1 /\ unacked[t] \in Seq(Msgs))
    BY <1>1, <1>4, <2>2 DEF ChannelShapeAt, TypeOK
  <2> QED BY <2>3, UnitSeq
<1> QED BY <1>1, <1>2, <1>3, <1>4 DEF ChannelShapeAt

LEMMA RequeueMoves ==
  ASSUME TypeOK, CallShape, ChannelShape, NEW t \in Threads,
         ready' = Requeued(unacked[t]), unacked' = [unacked EXCEPT ![t] = <<>>],
         settled' = settled, accepted' = accepted, autoTaken' = autoTaken
  PROVE  BrokerMove(t)
<1>1. CASE unacked[t] = <<>>
  BY <1>1 DEF Requeued, BrokerMove, Stays, TypeOK
<1>2. ASSUME NEW m \in Msgs, unacked[t] = <<m>> PROVE BrokerMove(t)
  BY <1>2, ShortSeqs DEF Requeued, BrokerMove, Returns, Frees
<1> QED BY <1>1, <1>2, ChannelContents

LEMMA BrokerMoves ==
  ASSUME TypeOK, CallShape, ChannelShape, NEW t \in Threads, ThreadStep(t)
  PROVE  BrokerMove(t)
<1>0. ChannelShapeAt(t) /\ CallShapeAt(t)
  BY DEF ChannelShape, CallShape
<1>a. ASSUME NEW status, GiveUp(t, status), ~Owes(t), accepted' = accepted PROVE BrokerMove(t)
  <2>1. Settles(t) = {}
    BY <1>0, <1>a DEF ChannelShapeAt, Settles
  <2>2. settled' = settled /\ ready' = Requeued(unacked[t]) /\ autoTaken' = autoTaken
        /\ unacked' = [unacked EXCEPT ![t] = <<>>]
    BY <1>a, <2>1 DEF GiveUp, EndChannel
  <2> QED BY <1>a, <2>2, RequeueMoves
<1>b. ASSUME Receiving(t) PROVE ~Owes(t) /\ op[t].addr \in Queues
                                /\ (op[t].mode = "Auto" \/ op[t].mode = "Manual")
  BY <1>0, <1>b, OpTypes DEF CallShapeAt, Owes
<1>c. ASSUME UNCHANGED <<ready, unacked, settled, autoTaken, accepted>> PROVE BrokerMove(t)
  BY <1>c DEF BrokerMove, Stays
<1>1. CASE Push(t)
  <2> DEFINE q == op[t].addr
  <2>1. q \in Queues /\ Consuming(t) /\ Takes(t, q)
        /\ (op[t].mode = "Auto" \/ op[t].mode = "Manual")
    BY <1>1, <1>b DEF Push, Receiving, Consuming, Takes
  <2>2. CASE op[t].mode = "Auto"
    <3>1. unacked' = unacked /\ autoTaken' = autoTaken \cup {Head(ready[q])}
      BY <1>1, <2>2 DEF Push, Take, NoAck, AutoTaken, TypeOK
    <3> QED BY <2>1, <3>1 DEF BrokerMove, Gives
  <2>3. CASE op[t].mode = "Manual"
    <3>1. Len(unacked[t]) < 1
      BY <1>1, <2>3 DEF Push, NoAck, Prefetch
    <3>2. unacked[t] = <<>>
      BY <3>1, EmptySeq DEF TypeOK
    <3>3. Append(<<>>, Head(ready[q])) = <<Head(ready[q])>>
      OBVIOUS
    <3>4. unacked' = [unacked EXCEPT ![t] = <<Head(ready[q])>>] /\ autoTaken' = autoTaken
      BY <1>1, <2>3, <3>2, <3>3 DEF Push, Take, NoAck, AutoTaken
    <3> QED BY <2>1, <3>2, <3>4 DEF BrokerMove, Lends
  <2> QED BY <2>1, <2>2, <2>3
<1>2. CASE Settle(t)
  <2>1. Owes(t) /\ chan[t] = "open" /\ wire[t] # "none" /\ held[t].msg \in Msgs
    BY <1>0, <1>2, MessageTypes DEF Settle, ChannelShapeAt, Owes, TypeOK
  <2>2. PICK m \in Msgs : unacked[t] = <<m>>
    BY <1>0, <2>1 DEF ChannelShapeAt
  <2>3. First(t) = <<m>> /\ Others(t) = <<>>
    BY <2>2, ShortSeqs DEF First, Others
  <2>4. Frees(t, m)
    BY <1>2, <2>2, <2>3 DEF Settle, Frees
  <2>5. CASE wire[t] = "requeue"
    <3>1. settled' = settled /\ ready' = [ready EXCEPT ![m.to] = <<m>> \o @]
      BY <1>2, <2>3, <2>5, ShortSeqs DEF Settle, Settles, Requeued
    <3> QED BY <2>4, <3>1 DEF BrokerMove, Returns
  <2>6. CASE wire[t] # "requeue"
    <3>1. wire[t] \in {"ack", "reject"}
      BY <2>1, <2>6 DEF TypeOK
    <3>2. settled' = settled \cup {m} /\ ready' = ready
      BY <1>2, <2>3, <2>6, <3>1, ShortSeqs DEF Settle, Settles
    <3> QED BY <2>4, <3>2 DEF BrokerMove, Settled
  <2> QED BY <2>5, <2>6
<1>3. CASE Break(t)
  <2>1. /\ ready' = Requeued(unacked[t]) /\ unacked' = [unacked EXCEPT ![t] = <<>>]
        /\ settled' = settled /\ accepted' = accepted /\ autoTaken' = autoTaken
    BY <1>3 DEF Break, histVars
  <2> QED BY <2>1, RequeueMoves
<1>4. CASE Calls(t) \/ Counts(t)
  BY <1>4, <1>c DEF Calls, SendCall, ReceiveCall, Counts, brokerVars, histVars
<1>5. CASE \E frame \in {"ack", "requeue", "reject"} : Complete(t, frame)
  BY <1>5, <1>c DEF Complete, brokerVars, histVars
<1>6. CASE Discards(t)
  <2>1. /\ ready' = Requeued(Left(t)) /\ unacked' = [unacked EXCEPT ![t] = <<>>]
        /\ settled' = settled \cup Settles(t)
        /\ accepted' = accepted /\ autoTaken' = autoTaken
    BY <1>6 DEF Discards, EndChannel
  <2>2. CASE wire[t] \notin {"ack", "reject"}
    BY <2>1, <2>2, RequeueMoves DEF Left, Settles
  <2>3. CASE wire[t] \in {"ack", "reject"}
    <3>1. Owes(t) /\ chan[t] = "open" /\ wire[t] # "none" /\ held[t].msg \in Msgs
      BY <1>0, <2>3, MessageTypes DEF ChannelShapeAt, Owes, TypeOK
    <3>2. PICK m \in Msgs : unacked[t] = <<m>>
      BY <1>0, <3>1 DEF ChannelShapeAt
    <3>3. Settles(t) = {m} /\ Requeued(Left(t)) = ready
      BY <2>3, <3>2, ShortSeqs DEF Settles, Left, First, Others, Requeued
    <3> QED BY <2>1, <3>2, <3>3 DEF BrokerMove, Settled, Frees
  <2> QED BY <2>2, <2>3
<1>7. CASE SendLock(t) \/ Open(t)
  BY <1>7, <1>c DEF SendLock, Open, brokerVars, histVars
<1>8. CASE Publish(t)
  <2>1. pc[t] = "publish" /\ pc'[t] = "idle"
    BY <1>8 DEF Publish, Return, TypeOK
  <2>2. unacked' = unacked /\ settled' = settled /\ autoTaken' = autoTaken
    BY <1>8 DEF Publish
  <2>3. \/ accepted' = accepted /\ ready' = ready
        \/ /\ accepted' \subseteq accepted \cup {op[t].msg}
           /\ ready' = [ready EXCEPT ![op[t].msg.to] = Append(@, op[t].msg)]
    BY <1>8 DEF Publish
  <2> QED BY <2>1, <2>2, <2>3 DEF BrokerMove, Stays, Puts
<1>9. CASE Get(t)
  <2>1. Receiving(t) /\ pc[t] = "get" /\ accepted' = accepted
    BY <1>9 DEF Get, Receiving
  <2>2. CASE Fetches(t)
    <3> DEFINE q == op[t].addr
    <3>1. q \in Queues /\ Takes(t, q) /\ unacked[t] = <<>>
          /\ (op[t].mode = "Auto" \/ op[t].mode = "Manual")
      BY <1>0, <1>b, <2>1, <2>2 DEF Fetches, Takes, ChannelShapeAt
    <3>2. CASE op[t].mode = "Auto"
      <4>1. unacked' = unacked /\ autoTaken' = autoTaken \cup {Head(ready[q])}
        BY <2>2, <3>2 DEF Fetches, Take, NoAck, AutoTaken, TypeOK
      <4> QED BY <3>1, <4>1 DEF BrokerMove, Gives
    <3>3. CASE op[t].mode = "Manual"
      <4>1. Append(<<>>, Head(ready[q])) = <<Head(ready[q])>>
        OBVIOUS
      <4>2. unacked' = [unacked EXCEPT ![t] = <<Head(ready[q])>>] /\ autoTaken' = autoTaken
        BY <2>2, <3>1, <3>3, <4>1 DEF Fetches, Take, NoAck, AutoTaken
      <4> QED BY <3>1, <4>2 DEF BrokerMove, Lends
    <3> QED BY <3>1, <3>2, <3>3
  <2> QED BY <1>9, <1>a, <1>b, <2>1, <2>2, GetCases
<1>10. CASE Loop(t)
  BY <1>10, <1>a, <1>b, <1>c DEF Loop, Receiving, brokerVars
<1>11. CASE Wait(t)
  <2>1. Receiving(t) /\ Consuming(t) /\ accepted' = accepted
    BY <1>11 DEF Wait, Receiving, Consuming
  <2>2. CASE Deliver(t, Head(pushed[t]))
    <3>1. CASE op[t].mode = "Manual"
      BY <1>c, <2>1, <2>2, <3>1 DEF Deliver
    <3>2. CASE op[t].mode = "Auto"
      <4>1. Settles(t) = {}
        BY <1>0, <1>b, <2>1 DEF ChannelShapeAt, Settles
      <4>2. /\ ready' = Requeued(unacked[t]) /\ unacked' = [unacked EXCEPT ![t] = <<>>]
            /\ settled' = settled /\ autoTaken' = autoTaken
        BY <2>2, <3>2, <4>1 DEF Deliver, EndChannel
      <4> QED BY <2>1, <4>2, RequeueMoves
    <3> QED BY <1>b, <2>1, <3>1, <3>2
  <2> QED BY <1>11, <1>a, <1>b, <1>c, <2>1, <2>2 DEF Wait, recvVars, brokerVars
<1> QED
  BY <1>1, <1>2, <1>3, <1>4, <1>5, <1>6, <1>7, <1>8, <1>9, <1>10, <1>11 DEF ThreadStep, Step

(* What the broker has after a step: the same, one message more that it    *)
(* was just sent, or one less that it will not offer again.                *)
PoolMove(t) ==
  \/ /\ Pool' = Pool /\ accepted' = accepted
     /\ settled' = settled /\ autoTaken' = autoTaken
  \/ /\ pc[t] = "publish" /\ pc'[t] = "idle"
     /\ Pool' = Pool \cup {op[t].msg} /\ accepted' \subseteq accepted \cup {op[t].msg}
     /\ settled' = settled /\ autoTaken' = autoTaken
  \/ /\ accepted' = accepted
     /\ \E m \in Pool :
          /\ Pool' = Pool \ {m}
          /\ settled' \cup autoTaken' = settled \cup autoTaken \cup {m}

(* Placement of the queues and of the channels, each on its own. *)
QueuesApart ==
  \A q \in Queues : IsInjective(ready[q]) /\ \A m \in ToSet(ready[q]) : m.to = q
ChannelsApart ==
  \A t, u \in Threads : t # u => ToSet(unacked[t]) \cap ToSet(unacked[u]) = {}

LEMMA QueueMembers ==
  ASSUME TypeOK
  PROVE  /\ \A m : m \in InQueues <=> \E q \in Queues : m \in ToSet(ready[q])
         /\ \A m : m \in InChannels <=> \E t \in Threads : m \in ToSet(unacked[t])
         /\ QueuesApart => \A m \in InQueues : m \in ToSet(ready[m.to])
BY DEF InQueues, InChannels, QueuesApart

LEMMA PutContents ==
  ASSUME TypeOK, QueuesApart, NEW m \in Msgs, m \notin InQueues,
         \/ ready' = [ready EXCEPT ![m.to] = Append(@, m)]
         \/ ready' = [ready EXCEPT ![m.to] = <<m>> \o @]
  PROVE  InQueues' = InQueues \cup {m} /\ QueuesApart'
<1>1. m.to \in Queues /\ ready[m.to] \in Seq(Msgs) /\ ready \in [Queues -> Seq(Msgs)]
  BY MessageTypes DEF TypeOK
<1>2. m \notin ToSet(ready[m.to]) /\ IsInjective(ready[m.to])
      /\ \A n \in ToSet(ready[m.to]) : n.to = m.to
  BY <1>1 DEF InQueues, QueuesApart
<1>3. ToSet(ready'[m.to]) = ToSet(ready[m.to]) \cup {m} /\ IsInjective(ready'[m.to])
  <2>1. CASE ready' = [ready EXCEPT ![m.to] = Append(@, m)]
    <3>1. ready'[m.to] = Append(ready[m.to], m)
      BY <1>1, <2>1
    <3> QED BY <1>1, <1>2, <3>1, ToSetAppend
  <2>2. CASE ready' = [ready EXCEPT ![m.to] = <<m>> \o @]
    <3>1. ready'[m.to] = <<m>> \o ready[m.to]
      BY <1>1, <2>2
    <3> QED BY <1>1, <1>2, <3>1, ToSetCons
  <2> QED BY <2>1, <2>2
<1>4. \A q \in Queues : q # m.to => ready'[q] = ready[q]
  BY <1>1
<1>5. InQueues' = InQueues \cup {m}
  <2>1. \A q \in Queues : ToSet(ready[q]) \subseteq ToSet(ready'[q])
    BY <1>3, <1>4
  <2>2. \A q \in Queues : ToSet(ready'[q]) \subseteq ToSet(ready[q]) \cup {m}
    BY <1>3, <1>4
  <2>3. m \in ToSet(ready'[m.to])
    BY <1>3
  <2> QED BY <1>1, <2>1, <2>2, <2>3 DEF InQueues
<1>6. ASSUME NEW q \in Queues
      PROVE  IsInjective(ready'[q]) /\ \A n \in ToSet(ready'[q]) : n.to = q
  <2>1. CASE q = m.to
    BY <1>2, <1>3, <2>1
  <2>2. CASE q # m.to
    BY <1>4, <2>2 DEF QueuesApart
  <2> QED BY <2>1, <2>2
<1> QED BY <1>5, <1>6 DEF QueuesApart

LEMMA TakeContents ==
  ASSUME TypeOK, QueuesApart, NEW q \in Queues, ready[q] # <<>>,
         ready' = [ready EXCEPT ![q] = Tail(@)]
  PROVE  /\ Head(ready[q]) \in InQueues /\ Head(ready[q]) \in Msgs
         /\ InQueues' = InQueues \ {Head(ready[q])} /\ QueuesApart'
<1> DEFINE m == Head(ready[q])
<1>1. ready[q] \in Seq(Msgs) /\ ready \in [Queues -> Seq(Msgs)]
  BY DEF TypeOK
<1>2. ready'[q] = Tail(ready[q]) /\ \A p \in Queues : p # q => ready'[p] = ready[p]
  BY <1>1
<1>3. IsInjective(ready[q]) /\ \A n \in ToSet(ready[q]) : n.to = q
  BY DEF QueuesApart
<1>4. /\ m \in Msgs /\ ToSet(ready[q]) = ToSet(ready'[q]) \cup {m}
      /\ IsInjective(ready'[q]) /\ m \notin ToSet(ready'[q])
  BY <1>1, <1>2, <1>3, ToSetTail
<1> HIDE DEF m
<1>5. m \in InQueues /\ m.to = q
  BY <1>3, <1>4 DEF InQueues
<1>6. \A p \in Queues : p # q => m \notin ToSet(ready'[p])
  BY <1>2, <1>5 DEF QueuesApart
<1>7. InQueues' = InQueues \ {m}
  <2>1. ASSUME NEW n \in InQueues' PROVE n \in InQueues \ {m}
    <3>1. PICK p \in Queues : n \in ToSet(ready'[p])
      BY <2>1 DEF InQueues
    <3>2. n # m
      BY <1>4, <1>6, <3>1
    <3>3. n \in ToSet(ready[p])
      BY <1>2, <1>4, <3>1
    <3> QED BY <3>2, <3>3 DEF InQueues
  <2>2. ASSUME NEW n \in InQueues, n # m PROVE n \in InQueues'
    <3>1. PICK p \in Queues : n \in ToSet(ready[p])
      BY <2>2 DEF InQueues
    <3>2. n \in ToSet(ready'[p])
      BY <1>2, <1>4, <2>2, <3>1
    <3> QED BY <3>2 DEF InQueues
  <2> QED BY <2>1, <2>2
<1>8. ASSUME NEW p \in Queues
      PROVE  IsInjective(ready'[p]) /\ \A n \in ToSet(ready'[p]) : n.to = p
  <2>1. CASE p = q
    BY <1>3, <1>4, <2>1
  <2>2. CASE p # q
    BY <1>2, <2>2 DEF QueuesApart
  <2> QED BY <2>1, <2>2
<1> QED BY <1>4, <1>5, <1>7, <1>8 DEF QueuesApart, m

LEMMA LendContents ==
  ASSUME TypeOK, ChannelsApart, NEW t \in Threads, NEW m, m \notin InChannels,
         unacked[t] = <<>>, unacked' = [unacked EXCEPT ![t] = <<m>>]
  PROVE  InChannels' = InChannels \cup {m} /\ ChannelsApart'
<1>1. unacked'[t] = <<m>> /\ \A u \in Threads : u # t => unacked'[u] = unacked[u]
  BY DEF TypeOK
<1>2. ToSet(unacked'[t]) = {m} /\ ToSet(unacked[t]) = {}
      /\ \A u \in Threads : u # t => ToSet(unacked'[u]) = ToSet(unacked[u])
  BY <1>1, ShortSeqs
<1>3. InChannels' = InChannels \cup {m}
  BY <1>2 DEF InChannels
<1>4. \A u \in Threads : m \notin ToSet(unacked[u])
  BY DEF InChannels
<1> QED BY <1>2, <1>3, <1>4 DEF ChannelsApart

LEMMA FreeContents ==
  ASSUME TypeOK, ChannelsApart, NEW t \in Threads, NEW m,
         unacked[t] = <<m>>, unacked' = [unacked EXCEPT ![t] = <<>>]
  PROVE  m \in InChannels /\ InChannels' = InChannels \ {m} /\ ChannelsApart'
<1>1. unacked'[t] = <<>> /\ \A u \in Threads : u # t => unacked'[u] = unacked[u]
  BY DEF TypeOK
<1>2. ToSet(unacked'[t]) = {} /\ ToSet(unacked[t]) = {m}
      /\ \A u \in Threads : u # t => ToSet(unacked'[u]) = ToSet(unacked[u])
  BY <1>1, ShortSeqs
<1>3. \A u \in Threads : u # t => m \notin ToSet(unacked[u])
  BY <1>2 DEF ChannelsApart
<1>4. m \in InChannels /\ InChannels' = InChannels \ {m}
  BY <1>2, <1>3 DEF InChannels
<1> QED BY <1>2, <1>4 DEF ChannelsApart

LEMMA PlacementParts ==
  Placement <=> QueuesApart /\ ChannelsApart /\ InQueues \cap InChannels = {}
BY DEF Placement, QueuesApart, ChannelsApart

LEMMA MoveContents ==
  ASSUME TypeOK, CallShape, Placement, Fresh, NEW t \in Threads, BrokerMove(t)
  PROVE  PoolMove(t) /\ Placement'
<1>0. QueuesApart /\ ChannelsApart /\ InQueues \cap InChannels = {}
  BY PlacementParts
<1>a. ready' = ready => InQueues' = InQueues /\ QueuesApart'
  BY <1>0 DEF InQueues, QueuesApart
<1>b. unacked' = unacked => InChannels' = InChannels /\ ChannelsApart'
  BY <1>0 DEF InChannels, ChannelsApart
<1>c. ASSUME QueuesApart', ChannelsApart', InQueues' \cap InChannels' = {} PROVE Placement'
  BY <1>c DEF Placement, QueuesApart, ChannelsApart
<1>1. CASE Stays(t)
  BY <1>0, <1>a, <1>b, <1>c, <1>1 DEF Stays, PoolMove, Pool
<1>2. CASE Puts(t)
  <2> DEFINE m == op[t].msg
  <2>1. m \in Msgs /\ m.from = t /\ m.nr = calls[t] /\ Sending(t)
    BY <1>2, OpTypes DEF Puts, Sending, CallShape, CallShapeAt
  <2> HIDE DEF m
  <2>2. m \notin Pool
    <3>1. calls[t] \in Nat
      BY DEF TypeOK
    <3>2. m \in Pool => m.nr < calls[m.from]
      BY <2>1 DEF Fresh
    <3> QED BY <2>1, <3>1, <3>2
  <2> USE DEF m
  <2>3. InQueues' = InQueues \cup {m} /\ QueuesApart'
    BY <1>0, <1>2, <2>1, <2>2, PutContents DEF Puts, Pool
  <2>4. InChannels' = InChannels /\ ChannelsApart'
    BY <1>2, <1>b DEF Puts
  <2> QED BY <1>0, <1>2, <1>c, <2>2, <2>3, <2>4 DEF Puts, PoolMove, Pool
<1>3. ASSUME NEW q \in Queues, Lends(t, q) PROVE PoolMove(t) /\ Placement'
  <2> DEFINE m == Head(ready[q])
  <2>1. m \in InQueues /\ InQueues' = InQueues \ {m} /\ QueuesApart'
    BY <1>0, <1>3, TakeContents DEF Lends, Takes
  <2>2. InChannels' = InChannels \cup {m} /\ ChannelsApart'
    BY <1>0, <1>3, <2>1, LendContents DEF Lends
  <2> HIDE DEF m
  <2> QED BY <1>0, <1>3, <1>c, <2>1, <2>2 DEF Lends, Takes, PoolMove, Pool
<1>4. ASSUME NEW q \in Queues, Gives(t, q) PROVE PoolMove(t) /\ Placement'
  <2> DEFINE m == Head(ready[q])
  <2>1. m \in InQueues /\ InQueues' = InQueues \ {m} /\ QueuesApart'
    BY <1>0, <1>4, TakeContents DEF Gives, Takes
  <2>2. InChannels' = InChannels /\ ChannelsApart'
    BY <1>4, <1>b DEF Gives
  <2>3. accepted' = accepted /\ settled' = settled /\ autoTaken' = autoTaken \cup {m}
    BY <1>4 DEF Gives, Takes
  <2> HIDE DEF m
  <2>4. m \in Pool /\ Pool' = Pool \ {m}
    BY <1>0, <2>1, <2>2 DEF Pool
  <2> QED BY <1>0, <1>c, <2>1, <2>2, <2>3, <2>4 DEF PoolMove
<1>5. ASSUME NEW m \in Msgs, Returns(t, m) PROVE PoolMove(t) /\ Placement'
  <2>1. m \in InChannels /\ InChannels' = InChannels \ {m} /\ ChannelsApart'
    BY <1>0, <1>5, FreeContents DEF Returns, Frees
  <2>2. InQueues' = InQueues \cup {m} /\ QueuesApart'
    BY <1>0, <1>5, <2>1, PutContents DEF Returns
  <2> QED BY <1>0, <1>5, <1>c, <2>1, <2>2 DEF Returns, Frees, PoolMove, Pool
<1>6. ASSUME NEW m \in Msgs, Settled(t, m) PROVE PoolMove(t) /\ Placement'
  <2>1. m \in InChannels /\ InChannels' = InChannels \ {m} /\ ChannelsApart'
    BY <1>0, <1>6, FreeContents DEF Settled, Frees
  <2>2. InQueues' = InQueues /\ QueuesApart'
    BY <1>6, <1>a DEF Settled
  <2>3. m \in Pool /\ Pool' = Pool \ {m}
    BY <1>0, <2>1, <2>2 DEF Pool
  <2> QED BY <1>0, <1>6, <1>c, <2>1, <2>2, <2>3 DEF Settled, Frees, PoolMove
<1> QED BY <1>1, <1>2, <1>3, <1>4, <1>5, <1>6 DEF BrokerMove

LEMMA CallCounts ==
  ASSUME TypeOK, NEW t \in Threads, ThreadStep(t)
  PROVE  \/ calls'[t] = calls[t] /\ (Sending(t)' => Sending(t))
         \/ calls'[t] = calls[t] + 1
<1>0. ASSUME NEW status, GiveUp(t, status) PROVE ~Sending(t)'
  BY <1>0 DEF GiveUp, Return, Sending, TypeOK
<1>1. CASE Push(t) \/ Settle(t) \/ Break(t)
  BY <1>1 DEF Push, Settle, Break, callVars, Sending
<1>2. CASE Calls(t) \/ Counts(t)
  BY <1>2 DEF Calls, SendCall, ReceiveCall, Counts, TypeOK
<1>3. CASE \E frame \in {"ack", "requeue", "reject"} : Complete(t, frame)
  BY <1>3 DEF Complete, Return, Sending, TypeOK
<1>4. CASE Discards(t)
  BY <1>4 DEF Discards, Sending
<1>5. CASE SendLock(t) \/ Publish(t) \/ Open(t)
  BY <1>5 DEF SendLock, Publish, Open, Return, Goto, Sending, TypeOK
<1>6. CASE Get(t) \/ Loop(t)
  BY <1>0, <1>6 DEF Get, Loop, Return, Goto, Sending, TypeOK
<1>7. CASE Wait(t)
  BY <1>0, <1>7 DEF Wait, Deliver, Return, Goto, Sending, TypeOK
<1> QED
  BY <1>1, <1>2, <1>3, <1>4, <1>5, <1>6, <1>7 DEF ThreadStep, Step

LEMMA PoolTypes ==
  ASSUME TypeOK PROVE Pool \cup settled \cup autoTaken \subseteq Msgs
<1>1. ASSUME NEW s \in Seq(Msgs) PROVE ToSet(s) \subseteq Msgs
  BY LenProperties, ElementOfSeq DEF ToSet
<1>2. InQueues \subseteq Msgs /\ InChannels \subseteq Msgs
  BY <1>1 DEF InQueues, InChannels, TypeOK
<1> QED BY <1>2 DEF Pool, TypeOK

LEMMA NextFresh ==
  ASSUME TypeOK, CallShape, Placement, Fresh, NEW t \in Threads, ThreadStep(t), PoolMove(t)
  PROVE  Fresh'
<1> DEFINE Old == Pool \cup settled \cup autoTaken
<1>1. ASSUME NEW m \in Old
      PROVE  m.nr <= calls'[m.from] /\ (Sending(m.from)' => m.nr < calls'[m.from])
  <2>1. m \in Msgs
    BY <1>1, PoolTypes
  <2>2. /\ m.from \in Threads /\ m.nr \in Nat
        /\ m.nr <= calls[m.from] /\ (Sending(m.from) => m.nr < calls[m.from])
    BY <1>1, <2>1, MessageTypes DEF Fresh
  <2>3. calls[m.from] \in Nat
    BY <2>2 DEF TypeOK
  <2>4. \/ calls'[m.from] = calls[m.from] /\ (Sending(m.from)' => Sending(m.from))
        \/ calls'[m.from] = calls[m.from] + 1
    <3>1. CASE m.from = t
      BY <1>1, <3>1, CallCounts
    <3>2. CASE m.from # t
      <4>1. Untouched(m.from)
        BY <2>2, <3>2, Locality
      <4> QED BY <4>1 DEF Untouched, Sending
    <3> QED BY <3>1, <3>2
  <2> HIDE DEF Old
  <2>5. CASE calls'[m.from] = calls[m.from] + 1
    BY <2>2, <2>3, <2>5
  <2> QED BY <2>2, <2>3, <2>4, <2>5
<1>2. \/ Pool' \cup settled' \cup autoTaken' \subseteq Old
      \/ /\ pc[t] = "publish" /\ pc'[t] = "idle"
         /\ Pool' \cup settled' \cup autoTaken' \subseteq Old \cup {op[t].msg}
  BY DEF PoolMove
<1>3. ASSUME pc[t] = "publish", pc'[t] = "idle", NEW m, m = op[t].msg
      PROVE  m.nr <= calls'[m.from] /\ (Sending(m.from)' => m.nr < calls'[m.from])
  <2>1. m.from = t /\ m.nr = calls[t] /\ ~Sending(t)' /\ calls[t] \in Nat
    BY <1>3 DEF CallShape, CallShapeAt, Sending, TypeOK
  <2>2. calls'[t] = calls[t] \/ calls'[t] = calls[t] + 1
    BY CallCounts
  <2> QED BY <2>1, <2>2
<1> HIDE DEF Old
<1>4. ASSUME NEW m \in Pool' \cup settled' \cup autoTaken'
      PROVE  m.nr <= calls'[m.from] /\ (Sending(m.from)' => m.nr < calls'[m.from])
  <2>1. m \in Old \/ (pc[t] = "publish" /\ pc'[t] = "idle" /\ m = op[t].msg)
    BY <1>2
  <2> QED BY <1>1, <1>3, <2>1
<1> QED BY <1>4 DEF Fresh

LEMMA NextNothingLost ==
  ASSUME NothingLost, NEW t \in Threads, PoolMove(t), autoTaken \subseteq autoTaken',
         settled \subseteq settled'
  PROVE  NothingLost'
<1>1. accepted \subseteq Pool \cup settled \cup autoTaken
  BY DEF NothingLost, Pool
<1>2. accepted' \subseteq Pool' \cup settled' \cup autoTaken'
  BY <1>1 DEF PoolMove
<1> QED BY <1>2 DEF NothingLost, Pool

(* What a step does to the messages that mode Auto takes and returns. *)
AutoMove(t) ==
  \/ /\ returned' = returned
     /\ AutoWaits(t)' =>
          \/ pushed'[t] = <<>>
          \/ AutoWaits(t) /\ pushed'[t] = pushed[t]
          \/ /\ AutoWaits(t)
             /\ \E m \in InQueues :
                  autoTaken' = autoTaken \cup {m} /\ ToSet(pushed'[t]) = ToSet(pushed[t]) \cup {m}
  \/ /\ ~AutoWaits(t)'
     /\ \E m :
          /\ returned' = returned \cup {m}
          /\ \/ AutoWaits(t) /\ m \in ToSet(pushed[t]) /\ autoTaken' = autoTaken
             \/ m \in InQueues /\ autoTaken' = autoTaken \cup {m}

LEMMA AutoMoves ==
  ASSUME TypeOK, CallShape, ChannelShape, NEW t \in Threads, ThreadStep(t)
  PROVE  AutoMove(t)
<1>0. ChannelShapeAt(t) /\ CallShapeAt(t)
  BY DEF ChannelShape, CallShape
<1>a. ASSUME NEW status, GiveUp(t, status) PROVE AutoMove(t)
  BY <1>a DEF GiveUp, Return, TypeOK, AutoMove, AutoWaits, Consuming
<1>b. ASSUME returned' = returned, ~AutoWaits(t)' PROVE AutoMove(t)
  BY <1>b DEF AutoMove
<1>c. ASSUME returned' = returned, AutoWaits(t)' => AutoWaits(t), pushed'[t] = pushed[t]
      PROVE AutoMove(t)
  BY <1>c DEF AutoMove
<1>d. ASSUME Receiving(t) PROVE op[t].addr \in Queues /\ op[t] \in ReceiveOps
                                /\ (op[t].mode = "Auto" \/ op[t].mode = "Manual")
  BY <1>0, <1>d, OpTypes DEF CallShapeAt
<1>1. CASE Push(t)
  <2> DEFINE q == op[t].addr
             m == Head(ready[q])
  <2>1. Consuming(t) /\ q \in Queues /\ returned' = returned /\ pc' = pc /\ op' = op
    BY <1>1, <1>d DEF Push, Receiving, Consuming, callVars
  <2>2. CASE op[t].mode # "Auto"
    BY <1>b, <2>1, <2>2 DEF AutoWaits
  <2>3. CASE op[t].mode = "Auto"
    <3>1. autoTaken' = autoTaken \cup {m} /\ pushed'[t] = Append(pushed[t], m)
          /\ ready[q] # <<>>
      BY <1>1, <2>3 DEF Push, AutoTaken, TypeOK
    <3>2. ready[q] \in Seq(Msgs) /\ pushed[t] \in Seq(Msgs)
      BY <2>1 DEF TypeOK
    <3>3. m \in Msgs /\ m \in ToSet(ready[q])
      BY <3>1, <3>2, ToSetTail
    <3>4. m \in InQueues
      BY <2>1, <3>3 DEF InQueues
    <3>5. ToSet(pushed'[t]) = ToSet(pushed[t]) \cup {m}
      BY <3>1, <3>2, <3>3, ToSetAppend
    <3> HIDE DEF q, m
    <3> QED BY <2>1, <2>3, <3>1, <3>4, <3>5 DEF AutoMove, AutoWaits
  <2> QED BY <2>2, <2>3
<1>2. CASE Settle(t) \/ Break(t)
  BY <1>2, <1>c DEF Settle, Break, callVars, histVars, AutoWaits, Consuming
<1>3. CASE Calls(t)
  <2>1. returned' = returned /\ pc'[t] \in {"idle", "lock", "open"}
    BY <1>3 DEF Calls, SendCall, ReceiveCall, Return, Goto, TypeOK, histVars
  <2> QED BY <1>b, <2>1 DEF AutoWaits, Consuming
<1>4. CASE Counts(t)
  BY <1>4, <1>c DEF Counts, recvVars, histVars, AutoWaits, Consuming
<1>5. CASE \E frame \in {"ack", "requeue", "reject"} : Complete(t, frame)
  BY <1>5, <1>c DEF Complete, Return, TypeOK, histVars, AutoWaits, Consuming
<1>6. CASE Discards(t)
  BY <1>6, <1>b DEF Discards, AutoWaits, Consuming
<1>7. CASE SendLock(t) \/ Publish(t)
  <2>1. returned' = returned /\ pc'[t] \in {"idle", "publish"}
    BY <1>7 DEF SendLock, Publish, Return, Goto, TypeOK, histVars
  <2> QED BY <1>b, <2>1 DEF AutoWaits, Consuming
<1>8. CASE Open(t)
  <2>1. ~Consuming(t) /\ returned' = returned /\ pushed'[t] = pushed[t]
    BY <1>8 DEF Open, histVars, Consuming
  <2>2. pushed'[t] = <<>>
    BY <1>0, <2>1 DEF ChannelShapeAt
  <2> QED BY <2>1, <2>2 DEF AutoMove
<1>9. CASE Get(t)
  <2>1. Receiving(t)
    BY <1>9 DEF Get, Receiving
  <2>2. CASE Fetches(t)
    <3> DEFINE q == op[t].addr
               m == Head(ready[q])
    <3>1. q \in Queues /\ ready[q] # <<>> /\ ready[q] \in Seq(Msgs)
      BY <1>d, <2>1, <2>2 DEF Fetches, TypeOK
    <3>2. m \in InQueues
      BY <3>1, ToSetTail DEF InQueues
    <3>3. ~AutoWaits(t)'
      BY <2>2 DEF Fetches, Return, AutoWaits, Consuming, TypeOK
    <3>4. CASE op[t].mode = "Auto"
      <4>1. returned' = returned \cup {m} /\ autoTaken' = autoTaken \cup {m}
        BY <2>2, <3>4 DEF Fetches, AutoTaken
      <4> HIDE DEF m
      <4> QED BY <3>2, <3>3, <4>1 DEF AutoMove
    <3>5. CASE op[t].mode # "Auto"
      BY <1>b, <2>2, <3>3, <3>5 DEF Fetches
    <3> QED BY <3>4, <3>5
  <2> QED BY <1>9, <1>a, <2>2, GetCases
<1>10. CASE Loop(t)
  BY <1>10, <1>a, <1>c DEF Loop, Goto, TypeOK, AutoWaits, Consuming, recvVars
<1>11. CASE Wait(t)
  <2>1. CASE pushed[t] # <<>> /\ Deliver(t, Head(pushed[t]))
    <3>1. ~AutoWaits(t)' /\ Consuming(t) /\ autoTaken' = autoTaken
      BY <1>11, <2>1 DEF Wait, Deliver, Return, AutoWaits, Consuming, TypeOK
    <3>2. CASE op[t].mode = "Auto"
      <4>1. returned' = returned \cup {Head(pushed[t])}
        BY <2>1, <3>2 DEF Deliver
      <4>2. Head(pushed[t]) \in ToSet(pushed[t])
        BY <2>1, ToSetTail DEF TypeOK
      <4> QED BY <3>1, <3>2, <4>1, <4>2 DEF AutoMove, AutoWaits
    <3>3. CASE op[t].mode # "Auto"
      BY <1>b, <2>1, <3>1, <3>3 DEF Deliver
    <3> QED BY <3>2, <3>3
  <2>2. CASE GiveUp(t, "Unavailable")
    BY <1>a, <2>2
  <2>3. CASE Goto(t, "loop") /\ UNCHANGED <<recvVars, brokerVars, settled, autoTaken, returned>>
    BY <1>11, <1>c, <2>3 DEF Wait, Goto, TypeOK, AutoWaits, Consuming, recvVars
  <2> QED BY <1>11, <2>1, <2>2, <2>3 DEF Wait
<1> QED
  BY <1>1, <1>2, <1>3, <1>4, <1>5, <1>6, <1>7, <1>8, <1>9, <1>10, <1>11 DEF ThreadStep, Step

LEMMA NextGoneForGood ==
  ASSUME TypeOK, CallShape, Fresh, GoneForGood, NEW t \in Threads, ThreadStep(t),
         PoolMove(t), AutoMove(t), autoTaken \subseteq autoTaken'
  PROVE  GoneForGood'
<1>1. (settled' \cup autoTaken') \cap Pool' = {}
  <2>0. (settled \cup autoTaken) \cap Pool = {}
    BY DEF GoneForGood
  <2>1. CASE pc[t] = "publish" /\ Pool' = Pool \cup {op[t].msg} /\ settled' = settled
             /\ autoTaken' = autoTaken
    <3> DEFINE m == op[t].msg
    <3>1. m.from = t /\ m.nr = calls[t] /\ Sending(t)
      BY <2>1 DEF Sending, CallShape, CallShapeAt
    <3> HIDE DEF m
    <3>2. calls[t] \in Nat
      BY DEF TypeOK
    <3>3. m \in settled \cup autoTaken => m.nr < calls[m.from]
      BY <3>1 DEF Fresh
    <3>4. m \notin settled \cup autoTaken
      BY <3>1, <3>2, <3>3
    <3> QED BY <2>0, <2>1, <3>4 DEF m
  <2> QED BY <2>0, <2>1 DEF PoolMove
<1>2. /\ returned \subseteq autoTaken
      /\ \A u \in Threads : AutoWaits(u) => ToSet(pushed[u]) \subseteq autoTaken \ returned
      /\ \A u, v \in Threads :
           u # v /\ AutoWaits(u) /\ AutoWaits(v) => ToSet(pushed[u]) \cap ToSet(pushed[v]) = {}
      /\ InQueues \cap autoTaken = {}
  BY DEF GoneForGood, Pool
<1>3. \A u \in Threads : u # t => (AutoWaits(u)' <=> AutoWaits(u)) /\ pushed'[u] = pushed[u]
  BY Locality DEF Untouched, AutoWaits, Consuming
<1>4. returned' \subseteq autoTaken'
  BY <1>2 DEF AutoMove
<1>5. ASSUME NEW u \in Threads, AutoWaits(u)' PROVE ToSet(pushed'[u]) \subseteq autoTaken' \ returned'
  <2>1. CASE u # t
    <3>1. ToSet(pushed'[u]) \subseteq autoTaken \ returned /\ AutoWaits(u)
      BY <1>2, <1>3, <1>5, <2>1
    <3>2. returned' = returned \/ \E m : returned' = returned \cup {m}
            /\ (m \in InQueues \/ (AutoWaits(t) /\ m \in ToSet(pushed[t])))
      BY DEF AutoMove
    <3>3. ASSUME AutoWaits(t) PROVE ToSet(pushed[t]) \cap ToSet(pushed'[u]) = {}
      BY <1>2, <1>3, <2>1, <3>1, <3>3
    <3> QED BY <1>2, <3>1, <3>2, <3>3
  <2>2. CASE u = t
    <3>1. returned' = returned
      BY <1>5, <2>2 DEF AutoMove
    <3>2. \/ pushed'[t] = <<>>
          \/ AutoWaits(t) /\ pushed'[t] = pushed[t]
          \/ AutoWaits(t) /\ \E m \in InQueues :
               autoTaken' = autoTaken \cup {m} /\ ToSet(pushed'[t]) = ToSet(pushed[t]) \cup {m}
      BY <1>5, <2>2 DEF AutoMove
    <3> QED BY <1>2, <2>2, <3>1, <3>2, ShortSeqs
  <2> QED BY <2>1, <2>2
<1>6. ASSUME NEW u \in Threads, u # t, AutoWaits(t)', AutoWaits(u)'
      PROVE  ToSet(pushed'[t]) \cap ToSet(pushed'[u]) = {}
  <2>1. ToSet(pushed'[u]) \subseteq autoTaken /\ pushed'[u] = pushed[u] /\ AutoWaits(u)
    BY <1>2, <1>3, <1>6
  <2>2. \/ pushed'[t] = <<>>
        \/ AutoWaits(t) /\ pushed'[t] = pushed[t]
        \/ AutoWaits(t) /\ \E m \in InQueues : ToSet(pushed'[t]) = ToSet(pushed[t]) \cup {m}
    BY <1>6 DEF AutoMove
  <2>3. AutoWaits(t) => ToSet(pushed[t]) \cap ToSet(pushed'[u]) = {}
    BY <1>2, <1>6, <2>1
  <2> QED BY <1>2, <2>1, <2>2, <2>3, ShortSeqs
<1>7. \A u, v \in Threads :
        u # v /\ AutoWaits(u)' /\ AutoWaits(v)' => ToSet(pushed'[u]) \cap ToSet(pushed'[v]) = {}
  <2> SUFFICES ASSUME NEW u \in Threads, NEW v \in Threads, u # v, AutoWaits(u)', AutoWaits(v)'
               PROVE  ToSet(pushed'[u]) \cap ToSet(pushed'[v]) = {}
    OBVIOUS
  <2>1. CASE u = t
    BY <1>6, <2>1
  <2>2. CASE v = t
    BY <1>6, <2>2
  <2>3. CASE u # t /\ v # t
    BY <1>2, <1>3, <2>3
  <2> QED BY <2>1, <2>2, <2>3
<1> QED BY <1>1, <1>4, <1>5, <1>7 DEF GoneForGood
-----------------------------------------------------------------------------
(* The inductive invariant. *)

LEMMA InitInv == Init => Inv
<1> SUFFICES ASSUME Init PROVE Inv
  OBVIOUS
<1>1. <<>> \in Seq(Msgs) /\ ToSet(<<>>) = {} /\ Len(<<>>) = 0
  BY ShortSeqs
<1>2. TypeOK
  <2>1. CallTypes
    <3>1. 0 \in 0 .. MaxCalls /\ 0 \in 0 .. MaxFaults
      BY RabbitAssumption
    <3>2. op \in [Threads -> SendOps \cup ReceiveOps \cup {[kind |-> "none"]}]
      BY DEF Init
    <3>3. pc \in [Threads -> {"idle", "lock", "publish", "open", "get", "loop", "wait"}]
          /\ res \in [Threads -> Statuses] /\ stopped \in BOOLEAN
      BY DEF Init, Statuses
    <3>4. calls \in [Threads -> 0 .. MaxCalls] /\ faults \in 0 .. MaxFaults
      BY <3>1 DEF Init
    <3> QED BY <3>2, <3>3, <3>4 DEF CallTypes
  <2>2. SendTypes
    BY RabbitAssumption DEF Init, SendTypes, Links
  <2>3. ReceiveTypes
    BY <1>1 DEF Init, ReceiveTypes, Links
  <2>4. QueueTypes
    BY <1>1 DEF Init, QueueTypes
  <2> QED BY <2>1, <2>2, <2>3, <2>4, TypeParts
<1>3. CallShape /\ ChannelShape
  <2>1. ASSUME NEW t \in Threads
        PROVE  /\ pc[t] = "idle" /\ held[t] = NoMessage /\ chan[t] = "none"
               /\ pushed[t] = <<>> /\ unacked[t] = <<>> /\ wire[t] = "none"
    BY <2>1 DEF Init
  <2>2. ASSUME NEW t \in Threads PROVE CallShapeAt(t) /\ ChannelShapeAt(t)
    BY <2>1 DEF CallShapeAt, ChannelShapeAt, Sending, Receiving, Consuming, Owes
  <2> QED BY <2>2 DEF CallShape, ChannelShape
<1>4. InQueues = {} /\ InChannels = {}
  BY <1>1 DEF Init, InQueues, InChannels
<1>5. Placement
  BY <1>1, <1>4 DEF Init, Placement, IsInjective
<1>6. Fresh
  BY <1>4 DEF Init, Fresh, Pool
<1>7. GoneForGood
  BY <1>1, <1>4 DEF Init, GoneForGood, Pool, AutoWaits, Consuming
<1>8. NothingLost
  BY DEF Init, NothingLost
<1> QED BY <1>2, <1>3, <1>5, <1>6, <1>7, <1>8 DEF Inv

LEMMA StepInv == ASSUME Inv, AnyStep PROVE Inv'
<1> USE DEF Inv
<1>1. TypeOK' /\ CallShape' /\ ChannelShape'
  BY NextTypeOK, NextCallShape, NextChannelShape
<1>2. CASE OtherStep
  <2>1. /\ ready' = ready /\ unacked' = unacked /\ pc' = pc /\ op' = op /\ calls' = calls
        /\ pushed' = pushed /\ UNCHANGED histVars
    BY <1>2 DEF OtherStep, Shutdown, BreakSend, callVars, recvVars, brokerVars, vars
  <2>2. Pool' = Pool /\ InQueues' = InQueues /\ InChannels' = InChannels
    BY <2>1 DEF Pool, InQueues, InChannels
  <2>3. Placement' /\ NothingLost'
    BY <2>1, <2>2 DEF Placement, NothingLost, histVars
  <2>4. Fresh'
    BY <2>1, <2>2 DEF Fresh, Sending, histVars
  <2>5. GoneForGood'
    BY <2>1, <2>2 DEF GoneForGood, AutoWaits, Consuming, histVars
  <2> QED BY <1>1, <2>3, <2>4, <2>5
<1>3. ASSUME NEW t \in Threads, ThreadStep(t) PROVE Inv'
  <2>1. BrokerMove(t) /\ AutoMove(t)
    BY <1>3, BrokerMoves, AutoMoves
  <2>2. PoolMove(t) /\ Placement'
    BY <2>1, MoveContents
  <2>3. autoTaken \subseteq autoTaken' /\ settled \subseteq settled'
    BY <2>1 DEF BrokerMove, Stays, Puts, Lends, Gives, Takes, Returns, Settled, Frees
  <2>4. Fresh'
    BY <1>3, <2>2, NextFresh
  <2>5. GoneForGood'
    BY <1>3, <2>1, <2>2, <2>3, NextGoneForGood
  <2>6. NothingLost'
    BY <2>2, <2>3, NextNothingLost
  <2> QED BY <1>1, <2>2, <2>4, <2>5, <2>6
<1> QED BY <1>2, <1>3 DEF AnyStep

LEMMA InvExclusive == Inv => ExclusiveDelivery
<1> SUFFICES ASSUME Inv, NEW t \in Threads, held[t] # NoMessage, held[t].mode = "Manual",
                    ~held[t].completed, chan[t] # "broken"
             PROVE  /\ held[t].msg \in ToSet(unacked[t])
                    /\ held[t].msg \notin InQueues
                    /\ \A u \in Threads \ {t} : held[t].msg \notin ToSet(unacked[u])
  BY DEF ExclusiveDelivery
<1>1. Owes(t) /\ chan[t] = "open"
  BY DEF Inv, Owes, ChannelShape, ChannelShapeAt, TypeOK, Links
<1>2. unacked[t] = <<held[t].msg>>
  BY <1>1 DEF Inv, ChannelShape, ChannelShapeAt
<1>3. held[t].msg \in ToSet(unacked[t])
  BY <1>2, ShortSeqs
<1> QED BY <1>3 DEF Inv, Placement, InChannels

LEMMA InvSettledOnce == Inv => SettledOnce
<1> SUFFICES ASSUME Inv, NEW t \in Threads, wire[t] # "none"
             PROVE  held[t].msg \in ToSet(unacked[t])
  BY DEF SettledOnce
<1>1. unacked[t] = <<held[t].msg>>
  BY DEF Inv, ChannelShape, ChannelShapeAt
<1> QED BY <1>1, ShortSeqs

LEMMA InvOneMessage == Inv => OneMessagePerCall
<1> SUFFICES ASSUME Inv, NEW t \in Threads, pc[t] \in {"loop", "wait"}, op[t].mode = "Manual"
             PROVE  Cardinality(ToSet(pushed[t]) \cup ToSet(unacked[t])) <= 1
  BY DEF OneMessagePerCall
<1>1. Len(pushed[t]) <= 1 /\ (unacked[t] = pushed[t] \/ unacked[t] = <<>>)
  BY DEF Inv, ChannelShape, ChannelShapeAt, Consuming
<1>2. pushed[t] = <<>> \/ pushed[t] = <<Head(pushed[t])>>
  BY <1>1, UnitSeq DEF Inv, TypeOK
<1>3. Cardinality({}) = 0 /\ \A m : Cardinality({m}) = 1
  BY FS_EmptySet, FS_Singleton
<1> DEFINE S == ToSet(pushed[t]) \cup ToSet(unacked[t])
           m == Head(pushed[t])
<1>4. CASE pushed[t] = <<>>
  <2>1. S = {}
    BY <1>1, <1>4, ShortSeqs
  <2> QED BY <1>3, <2>1
<1>5. CASE pushed[t] = <<m>>
  <2>1. ToSet(pushed[t]) = {m} /\ (ToSet(unacked[t]) = {} \/ ToSet(unacked[t]) = {m})
    BY <1>1, <1>5, ShortSeqs
  <2>2. S = {m}
    BY <2>1
  <2> HIDE DEF S, m
  <2>3. Cardinality(S) = 1
    BY <1>3, <2>2
  <2> QED BY <2>3 DEF S
<1> QED BY <1>2, <1>4, <1>5

LEMMA InvAutoOnce == Inv => AutoAtMostOnce
BY DEF Inv, GoneForGood, AutoAtMostOnce, AutoWaits, Consuming, Pool

(* In every behaviour of the transport and the broker the invariant holds. *)
THEOREM InvHolds == Spec => []Inv
<1>1. Inv /\ [Next]_vars => Inv'
  BY NextIsAnyStep, StepInv DEF Inv
<1> QED BY <1>1, InitInv, PTL DEF Spec

(* What the broker dropped, because it was acknowledged or rejected        *)
(* (BasicAck, BasicReject) or because no_ack needs no acknowledgment, is   *)
(* on no queue and on no channel.                                          *)
NeverAgain == (settled \cup autoTaken) \cap (InQueues \cup InChannels) = {}

(* A message whose acknowledgment or rejection the broker has read is      *)
(* never delivered again, whatever breaks, closes or is shut down later:   *)
(* requeueing (BasicReject with requeue, the end of a channel) only        *)
(* concerns what is still unacknowledged.                                  *)
THEOREM SettledStaysGone == Spec => []NeverAgain /\ [][settled \subseteq settled']_vars
<1>1. Inv => NeverAgain
  BY DEF Inv, GoneForGood, NeverAgain, Pool
<1>2. Inv /\ [Next]_vars => [settled \subseteq settled']_vars
  <2> SUFFICES ASSUME Inv, AnyStep PROVE settled \subseteq settled'
    BY NextIsAnyStep DEF Inv
  <2>1. CASE OtherStep
    BY <2>1 DEF OtherStep, Shutdown, BreakSend, histVars, vars
  <2>2. ASSUME NEW t \in Threads, ThreadStep(t) PROVE settled \subseteq settled'
    <3>1. BrokerMove(t)
      BY <2>2, BrokerMoves DEF Inv
    <3> QED BY <3>1 DEF BrokerMove, Stays, Puts, Lends, Gives, Takes, Returns, Settled, Frees
  <2> QED BY <2>1, <2>2 DEF AnyStep
<1> QED BY <1>1, <1>2, InvHolds, PTL DEF Spec

(* The transport alone, driven by any callers: the type invariant with     *)
(* send_mu around BasicPublish, no accepted message lost, a Message's      *)
(* delivery exclusive while its AckState can complete it, one completion   *)
(* per delivery, one message per call in mode Manual, and at most one      *)
(* return of a message in mode Auto.                                       *)
THEOREM TransportSafe ==
  Spec => [](/\ TypeOK /\ NothingLost /\ ExclusiveDelivery
             /\ SettledOnce /\ OneMessagePerCall /\ AutoAtMostOnce)
<1>1. Inv => /\ TypeOK /\ NothingLost /\ ExclusiveDelivery
             /\ SettledOnce /\ OneMessagePerCall /\ AutoAtMostOnce
  BY InvExclusive, InvSettledOnce, InvOneMessage, InvAutoOnce DEF Inv
<1> QED BY <1>1, InvHolds, PTL
=============================================================================
