-------------------------- MODULE Messenger_proofs --------------------------
(***************************************************************************)
(* Proofs about Messenger over the RabbitMQ transport.  Its steps are      *)
(* steps of the transport as far as the transport's variables go, so the   *)
(* transport's inductive invariant holds; Decoded adds what the Messenger  *)
(* knows about the Messages it hands out.                                  *)
(***************************************************************************)
EXTENDS Messenger, RabbitMqTransport_proofs

(* A call of the Messenger has no acknowledgment on the wire, every        *)
(* receive() of the transport is inside such a call, and the Message of a  *)
(* thread outside one can be decoded.                                      *)
DecodedAt(t) ==
  /\ typed[t] # "none" => wire[t] = "none"
  /\ Receiving(t) \/ pc[t] = "open" => typed[t] # "none"
  /\ typed[t] = "none" /\ held[t] # NoMessage => held[t].msg \notin Undecodable
Decoded ==
  /\ typed \in [Threads -> {"none", "receive", "receiveExtended"}]
  /\ payloads \subseteq Msgs
  /\ \A t \in Threads : DecodedAt(t)
  /\ settled \cap Undecodable = {}

(* The inductive invariant. *)
MInv == Inv /\ Decoded
-----------------------------------------------------------------------------
(* The steps of the Messenger by thread. *)
MThreadStep(t) ==
  \/ (Push(t) \/ Settle(t) \/ Break(t)) /\ UNCHANGED <<typed, payloads>>
  \/ TypedCalls(t)
  \/ Decode(t)
  \/ Caller(t) /\ Uses(t) /\ UNCHANGED <<typed, payloads>>
  \/ Step(t) /\ UNCHANGED <<typed, payloads>>

LEMMA MNextCases ==
  ASSUME [MNext]_mvars
  PROVE  \/ OtherStep /\ UNCHANGED <<typed, payloads>>
         \/ \E t \in Threads : MThreadStep(t)
BY DEF MNext, Environment, mvars, OtherStep, MThreadStep

LEMMA UseIsThreadStep == ASSUME TypeOK, NEW t \in Threads, Uses(t) PROVE ThreadStep(t)
<1>1. ASSUME Drop(t) PROVE Discards(t)
  BY <1>1 DEF Drop, Discards, TypeOK, callVars
<1> QED BY <1>1 DEF Uses, ThreadStep

LEMMA DiscardIsDiscards ==
  ASSUME TypeOK, NEW t \in Threads, NEW status \in Statuses, pc[t] = "idle",
         held[t] # NoMessage, Discard(t, status)
  PROVE  Discards(t)
BY DEF Discard, Discards, TypeOK

LEMMA MThreadStepIsStep ==
  ASSUME TypeOK, NEW t \in Threads, MThreadStep(t)
  PROVE  ThreadStep(t) \/ UNCHANGED vars
<1>1. CASE TypedCalls(t)
  <2>1. CASE \E encodable, confirm \in BOOLEAN, a \in Queues \cup {NoName} :
               SendTyped(t, encodable, a, confirm)
    <3>1. PICK encodable \in BOOLEAN, confirm \in BOOLEAN, a \in Queues \cup {NoName} :
            SendTyped(t, encodable, a, confirm)
      BY <2>1
    <3>2. CASE encodable
      BY <3>1, <3>2 DEF SendTyped, ThreadStep, Calls
    <3>3. CASE ~encodable
      <4>1. res' \in [Threads -> Statuses]
        BY <3>1, <3>3 DEF SendTyped, TypeOK, Statuses
      <4>2. Counts(t)
        BY <3>1, <3>3, <4>1 DEF SendTyped, Counts, Idle, Caller
      <4> QED BY <4>2 DEF ThreadStep
    <3> QED BY <3>2, <3>3
  <2>2. CASE \E kind \in {"receive", "receiveExtended"}, a \in Queues \cup {NoName},
               policy \in Policies, mode \in Modes : ReceiveTyped(t, kind, a, policy, mode)
    BY <2>2 DEF ReceiveTyped, ThreadStep, Calls
  <2> QED BY <1>1, <2>1, <2>2 DEF TypedCalls
<1>2. CASE Decode(t)
  <2>1. pc[t] = "idle" /\ (held[t] = NoMessage => UNCHANGED vars)
    BY <1>2 DEF Decode
  <2>2. \/ UNCHANGED vars
        \/ held[t] # NoMessage /\ \E status \in Statuses : Discard(t, status)
    BY <1>2 DEF Decode, Statuses
  <2> QED BY <2>1, <2>2, DiscardIsDiscards DEF ThreadStep
<1>3. CASE Caller(t) /\ Uses(t)
  BY <1>3, UseIsThreadStep
<1> QED BY <1>1, <1>2, <1>3 DEF MThreadStep, ThreadStep

LEMMA MNextIsAnyStep == ASSUME TypeOK, [MNext]_mvars PROVE AnyStep
BY MNextCases, MThreadStepIsStep DEF AnyStep, OtherStep

LEMMA MOthers ==
  ASSUME Inv, Decoded, NEW t \in Threads, MThreadStep(t), NEW u \in Threads \ {t}
  PROVE  DecodedAt(u)'
<1>1. typed'[u] = typed[u]
  BY DEF MThreadStep, TypedCalls, SendTyped, ReceiveTyped, Decode, Decoded
<1>2. pc'[u] = pc[u] /\ held'[u] = held[u] /\ wire'[u] = wire[u]
  <2>1. CASE ThreadStep(t)
    BY <2>1, Locality DEF Untouched, Inv
  <2>2. CASE UNCHANGED vars
    BY <2>2 DEF vars, callVars, recvVars
  <2> QED BY <2>1, <2>2, MThreadStepIsStep DEF Inv
<1>3. DecodedAt(u)
  BY DEF Decoded
<1> QED BY <1>1, <1>2, <1>3 DEF DecodedAt, Receiving

LEMMA SettledSource ==
  ASSUME Inv, NEW t \in Threads, ThreadStep(t), NEW m \in settled', m \notin settled
  PROVE  wire[t] # "none" /\ Owes(t) /\ m = held[t].msg
<1>0. ChannelShapeAt(t)
  BY DEF Inv, ChannelShape
<1>1. ASSUME m \in Settles(t) PROVE wire[t] # "none" /\ Owes(t) /\ m = held[t].msg
  <2>1. wire[t] # "none" /\ m \in ToSet(First(t))
    BY <1>1 DEF Settles
  <2>2. Owes(t) /\ unacked[t] = <<held[t].msg>>
    BY <1>0, <2>1 DEF ChannelShapeAt
  <2>3. ToSet(First(t)) = {held[t].msg}
    BY <2>2, ShortSeqs DEF First
  <2> QED BY <2>1, <2>2, <2>3
<1>a. ASSUME EndChannel(t) PROVE m \in Settles(t)
  BY <1>a DEF EndChannel
<1>b. ASSUME NEW status, GiveUp(t, status) PROVE m \in Settles(t)
  BY <1>b, <1>a DEF GiveUp
<1>2. CASE Push(t) \/ Break(t) \/ Calls(t) \/ Counts(t) \/ SendLock(t) \/ Publish(t) \/ Open(t)
  BY <1>2 DEF Push, Break, Calls, SendCall, ReceiveCall, Counts, SendLock, Publish, Open,
              histVars
<1>3. CASE Settle(t)
  BY <1>1, <1>3 DEF Settle
<1>4. CASE \E frame \in {"ack", "requeue", "reject"} : Complete(t, frame)
  BY <1>4 DEF Complete, histVars
<1>5. CASE Discards(t)
  BY <1>1, <1>5, <1>a DEF Discards
<1>6. CASE Get(t)
  BY <1>1, <1>6, <1>b, GetCases DEF Fetches
<1>7. CASE Loop(t)
  BY <1>1, <1>7, <1>b DEF Loop
<1>8. CASE Wait(t)
  BY <1>1, <1>8, <1>a, <1>b DEF Wait, Deliver
<1> QED BY <1>2, <1>3, <1>4, <1>5, <1>6, <1>7, <1>8 DEF ThreadStep, Step

LEMMA MOwn ==
  ASSUME Inv, Inv', Decoded, NEW t \in Threads, MThreadStep(t)
  PROVE  DecodedAt(t)' /\ typed' \in [Threads -> {"none", "receive", "receiveExtended"}]
<1>0. DecodedAt(t) /\ ChannelShapeAt(t) /\ CallShapeAt(t) /\ ChannelShapeAt(t)'
      /\ typed \in [Threads -> {"none", "receive", "receiveExtended"}]
  BY DEF Decoded, Inv, ChannelShape, CallShape
<1>d. typed' \in [Threads -> {"none", "receive", "receiveExtended"}]
  BY <1>0 DEF MThreadStep, TypedCalls, SendTyped, ReceiveTyped, Decode
<1> SUFFICES DecodedAt(t)'
  BY <1>d
<1> USE DEF Inv
<1>a. ASSUME typed' = typed, typed[t] # "none", wire'[t] = "none" PROVE DecodedAt(t)'
  BY <1>a DEF DecodedAt
<1>b. ASSUME typed' = typed, pc' = pc, held' = held, wire'[t] = wire[t] \/ wire'[t] = "none"
      PROVE  DecodedAt(t)'
  BY <1>0, <1>b DEF DecodedAt, Receiving
<1>c. ASSUME NEW status, GiveUp(t, status), typed' = typed, typed[t] # "none"
      PROVE  DecodedAt(t)'
  BY <1>a, <1>c DEF GiveUp, EndChannel, TypeOK
<1>1. CASE (Push(t) \/ Settle(t) \/ Break(t)) /\ UNCHANGED <<typed, payloads>>
  BY <1>0, <1>1, <1>b DEF Push, Settle, Break, TypeOK, callVars
<1>2. CASE TypedCalls(t)
  <2>1. CASE \E encodable, confirm \in BOOLEAN, a \in Queues \cup {NoName} :
               SendTyped(t, encodable, a, confirm)
    <3>1. /\ typed' = typed /\ held' = held /\ wire' = wire /\ typed[t] = "none"
          /\ pc'[t] \in {"idle", "lock"}
      BY <2>1 DEF SendTyped, Caller, SendCall, Return, Goto, TypeOK, recvVars
    <3> QED BY <1>0, <3>1 DEF DecodedAt, Receiving
  <2>2. CASE \E kind \in {"receive", "receiveExtended"}, a \in Queues \cup {NoName},
               policy \in Policies, mode \in Modes : ReceiveTyped(t, kind, a, policy, mode)
    <3>1. PICK kind \in {"receive", "receiveExtended"}, a \in Queues \cup {NoName},
               policy \in Policies, mode \in Modes : ReceiveTyped(t, kind, a, policy, mode)
      BY <2>2
    <3>2. /\ typed' = [typed EXCEPT ![t] = kind] /\ held[t] = NoMessage
          /\ wire' = wire
      BY <3>1 DEF ReceiveTyped, ReceiveCall, recvVars
    <3>3. typed'[t] # "none" /\ wire'[t] = "none"
      BY <1>0, <3>2 DEF ChannelShapeAt, Owes
    <3> QED BY <1>0, <3>2, <3>3 DEF DecodedAt
  <2> QED BY <1>2, <2>1, <2>2 DEF TypedCalls
<1>3. CASE Decode(t)
  <2>1. /\ typed' = [typed EXCEPT ![t] = "none"] /\ typed'[t] = "none" /\ pc'[t] = "idle"
    BY <1>0, <1>3 DEF Decode, Discard, vars, callVars
  <2>2. held'[t] # NoMessage => held'[t] = held[t] /\ held[t].msg \notin Undecodable
    BY <1>3 DEF Decode, Discard, TypeOK, vars, recvVars
  <2> QED BY <1>0, <2>1, <2>2 DEF DecodedAt, Receiving
<1>4. CASE Caller(t) /\ Uses(t) /\ UNCHANGED <<typed, payloads>>
  <2>1. typed' = typed /\ typed[t] = "none" /\ pc[t] = "idle"
    BY <1>4 DEF Caller
  <2>2. pc'[t] = "idle" /\ (held'[t] # NoMessage => held[t] # NoMessage
                                                    /\ held'[t].msg = held[t].msg)
    <3>1. CASE Drop(t)
      BY <2>1, <3>1 DEF Drop, TypeOK, callVars
    <3>2. CASE \E frame \in {"ack", "requeue", "reject"} : Complete(t, frame)
      <4>1. held[t] \in Deliveries /\ pc'[t] = "idle" /\ held[t] # NoMessage
        BY <3>2 DEF Complete, Return, TypeOK
      <4>2. held' = held \/ held' = [held EXCEPT ![t].completed = TRUE]
        BY <3>2 DEF Complete
      <4>3. held'[t].msg = held[t].msg
        BY <4>1, <4>2 DEF TypeOK, Deliveries
      <4> QED BY <4>1, <4>3
    <3> QED BY <1>4, <3>1, <3>2 DEF Uses
  <2> QED BY <1>0, <2>1, <2>2 DEF DecodedAt, Receiving
<1>5. CASE Step(t) /\ UNCHANGED <<typed, payloads>>
  <2>0. typed' = typed
    BY <1>5
  <2>1. CASE SendLock(t) \/ Publish(t)
    <3>1. held' = held /\ wire' = wire /\ pc'[t] \in {"idle", "publish"}
      BY <2>1 DEF SendLock, Publish, Return, Goto, TypeOK, recvVars
    <3> QED BY <1>0, <2>0, <3>1 DEF DecodedAt, Receiving
  <2>2. CASE Open(t)
    <3>1. wire' = wire /\ pc[t] = "open"
      BY <2>2 DEF Open
    <3> QED BY <1>0, <1>a, <2>0, <3>1 DEF DecodedAt
  <2>3. CASE Get(t)
    <3>1. typed[t] # "none" /\ wire[t] = "none"
      BY <1>0, <2>3 DEF Get, DecodedAt, Receiving
    <3>2. CASE Fetches(t)
      BY <1>a, <2>0, <3>1, <3>2 DEF Fetches
    <3> QED BY <1>c, <2>0, <2>3, <3>1, <3>2, GetCases
  <2>4. CASE Loop(t)
    <3>1. typed[t] # "none" /\ wire[t] = "none"
      BY <1>0, <2>4 DEF Loop, DecodedAt, Receiving
    <3> QED BY <1>a, <1>c, <2>0, <2>4, <3>1 DEF Loop, recvVars
  <2>5. CASE Wait(t)
    <3>1. typed[t] # "none" /\ wire[t] = "none"
      BY <1>0, <2>5 DEF Wait, DecodedAt, Receiving
    <3>2. ASSUME NEW m, Deliver(t, m) PROVE wire'[t] = "none"
      BY <3>1, <3>2 DEF Deliver, EndChannel, TypeOK
    <3> QED BY <1>a, <1>c, <2>0, <2>5, <3>1, <3>2 DEF Wait, recvVars
  <2> QED BY <1>0, <1>5, <2>0, <2>1, <2>2, <2>3, <2>4, <2>5 DEF Step
<1> QED BY <1>0, <1>1, <1>2, <1>3, <1>4, <1>5 DEF MThreadStep

LEMMA MInitInv == MInit => MInv
<1> SUFFICES ASSUME MInit PROVE MInv
  OBVIOUS
<1>1. Inv
  BY InitInv DEF MInit
<1>2. Decoded
  BY DEF MInit, Init, Decoded, DecodedAt, Receiving
<1> QED BY <1>1, <1>2 DEF MInv

LEMMA MStepInv == ASSUME MInv, [MNext]_mvars PROVE MInv'
<1>0. Inv /\ Decoded /\ TypeOK
  BY DEF MInv, Inv
<1>1. Inv'
  BY <1>0, MNextIsAnyStep, StepInv
<1>2. CASE OtherStep /\ UNCHANGED <<typed, payloads>>
  <2>1. /\ pc' = pc /\ held' = held /\ wire' = wire /\ settled' = settled
        /\ typed' = typed /\ payloads' = payloads
    BY <1>2 DEF OtherStep, Shutdown, BreakSend, vars, callVars, recvVars, histVars
  <2>2. Decoded'
    BY <1>0, <2>1 DEF Decoded, DecodedAt, Receiving
  <2> QED BY <1>1, <2>2 DEF MInv
<1>3. ASSUME NEW t \in Threads, MThreadStep(t) PROVE MInv'
  <2>1. \A u \in Threads : DecodedAt(u)'
    BY <1>0, <1>1, <1>3, MOwn, MOthers
  <2>2. settled' \cap Undecodable = {}
    <3> SUFFICES ASSUME NEW m \in settled', m \in Undecodable PROVE FALSE
      OBVIOUS
    <3>1. m \notin settled
      BY <1>0 DEF Decoded
    <3>2. ThreadStep(t)
      BY <1>0, <1>3, <3>1, MThreadStepIsStep DEF vars, histVars
    <3>3. wire[t] # "none" /\ Owes(t) /\ m = held[t].msg
      BY <1>0, <3>1, <3>2, SettledSource
    <3> QED BY <1>0, <3>3 DEF Decoded, DecodedAt, Owes
  <2>3. payloads' \subseteq Msgs
    <3>1. payloads' = payloads \/ (held[t] # NoMessage /\ payloads' = payloads \cup {held[t].msg})
      BY <1>3 DEF MThreadStep, TypedCalls, SendTyped, ReceiveTyped, Decode
    <3>2. held[t] # NoMessage => held[t].msg \in Msgs
      BY <1>0, MessageTypes DEF TypeOK
    <3> QED BY <1>0, <3>1, <3>2 DEF Decoded
  <2>4. typed' \in [Threads -> {"none", "receive", "receiveExtended"}]
    BY <1>0, <1>1, <1>3, MOwn
  <2> QED BY <1>1, <2>1, <2>2, <2>3, <2>4 DEF MInv, Decoded
<1> QED BY <1>2, <1>3, MNextCases

LEMMA MInvHolds == MSpec => []MInv
BY MInitInv, MStepInv, PTL DEF MSpec
-----------------------------------------------------------------------------
(* Every variable of the transport and the Messenger keeps its type,       *)
(* send_mu is held exactly while BasicPublish runs, and a caller holds     *)
(* only Messages that Codec::decode accepted.                              *)
THEOREM MessengerTypes == MSpec => []MTypeOK
<1>1. MInv => MTypeOK
  BY DEF MInv, Inv, Decoded, DecodedAt, MTypeOK, Caller
<1> QED BY <1>1, MInvHolds, PTL

(* Whatever the callers, the Messengers, the broker and the network do, a  *)
(* message that send() accepted is in a queue, unacknowledged on a         *)
(* channel, acknowledged, rejected, or was taken in mode Auto.             *)
THEOREM MessagesKept == MSpec => []NothingLost
<1>1. MInv => NothingLost
  BY DEF MInv, Inv
<1> QED BY <1>1, MInvHolds, PTL

(* The channel that AckState keeps alive makes a manually acknowledged     *)
(* delivery exclusive: the broker offers the message to no other           *)
(* receive() while ack() or nack() can still succeed.                      *)
THEOREM DeliveryExclusive == MSpec => []ExclusiveDelivery
<1>1. MInv => ExclusiveDelivery
  BY InvExclusive DEF MInv
<1> QED BY <1>1, MInvHolds, PTL

(* AckState::completed lets at most one BasicAck or BasicReject of a       *)
(* delivery reach the broker.                                              *)
THEOREM CompletedOnce == MSpec => []SettledOnce
<1>1. MInv => SettledOnce
  BY InvSettledOnce DEF MInv
<1> QED BY <1>1, MInvHolds, PTL

(* With the prefetch count of BasicConsume a waiting call in mode Manual   *)
(* never keeps a second message from the other receivers.                  *)
THEOREM OneMessage == MSpec => []OneMessagePerCall
<1>1. MInv => OneMessagePerCall
  BY InvOneMessage DEF MInv
<1> QED BY <1>1, MInvHolds, PTL

(* A message that receive() returned in mode Auto is returned by no other  *)
(* call in that mode.                                                      *)
THEOREM AutoReturnedOnce == MSpec => []AutoAtMostOnce
<1>1. MInv => AutoAtMostOnce
  BY InvAutoOnce DEF MInv
<1> QED BY <1>1, MInvHolds, PTL

(* A Message that Codec::decode refuses is destroyed unacknowledged, so in *)
(* mode Manual an undecodable message that was accepted is never consumed. *)
THEOREM UndecodableStays == MSpec => []UndecodableKept
<1>1. MInv => UndecodableKept
  BY DEF MInv, Inv, Decoded, NothingLost, UndecodableKept
<1> QED BY <1>1, MInvHolds, PTL
=============================================================================
