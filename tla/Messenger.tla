----------------------------- MODULE Messenger -----------------------------
(***************************************************************************)
(* include/mqss/Messenger.hpp over the RabbitMQ transport: send<T>()       *)
(* encodes and sends, receiveExtended<T>() receives, decodes and hands out *)
(* the Message, receive<T>() keeps only the payload.  A Message that is    *)
(* not handed out is destroyed, unacknowledged, when the call returns.     *)
(***************************************************************************)
EXTENDS RabbitMqTransport

CONSTANT Undecodable  \* messages that are not a T for the codec

ASSUME CodecAssumption == Undecodable \subseteq Msgs

VARIABLES
  typed,     \* the Messenger call each thread is in, if any
  payloads   \* history: messages whose decoded payload receive<T>() returned

mvars == <<vars, typed, payloads>>

(* One Messenger object on its transport. *)
MInit ==
  /\ Init
  /\ typed = [t \in Threads |-> "none"]
  /\ payloads = {}

Caller(t) == pc[t] = "idle" /\ typed[t] = "none"

(* send<T>(): an encoding error is returned as it is. *)
SendTyped(t, encodable, a, confirm) ==
  /\ Caller(t)
  /\ \/ /\ encodable
        /\ SendCall(t, a, confirm)
     \/ /\ ~encodable /\ calls[t] < MaxCalls
        /\ calls' = [calls EXCEPT ![t] = @ + 1]
        /\ res' = [res EXCEPT ![t] = "Serialization"]
        /\ UNCHANGED <<pc, op, stopped, sendVars, recvVars, brokerVars, faults, histVars>>
  /\ UNCHANGED <<typed, payloads>>

(* receive<T>() and receiveExtended<T>() enter Transport::receive(). *)
ReceiveTyped(t, kind, a, policy, mode) ==
  /\ Caller(t)
  /\ ReceiveCall(t, a, policy, mode)
  /\ typed' = [typed EXCEPT ![t] = kind]
  /\ UNCHANGED payloads

(* The Message goes out of scope and the call returns status. *)
Discard(t, status) ==
  /\ held' = [held EXCEPT ![t] = NoMessage]
  /\ EndChannel(t)
  /\ ready' = Requeued(Left(t))
  /\ res' = [res EXCEPT ![t] = status]
  /\ UNCHANGED <<pc, op, calls, stopped, sendVars, faults, accepted, autoTaken,
                 returned>>

(* Seeded fault: a Message that cannot be decoded is acknowledged. *)
DecodeOrAck(t) ==
  /\ pc[t] = "idle" /\ typed[t] # "none"
  /\ typed' = [typed EXCEPT ![t] = "none"]
  /\ \/ held[t] = NoMessage /\ UNCHANGED <<vars, payloads>>
     \/ /\ held[t] # NoMessage /\ held[t].msg \in Undecodable
        /\ held' = [held EXCEPT ![t] = NoMessage]
        /\ chan' = [chan EXCEPT ![t] = "none"]
        /\ unacked' = [unacked EXCEPT ![t] = <<>>]
        /\ res' = [res EXCEPT ![t] = "Serialization"]
        /\ UNCHANGED <<pc, op, calls, stopped, sendVars, pushed, wire, ready,
                       faults, histVars, payloads>>
     \/ /\ held[t] # NoMessage /\ held[t].msg \notin Undecodable
        /\ UNCHANGED <<vars, payloads>>

(* What follows Transport::receive(): a transport error is passed on, a    *)
(* decoding error destroys the Message, receive<T>() destroys it as well   *)
(* and only receiveExtended<T>() hands it out.                             *)
Decode(t) ==
  /\ pc[t] = "idle" /\ typed[t] # "none"
  /\ typed' = [typed EXCEPT ![t] = "none"]
  /\ \/ /\ held[t] = NoMessage
        /\ UNCHANGED <<vars, payloads>>
     \/ /\ held[t] # NoMessage /\ held[t].msg \in Undecodable
        /\ Discard(t, "Serialization")
        /\ UNCHANGED payloads
     \/ /\ held[t] # NoMessage /\ held[t].msg \notin Undecodable
        /\ typed[t] = "receive"
        /\ Discard(t, "Ok")
        /\ payloads' = payloads \cup {held[t].msg}
     \/ /\ held[t] # NoMessage /\ held[t].msg \notin Undecodable
        /\ typed[t] = "receiveExtended"
        /\ UNCHANGED <<vars, payloads>>

TypedCalls(t) ==
  \/ \E encodable, confirm \in BOOLEAN, a \in Queues \cup {NoName} :
       SendTyped(t, encodable, a, confirm)
  \/ \E kind \in {"receive", "receiveExtended"}, a \in Queues \cup {NoName},
        policy \in Policies, mode \in Modes :
       ReceiveTyped(t, kind, a, policy, mode)

MNext ==
  \/ Environment /\ UNCHANGED <<typed, payloads>>
  \/ \E t \in Threads :
       \/ TypedCalls(t)
       \/ Decode(t)
       \/ Caller(t) /\ Uses(t) /\ UNCHANGED <<typed, payloads>>
       \/ Step(t) /\ UNCHANGED <<typed, payloads>>

MSpec == MInit /\ [][MNext]_mvars

----------------------------------------------------------------------------
(* Type invariant: the variables of the transport and the Messenger have   *)
(* their types, send_mu is held exactly while a thread publishes, and a    *)
(* thread holds a Message outside a Messenger call only if it can be       *)
(* decoded.                                                                *)
MTypeOK ==
  /\ TypeOK
  /\ typed \in [Threads -> {"none", "receive", "receiveExtended"}]
  /\ payloads \subseteq Msgs
  /\ \A t \in Threads :
       Caller(t) /\ held[t] # NoMessage => held[t].msg \notin Undecodable

(* An undecodable message that was sent with success is never consumed by  *)
(* a Messenger in mode Manual: the broker keeps it, in its queue or on the *)
(* channel of a call that is about to fail, until mode Auto takes it.      *)
UndecodableKept ==
  accepted \cap Undecodable \subseteq InQueues \cup InChannels \cup autoTaken

(* receive<T>() consumes the message whose payload it returns: nobody is   *)
(* given it again.                                                         *)
ReceiveConsumes == payloads \cap InQueues = {}
=============================================================================
