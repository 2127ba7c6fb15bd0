------------------------- MODULE RabbitMqTransport -------------------------
(***************************************************************************)
(* src/transport/RabbitMqSimpleTransport.cpp: send() publishes on one      *)
(* shared channel behind a mutex, receive() opens a channel of its own per *)
(* call, and a manually acknowledged Message keeps that channel alive.     *)
(*                                                                         *)
(* The broker is external.  It pushes the messages of a queue to its       *)
(* consumers; basic.qos limits what it pushes to a consumer that           *)
(* acknowledges and is ignored for one that does not (no_ack).  What a     *)
(* closed or broken channel has not acknowledged goes back to the head of  *)
(* its queue.  An acknowledgment is a frame without an answer: it takes    *)
(* effect when the broker reads it and is lost with the connection.        *)
(***************************************************************************)
EXTENDS Naturals, Sequences, FiniteSets, SequencesExt

CONSTANTS Threads,      \* threads that call send() and receive()
          Queues,       \* non-empty queue names
          NoName,       \* the empty queue name
          NoThread,     \* "send_mu is free"
          NoMessage,    \* "this thread holds no Message"
          Modes,        \* acknowledgment modes the callers use
          MaxCalls,     \* bound: calls one thread makes
          MaxFaults     \* bound: connections that fail or break

ASSUME RabbitAssumption ==
  /\ NoName \notin Queues
  /\ NoThread \notin Threads
  /\ Modes \subseteq {"Auto", "Manual"}
  /\ MaxCalls \in Nat
  /\ MaxFaults \in Nat

(* A message is identified by its queue, its sender and the sender's call. *)
Msgs == [to : Queues, from : Threads, nr : 1 .. MaxCalls]

(* A delivered Message with its AckState. *)
Deliveries == [msg : Msgs, mode : Modes, completed : BOOLEAN]

ASSUME NoMessageAssumption == NoMessage \notin Deliveries

VARIABLES
  pc,        \* where each thread is in send() or receive()
  op,        \* arguments of each thread's current or last admissible call
  res,       \* the Status of each thread's last operation
  calls,     \* how many calls each thread has made
  stopped,   \* State::stopped
  sendMu,    \* State::send_mu: its holder
  sendCh,    \* State::send_ch
  chan,      \* the channel of each thread's receive(), then of its Message
  pushed,    \* messages the broker pushed to it and receive() has not returned
  held,      \* the Message each thread holds
  wire,      \* the acknowledgment on its way to the broker
  ready,     \* broker: messages a queue can deliver
  unacked,   \* broker: messages a channel has not acknowledged
  faults,    \* connections that have failed or broken
  accepted,  \* history: messages whose send() returned success
  settled,   \* history: messages the broker dropped as acknowledged or rejected
  autoTaken, \* history: messages the broker gave to a receive() in mode Auto
  returned   \* history: messages receive() returned in mode Auto

callVars == <<pc, op, res, calls>>
sendVars == <<sendMu, sendCh>>
recvVars == <<chan, pushed, held, wire>>
brokerVars == <<ready, unacked>>
histVars == <<accepted, settled, autoTaken, returned>>
vars == <<callVars, stopped, sendVars, recvVars, brokerVars, faults, histVars>>

Statuses == {"Ok", "Timeout", "Unavailable", "Unsupported", "InvalidArgument", "Internal",
             "Serialization"}
Links == {"none", "open", "broken"}
Policies == {"poll", "bounded", "unbounded"}
SendOps == [kind : {"send"}, msg : Msgs]
ReceiveOps == [kind : {"receive"}, addr : Queues, policy : Policies, mode : Modes]

Init ==
  /\ pc = [t \in Threads |-> "idle"]
  /\ op = [t \in Threads |-> [kind |-> "none"]]
  /\ res = [t \in Threads |-> "Ok"]
  /\ calls = [t \in Threads |-> 0]
  /\ stopped = FALSE
  /\ sendMu = NoThread
  /\ sendCh = "none"
  /\ chan = [t \in Threads |-> "none"]
  /\ pushed = [t \in Threads |-> <<>>]
  /\ held = [t \in Threads |-> NoMessage]
  /\ wire = [t \in Threads |-> "none"]
  /\ ready = [q \in Queues |-> <<>>]
  /\ unacked = [t \in Threads |-> <<>>]
  /\ faults = 0
  /\ accepted = {} /\ settled = {} /\ autoTaken = {} /\ returned = {}

Idle(t) == pc[t] = "idle" /\ calls[t] < MaxCalls

Return(t, status) ==
  /\ pc' = [pc EXCEPT ![t] = "idle"]
  /\ res' = [res EXCEPT ![t] = status]

Goto(t, label) == pc' = [pc EXCEPT ![t] = label] /\ UNCHANGED res

(* A connection attempt or a connection fails. *)
Fault == faults < MaxFaults /\ faults' = faults + 1

----------------------------------------------------------------------------
(* send() *)

(* The checks before the mutex. *)
SendCall(t, a, confirm) ==
  /\ Idle(t)
  /\ calls' = [calls EXCEPT ![t] = @ + 1]
  /\ \/ /\ a = NoName
        /\ Return(t, "InvalidArgument") /\ UNCHANGED op
     \/ /\ a # NoName /\ confirm
        /\ Return(t, "Unsupported") /\ UNCHANGED op
     \/ /\ a # NoName /\ ~confirm /\ stopped
        /\ Return(t, "Unavailable") /\ UNCHANGED op
     \/ /\ a # NoName /\ ~confirm /\ ~stopped
        /\ Goto(t, "lock")
        /\ op' = [op EXCEPT ![t] = [kind |-> "send",
                    msg |-> [to |-> a, from |-> t, nr |-> calls[t] + 1]]]
  /\ UNCHANGED <<stopped, sendVars, recvVars, brokerVars, faults, histVars>>

(* Seeded fault: the channel is used without send_mu. *)
SendWithoutLock(t) ==
  /\ pc[t] = "lock" /\ ~stopped
  /\ Goto(t, "publish")
  /\ sendCh' = IF sendCh = "none" THEN "open" ELSE sendCh
  /\ UNCHANGED <<op, calls, stopped, sendMu, recvVars, brokerVars, faults, histVars>>

(* Take send_mu, test for shutdown again and open the channel on first use. *)
SendLock(t) ==
  /\ pc[t] = "lock" /\ sendMu = NoThread
  /\ \/ /\ stopped
        /\ Return(t, "Unavailable")
        /\ UNCHANGED <<sendVars, faults>>
     \/ /\ ~stopped /\ sendCh = "none"
        /\ Return(t, "Unavailable") /\ Fault
        /\ UNCHANGED sendVars
     \/ /\ ~stopped
        /\ Goto(t, "publish")
        /\ sendMu' = t
        /\ sendCh' = IF sendCh = "none" THEN "open" ELSE sendCh
        /\ UNCHANGED faults
  /\ UNCHANGED <<op, calls, stopped, recvVars, brokerVars, histVars>>

(* DeclareQueue and BasicPublish, which waits for the broker's answer: the *)
(* broker may have the message although the answer is lost.  A channel     *)
(* that broke stays in send_ch.                                            *)
Publish(t) ==
  LET m == op[t].msg
      enqueued == [ready EXCEPT ![m.to] = Append(@, m)]
  IN
  /\ pc[t] = "publish"
  /\ sendMu' = NoThread
  /\ \/ /\ sendCh = "open"
        /\ Return(t, "Ok")
        /\ ready' = enqueued
        /\ accepted' = accepted \cup {m}
        /\ UNCHANGED <<sendCh, faults>>
     \/ /\ sendCh = "open" /\ Fault
        /\ Return(t, "Unavailable")
        /\ sendCh' = "broken"
        /\ ready' \in {ready, enqueued}
        /\ UNCHANGED accepted
     \/ /\ sendCh = "broken"
        /\ Return(t, "Unavailable")
        /\ UNCHANGED <<sendCh, ready, faults, accepted>>
  /\ UNCHANGED <<op, calls, stopped, recvVars, unacked, settled, autoTaken, returned>>

----------------------------------------------------------------------------
(* receive() *)

ReceiveCall(t, a, policy, mode) ==
  /\ Idle(t) /\ held[t] = NoMessage
  /\ calls' = [calls EXCEPT ![t] = @ + 1]
  /\ \/ /\ a = NoName
        /\ Return(t, "InvalidArgument") /\ UNCHANGED op
     \/ /\ a # NoName /\ stopped
        /\ Return(t, "Unavailable") /\ UNCHANGED op
     \/ /\ a # NoName /\ ~stopped
        /\ Goto(t, "open")
        /\ op' = [op EXCEPT ![t] = [kind |-> "receive", addr |-> a,
                                   policy |-> policy, mode |-> mode]]
  /\ UNCHANGED <<stopped, sendVars, recvVars, brokerVars, faults, histVars>>

(* openChannel, DeclareQueue and, unless the call polls, BasicConsume. *)
Open(t) ==
  /\ pc[t] = "open"
  /\ \/ /\ Return(t, "Unavailable") /\ Fault
        /\ UNCHANGED chan
     \/ /\ Goto(t, IF op[t].policy = "poll" THEN "get" ELSE "loop")
        /\ chan' = [chan EXCEPT ![t] = "open"]
        /\ UNCHANGED faults
  /\ UNCHANGED <<op, calls, stopped, sendVars, pushed, held, wire, brokerVars, histVars>>

(* Seeded fault: no_ack is requested for every receive. *)
NoAckAlways(t) == TRUE

(* Seeded fault: no_ack is never requested and mode Auto acknowledges nothing. *)
NoAckNever(t) == FALSE

(* The no_ack flag of BasicGet and BasicConsume. *)
NoAck(t) == op[t].mode = "Auto"

(* Seeded fault: a prefetch count of 0, which means no limit. *)
NoPrefetchLimit == 100

(* The prefetch count passed to BasicConsume. *)
Prefetch == 1

(* The broker's queues once the messages of s, which a channel had from    *)
(* one queue, are back at its head.                                        *)
Requeued(s) == IF s = <<>> THEN ready ELSE [ready EXCEPT ![Head(s).to] = s \o @]

(* Broker: the delivery tag of an acknowledgment names the first delivery  *)
(* of its channel, the one receive() returned.                             *)
First(t) == IF unacked[t] = <<>> THEN <<>> ELSE <<Head(unacked[t])>>
Others(t) == IF unacked[t] = <<>> THEN <<>> ELSE Tail(unacked[t])

(* Broker: what the frame on thread t's wire settles, and what it leaves.  *)
Settles(t) == IF wire[t] \in {"ack", "reject"} THEN ToSet(First(t)) ELSE {}
Left(t) == IF wire[t] \in {"ack", "reject"} THEN Others(t) ELSE unacked[t]

(* Broker: thread t's channel ends, after the frame on its wire is read. *)
EndChannel(t) ==
  /\ chan' = [chan EXCEPT ![t] = "none"]
  /\ pushed' = [pushed EXCEPT ![t] = <<>>]
  /\ wire' = [wire EXCEPT ![t] = "none"]
  /\ unacked' = [unacked EXCEPT ![t] = <<>>]
  /\ settled' = settled \cup Settles(t)

(* Leave receive() without a message; its channel goes out of scope. *)
GiveUp(t, status) ==
  /\ Return(t, status)
  /\ EndChannel(t)
  /\ ready' = Requeued(unacked[t])
  /\ UNCHANGED <<held, autoTaken, returned>>

(* Seeded fault: the Message does not keep its channel alive. *)
DeliverAndClose(t, m) ==
  /\ Return(t, "Ok")
  /\ held' = [held EXCEPT ![t] = [msg |-> m, mode |-> op[t].mode, completed |-> FALSE]]
  /\ EndChannel(t)
  /\ ready' = Requeued(unacked[t])
  /\ UNCHANGED <<autoTaken, returned>>

(* makeMessageFromDelivery: in mode Manual the AckState keeps the channel, *)
(* in mode Auto the channel ends with the call and what the broker pushed  *)
(* beyond m is gone.                                                       *)
Deliver(t, m) ==
  /\ Return(t, "Ok")
  /\ held' = [held EXCEPT ![t] = [msg |-> m, mode |-> op[t].mode, completed |-> FALSE]]
  /\ \/ /\ op[t].mode = "Manual"
        /\ pushed' = [pushed EXCEPT ![t] = <<>>]
        /\ UNCHANGED <<chan, wire, ready, unacked, settled, returned>>
     \/ /\ op[t].mode = "Auto"
        /\ returned' = returned \cup {m}
        /\ EndChannel(t)
        /\ ready' = Requeued(unacked[t])
  /\ UNCHANGED autoTaken

(* Broker: message m leaves its queue for thread t's channel, which has to *)
(* acknowledge it unless it asked for no_ack.                              *)
Take(t, m) == IF NoAck(t) THEN unacked[t] ELSE Append(unacked[t], m)
AutoTaken(t, m) == IF op[t].mode = "Auto" THEN autoTaken \cup {m} ELSE autoTaken

(* BasicGet: the message leaves the queue and is delivered in one step. *)
Get(t) ==
  LET q == op[t].addr
      m == Head(ready[q])
  IN
  /\ pc[t] = "get"
  /\ \/ /\ chan[t] = "broken"
        /\ GiveUp(t, "Unavailable")
     \/ /\ chan[t] = "open" /\ ready[q] = <<>>
        /\ GiveUp(t, "Timeout")
     \/ /\ chan[t] = "open" /\ ready[q] # <<>>
        /\ Return(t, "Ok")
        /\ held' = [held EXCEPT ![t] = [msg |-> m, mode |-> op[t].mode, completed |-> FALSE]]
        /\ ready' = [ready EXCEPT ![q] = Tail(@)]
        /\ unacked' = [unacked EXCEPT ![t] = Take(t, m)]
        /\ chan' = IF op[t].mode = "Manual" THEN chan ELSE [chan EXCEPT ![t] = "none"]
        /\ returned' = IF op[t].mode = "Auto" THEN returned \cup {m} ELSE returned
        /\ autoTaken' = AutoTaken(t, m)
        /\ UNCHANGED <<pushed, wire, settled>>
  /\ UNCHANGED <<op, calls, stopped, sendVars, faults, accepted>>

(* Broker: push the head of the queue to thread t's consumer.  The         *)
(* prefetch count bounds what a consumer that acknowledges may have.       *)
Push(t) ==
  LET q == op[t].addr IN
  /\ pc[t] \in {"loop", "wait"} /\ chan[t] = "open"
  /\ ready[q] # <<>>
  /\ NoAck(t) \/ Len(unacked[t]) < Prefetch
  /\ pushed' = [pushed EXCEPT ![t] = Append(@, Head(ready[q]))]
  /\ unacked' = [unacked EXCEPT ![t] = Take(t, Head(ready[q]))]
  /\ ready' = [ready EXCEPT ![q] = Tail(@)]
  /\ autoTaken' = AutoTaken(t, Head(ready[q]))
  /\ UNCHANGED <<callVars, stopped, sendVars, chan, held, wire, faults, accepted,
                 settled, returned>>

(* Seeded fault: a receive without timeout does not look at stopped. *)
LoopForever(t) ==
  /\ pc[t] = "loop"
  /\ \/ /\ op[t].policy = "bounded"
        /\ GiveUp(t, "Timeout")
     \/ /\ Goto(t, "wait")
        /\ UNCHANGED <<recvVars, brokerVars, settled, autoTaken, returned>>
  /\ UNCHANGED <<op, calls, stopped, sendVars, faults, accepted>>

(* The head of the polling loop: shutdown, deadline, or another slice. *)
Loop(t) ==
  /\ pc[t] = "loop"
  /\ \/ /\ stopped
        /\ GiveUp(t, "Unavailable")
     \/ /\ ~stopped /\ op[t].policy = "bounded"
        /\ GiveUp(t, "Timeout")
     \/ /\ ~stopped
        /\ Goto(t, "wait")
        /\ UNCHANGED <<recvVars, brokerVars, settled, autoTaken, returned>>
  /\ UNCHANGED <<op, calls, stopped, sendVars, faults, accepted>>

(* Seeded fault: the result of BasicConsumeMessage is not looked at. *)
WaitOnly(t) ==
  /\ pc[t] = "wait"
  /\ Goto(t, "loop")
  /\ UNCHANGED <<op, calls, stopped, sendVars, recvVars, brokerVars, faults, histVars>>

(* BasicConsumeMessage: a pushed message, an empty slice of 200 ms, or the *)
(* exception of a broken connection.                                       *)
Wait(t) ==
  /\ pc[t] = "wait"
  /\ \/ /\ pushed[t] # <<>>
        /\ Deliver(t, Head(pushed[t]))
     \/ /\ pushed[t] = <<>> /\ chan[t] = "open"
        /\ Goto(t, "loop")
        /\ UNCHANGED <<recvVars, brokerVars, settled, autoTaken, returned>>
     \/ /\ chan[t] = "broken"
        /\ GiveUp(t, "Unavailable")
  /\ UNCHANGED <<op, calls, stopped, sendVars, faults, accepted>>

----------------------------------------------------------------------------
(* Message::ack(), Message::nack() and its destructor.  AckState::mu makes *)
(* a completion atomic, so it does not matter which thread's copy of the   *)
(* Message it is called on.                                                *)

(* Seeded fault: AckState::completed is not looked at. *)
CompleteAgain(t, frame) ==
  /\ pc[t] = "idle" /\ held[t] # NoMessage /\ held[t].mode = "Manual"
  /\ chan[t] = "open"
  /\ Return(t, "Ok")
  /\ wire' = [wire EXCEPT ![t] = frame]
  /\ held' = [held EXCEPT ![t].completed = TRUE]
  /\ UNCHANGED <<op, calls, stopped, sendVars, chan, pushed, brokerVars, faults,
                 histVars>>

(* frame is "ack", or for nack() "requeue" or "reject". *)
Complete(t, frame) ==
  /\ pc[t] = "idle" /\ held[t] # NoMessage
  /\ \/ /\ held[t].mode = "Auto"
        /\ Return(t, "Unsupported")
        /\ UNCHANGED <<held, wire>>
     \/ /\ held[t].mode = "Manual" /\ (held[t].completed \/ chan[t] = "broken")
        /\ Return(t, "Internal")
        /\ UNCHANGED <<held, wire>>
     \/ /\ held[t].mode = "Manual" /\ ~held[t].completed /\ chan[t] = "open"
        /\ Return(t, "Ok")
        /\ wire' = [wire EXCEPT ![t] = frame]
        /\ held' = [held EXCEPT ![t].completed = TRUE]
  /\ UNCHANGED <<op, calls, stopped, sendVars, chan, pushed, brokerVars, faults,
                 histVars>>

(* The last copy of the Message is destroyed, and its AckState and channel *)
(* with it.                                                                *)
Drop(t) ==
  /\ pc[t] = "idle" /\ held[t] # NoMessage
  /\ held' = [held EXCEPT ![t] = NoMessage]
  /\ EndChannel(t)
  /\ ready' = Requeued(Left(t))
  /\ UNCHANGED <<callVars, stopped, sendVars, faults, accepted, autoTaken, returned>>

----------------------------------------------------------------------------
(* The destructor, the broker and the network. *)

Shutdown ==
  /\ ~stopped
  /\ stopped' = TRUE
  /\ UNCHANGED <<callVars, sendVars, recvVars, brokerVars, faults, histVars>>

(* Broker: read the acknowledgment of thread t's Message. *)
Settle(t) ==
  /\ wire[t] # "none"
  /\ wire' = [wire EXCEPT ![t] = "none"]
  /\ settled' = settled \cup Settles(t)
  /\ ready' = IF wire[t] = "requeue" THEN Requeued(First(t)) ELSE ready
  /\ unacked' = [unacked EXCEPT ![t] = Others(t)]
  /\ UNCHANGED <<callVars, stopped, sendVars, chan, pushed, held, faults,
                 accepted, autoTaken, returned>>

(* The connection of a receive() or of a Message breaks. *)
Break(t) ==
  /\ chan[t] = "open" /\ Fault
  /\ chan' = [chan EXCEPT ![t] = "broken"]
  /\ wire' = [wire EXCEPT ![t] = "none"]
  /\ unacked' = [unacked EXCEPT ![t] = <<>>]
  /\ ready' = Requeued(unacked[t])
  /\ UNCHANGED <<callVars, stopped, sendVars, pushed, held, histVars>>

(* The connection of the send channel breaks. *)
BreakSend ==
  /\ sendCh = "open" /\ Fault
  /\ sendCh' = "broken"
  /\ UNCHANGED <<callVars, stopped, sendMu, recvVars, brokerVars, histVars>>

Step(t) == SendLock(t) \/ Publish(t) \/ Open(t) \/ Get(t) \/ Loop(t) \/ Wait(t)

Calls(t) ==
  \/ \E a \in Queues \cup {NoName}, confirm \in BOOLEAN : SendCall(t, a, confirm)
  \/ \E a \in Queues \cup {NoName}, policy \in Policies, mode \in Modes :
       ReceiveCall(t, a, policy, mode)

Uses(t) == (\E frame \in {"ack", "requeue", "reject"} : Complete(t, frame)) \/ Drop(t)

Environment == Shutdown \/ BreakSend \/ \E t \in Threads : Push(t) \/ Settle(t) \/ Break(t)

Next == Environment \/ \E t \in Threads : Calls(t) \/ Uses(t) \/ Step(t)

Spec == Init /\ [][Next]_vars

(* Threads keep running and the broker keeps serving its consumers. *)
Fairness == \A t \in Threads : WF_vars(Step(t)) /\ WF_vars(Push(t)) /\ WF_vars(Settle(t))

FairSpec == Spec /\ Fairness

----------------------------------------------------------------------------
(* Type invariant: every variable of the transport, its messages and the   *)
(* broker keeps its type, and send_mu is held exactly while a thread       *)
(* publishes.                                                              *)
TypeOK ==
  /\ pc \in [Threads -> {"idle", "lock", "publish", "open", "get", "loop", "wait"}]
  /\ op \in [Threads -> SendOps \cup ReceiveOps \cup {[kind |-> "none"]}]
  /\ res \in [Threads -> Statuses]
  /\ calls \in [Threads -> 0 .. MaxCalls]
  /\ stopped \in BOOLEAN
  /\ sendMu \in Threads \cup {NoThread}
  /\ \A t \in Threads : sendMu = t <=> pc[t] = "publish"
  /\ sendCh \in Links
  /\ chan \in [Threads -> Links]
  /\ pushed \in [Threads -> Seq(Msgs)]
  /\ held \in [Threads -> Deliveries \cup {NoMessage}]
  /\ wire \in [Threads -> {"none", "ack", "requeue", "reject"}]
  /\ ready \in [Queues -> Seq(Msgs)]
  /\ unacked \in [Threads -> Seq(Msgs)]
  /\ faults \in 0 .. MaxFaults
  /\ accepted \subseteq Msgs /\ settled \subseteq Msgs
  /\ autoTaken \subseteq Msgs /\ returned \subseteq Msgs

InQueues == UNION {ToSet(ready[q]) : q \in Queues}
InChannels == UNION {ToSet(unacked[t]) : t \in Threads}

(* A message that send() accepted stays with the broker, in its queue or   *)
(* unacknowledged on a channel, until a receive() in mode Auto is given it *)
(* or its receiver acknowledges or rejects it: whatever breaks, times out  *)
(* or is shut down, and whatever other receivers do.                       *)
NothingLost == accepted \subseteq InQueues \cup InChannels \cup settled \cup autoTaken

(* While a receiver holds a Message it can still complete, the broker      *)
(* offers that message to nobody else: not to another receive(), not again *)
(* from the queue.  This is what keeping the channel in AckState is for.   *)
ExclusiveDelivery ==
  \A t \in Threads :
    held[t] # NoMessage /\ held[t].mode = "Manual" /\ ~held[t].completed
      /\ chan[t] # "broken" =>
      /\ held[t].msg \in ToSet(unacked[t])
      /\ held[t].msg \notin InQueues
      /\ \A u \in Threads \ {t} : held[t].msg \notin ToSet(unacked[u])

(* ack() and nack() of one Message reach the broker at most once: it never *)
(* reads a completion for a delivery it no longer waits for, which AMQP    *)
(* answers by closing the channel.                                         *)
SettledOnce == \A t \in Threads : wire[t] # "none" => held[t].msg \in ToSet(unacked[t])

(* Each call in mode Manual retrieves at most one message: a waiting call  *)
(* keeps no second one from other receivers.  (In mode Auto the broker     *)
(* ignores the prefetch count, and there this does not hold.)              *)
OneMessagePerCall ==
  \A t \in Threads :
    pc[t] \in {"loop", "wait"} /\ op[t].mode = "Manual" =>
      Cardinality(ToSet(pushed[t]) \cup ToSet(unacked[t])) <= 1

(* In mode Auto a message is returned by at most one receive(): once it    *)
(* has been returned it is in no queue, on no channel and in the buffer of *)
(* no other consumer of that mode.                                         *)
AutoAtMostOnce ==
  \A m \in returned :
    /\ m \notin InQueues \cup InChannels
    /\ \A t \in Threads :
         pc[t] \in {"loop", "wait"} /\ op[t].mode = "Auto" => m \notin ToSet(pushed[t])

(* Shutdown ends every call, also a receive() without timeout. *)
StopUnblocks == \A t \in Threads : stopped ~> pc[t] = "idle"

Waiting(t, q) == pc[t] \in {"loop", "wait"} /\ op[t].addr = q

(* A message in a queue is not left there for ever while a receive() waits *)
(* for it on a connection that works.                                      *)
WaiterServed ==
  \A t \in Threads, q \in Queues :
    Waiting(t, q) /\ ready[q] # <<>> ~> ~Waiting(t, q) \/ ready[q] = <<>>
=============================================================================
