------------------------- MODULE InMemoryTransport -------------------------
(***************************************************************************)
(* src/transport/InMemoryTransport.cpp: per-address deques behind one      *)
(* mutex and one condition variable, shared by any number of threads, and  *)
(* a destructor that stops the transport while calls are in flight.        *)
(*                                                                         *)
(* Every critical section of the mutex is one atomic action.  What happens *)
(* outside the lock is a step of its own: entering a call, notify_all()    *)
(* after the lock is released, and the three ways a thread leaves the      *)
(* condition variable (notification, deadline, spurious wake-up), each of  *)
(* which must take the lock again before it looks at the state.            *)
(***************************************************************************)
EXTENDS Naturals, Sequences, FiniteSets

CONSTANTS Threads,      \* threads that call send() and receive()
          Addresses,    \* non-empty queue names
          NoName,       \* the empty queue name
          NoEnvelope,   \* "no message in this result"
          MaxCalls      \* bound: calls one thread makes

ASSUME ConstantsAssumption ==
  /\ NoName \notin Addresses
  /\ NoEnvelope \notin Threads \X (1 .. MaxCalls)
  /\ MaxCalls \in Nat

(* A message is identified by its sender and the sender's call number. *)
Envelopes == Threads \X (1 .. MaxCalls)

VARIABLES
  pc,         \* where each thread is in send() or receive()
  op,         \* arguments of each thread's current or last admissible call
  res,        \* the Status or Result<Message> of each thread's last call
  calls,      \* how many calls each thread has made
  queues,     \* State::queues; an absent entry is the empty sequence
  stopped,    \* State::stopped
  dtor,       \* where the destructor is
  accepted,   \* history: messages send() accepted, per address
  delivered   \* history: messages receive() returned, per address

vars == <<pc, op, res, calls, queues, stopped, dtor, accepted, delivered>>

(* Refinement mapping: a send() that has released the lock has taken       *)
(* effect; every other call in flight has not.                             *)
PhaseOf(p) == IF p = "idle" THEN "idle" ELSE IF p = "notify" THEN "done" ELSE "called"
Phase == [t \in Threads |-> PhaseOf(pc[t])]

Contract ==
  INSTANCE TransportContract WITH
    phase <- Phase, ret <- res, chan <- queues, closed <- stopped

Ops == Contract!Ops
Results == Contract!Results
Failure(status) == Contract!Result(status, NoEnvelope)

PCs == {"idle", "enqueue", "notify", "check", "waiting", "woken", "expired"}

Init ==
  /\ pc = [t \in Threads |-> "idle"]
  /\ op = [t \in Threads |->
             [kind |-> "receive", addr |-> NoName, policy |-> "poll"]]
  /\ res = [t \in Threads |-> Failure("InvalidArgument")]
  /\ calls = [t \in Threads |-> 0]
  /\ queues = [a \in Addresses |-> <<>>]
  /\ stopped = FALSE
  /\ dtor = "live"
  /\ accepted = [a \in Addresses |-> <<>>]
  /\ delivered = [a \in Addresses |-> <<>>]

Idle(t) == pc[t] = "idle" /\ dtor = "live" /\ calls[t] < MaxCalls

(* Return status r to the caller. *)
Return(t, r) ==
  /\ pc' = [pc EXCEPT ![t] = "idle"]
  /\ res' = [res EXCEPT ![t] = r]

(* The checks send() makes before it touches the state. *)
SendCall(t, a, confirm) ==
  /\ Idle(t)
  /\ calls' = [calls EXCEPT ![t] = @ + 1]
  /\ \/ /\ a = NoName
        /\ Return(t, Failure("InvalidArgument"))
        /\ UNCHANGED op
     \/ /\ a # NoName /\ confirm
        /\ Return(t, Failure("Unsupported"))
        /\ UNCHANGED op
     \/ /\ a # NoName /\ ~confirm
        /\ pc' = [pc EXCEPT ![t] = "enqueue"]
        /\ op' = [op EXCEPT ![t] = [kind |-> "send", addr |-> a, confirm |-> FALSE,
                                   env |-> <<t, calls[t] + 1>>]]
        /\ UNCHANGED res
  /\ UNCHANGED <<queues, stopped, dtor, accepted, delivered>>

(* Seeded fault: one slot per address instead of a queue. *)
EnqueueInSlot(t) ==
  /\ pc[t] = "enqueue"
  /\ queues' = [queues EXCEPT ![op[t].addr] = op[t].env]
  /\ pc' = [pc EXCEPT ![t] = "notify"]
  /\ res' = [res EXCEPT ![t] = Failure("Ok")]
  /\ UNCHANGED <<op, calls, stopped, dtor, accepted, delivered>>

(* Seeded fault: send() tests for shutdown only before it takes the lock. *)
EnqueueUnchecked(t) ==
  /\ pc[t] = "enqueue"
  /\ queues' = [queues EXCEPT ![op[t].addr] = Append(@, op[t].env)]
  /\ accepted' = [accepted EXCEPT ![op[t].addr] = Append(@, op[t].env)]
  /\ pc' = [pc EXCEPT ![t] = "notify"]
  /\ res' = [res EXCEPT ![t] = Failure("Ok")]
  /\ UNCHANGED <<op, calls, stopped, dtor, delivered>>

(* The critical section of send(). *)
Enqueue(t) ==
  /\ pc[t] = "enqueue"
  /\ \/ /\ stopped
        /\ Return(t, Failure("Unavailable"))
        /\ UNCHANGED <<queues, accepted>>
     \/ /\ ~stopped
        /\ queues' = [queues EXCEPT ![op[t].addr] = Append(@, op[t].env)]
        /\ accepted' = [accepted EXCEPT ![op[t].addr] = Append(@, op[t].env)]
        /\ pc' = [pc EXCEPT ![t] = "notify"]
        /\ res' = [res EXCEPT ![t] = Failure("Ok")]
  /\ UNCHANGED <<op, calls, stopped, dtor, delivered>>

(* Seeded fault: notify_one() although threads wait for different addresses. *)
WakeOne(p) ==
  LET blocked == {t \in Threads : p[t] = "waiting"} IN
  IF blocked = {} THEN p ELSE [p EXCEPT ![CHOOSE t \in blocked : TRUE] = "woken"]

(* cv.notify_all(): every thread blocked in the condition variable leaves *)
(* it and competes for the mutex.                                         *)
WakeAll(p) == [t \in Threads |-> IF p[t] = "waiting" THEN "woken" ELSE p[t]]

(* Seeded fault: send() does not notify. *)
SendSilently(t) ==
  /\ pc[t] = "notify"
  /\ pc' = [pc EXCEPT ![t] = "idle"]
  /\ UNCHANGED <<op, res, calls, queues, stopped, dtor, accepted, delivered>>

SendNotify(t) ==
  /\ pc[t] = "notify"
  /\ pc' = WakeAll([pc EXCEPT ![t] = "idle"])
  /\ UNCHANGED <<op, res, calls, queues, stopped, dtor, accepted, delivered>>

ReceiveCall(t, a, policy) ==
  /\ Idle(t)
  /\ calls' = [calls EXCEPT ![t] = @ + 1]
  /\ \/ /\ a = NoName
        /\ Return(t, Failure("InvalidArgument"))
        /\ UNCHANGED op
     \/ /\ a # NoName
        /\ pc' = [pc EXCEPT ![t] = "check"]
        /\ op' = [op EXCEPT ![t] =
                    [kind |-> "receive", addr |-> a, policy |-> policy]]
        /\ UNCHANGED res
  /\ UNCHANGED <<queues, stopped, dtor, accepted, delivered>>

(* The predicate receive() waits for. *)
Ready(t) == stopped \/ queues[op[t].addr] # <<>>

(* Seeded fault: receive() takes the newest message. *)
ConcludeNewest(t) ==
  LET a == op[t].addr
      n == Len(queues[a]) IN
  /\ \/ /\ stopped \/ n = 0
        /\ Return(t, Failure(IF stopped THEN "Unavailable" ELSE "Timeout"))
        /\ UNCHANGED <<queues, delivered>>
     \/ /\ ~stopped /\ n > 0
        /\ Return(t, Contract!Result("Ok", queues[a][n]))
        /\ queues' = [queues EXCEPT ![a] = SubSeq(@, 1, n - 1)]
        /\ delivered' = [delivered EXCEPT ![a] = Append(@, queues[a][n])]
  /\ UNCHANGED <<op, calls, stopped, dtor, accepted>>

(* What receive() does once the wait is over, with the lock still held:   *)
(* stopping wins over queued messages.                                    *)
Conclude(t) ==
  LET a == op[t].addr IN
  /\ \/ /\ stopped
        /\ Return(t, Failure("Unavailable"))
        /\ UNCHANGED <<queues, delivered>>
     \/ /\ ~stopped /\ queues[a] = <<>>
        /\ Return(t, Failure("Timeout"))
        /\ UNCHANGED <<queues, delivered>>
     \/ /\ ~stopped /\ queues[a] # <<>>
        /\ Return(t, Contract!Result("Ok", Head(queues[a])))
        /\ queues' = [queues EXCEPT ![a] = Tail(@)]
        /\ delivered' = [delivered EXCEPT ![a] = Append(@, Head(queues[a]))]
  /\ UNCHANGED <<op, calls, stopped, dtor, accepted>>

Block(t) ==
  /\ pc' = [pc EXCEPT ![t] = "waiting"]
  /\ UNCHANGED <<op, res, calls, queues, stopped, dtor, accepted, delivered>>

(* First critical section of receive(): the predicate decides between an  *)
(* immediate answer and the condition variable; a poll never blocks.      *)
Check(t) ==
  /\ pc[t] = "check"
  /\ \/ (Ready(t) \/ op[t].policy = "poll") /\ Conclude(t)
     \/ ~Ready(t) /\ op[t].policy # "poll" /\ Block(t)

(* A notified or spuriously woken thread re-evaluates the predicate and   *)
(* blocks again when it is false.                                         *)
Recheck(t) ==
  /\ pc[t] = "woken"
  /\ \/ Ready(t) /\ Conclude(t)
     \/ ~Ready(t) /\ Block(t)

SpuriousWake(t) ==
  /\ pc[t] = "waiting"
  /\ pc' = [pc EXCEPT ![t] = "woken"]
  /\ UNCHANGED <<op, res, calls, queues, stopped, dtor, accepted, delivered>>

(* The deadline of wait_for passes; the predicate is evaluated once more  *)
(* under the lock, and whatever it says ends the wait.                    *)
Expire(t) ==
  /\ pc[t] = "waiting"
  /\ op[t].policy = "timed"
  /\ pc' = [pc EXCEPT ![t] = "expired"]
  /\ UNCHANGED <<op, res, calls, queues, stopped, dtor, accepted, delivered>>

(* Seeded fault: a passed deadline is reported without a last look. *)
LastCheckBlind(t) ==
  /\ pc[t] = "expired"
  /\ Return(t, Failure("Timeout"))
  /\ UNCHANGED <<op, calls, queues, stopped, dtor, accepted, delivered>>

LastCheck(t) == pc[t] = "expired" /\ Conclude(t)

(* ~InMemoryTransport() runs shutdown(): stop under the lock, notify after *)
(* it.  The destructor runs once, so the "already stopped" return of       *)
(* shutdown() is never taken.                                              *)
Destroy ==
  /\ dtor = "live"
  /\ dtor' = "notify"
  /\ stopped' = TRUE
  /\ UNCHANGED <<pc, op, res, calls, queues, accepted, delivered>>

(* Seeded fault: shutdown() does not notify. *)
ShutdownSilently ==
  /\ dtor = "notify"
  /\ dtor' = "gone"
  /\ UNCHANGED <<pc, op, res, calls, queues, stopped, accepted, delivered>>

ShutdownNotify ==
  /\ dtor = "notify"
  /\ dtor' = "gone"
  /\ pc' = WakeAll(pc)
  /\ UNCHANGED <<op, res, calls, queues, stopped, accepted, delivered>>

(* Nothing is left to do: the object is gone and no call is in flight. *)
Terminated ==
  /\ dtor = "gone"
  /\ \A t \in Threads : pc[t] = "idle"
  /\ UNCHANGED vars

(* What thread t does next once its call has started. *)
Continue(t) ==
  \/ Enqueue(t) \/ SendNotify(t) \/ Check(t) \/ Recheck(t) \/ LastCheck(t)

Next ==
  \/ \E t \in Threads, a \in Addresses \cup {NoName} :
       \/ \E c \in BOOLEAN : SendCall(t, a, c)
       \/ \E p \in Contract!Policies : ReceiveCall(t, a, p)
  \/ \E t \in Threads : Continue(t) \/ SpuriousWake(t) \/ Expire(t)
  \/ Destroy \/ ShutdownNotify \/ Terminated

Spec == Init /\ [][Next]_vars

(* A thread in the middle of a call is scheduled and gets the mutex        *)
(* eventually; the destructor, once entered, completes.  wait_for() keeps  *)
(* one absolute deadline across wake-ups, so no number of notifications    *)
(* postpones it: strong fairness of Expire.  Nobody is obliged to call     *)
(* anything or to destroy the transport.                                   *)
FairSpec ==
  /\ Spec
  /\ \A t \in Threads : WF_vars(Continue(t)) /\ SF_vars(Expire(t))
  /\ WF_vars(ShutdownNotify)
-----------------------------------------------------------------------------
(* Every variable has its type. *)
TypeOK ==
  /\ pc \in [Threads -> PCs]
  /\ op \in [Threads -> Ops]
  /\ res \in [Threads -> Results]
  /\ calls \in [Threads -> 0 .. MaxCalls]
  /\ queues \in [Addresses -> Seq(Envelopes)]
  /\ stopped \in BOOLEAN
  /\ dtor \in {"live", "notify", "gone"}
  /\ accepted \in [Addresses -> Seq(Envelopes)]
  /\ delivered \in [Addresses -> Seq(Envelopes)]

(* Lost wake-ups: a thread is left blocked in the condition variable while *)
(* its predicate holds only as long as some thread still owes a            *)
(* notify_all().  Both notifications happen after the mutex is released,   *)
(* and one condition variable serves all addresses.                        *)
NoLostWakeup ==
  \A t \in Threads :
    (pc[t] = "waiting" /\ Ready(t)) =>
      dtor = "notify" \/ \E u \in Threads : pc[u] = "notify"

(* Per address, what receive() has returned followed by what is still      *)
(* queued is exactly what send() accepted, in that order: no loss, no      *)
(* duplicate, no overtaking, whoever sends and receives.                   *)
FifoPerAddress ==
  \A a \in Addresses : accepted[a] = delivered[a] \o queues[a]

(* A receive() without a timeout never reports Timeout, whatever wakes it. *)
UnboundedNeverTimesOut ==
  \A t \in Threads :
    (pc[t] = "idle" /\ op[t].kind = "receive" /\ op[t].policy = "forever")
      => res[t].status # "Timeout"

(* Once the transport is stopped it neither accepts nor hands out a        *)
(* message, even to calls that were already in flight.                     *)
FrozenAfterStop ==
  [][stopped => UNCHANGED <<queues, accepted, delivered>>]_vars

(* Shutdown unblocks every call in flight. *)
StopUnblocks == stopped ~> (\A t \in Threads : pc[t] = "idle")

(* A message does not lie in a queue for ever while a receiver of that     *)
(* address is blocked.                                                     *)
NoStrandedMessage ==
  \A a \in Addresses :
    (queues[a] # <<>> /\ \E t \in Threads : pc[t] = "waiting" /\ op[t].addr = a)
      ~> (queues[a] = <<>> \/ stopped \/
          \A t \in Threads : pc[t] = "waiting" => op[t].addr # a)

(* The transport implements the contract, its promise of progress included. *)
ImplementsContract == Contract!Spec
=============================================================================
