------------------------- MODULE TransportContract -------------------------
(***************************************************************************)
(* What Transport::send and Transport::receive promise to the threads that *)
(* call them, for a transport that lives in one process                    *)
(* (include/mqss/transport/Transport.hpp).  A call is invoked, takes       *)
(* effect exactly once and atomically, and returns.  Each address is a     *)
(* FIFO channel; closing the transport refuses every call that has not yet *)
(* taken effect.                                                           *)
(***************************************************************************)
EXTENDS Naturals, Sequences

CONSTANTS Threads,      \* the threads that share the transport
          Addresses,    \* non-empty queue names
          Envelopes,    \* message identities
          NoName,       \* the empty queue name
          NoEnvelope    \* "no message in this result"

(* The three timeout policies of ReceiveArgs: 0 ms, > 0 ms, no value. *)
Policies == {"poll", "timed", "forever"}

SendOps == [kind : {"send"}, addr : Addresses \cup {NoName},
            confirm : BOOLEAN, env : Envelopes]
ReceiveOps == [kind : {"receive"}, addr : Addresses \cup {NoName},
               policy : Policies]
Ops == SendOps \cup ReceiveOps

(* The status codes these two operations can produce, with the message of *)
(* a successful receive.                                                   *)
Result(status, env) == [status |-> status, env |-> env]
Results == [status : {"Ok", "Timeout", "Unavailable", "Unsupported",
                      "InvalidArgument"},
            env : Envelopes \cup {NoEnvelope}]

VARIABLES
  phase,    \* phase[t]: "idle", "called" or "done" (took effect, not returned)
  op,       \* op[t]: the current or last admissible operation of t
  ret,      \* ret[t]: the result of t's last operation
  chan,     \* chan[a]: messages accepted for a and not yet delivered
  closed    \* the transport has been shut down

vars == <<phase, op, ret, chan, closed>>

Init ==
  /\ phase = [t \in Threads |-> "idle"]
  /\ op \in [Threads -> Ops]
  /\ ret \in [Threads -> Results]
  /\ chan = [a \in Addresses |-> <<>>]
  /\ closed = FALSE

(* A thread may call the transport only while the object exists. *)
Call(t, o) ==
  /\ phase[t] = "idle"
  /\ ~closed
  /\ o.addr # NoName
  /\ o.kind = "send" => ~o.confirm
  /\ phase' = [phase EXCEPT ![t] = "called"]
  /\ op' = [op EXCEPT ![t] = o]
  /\ UNCHANGED <<ret, chan, closed>>

(* An empty name, or a confirmation the transport does not offer, is       *)
(* answered at once and changes nothing.                                   *)
Reject(t, o) ==
  /\ phase[t] = "idle"
  /\ ~closed
  /\ o.addr = NoName \/ (o.kind = "send" /\ o.confirm)
  /\ ret' = [ret EXCEPT ![t] =
       Result(IF o.addr = NoName THEN "InvalidArgument" ELSE "Unsupported",
              NoEnvelope)]
  /\ UNCHANGED <<phase, op, chan, closed>>

Pending(t, kind) == phase[t] = "called" /\ op[t].kind = kind /\ ~closed

(* The effect of a call fixes its result; the thread returns now or later. *)
Finish(t, r) ==
  /\ \E p \in {"done", "idle"} : phase' = [phase EXCEPT ![t] = p]
  /\ ret' = [ret EXCEPT ![t] = r]
  /\ UNCHANGED <<op, closed>>

Accept(t) ==
  /\ Pending(t, "send")
  /\ chan' = [chan EXCEPT ![op[t].addr] = Append(@, op[t].env)]
  /\ Finish(t, Result("Ok", NoEnvelope))

Deliver(t) ==
  /\ Pending(t, "receive")
  /\ chan[op[t].addr] # <<>>
  /\ chan' = [chan EXCEPT ![op[t].addr] = Tail(@)]
  /\ Finish(t, Result("Ok", Head(chan[op[t].addr])))

(* Only a bounded receive may give up, and only on an empty channel. *)
GiveUp(t) ==
  /\ Pending(t, "receive")
  /\ op[t].policy # "forever"
  /\ chan[op[t].addr] = <<>>
  /\ UNCHANGED chan
  /\ Finish(t, Result("Timeout", NoEnvelope))

Refuse(t) ==
  /\ phase[t] = "called" /\ closed
  /\ UNCHANGED chan
  /\ Finish(t, Result("Unavailable", NoEnvelope))

Return(t) ==
  /\ phase[t] = "done"
  /\ phase' = [phase EXCEPT ![t] = "idle"]
  /\ UNCHANGED <<op, ret, chan, closed>>

Close ==
  /\ ~closed
  /\ closed' = TRUE
  /\ UNCHANGED <<phase, op, ret, chan>>

Effect(t) == Accept(t) \/ Deliver(t) \/ GiveUp(t) \/ Refuse(t)

Next ==
  \/ \E t \in Threads : \/ \E o \in Ops : Call(t, o) \/ Reject(t, o)
                        \/ Effect(t) \/ Return(t)
  \/ Close

(* Safety part, and the promise that a call which can take effect does.    *)
SafeSpec == Init /\ [][Next]_vars
Spec == SafeSpec /\ \A t \in Threads : WF_vars(Effect(t)) /\ WF_vars(Return(t))
=============================================================================
