----------------------------- MODULE TaskLine -----------------------------
(***************************************************************************)
(* What the QRM workflow is to its daemons: a line of tasks.  Each daemon  *)
(* adds one task, tasks may be lost anywhere in the line, and a daemon     *)
(* that prints a result prints the one at the head, whoever sent its task. *)
(***************************************************************************)
EXTENDS Integers, SequencesExt

CONSTANT Daemons     \* a task is named by the daemon that sends it

VARIABLES line,      \* the tasks under way, the oldest first
          printed,   \* printed[d]: whose result daemon d has printed, if any
          sent       \* the tasks that have been sent

Init == line = <<>> /\ printed = [d \in Daemons |-> {}] /\ sent = {}

(* What may be left of a part of the line: the tasks at some of its        *)
(* positions, in their order.                                              *)
Increasing(n) ==
  {at \in SeqOf(1 .. n, n) : \A i, j \in DOMAIN at : i < j => at[i] < at[j]}
Remains(part) == {[i \in DOMAIN at |-> part[at[i]]] : at \in Increasing(Len(part))}

Submit(d) ==
  /\ d \notin sent /\ sent' = sent \cup {d}
  /\ line' \in {line, Append(line, d)}
  /\ UNCHANGED printed

Lose ==
  /\ line' \in Remains(line)
  /\ UNCHANGED <<printed, sent>>

Show(d) ==
  /\ line # <<>> /\ printed[d] = {} /\ d \in sent
  /\ printed' = [printed EXCEPT ![d] = {Head(line)}]
  /\ line' \in Remains(Tail(line))
  /\ UNCHANGED sent

Next == Lose \/ \E d \in Daemons : Submit(d) \/ Show(d)

vars == <<line, printed, sent>>
Spec == Init /\ [][Next]_vars
=============================================================================
