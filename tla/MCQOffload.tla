---------------------------- MODULE MCQOffload ----------------------------
(***************************************************************************)
(* Small instances of QOffload for TLC.  Two direct clients use the same   *)
(* (negative) task id and different result queues; identifiers are 0, 4    *)
(* and 8 plus the instance uid.                                            *)
(***************************************************************************)
EXTENDS QOffload

CONSTANTS d1, d2, c1, A, B

MCOrigin == [j \in DirectJobs |-> [id |-> -3, dest |-> IF j = d1 THEN A ELSE B]]
SameUid == [n \in Incarnations |-> 1]
NewUidEachStart == [n \in Incarnations |-> n]
=============================================================================
