---------------------------- MODULE MCMessenger ----------------------------
(* Small instances of Messenger for TLC: every first message of a thread   *)
(* is not a T for the receiver.                                            *)
EXTENDS Messenger, TLC

MCUndecodable == {m \in Msgs : m.nr = 1}

Symmetry == Permutations(Threads)
=============================================================================
