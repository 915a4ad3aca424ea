-------------------------- MODULE MCCommittedFloor --------------------------
(* Instances of CommittedFloor for TLC. *)
EXTENDS CommittedFloor, TLC

CONSTANTS n1, n2

MCProc == {n1, n2}
MCSymmetry == Permutations(MCProc)
=============================================================================
