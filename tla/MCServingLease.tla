--------------------------- MODULE MCServingLease ---------------------------
(* Instances of ServingLease for TLC. *)
EXTENDS ServingLease, TLC

CONSTANTS n1, n2, n3

MCNode == {n1, n2, n3}
MCSymmetry == Permutations(MCNode)
=============================================================================
