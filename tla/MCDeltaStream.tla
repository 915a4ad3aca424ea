--------------------------- MODULE MCDeltaStream ----------------------------
(* Instances of DeltaStream for TLC. *)
EXTENDS DeltaStream

CONSTANTS n1, n2

MCNode == {n1, n2}
=============================================================================
