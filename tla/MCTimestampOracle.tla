-------------------------- MODULE MCTimestampOracle --------------------------
(* Instances of TimestampOracle for TLC. *)
EXTENDS TimestampOracleInv, TLC

CONSTANTS n1, n2

MCNode == {n1, n2}

\* No floor, and one in the second batch.
MCFloors == {0, 3}

MCSymmetry == Permutations(MCNode)
=============================================================================
