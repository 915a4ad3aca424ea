--------------------------- MODULE MCTableNumbers ---------------------------
(* An instance of TableNumbers for TLC. *)
EXTENDS TableNumbers, TLC

CONSTANTS n1, n2, n3, t0, t1, t2, t3

MCCreator == {n1, n2, n3}
MCTable == {t0, t1, t2, t3}
MCLegacy == <<t0>>
MCSymmetry == Permutations(MCCreator) \cup Permutations({t1, t2, t3})
=============================================================================
