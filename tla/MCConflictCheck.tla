-------------------------- MODULE MCConflictCheck ---------------------------
(* Instances of ConflictCheck for TLC. *)
EXTENDS ConflictCheck, TLC

CONSTANTS t1, t2, t3, j, k

MCTxn == {t1, t2, t3}
MCTwoTxn == {t1, t2}
MCKey == {j, k}
MCOneKey == {k}
MCSymmetry == Permutations({t1, t2, t3})
MCTwoSymmetry == Permutations({t1, t2}) \cup Permutations({j, k})
=============================================================================
