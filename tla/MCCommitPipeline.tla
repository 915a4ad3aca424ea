-------------------------- MODULE MCCommitPipeline --------------------------
(* Instances of CommitPipeline for TLC. *)
EXTENDS CommitPipeline

CONSTANTS t1, t2

MCTxn == {t1, t2}
MCOneTxn == {t1}
MCSymmetry == Permutations(MCTxn)
=============================================================================
