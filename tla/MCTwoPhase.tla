----------------------------- MODULE MCTwoPhase -----------------------------
(* Instances of TwoPhase for TLC. *)
EXTENDS TwoPhaseInv, TLC

CONSTANTS t1, t2, p1, p2, r1, r2

MCTxn1 == {t1}
MCTxn2 == {t1, t2}
MCPart1 == {p1}
MCPart2 == {p1, p2}
MCRep == {r1, r2}

\* Every transaction writes every partition; the oracle ordered t2 after t1.
MCParticipants == [t \in Txn |-> Part]
MCTS == [t \in Txn |-> IF t = t1 THEN 1 ELSE 2]

\* Replicas of a group are interchangeable.
MCSymmetry == Permutations(MCRep)
=============================================================================
