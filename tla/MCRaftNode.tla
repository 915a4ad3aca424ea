----------------------------- MODULE MCRaftNode -----------------------------
(* Instances of RaftNode for TLC. *)
EXTENDS RaftNode, TLC

CONSTANTS n1, n2, n3, p1, p2

MCNode == {n1, n2, n3}
MCTwoNode == {n1, n2}
MCProposal == {p1, p2}
MCOneProposal == {p1}
MCSymmetry == Permutations(MCNode)
MCTwoSymmetry == Permutations(MCTwoNode) \cup Permutations(MCProposal)
=============================================================================
