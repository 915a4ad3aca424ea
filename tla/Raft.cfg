CONSTANTS
  n1 = n1
  n2 = n2
  n3 = n3
  p1 = p1
  p2 = p2
  NoOp = NoOp
  Node <- MCNode
  Proposal <- MCOneProposal
  Stall = FALSE
  MaxTerm = 2
  MaxCrashes = 1
SPECIFICATION Spec
SYMMETRY MCSymmetry
INVARIANTS HonestAnswer  ReadyIsCurrent  NobodyForgotten
CHECK_DEADLOCK FALSE
