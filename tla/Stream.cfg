CONSTANTS
  n1 = n1
  n2 = n2
  Node <- MCNode
  FirstLeader = n1
  Window = 3
  MaxCommits = 3
  MaxStream = 8
  MaxFailovers = 1
  MaxFailures = 1
  MaxTrims = 1
SPECIFICATION FairSpec
INVARIANTS  NoGap
 
CHECK_DEADLOCK FALSE
