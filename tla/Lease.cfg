CONSTANTS
  n1 = n1
  n2 = n2
  n3 = n3
  Node <- MCNode
  ElectionTick = 3
  HeartbeatTick = 1
  MaxTime = 6
  MaxTerm = 2
  MaxRestarts = 1
  Downtime = 2
SPECIFICATION Spec
SYMMETRY MCSymmetry
INVARIANT NewestServes
CHECK_DEADLOCK FALSE
