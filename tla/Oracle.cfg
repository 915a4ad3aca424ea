CONSTANTS
  n1 = n1
  n2 = n2
  Node <- MCNode
  Floors <- MCFloors
  BatchSize = 2
  Start = 1
  MaxTs = 5
  MaxIssued = 2
  MaxEpochs = 1
SPECIFICATION Spec
SYMMETRY MCSymmetry
INVARIANTS NodeMonotone Fenced Unique
CHECK_DEADLOCK FALSE
