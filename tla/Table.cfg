CONSTANTS
  n1 = n1
  n2 = n2
  n3 = n3
  t0 = t0
  t1 = t1
  t2 = t2
  t3 = t3
  NoTable = NoTable
  Creator <- MCCreator
  Table <- MCTable
  Legacy <- MCLegacy
  MaxAttempts = 2
  MaxNumber = 6
  MaxFaults = 2
SPECIFICATION NumberSpec
SYMMETRY MCSymmetry
INVARIANTS UniqueNumbers 
CHECK_DEADLOCK FALSE
