CONSTANTS
  t1 = t1
  t2 = t2
  t3 = t3
  j = j
  k = k
  Txn <- MCTxn
  Key <- MCOneKey
  MaxTs = 3
SPECIFICATION Spec
SYMMETRY MCSymmetry
INVARIANTS LocalReadsAreCurrent CurrentWhenInOrder
CHECK_DEADLOCK FALSE
