CONSTANTS
  t1 = t1
  t2 = t2
  Txn <- MCTxn
  MaxTs = 3
  MaxQueue = 2
  MaxClosed = 2
  MaxRejects = 1
  MaxRestarts = 1
SPECIFICATION Spec
SYMMETRY MCSymmetry
INVARIANTS NeverTooLate SnapshotIsComplete CarriedOutOnce
PROPERTY ClosedStaysClosed
CHECK_DEADLOCK FALSE
