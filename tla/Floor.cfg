CONSTANTS
  n1 = n1
  n2 = n2
  Proc <- MCProc
  CommitTs = {1, 2, 3}
  MaxFailures = 1
SPECIFICATION FairFloorSpec
INVARIANTS OneFlusher NothingForgotten
PROPERTIES FloorNeverFalls FloorPublished
CHECK_DEADLOCK FALSE
