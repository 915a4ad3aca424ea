CONSTANTS
  t1 = t1
  t2 = t2
  p1 = p1
  p2 = p2
  r1 = r1
  r2 = r2
  NoLeader = NoLeader
  Txn <- MCTxn2
  Part <- MCPart1
  Rep <- MCRep
  Participants <- MCParticipants
  ValidatesReads = {t2}
  TS <- MCTS
  EarlyAck = {t2}
  Deliveries = 1
  MaxFailovers = 2
  GraceCoversStragglers = TRUE
SPECIFICATION Spec
SYMMETRY MCSymmetry
 
PROPERTY ImplementsAtomicCommit
CHECK_DEADLOCK FALSE
