CONSTANTS
  t1 = t1
  t2 = t2
  p1 = p1
  p2 = p2
  r1 = r1
  r2 = r2
  NoLeader = NoLeader
  Txn <- MCTxn1
  Part <- MCPart2
  Rep <- MCRep
  Participants <- MCParticipants
  ValidatesReads = {t1}
  TS <- MCTS
  EarlyAck = {}
  Deliveries = 1
  MaxFailovers = 1
  GraceCoversStragglers = TRUE
SPECIFICATION FairSpec
INVARIANTS    CommitIsBacked AckedIsDurable
PROPERTIES  CommitReachesAll
CHECK_DEADLOCK FALSE
