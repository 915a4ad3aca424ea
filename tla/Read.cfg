CONSTANTS
  pa = pa
  pb = pb
  r1 = r1
  r2 = r2
  Partition <- MCPartition
  Replica <- MCReplica
  Home = pa
  FirstLeader = r1
  MaxTs = 3
  MaxWrites = 1
  MaxFailovers = 1
  Kinds = {"latest", "exact"}
SPECIFICATION FairSpec
INVARIANTS SteadyReadIsWhole ExactReadIsWhole IntentIsResolved
 

CHECK_DEADLOCK FALSE
