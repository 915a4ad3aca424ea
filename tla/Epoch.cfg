CONSTANTS
  MaxReigns = 3
  MaxChecks = 3
SPECIFICATION EpochSpec
INVARIANT TokenWasGood
CHECK_DEADLOCK FALSE
