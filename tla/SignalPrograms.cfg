SPECIFICATION FairSpec
CONSTANTS
  NumSigs = 3
  MaxCalls = 3
  MaxSent = 2
INVARIANTS TestPasses SigsetRight TakeTurns
PROPERTIES Finishes
CHECK_DEADLOCK FALSE
