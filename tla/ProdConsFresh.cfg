SPECIFICATION FairSpec
CONSTANTS
  M = 3
  N = 1
  StaleIndex = 0
INVARIANTS
  TypeOK
  Exclusion
  PopFindsItem
PROPERTY Terminates
\* the processes exit
CHECK_DEADLOCK FALSE
