SPECIFICATION Spec
CONSTANTS
  M = 2
  N = 1
  StaleIndex = 0
INVARIANT EveryItemReadOnce
CHECK_DEADLOCK FALSE
