SPECIFICATION Spec
CONSTANTS
  M = 2
  N = 2
  StaleIndex = 3
INVARIANT IndexMatchesSemaphore
CHECK_DEADLOCK FALSE
