SPECIFICATION FairSpec
CONSTANTS
  Workers = {w1, w2}
  TaskCount = 3
  ProducerCount = 3
  QueueSize = 2
  FrontendHwm = 2
  MaxCrashes = 0
  w1 = w1
  w2 = w2
PROPERTY PendingIsAssigned
CHECK_DEADLOCK FALSE
