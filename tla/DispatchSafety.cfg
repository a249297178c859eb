SPECIFICATION Spec
CONSTANTS
  Workers = {w1, w2, w3}
  TaskCount = 5
  ProducerCount = 5
  QueueSize = 2
  FrontendHwm = 2
  MaxCrashes = 2
  w1 = w1
  w2 = w2
  w3 = w3
SYMMETRY Symmetry
INVARIANTS
  TypeOK
  CountersAgree
  EveryTaskInOnePlace
  OneTokenPerWorker
  PendingHasServer
  ExitSettlesEverything
PROPERTY ImplementsLedger
CHECK_DEADLOCK FALSE
