SPECIFICATION FairSpec
CONSTANTS
  WorkerCount = 2
  MaxInterrupts = 2
INVARIANTS
  TypeOK
  NoSurvivor
  ReapsAll
  BrokerToWaitFor
PROPERTY EverythingEnds
\* main returns, or exits after a fork that failed
CHECK_DEADLOCK FALSE
