SPECIFICATION MFairSpec
CONSTANTS
  Workers = {w1, w2}
  TaskCount = 3
  ProducerCount = 4
  QueueSize = 1
  FrontendHwm = 1
  MaxCrashes = 0
  MonitorHwm = 1
  MaxSnapshots = 2
  MaxMonitors = 1
  w1 = w1
  w2 = w2
INVARIANTS EverySampleCounted ReportsThePast
PROPERTY ServedBrokerExits
CHECK_DEADLOCK FALSE
