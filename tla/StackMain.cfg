SPECIFICATION MainFairSpec
CONSTANTS
  Pushers = {p1, p2}
  Poppers = {c1, c2}
  StackSize = 2
  PushCalls = 2
  PopCalls = 2
INVARIANTS TypeOK SomeoneAwake
PROPERTIES ImplementsStack MyImplementsStack MainReturns
\* the threads end
CHECK_DEADLOCK FALSE
