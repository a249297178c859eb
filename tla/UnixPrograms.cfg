SPECIFICATION FairSpec
CONSTANTS
  PipeSize = 2
  OpenMax = 9
  Programs <- MCPrograms
INVARIANTS TypeOK Transcript RightChildren
PROPERTIES NoChildLeft Finishes
CHECK_DEADLOCK FALSE
