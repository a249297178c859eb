SPECIFICATION FairSpec
CONSTANTS
  c1 = c1
  c2 = c2
  c3 = c3
  Clients = {c1, c2, c3}
  Mortal = {c1}
  SeqLen <- MCSeqLen
  MaxRuns = 2
  Nobody = Nobody
PROPERTIES ImplementsNumbers RequestsKept Served
CHECK_DEADLOCK FALSE
