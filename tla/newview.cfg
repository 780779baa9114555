SPECIFICATION FairSpec
CONSTANTS
  p0 = p0
  r1 = r1
  r2 = r2
  r3 = r3
  a = a
  b = b
  c = c
  None = None
  Replica = {p0, r1, r2, r3}
  replicas <- Four
  Request = {a, b}
  CheckpointInterval = 1
  Started = {p0, r1, r2, r3}
  Restartable = {}
  Unstable = {}
  MaxSeq = 0
  MaxView = 2
  MaxSubmits = 0
  MaxFaults = 0
INVARIANTS
  NewViewBacked
  NoViewSkipped
PROPERTIES
  NewViewSpreads
CHECK_DEADLOCK FALSE
