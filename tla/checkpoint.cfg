SPECIFICATION Spec
CONSTANTS
  p0 = p0
  r1 = r1
  r2 = r2
  r3 = r3
  a = a
  b = b
  c = c
  None = None
  Replica = {p0, r1, r2, r3}
  replicas <- Four
  Request = {a}
  CheckpointInterval = 1
  Started = {p0, r1, r2, r3}
  Restartable = {}
  Unstable = {}
  MaxSeq = 1
  MaxView = 0
  MaxSubmits = 1
  MaxFaults = 0
SYMMETRY Backups
INVARIANTS
  StableBacked
CHECK_DEADLOCK FALSE
