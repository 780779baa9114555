SPECIFICATION Spec
CONSTANTS
  p0 = p0
  r1 = r1
  r2 = r2
  r3 = r3
  a = a
  b = b
  c = c
  None = None
  Replica = {p0, r1, r2, r3}
  replicas <- Four
  Request = {a}
  CheckpointInterval = 1
  Started = {p0, r1, r2}
  Restartable = {r1}
  Unstable = {p0, r1}
  MaxSeq = 1
  MaxView = 0
  MaxSubmits = 1
  MaxFaults = 2
INVARIANTS
  Certificates
CHECK_DEADLOCK FALSE
