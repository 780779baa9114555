SPECIFICATION Spec
CONSTANTS
  p0 = p0
  r1 = r1
  r2 = r2
  r3 = r3
  a = a
  b = b
  c = c
  None = None
  Replica = {p0, r1, r2, r3}
  replicas <- Four
  Request = {a, b}
  CheckpointInterval = 2
  Started = {p0, r1, r2, r3}
  Restartable = {p0}
  Unstable = {p0}
  MaxSeq = 1
  MaxView = 0
  MaxSubmits = 2
  MaxFaults = 2
CONSTRAINT RestartAfterExecution
INVARIANTS
  Agreement
CHECK_DEADLOCK FALSE
