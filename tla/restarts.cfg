SPECIFICATION Spec
CONSTANTS
  p0 = p0
  r1 = r1
  r2 = r2
  r3 = r3
  a = a
  b = b
  c = c
  None = None
  Replica = {p0, r1}
  replicas <- Two
  Request = {a, b, c}
  CheckpointInterval = 1
  Started = {p0, r1}
  Restartable = {r1}
  Unstable = {p0, r1}
  MaxSeq = 5
  MaxView = 0
  MaxSubmits = 5
  MaxFaults = 1
SYMMETRY Requests
INVARIANTS
  Agreement
  OrderInv
  LogWindow
PROPERTIES
  InstancesAdvance
  ImplementsLedger
  ExhaustedForGood
CHECK_DEADLOCK FALSE
