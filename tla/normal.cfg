SPECIFICATION FairSpec
CONSTANTS
  p0 = p0
  r1 = r1
  r2 = r2
  r3 = r3
  a = a
  b = b
  c = c
  None = None
  Replica = {p0, r1, r2, r3}
  replicas <- Four
  Request = {a, b}
  CheckpointInterval = 2
  Started = {p0, r1, r2}
  Restartable = {}
  Unstable = {}
  MaxSeq = 2
  MaxView = 0
  MaxSubmits = 2
  MaxFaults = 0
INVARIANTS
  InSequenceAtFirst
  SequenceInv
  ExecutedOnce
  CheckpointsAgree
PROPERTIES
  RequestsExecute
CHECK_DEADLOCK FALSE
