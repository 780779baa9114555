SPECIFICATION Spec
CONSTANTS
  p0 = p0
  r1 = r1
  r2 = r2
  r3 = r3
  a = a
  b = b
  c = c
  None = None
  Replica = {p0, r1, r2}
  replicas <- Three
  Request = {a, b}
  CheckpointInterval = 3
  Started = {p0, r1, r2}
  Restartable = {p0}
  Unstable = {p0}
  MaxSeq = 2
  MaxView = 1
  MaxSubmits = 2
  MaxFaults = 1
CONSTRAINT TimerOrFault
SYMMETRY Requests
INVARIANTS
  TypeOK
  SingleOrderer
  VotesOnce
PROPERTIES
  NoOrderAfterViewChange
CHECK_DEADLOCK FALSE
