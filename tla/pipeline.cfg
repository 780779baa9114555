SPECIFICATION FairSpec
CONSTANTS
  p = p
  r = r
  t = t
  None = None
  Node = {p, r}
  Peers <- PairTable
  Primary = p
  OutCap = 11
  PeerCap = 1
  SocketCap = 1
  InCap = 1
  Interval = 1
  MaxSubmits = 3
  Hangable = {r}
INVARIANTS
  TypeOK
  PrimaryNeverWaits
PROPERTIES
  InOrder
  
CHECK_DEADLOCK FALSE
