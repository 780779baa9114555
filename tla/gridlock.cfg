SPECIFICATION FairSpec
CONSTANTS
  p = p
  r = r
  t = t
  None = None
  Node = {p, r, t}
  Peers <- TripleTable
  Primary = p
  OutCap = 11
  PeerCap = 1
  SocketCap = 1
  InCap = 1
  Interval = 1
  MaxSubmits = 25
  Hangable = {}
CONSTRAINT ClientsWhileJammed
PROPERTIES
  AllHandled
CHECK_DEADLOCK FALSE
