SPECIFICATION FairSpec
CONSTANTS
  Message = {"small", "limit", "over", "zero", "wrapped"}
  Size <- Sizes
  Base = 2
  Width = 2
  MaxSize = 2
  MaxSends = 4
INVARIANTS
  TypeOK
PROPERTIES
  FramesAreMessages
  FramesArrive
  OversizeEnds
CHECK_DEADLOCK FALSE
