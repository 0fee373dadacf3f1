SPECIFICATION SmallSpec
CONSTANTS
  Window = 4
  Overlap = 2
  MaxLen = 7
  Key = {k}
INVARIANTS NothingLost
PROPERTIES LoopEnds
CHECK_DEADLOCK FALSE
