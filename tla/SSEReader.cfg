SPECIFICATION ReaderSpec
CONSTANTS
  MaxSSELine = 2
  MaxSSEFrame = 3
  Sizes = {1, 2, 3}
  MaxLines = 6
INVARIANTS ReaderTypeOK FramesWhole NoOtherFrameLost
CHECK_DEADLOCK FALSE
