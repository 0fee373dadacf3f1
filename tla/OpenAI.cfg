SPECIFICATION Spec
CONSTANTS
  NoName = NoName
  ToolName = {bash, other}
  Frag = {"head", "tail"}
  Index = {0, 1}
  Sizes = {1}
  MaxToolCallBytes = 2
  MaxFrames = 5
  MaxFreeFrames = 2
  OtherContents <- SomeContents
SYMMETRY ToolNameSymmetry
INVARIANTS SentCallsVerified TextDelivered EndsCleanly
PROPERTIES GuardSpec
CHECK_DEADLOCK FALSE
