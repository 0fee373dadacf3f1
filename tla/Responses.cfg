SPECIFICATION Spec
CONSTANTS
  NoName = NoName
  ToolName = {bash, other}
  Frag = {"head", "tail"}
  Id = {a, b}
  NoId = NoId
  Contents <- SomeContents
  Sizes = {1}
  MaxToolCallBytes = 3
  MaxItems = 2
  MaxFrames = 5
  MaxFreeFrames = 2
  Finals <- OneItem
  ErrorContents <- SomeErrors
SYMMETRY ToolNameSymmetry
INVARIANTS SentCallsVerified NoFrameAfterError CompletedIsLast
PROPERTIES GuardSpec
CHECK_DEADLOCK FALSE
