SPECIFICATION Spec
CONSTANTS
  NoName = NoName
  ToolName = {bash, other}
  Frag = {"head", "tail"}
  Index = {0, 1}
  Sizes = {1}
  MaxToolCallBytes = 5
  MaxFrames = 7
  MaxFreeFrames = 3
  Interludes = {"unparsed"}
  ErrorContents <- SomeErrors
SYMMETRY ToolNameSymmetry
INVARIANTS TypeOK SentCallsVerified NoToolUseAfterNote NoCleanCallDropped NoteKeepsContiguity
PROPERTIES GuardSpec
CHECK_DEADLOCK FALSE
