SPECIFICATION Spec
CONSTANTS
  NoName = NoName
  ToolName = {bash, other}
  Frag = {}
  Key = {a, b}
  Frames <- ManyFrames
SYMMETRY Renaming
INVARIANTS ForwardedIsInspected CallsAreChecked
CHECK_DEADLOCK FALSE
