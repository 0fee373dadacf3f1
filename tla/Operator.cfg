SPECIFICATION Spec
CONSTANTS
  Keep = 2
  Unused = Unused
  Managed = {r1, r2}
  Standalone = {s1}
  NoOne = NoOne
  Windows = TRUE
  Changing = {"bad process", "bad address", "public socks", "no connections"}
  MaxChanges = 2
  MaxCalls = 1
INVARIANTS ActivityKeepsLast DecisionsRecorded AlertsFollowReadings
PROPERTIES FlaggedIsTold
CHECK_DEADLOCK FALSE
