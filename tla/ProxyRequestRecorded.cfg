SPECIFICATION Spec
CONSTANTS
  MaxInt = 7
  Lengths = {0, 3, 4}
  Limits = {0, 2}
  DefaultLimit = 3
  RecordLimit = 2
  Managed = TRUE
  MaxRedirects = 1
INVARIANTS NeverTruncated
CHECK_DEADLOCK FALSE
