SPECIFICATION Spec
CONSTANTS
  NumRules = 5
  NumTerms = 1
  MinRulesPerGroup = 2
  Processors = 4
  KeyOf <- SomeKeys
  High <- SomeHigh
  Answers <- SomeAnswers
  Official = FALSE
  Recent = TRUE
  Pending = Pending
INVARIANTS FindingsAsSequential ReportMatchesAnswers VerdictJustified
PROPERTIES ScanEnds
CHECK_DEADLOCK FALSE
