SPECIFICATION Spec
CONSTANTS
  Mode = "brownfield"
  Size = "small"
  Kept <- MCKept
  Features = 2
  MaxRetries = 1
  MaxAsks = 1
  MaxStarts = 2
  MaxCrashes = 0
  MaxLapses = 1
PROPERTIES
  AnsweredStageMovesOn
CHECK_DEADLOCK FALSE
