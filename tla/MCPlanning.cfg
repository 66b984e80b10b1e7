SPECIFICATION FairSpec
CONSTANTS
  Mode = "brownfield"
  Size = "small"
  Kept <- MCKept
  Features = 2
  MaxRetries = 1
  MaxAsks = 2
  MaxStarts = 2
  MaxCrashes = 1
  MaxLapses = 1
INVARIANTS
  TypeOK
  WaitingIsAnswerable
PROPERTIES
  NoReexecution
  LedgersGrow
  EvidenceBeforeRecord
  OutlinesBeforeDetails
  RunEnds
  KeepsProgress
CHECK_DEADLOCK FALSE
