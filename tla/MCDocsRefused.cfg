\* A failed resume in Phase 2.
SPECIFICATION Spec
CONSTANTS
  Engines = {"claude", "codex"}
  Scanned <- Guessed
  Extracted <- Found
  Long <- Longest
  MaxBundle = 2
  MultiSession = TRUE
  Conflicts <- OneConflict
  Overviews = {"d1"}
  Plans <- OnePlan
  MaxStrikes = 2
PROPERTY FailedResumeEndsRun
