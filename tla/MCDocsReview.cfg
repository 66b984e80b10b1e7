\* A sidecar that does not fit the state file, with nobody touching the files.
SPECIFICATION Spec
CONSTANTS
  Engines = {"claude", "codex"}
  Scanned <- Guessed
  Extracted <- Found
  Long <- Longest
  MaxBundle = 2
  MultiSession = TRUE
  Conflicts <- OneConflict
  Overviews = {"d1"}
  Plans <- OnePlan
  MaxStrikes = 2
INVARIANT NoHumanReview
