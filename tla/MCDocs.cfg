\* One domain: three features in two bundles, a contradiction, an overview and a plan.
SPECIFICATION FairSpec
CONSTANTS
  Engines = {"claude", "codex"}
  Scanned <- Guessed
  Extracted <- Found
  Long <- Longest
  MaxBundle = 2
  MultiSession = TRUE
  Conflicts <- OneConflict
  Overviews = {"d1"}
  Plans <- OnePlan
  MaxStrikes = 2
INVARIANTS
  TypeOK
  PhaseOrder
PROPERTIES
  NoStepRedone
  ProgressKept
  KeepsProgress
  WaitingPreserved
  RunEnds
