SPECIFICATION FairSpec
CONSTANTS
  Plans <- MCPlans
  ChunksOf <- MCChunksOf
  Items <- MCItems
  Builds <- MCBuilds
  OpenRetries = 1
  IncompleteRetryMax = 1
  CheckMaxRetries = 1
  InstantTurns = FALSE
INVARIANTS
  TypeOK
  WorksOnTheActivePlan
  FiledPlansAreComplete
  EarlierChunksComplete
PROPERTIES
  BuildsPassOnce
  SessionSettles
  KeepsLifecycle
