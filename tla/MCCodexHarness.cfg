SPECIFICATION FairSpec
CONSTANTS
  Plans <- MCPlans
  ChunksOf <- MCChunksOf
  Items <- MCItems
  Builds <- MCBuilds
  MaxRetries = 2
  BuildRepairMax = 1
INVARIANTS
  TypeOK
  ExecBudget
PROPERTIES
  CompletedChunkIsLeft
  ChunkSettles
  KeepsLifecycle
