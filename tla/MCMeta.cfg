SPECIFICATION FairSpec
CONSTANTS
  Plans <- MCPlans
  ChunksOf <- MCChunksOf
  Items <- MCItems
  Builds <- MCNoBuilds
  DocsSetup = 1
  Manual = TRUE
  MaxStarts = 3
INVARIANTS
  TypeOK
  StepsInOrder
PROPERTIES
  FiledStaysFiled
  ImplementationEnds
CHECK_DEADLOCK FALSE
