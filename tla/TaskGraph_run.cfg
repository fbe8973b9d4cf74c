SPECIFICATION FairSpec
CONSTANTS
  MaxNodes = 3
  MaxEdges = 6
  Caps = {0, 1, 2}
INVARIANTS
  TypeOK
  ValidateFindsCycles
  DependenciesRespected
  ConcurrencyCapped
  NoNodeOutlivesRun
PROPERTIES
  StatsTellWhatRan
  ValidatedRunsThrough
  RunReturns
