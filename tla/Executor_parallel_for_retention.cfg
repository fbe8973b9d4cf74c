SPECIFICATION Spec
CONSTANTS
  c1 = c1
  c2 = c2
  w1 = w1
  w2 = w2
  None = None
  Clients <- OneClient
  Workers <- MCWorkers
  Keys = {}
  Priorities = {1}
  Policies = {"kHybridFairPriority"}
  Capacities = {0}
  MaxRetained = 1
  TaskCalls = {}
  MaxIds = 1
  MaxSeq = 0
  MaxRejected = 0
  MaxCanceled = 0
  MaxBadAllocs = 0
  MaxChunks = 3
  MaxBatch = 1
SYMMETRY Symmetry
PROPERTIES
  ParallelForBlocks
