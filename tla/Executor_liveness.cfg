SPECIFICATION FairSpec
CONSTANTS
  c1 = c1
  c2 = c2
  w1 = w1
  w2 = w2
  None = None
  Clients <- OneClient
  Workers <- MCWorkers
  Keys = {1}
  Priorities = {1}
  Policies = {"kHybridFairPriority"}
  Capacities = {0}
  MaxRetained = 1
  TaskCalls = {}
  MaxIds = 2
  MaxSeq = 0
  MaxRejected = 0
  MaxCanceled = 1
  MaxBadAllocs = 0
  MaxChunks = 2
  MaxBatch = 1
PROPERTIES
  AcceptedTasksFinish
  CallsReturn
