SPECIFICATION Spec
CONSTANTS
  c1 = c1
  c2 = c2
  w1 = w1
  w2 = w2
  None = None
  Clients <- OneClient
  Workers <- MCWorkers
  Keys = {}
  Priorities = {0, 2}
  Policies = {"kPriority"}
  Capacities = {0, 1}
  MaxRetained = 1
  TaskCalls = {"Submit", "SubmitEx"}
  MaxIds = 1
  MaxSeq = 2
  MaxRejected = 1
  MaxCanceled = 2
  MaxBadAllocs = 2
  MaxChunks = 0
  MaxBatch = 1
SYMMETRY Symmetry
INVARIANTS
  TypeOK
  NoTaskLostOrDuplicated
  WorkConserving
  StatsBalance
  WaitAllWaitsForAll
  ReleaseDrains
