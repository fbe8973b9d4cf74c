SPECIFICATION Spec
CONSTANTS
  c1 = c1
  c2 = c2
  w1 = w1
  w2 = w2
  None = None
  Clients <- MCClients
  Workers <- MCWorkers
  Keys = {1}
  Priorities = {1}
  Policies = {"kFifo"}
  Capacities = {0, 1}
  MaxRetained = 1
  TaskCalls = {}
  MaxIds = 2
  MaxSeq = 0
  MaxRejected = 0
  MaxCanceled = 1
  MaxBadAllocs = 1
  MaxChunks = 0
  MaxBatch = 1
SYMMETRY Symmetry
INVARIANTS
  SerialKeysExclusive
  CanceledNeverRuns
  StatesRetained
