SPECIFICATION Spec
CONSTANTS
  Names = {n1, n2}
  LogNames = {n2}
  Times = {0, 1, 2, 3}
  Batches = {{0, 1, 2}, {0, 3}}
  Loud = {0, 1, 2}
  Workers = {w1, w2}
  MaxResults = 2
  MaxResultJobs = 1
  MaxJobs = 2
  MaxHandles = 2
  MaxCalls = 2
  MaxStarts = 1
SYMMETRY Alike
INVARIANTS
  ListsStand
  AnomalyCorrelated
  NotRepeated
CHECK_DEADLOCK FALSE
