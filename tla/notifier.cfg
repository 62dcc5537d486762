SPECIFICATION FairSpec
CONSTANTS
  Keys = {k1}
  Times = {0, 1, 2, 4}
  Callers = {c1, c2}
  NumSinks = 2
  Dedup = 2
  FlapThreshold = 2
  FlapWindow = 5
  MaxAlerts = 3
INVARIANTS
  DedupSpacing
  FlapBound
  DeliveriesCounted
PROPERTIES
  AlertSettles
CHECK_DEADLOCK FALSE
