SPECIFICATION Spec
CONSTANTS
  Views <- ManyViews
  Callers = {c1}
  ResolveAfter = 1
  MaxResolved = 2
  MaxTime = 3
  MaxCalls = 3
  MaxRestarts = 0
INVARIANTS
  QuietResolved
CHECK_DEADLOCK FALSE
