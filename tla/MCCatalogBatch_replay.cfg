SPECIFICATION Spec
CONSTANTS
  x1 = x1  x2 = x2  c1 = c1  c2 = c2
  Rows <- MCRows
  Contracts <- MCOneContract
  AttemptLimit = 1
  MaxCrashes = 0
CHECK_DEADLOCK FALSE
INVARIANTS CompletedReplays
