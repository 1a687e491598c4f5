SPECIFICATION FairSpec
CONSTANTS
  x1 = x1  x2 = x2  c1 = c1  c2 = c2
  Rows <- MCRows
  Contracts <- MCContracts
  AttemptLimit = 2
  MaxCrashes = 1
CHECK_DEADLOCK FALSE
INVARIANTS OneAcquisitionPerId OnlyAdmittedIsPromoted SuccessIsPromoted
PROPERTIES CompletedIsFinal KeepsPromise CallsEnd
