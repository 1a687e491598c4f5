SPECIFICATION Spec
CONSTANTS
  m1 = m1  m2 = m2
  Runners <- MCRunners
  KeepAssets = 2
  MaxDay = 3
  MaxRuns = 4
SYMMETRY RunnerSymmetry
CHECK_DEADLOCK FALSE
INVARIANTS WithheldStaysOut
PROPERTIES ScheduledOncePerDay OnlyUploadsPart EarlierDaysAreKept DigestIsPublished
