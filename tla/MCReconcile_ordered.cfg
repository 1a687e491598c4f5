SPECIFICATION SpecInOrder
CONSTANTS
  s1 = s1  s2 = s2  e1 = e1  e2 = e2  k1 = k1  k2 = k2  q1 = q1  q2 = q2
  t1 = t1  t2 = t2  r1 = r1  r2 = r2  r3 = r3  w1 = w1  w2 = w2
  None = None
  Sources <- MCOneSource
  Eans <- MCEans
  Skus <- MCSkus
  Quotes <- MCQuotes
  Texts <- MCTexts
  Runs <- MCRuns
  Writers <- MCWriters
  SourceOf <- MCOneSourceOf
  Fetches <- MCOneSourceFetches
  BatchSize = 2
  MaxCommits = 3
SYMMETRY WriterSymmetry
CHECK_DEADLOCK FALSE
INVARIANTS OfferIsLatestPoint HistoryRecordsChanges
PROPERTIES LastCheckedNeverGoesBack ReplayChangesNothing
