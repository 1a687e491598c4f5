SPECIFICATION Spec
CONSTANTS
    w1 = w1
    w2 = w2
    Writers = {w1}
    Rows <- MCRows
    Quotes = {1, 4}
    Count = 1
    ScanSize = 2
    MaxDelta = 200
    MaxAge = 3
    NewOffers = {0}
    Overlap = FALSE
    MaxClock = 4
CHECK_DEADLOCK FALSE
INVARIANTS QuietInv
PROPERTIES WrittenIsLatestPoint RollbackDeletesOnlyTheWrite
