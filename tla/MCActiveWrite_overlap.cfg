SPECIFICATION Spec
SYMMETRY Operators
CONSTANTS
    w1 = w1
    w2 = w2
    Writers <- MCWriters
    Rows <- MCRows
    Quotes = {0, 1, 2}
    Count = 2
    ScanSize = 2
    MaxDelta = 200
    MaxAge = 3
    NewOffers = {0, 1}
    Overlap = TRUE
    MaxClock = 3
PROPERTIES
    CommitIsWhole
CHECK_DEADLOCK FALSE
