SPECIFICATION Spec
SYMMETRY Operators
CONSTANTS
    w1 = w1
    w2 = w2
    Writers <- MCWriters
    Rows <- MCRows
    Quotes = {1}
    Count = 1
    ScanSize = 2
    MaxDelta = 200
    MaxAge = 3
    NewOffers = {0}
    Overlap = TRUE
    MaxClock = 4
INVARIANTS
    WrittenOnce
CHECK_DEADLOCK FALSE
