SPECIFICATION Spec
CONSTANTS
    Stores = {"mas", "dia"}
    Writable = {"mas"}
    Rows <- MCRows
    StoreOf <- MCStoreOf
    Skus = {"own"}
    Prices = {10}
    Answers <- MCAnswers
    Counts = {1, 2}
    Scans = {2}
    Issues = {1, 2}
    Goals = {50, 100}
    SharesUp <- MCSharesUp
    ScansUp <- MCScansUp
    Controls <- MCControls
    Sla = 2
    DayLimit = 3
    LargeScan = 4
    MaxDelta = 200
    MaxAge = 1
    MaxClock = 3
CHECK_DEADLOCK FALSE
INVARIANTS Inv EvidenceBacksWrite PlanReachesGoal
PROPERTIES StopIsObeyed
