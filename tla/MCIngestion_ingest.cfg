SPECIFICATION Spec
CONSTANTS
    Sources = {"a", "dia"}
    Eans = {"e1", "e2", "e3"}
    Quotes = {"plain", "fine", "garbled", "free", "spike", "old"}
    None = None
    Unpriced = {"free"}
    Garbled = {"garbled"}
    Spiked = {"spike"}
    StoredAs <- MCStoredAs
    Damaged = "dia"
    DefaultTerms <- MCDefaultTerms
    Phase4Term = "leche"
    Phase4Count = 2
    MaxCount = 2
    MaxScan = 2
    Products = {"e1", "e2"}
    Worlds <- MCWorlds
    Commands <- MCCommands
    AuditRequests <- MCAuditRequests
    Limit = 2
    Moves <- MCMoves
    OtherWrites <- MCOtherWrites
    MaxBatches = 2
    MaxMoves = 1
    MaxOthers = 1
CHECK_DEADLOCK FALSE
INVARIANTS Inv
PROPERTIES PromotesExpected WritesWhatWasAudited PlanUndoesWrite
