SPECIFICATION Spec
CONSTANTS
    Sources <- MCSources
    Trees = {"first", "shrunk"}
    Tree <- MCTree
    Allowlist <- MCAllowlist
    Override <- MCOverride
    MaxBatches = 1
    Wide = TRUE
    FrozenPlan <- MCFrozenPlan
    PageSize = 1
    PageCap = 3
    Words <- MCWords
    RefreshSources <- MCRefreshSources
    VtexSources = {"A"}
    PromoSource = "A"
    Promoted = {"o1"}
    Offers <- MCOffers
    StoreOf <- MCStoreOf
    AnswersTo <- MCAnswersTo
    Explicit = "hC"
    Accepts <- MCAccepts
    Offered <- MCOffered
    FreshnessFloor = 50
    ReadFailureRatio = 50
    EmptyFloor = 1
    EmptyRatio = 10
    Faults = {"trees", "hash", "die", "write"}
    MinBatches = 1
    Cycle = 2
INVARIANTS Inv PublishedStoreIsFresh ClashHasCause CoveredInWindow
PROPERTIES PriceLostOnAnswer
