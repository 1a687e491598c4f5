SPECIFICATION Spec
CONSTANTS
    None = None
    Offers <- MCOffers
    Quotes = {"full", "cut", "promo", "slip", "gone", "small", "smallCut"}
    Answers <- MCAnswers
    Price <- MCPrice
    List <- MCList
    Promo <- MCPromo
    Available <- MCAvailable
    PerDay = 2
    Rules <- MCRules
    HistoryTicks = 5
    MaxPoints = 4
    DigestMax = 1
    MaxTime = 4
    MaxRuns = 3
CHECK_DEADLOCK FALSE
INVARIANTS Inv
PROPERTIES PayloadTellsTheFalls
