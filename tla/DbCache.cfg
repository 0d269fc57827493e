CONSTANTS
    Queries = {q1}
    CashTimes = {0, 2}
    QueryTime = 3
    FailedCash = 3
    PageAge = 2
    PageLife = 3
    Day = 7
    MaxAsks = 3
SPECIFICATION FairSpec
INVARIANTS
    TypeOK
    CashedIsGood
    PageFresh
PROPERTIES
    Released
