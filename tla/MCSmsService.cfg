CONSTANTS
    Calls = {c1, c2, c3}
    PollTicks = 4
SPECIFICATION MCFairSpec
INVARIANTS
    TypeOK
    CountExact
    OrderKept
    QueriesBounded
PROPERTIES
    IdKept
    Settled
CHECK_DEADLOCK FALSE
