CONSTANTS
    MaxCalls = 3
    Timeout = 2
    Connect = 1
SPECIFICATION FairSpec
INVARIANTS
    TypeOK
    WaitBounded
    EarlyOnlyIfCut
PROPERTIES
    Returns
CHECK_DEADLOCK FALSE
