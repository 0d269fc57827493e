CONSTANTS
    Servers = {s1, s2}
    NoServer = NoServer
    MaxFaults = 3
SPECIFICATION FairSpec
INVARIANTS
    TypeOK
    SessionSafe
    CreatedComplete
    ScreensFirst
PROPERTIES
    Shown
    Reenabled
CHECK_DEADLOCK FALSE
