SPECIFICATION FairSpec
CONSTANTS
    MaxSessions = 3
    MaxUnderWay = 2
INVARIANTS
    TypeOK
    ExecWhenReady
PROPERTIES
    Recovers
    Reconnects
