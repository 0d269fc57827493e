CONSTANTS
    Inputs = {1, 2}
    MaxQueue = 4
    MaxFlips = 4
    MaxSessions = 3
SPECIFICATION MCSpec
INVARIANTS
    TypeOK
    SessionSafe
    RecordsBounded
    MirrorsDevice
    CodeFollowsInputs
PROPERTIES
    ImplementsSession
CHECK_DEADLOCK FALSE
