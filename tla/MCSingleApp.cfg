CONSTANTS
    Procs = {p1, p2, p3}
    NoProc = NoProc
    Crashes = TRUE
SPECIFICATION MCFair
INVARIANTS
    TypeOK
    CreateSucceeds
    NewestSurvives
    OneUnlessOverlap
PROPERTIES
    LoneStartServed
CHECK_DEADLOCK FALSE
