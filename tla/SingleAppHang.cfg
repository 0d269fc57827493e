CONSTANTS
    Procs = {p1, p2, p3}
    NoProc = NoProc
    Crashes = FALSE
SPECIFICATION FairSpec
PROPERTIES
    StartServed
CHECK_DEADLOCK FALSE
