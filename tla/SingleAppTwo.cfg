CONSTANTS
    Procs = {p1, p2, p3}
    NoProc = NoProc
    Crashes = FALSE
SPECIFICATION Spec
INVARIANTS
    AtMostOne
CHECK_DEADLOCK FALSE
