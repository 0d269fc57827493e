SPECIFICATION FairSpec
CONSTANTS
    MaxLists = 3
    MaxRows = 2
INVARIANTS
    TypeOK
    DeclaredIsWritten
PROPERTIES
    PutEnds
\* The lists end with the bound.
CHECK_DEADLOCK FALSE
