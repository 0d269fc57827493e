CONSTANTS
    Inputs = {1}
    MaxQueue = 2
SPECIFICATION FairSpec
PROPERTIES
    SessionBecomesReady
