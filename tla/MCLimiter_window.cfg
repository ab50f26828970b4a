SPECIFICATION FairSpec
CONSTANTS
    Callers <- TwoCallers
    Burst    = 1
    Budget   = 2
    Window   = 3
INVARIANTS
    HoldCoversWindow
    AtMostOneLateRequest
PROPERTIES
    NobodyStarves
