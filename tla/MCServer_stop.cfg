SPECIFICATION FairSpec
CONSTANTS
    Requests   = {r1, r2}
    Modes     <- BothModes
    Verbs     <- OnlyPost
    OnceVerbs <- OnlyPost
    Effects   <- OneEffect
    Grace      = 1
INVARIANTS
    GateIsExact
    CleanExitCutsNobody
PROPERTIES
    ImplementsLifecycle
    StopsWhenTold
CHECK_DEADLOCK FALSE
