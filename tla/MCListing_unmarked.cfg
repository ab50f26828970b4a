SPECIFICATION Spec
CONSTANTS
    Collections <- SomeCollections
    Surfaces    <- OnlyLists
    Limits      <- NoLimits
    MaxItems     = 3
    SomeEvents   = 2
    MaxEvents    = 4
    MaxBytes     = 7
INVARIANTS
    UnmarkedIsComplete
CHECK_DEADLOCK FALSE
