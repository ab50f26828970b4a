SPECIFICATION Spec
CONSTANTS
    Collections <- SomeCollections
    Surfaces    <- AllSurfaces
    Limits      <- SomeLimits
    MaxItems     = 3
    SomeEvents   = 2
    MaxEvents    = 4
    MaxBytes     = 7
INVARIANTS
    TypeOK
    BoundedAtTheTenant
    WithinCaps
    MarkedWhenCut
    PagingLosesNothing
CHECK_DEADLOCK FALSE
