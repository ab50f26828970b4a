SPECIFICATION Spec
CONSTANTS
    KnownGroups <- TwoGroups
    Tenants     <- SomeNames
    URLs        <- SomeURLs
    LevelNames  <- SomeLevels
    GroupLists  <- ShortLists
INVARIANTS
    TypeOK
    TokenIsTheOneAskedFor
    GateIsUpWhenNamed
    TenantIsTheOneNamed
    ExplicitLevelWins
CHECK_DEADLOCK FALSE
