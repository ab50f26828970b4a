SPECIFICATION Spec
CONSTANTS
    MaxRetries   = 10
    Policies    <- AnyPolicies
    RetryAfters <- AnyRetryAfters
    Second       = 7
    Half         = 256
INVARIANTS
    TypeOK
    NeverPanics
    WithinMax
    AskedForIsHonoured
    NotInLockstep
CHECK_DEADLOCK FALSE
