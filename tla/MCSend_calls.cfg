SPECIFICATION FairSpec
CONSTANTS
    Calls      = {c1, c2}
    Timely     = {c1}
    NoCall     = NoCall
    MaxRetries = 1
    Verbs     <- OneOfAKind
    Statuses  <- AllStatuses
INVARIANTS
    AtMostOnce
    OkMeansApplied
    RefusedMeansUntouched
    SettledUnlessLost
    DoubtOnlyAfterARetry
PROPERTIES
    ImplementsContract
    EveryCallReturns
    CancelledCallReturns
CHECK_DEADLOCK FALSE
