SPECIFICATION Spec
CONSTANTS
    Calls         = {c1}
    Verbs        <- AllVerbs
    OnceVerbs    <- NonIdempotent
    Effects       = {first, second}
    GroupChoices <- SomeGroups
INVARIANTS
    OnlyWhatIsAllowed
    ReadOnlyIsReadOnly
    EveryActionWorks
    NoCollectionWideChange
    AuditIsTrue
CHECK_DEADLOCK FALSE
