SPECIFICATION FairSpec
CONSTANTS
    KnownGroups = {}
    NoAddr      = NoAddr
    Addresses  <- AnyAddress
    Units      <- AnyUnit
INVARIANTS
    GateWhenConfigured
    TokenFromTheCredential
    ExposureIsAnnounced
PROPERTIES
    StaysDownOnlyWhenTold
    KeepsComingUp
CHECK_DEADLOCK FALSE
