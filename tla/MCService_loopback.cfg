SPECIFICATION FairSpec
CONSTANTS
    KnownGroups = {}
    NoAddr      = NoAddr
    Addresses  <- BareLoopback
    Units      <- BareLoopbackUnits
PROPERTIES
    LoopbackUnitComesUp
CHECK_DEADLOCK FALSE
