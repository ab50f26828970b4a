SPECIFICATION Spec
CONSTANTS
    Calls      = {c1, c2}
    Timely     = {c1, c2}
    NoCall     = NoCall
    MaxRetries = 1
    Verbs     <- OnlyPut
    Statuses  <- NoRefusal
PROPERTIES
    RepeatIsHarmless
CHECK_DEADLOCK FALSE
