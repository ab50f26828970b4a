SPECIFICATION Spec
CONSTANTS
    Requests   = {r1}
    Modes     <- OnlyHTTP
    Verbs     <- OnlyPost
    OnceVerbs <- OnlyPost
    Effects   <- OneEffect
    Grace      = 2
PROPERTIES
    InFlightGetsTheGrace
CHECK_DEADLOCK FALSE
