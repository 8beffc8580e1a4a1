SPECIFICATION LiveSpec
CONSTANTS
    Keys = {k1}
    NoKey = nokey
    NoSub = nosub
    Scoped = FALSE
    Axios = TRUE
    LogSize = 1
    Verdicts = {TRUE, FALSE}
    MaxRev = 1
    MaxFaults = 1
    MaxMoves = 2
PROPERTY EventuallyCaughtUp
CHECK_DEADLOCK FALSE
