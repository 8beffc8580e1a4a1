SPECIFICATION Spec
CONSTANTS
    Keys = {k1}
    NoKey = nokey
    NoSub = nosub
    Scoped = FALSE
    Axios = TRUE
    LogSize = 1
    Verdicts = {TRUE, FALSE}
    MaxRev = 1
    MaxFaults = 0
    MaxMoves = 1
INVARIANT NoSilentLoss
CHECK_DEADLOCK FALSE
