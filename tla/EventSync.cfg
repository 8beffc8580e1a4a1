SPECIFICATION OpenSpec
CONSTANTS
    Keys = {k1}
    NoKey = nokey
    NoSub = nosub
    Scoped = FALSE
    Axios = TRUE
    LogSize = 1
    Verdicts = {TRUE, FALSE}
    MaxRev = 2
    MaxFaults = 1
    MaxMoves = 2
INVARIANT LossIsOfFirstPolls
INVARIANT OneLadder
PROPERTY HeldRevGrows
CHECK_DEADLOCK FALSE
