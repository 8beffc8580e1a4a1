SPECIFICATION Spec
CONSTANTS
    Keys = {k1, k2}
    NoKey = nokey
    NoSub = nosub
    Scoped = TRUE
    Axios = TRUE
    LogSize = 1
    Verdicts = {TRUE}
    MaxRev = 1
    MaxFaults = 0
    MaxMoves = 3
INVARIANT SubscribedIsServed
INVARIANT HeldPushesAreAwaited
CHECK_DEADLOCK FALSE
SYMMETRY Symmetric
