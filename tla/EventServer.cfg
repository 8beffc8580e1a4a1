CONSTANTS
    Procs = {p1, p2}
    Polls = {q}
    LogSize = 2
    MaxRev = 6
    MaxClock = 4
    MaxDrops = 1
    CalmDrops = TRUE
    NoCursor = NoCursor
    Peers = {s1}
    Topics = {t1, t2}
    Stores = {scoped, plain}
    Scoped = {scoped}
    Refused = Refused
    Limit = 1
    MaxSubs = 3
    MaxEvents = 1
SPECIFICATION ServerSpec
SYMMETRY Symmetric
INVARIANTS
    NothingSkipped
    AnswerIsCurrent
    HeldIsWatched
PROPERTIES
    RevsGrow
    OnlyItsOwnSubscription
    PushIsAuthorized
CHECK_DEADLOCK FALSE
