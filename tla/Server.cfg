CONSTANTS
    null = null
    Fields = {"pk", "val", "tag"}
    FieldValues = {0, 1, 2, 3}
    Pks = {1, 2, 3}
    TableRows <- ServerRows
    Concrete = {"pk", "val"}
    Nullable = {"val"}
    ListQueries <- ServerQueries
    MaxEdits = 1
    Keys = {1, 2, 3}
    Columns = {"a", "b"}
    Values = {0, 1}
    Hidden = {}
    Unacceptable <- BothSet
    WriteRequests <- ServerWrites
    Writers = {w1, w2}
    None = None
    Blank <- BlankRow
    MaxFaults = 1
    Nobody = "nobody"
    Classes <- ServerClasses
    MiddlewareOf <- ServerMiddleware
    GlobalMiddleware <- GlobalInstances
    DefaultConfiguration <- NoConfiguration
    RegisterMuxws = "yes"
    Routings <- ServerRoutings
    RequestKinds <- ServerRequests
    CallIds = {1, 2, 3}
    Dispatched <- Dispatches
    Topics <- ServerTopics
    DjangoCallers = {"dan"}
    MaxCursors = 2
    MaxArrivals = 2
    MaxTroubles = 1
    LimitKeys = {k1, k2}
    Limiters = {p1}
    Limits = {1, 2}
    Window = 2
    ForeignCount = 1
    MaxHits = 3
    MaxNow = 4
    Answers = {a1, a2}
    Awaiters = {t1, t2}
    Copies = {o, o2}
    FirstCopy = o
    NoAnswer = NoAnswer
    MaxChanges = 1
    Loops = {l1, l2}
    Tasks = {j1, j2}
    ReportedKept = 1
    MaxCuts = 2
SPECIFICATION ServerSpec
INVARIANTS
    ServerTypeOK
    WalkMissesNothing
    NoLockCycle
    WatchConverges
    ChecksBeforeAction
    OneUserPerRequest
    AloneNothingIsLost
    FollowersMayList
    EventsGoHome
    LimitIsKept
    OneValue
    LoopIsItsOwn
    InterruptionIsSeen
    ReportedOnce
PROPERTIES
    PageIsExact
    WritesAreAtomic
    NoCallbackAfterUnsubscribe
    DrainedBeforeExit
CHECK_DEADLOCK FALSE
