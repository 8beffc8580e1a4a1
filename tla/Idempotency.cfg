CONSTANTS
    Calls = {c1, c2, c3}
    Procs = {p1, p2}
    Fps = {get, post}
    SafeFps = {get}
    Faults = {"lapse", "ttl", "crash", "abandon", "script", "publish"}
    NoCall = NoCall
SPECIFICATION SafeSpec
SYMMETRY Symmetric
INVARIANTS
    OneRunAtATime
    ExactlyOnce
    NobodyWaitsInVain
    NothingToShareIsNotShared
PROPERTIES
    AwaitedOutcomeIsKept
