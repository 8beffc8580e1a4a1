CONSTANTS
    Calls = {c1, c2, c3}
    Procs = {p1, p2}
    Fps = {get, post}
    SafeFps = {get}
    Faults = {}
    NoCall = NoCall
SPECIFICATION Spec
SYMMETRY Symmetric
INVARIANTS
    ReplayMatches
