CONSTANTS
    Calls = {1, 2, 3}
    Procs = {1, 2}
    Fps = {get}
    SafeFps = {get}
    Faults = {"ttl", "crash", "publish"}
    NoCall = NoCall
SPECIFICATION LiveSpec
PROPERTIES
    EveryCallEnds
