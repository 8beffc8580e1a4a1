CONSTANTS
    Calls = {c1, c2}
    Second = c2
    Readers = {r1, r2}
    NoReader = NoReader
    NoCall = NoCall
    MaxFaults = 2
    MaxCuts = 2
SPECIFICATION MCSpec
INVARIANTS
    OneReader
    FirstPayloadWins
    OutcomeIsOnItsWay
PROPERTIES
    EveryCallIsAnswered
CHECK_DEADLOCK FALSE
