\* Two clients that keep to their addresses; allocations fail, the worker crashes once.
SPECIFICATION LiveSpec
CONSTANTS
    Sessions = {a, b}
    Conns = {c1, c2}
    Null = Null
    Gone = Gone
    Roaming = FALSE
    AllocFails = TRUE
    HandshakeTimeout = 1
    ReadyTimeout = 1
    MaxTries = 1
    MaxCrashes = 1
INVARIANTS
    NoUseAfterFree
    SlotsReturned
PROPERTY HandshakeEnds
