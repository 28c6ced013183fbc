\* A client whose address changes during its session.
SPECIFICATION Spec
CONSTANTS
    Sessions = {a}
    Conns = {c1, c2}
    Null = Null
    Gone = Gone
    Roaming = TRUE
    AllocFails = FALSE
    HandshakeTimeout = 1
    ReadyTimeout = 2
    MaxTries = 2
    MaxCrashes = 0
INVARIANT NoUseAfterFree
