\* Three viewers on two workers; a ring of two slots wraps and fills.
SPECIFICATION Spec
CONSTANTS
    a = a
    b = b
    c = c
    Viewers = {a, b, c}
    NWorkers = 2
    Pub = 0
    Where <- PlacedViewers
    Mirrored = TRUE
    RingSlots = 2
    MaxSnapshot = 4
    MaxEntry = 2
    MaxPackets = 3
CHECK_DEADLOCK FALSE
INVARIANTS
    InOrder
    NoSilentLoss
PROPERTIES
    RingsDrained
