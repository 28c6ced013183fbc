\* A viewer closes on the WHIP media worker.
SPECIFICATION Spec
CONSTANTS
    Names = {n1}
    Cells = {c1}
    NoCell = NoCell
    Ufrags = {p1, x1}
    Slots = {w1, w2}
    NoSlot = NoSlot
    SourceExpire = 1
    SessionExpire = 2
    PublishGrace = 2
    SlabFails = {}
    Players = {p1}
    Whips = {x1}
    Aborted = {}
    RtmpWorkers = {}
    Kicked = {}
    ShmSync = 1
    HandshakeTimeout = 1
    ReadyTimeout = 2
    MaxCrashes = 0
PROPERTIES
    LiveClaimKept
SYMMETRY Symmetry
