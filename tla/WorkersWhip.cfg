\* A WHIP publisher and a viewer.
SPECIFICATION Spec
CONSTANTS
    Names = {n1}
    Cells = {c1}
    NoCell = NoCell
    Ufrags = {p1, x1}
    Slots = {w1, w2}
    NoSlot = NoSlot
    SourceExpire = 1
    SessionExpire = 1
    PublishGrace = 1
    SlabFails = {}
    Players = {p1}
    Whips = {x1}
    Aborted = {}
    RtmpWorkers = {}
    Kicked = {}
    ShmSync = 1
    HandshakeTimeout = 1
    ReadyTimeout = 1
    MaxCrashes = 0
INVARIANTS
    ReadyHasMedia
    ClaimHasPublisher
    LocalSourceHeld
SYMMETRY Symmetry
