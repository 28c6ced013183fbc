\* A WHIP and an RTMP publisher compete for one name, requests fail part-way, a worker crashes.
SPECIFICATION Spec
CONSTANTS
    Names = {n1}
    Cells = {c1}
    NoCell = NoCell
    Ufrags = {x1, a1}
    Slots = {w1, w2}
    NoSlot = NoSlot
    SourceExpire = 1
    SessionExpire = 1
    PublishGrace = 1
    SlabFails = {}
    Players = {}
    Whips = {x1}
    Aborted = {a1}
    RtmpWorkers = {w1, w2}
    Kicked = {}
    ShmSync = 1
    HandshakeTimeout = 1
    ReadyTimeout = 1
    MaxCrashes = 1
PROPERTIES
    FreedByOwner
    ClaimHandedBack
SYMMETRY Symmetry
