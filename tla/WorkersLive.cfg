\* A viewer of an RTMP stream, an administrator, and a crash: what must happen in the end.
SPECIFICATION LiveSpec
CONSTANTS
    Names = {n1}
    Cells = {c1}
    NoCell = NoCell
    Ufrags = {p1}
    Slots = {w1, w2}
    NoSlot = NoSlot
    SourceExpire = 1
    SessionExpire = 1
    PublishGrace = 1
    SlabFails = {}
    Players = {p1}
    Whips = {}
    Aborted = {}
    RtmpWorkers = {w1}
    Kicked = {p1}
    ShmSync = 1
    HandshakeTimeout = 1
    ReadyTimeout = 1
    MaxCrashes = 1
PROPERTIES
    ImplementsRegistry
    SessionsEnd
    IdleSourceReaped
