\* The path of a video packet through one source; MCVideo sets the constants of the packetizer.
\* The bounds on packets and on the clock end a behaviour.
SPECIFICATION Spec
CONSTANTS
    \* Jitter: numbers wrap after the second packet; a late packet can be older than the whole buffer.
    Cap = 4
    SeqMod = 16
    Timeout = 2
    First = 14
    MaxSent = 8
    MaxLate = 5
    MaxTime = 4
    MaxPublishes = 2
    \* MediaIdentity: an RTMP stream, and viewers whose offers differ.
    Workers = {w1, w2}
    Viewers = {a, b}
    Kinds = {"rtmp"}
    Pts = {0, 96, 98}
    Exts = {0, 3}
    DefaultPt = 102
    ZoneSsrc = ZoneSsrc
    WhipSsrc = WhipSsrc
    None = None
    \* VideoCache: a publisher that comes back on another worker or over the other protocol; rings and numbers wrap.
    Processes = {p1, p2}
    Protocols = {"rtmp", "whip"}
    LocalCap = 4
    ShmCap = 2
    SeqSpace = 5
    FirstSeqs = {4}
    MaxGens = 2
    MaxSeq = 6
    MaxSkipped = 1
CHECK_DEADLOCK FALSE
INVARIANTS
    CacheExact
    Reassembles
    Negotiated
PROPERTY UplinkOrdered
