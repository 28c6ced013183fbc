\* The parts of one session; MCSession sets the constants of the parts it instantiates.
\* A BYE ends a session, and an offer is answered once.
SPECIFICATION LiveSpec
CONSTANTS
    \* Hsm
    None = "null"
    Parent <- Tree
    Rules <- Tables
    Initial = "b"
    BufferSize = 4
    \* SendGate
    KeyframeMax = 3
    StreakMax = 2
    TwccSpace = 4
    MaxUnit = 4
    Admits = {TRUE, FALSE}
    \* NackWindow
    BaseMs = 1
    MaxMs = 8
    Budget = 3
    Nacks <- SomeNacks
    Gaps = {0, 1, 2, 8}
    \* AvSync: the timestamps wrap twice; a report rounds the sender's clock by none, one or two thirds.
    RtpSpace = 8
    RateNum = 7
    RateDen = 3
    Start = 5
    MaxTime = 17
    \* AudioWorker: 16 kHz AAC in units of 192 samples, three or four Opus frames for one AAC frame,
    \* so that the sample FIFO gets full.
    RingCap = 2
    Prefix = 1
    AacMax = 3
    AacSizes = {1, 3}
    OpusMax = 3
    OpusSize = 1
    FrameSize = 5
    FifoFrames = 4
    Resampled = 16
    SeqSpace = 2
    \* ByteRing: no entry's size divides the arena, so that prefixes and payloads are split anywhere.
    Capacity = 11
    LengthSize = 2
    Base = 3
    Payloads <- SmallPayloads
    OutCaps = {2, 3}
    \* Reports: two workers, a viewer on each, two failed sends to count.
    Workers = {1, 2}
    Viewers = {"near", "far"}
    Home <- Homes
    Kinds = {"rtmp", "whip"}
    MaxPackets = 1
    MaxFails = 2
    \* StatsPage: the lengths of the code's format strings, with the shortest and with the longest
    \* values, in a buffer of a quarter of its size.
    Cap = 4096
    Reserve = 2048
    Opening = 21
    Heads = {116, 356}
    Rows = {118, 296}
    Tails = {260, 468}
    Totals = {360, 672}
CHECK_DEADLOCK FALSE
INVARIANTS
    NoTornVideo
    KeyframeWhole
    ResentOnce
    ProperlyNested
    TableAgrees
    FeedbackExact
    BindingAnswered
    MapClose
    AnswerMirrors
    DocumentWhole
    JoinedBeforeFree
PROPERTIES
    TransportContiguous
    PacerRecovers
    FailuresAccounted
    ThreadWakes
    ImplementsFifo
