\* A WHIP publisher and a viewer, on two workers.
SPECIFICATION IdentitySpec
CONSTANTS
    Workers = {w1, w2}
    Viewers = {a}
    Kinds = {"whip"}
    Pts = {0, 96, 98}
    Exts = {0, 3}
    DefaultPt = 102
    ZoneSsrc = ZoneSsrc
    WhipSsrc = WhipSsrc
    None = None
INVARIANT PtNegotiated
CHECK_DEADLOCK FALSE
