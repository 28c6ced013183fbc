\* Two names compete for one slab cell, so source allocation reaps by force.
SPECIFICATION Spec
CONSTANTS
    Names = {n1, n2}
    Cells = {c1}
    NoCell = NoCell
    Ufrags = {u1, u2}
    Slots = {w1, w2}
    NoSlot = NoSlot
    SourceExpire = 1
    SessionExpire = 1
    PublishGrace = 1
    SlabFails = {"source"}
INVARIANTS
    TypeOK
    SkeletonSourceLive
    ReadySessionsHeld
    NoOrphanSource
PROPERTIES
    FreedOnlyWhenIdle
    OwnerNeverMoves
SYMMETRY Symmetry
