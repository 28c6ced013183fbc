\* The slab is full when a skeleton is added: the forced reap takes its source.
SPECIFICATION Spec
CONSTANTS
    Names = {n1}
    Cells = {c1}
    NoCell = NoCell
    Ufrags = {u1, u2}
    Slots = {w1, w2}
    NoSlot = NoSlot
    SourceExpire = 1
    SessionExpire = 1
    PublishGrace = 1
    SlabFails = {"session"}
INVARIANT SkeletonSourceLive
