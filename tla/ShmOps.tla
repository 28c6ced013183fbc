------------------------------- MODULE ShmOps -------------------------------
(***************************************************************************)
(* The cross-worker registry of src/ngx_rtc_shm.c as pure operators.       *)
(*                                                                         *)
(* Every public function of the registry runs under the slab pool mutex,   *)
(* so each one is a function of the zone's contents R to its new contents. *)
(* R is a record [src, sess]:                                              *)
(*   R.src  : slab cell -> shm source (ngx_rtc_shm_source_t)               *)
(*   R.sess : ufrag     -> session skeleton (ngx_rtc_shm_session_t)        *)
(* A pointer to a shm source is its cell, so a cell that is freed and      *)
(* allocated again is the same pointer, as it is in the slab.              *)
(*                                                                         *)
(* Operations that allocate can fail or take any free cell: they return    *)
(* the SET of their outcomes.                                              *)
(*                                                                         *)
(* Time.  The code stores absolute deadlines (`expires`, 0 = none) and the *)
(* last heartbeat.  The model stores the time that is left, and the age of *)
(* the heartbeat, so that the clock itself is not part of the state.       *)
(***************************************************************************)
EXTENDS Integers, FiniteSets

CONSTANTS
    Names,          \* stream names "app/stream"
    Cells,          \* slab cells a shm source can occupy
    NoCell,         \* the NULL pointer
    Ufrags,         \* ICE ufrags: the identities of sessions
    Slots,          \* worker slots (ngx_worker)
    NoSlot,         \* owner_slot / publisher_slot of nobody (-1)
    SourceExpire,   \* NGX_RTC_SHM_SOURCE_EXPIRE_MS, in ticks
    SessionExpire,  \* NGX_RTC_SHM_SESSION_EXPIRE_MS, in ticks
    PublishGrace,   \* NGX_RTC_SHM_PUBLISH_GRACE_MS, in ticks
    SlabFails       \* the allocations that can fail for want of slab pages

ASSUME ShmSets ==
    /\ Names # {} /\ Cells # {} /\ NoCell \notin Cells
    /\ IsFiniteSet(Ufrags)
    /\ NoSlot \notin Slots
    /\ SlabFails \subseteq {"source", "session"}

ASSUME ShmTimes ==
    /\ SourceExpire \in Nat \ {0}
    /\ SessionExpire \in Nat \ {0}
    /\ PublishGrace \in Nat \ {0}

Unarmed == -1       \* expires == 0: no deadline

Kinds  == {"none", "rtmp", "whip"}
States == {"NEW", "ICE_BOUND", "DTLS_HANDSHAKE", "SRTP_READY"}

SourceType ==
    [live : BOOLEAN, name : Names, kind : Kinds, publishing : BOOLEAN,
     slot : Slots \cup {NoSlot}, expires : {Unarmed} \cup 0..SourceExpire,
     seen : 0..PublishGrace, version : Nat, remote : Nat]

SkeletonType ==
    [live : BOOLEAN, src : Cells, pub : BOOLEAN, owner : Slots \cup {NoSlot},
     ready : BOOLEAN, state : States, close : BOOLEAN, linked : BOOLEAN,
     expires : {Unarmed} \cup 0..SessionExpire]

RegType == [src : [Cells -> SourceType], sess : [Ufrags -> SkeletonType]]

(* A freshly allocated source; a free cell has the same shape, not live. *)
NewSource(n) ==
    [live |-> TRUE, name |-> n, kind |-> "none", publishing |-> FALSE,
     slot |-> NoSlot, expires |-> SourceExpire, seen |-> 0, version |-> 0,
     remote |-> 0]

AnyName == CHOOSE n \in Names : TRUE
AnyCell == CHOOSE c \in Cells : TRUE

FreeSource == [NewSource(AnyName) EXCEPT !.live = FALSE]

(* A freshly added skeleton: unbound, NEW, on its half-open deadline. *)
NewSkeleton(c, pub) ==
    [live |-> TRUE, src |-> c, pub |-> pub, owner |-> NoSlot, ready |-> FALSE,
     state |-> "NEW", close |-> FALSE, linked |-> FALSE,
     expires |-> SessionExpire]

FreeSkeleton == [NewSkeleton(AnyCell, FALSE) EXCEPT !.live = FALSE]

EmptyZone ==
    [src |-> [c \in Cells |-> FreeSource], sess |-> [u \in Ufrags |-> FreeSkeleton]]

-----------------------------------------------------------------------------
(* Lookups *)

(* The cell that holds name n: at most one (see UniqueNames). *)
Lookup(R, n) == {c \in Cells : R.src[c].live /\ R.src[c].name = n}

(* The subscriber queue of the source in cell c. *)
Subscribers(R, c) == {u \in Ufrags : /\ R.sess[u].live
                                     /\ R.sess[u].linked
                                     /\ R.sess[u].src = c}

(* Some skeleton, subscribed or not, points at the source in cell c. *)
Referenced(R, c) == \E u \in Ufrags : R.sess[u].live /\ R.sess[u].src = c

(* Mutant: any worker may act on any skeleton. *)
MayActUnchecked(R, u, w) == R.sess[u].live

(* A skeleton worker w may act on: unbound, or bound to w itself. *)
MayAct(R, u, w) == /\ R.sess[u].live
                   /\ R.sess[u].owner \in {NoSlot, w}

Due(d) == d = 0

-----------------------------------------------------------------------------
(* Freeing skeletons and sources *)

(* Subscribers among S that the cross-worker count of source c includes. *)
RemoteIn(R, c, S) ==
    {u \in S \cap Subscribers(R, c) : R.sess[u].owner # R.src[c].slot}

(* Mutant: the cross-worker count is decremented without its guard. *)
Unfloored(k) == k

AtLeastZero(k) == IF k < 0 THEN 0 ELSE k

(* The source in cell c after the sessions in S left it.  A source that     *)
(* loses a session and is left idle without a deadline gets one.            *)
LeaveSource(R, c, S) ==
    LET s    == R.src[c]
        idle == Subscribers(R, c) \subseteq S /\ ~s.publishing
    IN  [s EXCEPT
            !.version = @ + Cardinality(S \cap Subscribers(R, c)),
            !.remote  = AtLeastZero(@ - Cardinality(RemoteIn(R, c, S))),
            !.expires = IF idle /\ @ = Unarmed THEN SourceExpire ELSE @]

(* ngx_rtc_shm_session_free_locked for every skeleton in S. *)
FreeSessions(R, S) ==
    [src |-> [c \in Cells |->
                IF R.src[c].live /\ \E u \in S : R.sess[u].live /\ R.sess[u].src = c
                THEN LeaveSource(R, c, S) ELSE R.src[c]],
     sess |-> [u \in Ufrags |-> IF u \in S THEN FreeSkeleton ELSE R.sess[u]]]

(* First half of ngx_rtc_shm_expire_locked: half-open skeletons. *)
ExpiredSessions(R, forced) ==
    {u \in Ufrags : /\ R.sess[u].live
                    /\ R.sess[u].owner = NoSlot
                    /\ R.sess[u].expires # Unarmed
                    /\ forced \/ Due(R.sess[u].expires)}

(* Mutant: the claim is taken and no deadline is armed. *)
ReclaimUnarmed(s) ==
    IF s.live /\ s.publishing /\ s.seen >= PublishGrace
    THEN [s EXCEPT !.publishing = FALSE, !.kind = "none"]
    ELSE s

(* A publisher whose heartbeat is silent past the grace loses its claim,    *)
(* and the deadline that publishing held off is armed.                      *)
ReclaimPublisher(s) ==
    IF s.live /\ s.publishing /\ s.seen >= PublishGrace
    THEN [s EXCEPT !.publishing = FALSE, !.kind = "none",
                   !.expires = IF @ = Unarmed THEN SourceExpire ELSE @]
    ELSE s

(* Mutant: an empty subscriber queue is taken for no reference at all. *)
ReapableReferenced(R, c, forced) ==
    /\ R.src[c].live
    /\ ~R.src[c].publishing
    /\ Subscribers(R, c) = {}
    /\ R.src[c].expires # Unarmed
    /\ forced \/ Due(R.src[c].expires)

(* Second half: idle sources whose deadline elapsed and nothing points at. *)
Reapable(R, c, forced) ==
    /\ R.src[c].live
    /\ ~R.src[c].publishing
    /\ Subscribers(R, c) = {}
    /\ R.src[c].expires # Unarmed
    /\ forced \/ Due(R.src[c].expires)
    /\ ~Referenced(R, c)

ReclaimPublishers(R) == [R EXCEPT !.src = [c \in Cells |-> ReclaimPublisher(R.src[c])]]

FreeSources(R, C) ==
    [R EXCEPT !.src = [c \in Cells |-> IF c \in C THEN FreeSource ELSE R.src[c]]]

(* ngx_rtc_shm_expire_locked. *)
ExpireLocked(R, forced) ==
    LET R1 == ReclaimPublishers(FreeSessions(R, ExpiredSessions(R, forced)))
    IN  FreeSources(R1, {c \in Cells : Reapable(R1, c, forced)})

(* Mutant: a source is removed under its publisher. *)
SourceRemovePublished(R, n) ==
    FreeSources(R, {c \in Lookup(R, n) : /\ Subscribers(R, c) = {}
                                         /\ ~Referenced(R, c)})

(* ngx_rtc_shm_source_remove: no deadline, but the same three guards. *)
SourceRemove(R, n) ==
    FreeSources(R, {c \in Lookup(R, n) : /\ Subscribers(R, c) = {}
                                         /\ ~R.src[c].publishing
                                         /\ ~Referenced(R, c)})

-----------------------------------------------------------------------------
(* Allocation *)

FreeCells(R) == {c \in Cells : ~R.src[c].live}

SourceAllocFails(R) == FreeCells(R) = {} \/ "source" \in SlabFails

SourceAllocated(R, n) ==
    {[reg |-> [R EXCEPT !.src[c] = NewSource(n)], ptr |-> c] : c \in FreeCells(R)}

(* Mutant: allocate without looking the name up. *)
SourceGetBlind(R, n) == SourceAllocated(R, n) \cup {[reg |-> R, ptr |-> NoCell]}

(* ngx_rtc_shm_source_get: look up, else allocate; when the slab is full    *)
(* reap by force and try once more.  Each outcome is the new registry and   *)
(* the pointer returned.                                                    *)
SourceGet(R, n) ==
    IF Lookup(R, n) # {}
    THEN {[reg |-> R, ptr |-> c] : c \in Lookup(R, n)}
    ELSE LET R1 == ExpireLocked(R, TRUE)
         IN  SourceAllocated(R, n) \cup
             (IF SourceAllocFails(R)
              THEN SourceAllocated(R1, n) \cup
                   (IF SourceAllocFails(R1) THEN {[reg |-> R1, ptr |-> NoCell]} ELSE {})
              ELSE {})

PutSession(R, u, c, pub) == [R EXCEPT !.sess[u] = NewSkeleton(c, pub)]

(* ngx_rtc_shm_session_add: the source is looked up BEFORE the allocation,  *)
(* so the forced reap of a failed allocation runs between the lookup and    *)
(* the store of the pointer.  The skeleton exists afterwards iff it worked. *)
SessionAdd(R, u, n, pub) ==
    IF Lookup(R, n) = {} THEN {R}
    ELSE LET R1 == ExpireLocked(R, TRUE)
         IN  {PutSession(R, u, c, pub) : c \in Lookup(R, n)} \cup
             (IF "session" \in SlabFails
              THEN {R1} \cup {PutSession(R1, u, c, pub) : c \in Lookup(R, n)}
              ELSE {})

-----------------------------------------------------------------------------
(* Sessions *)

(* ngx_rtc_shm_session_bind: adopt an unbound skeleton. *)
SessionBind(R, u, w) ==
    IF MayAct(R, u, w) THEN [R EXCEPT !.sess[u].owner = w] ELSE R

(* Mutant: the half-open deadline survives the handshake. *)
SessionActivateKeepsDeadline(R, u, w) ==
    IF MayAct(R, u, w)
    THEN [R EXCEPT !.sess[u].owner = w, !.sess[u].ready = TRUE,
                   !.sess[u].state = "SRTP_READY", !.sess[u].linked = ~R.sess[u].pub]
    ELSE R

(* ngx_rtc_shm_session_activate: DTLS done; a player joins its source. *)
SessionActivate(R, u, w) ==
    LET k     == R.sess[u]
        joins == ~k.pub /\ ~k.linked
    IN  IF ~MayAct(R, u, w) THEN R
        ELSE [src  |-> [c \in Cells |->
                          IF joins /\ c = k.src /\ R.src[c].live
                          THEN [R.src[c] EXCEPT
                                  !.version = @ + 1,
                                  !.expires = Unarmed,
                                  !.remote  = IF w # R.src[c].slot THEN @ + 1 ELSE @]
                          ELSE R.src[c]],
              sess |-> [R.sess EXCEPT
                          ![u] = [k EXCEPT !.owner = w, !.ready = TRUE,
                                           !.state = "SRTP_READY",
                                           !.expires = Unarmed,
                                           !.linked = k.linked \/ joins]]]

(* Mutant: a stale copy of a session destroys another worker's skeleton. *)
SessionRemoveAnyone(R, u, w) ==
    IF R.sess[u].live THEN FreeSessions(R, {u}) ELSE R

(* ngx_rtc_shm_session_remove_if_owner *)
SessionRemoveIfOwner(R, u, w) ==
    IF MayAct(R, u, w) THEN FreeSessions(R, {u}) ELSE R

(* ngx_rtc_shm_session_request_close: the admin kick. *)
SessionRequestClose(R, u) ==
    IF R.sess[u].live THEN [R EXCEPT !.sess[u].close = TRUE] ELSE R

(* Mutant: the signalling worker's copy writes its state too. *)
SessionSetStateAnyone(R, u, w, s) ==
    IF R.sess[u].live THEN [R EXCEPT !.sess[u].state = s] ELSE R

(* ngx_rtc_shm_session_set_state: only the owner of the media path writes. *)
SessionSetState(R, u, w, s) ==
    IF MayAct(R, u, w) THEN [R EXCEPT !.sess[u].state = s] ELSE R

(* ngx_rtc_shm_source_request_close: kick every viewer of a name. *)
SourceRequestClose(R, n) ==
    [R EXCEPT !.sess = [u \in Ufrags |->
        IF \E c \in Lookup(R, n) : u \in Subscribers(R, c)
        THEN [R.sess[u] EXCEPT !.close = TRUE] ELSE R.sess[u]]]

-----------------------------------------------------------------------------
(* Publish ownership *)

(* The result of try_publish, before its effect. *)
PublishBusy(R, n, kind) == \E c \in Lookup(R, n) : R.src[c].kind \notin {"none", kind}

(* ngx_rtc_shm_source_try_publish: never creates the source. *)
TryPublish(R, n, kind) ==
    [R EXCEPT !.src = [c \in Cells |->
        IF c \in Lookup(R, n) /\ ~PublishBusy(R, n, kind)
        THEN [R.src[c] EXCEPT !.kind = kind, !.publishing = TRUE,
                              !.expires = Unarmed, !.seen = 0]
        ELSE R.src[c]]]

(* Mutant: the release does not arm the deadline that publishing held off. *)
ReleaseUnarmed(R, n, kind) ==
    [R EXCEPT !.src = [c \in Cells |->
        IF c \in Lookup(R, n) /\ R.src[c].kind = kind
        THEN [R.src[c] EXCEPT !.kind = "none", !.publishing = FALSE]
        ELSE R.src[c]]]

(* ngx_rtc_shm_source_release_publish *)
ReleasePublish(R, n, kind) ==
    [R EXCEPT !.src = [c \in Cells |->
        IF c \in Lookup(R, n) /\ R.src[c].kind = kind
        THEN [R.src[c] EXCEPT
                !.kind = "none", !.publishing = FALSE,
                !.expires = IF Subscribers(R, c) # {} THEN Unarmed
                            ELSE IF @ = Unarmed THEN SourceExpire ELSE @]
        ELSE R.src[c]]]

(* ngx_rtmp_rtc_shm_stats: the lock-free heartbeat through a cached pointer. *)
Heartbeat(R, c) ==
    [R EXCEPT !.src[c].seen = IF R.src[c].live THEN 0 ELSE @]

(* ngx_rtmp_rtc_sync_shm records the ingest worker after a claim.  The      *)
(* cross-worker count is not recomputed.                                    *)
SetPublisherSlot(R, c, w) ==
    [R EXCEPT !.src[c].slot = IF R.src[c].live THEN w ELSE @]

-----------------------------------------------------------------------------
(* One tick of ngx_current_msec.  The heartbeat of a source that is not     *)
(* publishing is never read, so its age stands still.                       *)
CountDown(d) == IF d > 0 THEN d - 1 ELSE d

Elapse(R) ==
    [src  |-> [c \in Cells |->
                 [R.src[c] EXCEPT
                    !.expires = IF R.src[c].live THEN CountDown(@) ELSE @,
                    !.seen = IF R.src[c].publishing /\ @ < PublishGrace THEN @ + 1 ELSE @]],
     sess |-> [u \in Ufrags |->
                 [R.sess[u] EXCEPT !.expires = IF R.sess[u].live THEN CountDown(@) ELSE @]]]
=============================================================================
