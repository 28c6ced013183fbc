---------------------------- MODULE ShmRegistry -----------------------------
(***************************************************************************)
(* The registry of src/ngx_rtc_shm.c seen through its API: any worker may  *)
(* call any function at any time, time passes, and the reaper runs.  This  *)
(* is the contract the worker modules are checked against (RtcWorkers      *)
(* implements it).                                                         *)
(***************************************************************************)
EXTENDS ShmOps

VARIABLES
    shm,        \* the zone
    issued      \* ufrags handed out; ngx_random never yields one twice

vars == <<shm, issued>>

(* Types of the zone: live cells carry well-typed structs and no counter    *)
(* leaves its range.                                                        *)
TypeOK == shm \in RegType /\ issued \subseteq Ufrags

Init == shm = EmptyZone /\ issued = {}

Get(n) == \E o \in SourceGet(shm, n) : shm' = o.reg /\ UNCHANGED issued

Remove(n) == shm' = SourceRemove(shm, n) /\ UNCHANGED issued

(* A ufrag is issued whether or not the skeleton could be added. *)
Add(u, n, pub) == /\ u \notin issued
                  /\ issued' = issued \cup {u}
                  /\ \E r \in SessionAdd(shm, u, n, pub) : shm' = r

Bind(u, w) == shm' = SessionBind(shm, u, w) /\ UNCHANGED issued

Activate(u, w) == shm' = SessionActivate(shm, u, w) /\ UNCHANGED issued

RemoveIfOwner(u, w) == shm' = SessionRemoveIfOwner(shm, u, w) /\ UNCHANGED issued

RequestClose(u) == shm' = SessionRequestClose(shm, u) /\ UNCHANGED issued

CloseName(n) == shm' = SourceRequestClose(shm, n) /\ UNCHANGED issued

SetState(u, w, s) == shm' = SessionSetState(shm, u, w, s) /\ UNCHANGED issued

Claim(n, kind) == shm' = TryPublish(shm, n, kind) /\ UNCHANGED issued

Release(n, kind) == shm' = ReleasePublish(shm, n, kind) /\ UNCHANGED issued

Beat(c) == shm' = Heartbeat(shm, c) /\ UNCHANGED issued

(* ngx_rtmp_rtc_sync_shm after a claim: the slot, then the heartbeat. *)
Publisher(c, w) == /\ shm' = Heartbeat(SetPublisherSlot(shm, c, w), c)
                   /\ UNCHANGED issued

(* ngx_rtc_shm_expire, called by every worker's reap timer, never by force. *)
Expire == shm' = ExpireLocked(shm, FALSE) /\ UNCHANGED issued

Tick == shm' = Elapse(shm) /\ UNCHANGED issued

SourceCalls ==
    \E n \in Names :
        \/ Get(n) \/ Remove(n) \/ CloseName(n)
        \/ \E kind \in Kinds \ {"none"} : Claim(n, kind) \/ Release(n, kind)
        \/ \E u \in Ufrags, pub \in BOOLEAN : Add(u, n, pub)

SessionCalls ==
    \E u \in Ufrags :
        \/ RequestClose(u)
        \/ \E w \in Slots :
             \/ Bind(u, w) \/ Activate(u, w) \/ RemoveIfOwner(u, w)
             \/ \E s \in States : SetState(u, w, s)

PublisherWrites ==
    \E c \in Cells : Beat(c) \/ \E w \in Slots : Publisher(c, w)

Next == SourceCalls \/ SessionCalls \/ PublisherWrites \/ Expire \/ Tick

(* Every worker runs the reap timer and the clock advances. *)
Fairness == WF_vars(Expire) /\ WF_vars(Tick)

Spec == Init /\ [][Next]_vars

LiveSpec == Spec /\ Fairness

-----------------------------------------------------------------------------
(* Properties *)

(* At most one live source per name: the rbtree holds each name once, even  *)
(* when a forced reap runs inside ngx_rtc_shm_source_get.                   *)
UniqueNames ==
    \A c, d \in Cells :
        shm.src[c].live /\ shm.src[d].live /\ shm.src[c].name = shm.src[d].name => c = d

(* No skeleton outlives its source: sess->source, through which             *)
(* ngx_rtc_shm_session_activate inserts into the subscriber queue and       *)
(* session_free_locked arms the grace, always points at a live source.      *)
SkeletonSourceLive ==
    \A u \in Ufrags : shm.sess[u].live => shm.src[shm.sess[u].src].live

(* A session that finished its handshake is beyond every reap of half-open  *)
(* skeletons: it is bound and has no deadline, and every subscriber is      *)
(* ready and a player, so ngx_rtc_shm_source_snapshot offers it media.      *)
ReadySessionsHeld ==
    \A u \in Ufrags :
        LET k == shm.sess[u] IN
        /\ k.ready => k.owner # NoSlot /\ k.expires = Unarmed
        /\ k.linked => k.ready /\ ~k.pub

(* Every source that is neither publishing nor watched has a deadline, so   *)
(* no path (release, last viewer leaving, dead publisher reclaimed, failed  *)
(* signalling) can leave one pinned in the zone; and a publishing source    *)
(* has none.                                                                *)
NoOrphanSource ==
    \A c \in Cells :
        LET s == shm.src[c] IN
        /\ s.live /\ ~s.publishing /\ Subscribers(shm, c) = {} => s.expires # Unarmed
        /\ s.publishing => s.expires = Unarmed /\ s.kind # "none"

(* A source is freed only when nobody watches it, nothing points at it and  *)
(* no publisher with a fresh heartbeat holds it.                            *)
FreedOnlyWhenIdle ==
    [][\A c \in Cells : shm.src[c].live /\ ~shm'.src[c].live =>
         /\ ~(shm.src[c].publishing /\ shm.src[c].seen < PublishGrace)
         /\ Subscribers(shm, c) = {}
         /\ ~Referenced(shm', c)]_vars

(* Ownership of a skeleton never moves between workers: once bound it keeps *)
(* its owner until it is freed.                                             *)
OwnerNeverMoves ==
    [][\A u \in Ufrags : /\ shm.sess[u].live /\ shm'.sess[u].live
                         /\ shm.sess[u].owner # NoSlot
                         => shm'.sess[u].owner = shm.sess[u].owner]_vars

(* The reaper collects every source that stays idle, and takes the claim of *)
(* every publisher that stays silent: neither is pinned for the life of the *)
(* zone.  (The cell may be given to another name in the same forced reap.)  *)
IdleSourceReaped ==
    \A c \in Cells, n \in Names :
        c \in Lookup(shm, n) ~>
            (c \notin Lookup(shm, n)
             \/ (shm.src[c].publishing /\ shm.src[c].seen < PublishGrace)
             \/ Referenced(shm, c))
=============================================================================
