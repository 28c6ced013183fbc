---------------------------- MODULE MediaFanout -----------------------------
(***************************************************************************)
(* One packet from the publisher's worker to every viewer:                 *)
(* ngx_rtc_broadcast_rtp in ngx_rtmp_rtc_bridge_module.c, the per-worker   *)
(* media rings of ngx_rtc_shm.c, and the eventfd wakeup and drain of       *)
(* ngx_rtc_stream_module.c.                                                *)
(*                                                                         *)
(* The publisher keeps a process-local snapshot of the ready subscribers   *)
(* and refreshes it when the version counter in the zone differs from the  *)
(* one it stored.  The version is read without the lock, twice: to compare *)
(* and, after the locked snapshot, to store.  Viewers on the publisher's   *)
(* own worker are sent to directly, the others through their worker's ring.*)
(***************************************************************************)
EXTENDS Integers, Sequences, SequencesExt

CONSTANTS
    Viewers,      \* sessions that may subscribe
    NWorkers,     \* worker processes
    Pub,          \* the worker the publisher runs on
    Where,        \* viewer -> the worker that owns its UDP session
    Mirrored,     \* the publisher has the shm source pointer cached
    RingSlots,    \* configured slots of a media ring
    MaxSnapshot,  \* NGX_RTC_SOURCE_MAX_SNAPSHOT
    MaxEntry,     \* NGX_RTC_RING_MAX_SESSIONS
    MaxPackets    \* bound on the packets the publisher emits

Workers == 0..(NWorkers - 1)

ASSUME FanoutConstants ==
    /\ {NWorkers, RingSlots, MaxSnapshot, MaxEntry, MaxPackets} \subseteq Nat \ {0}
    /\ Pub \in Workers /\ Where \in [Viewers -> Workers] /\ Mirrored \in BOOLEAN

VARIABLES
    subs,      \* the shm source's subscriber queue, newest first
    version,   \* its subscribers_version
    present,   \* viewers whose owner worker still has the session
    snap,      \* the publisher's snapshot: version and viewers
    pc, pkt,   \* the publisher's step, and the packet it is sending
    todo,      \* workers the packet is still to be enqueued for
    ring,      \* worker -> media ring
    efd,       \* worker -> its eventfd is readable
    waking,    \* workers inside their notify handler
    drops,     \* the (packet, worker) pairs ring_drops counts
    owed,      \* history: viewer -> packets sent while it was in the snapshot
    got        \* history: viewer -> packets that reached it, in order

vars == <<subs, version, present, snap, pc, pkt, todo, ring, efd, waking, drops,
          owed, got>>

publisherVars == <<snap, pc, pkt, todo, drops, owed>>

-----------------------------------------------------------------------------
(* The media ring: head and tail only grow, a slot is their value modulo    *)
(* the size, which is the next power of two of the configured slots.        *)

(* ngx_rtc_shm_ring_next_pow2 *)
RingSize == 2 ^ Min({k \in 0..RingSlots : 2 ^ k >= RingSlots})

(* What a prover without a theory of powers has to be told of it. *)
ASSUME RingHasSlots == RingSize \in Nat \ {0}

NoEntry == [pkt |-> 0, to |-> {}]

(* ngx_rtc_shm_ring_init *)
EmptyRing == [head |-> 0, tail |-> 0, slot |-> [i \in 0..(RingSize - 1) |-> NoEntry]]

RingFull(r) == r.head - r.tail >= RingSize

RingEmpty(r) == r.head = r.tail

Enqueued(r, e) == [r EXCEPT !.slot[r.head % RingSize] = e, !.head = @ + 1]

RingFront(r) == r.slot[r.tail % RingSize]

Dequeued(r) == [r EXCEPT !.tail = @ + 1]

(* What is in the ring, oldest first. *)
Queued(r) == [i \in 1..(r.head - r.tail) |-> r.slot[(r.tail + i - 1) % RingSize]]

-----------------------------------------------------------------------------
(* Types; a ring's head is never more than its slots ahead of its tail. *)
TypeOK ==
    /\ subs \in Seq(Viewers) /\ version \in Nat /\ present \subseteq Viewers
    /\ snap.version \in 0..version /\ snap.viewers \in Seq(Viewers)
    /\ pc \in {"idle", "snapshot", "stamp", "send", "fan", "notify"}
    /\ pkt \in 0..MaxPackets /\ todo \subseteq Workers
    /\ pc \in {"fan", "notify"} <=> todo # {}
    /\ \A w \in Workers : ring[w].head - ring[w].tail \in 0..RingSize
    /\ efd \in [Workers -> BOOLEAN] /\ waking \subseteq Workers
    /\ drops \subseteq (1..MaxPackets) \X Workers
    /\ owed \in [Viewers -> SUBSET (1..MaxPackets)]
    /\ got \in [Viewers -> Seq(1..MaxPackets)]

Init ==
    /\ subs = <<>> /\ version = 0 /\ present = {}
    /\ snap = [version |-> 0, viewers |-> <<>>]
    /\ pc = "idle" /\ pkt = 0 /\ todo = {}
    /\ ring = [w \in Workers |-> EmptyRing]
    /\ efd = [w \in Workers |-> FALSE] /\ waking = {}
    /\ drops = {}
    /\ owed = [v \in Viewers |-> {}] /\ got = [v \in Viewers |-> <<>>]

-----------------------------------------------------------------------------
(* Viewers come and go: ngx_rtc_shm_session_activate inserts at the head of *)
(* the queue, session_free_locked unlinks; both bump the version.           *)

Join(v) ==
    /\ v \notin present /\ owed[v] = {}
    /\ subs' = <<v>> \o subs
    /\ version' = version + 1
    /\ present' = present \cup {v}
    /\ UNCHANGED <<snap, pc, pkt, todo, ring, efd, waking, drops, owed, got>>

(* A packet in flight to a session that left finds no session. *)
Leave(v) ==
    /\ v \in present
    /\ owed[v] # {}
    /\ \E i \in DOMAIN subs : subs[i] = v /\ subs' = RemoveAt(subs, i)
    /\ version' = version + 1
    /\ present' = present \ {v}
    /\ UNCHANGED <<snap, pc, pkt, todo, ring, efd, waking, drops, owed, got>>

Deliver(V) == got' = [v \in Viewers |-> IF v \in V \cap present THEN Append(got[v], pkt)
                                        ELSE got[v]]

-----------------------------------------------------------------------------
(* The publisher: ngx_rtc_broadcast_rtp *)

(* The next packet; the version is compared without the lock. *)
Emit ==
    /\ pc = "idle" /\ pkt < MaxPackets
    /\ pkt' = pkt + 1
    /\ pc' = IF Mirrored /\ version = snap.version THEN "send" ELSE "snapshot"
    /\ UNCHANGED <<subs, version, present, snap, todo, ring, efd, waking, drops, owed, got>>

(* ngx_rtc_shm_source_snapshot: the first MaxSnapshot of the queue. *)
Snapshot ==
    /\ pc = "snapshot"
    /\ snap' = [snap EXCEPT !.viewers =
         SubSeq(subs, 1, IF Len(subs) < MaxSnapshot THEN Len(subs) ELSE MaxSnapshot)]
    /\ pc' = "stamp"
    /\ UNCHANGED <<subs, version, present, pkt, todo, ring, efd, waking, drops, owed, got>>

(* The version is read again, outside the lock, and stored. *)
Stamp ==
    /\ pc = "stamp"
    /\ snap' = [snap EXCEPT !.version = IF Mirrored THEN version ELSE @]
    /\ pc' = "send"
    /\ UNCHANGED <<subs, version, present, pkt, todo, ring, efd, waking, drops, owed, got>>

On(w) == {v \in Range(snap.viewers) : Where[v] = w}

(* Mutant: the ring of the publisher's own worker is fed as well. *)
RemoteTargetsAll == {w \in Workers : On(w) # {}}

RemoteTargets == {w \in Workers \ {Pub} : On(w) # {}}

(* The same-worker fast path sends directly. *)
Send ==
    /\ pc = "send"
    /\ Deliver(On(Pub))
    /\ owed' = [v \in Viewers |-> IF v \in Range(snap.viewers) THEN owed[v] \cup {pkt}
                                  ELSE owed[v]]
    /\ todo' = RemoteTargets
    /\ pc' = IF RemoteTargets = {} THEN "idle" ELSE "fan"
    /\ UNCHANGED <<subs, version, present, snap, pkt, ring, efd, waking, drops>>

(* The place of the snapshot's i-th viewer among those of worker w. *)
Place(i, w) == Cardinality({j \in 1..i : Where[snap.viewers[j]] = w})

(* Mutant: off by one at the entry's limit. *)
EntryViewersShort(w) ==
    {snap.viewers[i] : i \in {j \in DOMAIN snap.viewers :
                                Where[snap.viewers[j]] = w /\ Place(j, w) < MaxEntry}}

(* One entry per target worker: the first MaxEntry of its viewers. *)
EntryViewers(w) ==
    {snap.viewers[i] : i \in {j \in DOMAIN snap.viewers :
                                Where[snap.viewers[j]] = w /\ Place(j, w) <= MaxEntry}}

(* The loop over the workers: its current one, and the step to the next. *)
Current == Min(todo)

NextWorker ==
    /\ todo' = todo \ {Current}
    /\ pc' = IF todo' = {} THEN "idle" ELSE "fan"

(* ngx_rtc_shm_ring_enqueue: a full ring drops the packet, counted. *)
FanDropped ==
    /\ pc = "fan"
    /\ RingFull(ring[Current])
    /\ drops' = drops \cup {<<pkt, Current>>}
    /\ NextWorker
    /\ UNCHANGED <<subs, version, present, snap, pkt, ring, efd, waking, owed, got>>

Fan ==
    /\ pc = "fan"
    /\ ~RingFull(ring[Current])
    /\ ring' = [ring EXCEPT ![Current] =
                   Enqueued(@, [pkt |-> pkt, to |-> EntryViewers(Current)])]
    /\ pc' = "notify"
    /\ UNCHANGED <<subs, version, present, snap, pkt, todo, efd, waking, drops, owed, got>>

(* The write to the worker's eventfd follows the enqueue. *)
Notify ==
    /\ pc = "notify"
    /\ efd' = [efd EXCEPT ![Current] = TRUE]
    /\ NextWorker
    /\ UNCHANGED <<subs, version, present, snap, pkt, ring, waking, drops, owed, got>>

-----------------------------------------------------------------------------
(* The owner worker *)

(* ngx_rtc_stream_notify_handler: reading the eventfd clears it, before the *)
(* ring is looked at.                                                       *)
Wake(w) ==
    /\ efd[w] /\ w \notin waking
    /\ efd' = [efd EXCEPT ![w] = FALSE]
    /\ waking' = waking \cup {w}
    /\ UNCHANGED <<subs, version, present, publisherVars, ring, got>>

(* ngx_rtc_stream_drain_ring: dequeue until the ring is empty. *)
Drain(w) ==
    /\ w \in waking /\ ~RingEmpty(ring[w])
    /\ ring' = [ring EXCEPT ![w] = Dequeued(@)]
    /\ LET e == RingFront(ring[w])
       IN  got' = [v \in Viewers |-> IF v \in e.to \cap present THEN Append(got[v], e.pkt)
                                     ELSE got[v]]
    /\ UNCHANGED <<subs, version, present, publisherVars, efd, waking>>

(* Mutant: an entry per wakeup, although eventfd writes coalesce. *)
DrainedEarly(w) ==
    /\ w \in waking
    /\ waking' = waking \ {w}
    /\ UNCHANGED <<subs, version, present, publisherVars, ring, efd, got>>

Drained(w) ==
    /\ w \in waking /\ RingEmpty(ring[w])
    /\ waking' = waking \ {w}
    /\ UNCHANGED <<subs, version, present, publisherVars, ring, efd, got>>

-----------------------------------------------------------------------------
Broadcast == Snapshot \/ Stamp \/ Send \/ Fan \/ FanDropped \/ Notify

Consumer(w) == Wake(w) \/ Drain(w) \/ Drained(w)

Next == \/ Emit \/ Broadcast
        \/ \E w \in Workers : Consumer(w)
        \/ \E v \in Viewers : Join(v) \/ Leave(v)

(* A started broadcast finishes, and epoll reports a readable eventfd until *)
(* it is read (it is registered level-triggered).                           *)
Spec == /\ Init /\ [][Next]_vars
        /\ WF_vars(Broadcast)
        /\ \A w \in Workers : WF_vars(Consumer(w))

-----------------------------------------------------------------------------
(* Properties *)

(* Each viewer receives packets in the order they were sent and none twice, *)
(* whichever path its worker is on and however its ring wraps.              *)
InOrder ==
    \A v \in Viewers : \A i, j \in DOMAIN got[v] : i < j => got[v][i] < got[v][j]

InFlight(v) == {e.pkt : e \in {x \in Range(Queued(ring[Where[v]])) : v \in x.to}}

(* Every packet broadcast to a viewer reached it, is queued for it, is yet  *)
(* to be enqueued, or was dropped at a full ring and counted: none is lost  *)
(* silently between the rings' two ends.                                    *)
NoSilentLoss ==
    \A v \in present : \A k \in owed[v] :
        \/ k \in Range(got[v]) \cup InFlight(v)
        \/ <<k, Where[v]>> \in drops
        \/ k = pkt /\ Where[v] \in todo /\ (pc = "notify" => Where[v] # Current)

(* No wakeup is lost: whatever is enqueued is drained, although the eventfd *)
(* is written after the enqueue and read before the drain.                  *)
RingsDrained ==
    \A w \in Workers : ~RingEmpty(ring[w]) ~> RingEmpty(ring[w])

-----------------------------------------------------------------------------
(* What the code's comments say of it, and it does not do. *)

(* ngx_rtmp_rtc_bridge_module.c: the snapshot is refreshed only when the    *)
(* subscriber set changed; equal versions mean an up-to-date snapshot.      *)
SnapshotCurrent ==
    pc = "idle" /\ snap.version = version => Range(snap.viewers) = Range(subs)

(* ngx_rtmp_rtc_bridge_module.c: one entry per target worker carries its    *)
(* ready session ids.                                                       *)
EntryCarriesAll ==
    pc = "notify" => EntryViewers(Current) = On(Current)
=============================================================================
