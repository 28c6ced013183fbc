----------------------------- MODULE VideoCache -----------------------------
(***************************************************************************)
(* The caches a viewer's NACK, PLI and first frame are answered from: the  *)
(* per-process GOP ring of ngx_rtc_core.c on the publisher's worker, and   *)
(* the per-source retransmit ring of ngx_rtc_shm.c for viewers on other    *)
(* workers.  One source name; its publisher may stop, restart, and come    *)
(* back on another worker or over the other protocol.                      *)
(*                                                                         *)
(* Both rings keep the last packets by absolute index and find one by RTP  *)
(* sequence number: the distance from the oldest retained sequence is the  *)
(* slot's offset, which is right as long as what is retained is contiguous.*)
(***************************************************************************)
EXTENDS Integers, Sequences, FiniteSetsExt

CONSTANTS
    Processes,    \* the nginx workers
    Protocols,    \* subset of {"rtmp", "whip"}
    LocalCap,     \* gop_ring_slots, a power of two
    ShmCap,       \* NGX_RTC_SHM_RETX_RING_CAP, a power of two
    SeqSpace,     \* 2^16 in the code
    FirstSeqs,    \* where a WHIP publisher's numbers may begin
    MaxGens,      \* bound on the publishes
    MaxSeq,       \* bound on the sequence numbers used by one publish
    MaxSkipped    \* bound on the packets a publish's uplink loses

ASSUME CacheConstants ==
    /\ Protocols \subseteq {"rtmp", "whip"}
    /\ {LocalCap, ShmCap, SeqSpace, MaxSeq} \subseteq Nat \ {0} /\ MaxGens \in Nat
    /\ FirstSeqs \subseteq 0..(SeqSpace - 1)
    /\ LocalCap <= SeqSpace /\ ShmCap <= SeqSpace
    /\ MaxSkipped \in Nat /\ LocalCap + MaxSkipped <= SeqSpace   \* no loss of a whole number space

NoWorker == "none"

VARIABLES
    pub,      \* the worker the publisher's media arrives on, or NoWorker
    proto,    \* its protocol
    gen,      \* history: which publish this is
    sent,     \* how many packets of this publish were emitted
    window,   \* history: the last LocalCap of them, newest last
    skipped,  \* sequence numbers the uplink lost and the jitter buffer skipped
    base,     \* first sequence number of this publish
    local,    \* worker -> the GOP ring of its local source
    shm,      \* the retransmit ring
    remote,   \* remote_subscribers is not zero
    recent    \* a keyframe request went out less than PLI_MIN_INTERVAL ago

cacheVars == <<pub, proto, gen, sent, window, skipped, base, local, shm, remote, recent>>

(* A packet opens a keyframe access unit, closes an access unit (the RTP   *)
(* marker), or neither.  The parameter-set packet that opens one never     *)
(* closes it.                                                              *)
Packets == [gen : 1..MaxGens, seq : 0..(SeqSpace - 1), n : 1..MaxSeq,
            part : {"start", "more", "last"}]

Miss == [gen |-> 0, seq |-> 0, n |-> 0, part |-> "more"]

-----------------------------------------------------------------------------
(* The ring.  ngx_rtc_rtp_ring_* and ngx_rtc_shm_retransmit_* are the same *)
(* code over different memory.                                             *)

EmptyRing(cap) ==
    [head |-> 0, count |-> 0, gop |-> 0, cap |-> cap,
     slot |-> [i \in 0..(cap - 1) |-> Miss]]

Slot(r, i) == r.slot[i % r.cap]

Oldest(r) == r.head - r.count

(* ngx_rtc_rtp_ring_push, ngx_rtc_shm_retransmit_append *)
Push(r, p) ==
    [r EXCEPT !.slot[r.head % r.cap] = p,
              !.gop = IF p.part = "start" THEN r.head ELSE @,
              !.head = @ + 1,
              !.count = IF @ < r.cap THEN @ + 1 ELSE @]

(* Mutant: the distance is taken from the newest packet. *)
GetFromHead(r, s) ==
    LET dist == (Slot(r, r.head - 1).seq - s) % SeqSpace
        p    == Slot(r, r.head - dist)
    IN  IF r.count = 0 \/ dist >= r.count \/ p.seq # s THEN Miss ELSE p

(* Mutant: the slot's own sequence number is not compared. *)
GetUnverified(r, s) ==
    LET dist == (s - Slot(r, Oldest(r)).seq) % SeqSpace
    IN  IF r.count = 0 \/ dist >= r.count THEN Miss ELSE Slot(r, Oldest(r) + dist)

(* ngx_rtc_rtp_ring_get, ngx_rtc_shm_retransmit_get *)
Get(r, s) ==
    LET dist == (s - Slot(r, Oldest(r)).seq) % SeqSpace
        p    == Slot(r, Oldest(r) + dist)
    IN  IF r.count = 0 \/ dist >= r.count \/ p.seq # s THEN Miss ELSE p

(* Mutant: the packets of the previous publish stay valid. *)
RestartedKeepsCount(r) == [r EXCEPT !.gop = 0]

(* The local ring on an RTMP restart: head is left alone. *)
Restarted(r) == [r EXCEPT !.count = 0, !.gop = 0]

(* Mutant: a replay is the whole window. *)
ReplayFromOldest(r) == Oldest(r)

(* ngx_rtc_shm_retransmit_reset: indices restart as well. *)
ShmReset == EmptyRing(ShmCap)

(* Where a replay begins: the latest keyframe, or the oldest packet.       *)
ReplayFrom(r) == IF r.gop > Oldest(r) THEN r.gop ELSE Oldest(r)

(* One access unit: through the first packet with the marker. *)
ReplayTo(r) ==
    LET ends == {i \in ReplayFrom(r)..(r.head - 1) : Slot(r, i).part = "last"}
    IN  IF ends = {} THEN r.head - 1 ELSE Min(ends)

(* ngx_rtc_rtp_ring_replay *)
Replay(r) ==
    IF r.count = 0 THEN <<>>
    ELSE [k \in 1..(ReplayTo(r) - ReplayFrom(r) + 1) |-> Slot(r, ReplayFrom(r) + k - 1)]

-----------------------------------------------------------------------------
(* Types of the two packet rings and of the counters that index them. *)
CacheTypeOK ==
    /\ pub \in Processes \cup {NoWorker} /\ proto \in {"rtmp", "whip"}
    /\ gen \in 0..MaxGens /\ skipped \in 0..MaxSkipped /\ base \in 0..(SeqSpace - 1)
    /\ sent \in 0..MaxSeq /\ window \in Seq(Packets) /\ Len(window) <= LocalCap
    /\ \A r \in {local[w] : w \in Processes} \cup {shm} :
          /\ r.count \in 0..r.cap /\ r.count <= r.head
          /\ r.gop \in 0..r.head /\ (r.count > 0 => r.gop < r.head)
          /\ \A i \in Oldest(r)..(r.head - 1) : Slot(r, i) \in Packets
    /\ remote \in BOOLEAN /\ recent \in BOOLEAN

CacheInit ==
    /\ pub = NoWorker /\ proto = "rtmp" /\ gen = 0 /\ sent = 0 /\ window = <<>>
    /\ skipped = 0 /\ base = 0
    /\ local = [w \in Processes |-> EmptyRing(LocalCap)] /\ shm = EmptyRing(ShmCap)
    /\ remote = FALSE /\ recent = FALSE

-----------------------------------------------------------------------------
(* The publisher *)

NewPublish(w, kind, first) ==
    /\ gen < MaxGens
    /\ gen' = gen + 1
    /\ pub' = w /\ proto' = kind /\ base' = first
    /\ sent' = 0 /\ window' = <<>> /\ skipped' = 0
    /\ UNCHANGED <<remote, recent>>

(* An AVC sequence header on the RTMP ingest worker, at the start of a     *)
(* publish or in the middle of one: sequence numbers restart at 0 and both *)
(* rings are emptied.                                                      *)
StartRtmp(w) ==
    /\ "rtmp" \in Protocols
    /\ pub = NoWorker \/ (pub = w /\ proto = "rtmp")
    /\ NewPublish(w, "rtmp", 0)
    /\ local' = [local EXCEPT ![w] = Restarted(@)]
    /\ shm' = ShmReset

(* A WHIP publisher attaches: its sequence numbers begin anywhere, and the *)
(* rings are not touched.                                                  *)
StartWhip(w, first) ==
    /\ "whip" \in Protocols
    /\ pub = NoWorker
    /\ NewPublish(w, "whip", first)
    /\ UNCHANGED <<local, shm>>

(* The publisher leaves.  Its worker's local source, with the ring, goes   *)
(* only if no viewer there holds it.                                       *)
PublisherLeaves ==
    /\ pub # NoWorker
    /\ pub' = NoWorker
    /\ \E held \in BOOLEAN :
          local' = [local EXCEPT ![pub] = IF held THEN @ ELSE EmptyRing(LocalCap)]
    /\ UNCHANGED <<proto, gen, sent, window, skipped, base, shm, remote, recent>>

LastOf(s, k) == IF Len(s) > k THEN Tail(s) ELSE s

NextSeq == (base + sent + skipped) % SeqSpace

(* ngx_rtc_shm_retransmit_append: only while a remote viewer is counted.   *)
(* To its readers a ring that could not be allocated is one not appended to.*)
ShmAppended(p) == IF remote THEN Push(shm, p) ELSE shm

(* ngx_rtmp_rtc_emit and ngx_rtc_stream_whip_emit for one video packet.    *)
Video(part) ==
    /\ pub # NoWorker
    /\ sent + skipped < MaxSeq
    /\ LET p == [gen |-> gen, seq |-> NextSeq, n |-> sent + 1, part |-> part]
       IN  /\ sent' = sent + 1
           /\ window' = LastOf(Append(window, p), LocalCap)
           /\ local' = [local EXCEPT ![pub] = Push(@, p)]
           /\ shm' = ShmAppended(p)
    /\ UNCHANGED <<pub, proto, gen, skipped, base, remote, recent>>

(* A WHIP uplink packet never arrives: the jitter buffer skips its number. *)
Lost ==
    /\ pub # NoWorker /\ proto = "whip"
    /\ skipped < MaxSkipped /\ sent + skipped < MaxSeq
    /\ skipped' = skipped + 1
    /\ UNCHANGED <<pub, proto, gen, sent, window, base, local, shm, remote, recent>>

(* The first remote viewer comes, the last one goes. *)
RemoteViewers ==
    /\ remote' = ~remote
    /\ UNCHANGED <<pub, proto, gen, sent, window, skipped, base, local, shm, recent>>

-----------------------------------------------------------------------------
(* The viewer's worker *)

(* ngx_rtc_source_gop_ready *)
GopReady(w) == local[w].count # 0

(* ngx_rtc_shm_retransmit_get *)
ShmGet(s) == Get(shm, s)

(* ngx_rtc_stream_retransmit: what a NACK for s is answered with on w. *)
Retransmit(w, s) == IF GopReady(w) THEN Get(local[w], s) ELSE ShmGet(s)

(* ngx_rtc_shm_retransmit_replay_gop *)
ShmReplay == Replay(shm)

(* ngx_rtc_stream_replay_gop: what is sent, and its result. *)
Replayed(w) == IF GopReady(w) THEN Replay(local[w]) ELSE ShmReplay

Served(w) == GopReady(w) \/ ShmReplay # <<>>

(* ngx_rtc_stream_request_keyframe: needs the publisher's session on this   *)
(* worker, and collapses requests.                                         *)
MayAsk(w) == pub = w /\ proto = "whip" /\ ~recent

(* A PLI, or a viewer's first frame, that the cache does not serve: the     *)
(* publisher is asked.  A served one changes nothing here.                  *)
Pli(w) ==
    /\ ~Served(w) /\ MayAsk(w)
    /\ recent' = TRUE
    /\ UNCHANGED <<pub, proto, gen, sent, window, skipped, base, local, shm, remote>>

(* NGX_RTC_PLI_MIN_INTERVAL_MS pass. *)
IntervalOver ==
    /\ recent
    /\ recent' = FALSE
    /\ UNCHANGED <<pub, proto, gen, sent, window, skipped, base, local, shm, remote>>

-----------------------------------------------------------------------------
CacheNext == \/ \E w \in Processes : StartRtmp(w) \/ Pli(w)
             \/ \E w \in Processes, s \in FirstSeqs : StartWhip(w, s)
             \/ \E part \in {"start", "more", "last"} : Video(part)
             \/ PublisherLeaves \/ Lost \/ RemoteViewers \/ IntervalOver

CacheSpec == CacheInit /\ [][CacheNext]_cacheVars

-----------------------------------------------------------------------------
(* Properties *)

Retained(r) == {Slot(r, i) : i \in Oldest(r)..(r.head - 1)}

FromRtmp == pub # NoWorker /\ proto = "rtmp"

(* On an RTMP publisher's worker every packet the ring retains is found by *)
(* its sequence number, across the 16-bit wrap, restarts and a WHIP publish*)
(* before: a NACK for one of the last packets is always answered, and with *)
(* that packet.                                                            *)
RetainedFound ==
    FromRtmp => \A p \in Retained(local[pub]) : Get(local[pub], p.seq) = p

(* Neither ring answers for an RTMP publish with a packet of an earlier    *)
(* publish, although every publish numbers its packets from 0.             *)
CurrentGeneration ==
    FromRtmp => \A r \in {local[pub], shm} : \A p \in Retained(r) : p.gen = gen

(* What a hit returns was sent recently, and is the newest packet sent     *)
(* under that number: for every RTMP publish, and for a WHIP publisher with*)
(* a lossy uplink unless its worker still has an earlier publish's ring.   *)
NewestServed ==
    FromRtmp \/ (pub # NoWorker /\ gen = 1) => \A s \in 0..(SeqSpace - 1) :
        LET p == Get(local[pub], s)
        IN  p # Miss => \E i \in DOMAIN window :
                /\ window[i] = p /\ p.seq = s
                /\ \A j \in DOMAIN window : window[j].seq = s => j <= i

Keyframes == {i \in DOMAIN window : window[i].part = "start"}

(* If the latest keyframe is still within the ring, a replay on the        *)
(* publisher's worker starts exactly there, in order and without holes.    *)
LatestKeyServed ==
    pub # NoWorker /\ Keyframes # {} =>
        LET out == Replay(local[pub])
        IN  /\ out # <<>>
            /\ \A i \in DOMAIN out : Max(Keyframes) + i - 1 \in DOMAIN window
                                     /\ out[i] = window[Max(Keyframes) + i - 1]

(* On an RTMP publisher's worker a packet that the ring retains is found by *)
(* its number; a hit is the newest packet sent under its number, and never  *)
(* one of an earlier publish of the same source.  A replay starts at the    *)
(* latest keyframe, in order and without holes.                             *)
CacheExact == RetainedFound /\ CurrentGeneration /\ NewestServed /\ LatestKeyServed

-----------------------------------------------------------------------------
(* What the repository says of it, and the code does not do. *)

(* ngx_rtc_core.h: a cached packet is located by its sequence number.  The  *)
(* same as RetainedFound, for a WHIP publisher whose uplink loses packets.  *)
CachedLocated ==
    pub # NoWorker => \A p \in Retained(local[pub]) : Get(local[pub], p.seq) = p

(* ngx_rtc_shm.h: the publisher appends every video packet in sequence     *)
(* order; so a remote viewer is never answered with a packet whose number  *)
(* has been used again since.                                              *)
ShmNewestServed ==
    pub # NoWorker /\ remote => \A s \in 0..(SeqSpace - 1) :
        LET p == ShmGet(s) IN p # Miss => sent - p.n < SeqSpace

(* ngx_rtmp_rtc_bridge_module.c: stale caches are dropped, an old packet    *)
(* must not be served for a new one - to no viewer, whichever its worker.  *)
NoStaleAnswer ==
    pub # NoWorker => \A w \in Processes, s \in 0..(SeqSpace - 1) :
        Retransmit(w, s).gen \in {0, gen}

(* ngx_rtc_stream_module.c: replay_gop reports 0 when the cache holds no    *)
(* keyframe, which is what makes the publisher be asked for one.            *)
ServedMeansKeyframe ==
    pub # NoWorker => \A w \in Processes :
        Served(w) => Replayed(w)[1].part = "start"
=============================================================================
