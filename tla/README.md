# A TLA+ model of nginx-rtc-module

nginx-rtc-module turns nginx into a small WebRTC media server: it takes live streams
from RTMP publishers (through nginx-rtmp) and from WHIP publishers, and serves them to
WebRTC viewers over ICE, DTLS and SRTP. Everything runs inside nginx workers: each is
one thread with an event loop, and what a worker has to share with the others is in one
shared-memory zone.

This directory models the parts of the module whose correctness depends on what happens
between workers, threads, packets and timers; `PROJECT.json` maps every definition to the
lines it models.

Contents: 1 the system, 2 the modules, 3 the runs, 4 the fairness assumed, 5 what is proved, 6 where
code and comments disagree, 7 what is not modelled, 8 the plan.

## 1. The system

### 1.1 Components, their state and their operations

| component | state | operations | source |
|---|---|---|---|
| shared registry | a tree of *sources* (a stream name: publish claim, heartbeat, deadline, subscriber queue, remote count) and of *session skeletons* (ufrag, owner slot, ready, deadline, close flag, pointer to the source), in a slab, under one mutex | get/remove a source, add/bind/activate/remove a session, try/release publish, request close, set state, expire | `ngx_rtc_shm.c` |
| worker handlers | per worker: local sources and local sessions, with cached pointers into the zone | HTTP play/WHIP/kick/disconnect, STUN, DTLS, SRTP, close, reap timer, RTMP claim and release | `ngx_rtc_http_module.c`, `ngx_rtc_stream_module.c`, `ngx_rtmp_rtc_bridge_module.c`, `ngx_rtc_core.c` |
| media fan-out | the publisher's snapshot of the subscribers and its version; one bounded ring and one eventfd per worker | snapshot, enqueue, notify, drain | `ngx_rtmp_rtc_bridge_module.c`, `ngx_rtc_shm.c` |
| video caches | the GOP ring of a local source, the retransmit ring of a shared one | append, look up by sequence number, replay from the keyframe, reset | `ngx_rtc_core.c`, `ngx_rtc_shm.c` |
| uplink reorder buffer | a window of slots, the next number, the age of the gap | push, drain, skip a gap, re-anchor | `ngx_rtc_jitter.c` |
| send gate | drop-until-GOP flag, open keyframe unit, full-socket streak, transport-wide number | send one RTP packet | `ngx_rtc_core.c` |
| pacer | token bucket, target rate, loss window | admit, transport-cc report, REMB | `ngx_rtc_core.c` |
| NACK budget | window and its width, what was retransmitted in it | answer a NACK | `ngx_rtc_core.c` |
| state-machine engine | current state of a hierarchy | dispatch, reset, restore | `ngx_rtc_hsm.c` |
| audio transcoder | a thread, two byte queues, a sample FIFO, the audio sequence number | create, push, drain, destroy; decode, resample, encode | `ngx_rtc_audio_worker.c`, `ngx_rtc_audio.c`, `ngx_rtc_ring.c` |
| transport (DTLS, SRTP) | per worker: UDP connections with a context each, sessions with connection, SSL object, keys, retransmission timer; posted finalizes | STUN binding, DTLS record, SRTP and SRTCP, DTLS timer, reap, close, finalize | `ngx_rtc_stream_module.c`, `ngx_rtc_dtls.c`, `ngx_rtc_srtp.c` |
| session state table | state of a session: NEW, ICE_BOUND, DTLS_HANDSHAKE, SRTP_READY, CLOSED | dispatch an event, restore a published state | `ngx_rtc_session_fsm.c` |
| media identity | SSRC and payload type of a source in the zone and in each worker's copy, of a viewer in its session | play, attach, RTMP sync, WHIP's first packet, rewrite per viewer | `ngx_rtc_core.c`, `ngx_rtc_shm.c`, `ngx_rtc_http_module.c`, `ngx_rtc_stream_module.c` |
| RTP packetizer | parameter sets and sequence number of a source | AVC header, video tag: single NAL units, FU-A, STAP-A | `ngx_rtc_rtp.c`, `ngx_rtmp_rtc_bridge_module.c` |
| RTCP | none of its own | walk a compound packet and act on it; sender reports | `ngx_rtc_rtcp.c`, `ngx_rtc_stream_module.c` |
| STUN, SDP | none of their own | decode, verify and answer a binding request; read an offer, write its answer | `ngx_rtc_stun.c`, `ngx_rtc_sdp.c` |
| A/V sync | anchor and slope of the sender's clock | sender report, map RTP to wall time | `ngx_rtc_avsync.c` |
| counters and statistics page | per-session and per-source counters, the zone's totals; a fixed buffer | count, flush, mirror; write the document | `ngx_rtc_http_module.c`, `ngx_rtmp_rtc_bridge_module.c` |
| configuration, zone set-up | (see 7) | | `ngx_rtc_core_module.c` |

### 1.2 How they interact

A play or WHIP request arrives by HTTP on any worker. That worker creates a local session,
and puts a skeleton of it into the zone. The client's first STUN packet may reach another
worker, which finds the skeleton by ufrag, *binds* it to its slot and rebuilds the session
from it; the signalling worker keeps its own copy until it times out. The end of the DTLS
handshake *activates* the skeleton, which links a viewer into the subscriber queue of its
source. Publishing is a claim on the name: a flag and a kind in the shared source, mirrored
in the local source, refreshed by a heartbeat that is written without the mutex.

Media of a publisher is broadcast by its worker: to viewers of the same worker directly, to
the others through their worker's ring and eventfd. What a viewer lost is answered from the
GOP ring on the publisher's worker, or from the shared retransmit ring elsewhere.
Each packet to a viewer passes the send gate, which asks the pacer. AAC audio goes
through a transcoder thread and comes back as Opus with a later audio tag.

A kick only sets a flag in the zone; the reap timer of each worker finds it. The same timer
reaps the zone. When the slab is full, an allocation reaps *by force*, without waiting for deadlines.
A session is bound to the UDP connection its latest binding request came from; the connection's context points back at
it. nginx does not end an idle UDP connection by itself, so closing a session clears that context and *posts* the connection's finalize, which
runs after the handler that closed it has returned. During the handshake an nginx timer repeats what OpenSSL's own timer asks for.

Any worker may die and be respawned on its slot: it loses all local state and the zone keeps what it had.

### 1.3 What is hard here

- A handler takes the zone's mutex several times, and other workers act in between; pointers
  into the zone are cached and used without the mutex.
- Claims, skeletons, local sources and deadlines are undone on many paths: close, timeout,
  refusal, failure in the middle of a request, forced reap, crash.
- The snapshot's version, the eventfd and the condition variable are each a check followed by
  a use, with a producer in between.
- A session and its connection are freed separately, from receive paths, timers, posted events and library callbacks that hold pointers to both.
- What a worker knows of a source (claim, SSRC, payload type) is a copy with its own few moments of refresh.
- 16-bit sequence numbers, ring indices, window sizes and byte offsets are compared across wraps.
- Two producers (live media, retransmissions) share one gate; feedback of two kinds moves one rate.

`PROJECT.json` lists such hazards with the line where each bites and the properties that guard it.

### 1.4 What makes each component correct

| component | properties |
|---|---|
| registry | a name has one source (`UniqueNames`); no skeleton points at a freed source (`SkeletonSourceLive`); a ready session is out of the reaper's reach (`ReadySessionsHeld`); every idle source has a deadline (`NoOrphanSource`) and is collected (`IdleSourceReaped`); a source is freed only when idle (`FreedOnlyWhenIdle`); an owner never changes (`OwnerNeverMoves`) |
| handlers | they use the zone within that contract (`ImplementsRegistry`); a local source exists exactly while it is held (`LocalSourceHeld`); a ready skeleton has its media path (`ReadyHasMedia`); no claim without a publisher (`ClaimHasPublisher`), and no request that leaves one behind (`ClaimHandedBack`); only its owner ends a session (`FreedByOwner`); kicked and silent sessions end (`SessionsEnd`) |
| transport | `NoUseAfterFree`; connection slots come back (`SlotsReturned`); an abandoned handshake ends (`HandshakeEnds`) |
| state table | the engine's transitions are nested (`ProperlyNested`) and come to what the handlers assume (`TableAgrees`) |
| fan-out | `InOrder`, nothing lost uncounted (`NoSilentLoss`), no lost wakeup (`RingsDrained`) |
| caches, reorder buffer | `CacheExact`; `UplinkOrdered` |
| packetizer, identity | a receiver gets the NAL units back (`Reassembles`); a viewer gets what it negotiated (`Negotiated`) |
| one session | `NoTornVideo`, `KeyframeWhole`, `TransportContiguous`; `PacerRecovers`; `ResentOnce` |
| signalling and feedback | `AnswerMirrors`, `BindingAnswered`, `FeedbackExact`, `MapClose` |
| counters, page | no failed send is counted twice, and one is lost only with a session that closes before its flush or whose source is gone (`FailuresAccounted`); no write cut (`DocumentWhole`) |
| audio | `JoinedBeforeFree`, `ThreadWakes`; `ImplementsFifo` |

The modules also state weaker invariants that these rest on and that no run repeats: a type invariant each, `CachedPlayable` and
`WindowConsistent` (Jitter), `ExemptionBounded` (SendGate), `BucketBounded`, `PauseAdmits` and `RembNeverRaises` (Pacer), `HandledOnce` (Hsm), `Framed`
(ByteRing), `FlightTimed` (Transport), `MarkerLast` (Packetizer). They hold on the instances of section 3; all but `HandledOnce`, `FlightTimed` and `MarkerLast` are theorems (section 5).

## 2. The modules

```
ShmOps            the registry's operations as functions of a zone    <- ShmOpsProofs
  ShmRegistry       any worker calls any of them at any time            <- ShmRegistryProofs
  RtcWorkers        the handlers that call them; implements ShmRegistry <- RtcWorkersProofs
Transport         connections, handshakes and teardown on one worker    <- TransportProofs
SessionFsm        the session's state tables; used by Transport and, with Hsm, by MCSession
MediaFanout       one packet to every viewer                            <- MediaFanoutProofs
Packetizer        from an RTMP tag to RTP packets  \
Jitter            the uplink reorder buffer         | MCVideo
VideoCache        the two packet rings              |                   <- VideoProofs
MediaIdentity     SSRC and payload type per viewer /
SendGate, NackWindow, AvSync                       \
Hsm (with SessionFsm)                               |
Reports, StatsPage                                  |
AudioWorker       the two threads and their queues  | MCSession         <- SessionProofs
BoundedFifo                                         |
  ByteRing          implements BoundedFifo          |
Pacer                                               |                   <- PacerProofs
Rtcp, Stun, Sdp                                    /
```

**ShmOps** has one operator per function of `ngx_rtc_shm.c` that takes the mutex, mapping a
zone `R` to the zone after it (or to the set of zones, where an allocation may fail). A zone is `src`, a record per
slab *cell*, and `sess`, a record per ufrag. Sources are identified by cell and not by name, because what can go
wrong is that a pointer outlives the source it was taken for: a freed cell keeps
`live = FALSE` and can be handed to another name. Deadlines are counted down in
ticks (`Unarmed` is the code's 0); the age of the heartbeat stops at `PublishGrace`, beyond which it makes
no difference. `SlabFails` says which allocations can find the slab full: then
`ExpireLocked(R, TRUE)` runs in the middle of the operation, as in the code.

**ShmRegistry** is the contract: its actions are the operations, in any order, with any
arguments, by any worker, plus time and the reaper. `issued` remembers the ufrags handed out;
they are random in the code and never repeat here.

**RtcWorkers** models the handlers. A worker is single-threaded, so only the points where a handler
takes the mutex are visible to the others: a handler is its first locked call, taken by its own action, and an *agenda* of the
calls it has left, taken one at a time by `Resume`. `lsrc` and `lsess` are the local sources and
sessions; `publishing` and `publisher_kind` of a local source are always written together and are one field.
`Crash` empties a worker's local state and agenda at any point. A tick is seconds and a handler
microseconds, so `Tick` waits until no handler is half done. Every action leaves `shm` as some
action of ShmRegistry would: that is `ImplementsRegistry`.

**MediaFanout** takes `ngx_rtc_broadcast_rtp` apart at the points where other workers act: the version read, the
locked snapshot, the version store, each enqueue, each eventfd write; and the consumer at the eventfd
read and each dequeue. Ring operations are under the ring's own mutex and atomic.

**VideoCache** keeps both rings by absolute index like the code, with packets that know their publish,
their number and their place in an access unit, so that a wrong answer is visible. **Jitter** is
`ngx_rtc_jitter_push` with the network as environment: any packet may arrive early, late, twice or never, up to `MaxLate` behind the newest.

**SendGate** is `ngx_rtc_session_send_rtp`, with the verdict of the pacer and the socket's answer as inputs; **Pacer** its
token bucket and rate control in the code's integer arithmetic; **NackWindow** the retransmission budget; **Hsm** the engine of
`ngx_rtc_hsm.c` for any tables of states and transitions.

**Transport** is one worker's connections and sessions. Handlers run to completion, so each is one action, composed of the functions it
calls; a function maps a *world* (sessions, connections, posted events, skeletons) to the next one, and `bad` records an access to freed memory
on the way. A freed session keeps `mem = "freed"`, so a pointer that outlives it is visible. OpenSSL is external: a record makes it
answer, start a flight, finish or fail, and its own timer per flight runs out at some point. `Roaming` says whether clients change addresses.
`AllocFails` lets the allocations of the timer and of the posted event fail.

**SessionFsm** is the tables of `ngx_rtc_session_fsm.c` and `Moved`, what they amount to; the run `session` feeds the tables to `Hsm` and compares.

**MediaIdentity** has the zone's identity of a source, each worker's copy and each viewer's own, with one action per place that copies one into another, and
`Sent`, the comparison and rewriting of `ngx_rtc_session_send_rtp`. **Packetizer** turns a tag, a list of NAL units that are kinds and lengths, into packets
that carry intervals of bytes; RFC 6184's receiver is the reference.

**Rtcp** maps a datagram, as the sub-packets the code reads, to the list of effects the callback has; the reference is what the viewer meant. **Stun** keeps
lengths, padding and what the integrity code covers; codes are records of what they cover. **Sdp** folds the parser over the offer's lines, as the code
does, and compares the answer with the offer cut into sections. **AvSync** is the clock map: the sender's clock
runs at a rational rate and is read in whole units, so reports, slope and map all round, and reports come in any order. `ngx_rtc_avsync` has no runtime caller
yet (`docs/BACKLOG.md:43`), and the module drops the sender reports it receives (line 12): the environment is what the interface allows, as in its unit test.

**Reports** follows the counters: per-worker sources, the flush into the zone, the mirror into the skeletons, the sender reports; a close forgets what was not
flushed, and so does a flush whose source is not in the zone. **StatsPage** is the document's
writes as lengths into a buffer that silently cuts what does not fit; the lengths in its instance are those of the code's format strings.

**AudioWorker** has one action per critical section or piece of work outside the lock, of the nginx worker and of the
transcoder thread. Its queues are queues of sizes; that the byte arenas behind them are first-in first-out
queues is **ByteRing**'s refinement of **BoundedFifo**, with length prefixes and payloads that are split by the arena's end.

`MCSession` and `MCVideo` extend the modules that `SessionProofs` and `VideoProofs` are about (so TLC evaluates the very assumptions the proofs
use) and instantiate the others (`Pacer`, `Rtcp`, `Stun`, `Sdp`, `Packetizer`, the engine once more on the session's own tables); a module that is extended beside others names its initial
predicate, next-state relation and specification after itself (`GateInit`, `GateNext`, `GateSpec`).
The parts put together there share no variable. What one takes from another
is already an unconstrained input of its module (SendGate takes any verdict, VideoCache any loss, AudioWorker any queue behaviour that
ByteRing is shown to have), so a behaviour of one of these modules exercises one part, named by `part`, and the rest keep their initial state.

## 3. The runs

| run | instance | shows |
|---|---|---|
| `registry` | 2 names, 1 cell, 2 ufrags, 2 workers; source allocation may fail | `TypeOK`, `SkeletonSourceLive`, `ReadySessionsHeld`, `NoOrphanSource`, `FreedOnlyWhenIdle`, `OwnerNeverMoves` under every interleaving of calls |
| `workers_whip` | a WHIP publisher and a viewer on 2 workers (WHIP only: what two protocols do to a claim is `workers_contend`) | `ReadyHasMedia`, `ClaimHasPublisher`, `LocalSourceHeld` |
| `workers_live` | a viewer, an RTMP publisher on one worker, an administrator, one crash, fair timers | `ImplementsRegistry`; kicked and silent sessions are closed (`SessionsEnd`), idle sources and silent claims collected by the workers' own timers (`IdleSourceReaped`) |
| `workers_contend` | WHIP against RTMP on either worker, a request that fails part-way, one crash | refused claims, takeovers and a dead worker free no session in use (`FreedByOwner`) and leave no claim behind (`ClaimHandedBack`) |
| `fanout` | 3 viewers, 2 workers, rings of 2 slots, 3 packets | `InOrder`, `NoSilentLoss`, `RingsDrained` |
| `transport` | 2 clients, 2 addresses, allocations that fail, timeouts of 1 tick, OpenSSL gives up after 1 repetition at the latest, one crash, fair timers | `NoUseAfterFree`, `SlotsReturned`, `HandshakeEnds` |
| `video` | reorder buffer of 4 slots, numbers modulo 16, 8 packets, 2 publishes; caches: 2 workers, rings of 4 and 2, numbers modulo 5, one publish of up to 6 packets or two of 2, over either protocol, 1 loss; tags of up to 3 NAL units around 1, 2 and 3 packets of 7 bytes, numbers modulo 6; 2 viewers with different offers on 2 workers | `CacheExact`, `Reassembles`, `Negotiated`, `UplinkOrdered` |
| `session` | gate: keyframe cap 3, units of up to 4 packets; pacer: the code's ratios on a rate of 16 to 20 with bursts smaller and larger than a packet; NACK windows of 1 to 8 ms, budget 3; trees of depth 4 and the session's tables; NACKs around the wrap of numbers modulo 16, feedback of up to 2 chunks; user names of every padding; timestamps modulo 8 over two wraps, a clock of 7 units in 3 ticks; some 1600 offers of up to 3 sections; 2 workers with 2 failures to count, the source in the zone or not; the page's real lengths in 4 KB; 16 kHz AAC in units of 192 samples; an arena of 11 bytes with 2-byte prefixes | the sixteen properties of these parts |
| `registry_pressure` | skeleton allocation may fail | violates `SkeletonSourceLive` (section 6) |
| `workers_stale_close` | a WHIP publisher and a viewer that share a worker | violates `LiveClaimKept` (section 6) |
| `transport_roaming` | a client that changes its address | violates `NoUseAfterFree` (section 6) |
| `identity_whip` | a WHIP publisher and a viewer, 2 workers | violates `PtNegotiated` (section 6) |

Every property of a passing run has a mutant in `PROJECT.json`: a definition changed the way a plausible bug
would change the code, under which TLC finds the property violated.

### The bounds, and why they are enough

- *Two workers.* Every race in the handlers is between a worker that holds something and one that does not;
  two suffice for signalling on one and media on the other. Ownership by a third adds no new case, and the proofs hold for any number.
- *One name, two where names compete.* Names share nothing but the slab; `registry` makes two names compete
  for a single cell, which is when a reap by force happens inside another name's operation.
- *Timeouts of one tick.* Deadlines are only compared with the clock. One tick distinguishes armed, due and
  unarmed; all orders of expiry of different deadlines occur, because each is armed at its own time.
- *Rings, windows and number spaces.* Each wraps at least once in the run, with the number space larger than
  the ring, as in the code. Loss is bounded (`MaxSkipped`) so that no publisher loses a whole number space.
- *Histories* (`window`, `out`, `got`, `owed`) only observe. *Caps on counters* (`keyframe_pkts` at `KeyframeMax`, the
  heartbeat's age at `PublishGrace`) are at the point beyond which the code no longer tells values apart.
- *One medium for identity, one source for counters, small lengths for NAL units.* The code treats audio and video alike there and sources separately; lengths matter
  only by their remainder modulo the MTU, and each remainder that the code's divisions tell apart occurs.
- *The page.* Formats and their shortest and longest values are the code's; the buffer is a quarter of the code's, which the theorem of section 5 makes irrelevant.
- `MaxCrashes`, `MaxPublishes`, `MaxPackets`, `MaxSent`, `MaxSeq`, `MaxTime` bound the length of a behaviour. Where such a bound
  ends a behaviour (`fanout`, `video`, `identity_whip`) deadlock is not checked, nor in `session`, where a BYE ends a session and an offer is answered once; in the other runs it is.

Symmetry is used for ufrags and workers in safety runs only, and for workers only where RTMP can reach all of them or none.

## 4. The fairness assumed

- *The clock and the reap timer* (registry, handlers). Every worker arms the timer at start and re-arms it in its handler, so it
  keeps firing. In `RtcWorkers` both are strongly fair: a timer event waits for the running handler and is then
  served, however much traffic comes; nginx handles expired timers in every turn of the loop. A started handler finishes
  (weak fairness of `Resume`): there is no blocking call in it but the mutex. No client, publisher or administrator is obliged to do anything.
- *Broadcast and consumer* (fan-out). A started broadcast finishes; the eventfd is registered level-triggered, so a readable one is reported until it is read.
- *Handler and thread* (audio). A handler runs to its end and the kernel schedules the thread. Spurious wakeups may happen and are not fair.
- *Timers of the transport.* An armed nginx timer and the posted events are served in every turn of the loop, and OpenSSL's clock runs. The client need not do
  anything. One fact is taken from OpenSSL: `DTLSv1_handle_timeout` treats a timer with less than 15 ms left as due while `DTLSv1_get_timeout` then reports 0; the model has
  no instant between the two, so the nginx timer always finds the flight it was armed for due.
- *Feedback and a clear path* (in `PacerRecovers`). "On a clear path the rate recovers" needs a viewer that keeps reporting
  and a path that becomes clear for good: both are environment assumptions, stated in `Pacer`.

## 5. What is proved

Thirty-eight theorems, each for every value of the constants that the named assumptions allow; TLC evaluates those assumptions on every run of
the module. Where a theorem carries a hypothesis of its own, its safety property is false without it (TLC finds the counterexample on a small instance), except that `PacerConstants` is merely the
assumption of `Pacer`, whose module is instantiated and not extended by the run; `Transport`'s type correctness comes from the same invariant as its safety and shares its hypothesis.

| theorem | statement | hypothesis |
|---|---|---|
| ShmRegistry: `TypeCorrect` | `Spec => []TypeOK` | |
| `OneSourcePerName`, `ReadyNotReaped`, `IdleSourceExpires` | `UniqueNames`, `ReadySessionsHeld`, `NoOrphanSource` | |
| `NoDanglingSource`, `FreedIdle` | `SkeletonSourceLive`, `FreedOnlyWhenIdle` | skeleton allocations do not fail (`"session" \notin SlabFails`); false otherwise, run `registry_pressure` |
| `OwnerFixed` | `OwnerNeverMoves` | |
| RtcWorkers: `TypeCorrect` | `Spec => []TypeOK` | |
| `WorkersImplementRegistry` | `Spec => ImplementsRegistry` | |
| `ReadyMediaHeld`, `OwnerFrees` | `ReadyHasMedia`, `FreedByOwner` | |
| `SourcesHeld` | `LocalSourceHeld` | no RTMP publish is refused (`RtmpAccepted`) |
| `ClaimsHeld` | `ClaimHasPublisher` | no RTMP and WHIP publishers of one name meet on a worker (`PublishersApart`) |
| Transport: `TypeCorrect`, `NothingUsedAfterFree`, `SlotsGivenBack` | `TypeOK`, `NoUseAfterFree`, `SlotsReturned` | clients keep their address (`~Roaming`); false otherwise, run `transport_roaming` |
| MediaFanout: `DeliveredInOrder` | `InOrder` | |
| `LossIsCounted` | `NoSilentLoss` | a worker's viewers of a source fit in a ring entry (`Fits`); false otherwise, `EntryCarriesAll` in section 6 |
| SendGate: `TornHeldBack`, `KeyframeUncut`, `ExemptionHeld`, `NumbersContiguous` | `NoTornVideo`, `KeyframeWhole`, `ExemptionBounded`, `TransportContiguous` | |
| NackWindow: `AnsweredOncePerWindow` | `ResentOnce` | |
| Pacer: `BurstBounded`, `PauseAlwaysAdmits`, `RembOnlyLowers`, `RateClimbs` | `BucketBounded`, `PauseAdmits`, `RembNeverRaises`; a report without loss raises every target below the ceiling | `PacerConstants` |
| AvSync: `ClockMapClose` | `MapClose` | |
| AudioWorker: `ThreadJoined` | `JoinedBeforeFree` | |
| ByteRing: `RingIsFifo`, `RingFramed` | `ImplementsFifo` (the refinement of `BoundedFifo`), `Framed` | |
| Hsm: `FsmNested` | `ProperlyNested` | |
| Reports: `FailuresAccountedFor` | `FailuresAccounted` | |
| StatsPage: `PageNeverCut` | `DocumentWhole` | |
| Jitter: `UplinkInOrder`, `WindowHeld` | `UplinkOrdered`, `WindowConsistent` | |
| VideoCache: `CachesExact` | `CacheExact` | |
| MediaIdentity: `RtmpNegotiated` | `Negotiated` | no WHIP publisher (`"whip" \notin Kinds`); false otherwise, run `identity_whip` |

### The registry

`ShmOpsProofs` and `ShmRegistryProofs` are about any sets of names, cells, ufrags (finite) and worker slots and any
timeouts, from the assumptions `ShmSets` and `ShmTimes` of `ShmOps` alone.

**The inductive invariant.** `IndInv` is `RegInv(shm)` together with two facts on `issued`, the ufrags that were ever handed out: they are
ufrags, and every live skeleton's ufrag is among them. The last one is what keeps `ngx_rtc_shm_session_add` from
overwriting a live skeleton: the code draws a random ufrag and the model a fresh one. `RegInv(R)` is
`RegType`, `UniqueIn`, `HeldIn` and `NoOrphanIn`, stated over a *zone* `R` and not over the variable. That matters because the
reaper (`ExpireLocked`) runs on its own and also inside `ngx_rtc_shm_source_get` and `ngx_rtc_shm_session_add` when the slab is full, and because
the registry and the handlers over it share the operations: one lemma
per operation, "if `RegInv(R)` then `RegInv(Op(R))`", then serves every place the operation is called from.

**The argument.** `ShmOpsProofs` has one such lemma per operation. The reaper is split the way the code does it: free the
skeletons (`FreeSessionsInv`), reclaim dead publishers (`ReclaimInv`), free the sources (`FreeSourcesInv`). Its second half is about steps:
`SafeStep(R, T)` says that every skeleton that survives from `R` to `T` keeps its source and its owner, and that a source freed on the way was
idle and is unreferenced in `T`. Every action but `Add` is such a step (`CallsSafe`). `Add` is one followed by the writing
of one new skeleton (`AddStep`); its source was looked up *before* the safe step, which is why `NoDanglingSource` and
`FreedIdle` assume that skeleton allocation does not fail. The last part says what each operation does to the claims in the zone
(`Unclaimed`: none appears and none changes its kind), for the handlers' proof.

### The handlers

`RtcWorkersProofs` is about any number of workers, names, clients and crashes. The difficulty is that a handler is interrupted at each lock: between two of its
locked calls other workers make theirs. A worker half way through a handler is described by its agenda, so the invariant has to say which
agendas there can be and what each call on one still relies on.

- **`IndInv`** is `Types` (the types, with `RegInv` of the zone) and `Handlers`. `Shape` lists what a handler may have left: mirroring an attach and publishing a state come with nothing else,
  a drop is followed by nothing but the rest of a close or of a reap pass, a reap's scan comes last, a *get* for a session is directly followed by its *add*. `Backed` says what such a call relies on: a skeleton about to be added has
  a ufrag no other worker uses, a session about to be scanned or published exists, one about to be dropped does not. `Backed` survives because a worker starts no
  other handler meanwhile and nobody else writes its local state; `AddedOnce` is the one relation between two workers' agendas.
- **`WorkersImplementRegistry`** needs no more than that: `Locked` says of every step that the zone makes one call of the registry's contract or none, and one lemma per
  handler and per kind of call on the agenda proves it. What is proved of `ShmRegistry` for its safety therefore holds under the workers.
- **`ReadyInv`** is `ReadyHasMedia` with the converse that makes it inductive: a worker whose session is ready, and that owns the skeleton or may still take it, finds the skeleton ready. Without the
  converse, a step that lets a worker take an unbound skeleton could leave a ready session with an unready skeleton, and a later publish of its state would break the invariant.
- **`SourceInv`** (`Held`) adds that a WHIP mirror, made or still on the agenda, has a session holding the source. A refused RTMP publish breaks it: `RtmpAccepted` excludes that, and nothing else.
- **`ClaimInv`** says of every claim that some worker mirrors it with the claim's kind or has a release of that name and kind on its agenda. It needs `ClaimsLive` (a claim is on a live cell) and
  `Tagged` (what a local source's tag and pointer say of each other and of the calls left). A worker has one tag per name, so when an RTMP and a WHIP publisher of one name meet on
  it, one overwrites the other's tag, and a claim of the other kind may be left in the zone: `PublishersApart` excludes that meeting, while both kinds may still compete across workers.

Both step hypotheses restrict behaviours, as `[][A]_vars`: any behaviour without the meeting or refusal named satisfies them, the runs' included.

### The transport

`TransportProofs` is about any number of sessions, addresses, retries and crashes, with or without failing allocations. As for the registry, the invariant `Safe(W)` is stated over a *world*, because the
handlers are compositions: a lemma per function of the code (`ngx_rtc_stream_session_close`, the finalize, the timer functions, the DTLS steps) serves every handler that calls it.
`NoUseAfterFree` says only that nothing bad has happened; what prevents it is `Mutual` (a session and its connection point at each other or neither at the other), `TimersLive` (only a live session has a
timer armed) and `PostedOnce` (a connection is queued for its finalize once, after its session left it). A client that changes its address breaks `Mutual`, which is why `~Roaming` is assumed.

### The fan-out

`MediaFanoutProofs` is about any number of viewers, workers and packets and any ring size (`RingHasSlots`: at least one slot). Rings are reasoned about by position: `Span(r)` are
the positions in use, and two of them share no slot (`SlotsDistinct`), so an enqueue overwrites nothing that is queued, however often the ring wraps. `OrderInv` strengthens
`InOrder` along the path of a packet: rings are ordered, what a viewer has is older than what is queued for it (`GotBeforeQueued`), and both are older than a packet not yet handed to the worker (`UpToCurrent`).
`LossInv` follows each owed packet: it has arrived, is in a ring entry that names the viewer, is counted as dropped, or is still to be enqueued (`Accounted`); for that the snapshot the
packet is sent by must hold everyone it is owed to, and nobody twice.

### One session

`SessionProofs` has a section for each part of a session that `MCSession` checks and that is not a fold over its input. The invariants, named in the module:

- **The send gate** (`GateInv`). `NoTornVideo` and `KeyframeWhole` speak of the history, of what left and what did not; `GateAgrees` ties that history to the session's fields: a GOP that has been torn keeps
  `drop_until_gop` set, the next transport-wide number is one past the last on the wire, and while a keyframe goes out its exemption is open and has counted no more packets than the unit produced. One lemma
  (`SendKeeps`) is about one call of `ngx_rtc_session_send_rtp` with any verdict and any outcome; live video, audio and retransmissions are its three uses.
- **The retransmissions of a window** (`NackHeld`). The dedup set is exactly what was sent in the window, once each, and no larger than the attempts, which stay within the budget. What makes it inductive is that the budget is charged per
  attempt and not per packet sent, so a NACK never gets more entries than the budget has left (`AttemptsFit`).
- **The clock map** (`OnTheLine`). The reference is a reading of the sender's clock and the slope starts from an earlier one; the code's 32-bit difference of timestamps is then exact (`DeltaExact`), and the wall clock
  orders reports as the sender's clock does, whatever order they arrive in (`NtpOrder`, which is where the rate has to be at least one unit per tick). What is left are three roundings: a reading is off by less than a unit, so
  a slope over `d` ticks by less than a unit in `d` ticks (`SlopeRounds`), which the map multiplies by the distance before it rounds once more (`LineMaps`). The bound is therefore one unit for every `slope_den` of distance and two more; a fixed one would be
  false, as TLC confirms on the instance.
- **The audio worker** (`WorkerHeld`). A handler is under way only for a source that has a worker, and a source has a worker exactly as long as it has a thread.
- **The pacer** (`PacerProofs`, `PacerInv`). Types and bounds, and that before its first verdict the bucket holds at least a packet, which is why a long pause always admits one. `RateClimbs` is the arithmetic half of the recovery:
  no integer division stalls a report without loss between the floor and the ceiling. That such reports keep coming is fairness, and stays with TLC.
- **The counters** (`FiguresInv`). `Tally` is what the zone and the sessions count together; it stays within the failures there were, and `TallyMoves` says which steps lower it and by how much.
  Both are about the sum of a field over the sessions of a worker, a fold over a set. `Sums` gives the fold's recursion; that it has exactly one solution,
  and that taking out any element and not only the fold's own choice leaves the rest (`SumsTake`), is shown from a smallest counterexample, which well-foundedness of the numbers provides without an induction principle.

### The byte ring

`RingIsFifo` is the refinement of `BoundedFifo` by `ByteRing`, for any capacity, any width and base of the length prefix and any payloads (`RingConstants`). The abstract queue is read off the arena by a walk from the tail, entry by entry; the walk is a recursive
function, whose equation lemma `Recursion` justifies: a definition that refers only to smaller numbers has a solution.
`RingInv` says that the write offset is behind the live bytes and that these are divided into whole entries: `Bounds` gives the set of distances from the end at which an entry starts. The proof counts in
positions that are never reduced and takes them modulo the capacity only where the arena is read, so that a prefix or payload split by the arena's end is no case of its own. It rests on three facts: a number of
`LengthSize` digits survives being written and read (`RoundTrip`), what is written in one piece is read in one piece (`ReadBack`) and leaves every other position alone (`ReadSame`). A push then appends an
entry to the walk (`PushWalk`), a pop removes its first, and a refused call is a stutter.

### The state machine

`FsmNested` holds for every table that satisfies `HsmConstants`: rules whose targets are states, and a forest, in which no state is its own ancestor. TLC evaluates `HsmConstants` for the trees of the run and for the session's own
tables, so the theorem is about those too. Without acyclicity neither the engine's walk to the root nor the model's `Chain` would end; from it follow that a chain exists and is unique (`Chains`) and what two chains have in common (`Met`).
`ProperlyNested` replays the calls of an event: `Takes(stack, calls, end)` says that calls leave and enter states one at a time and in order. Leaving up to the common ancestor and entering down to the target are each a lemma (`Leaving`, `Entering`), a transition is one
after the other (`MovesAcross`), and an event that nobody handles is offered to the parent, a recursion that ends because chains do (`BubbledNested`).

### The statistics page

`PageNeverCut` (in `SessionProofs`) is `PageSpec => []DocumentWhole` from `PageConstants` alone, for any buffer, any reserve and any lengths of the pieces, as long as the longest
source or session entry, the rest of its source and the totals fit into the reserve together. TLC evaluates `PageConstants` with the lengths of the code's own formats
(in `Session.cfg`), so the reserve of 2048 bytes is enough for the code's formats and for any number of sources and sessions. `DocumentWhole` is not inductive: the
strengthening `TailFits` says, by phase, that what must still follow fits (`at + t + c <= Cap` inside a source, `at + c <= Cap` between
sources). The test before each entry (`Room`) establishes it, each further write uses up one of its terms.

### The video path

`VideoProofs` is about any number of workers and viewers, any ring and buffer sizes and any number space that the assumptions allow (`IdentityConstants`, `JitterConstants`, `CacheConstants`).

- **Identity** (`IdentityInv`). Without a WHIP publisher every identity, in the zone, in a worker's copy and in a ring entry, carries the SSRC drawn for the zone's source, and every worker with a session or the
  publisher has a copy. With a WHIP publisher that is false, and so is the property (`identity_whip`).
- **The reorder buffer** (`JitterInv`). A buffer that expects packet *p* has emitted only earlier ones, in order, and holds only later ones, at most a buffer's length ahead and each in its own slot. The code compares 16-bit numbers and
  indexes slots by their remainder; `SeqOrder` and `SlotsDistinct` show that within the window neither confuses two packets. `Drain` is a loop and `SkipGap` a search: `DrainHolds` and `SkipHolds` show what they leave behind, for whatever they find.
- **The caches** (`CacheInv`). The window of a publish is its last packets, and the number of each is its place plus what its uplink had lost by then (`Numbered`); the publisher's ring mirrors the window, its GOP index included
  (`RingFollows`); the shared ring has nothing of an earlier publish than RTMP's (`ShmCurrent`). `CacheExact` follows from the invariant alone: what is retained is found, of the current publish, and a replay starts at the newest keyframe.

### Only model-checked

- Liveness (`IdleSourceReaped`, `SessionsEnd`, `RingsDrained`, `HandshakeEnds`, `ThreadWakes`, the second half of `PacerRecovers`), which with `ENABLED` is out of the prover's reach.
- What a fold or a recursive function over an input computes: `FeedbackExact`, `BindingAnswered`, `AnswerMirrors`, `Reassembles`. The sums, walks and chains above are proved by first showing that their recursion has a solution. The
  parsers' folds, whose reference is a second fold over the same input, are left to TLC, which is exhaustive up to the length of its inputs.
- `TableAgrees`, which compares two fixed tables: there is nothing to generalise, and TLC visits every state, event and guard outcome.
- `HandledOnce` (Hsm), `FlightTimed` (Transport) and `MarkerLast` (Packetizer), which no run lists.

## 6. Where code and comments disagree

Four disagreements are shown by a run of their own.

- **`registry_pressure`** (`SkeletonSourceLive`, `src/src/ngx_rtc_shm.c:225`). `ngx_rtc_shm_session_add` looks the source up; when the allocation of the
  skeleton fails it reaps by force, which frees that very source if it is idle, and the retry stores the freed pointer. Line 873 says "A source may only be
  freed once nothing references it".
- **`workers_stale_close`** (`LiveClaimKept`, `src/src/ngx_rtc_stream_module.c:1355`). Closing any session of a local source tagged WHIP releases the claim, a viewer's
  session included. `ngx_rtc_shm.c:679` says "a stale close must not clear a live publisher's flag". The publisher's next heartbeat renews the claim; until then the name is free.
- **`transport_roaming`** (`NoUseAfterFree`, `src/src/ngx_rtc_stream_module.c:1322`). A binding request from a new address moves the session to the new connection (line 592) and leaves
  the old connection's context as it was; closing the session clears the context of its current connection only. A datagram on the old connection then reaches the freed session. Line 1312 says
  "Detach the stream connection context before freeing, so a later datagram is ignored instead of dereferencing the freed session."
- **`identity_whip`** (`PtNegotiated`, `src/src/ngx_rtc_stream_module.c:907`). The SSRC of a WHIP publisher's first packet goes into its media worker's source and into the zone. A viewer that
  attached earlier on another worker is still compared with the SSRC the zone had drawn (`ngx_rtc_core.c:634`), so its packets leave under the publisher's payload type. `ngx_rtc_core.c:676` says "Rewrite the RTP
  payload-type byte to the PT this session negotiated in its offer (RFC 3264)."

The modules state further properties that a comment claims and that TLC refutes on small instances; they belong to no run. To
reproduce one, give the module the constants named here (elsewhere those of the run of section 3) and the property alone.

| property (module) | what the code does | what the comment says | instance |
|---|---|---|---|
| `CachedPointerLive` (RtcWorkers) | the worker that took a WHIP offer caches the shared source and never refreshes it; a silent claim past the grace lets the reaper free it (`ngx_rtc_shm.c:754`) | "degrades to \"no cross-worker mirror\", never to a dangling pointer" (`ngx_rtc_shm.h:416`) | `workers_whip` |
| `OnePublisher` (RtcWorkers) | the WHIP handler claims the name before the shared source exists, so the first claim marks nothing and RTMP on another worker claims it too (`ngx_rtc_http_module.c:1533`) | "A source has exactly one publisher. Reject a different kind" (`ngx_rtc_shm.c:644`) | one WHIP session, RTMP on two workers |
| `RemoteCountExact` (RtcWorkers) | `publisher_slot` is rewritten without recounting the viewers (`ngx_rtmp_rtc_bridge_module.c:670`) | "viewers on a worker != publisher_slot" (`ngx_rtc_shm.h:129`) | two workers, timeouts of 2 |
| `KickCloses` without its `crashes > 0` (RtcWorkers) | a skeleton bound to a dead worker is skipped by the reaper and has no owner to close it (`ngx_rtc_shm.c:918`) | "Bound sessions are reclaimed by the owner worker's close path" (`ngx_rtc_shm.c:913`) | one crash |
| `EntryCarriesAll` (MediaFanout) | sessions beyond `NGX_RTC_RING_MAX_SESSIONS` of one worker get no media, uncounted (`ngx_rtmp_rtc_bridge_module.c:1203`) | "One entry per target worker; carry its ready session ids." (line 1194) | `MaxEntry` 1, no mirror |
| `SnapshotCurrent` (MediaFanout) | the version is read after the snapshot was taken and the mutex dropped: a viewer that joins in between is in the version and not in the snapshot, and gets nothing until the set changes again (`ngx_rtmp_rtc_bridge_module.c:1172`) | "Refresh the cached ready-subscriber snapshot only when the shm source's subscriber set changed" (line 1162) | `fanout` |
| `ReadyCarriesMedia` (Transport) | a respawned worker restores SRTP_READY from the skeleton, without the keys that died with its predecessor (`ngx_rtc_stream_module.c:457`) | "tearing down a session that is in fact live" (line 456): the comment takes the owner to be alive | `transport` |
| `NoIdleSlot` (Transport) | a connection whose sender was never bound to a session, or whose finalize could not be posted, is not ended (`ngx_rtc_stream_module.c:1318`) | "permanently occupies an ngx_connection_t slot until worker_connections is exhausted" (line 1290) as what the close prevents | `transport` |
| `StartOpensKeyframe` (Packetizer) | every IDR slice of a picture gets a STAP-A that is marked as the start of a GOP (`ngx_rtmp_rtc_bridge_module.c:938`) | "Mark the STAP-A that opens the GOP so fast-start replay can begin at a decodable keyframe" (line 936) | `video` |
| `UnitMarked` (Packetizer) | the marker goes to the last NAL unit of the tag, and with it when that is dropped as a B slice (`ngx_rtmp_rtc_bridge_module.c:923`) | "set it to 1 when this NALU ends an access unit" (`ngx_rtc_rtp.h:172`) | `video` |
| `NackHeard` (Rtcp) | a NACK with more numbers than fit is not answered at all (`ngx_rtc_stream_module.c:1002`) | "*count always holds the number of sequence numbers actually written" (`ngx_rtc_rtcp.h:220`), "the client re-NACKs the rest" (`ngx_rtc_stream_module.c:1014`) | `session` |
| `RembExact` (Rtcp) | the product of mantissa and power is cut to 32 bits (`ngx_rtc_rtcp.c:350`) | "mantissa * 2^exp, bits per second" (`ngx_rtc_rtcp.h:173`) | `session` |
| `PtOffered` (Sdp) | an offer without the codec is answered with the source's payload type, and each of two sections of a medium with that of the last (`ngx_rtc_http_module.c:907`) | "the answer PT must be a subset of the offer" (line 903) | `session` |
| `ReportTrue` (Reports) | a worker without the publisher sends reports from a source of its own that counts nothing, and WHIP does not set the timestamp (`ngx_rtmp_rtc_bridge_module.c:356`) | "90kHz, last video frame timestamp" (`ngx_rtc_core.h:349`) | `session` |
| `AllCounted` (Reports) | a close does not flush the session's counter and the flush walks live sessions only, so a closing session's last failures are counted nowhere (`ngx_rtc_stream_module.c:1301`, `ngx_rtc_http_module.c:470`) | "RTP dgrams dropped: send NGX_ERROR / short write" (`ngx_rtc_shm.h:117`) | `session` |
| `ArmedOnce` (Reports) | the timer's event is cleared and added a second time while it is in the timer tree (`ngx_rtmp_rtc_bridge_module.c:525`) | "ngx_add_timer on an already-armed event only resets the deadline, so the duplicate is harmless" (line 516) | `session` |
| `CachedLocated` (VideoCache) | the distance of two numbers is taken for a distance of slots, so one skipped uplink packet hides every later one (`ngx_rtc_core.c:915`) | "Locate a cached packet by its 16-bit RTP sequence number" (`ngx_rtc_core.h:522`) | `video` |
| `ShmNewestServed` (VideoCache) | the shared ring is neither fed nor emptied while there are no remote viewers; after a wrap it answers with old packets (`ngx_rtc_shm.c:1145`) | "The publisher appends every video packet (in RTP sequence order)" (`ngx_rtc_shm.h:458`) | `video` |
| `NoStaleAnswer` (VideoCache) | a worker's GOP ring outlives the publisher's move to another worker and is preferred to the shared ring (`ngx_rtc_core.c:939`) | "1 when the local source GOP ring holds data (publisher worker)" (`ngx_rtc_core.h:565`) | `video` |
| `ServedMeansKeyframe` (VideoCache) | a replay from a ring without a keyframe reports success (`ngx_rtc_stream_module.c:1518`) | "0 when the cache held no keyframe -- the caller then has to ask the publisher" (line 1509) | `video` |
| `WaitedFor` (Jitter) | `gap_ts` survives a skip, so a second gap inherits an expired deadline (`ngx_rtc_jitter.c:49`) | "how long to wait for a missing packet before skipping it" (`ngx_rtc_jitter.h:37`) | `MaxSent` 6 |
| `KeyframeWhole` without "no retransmission inside the unit" (SendGate) | a retransmission's marker closes the live keyframe's exemption (`ngx_rtc_core.c:766`) | "A keyframe access unit is exempt from the pacer as a whole" (line 573) | `session` |
| `DepthBounded` (AudioWorker) | the queue is bounded in bytes, so far more than 16 ordinary frames fit (`ngx_rtc_ring.c:217`) | "Bounded queue depth. 16 AAC frames" (`ngx_rtc_audio_worker.c:24`) | frames smaller than the largest |
| `FifoFits` (AudioWorker) | all resampled pieces of a frame are written before one is encoded; an 8 kHz frame is 6144 samples, the FIFO 3840 (`ngx_rtc_audio.c:319`) | "it never overruns" (line 315) | 8 kHz: `Resampled` 32 |
| `AudioMonotonic` (AudioWorker) | the sequence number is set to 0 at every AAC header (`ngx_rtmp_rtc_bridge_module.c:1033`) | "so the timestamp/seq stay monotonic across restarts" (line 1027) | `SeqSpace` 8 |
| `FilledAtRate` (Pacer) | capacity is floored at one packet, more than a low rate earns in one burst window (`ngx_rtc_core.c:1131`) | "token bucket filled at pacer_target_bps" (`ngx_rtc_core.h:298`) | `session` |
| `QuietResets` (NackWindow) | the window rolls only when a NACK arrives, so silence after a storm doubles the width (`ngx_rtc_core.c:988`) | "A quiet window resets." (`ngx_rtc_core.h:48`) | `session` |
| `OverflowReported` (Hsm) | a path that overflows the buffer counts as unhandled and the event goes on to the parent, which may handle it (`ngx_rtc_hsm.c:494`) | "makes ngx_rtc_hsm_dispatch() return false instead" (`ngx_rtc_hsm.h:58`) | `BufferSize` 2; the session table's own buffer is deep enough |

## 7. What is not modelled, and why

- *Cryptography and libraries.* OpenSSL, libsrtp, libfdk-aac, libopus, libswresample and nginx itself are external. Their outcomes are inputs: a record's effect on a handshake, a packet
  that cannot be protected, an allocation that fails.
- *Text.* ICE candidates, fingerprints and the wording of SDP, JSON and HTML. They are copied or formatted, and nothing decides on them.
  The reader of request bodies (`ngx_rtc_http_module.c`) and its JSON string lookup are stateless scans of bytes.
- *Small pure functions.* The Opus packet (a header and a copy), the stripping of header extensions from uplink packets, the SDES CNAME parser, H.264 header accessors.
- *The port of an offered section.* The parser does not keep it, so `Sdp` has none: a section the client itself rejected (port 0) is answered as any other, which `docs/BACKLOG.md:48` records.
- *Configuration and reload.* The first initialisation of the zone is modelled. A reload (old and new workers on one ring, descriptors overwritten), the directives and the crash backtrace handler are not. A reload
  puts two generations of workers on each slot, which `MediaFanout` and `RtcWorkers` have one of; section 8 plans it for the rings alone.
- *A crash inside a media ring's mutex.* See below.

Inside the modelled parts: `Transport` is one worker; what other workers do to its sessions is in `RtcWorkers`, and a skeleton signalled elsewhere is an input. `SendGate` takes transport-cc as negotiated and a short write as an error. `Pacer` leaves out the branch for a clock that steps
backwards. `AudioWorker` takes the codecs and the resampler as external and leaves out a failing `opus_encode`. A millisecond
clock of exactly 0, which the code uses for "none" and reaches every 49 days, does not occur. The operations on one media ring, each under the ring's mutex, are atomic in
`MediaFanout`, so a worker does not die inside one. The heads of the rings are unbounded where the code's are 32 bits wide.

## 8. The plan

Built in this order: the registry (`ShmOps`, `ShmRegistry`) and its proofs; the handlers over it (`RtcWorkers`) and the refinement between the two; the
media path (`MediaFanout`, `VideoCache`, `Jitter`); one session (`SendGate`, `Pacer`, `NackWindow`, `Hsm`); the audio offload (`BoundedFifo`, `ByteRing`, `AudioWorker`); the
transport with the session's tables (`Transport`, `SessionFsm`); what goes in and out of a session (`Packetizer`, `MediaIdentity`, `Rtcp`, `Stun`, `Sdp`, `AvSync`); counters and page (`Reports`, `StatsPage`); then the proofs, of the handlers and their refinement, the transport and the fan-out first, and of the parts of a session and of the video path last.

Left, the most important first:

1. proofs of `HandledOnce` (Hsm), `FlightTimed` (Transport) and `MarkerLast` (Packetizer);
2. one module that composes `NackWindow`, `Pacer` and `SendGate`; the media ring as a refinement of a FIFO; a crash inside a ring operation;
3. two RTMP publishers of one name, and what the second's release does to the first's claim;
4. a reload, on a model of the rings alone.
