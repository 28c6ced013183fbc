------------------------------ MODULE Reports -------------------------------
(***************************************************************************)
(* The numbers of one source that leave it: the sender reports every       *)
(* worker's RTCP timer sends to its viewers, the counters of failed sends  *)
(* that the statistics timer moves into the zone, and the egress counters  *)
(* mirrored into the skeletons.  Each worker counts in memory of its own;  *)
(* only the publisher's worker counts packets.                             *)
(***************************************************************************)
EXTENDS Naturals, FiniteSets, FiniteSetsExt

CONSTANTS
    Workers, Viewers,
    Home,          \* viewer -> the worker its media is on
    Kinds,         \* how the source may be published: of "rtmp", "whip"
    MaxPackets,    \* bound on packets
    MaxFails       \* bound on failed sends

ASSUME ReportConstants ==
    /\ IsFiniteSet(Viewers) /\ Home \in [Viewers -> Workers]
    /\ Kinds \subseteq {"rtmp", "whip"} /\ {MaxPackets, MaxFails} \subseteq Nat

VARIABLES
    pub,        \* the publisher: [kind, on]
    frames,     \* history: packets published, each with the next timestamp
    base,       \* history: frames at the last AVC header
    local,      \* worker -> video_pkts and video_ts of its local source
    zone,       \* the shm source: whether a lookup finds it, video_pkts, send_failed
    sess,       \* viewer -> its session: live, send_failed, drop_pacer
    skel,       \* viewer -> drop_pacer in its skeleton
    sr,         \* viewer -> its last sender report, and what was true then
    failed,     \* history: sends that failed
    armed       \* worker -> times the RTCP timer's event is in the timer tree

figureVars == <<pub, frames, base, local, zone, sess, skel, sr, failed, armed>>

Counters == [pkts : Nat, ts : Nat]

FiguresTypeOK ==
    /\ pub \in [kind : Kinds, on : Workers]
    /\ {frames, base, failed} \subseteq Nat
    /\ local \in [Workers -> Counters]
    /\ zone \in [found : BOOLEAN, pkts : Nat, failed : Nat]
    /\ sess \in [Viewers -> [live : BOOLEAN, failed : Nat, drop : Nat]]
    /\ skel \in [Viewers -> Nat] /\ armed \in [Workers -> Nat]

Zero == [pkts |-> 0, ts |-> 0]

(* ngx_rtmp_rtc_rtcp_timer_start: the event is cleared, then added; nginx   *)
(* (external) moves an event that says it is in the tree, and inserts one   *)
(* that does not.                                                           *)
TimerStart(times) == times + 1

(* Every worker starts with the init_process of the bridge and then of the  *)
(* http module, both of which start the timer.  The source is in the zone,  *)
(* or the reap in ngx_rtc_shm_session_add took it from under its viewers,   *)
(* and the publisher goes on without it.                                    *)
FiguresInit ==
    /\ pub \in [kind : Kinds, on : Workers]
    /\ frames = 0 /\ base = 0 /\ failed = 0
    /\ local = [w \in Workers |-> Zero]
    /\ zone \in [found : BOOLEAN, pkts : {0}, failed : {0}]
    /\ sess = [v \in Viewers |-> [live |-> TRUE, failed |-> 0, drop |-> 0]]
    /\ skel = [v \in Viewers |-> 0]
    /\ sr = [v \in Viewers |-> [says |-> Zero, true |-> Zero]]
    /\ armed = [w \in Workers |-> TimerStart(TimerStart(0))]

-----------------------------------------------------------------------------
(* A video packet: ngx_rtmp_rtc_emit and ngx_rtmp_rtc_shm_stats, or         *)
(* ngx_rtc_stream_whip_emit, which leaves the timestamp alone.              *)
VideoPacket ==
    LET w    == pub.on
        pkts == local[w].pkts + 1
        ts   == IF pub.kind = "rtmp" THEN frames + 1 ELSE local[w].ts
    IN  /\ frames < MaxPackets
        /\ frames' = frames + 1
        /\ local' = [local EXCEPT ![w] = [pkts |-> pkts, ts |-> ts]]
        /\ zone' = IF zone.found THEN [zone EXCEPT !.pkts = pkts] ELSE zone
        /\ UNCHANGED <<pub, base, sess, skel, sr, failed, armed>>

(* The AVC header of an RTMP publisher, which may have come back on another *)
(* worker: the counters start over.                                         *)
AvcHeader(w) ==
    /\ "rtmp" \in Kinds /\ pub.kind = "rtmp"
    /\ pub' = [pub EXCEPT !.on = w]
    /\ local' = [local EXCEPT ![w] = Zero]
    /\ base' = frames
    /\ UNCHANGED <<frames, zone, sess, skel, sr, failed, armed>>

(* ngx_rtc_session_send_rtp: the socket refuses a packet, or the pacer does.*)
SendFails(v) ==
    /\ sess[v].live /\ failed < MaxFails
    /\ failed' = failed + 1
    /\ sess' = [sess EXCEPT ![v].failed = @ + 1]
    /\ UNCHANGED <<pub, frames, base, local, zone, skel, sr, armed>>

PacerDrops(v) ==
    /\ sess[v].live /\ sess[v].drop < MaxFails
    /\ sess' = [sess EXCEPT ![v].drop = @ + 1]
    /\ UNCHANGED <<pub, frames, base, local, zone, skel, sr, failed, armed>>

(* A session and its skeleton go, and with them what was not flushed. *)
Close(v) ==
    /\ sess[v].live
    /\ sess' = [sess EXCEPT ![v] = [live |-> FALSE, failed |-> 0, drop |-> 0]]
    /\ skel' = [skel EXCEPT ![v] = 0]
    /\ UNCHANGED <<pub, frames, base, local, zone, sr, failed, armed>>

LiveOn(w) == {v \in Viewers : Home[v] = w /\ sess[v].live}

Pending(S) == MapThenSumSet(LAMBDA v : sess[v].failed, S)

(* Mutant: the counters are added and kept. *)
AfterFlushKept(w) == sess

AfterFlush(w) == [v \in Viewers |-> IF v \in LiveOn(w) THEN [sess[v] EXCEPT !.failed = 0] ELSE sess[v]]

(* ngx_rtc_stats_flush_send_failures: the counters are cleared whether or   *)
(* not ngx_rtc_shm_source_add_send_stats found the source to add them to.   *)
Flush(w) ==
    /\ Pending(LiveOn(w)) > 0
    /\ zone' = IF zone.found THEN [zone EXCEPT !.failed = @ + Pending(LiveOn(w))] ELSE zone
    /\ sess' = AfterFlush(w)
    /\ UNCHANGED <<pub, frames, base, local, skel, sr, failed, armed>>

(* ngx_rtmp_rtc_send_sr_sdes: the counters of the worker's own source. *)
SenderReport(w) == local[w]

(* ngx_rtc_shm_session_set_stats *)
Mirrored(w) == [v \in Viewers |-> IF v \in LiveOn(w) THEN sess[v].drop ELSE skel[v]]

(* ngx_rtmp_rtc_rtcp_timer: a report to every ready viewer, from the local  *)
(* source, and its counters into the skeleton.                              *)
RtcpTimer(w) ==
    /\ LiveOn(w) # {}
    /\ sr' = [v \in Viewers |->
                IF v \in LiveOn(w)
                THEN [says |-> SenderReport(w),
                      true |-> [pkts |-> frames - base, ts |-> IF frames = base THEN 0 ELSE frames]]
                ELSE sr[v]]
    /\ skel' = Mirrored(w)
    /\ UNCHANGED <<pub, frames, base, local, zone, sess, failed, armed>>

FiguresNext ==
    \/ VideoPacket
    \/ \E w \in Workers : AvcHeader(w) \/ Flush(w) \/ RtcpTimer(w)
    \/ \E v \in Viewers : SendFails(v) \/ PacerDrops(v) \/ Close(v)

FiguresSpec == FiguresInit /\ [][FiguresNext]_figureVars

-----------------------------------------------------------------------------
(* Properties *)

(* The failed sends that are counted anywhere: in the zone or in a session. *)
Tally == zone.failed + Pending(Viewers)

(* Every failed send is counted. *)
AllCounted == Tally = failed

(* What a report says was true when it was sent. *)
ReportTrue == \A v \in Viewers : sr[v].says = sr[v].true

(* A skeleton's counters are not ahead of its session's.                    *)
MirrorBehind == \A v \in Viewers : sess[v].live => skel[v] <= sess[v].drop

(* No failed send is counted twice. *)
AtMostOnce == Tally <= failed

(* The sessions whose counts a step forgets: that close, or that are        *)
(* flushed to a source that is not there.                                   *)
Forgotten == {v \in Viewers : /\ sess'[v].failed < sess[v].failed
                              /\ sess[v].live /\ (~sess'[v].live \/ ~zone.found)}

(* A step counts a send that fails and forgets what those sessions had not  *)
(* reported, and nothing else changes the tally.                            *)
TallyMoves == Tally' + Pending(Forgotten) + failed = Tally + failed'

(* The counters of failed sends, over the flushes of every worker: a        *)
(* failure is never counted twice, and it is lost only with a session that  *)
(* closes before the next flush or whose source left the zone.  What the    *)
(* zone shows of a live session is not ahead of it.                         *)
FailuresAccounted == [](AtMostOnce /\ MirrorBehind) /\ [][TallyMoves]_figureVars

(* The timer's event is in the tree once. *)
ArmedOnce == \A w \in Workers : armed[w] <= 1
=============================================================================
