---------------------------- MODULE MediaIdentity ---------------------------
(***************************************************************************)
(* Under which SSRC and payload type the video of one source travels.  The *)
(* zone's source is the authority; every worker keeps a copy in its local  *)
(* source, refreshed only by the calls below, and every viewer negotiates  *)
(* a payload type and a transport-cc extension of its own, which its       *)
(* worker puts into each packet of the source's SSRC.                      *)
(***************************************************************************)
EXTENDS Naturals

CONSTANTS
    Workers, Viewers,
    Kinds,          \* protocols a publisher may use: of "rtmp", "whip"
    Pts,            \* payload types in offers; 0: the codec is not offered
    Exts,           \* transport-cc extension ids in offers; 0: not offered
    DefaultPt,      \* NGX_RTC_PAYLOAD_TYPE_H264
    ZoneSsrc,       \* the SSRC drawn when the zone's source is created
    WhipSsrc,       \* the SSRC a WHIP publisher sends with
    None

ASSUME IdentityConstants ==
    /\ Kinds \subseteq {"rtmp", "whip"}
    /\ Pts \cup Exts \cup {DefaultPt} \subseteq Nat /\ DefaultPt # 0
    /\ None \notin Workers

VARIABLES
    zone,       \* the zone's source: [ssrc, pt], or None
    copy,       \* worker -> its copy, or None
    sess,       \* viewer -> its session, or None; `on` is the worker that signalled
                \* it, then the one its media socket is on
    publisher,  \* the publisher: [kind, on, pt, bound], or None
    ring,       \* worker -> the packet other workers have left for it, or None
    got         \* history: viewer -> the last packet it was sent, or None

identityVars == <<zone, copy, sess, publisher, ring, got>>

Ssrcs      == {ZoneSsrc, WhipSsrc}
Identities == [ssrc : Ssrcs, pt : Pts \cup {DefaultPt}]

IdentityTypeOK ==
    /\ zone \in Identities \cup {None}
    /\ copy \in [Workers -> Identities \cup {None}]
    /\ \A v \in Viewers : sess[v] = None \/ sess[v].on \in Workers
    /\ ring \in [Workers -> Identities \cup {None}]

IdentityInit == /\ zone = None /\ publisher = None
                /\ copy = [w \in Workers |-> None] /\ ring = [w \in Workers |-> None]
                /\ sess = [v \in Viewers |-> None] /\ got = [v \in Viewers |-> None]

-----------------------------------------------------------------------------
(* ngx_rtc_shm_source_get creates what it does not find. *)
Zone == IF zone = None THEN [ssrc |-> ZoneSsrc, pt |-> DefaultPt] ELSE zone

Or(pt, otherwise) == IF pt # 0 THEN pt ELSE otherwise

(* ngx_rtc_shm_source_set_pt, ngx_rtc_shm_source_set_ssrc *)
SetPt(id, pt)     == [id EXCEPT !.pt = Or(pt, @)]
SetSsrc(id, ssrc) == [id EXCEPT !.ssrc = ssrc]

(* The steps of play and of WHIP on the identity: the zone's SSRC is taken  *)
(* over, the offer's payload type goes into both.                           *)
Signalled(w, pt) ==
    /\ copy' = [copy EXCEPT ![w] = SetPt(Zone, pt)]
    /\ zone' = SetPt(Zone, pt)

(* The media of a session signalled on worker `from` arrive at w: elsewhere *)
(* the session is rebuilt from its skeleton (attach_from_shm).              *)
Arrived(from, w) ==
    copy' = IF w = from THEN copy ELSE [copy EXCEPT ![w] = zone]

Play(w, v, pt, ext) ==
    /\ sess[v] = None
    /\ Signalled(w, pt)
    /\ sess' = [sess EXCEPT ![v] =
                  [pt |-> Or(pt, Zone.pt), ext |-> ext, on |-> w, bound |-> FALSE]]
    /\ UNCHANGED <<publisher, ring, got>>

Bind(w, v) ==
    /\ sess[v] # None /\ ~sess[v].bound
    /\ Arrived(sess[v].on, w)
    /\ sess' = [sess EXCEPT ![v].on = w, ![v].bound = TRUE]
    /\ UNCHANGED <<zone, publisher, ring, got>>

(* ngx_rtmp_rtc_sync_shm: at the publish and once per interval after it.    *)
RtmpSync(w) ==
    /\ \/ publisher = None /\ "rtmp" \in Kinds
       \/ publisher # None /\ publisher.kind = "rtmp" /\ publisher.on = w
    /\ zone' = Zone
    /\ copy' = [copy EXCEPT ![w] = Zone]
    /\ publisher' = [kind |-> "rtmp", on |-> w, pt |-> 0, bound |-> TRUE]
    /\ UNCHANGED <<sess, ring, got>>

WhipPost(w, pt) ==
    /\ publisher = None /\ "whip" \in Kinds
    /\ Signalled(w, pt)
    /\ publisher' = [kind |-> "whip", on |-> w, pt |-> Or(pt, Zone.pt), bound |-> FALSE]
    /\ UNCHANGED <<sess, ring, got>>

WhipBind(w) ==
    /\ publisher # None /\ ~publisher.bound
    /\ Arrived(publisher.on, w)
    /\ publisher' = [publisher EXCEPT !.on = w, !.bound = TRUE]
    /\ UNCHANGED <<zone, sess, ring, got>>

Stop ==
    /\ publisher # None
    /\ publisher' = None
    /\ UNCHANGED <<zone, copy, sess, ring, got>>

-----------------------------------------------------------------------------
(* Mutant: the video is told by the payload type that its worker knows.     *)
SentByPt(v, packet, id) ==
    IF packet.pt = id.pt
    THEN [ssrc |-> packet.ssrc, pt |-> sess[v].pt, ext |-> sess[v].ext]
    ELSE [ssrc |-> packet.ssrc, pt |-> packet.pt, ext |-> 0]

(* ngx_rtc_session_send_rtp: what viewer v is sent of a packet by a worker  *)
(* that knows the source as id.                                             *)
Sent(v, packet, id) ==
    IF packet.ssrc = id.ssrc
    THEN [ssrc |-> packet.ssrc, pt |-> sess[v].pt, ext |-> sess[v].ext]
    ELSE [ssrc |-> packet.ssrc, pt |-> packet.pt, ext |-> 0]

On(w) == {v \in Viewers : sess[v] # None /\ sess[v].bound /\ sess[v].on = w}

Delivered(w, packet, id) ==
    [v \in Viewers |-> IF v \in On(w) THEN Sent(v, packet, id) ELSE got[v]]

(* A video packet is published: the RTMP bridge stamps its own identity; a  *)
(* WHIP publisher's SSRC becomes the source's, here and in the zone.  The   *)
(* worker's own viewers get it now, the others' workers find it in their    *)
(* ring unless that is full.                                                *)
Publish ==
    LET w      == publisher.on
        packet == IF publisher.kind = "rtmp" THEN copy[w]
                  ELSE [ssrc |-> WhipSsrc, pt |-> publisher.pt]
        id     == SetSsrc(copy[w], packet.ssrc)
    IN  /\ publisher # None /\ publisher.bound
        /\ copy' = [copy EXCEPT ![w] = id]
        /\ zone' = IF publisher.kind = "whip" THEN SetSsrc(zone, WhipSsrc) ELSE zone
        /\ got' = Delivered(w, packet, id)
        /\ ring' = [x \in Workers |->
                      IF x # w /\ On(x) # {} /\ ring[x] = None THEN packet ELSE ring[x]]
        /\ UNCHANGED <<sess, publisher>>

RingDrained(w) ==
    /\ ring[w] # None
    /\ got' = Delivered(w, ring[w], copy[w])
    /\ ring' = [ring EXCEPT ![w] = None]
    /\ UNCHANGED <<zone, copy, sess, publisher>>

IdentityNext == \/ \E w \in Workers, v \in Viewers, pt \in Pts, ext \in Exts : Play(w, v, pt, ext)
                \/ \E w \in Workers, v \in Viewers : Bind(w, v)
                \/ \E w \in Workers : RtmpSync(w)
                \/ \E w \in Workers, pt \in Pts : WhipPost(w, pt)
                \/ \E w \in Workers : WhipBind(w)
                \/ Stop
                \/ Publish
                \/ \E w \in Workers : RingDrained(w)

IdentitySpec == IdentityInit /\ [][IdentityNext]_identityVars

-----------------------------------------------------------------------------
(* Properties *)

(* A packet leaves under the payload type its viewer negotiated (RFC 3264). *)
PtNegotiated == \A v \in Viewers : got[v] # None => got[v].pt = sess[v].pt

(* Whatever the other viewers of the source negotiated, and on whichever    *)
(* worker, a viewer is sent the video under the payload type and with the   *)
(* extension of its own answer, and under the SSRC that its worker compares *)
(* the viewer's NACKs and PLIs with.                                        *)
Negotiated ==
    /\ PtNegotiated
    /\ \A v \in Viewers : got[v] # None =>
          got[v].ext = sess[v].ext /\ got[v].ssrc = copy[sess[v].on].ssrc
=============================================================================
