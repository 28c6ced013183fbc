----------------------------- MODULE Packetizer -----------------------------
(***************************************************************************)
(* From an RTMP video tag to RTP packets: ngx_rtmp_rtc_video and the H.264 *)
(* packetizers of ngx_rtc_rtp.c.  A NAL unit is its kind and its length;   *)
(* what a packet carries is an interval of the bytes of one, so that a     *)
(* byte lost, repeated or put into the wrong packet is visible.  The       *)
(* receiver's side (RFC 6184) is the reference.                            *)
(***************************************************************************)
EXTENDS Naturals, Sequences, SequencesExt

CONSTANTS
    Mtu,        \* NGX_RTC_H264_MTU: 1200 in the code
    MaxNalus,   \* NGX_RTC_MAX_NALUS: 16 in the code
    ParamMax,   \* sizeof src->sps, src->pps
    SeqSpace,     \* 2^16 in the code
    Frames,     \* sequences of NAL units a tag may hold
    Params,     \* lengths of SPS and PPS a header may hold
    MaxFrames   \* bound on the tags of a behaviour

(* Kinds that matter here: an IDR slice, a B slice, anything else. *)
NaluKinds == {"idr", "b", "other"}

(* Assumption on the constants, checked where the module is instantiated. *)
PacketizerConstants ==
    /\ {Mtu, MaxNalus, ParamMax, SeqSpace, MaxFrames} \subseteq Nat \ {0}
    /\ Frames \subseteq Seq([kind : NaluKinds, len : Nat])
    /\ Params \subseteq Nat
    /\ 5 + 2 * (ParamMax - 1) <= Mtu

VARIABLES
    video_seq,  \* next sequence number
    sps, pps,   \* cached parameter sets: their lengths, 0 for none
    frame,      \* history: the NAL units of the last tag
    first,      \* history: the number its first packet was given
    out,        \* history: the packets made of it, in order
    frames      \* bounds Tag

vars == <<video_seq, sps, pps, frame, first, out, frames>>

(* A packet: its number, its form, the NAL unit it is from (a position in   *)
(* the tag), the bytes of it that it carries, the FU-A start and end bits,  *)
(* the marker and whether the bridge calls it a GOP start.                  *)
Packet(seq, form, nalu, from, to, start, end, marker, gop) ==
    [seq |-> seq, form |-> form, nalu |-> nalu, from |-> from, to |-> to,
     start |-> start, end |-> end, marker |-> marker, gop |-> gop]

TypeOK ==
    /\ video_seq \in 0..(SeqSpace - 1)
    /\ sps \in 0..(ParamMax - 1) /\ pps \in 0..(ParamMax - 1)
    /\ \A i \in DOMAIN out : out[i].seq \in 0..(SeqSpace - 1)

-----------------------------------------------------------------------------
(* The packetizers: the packets of NAL unit i of length len, from number seq *)

Plus(seq, k) == (seq + k) % SeqSpace

(* ngx_rtc_h264_packetize_single *)
Single(i, len, seq, marker) == <<Packet(seq, "single", i, 1, len, TRUE, TRUE, marker, FALSE)>>

(* Mutant: a NAL unit of a whole number of fragments gets one more. *)
FragmentsOneMore(len) == 1 + (len - 1) \div Mtu

(* The first byte goes into every indicator; the rest is cut into pieces of *)
(* the MTU, the last of what is left.                                       *)
Fragments(len) == 1 + (len - 2) \div Mtu

(* ngx_rtc_h264_packetize_fu_a *)
FuA(i, len, seq, marker) ==
    LET num == Fragments(len)
    IN  [k \in 1..num |->
            Packet(Plus(seq, k - 1), "fu", i, 2 + (k - 1) * Mtu,
                   IF k = num THEN len ELSE 1 + k * Mtu,
                   k = 1, k = num, marker /\ k = num, FALSE)]

(* ngx_rtc_h264_packetize, for a NAL unit that is not empty. *)
Packetize(i, len, seq, marker) ==
    IF len <= Mtu THEN Single(i, len, seq, marker) ELSE FuA(i, len, seq, marker)

(* ngx_rtc_h264_packetize_stap_a of the parameter sets, the marker clear;   *)
(* the assumption above is that they always fit.                            *)
StapA(i, seq) == <<Packet(seq, "stap", i, 0, 0, TRUE, TRUE, FALSE, TRUE)>>

-----------------------------------------------------------------------------
(* ngx_rtmp_rtc_video *)

(* The NAL units collected from the tag. *)
Collected(f) == SubSeq(f, 1, IF Len(f) < MaxNalus THEN Len(f) ELSE MaxNalus)

HasParams == sps > 0 /\ pps > 0

(* Packets of NAL unit i of f: none for a B slice; parameter sets before an *)
(* IDR slice.                                                               *)
PacketsOf(f, i, seq) ==
    LET n      == f[i]
        before == IF n.kind = "idr" /\ HasParams THEN StapA(i, seq) ELSE <<>>
    IN  IF n.kind = "b" THEN <<>>
        ELSE before \o Packetize(i, n.len, Plus(seq, Len(before)), i = Len(f))

(* An empty NAL unit, other than one taken for a B slice, ends the loop;    *)
(* the parameter sets of an empty one of type IDR cannot occur (its type    *)
(* would be in the byte it does not have).                                  *)
Whole(f) ==
    LET empty == {i \in DOMAIN f : f[i].len = 0}
    IN  IF empty = {} THEN f
        ELSE SubSeq(f, 1, (CHOOSE i \in empty : \A j \in empty : i <= j) - 1)

(* The loop: the marker goes to the last NAL unit of the tag, sent or not.  *)
Emitted(f, seq) ==
    LET upto[i \in 0..Len(Whole(f))] ==
            IF i = 0 THEN <<>>
            ELSE upto[i - 1] \o PacketsOf(f, i, Plus(seq, Len(upto[i - 1])))
    IN  upto[Len(Whole(f))]

-----------------------------------------------------------------------------
Init == /\ video_seq = 0 /\ sps = 0 /\ pps = 0
        /\ frame = <<>> /\ first = 0 /\ out = <<>> /\ frames = 0

(* A cached set is the first that is shorter than its buffer. *)
Cached(len) == IF len < ParamMax THEN len ELSE 0

(* The AVC sequence header: a (re)publish.  ngx_rtmp_rtc_parse_avc_header.  *)
Header(s, p) ==
    /\ frames < MaxFrames
    /\ video_seq' = 0 /\ sps' = Cached(s) /\ pps' = Cached(p)
    /\ frame' = <<>> /\ first' = 0 /\ out' = <<>> /\ frames' = frames + 1

Tag(f) ==
    LET g == Collected(f)
    IN  /\ frames < MaxFrames
        /\ frame' = g /\ first' = video_seq
        /\ out' = Emitted(g, video_seq)
        /\ video_seq' = Plus(video_seq, Len(out'))
        /\ frames' = frames + 1
        /\ UNCHANGED <<sps, pps>>

Next == \/ \E s, p \in Params : Header(s, p)
        \/ \E f \in Frames : Tag(f)

Spec == Init /\ [][Next]_vars

-----------------------------------------------------------------------------
(* The receiver *)

(* The bytes of NAL unit i that the packets carry, in packet order.  A      *)
(* fragmented unit's first byte is put together from its first fragment.    *)
BytesOf(packets, i) ==
    LET mine == SelectSeq(packets, LAMBDA p : p.nalu = i /\ p.form # "stap")
        cut(p) == [k \in 1..(p.to + 1 - p.from) |-> p.from + k - 1]
    IN  FoldLeft(LAMBDA got, p : got \o (IF p.form = "fu" /\ p.start THEN <<1>> ELSE <<>>) \o cut(p),
                 <<>>, mine)

-----------------------------------------------------------------------------
(* Properties *)

(* A receiver that gets all packets of a tag puts together exactly the NAL  *)
(* units that were to be sent, byte for byte: none is split at the wrong    *)
(* place, repeated or left open; each packet fits, and the numbers follow   *)
(* each other, across their wrap.                                           *)
Reassembles ==
    /\ \A k \in DOMAIN out : out[k].seq = Plus(first, k - 1) /\ out[k].to + 1 - out[k].from <= Mtu
    /\ \A k \in DOMAIN out : out[k].form = "fu" =>
          /\ out[k].from <= out[k].to
          /\ ~out[k].end => /\ k < Len(out) /\ out[k + 1].nalu = out[k].nalu
                            /\ ~out[k + 1].start
    /\ \A i \in DOMAIN Whole(frame) :
          BytesOf(out, i) = IF frame[i].kind = "b" THEN <<>> ELSE [k \in 1..frame[i].len |-> k]

(* The RTP marker ends the access unit: no packet of a tag follows one that *)
(* has it.                                                                  *)
MarkerLast == \A k \in DOMAIN out : out[k].marker => k = Len(out)

(* Every access unit that is sent is ended by a marker. *)
UnitMarked == out # <<>> => Last(out).marker

(* A GOP start opens a keyframe: what precedes it in its tag is no part of  *)
(* the picture.                                                             *)
StartOpensKeyframe ==
    \A k \in DOMAIN out : out[k].gop =>
        \A j \in 1..(k - 1) : out[j].form # "stap" => frame[out[j].nalu].kind # "idr"
=============================================================================
