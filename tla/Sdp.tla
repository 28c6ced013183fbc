--------------------------------- MODULE Sdp --------------------------------
(***************************************************************************)
(* ngx_rtc_sdp.c with its caller in ngx_rtc_http_module.c: an SDP offer is *)
(* read line by line, one payload type per medium is picked from it, and   *)
(* the answer is written from what was picked.  A line is what the parser  *)
(* reads of it; names of codecs and media, mids and URIs are atoms.        *)
(***************************************************************************)
EXTENDS Naturals, Sequences, FiniteSets, SequencesExt

CONSTANTS
    MaxMedia,   \* NGX_RTC_SDP_MAX_MEDIA
    MaxPt,      \* NGX_RTC_SDP_MAX_PT
    ExtMax,     \* ids of a one-byte header extension: 14 in the code
    SourcePt,   \* medium -> src->video_pt, src->audio_pt: what is fallen back to
    Offers      \* offers a client may send: sequences of lines

Codec == [video |-> "H264", audio |-> "opus"]

(* Assumption on the constants, checked where the module is instantiated. *)
SdpConstants ==
    /\ {MaxMedia, MaxPt, ExtMax} \subseteq Nat \ {0}
    /\ DOMAIN SourcePt = DOMAIN Codec
    /\ \A o \in Offers : DOMAIN o = 1..Len(o)

VARIABLES
    lines,   \* the offer
    answer   \* what it is answered with

vars == <<lines, answer>>

NoAnswer(status) == [status |-> status, sections |-> <<>>, bundle |-> <<>>]

-----------------------------------------------------------------------------
(* The parser: its state is the media read so far.  The attributes of the   *)
(* session (ICE, DTLS) are read and not used.                               *)
NothingRead == [ok |-> TRUE, media |-> <<>>]

(* ngx_rtc_sdp_parse_media *)
Media(st, line) ==
    IF Len(st.media) >= MaxMedia \/ Len(line.pts) > MaxPt THEN [st EXCEPT !.ok = FALSE]
    ELSE [st EXCEPT !.media = Append(@,
            [type |-> line.type, mid |-> "", ext |-> 0,
             pts |-> [k \in DOMAIN line.pts |-> [pt |-> line.pts[k], encoding |-> ""]]])]

(* ngx_rtc_sdp_parse_rtpmap: the first entry of that number; one the m-line *)
(* does not list refuses the offer.                                         *)
Rtpmap(st, line) ==
    LET m == Last(st.media)
        k == SelectInSeq(m.pts, LAMBDA p : p.pt = line.pt)
    IN  IF k = 0 THEN [st EXCEPT !.ok = FALSE]
        ELSE [st EXCEPT !.media[Len(st.media)].pts[k].encoding = line.encoding]

(* ngx_rtc_sdp_parse_fmtp: its parameters are kept, and never used.         *)
Fmtp(st, line) ==
    [st EXCEPT !.ok = \E k \in DOMAIN Last(st.media).pts : Last(st.media).pts[k].pt = line.pt]

(* ngx_rtc_sdp_parse_extmap, of a transport-wide-cc URI: an id that does    *)
(* not fit a one-byte header is passed over.                                *)
Extmap(st, line) ==
    IF line.id \in 1..ExtMax THEN [st EXCEPT !.media[Len(st.media)].ext = line.id] ELSE st

(* ngx_rtc_sdp_parse_line and ngx_rtc_sdp_apply_attr: an attribute belongs  *)
(* to the medium before it.                                                 *)
Line(st, line) ==
    IF ~st.ok \/ (st.media = <<>> /\ line.line # "m") THEN st
    ELSE CASE line.line = "m"      -> Media(st, line)
           [] line.line = "mid"    -> [st EXCEPT !.media[Len(st.media)].mid = line.value]
           [] line.line = "rtpmap" -> Rtpmap(st, line)
           [] line.line = "fmtp"   -> Fmtp(st, line)
           [] line.line = "extmap" -> Extmap(st, line)
           [] OTHER                -> st

(* ngx_rtc_sdp_parse_offer *)
Parsed(o) == FoldLeft(Line, NothingRead, o)

-----------------------------------------------------------------------------
(* ngx_rtc_sdp_build_offer: the last section of a medium says what its      *)
(* extension is, the last with the codec what its payload type is: the      *)
(* first entry of that codec, 0 for none.                                   *)
CodecAt(m) == SelectInSeq(m.pts, LAMBDA p : p.encoding = Codec[m.type])

OfType(media, type) == SelectSeq(media, LAMBDA m : m.type = type)

OfferedPt(media, type) ==
    LET able == SelectSeq(OfType(media, type), LAMBDA m : CodecAt(m) # 0)
    IN  IF able = <<>> THEN 0 ELSE Last(able).pts[CodecAt(Last(able))].pt

OfferedExt(media, type) ==
    IF OfType(media, type) = <<>> THEN 0 ELSE Last(OfType(media, type)).ext

(* Mutant: the codec of whichever medium comes last. *)
PickedPtOfLast(media, type) ==
    LET m == Last(media)
        k == SelectInSeq(m.pts, LAMBDA p : p.encoding # "")
    IN  IF k = 0 THEN SourcePt[type] ELSE m.pts[k].pt

(* The session's payload type: the offer's, or else the source's.           *)
PickedPt(media, type) ==
    IF OfferedPt(media, type) # 0 THEN OfferedPt(media, type) ELSE SourcePt[type]

(* ngx_rtc_sdp_write_media, and the rejection of what is not carried.       *)
Section(media, m) ==
    IF m.type \in DOMAIN Codec
    THEN [type |-> m.type, mid |-> m.mid, port |-> 9, pt |-> PickedPt(media, m.type),
          ext |-> OfferedExt(media, m.type)]
    ELSE [type |-> m.type, mid |-> "", port |-> 0, pt |-> 0, ext |-> 0]

(* ngx_rtc_sdp_generate_answer *)
Answered(media) ==
    [status |-> "ok",
     sections |-> [i \in DOMAIN media |-> Section(media, media[i])],
     bundle |-> LET carried == SelectSeq(media, LAMBDA m : m.type \in DOMAIN Codec)
                IN  [i \in DOMAIN carried |-> carried[i].mid]]

-----------------------------------------------------------------------------
(* Some client sends one of the offers. *)
Init == lines \in Offers /\ answer = NoAnswer("none")

Answer ==
    LET st == Parsed(lines)
    IN  /\ answer = NoAnswer("none")
        /\ answer' = IF st.ok THEN Answered(st.media) ELSE NoAnswer("refused")
        /\ UNCHANGED lines

Next == Answer

Spec == Init /\ [][Next]_vars

-----------------------------------------------------------------------------
(* The offer as its sections: each from an m-line to the next *)
Starts == {i \in DOMAIN lines : lines[i].line = "m"}

SectionOf(i) == {j \in DOMAIN lines : i <= j /\ \A k \in Starts : k <= j => k <= i}

Order == SetToSortSeq(Starts, <)

MidOf(i) ==
    LET at == {j \in SectionOf(i) : lines[j].line = "mid"}
    IN  IF at = {} THEN "" ELSE lines[CHOOSE j \in at : \A k \in at : k <= j].value

(* The payload types that a section's rtpmap lines give the codec.          *)
CodecPts(i) ==
    {lines[j].pt : j \in {k \in SectionOf(i) :
        /\ lines[k].line = "rtpmap"
        /\ lines[k].encoding = Codec[lines[i].type]
        /\ \A l \in SectionOf(i) :
              (lines[l].line = "rtpmap" /\ lines[l].pt = lines[k].pt) => l <= k}}

-----------------------------------------------------------------------------
(* Properties *)

(* An answer mirrors its offer (RFC 3264): as many sections, of the same    *)
(* media in the same order, the carried ones under the same mids, which are *)
(* those in BUNDLE; and where a section is the only one of its medium and   *)
(* offers the codec, its payload type is one it offered for that codec.     *)
AnswerMirrors ==
    answer.status = "ok" =>
        /\ Len(answer.sections) = Cardinality(Starts)
        /\ \A n \in DOMAIN answer.sections :
              LET i == Order[n]  a == answer.sections[n]
              IN  /\ a.type = lines[i].type
                  /\ a.port # 0 => a.mid = MidOf(i) /\ a.mid \in ToSet(answer.bundle)
                  /\ (/\ a.port # 0 /\ CodecPts(i) # {}
                      /\ \A k \in Starts \ {i} : lines[k].type # lines[i].type)
                     => a.pt \in CodecPts(i)
        /\ Len(answer.bundle) = Cardinality({n \in DOMAIN answer.sections : answer.sections[n].port # 0})

(* A payload type in an answer is one that its own section offered.         *)
PtOffered ==
    answer.status = "ok" =>
        \A n \in DOMAIN answer.sections :
            answer.sections[n].port # 0 => answer.sections[n].pt \in ToSet(lines[Order[n]].pts)
=============================================================================
