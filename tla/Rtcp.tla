-------------------------------- MODULE Rtcp --------------------------------
(***************************************************************************)
(* What one RTCP datagram of a viewer makes the server do:                 *)
(* ngx_rtc_stream_on_rtcp walks the compound packet (ngx_rtc_rtcp_decode)  *)
(* and ngx_rtc_stream_rtcp_cb acts on each sub-packet.  A sub-packet is    *)
(* its type and what the code reads of its body; what happens is a list of *)
(* effects, which Pacer, NackWindow and VideoCache take as inputs.         *)
(***************************************************************************)
EXTENDS Naturals, Sequences, FiniteSets, SequencesExt

CONSTANTS
    SeqSpace,      \* RTP numbers: 2^16 in the code
    BlpBits,       \* bits of a NACK's bitmask: 16 in the code
    EntriesMax,    \* NGX_RTC_RTCP_MAX_NACK_ENTRIES
    NackCap,       \* room for the numbers of one NACK: 512 in the code
    RateSpace,     \* remb_bitrate_bps: 2^32 in the code
    Base, Missing, \* what a viewer may miss: distances from Base, as sets
    Feedbacks,     \* transport feedback it may send
    Rembs          \* bitrates it may estimate

(* Sub-packets: a NACK and a PLI are for the source's video SSRC or not;    *)
(* chunks of a transport feedback are runs of one status or vectors of      *)
(* statuses, 0 for a packet that is lost; `bad` stands for whatever         *)
(* ngx_rtc_rtcp_parse refuses, `other` for what the callback ignores.       *)
Nack(own, entries)  == [type |-> "nack", own |-> own, entries |-> entries]
Pli(own)            == [type |-> "pli", own |-> own]
Twcc(count, chunks) == [type |-> "twcc", count |-> count, chunks |-> chunks]
Remb(mantissa, exp) == [type |-> "remb", mantissa |-> mantissa, exp |-> exp]
Bye                 == [type |-> "bye"]
Other               == [type |-> "other"]
Bad                 == [type |-> "bad"]

(* Assumption on the constants, checked where the module is instantiated. *)
RtcpConstants ==
    /\ {SeqSpace, BlpBits, EntriesMax, NackCap, RateSpace} \subseteq Nat \ {0}
    /\ BlpBits < SeqSpace

VARIABLES
    got,        \* the last datagram
    effects,    \* what it made the server do, in order
    closed      \* the session is closed: its datagrams are no longer handled

vars == <<got, effects, closed>>

Least(a, b) == IF a < b THEN a ELSE b

-----------------------------------------------------------------------------
(* Mutant: the first bit of the mask is the packet itself. *)
EntryNumbersUnshifted(e) ==
    <<e.pid>> \o [k \in 1..Cardinality(e.blp) |->
                    (e.pid + SetToSortSeq(e.blp, <)[k]) % SeqSpace]

(* ngx_rtc_rtcp_nack_expand: the numbers, and whether all of them fitted.   *)
EntryNumbers(e) ==
    <<e.pid>> \o [k \in 1..Cardinality(e.blp) |->
                    (e.pid + SetToSortSeq(e.blp, <)[k] + 1) % SeqSpace]

Kept(entries) == SubSeq(entries, 1, Least(Len(entries), EntriesMax))

Expanded(entries) ==
    FlattenSeq([i \in DOMAIN Kept(entries) |-> EntryNumbers(Kept(entries)[i])])

(* Mutant: a run is taken at its full length. *)
ChunkTakenWhole(c, left) ==
    IF c.form = "run" THEN [k \in 1..c.len |-> c.symbol]
    ELSE SubSeq(c.symbols, 1, Least(Len(c.symbols), left))

(* ngx_rtc_rtcp_parse_twcc: chunks are read until the count is reached; a   *)
(* run is cut, and a vector left, at the count.                             *)
ChunkTaken(c, left) ==
    IF c.form = "run" THEN [k \in 1..Least(c.len, left) |-> c.symbol]
    ELSE SubSeq(c.symbols, 1, Least(Len(c.symbols), left))

TwccParsed(sub) ==
    LET taken == FoldLeft(LAMBDA acc, c :
                    IF Len(acc) < sub.count THEN acc \o ChunkTaken(c, sub.count - Len(acc)) ELSE acc,
                    <<>>, sub.chunks)
    IN  [lost |-> Cardinality({k \in DOMAIN taken : taken[k] = 0}),
         received |-> Cardinality({k \in DOMAIN taken : taken[k] # 0})]

(* ngx_rtc_rtcp_parse_remb: the product is kept to the width of its field.  *)
RembRate(sub) == (sub.mantissa * 2 ^ sub.exp) % RateSpace

-----------------------------------------------------------------------------
(* ngx_rtc_stream_rtcp_cb: feedback for another SSRC than the video's is    *)
(* ignored, and so is a NACK that does not fit.                             *)
Answer(sub) ==
    CASE sub.type = "nack" ->
            LET seqs == Expanded(sub.entries)
            IN  IF sub.own /\ Len(seqs) <= NackCap THEN <<[do |-> "resend", seqs |-> seqs]>> ELSE <<>>
      [] sub.type = "pli"  -> IF sub.own THEN <<[do |-> "replay"]>> ELSE <<>>
      [] sub.type = "twcc" -> <<[do |-> "report", loss |-> TwccParsed(sub)]>>
      [] sub.type = "remb" -> <<[do |-> "cap", bps |-> RembRate(sub)]>>
      [] OTHER             -> <<>>

(* ngx_rtc_rtcp_decode: the walk ends at the first sub-packet that does not *)
(* parse; what came before it has been acted upon.                          *)
Walked(d) ==
    LET bad == SelectInSeq(d, LAMBDA sub : sub.type = "bad")
    IN  IF bad = 0 THEN d ELSE SubSeq(d, 1, bad - 1)

-----------------------------------------------------------------------------
(* The viewer's side (external): a generic NACK for the numbers at the      *)
(* given distances from base (RFC 4585), in as few entries as it takes.     *)
NackFor(base, missing) ==
    LET entry(first, rest) ==
            [pid |-> (base + first) % SeqSpace,
             blp |-> {m - first - 1 : m \in {r \in rest : r - first <= BlpBits}}]
        cover[left \in SUBSET missing] ==
            IF left = {} THEN <<>>
            ELSE LET first == CHOOSE m \in left : \A o \in left : m <= o
                 IN  <<entry(first, left \ {first})>> \o
                     cover[{m \in left : m - first > BlpBits}]
    IN  cover[missing]

Plain == {Other, Bad, Bye, Pli(TRUE), Pli(FALSE)}

NackOf(own, missing) == Nack(own, NackFor(Base, missing))

Subs == Plain \cup Feedbacks \cup Rembs \cup {NackOf(TRUE, m) : m \in Missing}

(* Compound packets: one sub-packet, or two of which one is plain. *)
Datagrams ==
    LET few == Plain \cup Rembs \cup {NackOf(own, {0, 1}) : own \in BOOLEAN}
    IN  {<<a>> : a \in Subs} \cup {<<a, b>> : a \in Plain, b \in few}
           \cup {<<a, b>> : a \in few, b \in Plain}

-----------------------------------------------------------------------------
Init == got = <<>> /\ effects = <<>> /\ closed = FALSE

(* ngx_rtc_stream_on_rtcp; a BYE takes effect after the walk.               *)
Receive(d) ==
    /\ ~closed
    /\ got' = d
    /\ effects' = FlattenSeq([i \in DOMAIN Walked(d) |-> Answer(Walked(d)[i])])
    /\ closed' = \E i \in DOMAIN Walked(d) : Walked(d)[i].type = "bye"

Next == \E d \in Datagrams : Receive(d)

Spec == Init /\ [][Next]_vars

-----------------------------------------------------------------------------
(* Properties *)

(* What the viewer means by a sub-packet: the numbers named by the entries  *)
(* of a NACK that are read; the statuses of a feedback written out in full. *)
NamedBy(entries) ==
    UNION {{e.pid} \cup {(e.pid + b + 1) % SeqSpace : b \in e.blp} : e \in Range(Kept(entries))}

StatusOf(sub) ==
    LET written == FlattenSeq([i \in DOMAIN sub.chunks |->
                      IF sub.chunks[i].form = "run"
                      THEN [k \in 1..sub.chunks[i].len |-> sub.chunks[i].symbol]
                      ELSE sub.chunks[i].symbols])
    IN  SubSeq(written, 1, Least(Len(written), sub.count))

Losses(s) == Cardinality({k \in DOMAIN s : s[k] = 0})

(* Each effect of a datagram is what the viewer meant: the packets offered  *)
(* for resending are those its NACK names, each once, across the wrap of    *)
(* the numbers; a report has every packet of the feedback's range, once,    *)
(* however it was cut into chunks.                                          *)
FeedbackExact ==
    LET meant(type) == SelectSeq(Walked(got), LAMBDA sub : sub.type = type)
        did(what)   == SelectSeq(effects, LAMBDA e : e.do = what)
        nacks       == SelectSeq(meant("nack"), LAMBDA sub :
                          sub.own /\ Cardinality(NamedBy(sub.entries)) <= NackCap)
    IN  /\ Len(did("resend")) = Len(nacks)
        /\ \A i \in DOMAIN nacks :
              LET seqs == did("resend")[i].seqs
              IN  Range(seqs) = NamedBy(nacks[i].entries) /\ Len(seqs) = Cardinality(Range(seqs))
        /\ Len(did("report")) = Len(meant("twcc"))
        /\ \A i \in DOMAIN meant("twcc") :
              LET loss == did("report")[i].loss  all == StatusOf(meant("twcc")[i])
              IN  loss.lost = Losses(all) /\ loss.lost + loss.received = Len(all)

(* A NACK for this video is answered, at least in part. *)
NackHeard ==
    \A i \in DOMAIN Walked(got) :
        (Walked(got)[i].type = "nack" /\ Walked(got)[i].own /\ Walked(got)[i].entries # <<>>) =>
            \E k \in DOMAIN effects : effects[k].do = "resend"

(* A cap is the bitrate that the viewer wrote. *)
RembExact ==
    \A i \in DOMAIN Walked(got) :
        LET sub == Walked(got)[i]
        IN  sub.type = "remb" =>
              \E k \in DOMAIN effects :
                  effects[k].do = "cap" /\ effects[k].bps = sub.mantissa * 2 ^ sub.exp
=============================================================================
