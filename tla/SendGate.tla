------------------------------ MODULE SendGate ------------------------------
(***************************************************************************)
(* ngx_rtc_session_send_rtp: the gates one packet passes on its way to one *)
(* viewer's socket.  Live media, replays and retransmissions all take it.  *)
(* In order: the GOP backpressure gate, the pacer (from which a keyframe's *)
(* access unit is exempt), the transport-wide sequence stamp, SRTP, the    *)
(* socket.  The pacer's verdict and the socket's answer are inputs here.   *)
(***************************************************************************)
EXTENDS Integers

CONSTANTS
    KeyframeMax,  \* NGX_RTC_KEYFRAME_MAX_PKTS
    StreakMax,    \* eagain_streak_max
    TwccSpace,    \* 2^16 in the code
    MaxUnit,      \* bound on the packets of a live access unit
    Admits        \* verdicts the pacer may give

ASSUME GateConstants ==
    /\ {KeyframeMax, StreakMax, TwccSpace, MaxUnit} \subseteq Nat \ {0}
    /\ Admits \subseteq BOOLEAN

(* What becomes of an attempt: sent; a socket error or a short write; a     *)
(* full socket; SRTP protection failed.                                     *)
Outcomes == {"sent", "error", "again", "srtp"}

VARIABLES
    s,      \* the sending state of ngx_rtc_session_t
    live,   \* the publisher: packets of the access unit in flight, and is it a keyframe
    whole,  \* history: the live unit is a keyframe whose first packet went out,
            \* and no retransmission came in between
    torn,   \* history: a hard failure lost video since the last GOP start went out
    over,   \* history: packets sent over budget since the last GOP start went out
    last,   \* history: the last packet offered and what became of it
    wire    \* history: the transport-wide sequence of the last packet on the wire

gateVars == <<s, live, whole, torn, over, last, wire>>

Fresh == [drop_until_gop |-> FALSE, keyframe_open |-> FALSE, keyframe_pkts |-> 0,
          streak |-> 0, twcc_seq |-> 0]

(* The session negotiated transport-cc; otherwise nothing is stamped.      *)
(* A packet: its medium, whether the sender calls it a GOP start, and the  *)
(* RTP marker.                                                             *)
Packet(video, start, marker) == [video |-> video, start |-> start, marker |-> marker]

-----------------------------------------------------------------------------
(* The gates *)

(* Part of a keyframe's access unit, as far as this session knows. *)
IsKeyframe(p) ==
    \/ p.video /\ p.start
    \/ p.video /\ s.keyframe_open /\ s.keyframe_pkts < KeyframeMax

HeldBack(p) == p.video /\ s.drop_until_gop /\ ~p.start

(* Mutant: only the packet that opens the keyframe is exempt. *)
PacedOutFragments(p, admit) == ~admit /\ ~p.start

PacedOut(p, admit) == ~admit /\ ~IsKeyframe(p)

Verdict(p, admit, outcome) ==
    IF HeldBack(p) THEN "held" ELSE IF PacedOut(p, admit) THEN "paced" ELSE outcome

(* Mutant: an abandoned packet keeps its number. *)
StampKept(result) ==
    IF result \in Outcomes THEN (s.twcc_seq + 1) % TwccSpace ELSE s.twcc_seq

(* The transport-wide sequence number is given back unless the packet left. *)
Stamp(result) == IF result = "sent" THEN (s.twcc_seq + 1) % TwccSpace ELSE s.twcc_seq

(* Consecutive full-socket answers; idle is a pause long enough to restart. *)
Streak(idle) == IF idle THEN 1 ELSE s.streak + 1

(* Bound: only whether keyframe_pkts is below KeyframeMax is ever tested, so *)
(* the count stops there.                                                   *)
CappedCount(n) == IF n > KeyframeMax THEN KeyframeMax ELSE n

(* Mutant: an attempted GOP start reopens the gate. *)
DropUntilGopEager(p, result, behind) ==
    IF p.video /\ p.start THEN FALSE
    ELSE s.drop_until_gop \/ (p.video /\ result = "error")

(* A hard failure, or too many full-socket answers in a row, closes video   *)
(* until a GOP start has gone out.                                          *)
DropUntilGop(p, result, behind) ==
    \/ s.drop_until_gop /\ ~(p.video /\ p.start /\ result = "sent")
    \/ p.video /\ (result = "error" \/ (result = "again" /\ behind))

(* The session after the packet. *)
SentState(p, result, idle) ==
    LET opened == p.start \/ s.keyframe_open
        used   == IF p.start THEN 1 ELSE CappedCount(s.keyframe_pkts + 1)
        behind == Streak(idle) >= StreakMax
    IN  [s EXCEPT
          !.twcc_seq = Stamp(result),
          !.drop_until_gop = DropUntilGop(p, result, behind),
          !.streak =
              CASE p.video /\ result = "sent"  -> 0
                [] p.video /\ result = "again" -> IF behind THEN 0 ELSE Streak(idle)
                [] OTHER                       -> @,
          !.keyframe_open = IF p.video /\ result = "sent" THEN opened /\ ~p.marker ELSE @,
          !.keyframe_pkts = IF p.video /\ result = "sent" /\ opened THEN used ELSE @]

-----------------------------------------------------------------------------
(* Types of a session's send-gate fields; the transport sequence stays in   *)
(* its width (TwccSpace) and the EAGAIN streak below the one that arms.        *)
GateTypeOK ==
    /\ s \in [drop_until_gop : BOOLEAN, keyframe_open : BOOLEAN,
              keyframe_pkts : 0..KeyframeMax, streak : 0..(StreakMax - 1),
              twcc_seq : 0..(TwccSpace - 1)]
    /\ live \in [sent : 0..(MaxUnit - 1), key : BOOLEAN]
    /\ whole \in BOOLEAN /\ torn \in BOOLEAN /\ wire \in -1..(TwccSpace - 1)
    /\ over \in 0..(KeyframeMax + 1)   \* bound: one past the cap
    /\ last \in [video : BOOLEAN, start : BOOLEAN, inUnit : BOOLEAN, nth : 0..MaxUnit,
                 result : Outcomes \cup {"none", "held", "paced"}]

GateInit == /\ s = Fresh
            /\ live = [sent |-> 0, key |-> FALSE]
            /\ whole = FALSE /\ torn = FALSE /\ over = 0
            /\ last = [video |-> FALSE, start |-> FALSE, inUnit |-> FALSE, nth |-> 0,
                       result |-> "none"]
            /\ wire = -1

(* ngx_rtc_session_send_rtp for packet p; inUnit: it belongs to a live      *)
(* keyframe that has begun to go out, as its nth packet.                    *)
Send(p, inUnit, nth, admit, outcome, idle) ==
    LET result == Verdict(p, admit, outcome)
        spent  == IF p.start THEN 0 ELSE over
    IN  /\ s' = SentState(p, result, idle)
        /\ last' = [video |-> p.video, start |-> p.start, inUnit |-> inUnit, nth |-> nth,
                    result |-> result]
        /\ torn' = \/ torn /\ ~(p.video /\ p.start /\ result = "sent")
                   \/ p.video /\ result = "error"
        /\ over' = IF ~(p.video /\ result = "sent") THEN over
                   ELSE IF admit \/ spent > KeyframeMax THEN spent ELSE spent + 1
        /\ wire' = IF result = "sent" THEN s.twcc_seq ELSE wire

(* The publisher's next video packet: it opens an access unit, of a         *)
(* keyframe or not, or continues the one in flight.  Only the last packet   *)
(* of a unit has the marker; after a skipped trailing NALU none has.        *)
Live(opens, ends, marker, admit, outcome, idle) ==
    LET begin == live.sent = 0
        key   == IF begin THEN opens ELSE live.key
        start == begin /\ opens
        p     == Packet(TRUE, start, marker)
    IN  /\ begin \/ ~opens
        /\ live.sent + 1 = MaxUnit => ends
        /\ marker => ends
        /\ start => ~ends             \* the parameter sets precede the picture
        /\ Send(p, key /\ whole /\ ~begin, live.sent + 1, admit, outcome, idle)
        /\ live' = IF ends THEN [sent |-> 0, key |-> FALSE]
                   ELSE [sent |-> live.sent + 1, key |-> key]
        /\ whole' = CASE ends  -> FALSE
                      [] start -> last'.result = "sent"
                      [] OTHER -> whole

Audio(admit, outcome) ==
    /\ Send(Packet(FALSE, FALSE, FALSE), FALSE, 0, admit, outcome, FALSE)
    /\ UNCHANGED <<live, whole>>

(* A NACK answered: ngx_rtc_session_retransmit_send passes is_gop_start 0,  *)
(* whatever the packet was.                                                 *)
Retransmit(marker, admit, outcome, idle) ==
    /\ Send(Packet(TRUE, FALSE, marker), FALSE, 0, admit, outcome, idle)
    /\ whole' = FALSE
    /\ UNCHANGED live

-----------------------------------------------------------------------------
GateNext == \E admit \in Admits, outcome \in Outcomes :
              \/ Audio(admit, outcome)
              \/ \E marker \in BOOLEAN, idle \in BOOLEAN :
                    /\ idle => outcome = "again"    \* nothing else reads it
                    /\ \/ Retransmit(marker, admit, outcome, idle)
                       \/ \E opens, ends \in BOOLEAN :
                             Live(opens, ends, marker, admit, outcome, idle)

GateSpec == GateInit /\ [][GateNext]_gateVars

-----------------------------------------------------------------------------
(* Properties *)

(* After a hard send failure no video reaches the viewer until a GOP start  *)
(* has: neither live, nor a retransmission, whatever the pacer says.        *)
NoTornVideo == last.video /\ last.result = "sent" /\ ~last.start => ~torn

(* The receiver sees transport-wide sequence numbers without holes: what    *)
(* this process abandoned never looks like loss on the path.                *)
TransportContiguous ==
    [][last'.result = "sent" => wire' = (wire + 1) % TwccSpace]_gateVars

(* Once its first packet went out, the pacer takes nothing out of a         *)
(* keyframe's access unit, up to the packet cap, as long as no              *)
(* retransmission is sent inside the unit: the marker of one closes it.     *)
KeyframeWhole ==
    last.inUnit /\ last.nth <= KeyframeMax => last.result # "paced"

(* The pacer's exemption is bounded: between two GOP starts no more than    *)
(* the cap goes out over budget, marker or not, retransmissions included.   *)
ExemptionBounded == over <= KeyframeMax
=============================================================================
