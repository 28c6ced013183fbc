--------------------------- MODULE SessionProofs ----------------------------
(* What the parts of a session promise, for every value of their constants: *)
(* the send gate (SendGate), the answers to NACKs (NackWindow), the map of  *)
(* RTP time to the wall clock (AvSync), the lifetime of the audio worker    *)
(* (AudioWorker) and the byte arenas it is fed through (ByteRing), the      *)
(* counters of failed sends (Reports), the page that shows them (StatsPage) *)
(* and the state machine (Hsm).                                             *)
EXTENDS Hsm, SendGate, NackWindow, AvSync, AudioWorker, ByteRing, Reports, StatsPage,
        FiniteSetTheorems, SequenceTheorems, WellFoundedInduction, TLAPS

-----------------------------------------------------------------------------
(* The send gate *)

(* What the history says of a session's fields, and the fields of each      *)
(* other: a torn GOP keeps the gate closed; the number to stamp follows the *)
(* last one on the wire; while a keyframe goes out its exemption is open    *)
(* and has counted no more packets than were produced; and what went out    *)
(* over budget was counted.                                                 *)
GateAgrees ==
    /\ torn => s.drop_until_gop
    /\ s.twcc_seq = (wire + 1) % TwccSpace
    /\ whole => s.keyframe_open /\ live.sent > 0 /\ s.keyframe_pkts <= live.sent
    /\ over <= s.keyframe_pkts

GateInv == GateTypeOK /\ GateAgrees /\ NoTornVideo /\ KeyframeWhole

GatePackets == [video : BOOLEAN, start : BOOLEAN, marker : BOOLEAN]

(* The constants, one by one. *)
LEMMA GateNumbers ==
    /\ KeyframeMax \in Nat /\ KeyframeMax > 0
    /\ StreakMax \in Nat /\ StreakMax > 0
    /\ TwccSpace \in Nat /\ TwccSpace > 0
    /\ MaxUnit \in Nat /\ MaxUnit > 0
    /\ Admits \subseteq BOOLEAN /\ 0 \in 0..MaxUnit
  BY GateConstants

LEMMA GateInitInv == ASSUME GateInit PROVE GateInv
  <1>1. /\ 0 \in 0..KeyframeMax /\ 0 \in 0..(StreakMax - 1) /\ 0 \in 0..(TwccSpace - 1)
        /\ 0 \in 0..MaxUnit /\ 0 \in 0..(MaxUnit - 1) /\ -1 \in -1..(TwccSpace - 1) /\ 0 \in 0..(KeyframeMax + 1)
    BY GateNumbers
  <1>2. GateTypeOK  BY <1>1 DEF GateInit, GateTypeOK, Fresh
  <1>3. s.twcc_seq = 0 /\ wire + 1 = 0 /\ 0 % TwccSpace = 0  BY GateNumbers DEF GateInit, Fresh
  <1>4. GateAgrees  BY <1>3 DEF GateInit, GateAgrees, Fresh
  <1> QED BY <1>2, <1>4 DEF GateInit, GateInv, NoTornVideo, KeyframeWhole

GateStates == [drop_until_gop : BOOLEAN, keyframe_open : BOOLEAN, keyframe_pkts : 0..KeyframeMax,
               streak : 0..(StreakMax - 1), twcc_seq : 0..(TwccSpace - 1)]

Offers == [video : BOOLEAN, start : BOOLEAN, inUnit : BOOLEAN, nth : 0..MaxUnit,
           result : Outcomes \cup {"none", "held", "paced"}]

Sendable(p, inUnit, nth, admit, outcome, pause) ==
    /\ p \in GatePackets /\ inUnit \in BOOLEAN /\ nth \in 0..MaxUnit
    /\ admit \in BOOLEAN /\ outcome \in Outcomes /\ pause \in BOOLEAN
    /\ Send(p, inUnit, nth, admit, outcome, pause)

(* What ngx_rtc_session_send_rtp does to a session, field by field.         *)
Fields(p, result, inUnit, nth, pause) ==
    /\ s' \in GateStates
    /\ s'.twcc_seq = Stamp(result)
    /\ s'.drop_until_gop = DropUntilGop(p, result, Streak(pause) >= StreakMax)
    /\ s'.keyframe_open = IF p.video /\ result = "sent"
                          THEN (p.start \/ s.keyframe_open) /\ ~p.marker ELSE s.keyframe_open
    /\ s'.keyframe_pkts = IF p.video /\ result = "sent" /\ (p.start \/ s.keyframe_open)
                          THEN IF p.start THEN 1 ELSE CappedCount(s.keyframe_pkts + 1)
                          ELSE s.keyframe_pkts
    /\ result \in Outcomes \cup {"held", "paced"}
    /\ last' = [video |-> p.video, start |-> p.start, inUnit |-> inUnit, nth |-> nth,
                result |-> result]
    /\ last' \in Offers

LEMMA SendFields ==
    ASSUME GateTypeOK, NEW p, NEW inUnit, NEW nth, NEW admit, NEW outcome, NEW pause,
           Sendable(p, inUnit, nth, admit, outcome, pause)
    PROVE  Fields(p, Verdict(p, admit, outcome), inUnit, nth, pause)
  <1> DEFINE result == Verdict(p, admit, outcome)
             behind == Streak(pause) >= StreakMax
  <1>1. /\ s \in GateStates
        /\ p.video \in BOOLEAN /\ p.start \in BOOLEAN /\ p.marker \in BOOLEAN
        /\ inUnit \in BOOLEAN /\ nth \in 0..MaxUnit /\ outcome \in Outcomes
        /\ Send(p, inUnit, nth, admit, outcome, pause)
    BY DEF GateTypeOK, GateStates, GatePackets, Sendable
  <1>2. result \in Outcomes \cup {"held", "paced"}  BY <1>1 DEF Verdict
  <1>3. Stamp(result) \in 0..(TwccSpace - 1)  BY <1>1, GateNumbers DEF Stamp, GateStates
  <1>4. DropUntilGop(p, result, behind) \in BOOLEAN  BY <1>1 DEF DropUntilGop, GateStates
  <1>5. CappedCount(s.keyframe_pkts + 1) \in 0..KeyframeMax  BY <1>1, GateNumbers DEF CappedCount, GateStates
  <1>6. Streak(pause) \in Nat  BY <1>1, GateNumbers DEF Streak, GateStates
  <1>7. s' = SentState(p, result, pause)  BY <1>1 DEF Send
  <1>8. /\ s'.twcc_seq = Stamp(result)
        /\ s'.drop_until_gop = DropUntilGop(p, result, behind)
        /\ s'.keyframe_open = IF p.video /\ result = "sent"
                              THEN (p.start \/ s.keyframe_open) /\ ~p.marker ELSE s.keyframe_open
        /\ s'.keyframe_pkts = IF p.video /\ result = "sent" /\ (p.start \/ s.keyframe_open)
                              THEN IF p.start THEN 1 ELSE CappedCount(s.keyframe_pkts + 1)
                              ELSE s.keyframe_pkts
    BY <1>1, <1>7 DEF SentState, GateStates
  <1>9. s'.streak \in 0..(StreakMax - 1)  BY <1>1, <1>6, <1>7, GateNumbers DEF SentState, GateStates
  <1>10. s'.keyframe_open \in BOOLEAN  BY <1>1, <1>8 DEF GateStates
  <1>11. s'.keyframe_pkts \in 0..KeyframeMax  BY <1>1, <1>5, <1>8, GateNumbers DEF GateStates
  <1>12. s' = [drop_until_gop |-> s'.drop_until_gop, keyframe_open |-> s'.keyframe_open,
               keyframe_pkts |-> s'.keyframe_pkts, streak |-> s'.streak,
               twcc_seq |-> s'.twcc_seq]
    BY <1>1, <1>7 DEF SentState, GateStates
  <1>13. s' \in GateStates  BY <1>3, <1>4, <1>8, <1>9, <1>10, <1>11, <1>12 DEF GateStates
  <1>14. last' = [video |-> p.video, start |-> p.start, inUnit |-> inUnit, nth |-> nth,
                 result |-> result]
    BY <1>1 DEF Send
  <1>15. last' \in Offers  BY <1>1, <1>2, <1>14 DEF Offers
  <1> QED BY <1>2, <1>8, <1>13, <1>14, <1>15 DEF Fields

(* One packet through the gates, whatever the pacer and the socket say: a   *)
(* torn GOP stays behind the gate, the stamps follow the wire, and what is  *)
(* over budget is counted.                                                  *)
Kept ==
    /\ torn' \in BOOLEAN /\ (torn' => s'.drop_until_gop)
    /\ wire' \in -1..(TwccSpace - 1) /\ s'.twcc_seq = (wire' + 1) % TwccSpace
    /\ last'.result = "sent" => wire' = (wire + 1) % TwccSpace
    /\ over' \in 0..(KeyframeMax + 1) /\ over' <= s'.keyframe_pkts
    /\ NoTornVideo'

LEMMA SendKeeps ==
    ASSUME GateInv, NEW p, NEW inUnit, NEW nth, NEW admit, NEW outcome, NEW pause,
           Sendable(p, inUnit, nth, admit, outcome, pause)
    PROVE  Kept
  <1> DEFINE result == Verdict(p, admit, outcome)
             behind == Streak(pause) >= StreakMax
  <1>0. /\ p \in GatePackets /\ outcome \in Outcomes /\ admit \in BOOLEAN
        /\ Send(p, inUnit, nth, admit, outcome, pause)
    BY DEF Sendable
  <1>1. GateTypeOK /\ GateAgrees  BY DEF GateInv
  <1>2. /\ s'.twcc_seq = Stamp(result)
        /\ s'.drop_until_gop = DropUntilGop(p, result, behind)
        /\ s'.keyframe_pkts = IF p.video /\ result = "sent" /\ (p.start \/ s.keyframe_open)
                              THEN IF p.start THEN 1 ELSE CappedCount(s.keyframe_pkts + 1)
                              ELSE s.keyframe_pkts
        /\ last' = [video |-> p.video, start |-> p.start, inUnit |-> inUnit, nth |-> nth,
                    result |-> result]
    BY <1>1, SendFields DEF Fields
  <1>3. p.video \in BOOLEAN /\ p.start \in BOOLEAN /\ torn \in BOOLEAN /\ s.drop_until_gop \in BOOLEAN
    BY <1>0, <1>1 DEF GatePackets, GateTypeOK
  <1>4. torn' = \/ torn /\ ~(p.video /\ p.start /\ result = "sent")
                \/ p.video /\ result = "error"
    BY <1>0 DEF Send
  <1>5. torn' \in BOOLEAN  BY <1>4
  <1>6. ASSUME torn' PROVE s'.drop_until_gop
    <2>1. CASE p.video /\ result = "error"
      <3>1. DropUntilGop(p, result, behind)  BY <2>1 DEF DropUntilGop
      <3> QED BY <1>2, <3>1
    <2>2. CASE torn /\ ~(p.video /\ p.start /\ result = "sent")
      <3>1. s.drop_until_gop  BY <1>1, <2>2 DEF GateAgrees
      <3>2. DropUntilGop(p, result, behind)  BY <2>2, <3>1 DEF DropUntilGop
      <3> QED BY <1>2, <3>2
    <2> QED BY <1>4, <1>6, <2>1, <2>2
  <1>7. /\ wire' \in -1..(TwccSpace - 1) /\ s'.twcc_seq = (wire' + 1) % TwccSpace
        /\ result = "sent" => wire' = (wire + 1) % TwccSpace
    <2>1. /\ s.twcc_seq \in 0..(TwccSpace - 1) /\ wire \in -1..(TwccSpace - 1)
          /\ s.twcc_seq = (wire + 1) % TwccSpace
      BY <1>1 DEF GateTypeOK, GateAgrees
    <2>2. wire' = IF result = "sent" THEN s.twcc_seq ELSE wire  BY <1>0 DEF Send
    <2> QED BY <1>2, <2>1, <2>2, GateNumbers DEF Stamp
  <1>8. over' \in 0..(KeyframeMax + 1) /\ over' <= s'.keyframe_pkts
    <2>1. /\ over \in Nat /\ s.keyframe_pkts \in 0..KeyframeMax /\ over <= s.keyframe_pkts
          /\ s.keyframe_open \in BOOLEAN
      BY <1>1 DEF GateTypeOK, GateAgrees
    <2>2. over' = LET spent == IF p.start THEN 0 ELSE over
                  IN  IF ~(p.video /\ result = "sent") THEN over
                      ELSE IF admit \/ spent > KeyframeMax THEN spent ELSE spent + 1
      BY <1>0 DEF Send
    <2>3. CASE ~(p.video /\ result = "sent")
      <3>1. over' = over /\ s'.keyframe_pkts = s.keyframe_pkts  BY <1>2, <2>2, <2>3
      <3> QED BY <2>1, <3>1, GateNumbers
    <2>4. CASE result = "sent" /\ p.video /\ p.start
      BY <1>2, <1>3, <2>1, <2>2, <2>4, GateNumbers
    <2>5. CASE result = "sent" /\ p.video /\ ~p.start /\ admit
      BY <1>2, <1>3, <2>1, <2>2, <2>5, GateNumbers DEF CappedCount
    <2>6. CASE result = "sent" /\ p.video /\ ~p.start /\ ~admit
      <3>1. IsKeyframe(p)  BY <1>0, <2>6 DEF Verdict, PacedOut, Outcomes
      <3>2. s.keyframe_open /\ s.keyframe_pkts < KeyframeMax  BY <2>6, <3>1 DEF IsKeyframe
      <3> QED BY <1>2, <1>3, <2>1, <2>2, <2>6, <3>2, GateNumbers DEF CappedCount
    <2> QED BY <1>3, <2>3, <2>4, <2>5, <2>6
  <1>9. NoTornVideo'
    <2> SUFFICES ASSUME p.video, result = "sent", ~p.start PROVE ~torn'
      BY <1>2 DEF NoTornVideo
    <2>1. ~s.drop_until_gop  BY DEF Verdict, HeldBack
    <2>2. ~torn  BY <1>1, <2>1 DEF GateAgrees
    <2> QED BY <1>4, <2>2
  <1> QED BY <1>2, <1>5, <1>6, <1>7, <1>8, <1>9 DEF Kept

(* The handlers' packets: of a live unit, of audio, of a NACK.  The         *)
(* exemption of the keyframe in flight stays open.                          *)
LEMMA LiveInv ==
    ASSUME GateInv, NEW opens \in BOOLEAN, NEW ends \in BOOLEAN, NEW marker \in BOOLEAN,
           NEW admit \in BOOLEAN, NEW outcome \in Outcomes, NEW pause \in BOOLEAN,
           Live(opens, ends, marker, admit, outcome, pause)
    PROVE  GateInv' /\ Kept
  <1> DEFINE begin == live.sent = 0
             key == IF begin THEN opens ELSE live.key
             start == begin /\ opens
             p == Packet(TRUE, start, marker)
             inUnit == key /\ whole /\ ~begin
             nth == live.sent + 1
             result == Verdict(p, admit, outcome)
             opened == start \/ s.keyframe_open
  <1>1. GateTypeOK /\ GateAgrees  BY DEF GateInv
  <1>2. /\ live.sent \in 0..(MaxUnit - 1) /\ live.key \in BOOLEAN /\ whole \in BOOLEAN
        /\ s.keyframe_pkts \in 0..KeyframeMax
    BY <1>1 DEF GateTypeOK
  <1>3. /\ nth = MaxUnit => ends
        /\ marker => ends
        /\ start => ~ends
        /\ Send(p, inUnit, nth, admit, outcome, pause)
        /\ live' = IF ends THEN [sent |-> 0, key |-> FALSE] ELSE [sent |-> nth, key |-> key]
        /\ whole' = CASE ends  -> FALSE
                      [] start -> last'.result = "sent"
                      [] OTHER -> whole
    BY DEF Live
  <1>4. p \in GatePackets /\ p.video = TRUE /\ p.start = start /\ p.marker = marker
    BY <1>2 DEF Packet, GatePackets
  <1>5. key \in BOOLEAN /\ inUnit \in BOOLEAN /\ nth \in 0..MaxUnit /\ nth \in Nat
    BY <1>2, GateNumbers
  <1>6. Sendable(p, inUnit, nth, admit, outcome, pause)  BY <1>3, <1>4, <1>5 DEF Sendable
  <1>7. Kept  BY <1>6, SendKeeps
  <1>8. Fields(p, result, inUnit, nth, pause)  BY <1>1, <1>6, SendFields
  <1>9. live' \in [sent : 0..(MaxUnit - 1), key : BOOLEAN]
    <2>1. CASE ends  BY <1>3, <2>1, GateNumbers
    <2>2. CASE ~ends
      <3>1. nth \in 0..(MaxUnit - 1)  BY <1>2, <1>3, <2>2, GateNumbers
      <3> QED BY <1>3, <1>5, <2>2, <3>1
    <2> QED BY <2>1, <2>2
  <1>10. whole' \in BOOLEAN  BY <1>2, <1>3
  <1>11. GateTypeOK'  BY <1>7, <1>8, <1>9, <1>10 DEF GateTypeOK, Fields, Kept, GateStates, Offers
  <1>12. ASSUME whole' PROVE s'.keyframe_open /\ live'.sent > 0 /\ s'.keyframe_pkts <= live'.sent
    <2>1. ~ends  BY <1>3, <1>12
    <2>2. ~marker /\ live'.sent = nth  BY <1>3, <2>1
    <2>3. CASE start
      <3>1. result = "sent"  BY <1>3, <1>8, <1>12, <2>1, <2>3 DEF Fields
      <3>2. s'.keyframe_open  BY <1>4, <1>8, <2>2, <2>3, <3>1 DEF Fields
      <3>3. s'.keyframe_pkts = 1  BY <1>4, <1>8, <2>3, <3>1 DEF Fields
      <3> QED BY <1>2, <2>2, <3>2, <3>3
    <2>4. CASE ~start
      <3>1. whole  BY <1>3, <1>12, <2>1, <2>4
      <3>2. s.keyframe_open /\ live.sent > 0 /\ s.keyframe_pkts <= live.sent
        BY <1>1, <3>1 DEF GateAgrees
      <3>3. s'.keyframe_open  BY <1>4, <1>8, <2>2, <3>2 DEF Fields
      <3>4. \/ s'.keyframe_pkts = CappedCount(s.keyframe_pkts + 1)
            \/ s'.keyframe_pkts = s.keyframe_pkts
        BY <1>4, <1>8, <2>4 DEF Fields
      <3>5. s'.keyframe_pkts <= s.keyframe_pkts + 1
        BY <1>2, <3>4, GateNumbers DEF CappedCount
      <3>6. s'.keyframe_pkts \in Nat  BY <1>2, <3>4, GateNumbers DEF CappedCount
      <3> QED BY <1>2, <2>2, <3>2, <3>3, <3>5, <3>6
    <2> QED BY <2>3, <2>4
  <1>13. KeyframeWhole'
    <2> SUFFICES ASSUME inUnit, nth <= KeyframeMax, result = "paced" PROVE FALSE
      BY <1>8 DEF KeyframeWhole, Fields
    <2>1. s.keyframe_open /\ s.keyframe_pkts <= live.sent  BY <1>1 DEF GateAgrees
    <2>2. s.keyframe_pkts < KeyframeMax  BY <1>2, <2>1, GateNumbers
    <2>3. IsKeyframe(p)  BY <1>4, <2>1, <2>2 DEF IsKeyframe
    <2>4. result = outcome \/ result = "held"  BY <2>3 DEF Verdict, PacedOut
    <2> QED BY <2>4 DEF Outcomes
  <1>14. GateAgrees'  BY <1>7, <1>12 DEF GateAgrees, Kept
  <1> QED BY <1>7, <1>11, <1>13, <1>14 DEF GateInv, Kept

LEMMA AudioInv ==
    ASSUME GateInv, NEW admit \in BOOLEAN, NEW outcome \in Outcomes, Audio(admit, outcome)
    PROVE  GateInv' /\ Kept
  <1> DEFINE p == Packet(FALSE, FALSE, FALSE)
             result == Verdict(p, admit, outcome)
  <1>1. GateTypeOK /\ GateAgrees  BY DEF GateInv
  <1>2. p \in GatePackets /\ p.video = FALSE  BY DEF Packet, GatePackets
  <1>3. Send(p, FALSE, 0, admit, outcome, FALSE) /\ live' = live /\ whole' = whole  BY DEF Audio
  <1>4. Sendable(p, FALSE, 0, admit, outcome, FALSE)  BY <1>2, <1>3, GateNumbers DEF Sendable
  <1>5. Kept  BY <1>4, SendKeeps
  <1>6. Fields(p, result, FALSE, 0, FALSE)  BY <1>1, <1>4, SendFields
  <1>7. s'.keyframe_open = s.keyframe_open /\ s'.keyframe_pkts = s.keyframe_pkts
    BY <1>2, <1>6 DEF Fields
  <1>8. GateTypeOK'  BY <1>1, <1>3, <1>5, <1>6 DEF GateTypeOK, Fields, Kept, GateStates, Offers
  <1>9. KeyframeWhole'  BY <1>6 DEF KeyframeWhole, Fields
  <1>10. GateAgrees'  BY <1>1, <1>3, <1>5, <1>7 DEF GateAgrees, Kept
  <1> QED BY <1>5, <1>8, <1>9, <1>10 DEF GateInv, Kept

LEMMA RetransmitInv ==
    ASSUME GateInv, NEW marker \in BOOLEAN, NEW admit \in BOOLEAN, NEW outcome \in Outcomes,
           NEW pause \in BOOLEAN, Retransmit(marker, admit, outcome, pause)
    PROVE  GateInv' /\ Kept
  <1> DEFINE p == Packet(TRUE, FALSE, marker)
             result == Verdict(p, admit, outcome)
  <1>1. GateTypeOK /\ GateAgrees  BY DEF GateInv
  <1>2. p \in GatePackets  BY DEF Packet, GatePackets
  <1>3. Send(p, FALSE, 0, admit, outcome, pause) /\ live' = live /\ whole' = FALSE
    BY DEF Retransmit
  <1>4. Sendable(p, FALSE, 0, admit, outcome, pause)  BY <1>2, <1>3, GateNumbers DEF Sendable
  <1>5. Kept  BY <1>4, SendKeeps
  <1>6. Fields(p, result, FALSE, 0, pause)  BY <1>1, <1>4, SendFields
  <1>7. GateTypeOK'  BY <1>1, <1>3, <1>5, <1>6 DEF GateTypeOK, Fields, Kept, GateStates, Offers
  <1>8. KeyframeWhole'  BY <1>6 DEF KeyframeWhole, Fields
  <1>9. GateAgrees'  BY <1>3, <1>5 DEF GateAgrees, Kept
  <1> QED BY <1>5, <1>7, <1>8, <1>9 DEF GateInv, Kept

LEMMA GateNextInv ==
    ASSUME GateInv, GateNext PROVE GateInv' /\ Kept
  <1>1. PICK admit \in Admits, outcome \in Outcomes :
          \/ Audio(admit, outcome)
          \/ \E marker \in BOOLEAN, pause \in BOOLEAN :
                \/ Retransmit(marker, admit, outcome, pause)
                \/ \E opens, ends \in BOOLEAN : Live(opens, ends, marker, admit, outcome, pause)
    BY DEF GateNext
  <1>2. admit \in BOOLEAN  BY GateNumbers
  <1>3. CASE Audio(admit, outcome)  BY <1>2, <1>3, AudioInv
  <1>4. CASE \E marker \in BOOLEAN, pause \in BOOLEAN : Retransmit(marker, admit, outcome, pause)
    BY <1>2, <1>4, RetransmitInv
  <1>5. CASE \E marker, pause, opens, ends \in BOOLEAN :
               Live(opens, ends, marker, admit, outcome, pause)
    BY <1>2, <1>5, LiveInv
  <1> QED BY <1>1, <1>3, <1>4, <1>5

LEMMA GateAlways == GateSpec => []GateInv
  <1>1. GateInv /\ UNCHANGED gateVars => GateInv'
    BY DEF gateVars, GateInv, GateTypeOK, GateAgrees, NoTornVideo, KeyframeWhole
  <1> QED BY <1>1, GateInitInv, GateNextInv, PTL DEF GateSpec

(* ngx_rtc_session_send_rtp: once a send failed hard, no video reaches the  *)
(* viewer before a GOP start has, whatever the pacer and the socket answer. *)
THEOREM TornHeldBack == GateSpec => []NoTornVideo
  <1>1. GateInv => NoTornVideo  BY DEF GateInv
  <1> QED BY <1>1, GateAlways, PTL

(* The pacer takes nothing out of a keyframe whose first packet went out,   *)
(* up to the packet cap, for any cap and any length of the unit.            *)
THEOREM KeyframeUncut == GateSpec => []KeyframeWhole
  <1>1. GateInv => KeyframeWhole  BY DEF GateInv
  <1> QED BY <1>1, GateAlways, PTL

(* No more than the packet cap goes out over budget between two GOP starts. *)
THEOREM ExemptionHeld == GateSpec => []ExemptionBounded
  <1>1. GateInv => ExemptionBounded
    BY GateNumbers DEF GateInv, GateTypeOK, GateAgrees, ExemptionBounded
  <1> QED BY <1>1, GateAlways, PTL

(* The transport-wide numbers on the wire have no holes: a packet that the  *)
(* process abandons gives its number back, at the wrap too.                 *)
THEOREM NumbersContiguous == GateSpec => TransportContiguous
  <1>1. GateInv /\ [GateNext]_gateVars =>
          [last'.result = "sent" => wire' = (wire + 1) % TwccSpace]_gateVars
    BY GateNextInv DEF Kept
  <1> QED BY <1>1, GateAlways, PTL DEF GateSpec, TransportContiguous

-----------------------------------------------------------------------------
(* The audio worker *)

(* A handler is under way only for a source that has a worker, and a source *)
(* has a worker exactly as long as it has a thread.                         *)
WorkerHeld ==
    /\ handler \in [at : {"idle", "drain", "push", "join", "rejoin"}, size : {0} \cup AacSizes]
    /\ audio_ctx \in BOOLEAN
    /\ handler.at # "idle" => audio_ctx
    /\ audio_ctx <=> thread # "none"

LEMMA AudioInitInv == ASSUME AudioInit PROVE WorkerHeld
  BY DEF AudioInit, WorkerHeld, Idle

LEMMA WokenThread == Woken(thread) # "none" <=> thread # "none"
  BY DEF Woken

(* The nginx worker's steps. *)
LEMMA HandlerInv ==
    ASSUME WorkerHeld, Handler \/ Publisher PROVE WorkerHeld'
  <1>1. /\ handler \in [at : {"idle", "drain", "push", "join", "rejoin"},
                        size : {0} \cup AacSizes]
        /\ audio_ctx \in BOOLEAN
        /\ handler.at # "idle" => audio_ctx
        /\ audio_ctx <=> thread # "none"
    BY DEF WorkerHeld
  <1>2. Idle \in [at : {"idle", "drain", "push", "join", "rejoin"}, size : {0} \cup AacSizes]
        /\ Idle.at = "idle"
    BY DEF Idle
  <1>3. ASSUME NEW next \in {"join", "rejoin"}, audio_ctx, StopThread(next) PROVE WorkerHeld'
    BY <1>1, <1>3, WokenThread DEF StopThread, WorkerHeld, Idle
  <1>4. ASSUME NEW ok \in BOOLEAN, Created(ok), handler' = Idle PROVE WorkerHeld'
    BY <1>2, <1>4 DEF Created, WorkerHeld
  <1>5. CASE Drain  BY <1>1, <1>5 DEF Drain, WorkerHeld
  <1>6. CASE Push
    <2>1. handler' = Idle /\ audio_ctx' = audio_ctx  BY <1>6 DEF Push
    <2>2. thread' # "none" <=> thread # "none"  BY <1>6, WokenThread DEF Push
    <2> QED BY <1>1, <1>2, <2>1, <2>2 DEF WorkerHeld
  <1>7. ASSUME NEW ok \in BOOLEAN, Destroyed(ok) PROVE WorkerHeld'
    <2>1. handler' = Idle /\ thread = "exited"  BY <1>7 DEF Destroyed, Joined
    <2>2. CASE handler.at = "join"
      <3>1. audio_ctx' = FALSE /\ thread' = "none"  BY <1>7, <2>1, <2>2 DEF Destroyed, Freed
      <3> QED BY <1>2, <2>1, <3>1 DEF WorkerHeld
    <2>3. CASE handler.at # "join"  BY <1>4, <1>7, <2>1, <2>3 DEF Destroyed
    <2> QED BY <2>2, <2>3
  <1>8. ASSUME NEW ok \in BOOLEAN, SequenceHeader(ok) PROVE WorkerHeld'
    <2>1. CASE audio_ctx  BY <1>3, <1>8, <2>1 DEF SequenceHeader
    <2>2. CASE ~audio_ctx  BY <1>4, <1>8, <2>2 DEF SequenceHeader
    <2> QED BY <2>1, <2>2
  <1>9. ASSUME NEW size \in AacSizes, RawFrame(size) PROVE WorkerHeld'
    BY <1>1, <1>9 DEF RawFrame, WorkerHeld
  <1>10. CASE Release  BY <1>3, <1>10 DEF Release
  <1> QED BY <1>5, <1>6, <1>7, <1>8, <1>9, <1>10 DEF Handler, Publisher

(* The transcoder thread's steps, and a wakeup nobody sent. *)
LEMMA TranscoderInv ==
    ASSUME WorkerHeld, Transcoder \/ Spurious PROVE WorkerHeld'
  <1>1. audio_ctx' = audio_ctx /\ handler' = handler /\ thread # "none" /\ thread' # "none"
    <2>1. CASE Check
      <3>1. thread' \in {"exited", "waiting", "work"}  BY <2>1 DEF Check
      <3> QED BY <2>1, <3>1 DEF Check
    <2>2. CASE Encode  BY <2>2 DEF Encode
    <2>3. ASSUME NEW decodes \in BOOLEAN, Transcode(decodes)
          PROVE  /\ audio_ctx' = audio_ctx /\ handler' = handler
                 /\ thread # "none" /\ thread' # "none"
      BY <2>3 DEF Transcode
    <2>4. CASE Spurious  BY <2>4 DEF Spurious
    <2> QED BY <2>1, <2>2, <2>3, <2>4 DEF Transcoder
  <1> QED BY <1>1 DEF WorkerHeld

(* ngx_rtc_audio_worker_destroy: the worker's memory is released only after *)
(* its thread has ended, whatever the interleaving of the publisher's       *)
(* frames, headers and release with the thread's loop.                      *)
THEOREM ThreadJoined == AudioSpec => []JoinedBeforeFree
  <1>1. WorkerHeld /\ [AudioNext]_audioVars => WorkerHeld'
    <2>1. WorkerHeld /\ UNCHANGED audioVars => WorkerHeld'  BY DEF audioVars, WorkerHeld
    <2> QED BY <2>1, HandlerInv, TranscoderInv DEF AudioNext
  <1>2. WorkerHeld => JoinedBeforeFree  BY DEF WorkerHeld, JoinedBeforeFree
  <1> QED BY <1>1, <1>2, AudioInitInv, PTL DEF AudioSpec

-----------------------------------------------------------------------------
(* The map of RTP time to the wall clock *)

(* A remainder is the one number of its residue below the modulus.          *)
LEMMA ModUnique ==
    ASSUME NEW N \in Nat \ {0}, NEW x \in Int, NEW k \in Int, NEW r \in 0..(N - 1), x = N * k + r
    PROVE  x % N = r
  <1> DEFINE q == x \div N
             m == x % N
  <1>1. q \in Int /\ m \in 0..(N - 1) /\ x = N * q + m  OBVIOUS
  <1> HIDE DEF q, m
  <1> DEFINE d == k - q
  <1>2. d \in Int /\ N * d = m - r  BY <1>1
  <1> HIDE DEF d
  <1>3. ~(d >= 1)
    <2> SUFFICES ASSUME d >= 1 PROVE FALSE  OBVIOUS
    <2>1. N * d >= N  BY <1>2
    <2> QED BY <1>1, <1>2, <2>1
  <1>4. ~(d <= -1)
    <2> SUFFICES ASSUME d <= -1 PROVE FALSE  OBVIOUS
    <2>1. N * d <= -N  BY <1>2
    <2> QED BY <1>1, <1>2, <2>1
  <1>5. d = 0  BY <1>2, <1>3, <1>4
  <1>6. m = r  BY <1>1, <1>2, <1>5
  <1> QED BY <1>6 DEF m

LEMMA SyncNumbers ==
    /\ RtpSpace \in Nat \ {0} /\ Half \in Nat \ {0} /\ RtpSpace = 2 * Half
    /\ RateNum \in Nat \ {0} /\ RateDen \in Nat \ {0} /\ RateNum >= RateDen
    /\ Start \in Nat /\ MaxTime \in Nat
  BY AvSyncConstants DEF Half

(* A division by a positive number leaves a remainder below it.             *)
LEMMA DivSplit ==
    ASSUME NEW x \in Int, NEW n \in Nat \ {0}
    PROVE  x \div n \in Int /\ (x % n) \in 0..(n - 1) /\ x = n * (x \div n) + (x % n)
  <1>1. x \div n \in Int  OBVIOUS
  <1>2. (x % n) \in 0..(n - 1)  OBVIOUS
  <1>3. x = n * (x \div n) + (x % n)  OBVIOUS
  <1> QED BY <1>1, <1>2, <1>3

LEMMA RtpSplit ==
    ASSUME NEW t \in Nat
    PROVE  /\ Rtp(t) \in 0..(RtpSpace - 1) /\ (Start + t) \div RtpSpace \in Int
           /\ Start + t = RtpSpace * ((Start + t) \div RtpSpace) + Rtp(t)
  <1>1. Start + t \in Int  BY SyncNumbers
  <1> QED BY <1>1, SyncNumbers, DivSplit DEF Rtp

(* ngx_rtc_avsync_rtp_delta gives the true distance of two times that are   *)
(* less than half the range of a timestamp apart, across any wraps.         *)
LEMMA DeltaExact ==
    ASSUME NEW a \in Nat, NEW b \in Nat, a - b \in (1 - Half)..(Half - 1)
    PROVE  RtpDelta(Rtp(a), Rtp(b)) = a - b
  <1> DEFINE ra == Rtp(a)
             rb == Rtp(b)
             qa == (Start + a) \div RtpSpace
             qb == (Start + b) \div RtpSpace
  <1>1. /\ ra \in 0..(RtpSpace - 1) /\ qa \in Int /\ Start + a = RtpSpace * qa + ra
        /\ rb \in 0..(RtpSpace - 1) /\ qb \in Int /\ Start + b = RtpSpace * qb + rb
    BY RtpSplit
  <1> HIDE DEF ra, rb, qa, qb
  <1> DEFINE k == qb - qa
             x == ra - rb + RtpSpace
  <1>2. x \in Int /\ k \in Int /\ x = RtpSpace * (k + 1) + (a - b)
    BY <1>1, SyncNumbers
  <1>3. RtpSpace \in Nat \ {0} /\ a - b \in Int /\ k + 1 \in Int /\ Half \in Nat /\ RtpSpace = 2 * Half
    BY <1>1, SyncNumbers
  <1>4. RtpDelta(Rtp(a), Rtp(b)) = IF x % RtpSpace >= Half THEN (x % RtpSpace) - RtpSpace ELSE x % RtpSpace
    BY DEF RtpDelta, ra, rb
  <1> HIDE DEF x, k
  <1>5. CASE a - b >= 0
    <2>1. a - b \in 0..(RtpSpace - 1) /\ a - b < Half  BY <1>3, <1>5
    <2>2. x % RtpSpace = a - b  BY <1>2, <1>3, <2>1, ModUnique
    <2> QED BY <1>3, <1>4, <2>1, <2>2
  <1>6. CASE a - b < 0
    <2> DEFINE c == a - b + RtpSpace
    <2>1. c \in 0..(RtpSpace - 1) /\ c >= Half /\ c - RtpSpace = a - b  BY <1>3, <1>6
    <2>2. RtpSpace * (k + 1) = RtpSpace * k + RtpSpace  BY <1>2, <1>3
    <2>3. RtpSpace * k \in Int  BY <1>2, <1>3
    <2>4. x = RtpSpace * k + c  BY <1>2, <1>3, <2>2, <2>3
    <2> HIDE DEF c
    <2>5. x % RtpSpace = c
      <3>1. /\ RtpSpace \in Nat \ {0} /\ x \in Int /\ k \in Int
            /\ c \in 0..(RtpSpace - 1) /\ x = RtpSpace * k + c
        BY <1>2, <1>3, <2>1, <2>4
      <3> QED BY <3>1, ModUnique
    <2> QED BY <1>3, <1>4, <2>1, <2>5
  <1> QED BY <1>3, <1>5, <1>6

SyncFields == {"has_anchor", "has_slope", "ntp_cur", "rtp_cur", "slope_num", "slope_den"}

(* The slope is the one between the reference and an earlier report.        *)
SlopeFrom(p) ==
    /\ p < anchor /\ sync.slope_den = anchor - p
    /\ sync.slope_num = Ntp(anchor) - Ntp(p)

(* The reference is a point of the sender's line, and so is the report its  *)
(* slope starts from.                                                       *)
OnTheLine ==
    /\ DOMAIN sync = SyncFields
    /\ anchor \in Nat
    /\ sync.has_slope => sync.has_anchor
    /\ sync.has_anchor => sync.ntp_cur = Ntp(anchor) /\ sync.rtp_cur = Rtp(anchor)
    /\ sync.has_slope => \E p \in Nat : SlopeFrom(p)

(* What a report's whole units leave out of the sender's wall clock.        *)
Lost(t) == (RateNum * t) % RateDen

LEMMA NtpSplit ==
    ASSUME NEW t \in Nat
    PROVE  /\ Ntp(t) \in Int /\ Lost(t) \in 0..(RateDen - 1)
           /\ RateNum * t = RateDen * Ntp(t) + Lost(t)
  <1>1. RateNum * t \in Int  BY SyncNumbers
  <1> QED BY <1>1, SyncNumbers, DivSplit DEF Ntp, Lost

LEMMA NtpLater ==
    ASSUME NEW a \in Nat, NEW b \in Nat, a < b PROVE Ntp(a) < Ntp(b)
  <1> DEFINE d == b - a
             f == Ntp(b) - Ntp(a)
  <1>1. /\ Ntp(a) \in Int /\ Lost(a) \in 0..(RateDen - 1) /\ RateNum * a = RateDen * Ntp(a) + Lost(a)
        /\ Ntp(b) \in Int /\ Lost(b) \in 0..(RateDen - 1) /\ RateNum * b = RateDen * Ntp(b) + Lost(b)
    BY NtpSplit
  <1>2. d \in Nat \ {0} /\ RateNum * b = RateNum * a + RateNum * d  BY SyncNumbers
  <1>3. f \in Int /\ RateDen * f = RateDen * Ntp(b) - RateDen * Ntp(a)  BY <1>1, SyncNumbers
  <1> HIDE DEF d
  <1>4. RateNum * d \in Int /\ RateNum * d >= RateNum  BY <1>2, SyncNumbers
  <1>5. RateNum * a \in Int /\ RateDen * Ntp(b) \in Int /\ RateDen * Ntp(a) \in Int
    BY <1>1, SyncNumbers
  <1>6. RateDen * f = RateNum * d + Lost(a) - Lost(b)  BY <1>1, <1>2, <1>3, <1>4, <1>5
  <1>7. RateDen * f > 0  BY <1>1, <1>4, <1>6, SyncNumbers
  <1> HIDE DEF f
  <1>8. f > 0
    <2> SUFFICES ASSUME f <= 0 PROVE FALSE  BY <1>3
    <2>1. RateDen * f <= 0  BY <1>3, SyncNumbers
    <2> QED BY <1>3, <1>7, <2>1, SyncNumbers
  <1> QED BY <1>1, <1>8 DEF f

(* The wall clock orders the reports as the sender's clock does: no two     *)
(* timestamps share a unit of it.                                           *)
LEMMA NtpOrder ==
    ASSUME NEW a \in Nat, NEW b \in Nat
    PROVE  /\ Ntp(a) \in Int /\ Ntp(b) \in Int
           /\ Ntp(a) = Ntp(b) => a = b
           /\ Ntp(a) < Ntp(b) => a < b
  <1>1. Ntp(a) \in Int /\ Ntp(b) \in Int  BY NtpSplit
  <1>2. a < b => Ntp(a) < Ntp(b)  BY NtpLater
  <1>3. b < a => Ntp(b) < Ntp(a)  BY NtpLater
  <1>4. a = b => Ntp(a) = Ntp(b)  OBVIOUS
  <1> QED BY <1>1, <1>2, <1>3, <1>4

(* A report calibrates the slope from the reference, from either side.      *)
LEMMA ReportInv ==
    ASSUME OnTheLine, NEW t \in Nat, OnSr(t) PROVE OnTheLine'
  <1> USE DEF OnTheLine
  <1>1. Ntp(t) \in Int /\ Ntp(anchor) \in Int  BY NtpOrder
  <1>2. CASE ~sync.has_anchor
    <2>1. sync' = [sync EXCEPT !.has_anchor = TRUE, !.ntp_cur = Ntp(t), !.rtp_cur = Rtp(t)]
      BY <1>2 DEF OnSr, AfterReport, FirstReport
    <2>2. anchor' = t  BY <1>2 DEF OnSr
    <2> QED BY <1>2, <2>1, <2>2
  <1>3. CASE sync.has_anchor /\ Ntp(t) = Ntp(anchor)
    <2>1. Ntp(t) = sync.ntp_cur  BY <1>3
    <2>2. sync' = sync  BY <1>1, <1>3, <2>1 DEF OnSr, AfterReport
    <2>3. anchor' = anchor  BY <1>3, <2>2 DEF OnSr
    <2> QED BY <2>2, <2>3 DEF SlopeFrom
  <1>4. CASE sync.has_anchor /\ Ntp(t) < Ntp(anchor)
    <2>1. t < anchor /\ RtpDelta(Rtp(anchor), Rtp(t)) = anchor - t
      BY <1>4, NtpOrder, DeltaExact, SyncNumbers DEF OnSr
    <2>2. sync' = Calibrated(Ntp(t), Ntp(anchor), Rtp(anchor), anchor - t)
      BY <1>1, <1>4, <2>1 DEF OnSr, AfterReport, LateReport
    <2>3. sync'.ntp_cur = sync.ntp_cur  BY <1>4, <2>2 DEF Calibrated
    <2>4. anchor' = anchor  BY <1>4, <2>3 DEF OnSr
    <2>5. sync'.slope_num = Ntp(anchor) - Ntp(t) /\ sync'.slope_den = anchor - t
      BY <2>2 DEF Calibrated
    <2>6. SlopeFrom(t)'  BY <2>1, <2>4, <2>5 DEF SlopeFrom
    <2> QED BY <1>4, <2>2, <2>4, <2>6 DEF Calibrated
  <1>5. CASE sync.has_anchor /\ Ntp(t) > Ntp(anchor)
    <2>1. anchor < t /\ RtpDelta(Rtp(t), Rtp(anchor)) = t - anchor
      BY <1>5, NtpOrder, DeltaExact, SyncNumbers DEF OnSr
    <2>2. sync' = Calibrated(Ntp(anchor), Ntp(t), Rtp(t), t - anchor)
      BY <1>1, <1>5, <2>1 DEF OnSr, AfterReport, ForwardReport
    <2>3. sync'.ntp_cur = Ntp(t) /\ sync'.ntp_cur # sync.ntp_cur
      BY <1>1, <1>5, <2>2 DEF Calibrated
    <2>4. anchor' = t  BY <1>5, <2>3 DEF OnSr
    <2>5. sync'.slope_num = Ntp(t) - Ntp(anchor) /\ sync'.slope_den = t - anchor
      BY <2>2 DEF Calibrated
    <2>6. \E p \in Nat : SlopeFrom(p)'
      <3> PICK q \in Nat : q = anchor  OBVIOUS
      <3>1. SlopeFrom(q)'  BY <2>1, <2>4, <2>5 DEF SlopeFrom
      <3> QED BY <3>1
    <2> QED BY <1>5, <2>2, <2>4, <2>6 DEF Calibrated
  <1> QED BY <1>1, <1>2, <1>3, <1>4, <1>5

(* A number of at most b, taken k times.                                    *)
LEMMA TimesBound ==
    ASSUME NEW k \in Nat, NEW b \in Nat, NEW u \in Int, -b <= u, u <= b
    PROVE  k * u \in Int /\ k * b \in Nat /\ -(k * b) <= k * u /\ k * u <= k * b
  <1>1. k * u \in Int /\ k * b \in Nat  OBVIOUS
  <1>2. k * (b - u) >= 0 /\ k * (b + u) >= 0  OBVIOUS
  <1>3. k * (b - u) = k * b - k * u /\ k * (b + u) = k * b + k * u  OBVIOUS
  <1> QED BY <1>1, <1>2, <1>3

(* The three roundings of a mapped timestamp: of the packet and the         *)
(* reference (u), of the slope's ends over the distance e (w), and of the   *)
(* division by the slope's D (rem), in units of 1/m of the wall clock's.    *)
LEMMA Roundings ==
    ASSUME NEW m \in Nat \ {0}, NEW D \in Nat \ {0}, NEW e \in Nat, NEW x \in Int,
           NEW u \in Int, NEW w \in Int, NEW rem \in 0..(D - 1),
           1 - m <= u, u <= m - 1, 1 - m <= w, w <= m - 1,
           m * (D * x) = D * u + e * w - m * rem
    PROVE  D * x < e + 2 * D /\ -(D * x) < e + 2 * D
  <1> DEFINE b == m - 1
             y == D * x
  <1>1. b \in Nat /\ -b <= u /\ u <= b /\ -b <= w /\ w <= b /\ y \in Int  OBVIOUS
  <1>2. D * u \in Int /\ D * b \in Nat /\ -(D * b) <= D * u /\ D * u <= D * b
    BY <1>1, TimesBound
  <1>3. e * w \in Int /\ e * b \in Nat /\ -(e * b) <= e * w /\ e * w <= e * b
    BY <1>1, TimesBound
  <1>4. m * rem \in Nat /\ m * rem <= m * D - m
    <2>1. m * (D - 1 - rem) >= 0  OBVIOUS
    <2>2. m * (D - 1 - rem) = m * D - m - m * rem  OBVIOUS
    <2> QED BY <2>1, <2>2
  <1>5. D * b = m * D - D /\ e * b = m * e - e /\ m * D \in Nat /\ m * e \in Nat  OBVIOUS
  <1>6. m * y = D * u + e * w - m * rem  OBVIOUS
  <1> HIDE DEF b, y
  <1>7. m * y \in Int /\ m * y < m * e + 2 * (m * D) /\ -(m * y) < m * e + 2 * (m * D)
    BY <1>1, <1>2, <1>3, <1>4, <1>5, <1>6
  <1> DEFINE c == e + 2 * D
  <1>8. c \in Nat /\ m * c = m * e + 2 * (m * D)  OBVIOUS
  <1> HIDE DEF c
  <1>9. ~(y >= c)
    <2> SUFFICES ASSUME y >= c PROVE FALSE  OBVIOUS
    <2>1. m * (y - c) >= 0 /\ m * (y - c) = m * y - m * c  BY <1>1, <1>8
    <2> QED BY <1>7, <1>8, <2>1
  <1>10. ~(-y >= c)
    <2> SUFFICES ASSUME -y >= c PROVE FALSE  OBVIOUS
    <2>1. m * (-y - c) >= 0 /\ m * (-y - c) = -(m * y) - m * c  BY <1>1, <1>8
    <2> QED BY <1>7, <1>8, <2>1
  <1> QED BY <1>1, <1>8, <1>9, <1>10 DEF c, y

(* What the code's division leaves of e timestamp units at the slope        *)
(* between two reports, beside the sender's rate.                           *)
LEMMA SlopeRounds ==
    ASSUME NEW p \in Nat, NEW c \in Nat, p < c, NEW e \in Nat
    PROVE  LET D == c - p
               N == Ntp(c) - Ntp(p)
               Q == (e * N) \div D
               rem == (e * N) % D
           IN  /\ Q \in Int /\ rem \in 0..(D - 1)
               /\ RateDen * (D * Q) = D * (RateNum * e) + e * (Lost(p) - Lost(c)) - RateDen * rem
  <1> DEFINE D == c - p
             N == Ntp(c) - Ntp(p)
             x == e * N
             Q == x \div D
             rem == x % D
             w == Lost(p) - Lost(c)
  <1>1. /\ Ntp(p) \in Int /\ Lost(p) \in 0..(RateDen - 1) /\ RateNum * p = RateDen * Ntp(p) + Lost(p)
        /\ Ntp(c) \in Int /\ Lost(c) \in 0..(RateDen - 1) /\ RateNum * c = RateDen * Ntp(c) + Lost(c)
    BY NtpSplit
  <1>2. D \in Nat \ {0} /\ N \in Int /\ w \in Int  BY <1>1, SyncNumbers
  <1>3. x \in Int  BY <1>2
  <1>4. RateDen * N = RateNum * D + w
    <2>1. RateDen * N = RateDen * Ntp(c) - RateDen * Ntp(p)  BY <1>1, SyncNumbers
    <2>2. RateNum * D = RateNum * c - RateNum * p  BY SyncNumbers
    <2> QED BY <1>1, <2>1, <2>2, SyncNumbers
  <1>5. Q \in Int /\ rem \in 0..(D - 1) /\ x = D * Q + rem
    <2> HIDE DEF x, D
    <2> QED BY <1>2, <1>3, DivSplit
  <1>6. RateDen * x = D * (RateNum * e) + e * w
    <2> HIDE DEF N, D, w
    <2>1. RateDen * x = e * (RateDen * N)  BY <1>2, SyncNumbers
    <2>2. e * (RateNum * D + w) = D * (RateNum * e) + e * w  BY <1>2, SyncNumbers
    <2> QED BY <1>4, <2>1, <2>2
  <1>7. RateDen * (D * Q) = RateDen * x - RateDen * rem
    <2> HIDE DEF Q, rem, x, D
    <2>1. D * Q \in Int /\ rem \in Int /\ D * Q = x - rem  BY <1>2, <1>3, <1>5
    <2> QED BY <1>3, <2>1, SyncNumbers
  <1>8. RateDen * (D * Q) = D * (RateNum * e) + e * w - RateDen * rem
    <2> HIDE DEF Q, rem, x, D, w
    <2>1. x \in Int /\ rem \in Int /\ e * w \in Int /\ D \in Int  BY <1>2, <1>3, <1>5
    <2> QED BY <1>6, <1>7, <2>1, SyncNumbers
  <1>9. Q \in Int /\ rem \in 0..(D - 1)  BY <1>5
  <1> QED BY <1>8, <1>9, Zenon

(* The map is off by what the roundings leave.                              *)
LEMMA LineMaps == ASSUME OnTheLine PROVE MapClose
  <1> SUFFICES ASSUME sync.has_slope, NEW t \in 0..MaxTime,
                      t - anchor \in (1 - Half)..(Half - 1)
               PROVE  Distance(MapRtpToWall(Rtp(t)), Ntp(t)) * sync.slope_den
                          < Distance(t, anchor) + 2 * sync.slope_den
    BY DEF MapClose
  <1>1. t \in Nat /\ anchor \in Nat /\ sync.has_anchor /\ sync.ntp_cur = Ntp(anchor)
        /\ RtpDelta(Rtp(t), sync.rtp_cur) = t - anchor
    <2>1. t \in Nat /\ anchor \in Nat  BY SyncNumbers DEF OnTheLine
    <2>2. RtpDelta(Rtp(t), Rtp(anchor)) = t - anchor  BY <2>1, DeltaExact
    <2> QED BY <2>1, <2>2 DEF OnTheLine
  <1>2. PICK p \in Nat : SlopeFrom(p)  BY DEF OnTheLine
  <1> DEFINE m == RateDen
             D == anchor - p
             N == Ntp(anchor) - Ntp(p)
             F == Ntp(t) - Ntp(anchor)
             u == Lost(t) - Lost(anchor)
             w == Lost(p) - Lost(anchor)
             W == MapRtpToWall(Rtp(t))
  <1>3. p < anchor /\ D \in Nat \ {0} /\ sync.slope_den = D /\ sync.slope_num = N
    BY <1>1, <1>2 DEF SlopeFrom
  <1>4. /\ Ntp(p) \in Int /\ Lost(p) \in 0..(RateDen - 1)
        /\ Ntp(t) \in Int /\ Lost(t) \in 0..(RateDen - 1)
        /\ RateNum * t = RateDen * Ntp(t) + Lost(t)
        /\ Ntp(anchor) \in Int /\ Lost(anchor) \in 0..(RateDen - 1)
        /\ RateNum * anchor = RateDen * Ntp(anchor) + Lost(anchor)
    BY <1>1, NtpSplit
  <1>5. /\ m \in Nat \ {0} /\ F \in Int /\ u \in Int /\ w \in Int
        /\ 1 - m <= u /\ u <= m - 1 /\ 1 - m <= w /\ w <= m - 1
    BY <1>4, SyncNumbers
  <1>6. RateNum * (t - anchor) = m * F + u
    <2>1. m * F = RateDen * Ntp(t) - RateDen * Ntp(anchor)  BY <1>4, SyncNumbers
    <2>2. RateNum * (t - anchor) = RateNum * t - RateNum * anchor  BY <1>1, SyncNumbers
    <2> QED BY <1>4, <2>1, <2>2, SyncNumbers
  <1>7. CASE t >= anchor
    <2> DEFINE e == t - anchor
               Q == (e * N) \div D
               rem == (e * N) % D
               x == Q - F
    <2>1. e \in Nat /\ Distance(t, anchor) = e  BY <1>1, <1>7 DEF Distance
    <2>2. W = Ntp(anchor) + Q  BY <1>1, <1>3, <2>1 DEF MapRtpToWall
    <2>3. /\ Q \in Int /\ rem \in 0..(D - 1)
          /\ m * (D * Q) = D * (RateNum * e) + e * w - m * rem
      BY <1>1, <1>3, <2>1, SlopeRounds
    <2>4. RateNum * e = m * F + u  BY <1>6
    <2> HIDE DEF e, Q, rem, N, D, F, u, w, m
    <2>5. m * (D * x) = D * u + e * w - m * rem
      <3>1. m * (D * x) = m * (D * Q) - D * (m * F)  BY <1>3, <1>5, <2>3
      <3>2. D * (m * F + u) = D * (m * F) + D * u  BY <1>3, <1>5
      <3>3. /\ D * (m * F) \in Int /\ D * u \in Int /\ e * w \in Int /\ m * rem \in Int
        BY <1>3, <1>5, <2>1, <2>3
      <3> QED BY <2>3, <2>4, <3>1, <3>2, <3>3
    <2>6. x \in Int  BY <1>5, <2>3
    <2> HIDE DEF x
    <2>7. D * x < e + 2 * D /\ -(D * x) < e + 2 * D
      BY <1>3, <1>5, <2>1, <2>3, <2>5, <2>6, Roundings
    <2>8. W - Ntp(t) = x /\ W \in Int
      BY <1>4, <2>2, <2>3 DEF x, F
    <2>9. Distance(W, Ntp(t)) * D = D * x \/ Distance(W, Ntp(t)) * D = -(D * x)
      <3>1. Distance(W, Ntp(t)) = x \/ Distance(W, Ntp(t)) = -x  BY <1>4, <2>8 DEF Distance
      <3>2. x * D = D * x /\ (-x) * D = -(D * x)  BY <1>3, <2>6
      <3> QED BY <3>1, <3>2
    <2> QED BY <1>3, <2>1, <2>7, <2>9
  <1>8. CASE t < anchor
    <2> DEFINE e == anchor - t
               Q == (e * N) \div D
               rem == (e * N) % D
               x == Q + F
    <2>1. e \in Nat /\ e > 0 /\ Distance(t, anchor) = e /\ -(t - anchor) = e
      BY <1>1, <1>8 DEF Distance
    <2>2. W = Ntp(anchor) - Q  BY <1>1, <1>3, <1>8, <2>1 DEF MapRtpToWall
    <2>3. /\ Q \in Int /\ rem \in 0..(D - 1)
          /\ m * (D * Q) = D * (RateNum * e) + e * w - m * rem
      BY <1>1, <1>3, <2>1, SlopeRounds
    <2>4. RateNum * e = -(m * F) - u
      <3>1. RateNum * e = -(RateNum * (t - anchor))  BY <1>1, SyncNumbers
      <3>2. m * F \in Int  BY <1>5
      <3> QED BY <1>5, <1>6, <3>1, <3>2
    <2> DEFINE z == -u
    <2> HIDE DEF e, Q, rem, N, D, F, u, w, m
    <2>5. m * (D * x) = D * z + e * w - m * rem
      <3>1. m * (D * x) = m * (D * Q) + D * (m * F)  BY <1>3, <1>5, <2>3
      <3>2. D * (-(m * F) - u) = -(D * (m * F)) + D * z  BY <1>3, <1>5
      <3>3. /\ D * (m * F) \in Int /\ D * z \in Int /\ e * w \in Int /\ m * rem \in Int
        BY <1>3, <1>5, <2>1, <2>3
      <3> HIDE DEF z, x
      <3> QED BY <2>3, <2>4, <3>1, <3>2, <3>3
    <2>6. x \in Int /\ z \in Int /\ 1 - m <= z /\ z <= m - 1  BY <1>5, <2>3
    <2> HIDE DEF x, z
    <2>7. D * x < e + 2 * D /\ -(D * x) < e + 2 * D
      BY <1>3, <1>5, <2>1, <2>3, <2>5, <2>6, Roundings
    <2>8. W - Ntp(t) = -x /\ W \in Int
      BY <1>4, <2>2, <2>3 DEF x, F
    <2>9. Distance(W, Ntp(t)) * D = D * x \/ Distance(W, Ntp(t)) * D = -(D * x)
      <3>1. Distance(W, Ntp(t)) = x \/ Distance(W, Ntp(t)) = -x  BY <1>4, <2>6, <2>8 DEF Distance
      <3>2. x * D = D * x /\ (-x) * D = -(D * x)  BY <1>3, <2>6
      <3> QED BY <3>1, <3>2
    <2> QED BY <1>3, <2>1, <2>7, <2>9
  <1> QED BY <1>1, <1>7, <1>8

(* ngx_rtc_avsync_map_rtp_to_wall: once two reports came, in whatever       *)
(* order, repeated or across a wrap, a packet less than half the range from *)
(* the reference is placed within the roundings of its time, whatever the   *)
(* sender's rate is: one unit for every length of the slope between, and    *)
(* two.                                                                     *)
THEOREM ClockMapClose == SyncSpec => []MapClose
  <1>1. SyncInit => OnTheLine
    <2> SUFFICES ASSUME SyncInit PROVE OnTheLine  OBVIOUS
    <2>1. anchor = 0 /\ ~sync.has_anchor /\ ~sync.has_slope  BY DEF SyncInit
    <2>2. DOMAIN sync = SyncFields  BY DEF SyncInit, SyncFields
    <2> QED BY <2>1, <2>2 DEF OnTheLine
  <1>2. OnTheLine /\ [SyncNext]_syncVars => OnTheLine'
    <2>1. OnTheLine /\ UNCHANGED syncVars => OnTheLine'  BY DEF syncVars, OnTheLine, SlopeFrom
    <2>2. ASSUME OnTheLine, SyncNext PROVE OnTheLine'
      <3> PICK t \in 0..MaxTime : OnSr(t)  BY <2>2 DEF SyncNext
      <3> QED BY <2>2, ReportInv, SyncNumbers
    <2> QED BY <2>1, <2>2
  <1> QED BY <1>1, <1>2, LineMaps, PTL DEF SyncSpec
-----------------------------------------------------------------------------
(* The retransmissions of a window *)

(* The dedup set is exactly what was sent this window, each packet once,    *)
(* and every entry cost an attempt.                                         *)
NackHeld ==
    /\ nack_retransmitted \in 0..Budget
    /\ nack_seen \subseteq Wanted /\ IsFiniteSet(nack_seen)
    /\ Cardinality(nack_seen) <= nack_retransmitted
    /\ sent = [n \in Wanted |-> IF n \in nack_seen THEN 1 ELSE 0]

(* A NACK gets no more attempts than the budget has left.                   *)
LEMMA AttemptsFit ==
    ASSUME NEW nack \in Nacks, NEW spent \in 0..Budget
    PROVE  /\ Attempted(nack, spent) \in Seq(Wanted)
           /\ spent + Len(Attempted(nack, spent)) <= Budget
  <1> DEFINE k == Least(Len(nack), Budget - spent)
  <1>1. nack \in Seq(Wanted) /\ Budget \in Nat  BY NackConstants
  <1>2. Len(nack) \in Nat  BY <1>1
  <1>3. k \in 0..Len(nack) /\ k <= Budget - spent  BY <1>1, <1>2 DEF Least
  <1> HIDE DEF k
  <1>4. \A i \in 1..k : i \in 1..Len(nack)  BY <1>2, <1>3
  <1>5. SubSeq(nack, 1, k) \in Seq(Wanted) /\ Len(SubSeq(nack, 1, k)) = k
    BY <1>1, <1>2, <1>3, <1>4
  <1> QED BY <1>1, <1>3, <1>5 DEF Attempted, k

(* What a NACK records is new, was attempted, and no larger than the        *)
(* attempts it spent.                                                       *)
LEMMA RecordedFits ==
    ASSUME NEW attempts \in Seq(Wanted), NEW seen, NEW deliverable
    PROVE  LET recorded == Recorded(attempts, Answered(attempts, seen, deliverable))
           IN  /\ recorded \subseteq Wanted /\ recorded \cap seen = {}
               /\ IsFiniteSet(recorded) /\ Cardinality(recorded) <= Len(attempts)
  <1> DEFINE answered == Answered(attempts, seen, deliverable)
             recorded == Recorded(attempts, answered)
             D == 1..Len(attempts)
  <1>1. Len(attempts) \in Nat /\ DOMAIN attempts = D  OBVIOUS
  <1>2. answered \subseteq D /\ \A i \in answered : attempts[i] \notin seen
    BY <1>1 DEF Answered
  <1>3. IsFiniteSet(D) /\ Cardinality(D) = Len(attempts)  BY <1>1, FS_Interval
  <1>4. IsFiniteSet(answered) /\ Cardinality(answered) <= Len(attempts)
    BY <1>2, <1>3, FS_Subset
  <1>5. recorded = {attempts[i] : i \in answered}  BY DEF Recorded
  <1> HIDE DEF answered, recorded
  <1>6. IsFiniteSet(recorded) /\ Cardinality(recorded) <= Cardinality(answered)
    <2> DEFINE f == [i \in answered |-> attempts[i]]
    <2>1. f \in Surjection(answered, recorded)  BY <1>5 DEF Surjection
    <2> QED BY <1>4, <2>1, FS_Surjection
  <1>7. Cardinality(answered) \in Nat /\ Cardinality(recorded) \in Nat
    BY <1>4, <1>6, FS_CardinalityType
  <1>8. Cardinality(recorded) <= Len(attempts)  BY <1>1, <1>4, <1>6, <1>7
  <1>9. recorded \subseteq Wanted /\ recorded \cap seen = {}
    <2>1. \A i \in D : attempts[i] \in Wanted  BY <1>1
    <2>2. \A i \in answered : attempts[i] \in Wanted /\ attempts[i] \notin seen  BY <1>2, <2>1
    <2> QED BY <1>5, <2>2
  <1> QED BY <1>6, <1>8, <1>9 DEF recorded, answered

(* Within one NACK, repeated numbers included, a packet goes out once.      *)
LEMMA AnsweredOnce ==
    ASSUME NEW attempts \in Seq(Wanted), NEW seen, NEW deliverable, NEW n
    PROVE  LET answered == Answered(attempts, seen, deliverable)
           IN  Cardinality({i \in answered : attempts[i] = n})
                   = IF n \in Recorded(attempts, answered) THEN 1 ELSE 0
  <1> DEFINE answered == Answered(attempts, seen, deliverable)
             same == {i \in answered : attempts[i] = n}
  <1>1. answered \subseteq Nat /\ \A i \in answered, j \in answered :
                                    attempts[i] = attempts[j] => ~(i < j)
    BY DEF Answered
  <1>2. Recorded(attempts, answered) = {attempts[i] : i \in answered}  BY DEF Recorded
  <1> HIDE DEF answered
  <1>3. CASE n \in Recorded(attempts, answered)
    <2>1. PICK i \in answered : attempts[i] = n  BY <1>2, <1>3
    <2>2. \A j \in same : j = i
      <3> SUFFICES ASSUME NEW j \in same PROVE j = i  OBVIOUS
      <3>1. j \in answered /\ j \in Nat /\ i \in Nat /\ attempts[j] = attempts[i]  BY <1>1, <2>1
      <3> QED BY <1>1, <2>1, <3>1
    <2>3. same = {i}  BY <2>1, <2>2
    <2> QED BY <1>3, <2>3, FS_Singleton DEF answered
  <1>4. CASE n \notin Recorded(attempts, answered)
    <2>1. same = {}  BY <1>2, <1>4
    <2> QED BY <1>4, <2>1, FS_EmptySet DEF answered
  <1> QED BY <1>3, <1>4

LEMMA NackInv ==
    ASSUME NackHeld, NEW nack \in Nacks, NEW deliverable \in SUBSET Wanted, NEW gap \in Gaps,
           Nack(nack, deliverable, gap)
    PROVE  NackHeld'
  <1> DEFINE roll     == Rolls(Least(age + gap, AgeCap))
             spent    == IF roll THEN 0 ELSE nack_retransmitted
             seen     == IF roll THEN {} ELSE nack_seen
             attempts == Attempted(nack, spent)
             recorded == Recorded(attempts, Answered(attempts, seen, deliverable))
             times(n) == Cardinality({i \in Answered(attempts, seen, deliverable) :
                                          attempts[i] = n})
  <1>1. spent \in 0..Budget /\ Budget \in Nat  BY NackConstants DEF NackHeld
  <1>2. seen \subseteq Wanted /\ IsFiniteSet(seen) /\ Cardinality(seen) <= spent
    <2>1. CASE roll  BY <2>1, FS_EmptySet
    <2>2. CASE ~roll  BY <2>2 DEF NackHeld
    <2> QED BY <2>1, <2>2
  <1>3. /\ nack_retransmitted' = spent + Len(attempts)
        /\ nack_seen' = seen \cup recorded
        /\ sent' = [n \in Wanted |-> (IF roll THEN 0 ELSE sent[n]) + times(n)]
    BY DEF Nack
  <1>4. \A n \in Wanted : (IF roll THEN 0 ELSE sent[n]) = IF n \in seen THEN 1 ELSE 0
    BY DEF NackHeld
  <1> HIDE DEF roll, spent, seen
  <1>5. attempts \in Seq(Wanted) /\ spent + Len(attempts) <= Budget  BY <1>1, AttemptsFit
  <1>6. \A n \in Wanted : times(n) = IF n \in recorded THEN 1 ELSE 0  BY <1>5, AnsweredOnce
  <1>7. /\ recorded \subseteq Wanted /\ recorded \cap seen = {}
        /\ IsFiniteSet(recorded) /\ Cardinality(recorded) <= Len(attempts)
    BY <1>5, RecordedFits
  <1> HIDE DEF attempts, recorded, times
  <1>8. /\ Len(attempts) \in Nat
        /\ Cardinality(seen) \in Nat /\ Cardinality(recorded) \in Nat
    BY <1>2, <1>5, <1>7, FS_CardinalityType
  <1>9. /\ IsFiniteSet(seen \cup recorded)
        /\ Cardinality(seen \cup recorded) <= spent + Len(attempts)
    <2>1. /\ IsFiniteSet(seen \cup recorded)
          /\ Cardinality(seen \cup recorded)
                 = Cardinality(seen) + Cardinality(recorded) - Cardinality(seen \cap recorded)
      BY <1>2, <1>7, FS_Union
    <2>2. seen \cap recorded = {}  BY <1>7
    <2>3. Cardinality(seen \cap recorded) = 0  BY <2>2, FS_EmptySet
    <2>4. Cardinality(seen \cup recorded) = Cardinality(seen) + Cardinality(recorded)
      BY <1>8, <2>1, <2>3
    <2> QED BY <1>1, <1>2, <1>7, <1>8, <2>1, <2>4
  <1>10. sent' = [n \in Wanted |-> IF n \in seen \cup recorded THEN 1 ELSE 0]
    <2>1. \A n \in Wanted : (IF roll THEN 0 ELSE sent[n]) + times(n)
                                = IF n \in seen \cup recorded THEN 1 ELSE 0
      BY <1>4, <1>6, <1>7
    <2> QED BY <1>3, <2>1
  <1> QED BY <1>1, <1>2, <1>3, <1>5, <1>7, <1>8, <1>9, <1>10 DEF NackHeld

(* ngx_rtc_session_retransmit_send: however often a viewer repeats itself,  *)
(* inside one NACK or over several, a packet is resent at most once per     *)
(* window and a window never exceeds its budget; a packet whose resend was  *)
(* refused can be asked for again.                                          *)
THEOREM AnsweredOncePerWindow == NackSpec => []ResentOnce
  <1>1. NackInit => NackHeld
    BY NackConstants, FS_EmptySet DEF NackInit, NackHeld
  <1>2. NackHeld /\ [NackNext]_nackVars => NackHeld'
    <2>1. NackHeld /\ UNCHANGED nackVars => NackHeld'  BY DEF nackVars, NackHeld
    <2> QED BY <2>1, NackInv DEF NackNext
  <1>3. NackHeld => ResentOnce
    <2> SUFFICES ASSUME NackHeld PROVE ResentOnce  OBVIOUS
    <2>1. {n \in Wanted : sent[n] > 0} = nack_seen  BY DEF NackHeld
    <2>2. Cardinality(nack_seen) \in Nat  BY FS_CardinalityType DEF NackHeld
    <2>3. Cardinality(nack_seen) <= Budget  BY <2>2, NackConstants DEF NackHeld
    <2>4. \A n \in Wanted : sent[n] <= 1  BY DEF NackHeld
    <2>5. RefusedStaysWanted  BY DEF NackHeld, RefusedStaysWanted
    <2> QED BY <2>1, <2>3, <2>4, <2>5 DEF ResentOnce, OncePerWindow
  <1> QED BY <1>1, <1>2, <1>3, PTL DEF NackSpec

-----------------------------------------------------------------------------
(* The statistics page *)

(* What must still be written fits, wherever the walk of the lists is.      *)
TailFits ==
    /\ phase = "begin" => at = 0
    /\ phase = "sources" => \A c \in Totals : at + c <= Cap
    /\ phase = "sessions" => \A t \in Tails, c \in Totals : at + t + c <= Cap

(* The inductive invariant: DocumentWhole alone is not inductive, because   *)
(* it says nothing of the room that is left.                                *)
PageInv == PageTypeOK /\ DocumentWhole /\ TailFits

(* A write that fits, ngx_slprintf's ordinary case, loses nothing.          *)
LEMMA FittingWrite ==
    ASSUME Cap \in Nat, at \in Nat, NEW n \in Nat, at + n <= Cap, Slprintf(n)
    PROVE  at' = at + n /\ lost' = lost /\ at' \in 0..Cap
  BY DEF Slprintf

(* The invariant holds before the first page. *)
LEMMA PageInitInv ==
    ASSUME PageInit PROVE PageInv
  BY PageConstants DEF PageInit, PageInv, PageTypeOK, DocumentWhole, TailFits

(* Every write of the walk, and every stutter, keeps it.                    *)
LEMMA PageNextInv ==
    ASSUME PageInv, [PageNext]_pageVars PROVE PageInv'
  <1>0. /\ Cap \in Nat /\ Reserve \in Nat /\ Opening \in Nat /\ Reserve < Cap
        /\ at \in Nat /\ at <= Cap /\ lost = 0
    BY PageConstants DEF PageInv, PageTypeOK, DocumentWhole
  <1>1. CASE Begin
    <2>1. PICK c \in Totals : Opening + c <= Cap  BY PageConstants
    <2>2. c \in Nat /\ at = 0  BY <1>1, PageConstants DEF PageInv, TailFits, Begin
    <2>3. Slprintf(Opening) /\ phase' = "sources"  BY <1>1 DEF Begin
    <2>4. at + Opening <= Cap  BY <1>0, <2>1, <2>2
    <2>5. at' = Opening /\ lost' = 0 /\ at' \in 0..Cap
      BY <1>0, <2>2, <2>3, <2>4, FittingWrite
    <2> QED BY <2>3, <2>5, PageConstants DEF PageInv, PageTypeOK, DocumentWhole, TailFits
  <1>2. CASE Again
    BY <1>0, <1>2 DEF Again, PageInv, PageTypeOK, DocumentWhole, TailFits
  <1>3. ASSUME NEW n \in Heads \cup Rows, Room(at), Slprintf(n), phase' = "sessions"
        PROVE  PageInv'
    <2>1. n \in Nat  BY PageConstants
    <2>2. \A t \in Tails, c \in Totals : t \in Nat /\ c \in Nat /\ n + t + c <= Reserve
      BY PageConstants
    <2>3. PICK t \in Tails, c \in Totals : t \in Nat /\ c \in Nat /\ n + t + c <= Reserve
      BY <2>2, PageConstants
    <2>4. at < Cap - Reserve  BY <1>3 DEF Room
    <2>5. at + n <= Cap  BY <1>0, <2>1, <2>3, <2>4
    <2>6. at' = at + n /\ lost' = 0 /\ at' \in 0..Cap  BY <1>0, <1>3, <2>1, <2>5, FittingWrite
    <2>7. \A x \in Tails, y \in Totals : at' + x + y <= Cap
      BY <1>0, <2>1, <2>2, <2>4, <2>6
    <2> QED BY <1>3, <2>6, <2>7 DEF PageInv, PageTypeOK, DocumentWhole, TailFits
  <1>4. ASSUME NEW n \in Tails, Rest(n) PROVE PageInv'
    <2>1. Slprintf(n) /\ phase' = "sources" /\ n \in Nat
      BY <1>4, PageConstants DEF Rest
    <2>2. \A c \in Totals : c \in Nat /\ at + n + c <= Cap
      BY <1>4, PageConstants DEF Rest, PageInv, TailFits
    <2>3. PICK c \in Totals : c \in Nat /\ at + n + c <= Cap
      BY <2>2, PageConstants
    <2>4. at + n <= Cap  BY <1>0, <2>1, <2>3
    <2>5. at' = at + n /\ lost' = 0 /\ at' \in 0..Cap  BY <1>0, <2>1, <2>4, FittingWrite
    <2> QED BY <2>1, <2>2, <2>5 DEF PageInv, PageTypeOK, DocumentWhole, TailFits
  <1>5. ASSUME NEW n \in Totals, Finish(n) PROVE PageInv'
    <2>1. Slprintf(n) /\ phase' = "end" /\ n \in Nat /\ at + n <= Cap
      BY <1>5, PageConstants DEF Finish, PageInv, TailFits
    <2>2. at' = at + n /\ lost' = 0 /\ at' \in 0..Cap  BY <1>0, <2>1, FittingWrite
    <2> QED BY <2>1, <2>2 DEF PageInv, PageTypeOK, DocumentWhole, TailFits
  <1>6. CASE UNCHANGED pageVars
    BY <1>6 DEF pageVars, PageInv, PageTypeOK, DocumentWhole, TailFits
  <1> QED BY <1>1, <1>2, <1>3, <1>4, <1>5, <1>6 DEF PageNext, Source, Row

(* However many sources and sessions the registry holds, the statistics     *)
(* document ngx_rtc_http_render_stats writes is whole.                      *)
THEOREM PageNeverCut == PageSpec => []DocumentWhole
  <1>1. PageInit => PageInv  BY PageInitInv
  <1>2. PageInv /\ [PageNext]_pageVars => PageInv'  BY PageNextInv
  <1>3. PageInv => DocumentWhole  BY DEF PageInv
  <1> QED BY <1>1, <1>2, <1>3, PTL DEF PageSpec

-----------------------------------------------------------------------------
(* Sums and recursions *)

(* The smallest of a set of naturals. *)
LEMMA SmallestExists ==
    ASSUME NEW S \in SUBSET Nat, S # {} PROVE \E x \in S : \A y \in S : x <= y
  <1>1. \E x \in S : \A y \in S : ~(<<y, x>> \in OpToRel(<, Nat))
    BY WFMin, NatLessThanWellFounded
  <1>2. ASSUME NEW x \in Nat, NEW y \in Nat, y < x PROVE <<y, x>> \in OpToRel(<, Nat)
    BY <1>2, Zenon DEF OpToRel
  <1>3. \E x \in S : \A y \in S : ~(y < x)  BY <1>1, <1>2
  <1> QED BY <1>3

(* A recursion whose calls go to smaller numbers has a solution: where it   *)
(* stops it is a, elsewhere a step from the value at a smaller number.      *)
Descends(N, X, a, Stop, prev, step) ==
    /\ N \in Nat /\ a \in X
    /\ \A i \in (0..N) \ Stop : prev[i] \in 0..(i - 1) /\ step[i] \in [X -> X]

Solvable(N, X, a, Stop, prev, step) ==
    \E f \in [0..N -> X] : f = [i \in 0..N |-> IF i \in Stop THEN a ELSE step[i][f[prev[i]]]]

SolvedUpTo(N, X, a, Stop, prev, step, n) ==
    \E f \in [0..N -> X] : \A i \in 0..n : i <= N => f[i] = IF i \in Stop THEN a ELSE step[i][f[prev[i]]]

LEMMA SolvedNext ==
    ASSUME NEW N, NEW X, NEW a, NEW Stop, NEW prev, NEW step, Descends(N, X, a, Stop, prev, step),
           NEW n \in Nat, SolvedUpTo(N, X, a, Stop, prev, step, n - 1)
    PROVE  SolvedUpTo(N, X, a, Stop, prev, step, n)
  <1> USE DEF Descends
  <1>1. PICK f \in [0..N -> X] : \A i \in 0..(n - 1) : i <= N =>
           f[i] = IF i \in Stop THEN a ELSE step[i][f[prev[i]]]
    BY DEF SolvedUpTo
  <1> DEFINE Value(i) == IF i \in Stop THEN a ELSE step[i][f[prev[i]]]
             g == [i \in 0..N |-> Value(i)]
  <1>2. ASSUME NEW i \in 0..N PROVE Value(i) \in X
    <2>1. CASE i \in Stop  BY <2>1
    <2>2. CASE i \notin Stop
      <3>1. prev[i] \in 0..N /\ step[i] \in [X -> X]  BY <2>2
      <3> QED BY <1>1, <2>2, <3>1
    <2> QED BY <2>1, <2>2
  <1>3. g \in [0..N -> X]  BY <1>2
  <1>4. ASSUME NEW i \in 0..(n - 1), i <= N PROVE g[i] = f[i]  BY <1>1, <1>4
  <1>5. ASSUME NEW i \in 0..n, i <= N PROVE g[i] = IF i \in Stop THEN a ELSE step[i][g[prev[i]]]
    <2>1. g[i] = Value(i)  BY <1>5
    <2>2. CASE i \in Stop  BY <2>1, <2>2
    <2>3. CASE i \notin Stop
      <3>1. prev[i] \in 0..(n - 1) /\ prev[i] <= N  BY <1>5, <2>3
      <3>2. g[prev[i]] = f[prev[i]]  BY <1>4, <3>1
      <3> QED BY <2>1, <2>3, <3>2
    <2> QED BY <2>2, <2>3
  <1> HIDE DEF g
  <1> QED BY <1>3, <1>5 DEF SolvedUpTo

LEMMA Recursion ==
    ASSUME NEW N, NEW X, NEW a, NEW Stop, NEW prev, NEW step, Descends(N, X, a, Stop, prev, step)
    PROVE  Solvable(N, X, a, Stop, prev, step)
  <1> USE DEF Descends
  <1> DEFINE Bad == {n \in Nat : ~SolvedUpTo(N, X, a, Stop, prev, step, n)}
  <1>1. Bad = {}
    <2> SUFFICES ASSUME Bad # {} PROVE FALSE  OBVIOUS
    <2>1. PICK n \in Bad : \A m \in Bad : n <= m  BY SmallestExists
    <2>2. SolvedUpTo(N, X, a, Stop, prev, step, n - 1)
      <3>1. CASE n = 0
        <4>1. [i \in 0..N |-> a] \in [0..N -> X]  OBVIOUS
        <4>2. 0..(n - 1) = {}  BY <3>1
        <4> QED BY <4>1, <4>2 DEF SolvedUpTo
      <3>2. CASE n # 0
        <4>1. n - 1 \in Nat /\ n - 1 \notin Bad  BY <2>1, <3>2
        <4> QED BY <4>1
      <3> QED BY <3>1, <3>2
    <2> QED BY <2>1, <2>2, SolvedNext
  <1>2. SolvedUpTo(N, X, a, Stop, prev, step, N)  BY <1>1
  <1>3. PICK f \in [0..N -> X] : \A i \in 0..N : i <= N =>
           f[i] = IF i \in Stop THEN a ELSE step[i][f[prev[i]]]
    BY <1>2 DEF SolvedUpTo
  <1>4. f = [i \in 0..N |-> IF i \in Stop THEN a ELSE step[i][f[prev[i]]]]  BY <1>3
  <1> QED BY <1>4 DEF Solvable

(* The sum of the weights w over a set.  Which member is taken next is      *)
(* CHOOSE's business.                                                       *)
Pick(g) == CHOOSE v \in g : TRUE

Sums(total, w, S) ==
    total = [g \in SUBSET S |->
               IF g = {} THEN 0 ELSE LET v == CHOOSE x \in g : TRUE IN w[v] + total[g \ {v}]]

Total(w, S) == (CHOOSE total : Sums(total, w, S))[S]

Weighed(w, S) == IsFiniteSet(S) /\ \A v \in S : w[v] \in Nat

LEMMA PickIn == ASSUME NEW g, g # {} PROVE Pick(g) \in g
  BY DEF Pick

LEMMA SumsAt ==
    ASSUME NEW total, NEW w, NEW S, Sums(total, w, S), NEW g \in SUBSET S
    PROVE  total[g] = IF g = {} THEN 0 ELSE w[Pick(g)] + total[g \ {Pick(g)}]
  BY DEF Sums, Pick

(* total agrees with the recursion on the sets of at most n members.        *)
SumsUpTo(w, S, n) ==
    \E total \in [SUBSET S -> Nat] : \A g \in SUBSET S : Cardinality(g) <= n =>
        total[g] = IF g = {} THEN 0 ELSE w[Pick(g)] + total[g \ {Pick(g)}]

(* Taking one member out. *)
LEMMA Without ==
    ASSUME NEW S, IsFiniteSet(S), NEW g \in SUBSET S, NEW v \in g
    PROVE  /\ IsFiniteSet(g) /\ IsFiniteSet(g \ {v}) /\ g \ {v} \in SUBSET S
           /\ Cardinality(g) \in Nat /\ Cardinality(g \ {v}) = Cardinality(g) - 1
           /\ Cardinality(g \ {v}) \in Nat
  <1>1. IsFiniteSet(g)  BY FS_Subset
  <1>2. IsFiniteSet(g \ {v}) /\ Cardinality(g \ {v}) = Cardinality(g) - 1  BY <1>1, FS_RemoveElement
  <1> QED BY <1>1, <1>2, FS_CardinalityType

LEMMA SumsNone == ASSUME NEW w, NEW S, IsFiniteSet(S) PROVE SumsUpTo(w, S, 0)
  <1> DEFINE total == [g \in SUBSET S |-> 0]
  <1>1. total \in [SUBSET S -> Nat]  OBVIOUS
  <1>2. ASSUME NEW g \in SUBSET S, Cardinality(g) <= 0 PROVE g = {}
    <2>1. IsFiniteSet(g)  BY FS_Subset
    <2>2. Cardinality(g) = 0  BY <1>2, <2>1, FS_CardinalityType
    <2> QED BY <2>1, <2>2, FS_EmptySet
  <1>3. \A g \in SUBSET S : Cardinality(g) <= 0 =>
           total[g] = IF g = {} THEN 0 ELSE w[Pick(g)] + total[g \ {Pick(g)}]
    BY <1>2
  <1> HIDE DEF total
  <1> QED BY <1>1, <1>3 DEF SumsUpTo

LEMMA SumsOneMore ==
    ASSUME NEW w, NEW S, Weighed(w, S), NEW n \in Nat, SumsUpTo(w, S, n) PROVE SumsUpTo(w, S, n + 1)
  <1>1. PICK some \in [SUBSET S -> Nat] : \A g \in SUBSET S : Cardinality(g) <= n =>
           some[g] = IF g = {} THEN 0 ELSE w[Pick(g)] + some[g \ {Pick(g)}]
    BY DEF SumsUpTo
  <1> DEFINE total == [g \in SUBSET S |-> IF g = {} THEN 0 ELSE w[Pick(g)] + some[g \ {Pick(g)}]]
  <1>2. ASSUME NEW g \in SUBSET S, g # {}
        PROVE  /\ w[Pick(g)] \in Nat /\ g \ {Pick(g)} \in SUBSET S
               /\ Cardinality(g) \in Nat /\ Cardinality(g \ {Pick(g)}) = Cardinality(g) - 1
    <2>1. Pick(g) \in g  BY <1>2, PickIn
    <2> QED BY <2>1, Without DEF Weighed
  <1>3. total \in [SUBSET S -> Nat]
    <2>1. ASSUME NEW g \in SUBSET S
          PROVE  (IF g = {} THEN 0 ELSE w[Pick(g)] + some[g \ {Pick(g)}]) \in Nat
      <3>1. CASE g = {}  BY <3>1
      <3>2. CASE g # {}
        <4>1. some[g \ {Pick(g)}] \in Nat  BY <1>1, <1>2, <3>2
        <4>2. w[Pick(g)] \in Nat  BY <1>2, <3>2
        <4> QED BY <3>2, <4>1, <4>2
      <3> QED BY <3>1, <3>2
    <2> QED BY <2>1
  <1>4. ASSUME NEW g \in SUBSET S, Cardinality(g) <= n PROVE total[g] = some[g]
    BY <1>1, <1>4
  <1>5. ASSUME NEW g \in SUBSET S, Cardinality(g) <= n + 1
        PROVE  total[g] = IF g = {} THEN 0 ELSE w[Pick(g)] + total[g \ {Pick(g)}]
    <2>1. CASE g = {}  BY <2>1
    <2>2. CASE g # {}
      <3>1. Cardinality(g \ {Pick(g)}) <= n  BY <1>2, <1>5, <2>2
      <3>2. total[g \ {Pick(g)}] = some[g \ {Pick(g)}]  BY <1>2, <1>4, <2>2, <3>1
      <3>3. total[g] = w[Pick(g)] + some[g \ {Pick(g)}]  BY <2>2
      <3> QED BY <2>2, <3>2, <3>3
    <2> QED BY <2>1, <2>2
  <1> HIDE DEF total
  <1> QED BY <1>3, <1>5 DEF SumsUpTo

(* The recursion of the fold has a solution on every finite set. *)
LEMMA SumsExist ==
    ASSUME NEW w, NEW S, Weighed(w, S) PROVE \E total : Sums(total, w, S)
  <1> DEFINE Bad == {n \in Nat : ~SumsUpTo(w, S, n)}
  <1>1. Bad = {}
    <2> SUFFICES ASSUME Bad # {} PROVE FALSE  OBVIOUS
    <2>1. PICK n \in Bad : \A m \in Bad : n <= m  BY SmallestExists
    <2>2. n # 0  BY SumsNone DEF Weighed
    <2>3. n - 1 \in Nat /\ n - 1 \notin Bad  BY <2>1, <2>2
    <2>4. SumsUpTo(w, S, n - 1)  BY <2>3
    <2>5. SumsUpTo(w, S, (n - 1) + 1)  BY <2>3, <2>4, SumsOneMore
    <2> QED BY <2>5
  <1>2. Cardinality(S) \in Nat  BY FS_CardinalityType DEF Weighed
  <1>3. SumsUpTo(w, S, Cardinality(S))  BY <1>1, <1>2
  <1>4. PICK total \in [SUBSET S -> Nat] : \A g \in SUBSET S : Cardinality(g) <= Cardinality(S) =>
           total[g] = IF g = {} THEN 0 ELSE w[Pick(g)] + total[g \ {Pick(g)}]
    BY <1>3 DEF SumsUpTo
  <1>5. \A g \in SUBSET S : Cardinality(g) <= Cardinality(S)  BY FS_Subset DEF Weighed
  <1>6. Sums(total, w, S)  BY <1>4, <1>5 DEF Sums, Pick
  <1> QED BY <1>6

LEMMA TotalSums ==
    ASSUME NEW w, NEW S, Weighed(w, S) PROVE \E total : Sums(total, w, S) /\ Total(w, S) = total[S]
  BY SumsExist DEF Total

(* Solutions agree where their tables do. *)
LEMMA SumsAgree ==
    ASSUME NEW w, NEW S, IsFiniteSet(S), NEW t, NEW q, NEW Q, NEW u, Sums(t, w, S), Sums(u, q, Q),
           NEW g, g \in SUBSET S, g \in SUBSET Q, \A v \in g : w[v] = q[v]
    PROVE  t[g] = u[g]
  <1> DEFINE Bad == {n \in Nat : \E x \in SUBSET g : Cardinality(x) = n /\ t[x] # u[x]}
  <1>1. Bad = {}
    <2> SUFFICES ASSUME Bad # {} PROVE FALSE  OBVIOUS
    <2>1. PICK n \in Bad : \A m \in Bad : n <= m  BY SmallestExists
    <2>2. PICK x \in SUBSET g : Cardinality(x) = n /\ t[x] # u[x]  BY <2>1
    <2>3. x \in SUBSET S /\ x \in SUBSET Q  BY <2>2
    <2>4. x # {}  BY <2>2, <2>3, SumsAt
    <2> DEFINE v == Pick(x)
    <2>5. v \in x  BY <2>4, PickIn
    <2>6. Cardinality(x \ {v}) = n - 1 /\ Cardinality(x \ {v}) \in Nat  BY <2>2, <2>3, <2>5, Without
    <2>7. n - 1 \notin Bad /\ n - 1 \in Nat  BY <2>1, <2>6
    <2>8. t[x \ {v}] = u[x \ {v}]  BY <2>6, <2>7
    <2>9. w[v] = q[v]  BY <2>5
    <2>10. t[x] = IF x = {} THEN 0 ELSE w[v] + t[x \ {v}]  BY <2>3, SumsAt
    <2>11. u[x] = IF x = {} THEN 0 ELSE q[v] + u[x \ {v}]  BY <2>3 DEF Sums, Pick
    <2> HIDE DEF v
    <2> QED BY <2>2, <2>4, <2>8, <2>9, <2>10, <2>11
  <1>2. IsFiniteSet(g) /\ Cardinality(g) \in Nat  BY FS_Subset, FS_CardinalityType
  <1> QED BY <1>1, <1>2

(* A member counts for itself, whichever it is. *)
LEMMA SumsTake ==
    ASSUME NEW w, NEW S, Weighed(w, S), NEW total, Sums(total, w, S)
    PROVE  \A g \in SUBSET S : /\ total[g] \in Nat
                               /\ \A v \in g : total[g] = w[v] + total[g \ {v}]
  <1> DEFINE Right(g) == /\ total[g] \in Nat
                         /\ \A v \in g : total[g] = w[v] + total[g \ {v}]
             Bad == {n \in Nat : \E g \in SUBSET S : Cardinality(g) = n /\ ~Right(g)}
  <1>1. Bad = {}
    <2> SUFFICES ASSUME Bad # {} PROVE FALSE  OBVIOUS
    <2>1. PICK n \in Bad : \A m \in Bad : n <= m  BY SmallestExists
    <2>2. PICK g \in SUBSET S : Cardinality(g) = n /\ ~Right(g)  BY <2>1
    <2>3. g # {}
      <3>1. ASSUME g = {} PROVE Right(g)
        <4>1. total[g] = 0  BY <3>1, SumsAt
        <4> QED BY <3>1, <4>1
      <3> QED BY <2>2, <3>1
    <2> DEFINE first == Pick(g)
    <2>4. ASSUME NEW v \in g
          PROVE  g \ {v} \in SUBSET S /\ Cardinality(g \ {v}) = n - 1 /\ Cardinality(g \ {v}) \in Nat
      BY <2>2, <2>4, Without DEF Weighed
    <2>5. first \in g  BY <2>3, PickIn
    <2>6. n - 1 \notin Bad
      <3>1. n - 1 \in Nat  BY <2>4, <2>5
      <3> QED BY <2>1, <3>1
    <2>7. ASSUME NEW v \in g PROVE Right(g \ {v})  BY <2>4, <2>6
    <2>8. total[g] = w[first] + total[g \ {first}]  BY <2>3, SumsAt
    <2>9. \A v \in g : w[v] \in Nat  BY <2>2 DEF Weighed
    <2> HIDE DEF first
    <2>10. total[g] \in Nat
      <3>1. total[g \ {first}] \in Nat  BY <2>5, <2>7
      <3> QED BY <2>5, <2>8, <2>9, <3>1
    <2>11. ASSUME NEW v \in g PROVE total[g] = w[v] + total[g \ {v}]
      <3>1. CASE v = first  BY <2>8, <3>1
      <3>2. CASE v # first
        <4>1. v \in g \ {first} /\ first \in g \ {v}  BY <2>5, <3>2
        <4>2. total[g \ {first}] = w[v] + total[(g \ {first}) \ {v}]
          BY <2>5, <2>7, <4>1
        <4>3. total[g \ {v}] = w[first] + total[(g \ {v}) \ {first}]
          BY <2>7, <4>1
        <4>4. (g \ {first}) \ {v} = (g \ {v}) \ {first}  OBVIOUS
        <4> DEFINE rest == total[(g \ {v}) \ {first}]
        <4>5. rest \in Nat
          <5>1. Right(g \ {v})  BY <2>7
          <5>2. (g \ {v}) \ {first} \in SUBSET S /\ Cardinality((g \ {v}) \ {first}) = n - 2
                /\ n - 2 \in Nat
            <6>1. IsFiniteSet(S) /\ g \ {v} \in SUBSET S /\ first \in g \ {v}
              BY <4>1 DEF Weighed
            <6>2. /\ Cardinality((g \ {v}) \ {first}) = Cardinality(g \ {v}) - 1
                  /\ Cardinality((g \ {v}) \ {first}) \in Nat
                  /\ (g \ {v}) \ {first} \in SUBSET S
              <7>1. IsFiniteSet(g \ {v})  BY <6>1, FS_Subset
              <7>2. /\ IsFiniteSet((g \ {v}) \ {first})
                    /\ Cardinality((g \ {v}) \ {first}) = Cardinality(g \ {v}) - 1
                BY <6>1, <7>1, FS_RemoveElement
              <7> QED BY <6>1, <7>2, FS_CardinalityType
            <6> QED BY <2>1, <2>4, <6>2
          <5>3. n - 2 \notin Bad  BY <2>1, <5>2
          <5> QED BY <5>2, <5>3
        <4> HIDE DEF rest
        <4>6. total[g \ {first}] = w[v] + rest  BY <4>2, <4>4 DEF rest
        <4>7. total[g \ {v}] = w[first] + rest  BY <4>3 DEF rest
        <4>8. w[v] \in Nat /\ w[first] \in Nat  BY <2>5, <2>9
        <4> QED BY <2>8, <4>5, <4>6, <4>7, <4>8
      <3> QED BY <3>1, <3>2
    <2> QED BY <2>2, <2>10, <2>11
  <1> SUFFICES ASSUME NEW g \in SUBSET S PROVE Right(g)  OBVIOUS
  <1>2. Cardinality(g) \in Nat  BY FS_Subset, FS_CardinalityType DEF Weighed
  <1> QED BY <1>1, <1>2

(* What a total amounts to, without the order of the recursion: nothing on  *)
(* no members, one member's weight and the total of the others.             *)
LEMMA TotalNone == ASSUME NEW w PROVE Total(w, {}) = 0
  <1>1. Weighed(w, {})  BY FS_EmptySet DEF Weighed
  <1>2. PICK total : Sums(total, w, {}) /\ Total(w, {}) = total[{}]  BY <1>1, TotalSums
  <1> QED BY <1>2, SumsAt

LEMMA TotalTake ==
    ASSUME NEW w, NEW S, Weighed(w, S), NEW v \in S
    PROVE  /\ Total(w, S) \in Nat /\ Total(w, S \ {v}) \in Nat
           /\ Total(w, S) = w[v] + Total(w, S \ {v})
  <1>1. PICK t : Sums(t, w, S) /\ Total(w, S) = t[S]  BY TotalSums
  <1>2. Weighed(w, S \ {v})  BY FS_Subset DEF Weighed
  <1>3. PICK u : Sums(u, w, S \ {v}) /\ Total(w, S \ {v}) = u[S \ {v}]  BY <1>2, TotalSums
  <1>4. t[S] \in Nat /\ t[S] = w[v] + t[S \ {v}]  BY <1>1, SumsTake
  <1>5. u[S \ {v}] \in Nat  BY <1>2, <1>3, SumsTake
  <1>6. t[S \ {v}] = u[S \ {v}]  BY <1>1, <1>3, SumsAgree DEF Weighed
  <1> QED BY <1>1, <1>3, <1>4, <1>5, <1>6

LEMMA TotalSame ==
    ASSUME NEW w, NEW x, NEW S, Weighed(w, S), \A v \in S : x[v] = w[v]
    PROVE  Total(x, S) = Total(w, S)
  <1>1. Weighed(x, S)  BY DEF Weighed
  <1>2. PICK t : Sums(t, w, S) /\ Total(w, S) = t[S]  BY TotalSums
  <1>3. PICK u : Sums(u, x, S) /\ Total(x, S) = u[S]  BY <1>1, TotalSums
  <1>4. t[S] = u[S]  BY <1>2, <1>3, SumsAgree DEF Weighed
  <1> QED BY <1>2, <1>3, <1>4

-----------------------------------------------------------------------------
(* The counters *)

(* The failed sends that a table r of sessions counts over a set: Pending   *)
(* of any table.                                                            *)
FailSums(total, r, S) ==
    total = [g \in SUBSET S |->
               IF g = {} THEN 0 ELSE LET v == CHOOSE x \in g : TRUE IN r[v].failed + total[g \ {v}]]

Fails(r, S) == (CHOOSE total : FailSums(total, r, S))[S]

LEMMA PendingFails ==
    ASSUME NEW S PROVE Pending(S) = Fails(sess, S)
  BY DEF Pending, MapThenSumSet, MapThenFoldSet, Fails, FailSums

LEMMA PendingFailsPrime ==
    ASSUME NEW S PROVE Pending(S)' = Fails(sess', S)
  BY DEF Pending, MapThenSumSet, MapThenFoldSet, Fails, FailSums

Counts(r, S) == [v \in S |-> r[v].failed]

Counted(r, S) == IsFiniteSet(S) /\ \A v \in S : r[v].failed \in Nat

LEMMA FailsTotal ==
    ASSUME NEW r, NEW S, Counted(r, S)
    PROVE  Weighed(Counts(r, S), S) /\ Fails(r, S) = Total(Counts(r, S), S)
  <1> DEFINE total == CHOOSE total : FailSums(total, r, S)
  <1>1. Weighed(Counts(r, S), S)  BY DEF Counted, Counts, Weighed
  <1>2. PICK some : Sums(some, Counts(r, S), S)  BY <1>1, SumsExist
  <1>3. ASSUME NEW t PROVE Sums(t, Counts(r, S), S) <=> FailSums(t, r, S)
    <2>1. ASSUME NEW g \in SUBSET S, g # {}
          PROVE  Counts(r, S)[CHOOSE x \in g : TRUE] = r[CHOOSE x \in g : TRUE].failed
      <3>1. (CHOOSE x \in g : TRUE) \in g  BY <2>1
      <3> QED BY <3>1 DEF Counts
    <2> QED BY <2>1 DEF Sums, FailSums
  <1>4. FailSums(some, r, S)  BY <1>2, <1>3
  <1>5. FailSums(total, r, S)  BY <1>4
  <1>6. Fails(r, S) = total[S]  BY DEF Fails
  <1> HIDE DEF total
  <1>7. Sums(total, Counts(r, S), S)  BY <1>3, <1>5
  <1>8. PICK u : Sums(u, Counts(r, S), S) /\ Total(Counts(r, S), S) = u[S]  BY <1>1, TotalSums
  <1>9. total[S] = u[S]  BY <1>1, <1>7, <1>8, SumsAgree DEF Weighed
  <1> QED BY <1>1, <1>6, <1>8, <1>9

LEMMA FailsNone == ASSUME NEW r PROVE Fails(r, {}) = 0
  <1>1. Counted(r, {})  BY FS_EmptySet DEF Counted
  <1> QED BY <1>1, FailsTotal, TotalNone

LEMMA FailsSame ==
    ASSUME NEW r, NEW q, NEW S, Counted(r, S), \A v \in S : q[v].failed = r[v].failed
    PROVE  Fails(q, S) = Fails(r, S)
  <1>1. Counted(q, S)  BY DEF Counted
  <1>2. Counts(q, S) = Counts(r, S)  BY DEF Counts
  <1> QED BY <1>1, <1>2, FailsTotal

LEMMA FailsTake ==
    ASSUME NEW r, NEW S, Counted(r, S), NEW v \in S
    PROVE  /\ Fails(r, S) \in Nat /\ Fails(r, S \ {v}) \in Nat
           /\ Fails(r, S) = r[v].failed + Fails(r, S \ {v})
  <1>1. Counted(r, S \ {v})  BY FS_Subset DEF Counted
  <1>2. Weighed(Counts(r, S), S) /\ Fails(r, S) = Total(Counts(r, S), S)  BY FailsTotal
  <1>3. /\ Weighed(Counts(r, S \ {v}), S \ {v})
        /\ Fails(r, S \ {v}) = Total(Counts(r, S \ {v}), S \ {v})
    BY <1>1, FailsTotal
  <1>4. \A x \in S \ {v} : Counts(r, S)[x] = Counts(r, S \ {v})[x]  BY DEF Counts
  <1>5. Total(Counts(r, S), S \ {v}) = Total(Counts(r, S \ {v}), S \ {v})
    BY <1>3, <1>4, TotalSame
  <1> DEFINE w == Counts(r, S)
  <1>6. ASSUME NEW x, Weighed(x, S)
        PROVE  /\ Total(x, S) \in Nat /\ Total(x, S \ {v}) \in Nat
               /\ Total(x, S) = x[v] + Total(x, S \ {v})
    BY <1>6, TotalTake
  <1>7. /\ Total(w, S) \in Nat /\ Total(w, S \ {v}) \in Nat
        /\ Total(w, S) = w[v] + Total(w, S \ {v})
    BY <1>2, <1>6
  <1> QED BY <1>2, <1>3, <1>5, <1>7 DEF Counts

(* What a flush takes out of the sessions of S is what it puts elsewhere.   *)
Emptied(q, r, S, L) ==
    \A v \in S : q[v].failed = IF v \in L THEN 0 ELSE r[v].failed

LEMMA FailsEmptied ==
    ASSUME NEW r, NEW S, Counted(r, S), NEW L \in SUBSET S, NEW q, Emptied(q, r, S, L)
    PROVE  Fails(q, S) + Fails(r, L) = Fails(r, S) /\ Fails(q, S) \in Nat /\ Fails(r, L) \in Nat
  <1> DEFINE Flushed(l) == [v \in S |-> [failed |-> IF v \in l THEN 0 ELSE r[v].failed]]
             Right(l) == /\ Fails(Flushed(l), S) \in Nat /\ Fails(r, l) \in Nat
                         /\ Fails(Flushed(l), S) + Fails(r, l) = Fails(r, S)
             Bad == {n \in Nat : \E l \in SUBSET S : Cardinality(l) = n /\ ~Right(l)}
  <1>1. ASSUME NEW l \in SUBSET S PROVE Counted(Flushed(l), S) /\ Counted(r, l)
    BY FS_Subset DEF Counted
  <1>2. Fails(r, S) \in Nat
    <2>1. CASE S = {}  BY <2>1, FailsNone
    <2>2. CASE S # {}  BY <2>2, FailsTake
    <2> QED BY <2>1, <2>2
  <1>3. Right({})
    <2>1. \A v \in S : Flushed({})[v].failed = r[v].failed  OBVIOUS
    <2> HIDE DEF Flushed
    <2>2. Fails(Flushed({}), S) = Fails(r, S)  BY <2>1, FailsSame
    <2> QED BY <1>2, <2>2, FailsNone
  <1>4. ASSUME NEW l \in SUBSET S, NEW v \in l, Right(l \ {v}) PROVE Right(l)
    <2> DEFINE less == l \ {v}
    <2>1. v \in S /\ less \in SUBSET S /\ v \notin less  OBVIOUS
    <2>2. Flushed(l)[v].failed = 0 /\ Flushed(less)[v].failed = r[v].failed  BY <2>1
    <2>3. \A w \in S \ {v} : Flushed(l)[w].failed = Flushed(less)[w].failed  OBVIOUS
    <2>4. Counted(Flushed(l), S) /\ Counted(Flushed(less), S) /\ Counted(r, l)  BY <1>1, <2>1
    <2>5. Counted(Flushed(less), S \ {v})  BY <2>4, FS_Subset DEF Counted
    <2>6. r[v].failed \in Nat  BY <2>1 DEF Counted
    <2> HIDE DEF less, Flushed
    <2>7. /\ Fails(Flushed(l), S) \in Nat /\ Fails(Flushed(l), S \ {v}) \in Nat
          /\ Fails(Flushed(l), S) = Flushed(l)[v].failed + Fails(Flushed(l), S \ {v})
      BY <2>1, <2>4, FailsTake
    <2>8. Fails(Flushed(less), S) = Flushed(less)[v].failed + Fails(Flushed(less), S \ {v})
      BY <2>1, <2>4, FailsTake
    <2>9. Fails(Flushed(l), S \ {v}) = Fails(Flushed(less), S \ {v})
      BY <2>3, <2>5, FailsSame
    <2>10. Fails(r, l) \in Nat /\ Fails(r, l) = r[v].failed + Fails(r, less)
      BY <2>4, FailsTake DEF less
    <2>11. /\ Fails(Flushed(less), S) \in Nat /\ Fails(r, less) \in Nat
           /\ Fails(Flushed(less), S) + Fails(r, less) = Fails(r, S)
      BY <1>4 DEF less
    <2>12. Fails(Flushed(l), S) = Fails(Flushed(l), S \ {v})  BY <2>2, <2>7
    <2>13. Fails(Flushed(less), S) = r[v].failed + Fails(Flushed(l), S)
      BY <2>2, <2>8, <2>9, <2>12
    <2>14. Fails(Flushed(l), S) + Fails(r, l) = Fails(r, S)
      BY <2>6, <2>7, <2>10, <2>11, <2>13
    <2> QED BY <2>7, <2>10, <2>14
  <1>5. Bad = {}
    <2> SUFFICES ASSUME Bad # {} PROVE FALSE  OBVIOUS
    <2>1. PICK n \in Bad : \A m \in Bad : n <= m  BY SmallestExists
    <2>2. PICK l \in SUBSET S : Cardinality(l) = n /\ ~Right(l)  BY <2>1
    <2> HIDE DEF Right
    <2>3. l # {}  BY <1>3, <2>2
    <2>4. PICK v \in l : TRUE  BY <2>3
    <2>5. /\ Cardinality(l \ {v}) = n - 1 /\ Cardinality(l \ {v}) \in Nat
          /\ l \ {v} \in SUBSET S
      BY <2>2, Without DEF Counted
    <2>6. n - 1 \notin Bad  BY <2>1, <2>5
    <2>7. Right(l \ {v})  BY <2>5, <2>6
    <2> QED BY <1>4, <2>2, <2>7
  <1>6. Right(L)
    <2>1. Cardinality(L) \in Nat  BY FS_Subset, FS_CardinalityType DEF Counted
    <2> HIDE DEF Right
    <2> QED BY <1>5, <2>1
  <1>7. Fails(q, S) = Fails(Flushed(L), S)
    <2>1. \A v \in S : q[v].failed = Flushed(L)[v].failed  BY DEF Emptied
    <2>2. Counted(Flushed(L), S)  BY <1>1
    <2> HIDE DEF Flushed
    <2> QED BY <2>1, <2>2, FailsSame
  <1> QED BY <1>6, <1>7

(* The inductive invariant: no failure is counted twice, with the types.    *)
FiguresInv == FiguresTypeOK /\ AtMostOnce /\ MirrorBehind

(* What every step does to it, and to the tally. *)
FiguresStep == FiguresTypeOK' /\ MirrorBehind' /\ TallyMoves

(* The tables the counts are kept in. *)
SessionTables == [Viewers -> [live : BOOLEAN, failed : Nat, drop : Nat]]

Zones == [found : BOOLEAN, pkts : Nat, failed : Nat]

LEMMA TableCounted ==
    ASSUME NEW r \in SessionTables, NEW S \in SUBSET Viewers PROVE Counted(r, S)
  BY ReportConstants, FS_Subset DEF SessionTables, Counted

LEMMA FiguresInitInv == ASSUME FiguresInit PROVE FiguresInv
  <1>1. FiguresTypeOK
    BY ReportConstants DEF FiguresInit, FiguresTypeOK, Counters, Zero, TimerStart
  <1>2. Fails(sess, Viewers) = 0
    <2>1. Emptied(sess, sess, Viewers, Viewers)  BY DEF FiguresInit, Emptied
    <2>2. Counted(sess, Viewers)  BY <1>1, TableCounted DEF FiguresTypeOK, SessionTables
    <2> QED BY <2>1, <2>2, FailsEmptied
  <1>3. Pending(Viewers) = 0  BY <1>2, PendingFails
  <1>4. AtMostOnce  BY <1>3 DEF FiguresInit, AtMostOnce, Tally
  <1>5. MirrorBehind  BY DEF FiguresInit, MirrorBehind
  <1> QED BY <1>1, <1>4, <1>5 DEF FiguresInv

(* One session's count changes and the others' do not. *)
LEMMA FailsChanged ==
    ASSUME NEW r \in SessionTables, NEW q \in SessionTables, NEW v \in Viewers,
           \A x \in Viewers \ {v} : q[x].failed = r[x].failed
    PROVE  /\ Fails(r, Viewers) \in Nat /\ Fails(q, Viewers) \in Nat
           /\ Fails(q, Viewers) + r[v].failed = Fails(r, Viewers) + q[v].failed
  <1>1. /\ Counted(r, Viewers) /\ Counted(q, Viewers)
        /\ Counted(r, Viewers \ {v}) /\ Counted(q, Viewers \ {v})
    BY TableCounted
  <1>2. Fails(q, Viewers \ {v}) = Fails(r, Viewers \ {v})  BY <1>1, FailsSame
  <1>3. /\ Fails(r, Viewers) \in Nat /\ Fails(r, Viewers \ {v}) \in Nat
        /\ Fails(r, Viewers) = r[v].failed + Fails(r, Viewers \ {v})
    BY <1>1, FailsTake
  <1>4. /\ Fails(q, Viewers) \in Nat
        /\ Fails(q, Viewers) = q[v].failed + Fails(q, Viewers \ {v})
    BY <1>1, FailsTake
  <1>5. r[v].failed \in Nat /\ q[v].failed \in Nat  BY DEF SessionTables
  <1> QED BY <1>2, <1>3, <1>4, <1>5

(* A step that counts nothing and tells the zone nothing moves the tally by *)
(* what the sessions it empties had not reported.                           *)
LEMMA TallyForgets ==
    ASSUME sess \in SessionTables, zone.failed \in Nat, failed \in Nat,
           zone'.failed = zone.failed, failed' = failed,
           \A v \in Viewers : sess'[v].failed = IF v \in Forgotten THEN 0 ELSE sess[v].failed
    PROVE  TallyMoves
  <1> PICK L \in SUBSET Viewers : L = Forgotten  BY DEF Forgotten
  <1>1. Emptied(sess', sess, Viewers, L)  BY DEF Emptied
  <1>2. /\ Fails(sess', Viewers) + Fails(sess, L) = Fails(sess, Viewers)
        /\ Fails(sess', Viewers) \in Nat /\ Fails(sess, L) \in Nat
    BY <1>1, TableCounted, FailsEmptied
  <1>3. Pending(Viewers)' = Fails(sess', Viewers) /\ Pending(Viewers) = Fails(sess, Viewers)
    BY PendingFails, PendingFailsPrime
  <1>4. Pending(L) = Fails(sess, L)  BY PendingFails
  <1>5. Tally' + Pending(L) + failed = Tally + failed'  BY <1>2, <1>3, <1>4 DEF Tally
  <1> QED BY <1>5 DEF TallyMoves

(* A step that forgets nobody moves the tally with the failures.            *)
LEMMA TallyCounts ==
    ASSUME Forgotten = {}, Tally' + failed = Tally + failed', Tally' \in Nat, failed \in Nat
    PROVE  TallyMoves
  <1>1. Pending({}) = 0  BY FailsNone, PendingFails
  <1> QED BY <1>1 DEF TallyMoves

(* A failed send is counted by the session it failed for. *)
LEMMA SendFailsInv ==
    ASSUME FiguresInv, NEW v \in Viewers, SendFails(v) PROVE FiguresStep
  <1>1. sess \in SessionTables /\ zone \in Zones /\ failed \in Nat
    BY DEF FiguresInv, FiguresTypeOK, SessionTables, Zones
  <1>2. sess' \in SessionTables /\ sess'[v].failed = sess[v].failed + 1
    BY <1>1 DEF SendFails, SessionTables
  <1>3. \A x \in Viewers \ {v} : sess'[x].failed = sess[x].failed
    BY <1>1 DEF SendFails, SessionTables
  <1>4. \A x \in Viewers : sess[x].failed \in Nat  BY <1>1 DEF SessionTables
  <1>5. Fails(sess', Viewers) = Fails(sess, Viewers) + 1 /\ Fails(sess, Viewers) \in Nat
    BY <1>1, <1>2, <1>3, <1>4, FailsChanged
  <1>6. Pending(Viewers)' = Pending(Viewers) + 1 /\ Pending(Viewers) \in Nat
    BY <1>5, PendingFails, PendingFailsPrime
  <1>7. failed' = failed + 1 /\ zone' = zone  BY DEF SendFails
  <1>8. TallyMoves
    <2>1. Forgotten = {}  BY <1>2, <1>3, <1>4 DEF Forgotten
    <2>2. Tally' + failed = Tally + failed' /\ Tally' \in Nat  BY <1>1, <1>6, <1>7 DEF Tally, Zones
    <2> QED BY <1>1, <2>1, <2>2, TallyCounts
  <1>9. MirrorBehind'
    BY <1>1 DEF SendFails, FiguresInv, MirrorBehind, SessionTables
  <1>10. FiguresTypeOK'
    BY <1>1, <1>2, <1>7 DEF SendFails, FiguresInv, FiguresTypeOK, SessionTables
  <1> QED BY <1>8, <1>9, <1>10 DEF FiguresStep

(* A session that closes takes what it had not reported with it. *)
LEMMA CloseInv ==
    ASSUME FiguresInv, NEW v \in Viewers, Close(v) PROVE FiguresStep
  <1>1. /\ sess \in SessionTables /\ zone \in Zones /\ failed \in Nat
        /\ skel \in [Viewers -> Nat]
    BY DEF FiguresInv, FiguresTypeOK, SessionTables, Zones
  <1>2. sess' \in SessionTables /\ sess[v].live /\ sess'[v].failed = 0 /\ ~sess'[v].live
    BY <1>1 DEF Close, SessionTables
  <1>3. \A x \in Viewers \ {v} : sess'[x] = sess[x]  BY <1>1 DEF Close, SessionTables
  <1>4. \A x \in Viewers : sess[x].failed \in Nat  BY <1>1 DEF SessionTables
  <1>5. zone' = zone /\ failed' = failed  BY DEF Close
  <1>6. TallyMoves
    <2>1. ASSUME NEW x \in Viewers
          PROVE  sess'[x].failed = IF x \in Forgotten THEN 0 ELSE sess[x].failed
      <3>1. CASE x = v  BY <1>2, <1>4, <3>1 DEF Forgotten
      <3>2. CASE x # v  BY <1>3, <1>4, <3>2 DEF Forgotten
      <3> QED BY <3>1, <3>2
    <2> QED BY <1>1, <1>5, <2>1, TallyForgets DEF Zones
  <1>7. skel' \in [Viewers -> Nat] /\ \A x \in Viewers \ {v} : skel'[x] = skel[x]
    BY <1>1 DEF Close
  <1>8. MirrorBehind'
    BY <1>2, <1>3, <1>7 DEF FiguresInv, MirrorBehind
  <1>9. FiguresTypeOK'
    BY <1>1, <1>2, <1>5, <1>7 DEF Close, FiguresInv, FiguresTypeOK, SessionTables
  <1> QED BY <1>6, <1>8, <1>9 DEF FiguresStep

(* The statistics timer moves the counts of a worker's live sessions into   *)
(* the zone, and takes from the sessions what it adds there; without the    *)
(* source it only takes.                                                    *)
LEMMA FlushInv ==
    ASSUME FiguresInv, NEW w \in Workers, Flush(w) PROVE FiguresStep
  <1> DEFINE L == LiveOn(w)
  <1>1. /\ sess \in SessionTables /\ failed \in Nat
        /\ zone \in Zones /\ L \in SUBSET Viewers /\ \A v \in L : sess[v].live
    BY DEF FiguresInv, FiguresTypeOK, SessionTables, Zones, LiveOn
  <1>2. /\ zone' = IF zone.found THEN [zone EXCEPT !.failed = @ + Pending(L)] ELSE zone
        /\ sess' = [v \in Viewers |-> IF v \in L THEN [sess[v] EXCEPT !.failed = 0] ELSE sess[v]]
        /\ failed' = failed /\ skel' = skel
    BY DEF Flush, AfterFlush
  <1> HIDE DEF L
  <1>3. /\ sess' \in SessionTables /\ \A v \in Viewers : sess'[v].live = sess[v].live
        /\ \A v \in Viewers : sess'[v].failed = IF v \in L THEN 0 ELSE sess[v].failed
    BY <1>1, <1>2 DEF SessionTables
  <1>4. Emptied(sess', sess, Viewers, L)  BY <1>3 DEF Emptied
  <1>5. /\ Fails(sess', Viewers) + Fails(sess, L) = Fails(sess, Viewers)
        /\ Fails(sess', Viewers) \in Nat /\ Fails(sess, L) \in Nat
    BY <1>1, <1>4, TableCounted, FailsEmptied
  <1>6. Pending(L) = Fails(sess, L)  BY PendingFails
  <1>7. /\ Pending(Viewers)' + Pending(L) = Pending(Viewers)
        /\ Pending(Viewers)' \in Nat /\ Pending(L) \in Nat /\ Pending(Viewers) \in Nat
    BY <1>5, <1>6, PendingFails, PendingFailsPrime
  <1>8. zone' \in Zones  BY <1>1, <1>2, <1>7 DEF Zones
  <1>9. \A v \in Viewers : sess[v].failed \in Nat  BY <1>1 DEF SessionTables
  <1>10. TallyMoves
    <2>1. CASE zone.found
      <3>1. zone'.failed = zone.failed + Pending(L)  BY <1>1, <1>2, <2>1 DEF Zones
      <3>2. Forgotten = {}  BY <1>3, <2>1 DEF Forgotten
      <3>3. Tally' + failed = Tally + failed' /\ Tally' \in Nat
        BY <1>1, <1>2, <1>7, <3>1 DEF Tally, Zones
      <3> QED BY <1>1, <3>2, <3>3, TallyCounts
    <2>2. CASE ~zone.found
      <3>1. ASSUME NEW v \in Viewers
            PROVE  sess'[v].failed = IF v \in Forgotten THEN 0 ELSE sess[v].failed
        BY <1>1, <1>3, <1>9, <2>2 DEF Forgotten
      <3>2. zone' = zone  BY <1>2, <2>2
      <3> QED BY <1>1, <1>2, <3>1, <3>2, TallyForgets DEF Zones
    <2> QED BY <2>1, <2>2
  <1>11. MirrorBehind'
    BY <1>1, <1>2 DEF FiguresInv, MirrorBehind, SessionTables
  <1>12. FiguresTypeOK'
    BY <1>3, <1>8 DEF Flush, FiguresInv, FiguresTypeOK, SessionTables, Zones
  <1> QED BY <1>10, <1>11, <1>12 DEF FiguresStep

(* What leaves every session's count alone: packets, headers, drops and     *)
(* reports.                                                                 *)
LEMMA CountsKept ==
    ASSUME FiguresInv, \A v \in Viewers : sess'[v].failed = sess[v].failed,
           zone'.failed = zone.failed, failed' = failed
    PROVE  TallyMoves
  <1>1. sess \in SessionTables /\ zone.failed \in Nat /\ failed \in Nat
    BY DEF FiguresInv, FiguresTypeOK, SessionTables
  <1>2. \A v \in Viewers : sess[v].failed \in Nat  BY <1>1 DEF SessionTables
  <1>3. \A v \in Viewers : sess'[v].failed = IF v \in Forgotten THEN 0 ELSE sess[v].failed
    BY <1>2 DEF Forgotten
  <1> QED BY <1>1, <1>3, TallyForgets

LEMMA FiguresNextStep ==
    ASSUME FiguresInv, [FiguresNext]_figureVars PROVE FiguresStep
  <1>1. /\ sess \in SessionTables /\ zone \in Zones /\ skel \in [Viewers -> Nat]
        /\ pub \in [kind : Kinds, on : Workers] /\ local \in [Workers -> Counters]
        /\ frames \in Nat /\ base \in Nat /\ MirrorBehind
    BY DEF FiguresInv, FiguresTypeOK, SessionTables, Zones
  <1>2. CASE VideoPacket
    <2>1. zone' \in Zones /\ zone'.failed = zone.failed
      BY <1>1, <1>2 DEF VideoPacket, Counters, Zones
    <2>2. local' \in [Workers -> Counters] /\ frames' \in Nat
      BY <1>1, <1>2 DEF VideoPacket, Counters
    <2>3. sess' = sess /\ skel' = skel /\ failed' = failed  BY <1>2 DEF VideoPacket
    <2>4. TallyMoves  BY <2>1, <2>3, CountsKept
    <2>5. MirrorBehind'  BY <1>1, <2>3 DEF MirrorBehind
    <2>6. FiguresTypeOK'
      BY <1>2, <2>1, <2>2, <2>3 DEF VideoPacket, FiguresInv, FiguresTypeOK, Zones
    <2> QED BY <2>4, <2>5, <2>6 DEF FiguresStep
  <1>3. ASSUME NEW w \in Workers, AvcHeader(w) PROVE FiguresStep
    <2>1. Zero \in Counters  BY DEF Zero, Counters
    <2>2. pub' \in [kind : Kinds, on : Workers] /\ local' \in [Workers -> Counters] /\ base' \in Nat
      BY <1>1, <1>3, <2>1 DEF AvcHeader
    <2>3. sess' = sess /\ skel' = skel /\ zone' = zone /\ failed' = failed
      BY <1>3 DEF AvcHeader
    <2>4. TallyMoves  BY <2>3, CountsKept
    <2>5. MirrorBehind'  BY <1>1, <2>3 DEF MirrorBehind
    <2>6. FiguresTypeOK'
      BY <1>3, <2>2, <2>3 DEF AvcHeader, FiguresInv, FiguresTypeOK
    <2> QED BY <2>4, <2>5, <2>6 DEF FiguresStep
  <1>4. ASSUME NEW w \in Workers, RtcpTimer(w) PROVE FiguresStep
    <2>1. /\ skel' = [v \in Viewers |-> IF v \in LiveOn(w) THEN sess[v].drop ELSE skel[v]]
          /\ sess' = sess /\ zone' = zone /\ failed' = failed
      BY <1>4 DEF RtcpTimer, Mirrored
    <2>2. skel' \in [Viewers -> Nat]  BY <1>1, <2>1 DEF SessionTables
    <2>3. TallyMoves  BY <2>1, CountsKept
    <2>4. MirrorBehind'
      <3> SUFFICES ASSUME NEW v \in Viewers, sess[v].live PROVE skel'[v] <= sess[v].drop
        BY <2>1 DEF MirrorBehind
      <3>1. sess[v].drop \in Nat  BY <1>1 DEF SessionTables
      <3> QED BY <1>1, <2>1, <3>1 DEF MirrorBehind
    <2>5. FiguresTypeOK'
      BY <1>4, <2>1, <2>2 DEF RtcpTimer, FiguresInv, FiguresTypeOK
    <2> QED BY <2>3, <2>4, <2>5 DEF FiguresStep
  <1>5. ASSUME NEW v \in Viewers, PacerDrops(v) PROVE FiguresStep
    <2>1. /\ sess' \in SessionTables /\ \A x \in Viewers : sess'[x].failed = sess[x].failed
          /\ \A x \in Viewers : sess'[x].live = sess[x].live /\ sess[x].drop <= sess'[x].drop
      BY <1>1, <1>5 DEF PacerDrops, SessionTables
    <2>2. zone' = zone /\ failed' = failed /\ skel' = skel  BY <1>5 DEF PacerDrops
    <2>3. TallyMoves  BY <2>1, <2>2, CountsKept
    <2>4. MirrorBehind'
      <3> SUFFICES ASSUME NEW x \in Viewers, sess'[x].live PROVE skel[x] <= sess'[x].drop
        BY <2>2 DEF MirrorBehind
      <3>1. skel[x] \in Nat /\ sess[x].drop \in Nat /\ sess'[x].drop \in Nat
        BY <1>1, <2>1 DEF SessionTables
      <3> QED BY <1>1, <2>1, <3>1 DEF MirrorBehind
    <2>5. FiguresTypeOK'
      BY <1>5, <2>1, <2>2 DEF PacerDrops, FiguresInv, FiguresTypeOK, SessionTables
    <2> QED BY <2>3, <2>4, <2>5 DEF FiguresStep
  <1>6. CASE UNCHANGED figureVars
    <2>1. /\ sess' = sess /\ zone' = zone /\ failed' = failed /\ skel' = skel
          /\ pub' = pub /\ frames' = frames /\ base' = base /\ local' = local /\ armed' = armed
      BY <1>6 DEF figureVars
    <2>2. TallyMoves  BY <2>1, CountsKept
    <2> QED BY <2>1, <2>2 DEF FiguresStep, FiguresInv, FiguresTypeOK, MirrorBehind
  <1> QED BY <1>2, <1>3, <1>4, <1>5, <1>6, SendFailsInv, CloseInv, FlushInv DEF FiguresNext

(* As long as steps move the tally so, it is not ahead of the failures.     *)
LEMMA FiguresNextInv ==
    ASSUME FiguresInv, FiguresStep PROVE FiguresInv'
  <1> PICK L \in SUBSET Viewers : L = Forgotten  BY DEF Forgotten
  <1>1. sess \in SessionTables /\ sess' \in SessionTables
    BY DEF FiguresInv, FiguresStep, FiguresTypeOK, SessionTables
  <1>2. Fails(sess, Viewers) \in Nat /\ Fails(sess', Viewers) \in Nat /\ Fails(sess, L) \in Nat
    <2>1. ASSUME NEW r \in SessionTables, NEW S \in SUBSET Viewers PROVE Fails(r, S) \in Nat
      <3>1. Counted(r, S)  BY TableCounted
      <3>2. CASE S = {}  BY <3>2, FailsNone
      <3>3. CASE S # {}  BY <3>1, <3>3, FailsTake
      <3> QED BY <3>2, <3>3
    <2> QED BY <1>1, <2>1
  <1>3. Pending(Viewers) \in Nat /\ Pending(Viewers)' \in Nat /\ Pending(L) \in Nat
    BY <1>2, PendingFails, PendingFailsPrime
  <1>4. Tally \in Nat /\ Tally' \in Nat /\ failed \in Nat /\ failed' \in Nat
    BY <1>3 DEF FiguresInv, FiguresStep, FiguresTypeOK, Tally
  <1>5. Tally' + Pending(L) + failed = Tally + failed'  BY DEF FiguresStep, TallyMoves
  <1>6. AtMostOnce'  BY <1>3, <1>4, <1>5 DEF FiguresInv, AtMostOnce
  <1> QED BY <1>6 DEF FiguresInv, FiguresStep

(* No failed send is counted twice, in any order of the timers of           *)
(* ngx_rtc_stats_flush_send_failures and ngx_rtc_shm_session_set_stats; one *)
(* is lost only with a session that closes before the next flush, or whose  *)
(* source is gone from the zone; and no skeleton shows more than its        *)
(* session dropped: for any number of workers, viewers and sends.           *)
THEOREM FailuresAccountedFor == FiguresSpec => FailuresAccounted
  <1>1. FiguresInit => FiguresInv  BY FiguresInitInv
  <1>2. FiguresInv /\ [FiguresNext]_figureVars => FiguresInv' /\ TallyMoves
    BY FiguresNextStep, FiguresNextInv DEF FiguresStep
  <1>3. FiguresInv => AtMostOnce /\ MirrorBehind  BY DEF FiguresInv
  <1> QED BY <1>1, <1>2, <1>3, PTL DEF FiguresSpec, FailuresAccounted

-----------------------------------------------------------------------------
(* The byte arena *)

(* The constants are positive.                                              *)
LEMMA RingNumbers ==
    Capacity \in Nat \ {0} /\ LengthSize \in Nat \ {0} /\ Base \in Nat \ {0}
  BY RingConstants

(* What a digit counts for is a positive power of Base.                     *)
LEMMA Weights ==
    /\ \A i \in 0..LengthSize : Weight[i] \in Nat \ {0}
    /\ Weight[0] = 1 /\ \A i \in 1..LengthSize : Weight[i] = Base * Weight[i - 1]
  <1> DEFINE step == [i \in 0..LengthSize |-> [x \in Nat \ {0} |-> Base * x]]
             prev == [i \in 0..LengthSize |-> i - 1]
  <1>1. \A i \in (0..LengthSize) \ {0} :
           prev[i] \in 0..(i - 1) /\ step[i] \in [Nat \ {0} -> Nat \ {0}]
    BY RingNumbers
  <1>10. ASSUME NEW f \in [0..LengthSize -> Nat \ {0}], NEW i \in 0..LengthSize, i # 0
        PROVE  step[i][f[prev[i]]] = Base * f[i - 1]
    BY <1>10, RingNumbers
  <1> HIDE DEF step, prev
  <1>11. Descends(LengthSize, Nat \ {0}, 1, {0}, prev, step)  BY <1>1, RingNumbers DEF Descends
  <1>2. PICK f \in [0..LengthSize -> Nat \ {0}] :
           f = [i \in 0..LengthSize |-> IF i \in {0} THEN 1 ELSE step[i][f[prev[i]]]]
    BY <1>11, Recursion DEF Solvable
  <1>4. f = [i \in 0..LengthSize |-> IF i = 0 THEN 1 ELSE Base * f[i - 1]]
    BY <1>2, <1>10
  <1>5. Weight = [i \in 0..LengthSize |-> IF i = 0 THEN 1 ELSE Base * Weight[i - 1]]
    BY <1>4 DEF Weight
  <1>6. Weight[0] = 1 /\ \A i \in 1..LengthSize : Weight[i] = Base * Weight[i - 1]
    BY <1>5, RingNumbers
  <1> DEFINE Bad == {n \in 0..LengthSize : Weight[n] \notin Nat \ {0}}
  <1>7. Bad = {}
    <2> SUFFICES ASSUME Bad # {} PROVE FALSE  OBVIOUS
    <2>1. PICK n \in Bad : \A m \in Bad : n <= m
      <3>1. Bad \in SUBSET Nat  BY RingNumbers
      <3> QED BY <3>1, SmallestExists
    <2>2. n # 0  BY <1>6, <2>1
    <2>3. n - 1 \in 0..LengthSize /\ n - 1 \notin Bad  BY <2>1, <2>2, RingNumbers
    <2>4. Weight[n - 1] \in Nat \ {0} /\ Weight[n] = Base * Weight[n - 1]  BY <1>6, <2>1, <2>2, <2>3
    <2>5. Weight[n] \in Nat \ {0}  BY <2>4, RingNumbers
    <2> QED BY <2>1, <2>5
  <1> QED BY <1>6, <1>7

Digits == [1..LengthSize -> 0..(Base - 1)]

(* The value of the first i digits. *)
Values(value, digits) ==
    value = [i \in 0..LengthSize |->
               IF i = 0 THEN 0 ELSE value[i - 1] + digits[i] * Weight[i - 1]]

(* The recursion that adds up the digits of a length has a solution in the  *)
(* numbers.                                                                 *)
LEMMA LengthValues ==
    ASSUME NEW digits \in Digits
    PROVE  \E value \in [0..LengthSize -> Nat] :
              Values(value, digits) /\ LengthOf(digits) = value[LengthSize]
  <1> DEFINE step == [i \in 0..LengthSize |-> [x \in Nat |-> x + digits[i] * Weight[i - 1]]]
             prev == [i \in 0..LengthSize |-> i - 1]
  <1>1. \A i \in (0..LengthSize) \ {0} : prev[i] \in 0..(i - 1) /\ step[i] \in [Nat -> Nat]
    <2>1. ASSUME NEW i \in (0..LengthSize) \ {0} PROVE step[i] \in [Nat -> Nat]
      <3>1. digits[i] \in Nat /\ Weight[i - 1] \in Nat  BY Weights, RingNumbers DEF Digits
      <3>2. digits[i] * Weight[i - 1] \in Nat  BY <3>1
      <3> QED BY <3>2
    <2>2. \A i \in (0..LengthSize) \ {0} : prev[i] \in 0..(i - 1)  BY RingNumbers
    <2> QED BY <2>1, <2>2
  <1>2. ASSUME NEW f \in [0..LengthSize -> Nat], NEW i \in 0..LengthSize, i # 0
        PROVE  step[i][f[prev[i]]] = f[i - 1] + digits[i] * Weight[i - 1]
    BY <1>2, RingNumbers
  <1> HIDE DEF step, prev
  <1>11. Descends(LengthSize, Nat, 0, {0}, prev, step)  BY <1>1, RingNumbers DEF Descends
  <1>3. PICK f \in [0..LengthSize -> Nat] :
           f = [i \in 0..LengthSize |-> IF i \in {0} THEN 0 ELSE step[i][f[prev[i]]]]
    BY <1>11, Recursion DEF Solvable
  <1>4. f = [i \in 0..LengthSize |-> IF i = 0 THEN 0 ELSE f[i - 1] + digits[i] * Weight[i - 1]]
    BY <1>2, <1>3
  <1> DEFINE value == CHOOSE value : Values(value, digits)
  <1>5. Values(value, digits)  BY <1>4 DEF Values
  <1>6. LengthOf(digits) = value[LengthSize]  BY DEF LengthOf, Values
  <1> HIDE DEF value
  <1> DEFINE Bad == {n \in 0..LengthSize : value[n] \notin Nat}
  <1>7. Bad = {}
    <2> SUFFICES ASSUME Bad # {} PROVE FALSE  OBVIOUS
    <2>1. PICK n \in Bad : \A m \in Bad : n <= m
      <3>1. Bad \in SUBSET Nat  BY RingNumbers
      <3> QED BY <3>1, SmallestExists
    <2>2. n # 0  BY <1>5, <2>1 DEF Values
    <2>3. n - 1 \in 0..LengthSize /\ n - 1 \notin Bad  BY <2>1, <2>2, RingNumbers
    <2>4. value[n] = value[n - 1] + digits[n] * Weight[n - 1] /\ value[n - 1] \in Nat
      BY <1>5, <2>1, <2>2, <2>3 DEF Values
    <2>5. n \in 1..LengthSize  BY <2>1, <2>2, RingNumbers
    <2>7. digits[n] \in Nat /\ Weight[n - 1] \in Nat
      <3>1. Weight[n - 1] \in Nat  BY <2>3, Weights
      <3>2. digits[n] \in Nat  BY <2>5, RingNumbers DEF Digits
      <3> QED BY <3>1, <3>2
    <2>6. digits[n] * Weight[n - 1] \in Nat  BY <2>7
    <2> QED BY <2>1, <2>4, <2>6
  <1>8. value = [i \in 0..LengthSize |-> value[i]]  BY <1>5 DEF Values
  <1>9. value \in [0..LengthSize -> Nat]  BY <1>7, <1>8
  <1> QED BY <1>5, <1>6, <1>9

(* One more digit: *)
LEMMA DigitStep ==
    ASSUME NEW n \in Nat, NEW w \in Nat \ {0}, NEW c \in Nat \ {0}
    PROVE  n % (c * w) = (n % w) + ((n \div w) % c) * w
  <1> DEFINE q == n \div w
             r == n % w
             p == q \div c
             v == q % c
  <1>1. q \in Int /\ r \in 0..(w - 1) /\ n = w * q + r  BY DivSplit
  <1> HIDE DEF q, r
  <1>2. p \in Int /\ v \in 0..(c - 1) /\ q = c * p + v  BY <1>1, DivSplit
  <1> HIDE DEF p, v
  <1>3. n = w * (c * p + v) + r  BY <1>1, <1>2
  <1>4. w * (c * p + v) = (c * w) * p + v * w  BY <1>1, <1>2
  <1>5. n = (c * w) * p + (r + v * w)
    <2>1. w * (c * p + v) \in Int /\ (c * w) * p \in Int /\ v * w \in Int  BY <1>2
    <2> QED BY <1>1, <1>3, <1>4, <2>1
  <1>6. r + v * w \in 0..(c * w - 1)
    <2>1. v * w <= (c - 1) * w /\ v * w \in Nat  BY <1>2
    <2>2. (c - 1) * w = c * w - w  OBVIOUS
    <2>3. c * w \in Nat  OBVIOUS
    <2> QED BY <1>1, <2>1, <2>2, <2>3
  <1>7. c * w \in Nat \ {0}  OBVIOUS
  <1> DEFINE m == c * w
  <1>9. m \in Nat \ {0} /\ r + v * w \in 0..(m - 1) /\ n = m * p + (r + v * w)
    BY <1>5, <1>6, <1>7
  <1> DEFINE t == r + v * w
  <1>10. m \in Nat \ {0} /\ n \in Int /\ p \in Int /\ t \in 0..(m - 1) /\ n = m * p + t
    BY <1>2, <1>9
  <1> HIDE DEF m, t
  <1>8. n % m = t  BY <1>10, ModUnique
  <1> QED BY <1>8 DEF q, r, p, v, m, t

(* A length that fits its prefix is read back as it was written.            *)
LEMMA RoundTrip ==
    ASSUME NEW n \in Nat, n < Weight[LengthSize]
    PROVE  LengthBytes(n) \in Digits /\ LengthOf(LengthBytes(n)) = n
  <1> DEFINE b == LengthBytes(n)
  <1>1. ASSUME NEW i \in 1..LengthSize PROVE b[i] = (n \div Weight[i - 1]) % Base /\ b[i] \in 0..(Base - 1)
    <2>1. b[i] = (n \div Weight[i - 1]) % Base  BY DEF LengthBytes
    <2>2. Weight[i - 1] \in Nat \ {0}  BY Weights, RingNumbers
    <2>3. n \div Weight[i - 1] \in Int  BY <2>2
    <2> QED BY <2>1, <2>3, RingNumbers, DivSplit
  <1>2. b \in Digits  BY <1>1 DEF LengthBytes, Digits
  <1> HIDE DEF b
  <1>3. PICK value \in [0..LengthSize -> Nat] : Values(value, b) /\ LengthOf(b) = value[LengthSize]
    BY <1>2, LengthValues
  <1> DEFINE Bad == {i \in 0..LengthSize : value[i] # n % Weight[i]}
  <1>4. Bad = {}
    <2> SUFFICES ASSUME Bad # {} PROVE FALSE  OBVIOUS
    <2>1. PICK i \in Bad : \A m \in Bad : i <= m
      <3>1. Bad \in SUBSET Nat  BY RingNumbers
      <3> QED BY <3>1, SmallestExists
    <2>2. i # 0
      <3>1. value[0] = 0 /\ Weight[0] = 1  BY <1>3, Weights, RingNumbers DEF Values
      <3>2. n % 1 = 0  BY ModUnique
      <3> QED BY <2>1, <3>1, <3>2
    <2>3. i \in 1..LengthSize /\ i - 1 \in 0..LengthSize /\ i - 1 \notin Bad  BY <2>1, <2>2, RingNumbers
    <2>4. value[i] = value[i - 1] + b[i] * Weight[i - 1]  BY <1>3, <2>2, <2>3 DEF Values
    <2>5. value[i - 1] = n % Weight[i - 1]  BY <2>3
    <2>6. Weight[i] = Base * Weight[i - 1] /\ Weight[i - 1] \in Nat \ {0}  BY <2>3, Weights
    <2>7. n % (Base * Weight[i - 1]) = (n % Weight[i - 1]) + ((n \div Weight[i - 1]) % Base) * Weight[i - 1]
      BY <2>6, DigitStep, RingNumbers
    <2> QED BY <1>1, <2>1, <2>3, <2>4, <2>5, <2>6, <2>7
  <1>5. n % Weight[LengthSize] = n
    <2>1. Weight[LengthSize] \in Nat \ {0}  BY Weights, RingNumbers
    <2> QED BY <2>1, ModUnique
  <1>6. value[LengthSize] = n % Weight[LengthSize]  BY <1>4, RingNumbers
  <1> QED BY <1>2, <1>3, <1>5, <1>6 DEF b

(* What the arena is made of.                                               *)
Byte == 0..(Base - 1)
Arenas == [0..(Capacity - 1) -> Byte]

(* Positions count on where offsets wrap: a position is found at its        *)
(* remainder.                                                               *)
LEMMA CellAdd ==
    ASSUME NEW a \in Int, NEW m \in Int
    PROVE  /\ a % Capacity \in 0..(Capacity - 1)
           /\ ((a % Capacity) + m) % Capacity = (a + m) % Capacity
  <1> DEFINE x == a % Capacity
             y == (a + m) % Capacity
             u == a \div Capacity
             v == (a + m) \div Capacity
  <1>1. x \in 0..(Capacity - 1) /\ u \in Int /\ a = Capacity * u + x  BY RingNumbers, DivSplit
  <1>4. y \in 0..(Capacity - 1) /\ v \in Int /\ a + m = Capacity * v + y
    <2>1. a + m \in Int  OBVIOUS
    <2> QED BY <2>1, RingNumbers, DivSplit
  <1> HIDE DEF x, y, u, v
  <1> DEFINE k == v - u
  <1>2. k \in Int /\ x + m \in Int /\ x + m = Capacity * k + y
    <2>1. Capacity * k = Capacity * v - Capacity * u  BY <1>1, <1>4, RingNumbers
    <2>2. Capacity * v \in Int /\ Capacity * u \in Int  BY <1>1, <1>4, RingNumbers
    <2>3. k \in Int  BY <1>1, <1>4
    <2> HIDE DEF k
    <2> QED BY <1>1, <1>4, <2>1, <2>2, <2>3, RingNumbers
  <1> HIDE DEF k
  <1>3. (x + m) % Capacity = y  BY <1>2, <1>4, ModUnique, RingNumbers
  <1> QED BY <1>1, <1>3 DEF x, y

(* How far one position is behind another, as WriteAt computes it. *)
LEMMA CellDiff ==
    ASSUME NEW p \in Int, NEW q \in Int, NEW j \in Int, NEW i \in 0..(Capacity - 1),
           p - q = Capacity * j + i
    PROVE  ((p % Capacity) + Capacity - (q % Capacity)) % Capacity = i
  <1> DEFINE x == p % Capacity
             y == q % Capacity
             u == p \div Capacity
             v == q \div Capacity
             z == x + Capacity - y
  <1>1. x \in 0..(Capacity - 1) /\ u \in Int /\ p = Capacity * u + x  BY RingNumbers, DivSplit
  <1>4. y \in 0..(Capacity - 1) /\ v \in Int /\ q = Capacity * v + y  BY RingNumbers, DivSplit
  <1> HIDE DEF x, y, u, v
  <1> DEFINE k == ((j - u) + v) + 1
  <1>2. k \in Int /\ z \in Int /\ z = Capacity * k + i
    <2>1. Capacity * k = ((Capacity * j - Capacity * u) + Capacity * v) + Capacity
      BY <1>1, <1>4, RingNumbers
    <2>2. Capacity * j \in Int /\ Capacity * v \in Int /\ Capacity * u \in Int
      BY <1>1, <1>4, RingNumbers
    <2>3. k \in Int  BY <1>1, <1>4
    <2> HIDE DEF k
    <2> QED BY <1>1, <1>4, <2>1, <2>2, <2>3, RingNumbers
  <1> HIDE DEF z, k
  <1>3. z % Capacity = i  BY <1>2, ModUnique, RingNumbers
  <1> QED BY <1>3 DEF x, y, z

(* A write fills the positions it is meant for and leaves alone those       *)
(* before, as far back as the arena reaches.                                *)
LEMMA WrittenAt ==
    ASSUME NEW b \in Arenas, NEW start \in Int, NEW d \in Seq(Byte), Len(d) <= Capacity
    PROVE  /\ WriteAt(b, start % Capacity, d) \in Arenas
           /\ \A p \in Int : start <= p /\ p < start + Len(d) =>
                WriteAt(b, start % Capacity, d)[p % Capacity] = d[p - start + 1]
           /\ \A p \in Int : start + Len(d) - Capacity <= p /\ p < start =>
                WriteAt(b, start % Capacity, d)[p % Capacity] = b[p % Capacity]
  <1> DEFINE Behind(o) == (o + Capacity - (start % Capacity)) % Capacity
             w == WriteAt(b, start % Capacity, d)
  <1>1. w = [o \in 0..(Capacity - 1) |-> IF Behind(o) < Len(d) THEN d[Behind(o) + 1] ELSE b[o]]
    BY DEF WriteAt, Arenas
  <1>2. ASSUME NEW o \in 0..(Capacity - 1) PROVE Behind(o) \in 0..(Capacity - 1)
    <2>1. start % Capacity \in 0..(Capacity - 1)  BY CellAdd
    <2>2. o + Capacity - (start % Capacity) \in Int  BY <2>1, RingNumbers
    <2> QED BY <2>2, CellAdd
  <1>3. ASSUME NEW p \in Int, NEW j \in Int, NEW i \in 0..(Capacity - 1), p - start = Capacity * j + i
        PROVE  w[p % Capacity] = IF i < Len(d) THEN d[i + 1] ELSE b[p % Capacity]
    <2>1. p % Capacity \in 0..(Capacity - 1)  BY CellAdd
    <2>2. Behind(p % Capacity) = i  BY <1>3, CellDiff
    <2> HIDE DEF Behind, w
    <2> QED BY <1>1, <2>1, <2>2
  <1>4. w \in Arenas
    <2>1. ASSUME NEW o \in 0..(Capacity - 1), NEW i \in 0..(Capacity - 1)
          PROVE  (IF i < Len(d) THEN d[i + 1] ELSE b[o]) \in Byte
      <3>1. CASE i < Len(d)
        <4>1. i + 1 \in 1..Len(d)  BY <3>1, RingNumbers
        <4> QED BY <3>1, <4>1
      <3>2. CASE ~(i < Len(d))  BY <3>2 DEF Arenas
      <3> QED BY <3>1, <3>2
    <2> HIDE DEF Behind
    <2> QED BY <1>1, <1>2, <2>1 DEF Arenas
  <1> HIDE DEF w
  <1>5. ASSUME NEW p \in Int, start <= p, p < start + Len(d)
        PROVE  w[p % Capacity] = d[p - start + 1]
    <2>1. p - start \in 0..(Capacity - 1) /\ p - start = Capacity * 0 + (p - start)
      BY <1>5, RingNumbers
    <2>2. w[p % Capacity] = IF p - start < Len(d) THEN d[(p - start) + 1] ELSE b[p % Capacity]
      BY <1>3, <2>1
    <2> QED BY <1>5, <2>2
  <1>6. ASSUME NEW p \in Int, start + Len(d) - Capacity <= p, p < start
        PROVE  w[p % Capacity] = b[p % Capacity]
    <2> DEFINE i == p - start + Capacity
    <2>1. i \in 0..(Capacity - 1) /\ p - start = Capacity * (-1) + i /\ ~(i < Len(d))
      BY <1>6, RingNumbers
    <2> HIDE DEF i
    <2> QED BY <1>3, <2>1
  <1> QED BY <1>4, <1>5, <1>6 DEF w

(* A read is a sequence of bytes, the ones at the positions it covers.      *)
LEMMA ReadFrom ==
    ASSUME NEW b \in Arenas, NEW p \in Int, NEW n \in Nat
    PROVE  /\ ReadAt(b, p % Capacity, n) = [i \in 1..n |-> b[(p + i - 1) % Capacity]]
           /\ ReadAt(b, p % Capacity, n) \in Seq(Byte) /\ Len(ReadAt(b, p % Capacity, n)) = n
           /\ ReadAt(b, p % Capacity, n) \in [1..n -> Byte]
  <1>1. ASSUME NEW i \in 1..n
        PROVE  /\ ((p % Capacity) + i - 1) % Capacity = (p + i - 1) % Capacity
               /\ b[(p + i - 1) % Capacity] \in Byte
    <2>1. ((p % Capacity) + (i - 1)) % Capacity = (p + (i - 1)) % Capacity  BY CellAdd
    <2>2. p % Capacity \in Int  BY CellAdd
    <2>3. (p % Capacity) + (i - 1) = (p % Capacity) + i - 1 /\ p + (i - 1) = p + i - 1  BY <2>2
    <2>4. (p + i - 1) % Capacity \in 0..(Capacity - 1)
      <3>1. p + i - 1 \in Int  OBVIOUS
      <3> QED BY <3>1, CellAdd
    <2> QED BY <2>1, <2>3, <2>4 DEF Arenas
  <1>2. ReadAt(b, p % Capacity, n) = [i \in 1..n |-> b[(p + i - 1) % Capacity]]
    BY <1>1 DEF ReadAt
  <1>3. ReadAt(b, p % Capacity, n) \in [1..n -> Byte]  BY <1>1, <1>2
  <1> QED BY <1>2, <1>3

(* What was written is what is read. *)
LEMMA ReadBack ==
    ASSUME NEW b \in Arenas, NEW p \in Int, NEW d \in Seq(Byte),
           \A i \in 1..Len(d) : b[(p + i - 1) % Capacity] = d[i]
    PROVE  ReadAt(b, p % Capacity, Len(d)) = d
  <1> DEFINE n == Len(d)
  <1>3. n \in Nat  OBVIOUS
  <1> HIDE DEF n
  <1>1. ReadAt(b, p % Capacity, n) = [i \in 1..n |-> b[(p + i - 1) % Capacity]]
    BY <1>3, ReadFrom
  <1>2. d = [i \in 1..n |-> d[i]]  BY DEF n
  <1> QED BY <1>1, <1>2 DEF n

(* A read finds the same where the bytes are the same.                      *)
LEMMA ReadSame ==
    ASSUME NEW b \in Arenas, NEW c \in Arenas, NEW p \in Int, NEW n \in Nat,
           \A x \in p..(p + n - 1) : c[x % Capacity] = b[x % Capacity]
    PROVE  ReadAt(c, p % Capacity, n) = ReadAt(b, p % Capacity, n)
  <1>1. \A i \in 1..n : c[(p + i - 1) % Capacity] = b[(p + i - 1) % Capacity]  OBVIOUS
  <1>2. /\ ReadAt(c, p % Capacity, n) = [i \in 1..n |-> c[(p + i - 1) % Capacity]]
        /\ ReadAt(b, p % Capacity, n) = [i \in 1..n |-> b[(p + i - 1) % Capacity]]
    BY ReadFrom
  <1> QED BY <1>1, <1>2
(* The length an entry at position p claims.                                *)
LengthAt(b, p) == LengthOf(ReadAt(b, p % Capacity, LengthSize))

(* What the arena holds: a sequence of entries.                             *)
EntrySeqs == Seq(Seq(Byte))

(* A length read from an arena is a number.                                 *)
LEMMA LengthNat ==
    ASSUME NEW b \in Arenas, NEW p \in Int PROVE LengthAt(b, p) \in Nat
  <1>1. ReadAt(b, p % Capacity, LengthSize) \in Digits  BY ReadFrom, RingNumbers DEF Digits, Byte
  <1> QED BY <1>1, LengthValues, RingNumbers DEF LengthAt

(* Entries of an arena b over the n bytes before position end. *)
Walks(walk, b, end) ==
    walk = [n \in 0..Capacity |->
              IF n < LengthSize THEN <<>>
              ELSE LET off == (end - n) % Capacity
                       len == LengthOf(ReadAt(b, off, LengthSize))
                   IN  IF LengthSize + len > n THEN <<>>
                       ELSE <<ReadAt(b, (off + LengthSize) % Capacity, len)>>
                              \o walk[n - LengthSize - len]]

Walk(b, end, n) == (CHOOSE walk : Walks(walk, b, end))[n]

(* Entries is the walk over the live bytes.                                 *)
LEMMA EntriesWalk ==
    /\ Entries = Walk(buf, tail + bytes, bytes)
    /\ Entries' = Walk(buf', tail' + bytes', bytes')
  <1>1. Entries = Walk(buf, tail + bytes, bytes)  BY DEF Entries, Walk, Walks
  <1>2. Entries' = Walk(buf', tail' + bytes', bytes')  BY DEF Entries, Walk, Walks
  <1> QED BY <1>1, <1>2

(* The recursion of a walk, over positions.                                 *)
LEMMA WalkAt ==
    ASSUME NEW b \in Arenas, NEW end \in Int, NEW walk, Walks(walk, b, end), NEW n \in 0..Capacity
    PROVE  walk[n] = IF n < LengthSize \/ LengthSize + LengthAt(b, end - n) > n THEN <<>>
                     ELSE <<ReadAt(b, (end - n + LengthSize) % Capacity, LengthAt(b, end - n))>>
                            \o walk[n - LengthSize - LengthAt(b, end - n)]
  <1>1. end - n \in Int /\ LengthSize \in Int  BY RingNumbers
  <1>2. (((end - n) % Capacity) + LengthSize) % Capacity = (end - n + LengthSize) % Capacity
    BY <1>1, CellAdd
  <1> QED BY <1>2 DEF Walks, LengthAt

(* The recursion of a walk has a solution: every entry takes bytes.         *)
LEMMA WalkExists ==
    ASSUME NEW b \in Arenas, NEW end \in Int
    PROVE  \E walk \in [0..Capacity -> EntrySeqs] : Walks(walk, b, end)
  <1> DEFINE Stop == {n \in 0..Capacity : n < LengthSize \/ LengthSize + LengthAt(b, end - n) > n}
             first == [n \in 0..Capacity |->
                         ReadAt(b, (end - n + LengthSize) % Capacity, LengthAt(b, end - n))]
             prev == [n \in 0..Capacity |-> n - LengthSize - LengthAt(b, end - n)]
             step == [n \in 0..Capacity |-> [x \in EntrySeqs |-> <<first[n]>> \o x]]
  <1>1. ASSUME NEW n \in 0..Capacity
        PROVE  LengthAt(b, end - n) \in Nat /\ first[n] \in Seq(Byte)
    <2>1. end - n \in Int /\ end - n + LengthSize \in Int  BY RingNumbers
    <2>2. LengthAt(b, end - n) \in Nat  BY <2>1, LengthNat
    <2> QED BY <2>1, <2>2, ReadFrom
  <1>2. \A n \in (0..Capacity) \ Stop : prev[n] \in 0..(n - 1)
    <2> SUFFICES ASSUME NEW n \in (0..Capacity) \ Stop PROVE prev[n] \in 0..(n - 1)  OBVIOUS
    <2> DEFINE len == LengthAt(b, end - n)
    <2>1. len \in Nat /\ ~(LengthSize + len > n) /\ prev[n] = n - LengthSize - len  BY <1>1
    <2> HIDE DEF len, prev, Stop
    <2> QED BY <2>1, RingNumbers
  <1>3. ASSUME NEW n \in 0..Capacity PROVE step[n] \in [EntrySeqs -> EntrySeqs]
    <2> HIDE DEF first
    <2>1. \A x \in EntrySeqs : <<first[n]>> \o x \in EntrySeqs  BY <1>1 DEF EntrySeqs
    <2> QED BY <2>1
  <1>4. <<>> \in EntrySeqs  BY DEF EntrySeqs
  <1> HIDE DEF Stop, prev, step, first
  <1>5. Descends(Capacity, EntrySeqs, <<>>, Stop, prev, step)
    BY <1>2, <1>3, <1>4, RingNumbers DEF Descends
  <1>6. PICK f \in [0..Capacity -> EntrySeqs] :
           f = [n \in 0..Capacity |-> IF n \in Stop THEN <<>> ELSE step[n][f[prev[n]]]]
    BY <1>5, Recursion DEF Solvable
  <1>7. ASSUME NEW n \in 0..Capacity
        PROVE  f[n] = IF n < LengthSize THEN <<>>
                      ELSE LET off == (end - n) % Capacity
                               len == LengthOf(ReadAt(b, off, LengthSize))
                           IN  IF LengthSize + len > n THEN <<>>
                               ELSE <<ReadAt(b, (off + LengthSize) % Capacity, len)>>
                                      \o f[n - LengthSize - len]
    <2> DEFINE len == LengthAt(b, end - n)
    <2>1. end - n \in Int /\ LengthSize \in Int  BY RingNumbers
    <2>2. (((end - n) % Capacity) + LengthSize) % Capacity = (end - n + LengthSize) % Capacity
      BY <2>1, CellAdd
    <2>3. f[n] = IF n \in Stop THEN <<>> ELSE step[n][f[prev[n]]]  BY <1>6
    <2>4. n \in Stop <=> (n < LengthSize \/ LengthSize + len > n)  BY DEF Stop
    <2>5. ASSUME n \notin Stop
          PROVE  step[n][f[prev[n]]]
                   = <<ReadAt(b, (end - n + LengthSize) % Capacity, len)>> \o f[n - LengthSize - len]
      <3>1. prev[n] = n - LengthSize - len  BY DEF prev
      <3>4. prev[n] \in 0..(n - 1)  BY <1>2, <2>5
      <3>5. prev[n] \in 0..Capacity  BY <3>4, RingNumbers
      <3>2. f[prev[n]] \in EntrySeqs  BY <3>5
      <3>3. step[n][f[prev[n]]] = <<first[n]>> \o f[prev[n]]  BY <3>2 DEF step
      <3> QED BY <3>1, <3>3 DEF first
    <2> QED BY <2>2, <2>3, <2>4, <2>5 DEF LengthAt
  <1>8. Walks(f, b, end)  BY <1>6, <1>7 DEF Walks
  <1> QED BY <1>8

(* What the walk finds before position end: nothing on no bytes, and where *)
(* an entry fits, the entry and what the walk finds behind it.              *)
LEMMA WalkStep ==
    ASSUME NEW b \in Arenas, NEW end \in Int
    PROVE  /\ Walk(b, end, 0) = <<>>
           /\ \A n \in 0..Capacity : LengthSize + LengthAt(b, end - n) <= n =>
                Walk(b, end, n)
                  = <<ReadAt(b, (end - n + LengthSize) % Capacity, LengthAt(b, end - n))>>
                      \o Walk(b, end, n - LengthSize - LengthAt(b, end - n))
  <1> DEFINE walk == CHOOSE walk : Walks(walk, b, end)
  <1>1. Walks(walk, b, end)  BY WalkExists
  <1>2. \A n : Walk(b, end, n) = walk[n]  BY DEF Walk
  <1> HIDE DEF walk
  <1>3. walk[0] = <<>>
    <2>1. 0 \in 0..Capacity /\ 0 < LengthSize  BY RingNumbers
    <2> QED BY <1>1, <2>1, WalkAt
  <1>4. ASSUME NEW n \in 0..Capacity, LengthSize + LengthAt(b, end - n) <= n
        PROVE  walk[n] = <<ReadAt(b, (end - n + LengthSize) % Capacity, LengthAt(b, end - n))>>
                           \o walk[n - LengthSize - LengthAt(b, end - n)]
    <2>1. end - n \in Int  OBVIOUS
    <2>2. LengthAt(b, end - n) \in Nat  BY <2>1, LengthNat
    <2>3. ~(n < LengthSize \/ LengthSize + LengthAt(b, end - n) > n)  BY <1>4, <2>2, RingNumbers
    <2> QED BY <1>1, <2>3, WalkAt
  <1> QED BY <1>2, <1>3, <1>4

(* Only the offset of end matters. *)
LEMMA WalkOffset ==
    ASSUME NEW b, NEW end \in Int, NEW again \in Int, end % Capacity = again % Capacity, NEW n
    PROVE  Walk(b, end, n) = Walk(b, again, n)
  <1>1. ASSUME NEW m \in 0..Capacity PROVE (end - m) % Capacity = (again - m) % Capacity
    <2>1. -m \in Int  OBVIOUS
    <2>2. /\ ((end % Capacity) + (-m)) % Capacity = (end + (-m)) % Capacity
          /\ ((again % Capacity) + (-m)) % Capacity = (again + (-m)) % Capacity
      BY <2>1, CellAdd
    <2>3. end + (-m) = end - m /\ again + (-m) = again - m  OBVIOUS
    <2> QED BY <2>2, <2>3
  <1>2. \A walk : Walks(walk, b, end) <=> Walks(walk, b, again)  BY <1>1 DEF Walks
  <1> QED BY <1>2 DEF Walk

(* B holds the distances from position end at which the live entries       *)
(* begin: n for the oldest, 0 behind the newest.                            *)
Bounds(B, b, end, n) ==
    /\ B \in SUBSET (0..n) /\ 0 \in B /\ n \in B
    /\ \A m \in B \ {0} : /\ LengthSize + LengthAt(b, end - m) <= m
                          /\ m - LengthSize - LengthAt(b, end - m) \in B

(* A walk finds entries only.                                               *)
LEMMA WalkTyped ==
    ASSUME NEW b \in Arenas, NEW end \in Int, NEW n \in 0..Capacity
    PROVE  Walk(b, end, n) \in EntrySeqs
  <1> DEFINE walk == CHOOSE walk : Walks(walk, b, end)
             Bad == {m \in 0..Capacity : walk[m] \notin EntrySeqs}
  <1>1. Walks(walk, b, end)  BY WalkExists
  <1>2. Walk(b, end, n) = walk[n]  BY DEF Walk
  <1> HIDE DEF walk
  <1>3. Bad = {}
    <2> SUFFICES ASSUME Bad # {} PROVE FALSE  OBVIOUS
    <2>1. Bad \in SUBSET Nat  BY RingNumbers
    <2>2. PICK m \in Bad : \A x \in Bad : m <= x  BY <2>1, SmallestExists
    <2>3. end - m \in Int /\ (end - m) + LengthSize \in Int  BY RingNumbers
    <2> DEFINE len == LengthAt(b, end - m)
               rest == m - LengthSize - len
    <2>4. len \in Nat  BY <2>3, LengthNat
    <2>5. ReadAt(b, (end - m + LengthSize) % Capacity, len) \in Seq(Byte)  BY <2>3, <2>4, ReadFrom
    <2> HIDE DEF len
    <2>6. walk[m] = IF m < LengthSize \/ LengthSize + len > m THEN <<>>
                    ELSE <<ReadAt(b, (end - m + LengthSize) % Capacity, len)>> \o walk[rest]
      <3>1. m \in 0..Capacity  BY <2>2
      <3> QED BY <1>1, <3>1, WalkAt DEF len
    <2>7. ASSUME ~(m < LengthSize \/ LengthSize + len > m) PROVE walk[rest] \in EntrySeqs
      <3>1. rest \in 0..Capacity /\ rest < m  BY <2>2, <2>4, <2>7, RingNumbers
      <3>2. rest \notin Bad  BY <2>1, <2>2, <3>1
      <3> QED BY <3>1, <3>2
    <2> HIDE DEF rest
    <2>8. walk[m] \in EntrySeqs  BY <2>5, <2>6, <2>7 DEF EntrySeqs
    <2> QED BY <2>2, <2>8
  <1> QED BY <1>2, <1>3

(* An entry begins m bytes before position end, and another right behind   *)
(* it.                                                                      *)
EntryAt(B, b, end, m) ==
    /\ m \in 0..Capacity /\ end - m \in Int /\ LengthAt(b, end - m) \in Nat
    /\ LengthSize + LengthAt(b, end - m) <= m
    /\ m - LengthSize - LengthAt(b, end - m) \in B
    /\ m - LengthSize - LengthAt(b, end - m) < m
    /\ Walk(b, end, m)
         = <<ReadAt(b, (end - m + LengthSize) % Capacity, LengthAt(b, end - m))>>
             \o Walk(b, end, m - LengthSize - LengthAt(b, end - m))

(* Every bound but the last is where an entry begins.                       *)
LEMMA BoundsStep ==
    ASSUME NEW b \in Arenas, NEW end \in Int, NEW n \in 0..Capacity, NEW B, Bounds(B, b, end, n),
           NEW m \in B, m # 0
    PROVE  m \in 1..n /\ EntryAt(B, b, end, m)
  <1>1. m \in 0..n /\ m \in 0..Capacity /\ end - m \in Int  BY RingNumbers DEF Bounds
  <1>2. LengthAt(b, end - m) \in Nat  BY <1>1, LengthNat
  <1>3. LengthSize + LengthAt(b, end - m) <= m /\ m - LengthSize - LengthAt(b, end - m) \in B
    BY DEF Bounds
  <1>4. m - LengthSize - LengthAt(b, end - m) < m  BY <1>1, <1>2, RingNumbers
  <1>5. Walk(b, end, m)
         = <<ReadAt(b, (end - m + LengthSize) % Capacity, LengthAt(b, end - m))>>
             \o Walk(b, end, m - LengthSize - LengthAt(b, end - m))
    BY <1>1, <1>3, WalkStep
  <1> QED BY <1>1, <1>2, <1>3, <1>4, <1>5 DEF EntryAt

(* A push: the bytes before end stay and behind them stands an entry d.    *)
Pushed(b, c, end, n, d) ==
    /\ LengthSize + Len(d) <= Capacity - n
    /\ \A p \in (end - n)..(end - 1) : c[p % Capacity] = b[p % Capacity]
    /\ LengthAt(c, end) = Len(d) /\ ReadAt(c, (end + LengthSize) % Capacity, Len(d)) = d

(* A push leaves an entry that was live as it was.                          *)
LEMMA EntryKept ==
    ASSUME NEW b \in Arenas, NEW c \in Arenas, NEW end \in Int, NEW n \in 0..Capacity,
           NEW d, Pushed(b, c, end, n, d), NEW m \in 1..n,
           LengthAt(b, end - m) \in Nat, LengthSize + LengthAt(b, end - m) <= m
    PROVE  /\ LengthAt(c, end - m) = LengthAt(b, end - m)
           /\ ReadAt(c, (end - m + LengthSize) % Capacity, LengthAt(b, end - m))
                = ReadAt(b, (end - m + LengthSize) % Capacity, LengthAt(b, end - m))
  <1> DEFINE len == LengthAt(b, end - m)
  <1>1. end - m \in Int /\ (end - m) + LengthSize \in Int  BY RingNumbers
  <1>2. \A p \in (end - m)..((end - m) + LengthSize - 1) : c[p % Capacity] = b[p % Capacity]
    <2>1. len \in Nat /\ LengthSize + len <= m  OBVIOUS
    <2> HIDE DEF len
    <2>2. \A p \in (end - m)..((end - m) + LengthSize - 1) : p \in (end - n)..(end - 1)
      BY <2>1, RingNumbers
    <2> QED BY <2>2 DEF Pushed
  <1>3. ReadAt(c, (end - m) % Capacity, LengthSize) = ReadAt(b, (end - m) % Capacity, LengthSize)
    BY <1>1, <1>2, ReadSame, RingNumbers
  <1>4. \A p \in ((end - m) + LengthSize)..(((end - m) + LengthSize) + len - 1) :
           c[p % Capacity] = b[p % Capacity]
    <2>1. len \in Nat /\ LengthSize + len <= m  OBVIOUS
    <2> HIDE DEF len
    <2>2. \A p \in ((end - m) + LengthSize)..(((end - m) + LengthSize) + len - 1) :
             p \in (end - n)..(end - 1)
      BY <2>1, RingNumbers
    <2> QED BY <2>2 DEF Pushed
  <1>5. len \in Nat  OBVIOUS
  <1> HIDE DEF len
  <1>6. ReadAt(c, ((end - m) + LengthSize) % Capacity, len)
          = ReadAt(b, ((end - m) + LengthSize) % Capacity, len)
    BY <1>1, <1>4, <1>5, ReadSame
  <1> QED BY <1>3, <1>6 DEF len, LengthAt

(* The bounds a push leaves: the old ones, one entry further from the end.  *)
Shifted(B, total) == {0} \cup {m + total : m \in B}

LEMMA PushBounds ==
    ASSUME NEW b \in Arenas, NEW c \in Arenas, NEW end \in Int, NEW n \in 0..Capacity,
           NEW d \in Seq(Byte), Pushed(b, c, end, n, d), NEW B, Bounds(B, b, end, n),
           NEW total, total = LengthSize + Len(d)
    PROVE  Bounds(Shifted(B, total), c, end + total, n + total)
  <1> DEFINE D == {0} \cup {m + total : m \in B}
  <1>1. total \in Nat \ {0} /\ n + total <= Capacity  BY RingNumbers DEF Pushed
  <1>2. B \in SUBSET (0..n) /\ 0 \in B /\ n \in B  BY DEF Bounds
  <1>3. D \in SUBSET (0..(n + total)) /\ 0 \in D /\ n + total \in D  BY <1>1, <1>2
  <1>4. ASSUME NEW m \in B, m # 0
        PROVE  /\ LengthSize + LengthAt(c, end + total - (m + total)) <= m + total
               /\ (m + total) - LengthSize - LengthAt(c, end + total - (m + total)) \in D
    <2> DEFINE len == LengthAt(b, end - m)
    <2>1. len \in Nat /\ LengthSize + len <= m /\ m - LengthSize - len \in B /\ m \in 1..n
      <3>1. m \in 1..n /\ EntryAt(B, b, end, m)  BY <1>4, BoundsStep
      <3> QED BY <3>1 DEF EntryAt
    <2>2. LengthAt(c, end - m) = len  BY <2>1, EntryKept
    <2>3. end + total - (m + total) = end - m  BY <1>1, <2>1
    <2> HIDE DEF len
    <2>4. (m + total) - LengthSize - len = (m - LengthSize - len) + total  BY <1>1, <2>1, RingNumbers
    <2>5. (m - LengthSize - len) + total \in D  BY <2>1
    <2>6. LengthSize + len <= m + total  BY <1>1, <2>1, RingNumbers
    <2> HIDE DEF D
    <2> QED BY <2>2, <2>3, <2>4, <2>5, <2>6
  <1>5. /\ LengthSize + LengthAt(c, end + total - (0 + total)) <= 0 + total
        /\ (0 + total) - LengthSize - LengthAt(c, end + total - (0 + total)) \in D
    <2>1. end + total - (0 + total) = end  BY <1>1
    <2>2. LengthAt(c, end) = Len(d) /\ Len(d) \in Nat  BY DEF Pushed
    <2>3. total - LengthSize - Len(d) = 0 /\ 0 + total = total  BY <2>2, RingNumbers
    <2> HIDE DEF D
    <2> QED BY <1>3, <2>1, <2>2, <2>3, <1>1
  <1>6. ASSUME NEW x \in D \ {0}
        PROVE  /\ LengthSize + LengthAt(c, end + total - x) <= x
               /\ x - LengthSize - LengthAt(c, end + total - x) \in D
    <2>1. PICK m \in B : x = m + total  BY <1>6
    <2> HIDE DEF D
    <2>2. CASE m = 0  BY <1>5, <2>1, <2>2
    <2>3. CASE m # 0  BY <1>4, <2>1, <2>3
    <2> QED BY <2>2, <2>3
  <1> HIDE DEF D
  <1>7. Bounds(D, c, end + total, n + total)  BY <1>3, <1>6 DEF Bounds
  <1> QED BY <1>7 DEF D, Shifted

(* What is put in front and what is put behind do not meet.                 *)
LEMMA ConsAppend ==
    ASSUME NEW x \in Seq(Byte), NEW w \in EntrySeqs, NEW y \in Seq(Byte)
    PROVE  <<x>> \o Append(w, y) = Append(<<x>> \o w, y)
  BY DEF EntrySeqs

(* The walk of a push finds the old entries and behind them the new one.    *)
LEMMA PushWalk ==
    ASSUME NEW b \in Arenas, NEW c \in Arenas, NEW end \in Int, NEW n \in 0..Capacity,
           NEW d \in Seq(Byte), Pushed(b, c, end, n, d), NEW B, Bounds(B, b, end, n),
           NEW total, total = LengthSize + Len(d)
    PROVE  Walk(c, end + total, n + total) = Append(Walk(b, end, n), d)
  <1> DEFINE Bad == {m \in B : Walk(c, end + total, m + total) # Append(Walk(b, end, m), d)}
  <1>1. total \in Nat \ {0} /\ n + total <= Capacity /\ end + total \in Int /\ Len(d) \in Nat
    BY RingNumbers DEF Pushed
  <1>2. B \in SUBSET (0..n) /\ 0 \in B /\ n \in B  BY DEF Bounds
  <1>3. 0 \notin Bad
    <2>1. (end + total) - total = end /\ total \in 0..Capacity
          /\ total - LengthSize - Len(d) = 0 /\ 0 + total = total
      BY <1>1, RingNumbers
    <2>2. LengthAt(c, (end + total) - total) = Len(d)  BY <2>1 DEF Pushed
    <2>3. LengthSize + LengthAt(c, (end + total) - total) <= total  BY <1>1, <2>2, RingNumbers
    <2>4. Walk(c, end + total, total)
            = <<ReadAt(c, (((end + total) - total) + LengthSize) % Capacity,
                       LengthAt(c, (end + total) - total))>>
                \o Walk(c, end + total, total - LengthSize - LengthAt(c, (end + total) - total))
      BY <1>1, <2>1, <2>3, WalkStep
    <2>5. Walk(c, end + total, total) = <<d>> \o Walk(c, end + total, 0)
      BY <2>1, <2>2, <2>4 DEF Pushed
    <2>6. Walk(c, end + total, 0) = <<>> /\ Walk(b, end, 0) = <<>>  BY <1>1, WalkStep
    <2>7. <<d>> \o <<>> = Append(<<>>, d)  OBVIOUS
    <2> QED BY <2>1, <2>5, <2>6, <2>7
  <1>4. Bad = {}
    <2> SUFFICES ASSUME Bad # {} PROVE FALSE  OBVIOUS
    <2>1. Bad \in SUBSET Nat
      <3>1. Bad \in SUBSET B  OBVIOUS
      <3> HIDE DEF Bad
      <3> QED BY <1>2, <3>1
    <2>2. PICK m \in Bad : \A x \in Bad : m <= x  BY <2>1, SmallestExists
    <2>3. m \in B /\ m # 0  BY <1>3, <2>2
    <2> DEFINE len == LengthAt(b, end - m)
               rest == m - LengthSize - len
               e == ReadAt(b, (end - m + LengthSize) % Capacity, len)
    <2>4. /\ m \in 0..n /\ len \in Nat /\ LengthSize + len <= m /\ rest \in B /\ rest < m
          /\ end - m \in Int /\ Walk(b, end, m) = <<e>> \o Walk(b, end, rest)
      <3> HIDE DEF Bad
      <3>1. m \in 1..n /\ EntryAt(B, b, end, m)  BY <2>3, BoundsStep
      <3> QED BY <3>1 DEF EntryAt
    <2>5. m \in 1..n  BY <2>3, <2>4
    <2>6. /\ LengthAt(c, end - m) = len
          /\ ReadAt(c, (end - m + LengthSize) % Capacity, len) = e
      BY <2>4, <2>5, EntryKept
    <2>7. e \in Seq(Byte)
      <3>1. (end - m) + LengthSize \in Int  BY <2>4, RingNumbers
      <3> QED BY <2>4, <3>1, ReadFrom
    <2>8. Walk(b, end, rest) \in EntrySeqs
      <3> HIDE DEF rest
      <3>1. rest \in 0..Capacity  BY <1>2, <2>4, RingNumbers
      <3> QED BY <3>1, WalkTyped
    <2> HIDE DEF len, e
    <2>9. (end + total) - (m + total) = end - m /\ m + total \in 0..Capacity
          /\ (m + total) - LengthSize - len = rest + total /\ LengthSize + len <= m + total
      <3>1. m \in 0..n /\ len \in Nat /\ LengthSize + len <= m  BY <2>4, <2>5
      <3> HIDE DEF Bad
      <3> QED BY <1>1, <3>1, RingNumbers
    <2> DEFINE x == m + total
               z == end + total
    <2>10. /\ z - x = end - m /\ x \in 0..Capacity /\ x - LengthSize - len = rest + total
           /\ LengthSize + len <= x /\ z \in Int
      BY <1>1, <2>9
    <2> HIDE DEF x, z, rest
    <2>11. LengthAt(c, z - x) = len  BY <2>6, <2>10
    <2>12. LengthSize + LengthAt(c, z - x) <= x  BY <2>10, <2>11
    <2>13. Walk(c, z, x) = <<ReadAt(c, (z - x + LengthSize) % Capacity, LengthAt(c, z - x))>>
                             \o Walk(c, z, x - LengthSize - LengthAt(c, z - x))
      BY <2>10, <2>12, WalkStep
    <2>14. Walk(c, z, x) = <<e>> \o Walk(c, z, rest + total)
      BY <2>6, <2>10, <2>11, <2>13
    <2>15. Walk(c, z, rest + total) = Append(Walk(b, end, rest), d)
      <3>1. rest \notin Bad
        <4>1. rest \in Nat /\ m \in Nat  BY <1>2, <2>4
        <4> HIDE DEF Bad
        <4> QED BY <2>2, <2>4, <4>1
      <3> QED BY <2>4, <3>1 DEF z
    <2>16. <<e>> \o Append(Walk(b, end, rest), d) = Append(<<e>> \o Walk(b, end, rest), d)
      <3> DEFINE w == Walk(b, end, rest)
      <3>1. w \in EntrySeqs /\ e \in Seq(Byte)  BY <2>7, <2>8
      <3> HIDE DEF w
      <3>2. <<e>> \o Append(w, d) = Append(<<e>> \o w, d)  BY <3>1, ConsAppend
      <3> QED BY <3>2 DEF w
    <2>17. Walk(c, z, x) = Append(Walk(b, end, m), d)
      BY <2>4, <2>14, <2>15, <2>16
    <2> QED BY <2>2, <2>17 DEF z, x
  <1> QED BY <1>2, <1>4

(* The push of the code is one: its two writes leave the live bytes alone   *)
(* and are read back.                                                       *)
LEMMA WritePushed ==
    ASSUME NEW b \in Arenas, NEW end \in Int, NEW n \in 0..Capacity, NEW d \in Seq(Byte),
           Len(d) < Weight[LengthSize], n + LengthSize + Len(d) <= Capacity,
           NEW c, c = WriteAt(WriteAt(b, end % Capacity, LengthBytes(Len(d))),
                              (end + LengthSize) % Capacity, d)
    PROVE  c \in Arenas /\ Pushed(b, c, end, n, d)
  <1> DEFINE l == LengthBytes(Len(d))
             a == WriteAt(b, end % Capacity, l)
  <1>1. Len(d) \in Nat /\ l \in Digits /\ LengthOf(l) = Len(d)  BY RoundTrip
  <1>2. l \in Seq(Byte) /\ Len(l) = LengthSize
    <2> HIDE DEF l
    <2> QED BY <1>1, RingNumbers DEF Digits, Byte
  <1>3. end + LengthSize \in Int /\ LengthSize <= Capacity /\ Len(d) <= Capacity
    BY <1>1, RingNumbers
  <1>11. Len(d) \in Nat /\ LengthSize \in Nat /\ Capacity \in Nat /\ n \in Nat
    BY <1>1, RingNumbers
  <1> HIDE DEF l
  <1>4. /\ a \in Arenas
        /\ \A p \in Int : end <= p /\ p < end + Len(l) => a[p % Capacity] = l[p - end + 1]
        /\ \A p \in Int : end + Len(l) - Capacity <= p /\ p < end => a[p % Capacity] = b[p % Capacity]
    BY <1>2, <1>3, WrittenAt
  <1> HIDE DEF a
  <1> DEFINE more == end + LengthSize
  <1>5. /\ c \in Arenas
        /\ \A p \in Int : more <= p /\ p < more + Len(d) => c[p % Capacity] = d[p - more + 1]
        /\ \A p \in Int : more + Len(d) - Capacity <= p /\ p < more => c[p % Capacity] = a[p % Capacity]
    <2>1. c = WriteAt(a, more % Capacity, d)  BY DEF a, l
    <2>2. more \in Int  BY <1>3
    <2> HIDE DEF more
    <2> QED BY <1>3, <1>4, <2>1, <2>2, WrittenAt
  <1> DEFINE size == Len(d)
  <1>12. /\ size \in Nat /\ n + LengthSize + size <= Capacity
         /\ more = end + LengthSize /\ more \in Int
    BY <1>11
  <1> HIDE DEF size, more
  <1>6. ASSUME NEW p \in (end - n)..(end - 1) PROVE c[p % Capacity] = b[p % Capacity]
    <2>1. p \in Int /\ more + size - Capacity <= p /\ p < more  BY <1>11, <1>12
    <2>2. c[p % Capacity] = a[p % Capacity]  BY <1>5, <2>1 DEF size
    <2>3. end + Len(l) - Capacity <= p /\ p < end  BY <1>2, <1>11
    <2> QED BY <1>4, <2>1, <2>2, <2>3
  <1>7. ReadAt(c, end % Capacity, Len(l)) = l
    <2>1. ASSUME NEW i \in 1..Len(l) PROVE c[(end + i - 1) % Capacity] = l[i]
      <3> DEFINE p == end + i - 1
      <3>1. p \in Int /\ end <= p /\ p < end + Len(l) /\ p < more /\ p - end + 1 = i
            /\ more + size - Capacity <= p
        BY <1>2, <1>11, <1>12
      <3> HIDE DEF p
      <3>2. c[p % Capacity] = a[p % Capacity]  BY <1>5, <3>1 DEF size
      <3>3. a[p % Capacity] = l[p - end + 1]  BY <1>4, <3>1
      <3> QED BY <3>1, <3>2, <3>3 DEF p
    <2> QED BY <1>2, <1>5, <2>1, ReadBack
  <1>8. ReadAt(c, more % Capacity, Len(d)) = d
    <2>1. ASSUME NEW i \in 1..Len(d) PROVE c[(more + i - 1) % Capacity] = d[i]
      <3> DEFINE p == more + i - 1
      <3>1. p \in Int /\ more <= p /\ p < more + Len(d) /\ p - more + 1 = i
        BY <1>1, <1>12
      <3> HIDE DEF p
      <3>2. c[p % Capacity] = d[p - more + 1]  BY <1>5, <3>1
      <3> QED BY <3>1, <3>2 DEF p
    <2> QED BY <1>5, <1>12, <2>1, ReadBack
  <1>9. LengthAt(c, end) = Len(d)  BY <1>1, <1>2, <1>7 DEF LengthAt
  <1>10. LengthSize + Len(d) <= Capacity - n  BY <1>1, RingNumbers
  <1> QED BY <1>5, <1>6, <1>8, <1>9, <1>10, <1>12 DEF Pushed

(* The bytes each entry takes.                                              *)
Sizes(q) == [i \in DOMAIN q |-> LengthSize + Len(q[i])]

(* What the entries occupy is the sum of these.                             *)
LEMMA OccupiedTotal ==
    ASSUME NEW q \in EntrySeqs PROVE Fifo!Occupied(q) = Total(Sizes(q), 1..Len(q))
  <1> DEFINE Occ(total) ==
               total = [g \in SUBSET DOMAIN q |->
                          IF g = {} THEN 0
                          ELSE LET v == CHOOSE x \in g : TRUE
                               IN  (LengthSize + Len(q[v])) + total[g \ {v}]]
             total == CHOOSE total : Occ(total)
  <1>1. Fifo!Occupied(q) = total[DOMAIN q]
    BY DEF Fifo!Occupied, Fifo!FoldSeq, Fifo!FoldFunction, Fifo!FoldFunctionOnSet, Fifo!MapThenFoldSet
  <1>2. Weighed(Sizes(q), DOMAIN q)
    <2>1. IsFiniteSet(DOMAIN q)  BY FS_Interval DEF EntrySeqs
    <2>2. \A v \in DOMAIN q : Len(q[v]) \in Nat  BY DEF EntrySeqs
    <2> QED BY <2>1, <2>2, RingNumbers DEF Weighed, Sizes
  <1>3. PICK some : Sums(some, Sizes(q), DOMAIN q)  BY <1>2, SumsExist
  <1>4. ASSUME NEW t PROVE Sums(t, Sizes(q), DOMAIN q) <=> Occ(t)
    <2>1. ASSUME NEW g \in SUBSET DOMAIN q, g # {}
          PROVE  Sizes(q)[CHOOSE x \in g : TRUE] = LengthSize + Len(q[CHOOSE x \in g : TRUE])
      <3>1. (CHOOSE x \in g : TRUE) \in g  BY <2>1
      <3> QED BY <3>1 DEF Sizes
    <2> QED BY <2>1 DEF Sums
  <1>5. Occ(some)
    <2> HIDE DEF Occ
    <2> QED BY <1>3, <1>4
  <1>6. Occ(total)
    <2> HIDE DEF Occ
    <2> QED BY <1>5
  <1> HIDE DEF Occ, total
  <1>7. Sums(total, Sizes(q), DOMAIN q)  BY <1>4, <1>6
  <1>8. PICK u : Sums(u, Sizes(q), DOMAIN q) /\ Total(Sizes(q), DOMAIN q) = u[DOMAIN q]
    BY <1>2, TotalSums
  <1>9. total[DOMAIN q] = u[DOMAIN q]
    BY <1>2, <1>7, <1>8, SumsAgree DEF Weighed
  <1>10. DOMAIN q = 1..Len(q)  BY DEF EntrySeqs
  <1> QED BY <1>1, <1>8, <1>9, <1>10

(* Sizes can be summed.                                                     *)
LEMMA SizesWeighed ==
    ASSUME NEW q \in EntrySeqs, NEW k \in 0..Len(q) PROVE Weighed(Sizes(q), 1..k)
  <1>1. IsFiniteSet(1..k)  BY FS_Interval
  <1>2. \A v \in 1..k : v \in DOMAIN q /\ Len(q[v]) \in Nat  BY DEF EntrySeqs
  <1> QED BY <1>1, <1>2, RingNumbers DEF Weighed, Sizes

(* The sum over the entries behind the first one.                           *)
LEMMA SizesTake ==
    ASSUME NEW q \in EntrySeqs, NEW k \in 1..Len(q)
    PROVE  /\ Total(Sizes(q), 1..k) \in Nat
           /\ Total(Sizes(q), 1..k) = LengthSize + Len(q[k]) + Total(Sizes(q), 1..(k - 1))
  <1>1. ASSUME NEW S, NEW v \in S, Weighed(Sizes(q), S)
        PROVE  /\ Total(Sizes(q), S) \in Nat /\ Total(Sizes(q), S \ {v}) \in Nat
               /\ Total(Sizes(q), S) = Sizes(q)[v] + Total(Sizes(q), S \ {v})
    BY <1>1, TotalTake
  <1>2. Weighed(Sizes(q), 1..k)
    <2>1. k \in 0..Len(q)  OBVIOUS
    <2> QED BY <2>1, SizesWeighed
  <1>3. k \in 1..k /\ (1..k) \ {k} = 1..(k - 1)  OBVIOUS
  <1>4. Sizes(q)[k] = LengthSize + Len(q[k]) /\ Len(q[k]) \in Nat  BY DEF Sizes, EntrySeqs
  <1>5. /\ Total(Sizes(q), 1..k) \in Nat /\ Total(Sizes(q), 1..(k - 1)) \in Nat
        /\ Total(Sizes(q), 1..k) = Sizes(q)[k] + Total(Sizes(q), 1..(k - 1))
    BY <1>1, <1>2, <1>3
  <1> QED BY <1>4, <1>5, RingNumbers

(* An entry in front takes its size, whatever follows. *)

(* One more entry in front occupies its prefix and its bytes.               *)
LEMMA OccupiedCons ==
    ASSUME NEW e \in Seq(Byte), NEW q \in EntrySeqs
    PROVE  /\ Fifo!Occupied(<<>>) = 0 /\ Fifo!Occupied(q) \in Nat
           /\ Fifo!Occupied(<<e>> \o q) = LengthSize + Len(e) + Fifo!Occupied(q)
  <1> DEFINE r == <<e>> \o q
             Ahead(k) == Total(Sizes(q), 1..k)
             Bad == {k \in 0..Len(q) :
                       ~(/\ Ahead(k) \in Nat
                         /\ Total(Sizes(r), 1..(k + 1)) = LengthSize + Len(e) + Ahead(k))}
  <1>1. /\ r \in EntrySeqs /\ Len(q) \in Nat /\ Len(r) = Len(q) + 1 /\ r[1] = e
        /\ \A k \in 1..Len(q) : r[k + 1] = q[k]
    BY DEF EntrySeqs
  <1>2. Len(e) \in Nat /\ \A k \in 1..Len(q) : Len(q[k]) \in Nat  BY DEF EntrySeqs
  <1> HIDE DEF r
  <1>3. Bad = {}
    <2> SUFFICES ASSUME Bad # {} PROVE FALSE  OBVIOUS
    <2>1. Bad \in SUBSET Nat  BY <1>1
    <2>2. PICK k \in Bad : \A x \in Bad : k <= x  BY <2>1, SmallestExists
    <2>3. k \in 0..Len(q)  BY <2>2
    <2>4. k + 1 \in 1..Len(r) /\ (k + 1) - 1 = k  BY <1>1, <2>3
    <2>5. Total(Sizes(r), 1..(k + 1)) = LengthSize + Len(r[k + 1]) + Total(Sizes(r), 1..k)
      <3> DEFINE i == k + 1
      <3>1. i \in 1..Len(r) /\ i - 1 = k  BY <2>4
      <3> HIDE DEF i
      <3>2. Total(Sizes(r), 1..i) = LengthSize + Len(r[i]) + Total(Sizes(r), 1..(i - 1))
        BY <1>1, <3>1, SizesTake
      <3> QED BY <3>1, <3>2 DEF i
    <2>6. CASE k = 0
      <3>1. 1..0 = {} /\ k + 1 = 1  BY <2>6
      <3>2. Total(Sizes(r), 1..0) = 0 /\ Ahead(0) = 0  BY <3>1, TotalNone
      <3>3. Total(Sizes(r), 1..(k + 1)) = LengthSize + Len(e) + Ahead(k)
        BY <1>1, <1>2, <2>5, <2>6, <3>1, <3>2, RingNumbers
      <3> QED BY <2>2, <2>6, <3>2, <3>3
    <2>7. CASE k # 0
      <3>1. k \in 1..Len(q) /\ k - 1 \in 0..Len(q) /\ (k - 1) + 1 = k  BY <2>3, <2>7
      <3>2. k - 1 \notin Bad
        <4>1. k \in Nat  BY <2>3
        <4>2. ~(k <= k - 1)  BY <4>1
        <4> HIDE DEF Bad
        <4> QED BY <2>2, <4>2
      <3>3. Ahead(k - 1) \in Nat /\ Total(Sizes(r), 1..k) = LengthSize + Len(e) + Ahead(k - 1)
        BY <3>1, <3>2
      <3>4. Ahead(k) \in Nat /\ Ahead(k) = LengthSize + Len(q[k]) + Ahead(k - 1)
        BY <3>1, SizesTake
      <3>5. Len(r[k + 1]) = Len(q[k]) /\ Len(q[k]) \in Nat  BY <1>1, <1>2, <3>1
      <3> HIDE DEF Ahead
      <3>6. Total(Sizes(r), 1..(k + 1)) = LengthSize + Len(e) + Ahead(k)
        BY <1>2, <2>5, <3>3, <3>4, <3>5, RingNumbers
      <3> QED BY <2>2, <3>4, <3>6
    <2> QED BY <2>6, <2>7
  <1>4. Ahead(Len(q)) \in Nat /\ Total(Sizes(r), 1..(Len(q) + 1)) = LengthSize + Len(e) + Ahead(Len(q))
    BY <1>1, <1>3
  <1>5. Fifo!Occupied(q) = Ahead(Len(q)) /\ Fifo!Occupied(r) = Total(Sizes(r), 1..(Len(q) + 1))
    BY <1>1, OccupiedTotal
  <1>6. Fifo!Occupied(<<>>) = 0
    <2>1. <<>> \in EntrySeqs /\ Len(<<>>) = 0 /\ 1..0 = {}  BY DEF EntrySeqs
    <2>2. Fifo!Occupied(<<>>) = Total(Sizes(<<>>), 1..Len(<<>>))  BY <2>1, OccupiedTotal
    <2> QED BY <2>1, <2>2, TotalNone
  <1> QED BY <1>4, <1>5, <1>6 DEF r

(* A payload that was read is as long as its prefix says.                   *)
LEMMA ReadTyped ==
    ASSUME NEW b \in Arenas, NEW p \in Int, NEW n \in Nat
    PROVE  ReadAt(b, p % Capacity, n) \in Seq(Byte) /\ Len(ReadAt(b, p % Capacity, n)) = n
  <1>1. ReadAt(b, p % Capacity, n) \in Seq(Byte)  BY ReadFrom
  <1>2. Len(ReadAt(b, p % Capacity, n)) = n
    <2>1. ReadAt(b, p % Capacity, n) = [i \in 1..n |-> b[(p + i - 1) % Capacity]]  BY ReadFrom
    <2> QED BY <2>1
  <1> QED BY <1>1, <1>2

(* The entries the walk finds fill the bytes it walks. *)

(* A walk from bound to bound accounts for every live byte.                 *)
LEMMA WalkOccupies ==
    ASSUME NEW b \in Arenas, NEW end \in Int, NEW n \in 0..Capacity, NEW B, Bounds(B, b, end, n)
    PROVE  Fifo!Occupied(Walk(b, end, n)) = n
  <1> DEFINE Bad == {m \in B : Fifo!Occupied(Walk(b, end, m)) # m}
  <1>1. B \in SUBSET (0..n) /\ n \in B  BY DEF Bounds
  <1>2. 0 \notin Bad
    <2>1. <<>> \in Seq(Byte) /\ <<>> \in EntrySeqs  BY DEF EntrySeqs
    <2> QED BY <2>1, WalkStep, OccupiedCons
  <1>3. Bad = {}
    <2> SUFFICES ASSUME Bad # {} PROVE FALSE  OBVIOUS
    <2>1. Bad \in SUBSET Nat
      <3>1. Bad \in SUBSET B  OBVIOUS
      <3> HIDE DEF Bad
      <3> QED BY <1>1, <3>1
    <2>2. PICK m \in Bad : \A x \in Bad : m <= x  BY <2>1, SmallestExists
    <2>3. m \in B /\ m # 0  BY <1>2, <2>2
    <2> DEFINE len == LengthAt(b, end - m)
               rest == m - LengthSize - len
               e == ReadAt(b, (end - m + LengthSize) % Capacity, len)
    <2>4. /\ m \in 1..n /\ len \in Nat /\ LengthSize + len <= m /\ rest \in B /\ rest < m
          /\ end - m \in Int /\ Walk(b, end, m) = <<e>> \o Walk(b, end, rest)
      <3> HIDE DEF Bad
      <3>1. m \in 1..n /\ EntryAt(B, b, end, m)  BY <2>3, BoundsStep
      <3> QED BY <3>1 DEF EntryAt
    <2>5. e \in Seq(Byte) /\ Len(e) = len
      <3>1. (end - m) + LengthSize \in Int /\ len \in Nat  BY <2>4, RingNumbers
      <3> HIDE DEF len, Bad
      <3> QED BY <3>1, ReadTyped
    <2>6. rest \notin Bad /\ rest \in Nat
      <3> HIDE DEF Bad, rest
      <3>1. rest \in Nat /\ m \in Nat  BY <1>1, <2>4
      <3> QED BY <2>2, <2>4, <3>1
    <2>7. Fifo!Occupied(Walk(b, end, rest)) = rest  BY <2>4, <2>6
    <2>8. Walk(b, end, rest) \in EntrySeqs
      <3> HIDE DEF rest
      <3>1. rest \in 0..Capacity  BY <1>1, <2>4, RingNumbers
      <3> QED BY <3>1, WalkTyped
    <2> HIDE DEF e
    <2>9. Fifo!Occupied(<<e>> \o Walk(b, end, rest)) = LengthSize + len + rest
      <3> HIDE DEF rest, len
      <3> QED BY <2>5, <2>7, <2>8, OccupiedCons
    <2>10. LengthSize + len + rest = m  BY <2>4, RingNumbers
    <2>11. Fifo!Occupied(Walk(b, end, m)) = m
      <3> HIDE DEF rest, len
      <3> QED BY <2>4, <2>9, <2>10
    <2> QED BY <2>2, <2>11
  <1> QED BY <1>1, <1>3

-----------------------------------------------------------------------------
(* The inductive invariant: the live bytes of the arena are divided into    *)
(* whole entries, the write offset is behind the newest of them.            *)
RingInv ==
    /\ RingTypeOK /\ head = (tail + bytes) % Capacity
    /\ \E B : Bounds(B, buf, tail + bytes, bytes)

(* What the invariant says of the arena and of the entries in it.           *)
LEMMA RingFacts ==
    ASSUME RingInv
    PROVE  /\ buf \in Arenas /\ head \in 0..(Capacity - 1) /\ tail \in 0..(Capacity - 1)
           /\ bytes \in 0..Capacity /\ tail + bytes \in Int /\ bytes \in Nat /\ tail \in Nat
           /\ head = (tail + bytes) % Capacity
           /\ \E B : Bounds(B, buf, tail + bytes, bytes)
           /\ Entries = Walk(buf, tail + bytes, bytes) /\ Entries \in EntrySeqs
           /\ Fifo!Occupied(Entries) = bytes
  <1>1. /\ buf \in Arenas /\ head \in 0..(Capacity - 1) /\ tail \in 0..(Capacity - 1)
        /\ bytes \in 0..Capacity
    BY DEF RingInv, RingTypeOK, Arenas, Byte
  <1>2. tail + bytes \in Int /\ bytes \in Nat /\ tail \in Nat  BY <1>1, RingNumbers
  <1>3. PICK B : Bounds(B, buf, tail + bytes, bytes)  BY DEF RingInv
  <1>4. Entries = Walk(buf, tail + bytes, bytes)  BY EntriesWalk
  <1>5. Entries \in EntrySeqs  BY <1>1, <1>2, <1>4, WalkTyped
  <1>6. Fifo!Occupied(Entries) = bytes  BY <1>1, <1>2, <1>3, <1>4, WalkOccupies
  <1> QED BY <1>1, <1>2, <1>3, <1>4, <1>5, <1>6 DEF RingInv

(* An empty arena is an empty queue.                                        *)
LEMMA RingInitInv == ASSUME RingInit PROVE RingInv /\ Fifo!Init
  <1>1. buf \in Arenas
    <2>1. 0 \in Byte  BY RingNumbers DEF Byte
    <2> QED BY <2>1 DEF RingInit, Arenas
  <1>2. tail = 0 /\ bytes = 0 /\ head = 0 /\ tail + bytes = 0  BY DEF RingInit
  <1>3. RingTypeOK
    BY <1>1, <1>2, RingNumbers DEF RingInit, RingTypeOK, Arenas, Byte
  <1>4. Bounds({0}, buf, 0, 0)  BY DEF Bounds
  <1>5. 0 = 0 % Capacity
    <2>1. 0 \in 0..(Capacity - 1) /\ 0 = Capacity * 0 + 0  BY RingNumbers
    <2> QED BY <2>1, ModUnique, RingNumbers
  <1>6. RingInv  BY <1>2, <1>3, <1>4, <1>5 DEF RingInv
  <1>7. Entries = <<>>  BY <1>1, <1>2, EntriesWalk, WalkStep
  <1>8. ret = [ok |-> FALSE, data |-> <<>>]  BY DEF RingInit
  <1> QED BY <1>6, <1>7, <1>8 DEF Fifo!Init, Fifo!Refused

(* A refused call changes nothing.                                          *)
LEMMA RefusesInv ==
    ASSUME RingInv, RingRefuses PROVE RingInv' /\ Entries' = Entries /\ ret' = Fifo!Refused
  <1>1. /\ buf' = buf /\ head' = head /\ tail' = tail /\ bytes' = bytes
        /\ ret' = [ok |-> FALSE, data |-> <<>>]
    BY DEF RingRefuses
  <1>2. RingTypeOK'  BY <1>1 DEF RingInv, RingTypeOK
  <1>3. RingInv'  BY <1>1, <1>2 DEF RingInv
  <1> QED BY <1>1, <1>3, EntriesWalk DEF Fifo!Refused

(* A push is one of the queue.                                              *)
LEMMA PushInv ==
    ASSUME RingInv, NEW d \in Payloads, RingPush(d) PROVE RingInv' /\ Fifo!Push(d)
  <1>1. /\ buf \in Arenas /\ head \in 0..(Capacity - 1) /\ tail \in 0..(Capacity - 1)
        /\ bytes \in 0..Capacity /\ tail + bytes \in Int /\ bytes \in Nat /\ tail \in Nat
        /\ head = (tail + bytes) % Capacity
        /\ Entries = Walk(buf, tail + bytes, bytes) /\ Entries \in EntrySeqs
        /\ Fifo!Occupied(Entries) = bytes
    BY RingFacts
  <1>2. d \in Seq(Byte) /\ Len(d) < Weight[LengthSize] /\ Len(d) \in Nat  BY RingConstants DEF Byte
  <1>3. Fifo!Fits(d) <=> d # <<>> /\ RoomFor(d)  BY <1>1, <1>2, RingNumbers DEF Fifo!Fits, RoomFor
  <1>4. CASE (d = <<>> \/ ~RoomFor(d)) /\ RingRefuses
    <2>1. RingInv' /\ Entries' = Entries /\ ret' = Fifo!Refused  BY <1>4, RefusesInv
    <2> QED BY <1>3, <1>4, <2>1 DEF Fifo!Push
  <1>5. CASE /\ d # <<>> /\ RoomFor(d)
             /\ buf' = WriteAt(WriteAt(buf, head, LengthBytes(Len(d))), Advance(head, LengthSize), d)
             /\ head' = Advance(head, LengthSize + Len(d))
             /\ bytes' = bytes + (LengthSize + Len(d))
             /\ ret' = [ok |-> TRUE, data |-> <<>>]
             /\ UNCHANGED tail
    <2> DEFINE end == tail + bytes
               total == LengthSize + Len(d)
    <2>1. /\ end \in Int /\ total \in Nat /\ bytes + LengthSize + Len(d) <= Capacity
          /\ bytes' = bytes + total /\ tail' + bytes' = end + total /\ tail' = tail
          /\ head = end % Capacity
      BY <1>1, <1>2, <1>5, RingNumbers DEF RoomFor
    <2>2. Advance(head, LengthSize) = (end + LengthSize) % Capacity
          /\ Advance(head, total) = (end + total) % Capacity
          /\ (end + total) % Capacity \in 0..(Capacity - 1)
      <3>1. end + total \in Int  BY <2>1
      <3> HIDE DEF end, total
      <3>2. ((end % Capacity) + LengthSize) % Capacity = (end + LengthSize) % Capacity
        <4>1. LengthSize \in Int  BY RingNumbers
        <4> QED BY <2>1, <4>1, CellAdd
      <3>3. ((end % Capacity) + total) % Capacity = (end + total) % Capacity
        BY <2>1, CellAdd
      <3>4. (end + total) % Capacity \in 0..(Capacity - 1)  BY <3>1, CellAdd
      <3> QED BY <2>1, <3>2, <3>3, <3>4 DEF Advance
    <2>3. PICK B : Bounds(B, buf, end, bytes)  BY RingFacts
    <2>4. head' = (end + total) % Capacity  BY <1>5, <2>2
    <2>5. buf' = WriteAt(WriteAt(buf, end % Capacity, LengthBytes(Len(d))),
                         (end + LengthSize) % Capacity, d)
      BY <1>5, <2>1, <2>2
    <2>13. total = LengthSize + Len(d)  OBVIOUS
    <2> HIDE DEF end, total
    <2>6. buf' \in Arenas /\ Pushed(buf, buf', end, bytes, d)
      BY <1>1, <1>2, <2>1, <2>5, WritePushed
    <2>14. buf \in Arenas /\ end \in Int /\ bytes \in 0..Capacity /\ d \in Seq(Byte)
      BY <1>1, <1>2, <2>1
    <2>7. Bounds(Shifted(B, total), buf', end + total, bytes + total)
      <3>1. ASSUME NEW c \in Arenas, Pushed(buf, c, end, bytes, d)
            PROVE  Bounds(Shifted(B, total), c, end + total, bytes + total)
        BY <2>3, <2>13, <2>14, <3>1, PushBounds
      <3> QED BY <2>6, <3>1
    <2>8. Walk(buf', end + total, bytes + total) = Append(Walk(buf, end, bytes), d)
      <3>1. ASSUME NEW c \in Arenas, Pushed(buf, c, end, bytes, d)
            PROVE  Walk(c, end + total, bytes + total) = Append(Walk(buf, end, bytes), d)
        BY <2>3, <2>13, <2>14, <3>1, PushWalk
      <3> QED BY <2>6, <3>1
    <2>9. Entries' = Append(Entries, d)
      <3>1. Entries' = Walk(buf', tail' + bytes', bytes')  BY EntriesWalk
      <3>2. Entries = Walk(buf, end, bytes)  BY <1>1 DEF end
      <3> QED BY <2>1, <2>8, <3>1, <3>2
    <2>10. RingTypeOK'
      <3>1. bytes' \in 0..Capacity  BY <1>1, <1>2, <2>1, RingNumbers DEF total
      <3>2. head' \in 0..(Capacity - 1)  BY <2>2, <2>4
      <3>3. ret'.ok \in BOOLEAN /\ ret'.data \in Seq(0..(Base - 1))  BY <1>5
      <3> QED BY <1>1, <2>1, <2>6, <3>1, <3>2, <3>3 DEF RingTypeOK, Arenas, Byte
    <2>11. RingInv'
      <3>1. Bounds(Shifted(B, total), buf', tail' + bytes', bytes')  BY <2>1, <2>7
      <3>2. head' = (tail' + bytes') % Capacity  BY <2>1, <2>4
      <3> QED BY <2>10, <3>1, <3>2 DEF RingInv
    <2>12. Fifo!Push(d)
      BY <1>3, <1>5, <2>9 DEF Fifo!Push, Fifo!Accepted
    <2> QED BY <2>11, <2>12
  <1> QED BY <1>4, <1>5 DEF RingPush

(* A pop is one of the queue.                                               *)
LEMMA PopInv ==
    ASSUME RingInv, NEW cap \in OutCaps, RingPop(cap) PROVE RingInv' /\ Fifo!Pop(cap)
  <1> DEFINE end == tail + bytes
             len == LengthOf(ReadAt(buf, tail, LengthSize))
             total == LengthSize + len
             rest == bytes - LengthSize - len
             e == ReadAt(buf, Advance(tail, LengthSize), len)
  <1>1. /\ buf \in Arenas /\ head \in 0..(Capacity - 1) /\ tail \in 0..(Capacity - 1)
        /\ bytes \in 0..Capacity /\ end \in Int /\ bytes \in Nat /\ tail \in Nat
        /\ head = end % Capacity
        /\ Entries = Walk(buf, end, bytes) /\ Entries \in EntrySeqs
    BY RingFacts
  <1>2. PICK B : Bounds(B, buf, end, bytes)  BY RingFacts
  <1>3. tail % Capacity = tail /\ end - bytes = tail
    <2>1. tail \in 0..(Capacity - 1) /\ tail = Capacity * 0 + tail  BY <1>1, RingNumbers
    <2>2. tail % Capacity = tail  BY <1>1, <2>1, ModUnique, RingNumbers
    <2> QED BY <1>1, <2>2
  <1>4. ReadAt(buf, tail, LengthSize) = ReadAt(buf, tail % Capacity, LengthSize)  BY <1>3
  <1>5. len = LengthAt(buf, tail) /\ len \in Nat
    BY <1>1, <1>4, LengthNat DEF LengthAt
  <1>6. Advance(tail, LengthSize) = (tail + LengthSize) % Capacity
        /\ Advance(tail, total) = (tail + total) % Capacity
    BY DEF Advance
  <1> HIDE DEF end, len
  <1>7. CASE bytes = 0
    <2>1. Entries = <<>>  BY <1>1, <1>7, WalkStep
    <2>2. RingRefuses  BY <1>7 DEF RingPop
    <2>3. RingInv' /\ Entries' = Entries /\ ret' = Fifo!Refused  BY <2>2, RefusesInv
    <2> QED BY <2>1, <2>3 DEF Fifo!Pop, Fifo!Takes
  <1>8. CASE bytes # 0
    <2>1. /\ bytes \in 1..Capacity /\ total <= bytes /\ rest \in B /\ rest \in 0..Capacity
          /\ Entries = <<e>> \o Walk(buf, end, rest)
      <3>1. bytes \in B  BY <1>2 DEF Bounds
      <3>2. EntryAt(B, buf, end, bytes)  BY <1>1, <1>2, <1>8, <3>1, BoundsStep
      <3>3. /\ total <= bytes /\ rest \in B
            /\ Walk(buf, end, bytes) = <<ReadAt(buf, (tail + LengthSize) % Capacity, len)>>
                                          \o Walk(buf, end, rest)
        BY <1>3, <1>5, <3>2 DEF EntryAt
      <3>4. e = ReadAt(buf, (tail + LengthSize) % Capacity, len)  BY <1>6
      <3>5. rest \in 0..Capacity  BY <1>1, <1>5, <3>3, RingNumbers
      <3> QED BY <1>1, <1>8, <3>3, <3>4, <3>5
    <2>2. e \in Seq(Byte) /\ Len(e) = len
      <3>1. tail + LengthSize \in Int  BY <1>1, RingNumbers
      <3> QED BY <1>1, <1>5, <1>6, <3>1, ReadTyped
    <2>3. Walk(buf, end, rest) \in EntrySeqs  BY <1>1, <2>1, WalkTyped
    <2> HIDE DEF e, rest
    <2>4. Entries # <<>> /\ Head(Entries) = e /\ Tail(Entries) = Walk(buf, end, rest)
      BY <2>1, <2>2, <2>3 DEF EntrySeqs
    <2>5. Fifo!Takes(cap) <=> len <= cap  BY <2>2, <2>4 DEF Fifo!Takes
    <2>6. CASE len > cap /\ RingRefuses
      <3>1. RingInv' /\ Entries' = Entries /\ ret' = Fifo!Refused  BY <2>6, RefusesInv
      <3>2. ~(len <= cap)
        <4>1. cap \in Nat  BY RingConstants
        <4> QED BY <1>5, <2>6, <4>1
      <3> QED BY <2>5, <3>1, <3>2 DEF Fifo!Pop
    <2>7. CASE /\ len <= cap /\ ret' = [ok |-> TRUE, data |-> e]
               /\ tail' = Advance(tail, total) /\ bytes' = bytes - total
               /\ UNCHANGED <<buf, head>>
      <3>1. /\ tail' \in 0..(Capacity - 1) /\ bytes' = rest /\ bytes' \in Nat /\ buf' = buf /\ head' = head
            /\ tail' = (tail + total) % Capacity /\ tail + total \in Int
        <4>1. tail + total \in Int  BY <1>1, <1>5, RingNumbers
        <4>2. bytes - total = rest /\ rest \in Nat  BY <1>1, <1>5, <2>1, RingNumbers DEF rest
        <4> HIDE DEF total
        <4> QED BY <1>6, <2>7, <4>1, <4>2, CellAdd
      <3> DEFINE again == tail' + bytes'
      <3>2. again \in Int /\ again % Capacity = end % Capacity
        <4>1. (((tail + total) % Capacity) + rest) % Capacity = ((tail + total) + rest) % Capacity
          BY <2>1, <3>1, CellAdd
        <4>2. (tail + total) + rest = end  BY <1>1, <1>5, RingNumbers DEF rest, end
        <4> QED BY <3>1, <4>1, <4>2, RingNumbers
      <3>3. \A n : Walk(buf, end, n) = Walk(buf, again, n)  BY <1>1, <3>2, WalkOffset
      <3>4. \A m \in B : LengthAt(buf, again - m) = LengthAt(buf, end - m)
        <4> SUFFICES ASSUME NEW m \in B PROVE LengthAt(buf, again - m) = LengthAt(buf, end - m)
          OBVIOUS
        <4>1. m \in Int /\ -m \in Int  BY <1>1, <1>2 DEF Bounds
        <4> HIDE DEF again
        <4>2. /\ ((end % Capacity) + (-m)) % Capacity = (end + (-m)) % Capacity
              /\ ((again % Capacity) + (-m)) % Capacity = (again + (-m)) % Capacity
          BY <1>1, <3>2, <4>1, CellAdd
        <4>3. end + (-m) = end - m /\ again + (-m) = again - m  BY <1>1, <3>2, <4>1
        <4>4. (again - m) % Capacity = (end - m) % Capacity  BY <3>2, <4>2, <4>3
        <4> QED BY <4>4 DEF LengthAt
      <3> HIDE DEF again
      <3>5. Bounds(B \cap (0..rest), buf, again, rest)
        <4>1. 0 \in B /\ rest \in B /\ rest \in Nat  BY <1>2, <2>1, <3>1 DEF Bounds
        <4>2. ASSUME NEW m \in (B \cap (0..rest)) \ {0}
              PROVE  /\ LengthSize + LengthAt(buf, again - m) <= m
                     /\ m - LengthSize - LengthAt(buf, again - m) \in B \cap (0..rest)
          <5>1. EntryAt(B, buf, end, m)  BY <1>1, <1>2, <4>2, BoundsStep
          <5>2. LengthAt(buf, again - m) = LengthAt(buf, end - m)  BY <3>4, <4>2
          <5>3. /\ LengthAt(buf, end - m) \in Nat /\ LengthSize + LengthAt(buf, end - m) <= m
                /\ m - LengthSize - LengthAt(buf, end - m) \in B
            BY <5>1 DEF EntryAt
          <5>4. m - LengthSize - LengthAt(buf, end - m) \in 0..rest
            BY <4>1, <4>2, <5>3, RingNumbers
          <5> QED BY <5>2, <5>3, <5>4
        <4> QED BY <4>1, <4>2 DEF Bounds
      <3>6. RingTypeOK'
        <4>1. bytes' \in 0..Capacity  BY <2>1, <3>1
        <4>2. ret'.ok \in BOOLEAN /\ ret'.data \in Seq(0..(Base - 1))  BY <2>2, <2>7 DEF Byte
        <4> QED BY <1>1, <3>1, <4>1, <4>2 DEF RingTypeOK, Arenas, Byte
      <3>7. RingInv'
        <4>1. head' = (tail' + bytes') % Capacity  BY <1>1, <3>1, <3>2 DEF again
        <4>2. Bounds(B \cap (0..rest), buf', tail' + bytes', bytes')  BY <3>1, <3>5 DEF again
        <4> QED BY <3>6, <4>1, <4>2 DEF RingInv
      <3>8. Entries' = Tail(Entries)
        <4>1. Entries' = Walk(buf', tail' + bytes', bytes')  BY EntriesWalk
        <4> QED BY <2>4, <3>1, <3>3, <4>1 DEF again
      <3>9. Fifo!Pop(cap)
        BY <2>4, <2>5, <2>7, <3>8 DEF Fifo!Pop, Fifo!Returned
      <3> QED BY <3>7, <3>9
    <2>8. \/ (bytes = 0 \/ len > cap) /\ RingRefuses
          \/ /\ len <= cap /\ ret' = [ok |-> TRUE, data |-> e]
             /\ tail' = Advance(tail, total) /\ bytes' = bytes - total
             /\ UNCHANGED <<buf, head>>
      BY DEF RingPop, len, e
    <2> QED BY <1>8, <2>6, <2>7, <2>8
  <1> QED BY <1>7, <1>8

(* Every step of the arena is a step of the queue or none.                  *)
LEMMA RingNextInv ==
    ASSUME RingInv, [RingNext]_ringVars PROVE RingInv' /\ [Fifo!Next]_(Fifo!fifoVars)
  <1>1. ASSUME NEW d \in Payloads, RingPush(d) PROVE RingInv' /\ [Fifo!Next]_(Fifo!fifoVars)
    BY <1>1, PushInv DEF Fifo!Next
  <1>2. ASSUME NEW cap \in OutCaps, RingPop(cap) PROVE RingInv' /\ [Fifo!Next]_(Fifo!fifoVars)
    BY <1>2, PopInv DEF Fifo!Next
  <1>3. CASE UNCHANGED ringVars
    <2>1. /\ buf' = buf /\ head' = head /\ tail' = tail /\ bytes' = bytes /\ ret' = ret
      BY <1>3 DEF ringVars
    <2>2. RingInv'  BY <2>1 DEF RingInv, RingTypeOK
    <2>3. Entries' = Entries  BY <2>1, EntriesWalk
    <2> QED BY <2>1, <2>2, <2>3 DEF Fifo!fifoVars
  <1> QED BY <1>1, <1>2, <1>3 DEF RingNext

(* Every call of ngx_rtc_vring_push and ngx_rtc_vring_pop behaves like one  *)
(* of a bounded first-in first-out queue on the entries the arena holds:    *)
(* what fits is appended whole and nothing else changes, what is popped is  *)
(* the oldest entry, byte for byte, and an answer of failure changes        *)
(* nothing.  For any capacity, prefix size and base and for any payloads,   *)
(* also where the arena's end splits a prefix or a payload.                 *)
THEOREM RingIsFifo == RingSpec => ImplementsFifo
  <1>1. RingInit => RingInv /\ Fifo!Init  BY RingInitInv
  <1>2. RingInv /\ [RingNext]_ringVars => RingInv' /\ [Fifo!Next]_(Fifo!fifoVars)  BY RingNextInv
  <1> QED BY <1>1, <1>2, PTL DEF RingSpec, ImplementsFifo, Fifo!Spec

(* Walking the arena from the read offset accounts for every live byte and  *)
(* ends at the write offset: no pop of ngx_rtc_vring_pop starts inside an   *)
(* entry.                                                                   *)
THEOREM RingFramed == RingSpec => []Framed
  <1>1. RingInit => RingInv  BY RingInitInv
  <1>2. RingInv /\ [RingNext]_ringVars => RingInv'  BY RingNextInv
  <1>3. RingInv => Framed
    <2>1. RingInv => Fifo!Occupied(Entries) = bytes /\ head = (tail + bytes) % Capacity  BY RingFacts
    <2> QED BY <2>1 DEF Framed
  <1> QED BY <1>1, <1>2, <1>3, PTL DEF RingSpec

-----------------------------------------------------------------------------
(* The state machine *)

(* c leads from a state up to its root. *)
IsChain(c, st) ==
    /\ c \in Seq(States) /\ Len(c) \in Nat \ {0} /\ c[1] = st
    /\ \A i \in 1..(Len(c) - 1) : c[i + 1] = Parent[c[i]]
    /\ Parent[c[Len(c)]] = None

(* The constants, one by one. *)
LEMMA TreeFacts ==
    /\ Initial \in States /\ None \notin States
    /\ \A st \in States : Parent[st] \in States \cup {None}
    /\ \A st \in States : Rules[st] \in Seq(TransitionRow)
  BY FsmConstants DEF HsmConstants

(* Two walks from one state agree as long as both go on: they are the same. *)
LEMMA ChainCovers ==
    ASSUME NEW c, NEW d, NEW st, IsChain(c, st), IsChain(d, st)
    PROVE  \A i \in 1..Len(c) : i <= Len(d) /\ c[i] = d[i]
  <1> DEFINE Bad == {i \in 1..Len(c) : ~(i <= Len(d) /\ c[i] = d[i])}
  <1>1. Len(c) \in Nat \ {0} /\ Len(d) \in Nat \ {0}  BY DEF IsChain
  <1>2. Bad = {}
    <2> SUFFICES ASSUME Bad # {} PROVE FALSE  OBVIOUS
    <2>1. Bad \in SUBSET Nat  BY <1>1
    <2>2. PICK i \in Bad : \A j \in Bad : i <= j  BY <2>1, SmallestExists
    <2>3. i # 1  BY <1>1, <2>2 DEF IsChain
    <2>4. i - 1 \in 1..Len(c) /\ i - 1 \notin Bad /\ i \in 1..Len(c)  BY <1>1, <2>2, <2>3
    <2>5. i - 1 <= Len(d) /\ c[i - 1] = d[i - 1]  BY <2>4
    <2>6. c[i] = Parent[c[i - 1]] /\ c[i] \in States
      <3>1. i - 1 \in 1..(Len(c) - 1) /\ (i - 1) + 1 = i  BY <1>1, <2>4
      <3>2. c[(i - 1) + 1] = Parent[c[i - 1]]  BY <3>1 DEF IsChain
      <3> QED BY <2>4, <3>1, <3>2 DEF IsChain
    <2>7. i - 1 # Len(d)  BY <2>5, <2>6, TreeFacts DEF IsChain
    <2>8. i - 1 \in 1..(Len(d) - 1) /\ (i - 1) + 1 = i  BY <1>1, <2>4, <2>5, <2>7
    <2>9. d[i] = Parent[d[i - 1]]
      <3>1. d[(i - 1) + 1] = Parent[d[i - 1]]  BY <2>8 DEF IsChain
      <3> QED BY <2>8, <3>1
    <2> QED BY <1>1, <2>2, <2>5, <2>6, <2>8, <2>9
  <1> QED BY <1>2

LEMMA ChainUnique ==
    ASSUME NEW c, NEW d, NEW st, IsChain(c, st), IsChain(d, st) PROVE c = d
  <1>1. \A i \in 1..Len(c) : i <= Len(d) /\ c[i] = d[i]  BY ChainCovers
  <1>2. \A i \in 1..Len(d) : i <= Len(c) /\ d[i] = c[i]  BY ChainCovers
  <1>3. Len(c) \in Nat \ {0} /\ Len(d) \in Nat \ {0} /\ c \in Seq(States) /\ d \in Seq(States)
    BY DEF IsChain
  <1>4. Len(c) = Len(d)
    <2>1. Len(c) <= Len(d)  BY <1>1, <1>3
    <2>2. Len(d) <= Len(c)  BY <1>2, <1>3
    <2> QED BY <1>3, <2>1, <2>2
  <1>5. c = [i \in 1..Len(c) |-> c[i]] /\ d = [i \in 1..Len(d) |-> d[i]]  BY <1>3
  <1> QED BY <1>1, <1>4, <1>5

(* A walk begins with the state, and from a parent there is one because no  *)
(* state is its own ancestor.                                               *)
LEMMA ChainCons ==
    ASSUME NEW st \in States, Parent[st] # None, NEW c, IsChain(c, Parent[st])
    PROVE  IsChain(<<st>> \o c, st)
  <1> DEFINE d == <<st>> \o c
             n == Len(c)
  <1>1. c \in Seq(States) /\ n \in Nat \ {0} /\ c[1] = Parent[st]  BY DEF IsChain
  <1>2. d \in Seq(States) /\ Len(d) = n + 1 /\ d[1] = st /\ \A i \in 1..n : d[i + 1] = c[i]
    BY <1>1
  <1>3. \A i \in 1..(n - 1) : c[i + 1] = Parent[c[i]] /\ Parent[c[n]] = None  BY DEF IsChain
  <1>4. Parent[c[n]] = None  BY DEF IsChain
  <1> HIDE DEF d, n
  <1>5. ASSUME NEW i \in 1..n PROVE d[i + 1] = Parent[d[i]]
    <2>1. CASE i = 1  BY <1>1, <1>2, <2>1
    <2>2. CASE i # 1
      <3>1. i - 1 \in 1..(n - 1) /\ (i - 1) + 1 = i /\ i - 1 \in 1..n  BY <1>1, <2>2
      <3>2. c[(i - 1) + 1] = Parent[c[i - 1]]  BY <1>3, <3>1
      <3>3. d[(i - 1) + 1] = c[i - 1] /\ d[i + 1] = c[i]  BY <1>2, <3>1
      <3> QED BY <3>1, <3>2, <3>3
    <2> QED BY <2>1, <2>2
  <1>6. d[n + 1] = c[n]  BY <1>1, <1>2
  <1>7. IsChain(d, st)
    <2>1. (n + 1) - 1 = n /\ n + 1 \in Nat \ {0}  BY <1>1
    <2> QED BY <1>2, <1>4, <1>5, <1>6, <2>1 DEF IsChain
  <1> QED BY <1>7 DEF d

LEMMA ChainRoot == ASSUME NEW st \in States, Parent[st] = None PROVE IsChain(<<st>>, st)
  BY DEF IsChain

LEMMA ChainExists == \A st \in States : \E c : IsChain(c, st)
  <1> DEFINE some == {st \in States : ~\E c : IsChain(c, st)}
  <1>1. some = {}
    <2> SUFFICES ASSUME some # {} PROVE FALSE  OBVIOUS
    <2>1. some \in SUBSET States  OBVIOUS
    <2>2. PICK st \in some : Parent[st] \notin some
      <3> HIDE DEF some
      <3> QED BY <2>1, FsmConstants DEF HsmConstants
    <2>3. CASE Parent[st] = None  BY <2>3, ChainRoot
    <2>4. CASE Parent[st] # None
      <3>1. Parent[st] \in States  BY <2>1, <2>2, <2>4, TreeFacts
      <3>2. PICK c : IsChain(c, Parent[st])  BY <2>2, <3>1
      <3> QED BY <2>4, <3>2, ChainCons
    <2> QED BY <2>3, <2>4
  <1> QED BY <1>1

(* The recursion that defines Chain has a solution, so Chain is one. *)
LEMMA ChainStep ==
    ASSUME NEW st \in States
    PROVE  Chain[st] = IF Parent[st] = None THEN <<st>> ELSE <<st>> \o Chain[Parent[st]]
  <1> DEFINE f == [x \in States |-> CHOOSE c : IsChain(c, x)]
  <1>1. \A x \in States : IsChain(f[x], x)  BY ChainExists
  <1> HIDE DEF f
  <1>2. ASSUME NEW x \in States
        PROVE  f[x] = IF Parent[x] = None THEN <<x>> ELSE <<x>> \o f[Parent[x]]
    <2>1. CASE Parent[x] = None  BY <1>1, <2>1, ChainRoot, ChainUnique
    <2>2. CASE Parent[x] # None
      <3>1. Parent[x] \in States  BY <2>2, TreeFacts
      <3>2. IsChain(<<x>> \o f[Parent[x]], x)  BY <1>1, <2>2, <3>1, ChainCons
      <3>3. f[x] = <<x>> \o f[Parent[x]]  BY <1>1, <3>2, ChainUnique
      <3> QED BY <2>2, <3>3
    <2> QED BY <2>1, <2>2
  <1>3. f = [x \in States |-> IF Parent[x] = None THEN <<x>> ELSE <<x>> \o f[Parent[x]]]
    <2>1. f = [x \in States |-> f[x]]  BY DEF f
    <2> QED BY <1>2, <2>1
  <1>4. Chain = [x \in States |-> IF Parent[x] = None THEN <<x>> ELSE <<x>> \o Chain[Parent[x]]]
    BY <1>3 DEF Chain
  <1> QED BY <1>4

LEMMA Chains == \A st \in States : IsChain(Chain[st], st)
  <1> DEFINE some == {st \in States : ~IsChain(Chain[st], st)}
  <1>1. some = {}
    <2> SUFFICES ASSUME some # {} PROVE FALSE  OBVIOUS
    <2>1. some \in SUBSET States  OBVIOUS
    <2>2. PICK st \in some : Parent[st] \notin some
      <3> HIDE DEF some
      <3> QED BY <2>1, FsmConstants DEF HsmConstants
    <2>3. CASE Parent[st] = None  BY <2>3, ChainRoot, ChainStep
    <2>4. CASE Parent[st] # None
      <3>1. Parent[st] \in States  BY <2>1, <2>2, <2>4, TreeFacts
      <3>2. IsChain(Chain[Parent[st]], Parent[st])  BY <2>2, <3>1
      <3> QED BY <2>4, <3>2, ChainCons, ChainStep
    <2> QED BY <2>3, <2>4
  <1> QED BY <1>1

(* What is left of a walk at its ith state. *)
From(c, i) == [k \in 1..(Len(c) + 1 - i) |-> c[k + i - 1]]

LEMMA FromTyped ==
    ASSUME NEW c \in Seq(States), NEW i \in 1..(Len(c) + 1)
    PROVE  /\ From(c, i) \in Seq(States) /\ Len(From(c, i)) = Len(c) + 1 - i
           /\ \A k \in 1..(Len(c) + 1 - i) : From(c, i)[k] = c[k + i - 1]
  <1>1. Len(c) + 1 - i \in Nat  OBVIOUS
  <1>2. \A k \in 1..(Len(c) + 1 - i) : c[k + i - 1] \in States
    <2> SUFFICES ASSUME NEW k \in 1..(Len(c) + 1 - i) PROVE c[k + i - 1] \in States  OBVIOUS
    <2>1. k + i - 1 \in 1..Len(c)  OBVIOUS
    <2> QED BY <2>1
  <1>3. From(c, i) \in [1..(Len(c) + 1 - i) -> States]  BY <1>2 DEF From
  <1> QED BY <1>1, <1>3 DEF From

(* What is left of a walk at a state is the walk from that state. *)
LEMMA ChainSuffix ==
    ASSUME NEW st \in States, NEW i \in 1..Len(Chain[st])
    PROVE  Chain[st][i] \in States /\ Chain[Chain[st][i]] = From(Chain[st], i)
  <1> DEFINE c == Chain[st]
             n == Len(c)
             d == From(c, i)
  <1>1. /\ c \in Seq(States) /\ n \in Nat \ {0}
        /\ \A k \in 1..(n - 1) : c[k + 1] = Parent[c[k]]
        /\ Parent[c[n]] = None
    BY Chains DEF IsChain
  <1>2. c[i] \in States /\ i \in 1..n  BY <1>1
  <1> HIDE DEF c
  <1>3. d \in Seq(States) /\ Len(d) = n + 1 - i /\ \A k \in 1..(n + 1 - i) : d[k] = c[k + i - 1]
    <2>1. i \in 1..(Len(c) + 1)  BY <1>1, <1>2
    <2> QED BY <1>1, <2>1, FromTyped
  <1> HIDE DEF d, n
  <1>4. n + 1 - i \in Nat \ {0}  BY <1>1, <1>2
  <1>5. d[1] = c[i]
    <2>1. 1 \in 1..(n + 1 - i) /\ 1 + i - 1 = i  BY <1>1, <1>2
    <2> QED BY <1>3, <2>1
  <1>6. ASSUME NEW k \in 1..(n + 1 - i - 1) PROVE d[k + 1] = Parent[d[k]]
    <2>1. k \in 1..(n + 1 - i) /\ k + 1 \in 1..(n + 1 - i) /\ k + i - 1 \in 1..(n - 1)
          /\ (k + 1) + i - 1 = (k + i - 1) + 1
      BY <1>1, <1>2
    <2>2. c[(k + i - 1) + 1] = Parent[c[k + i - 1]]  BY <1>1, <2>1
    <2>3. d[k] = c[k + i - 1] /\ d[k + 1] = c[(k + 1) + i - 1]  BY <1>3, <2>1
    <2> QED BY <2>1, <2>2, <2>3
  <1>7. d[n + 1 - i] = c[n]
    <2>1. n + 1 - i \in 1..(n + 1 - i) /\ (n + 1 - i) + i - 1 = n  BY <1>1, <1>2
    <2>2. d[n + 1 - i] = c[(n + 1 - i) + i - 1]  BY <1>3, <2>1
    <2> QED BY <2>1, <2>2
  <1>8. IsChain(d, c[i])  BY <1>1, <1>3, <1>4, <1>5, <1>6, <1>7 DEF IsChain
  <1>9. Chain[c[i]] = d  BY <1>2, <1>8, Chains, ChainUnique
  <1> QED BY <1>2, <1>9 DEF c, d

LEMMA DepthOf ==
    /\ Depth(None) = 0
    /\ \A st \in States : Depth(st) = Len(Chain[st]) /\ Depth(st) \in Nat \ {0}
                          /\ Chain[st] \in Seq(States)
  BY Chains, TreeFacts DEF Depth, IsChain

(* Where two walks meet, what is left of them is the same. *)
LEMMA Met ==
    ASSUME NEW src \in States, NEW t \in States, NEW h, h = Depth(Lca(src, t))
    PROVE  /\ h \in Nat /\ h <= Depth(src) /\ h <= Depth(t)
           /\ From(Chain[src], Depth(src) - h + 1) = From(Chain[t], Depth(t) - h + 1)
  <1> DEFINE n == Shallower(src, t)
             Nth(x, i) == Chain[x][Depth(x) - n + i]
             meets == {i \in 1..n : Nth(src, i) = Nth(t, i)}
             k == CHOOSE i \in meets : \A j \in meets : i <= j
             l == Nth(src, k)
  <1>1. Depth(src) = Len(Chain[src]) /\ Depth(t) = Len(Chain[t]) /\ Depth(src) \in Nat \ {0}
        /\ Depth(t) \in Nat \ {0}
    BY DepthOf
  <1>2. n \in Nat \ {0} /\ n <= Depth(src) /\ n <= Depth(t)  BY <1>1 DEF Shallower
  <1>3. Lca(src, t) = IF meets = {} THEN None ELSE l  BY DEF Lca
  <1>4. CASE meets = {}
    <2>1. h = 0  BY <1>3, <1>4, DepthOf
    <2>2. Depth(src) - 0 + 1 = Len(Chain[src]) + 1 /\ Depth(t) - 0 + 1 = Len(Chain[t]) + 1  BY <1>1
    <2>3. \A c : Len(c) \in Nat => From(c, Len(c) + 1) = <<>>
      <3> SUFFICES ASSUME NEW c, Len(c) \in Nat PROVE From(c, Len(c) + 1) = <<>>  OBVIOUS
      <3>1. Len(c) + 1 - (Len(c) + 1) = 0 /\ 1..0 = {}  OBVIOUS
      <3> QED BY <3>1 DEF From
    <2>4. From(Chain[src], Depth(src) - h + 1) = <<>> /\ From(Chain[t], Depth(t) - h + 1) = <<>>
      BY <1>1, <2>1, <2>2, <2>3
    <2> QED BY <1>1, <2>1, <2>4
  <1>5. CASE meets # {}
    <2>1. meets \in SUBSET Nat  BY <1>2
    <2>2. k \in meets
      <3> HIDE DEF meets
      <3>1. \E i \in meets : \A j \in meets : i <= j  BY <1>5, <2>1, SmallestExists
      <3> QED BY <3>1
    <2>3. k \in 1..n /\ Nth(src, k) = Nth(t, k)  BY <2>2
    <2> HIDE DEF meets, k, n
    <2>4. Depth(src) - n + k \in 1..Len(Chain[src]) /\ Depth(t) - n + k \in 1..Len(Chain[t])
      BY <1>1, <1>2, <2>3
    <2>5. l \in States /\ Chain[l] = From(Chain[src], Depth(src) - n + k)  BY <2>4, ChainSuffix
    <2>6. Chain[l] = From(Chain[t], Depth(t) - n + k)  BY <2>3, <2>4, ChainSuffix
    <2>7. Depth(l) = Len(Chain[src]) + 1 - (Depth(src) - n + k)
      <3>1. Depth(src) - n + k \in 1..(Len(Chain[src]) + 1)  BY <1>1, <2>4
      <3>2. Chain[src] \in Seq(States)  BY DepthOf
      <3>3. Len(From(Chain[src], Depth(src) - n + k)) = Len(Chain[src]) + 1 - (Depth(src) - n + k)
        BY <3>1, <3>2, FromTyped
      <3>4. Depth(l) = Len(Chain[l])  BY <2>5, DepthOf
      <3> QED BY <2>5, <3>3, <3>4
    <2>8. h = Depth(l)  BY <1>3, <1>5
    <2> HIDE DEF l
    <2>9. h = n + 1 - k /\ Depth(src) - h + 1 = Depth(src) - n + k /\ Depth(t) - h + 1 = Depth(t) - n + k
      BY <1>1, <1>2, <2>3, <2>7, <2>8
    <2>10. h \in Nat /\ h <= Depth(src) /\ h <= Depth(t)
      <3>1. k \in 1..n /\ h = n + 1 - k  BY <2>3, <2>9
      <3>2. h \in 1..n  BY <1>2, <3>1
      <3> QED BY <1>1, <1>2, <3>2
    <2> QED BY <2>5, <2>6, <2>9, <2>10
  <1> QED BY <1>4, <1>5

(* The walk up to where it meets another. *)
LEMMA BelowOf ==
    ASSUME NEW st \in States, NEW anc, NEW h \in Nat, h = Depth(anc), h <= Depth(st)
    PROVE  /\ Below(st, anc) \in Seq(States) /\ Len(Below(st, anc)) = Depth(st) - h
           /\ \A i \in 1..(Depth(st) - h) : Below(st, anc)[i] = Chain[st][i]
  <1> DEFINE c == Chain[st]
             p == Depth(st) - h
  <1>1. c \in Seq(States) /\ p \in Nat /\ p <= Len(c) /\ Len(c) \in Nat  BY DepthOf
  <1>2. Below(st, anc) = SubSeq(c, 1, p)  BY DEF Below
  <1> HIDE DEF c, p
  <1>3. SubSeq(c, 1, p) = [i \in 1..p |-> c[i]]  BY <1>1
  <1>4. [i \in 1..p |-> c[i]] \in [1..p -> States]
    <2>1. \A i \in 1..p : c[i] \in States
      <3> SUFFICES ASSUME NEW i \in 1..p PROVE c[i] \in States  OBVIOUS
      <3>1. i \in 1..Len(c)  BY <1>1
      <3> QED BY <1>1, <3>1
    <2> QED BY <2>1
  <1>5. [i \in 1..p |-> c[i]] \in Seq(States) /\ Len([i \in 1..p |-> c[i]]) = p  BY <1>1, <1>4
  <1> QED BY <1>2, <1>3, <1>5 DEF c, p

(* A call, and what a replay of calls does to the active states. *)
Steps == {"action", "exit", "entry"} \X States

(* calls, replayed from stack, end in end. *)
Takes(stack, calls, end) ==
    /\ Len(calls) \in Nat
    /\ \E u : /\ u = [i \in 0..Len(calls) |-> u[i]] /\ u[0] = stack
              /\ \A i \in 1..Len(calls) : u[i] = Stepped(u[i - 1], calls[i][1], calls[i][2])
              /\ u[Len(calls)] = end

(* Replayed is the one thing calls can end in. *)
LEMMA TakesReplayed ==
    ASSUME NEW stack, NEW calls, NEW end, Takes(stack, calls, end)
    PROVE  Replayed(stack, calls) = end
  <1> DEFINE n == Len(calls)
             Solves(f) == f = [i \in 0..n |-> IF i = 0 THEN stack
                                              ELSE Stepped(f[i - 1], calls[i][1], calls[i][2])]
             w == CHOOSE f : Solves(f)
  <1>1. PICK u : /\ u = [i \in 0..n |-> u[i]] /\ u[0] = stack
                 /\ \A i \in 1..n : u[i] = Stepped(u[i - 1], calls[i][1], calls[i][2])
                 /\ u[n] = end
    BY DEF Takes
  <1>2. n \in Nat  BY DEF Takes
  <1>3. Replayed(stack, calls) = w[n]  BY DEF Replayed
  <1> HIDE DEF n
  <1>4. Solves(u)
    <2>1. \A i \in 0..n : u[i] = IF i = 0 THEN stack ELSE Stepped(u[i - 1], calls[i][1], calls[i][2])
      <3> SUFFICES ASSUME NEW i \in 0..n, i # 0
                   PROVE  u[i] = Stepped(u[i - 1], calls[i][1], calls[i][2])
        BY <1>1
      <3>1. i \in 1..n  BY <1>2
      <3> QED BY <1>1, <3>1
    <2> QED BY <1>1, <2>1
  <1>5. Solves(w)  BY <1>4
  <1> HIDE DEF w
  <1>6. w[0] = stack /\ \A i \in 1..n : w[i] = Stepped(w[i - 1], calls[i][1], calls[i][2])
    <2>1. 0 \in 0..n  BY <1>2
    <2>2. w[0] = stack  BY <1>5, <2>1
    <2>3. ASSUME NEW i \in 1..n PROVE w[i] = Stepped(w[i - 1], calls[i][1], calls[i][2])
      <3>1. i \in 0..n /\ i # 0  BY <1>2
      <3> QED BY <1>5, <3>1
    <2> QED BY <2>2, <2>3
  <1> HIDE DEF Solves
  <1> DEFINE Bad == {i \in 0..n : w[i] # u[i]}
  <1>7. Bad = {}
    <2> SUFFICES ASSUME Bad # {} PROVE FALSE  OBVIOUS
    <2>1. Bad \in SUBSET Nat  BY <1>2
    <2>2. PICK i \in Bad : \A j \in Bad : i <= j
      <3> HIDE DEF Bad
      <3> QED BY <2>1, SmallestExists
    <2>3. i # 0  BY <1>1, <1>6, <2>2
    <2>4. i \in 1..n /\ i - 1 \in 0..n /\ i - 1 < i  BY <1>2, <2>2, <2>3
    <2>5. i - 1 \notin Bad  BY <2>1, <2>2, <2>4
    <2>6. w[i - 1] = u[i - 1]  BY <2>4, <2>5
    <2>7. w[i] = u[i]  BY <1>1, <1>6, <2>4, <2>6
    <2> QED BY <2>2, <2>7
  <1>8. n \in 0..n  BY <1>2
  <1>9. w[n] = u[n]  BY <1>7, <1>8
  <1> QED BY <1>1, <1>3, <1>9

LEMMA TakesNone == ASSUME NEW stack PROVE Takes(stack, <<>>, stack)
  <1> DEFINE u == [i \in 0..0 |-> stack]
  <1>1. Len(<<>>) = 0 /\ 1..0 = {} /\ 0 \in 0..0  OBVIOUS
  <1>2. u = [i \in 0..0 |-> u[i]] /\ u[0] = stack  BY <1>1
  <1> HIDE DEF u
  <1> QED BY <1>1, <1>2 DEF Takes

(* One call after others. *)
LEMMA TakesOne ==
    ASSUME NEW stack, NEW kind, NEW st PROVE Takes(stack, <<<<kind, st>>>>, Stepped(stack, kind, st))
  <1> DEFINE u == [i \in 0..1 |-> IF i = 0 THEN stack ELSE Stepped(stack, kind, st)]
             c == <<<<kind, st>>>>
  <1>1. Len(c) = 1 /\ c[1] = <<kind, st>> /\ 1..1 = {1}  OBVIOUS
  <1>2. u[0] = stack /\ u[1] = Stepped(stack, kind, st)  OBVIOUS
  <1>3. u = [i \in 0..1 |-> u[i]]  OBVIOUS
  <1> HIDE DEF u, c
  <1>4. \A i \in 1..1 : u[i] = Stepped(u[i - 1], c[i][1], c[i][2])
    <2>1. 1 - 1 = 0 /\ c[1][1] = kind /\ c[1][2] = st  BY <1>1
    <2> QED BY <1>1, <1>2, <2>1
  <1>5. Takes(stack, c, Stepped(stack, kind, st))  BY <1>1, <1>2, <1>3, <1>4 DEF Takes
  <1> QED BY <1>5 DEF c

LEMMA TakesBoth ==
    ASSUME NEW stack, NEW a \in Seq(Steps), NEW b \in Seq(Steps), NEW mid, NEW end,
           Takes(stack, a, mid), Takes(mid, b, end)
    PROVE  Takes(stack, a \o b, end)
  <1> DEFINE m == Len(a)
             n == Len(b)
             ab == a \o b
  <1>1. m \in Nat /\ n \in Nat /\ Len(ab) = m + n
        /\ \A i \in 1..(m + n) : ab[i] = IF i <= m THEN a[i] ELSE b[i - m]
    OBVIOUS
  <1>2. PICK u : /\ u = [i \in 0..m |-> u[i]] /\ u[0] = stack
                 /\ \A i \in 1..m : u[i] = Stepped(u[i - 1], a[i][1], a[i][2])
                 /\ u[m] = mid
    BY DEF Takes
  <1>3. PICK v : /\ v = [i \in 0..n |-> v[i]] /\ v[0] = mid
                 /\ \A i \in 1..n : v[i] = Stepped(v[i - 1], b[i][1], b[i][2])
                 /\ v[n] = end
    BY DEF Takes
  <1> HIDE DEF m, n, ab
  <1> DEFINE w == [i \in 0..(m + n) |-> IF i <= m THEN u[i] ELSE v[i - m]]
  <1>4. \A i \in 0..(m + n) : w[i] = IF i <= m THEN u[i] ELSE v[i - m]  OBVIOUS
  <1>5. w = [i \in 0..(m + n) |-> w[i]]  OBVIOUS
  <1> HIDE DEF w
  <1>6. w[0] = stack
    <2>1. 0 \in 0..(m + n) /\ 0 <= m  BY <1>1
    <2> QED BY <1>2, <1>4, <2>1
  <1>7. w[m + n] = end
    <2> DEFINE N == m + n
    <2>1. N \in 0..(m + n) /\ N = m + n  BY <1>1
    <2> HIDE DEF N
    <2>2. CASE n = 0
      <3>1. N <= m /\ N = m  BY <1>1, <2>1, <2>2
      <3>2. w[N] = u[m]  BY <1>4, <2>1, <3>1
      <3>3. end = mid  BY <1>3, <2>2
      <3> QED BY <1>2, <2>1, <3>2, <3>3
    <2>3. CASE n # 0
      <3>1. ~(N <= m) /\ N - m = n  BY <1>1, <2>1, <2>3
      <3>2. w[N] = v[n]  BY <1>4, <2>1, <3>1
      <3> QED BY <1>3, <2>1, <3>2
    <2> QED BY <2>2, <2>3
  <1>8. ASSUME NEW i \in 1..(m + n) PROVE w[i] = Stepped(w[i - 1], ab[i][1], ab[i][2])
    <2>1. i \in 0..(m + n) /\ i - 1 \in 0..(m + n) /\ i \in Int  BY <1>1
    <2>2. CASE i <= m
      <3>1. i \in 1..m /\ i - 1 <= m  BY <1>1, <2>1, <2>2
      <3>2. w[i] = u[i] /\ w[i - 1] = u[i - 1] /\ ab[i] = a[i]  BY <1>1, <1>4, <2>1, <2>2, <3>1
      <3> QED BY <1>2, <3>1, <3>2
    <2>3. CASE ~(i <= m)
      <3>1. i - m \in 1..n /\ (i - m) - 1 = (i - 1) - m  BY <1>1, <2>1, <2>3
      <3>2. w[i] = v[i - m] /\ ab[i] = b[i - m]  BY <1>1, <1>4, <2>1, <2>3
      <3>3. w[i - 1] = v[(i - m) - 1]
        <4>1. CASE i - 1 <= m
          <5>1. i - 1 = m /\ (i - m) - 1 = 0  BY <1>1, <2>1, <2>3, <4>1
          <5>2. w[i - 1] = u[m]  BY <1>4, <2>1, <4>1, <5>1
          <5> QED BY <1>2, <1>3, <5>1, <5>2
        <4>2. CASE ~(i - 1 <= m)  BY <1>4, <2>1, <3>1, <4>2
        <4> QED BY <4>1, <4>2
      <3> QED BY <1>3, <3>1, <3>2, <3>3
    <2> QED BY <2>2, <2>3
  <1>9. Len(ab) = m + n /\ Len(ab) \in Nat  BY <1>1
  <1>10. /\ w = [i \in 0..Len(ab) |-> w[i]] /\ w[Len(ab)] = end
         /\ \A i \in 1..Len(ab) : w[i] = Stepped(w[i - 1], ab[i][1], ab[i][2])
    BY <1>5, <1>7, <1>8, <1>9
  <1>11. Takes(stack, ab, end)  BY <1>6, <1>9, <1>10 DEF Takes
  <1> QED BY <1>11 DEF ab

LEMMA FromFirst == ASSUME NEW c \in Seq(States) PROVE From(c, 1) = c
  <1> DEFINE n == Len(c)
  <1>1. n \in Nat /\ n + 1 - 1 = n /\ c = [k \in 1..n |-> c[k]]  OBVIOUS
  <1> HIDE DEF n
  <1>2. \A k \in 1..n : k + 1 - 1 = k  BY <1>1
  <1>3. From(c, 1) = [k \in 1..(n + 1 - 1) |-> c[k + 1 - 1]]  BY DEF From, n
  <1> QED BY <1>1, <1>2, <1>3

(* One state of a walk and the rest. *)
LEMMA FromStep ==
    ASSUME NEW c \in Seq(States), NEW i \in 1..Len(c)
    PROVE  /\ From(c, i) # <<>> /\ Head(From(c, i)) = c[i] /\ Tail(From(c, i)) = From(c, i + 1)
           /\ From(c, i) = <<c[i]>> \o From(c, i + 1) /\ c[i] \in States
  <1> DEFINE n == Len(c)
             d == From(c, i)
             e == From(c, i + 1)
  <1>1. n \in Nat /\ i \in 1..(n + 1) /\ i + 1 \in 1..(n + 1) /\ i \in 1..n /\ c[i] \in States  OBVIOUS
  <1>2. d \in Seq(States) /\ Len(d) = n + 1 - i /\ \A k \in 1..(n + 1 - i) : d[k] = c[k + i - 1]
    BY <1>1, FromTyped
  <1>3. /\ e \in Seq(States) /\ Len(e) = n + 1 - (i + 1)
        /\ \A k \in 1..(n + 1 - (i + 1)) : e[k] = c[k + (i + 1) - 1]
    BY <1>1, FromTyped
  <1> HIDE DEF d, e, n
  <1>4. Len(d) \in Nat \ {0} /\ Len(e) = Len(d) - 1  BY <1>1, <1>2, <1>3
  <1>5. d[1] = c[i]
    <2>1. 1 \in 1..(n + 1 - i) /\ 1 + i - 1 = i  BY <1>1
    <2> QED BY <1>2, <2>1
  <1>6. \A k \in 1..(Len(d) - 1) : e[k] = d[k + 1]
    <2> SUFFICES ASSUME NEW k \in 1..(Len(d) - 1) PROVE e[k] = d[k + 1]  OBVIOUS
    <2>1. k \in 1..(n + 1 - (i + 1)) /\ k + 1 \in 1..(n + 1 - i)  BY <1>1, <1>2
    <2>2. k + (i + 1) - 1 = (k + 1) + i - 1  BY <1>1, <2>1
    <2>3. e[k] = c[k + (i + 1) - 1]  BY <1>3, <2>1
    <2>4. d[k + 1] = c[(k + 1) + i - 1]  BY <1>2, <2>1
    <2> QED BY <2>2, <2>3, <2>4
  <1>7. d # <<>> /\ Head(d) = d[1]  BY <1>2, <1>4
  <1>8. Tail(d) = e
    <2>1. Tail(d) \in Seq(States) /\ Len(Tail(d)) = Len(d) - 1
          /\ \A k \in 1..(Len(d) - 1) : Tail(d)[k] = d[k + 1]
      BY <1>2, <1>4, <1>7
    <2> QED BY <1>3, <1>4, <1>6, <2>1, SeqEqual
  <1>9. d = <<d[1]>> \o Tail(d)
    <2>1. d[1] \in States  BY <1>1, <1>5
    <2>2. <<d[1]>> \o Tail(d) \in Seq(States) /\ Len(<<d[1]>> \o Tail(d)) = Len(d)
      BY <1>2, <1>4, <1>7, <2>1
    <2>3. \A k \in 1..Len(d) : (<<d[1]>> \o Tail(d))[k] = d[k]  BY <1>2, <1>4, <1>7, <2>1
    <2> QED BY <1>2, <2>2, <2>3, SeqEqual
  <1> QED BY <1>1, <1>5, <1>7, <1>8, <1>9 DEF d, e

(* Active states are never taken for a broken stack. *)
LEMMA NotBroken == ASSUME NEW stack \in Seq(States) PROVE stack # Broken
  <1>1. Broken[1] = None /\ Len(Broken) = 1  BY DEF Broken
  <1> SUFFICES ASSUME stack = Broken PROVE FALSE  OBVIOUS
  <1>2. Len(stack) = 1 /\ stack[1] = None  BY <1>1
  <1>3. stack[1] \in States  BY <1>2
  <1> QED BY <1>2, <1>3, TreeFacts

(* The parent of a state of a walk is the next one, and the last has none. *)
LEMMA ParentNext ==
    ASSUME NEW st \in States, NEW i \in 1..Len(Chain[st]),
           NEW rest, rest = From(Chain[st], i + 1)
    PROVE  Parent[Chain[st][i]] = IF rest = <<>> THEN None ELSE Head(rest)
  <1> DEFINE c == Chain[st]
             n == Len(c)
  <1>1. /\ c \in Seq(States) /\ n \in Nat \ {0}
        /\ \A k \in 1..(n - 1) : c[k + 1] = Parent[c[k]]
        /\ Parent[c[n]] = None
    BY Chains DEF IsChain
  <1>2. i \in 1..n /\ rest = From(c, i + 1)  OBVIOUS
  <1> HIDE DEF c
  <1>3. CASE i = n
    <2>1. n + 1 \in 1..(Len(c) + 1)  BY <1>1
    <2>2. rest \in Seq(States) /\ Len(rest) = n + 1 - (n + 1)  BY <1>1, <1>2, <1>3, <2>1, FromTyped
    <2>3. rest = <<>>  BY <1>1, <2>2
    <2> QED BY <1>1, <1>3, <2>3 DEF c
  <1>4. CASE i # n
    <2>1. i \in 1..(n - 1) /\ i + 1 \in 1..Len(c)  BY <1>1, <1>2, <1>4
    <2>2. rest # <<>> /\ Head(rest) = c[i + 1]  BY <1>1, <1>2, <2>1, FromStep
    <2> QED BY <1>1, <2>1, <2>2 DEF c
  <1> QED BY <1>3, <1>4

(* The exits from a state upwards leave what is above them. *)
LEMMA Leaving ==
    ASSUME NEW src \in States, NEW p \in Nat, p <= Len(Chain[src]), NEW calls, Len(calls) = p,
           \A i \in 1..p : calls[i] = <<"exit", Chain[src][i]>>
    PROVE  Takes(Chain[src], calls, From(Chain[src], p + 1))
  <1> DEFINE c == Chain[src]
             u == [i \in 0..p |-> From(c, i + 1)]
  <1>1. c \in Seq(States) /\ p <= Len(c) /\ Len(c) \in Nat  BY DepthOf
  <1>2. \A i \in 1..p : calls[i][1] = "exit" /\ calls[i][2] = c[i]  OBVIOUS
  <1> HIDE DEF c
  <1>3. u = [i \in 0..Len(calls) |-> u[i]] /\ Len(calls) \in Nat  OBVIOUS
  <1>4. \A i \in 0..p : u[i] = From(c, i + 1)  OBVIOUS
  <1> HIDE DEF u
  <1>5. u[0] = c
    <2>1. 0 \in 0..p /\ 0 + 1 = 1  OBVIOUS
    <2>2. u[0] = From(c, 1)  BY <1>4, <2>1
    <2> QED BY <1>1, <2>2, FromFirst
  <1>6. u[Len(calls)] = From(c, p + 1)
    <2>1. p \in 0..p  OBVIOUS
    <2> QED BY <1>4, <2>1
  <1>7. ASSUME NEW i \in 1..Len(calls) PROVE u[i] = Stepped(u[i - 1], calls[i][1], calls[i][2])
    <2>1. i \in 1..p /\ i \in 0..p /\ i - 1 \in 0..p /\ (i - 1) + 1 = i /\ i \in 1..Len(c)
          /\ i \in 1..(Len(c) + 1)
      BY <1>1
    <2>2. u[i - 1] = From(c, i)
      <3>1. u[i - 1] = From(c, (i - 1) + 1)  BY <1>4, <2>1
      <3> QED BY <2>1, <3>1
    <2>3. u[i] = From(c, i + 1)  BY <1>4, <2>1
    <2>4. From(c, i) # <<>> /\ Head(From(c, i)) = c[i] /\ Tail(From(c, i)) = From(c, i + 1)
      BY <1>1, <2>1, FromStep
    <2>5. From(c, i) # Broken  BY <1>1, <2>1, FromTyped, NotBroken
    <2>6. calls[i][1] = "exit" /\ calls[i][2] = c[i]  BY <1>2, <2>1
    <2>7. Stepped(From(c, i), "exit", c[i]) = Tail(From(c, i))  BY <2>4, <2>5 DEF Stepped
    <2> QED BY <2>2, <2>3, <2>4, <2>6, <2>7
  <1>8. Takes(c, calls, From(c, p + 1))  BY <1>3, <1>5, <1>6, <1>7 DEF Takes
  <1> QED BY <1>8 DEF c

(* The entries down to a state enter what is below where they start. *)
LEMMA Entering ==
    ASSUME NEW t \in States, NEW q \in Nat, q <= Len(Chain[t]), NEW calls, Len(calls) = q,
           \A i \in 1..q : calls[i] = <<"entry", Chain[t][q + 1 - i]>>
    PROVE  Takes(From(Chain[t], q + 1), calls, Chain[t])
  <1> DEFINE c == Chain[t]
             u == [i \in 0..q |-> From(c, q + 1 - i)]
  <1>1. c \in Seq(States) /\ q <= Len(c) /\ Len(c) \in Nat  BY DepthOf
  <1>2. \A i \in 1..q : calls[i][1] = "entry" /\ calls[i][2] = c[q + 1 - i]  OBVIOUS
  <1>9. \A i \in 1..Len(c) : \A rest : rest = From(c, i + 1) =>
           Parent[c[i]] = IF rest = <<>> THEN None ELSE Head(rest)
    BY ParentNext
  <1> HIDE DEF c
  <1>3. u = [i \in 0..Len(calls) |-> u[i]] /\ Len(calls) \in Nat  OBVIOUS
  <1>4. \A i \in 0..q : u[i] = From(c, q + 1 - i)  OBVIOUS
  <1> HIDE DEF u
  <1>5. u[0] = From(c, q + 1)
    <2>1. 0 \in 0..q /\ q + 1 - 0 = q + 1  OBVIOUS
    <2>2. u[0] = From(c, q + 1 - 0)  BY <1>4, <2>1
    <2> QED BY <2>1, <2>2
  <1>6. u[Len(calls)] = c
    <2>1. q \in 0..q /\ q + 1 - q = 1  OBVIOUS
    <2>2. u[q] = From(c, q + 1 - q)  BY <1>4, <2>1
    <2> QED BY <1>1, <2>1, <2>2, FromFirst
  <1>7. ASSUME NEW i \in 1..Len(calls) PROVE u[i] = Stepped(u[i - 1], calls[i][1], calls[i][2])
    <2> DEFINE j == q + 1 - i
    <2>1. i \in 1..q /\ i \in 0..q /\ i - 1 \in 0..q /\ q + 1 - (i - 1) = j + 1 /\ j \in 1..Len(c)
          /\ j + 1 \in 1..(Len(c) + 1)
      BY <1>1
    <2>2. u[i - 1] = From(c, j + 1)
      <3>1. u[i - 1] = From(c, q + 1 - (i - 1))  BY <1>4, <2>1
      <3> QED BY <2>1, <3>1
    <2>3. u[i] = From(c, j)  BY <1>4, <2>1
    <2>6. calls[i][1] = "entry" /\ calls[i][2] = c[j]  BY <1>2, <2>1
    <2> HIDE DEF j
    <2>4. From(c, j) = <<c[j]>> \o From(c, j + 1)  BY <1>1, <2>1, FromStep
    <2>5. From(c, j + 1) # Broken  BY <1>1, <2>1, FromTyped, NotBroken
    <2>7. Parent[c[j]] = IF From(c, j + 1) = <<>> THEN None ELSE Head(From(c, j + 1))
      BY <1>9, <2>1
    <2>8. Stepped(From(c, j + 1), "entry", c[j]) = <<c[j]>> \o From(c, j + 1)
      BY <2>5, <2>7 DEF Stepped
    <2> QED BY <2>2, <2>3, <2>4, <2>6, <2>8
  <1>8. Takes(From(c, q + 1), calls, c)  BY <1>3, <1>5, <1>6, <1>7 DEF Takes
  <1> QED BY <1>8 DEF c

(* calls lead from one state, with its ancestors, to another. *)
Moves(source, calls, state) ==
    /\ state \in States /\ calls \in Seq(Steps) /\ Takes(Chain[source], calls, Chain[state])

(* What is called along a path, upwards and downwards. *)
LEMMA CallsOf ==
    ASSUME NEW kind \in {"action", "exit", "entry"}, NEW path \in Seq(States)
    PROVE  /\ Calls(kind, path) \in Seq(Steps) /\ Len(Calls(kind, path)) = Len(path)
           /\ \A i \in 1..Len(path) : Calls(kind, path)[i] = <<kind, path[i]>>
  <1> DEFINE n == Len(path)
             c == [i \in 1..n |-> <<kind, path[i]>>]
  <1>1. n \in Nat /\ DOMAIN path = 1..n /\ \A i \in 1..n : path[i] \in States  OBVIOUS
  <1>2. Calls(kind, path) = c  BY <1>1 DEF Calls
  <1> HIDE DEF n
  <1>3. c \in [1..n -> Steps]  BY <1>1 DEF Steps
  <1>4. c \in Seq(Steps) /\ Len(c) = n  BY <1>1, <1>3
  <1>5. \A i \in 1..n : c[i] = <<kind, path[i]>>  OBVIOUS
  <1> HIDE DEF c
  <1> QED BY <1>2, <1>4, <1>5 DEF n

LEMMA EntriesOf ==
    ASSUME NEW path \in Seq(States)
    PROVE  /\ EntryOrder(path) \in Seq(States) /\ Len(EntryOrder(path)) = Len(path)
           /\ \A i \in 1..Len(path) : EntryOrder(path)[i] = path[Len(path) + 1 - i]
  <1> DEFINE n == Len(path)
             r == [i \in 1..n |-> path[(n - i) + 1]]
  <1>1. n \in Nat /\ \A i \in 1..n : path[i] \in States  OBVIOUS
  <1>2. EntryOrder(path) = r  BY DEF EntryOrder, Reverse
  <1> HIDE DEF n
  <1>3. \A i \in 1..n : (n - i) + 1 = n + 1 - i /\ n + 1 - i \in 1..n  BY <1>1
  <1>4. r \in [1..n -> States]
    <2> SUFFICES ASSUME NEW i \in 1..n PROVE path[(n - i) + 1] \in States  OBVIOUS
    <2> QED BY <1>1, <1>3
  <1>5. r \in Seq(States) /\ Len(r) = n  BY <1>1, <1>4
  <1>6. \A i \in 1..n : r[i] = path[n + 1 - i]  BY <1>3
  <1> HIDE DEF r
  <1> QED BY <1>2, <1>5, <1>6 DEF n

LEMMA StepSeq == \A k \in {"action", "exit", "entry"}, x \in States :
                    <<<<k, x>>>> \in Seq(Steps)
  BY DEF Steps

(* The ways to move: not at all, one after another, and by an action alone. *)
LEMMA MovesNone == ASSUME NEW src \in States PROVE Moves(src, <<>>, src)
  BY TakesNone DEF Moves

(* Out of a state and into it again. *)
LEMMA MovesSelf ==
    ASSUME NEW src \in States PROVE Moves(src, <<<<"exit", src>>, <<"entry", src>>>>, src)
  <1> DEFINE c == Chain[src]
             rest == From(c, 2)
  <1>1. c \in Seq(States) /\ Len(c) \in Nat \ {0} /\ c[1] = src  BY Chains DEF IsChain
  <1>2. Parent[src] = IF rest = <<>> THEN None ELSE Head(rest)
    <2>1. 1 \in 1..Len(Chain[src]) /\ 1 + 1 = 2  BY <1>1
    <2>2. rest = From(Chain[src], 1 + 1)  BY <2>1
    <2>3. Parent[Chain[src][1]] = IF rest = <<>> THEN None ELSE Head(rest)
      BY <2>1, <2>2, ParentNext
    <2> QED BY <1>1, <2>3
  <1> HIDE DEF c
  <1>3. /\ c # <<>> /\ Head(c) = src /\ Tail(c) = rest /\ c = <<src>> \o rest
    <2>1. 1 \in 1..Len(c) /\ From(c, 1) = c /\ 1 + 1 = 2  BY <1>1, FromFirst
    <2> QED BY <1>1, <2>1, FromStep
  <1>4. rest \in Seq(States)
    <2>1. 2 \in 1..(Len(c) + 1)  BY <1>1
    <2> QED BY <1>1, <2>1, FromTyped
  <1> HIDE DEF rest
  <1>5. c # Broken /\ rest # Broken  BY <1>1, <1>4, NotBroken
  <1>6. Stepped(c, "exit", src) = rest  BY <1>3, <1>5 DEF Stepped
  <1>7. Stepped(rest, "entry", src) = c  BY <1>2, <1>3, <1>5 DEF Stepped
  <1>8. Takes(c, <<<<"exit", src>>>>, rest) /\ Takes(rest, <<<<"entry", src>>>>, c)
    BY <1>6, <1>7, TakesOne
  <1>9. Takes(c, <<<<"exit", src>>>> \o <<<<"entry", src>>>>, c)  BY <1>8, StepSeq, TakesBoth
  <1>10. <<<<"exit", src>>>> \o <<<<"entry", src>>>> = <<<<"exit", src>>, <<"entry", src>>>>
    <2> DEFINE leave == <<"exit", src>>
               enter == <<"entry", src>>
    <2>1. leave \in Steps /\ enter \in Steps  BY DEF Steps
    <2> HIDE DEF leave, enter
    <2>2. /\ <<leave>> \o <<enter>> \in Seq(Steps) /\ Len(<<leave>> \o <<enter>>) = 2
          /\ (<<leave>> \o <<enter>>)[1] = leave /\ (<<leave>> \o <<enter>>)[2] = enter
      BY <2>1
    <2>3. <<leave, enter>> \in Seq(Steps) /\ Len(<<leave, enter>>) = 2  BY <2>1
    <2>4. \A i \in 1..2 : (<<leave>> \o <<enter>>)[i] = <<leave, enter>>[i]  BY <2>2
    <2>5. <<leave>> \o <<enter>> = <<leave, enter>>  BY <2>2, <2>3, <2>4, SeqEqual
    <2> QED BY <2>5 DEF leave, enter
  <1>11. <<<<"exit", src>>, <<"entry", src>>>> \in Seq(Steps)  BY DEF Steps
  <1> QED BY <1>9, <1>10, <1>11 DEF Moves, c

(* Out to the lowest common ancestor and in from it. *)
LEMMA MovesAcross ==
    ASSUME NEW src \in States, NEW t \in States
    PROVE  Moves(src, Calls("exit", Below(src, Lca(src, t)))
                      \o Calls("entry", EntryOrder(Below(t, Lca(src, t)))), t)
  <1> DEFINE l == Lca(src, t)
             h == Depth(l)
             up == Below(src, l)
             down == Below(t, l)
             exits == Calls("exit", up)
             entries == Calls("entry", EntryOrder(down))
             p == Depth(src) - h
             q == Depth(t) - h
  <1>1. /\ h \in Nat /\ h <= Depth(src) /\ h <= Depth(t)
        /\ From(Chain[src], p + 1) = From(Chain[t], q + 1)
    BY Met
  <1>2. up \in Seq(States) /\ Len(up) = p /\ \A i \in 1..p : up[i] = Chain[src][i]  BY <1>1, BelowOf
  <1>3. down \in Seq(States) /\ Len(down) = q /\ \A i \in 1..q : down[i] = Chain[t][i]
    BY <1>1, BelowOf
  <1>4. p \in Nat /\ q \in Nat /\ p <= Len(Chain[src]) /\ q <= Len(Chain[t])  BY <1>1, DepthOf
  <1> HIDE DEF p, q, up, down, h, l
  <1>5. /\ exits \in Seq(Steps) /\ Len(exits) = p
        /\ \A i \in 1..p : exits[i] = <<"exit", Chain[src][i]>>
    BY <1>2, CallsOf
  <1>6. /\ entries \in Seq(Steps) /\ Len(entries) = q
        /\ \A i \in 1..q : entries[i] = <<"entry", Chain[t][q + 1 - i]>>
    <2> DEFINE order == EntryOrder(down)
    <2>1. /\ order \in Seq(States) /\ Len(order) = q
          /\ \A i \in 1..q : order[i] = down[q + 1 - i]
      BY <1>3, EntriesOf
    <2> HIDE DEF order
    <2>2. \A i \in 1..q : order[i] = Chain[t][q + 1 - i]
      <3> SUFFICES ASSUME NEW i \in 1..q PROVE order[i] = Chain[t][q + 1 - i]  OBVIOUS
      <3>1. q + 1 - i \in 1..q  BY <1>4
      <3> QED BY <1>3, <2>1, <3>1
    <2>3. /\ Calls("entry", order) \in Seq(Steps) /\ Len(Calls("entry", order)) = q
          /\ \A i \in 1..q : Calls("entry", order)[i] = <<"entry", order[i]>>
      BY <2>1, CallsOf
    <2> QED BY <2>2, <2>3 DEF order
  <1> HIDE DEF exits, entries
  <1>7. Takes(Chain[src], exits, From(Chain[src], p + 1))  BY <1>4, <1>5, Leaving
  <1>8. Takes(From(Chain[t], q + 1), entries, Chain[t])  BY <1>4, <1>6, Entering
  <1>9. Takes(Chain[src], exits \o entries, Chain[t])  BY <1>1, <1>5, <1>6, <1>7, <1>8, TakesBoth
  <1>10. exits \o entries \in Seq(Steps)  BY <1>5, <1>6
  <1>11. Moves(src, exits \o entries, t)  BY <1>9, <1>10 DEF Moves
  <1> QED BY <1>11 DEF exits, entries, up, down, l

(* hsm_perform_transition takes the machine to its target or nowhere. *)
LEMMA TransitionMoves ==
    ASSUME NEW src \in States, NEW t \in States \cup {None}
    PROVE  LET m == Transition(src, t)
           IN  m.ok \in BOOLEAN /\ Moves(src, m.calls, IF m.ok THEN t ELSE src)
  <1> DEFINE m == Transition(src, t)
             fits == ~(Len(Below(t, Lca(src, t))) > BufferSize)
             calls == Calls("exit", Below(src, Lca(src, t)))
                        \o Calls("entry", EntryOrder(Below(t, Lca(src, t))))
             no == [ok |-> FALSE, calls |-> <<>>]
  <1>1. CASE m = no  BY <1>1, MovesNone
  <1>2. CASE t # None /\ src = t
    <2>1. m = [ok |-> TRUE, calls |-> <<<<"exit", src>>, <<"entry", t>>>>]  BY <1>2 DEF Transition
    <2> QED BY <1>2, <2>1, MovesSelf
  <1>3. CASE t # None /\ src # t /\ fits
    <2>1. m = [ok |-> TRUE, calls |-> calls]  BY <1>3 DEF Transition
    <2>2. t \in States  BY <1>3
    <2>3. Moves(src, calls, t)  BY <2>2, MovesAcross
    <2> HIDE DEF m, calls
    <2>4. m.ok = TRUE /\ m.calls = calls  BY <2>1
    <2>5. m.ok \in BOOLEAN /\ Moves(src, m.calls, IF m.ok THEN t ELSE src)  BY <2>3, <2>4
    <2> QED BY <2>5 DEF m
  <1>4. t = None \/ (t # None /\ src # t /\ ~fits) => m = no  BY DEF Transition
  <1> HIDE DEF m, fits, no
  <1> QED BY <1>1, <1>2, <1>3, <1>4 DEF m

LEMMA MovesBoth ==
    ASSUME NEW src, NEW m \in States, NEW t, NEW a, NEW b, Moves(src, a, m), Moves(m, b, t)
    PROVE  Moves(src, a \o b, t)
  <1>1. a \in Seq(Steps) /\ b \in Seq(Steps) /\ a \o b \in Seq(Steps)  BY DEF Moves
  <1> QED BY <1>1, TakesBoth DEF Moves

LEMMA MovesAction ==
    ASSUME NEW src \in States, NEW st \in States PROVE Moves(src, <<<<"action", st>>>>, src)
  <1>1. Chain[src] # Broken  BY DepthOf, NotBroken
  <1>2. Stepped(Chain[src], "action", st) = Chain[src]  BY <1>1 DEF Stepped
  <1>3. Takes(Chain[src], <<<<"action", st>>>>, Chain[src])  BY <1>2, TakesOne
  <1> QED BY <1>3, StepSeq DEF Moves

(* What an event came to: done, moved from the current state. *)
Answers == [ok : BOOLEAN, state : States, calls : Seq(Steps), overflow : BOOLEAN]

Nested(o) == o \in Answers /\ Moves(current, o.calls, o.state)

(* An event nothing handles, and the rule that handles one. *)
LEMMA UnhandledNested ==
    ASSUME current \in States PROVE Nested(Unhandled) /\ Unhandled.state = current
  <1>1. <<>> \in Seq(Steps)  OBVIOUS
  <1> QED BY <1>1, MovesNone DEF Nested, Unhandled, Answers

LEMMA RuleMatched ==
    ASSUME NEW st \in States, NEW event, NEW passing, Matching(st, event, passing) # 0
    PROVE  Rules[st][Matching(st, event, passing)].target \in States \cup {None}
  <1> DEFINE hits == {i \in DOMAIN Rules[st] :
                        /\ Rules[st][i].event = event
                        /\ Rules[st][i].guarded => <<st, i>> \in passing}
             k == CHOOSE i \in hits : \A j \in hits : i <= j
  <1>1. Rules[st] \in Seq(TransitionRow)  BY TreeFacts
  <1>2. DOMAIN Rules[st] \in SUBSET Nat /\ \A i \in DOMAIN Rules[st] : Rules[st][i] \in TransitionRow
    BY <1>1
  <1>3. hits # {} /\ Matching(st, event, passing) = k  BY DEF Matching
  <1>4. hits \in SUBSET DOMAIN Rules[st]  OBVIOUS
  <1> HIDE DEF hits
  <1>5. k \in hits
    <2>1. \E i \in hits : \A j \in hits : i <= j  BY <1>2, <1>3, <1>4, SmallestExists
    <2> QED BY <2>1
  <1> HIDE DEF k
  <1>6. Rules[st][k] \in TransitionRow  BY <1>2, <1>4, <1>5
  <1> QED BY <1>3, <1>6 DEF TransitionRow

(* What one state answers. *)
LEMMA OfferedNested ==
    ASSUME current \in States, NEW st \in States, NEW event, NEW passing
    PROVE  LET o == Offered(st, event, passing) IN Nested(o) /\ (~o.ok => o.state = current)
  <1> DEFINE o == Offered(st, event, passing)
             i == Matching(st, event, passing)
             rule == Rules[st][i]
             move == Transition(current, rule.target)
             act == <<<<"action", st>>>>
             state == IF move.ok THEN rule.target ELSE current
  <1>1. CASE i = 0
    <2>1. o = Unhandled  BY <1>1 DEF Offered
    <2> QED BY <2>1, UnhandledNested
  <1>2. Moves(current, act, current) /\ act \in Seq(Steps)  BY MovesAction, StepSeq
  <1>3. CASE i # 0 /\ rule.internal
    <2>1. o = [ok |-> TRUE, state |-> current, calls |-> act, overflow |-> FALSE]
      BY <1>3 DEF Offered
    <2> HIDE DEF o, act
    <2>2. o \in Answers  BY <1>2, <2>1 DEF Answers
    <2>3. o.ok = TRUE /\ o.state = current /\ o.calls = act  BY <2>1
    <2>4. Nested(o)  BY <1>2, <2>2, <2>3 DEF Nested
    <2> QED BY <2>3, <2>4 DEF o
  <1>4. CASE i # 0 /\ ~rule.internal
    <2>1. o = [ok |-> move.ok, state |-> state, calls |-> act \o move.calls, overflow |-> ~move.ok]
      BY <1>4 DEF Offered
    <2>2. rule.target \in States \cup {None}  BY <1>4, RuleMatched
    <2>3. move.ok \in BOOLEAN /\ Moves(current, move.calls, state)  BY <2>2, TransitionMoves
    <2> HIDE DEF rule, act
    <2>4. Moves(current, act \o move.calls, state)  BY <1>2, <2>3, MovesBoth
    <2>5. ~move.ok => state = current  OBVIOUS
    <2> HIDE DEF o, move, state
    <2>6. state \in States /\ act \o move.calls \in Seq(Steps)  BY <2>4 DEF Moves
    <2>7. o \in Answers  BY <2>1, <2>3, <2>6 DEF Answers
    <2>8. o.ok = move.ok /\ o.state = state /\ o.calls = act \o move.calls  BY <2>1
    <2>9. Nested(o) /\ (~o.ok => o.state = current)  BY <2>4, <2>5, <2>7, <2>8 DEF Nested
    <2> QED BY <2>9 DEF o
  <1> QED BY <1>1, <1>3, <1>4

(* An answer after one that was not done. *)
LEMMA NestedAfter ==
    ASSUME current \in States, NEW here, Nested(here), ~here.ok => here.state = current,
           NEW up, Nested(up),
           NEW o, o = IF here.ok THEN here
                      ELSE [up EXCEPT !.calls = here.calls \o @, !.overflow = @ \/ here.overflow]
    PROVE  Nested(o)
  <1>1. CASE here.ok  BY <1>1
  <1>2. CASE ~here.ok
    <2>1. up \in Answers /\ Moves(current, up.calls, up.state)  BY DEF Nested
    <2>2. here \in Answers /\ Moves(current, here.calls, current)  BY <1>2 DEF Nested
    <2>3. Moves(current, here.calls \o up.calls, up.state)  BY <2>1, <2>2, MovesBoth
    <2>4. here.calls \o up.calls \in Seq(Steps)  BY <2>3 DEF Moves
    <2>5. here.overflow \in BOOLEAN /\ up.overflow \in BOOLEAN  BY <2>1, <2>2 DEF Answers
    <2> DEFINE calls == here.calls \o up.calls
               overflow == up.overflow \/ here.overflow
    <2>6. o = [up EXCEPT !.calls = calls, !.overflow = overflow]  BY <1>2
    <2>7. calls \in Seq(Steps) /\ overflow \in BOOLEAN  BY <2>4, <2>5
    <2>8. Moves(current, calls, up.state)  BY <2>3
    <2> HIDE DEF calls, overflow
    <2>9. o \in Answers /\ o.calls = calls /\ o.state = up.state  BY <2>1, <2>6, <2>7 DEF Answers
    <2> QED BY <2>8, <2>9 DEF Nested
  <1> QED BY <1>1, <1>2

(* An event's answers all the way up. *)
LEMMA BubbledNested ==
    ASSUME current \in States, NEW event, NEW passing PROVE Nested(Bubbled(event, passing))
  <1> DEFINE chain == Chain[current]
             n == Len(chain)
             Here(i) == Offered(chain[i], event, passing)
             After(i, up) == IF Here(i).ok THEN Here(i)
                             ELSE [up EXCEPT !.calls = Here(i).calls \o @,
                                             !.overflow = @ \/ Here(i).overflow]
             Solves(f) == f = [i \in 1..(n + 1) |-> IF i > n THEN Unhandled ELSE After(i, f[i + 1])]
             w == CHOOSE f : Solves(f)
             X == {o \in Answers : Nested(o)}
  <1>1. Bubbled(event, passing) = w[1]  BY DEF Bubbled
  <1>2. n \in Nat \ {0} /\ \A i \in 1..n : chain[i] \in States  BY DepthOf
  <1>3. \A i \in 1..n : Nested(Here(i)) /\ (~Here(i).ok => Here(i).state = current)
    BY <1>2, OfferedNested
  <1> HIDE DEF chain, n, Here
  <1>4. \A i \in 1..n, up \in X : After(i, up) \in X
    <2> SUFFICES ASSUME NEW i \in 1..n, NEW up \in X PROVE After(i, up) \in X  OBVIOUS
    <2>1. Nested(up)  OBVIOUS
    <2>2. Nested(After(i, up))  BY <1>3, <2>1, NestedAfter
    <2> QED BY <2>2 DEF Nested
  <1>5. Unhandled \in X  BY UnhandledNested DEF Nested
  <1> HIDE DEF After, X
  <1>6. \E f : Solves(f)
    <2> DEFINE Stop == {0}
               prev == [j \in 0..n |-> j - 1]
               step == [j \in 0..n |-> [x \in X |-> After(n + 1 - j, x)]]
    <2>1. ASSUME NEW j \in (0..n) \ Stop PROVE prev[j] \in 0..(j - 1) /\ step[j] \in [X -> X]
      <3>1. n + 1 - j \in 1..n /\ j \in 0..n /\ j - 1 \in 0..(j - 1)  BY <1>2
      <3>2. \A x \in X : After(n + 1 - j, x) \in X  BY <1>4, <3>1
      <3> QED BY <3>1, <3>2
    <2>2. n \in Nat  BY <1>2
    <2> HIDE DEF prev, step, Stop
    <2>3. Descends(n, X, Unhandled, Stop, prev, step)  BY <1>5, <2>1, <2>2 DEF Descends
    <2>4. PICK g \in [0..n -> X] :
             g = [j \in 0..n |-> IF j \in Stop THEN Unhandled ELSE step[j][g[prev[j]]]]
      BY <2>3, Recursion DEF Solvable
    <2> DEFINE f == [i \in 1..(n + 1) |-> g[n + 1 - i]]
    <2>5. \A i \in 1..(n + 1) : f[i] = g[n + 1 - i]  OBVIOUS
    <2>6. f = [i \in 1..(n + 1) |-> f[i]]  OBVIOUS
    <2> HIDE DEF f
    <2>7. ASSUME NEW i \in 1..(n + 1) PROVE f[i] = IF i > n THEN Unhandled ELSE After(i, f[i + 1])
      <3>1. n + 1 - i \in 0..n  BY <1>2
      <3>2. g[n + 1 - i] = IF n + 1 - i \in Stop THEN Unhandled
                           ELSE step[n + 1 - i][g[prev[n + 1 - i]]]
        BY <2>4, <3>1
      <3>3. CASE i > n
        <4>1. n + 1 - i \in Stop  BY <1>2, <3>3 DEF Stop
        <4> QED BY <2>5, <3>2, <3>3, <4>1
      <3>4. CASE ~(i > n)
        <4>1. /\ n + 1 - i \notin Stop /\ i + 1 \in 1..(n + 1) /\ n + 1 - (i + 1) = (n + 1 - i) - 1
              /\ n + 1 - (n + 1 - i) = i /\ n + 1 - (i + 1) \in 0..n
          BY <1>2, <3>4 DEF Stop
        <4>2. prev[n + 1 - i] = n + 1 - (i + 1)  BY <3>1, <4>1 DEF prev
        <4>3. f[i + 1] = g[n + 1 - (i + 1)] /\ f[i + 1] \in X  BY <2>4, <2>5, <4>1
        <4>4. step[n + 1 - i][f[i + 1]] = After(n + 1 - (n + 1 - i), f[i + 1])
          BY <3>1, <4>3 DEF step
        <4>5. f[i] = step[n + 1 - i][g[prev[n + 1 - i]]]  BY <2>5, <3>2, <4>1
        <4>6. f[i] = After(i, f[i + 1])  BY <4>1, <4>2, <4>3, <4>4, <4>5
        <4> QED BY <3>4, <4>6
      <3> QED BY <3>3, <3>4
    <2>8. Solves(f)  BY <2>6, <2>7
    <2> QED BY <2>8
  <1>7. Solves(w)  BY <1>6
  <1> HIDE DEF w
  <1>8. \A i \in 1..(n + 1) : w[i] = IF i > n THEN Unhandled ELSE After(i, w[i + 1])  BY <1>7
  <1> HIDE DEF Solves
  <1> DEFINE Bad == {j \in 0..n : w[n + 1 - j] \notin X}
  <1>9. Bad = {}
    <2> SUFFICES ASSUME Bad # {} PROVE FALSE  OBVIOUS
    <2>1. Bad \in SUBSET Nat  BY <1>2
    <2>2. PICK j \in Bad : \A k \in Bad : j <= k
      <3> HIDE DEF Bad
      <3> QED BY <2>1, SmallestExists
    <2>3. j \in 0..n /\ w[n + 1 - j] \notin X  BY <2>2
    <2>4. n + 1 - j \in 1..(n + 1)  BY <1>2, <2>3
    <2>5. CASE j = 0
      <3>1. n + 1 - j > n  BY <1>2, <2>5
      <3>2. w[n + 1 - j] = Unhandled  BY <1>8, <2>4, <3>1
      <3> QED BY <1>5, <2>3, <3>2
    <2>6. CASE j # 0
      <3>1. /\ ~(n + 1 - j > n) /\ n + 1 - j \in 1..n /\ j - 1 \in 0..n /\ j - 1 < j
            /\ (n + 1 - j) + 1 = n + 1 - (j - 1)
        BY <1>2, <2>3, <2>6
      <3>2. j - 1 \notin Bad  BY <2>1, <2>2, <3>1
      <3>3. w[n + 1 - (j - 1)] \in X  BY <3>1, <3>2
      <3>4. w[n + 1 - j] = After(n + 1 - j, w[(n + 1 - j) + 1])  BY <1>8, <2>4, <3>1
      <3>5. w[n + 1 - j] \in X  BY <1>4, <3>1, <3>3, <3>4
      <3> QED BY <2>3, <3>5
    <2> QED BY <2>5, <2>6
  <1>10. w[1] \in X
    <2>1. n \in 0..n /\ n + 1 - n = 1  BY <1>2
    <2>2. w[n + 1 - n] \in X  BY <1>9, <2>1
    <2> QED BY <2>1, <2>2
  <1> QED BY <1>1, <1>10 DEF X

(* The active states are those of the walk from the current state. *)
FsmInv == current \in States /\ ProperlyNested

(* A move keeps it, and a dispatch and a reset are moves. *)
LEMMA FsmMoved ==
    ASSUME FsmInv, NEW calls, NEW state, Moves(current, calls, state),
           current' = state, active' = Replayed(active, calls)
    PROVE  FsmInv'
  <1>1. Takes(active, calls, Chain[state]) /\ state \in States
    BY DEF FsmInv, ProperlyNested, Moves
  <1>2. active' = Chain[state]  BY <1>1, TakesReplayed
  <1> QED BY <1>1, <1>2 DEF FsmInv, ProperlyNested

LEMMA FsmDispatch == ASSUME FsmInv, NEW event, NEW passing, Dispatch(event, passing) PROVE FsmInv'
  <1>1. current' = Bubbled(event, passing).state
        /\ active' = Replayed(active, Bubbled(event, passing).calls)
    BY DEF Dispatch
  <1>2. Nested(Bubbled(event, passing))  BY BubbledNested DEF FsmInv
  <1> QED BY <1>1, <1>2, FsmMoved DEF Nested

LEMMA FsmReset == ASSUME FsmInv, Reset PROVE FsmInv'
  <1> DEFINE move == Transition(current, Initial)
  <1>1. current \in States /\ Initial \in States  BY TreeFacts DEF FsmInv
  <1>2. Moves(current, move.calls, IF move.ok THEN Initial ELSE current)
    BY <1>1, TransitionMoves
  <1>3. current' = (IF move.ok THEN Initial ELSE current) /\ active' = Replayed(active, move.calls)
    BY DEF Reset
  <1> HIDE DEF move
  <1> QED BY <1>2, <1>3, FsmMoved

(* ngx_rtc_hsm_dispatch, for every tree of states and all its tables:       *)
(* whatever is dispatched, reset or restored, each exit leaves the state    *)
(* entered last, each entry enters a child of it, and the active states are *)
(* always the current one and its ancestors.                                *)
THEOREM FsmNested == FsmSpec => []ProperlyNested
  <1>1. FsmInit => FsmInv  BY TreeFacts DEF FsmInit, FsmInv, ProperlyNested
  <1>2. FsmInv /\ [FsmNext]_fsmVars => FsmInv'
    <2> SUFFICES ASSUME FsmInv, [FsmNext]_fsmVars PROVE FsmInv'  OBVIOUS
    <2>1. ASSUME NEW event \in Events, NEW passing \in SUBSET Guarded, Dispatch(event, passing)
          PROVE  FsmInv'
      BY <2>1, FsmDispatch
    <2>2. CASE Reset  BY <2>2, FsmReset
    <2>3. ASSUME NEW st \in States, Restore(st) PROVE FsmInv'
      BY <2>3 DEF Restore, FsmInv, ProperlyNested
    <2>4. CASE UNCHANGED fsmVars  BY <2>4 DEF fsmVars, FsmInv, ProperlyNested
    <2> QED BY <2>1, <2>2, <2>3, <2>4 DEF FsmNext
  <1> QED BY <1>1, <1>2, PTL DEF FsmSpec, FsmInv

=============================================================================
