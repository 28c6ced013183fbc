---------------------------- MODULE PacerProofs -----------------------------
(* What the pacer promises at any rates, bursts and thresholds: it never    *)
(* holds more than one burst of the current rate, a pause of a burst window *)
(* admits any packet, and a REMB never raises the rate.                     *)
EXTENDS Pacer, TLAPS

-----------------------------------------------------------------------------
(* The bucket and the clamp *)

(* The constants, one by one. *)
LEMMA PacerNumbers ==
    ASSUME PacerConstants
    PROVE  /\ MinBps \in Nat /\ MaxBps \in Nat /\ MinBps > 0 /\ MinBps <= MaxBps
           /\ BitsPerUnit \in Nat /\ BitsPerUnit > 0 /\ BurstMs \in Nat /\ BurstMs > 0
           /\ MaxPkt \in Nat /\ MaxPkt > 0 /\ WindowMs \in Nat /\ WindowMs > 0
           /\ DecreaseNum \in Nat /\ DecreaseDen \in Nat /\ DecreaseDen > 0
           /\ IncreaseNum \in Nat /\ IncreaseDen \in Nat /\ IncreaseDen > 0
           /\ LowPm \in Nat /\ LowPm > 0 /\ HighPm \in Nat /\ LowPm <= HighPm
           /\ MinBps * IncreaseNum >= IncreaseDen
           /\ Packets \subseteq 1..MaxPkt /\ Gaps \subseteq Nat /\ Rembs \subseteq Nat
           /\ Reports \subseteq Nat \X Nat
  BY DEF PacerConstants

LEMMA ClampWithin ==
    ASSUME PacerConstants, NEW bps \in Int PROVE Clamp(bps) \in MinBps..MaxBps
  BY PacerNumbers DEF Clamp, Least

(* A quotient of natural numbers is one. *)
LEMMA QuotientNat ==
    ASSUME NEW a \in Nat, NEW b \in Nat, b > 0 PROVE a \div b \in Nat
  OBVIOUS

LEMMA ProductNat ==
    ASSUME NEW a \in Nat, NEW b \in Nat PROVE a * b \in Nat
  OBVIOUS

(* ngx_rtc_pacer_bucket_bytes never comes below a packet. *)
LEMMA BucketHoldsPacket ==
    ASSUME PacerConstants, NEW bps \in Nat
    PROVE  Bucket(bps) \in Nat /\ Bucket(bps) >= MaxPkt
  <1>1. bps * BurstMs \in Nat  BY PacerNumbers, ProductNat
  <1>2. (bps * BurstMs) \div BitsPerUnit \in Nat  BY <1>1, PacerNumbers, QuotientNat
  <1> QED BY <1>2, PacerNumbers DEF Bucket

(* What a time of waiting adds: nothing before the first admit, a whole     *)
(* burst after a pause of the burst window.                                 *)
LEMMA RefillNat ==
    ASSUME PacerConstants, target \in Nat, started \in BOOLEAN, NEW waited \in Nat
    PROVE  /\ Refill(waited) \in Nat
           /\ started /\ waited >= BurstMs => Refill(waited) = Bucket(target)
  <1>1. waited * target \in Nat  BY ProductNat
  <1>2. (waited * target) \div BitsPerUnit \in Nat  BY <1>1, PacerNumbers, QuotientNat
  <1>3. Bucket(target) \in Nat  BY BucketHoldsPacket
  <1>4. CASE ~started  BY <1>4 DEF Refill
  <1>5. CASE started /\ waited >= BurstMs  BY <1>3, <1>5 DEF Refill
  <1>6. CASE started /\ ~(waited >= BurstMs)  BY <1>2, <1>6 DEF Refill
  <1> QED BY <1>4, <1>5, <1>6

-----------------------------------------------------------------------------
(* The loss control *)

(* The rate stays within its clamp, whatever was lost and received. *)
LEMMA AdjustedWithin ==
    ASSUME PacerConstants, target \in Nat, NEW lost \in Nat, NEW total \in Nat, total > 0
    PROVE  Adjusted(lost, total) \in MinBps..MaxBps
  <1> DEFINE permille == (lost * 1000) \div total
             lower    == (target * DecreaseNum) \div DecreaseDen
             higher   == target + (target * IncreaseNum) \div IncreaseDen
  <1>1. permille \in Nat  BY QuotientNat
  <1>2. target * DecreaseNum \in Nat /\ target * IncreaseNum \in Nat  BY PacerNumbers, ProductNat
  <1>3. lower \in Nat  BY <1>2, PacerNumbers, QuotientNat
  <1>4. higher \in Nat  BY <1>2, PacerNumbers, QuotientNat
  <1> HIDE DEF permille, lower, higher
  <1>5. (CASE permille > HighPm -> lower [] permille < LowPm -> higher [] OTHER -> target) \in Int
    BY <1>1, <1>3, <1>4, PacerNumbers
  <1> QED BY <1>5, ClampWithin DEF Adjusted, permille, lower, higher

(* A product grows with its factor. *)
LEMMA ProductGrows ==
    ASSUME NEW a \in Nat, NEW b \in Nat, NEW c \in Nat, a <= b PROVE a * c <= b * c
  <1> DEFINE d == b - a
  <1>1. d \in Nat /\ b = a + d  OBVIOUS
  <1> HIDE DEF d
  <1>2. d * c \in Nat /\ a * c \in Nat  BY <1>1, ProductNat
  <1>3. b * c = a * c + d * c  BY <1>1
  <1> QED BY <1>2, <1>3

(* What is not below the divisor contains it. *)
LEMMA QuotientPositive ==
    ASSUME NEW a \in Nat, NEW b \in Nat, b > 0, a >= b PROVE a \div b >= 1
  OBVIOUS

(* A window without loss raises every rate below the maximum, the lowest    *)
(* one too: the increase is never rounded to nothing.                       *)
LEMMA AdjustedRises ==
    ASSUME PacerConstants, target \in MinBps..MaxBps, target < MaxBps,
           NEW total \in Nat, total > 0
    PROVE  Adjusted(0, total) > target
  <1> DEFINE gain == (target * IncreaseNum) \div IncreaseDen
  <1>1. (0 * 1000) \div total = 0  OBVIOUS
  <1>2. target \in Nat /\ target >= MinBps  BY PacerNumbers
  <1>3. MinBps * IncreaseNum \in Nat /\ target * IncreaseNum \in Nat
    BY <1>2, PacerNumbers, ProductNat
  <1>4. MinBps * IncreaseNum <= target * IncreaseNum  BY <1>2, PacerNumbers, ProductGrows
  <1>5. target * IncreaseNum >= IncreaseDen  BY <1>3, <1>4, PacerNumbers
  <1>6. gain \in Nat /\ gain >= 1  BY <1>3, <1>5, PacerNumbers, QuotientNat, QuotientPositive
  <1> HIDE DEF gain
  <1>7. Adjusted(0, total) = Clamp(target + gain)
    BY <1>1, PacerNumbers DEF Adjusted, gain
  <1> QED BY <1>2, <1>6, <1>7, PacerNumbers DEF Clamp, Least

-----------------------------------------------------------------------------
(* The invariant *)

(* Before its first admit the bucket still holds a packet, whatever         *)
(* feedback or REMB came: a session starts full, and not on credit.         *)
StartsFull == ~started => tokens >= MaxPkt

PacerInv == TypeOK /\ BucketBounded /\ PauseAdmits /\ StartsFull

LEMMA PacerInitInv ==
    ASSUME PacerConstants, Init PROVE PacerInv
  <1>1. Clamp(MaxBps) \in MinBps..MaxBps  BY PacerNumbers, ClampWithin
  <1>2. Clamp(MaxBps) \in Nat  BY <1>1, PacerNumbers
  <1>3. Bucket(Clamp(MaxBps)) \in Nat /\ Bucket(Clamp(MaxBps)) >= MaxPkt
    BY <1>2, BucketHoldsPacket
  <1>4. 0 \in 0..IdleCap /\ 0 \in 0..WindowMs  BY PacerNumbers DEF IdleCap
  <1>5. TypeOK  BY <1>1, <1>3, <1>4 DEF Init, TypeOK, Called
  <1>6. last.waited = 0  BY DEF Init, Called
  <1> QED BY <1>3, <1>5, <1>6, PacerNumbers
          DEF Init, PacerInv, BucketBounded, PauseAdmits, StartsFull

LEMMA AgedWithin ==
    ASSUME NEW cap \in Nat, NEW age \in 0..cap, NEW gap \in Nat
    PROVE  Aged(age, gap, cap) \in 0..cap
  BY DEF Aged, Least

(* ngx_rtc_session_pacer_admit: what is left of a bucket of the unchanged   *)
(* rate, which was full if the pause was long enough.                       *)
LEMMA AdmitInv ==
    ASSUME PacerConstants, PacerInv, NEW len \in Packets, NEW gap \in Gaps, Admit(len, gap)
    PROVE  PacerInv'
  <1> DEFINE waited == Aged(idle, gap, IdleCap)
             filled == Least(tokens + Refill(waited), Bucket(target))
             level  == IF started THEN filled ELSE tokens
             ok     == level >= len
  <1>1. /\ target \in MinBps..MaxBps /\ target \in Nat /\ tokens \in Nat /\ started \in BOOLEAN
        /\ len \in Nat /\ len <= MaxPkt /\ gap \in Nat /\ clear \in BOOLEAN
        /\ win \in [started : BOOLEAN, lost : Nat, received : Nat, age : 0..WindowMs]
    BY PacerNumbers DEF PacerInv, TypeOK
  <1>2. waited \in 0..IdleCap /\ waited \in Nat
    <2>1. IdleCap \in Nat /\ idle \in 0..IdleCap  BY PacerNumbers DEF PacerInv, TypeOK, IdleCap
    <2>2. waited \in 0..IdleCap  BY <1>1, <2>1, AgedWithin
    <2> QED BY <2>1, <2>2
  <1>3. Aged(win.age, gap, WindowMs) \in 0..WindowMs  BY <1>1, PacerNumbers, AgedWithin
  <1>4. /\ tokens' = IF ok THEN level - len ELSE level
        /\ started' = TRUE /\ idle' = 0 /\ target' = target /\ clear' = clear
        /\ win' = [win EXCEPT !.age = Aged(@, gap, WindowMs)]
        /\ last' = [call |-> "admit", waited |-> waited, ok |-> ok, len |-> len]
    BY DEF Admit
  <1>5. Bucket(target) \in Nat /\ Bucket(target) >= MaxPkt  BY <1>1, BucketHoldsPacket
  <1>6. Refill(waited) \in Nat /\ (started /\ waited >= BurstMs => Refill(waited) = Bucket(target))
    BY <1>1, <1>2, RefillNat
  <1> HIDE DEF waited
  <1>7. filled \in Nat /\ filled <= Bucket(target)
    BY <1>1, <1>5, <1>6 DEF Least
  <1>8. level \in Nat /\ level <= Bucket(target)
    BY <1>1, <1>7 DEF PacerInv, BucketBounded
  <1>9. waited >= BurstMs => level >= MaxPkt
    <2>1. CASE started  BY <1>1, <1>5, <1>6, <2>1 DEF Least
    <2>2. CASE ~started  BY <2>2 DEF PacerInv, StartsFull
    <2> QED BY <1>1, <2>1, <2>2
  <1> HIDE DEF filled, level
  <1>10. tokens' \in Nat /\ tokens' <= Bucket(target)  BY <1>1, <1>4, <1>5, <1>8
  <1>11. Bucket(target') = Bucket(target)  BY <1>4 DEF Bucket
  <1>12. TypeOK'
    <2>1. win' \in [started : BOOLEAN, lost : Nat, received : Nat, age : 0..WindowMs]
      BY <1>1, <1>3, <1>4
    <2>2. ok \in BOOLEAN  OBVIOUS
    <2>3. 0 \in 0..IdleCap  BY PacerNumbers DEF IdleCap
    <2> HIDE DEF ok
    <2> QED BY <1>1, <1>2, <1>4, <1>10, <2>1, <2>2, <2>3 DEF TypeOK
  <1>13. PauseAdmits'
    <2>1. last'.waited = waited /\ last'.len = len /\ last'.ok = (level >= len)  BY <1>4
    <2>2. waited >= BurstMs => level >= len  BY <1>1, <1>8, <1>9, PacerNumbers
    <2> QED BY <2>1, <2>2 DEF PauseAdmits
  <1> QED BY <1>4, <1>10, <1>11, <1>12, <1>13 DEF PacerInv, BucketBounded, StartsFull

(* A new rate cuts what the bucket holds, and never below a packet.         *)
LEMMA SurplusBounded ==
    ASSUME PacerConstants, tokens \in Nat, NEW bps \in Nat
    PROVE  /\ Surplus(bps) \in Nat /\ Surplus(bps) <= Bucket(bps)
           /\ tokens >= MaxPkt => Surplus(bps) >= MaxPkt
  BY BucketHoldsPacket, PacerNumbers DEF Surplus, Least

(* Any new rate within the clamp, and any call that is not an admit.        *)
LEMMA NewRateInv ==
    ASSUME PacerConstants, PacerInv, target' \in MinBps..MaxBps,
           \/ tokens' = Surplus(target')
           \/ tokens' = tokens /\ target' = target,
           started' = started, clear' \in BOOLEAN, idle' \in 0..IdleCap,
           win' \in [started : BOOLEAN, lost : Nat, received : Nat, age : 0..WindowMs],
           \/ last' = last
           \/ \E call \in {"twcc", "remb"} : last' = Called(call)
    PROVE  PacerInv'
  <1>1. target' \in Nat /\ tokens \in Nat /\ started \in BOOLEAN
    BY PacerNumbers DEF PacerInv, TypeOK
  <1>2. tokens' \in Nat /\ tokens' <= Bucket(target')
    <2>1. CASE tokens' = Surplus(target')  BY <1>1, <2>1, SurplusBounded
    <2>2. CASE tokens' = tokens /\ target' = target
      BY <1>1, <2>2 DEF PacerInv, BucketBounded
    <2> QED BY <2>1, <2>2
  <1>3. ~started' => tokens' >= MaxPkt
    BY <1>1, SurplusBounded DEF PacerInv, StartsFull
  <1>4. last' \in [call : {"init", "admit", "twcc", "remb"}, waited : Nat, ok : BOOLEAN, len : Nat]
    <2>1. CASE last' = last  BY <2>1 DEF PacerInv, TypeOK
    <2>2. CASE \E call \in {"twcc", "remb"} : last' = Called(call)  BY <2>2 DEF Called
    <2> QED BY <2>1, <2>2
  <1>5. PauseAdmits'
    <2>1. CASE last' = last  BY <2>1 DEF PacerInv, PauseAdmits
    <2>2. CASE \E call \in {"twcc", "remb"} : last' = Called(call)
      BY <2>2 DEF PauseAdmits, Called
    <2> QED BY <2>1, <2>2
  <1>6. Bucket(target)' = Bucket(target')  BY DEF Bucket
  <1>7. TypeOK'  BY <1>1, <1>2, <1>4 DEF TypeOK, IdleCap
  <1> QED BY <1>2, <1>3, <1>5, <1>6, <1>7 DEF PacerInv, BucketBounded, StartsFull

(* ngx_rtc_session_pacer_cap *)
LEMMA RembInv ==
    ASSUME PacerConstants, PacerInv, NEW bps \in Rembs, Remb(bps)
    PROVE  PacerInv' /\ target' <= target
  <1>1. bps \in Int /\ Clamp(bps) \in MinBps..MaxBps  BY PacerNumbers, ClampWithin
  <1>2. target \in MinBps..MaxBps  BY DEF PacerInv, TypeOK
  <1>3. target' \in MinBps..MaxBps /\ target' <= target
    BY <1>1, <1>2, PacerNumbers DEF Remb, CappedTarget, Least
  <1>4. /\ tokens' = Surplus(target') /\ last' = Called("remb")
        /\ started' = started /\ idle' = idle /\ win' = win /\ clear' = clear
    BY DEF Remb
  <1>5. /\ idle \in 0..IdleCap /\ clear \in BOOLEAN
        /\ win \in [started : BOOLEAN, lost : Nat, received : Nat, age : 0..WindowMs]
    BY DEF PacerInv, TypeOK
  <1> QED BY <1>3, <1>4, <1>5, NewRateInv

(* ngx_rtc_session_on_twcc *)
LEMMA TwccInv ==
    ASSUME PacerConstants, PacerInv, NEW report \in Reports, NEW gap \in Gaps, Twcc(report, gap)
    PROVE  PacerInv' /\ last'.call = "twcc"
  <1> DEFINE lost     == win.lost + report[1]
             received == win.received + report[2]
             total    == lost + received
             age      == Aged(win.age, gap, WindowMs)
             Windows  == [started : BOOLEAN, lost : Nat, received : Nat, age : 0..WindowMs]
  <1>1. /\ target \in MinBps..MaxBps /\ target \in Nat /\ tokens \in Nat /\ gap \in Nat
        /\ idle \in 0..IdleCap /\ clear \in BOOLEAN /\ win \in Windows
        /\ report[1] \in Nat /\ report[2] \in Nat
    BY PacerNumbers DEF PacerInv, TypeOK
  <1>2. age \in 0..WindowMs /\ 0 \in 0..WindowMs  BY <1>1, PacerNumbers, AgedWithin
  <1>3. Aged(idle, gap, IdleCap) \in 0..IdleCap  BY <1>1, PacerNumbers, AgedWithin DEF IdleCap
  <1>4. lost \in Nat /\ received \in Nat /\ total \in Nat  BY <1>1
  <1>5. /\ idle' \in 0..IdleCap /\ started' = started /\ clear' = clear
        /\ last' = Called("twcc")
    BY <1>3 DEF Twcc
  <1>6. /\ win' \in Windows
        /\ \/ target' = target /\ tokens' = tokens
           \/ total > 0 /\ target' = Adjusted(lost, total) /\ tokens' = Surplus(target')
    <2>1. [win EXCEPT !.lost = lost, !.received = received, !.age = age] \in Windows
      BY <1>1, <1>2, <1>4
    <2>2. [win EXCEPT !.lost = 0, !.received = 0, !.age = 0] \in Windows  BY <1>1, <1>2
    <2>3. [[win EXCEPT !.lost = lost, !.received = received, !.age = age]
             EXCEPT !.started = TRUE, !.age = 0] \in Windows
      BY <1>1, <1>2, <1>4
    <2>4. (CASE total = 0 -> /\ win' = [win EXCEPT !.lost = lost, !.received = received, !.age = age]
                             /\ target' = target /\ tokens' = tokens
             [] total > 0 /\ ~win.started ->
                   /\ win' = [[win EXCEPT !.lost = lost, !.received = received, !.age = age]
                                 EXCEPT !.started = TRUE, !.age = 0]
                   /\ target' = target /\ tokens' = tokens
             [] total > 0 /\ win.started /\ ~Evaluated(age, total) ->
                   /\ win' = [win EXCEPT !.lost = lost, !.received = received, !.age = age]
                   /\ target' = target /\ tokens' = tokens
             [] OTHER ->
                   /\ win' = [win EXCEPT !.lost = 0, !.received = 0, !.age = 0]
                   /\ target' = Adjusted(lost, total)
                   /\ tokens' = Surplus(target'))
      BY DEF Twcc
    <2> HIDE DEF lost, received, total, age, Windows
    <2>5. CASE total = 0  BY <2>1, <2>4, <2>5
    <2>6. CASE total > 0 /\ ~win.started  BY <1>4, <2>3, <2>4, <2>6
    <2>7. CASE total > 0 /\ win.started /\ ~Evaluated(age, total)  BY <1>4, <2>1, <2>4, <2>7
    <2>8. CASE total > 0 /\ win.started /\ Evaluated(age, total)  BY <1>4, <2>2, <2>4, <2>8
    <2> QED BY <1>4, <2>5, <2>6, <2>7, <2>8
  <1>7. target' \in MinBps..MaxBps  BY <1>1, <1>4, <1>6, AdjustedWithin
  <1>8. last'.call = "twcc"  BY <1>5 DEF Called
  <1> HIDE DEF lost, total
  <1> QED BY <1>1, <1>5, <1>6, <1>7, <1>8, NewRateInv

LEMMA PacerNextInv ==
    ASSUME PacerConstants, PacerInv, [Next]_vars PROVE PacerInv'
  <1>1. ASSUME PathClears \/ UNCHANGED vars PROVE PacerInv'
    BY <1>1, NewRateInv DEF PathClears, vars, PacerInv, TypeOK
  <1> QED BY <1>1, AdmitInv, TwccInv, RembInv DEF Next

-----------------------------------------------------------------------------
(* Whatever lowered the rate, loss or a REMB, and whenever it came, the     *)
(* bucket holds one burst of the current rate at most                       *)
(* (ngx_rtc_session_pacer_admit, _cap and ngx_rtc_session_on_twcc).         *)
THEOREM BurstBounded == PacerConstants /\ Spec => []BucketBounded
  <1> SUFFICES ASSUME PacerConstants PROVE Spec => []BucketBounded  OBVIOUS
  <1>1. Init => PacerInv  BY PacerInitInv
  <1>2. PacerInv /\ [Next]_vars => PacerInv'  BY PacerNextInv
  <1>3. PacerInv => BucketBounded  BY DEF PacerInv
  <1> QED BY <1>1, <1>2, <1>3, PTL DEF Spec

(* The pacer cannot shut a session down: at any rate it can have come to, a *)
(* packet of any length is admitted after a pause of one burst window.      *)
THEOREM PauseAlwaysAdmits == PacerConstants /\ Spec => []PauseAdmits
  <1> SUFFICES ASSUME PacerConstants PROVE Spec => []PauseAdmits  OBVIOUS
  <1>1. Init => PacerInv  BY PacerInitInv
  <1>2. PacerInv /\ [Next]_vars => PacerInv'  BY PacerNextInv
  <1>3. PacerInv => PauseAdmits  BY DEF PacerInv
  <1> QED BY <1>1, <1>2, <1>3, PTL DEF Spec

(* Only a loss report raises the rate; a REMB is an upper bound.            *)
THEOREM RembOnlyLowers == PacerConstants /\ Spec => RembNeverRaises
  <1> SUFFICES ASSUME PacerConstants PROVE Spec => RembNeverRaises  OBVIOUS
  <1>1. Init => PacerInv  BY PacerInitInv
  <1>2. PacerInv /\ [Next]_vars => PacerInv'  BY PacerNextInv
  <1>3. PacerInv /\ [Next]_vars => [target' > target => last'.call = "twcc"]_vars
    <2> SUFFICES ASSUME PacerInv, Next, target' > target PROVE last'.call = "twcc"
      BY DEF vars
    <2>1. target \in Int  BY PacerNumbers DEF PacerInv, TypeOK
    <2>2. ASSUME NEW len \in Packets, NEW gap \in Gaps, Admit(len, gap) PROVE FALSE
      BY <2>1, <2>2 DEF Admit
    <2>3. ASSUME NEW bps \in Rembs, Remb(bps) PROVE FALSE
      <3>1. target' <= target /\ target' \in MinBps..MaxBps
        BY <2>3, RembInv DEF PacerInv, TypeOK
      <3> QED BY <2>1, <3>1, PacerNumbers
    <2>4. CASE PathClears  BY <2>1, <2>4 DEF PathClears
    <2> QED BY <2>2, <2>3, <2>4, TwccInv DEF Next
  <1> QED BY <1>1, <1>2, <1>3, PTL DEF Spec, RembNeverRaises

(* From every state the controller can reach, an evaluated window without   *)
(* loss raises a rate that is not yet the maximum: integer arithmetic does  *)
(* not stall the recovery anywhere between the floor and the ceiling.       *)
THEOREM RateClimbs ==
    PacerConstants /\ Spec =>
        [](target < MaxBps => \A total \in Nat \ {0} : Adjusted(0, total) > target)
  <1> DEFINE Climbs == target < MaxBps => \A total \in Nat \ {0} : Adjusted(0, total) > target
  <1> SUFFICES ASSUME PacerConstants PROVE Spec => []Climbs  OBVIOUS
  <1>1. Init => PacerInv  BY PacerInitInv
  <1>2. PacerInv /\ [Next]_vars => PacerInv'  BY PacerNextInv
  <1>3. PacerInv => Climbs
    <2> SUFFICES ASSUME PacerInv, target < MaxBps, NEW total \in Nat \ {0}
                 PROVE  Adjusted(0, total) > target
      OBVIOUS
    <2> QED BY AdjustedRises DEF PacerInv, TypeOK
  <1> HIDE DEF Climbs
  <1> QED BY <1>1, <1>2, <1>3, PTL DEF Spec
=============================================================================
