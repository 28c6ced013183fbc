------------------------------- MODULE Pacer -------------------------------
(***************************************************************************)
(* Send pacing of one viewer: a token bucket and the loss-driven control   *)
(* of its rate from transport-wide feedback, with REMB as an upper bound.  *)
(* Time enters as the milliseconds that passed before a call; the two      *)
(* anchors of the code are kept as ages.                                   *)
(***************************************************************************)
EXTENDS Integers

CONSTANTS
    MinBps, MaxBps,    \* the clamp of the target rate
    BitsPerUnit,       \* 8000 in the code: bits per byte and second, in ms
    BurstMs,           \* NGX_RTC_PACER_BURST_MS
    MaxPkt,            \* NGX_RTC_MAX_RTP_PKT
    WindowMs, MinPkts, \* when a feedback window is evaluated
    HighPm, LowPm,     \* loss thresholds, per mille
    DecreaseNum, DecreaseDen, IncreaseNum, IncreaseDen,
    Packets,           \* lengths offered
    Gaps,              \* milliseconds that may pass between calls
    Reports,           \* feedback: <<lost, received>>
    Rembs              \* rates a REMB may name

(* Assumption on the constants, checked where the module is instantiated. *)
PacerConstants ==
    /\ {MinBps, MaxBps, BitsPerUnit, BurstMs, MaxPkt, WindowMs, MinPkts, HighPm, LowPm,
        DecreaseNum, DecreaseDen, IncreaseNum, IncreaseDen} \subseteq Nat \ {0}
    /\ MinBps <= MaxBps /\ LowPm <= HighPm
    /\ DecreaseNum < DecreaseDen /\ MinBps * IncreaseNum >= IncreaseDen
    /\ Packets \subseteq 1..MaxPkt /\ Gaps \subseteq Nat /\ Rembs \subseteq Nat
    /\ Reports \subseteq Nat \X Nat

VARIABLES
    target,   \* pacer_target_bps
    tokens,   \* pacer_tokens, bytes
    started,  \* pacer_started
    idle,     \* age of pacer_last_ms, up to IdleCap
    win,      \* the feedback window: started, lost, received, age up to WindowMs
    clear,    \* the path has stopped losing packets for good
    last      \* history: the last call and, of an admit, what it did

vars == <<target, tokens, started, idle, win, clear, last>>

(* Bound: a pause of the burst window refills like any longer one.          *)
IdleCap == BurstMs

Least(a, b) == IF a < b THEN a ELSE b

Clamp(bps) == IF bps < MinBps THEN MinBps ELSE Least(bps, MaxBps)

(* Mutant: no floor of one packet. *)
BucketNoFloor(bps) == (bps * BurstMs) \div BitsPerUnit

(* ngx_rtc_pacer_bucket_bytes *)
Bucket(bps) ==
    LET burst == (bps * BurstMs) \div BitsPerUnit
    IN  IF burst < MaxPkt THEN MaxPkt ELSE burst

Aged(age, gap, cap) == Least(age + gap, cap)

(* Types, with the target in its clamp and the window below its evaluation  *)
(* size except right after it opens.                                        *)
TypeOK ==
    /\ target \in MinBps..MaxBps /\ tokens \in Nat
    /\ started \in BOOLEAN /\ clear \in BOOLEAN
    /\ idle \in 0..IdleCap
    /\ win \in [started : BOOLEAN, lost : Nat, received : Nat, age : 0..WindowMs]
    /\ last \in [call : {"init", "admit", "twcc", "remb"}, waited : Nat, ok : BOOLEAN,
                 len : Nat]

Called(call) == [call |-> call, waited |-> 0, ok |-> TRUE, len |-> 0]

(* ngx_rtc_session_pacer_init at media-ready, at the highest rate. *)
Init == /\ target = Clamp(MaxBps)
        /\ tokens = Bucket(Clamp(MaxBps))
        /\ started = FALSE /\ idle = 0
        /\ win = [started |-> FALSE, lost |-> 0, received |-> 0, age |-> 0]
        /\ clear = FALSE
        /\ last = Called("init")

(* The credit of an admit that comes waited ms after the last one. *)
Refill(waited) ==
    CASE ~started                        -> 0
      [] started /\ waited >= BurstMs    -> Bucket(target)
      [] OTHER                           -> (waited * target) \div BitsPerUnit

(* ngx_rtc_session_pacer_admit *)
Admit(len, gap) ==
    LET waited == Aged(idle, gap, IdleCap)
        filled == Least(tokens + Refill(waited), Bucket(target))
        level  == IF started THEN filled ELSE tokens
        ok     == level >= len
    IN  /\ tokens' = IF ok THEN level - len ELSE level
        /\ started' = TRUE
        /\ idle' = 0
        /\ win' = [win EXCEPT !.age = Aged(@, gap, WindowMs)]
        /\ last' = [call |-> "admit", waited |-> waited, ok |-> ok, len |-> len]
        /\ UNCHANGED <<target, clear>>

(* A lower target shrinks the bucket and what it holds. *)
Surplus(bps) == Least(tokens, Bucket(bps))

CappedTarget(bps) == Least(target, Clamp(bps))

(* ngx_rtc_session_pacer_cap, called for a REMB *)
Remb(bps) ==
    /\ ~clear
    /\ target' = CappedTarget(bps)
    /\ tokens' = Surplus(target')
    /\ last' = Called("remb")
    /\ UNCHANGED <<started, idle, win, clear>>

(* Mutant: the increase is divided before it is multiplied. *)
AdjustedTruncated(lost, total) ==
    LET permille == (lost * 1000) \div total
    IN  Clamp(CASE permille > HighPm -> (target * DecreaseNum) \div DecreaseDen
                [] permille < LowPm  -> target + (target \div IncreaseDen) * IncreaseNum
                [] OTHER             -> target)

(* The rate control of one evaluated window. *)
Adjusted(lost, total) ==
    LET permille == (lost * 1000) \div total
    IN  Clamp(CASE permille > HighPm -> (target * DecreaseNum) \div DecreaseDen
                [] permille < LowPm  -> target + (target * IncreaseNum) \div IncreaseDen
                [] OTHER             -> target)

Evaluated(age, total) == age >= WindowMs \/ total >= MinPkts

(* ngx_rtc_session_on_twcc *)
Twcc(report, gap) ==
    LET lost     == win.lost + report[1]
        received == win.received + report[2]
        total    == lost + received
        age      == Aged(win.age, gap, WindowMs)
        kept     == [win EXCEPT !.lost = lost, !.received = received, !.age = age]
        empty    == [win EXCEPT !.lost = 0, !.received = 0, !.age = 0]
    IN  /\ clear => report[1] = 0
        /\ idle' = Aged(idle, gap, IdleCap)
        /\ CASE total = 0 -> win' = kept /\ UNCHANGED <<target, tokens>>
             [] total > 0 /\ ~win.started ->
                    /\ win' = [kept EXCEPT !.started = TRUE, !.age = 0]
                    /\ UNCHANGED <<target, tokens>>
             [] total > 0 /\ win.started /\ ~Evaluated(age, total) ->
                    win' = kept /\ UNCHANGED <<target, tokens>>
             [] OTHER ->
                    /\ win' = empty
                    /\ target' = Adjusted(lost, total)
                    /\ tokens' = Surplus(target')
        /\ last' = Called("twcc")
        /\ UNCHANGED <<started, clear>>

(* Environment: from here on nothing is lost and no REMB caps the rate. *)
PathClears == ~clear /\ clear' = TRUE /\ UNCHANGED <<target, tokens, started, idle, win, last>>

-----------------------------------------------------------------------------
Feedback == \E report \in Reports, gap \in Gaps : report # <<0, 0>> /\ Twcc(report, gap)

Next == \/ \E len \in Packets, gap \in Gaps : Admit(len, gap)
        \/ \E report \in Reports, gap \in Gaps : Twcc(report, gap)
        \/ \E bps \in Rembs : Remb(bps)
        \/ PathClears

Spec == Init /\ [][Next]_vars

(* The viewer keeps reporting what it received, and the path clears. *)
LiveSpec == Spec /\ WF_vars(Feedback) /\ WF_vars(PathClears)

-----------------------------------------------------------------------------
(* Properties *)

(* Whatever lowered the rate, loss or a REMB, no more than one burst of the *)
(* new rate is left to spend.                                               *)
BucketBounded == tokens <= Bucket(target)

(* A pause of one burst window admits any packet, at any rate the           *)
(* controller can have reached: the pacer cannot shut a session down.       *)
PauseAdmits == last.waited >= BurstMs /\ last.len <= MaxPkt => last.ok

(* A REMB only ever lowers the rate; only a loss report can raise it.       *)
RembNeverRaises == [][target' > target => last'.call = "twcc"]_vars

(* Once the path is clear the rate climbs back to its maximum, from the     *)
(* floor too: integer arithmetic does not stall the increase.               *)
RateRecovers == clear ~> target = MaxBps

(* The bucket fills at the target rate: an admit gains no more than what    *)
(* the rate earns in the time since the last one.                           *)
FilledAtRate ==
    [][LET spent == IF last'.ok THEN last'.len ELSE 0
       IN  last'.call = "admit" =>
             (tokens' + spent - tokens) * BitsPerUnit <= last'.waited * target]_vars
=============================================================================
