----------------------------- MODULE NackWindow -----------------------------
(***************************************************************************)
(* How a viewer's NACKs are answered: the budget of attempts per window,   *)
(* the dedup set, and the backoff of the window's width.  A window rolls   *)
(* only when a NACK arrives.  Whether a wanted packet is still cached and  *)
(* passes the send path is an input.  Time is kept as ages.                *)
(***************************************************************************)
EXTENDS Integers, FiniteSets, Sequences

CONSTANTS
    BaseMs, MaxMs,  \* nack_window_ms and nack_window_max_ms
    Budget,         \* NGX_RTC_NACK_BUDGET
    Nacks,          \* NACKs as the viewer sends them: sequences of RTP numbers
    Gaps            \* milliseconds that may pass between two NACKs

Wanted == UNION {{nack[i] : i \in DOMAIN nack} : nack \in Nacks}

ASSUME NackConstants ==
    /\ {BaseMs, MaxMs, Budget} \subseteq Nat \ {0} /\ BaseMs <= MaxMs
    /\ Nacks \subseteq Seq(Wanted) /\ Gaps \subseteq Nat

(* Bound: an age past every window width is as good as any larger one. *)
AgeCap == MaxMs

VARIABLES
    nack_window_ms,      \* current width, 0 before the first NACK
    age,                 \* age of nack_window_start, up to AgeCap
    nack_retransmitted,  \* attempts spent this window
    nack_seen,           \* dedup set of this window
    sent,                \* history: per number, how often it was sent this window
    quiet,               \* history: before the last NACK none came for two windows
    rolled               \* history: the last NACK rolled the window

nackVars == <<nack_window_ms, age, nack_retransmitted, nack_seen, sent, quiet, rolled>>

(* Types; the width moves between the base and the ceiling. *)
NackTypeOK ==
    /\ nack_window_ms \in {0} \cup BaseMs..MaxMs
    /\ age \in 0..AgeCap
    /\ nack_retransmitted \in 0..Budget
    /\ nack_seen \subseteq Wanted
    /\ sent \in [Wanted -> Nat]
    /\ quiet \in BOOLEAN /\ rolled \in BOOLEAN

Least(a, b) == IF a < b THEN a ELSE b

(* nack_window_start is 0, long ago. *)
NackInit == /\ nack_window_ms = 0 /\ age = AgeCap
            /\ nack_retransmitted = 0 /\ nack_seen = {}
            /\ sent = [n \in Wanted |-> 0]
            /\ quiet = FALSE /\ rolled = FALSE

(* ngx_rtc_session_nack_window_step *)
Width == IF nack_window_ms = 0 THEN BaseMs ELSE nack_window_ms

NextWidth ==
    CASE nack_retransmitted >= Budget -> Least(Width * 2, MaxMs)
      [] nack_retransmitted = 0       -> BaseMs
      [] OTHER                        -> Width

Rolls(now) == now >= Width

(* The numbers a NACK gets attempts for: what is left of the budget, in order. *)
Attempted(nack, spent) == SubSeq(nack, 1, Least(Len(nack), Budget - spent))

(* Mutant: the dedup set is not asked. *)
AnsweredAgain(attempts, seen, deliverable) ==
    {i \in DOMAIN attempts : attempts[i] \in deliverable}

(* ngx_rtc_session_retransmit_send for each: the dedup set first, then the  *)
(* send path, then the dedup set grows.                                     *)
Answered(attempts, seen, deliverable) ==
    {i \in DOMAIN attempts :
        /\ attempts[i] \in deliverable \ seen
        /\ \A j \in 1..(i - 1) : attempts[j] # attempts[i]}

(* Mutant: an attempt that was refused is remembered as answered. *)
RecordedAll(attempts, answered) == {attempts[i] : i \in DOMAIN attempts}

Recorded(attempts, answered) == {attempts[i] : i \in answered}

(* The NACK branch of ngx_rtc_stream_rtcp_cb, gap ms after the last NACK.   *)
Nack(nack, deliverable, gap) ==
    LET now      == Least(age + gap, AgeCap)
        roll     == Rolls(now)
        spent    == IF roll THEN 0 ELSE nack_retransmitted
        seen     == IF roll THEN {} ELSE nack_seen
        attempts == Attempted(nack, spent)
        answered == Answered(attempts, seen, deliverable)
        times(n) == Cardinality({i \in answered : attempts[i] = n})
    IN  /\ nack_window_ms' = IF roll THEN NextWidth ELSE Width
        /\ age' = IF roll THEN 0 ELSE now
        /\ nack_retransmitted' = spent + Len(attempts)
        /\ nack_seen' = seen \cup Recorded(attempts, answered)
        /\ sent' = [n \in Wanted |-> (IF roll THEN 0 ELSE sent[n]) + times(n)]
        /\ quiet' = (gap >= 2 * Width)
        /\ rolled' = roll

NackNext == \E nack \in Nacks, deliverable \in SUBSET Wanted, gap \in Gaps :
                Nack(nack, deliverable, gap)

NackSpec == NackInit /\ [][NackNext]_nackVars

-----------------------------------------------------------------------------
(* Properties *)

(* However often a viewer repeats itself, inside one NACK or over several,  *)
(* a packet is retransmitted at most once per window, and a window never    *)
(* sends more than its budget.                                              *)
OncePerWindow ==
    /\ \A n \in Wanted : sent[n] <= 1
    /\ Cardinality({n \in Wanted : sent[n] > 0}) <= Budget

(* A lost retransmission can be asked for again: a packet that was not      *)
(* delivered stays out of the dedup set.                                    *)
RefusedStaysWanted == \A n \in nack_seen : sent[n] > 0

(* A packet is retransmitted at most once per window, within the budget,    *)
(* and one whose retransmission was refused can be asked for again.         *)
ResentOnce == OncePerWindow /\ RefusedStaysWanted

(* After a quiet window, one that passed without any NACK, the width is     *)
(* back at the base cadence.                                                *)
QuietResets == quiet /\ rolled => nack_window_ms = BaseMs
=============================================================================
