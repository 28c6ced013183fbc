------------------------------- MODULE AvSync -------------------------------
(***************************************************************************)
(* ngx_rtc_avsync.c: RTP timestamps placed on the sender's wall clock      *)
(* through its sender reports.  The sender's wall clock runs at a rational *)
(* rate and is read in whole units, so that a report rounds it, a slope    *)
(* calibrated from two reports carries both their roundings, and the map   *)
(* multiplies them by the distance and rounds again.  The network loses,   *)
(* repeats and reorders reports, and the timestamps wrap.  No other part   *)
(* of the program calls this one yet (docs/BACKLOG.md:43): its reports are *)
(* what the interface and its test allow.                                  *)
(***************************************************************************)
EXTENDS Integers

CONSTANTS
    RtpSpace,  \* 2^32 in the code
    RateNum,   \* wall clock units per timestamp unit: 2^32 / 90000 in the
    RateDen,   \* code's video
    Start,     \* the sender's first timestamp
    MaxTime    \* bound on the sender's clock

ASSUME AvSyncConstants ==
    /\ {RtpSpace, RateNum, RateDen, MaxTime} \subseteq Nat \ {0} /\ Start \in Nat
    /\ RateNum >= RateDen
    /\ RtpSpace % 2 = 0

Half == RtpSpace \div 2

VARIABLES
    sync,      \* ngx_rtc_avsync_t
    anchor     \* history: the time of the report that is the reference

syncVars == <<sync, anchor>>

Ntp(t) == (RateNum * t) \div RateDen

Rtp(t) == (Start + t) % RtpSpace

(* Mutant: the distance without its wrap. *)
RtpDeltaPlain(a, b) == a - b

(* ngx_rtc_avsync_rtp_delta: signed, of the width of a timestamp. *)
RtpDelta(a, b) ==
    LET d == (a - b + RtpSpace) % RtpSpace IN IF d >= Half THEN d - RtpSpace ELSE d

SyncInit == /\ sync = [has_anchor |-> FALSE, has_slope |-> FALSE, ntp_cur |-> 0, rtp_cur |-> 0,
                    slope_num |-> 0, slope_den |-> 0]
            /\ anchor = 0

(* ngx_rtc_avsync_calibrate; ntp_prev and rtp_prev are written, never read. *)
Calibrated(ntp_prev, ntp_cur, rtp_cur, drtp) ==
    [sync EXCEPT !.ntp_cur = ntp_cur, !.rtp_cur = rtp_cur, !.slope_num = ntp_cur - ntp_prev,
                 !.slope_den = drtp, !.has_slope = TRUE]

(* ngx_rtc_avsync_on_sr *)
FirstReport(ntp, rtp) == [sync EXCEPT !.has_anchor = TRUE, !.ntp_cur = ntp, !.rtp_cur = rtp]

LateReport(ntp, rtp) ==
    LET drtp == RtpDelta(sync.rtp_cur, rtp)
    IN  IF drtp <= 0 THEN sync ELSE Calibrated(ntp, sync.ntp_cur, sync.rtp_cur, drtp)

ForwardReport(ntp, rtp) ==
    LET drtp == RtpDelta(rtp, sync.rtp_cur)
    IN  IF drtp <= 0 THEN sync ELSE Calibrated(sync.ntp_cur, ntp, rtp, drtp)

AfterReport(ntp, rtp) ==
    IF ~sync.has_anchor THEN FirstReport(ntp, rtp)
    ELSE CASE ntp = sync.ntp_cur -> sync
           [] ntp < sync.ntp_cur -> LateReport(ntp, rtp)
           [] ntp > sync.ntp_cur -> ForwardReport(ntp, rtp)

(* A report of time t arrives; reports are less than half the range of a    *)
(* timestamp away from the reference (hours, in the code).                  *)
OnSr(t) ==
    /\ sync.has_anchor => t - anchor \in (1 - Half)..(Half - 1)
    /\ sync' = AfterReport(Ntp(t), Rtp(t))
    /\ anchor' = IF sync.has_anchor /\ sync'.ntp_cur = sync.ntp_cur THEN anchor ELSE t

SyncNext == \E t \in 0..MaxTime : OnSr(t)

SyncSpec == SyncInit /\ [][SyncNext]_syncVars

-----------------------------------------------------------------------------
(* ngx_rtc_avsync_map_rtp_to_wall *)
MapRtpToWall(rtp) ==
    LET delta == RtpDelta(rtp, sync.rtp_cur)
    IN  IF delta >= 0 THEN sync.ntp_cur + (delta * sync.slope_num) \div sync.slope_den
        ELSE sync.ntp_cur - ((-delta) * sync.slope_num) \div sync.slope_den

Distance(a, b) == IF a >= b THEN a - b ELSE b - a

(* Once two reports came, whichever and in whatever order, every packet     *)
(* less than half the range away from the reference gets its time to within *)
(* one unit for every slope_den of the distance, by which a slope's         *)
(* rounding grows, and two more, from the packet's own.                     *)
MapClose ==
    sync.has_slope =>
        \A t \in 0..MaxTime :
            t - anchor \in (1 - Half)..(Half - 1) =>
                Distance(MapRtpToWall(Rtp(t)), Ntp(t)) * sync.slope_den
                    < Distance(t, anchor) + 2 * sync.slope_den
=============================================================================
