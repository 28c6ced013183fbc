------------------------------- MODULE Jitter -------------------------------
(***************************************************************************)
(* The WHIP uplink reorder buffer of ngx_rtc_jitter.c.  The publisher      *)
(* numbers its video packets; the network reorders, duplicates and loses   *)
(* them; the buffer hands them on in order, skips what stays missing past  *)
(* a deadline and re-anchors on a jump beyond its window.  There is no     *)
(* timer: everything happens in ngx_rtc_jitter_push.                       *)
(***************************************************************************)
EXTENDS Integers, Sequences, FiniteSets, FiniteSetsExt

CONSTANTS
    Cap,        \* NGX_RTC_JITTER_CAP, a power of two
    SeqMod,     \* 2^16 in the code
    Timeout,    \* gap_timeout_ms
    First,      \* sequence number of a publish's first packet
    MaxSent,    \* bound on the packets of a publish
    MaxLate,    \* how far behind the newest arrival a packet may be delayed
    MaxTime,    \* bound on the clock
    MaxPublishes

ASSUME JitterConstants ==
    /\ {Cap, SeqMod, Timeout, MaxSent, MaxPublishes} \subseteq Nat \ {0}
    /\ First \in 0..(SeqMod - 1) /\ MaxLate \in Nat /\ MaxTime \in Nat \ {0}
    /\ SeqMod % Cap = 0 /\ 2 * Cap <= SeqMod
    /\ MaxSent <= SeqMod \div 2   \* no sender outruns the 16-bit comparison

VARIABLES
    j,         \* ngx_rtc_jitter_t
    now,       \* millisecond clock
    newest,    \* the newest packet that arrived, 0 for none
    out,       \* history: the packets handed to the emit callback, in order
    publishes,
    late,      \* history: the last arrival was behind next_seq
    missed     \* history: packet -> when a later one first arrived, 0 if none did

jitterVars == <<j, now, newest, out, publishes, late, missed>>

(* Packets are 1, 2, ... in sending order. *)
NoPacket == 0

SeqOf(n) == (First + n - 1) % SeqMod

(* ngx_rtc_jitter_reset: the timeout, a constant here, survives it. *)
ResetBuffer == [slot |-> [i \in 0..(Cap - 1) |-> NoPacket], next |-> 0,
                pending |-> 0, init |-> FALSE, gap |-> 0]

(* Mutant: the comparison ignores the wrap. *)
SeqGtPlain(a, b) == a > b

(* ngx_rtc_jitter_seq_gt: (int16_t)(a - b) > 0 *)
SeqGt(a, b) == (a - b) % SeqMod \in 1..(SeqMod \div 2 - 1)

-----------------------------------------------------------------------------
(* A result is the buffer and the packets emitted. *)

(* Packets cached without a hole from next_seq on. *)
RunLength(b) ==
    Min({k \in 0..Cap : k = Cap \/ b.slot[(b.next + k) % Cap] = NoPacket})

(* ngx_rtc_jitter_drain *)
Drain(b) ==
    LET k   == RunLength(b)
        run == {(b.next + i) % Cap : i \in 0..(k - 1)}
    IN  [buffer |-> [b EXCEPT !.slot = [i \in 0..(Cap - 1) |->
                                          IF i \in run THEN NoPacket ELSE b.slot[i]],
                              !.next = (@ + k) % SeqMod,
                              !.pending = IF @ > k THEN @ - k ELSE 0,
                              !.gap = IF b.pending <= k THEN 0 ELSE @],
         emit |-> [i \in 1..k |-> b.slot[(b.next + i - 1) % Cap]]]

(* ngx_rtc_jitter_skip_gap: to the first cached packet, and drain. *)
SkipGap(b) ==
    LET hole == Min({k \in 0..(Cap - 1) : b.slot[(b.next + k) % Cap] # NoPacket})
    IN  Drain([b EXCEPT !.next = (@ + hole) % SeqMod])

(* The deadline of the oldest gap, looked at after a packet was taken in. *)
Expired(b) == b.pending > 0 /\ now - b.gap >= Timeout

(* Drain, then skip one gap if the deadline has passed. *)
DrainAndSkip(b) ==
    LET d == Drain(b)
        s == SkipGap(d.buffer)
    IN  IF Expired(d.buffer) THEN [buffer |-> s.buffer, emit |-> d.emit \o s.emit] ELSE d

(* The expected packet. *)
TakeNext(b, n) ==
    LET d == DrainAndSkip([b EXCEPT !.next = (@ + 1) % SeqMod])
    IN  [buffer |-> d.buffer, emit |-> <<n>> \o d.emit]

(* A packet whose slot another one may hold. *)
TooFar(b, n) == (SeqOf(n) - b.next) % SeqMod >= Cap

(* Drop everything and go on from this packet. *)
Reanchor(b, n) ==
    [buffer |-> [ResetBuffer EXCEPT !.next = (SeqOf(n) + 1) % SeqMod, !.init = TRUE],
     emit |-> <<n>>]

(* Mutant: only an in-order packet looks at the deadline. *)
CacheOnly(b, n) ==
    LET i == SeqOf(n) % Cap
    IN  [buffer |-> [b EXCEPT !.slot[i] = n,
                              !.pending = IF b.slot[i] = NoPacket THEN @ + 1 ELSE @,
                              !.gap = IF @ = 0 THEN now ELSE @],
         emit |-> <<>>]

(* A packet ahead of its turn; a duplicate replaces its copy. *)
Cache(b, n) ==
    LET i == SeqOf(n) % Cap
        c == [b EXCEPT !.slot[i] = n,
                       !.pending = IF b.slot[i] = NoPacket THEN @ + 1 ELSE @,
                       !.gap = IF @ = 0 THEN now ELSE @]
    IN  IF Expired(c) THEN SkipGap(c) ELSE [buffer |-> c, emit |-> <<>>]

Anchored(b, n) == IF b.init THEN b ELSE [b EXCEPT !.next = SeqOf(n), !.init = TRUE]

(* Behind the expected sequence: dropped. *)
Stale(b, n) == SeqOf(n) # b.next /\ ~SeqGt(SeqOf(n), b.next)

(* ngx_rtc_jitter_push *)
Pushed(b, n) ==
    CASE SeqOf(n) = b.next -> TakeNext(b, n)
      [] Stale(b, n)       -> [buffer |-> b, emit |-> <<>>]
      [] OTHER             -> IF TooFar(b, n) THEN Reanchor(b, n) ELSE Cache(b, n)

-----------------------------------------------------------------------------
(* Types of the reorder buffer and of the packets on the wire. *)
JitterTypeOK ==
    /\ j.slot \in [0..(Cap - 1) -> 0..MaxSent] /\ j.next \in 0..(SeqMod - 1)
    /\ j.pending \in 0..Cap /\ j.init \in BOOLEAN /\ j.gap \in 0..now
    /\ now \in 1..MaxTime /\ newest \in 0..MaxSent /\ out \in Seq(1..MaxSent)
    /\ publishes \in 1..MaxPublishes /\ late \in BOOLEAN
    /\ missed \in [1..MaxSent -> 0..now]

(* The clock starts past 0, which gap_ts also uses for "no gap". *)
JitterInit == /\ j = ResetBuffer
              /\ now = 1 /\ newest = 0 /\ out = <<>> /\ publishes = 1 /\ late = FALSE
              /\ missed = [n \in 1..MaxSent |-> 0]

(* The network delivers packet n: in order, early, late or again. *)
Arrive(n) ==
    /\ n + MaxLate >= newest
    /\ LET b == Anchored(j, n)
           r == Pushed(b, n)
       IN  j' = r.buffer /\ out' = out \o r.emit /\ late' = Stale(b, n)
    /\ newest' = IF n > newest THEN n ELSE newest
    /\ missed' = [k \in 1..MaxSent |-> IF k < n /\ missed[k] = 0 THEN now ELSE missed[k]]
    /\ UNCHANGED <<now, publishes>>

(* A WHIP (re)publish starts a new sequence space. *)
Republish ==
    /\ publishes < MaxPublishes
    /\ publishes' = publishes + 1
    /\ j' = ResetBuffer
    /\ newest' = 0 /\ out' = <<>> /\ late' = FALSE
    /\ missed' = [n \in 1..MaxSent |-> 0]
    /\ UNCHANGED now

Tick == /\ now < MaxTime
        /\ now' = now + 1
        /\ UNCHANGED <<j, newest, out, publishes, late, missed>>

JitterNext == (\E n \in 1..MaxSent : Arrive(n)) \/ Republish \/ Tick

JitterSpec == JitterInit /\ [][JitterNext]_jitterVars

-----------------------------------------------------------------------------
(* Properties *)

(* Whatever the network does, packets leave in sending order and none     *)
(* twice, across skipped gaps, re-anchors and the 16-bit wrap.             *)
InOrder == \A a, b \in DOMAIN out : a < b => out[a] < out[b]

Cached == {i \in 0..(Cap - 1) : j.slot[i] # NoPacket}

(* The buffer agrees with itself: pending counts the cached packets (the   *)
(* loop in skip_gap ends because of it) and each is ahead of next_seq,     *)
(* less than a window away, in its own slot.                               *)
WindowConsistent ==
    /\ j.pending = Cardinality(Cached)
    /\ \A i \in Cached : /\ SeqOf(j.slot[i]) % Cap = i
                         /\ (SeqOf(j.slot[i]) - j.next) % SeqMod \in 1..(Cap - 1)

(* Nothing the buffer holds has been emitted, or is behind what has: what  *)
(* is cached can still be played.                                          *)
CachedPlayable ==
    \A i \in Cached : \A k \in DOMAIN out : out[k] < j.slot[i]

(* A packet that arrives in time to be used, past the deadline of an open  *)
(* gap, gets the queue moving: a lost packet cannot stall the uplink.      *)
ExpiredMoves ==
    [][\A n \in 1..MaxSent :
         Expired(j) /\ Arrive(n) /\ ~late' => Len(out') > Len(out)]_jitterVars

(* Packets leave the reorder buffer in sending order and none twice, and a  *)
(* usable arrival past a gap's deadline moves the queue.                    *)
UplinkOrdered == []InOrder /\ ExpiredMoves

-----------------------------------------------------------------------------
(* What the code's comment says of it, and it does not do. *)

(* Packets passed over by a step, not by a re-anchor. *)
SkippedBy(n) ==
    {k \in 1..(n - 1) : /\ SeqGt(SeqOf(k), j.next) \/ SeqOf(k) = j.next
                        /\ \E i \in DOMAIN out' : i > Len(out) /\ out'[i] > k
                        /\ \A i \in DOMAIN out' : out'[i] # k}

(* ngx_rtc_jitter.h: the gap timeout is how long to wait for a missing     *)
(* packet before skipping it.                                              *)
WaitedFor ==
    [][\A n \in 1..MaxSent : Arrive(n) /\ j.init /\ ~TooFar(j, n) =>
         \A k \in SkippedBy(n) : missed[k] # 0 /\ now - missed[k] >= Timeout]_jitterVars
=============================================================================
