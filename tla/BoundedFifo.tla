---------------------------- MODULE BoundedFifo ----------------------------
(***************************************************************************)
(* What a byte ring promises its caller: a first-in first-out queue of     *)
(* non-empty entries whose sizes, Prefix bytes of overhead each, sum to at *)
(* most Capacity.  A push that does not fit and a pop into a buffer that   *)
(* is too small are refused and leave the queue alone.                     *)
(***************************************************************************)
EXTENDS Naturals, Sequences, SequencesExt

CONSTANTS Capacity, Prefix, Payloads, OutCaps

VARIABLES
    q,    \* the queued entries, oldest first
    ret   \* the last call's answer

fifoVars == <<q, ret>>

Refused == [ok |-> FALSE, data |-> <<>>]

Accepted == [ok |-> TRUE, data |-> <<>>]

Returned(d) == [ok |-> TRUE, data |-> d]

Occupied(entries) == FoldSeq(LAMBDA d, sum : (Prefix + Len(d)) + sum, 0, entries)

Init == q = <<>> /\ ret = Refused

Fits(d) == d # <<>> /\ Occupied(q) + Prefix + Len(d) <= Capacity

Push(d) ==
    \/ Fits(d)  /\ q' = Append(q, d) /\ ret' = Accepted
    \/ ~Fits(d) /\ UNCHANGED q       /\ ret' = Refused

Takes(cap) == q # <<>> /\ Len(Head(q)) <= cap

Pop(cap) ==
    \/ Takes(cap)  /\ q' = Tail(q)  /\ ret' = Returned(Head(q))
    \/ ~Takes(cap) /\ UNCHANGED q   /\ ret' = Refused

Next == (\E d \in Payloads : Push(d)) \/ (\E cap \in OutCaps : Pop(cap))

Spec == Init /\ [][Next]_fifoVars
=============================================================================
