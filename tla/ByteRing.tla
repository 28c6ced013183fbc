------------------------------ MODULE ByteRing ------------------------------
(***************************************************************************)
(* ngx_rtc_vring_t: a byte arena in which every entry is a length prefix   *)
(* followed by its bytes, each of the two possibly split by the arena's    *)
(* end.  Not synchronised: its callers hold the audio worker's lock.       *)
(***************************************************************************)
EXTENDS Naturals, Sequences

CONSTANTS
    Capacity,    \* bytes of the arena
    LengthSize,  \* bytes of the length prefix (4 in the code)
    Base,        \* values of a byte (256 in the code)
    Payloads,    \* what callers push: sequences of bytes, the empty one too
    OutCaps      \* sizes of the buffers callers pop into

(* What digit i + 1 of a length counts for. *)
Weight[i \in 0..LengthSize] == IF i = 0 THEN 1 ELSE Base * Weight[i - 1]

ASSUME RingConstants ==
    /\ {Capacity, LengthSize, Base} \subseteq Nat \ {0}
    /\ OutCaps \subseteq Nat
    /\ \A d \in Payloads : d \in Seq(0..(Base - 1)) /\ Len(d) < Weight[LengthSize]

VARIABLES
    buf,    \* the arena, offset -> byte
    head,   \* next offset to write
    tail,   \* next offset to read
    bytes,  \* live bytes, prefixes included
    ret     \* history: the last call's answer

ringVars == <<buf, head, tail, bytes, ret>>

(* Types: the arena never holds more than its capacity, and what the last   *)
(* push or pop answered.                                                    *)
RingTypeOK ==
    /\ buf \in [0..(Capacity - 1) -> 0..(Base - 1)]
    /\ head \in 0..(Capacity - 1) /\ tail \in 0..(Capacity - 1)
    /\ bytes \in 0..Capacity
    /\ ret.ok \in BOOLEAN /\ ret.data \in Seq(0..(Base - 1))

(* A length as the bytes memcpy stores: little-endian.  Digits outside the  *)
(* value are zero.                                                          *)
LengthBytes(n) == [i \in 1..LengthSize |-> (n \div Weight[i - 1]) % Base]

LengthOf(digits) ==
    LET value[i \in 0..LengthSize] ==
            IF i = 0 THEN 0 ELSE value[i - 1] + digits[i] * Weight[i - 1]
    IN  value[LengthSize]

(* Mutant: what does not fit before the end of the arena is cut off. *)
WriteAtCut(b, off, s) ==
    [o \in DOMAIN b |-> IF o >= off /\ o < off + Len(s) THEN s[o - off + 1] ELSE b[o]]

(* n bytes from off on, continuing at the start of the arena. *)
WriteAt(b, off, s) ==
    [o \in DOMAIN b |-> LET i == (o + Capacity - off) % Capacity
                        IN  IF i < Len(s) THEN s[i + 1] ELSE b[o]]

Advance(off, n) == (off + n) % Capacity

ReadAt(b, off, n) == [i \in 1..n |-> b[(off + i - 1) % Capacity]]

-----------------------------------------------------------------------------
RingInit ==
    /\ buf = [o \in 0..(Capacity - 1) |-> 0]
    /\ head = 0 /\ tail = 0 /\ bytes = 0
    /\ ret = [ok |-> FALSE, data |-> <<>>]

RingRefuses == ret' = [ok |-> FALSE, data |-> <<>>] /\ UNCHANGED <<buf, head, tail, bytes>>

RoomFor(d) == bytes + LengthSize + Len(d) <= Capacity

(* ngx_rtc_vring_push *)
RingPush(d) ==
    LET total == LengthSize + Len(d)
    IN  \/ (d = <<>> \/ ~RoomFor(d)) /\ RingRefuses
        \/ /\ d # <<>> /\ RoomFor(d)
           /\ buf' = WriteAt(WriteAt(buf, head, LengthBytes(Len(d))),
                             Advance(head, LengthSize), d)
           /\ head' = Advance(head, total)
           /\ bytes' = bytes + total
           /\ ret' = [ok |-> TRUE, data |-> <<>>]
           /\ UNCHANGED tail

(* ngx_rtc_vring_pop into a buffer of cap bytes *)
RingPop(cap) ==
    LET len   == LengthOf(ReadAt(buf, tail, LengthSize))
        total == LengthSize + len
    IN  \/ (bytes = 0 \/ len > cap) /\ RingRefuses
        \/ /\ bytes # 0 /\ len <= cap
           /\ ret' = [ok |-> TRUE, data |-> ReadAt(buf, Advance(tail, LengthSize), len)]
           /\ tail' = Advance(tail, total)
           /\ bytes' = bytes - total
           /\ UNCHANGED <<buf, head>>

RingNext == (\E d \in Payloads : RingPush(d)) \/ (\E cap \in OutCaps : RingPop(cap))

RingSpec == RingInit /\ [][RingNext]_ringVars

-----------------------------------------------------------------------------
(* The entries found by walking the arena from tail over the live bytes. *)
Entries ==
    LET walk[n \in 0..Capacity] ==
            IF n < LengthSize THEN <<>>
            ELSE LET off == ((tail + bytes) - n) % Capacity
                     len == LengthOf(ReadAt(buf, off, LengthSize))
                 IN  IF LengthSize + len > n THEN <<>>
                     ELSE <<ReadAt(buf, (off + LengthSize) % Capacity, len)>>
                            \o walk[n - LengthSize - len]
    IN  walk[bytes]

Fifo == INSTANCE BoundedFifo WITH Prefix <- LengthSize, q <- Entries

(* The arena is a bounded first-in first-out queue: every push and pop      *)
(* behaves like one of BoundedFifo on the entries the arena holds, also     *)
(* where a prefix or a payload is split by the arena's end.                 *)
ImplementsFifo == Fifo!Spec

(* Walking from the oldest entry accounts for every live byte and ends at   *)
(* the write offset: a reader can never start inside an entry.              *)
Framed == Fifo!Occupied(Entries) = bytes /\ (tail + bytes) % Capacity = head
=============================================================================
