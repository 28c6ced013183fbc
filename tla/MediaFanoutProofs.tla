-------------------------- MODULE MediaFanoutProofs --------------------------
(***************************************************************************)
(* Proofs about MediaFanout for any number of viewers, workers and packets *)
(* and any ring size: packets reach every viewer in the order they were    *)
(* sent, and none is lost without being counted.                           *)
(*                                                                         *)
(* A ring is reasoned about through its positions: the entry at position   *)
(* i, tail <= i < head, is in slot i modulo the size, and two positions in *)
(* use never share a slot.                                                 *)
(***************************************************************************)
EXTENDS MediaFanout, FiniteSetTheorems, WellFoundedInduction, TLAPS

Entry == [pkt : Nat, to : SUBSET Viewers]

Ring == [head : Nat, tail : Nat, slot : [0..(RingSize - 1) -> Entry]]

Span(r) == {i \in Nat : r.tail <= i /\ i < r.head}

At(r, i) == r.slot[i % RingSize]

-----------------------------------------------------------------------------
(* The invariant *)

Types ==
    /\ subs \in Seq(Viewers) /\ present \subseteq Viewers
    /\ snap \in [version : Nat, viewers : Seq(Viewers)] /\ version \in Nat
    /\ pc \in {"idle", "snapshot", "stamp", "send", "fan", "notify"}
    /\ pkt \in Nat /\ todo \subseteq Workers \ {Pub}
    /\ pc \in {"fan", "notify"} <=> todo # {}
    /\ ring \in [Workers -> Ring]
    /\ owed \in [Viewers -> SUBSET Nat]
    /\ got \in [Viewers -> Seq(Nat)]

(* A ring holds at most its slots, its packets in the order they were sent, *)
(* each addressed to viewers of the ring's worker; the publisher's own ring *)
(* is never used.                                                           *)
RingsOrdered ==
    /\ \A w \in Workers :
         /\ ring[w].tail <= ring[w].head /\ ring[w].head - ring[w].tail <= RingSize
         /\ \A i, j \in Span(ring[w]) : i < j => At(ring[w], i).pkt < At(ring[w], j).pkt
         /\ \A i \in Span(ring[w]) : \A v \in At(ring[w], i).to : Where[v] = w
    /\ Span(ring[Pub]) = {}

(* What a viewer has is older than what is queued for its worker. *)
GotBeforeQueued ==
    \A v \in Viewers : \A i \in DOMAIN got[v], j \in Span(ring[Where[v]]) :
        got[v][i] < At(ring[Where[v]], j).pkt

(* The current packet has not been handed to worker w yet. *)
Pending(w) == \/ pc \in {"snapshot", "stamp", "send"}
              \/ w \in todo /\ ~(pc = "notify" /\ w = Current)

(* Nothing is newer than the current packet, and until that is handed to a  *)
(* worker, everything there is older.                                       *)
UpToCurrent ==
    \A w \in Workers :
        /\ \A j \in Span(ring[w]) :
             At(ring[w], j).pkt <= pkt /\ (Pending(w) => At(ring[w], j).pkt < pkt)
        /\ \A v \in Viewers : Where[v] = w => \A i \in DOMAIN got[v] :
             got[v][i] <= pkt /\ (Pending(w) => got[v][i] < pkt)

OrderInv == Types /\ RingsOrdered /\ GotBeforeQueued /\ UpToCurrent /\ InOrder

(* The subscriber queue and the snapshot hold nobody twice, the queue only  *)
(* sessions that exist.                                                     *)
NoDuplicates ==
    /\ \A i, j \in DOMAIN subs : subs[i] = subs[j] => i = j
    /\ \A i \in DOMAIN subs : subs[i] \in present
    /\ \A i, j \in DOMAIN snap.viewers : snap.viewers[i] = snap.viewers[j] => i = j

(* Who is owed the current packet is in the snapshot it is sent by. *)
OwedBySnapshot ==
    \A v \in Viewers : \A k \in owed[v] :
        /\ k <= pkt /\ (pc \in {"snapshot", "stamp", "send"} => k < pkt)
        /\ pc \in {"fan", "notify"} /\ k = pkt => \E i \in DOMAIN snap.viewers : snap.viewers[i] = v

(* Where a packet owed to a viewer is. *)
Arrived(v, k) == \E i \in DOMAIN got[v] : got[v][i] = k

InRing(v, k) == \E i \in Span(ring[Where[v]]) :
                   /\ At(ring[Where[v]], i).pkt = k
                   /\ v \in At(ring[Where[v]], i).to

Accounted ==
    \A v \in present : \A k \in owed[v] :
        \/ Arrived(v, k) \/ InRing(v, k)
        \/ <<k, Where[v]>> \in drops
        \/ k = pkt /\ Where[v] \in todo /\ Pending(Where[v])

LossInv == NoDuplicates /\ OwedBySnapshot /\ Accounted

IndInv == OrderInv /\ LossInv

(* A worker's viewers fit in a ring entry, NGX_RTC_RING_MAX_SESSIONS of     *)
(* them: the rest of a larger audience is not in the entry.                 *)
Fits == /\ IsFiniteSet(Viewers)
        /\ \A w \in Workers : Cardinality({v \in Viewers : Where[v] = w}) <= MaxEntry

-----------------------------------------------------------------------------
(* Lemmas about rings and numbers *)

(* Two positions less than the size of the ring apart share no slot. *)
LEMMA SlotsDistinct ==
    ASSUME NEW N \in Nat \ {0}, NEW a \in Nat, NEW b \in Nat, a < b, b - a < N
    PROVE  a % N # b % N
<1> SUFFICES ASSUME a % N = b % N PROVE FALSE OBVIOUS
<1> DEFINE p == a \div N
           q == b \div N
           m == a % N
<1>1. p \in Int /\ q \in Int /\ m \in Int /\ a = N * p + m /\ b = N * q + m
  OBVIOUS
<1> HIDE DEF p, q, m
<1>2. b - a = N * (q - p) BY <1>1
<1> DEFINE d == q - p
<1>3. d \in Int /\ b - a = N * d /\ N \in Int /\ N >= 1 BY <1>1, <1>2
<1> HIDE DEF d
<1>4. d >= 1
  <2> SUFFICES ASSUME d <= 0 PROVE FALSE BY <1>3
  <2>1. N * d <= 0 BY <1>3
  <2> QED BY <1>3, <2>1
<1>5. N * d >= N BY <1>3, <1>4
<1> QED BY <1>3, <1>5

LEMMA SlotRange == \A i \in Nat : i % RingSize \in 0..(RingSize - 1)
BY RingHasSlots

LEMMA LeastExists ==
    ASSUME NEW S \in SUBSET Nat, S # {} PROVE Min(S) \in S /\ \A y \in S : Min(S) <= y
<1>1. \E x \in S : \A y \in S : ~(<<y, x>> \in OpToRel(<, Nat))
  BY WFMin, NatLessThanWellFounded
<1>2. ASSUME NEW x \in Nat, NEW y \in Nat, y < x PROVE <<y, x>> \in OpToRel(<, Nat)
  BY <1>2, Zenon DEF OpToRel
<1>3. \E x \in S : \A y \in S : ~(y < x)
  BY <1>1, <1>2
<1>4. \E x \in S : \A y \in S : x <= y
  BY <1>3
<1> QED BY <1>4 DEF Min

(* ngx_rtc_shm_ring_enqueue on a ring with room adds one entry behind the   *)
(* others and overwrites none of them.                                      *)
LEMMA EnqueueAt ==
    ASSUME NEW r \in Ring, r.tail <= r.head, ~RingFull(r), NEW e \in Entry
    PROVE  LET q == Enqueued(r, e)
           IN  /\ q \in Ring /\ q.tail = r.tail /\ q.head = r.head + 1
               /\ q.head - q.tail <= RingSize
               /\ Span(q) = Span(r) \cup {r.head} /\ r.head \notin Span(r)
               /\ At(q, r.head) = e
               /\ \A i \in Span(r) : i < r.head /\ At(q, i) = At(r, i)
<1> DEFINE q == Enqueued(r, e)
           h == r.head % RingSize
<1>1. r.head \in Nat /\ r.tail \in Nat /\ r.head - r.tail < RingSize
      /\ r.slot \in [0..(RingSize - 1) -> Entry] /\ RingSize \in Nat \ {0}
  BY RingHasSlots DEF Ring, RingFull
<1>2. h \in 0..(RingSize - 1) BY <1>1, SlotRange
<1>3. /\ q \in Ring /\ q.tail = r.tail /\ q.head = r.head + 1
      /\ q.slot = [r.slot EXCEPT ![h] = e]
  <2> DEFINE slot == [r.slot EXCEPT ![h] = e]
  <2>1. slot \in [0..(RingSize - 1) -> Entry] /\ r.head + 1 \in Nat BY <1>1
  <2>2. q = [r EXCEPT !.slot = slot, !.head = r.head + 1] BY DEF Enqueued
  <2> HIDE DEF slot, q, h
  <2>3. q \in Ring /\ q.tail = r.tail /\ q.head = r.head + 1 /\ q.slot = slot
    BY <2>1, <2>2 DEF Ring
  <2> QED BY <2>3 DEF slot
<1> HIDE DEF q
<1>4. q.head - q.tail <= RingSize BY <1>1, <1>3
<1>5. Span(q) = Span(r) \cup {r.head} /\ r.head \notin Span(r)
  BY <1>1, <1>3 DEF Span
<1>6. At(q, r.head) = e BY <1>1, <1>2, <1>3 DEF At
<1>7. ASSUME NEW i \in Span(r) PROVE i < r.head /\ At(q, i) = At(r, i)
  <2>1. i \in Nat /\ i < r.head /\ r.head - i < RingSize BY <1>1 DEF Span
  <2>2. i % RingSize # h BY <1>1, <2>1, SlotsDistinct
  <2>3. i % RingSize \in 0..(RingSize - 1) BY <2>1, SlotRange
  <2> QED BY <1>1, <1>3, <2>1, <2>2, <2>3 DEF At
<1>8. /\ q \in Ring /\ q.tail = r.tail /\ q.head = r.head + 1
      /\ q.head - q.tail <= RingSize
      /\ Span(q) = Span(r) \cup {r.head} /\ r.head \notin Span(r)
      /\ At(q, r.head) = e
      /\ \A i \in Span(r) : i < r.head /\ At(q, i) = At(r, i)
  BY <1>3, <1>4, <1>5, <1>6, <1>7
<1> QED BY <1>8 DEF q

(* ngx_rtc_shm_ring_dequeue takes the oldest entry. *)
LEMMA DequeueAt ==
    ASSUME NEW r \in Ring, r.tail <= r.head, r.head - r.tail <= RingSize, ~RingEmpty(r)
    PROVE  LET q == Dequeued(r)
           IN  /\ q \in Ring /\ q.tail <= q.head /\ q.head - q.tail <= RingSize
               /\ r.tail \in Span(r) /\ RingFront(r) = At(r, r.tail)
               /\ Span(q) = Span(r) \ {r.tail}
               /\ \A i \in Span(q) : r.tail < i
               /\ \A i : At(q, i) = At(r, i)
<1> DEFINE q == Dequeued(r)
<1>1. r.head \in Nat /\ r.tail \in Nat /\ r.head # r.tail /\ RingSize \in Nat
  BY RingHasSlots DEF Ring, RingEmpty
<1>2. q \in Ring /\ q.tail = r.tail + 1 /\ q.head = r.head /\ q.slot = r.slot
  BY DEF Dequeued, Ring
<1> HIDE DEF q
<1>3. /\ q.tail <= q.head /\ q.head - q.tail <= RingSize
      /\ r.tail \in Span(r) /\ Span(q) = Span(r) \ {r.tail}
      /\ \A i \in Span(q) : r.tail < i
  BY <1>1, <1>2 DEF Span
<1>4. \A i : At(q, i) = At(r, i) BY <1>2 DEF At
<1>5. RingFront(r) = At(r, r.tail) BY DEF RingFront, At
<1> QED BY <1>2, <1>3, <1>4, <1>5 DEF q

(* An entry in a ring is an entry. *)
LEMMA AtType == ASSUME NEW r \in Ring, NEW i \in Nat PROVE At(r, i) \in Entry
BY SlotRange DEF Ring, At

(* The worker the loop is at is one it has still to serve. *)
LEMMA CurrentType == ASSUME Types, todo # {} PROVE Current \in todo /\ Current \in Workers \ {Pub}
<1>1. todo \subseteq Workers \ {Pub} BY DEF Types
<1>2. Workers \subseteq Nat BY DEF Workers
<1>3. todo \in SUBSET Nat BY <1>1, <1>2
<1>4. Min(todo) \in todo BY <1>3, LeastExists
<1> QED BY <1>1, <1>4 DEF Current

(* The constants' types, as the proofs use them. *)
LEMMA Constants ==
    /\ Pub \in Workers /\ Where \in [Viewers -> Workers] /\ MaxEntry \in Nat /\ MaxSnapshot \in Nat
BY FanoutConstants

-----------------------------------------------------------------------------
(* Order *)

(* A step that leaves rings, packet and deliveries alone, and hands the     *)
(* current packet to no worker again, keeps the order.                      *)
LEMMA OrderKept ==
    ASSUME OrderInv, Types', ring' = ring, got' = got, pkt' = pkt,
           \A w \in Workers : Pending(w)' => Pending(w)
    PROVE  OrderInv'
<1>1. RingsOrdered' BY DEF OrderInv, RingsOrdered
<1>2. GotBeforeQueued' BY DEF OrderInv, GotBeforeQueued
<1>3. UpToCurrent' BY DEF OrderInv, UpToCurrent
<1>4. InOrder' BY DEF OrderInv, InOrder
<1> QED BY <1>1, <1>2, <1>3, <1>4 DEF OrderInv

LEMMA JoinOrder == ASSUME OrderInv, NEW v \in Viewers, Join(v) PROVE OrderInv'
<1>1. Types'
  <2>1. <<v>> \o subs \in Seq(Viewers) BY DEF OrderInv, Types
  <2> QED BY <2>1 DEF OrderInv, Types, Join
<1>2. \A w \in Workers : Pending(w)' => Pending(w)
  BY DEF Pending, Current, Join
<1> QED BY <1>1, <1>2, OrderKept DEF Join

(* Unlinking an element of a queue without duplicates. *)
LEMMA Unlinked ==
    ASSUME NEW S, NEW s \in Seq(S), NEW n \in DOMAIN s
    PROVE  /\ RemoveAt(s, n) \in Seq(S)
           /\ \A i \in DOMAIN RemoveAt(s, n) :
                 \/ i < n /\ i \in DOMAIN s /\ RemoveAt(s, n)[i] = s[i]
                 \/ i >= n /\ i + 1 \in DOMAIN s /\ RemoveAt(s, n)[i] = s[i + 1]
<1> DEFINE p == SubSeq(s, 1, n - 1)
           q == SubSeq(s, n + 1, Len(s))
<1>0. n \in 1..Len(s) /\ Len(s) \in Nat OBVIOUS
<1>1. p \in Seq(S) /\ Len(p) = n - 1 /\ \A i \in 1..(n - 1) : p[i] = s[i]
  BY <1>0
<1>2. q \in Seq(S) /\ Len(q) = Len(s) - n /\ \A i \in 1..(Len(s) - n) : q[i] = s[n + i]
  BY <1>0
<1>3. RemoveAt(s, n) = p \o q BY DEF RemoveAt
<1> HIDE DEF p, q
<1>4. p \o q \in Seq(S) /\ Len(p \o q) = Len(s) - 1 BY <1>0, <1>1, <1>2
<1>5. \A i \in 1..(Len(s) - 1) : (p \o q)[i] = IF i < n THEN s[i] ELSE s[i + 1]
  BY <1>0, <1>1, <1>2
<1>6. DOMAIN (p \o q) = 1..(Len(s) - 1) /\ DOMAIN s = 1..Len(s) BY <1>4
<1> DEFINE t == p \o q
<1> HIDE DEF t
<1>7. t \in Seq(S) /\ DOMAIN t = 1..(Len(s) - 1) BY <1>4, <1>6 DEF t
<1>8. \A i \in 1..(Len(s) - 1) : t[i] = IF i < n THEN s[i] ELSE s[i + 1] BY <1>5 DEF t
<1>9. \A i \in DOMAIN t : \/ i < n /\ i \in DOMAIN s /\ t[i] = s[i]
                          \/ i >= n /\ i + 1 \in DOMAIN s /\ t[i] = s[i + 1]
  <2> SUFFICES ASSUME NEW i \in DOMAIN t
               PROVE  \/ i < n /\ i \in DOMAIN s /\ t[i] = s[i]
                      \/ i >= n /\ i + 1 \in DOMAIN s /\ t[i] = s[i + 1]
    OBVIOUS
  <2>1. i \in 1..(Len(s) - 1) BY <1>7
  <2>2. i \in 1..Len(s) /\ i + 1 \in 1..Len(s) BY <1>0, <2>1
  <2>3. i < n \/ i >= n BY <1>0, <2>1
  <2>4. t[i] = IF i < n THEN s[i] ELSE s[i + 1] BY <1>8, <2>1
  <2>5. i >= n => ~(i < n) BY <1>0, <2>1
  <2> QED BY <1>6, <2>2, <2>3, <2>4, <2>5
<1> QED BY <1>3, <1>7, <1>9 DEF t

LEMMA LeaveOrder == ASSUME OrderInv, NEW v \in Viewers, Leave(v) PROVE OrderInv'
<1>1. Types'
  <2>1. subs' \in Seq(Viewers) BY Unlinked DEF OrderInv, Types, Leave
  <2> QED BY <2>1 DEF OrderInv, Types, Leave
<1>2. \A w \in Workers : Pending(w)' => Pending(w)
  BY DEF Pending, Current, Leave
<1> QED BY <1>1, <1>2, OrderKept DEF Leave

(* ngx_rtc_shm_source_snapshot copies a prefix of the queue. *)
LEMMA Prefix ==
    ASSUME Types, Snapshot
    PROVE  /\ snap' \in [version : Nat, viewers : Seq(Viewers)]
           /\ \A i \in DOMAIN snap'.viewers : i \in DOMAIN subs /\ snap'.viewers[i] = subs[i]
<1> DEFINE n == IF Len(subs) < MaxSnapshot THEN Len(subs) ELSE MaxSnapshot
           p == SubSeq(subs, 1, n)
<1>1. n \in 0..Len(subs) /\ subs \in Seq(Viewers) BY Constants DEF Types
<1> HIDE DEF n
<1>2. p \in Seq(Viewers) /\ Len(p) = n /\ \A i \in 1..n : p[i] = subs[i] BY <1>1
<1>3. snap' = [snap EXCEPT !.viewers = p] BY DEF Snapshot, n
<1> HIDE DEF p
<1>4. snap' \in [version : Nat, viewers : Seq(Viewers)] /\ snap'.viewers = p
  BY <1>2, <1>3 DEF Types
<1> QED BY <1>1, <1>2, <1>4

LEMMA SnapshotOrder == ASSUME OrderInv, Snapshot PROVE OrderInv'
<1>1. Types' BY Prefix DEF OrderInv, Types, Snapshot
<1>2. \A w \in Workers : Pending(w)' => Pending(w)
  BY DEF Pending, Snapshot
<1> QED BY <1>1, <1>2, OrderKept DEF Snapshot

LEMMA StampOrder == ASSUME OrderInv, Stamp PROVE OrderInv'
<1>1. Types' BY DEF OrderInv, Types, Stamp
<1>2. \A w \in Workers : Pending(w)' => Pending(w)
  BY DEF Pending, Stamp
<1> QED BY <1>1, <1>2, OrderKept DEF Stamp

LEMMA ConsumerIdleOrder ==
    ASSUME OrderInv, NEW w \in Workers, Wake(w) \/ Drained(w) PROVE OrderInv'
<1>1. Types' BY DEF OrderInv, Types, Wake, Drained, publisherVars
<1>2. \A x \in Workers : Pending(x)' => Pending(x)
  BY DEF Pending, Current, Wake, Drained, publisherVars
<1> QED BY <1>1, <1>2, OrderKept DEF Wake, Drained, publisherVars

(* The step to the next worker leaves the others' turn to come. *)
LEMMA NextWorkerPending ==
    ASSUME Types, todo # {}, pc \in {"fan", "notify"}, NextWorker
    PROVE  /\ todo' = todo \ {Current}
           /\ pc' \in {"fan", "idle"} /\ (pc' \in {"fan", "notify"} <=> todo' # {})
           /\ \A w \in Workers : Pending(w)' => Pending(w)
           /\ \A w \in todo : w # Current => w \in todo' /\ Pending(w)'
<1>1. /\ todo' = todo \ {Current}
      /\ pc' \in {"fan", "idle"} /\ (pc' \in {"fan", "notify"} <=> todo' # {})
  BY DEF NextWorker
<1>2. \A w \in Workers : Pending(w)' <=> w \in todo'
  BY <1>1 DEF Pending
<1>3. \A w \in todo' : Pending(w) BY <1>1 DEF Pending
<1> QED BY <1>1, <1>2, <1>3 DEF Types

LEMMA FanDroppedOrder == ASSUME OrderInv, FanDropped PROVE OrderInv'
<1>1. Types /\ todo # {} /\ pc \in {"fan", "notify"} /\ NextWorker
  BY DEF OrderInv, Types, FanDropped
<1>2. Types' BY <1>1, NextWorkerPending DEF Types, FanDropped
<1> QED BY <1>1, <1>2, NextWorkerPending, OrderKept DEF FanDropped

LEMMA NotifyOrder == ASSUME OrderInv, Notify PROVE OrderInv'
<1>1. Types /\ todo # {} /\ pc \in {"fan", "notify"} /\ NextWorker
  BY DEF OrderInv, Types, Notify
<1>2. Types' BY <1>1, NextWorkerPending DEF Types, Notify
<1> QED BY <1>1, <1>2, NextWorkerPending, OrderKept DEF Notify

(* The next packet is newer than everything before it. *)
LEMMA EmitOrder == ASSUME OrderInv, Emit PROVE OrderInv'
<1>1. Types' BY DEF OrderInv, Types, Emit
<1>2. RingsOrdered' BY DEF OrderInv, RingsOrdered, Emit
<1>3. GotBeforeQueued' BY DEF OrderInv, GotBeforeQueued, Emit
<1>4. InOrder' BY DEF OrderInv, InOrder, Emit
<1>5. UpToCurrent'
  <2>1. pkt' = pkt + 1 /\ ring' = ring /\ got' = got /\ pkt \in Nat BY DEF Emit, OrderInv, Types
  <2>2. ASSUME NEW w \in Workers, NEW j \in Span(ring[w]) PROVE At(ring[w], j).pkt < pkt + 1
    <3>1. At(ring[w], j).pkt <= pkt BY DEF OrderInv, UpToCurrent
    <3>2. At(ring[w], j).pkt \in Nat BY AtType DEF OrderInv, Types, Entry, Span
    <3> QED BY <2>1, <3>1, <3>2
  <2>3. ASSUME NEW v \in Viewers, NEW i \in DOMAIN got[v] PROVE got[v][i] < pkt + 1
    <3>1. got[v][i] <= pkt BY Constants DEF OrderInv, UpToCurrent
    <3>2. got[v][i] \in Nat BY DEF OrderInv, Types
    <3> QED BY <2>1, <3>1, <3>2
  <2>4. \A n \in Nat : n < pkt + 1 => n <= pkt + 1 BY <2>1
  <2>5. /\ \A w \in Workers : \A j \in Span(ring[w]) : At(ring[w], j).pkt \in Nat
        /\ \A v \in Viewers : \A i \in DOMAIN got[v] : got[v][i] \in Nat
    <3>1. \A w \in Workers : \A j \in Span(ring[w]) : At(ring[w], j).pkt \in Nat
      BY AtType DEF OrderInv, Types, Entry, Span
    <3>2. \A v \in Viewers : \A i \in DOMAIN got[v] : got[v][i] \in Nat
      BY DEF OrderInv, Types
    <3> QED BY <3>1, <3>2
  <2> QED BY <2>1, <2>2, <2>3, <2>4, <2>5 DEF UpToCurrent
<1> QED BY <1>1, <1>2, <1>3, <1>4, <1>5 DEF OrderInv

(* Appending to a sequence of numbers one that is larger than all of them.  *)
LEMMA AppendOrder ==
    ASSUME NEW s \in Seq(Nat), NEW k \in Nat, NEW t, t = Append(s, k),
           \A i \in DOMAIN s : s[i] < k,
           \A i, j \in DOMAIN s : i < j => s[i] < s[j]
    PROVE  /\ t \in Seq(Nat) /\ \A i \in DOMAIN t : t[i] <= k
           /\ \A i, j \in DOMAIN t : i < j => t[i] < t[j]
           /\ \A i \in DOMAIN t : t[i] = k \/ \E j \in DOMAIN s : t[i] = s[j]
           /\ \A j \in DOMAIN s : j \in DOMAIN t /\ t[j] = s[j]
           /\ \E i \in DOMAIN t : t[i] = k
<1> DEFINE n == Len(s)
<1>1. n \in Nat /\ DOMAIN s = 1..n /\ DOMAIN t = 1..(n + 1) /\ t \in Seq(Nat)
      /\ t[n + 1] = k /\ \A i \in 1..n : t[i] = s[i]
  OBVIOUS
<1>2. \A i \in 1..n : s[i] \in Nat OBVIOUS
<1> HIDE DEF n
<1>3. \A i \in DOMAIN t : t[i] <= k BY <1>1, <1>2
<1>4. \A i, j \in DOMAIN t : i < j => t[i] < t[j] BY <1>1, <1>2
<1>5. \A i \in DOMAIN t : t[i] = k \/ \E j \in DOMAIN s : t[i] = s[j] BY <1>1
<1>6. \E i \in DOMAIN t : t[i] = k BY <1>1
<1>7. \A j \in DOMAIN s : j \in DOMAIN t /\ t[j] = s[j] BY <1>1
<1> QED BY <1>1, <1>3, <1>4, <1>5, <1>6, <1>7

(* Viewers of the publisher's worker receive the packet at once: their      *)
(* worker's ring is empty, so nothing older can come after it.              *)
LEMMA SendOrder == ASSUME OrderInv, Send PROVE OrderInv'
<1> DEFINE L == On(Pub) \cap present
<1>0. Types /\ pkt \in Nat /\ got \in [Viewers -> Seq(Nat)] /\ pc = "send"
  BY DEF OrderInv, Types, Send
<1>1. ring' = ring /\ pkt' = pkt /\ todo' = RemoteTargets BY DEF Send
<1>2. \A v \in Viewers : got'[v] = IF v \in L THEN Append(got[v], pkt) ELSE got[v]
  BY DEF Send, Deliver
<1>3. \A v \in Viewers : v \in L => Where[v] = Pub BY DEF On
<1>4. \A w \in Workers : Pending(w) BY <1>0 DEF Pending
<1>5. ASSUME NEW v \in Viewers
      PROVE  /\ \A i \in DOMAIN got[v] : got[v][i] < pkt /\ got[v][i] \in Nat
             /\ \A i, j \in DOMAIN got[v] : i < j => got[v][i] < got[v][j]
  BY <1>0, <1>4, Constants DEF OrderInv, UpToCurrent, InOrder
<1>6. ASSUME NEW v \in Viewers
      PROVE  /\ got'[v] \in Seq(Nat) /\ \A i \in DOMAIN got'[v] : got'[v][i] <= pkt
             /\ \A i, j \in DOMAIN got'[v] : i < j => got'[v][i] < got'[v][j]
  <2>1. CASE v \in L
    <3>1. got'[v] = Append(got[v], pkt) BY <1>2, <2>1
    <3>2. got[v] \in Seq(Nat) BY <1>0
    <3> QED BY <1>0, <1>5, <3>1, <3>2, AppendOrder
  <2>2. CASE v \notin L BY <1>0, <1>2, <1>5, <2>2
  <2> QED BY <2>1, <2>2
<1>7. Types'
  <2>1. got' \in [Viewers -> Seq(Nat)]
    <3>1. got' = [v \in Viewers |-> got'[v]] BY DEF Send, Deliver
    <3> QED BY <1>6, <3>1
  <2>2. owed' \in [Viewers -> SUBSET Nat] BY <1>0 DEF Send, Types
  <2>3. RemoteTargets \subseteq Workers \ {Pub} BY DEF RemoteTargets
  <2> QED BY <1>0, <2>1, <2>2, <2>3 DEF Send, Types
<1>8. RingsOrdered' BY <1>1 DEF OrderInv, RingsOrdered
<1>9. InOrder' BY <1>6 DEF InOrder
<1>10. GotBeforeQueued'
  <2> SUFFICES ASSUME NEW v \in Viewers, NEW i \in DOMAIN got'[v], NEW j \in Span(ring[Where[v]])
               PROVE  got'[v][i] < At(ring[Where[v]], j).pkt
    BY <1>1 DEF GotBeforeQueued
  <2>1. Where[v] # Pub BY DEF OrderInv, RingsOrdered
  <2>2. got'[v] = got[v] BY <1>2, <1>3, <2>1
  <2> QED BY <2>2 DEF OrderInv, GotBeforeQueued
<1>11. UpToCurrent'
  <2>1. \A w \in Workers : Pending(w)' => w # Pub
    BY <1>1 DEF Pending, Send, RemoteTargets
  <2>2. ASSUME NEW w \in Workers, NEW j \in Span(ring[w])
        PROVE  At(ring[w], j).pkt <= pkt /\ At(ring[w], j).pkt < pkt
    BY <1>4 DEF OrderInv, UpToCurrent
  <2>3. ASSUME NEW w \in Workers, NEW v \in Viewers, Where[v] = w, NEW i \in DOMAIN got'[v], Pending(w)'
        PROVE  got'[v][i] < pkt
    <3>1. got'[v] = got[v] BY <1>2, <1>3, <2>1, <2>3
    <3> QED BY <1>5, <3>1
  <2> QED BY <1>1, <1>6, <2>2, <2>3 DEF UpToCurrent
<1> QED BY <1>7, <1>8, <1>9, <1>10, <1>11 DEF OrderInv

(* One entry for the current worker, behind what is queued there. *)
LEMMA FanOrder == ASSUME OrderInv, Fan PROVE OrderInv'
<1> DEFINE c == Current
           e == [pkt |-> pkt, to |-> EntryViewers(c)]
           q == Enqueued(ring[c], e)
<1>0. Types /\ todo # {} /\ pkt \in Nat /\ ring \in [Workers -> Ring] /\ pc = "fan"
  BY DEF OrderInv, Types, Fan
<1>1. c \in todo /\ c \in Workers /\ c # Pub BY <1>0, CurrentType
<1>2. Pending(c) BY <1>0, <1>1 DEF Pending
<1>3. EntryViewers(c) \subseteq {v \in Viewers : Where[v] = c}
  BY <1>0 DEF EntryViewers, Types
<1>4. e \in Entry /\ e.pkt = pkt /\ \A v \in e.to : Where[v] = c
  BY <1>0, <1>3 DEF Entry
<1>5. /\ ring[c] \in Ring /\ ring[c].tail <= ring[c].head /\ ~RingFull(ring[c])
  BY <1>0, <1>1 DEF OrderInv, RingsOrdered, Fan
<1>6. /\ got' = got /\ pkt' = pkt /\ todo' = todo /\ pc' = "notify"
      /\ ring' = [ring EXCEPT ![c] = q]
  BY DEF Fan
<1> HIDE DEF c, e
<1>7. /\ q \in Ring /\ q.tail = ring[c].tail /\ q.head = ring[c].head + 1
      /\ q.head - q.tail <= RingSize
      /\ Span(q) = Span(ring[c]) \cup {ring[c].head} /\ ring[c].head \notin Span(ring[c])
      /\ At(q, ring[c].head) = e
      /\ \A i \in Span(ring[c]) : i < ring[c].head /\ At(q, i) = At(ring[c], i)
  BY <1>4, <1>5, EnqueueAt
<1> HIDE DEF q
<1>8. ring'[c] = q /\ \A w \in Workers : w # c => ring'[w] = ring[w]
  BY <1>0, <1>1, <1>6
<1>9. Types' BY <1>0, <1>6, <1>7 DEF Types, Fan
<1>10. \A i \in Span(ring[c]) : At(ring[c], i).pkt < pkt
  BY <1>1, <1>2 DEF OrderInv, UpToCurrent
<1>11. RingsOrdered'
  <2>1. q.tail <= q.head /\ q.head - q.tail <= RingSize BY <1>5, <1>7 DEF Ring
  <2>2. ASSUME NEW i \in Span(q), NEW j \in Span(q), i < j
        PROVE  At(q, i).pkt < At(q, j).pkt
    <3>1. ring[c].head \in Nat /\ i \in Nat /\ j \in Nat BY <1>5 DEF Ring, Span
    <3>2. CASE j = ring[c].head
      <4>1. i \in Span(ring[c]) BY <1>7, <2>2, <3>1, <3>2
      <4> QED BY <1>4, <1>7, <1>10, <3>2, <4>1
    <3>3. CASE j # ring[c].head
      <4>1. j \in Span(ring[c]) BY <1>7, <3>3
      <4>2. i \in Span(ring[c]) BY <1>7, <2>2, <3>1, <4>1
      <4> QED BY <1>1, <1>7, <2>2, <4>1, <4>2 DEF OrderInv, RingsOrdered
    <3> QED BY <3>2, <3>3
  <2>3. ASSUME NEW i \in Span(q), NEW v \in At(q, i).to PROVE Where[v] = c
    <3>1. CASE i = ring[c].head BY <1>4, <1>7, <3>1
    <3>2. CASE i # ring[c].head
      <4>1. i \in Span(ring[c]) /\ At(q, i) = At(ring[c], i) BY <1>7, <3>2
      <4> QED BY <1>1, <4>1 DEF OrderInv, RingsOrdered
    <3> QED BY <3>1, <3>2
  <2>4. Span(ring'[Pub]) = {} BY <1>1, <1>8, Constants DEF OrderInv, RingsOrdered
  <2> SUFFICES ASSUME NEW w \in Workers
               PROVE  /\ ring'[w].tail <= ring'[w].head /\ ring'[w].head - ring'[w].tail <= RingSize
                      /\ \A i, j \in Span(ring'[w]) : i < j => At(ring'[w], i).pkt < At(ring'[w], j).pkt
                      /\ \A i \in Span(ring'[w]) : \A v \in At(ring'[w], i).to : Where[v] = w
    BY <2>4 DEF RingsOrdered
  <2>5. CASE w = c BY <1>8, <2>1, <2>2, <2>3, <2>5
  <2>6. CASE w # c BY <1>8, <2>6 DEF OrderInv, RingsOrdered
  <2> QED BY <2>5, <2>6
<1>12. GotBeforeQueued'
  <2> SUFFICES ASSUME NEW v \in Viewers, NEW i \in DOMAIN got[v], NEW j \in Span(ring'[Where[v]])
               PROVE  got[v][i] < At(ring'[Where[v]], j).pkt
    BY <1>6 DEF GotBeforeQueued
  <2>0. Where[v] \in Workers BY Constants
  <2>1. CASE Where[v] = c /\ j = ring[c].head
    <3>1. At(ring'[Where[v]], j).pkt = pkt BY <1>4, <1>7, <1>8, <2>1
    <3> QED BY <1>1, <1>2, <2>1, <3>1 DEF OrderInv, UpToCurrent
  <2>2. CASE Where[v] = c /\ j # ring[c].head
    <3>1. j \in Span(ring[c]) /\ At(ring'[Where[v]], j) = At(ring[c], j) BY <1>7, <1>8, <2>2
    <3> QED BY <2>2, <3>1 DEF OrderInv, GotBeforeQueued
  <2>3. CASE Where[v] # c BY <1>8, <2>0, <2>3 DEF OrderInv, GotBeforeQueued
  <2> QED BY <2>1, <2>2, <2>3
<1>13. UpToCurrent'
  <2>1. \A w \in Workers : Pending(w)' => w # c /\ Pending(w)
    BY <1>0, <1>6 DEF Pending, Current, c
  <2> SUFFICES ASSUME NEW w \in Workers
               PROVE  /\ \A j \in Span(ring'[w]) : /\ At(ring'[w], j).pkt <= pkt
                                                   /\ Pending(w)' => At(ring'[w], j).pkt < pkt
                      /\ \A v \in Viewers : Where[v] = w => \A i \in DOMAIN got[v] :
                            got[v][i] <= pkt /\ (Pending(w)' => got[v][i] < pkt)
    BY <1>6 DEF UpToCurrent
  <2>2. \A v \in Viewers : Where[v] = w => \A i \in DOMAIN got[v] :
           got[v][i] <= pkt /\ (Pending(w)' => got[v][i] < pkt)
    BY <2>1 DEF OrderInv, UpToCurrent
  <2>3. CASE w = c
    <3>1. \A j \in Span(q) : At(q, j).pkt <= pkt
      BY <1>0, <1>1, <1>4, <1>7 DEF OrderInv, UpToCurrent
    <3> QED BY <1>8, <2>1, <2>2, <2>3, <3>1
  <2>4. CASE w # c BY <1>8, <2>1, <2>2, <2>4 DEF OrderInv, UpToCurrent
  <2> QED BY <2>3, <2>4
<1>14. InOrder' BY <1>6 DEF OrderInv, InOrder
<1> QED BY <1>9, <1>11, <1>12, <1>13, <1>14 DEF OrderInv

(* The oldest entry of a ring goes to its viewers: it is newer than what    *)
(* they have and older than what stays queued.                              *)
LEMMA DrainStep ==
    ASSUME OrderInv, NEW w \in Workers, Drain(w)
    PROVE  LET r == ring[w]
               e == At(r, r.tail)
           IN  /\ r.tail \in Span(r) /\ e \in Entry /\ \A v \in e.to : v \in Viewers /\ Where[v] = w
               /\ ring' = [ring EXCEPT ![w] = Dequeued(r)] /\ Dequeued(r) \in Ring
               /\ ring'[w].tail <= ring'[w].head /\ ring'[w].head - ring'[w].tail <= RingSize
               /\ Span(ring'[w]) = Span(r) \ {r.tail}
               /\ \A i \in Span(ring'[w]) : r.tail < i
               /\ \A i : At(ring'[w], i) = At(r, i)
               /\ \A x \in Workers : x # w => ring'[x] = ring[x]
               /\ got' = [v \in Viewers |-> IF v \in e.to \cap present THEN Append(got[v], e.pkt)
                                            ELSE got[v]]
<1> DEFINE r == ring[w]
           q == Dequeued(r)
           e == At(r, r.tail)
<1>1. r \in Ring /\ r.tail <= r.head /\ r.head - r.tail <= RingSize /\ ~RingEmpty(r)
  BY DEF OrderInv, Types, RingsOrdered, Drain
<1>2. ring' = [ring EXCEPT ![w] = q] /\ ring \in [Workers -> Ring]
  BY DEF Drain, OrderInv, Types
<1>3. got' = [v \in Viewers |-> IF v \in RingFront(r).to \cap present
                                 THEN Append(got[v], RingFront(r).pkt) ELSE got[v]]
  BY DEF Drain
<1> HIDE DEF r
<1>4. /\ q \in Ring /\ q.tail <= q.head /\ q.head - q.tail <= RingSize
      /\ r.tail \in Span(r) /\ RingFront(r) = e
      /\ Span(q) = Span(r) \ {r.tail} /\ \A i \in Span(q) : r.tail < i
      /\ \A i : At(q, i) = At(r, i)
  BY <1>1, DequeueAt
<1>5. e \in Entry BY <1>1, AtType DEF Ring
<1>6. \A v \in e.to : v \in Viewers /\ Where[v] = w
  BY <1>4, <1>5 DEF r, Entry, OrderInv, RingsOrdered
<1> HIDE DEF q, e
<1>7. ring'[w] = q /\ \A x \in Workers : x # w => ring'[x] = ring[x] BY <1>2
<1>8. got' = [v \in Viewers |-> IF v \in e.to \cap present THEN Append(got[v], e.pkt) ELSE got[v]]
  BY <1>3, <1>4
<1> QED BY <1>2, <1>4, <1>5, <1>6, <1>7, <1>8, Zenon DEF r, q, e

LEMMA DrainOrder == ASSUME OrderInv, NEW w \in Workers, Drain(w) PROVE OrderInv'
<1> DEFINE r == ring[w]
           e == At(r, r.tail)
<1>0. /\ r.tail \in Span(r) /\ e \in Entry /\ \A v \in e.to : v \in Viewers /\ Where[v] = w
      /\ ring' = [ring EXCEPT ![w] = Dequeued(r)] /\ Dequeued(r) \in Ring
      /\ ring'[w].tail <= ring'[w].head /\ ring'[w].head - ring'[w].tail <= RingSize
      /\ Span(ring'[w]) = Span(r) \ {r.tail}
      /\ \A i \in Span(ring'[w]) : r.tail < i
      /\ \A i : At(ring'[w], i) = At(r, i)
      /\ \A x \in Workers : x # w => ring'[x] = ring[x]
      /\ got' = [v \in Viewers |-> IF v \in e.to \cap present THEN Append(got[v], e.pkt)
                                   ELSE got[v]]
  BY DrainStep
<1>1. /\ Types /\ got \in [Viewers -> Seq(Nat)] /\ ring \in [Workers -> Ring]
      /\ pkt' = pkt /\ todo' = todo /\ pc' = pc
  BY DEF OrderInv, Types, Drain, publisherVars
<1>2. ASSUME NEW v \in Viewers, Where[v] = w
      PROVE  /\ \A i \in DOMAIN got[v] : got[v][i] < e.pkt
             /\ \A i, j \in DOMAIN got[v] : i < j => got[v][i] < got[v][j]
  BY <1>0, <1>2 DEF OrderInv, GotBeforeQueued, InOrder
<1>3. /\ e.pkt \in Nat /\ e.pkt <= pkt /\ (Pending(w) => e.pkt < pkt)
      /\ \A j \in Span(ring'[w]) : e.pkt < At(r, j).pkt
  BY <1>0 DEF Entry, OrderInv, UpToCurrent, RingsOrdered
<1> HIDE DEF e
<1>4. ASSUME NEW v \in Viewers, v \in e.to \cap present
      PROVE  /\ got'[v] \in Seq(Nat) /\ \A i \in DOMAIN got'[v] : got'[v][i] <= e.pkt
             /\ \A i, j \in DOMAIN got'[v] : i < j => got'[v][i] < got'[v][j]
  <2>1. got'[v] = Append(got[v], e.pkt) BY <1>0, <1>4
  <2>2. got[v] \in Seq(Nat) /\ Where[v] = w BY <1>0, <1>1, <1>4
  <2> QED BY <1>2, <1>3, <2>1, <2>2, AppendOrder
<1>5. \A v \in Viewers : v \notin e.to \cap present => got'[v] = got[v] BY <1>0
<1>6. Types'
  <2>1. got' \in [Viewers -> Seq(Nat)]
    <3>1. \A v \in Viewers : got'[v] \in Seq(Nat) BY <1>1, <1>4, <1>5
    <3>2. got' = [v \in Viewers |-> got'[v]] BY <1>0
    <3> QED BY <3>1, <3>2
  <2>2. ring' \in [Workers -> Ring] BY <1>0, <1>1
  <2> QED BY <1>1, <2>1, <2>2 DEF Types, Drain, publisherVars
<1>7. RingsOrdered'
  <2> SUFFICES ASSUME NEW x \in Workers
               PROVE  /\ ring'[x].tail <= ring'[x].head /\ ring'[x].head - ring'[x].tail <= RingSize
                      /\ \A i, j \in Span(ring'[x]) : i < j => At(ring'[x], i).pkt < At(ring'[x], j).pkt
                      /\ \A i \in Span(ring'[x]) : \A v \in At(ring'[x], i).to : Where[v] = x
                      /\ x = Pub => Span(ring'[x]) = {}
    BY Constants DEF RingsOrdered
  <2>1. CASE x = w
    <3>1. \A i \in Span(ring'[x]) : i \in Span(ring[x]) /\ At(ring'[x], i) = At(ring[x], i)
      BY <1>0, <2>1
    <3>2. Span(ring'[x]) \subseteq Span(ring[x]) BY <3>1
    <3>3. ring'[x].tail <= ring'[x].head /\ ring'[x].head - ring'[x].tail <= RingSize
      BY <1>0, <2>1
    <3>4. x = Pub => Span(ring'[x]) = {} BY <3>2 DEF OrderInv, RingsOrdered
    <3> QED BY <3>1, <3>3, <3>4 DEF OrderInv, RingsOrdered
  <2>2. CASE x # w
    <3>1. ring'[x] = ring[x] BY <1>0, <2>2
    <3> QED BY <3>1 DEF OrderInv, RingsOrdered
  <2> QED BY <2>1, <2>2
<1>8. GotBeforeQueued'
  <2> SUFFICES ASSUME NEW v \in Viewers, NEW i \in DOMAIN got'[v], NEW j \in Span(ring'[Where[v]])
               PROVE  got'[v][i] < At(ring'[Where[v]], j).pkt
    BY DEF GotBeforeQueued
  <2>0. Where[v] \in Workers BY Constants
  <2>1. CASE v \in e.to \cap present
    <3>1. Where[v] = w BY <1>0, <2>1
    <3>2. e.pkt < At(ring'[w], j).pkt BY <1>0, <1>3, <3>1
    <3>3. got'[v][i] <= e.pkt /\ got'[v][i] \in Nat BY <1>4, <2>1
    <3>4. At(r, j).pkt \in Nat BY <1>1, <2>0, <3>1, AtType DEF Entry, Span
    <3>5. At(ring'[w], j).pkt \in Nat BY <1>0, <3>4
    <3> QED BY <1>3, <3>1, <3>2, <3>3, <3>5
  <2>2. CASE v \notin e.to \cap present
    <3>1. got'[v] = got[v] BY <1>5, <2>2
    <3>2. j \in Span(ring[Where[v]]) /\ At(ring'[Where[v]], j) = At(ring[Where[v]], j)
      BY <1>0, <2>0
    <3> QED BY <3>1, <3>2 DEF OrderInv, GotBeforeQueued
  <2> QED BY <2>1, <2>2
<1>9. UpToCurrent'
  <2>1. \A x \in Workers : Pending(x)' = Pending(x) BY <1>1 DEF Pending, Current
  <2> SUFFICES ASSUME NEW x \in Workers
               PROVE  /\ \A j \in Span(ring'[x]) : /\ At(ring'[x], j).pkt <= pkt
                                                   /\ Pending(x) => At(ring'[x], j).pkt < pkt
                      /\ \A v \in Viewers : Where[v] = x => \A i \in DOMAIN got'[v] :
                            got'[v][i] <= pkt /\ (Pending(x) => got'[v][i] < pkt)
    BY <1>1, <2>1 DEF UpToCurrent
  <2>2. \A j \in Span(ring'[x]) : j \in Span(ring[x]) /\ At(ring'[x], j) = At(ring[x], j)
    BY <1>0
  <2>3. ASSUME NEW v \in Viewers, Where[v] = x, NEW i \in DOMAIN got'[v]
        PROVE  got'[v][i] <= pkt /\ (Pending(x) => got'[v][i] < pkt)
    <3>1. CASE v \in e.to \cap present
      <4>1. x = w BY <1>0, <2>3, <3>1
      <4>2. got'[v][i] <= e.pkt /\ got'[v][i] \in Nat BY <1>4, <3>1
      <4>3. pkt \in Nat BY <1>1 DEF Types
      <4> QED BY <1>3, <4>1, <4>2, <4>3
    <3>2. CASE v \notin e.to \cap present BY <1>5, <2>3, <3>2 DEF OrderInv, UpToCurrent
    <3> QED BY <3>1, <3>2
  <2> QED BY <2>2, <2>3 DEF OrderInv, UpToCurrent
<1>10. InOrder'
  <2>1. ASSUME NEW v \in Viewers PROVE \A i, j \in DOMAIN got'[v] : i < j => got'[v][i] < got'[v][j]
    <3>1. CASE v \in e.to \cap present BY <1>4, <3>1
    <3>2. CASE v \notin e.to \cap present BY <1>5, <3>2 DEF OrderInv, InOrder
    <3> QED BY <3>1, <3>2
  <2> QED BY <2>1 DEF InOrder
<1> QED BY <1>6, <1>7, <1>8, <1>9, <1>10 DEF OrderInv

LEMMA OrderInit == Init => OrderInv
<1> SUFFICES ASSUME Init PROVE OrderInv OBVIOUS
<1>1. EmptyRing \in Ring /\ Span(EmptyRing) = {} /\ EmptyRing.head = 0 /\ EmptyRing.tail = 0
  BY DEF EmptyRing, Ring, Entry, NoEntry, Span
<1>2. \A w \in Workers : ring[w] = EmptyRing BY DEF Init
<1>3. Types BY <1>1 DEF Init, Types
<1>4. RingsOrdered BY <1>1, <1>2, Constants, RingHasSlots DEF RingsOrdered
<1>5. GotBeforeQueued /\ UpToCurrent /\ InOrder
  <2>1. \A v \in Viewers : DOMAIN got[v] = {} BY DEF Init
  <2> QED BY <1>1, <1>2, <2>1 DEF GotBeforeQueued, UpToCurrent, InOrder
<1> QED BY <1>3, <1>4, <1>5 DEF OrderInv

LEMMA OrderStep == OrderInv /\ [Next]_vars => OrderInv'
<1> SUFFICES ASSUME OrderInv, [Next]_vars PROVE OrderInv' OBVIOUS
<1>1. CASE UNCHANGED vars
  <2>1. Types' BY <1>1 DEF vars, OrderInv, Types
  <2>2. \A w \in Workers : Pending(w)' => Pending(w) BY <1>1 DEF vars, Pending, Current
  <2> QED BY <1>1, <2>1, <2>2, OrderKept DEF vars
<1>2. CASE Emit BY <1>2, EmitOrder
<1>3. CASE Snapshot BY <1>3, SnapshotOrder
<1>4. CASE Stamp BY <1>4, StampOrder
<1>5. CASE Send BY <1>5, SendOrder
<1>6. CASE Fan BY <1>6, FanOrder
<1>7. CASE FanDropped BY <1>7, FanDroppedOrder
<1>8. CASE Notify BY <1>8, NotifyOrder
<1>9. CASE \E w \in Workers : Consumer(w)
  BY <1>9, ConsumerIdleOrder, DrainOrder DEF Consumer
<1>10. CASE \E v \in Viewers : Join(v) \/ Leave(v) BY <1>10, JoinOrder, LeaveOrder
<1> QED BY <1>1, <1>2, <1>3, <1>4, <1>5, <1>6, <1>7, <1>8, <1>9, <1>10 DEF Next, Broadcast

(* Each viewer receives packets in the order they were sent and none twice, *)
(* on the direct path of ngx_rtc_broadcast_rtp as through the shm rings,    *)
(* however often a ring wraps.                                              *)
THEOREM DeliveredInOrder == Spec => []InOrder
<1>1. OrderInv => InOrder BY DEF OrderInv
<1>2. Spec => Init /\ [][Next]_vars BY PTL DEF Spec
<1> QED BY <1>1, <1>2, OrderInit, OrderStep, PTL

-----------------------------------------------------------------------------
(* Nothing is lost silently *)

(* A step that changes neither who is owed what nor the snapshot, and loses *)
(* nothing of what has arrived, is queued, is counted or is still to come.  *)
LEMMA LossKept ==
    ASSUME IndInv, snap'.viewers = snap.viewers,
           subs' = subs, present' = present, owed' = owed, pkt' = pkt,
           pc' \in {"fan", "notify"} => pc \in {"fan", "notify"},
           pc' \in {"snapshot", "stamp", "send"} => pc \in {"snapshot", "stamp", "send"},
           \A v \in present : \A k \in owed[v] :
              \/ Arrived(v, k)' \/ InRing(v, k)'
              \/ <<k, Where[v]>> \in drops'
              \/ k = pkt /\ Where[v] \in todo' /\ Pending(Where[v])'
    PROVE  LossInv'
<1>1. NoDuplicates' BY DEF IndInv, LossInv, NoDuplicates
<1>2. OwedBySnapshot' BY DEF IndInv, LossInv, OwedBySnapshot
<1>3. Accounted' BY DEF Accounted
<1> QED BY <1>1, <1>2, <1>3 DEF LossInv

(* Where a packet is depends on deliveries and rings only. *)
LEMMA StillThere ==
    ASSUME got' = got, ring' = ring
    PROVE  \A v, k : (Arrived(v, k)' <=> Arrived(v, k)) /\ (InRing(v, k)' <=> InRing(v, k))
BY DEF Arrived, InRing

LEMMA JoinLoss == ASSUME IndInv, NEW v \in Viewers, Join(v) PROVE LossInv'
<1> DEFINE t == <<v>> \o subs
<1>0. /\ subs \in Seq(Viewers) /\ v \notin present /\ owed[v] = {}
      /\ subs' = t /\ present' = present \cup {v} /\ ring' = ring /\ got' = got
      /\ UNCHANGED <<snap, pc, pkt, todo, drops, owed>>
  BY DEF IndInv, OrderInv, Types, Join
<1>1. /\ DOMAIN subs = 1..Len(subs) /\ Len(subs) \in Nat
      /\ DOMAIN t = 1..(Len(subs) + 1) /\ t[1] = v
      /\ \A i \in 2..(Len(subs) + 1) : t[i] = subs[i - 1]
  BY <1>0
<1> HIDE DEF t
<1>2. NoDuplicates'
  <2>1. \A i \in 2..(Len(subs) + 1) : i - 1 \in DOMAIN subs /\ t[i] \in present /\ t[i] # v
    BY <1>0, <1>1 DEF IndInv, LossInv, NoDuplicates
  <2>2. \A i \in DOMAIN t : i = 1 \/ i \in 2..(Len(subs) + 1) BY <1>1
  <2>3. ASSUME NEW i \in DOMAIN t, NEW j \in DOMAIN t, t[i] = t[j] PROVE i = j
    <3>1. CASE i = 1 BY <1>1, <2>1, <2>2, <2>3, <3>1
    <3>2. CASE j = 1 BY <1>1, <2>1, <2>2, <2>3, <3>2
    <3>3. CASE i \in 2..(Len(subs) + 1) /\ j \in 2..(Len(subs) + 1)
      <4>1. i - 1 \in DOMAIN subs /\ j - 1 \in DOMAIN subs /\ subs[i - 1] = subs[j - 1]
        BY <1>1, <2>1, <2>3, <3>3
      <4>2. i - 1 = j - 1 BY <4>1 DEF IndInv, LossInv, NoDuplicates
      <4> QED BY <3>3, <4>2
    <3> QED BY <2>2, <3>1, <3>2, <3>3
  <2>4. \A i \in DOMAIN t : t[i] \in present \cup {v} BY <1>1, <2>1, <2>2
  <2> QED BY <1>0, <2>3, <2>4 DEF IndInv, LossInv, NoDuplicates
<1>3. OwedBySnapshot' BY <1>0 DEF IndInv, LossInv, OwedBySnapshot
<1>4. Accounted'
  <2> SUFFICES ASSUME NEW x \in present', NEW k \in owed[x]
               PROVE  \/ Arrived(x, k)' \/ InRing(x, k)' \/ <<k, Where[x]>> \in drops'
                      \/ k = pkt' /\ Where[x] \in todo' /\ Pending(Where[x])'
    BY <1>0 DEF Accounted
  <2>1. x \in present BY <1>0
  <2>2. \/ Arrived(x, k) \/ InRing(x, k) \/ <<k, Where[x]>> \in drops
        \/ k = pkt /\ Where[x] \in todo /\ Pending(Where[x])
    BY <2>1 DEF IndInv, LossInv, Accounted
  <2>3. Pending(Where[x])' <=> Pending(Where[x]) BY <1>0 DEF Pending, Current
  <2> QED BY <1>0, <2>2, <2>3, StillThere
<1> QED BY <1>2, <1>3, <1>4 DEF LossInv

LEMMA LeaveLoss == ASSUME IndInv, NEW v \in Viewers, Leave(v) PROVE LossInv'
<1>0. /\ subs \in Seq(Viewers) /\ present' = present \ {v} /\ ring' = ring /\ got' = got
      /\ UNCHANGED <<snap, pc, pkt, todo, drops, owed>>
  BY DEF IndInv, OrderInv, Types, Leave
<1>1. PICK n \in DOMAIN subs : subs[n] = v /\ subs' = RemoveAt(subs, n) BY DEF Leave
<1>2. \A i \in DOMAIN subs' : \/ i < n /\ i \in DOMAIN subs /\ subs'[i] = subs[i]
                              \/ i >= n /\ i + 1 \in DOMAIN subs /\ subs'[i] = subs[i + 1]
  BY <1>0, <1>1, Unlinked
<1>3. DOMAIN subs = 1..Len(subs) /\ Len(subs) \in Nat /\ n \in Nat BY <1>0
<1>4. NoDuplicates'
  <2>0. /\ \A i, j \in DOMAIN subs : subs[i] = subs[j] => i = j
        /\ \A i \in DOMAIN subs : subs[i] \in present
    BY DEF IndInv, LossInv, NoDuplicates
  <2>1. \A i \in DOMAIN subs' : i \in Int
    <3>1. subs' \in Seq(Viewers) BY <1>0, <1>1, Unlinked
    <3> QED BY <3>1
  <2>2. ASSUME NEW i \in DOMAIN subs', NEW j \in DOMAIN subs', subs'[i] = subs'[j] PROVE i = j
    BY <1>2, <1>3, <2>0, <2>1, <2>2
  <2>3. ASSUME NEW i \in DOMAIN subs' PROVE subs'[i] \in present \ {v}
    BY <1>1, <1>2, <1>3, <2>0, <2>1
  <2> QED BY <1>0, <2>2, <2>3 DEF IndInv, LossInv, NoDuplicates
<1>5. OwedBySnapshot' BY <1>0 DEF IndInv, LossInv, OwedBySnapshot
<1>6. Accounted'
  <2>1. \A x \in Workers : Pending(x)' <=> Pending(x) BY <1>0 DEF Pending, Current
  <2> SUFFICES ASSUME NEW x \in present', NEW k \in owed[x]
               PROVE  \/ Arrived(x, k)' \/ InRing(x, k)' \/ <<k, Where[x]>> \in drops'
                      \/ k = pkt' /\ Where[x] \in todo' /\ Pending(Where[x])'
    BY <1>0 DEF Accounted
  <2>2. \/ Arrived(x, k) \/ InRing(x, k) \/ <<k, Where[x]>> \in drops
        \/ k = pkt /\ Where[x] \in todo /\ Pending(Where[x])
    BY <1>0 DEF IndInv, LossInv, Accounted
  <2>3. Pending(Where[x])' <=> Pending(Where[x]) BY <1>0 DEF Pending, Current
  <2> QED BY <1>0, <2>2, <2>3, StillThere
<1> QED BY <1>4, <1>5, <1>6 DEF LossInv

(* Wake, Drained and Stamp move no packet. *)
LEMMA QuietLoss ==
    ASSUME IndInv, UNCHANGED <<subs, present, snap.viewers, pkt, todo, ring, drops, owed, got>>,
           \/ pc' = pc
           \/ pc \in {"snapshot", "stamp", "send"} /\ pc' \in {"snapshot", "stamp", "send"}
    PROVE  LossInv'
<1>1. \A w : Pending(w) => Pending(w)' BY DEF Pending, Current
<1>2. \A v \in present : \A k \in owed[v] :
         \/ Arrived(v, k)' \/ InRing(v, k)'
         \/ <<k, Where[v]>> \in drops'
         \/ k = pkt /\ Where[v] \in todo' /\ Pending(Where[v])'
  BY <1>1, StillThere DEF IndInv, LossInv, Accounted
<1> QED BY <1>2, LossKept

(* A refreshed snapshot inherits the queue's lack of duplicates; nobody is  *)
(* owed the packet yet.                                                     *)
LEMMA SnapshotLoss == ASSUME IndInv, Snapshot PROVE LossInv'
<1>0. /\ Types /\ pc = "snapshot" /\ pc' = "stamp" /\ ring' = ring /\ got' = got
      /\ UNCHANGED <<subs, present, pkt, todo, drops, owed>>
  BY DEF IndInv, OrderInv, Snapshot
<1>1. \A i \in DOMAIN snap'.viewers : i \in DOMAIN subs /\ snap'.viewers[i] = subs[i]
  BY <1>0, Prefix
<1>2. NoDuplicates' BY <1>0, <1>1 DEF IndInv, LossInv, NoDuplicates
<1>3. OwedBySnapshot' BY <1>0 DEF IndInv, LossInv, OwedBySnapshot
<1>4. \A w : Pending(w) => Pending(w)' BY <1>0 DEF Pending
<1>5. Accounted' BY <1>0, <1>4, StillThere DEF IndInv, LossInv, Accounted
<1> QED BY <1>2, <1>3, <1>5 DEF LossInv

(* When the next packet is taken the last one has been handed to everyone.  *)
LEMMA EmitLoss == ASSUME IndInv, Emit PROVE LossInv'
<1>0. /\ Types /\ pkt \in Nat /\ pkt' = pkt + 1 /\ pc = "idle" /\ pc' \in {"send", "snapshot"}
      /\ ring' = ring /\ got' = got /\ UNCHANGED <<subs, present, snap, todo, drops, owed>>
  BY DEF IndInv, OrderInv, Types, Emit
<1>1. todo = {} /\ owed \in [Viewers -> SUBSET Nat] BY <1>0 DEF Types
<1>2. NoDuplicates' BY <1>0 DEF IndInv, LossInv, NoDuplicates
<1>3. OwedBySnapshot'
  <2>1. \A v \in Viewers : \A k \in owed[v] : k \in Nat /\ k <= pkt
    BY <1>1 DEF IndInv, LossInv, OwedBySnapshot
  <2>2. \A v \in Viewers : \A k \in owed[v] : k < pkt + 1 /\ k <= pkt + 1 BY <1>0, <2>1
  <2> QED BY <1>0, <2>2 DEF OwedBySnapshot
<1>4. Accounted' BY <1>0, <1>1, StillThere DEF IndInv, LossInv, Accounted
<1> QED BY <1>2, <1>3, <1>4 DEF LossInv

(* What has arrived stays arrived when a viewer is sent another packet. *)
LEMMA Received ==
    ASSUME NEW v, got[v] \in Seq(Nat), NEW k \in Nat, got'[v] = Append(got[v], k)
    PROVE  Arrived(v, k)' /\ \A x : Arrived(v, x) => Arrived(v, x)'
<1> DEFINE s == got[v]
           t == got'[v]
           n == Len(s)
<1>1. s \in Seq(Nat) /\ t = Append(s, k) OBVIOUS
<1> HIDE DEF s, t
<1>2. n \in Nat /\ DOMAIN s = 1..n /\ DOMAIN t = 1..(n + 1) /\ t[n + 1] = k
      /\ \A i \in 1..n : t[i] = s[i]
  BY <1>1
<1> HIDE DEF n
<1>3. \A i \in DOMAIN s : i \in DOMAIN t /\ t[i] = s[i] BY <1>2
<1>4. n + 1 \in DOMAIN t BY <1>2
<1> QED BY <1>2, <1>3, <1>4 DEF s, t, Arrived

LEMMA SendLoss == ASSUME IndInv, Send PROVE LossInv'
<1> DEFINE L == On(Pub) \cap present
<1>0. /\ Types /\ pkt \in Nat /\ got \in [Viewers -> Seq(Nat)] /\ pc = "send"
      /\ owed \in [Viewers -> SUBSET Nat] /\ present \subseteq Viewers /\ snap.viewers \in Seq(Viewers)
      /\ ring' = ring /\ UNCHANGED <<subs, present, snap, pkt, drops>>
      /\ todo' = RemoteTargets /\ pc' = IF RemoteTargets = {} THEN "idle" ELSE "fan"
  BY DEF IndInv, OrderInv, Types, Send
<1>1. \A v \in Viewers : got'[v] = IF v \in L THEN Append(got[v], pkt) ELSE got[v]
  BY DEF Send, Deliver
<1>2. \A v \in Viewers : owed'[v] = IF v \in Range(snap.viewers) THEN owed[v] \cup {pkt} ELSE owed[v]
  BY DEF Send
<1>3. Range(snap.viewers) = {snap.viewers[i] : i \in DOMAIN snap.viewers} BY DEF Range
<1>4. \A v \in Viewers : \A k \in owed[v] : k \in Nat /\ k < pkt
  BY <1>0 DEF IndInv, LossInv, OwedBySnapshot
<1>5. NoDuplicates' BY <1>0 DEF IndInv, LossInv, NoDuplicates
<1>6. OwedBySnapshot'
  <2> SUFFICES ASSUME NEW v \in Viewers, NEW k \in owed'[v]
               PROVE  k <= pkt /\ (k = pkt => \E i \in DOMAIN snap.viewers : snap.viewers[i] = v)
    BY <1>0 DEF OwedBySnapshot
  <2>1. CASE k \in owed[v] BY <1>0, <1>4, <2>1
  <2>2. CASE k \notin owed[v]
    <3>1. k = pkt /\ v \in Range(snap.viewers) BY <1>2, <2>2
    <3> QED BY <1>0, <1>3, <3>1
  <2> QED BY <2>1, <2>2
<1>7. Accounted'
  <2> SUFFICES ASSUME NEW v \in present, NEW k \in owed'[v]
               PROVE  \/ Arrived(v, k)' \/ InRing(v, k)' \/ <<k, Where[v]>> \in drops
                      \/ k = pkt /\ Where[v] \in todo' /\ Pending(Where[v])'
    BY <1>0 DEF Accounted
  <2>0. v \in Viewers /\ got[v] \in Seq(Nat) /\ Where[v] \in Workers BY <1>0, Constants
  <2>1. CASE k \in owed[v]
    <3>1. k # pkt BY <1>0, <1>4, <2>0, <2>1
    <3>2. Arrived(v, k) \/ InRing(v, k) \/ <<k, Where[v]>> \in drops
      BY <2>1, <3>1 DEF IndInv, LossInv, Accounted
    <3>3. Arrived(v, k) => Arrived(v, k)'
      <4>1. CASE v \in L BY <1>0, <1>1, <2>0, <4>1, Received
      <4>2. CASE v \notin L BY <1>1, <2>0, <4>2 DEF Arrived
      <4> QED BY <4>1, <4>2
    <3>4. InRing(v, k) => InRing(v, k)' BY <1>0 DEF InRing
    <3> QED BY <3>2, <3>3, <3>4
  <2>2. CASE k \notin owed[v]
    <3>1. k = pkt /\ v \in Range(snap.viewers) BY <1>2, <2>0, <2>2
    <3>2. CASE Where[v] = Pub
      <4>1. v \in L BY <3>1, <3>2 DEF On
      <4>2. got'[v] = Append(got[v], pkt) BY <1>1, <2>0, <4>1
      <4>3. Arrived(v, k)' BY <1>0, <2>0, <3>1, <4>2, Received
      <4> QED BY <4>3
    <3>3. CASE Where[v] # Pub
      <4>1. v \in On(Where[v]) BY <3>1 DEF On
      <4>2. Where[v] \in RemoteTargets BY <2>0, <3>3, <4>1 DEF RemoteTargets
      <4>3. Where[v] \in todo' /\ pc' = "fan" BY <1>0, <4>2
      <4>4. Pending(Where[v])' BY <4>3 DEF Pending
      <4> QED BY <3>1, <4>3, <4>4
    <3> QED BY <3>2, <3>3
  <2> QED BY <2>1, <2>2
<1> QED BY <1>5, <1>6, <1>7 DEF LossInv

(* Whoever the snapshot has on a worker is in the entry for that worker,    *)
(* unless there are more of them than an entry holds.                       *)
LEMMA EntryHoldsAll ==
    ASSUME IndInv, Fits, NEW n \in DOMAIN snap.viewers, NEW w \in Workers,
           Where[snap.viewers[n]] = w
    PROVE  snap.viewers[n] \in EntryViewers(w)
<1> DEFINE s == snap.viewers
           P == {j \in 1..n : Where[s[j]] = w}
           T == {v \in Viewers : Where[v] = w}
           f == [j \in P |-> s[j]]
<1>1. s \in Seq(Viewers) BY DEF IndInv, OrderInv, Types
<1>2. DOMAIN s = 1..Len(s) /\ n \in 1..Len(s) /\ Len(s) \in Nat BY <1>1
<1>3. P \subseteq DOMAIN s BY <1>2
<1>4. \A j \in P : s[j] \in T BY <1>1, <1>3
<1>5. \A i, j \in P : s[i] = s[j] => i = j BY <1>3 DEF IndInv, LossInv, NoDuplicates
<1>6. f \in Injection(P, T)
  <2>1. f \in [P -> T] BY <1>4
  <2>2. IsInjective(f) BY <1>5 DEF IsInjective
  <2> QED BY <2>1, <2>2 DEF Injection
<1>7. IsFiniteSet(T) BY FS_Subset DEF Fits
<1> HIDE DEF P, T, f
<1>8. Cardinality(P) <= Cardinality(T) /\ IsFiniteSet(P) BY <1>6, <1>7, FS_Injection
<1>9. Cardinality(P) \in Nat /\ Cardinality(T) \in Nat BY <1>7, <1>8, FS_CardinalityType
<1>10. Cardinality(T) <= MaxEntry BY DEF T, Fits
<1>11. Cardinality(P) <= MaxEntry BY <1>8, <1>9, <1>10, Constants
<1>12. Place(n, w) <= MaxEntry BY <1>11 DEF P, Place
<1> QED BY <1>12 DEF EntryViewers

LEMMA FanLoss == ASSUME IndInv, Fits, Fan PROVE LossInv'
<1> DEFINE c == Current
           e == [pkt |-> pkt, to |-> EntryViewers(c)]
           q == Enqueued(ring[c], e)
<1>0. /\ Types /\ todo # {} /\ pkt \in Nat /\ ring \in [Workers -> Ring] /\ pc = "fan"
      /\ present \subseteq Viewers /\ snap.viewers \in Seq(Viewers)
      /\ got' = got /\ todo' = todo /\ pc' = "notify"
      /\ UNCHANGED <<subs, present, snap, pkt, drops, owed>>
      /\ ring' = [ring EXCEPT ![c] = q]
  BY DEF IndInv, OrderInv, Types, Fan
<1>1. c \in todo /\ c \in Workers BY <1>0, CurrentType
<1>2. e \in Entry
  <2>1. EntryViewers(c) \subseteq Viewers BY <1>0 DEF EntryViewers
  <2> QED BY <1>0, <2>1 DEF Entry
<1>3. ring[c] \in Ring /\ ring[c].tail <= ring[c].head /\ ~RingFull(ring[c])
  BY <1>0, <1>1 DEF IndInv, OrderInv, RingsOrdered, Fan
<1>4. e.pkt = pkt /\ e.to = EntryViewers(c) OBVIOUS
<1>5. Current' = c BY <1>0 DEF Current
<1>6. \A w \in todo : w # c => Pending(w)' BY <1>0, <1>5 DEF Pending
<1> HIDE DEF c, e
<1>7. /\ Span(q) = Span(ring[c]) \cup {ring[c].head} /\ At(q, ring[c].head) = e
      /\ \A i \in Span(ring[c]) : At(q, i) = At(ring[c], i)
  BY <1>2, <1>3, EnqueueAt
<1> HIDE DEF q
<1>8. ring'[c] = q /\ \A w \in Workers : w # c => ring'[w] = ring[w]
  BY <1>0, <1>1
<1>9. ASSUME NEW v \in present, NEW k \in owed[v]
      PROVE  \/ Arrived(v, k)' \/ InRing(v, k)'
             \/ <<k, Where[v]>> \in drops'
             \/ k = pkt /\ Where[v] \in todo' /\ Pending(Where[v])'
  <2>0. v \in Viewers /\ Where[v] \in Workers BY <1>0, Constants
  <2>1. CASE Arrived(v, k) BY <1>0, <2>1 DEF Arrived
  <2>2. CASE InRing(v, k)
    <3>1. InRing(v, k)'
      <4>1. CASE Where[v] = c BY <1>7, <1>8, <2>2, <4>1 DEF InRing
      <4>2. CASE Where[v] # c BY <1>8, <2>0, <2>2, <4>2 DEF InRing
      <4> QED BY <4>1, <4>2
    <3> QED BY <3>1
  <2>3. CASE <<k, Where[v]>> \in drops BY <1>0, <2>3
  <2>4. CASE k = pkt /\ Where[v] \in todo /\ Pending(Where[v])
    <3>1. CASE Where[v] # c BY <1>0, <1>6, <2>4, <3>1
    <3>2. CASE Where[v] = c
      <4>1. PICK n \in DOMAIN snap.viewers : snap.viewers[n] = v
        BY <1>0, <2>0, <2>4 DEF IndInv, LossInv, OwedBySnapshot
      <4>2. v \in e.to BY <1>1, <1>4, <3>2, <4>1, EntryHoldsAll
      <4>3. InRing(v, k)' BY <1>4, <1>7, <1>8, <2>4, <3>2, <4>2 DEF InRing
      <4> QED BY <4>3
    <3> QED BY <3>1, <3>2
  <2> QED BY <2>1, <2>2, <2>3, <2>4 DEF IndInv, LossInv, Accounted
<1> QED BY <1>0, <1>9, LossKept

LEMMA FanDroppedLoss == ASSUME IndInv, FanDropped PROVE LossInv'
<1>0. /\ Types /\ todo # {} /\ pc \in {"fan", "notify"} /\ NextWorker
      /\ ring' = ring /\ got' = got /\ UNCHANGED <<subs, present, snap, pkt, owed>>
      /\ drops' = drops \cup {<<pkt, Current>>}
  BY DEF IndInv, OrderInv, Types, FanDropped
<1>1. /\ todo' = todo \ {Current} /\ pc' \in {"fan", "idle"}
      /\ \A w \in todo : w # Current => w \in todo' /\ Pending(w)'
  BY <1>0, NextWorkerPending
<1>2. \A v \in present : \A k \in owed[v] :
         \/ Arrived(v, k)' \/ InRing(v, k)'
         \/ <<k, Where[v]>> \in drops'
         \/ k = pkt /\ Where[v] \in todo' /\ Pending(Where[v])'
  BY <1>0, <1>1, StillThere DEF IndInv, LossInv, Accounted
<1> QED BY <1>0, <1>1, <1>2, LossKept

LEMMA NotifyLoss == ASSUME IndInv, Notify PROVE LossInv'
<1>0. /\ Types /\ todo # {} /\ pc = "notify" /\ NextWorker
      /\ ring' = ring /\ got' = got /\ UNCHANGED <<subs, present, snap, pkt, owed, drops>>
  BY DEF IndInv, OrderInv, Types, Notify
<1>1. /\ todo' = todo \ {Current} /\ pc' \in {"fan", "idle"}
      /\ \A w \in todo : w # Current => w \in todo' /\ Pending(w)'
  BY <1>0, NextWorkerPending
<1>2. \A w : Pending(w) => w # Current BY <1>0 DEF Pending
<1>3. \A v \in present : \A k \in owed[v] :
         \/ Arrived(v, k)' \/ InRing(v, k)'
         \/ <<k, Where[v]>> \in drops'
         \/ k = pkt /\ Where[v] \in todo' /\ Pending(Where[v])'
  BY <1>0, <1>1, <1>2, StillThere DEF IndInv, LossInv, Accounted
<1> QED BY <1>0, <1>1, <1>3, LossKept

(* An entry that leaves its ring reaches the viewers it is for. *)
LEMMA DrainLoss == ASSUME IndInv, NEW w \in Workers, Drain(w) PROVE LossInv'
<1> DEFINE r == ring[w]
           e == At(r, r.tail)
<1>0. /\ e \in Entry /\ Span(ring'[w]) = Span(r) \ {r.tail}
      /\ \A i : At(ring'[w], i) = At(r, i)
      /\ \A x \in Workers : x # w => ring'[x] = ring[x]
      /\ got' = [v \in Viewers |-> IF v \in e.to \cap present THEN Append(got[v], e.pkt)
                                   ELSE got[v]]
  BY DrainStep DEF IndInv
<1>1. /\ got \in [Viewers -> Seq(Nat)] /\ present \subseteq Viewers
      /\ UNCHANGED <<subs, present, snap, pc, pkt, todo, drops, owed>>
  BY DEF IndInv, OrderInv, Types, Drain, publisherVars
<1>2. \A x : Pending(x)' <=> Pending(x) BY <1>1 DEF Pending, Current
<1>3. e.pkt \in Nat BY <1>0 DEF Entry
<1> HIDE DEF e
<1>4. ASSUME NEW v \in present, NEW k \in owed[v]
      PROVE  \/ Arrived(v, k)' \/ InRing(v, k)'
             \/ <<k, Where[v]>> \in drops'
             \/ k = pkt /\ Where[v] \in todo' /\ Pending(Where[v])'
  <2>0. v \in Viewers /\ Where[v] \in Workers /\ got[v] \in Seq(Nat) BY <1>1, Constants
  <2>1. CASE Arrived(v, k)
    <3>1. Arrived(v, k)'
      <4>1. CASE v \in e.to \cap present BY <1>0, <1>3, <2>0, <2>1, <4>1, Received
      <4>2. CASE v \notin e.to \cap present BY <1>0, <2>0, <2>1, <4>2 DEF Arrived
      <4> QED BY <4>1, <4>2
    <3> QED BY <3>1
  <2>2. CASE InRing(v, k)
    <3>1. PICK i \in Span(ring[Where[v]]) : /\ At(ring[Where[v]], i).pkt = k
                                            /\ v \in At(ring[Where[v]], i).to
      BY <2>2 DEF InRing
    <3>2. CASE Where[v] = w /\ i = r.tail
      <4>1. v \in e.to /\ e.pkt = k BY <3>1, <3>2 DEF e
      <4>2. got'[v] = Append(got[v], k) BY <1>0, <2>0, <4>1
      <4>3. Arrived(v, k)' BY <1>3, <2>0, <4>1, <4>2, Received
      <4> QED BY <4>3
    <3>3. CASE ~(Where[v] = w /\ i = r.tail)
      <4>1. i \in Span(ring'[Where[v]]) /\ At(ring'[Where[v]], i) = At(ring[Where[v]], i)
        BY <1>0, <2>0, <3>1, <3>3
      <4>2. InRing(v, k)' BY <3>1, <4>1 DEF InRing
      <4> QED BY <4>2
    <3> QED BY <3>2, <3>3
  <2>3. CASE <<k, Where[v]>> \in drops BY <1>1, <2>3
  <2>4. CASE k = pkt /\ Where[v] \in todo /\ Pending(Where[v]) BY <1>1, <1>2, <2>4
  <2> QED BY <2>1, <2>2, <2>3, <2>4 DEF IndInv, LossInv, Accounted
<1> QED BY <1>1, <1>4, LossKept

LEMMA LossInit == Init => LossInv
BY DEF Init, LossInv, NoDuplicates, OwedBySnapshot, Accounted

LEMMA LossStep == Fits /\ IndInv /\ [Next]_vars => IndInv'
<1> SUFFICES ASSUME Fits, IndInv, [Next]_vars PROVE LossInv' BY OrderStep DEF IndInv
<1>1. CASE UNCHANGED vars BY <1>1, QuietLoss DEF vars
<1>2. CASE Emit BY <1>2, EmitLoss
<1>3. CASE Snapshot BY <1>3, SnapshotLoss
<1>4. CASE Stamp
  <2>1. snap \in [version : Nat, viewers : Seq(Viewers)] BY DEF IndInv, OrderInv, Types
  <2>2. snap'.viewers = snap.viewers BY <1>4, <2>1 DEF Stamp
  <2> QED BY <1>4, <2>2, QuietLoss DEF Stamp
<1>5. CASE Send BY <1>5, SendLoss
<1>6. CASE Fan BY <1>6, FanLoss
<1>7. CASE FanDropped BY <1>7, FanDroppedLoss
<1>8. CASE Notify BY <1>8, NotifyLoss
<1>9. CASE \E w \in Workers : Consumer(w)
  <2>1. ASSUME NEW w \in Workers, Wake(w) \/ Drained(w) PROVE LossInv'
    BY <2>1, QuietLoss DEF Wake, Drained, publisherVars
  <2> QED BY <1>9, <2>1, DrainLoss DEF Consumer
<1>10. CASE \E v \in Viewers : Join(v) \/ Leave(v) BY <1>10, JoinLoss, LeaveLoss
<1> QED BY <1>1, <1>2, <1>3, <1>4, <1>5, <1>6, <1>7, <1>8, <1>9, <1>10 DEF Next, Broadcast

(* The property speaks of the queue's contents, the invariant of positions. *)
LEMMA QueuedAt ==
    ASSUME NEW r \in Ring, NEW i \in Span(r)
    PROVE  At(r, i) \in Range(Queued(r))
<1> DEFINE n == i - r.tail + 1
<1>1. r.head \in Nat /\ r.tail \in Nat /\ i \in Nat /\ r.tail <= i /\ i < r.head BY DEF Ring, Span
<1>2. n \in 1..(r.head - r.tail) /\ r.tail + n - 1 = i BY <1>1
<1> HIDE DEF n
<1>3. n \in DOMAIN Queued(r) /\ Queued(r)[n] = r.slot[(r.tail + n - 1) % RingSize]
  BY <1>2 DEF Queued
<1>4. Queued(r)[n] = At(r, i) BY <1>2, <1>3 DEF At
<1> QED BY <1>3, <1>4 DEF Range

LEMMA LossProperty == IndInv => NoSilentLoss
<1> SUFFICES ASSUME IndInv, NEW v \in present, NEW k \in owed[v]
             PROVE  \/ k \in Range(got[v]) \cup InFlight(v)
                    \/ <<k, Where[v]>> \in drops
                    \/ k = pkt /\ Where[v] \in todo /\ (pc = "notify" => Where[v] # Current)
  BY DEF NoSilentLoss
<1>0. v \in Viewers /\ Where[v] \in Workers /\ ring[Where[v]] \in Ring /\ got[v] \in Seq(Nat)
      /\ (todo # {} => pc \in {"fan", "notify"})
  BY Constants DEF IndInv, OrderInv, Types
<1>1. CASE Arrived(v, k) BY <1>1 DEF Arrived, Range
<1>2. CASE InRing(v, k)
  <2>1. PICK i \in Span(ring[Where[v]]) : /\ At(ring[Where[v]], i).pkt = k
                                          /\ v \in At(ring[Where[v]], i).to
    BY <1>2 DEF InRing
  <2>2. At(ring[Where[v]], i) \in Range(Queued(ring[Where[v]])) BY <1>0, QueuedAt
  <2> QED BY <2>1, <2>2 DEF InFlight
<1>3. CASE k = pkt /\ Where[v] \in todo /\ Pending(Where[v]) BY <1>0, <1>3 DEF Pending
<1> QED BY <1>1, <1>2, <1>3 DEF IndInv, LossInv, Accounted

(* Every packet broadcast to a viewer reached it, is queued for it, is yet  *)
(* to be enqueued or is in ring_drops, as long as no worker has more        *)
(* viewers of one source than a ring entry holds                            *)
(* (NGX_RTC_RING_MAX_SESSIONS).                                             *)
THEOREM LossIsCounted == ASSUME Fits PROVE Spec => []NoSilentLoss
<1>1. Spec => Init /\ [][Next]_vars BY PTL DEF Spec
<1>2. Init => IndInv BY OrderInit, LossInit DEF IndInv
<1>3. IndInv /\ [Next]_vars => IndInv' BY LossStep
<1> QED BY <1>1, <1>2, <1>3, LossProperty, PTL
=============================================================================
