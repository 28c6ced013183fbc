---------------------------- MODULE VideoProofs -----------------------------
(* What the path of a video packet promises, for every value of its         *)
(* constants: the identity it travels under (MediaIdentity), its order out  *)
(* of the uplink's reorder buffer (Jitter), and what the caches of a        *)
(* publish answer from (VideoCache).                                        *)
EXTENDS Jitter, MediaIdentity, VideoCache, FiniteSetTheorems, WellFoundedInduction, TLAPS

-----------------------------------------------------------------------------
(* The identity of an RTMP stream *)

(* While only RTMP publishers exist, every identity carries the SSRC drawn  *)
(* for the zone's source.                                                   *)
Own == [ssrc : {ZoneSsrc}, pt : Nat]

ViewerSessions == [pt : Nat, ext : Nat, on : Workers, bound : BOOLEAN]
RtmpPublishers == [kind : {"rtmp"}, on : Workers, pt : {0}, bound : {TRUE}]

(* A session's worker, and a publisher's, has a copy of the zone's source;  *)
(* and what a viewer got carries its session's own numbers.                 *)
IdentityInv ==
    /\ zone \in Own \cup {None}
    /\ copy \in [Workers -> Own \cup {None}] /\ ring \in [Workers -> Own \cup {None}]
    /\ sess \in [Viewers -> ViewerSessions \cup {None}]
    /\ publisher # None => publisher \in RtmpPublishers /\ copy[publisher.on] \in Own
    /\ \A v \in Viewers : sess[v] # None => zone \in Own /\ copy[sess[v].on] \in Own
    /\ got \in [Viewers -> [ssrc : {ZoneSsrc}, pt : Nat, ext : Nat] \cup {None}]
    /\ \A v \in Viewers : got[v] # None =>
          /\ sess[v] # None /\ sess[v].bound
          /\ got[v].pt = sess[v].pt /\ got[v].ext = sess[v].ext

LEMMA IdentityNumbers ==
    /\ Kinds \subseteq {"rtmp", "whip"} /\ DefaultPt \in Nat
    /\ \A pt \in Pts : pt \in Nat
    /\ \A ext \in Exts : ext \in Nat
  BY IdentityConstants

(* The zone's source, found or made, and what an offer makes of it.         *)
LEMMA ZoneOwn ==
    ASSUME zone \in Own \cup {None}, NEW pt \in Nat
    PROVE  Zone \in Own /\ SetPt(Zone, pt) \in Own /\ Or(pt, Zone.pt) \in Nat
  <1>1. Zone \in Own  BY IdentityNumbers DEF Zone, Own
  <1>2. Zone.pt \in Nat /\ Or(pt, Zone.pt) \in Nat  BY <1>1 DEF Own, Or
  <1>3. SetPt(Zone, pt) \in Own  BY <1>1, <1>2 DEF SetPt, Own
  <1> QED BY <1>1, <1>2, <1>3

(* Every viewer of a worker that knows the source gets its own numbers.     *)
LEMMA DeliveredOwn ==
    ASSUME IdentityInv, NEW w \in Workers, NEW packet \in Own, NEW id, On(w) # {} => id \in Own
    PROVE  /\ Delivered(w, packet, id)
                  \in [Viewers -> [ssrc : {ZoneSsrc}, pt : Nat, ext : Nat] \cup {None}]
           /\ \A v \in Viewers : Delivered(w, packet, id)[v] # None =>
                  /\ sess[v] # None /\ sess[v].bound
                  /\ Delivered(w, packet, id)[v].pt = sess[v].pt
                  /\ Delivered(w, packet, id)[v].ext = sess[v].ext
  <1> DEFINE d == Delivered(w, packet, id)
             Gots == [ssrc : {ZoneSsrc}, pt : Nat, ext : Nat]
  <1>1. ASSUME NEW v \in Viewers
        PROVE  /\ d[v] \in Gots \cup {None}
               /\ d[v] # None => /\ sess[v] # None /\ sess[v].bound
                                 /\ d[v].pt = sess[v].pt /\ d[v].ext = sess[v].ext
    <2>1. CASE v \in On(w)
      <3>1. sess[v] \in ViewerSessions /\ sess[v] # None /\ sess[v].bound
        BY <2>1 DEF On, IdentityInv
      <3>2. packet.ssrc = id.ssrc  BY <2>1 DEF Own
      <3>3. d[v] = [ssrc |-> packet.ssrc, pt |-> sess[v].pt, ext |-> sess[v].ext]
        BY <2>1, <3>2 DEF Delivered, Sent
      <3>4. packet.ssrc = ZoneSsrc /\ sess[v].pt \in Nat /\ sess[v].ext \in Nat
        BY <3>1 DEF Own, ViewerSessions
      <3> QED BY <3>1, <3>3, <3>4
    <2>2. CASE v \notin On(w)
      <3>1. d[v] = got[v]  BY <2>2 DEF Delivered
      <3> QED BY <3>1 DEF IdentityInv
    <2> QED BY <2>1, <2>2
  <1>2. d = [v \in Viewers |-> d[v]]  BY DEF Delivered
  <1> HIDE DEF d
  <1>3. d \in [Viewers -> Gots \cup {None}]  BY <1>1, <1>2
  <1> QED BY <1>1, <1>3 DEF d

LEMMA PlayInv ==
    ASSUME IdentityInv, NEW w \in Workers, NEW v \in Viewers, NEW pt \in Pts, NEW ext \in Exts,
           Play(w, v, pt, ext)
    PROVE  IdentityInv'
  <1> USE DEF IdentityInv
  <1> DEFINE new == [pt |-> Or(pt, Zone.pt), ext |-> ext, on |-> w, bound |-> FALSE]
  <1>1. SetPt(Zone, pt) \in Own /\ Or(pt, Zone.pt) \in Nat  BY ZoneOwn, IdentityNumbers
  <1>2. new \in ViewerSessions  BY <1>1, IdentityNumbers DEF ViewerSessions
  <1>3. /\ zone' = SetPt(Zone, pt) /\ copy' = [copy EXCEPT ![w] = SetPt(Zone, pt)]
        /\ sess[v] = None /\ sess' = [sess EXCEPT ![v] = new]
        /\ publisher' = publisher /\ ring' = ring /\ got' = got
    BY DEF Play, Signalled
  <1>4. new.on = w  OBVIOUS
  <1> HIDE DEF new
  <1>5. copy' \in [Workers -> Own \cup {None}] /\ copy'[w] \in Own  BY <1>1, <1>3
  <1>6. \A x \in Workers : copy[x] \in Own => copy'[x] \in Own  BY <1>1, <1>3
  <1>7. sess' \in [Viewers -> ViewerSessions \cup {None}]  BY <1>2, <1>3
  <1>8. ASSUME NEW u \in Viewers, sess'[u] # None PROVE zone' \in Own /\ copy'[sess'[u].on] \in Own
    <2>1. CASE u = v  BY <1>1, <1>3, <1>4, <1>5, <2>1
    <2>2. CASE u # v
      <3>1. sess'[u] = sess[u] /\ sess[u] \in ViewerSessions  BY <1>3, <1>8, <2>2
      <3> QED BY <1>1, <1>3, <1>6, <1>8, <3>1 DEF ViewerSessions
    <2> QED BY <2>1, <2>2
  <1>9. ASSUME NEW u \in Viewers, got'[u] # None
        PROVE  /\ sess'[u] # None /\ sess'[u].bound
               /\ got'[u].pt = sess'[u].pt /\ got'[u].ext = sess'[u].ext
    <2>1. u # v /\ sess'[u] = sess[u]  BY <1>3, <1>9
    <2> QED BY <1>3, <1>9, <2>1
  <1>10. publisher' # None => publisher' \in RtmpPublishers /\ copy'[publisher'.on] \in Own
    BY <1>3, <1>6 DEF RtmpPublishers
  <1> QED BY <1>1, <1>3, <1>5, <1>7, <1>8, <1>9, <1>10

LEMMA BindInv ==
    ASSUME IdentityInv, NEW w \in Workers, NEW v \in Viewers, Bind(w, v) PROVE IdentityInv'
  <1> USE DEF IdentityInv
  <1>1. sess[v] \in ViewerSessions /\ zone \in Own /\ copy[sess[v].on] \in Own
    BY DEF Bind
  <1>2. /\ sess[v] # None /\ ~sess[v].bound
        /\ sess' = [sess EXCEPT ![v].on = w, ![v].bound = TRUE]
        /\ zone' = zone /\ publisher' = publisher /\ ring' = ring /\ got' = got
        /\ copy' = IF w = sess[v].on THEN copy ELSE [copy EXCEPT ![w] = zone]
    BY DEF Bind, Arrived
  <1> DEFINE new == [sess[v] EXCEPT !.on = w, !.bound = TRUE]
  <1>3. new \in ViewerSessions /\ new.on = w  BY <1>1 DEF ViewerSessions
  <1>4. sess' = [sess EXCEPT ![v] = new]  BY <1>1, <1>2 DEF ViewerSessions
  <1> HIDE DEF new
  <1>5. copy' \in [Workers -> Own \cup {None}] /\ copy'[w] \in Own  BY <1>1, <1>2
  <1>6. \A x \in Workers : copy[x] \in Own => copy'[x] \in Own  BY <1>1, <1>2
  <1>7. sess' \in [Viewers -> ViewerSessions \cup {None}]  BY <1>3, <1>4
  <1>8. ASSUME NEW u \in Viewers, sess'[u] # None PROVE zone' \in Own /\ copy'[sess'[u].on] \in Own
    <2>1. CASE u = v  BY <1>1, <1>2, <1>3, <1>4, <1>5, <2>1
    <2>2. CASE u # v
      <3>1. sess'[u] = sess[u] /\ sess[u] \in ViewerSessions  BY <1>4, <1>8, <2>2
      <3> QED BY <1>1, <1>2, <1>6, <1>8, <3>1 DEF ViewerSessions
    <2> QED BY <2>1, <2>2
  <1>9. ASSUME NEW u \in Viewers, got'[u] # None
        PROVE  /\ sess'[u] # None /\ sess'[u].bound
               /\ got'[u].pt = sess'[u].pt /\ got'[u].ext = sess'[u].ext
    <2>1. u # v /\ sess'[u] = sess[u]  BY <1>2, <1>4, <1>9
    <2> QED BY <1>2, <1>9, <2>1
  <1>10. publisher' # None => publisher' \in RtmpPublishers /\ copy'[publisher'.on] \in Own
    BY <1>2, <1>6 DEF RtmpPublishers
  <1> QED BY <1>2, <1>5, <1>7, <1>8, <1>9, <1>10

LEMMA RtmpSyncInv ==
    ASSUME IdentityInv, NEW w \in Workers, RtmpSync(w) PROVE IdentityInv'
  <1> USE DEF IdentityInv
  <1>1. Zone \in Own  BY ZoneOwn
  <1>2. /\ zone' = Zone /\ copy' = [copy EXCEPT ![w] = Zone]
        /\ publisher' = [kind |-> "rtmp", on |-> w, pt |-> 0, bound |-> TRUE]
        /\ sess' = sess /\ ring' = ring /\ got' = got
    BY DEF RtmpSync
  <1>3. publisher' \in RtmpPublishers /\ publisher'.on = w  BY <1>2 DEF RtmpPublishers
  <1>4. copy' \in [Workers -> Own \cup {None}] /\ copy'[w] \in Own  BY <1>1, <1>2
  <1>5. \A x \in Workers : copy[x] \in Own => copy'[x] \in Own  BY <1>1, <1>2
  <1>6. \A u \in Viewers : sess[u] # None => sess[u].on \in Workers  BY DEF ViewerSessions
  <1> QED BY <1>1, <1>2, <1>3, <1>4, <1>5, <1>6

LEMMA PublishInv ==
    ASSUME IdentityInv, Publish PROVE IdentityInv'
  <1> USE DEF IdentityInv
  <1> DEFINE w == publisher.on
  <1>1. publisher \in RtmpPublishers /\ copy[w] \in Own  BY DEF Publish
  <1>2. w \in Workers /\ publisher.kind = "rtmp"  BY <1>1 DEF RtmpPublishers
  <1> DEFINE id == SetSsrc(copy[w], copy[w].ssrc)
  <1>3. id \in Own  BY <1>1 DEF SetSsrc, Own
  <1>4. /\ copy' = [copy EXCEPT ![w] = id] /\ zone' = zone
        /\ got' = Delivered(w, copy[w], id)
        /\ ring' = [x \in Workers |->
                      IF x # w /\ On(x) # {} /\ ring[x] = None THEN copy[w] ELSE ring[x]]
        /\ sess' = sess /\ publisher' = publisher
    BY <1>2 DEF Publish
  <1> HIDE DEF id, w
  <1>5. copy' \in [Workers -> Own \cup {None}]  BY <1>2, <1>3, <1>4
  <1>6. \A x \in Workers : copy[x] \in Own => copy'[x] \in Own  BY <1>3, <1>4
  <1>7. ring' \in [Workers -> Own \cup {None}]  BY <1>1, <1>4
  <1>8. /\ got' \in [Viewers -> [ssrc : {ZoneSsrc}, pt : Nat, ext : Nat] \cup {None}]
        /\ \A v \in Viewers : got'[v] # None =>
              /\ sess'[v] # None /\ sess'[v].bound
              /\ got'[v].pt = sess'[v].pt /\ got'[v].ext = sess'[v].ext
    BY <1>1, <1>2, <1>3, <1>4, DeliveredOwn
  <1>9. \A v \in Viewers : sess[v] # None => sess[v].on \in Workers  BY DEF ViewerSessions
  <1>10. \A v \in Viewers : sess'[v] # None => zone' \in Own /\ copy'[sess'[v].on] \in Own
    BY <1>4, <1>6, <1>9
  <1>11. publisher' # None => publisher' \in RtmpPublishers /\ copy'[publisher'.on] \in Own
    BY <1>1, <1>2, <1>4, <1>6 DEF w
  <1> QED BY <1>4, <1>5, <1>7, <1>8, <1>10, <1>11

LEMMA RingDrainedInv ==
    ASSUME IdentityInv, NEW w \in Workers, RingDrained(w) PROVE IdentityInv'
  <1> USE DEF IdentityInv
  <1>1. /\ ring[w] \in Own
        /\ got' = Delivered(w, ring[w], copy[w]) /\ ring' = [ring EXCEPT ![w] = None]
        /\ zone' = zone /\ copy' = copy /\ sess' = sess /\ publisher' = publisher
    BY DEF RingDrained
  <1>2. On(w) # {} => copy[w] \in Own  BY DEF On
  <1>3. /\ got' \in [Viewers -> [ssrc : {ZoneSsrc}, pt : Nat, ext : Nat] \cup {None}]
        /\ \A v \in Viewers : got'[v] # None =>
              /\ sess'[v] # None /\ sess'[v].bound
              /\ got'[v].pt = sess'[v].pt /\ got'[v].ext = sess'[v].ext
    BY <1>1, <1>2, DeliveredOwn
  <1>4. ring' \in [Workers -> Own \cup {None}]  BY <1>1
  <1> QED BY <1>1, <1>3, <1>4

LEMMA IdentityStep ==
    ASSUME "whip" \notin Kinds, IdentityInv, [IdentityNext]_identityVars PROVE IdentityInv'
  <1>1. CASE UNCHANGED identityVars  BY <1>1 DEF identityVars, IdentityInv
  <1>2. ASSUME NEW w \in Workers, NEW pt \in Pts, WhipPost(w, pt) PROVE FALSE
    BY <1>2 DEF WhipPost
  <1>3. ASSUME NEW w \in Workers, WhipBind(w) PROVE FALSE
    BY <1>3 DEF WhipBind, IdentityInv, RtmpPublishers
  <1>4. CASE Stop  BY <1>4 DEF Stop, IdentityInv
  <1> QED BY <1>1, <1>2, <1>3, <1>4, PlayInv, BindInv, RtmpSyncInv, PublishInv, RingDrainedInv
          DEF IdentityNext

(* ngx_rtc_session_send_rtp: while no WHIP publisher exists, whatever the   *)
(* other viewers of the source negotiated and on whichever worker, a viewer *)
(* is sent the video under its own payload type and extension, and under    *)
(* the SSRC its worker compares the viewer's NACKs and PLIs with.  (With a  *)
(* WHIP publisher it is not: run IdentityWhip.)                             *)
THEOREM RtmpNegotiated == ASSUME "whip" \notin Kinds PROVE IdentitySpec => []Negotiated
  <1>1. IdentityInit => IdentityInv  BY DEF IdentityInit, IdentityInv
  <1>2. IdentityInv /\ [IdentityNext]_identityVars => IdentityInv'  BY IdentityStep
  <1>3. IdentityInv => Negotiated
    <2> SUFFICES ASSUME IdentityInv, NEW v \in Viewers, got[v] # None
                 PROVE  /\ got[v].pt = sess[v].pt /\ got[v].ext = sess[v].ext
                        /\ got[v].ssrc = copy[sess[v].on].ssrc
      BY DEF Negotiated, PtNegotiated
    <2>1. got[v].ssrc = ZoneSsrc  BY DEF IdentityInv
    <2>2. copy[sess[v].on].ssrc = ZoneSsrc  BY DEF IdentityInv, Own
    <2> QED BY <2>1, <2>2 DEF IdentityInv
  <1> QED BY <1>1, <1>2, <1>3, PTL DEF IdentitySpec

-----------------------------------------------------------------------------
(* Sequence numbers and slots *)

LEMMA JitterNumbers ==
    /\ Cap \in Nat \ {0} /\ SeqMod \in Nat \ {0} /\ MaxSent \in Nat \ {0} /\ Timeout \in Nat \ {0}
    /\ First \in Nat /\ SeqMod % Cap = 0 /\ 2 * Cap <= SeqMod /\ MaxSent <= SeqMod \div 2
    /\ SeqMod \div 2 \in Nat /\ 2 * (SeqMod \div 2) <= SeqMod
  BY JitterConstants

LEMMA DivSplit ==
    ASSUME NEW x \in Int, NEW N \in Nat \ {0}
    PROVE  x \div N \in Int /\ (x % N) \in 0..(N - 1) /\ x = N * (x \div N) + (x % N)
  <1>1. x \div N \in Int  OBVIOUS
  <1>2. (x % N) \in 0..(N - 1)  OBVIOUS
  <1>3. x = N * (x \div N) + (x % N)  OBVIOUS
  <1> QED BY <1>1, <1>2, <1>3

(* A remainder is the one number of its residue below the modulus.          *)
LEMMA ModUnique ==
    ASSUME NEW N \in Nat \ {0}, NEW x \in Int, NEW k \in Int, NEW r \in 0..(N - 1), x = N * k + r
    PROVE  x % N = r
  <1> DEFINE q == x \div N
             m == x % N
  <1>1. q \in Int /\ m \in 0..(N - 1) /\ x = N * q + m  BY DivSplit
  <1> HIDE DEF q, m
  <1> DEFINE d == k - q
  <1>2. d \in Int /\ N * d = m - r  BY <1>1
  <1> HIDE DEF d
  <1>3. ~(d >= 1)
    <2> SUFFICES ASSUME d >= 1 PROVE FALSE  OBVIOUS
    <2>1. N * d >= N  BY <1>2
    <2> QED BY <1>1, <1>2, <2>1
  <1>4. ~(d <= -1)
    <2> SUFFICES ASSUME d <= -1 PROVE FALSE  OBVIOUS
    <2>1. N * d <= -N  BY <1>2
    <2> QED BY <1>1, <1>2, <2>1
  <1>5. d = 0  BY <1>2, <1>3, <1>4
  <1>6. m = r  BY <1>1, <1>2, <1>5
  <1> QED BY <1>6 DEF m

(* Numbers that differ by a multiple have the same remainder.               *)
LEMMA ModShift ==
    ASSUME NEW N \in Nat \ {0}, NEW s \in Int, NEW z \in Int, NEW k \in Int, s = z - N * k
    PROVE  s % N = z % N
  <1> DEFINE q == z \div N
             r == z % N
  <1>1. q \in Int /\ r \in 0..(N - 1) /\ z = N * q + r  BY DivSplit
  <1> HIDE DEF q, r
  <1>2. q - k \in Int /\ N * (q - k) = N * q - N * k  BY <1>1
  <1>3. N * q \in Int /\ N * k \in Int  BY <1>1
  <1>4. s = N * (q - k) + r  BY <1>1, <1>2, <1>3
  <1>5. s % N = r  BY <1>1, <1>2, <1>4, ModUnique
  <1> QED BY <1>5 DEF r

(* Whole ranges of sequence numbers do not move a slot.                     *)
LEMMA SlotShift ==
    ASSUME NEW s \in Int, NEW z \in Int, NEW k \in Int, s = z - SeqMod * k
    PROVE  s % Cap = z % Cap
  <1> DEFINE c == SeqMod \div Cap
  <1>1. SeqMod \in Nat \ {0} /\ Cap \in Nat \ {0} /\ SeqMod % Cap = 0  BY JitterNumbers
  <1>2. c \in Int /\ SeqMod = Cap * c  BY <1>1, DivSplit
  <1> HIDE DEF c
  <1>3. c * k \in Int /\ SeqMod * k = Cap * (c * k)  BY <1>1, <1>2
  <1> DEFINE m == c * k
  <1>4. m \in Int /\ s = z - Cap * m  BY <1>3
  <1> HIDE DEF m
  <1>5. Cap \in Nat \ {0}  BY <1>1
  <1> QED BY <1>4, <1>5, ModShift, Zenon

(* A number inside the window below another is less than the window away.  *)
LEMMA WithinOf ==
    ASSUME NEW head \in Int, NEW N \in Int, NEW i \in Int, head - N < i, i < head
    PROVE  head - i \in Int /\ 0 <= head - i /\ head - i <= N - 1
  OBVIOUS

(* The index of an entry, counted from the end, after the window has moved. *)
LEMMA Shifted ==
    ASSUME NEW n \in Int, NEW L \in Int, NEW M \in Int, NEW d \in Int, M = L + 1 - d,
           NEW i \in Int
    PROVE  n - L + (i + d) = (n + 1) - M + i
  OBVIOUS

(* Numbers less than a modulus apart have different remainders.             *)
LEMMA ModDistinct ==
    ASSUME NEW N \in Nat \ {0}, NEW a \in Int, NEW b \in Int, a % N = b % N, b - a \in 0..(N - 1)
    PROVE  a = b
  <1> DEFINE q == a \div N
             m == a % N
             p == b \div N
  <1>1. q \in Int /\ p \in Int /\ m \in 0..(N - 1) /\ a = N * q + m /\ b = N * p + m  BY DivSplit
  <1> HIDE DEF q, m, p
  <1> DEFINE d == p - q
  <1>2. d \in Int /\ b - a = N * d  BY <1>1
  <1> HIDE DEF d
  <1>3. (b - a) % N = b - a  BY ModUnique
  <1>4. (b - a) % N = 0
    <2>1. b - a \in Int /\ 0 \in 0..(N - 1) /\ b - a = N * d + 0  BY <1>2
    <2> QED BY <1>2, <2>1, ModUnique
  <1> QED BY <1>3, <1>4

(* The slot of a packet. *)
SlotOf(n) == SeqOf(n) % Cap

LEMMA SeqPlus ==
    ASSUME NEW n \in Nat \ {0}, NEW i \in Nat
    PROVE  /\ SeqOf(n) \in 0..(SeqMod - 1) /\ SlotOf(n) \in 0..(Cap - 1)
           /\ (SeqOf(n) + i) % SeqMod = SeqOf(n + i) /\ (SeqOf(n) + i) % Cap = SlotOf(n + i)
  <1> DEFINE x == First + n - 1
  <1>1. x \in Nat /\ x + i \in Nat /\ First + (n + i) - 1 = x + i  BY JitterNumbers
  <1>2. /\ SeqMod \in Nat \ {0} /\ Cap \in Nat \ {0} /\ SeqMod % Cap = 0
        /\ i \in Int /\ 0 \in Int
    BY JitterNumbers
  <1>3. SeqOf(n) = x % SeqMod /\ SeqOf(n + i) = (x + i) % SeqMod  BY <1>1 DEF SeqOf
  <1> HIDE DEF x
  <1> DEFINE y == x + i
             qx == x \div SeqMod
             qy == y \div SeqMod
             s == (x % SeqMod) + i
             t == y % SeqMod
  <1>4. x \in Int /\ y \in Int  BY <1>1
  <1>5. qx \in Int /\ (x % SeqMod) \in 0..(SeqMod - 1) /\ x = SeqMod * qx + (x % SeqMod)
    BY <1>2, <1>4, DivSplit
  <1> HIDE DEF y
  <1>6. qy \in Int /\ t \in 0..(SeqMod - 1) /\ y = SeqMod * qy + t
    BY <1>2, <1>4, DivSplit
  <1> HIDE DEF qx, qy, t
  <1>7. s \in Int /\ s = y - SeqMod * qx  BY <1>1, <1>2, <1>5 DEF y
  <1>8. t \in Int /\ t = y - SeqMod * qy  BY <1>2, <1>4, <1>6
  <1> HIDE DEF s
  <1>9. s % SeqMod = y % SeqMod  BY <1>2, <1>4, <1>5, <1>7, ModShift
  <1>10. s % Cap = y % Cap  BY <1>4, <1>5, <1>7, SlotShift
  <1>11. t % Cap = y % Cap  BY <1>4, <1>6, <1>8, SlotShift
  <1>12. SlotOf(n) \in 0..(Cap - 1)
    <2>1. SeqOf(n) \in Int  BY <1>2, <1>3, <1>5
    <2> QED BY <1>2, <2>1, DivSplit DEF SlotOf
  <1>13. (SeqOf(n) + i) % SeqMod = SeqOf(n + i)  BY <1>3, <1>9 DEF s, y
  <1>14. (SeqOf(n) + i) % Cap = SlotOf(n + i)  BY <1>3, <1>10, <1>11 DEF s, t, y, SlotOf
  <1> QED BY <1>3, <1>5, <1>12, <1>13, <1>14

(* Two packets less than a buffer apart have slots of their own.            *)
LEMMA SlotsDistinct ==
    ASSUME NEW a \in Nat \ {0}, NEW b \in Nat \ {0}, SlotOf(a) = SlotOf(b), b - a \in 0..(Cap - 1)
    PROVE  a = b
  <1> DEFINE x == First + a - 1
             y == First + b - 1
  <1>1. x \in Nat /\ y \in Nat /\ y - x \in 0..(Cap - 1) /\ y - x = b - a  BY JitterNumbers
  <1>2. SlotOf(a) = (x % SeqMod) % Cap /\ SlotOf(b) = (y % SeqMod) % Cap  BY DEF SlotOf, SeqOf
  <1> HIDE DEF x, y
  <1>3. ASSUME NEW z \in Nat PROVE (z % SeqMod) % Cap = z % Cap
    <2> DEFINE q == z \div SeqMod
               t == z % SeqMod
    <2>1. SeqMod \in Nat \ {0} /\ z \in Int  BY JitterNumbers
    <2>2. q \in Int /\ t \in 0..(SeqMod - 1) /\ z = SeqMod * q + t  BY <2>1, DivSplit
    <2> HIDE DEF q, t
    <2>3. t \in Int /\ t = z - SeqMod * q  BY <2>1, <2>2
    <2>4. t % Cap = z % Cap  BY <2>1, <2>2, <2>3, SlotShift
    <2> QED BY <2>4 DEF t
  <1>4. x % Cap = y % Cap  BY <1>1, <1>2, <1>3
  <1>5. Cap \in Nat \ {0} /\ x \in Int /\ y \in Int  BY <1>1, JitterNumbers
  <1>6. x = y  BY <1>1, <1>4, <1>5, ModDistinct, Zenon
  <1> QED BY <1>1, <1>6

(* The 16-bit comparison tells the sending order.                           *)
LEMMA SeqOrder ==
    ASSUME NEW n \in 1..MaxSent, NEW p \in 1..(MaxSent + 1)
    PROVE  /\ SeqOf(n) = SeqOf(p) <=> n = p
           /\ SeqGt(SeqOf(n), SeqOf(p)) <=> n > p
           /\ n > p => (SeqOf(n) - SeqOf(p)) % SeqMod = n - p
  <1> DEFINE x == First + n - 1
             y == First + p - 1
             qx == x \div SeqMod
             qy == y \div SeqMod
             d == qy - qx
             e == SeqOf(n) - SeqOf(p)
  <1>1. /\ SeqMod \in Nat \ {0} /\ SeqMod \div 2 \in Nat
        /\ MaxSent <= SeqMod \div 2 /\ 2 * (SeqMod \div 2) <= SeqMod /\ MaxSent \in Nat
    BY JitterNumbers
  <1>2. /\ x \in Nat /\ y \in Nat /\ x \in Int /\ y \in Int /\ x - y = n - p
        /\ SeqOf(n) = x % SeqMod /\ SeqOf(p) = y % SeqMod
    BY JitterNumbers DEF SeqOf
  <1> HIDE DEF x, y
  <1>3. qx \in Int /\ (x % SeqMod) \in 0..(SeqMod - 1) /\ x = SeqMod * qx + (x % SeqMod)
    BY <1>1, <1>2, DivSplit
  <1>4. qy \in Int /\ (y % SeqMod) \in 0..(SeqMod - 1) /\ y = SeqMod * qy + (y % SeqMod)
    BY <1>1, <1>2, DivSplit
  <1> HIDE DEF qx, qy
  <1>5. d \in Int /\ e \in Int /\ e = SeqMod * d + (n - p)  BY <1>1, <1>2, <1>3, <1>4
  <1>6. SeqOf(n) = SeqOf(p) => e % SeqMod = 0
    <2> SUFFICES ASSUME SeqOf(n) = SeqOf(p) PROVE e % SeqMod = 0  OBVIOUS
    <2>1. e = SeqMod * 0 + 0 /\ 0 \in 0..(SeqMod - 1) /\ 0 \in Int  BY <1>1, <1>2, <1>3
    <2> QED BY <1>1, <1>5, <2>1, ModUnique
  <1> HIDE DEF d
  <1>7. CASE n >= p
    <2>1. n - p \in 0..(SeqMod - 1) /\ n - p <= SeqMod \div 2 - 1  BY <1>1, <1>7
    <2>2. e % SeqMod = n - p  BY <1>1, <1>5, <2>1, ModUnique
    <2> HIDE DEF e
    <2> QED BY <1>1, <1>6, <1>7, <2>1, <2>2 DEF SeqGt, e
  <1>8. CASE n < p
    <2>1. n - p + SeqMod \in 0..(SeqMod - 1) /\ n - p + SeqMod >= SeqMod \div 2  BY <1>1, <1>8
    <2>2. d - 1 \in Int /\ e = SeqMod * (d - 1) + (n - p + SeqMod)
      <3>1. SeqMod * (d - 1) = SeqMod * d - SeqMod  BY <1>1, <1>5
      <3> QED BY <1>1, <1>5, <3>1
    <2>3. e % SeqMod = n - p + SeqMod  BY <1>1, <1>5, <2>1, <2>2, ModUnique
    <2> HIDE DEF e
    <2> QED BY <1>1, <1>6, <1>8, <2>1, <2>3 DEF SeqGt, e
  <1> QED BY <1>7, <1>8

-----------------------------------------------------------------------------
(* The reorder buffer *)

LEMMA LeastExists ==
    ASSUME NEW S \in SUBSET Nat, S # {} PROVE Min(S) \in S /\ \A y \in S : Min(S) <= y
  <1>1. \E x \in S : \A y \in S : ~(<<y, x>> \in OpToRel(<, Nat))
    BY WFMin, NatLessThanWellFounded
  <1>2. ASSUME NEW x \in Nat, NEW y \in Nat, y < x PROVE <<y, x>> \in OpToRel(<, Nat)
    BY <1>2, Zenon DEF OpToRel
  <1>3. \E x \in S : \A y \in S : ~(y < x)  BY <1>1, <1>2
  <1>4. \E x \in S : \A y \in S : x <= y  BY <1>3
  <1> QED BY <1>4 DEF Min

Buffers == [slot : [0..(Cap - 1) -> 0..MaxSent], next : 0..(SeqMod - 1), pending : Nat,
            init : BOOLEAN, gap : Nat]

Filled(b) == {i \in 0..(Cap - 1) : b.slot[i] # NoPacket}

(* A buffer that expects packet p holds packets from lo on, at most a       *)
(* buffer's length ahead of p and each in its own slot; pending counts      *)
(* them, and while there are any a deadline runs.                           *)
Holds(b, p, lo) ==
    /\ b \in Buffers /\ b.next = SeqOf(p)
    /\ \A i \in Filled(b) : b.slot[i] \in lo..(p + Cap - 1) /\ SlotOf(b.slot[i]) = i
    /\ b.pending = Cardinality(Filled(b))
    /\ b.pending > 0 => b.gap > 0

(* Packets of a sequence, in order and each in lo..(hi - 1).                *)
Ordered(e, lo, hi) ==
    /\ e \in Seq(Nat)
    /\ \A a \in DOMAIN e : lo <= e[a] /\ e[a] < hi
    /\ \A a, c \in DOMAIN e : a < c => e[a] < e[c]

LEMMA OrderedAppend ==
    ASSUME NEW e, NEW f, NEW lo \in Nat, NEW mid \in Nat, NEW hi \in Nat, lo <= mid, mid <= hi,
           Ordered(e, lo, mid), Ordered(f, mid, hi)
    PROVE  Ordered(e \o f, lo, hi) /\ Len(e \o f) = Len(e) + Len(f)
  <1>1. e \in Seq(Nat) /\ f \in Seq(Nat)  BY DEF Ordered
  <1> DEFINE g == e \o f
             m == Len(e)
             k == Len(f)
  <1>2. /\ g \in Seq(Nat) /\ Len(g) = m + k /\ m \in Nat /\ k \in Nat
        /\ \A a \in 1..m : g[a] = e[a]
        /\ \A a \in (m + 1)..(m + k) : g[a] = f[a - m]
    BY <1>1
  <1>3. DOMAIN e = 1..m /\ DOMAIN f = 1..k /\ DOMAIN g = 1..(m + k)  BY <1>1, <1>2
  <1> HIDE DEF g, m, k
  <1>4. \A a \in 1..m : e[a] \in Nat /\ lo <= e[a] /\ e[a] < mid
    <2>1. \A a \in DOMAIN e : e[a] \in Nat  BY <1>1
    <2> QED BY <1>3, <2>1 DEF Ordered
  <1>5. \A a \in 1..k : f[a] \in Nat /\ mid <= f[a] /\ f[a] < hi
    <2>1. \A a \in DOMAIN f : f[a] \in Nat  BY <1>1
    <2> QED BY <1>3, <2>1 DEF Ordered
  <1>6. ASSUME NEW a \in 1..(m + k)
        PROVE  /\ lo <= g[a] /\ g[a] < hi
               /\ a <= m => g[a] < mid
               /\ a > m => mid <= g[a]
    <2>1. CASE a <= m
      <3>1. a \in 1..m /\ g[a] = e[a]  BY <1>2, <2>1
      <3>2. e[a] \in Nat /\ lo <= e[a] /\ e[a] < mid  BY <1>4, <3>1
      <3>3. e[a] < hi  BY <3>2
      <3>4. ~(a > m)  BY <1>2, <2>1, <3>1
      <3> QED BY <3>1, <3>2, <3>3, <3>4
    <2>2. CASE a > m
      <3>1. a - m \in 1..k /\ g[a] = f[a - m]  BY <1>2, <2>2
      <3> QED BY <1>2, <1>5, <2>2, <3>1
    <2> QED BY <1>2, <2>1, <2>2
  <1>7. ASSUME NEW a \in 1..(m + k), NEW c \in 1..(m + k), a < c PROVE g[a] < g[c]
    <2>1. \A x \in DOMAIN g : g[x] \in Nat  BY <1>2
    <2>2. CASE c <= m
      <3>1. a \in 1..m /\ c \in 1..m
        <4>1. m \in Nat /\ a \in Int /\ c \in Int /\ 1 <= a  BY <1>2
        <4> QED BY <4>1, <1>7, <2>2
      <3>2. g[a] = e[a] /\ g[c] = e[c]  BY <1>2, <3>1
      <3> QED BY <1>3, <1>7, <3>1, <3>2 DEF Ordered
    <2>3. CASE a > m
      <3>1. /\ a - m \in 1..k /\ c - m \in 1..k /\ a - m < c - m
            /\ a \in (m + 1)..(m + k) /\ c \in (m + 1)..(m + k)
        <4>1. m \in Nat /\ k \in Nat /\ a \in Int /\ c \in Int  BY <1>2
        <4>2. m < a /\ a < c /\ c <= m + k /\ a <= m + k  BY <1>7, <2>3
        <4> QED BY <4>1, <4>2
      <3>2. g[a] = f[a - m] /\ g[c] = f[c - m]  BY <1>2, <3>1
      <3> QED BY <1>3, <3>1, <3>2 DEF Ordered
    <2>4. CASE a <= m /\ c > m
      <3>1. g[a] < mid /\ mid <= g[c]  BY <1>6, <2>4
      <3> QED BY <1>3, <2>1, <3>1
    <2>5. a \in Int /\ c \in Int /\ m \in Int  BY <1>2
    <2> QED BY <1>7, <2>2, <2>3, <2>4, <2>5
  <1>8. Ordered(g, lo, hi)  BY <1>2, <1>3, <1>6, <1>7 DEF Ordered
  <1> QED BY <1>2, <1>8 DEF g, m, k

(* A filled slot less than a buffer's length ahead holds that packet.       *)
LEMMA HeldAt ==
    ASSUME NEW b, NEW p \in 1..(MaxSent + 1), Holds(b, p, p), NEW i \in 0..(Cap - 1)
    PROVE  /\ (b.next + i) % Cap = SlotOf(p + i) /\ SlotOf(p + i) \in 0..(Cap - 1)
           /\ b.slot[SlotOf(p + i)] # NoPacket =>
                  b.slot[SlotOf(p + i)] = p + i /\ p + i <= MaxSent
  <1>1. /\ p \in Nat \ {0} /\ i \in Nat /\ p + i \in Nat \ {0} /\ Cap \in Nat \ {0}
        /\ MaxSent \in Nat /\ 0 \in Nat /\ p + i + 0 = p + i
    BY JitterNumbers
  <1>2. (b.next + i) % Cap = SlotOf(p + i)  BY <1>1, SeqPlus DEF Holds
  <1>3. SlotOf(p + i) \in 0..(Cap - 1)  BY <1>1, SeqPlus
  <1> DEFINE n == b.slot[SlotOf(p + i)]
  <1>4. ASSUME n # NoPacket PROVE n = p + i /\ n <= MaxSent
    <2>1. SlotOf(p + i) \in Filled(b)  BY <1>3, <1>4 DEF Filled
    <2>2. n \in p..(p + Cap - 1) /\ SlotOf(n) = SlotOf(p + i)  BY <2>1 DEF Holds
    <2>3. n \in 0..MaxSent  BY <1>3 DEF Holds, Buffers
    <2> HIDE DEF n
    <2>4. n \in Nat \ {0} /\ n \in Int  BY <1>1, <2>2
    <2>5. CASE n <= p + i
      <3>1. p + i - n \in 0..(Cap - 1)  BY <1>1, <2>2, <2>5
      <3> QED BY <1>1, <2>2, <2>3, <2>4, <3>1, SlotsDistinct
    <2>6. CASE n >= p + i
      <3>1. n - (p + i) \in 0..(Cap - 1)  BY <1>1, <2>2, <2>6
      <3> QED BY <1>1, <2>2, <2>3, <2>4, <3>1, SlotsDistinct
    <2> QED BY <1>1, <2>4, <2>5, <2>6
  <1> QED BY <1>2, <1>3, <1>4

(* ngx_rtc_jitter_drain: the run of packets from the expected one on is     *)
(* emitted, and the buffer expects the one behind it.                       *)
LEMMA DrainHolds ==
    ASSUME NEW b, NEW p \in 1..(MaxSent + 1), Holds(b, p, p)
    PROVE  LET k == RunLength(b)
               d == Drain(b)
           IN  /\ k \in Nat /\ p + k <= MaxSent + 1
               /\ Holds(d.buffer, p + k, p + k + 1) /\ d.buffer.init = b.init
               /\ Ordered(d.emit, p, p + k) /\ Len(d.emit) = k
               /\ b.slot[SlotOf(p)] # NoPacket => k > 0
  <1> DEFINE K == {i \in 0..Cap : i = Cap \/ b.slot[(b.next + i) % Cap] = NoPacket}
             k == RunLength(b)
             run == {(b.next + i) % Cap : i \in 0..(k - 1)}
             slot == [i \in 0..(Cap - 1) |-> IF i \in run THEN NoPacket ELSE b.slot[i]]
             d == Drain(b).buffer
             emit == Drain(b).emit
  <1>1. /\ Cap \in Nat \ {0} /\ MaxSent \in Nat /\ p \in Nat \ {0} /\ SeqMod \in Nat \ {0}
        /\ b \in Buffers
    BY JitterNumbers DEF Holds
  <1>2. k \in K /\ \A i \in K : k <= i
    <2>1. K \in SUBSET Nat /\ Cap \in K  BY <1>1
    <2>2. k = Min(K)  BY DEF RunLength
    <2> HIDE DEF K, k
    <2> QED BY <2>1, <2>2, LeastExists
  <1>3. k \in 0..Cap /\ k \in Nat  BY <1>1, <1>2
  <1>4. ASSUME NEW i \in 0..(k - 1)
        PROVE  /\ (b.next + i) % Cap = SlotOf(p + i) /\ SlotOf(p + i) \in 0..(Cap - 1)
               /\ b.slot[SlotOf(p + i)] = p + i /\ p + i <= MaxSent
    <2> HIDE DEF k
    <2>1. i \in 0..(Cap - 1) /\ ~(k <= i) /\ i # Cap  BY <1>1, <1>3
    <2>2. i \notin K  BY <1>2, <2>1
    <2>3. b.slot[(b.next + i) % Cap] # NoPacket  BY <1>1, <2>1, <2>2
    <2> QED BY <2>1, <2>3, HeldAt
  <1>5. p + k <= MaxSent + 1
    <2> HIDE DEF k
    <2>1. CASE k = 0  BY <1>1, <2>1
    <2>2. CASE k > 0
      <3>1. k - 1 \in 0..(k - 1)  BY <1>3, <2>2
      <3>2. p + (k - 1) <= MaxSent  BY <1>4, <3>1
      <3> QED BY <1>1, <1>3, <3>2
    <2> QED BY <1>3, <2>1, <2>2
  <1>6. k = Cap \/ b.slot[SlotOf(p + k)] = NoPacket
    <2> HIDE DEF k
    <2> SUFFICES ASSUME k # Cap PROVE b.slot[SlotOf(p + k)] = NoPacket  OBVIOUS
    <2>1. k \in 0..(Cap - 1) /\ b.slot[(b.next + k) % Cap] = NoPacket  BY <1>1, <1>2, <1>3
    <2> QED BY <2>1, HeldAt
  <1> HIDE DEF k, K
  <1>7. run = {SlotOf(p + i) : i \in 0..(k - 1)}
    <2>1. \A i \in 0..(k - 1) : (b.next + i) % Cap = SlotOf(p + i)  BY <1>4
    <2> QED BY <2>1
  <1> HIDE DEF run
  <1>8. run \subseteq Filled(b)
    <2>1. \A i \in 0..(k - 1) : SlotOf(p + i) \in Filled(b)
      BY <1>1, <1>3, <1>4 DEF Filled, NoPacket
    <2> QED BY <1>7, <2>1
  <1>9. ASSUME NEW i \in Filled(b), i \notin run
        PROVE  b.slot[i] \in (p + k + 1)..(p + k + Cap - 1) /\ SlotOf(b.slot[i]) = i
    <2> DEFINE n == b.slot[i]
               h == n - p
    <2>1. n \in p..(p + Cap - 1) /\ SlotOf(n) = i  BY DEF Holds
    <2> HIDE DEF n
    <2>2. h \in 0..(Cap - 1) /\ h \in Nat /\ p + h = n  BY <1>1, <2>1
    <2> HIDE DEF h
    <2>3. ~(h < k)
      <3> SUFFICES ASSUME h < k PROVE FALSE  OBVIOUS
      <3>1. h \in 0..(k - 1)  BY <1>3, <2>2
      <3> QED BY <1>7, <1>9, <2>1, <2>2, <3>1
    <2>4. h # k
      <3> SUFFICES ASSUME h = k PROVE FALSE  OBVIOUS
      <3>1. k # Cap  BY <1>1, <2>2
      <3> QED BY <1>6, <2>1, <2>2, <3>1 DEF n, Filled
    <2>5. n \in (p + k + 1)..(p + k + Cap - 1)  BY <1>1, <1>3, <2>1, <2>2, <2>3, <2>4
    <2> QED BY <2>1, <2>5 DEF n
  <1>10. IsFiniteSet(run) /\ Cardinality(run) = k
    <2> DEFINE I == 0..(k - 1)
               f == [i \in I |-> SlotOf(p + i)]
    <2>1. IsFiniteSet(I) /\ Cardinality(I) = k  BY <1>3, FS_Interval
    <2>2. ASSUME NEW i \in I, NEW l \in I, f[i] = f[l] PROVE i = l
      <3>1. b.slot[SlotOf(p + i)] = p + i /\ b.slot[SlotOf(p + l)] = p + l  BY <1>4
      <3>2. p + i = p + l  BY <2>2, <3>1
      <3> QED BY <1>1, <1>3, <3>2
    <2>3. f \in [I -> run] /\ \A x \in run : \E i \in I : f[i] = x  BY <1>7
    <2> HIDE DEF I, f
    <2>4. f \in Bijection(I, run)  BY <2>2, <2>3 DEF Bijection, Injection, Surjection, IsInjective
    <2>5. ExistsBijection(I, run)  BY <2>4 DEF ExistsBijection
    <2> QED BY <2>1, <2>5, FS_Bijection
  <1>11. IsFiniteSet(Filled(b))
    <2>1. IsFiniteSet(0..(Cap - 1))  BY <1>1, FS_Interval
    <2> QED BY <2>1, FS_Subset DEF Filled
  <1>12. Cardinality(Filled(b) \ run) = b.pending - k /\ b.pending - k \in Nat
    <2>1. Filled(b) \cap run = run  BY <1>8
    <2>2. /\ IsFiniteSet(Filled(b) \ run)
          /\ Cardinality(Filled(b) \ run) = Cardinality(Filled(b)) - Cardinality(run)
      BY <1>11, <2>1, FS_Difference
    <2>3. Cardinality(Filled(b) \ run) \in Nat  BY <2>2, FS_CardinalityType
    <2> QED BY <1>10, <2>2, <2>3 DEF Holds
  <1>13. d = [b EXCEPT !.slot = slot, !.next = (@ + k) % SeqMod,
                       !.pending = IF @ > k THEN @ - k ELSE 0,
                       !.gap = IF b.pending <= k THEN 0 ELSE @]
    BY DEF Drain, run, k
  <1>14. emit = [i \in 1..k |-> b.slot[(b.next + i - 1) % Cap]]  BY DEF Drain, k
  <1>15. slot \in [0..(Cap - 1) -> 0..MaxSent]  BY <1>1 DEF Buffers, NoPacket
  <1>16. \A i \in 0..(Cap - 1) : slot[i] = IF i \in run THEN NoPacket ELSE b.slot[i]  OBVIOUS
  <1> HIDE DEF slot, d, emit
  <1>17. (b.next + k) % SeqMod = SeqOf(p + k) /\ SeqOf(p + k) \in 0..(SeqMod - 1)
    <2>1. p + k \in Nat \ {0} /\ 0 \in Nat  BY <1>1, <1>3
    <2> QED BY <1>1, <1>3, <2>1, SeqPlus DEF Holds
  <1>18. /\ d.slot = slot /\ d.next = SeqOf(p + k) /\ d.init = b.init
         /\ d.pending = b.pending - k
         /\ d.gap = IF b.pending <= k THEN 0 ELSE b.gap
         /\ d \in Buffers
    <2>1. b.pending \in Nat /\ b.gap \in Nat /\ b.init \in BOOLEAN  BY <1>1 DEF Buffers
    <2>2. (IF b.pending > k THEN b.pending - k ELSE 0) = b.pending - k  BY <1>3, <1>12, <2>1
    <2>3. d = [slot |-> slot, next |-> SeqOf(p + k), pending |-> b.pending - k, init |-> b.init,
               gap |-> IF b.pending <= k THEN 0 ELSE b.gap]
      BY <1>1, <1>13, <1>17, <2>2 DEF Buffers
    <2>4. (IF b.pending <= k THEN 0 ELSE b.gap) \in Nat  BY <2>1
    <2> QED BY <1>12, <1>15, <1>17, <2>1, <2>3, <2>4 DEF Buffers
  <1>19. Filled(d) = Filled(b) \ run
    <2>1. \A i \in 0..(Cap - 1) : slot[i] # NoPacket <=> b.slot[i] # NoPacket /\ i \notin run
      BY <1>16
    <2> QED BY <1>18, <2>1 DEF Filled
  <1>20. Holds(d, p + k, p + k + 1)
    <2>1. \A i \in Filled(d) : d.slot[i] = b.slot[i]  BY <1>16, <1>18, <1>19 DEF Filled
    <2>2. \A i \in Filled(d) : /\ d.slot[i] \in (p + k + 1)..(p + k + Cap - 1)
                               /\ SlotOf(d.slot[i]) = i
      BY <1>9, <1>19, <2>1
    <2>3. d.pending > 0 => d.gap > 0
      <3> SUFFICES ASSUME d.pending > 0 PROVE d.gap > 0  OBVIOUS
      <3>1. b.pending \in Nat /\ d.pending = b.pending - k  BY <1>1, <1>18 DEF Buffers
      <3>2. b.pending > k /\ b.pending > 0  BY <1>3, <3>1
      <3>3. d.gap = b.gap  BY <1>3, <1>18, <3>1, <3>2
      <3> QED BY <3>2, <3>3 DEF Holds
    <2> QED BY <1>12, <1>18, <1>19, <2>2, <2>3 DEF Holds
  <1>21. \A i \in 1..k : emit[i] = p + i - 1 /\ p + i - 1 \in Nat
    <2> SUFFICES ASSUME NEW i \in 1..k PROVE emit[i] = p + i - 1 /\ p + i - 1 \in Nat  OBVIOUS
    <2>1. i - 1 \in 0..(k - 1)  BY <1>3
    <2>2. b.slot[(b.next + (i - 1)) % Cap] = p + (i - 1)  BY <1>4, <2>1
    <2>3. b.next \in Nat  BY <1>1 DEF Buffers
    <2>4. b.next + (i - 1) = b.next + i - 1 /\ p + (i - 1) = p + i - 1  BY <1>1, <2>3
    <2> QED BY <1>1, <1>14, <2>2, <2>4
  <1>22. Ordered(emit, p, p + k) /\ Len(emit) = k
    <2>1. DOMAIN emit = 1..k /\ emit = [i \in 1..k |-> emit[i]]  BY <1>14
    <2>2. emit \in Seq(Nat) /\ Len(emit) = k  BY <1>3, <1>21, <2>1
    <2>3. \A i \in 1..k : p <= emit[i] /\ emit[i] < p + k  BY <1>1, <1>3, <1>21
    <2>4. \A i, c \in 1..k : i < c => emit[i] < emit[c]  BY <1>1, <1>3, <1>21
    <2> QED BY <2>1, <2>2, <2>3, <2>4 DEF Ordered
  <1>23. b.slot[SlotOf(p)] # NoPacket => k > 0
    <2>1. p + 0 = p  BY <1>1
    <2> QED BY <1>1, <1>3, <1>6, <2>1
  <1> QED BY <1>3, <1>5, <1>18, <1>20, <1>22, <1>23 DEF k, d, emit

LEMMA HoldsFrom ==
    ASSUME NEW b, NEW p \in 1..(MaxSent + 1), Holds(b, p, p + 1) PROVE Holds(b, p, p)
  <1>1. Cap \in Nat /\ p \in Nat  BY JitterNumbers
  <1>2. \A n \in (p + 1)..(p + Cap - 1) : n \in p..(p + Cap - 1)  BY <1>1
  <1> QED BY <1>2 DEF Holds

LEMMA OrderedFrom ==
    ASSUME NEW e, NEW lo \in Nat, NEW mid \in Nat, NEW hi \in Nat, lo <= mid, Ordered(e, mid, hi)
    PROVE  Ordered(e, lo, hi)
  <1>1. \A a \in DOMAIN e : e[a] \in Nat  BY DEF Ordered
  <1>2. \A a \in DOMAIN e : lo <= e[a]  BY <1>1 DEF Ordered
  <1> QED BY <1>2 DEF Ordered

(* ngx_rtc_jitter_skip_gap: while packets are queued it finds the first     *)
(* one, and emits at least that.                                            *)
LEMMA SkipHolds ==
    ASSUME NEW b, NEW p \in 1..(MaxSent + 1), Holds(b, p, p), b.pending > 0
    PROVE  LET s == SkipGap(b)
           IN  \E q \in p..(MaxSent + 1) :
                  /\ Holds(s.buffer, q, q + 1) /\ s.buffer.init = b.init
                  /\ Ordered(s.emit, p, q) /\ Len(s.emit) > 0
  <1> DEFINE H == {k \in 0..(Cap - 1) : b.slot[(b.next + k) % Cap] # NoPacket}
             hole == Min(H)
             c == [b EXCEPT !.next = (@ + hole) % SeqMod]
  <1>1. /\ Cap \in Nat \ {0} /\ MaxSent \in Nat /\ p \in Nat \ {0} /\ SeqMod \in Nat \ {0}
        /\ b \in Buffers
    BY JitterNumbers DEF Holds
  <1>2. ASSUME NEW i \in Filled(b)
        PROVE  /\ b.slot[i] \in p..(p + Cap - 1) /\ b.slot[i] - p \in H
               /\ SlotOf(b.slot[i]) = i
    <2> DEFINE n == b.slot[i]
               h == n - p
    <2>1. n \in p..(p + Cap - 1) /\ SlotOf(n) = i /\ n # NoPacket  BY DEF Holds, Filled
    <2> HIDE DEF n
    <2>2. h \in 0..(Cap - 1) /\ p + h = n  BY <1>1, <2>1
    <2> HIDE DEF h
    <2>3. (b.next + h) % Cap = i  BY <2>1, <2>2, HeldAt
    <2>4. b.slot[(b.next + h) % Cap] # NoPacket  BY <2>1, <2>3 DEF n
    <2> QED BY <2>1, <2>2, <2>4 DEF h, n
  <1>3. Filled(b) # {}
    <2> SUFFICES ASSUME Filled(b) = {} PROVE FALSE  OBVIOUS
    <2>1. Cardinality(Filled(b)) = 0  BY FS_EmptySet
    <2> QED BY <2>1 DEF Holds
  <1>4. hole \in H /\ \A k \in H : hole <= k
    <2>1. H \in SUBSET Nat /\ H # {}  BY <1>1, <1>2, <1>3
    <2> HIDE DEF H
    <2> QED BY <2>1, LeastExists
  <1> HIDE DEF hole
  <1>5. /\ hole \in 0..(Cap - 1) /\ hole \in Nat /\ (b.next + hole) % Cap = SlotOf(p + hole)
        /\ b.slot[SlotOf(p + hole)] # NoPacket /\ p + hole <= MaxSent
    <2>1. hole \in 0..(Cap - 1) /\ b.slot[(b.next + hole) % Cap] # NoPacket  BY <1>4
    <2> QED BY <1>1, <2>1, HeldAt
  <1> DEFINE r == p + hole
  <1>6. r \in 1..(MaxSent + 1) /\ r \in p..(MaxSent + 1) /\ r \in Nat \ {0} /\ 0 \in Nat
    BY <1>1, <1>5
  <1>7. (b.next + hole) % SeqMod = SeqOf(r) /\ SeqOf(r) \in 0..(SeqMod - 1)
    <2>1. (b.next + hole) % SeqMod = SeqOf(p + hole)  BY <1>1, <1>5, SeqPlus DEF Holds
    <2> HIDE DEF r
    <2>2. SeqOf(r) \in 0..(SeqMod - 1)  BY <1>6, SeqPlus
    <2> QED BY <2>1, <2>2 DEF r
  <1>8. /\ c \in Buffers /\ c.slot = b.slot /\ c.next = SeqOf(r) /\ c.pending = b.pending
        /\ c.gap = b.gap /\ c.init = b.init
    BY <1>1, <1>7 DEF Buffers
  <1>9. SkipGap(b) = Drain(c)  BY DEF SkipGap, hole
  <1> HIDE DEF c, H
  <1>10. Filled(c) = Filled(b)  BY <1>8 DEF Filled
  <1>11. Holds(c, r, r)
    <2>1. ASSUME NEW i \in Filled(c) PROVE c.slot[i] \in r..(r + Cap - 1) /\ SlotOf(c.slot[i]) = i
      <3>1. /\ b.slot[i] \in p..(p + Cap - 1) /\ b.slot[i] - p >= hole
            /\ SlotOf(b.slot[i]) = i /\ c.slot[i] = b.slot[i]
        BY <1>2, <1>4, <1>8, <1>10
      <3> QED BY <1>1, <1>5, <3>1
    <2> QED BY <1>8, <1>10, <2>1 DEF Holds
  <1>12. c.slot[SlotOf(r)] # NoPacket  BY <1>5, <1>8
  <1> HIDE DEF r
  <1> DEFINE k == RunLength(c)
             s == Drain(c)
  <1>13. /\ k \in Nat /\ r + k <= MaxSent + 1 /\ Holds(s.buffer, r + k, r + k + 1)
         /\ s.buffer.init = c.init /\ Ordered(s.emit, r, r + k) /\ Len(s.emit) = k /\ k > 0
    BY <1>6, <1>11, <1>12, DrainHolds
  <1> HIDE DEF k, s
  <1>14. r + k \in p..(MaxSent + 1) /\ p <= r /\ r + k \in Nat  BY <1>1, <1>6, <1>13
  <1>15. Ordered(s.emit, p, r + k)  BY <1>1, <1>6, <1>13, <1>14, OrderedFrom
  <1> QED BY <1>8, <1>9, <1>13, <1>14, <1>15 DEF s

LEMMA DrainAndSkipHolds ==
    ASSUME NEW b, NEW p \in 1..(MaxSent + 1), Holds(b, p, p)
    PROVE  LET r == DrainAndSkip(b)
           IN  \E q \in p..(MaxSent + 1) :
                  /\ Holds(r.buffer, q, q + 1) /\ r.buffer.init = b.init
                  /\ Ordered(r.emit, p, q)
  <1> DEFINE k == RunLength(b)
             d == Drain(b)
             m == p + k
             s == SkipGap(d.buffer)
             r == DrainAndSkip(b)
  <1>1. /\ k \in Nat /\ m <= MaxSent + 1 /\ Holds(d.buffer, m, m + 1)
        /\ d.buffer.init = b.init /\ Ordered(d.emit, p, m)
    BY DrainHolds
  <1>2. r = IF Expired(d.buffer) THEN [buffer |-> s.buffer, emit |-> d.emit \o s.emit] ELSE d
    BY DEF DrainAndSkip
  <1>3. m \in 1..(MaxSent + 1) /\ m \in p..(MaxSent + 1) /\ m \in Nat /\ p \in Nat /\ MaxSent \in Nat
    BY <1>1, JitterNumbers
  <1> HIDE DEF k, d, m, s, r
  <1>4. CASE ~Expired(d.buffer)
    <2>1. r = d  BY <1>2, <1>4
    <2> QED BY <1>1, <1>3, <2>1 DEF r
  <1>5. CASE Expired(d.buffer)
    <2>1. d.buffer.pending > 0  BY <1>5 DEF Expired
    <2>2. Holds(d.buffer, m, m)  BY <1>1, <1>3, HoldsFrom
    <2>3. PICK q \in m..(MaxSent + 1) :
              /\ Holds(s.buffer, q, q + 1) /\ s.buffer.init = d.buffer.init /\ Ordered(s.emit, m, q)
      BY <1>3, <2>1, <2>2, SkipHolds DEF s
    <2>4. q \in p..(MaxSent + 1) /\ q \in Nat /\ m <= q /\ p <= m  BY <1>3, <2>3
    <2>5. r.buffer = s.buffer /\ r.emit = d.emit \o s.emit  BY <1>2, <1>5
    <2>6. Ordered(r.emit, p, q)  BY <1>1, <1>3, <2>3, <2>4, <2>5, OrderedAppend
    <2>7. r.buffer.init = b.init  BY <1>1, <2>3, <2>5
    <2> QED BY <2>3, <2>4, <2>5, <2>6, <2>7 DEF r
  <1> QED BY <1>4, <1>5

LEMMA OrderedOne ==
    ASSUME NEW n \in Nat PROVE Ordered(<<n>>, n, n + 1) /\ Len(<<n>>) = 1
  <1>1. <<n>> \in Seq(Nat) /\ Len(<<n>>) = 1 /\ DOMAIN <<n>> = 1..1 /\ <<n>>[1] = n  OBVIOUS
  <1>2. \A a \in 1..1 : a = 1  OBVIOUS
  <1> QED BY <1>1, <1>2 DEF Ordered

(* What a push does to a buffer that expects p: the next one expected is q, *)
(* and what was emitted lies between, in order.                             *)
Moves(b, r, p, q) ==
    /\ q \in p..(MaxSent + 1)
    /\ Holds(r.buffer, q, q + 1) /\ r.buffer.init = b.init
    /\ Ordered(r.emit, p, q)

LEMMA TakeNextMoves ==
    ASSUME NEW b, NEW p \in 1..MaxSent, Holds(b, p, p + 1)
    PROVE  LET r == TakeNext(b, p)
           IN  Len(r.emit) > 0 /\ \E q \in p..(MaxSent + 1) : Moves(b, r, p, q)
  <1> DEFINE c == [b EXCEPT !.next = (@ + 1) % SeqMod]
             m == p + 1
             d == DrainAndSkip(c)
             r == TakeNext(b, p)
  <1>1. /\ Cap \in Nat \ {0} /\ MaxSent \in Nat /\ p \in Nat \ {0} /\ 1 \in Nat /\ 0 \in Nat
        /\ b \in Buffers /\ m \in Nat \ {0} /\ m \in 1..(MaxSent + 1) /\ p \in Nat /\ m \in Nat
    BY JitterNumbers DEF Holds
  <1>2. (b.next + 1) % SeqMod = SeqOf(m)  BY <1>1, SeqPlus DEF Holds
  <1> HIDE DEF m
  <1>3. SeqOf(m) \in 0..(SeqMod - 1)  BY <1>1, SeqPlus
  <1>4. /\ c \in Buffers /\ c.slot = b.slot /\ c.next = SeqOf(m) /\ c.pending = b.pending
        /\ c.gap = b.gap /\ c.init = b.init
    BY <1>1, <1>2, <1>3 DEF Buffers
  <1> HIDE DEF c
  <1>5. Filled(c) = Filled(b)  BY <1>4 DEF Filled
  <1>6. Holds(c, m, m)
    <2>1. ASSUME NEW i \in Filled(c) PROVE c.slot[i] \in m..(m + Cap - 1) /\ SlotOf(c.slot[i]) = i
      <3>1. /\ b.slot[i] \in (p + 1)..(p + Cap - 1) /\ SlotOf(b.slot[i]) = i /\ c.slot[i] = b.slot[i]
        BY <1>4, <1>5 DEF Holds
      <3> QED BY <1>1, <3>1 DEF m
    <2> QED BY <1>4, <1>5, <2>1 DEF Holds
  <1> HIDE DEF d
  <1>7. PICK q \in m..(MaxSent + 1) :
            Holds(d.buffer, q, q + 1) /\ d.buffer.init = c.init /\ Ordered(d.emit, m, q)
    BY <1>1, <1>6, DrainAndSkipHolds DEF d
  <1>8. q \in p..(MaxSent + 1) /\ q \in Nat /\ p <= m /\ m <= q  BY <1>1, <1>7 DEF m
  <1>9. Ordered(<<p>>, p, m) /\ Len(<<p>>) = 1  BY <1>1, OrderedOne DEF m
  <1>10. Ordered(<<p>> \o d.emit, p, q) /\ Len(<<p>> \o d.emit) = Len(<<p>>) + Len(d.emit)
    BY <1>1, <1>7, <1>8, <1>9, OrderedAppend
  <1>11. r.buffer = d.buffer /\ r.emit = <<p>> \o d.emit  BY DEF TakeNext, d, c
  <1>12. Len(d.emit) \in Nat  BY <1>7 DEF Ordered
  <1>13. Len(r.emit) > 0  BY <1>9, <1>10, <1>11, <1>12
  <1> HIDE DEF r
  <1>14. Moves(b, r, p, q)  BY <1>4, <1>7, <1>8, <1>10, <1>11 DEF Moves
  <1> QED BY <1>8, <1>13, <1>14 DEF r

LEMMA ReanchorMoves ==
    ASSUME NEW b, NEW p \in 1..(MaxSent + 1), NEW n \in 1..MaxSent, p <= n, b.init
    PROVE  LET r == Reanchor(b, n)
           IN  Len(r.emit) > 0 /\ Holds(r.buffer, n + 1, n + 2) /\ r.buffer.init
               /\ Ordered(r.emit, p, n + 1) /\ n + 1 \in p..(MaxSent + 1)
  <1> DEFINE r == Reanchor(b, n)
             c == r.buffer
  <1>1. /\ n \in Nat \ {0} /\ 1 \in Nat /\ n + 1 \in Nat \ {0} /\ MaxSent \in Nat /\ 0 \in Nat
        /\ n + 1 \in p..(MaxSent + 1) /\ p \in Nat /\ n \in Nat /\ n + 1 \in Nat
    BY JitterNumbers
  <1>2. (SeqOf(n) + 1) % SeqMod = SeqOf(n + 1) /\ SeqOf(n + 1) \in 0..(SeqMod - 1)
    BY <1>1, SeqPlus
  <1>3. r.emit = <<n>> /\ c = [slot |-> [i \in 0..(Cap - 1) |-> NoPacket], next |-> SeqOf(n + 1),
                                pending |-> 0, init |-> TRUE, gap |-> 0]
    BY <1>2 DEF Reanchor, ResetBuffer
  <1> HIDE DEF r, c
  <1>4. c \in Buffers /\ c.next = SeqOf(n + 1) /\ c.pending = 0 /\ c.init
    BY <1>1, <1>2, <1>3 DEF Buffers, NoPacket
  <1>5. Filled(c) = {}  BY <1>3 DEF Filled
  <1>6. Holds(c, n + 1, n + 2)  BY <1>4, <1>5, FS_EmptySet DEF Holds
  <1>7. Ordered(<<n>>, n, n + 1) /\ Len(<<n>>) = 1  BY <1>1, OrderedOne
  <1>8. Ordered(<<n>>, p, n + 1)  BY <1>1, <1>7, OrderedFrom
  <1> QED BY <1>1, <1>3, <1>4, <1>6, <1>7, <1>8 DEF r, c

LEMMA CacheMoves ==
    ASSUME now \in Nat \ {0}, NEW b, NEW p \in 1..(MaxSent + 1), Holds(b, p, p + 1),
           NEW n \in 1..MaxSent, p < n, n - p < Cap
    PROVE  LET r == Cache(b, n)
           IN  /\ Expired(b) => Len(r.emit) > 0
               /\ \E q \in p..(MaxSent + 1) : Moves(b, r, p, q)
  <1> DEFINE i == SlotOf(n)
             c == [b EXCEPT !.slot[i] = n,
                            !.pending = IF b.slot[i] = NoPacket THEN @ + 1 ELSE @,
                            !.gap = IF @ = 0 THEN now ELSE @]
             r == Cache(b, n)
  <1>1. /\ Cap \in Nat \ {0} /\ MaxSent \in Nat /\ p \in Nat \ {0} /\ n \in Nat \ {0} /\ 0 \in Nat
        /\ b \in Buffers /\ p \in p..(MaxSent + 1) /\ n \in (p + 1)..(p + Cap - 1)
    BY JitterNumbers DEF Holds
  <1>2. i \in 0..(Cap - 1)  BY <1>1, SeqPlus
  <1>3. r = IF Expired(c) THEN SkipGap(c) ELSE [buffer |-> c, emit |-> <<>>]
    BY DEF Cache, SlotOf
  <1> HIDE DEF i, r
  <1>4. /\ b.slot \in [0..(Cap - 1) -> 0..MaxSent] /\ b.pending \in Nat /\ b.gap \in Nat
        /\ b.next \in 0..(SeqMod - 1) /\ b.init \in BOOLEAN
    BY <1>1 DEF Buffers
  <1> DEFINE slot == [b.slot EXCEPT ![i] = n]
             pending == IF b.slot[i] = NoPacket THEN b.pending + 1 ELSE b.pending
             gap == IF b.gap = 0 THEN now ELSE b.gap
  <1>5. slot \in [0..(Cap - 1) -> 0..MaxSent] /\ pending \in Nat /\ gap \in Nat /\ gap > 0
    <2>1. slot \in [0..(Cap - 1) -> 0..MaxSent]  BY <1>1, <1>2, <1>4
    <2>2. pending \in Nat  BY <1>4
    <2>3. gap \in Nat /\ gap > 0  BY <1>4
    <2> QED BY <2>1, <2>2, <2>3
  <1>6. c = [slot |-> slot, next |-> b.next, pending |-> pending, init |-> b.init, gap |-> gap]
    <2>1. b = [slot |-> b.slot, next |-> b.next, pending |-> b.pending, init |-> b.init, gap |-> b.gap]
      BY <1>1 DEF Buffers
    <2>2. c = [b EXCEPT !.slot = slot, !.pending = pending, !.gap = gap]  OBVIOUS
    <2> HIDE DEF c, slot, pending, gap
    <2> QED BY <2>1, <2>2
  <1>7. slot[i] = n /\ \A x \in 0..(Cap - 1) : x # i => slot[x] = b.slot[x]  BY <1>2, <1>4
  <1>8. /\ b.slot[i] = NoPacket => pending = b.pending + 1
        /\ b.slot[i] # NoPacket => pending = b.pending
        /\ b.gap > 0 => gap = b.gap
    OBVIOUS
  <1> HIDE DEF c, slot, pending, gap
  <1>9. /\ c.slot = slot /\ c.next = b.next /\ c.pending = pending /\ c.gap = gap
        /\ c.init = b.init /\ c \in Buffers
    BY <1>4, <1>5, <1>6 DEF Buffers
  <1>10. Filled(c) = Filled(b) \cup {i}
    <2>1. \A x \in 0..(Cap - 1) : c.slot[x] # NoPacket <=> b.slot[x] # NoPacket \/ x = i
      BY <1>1, <1>7, <1>9 DEF NoPacket
    <2> QED BY <1>2, <2>1 DEF Filled
  <1>11. pending = Cardinality(Filled(c)) /\ pending > 0
    <2>1. IsFiniteSet(Filled(b))
      <3>1. IsFiniteSet(0..(Cap - 1))  BY <1>1, FS_Interval
      <3> QED BY <3>1, FS_Subset DEF Filled
    <2>2. Cardinality(Filled(c)) = IF i \in Filled(b) THEN Cardinality(Filled(b))
                                   ELSE Cardinality(Filled(b)) + 1
      BY <1>10, <2>1, FS_AddElement
    <2>3. i \in Filled(b) <=> b.slot[i] # NoPacket  BY <1>2 DEF Filled
    <2>4. b.slot[i] # NoPacket => b.pending > 0
      <3> SUFFICES ASSUME i \in Filled(b) PROVE b.pending > 0  BY <2>3
      <3>1. Cardinality(Filled(b)) \in Nat /\ Cardinality(Filled(b)) # 0
        BY <2>1, FS_CardinalityType, FS_EmptySet
      <3> QED BY <3>1 DEF Holds
    <2> QED BY <1>4, <1>8, <2>2, <2>3, <2>4 DEF Holds
  <1>12. Holds(c, p, p + 1)
    <2>1. ASSUME NEW x \in Filled(c)
          PROVE  c.slot[x] \in (p + 1)..(p + Cap - 1) /\ SlotOf(c.slot[x]) = x
      <3>1. CASE x = i  BY <1>1, <1>7, <1>9, <3>1 DEF i
      <3>2. CASE x # i
        <4>1. x \in Filled(b) /\ c.slot[x] = b.slot[x]  BY <1>7, <1>9, <1>10, <3>2 DEF Filled
        <4> QED BY <4>1 DEF Holds
      <3> QED BY <3>1, <3>2
    <2> QED BY <1>5, <1>9, <1>11, <2>1 DEF Holds
  <1>13. Expired(b) => Expired(c)
    <2> SUFFICES ASSUME Expired(b) PROVE Expired(c)  OBVIOUS
    <2>1. b.pending > 0 /\ now - b.gap >= Timeout  BY DEF Expired
    <2>2. gap = b.gap  BY <1>8, <2>1 DEF Holds
    <2> QED BY <1>9, <1>11, <2>1, <2>2 DEF Expired
  <1>14. CASE Expired(c)
    <2>1. r = SkipGap(c) /\ Holds(c, p, p) /\ c.pending > 0  BY <1>3, <1>9, <1>11, <1>12, <1>14, HoldsFrom
    <2>2. PICK q \in p..(MaxSent + 1) :
              /\ Holds(r.buffer, q, q + 1) /\ r.buffer.init = c.init
              /\ Ordered(r.emit, p, q) /\ Len(r.emit) > 0
      BY <2>1, SkipHolds
    <2> QED BY <1>9, <2>2 DEF Moves, r
  <1>15. CASE ~Expired(c)
    <2>1. r.buffer = c /\ r.emit = <<>>  BY <1>3, <1>15
    <2>2. Ordered(r.emit, p, p)  BY <2>1 DEF Ordered
    <2>3. Moves(b, r, p, p)  BY <1>1, <1>9, <1>12, <2>1, <2>2 DEF Moves
    <2> QED BY <1>1, <1>13, <1>15, <2>3 DEF r
  <1> QED BY <1>14, <1>15

(* ngx_rtc_jitter_push, with a packet of any age.                           *)
LEMMA PushMoves ==
    ASSUME now \in Nat \ {0}, NEW b, NEW p \in 1..(MaxSent + 1), Holds(b, p, p + 1), b.init,
           NEW n \in 1..MaxSent
    PROVE  LET r == Pushed(b, n)
           IN  /\ Expired(b) /\ ~Stale(b, n) => Len(r.emit) > 0
               /\ \E q \in p..(MaxSent + 1) : Moves(b, r, p, q)
  <1> DEFINE r == Pushed(b, n)
  <1>1. /\ b.next = SeqOf(p) /\ MaxSent \in Nat /\ Cap \in Nat /\ p \in p..(MaxSent + 1)
        /\ n \in Nat /\ p \in Nat
    BY JitterNumbers DEF Holds
  <1>2. /\ SeqOf(n) = b.next <=> n = p
        /\ Stale(b, n) <=> n < p
        /\ TooFar(b, n) <=> (SeqOf(n) - SeqOf(p)) % SeqMod >= Cap
        /\ n > p => (SeqOf(n) - SeqOf(p)) % SeqMod = n - p
    BY <1>1, SeqOrder DEF Stale, TooFar
  <1>3. CASE n = p
    <2>1. r = TakeNext(b, p)  BY <1>2, <1>3, <1>1 DEF Pushed
    <2>2. p \in 1..MaxSent  BY <1>3
    <2> QED BY <2>1, <2>2, TakeNextMoves
  <1>4. CASE n < p
    <2>1. Stale(b, n) /\ SeqOf(n) # b.next  BY <1>1, <1>2, <1>4
    <2>2. r.buffer = b /\ r.emit = <<>>  BY <2>1 DEF Pushed
    <2> HIDE DEF r
    <2>3. Ordered(r.emit, p, p)  BY <2>2 DEF Ordered
    <2>4. Moves(b, r, p, p)  BY <1>1, <2>2, <2>3 DEF Moves
    <2> QED BY <1>1, <2>1, <2>4 DEF r
  <1>5. CASE n > p
    <2>1. ~Stale(b, n) /\ SeqOf(n) # b.next  BY <1>1, <1>2, <1>5
    <2>2. r = IF TooFar(b, n) THEN Reanchor(b, n) ELSE Cache(b, n)  BY <2>1 DEF Pushed
    <2> HIDE DEF r
    <2>3. CASE TooFar(b, n)
      <3>1. r = Reanchor(b, n) /\ p <= n  BY <1>1, <1>5, <2>2, <2>3
      <3>2. /\ Len(r.emit) > 0 /\ Holds(r.buffer, n + 1, n + 2) /\ r.buffer.init
            /\ Ordered(r.emit, p, n + 1) /\ n + 1 \in p..(MaxSent + 1)
        BY <3>1, ReanchorMoves
      <3>3. n + 1 + 1 = n + 2 /\ r.buffer.init = b.init
        <4>1. r.buffer.init \in BOOLEAN /\ b.init \in BOOLEAN  BY <3>2 DEF Holds, Buffers
        <4> QED BY <1>1, <3>2, <4>1
      <3>4. Moves(b, r, p, n + 1)  BY <3>2, <3>3 DEF Moves
      <3> QED BY <3>2, <3>4 DEF r
    <2>4. CASE ~TooFar(b, n)
      <3>1. n - p < Cap  BY <1>1, <1>2, <1>5, <2>4
      <3>2. r = Cache(b, n) /\ p < n  BY <1>1, <1>5, <2>2, <2>4
      <3> QED BY <3>1, <3>2, CacheMoves DEF r
    <2> QED BY <2>3, <2>4
  <1> QED BY <1>1, <1>3, <1>4, <1>5

-----------------------------------------------------------------------------
(* The order of the uplink *)

(* Before the first packet the buffer is empty; from then on it expects     *)
(* some packet p, has emitted only packets before it, in order, and holds   *)
(* only packets after it.                                                   *)
JitterInv ==
    /\ now \in Nat \ {0}
    /\ \/ j = ResetBuffer /\ out = <<>>
       \/ j.init /\ \E p \in 1..(MaxSent + 1) : Holds(j, p, p + 1) /\ Ordered(out, 1, p)

(* The first packet of a publish is the one expected.                       *)
LEMMA AnchorHolds ==
    ASSUME NEW n \in 1..MaxSent
    PROVE  LET b == Anchored(ResetBuffer, n) IN b.init /\ Holds(b, n, n + 1)
  <1> DEFINE b == Anchored(ResetBuffer, n)
  <1>1. n \in Nat \ {0} /\ 0 \in Nat /\ MaxSent \in Nat  BY JitterNumbers
  <1>2. SeqOf(n) \in 0..(SeqMod - 1)  BY <1>1, SeqPlus
  <1>3. b = [slot |-> [i \in 0..(Cap - 1) |-> NoPacket], next |-> SeqOf(n), pending |-> 0,
             init |-> TRUE, gap |-> 0]
    BY DEF Anchored, ResetBuffer
  <1> HIDE DEF b
  <1>4. b \in Buffers /\ b.next = SeqOf(n) /\ b.pending = 0 /\ b.init
    BY <1>1, <1>2, <1>3 DEF Buffers, NoPacket
  <1>5. Filled(b) = {}  BY <1>3 DEF Filled
  <1>6. Holds(b, n, n + 1)  BY <1>4, <1>5, FS_EmptySet DEF Holds
  <1> QED BY <1>4, <1>6 DEF b

LEMMA ArriveInv ==
    ASSUME JitterInv, NEW n \in 1..MaxSent, Arrive(n)
    PROVE  JitterInv' /\ (Expired(j) /\ ~late' => Len(out') > Len(out))
  <1> DEFINE b == Anchored(j, n)
             r == Pushed(b, n)
  <1>1. /\ j' = r.buffer /\ out' = out \o r.emit /\ late' = Stale(b, n) /\ now' = now
        /\ now \in Nat \ {0}
    BY DEF Arrive, JitterInv
  <1>2. /\ b.init
        /\ Expired(j) => Expired(b)
        /\ \E p \in 1..(MaxSent + 1) : Holds(b, p, p + 1) /\ Ordered(out, 1, p)
    <2>1. CASE j = ResetBuffer /\ out = <<>>
      <3>1. b.init /\ Holds(b, n, n + 1) /\ n \in 1..(MaxSent + 1)
        BY <2>1, AnchorHolds, JitterNumbers
      <3>2. ~Expired(j)  BY <2>1 DEF Expired, ResetBuffer
      <3>3. Ordered(out, 1, n)  BY <2>1 DEF Ordered
      <3> QED BY <3>1, <3>2, <3>3
    <2>2. CASE j.init /\ \E p \in 1..(MaxSent + 1) : Holds(j, p, p + 1) /\ Ordered(out, 1, p)
      <3>1. b = j  BY <2>2 DEF Anchored
      <3> QED BY <2>2, <3>1
    <2> QED BY <2>1, <2>2 DEF JitterInv
  <1> HIDE DEF b
  <1>3. PICK p \in 1..(MaxSent + 1) : Holds(b, p, p + 1) /\ Ordered(out, 1, p)  BY <1>2
  <1>4. /\ Expired(b) /\ ~Stale(b, n) => Len(r.emit) > 0
        /\ \E q \in p..(MaxSent + 1) : Moves(b, r, p, q)
    BY <1>1, <1>2, <1>3, PushMoves
  <1> HIDE DEF r
  <1>5. PICK q \in p..(MaxSent + 1) : Moves(b, r, p, q)  BY <1>4
  <1>6. /\ Holds(r.buffer, q, q + 1) /\ r.buffer.init = b.init /\ Ordered(r.emit, p, q)
    BY <1>5 DEF Moves
  <1>7. /\ p \in Nat /\ q \in Nat /\ 1 \in Nat /\ 1 <= p /\ p <= q /\ q \in 1..(MaxSent + 1)
    BY JitterNumbers
  <1>8. Ordered(out', 1, q) /\ Len(out') = Len(out) + Len(r.emit)
    BY <1>1, <1>3, <1>6, <1>7, OrderedAppend
  <1>9. j'.init /\ Holds(j, q, q + 1)'  BY <1>1, <1>2, <1>6 DEF Holds, Filled, Buffers
  <1>10. JitterInv'  BY <1>1, <1>7, <1>8, <1>9 DEF JitterInv, Ordered
  <1>11. Len(out) \in Nat /\ Len(r.emit) \in Nat  BY <1>3, <1>6 DEF Ordered
  <1>12. Expired(j) /\ ~late' => Len(out') > Len(out)  BY <1>1, <1>2, <1>4, <1>8, <1>11
  <1> QED BY <1>10, <1>12

LEMMA JitterStep ==
    ASSUME JitterInv, [JitterNext]_jitterVars PROVE JitterInv'
  <1>1. CASE UNCHANGED jitterVars  BY <1>1 DEF jitterVars, JitterInv, Holds, Filled, Ordered
  <1>2. CASE Republish
    <2>1. j' = ResetBuffer /\ out' = <<>> /\ now' = now  BY <1>2 DEF Republish
    <2> QED BY <2>1 DEF JitterInv, ResetBuffer
  <1>3. CASE Tick
    <2>1. now' = now + 1 /\ j' = j /\ out' = out  BY <1>3 DEF Tick
    <2>2. now' \in Nat \ {0}  BY <2>1 DEF JitterInv
    <2> QED BY <2>1, <2>2 DEF JitterInv, Holds, Filled, Ordered, ResetBuffer
  <1> QED BY <1>1, <1>2, <1>3, ArriveInv DEF JitterNext

LEMMA JitterOrdered == ASSUME JitterInv PROVE InOrder
  <1>1. CASE out = <<>>  BY <1>1 DEF InOrder
  <1>2. ASSUME NEW p, Ordered(out, 1, p) PROVE InOrder  BY <1>2 DEF InOrder, Ordered
  <1> QED BY <1>1, <1>2 DEF JitterInv

(* ngx_rtc_jitter_push: whatever the network loses, repeats or reorders,    *)
(* across skipped gaps, re-anchors and the wrap of the numbers, packets     *)
(* leave in sending order and none twice; and a usable arrival past the     *)
(* deadline of a gap moves the queue.                                       *)
THEOREM UplinkInOrder == JitterSpec => UplinkOrdered
  <1>1. JitterInit => JitterInv  BY DEF JitterInit, JitterInv
  <1>2. JitterInv /\ [JitterNext]_jitterVars => JitterInv'  BY JitterStep
  <1>3. JitterInv => InOrder  BY JitterOrdered
  <1>4. JitterInv /\ [JitterNext]_jitterVars
            => [\A n \in 1..MaxSent :
                  Expired(j) /\ Arrive(n) /\ ~late' => Len(out') > Len(out)]_jitterVars
    BY ArriveInv
  <1> QED BY <1>1, <1>2, <1>3, <1>4, PTL DEF JitterSpec, UplinkOrdered, ExpiredMoves

(* ngx_rtc_jitter_push: the count of queued packets is right, which is what *)
(* ends the search of ngx_rtc_jitter_skip_gap; each is in its own slot,     *)
(* less than the buffer ahead of the expected one, and can still be played. *)
THEOREM WindowHeld == JitterSpec => [](WindowConsistent /\ CachedPlayable)
  <1>1. JitterInit => JitterInv  BY DEF JitterInit, JitterInv
  <1>2. JitterInv /\ [JitterNext]_jitterVars => JitterInv'  BY JitterStep
  <1>3. JitterInv => WindowConsistent /\ CachedPlayable
    <2>1. CASE j = ResetBuffer /\ out = <<>>
      <3>1. Cached = {} /\ j.pending = 0  BY <2>1 DEF Cached, ResetBuffer
      <3> QED BY <3>1, FS_EmptySet DEF WindowConsistent, CachedPlayable
    <2>2. ASSUME NEW p \in 1..(MaxSent + 1), Holds(j, p, p + 1), Ordered(out, 1, p)
          PROVE  WindowConsistent /\ CachedPlayable
      <3>1. Cached = Filled(j)  BY DEF Cached, Filled
      <3>2. Cap \in Nat /\ MaxSent \in Nat /\ p \in Nat  BY JitterNumbers
      <3>3. ASSUME NEW i \in Cached
            PROVE  /\ SeqOf(j.slot[i]) % Cap = i
                   /\ (SeqOf(j.slot[i]) - j.next) % SeqMod \in 1..(Cap - 1)
                   /\ \A k \in DOMAIN out : out[k] < j.slot[i]
        <4> DEFINE n == j.slot[i]
        <4>1. n \in (p + 1)..(p + Cap - 1) /\ SlotOf(n) = i  BY <2>2, <3>1, <3>3 DEF Holds
        <4>2. n \in 0..MaxSent  BY <2>2, <3>3 DEF Holds, Buffers, Cached
        <4> HIDE DEF n
        <4>3. n \in 1..MaxSent /\ n > p /\ n - p \in 1..(Cap - 1)  BY <3>2, <4>1, <4>2
        <4>4. (SeqOf(n) - SeqOf(p)) % SeqMod = n - p  BY <4>3, SeqOrder
        <4>5. \A k \in DOMAIN out : out[k] \in Nat /\ out[k] < p  BY <2>2 DEF Ordered
        <4>6. \A k \in DOMAIN out : out[k] < n  BY <3>2, <4>3, <4>5
        <4> QED BY <2>2, <4>1, <4>3, <4>4, <4>6 DEF n, SlotOf, Holds
      <3> QED BY <2>2, <3>1, <3>3 DEF WindowConsistent, CachedPlayable, Holds
    <2> QED BY <2>1, <2>2 DEF JitterInv
  <1> QED BY <1>1, <1>2, <1>3, PTL DEF JitterSpec

-----------------------------------------------------------------------------
(* The packet rings *)

LEMMA CacheNumbers ==
    /\ LocalCap \in Nat \ {0} /\ ShmCap \in Nat \ {0} /\ SeqSpace \in Nat \ {0}
    /\ MaxSkipped \in Nat /\ LocalCap + MaxSkipped <= SeqSpace
    /\ FirstSeqs \subseteq 0..(SeqSpace - 1) /\ MaxSeq \in Nat /\ MaxGens \in Nat
  BY CacheConstants

PacketRings(cap) ==
    {r \in [head : Nat, count : 0..cap, gop : Nat, cap : {cap},
            slot : [0..(cap - 1) -> Packets \cup {Miss}]] : r.count <= r.head}

LEMMA EmptyIsRing ==
    ASSUME NEW cap \in Nat \ {0}
    PROVE  EmptyRing(cap) \in PacketRings(cap) /\ EmptyRing(cap).count = 0
  BY DEF EmptyRing, PacketRings

LEMMA RestartedIsRing ==
    ASSUME NEW cap \in Nat \ {0}, NEW r \in PacketRings(cap)
    PROVE  Restarted(r) \in PacketRings(cap) /\ Restarted(r).count = 0
  <1>1. r.head \in Nat /\ 0 \in 0..cap  BY DEF PacketRings
  <1>2. Restarted(r) \in [head : Nat, count : 0..cap, gop : Nat, cap : {cap},
                          slot : [0..(cap - 1) -> Packets \cup {Miss}]]
    BY <1>1 DEF Restarted, PacketRings
  <1>3. Restarted(r).head = r.head /\ Restarted(r).count = 0  BY DEF Restarted, PacketRings
  <1> QED BY <1>1, <1>2, <1>3 DEF PacketRings

(* A packet that is pushed takes the slot at head; the last cap - 1 before  *)
(* it stay where they are, however often the ring has wrapped.              *)
LEMMA PushKeeps ==
    ASSUME NEW cap \in Nat \ {0}, NEW r \in PacketRings(cap), NEW p \in Packets
    PROVE  /\ Push(r, p) \in PacketRings(cap)
           /\ Push(r, p).head = r.head + 1
           /\ Push(r, p).count = IF r.count < cap THEN r.count + 1 ELSE r.count
           /\ Push(r, p).gop = IF p.part = "start" THEN r.head ELSE r.gop
           /\ Slot(Push(r, p), r.head) = p
           /\ \A i \in Int : r.head - cap < i /\ i < r.head => Slot(Push(r, p), i) = Slot(r, i)
  <1> DEFINE n == Push(r, p)
             h == r.head % cap
  <1>1. /\ r.head \in Nat /\ r.count \in 0..cap /\ r.gop \in Nat /\ r.cap = cap
        /\ r.slot \in [0..(cap - 1) -> Packets \cup {Miss}] /\ r.count <= r.head
    BY DEF PacketRings
  <1>2. h \in 0..(cap - 1)  BY <1>1, DivSplit
  <1>3. /\ n.head = r.head + 1 /\ n.cap = cap
        /\ n.slot = [r.slot EXCEPT ![h] = p]
        /\ n.gop = IF p.part = "start" THEN r.head ELSE r.gop
        /\ n.count = IF r.count < cap THEN r.count + 1 ELSE r.count
    BY <1>1 DEF Push, PacketRings
  <1>4. n.slot \in [0..(cap - 1) -> Packets \cup {Miss}]  BY <1>1, <1>2, <1>3
  <1>5. n \in PacketRings(cap)
    <2>1. n.head \in Nat /\ n.count \in 0..cap /\ n.gop \in Nat /\ n.count <= n.head
      BY <1>1, <1>3
    <2>2. n \in [head : Nat, count : 0..cap, gop : Nat, cap : {cap},
                 slot : [0..(cap - 1) -> Packets \cup {Miss}]]
      BY <1>1, <1>2, <2>1 DEF Push, PacketRings
    <2> HIDE DEF n
    <2> QED BY <2>1, <2>2 DEF PacketRings
  <1>6. Slot(n, r.head) = p  BY <1>1, <1>2, <1>3 DEF Slot
  <1>7. ASSUME NEW i \in Int, r.head - cap < i, i < r.head
        PROVE  Slot(n, i) = Slot(r, i)
    <2>1. i % cap # h
      <3> HIDE DEF n, h
      <3>1. r.head - i \in Int /\ 0 <= r.head - i /\ r.head - i <= cap - 1
        BY <1>1, <1>7, WithinOf
      <3> USE DEF h
      <3> SUFFICES ASSUME i % cap = r.head % cap PROVE FALSE  OBVIOUS
      <3>2. i = r.head  BY <1>1, <3>1, ModDistinct
      <3> QED BY <1>7, <3>2
    <2>2. i % cap \in 0..(cap - 1)  BY DivSplit
    <2> QED BY <1>1, <1>2, <1>3, <2>1, <2>2 DEF Slot
  <1> QED BY <1>3, <1>5, <1>6, <1>7

(* A publisher's ring ends with the packets of the window, in order, and    *)
(* its keyframe index points at the latest of them that opens one.          *)
Mirrors(r, win) ==
    /\ win \in Seq(Packets) /\ Len(win) <= r.count
    /\ \A i \in 1..Len(win) : Slot(r, r.head - Len(win) + i - 1) = win[i]
    /\ \A i \in 1..Len(win) :
          win[i].part = "start" /\ (\A k \in (i + 1)..Len(win) : win[k].part # "start")
              => r.gop = r.head - Len(win) + i - 1

LEMMA MirrorsPush ==
    ASSUME NEW r \in PacketRings(LocalCap), NEW win, Mirrors(r, win), NEW p \in Packets
    PROVE  LET next == LastOf(Append(win, p), LocalCap)
               d    == IF Len(win) = LocalCap THEN 1 ELSE 0
           IN  /\ Mirrors(Push(r, p), next)
               /\ Len(next) = Len(win) + 1 - d
               /\ \A i \in 1..Len(next) : next[i] = IF i + d <= Len(win) THEN win[i + d] ELSE p
               /\ r.count = Len(win) => Push(r, p).count = Len(next)
  <1> DEFINE L    == Len(win)
             both == Append(win, p)
             next == LastOf(both, LocalCap)
             d    == IF L = LocalCap THEN 1 ELSE 0
             n    == Push(r, p)
  <1>1. LocalCap \in Nat \ {0}  BY CacheNumbers
  <1>2. /\ n \in PacketRings(LocalCap) /\ n.head = r.head + 1
        /\ n.count = IF r.count < LocalCap THEN r.count + 1 ELSE r.count
        /\ n.gop = IF p.part = "start" THEN r.head ELSE r.gop
        /\ Slot(n, r.head) = p
        /\ \A i \in Int : r.head - LocalCap < i /\ i < r.head => Slot(n, i) = Slot(r, i)
    BY <1>1, PushKeeps
  <1>3. r.head \in Nat /\ r.count \in 0..LocalCap /\ r.count <= r.head  BY DEF PacketRings
  <1>4. win \in Seq(Packets) /\ L \in Nat /\ L <= r.count /\ L <= LocalCap
    <2>1. win \in Seq(Packets) /\ L <= r.count  BY DEF Mirrors
    <2>2. L \in Nat  BY <2>1
    <2> QED BY <1>1, <1>3, <2>1, <2>2
  <1>5. /\ both \in Seq(Packets) /\ Len(both) = L + 1
        /\ \A i \in 1..(L + 1) : both[i] = IF i <= L THEN win[i] ELSE p
    BY <1>4
  <1>6. /\ next \in Seq(Packets) /\ Len(next) = L + 1 - d
        /\ \A i \in 1..Len(next) : next[i] = IF i + d <= L THEN win[i + d] ELSE p
    <2>1. CASE L = LocalCap
      <3>1. next = Tail(both) /\ d = 1  BY <1>1, <1>5, <2>1 DEF LastOf
      <3>2. /\ Tail(both) \in Seq(Packets) /\ Len(Tail(both)) = L
            /\ \A i \in 1..L : Tail(both)[i] = both[i + 1]
        BY <1>4, <1>5
      <3>3. Len(next) = L /\ \A i \in 1..L : next[i] = both[i + 1]  BY <3>1, <3>2
      <3>4. \A i \in 1..L : i + 1 \in 1..(L + 1)  BY <1>4
      <3> HIDE DEF both, next, d, L
      <3> QED BY <1>4, <1>5, <3>1, <3>2, <3>3, <3>4
    <2>2. CASE L # LocalCap
      <3>1. next = both /\ d = 0  BY <1>1, <1>4, <1>5, <2>2 DEF LastOf
      <3> QED BY <1>4, <1>5, <3>1
    <2> QED BY <2>1, <2>2
  <1>7. d \in {0, 1} /\ (d = 1 <=> L = LocalCap)  OBVIOUS
  <1> HIDE DEF both, next, d, n
  <1>8. Len(next) <= n.count /\ (r.count = L => n.count = Len(next))
    BY <1>1, <1>2, <1>3, <1>4, <1>6, <1>7
  <1>9. ASSUME NEW i \in 1..Len(next)
        PROVE  Slot(n, n.head - Len(next) + i - 1) = next[i]
    <2> DEFINE at == n.head - Len(next) + i - 1
    <2>1. i \in Int /\ L \in Int /\ d \in Int /\ i + d \in 1..(L + 1)  BY <1>4, <1>6, <1>7
    <2>2. at = r.head - L + (i + d) - 1  BY <1>2, <1>3, <1>6, <2>1
    <2>3. CASE i + d = L + 1
      <3>1. at = r.head  BY <1>3, <2>1, <2>2, <2>3
      <3>2. ~(i + d <= L)  BY <2>1, <2>3
      <3>3. next[i] = p  BY <1>6, <1>9, <3>2
      <3> QED BY <1>2, <3>1, <3>3
    <2>4. CASE i + d # L + 1
      <3>1. i + d \in 1..L /\ i + d <= L  BY <2>1, <2>4
      <3>2. next[i] = win[i + d]  BY <1>6, <1>9, <3>1
      <3>3. Slot(r, at) = win[i + d]  BY <2>2, <3>1 DEF Mirrors
      <3>4. at \in Int /\ r.head - LocalCap < at /\ at < r.head
        BY <1>1, <1>3, <1>4, <1>7, <2>1, <2>2, <3>1
      <3> QED BY <1>2, <3>2, <3>3, <3>4
    <2> QED BY <2>3, <2>4
  <1>10. ASSUME NEW i \in 1..Len(next), next[i].part = "start",
                \A k \in (i + 1)..Len(next) : next[k].part # "start"
         PROVE  n.gop = n.head - Len(next) + i - 1
    <2>1. i + d \in 1..(L + 1)  BY <1>4, <1>6, <1>7
    <2>2. CASE i + d = L + 1
      <3>1. next[i] = p /\ i = Len(next)  BY <1>4, <1>6, <1>7, <2>1, <2>2
      <3> QED BY <1>2, <1>3, <1>10, <3>1
    <2>3. CASE i + d # L + 1
      <3>1. i + d \in 1..L /\ next[i] = win[i + d]  BY <1>4, <1>6, <2>1, <2>3
      <3>2. L + 1 - d \in (i + 1)..Len(next) /\ next[L + 1 - d] = p
        BY <1>4, <1>6, <1>7, <2>1, <2>3
      <3>3. p.part # "start"  BY <1>10, <3>2
      <3>4. \A k \in (i + d + 1)..L : win[k].part # "start"
        <4> SUFFICES ASSUME NEW k \in (i + d + 1)..L PROVE win[k].part # "start"  OBVIOUS
        <4>1. k - d \in (i + 1)..Len(next) /\ next[k - d] = win[k]  BY <1>4, <1>6, <1>7
        <4> QED BY <1>10, <4>1
      <3>5. r.gop = r.head - L + (i + d) - 1  BY <1>10, <3>1, <3>4 DEF Mirrors
      <3>6. n.gop = r.head - L + (i + d) - 1  BY <1>2, <3>3, <3>5
      <3>7. i \in Int /\ L \in Int /\ d \in Int  BY <1>4, <1>6, <1>7
      <3> QED BY <1>2, <1>3, <1>6, <3>6, <3>7
    <2> QED BY <2>2, <2>3
  <1>11. Mirrors(n, next)  BY <1>6, <1>8, <1>9, <1>10 DEF Mirrors
  <1> QED BY <1>6, <1>8, <1>11 DEF both, next, d, n

-----------------------------------------------------------------------------
(* A publish and its caches *)

(* The packets of a window are the last of n that publish g sent, and the   *)
(* number of each is its place in the publish plus what its uplink, which   *)
(* has lost s packets, had lost by then.                                    *)
Numbers(win, n, g, b, s) ==
    /\ win \in Seq(Packets) /\ Len(win) <= LocalCap /\ Len(win) <= n
    /\ \A i \in 1..Len(win) : win[i].gen = g /\ win[i].n = n - Len(win) + i
    /\ \E lost \in [1..Len(win) -> 0..s] :
          /\ \A i, k \in 1..Len(win) : i <= k => lost[i] <= lost[k]
          /\ \A i \in 1..Len(win) : win[i].seq = (b + win[i].n - 1 + lost[i]) % SeqSpace

Numbered == Numbers(window, sent, gen, base, skipped)

(* The publisher's ring mirrors the window; and nothing else is in it when  *)
(* RTMP has emptied it or when it is the first publish.                     *)
RingFollows ==
    pub # NoWorker => /\ Mirrors(local[pub], window)
                      /\ FromRtmp \/ gen = 1 => local[pub].count = Len(window)

(* The retransmit ring has nothing of an earlier publish than RTMP's.       *)
ShmCurrent ==
    FromRtmp => \A i \in Oldest(shm)..(shm.head - 1) : Slot(shm, i).gen = gen

CacheTypes ==
    /\ pub \in Processes \cup {NoWorker} /\ proto \in {"rtmp", "whip"}
    /\ gen \in 0..MaxGens /\ sent \in Nat /\ sent + skipped <= MaxSeq
    /\ skipped \in 0..MaxSkipped /\ base \in 0..(SeqSpace - 1)
    /\ proto = "rtmp" => base = 0 /\ skipped = 0
    /\ local \in [Processes -> PacketRings(LocalCap)] /\ shm \in PacketRings(ShmCap)
    /\ gen = 0 => pub = NoWorker /\ \A w \in Processes : local[w].count = 0

CacheInv == CacheTypes /\ Numbered /\ RingFollows /\ ShmCurrent

LEMMA NothingNumbered == ASSUME NEW g, NEW b PROVE Numbers(<<>>, 0, g, b, 0)
  <1>1. <<>> \in Seq(Packets) /\ Len(<<>>) = 0 /\ 1..0 = {}  OBVIOUS
  <1>2. [i \in {} |-> 0] \in [{} -> 0..0]  OBVIOUS
  <1>3. \E lost \in [1..Len(<<>>) -> 0..0] :
          /\ \A i, k \in 1..Len(<<>>) : i <= k => lost[i] <= lost[k]
          /\ \A i \in 1..Len(<<>>) : <<>>[i].seq = (b + <<>>[i].n - 1 + lost[i]) % SeqSpace
    BY <1>1, <1>2, Zenon
  <1>4. Len(<<>>) <= LocalCap /\ Len(<<>>) <= 0 /\ 1..Len(<<>>) = {}  BY <1>1, CacheNumbers
  <1> QED BY <1>1, <1>3, <1>4, Zenon DEF Numbers

LEMMA CacheInitInv == ASSUME CacheInit PROVE CacheInv
  <1>1. /\ pub = NoWorker /\ proto = "rtmp" /\ gen = 0 /\ sent = 0 /\ window = <<>>
        /\ skipped = 0 /\ base = 0
        /\ local = [w \in Processes |-> EmptyRing(LocalCap)] /\ shm = EmptyRing(ShmCap)
    BY DEF CacheInit
  <1>2. /\ EmptyRing(LocalCap) \in PacketRings(LocalCap) /\ EmptyRing(LocalCap).count = 0
        /\ EmptyRing(ShmCap) \in PacketRings(ShmCap)
    BY CacheNumbers, EmptyIsRing
  <1>3. CacheTypes  BY <1>1, <1>2, CacheNumbers DEF CacheTypes
  <1>4. Numbered  BY <1>1, NothingNumbered DEF Numbered
  <1>5. RingFollows /\ ShmCurrent  BY <1>1 DEF RingFollows, ShmCurrent, FromRtmp
  <1> QED BY <1>3, <1>4, <1>5 DEF CacheInv

LEMMA MirrorsNothing == ASSUME NEW r, r.count \in Nat PROVE Mirrors(r, <<>>)
  <1>1. <<>> \in Seq(Packets) /\ Len(<<>>) = 0  OBVIOUS
  <1> QED BY <1>1 DEF Mirrors

LEMMA StartRtmpInv ==
    ASSUME CacheInv, NEW w \in Processes, StartRtmp(w)
    PROVE  CacheInv'
  <1>1. /\ NewPublish(w, "rtmp", 0) /\ local' = [local EXCEPT ![w] = Restarted(@)]
        /\ shm' = EmptyRing(ShmCap)
    BY DEF StartRtmp, ShmReset
  <1>2. /\ pub' = w /\ proto' = "rtmp" /\ gen' = gen + 1 /\ gen < MaxGens /\ base' = 0
        /\ sent' = 0 /\ window' = <<>> /\ skipped' = 0
    BY <1>1 DEF NewPublish
  <1>3. /\ CacheTypes /\ local[w] \in PacketRings(LocalCap)  BY DEF CacheInv, CacheTypes
  <1>4. Restarted(local[w]) \in PacketRings(LocalCap) /\ Restarted(local[w]).count = 0
    BY <1>3, CacheNumbers, RestartedIsRing
  <1>5. EmptyRing(ShmCap) \in PacketRings(ShmCap) /\ EmptyRing(ShmCap).count = 0
    BY CacheNumbers, EmptyIsRing
  <1>6. local' \in [Processes -> PacketRings(LocalCap)] /\ local'[w] = Restarted(local[w])
    BY <1>1, <1>3, <1>4 DEF CacheTypes
  <1>7. CacheTypes'  BY <1>1, <1>2, <1>3, <1>5, <1>6, CacheNumbers DEF CacheTypes
  <1>8. Numbered'  BY <1>2, NothingNumbered DEF Numbered
  <1>9. RingFollows'
    <2>1. Mirrors(local'[w], <<>>)  BY <1>4, <1>6, MirrorsNothing
    <2> QED BY <1>2, <1>4, <1>6, <2>1 DEF RingFollows
  <1>10. ShmCurrent'
    <2>1. Oldest(shm') = shm'.head /\ shm'.head \in Nat  BY <1>1, <1>5 DEF Oldest, PacketRings
    <2>2. Oldest(shm')..(shm'.head - 1) = {}  BY <2>1
    <2> QED BY <2>2 DEF ShmCurrent
  <1> QED BY <1>7, <1>8, <1>9, <1>10 DEF CacheInv

LEMMA StartWhipInv ==
    ASSUME CacheInv, NEW w \in Processes, NEW s \in FirstSeqs, StartWhip(w, s)
    PROVE  CacheInv'
  <1>1. NewPublish(w, "whip", s) /\ UNCHANGED <<local, shm>>  BY DEF StartWhip
  <1>2. /\ pub' = w /\ proto' = "whip" /\ gen' = gen + 1 /\ gen < MaxGens /\ base' = s
        /\ sent' = 0 /\ window' = <<>> /\ skipped' = 0
    BY <1>1 DEF NewPublish
  <1>3. CacheTypes /\ local[w] \in PacketRings(LocalCap)  BY DEF CacheInv, CacheTypes
  <1>4. CacheTypes'  BY <1>1, <1>2, <1>3, CacheNumbers DEF CacheTypes
  <1>5. Numbered'  BY <1>2, NothingNumbered DEF Numbered
  <1>6. RingFollows'
    <2>1. local[w].count \in Nat  BY <1>3, CacheNumbers DEF PacketRings
    <2>2. Mirrors(local[w], <<>>)  BY <2>1, MirrorsNothing
    <2>3. gen' = 1 => local[w].count = 0  BY <1>2, <1>3 DEF CacheTypes
    <2> QED BY <1>1, <1>2, <2>2, <2>3 DEF RingFollows, FromRtmp
  <1>7. ShmCurrent'  BY <1>2 DEF ShmCurrent, FromRtmp
  <1> QED BY <1>4, <1>5, <1>6, <1>7 DEF CacheInv

(* One more packet is sent and, past the window's length, one forgotten. *)
LEMMA NumbersPush ==
    ASSUME NEW win, NEW n \in Nat, NEW g, NEW b \in Nat, NEW s \in Nat, Numbers(win, n, g, b, s),
           NEW p \in Packets, p.gen = g, p.n = n + 1, p.seq = (b + n + s) % SeqSpace,
           NEW next \in Seq(Packets), NEW d \in {0, 1}, d = 1 <=> Len(win) = LocalCap,
           Len(next) = Len(win) + 1 - d,
           \A i \in 1..Len(next) : next[i] = IF i + d <= Len(win) THEN win[i + d] ELSE p
    PROVE  Numbers(next, n + 1, g, b, s)
  <1> DEFINE L == Len(win)
             M == Len(next)
  <1>1. /\ L \in Nat /\ M \in Nat /\ L <= LocalCap /\ L <= n /\ M = L + 1 - d
        /\ LocalCap \in Nat \ {0} /\ d \in Int /\ (d = 1 <=> L = LocalCap)
    BY CacheNumbers DEF Numbers
  <1>2. \A i \in 1..L : win[i].gen = g /\ win[i].n = n - L + i  BY DEF Numbers
  <1>3. PICK lost \in [1..L -> 0..s] :
           /\ \A i, k \in 1..L : i <= k => lost[i] <= lost[k]
           /\ \A i \in 1..L : win[i].seq = (b + win[i].n - 1 + lost[i]) % SeqSpace
    BY DEF Numbers
  <1>4. \A i \in 1..M : next[i] = IF i + d <= L THEN win[i + d] ELSE p  OBVIOUS
  <1> HIDE DEF L, M
  <1> DEFINE gone == [i \in 1..M |-> IF i + d <= L THEN lost[i + d] ELSE s]
  <1>5. ASSUME NEW i \in 1..M
        PROVE  /\ next[i].gen = g /\ next[i].n = (n + 1) - M + i /\ gone[i] \in 0..s
               /\ next[i].seq = (b + next[i].n - 1 + gone[i]) % SeqSpace
    <2>1. CASE i + d <= L
      <3>1. i + d \in 1..L /\ next[i] = win[i + d] /\ gone[i] = lost[i + d]
        <4>1. i + d \in 1..L  BY <1>1, <2>1
        <4>2. next[i] = win[i + d]  BY <1>4, <2>1
        <4>3. gone[i] = lost[i + d]  BY <2>1
        <4> QED BY <4>1, <4>2, <4>3
      <3>2. next[i].gen = g /\ next[i].n = n - L + (i + d)  BY <1>2, <3>1
      <3>3. n - L + (i + d) = (n + 1) - M + i  BY <1>1, Shifted
      <3>4. lost[i + d] \in 0..s  BY <1>3, <3>1
      <3>5. next[i].seq = (b + next[i].n - 1 + gone[i]) % SeqSpace  BY <1>3, <3>1
      <3> QED BY <3>1, <3>2, <3>3, <3>4, <3>5
    <2>2. CASE ~(i + d <= L)
      <3>1. next[i] = p /\ gone[i] = s  BY <1>4, <2>2
      <3>2. i \in Int /\ i = M  BY <1>1, <2>2
      <3>3. (n + 1) - M + i = n + 1 /\ s \in 0..s  BY <1>1, <3>2
      <3>4. b + (n + 1) - 1 + s = b + n + s  OBVIOUS
      <3> QED BY <3>1, <3>3, <3>4
    <2> QED BY <2>1, <2>2
  <1>6. gone \in [1..M -> 0..s]  BY <1>5
  <1>7. ASSUME NEW i \in 1..M, NEW k \in 1..M, i <= k PROVE gone[i] <= gone[k]
    <2>1. CASE k + d <= L
      <3>1. i + d \in 1..L /\ k + d \in 1..L /\ i + d <= k + d  BY <1>1, <1>7, <2>1
      <3>2. gone[i] = lost[i + d] /\ gone[k] = lost[k + d]  BY <3>1
      <3> QED BY <1>3, <3>1, <3>2
    <2>2. CASE ~(k + d <= L)
      <3>1. gone[k] = s  BY <2>2
      <3> QED BY <1>5, <3>1
    <2> QED BY <2>1, <2>2
  <1>8. M <= LocalCap /\ M <= n + 1  BY <1>1
  <1> HIDE DEF gone
  <1>9. \E gaps \in [1..M -> 0..s] :
          /\ \A i, k \in 1..M : i <= k => gaps[i] <= gaps[k]
          /\ \A i \in 1..M : next[i].seq = (b + next[i].n - 1 + gaps[i]) % SeqSpace
    BY <1>5, <1>6, <1>7, Zenon
  <1>10. \A i \in 1..M : next[i].gen = g /\ next[i].n = (n + 1) - M + i  BY <1>5
  <1> QED BY <1>8, <1>9, <1>10, Zenon DEF Numbers, M

LEMMA VideoInv ==
    ASSUME CacheInv, NEW part \in {"start", "more", "last"}, Video(part)
    PROVE  CacheInv'
  <1> DEFINE p == [gen |-> gen, seq |-> NextSeq, n |-> sent + 1, part |-> part]
             d == IF Len(window) = LocalCap THEN 1 ELSE 0
             r == local[pub]
             n == Push(r, p)
  <1>1. /\ pub # NoWorker /\ sent + skipped < MaxSeq
        /\ sent' = sent + 1 /\ window' = LastOf(Append(window, p), LocalCap)
        /\ local' = [local EXCEPT ![pub] = n]
        /\ shm' = IF remote THEN Push(shm, p) ELSE shm
        /\ UNCHANGED <<pub, proto, gen, skipped, base>>
    BY DEF Video, ShmAppended
  <1>2. CacheTypes /\ Numbered /\ RingFollows /\ ShmCurrent  BY DEF CacheInv
  <1>3. /\ pub \in Processes /\ gen \in 1..MaxGens /\ sent \in Nat /\ skipped \in Nat /\ base \in Nat
        /\ r \in PacketRings(LocalCap) /\ shm \in PacketRings(ShmCap)
        /\ local \in [Processes -> PacketRings(LocalCap)]
    BY <1>1, <1>2, CacheNumbers DEF CacheTypes
  <1>4. NextSeq \in 0..(SeqSpace - 1) /\ NextSeq = (base + sent + skipped) % SeqSpace
    BY <1>3, CacheNumbers DEF NextSeq
  <1>5. p \in Packets  BY <1>1, <1>3, <1>4, CacheNumbers DEF Packets
  <1>6. Mirrors(r, window) /\ (FromRtmp \/ gen = 1 => r.count = Len(window))
    BY <1>1, <1>2 DEF RingFollows
  <1>7. p.gen = gen /\ p.n = sent + 1 /\ p.seq = NextSeq  OBVIOUS
  <1> HIDE DEF p, r
  <1>8. /\ Mirrors(n, window') /\ Len(window') = Len(window) + 1 - d
        /\ \A i \in 1..Len(window') :
              window'[i] = IF i + d <= Len(window) THEN window[i + d] ELSE p
        /\ r.count = Len(window) => n.count = Len(window')
    BY <1>1, <1>3, <1>5, <1>6, MirrorsPush
  <1>9. n \in PacketRings(LocalCap)  BY <1>3, <1>5, CacheNumbers, PushKeeps
  <1>10. d \in {0, 1} /\ (d = 1 <=> Len(window) = LocalCap)  OBVIOUS
  <1> HIDE DEF n, d
  <1>11. Numbered'
    <2>1. window' \in Seq(Packets)  BY <1>8 DEF Mirrors
    <2>2. Numbers(window, sent, gen, base, skipped)  BY <1>2 DEF Numbered
    <2>3. Numbers(window', sent + 1, gen, base, skipped)
      <3>1. p.gen = gen /\ p.n = sent + 1 /\ p.seq = (base + sent + skipped) % SeqSpace
        BY <1>4, <1>7
      <3> QED BY <1>3, <1>5, <1>8, <1>10, <2>1, <2>2, <3>1, NumbersPush, Zenon
    <2> QED BY <1>1, <2>3 DEF Numbered
  <1>12. local' \in [Processes -> PacketRings(LocalCap)] /\ local'[pub] = n
    BY <1>1, <1>3, <1>9
  <1>13. RingFollows'  BY <1>1, <1>6, <1>8, <1>12 DEF RingFollows, FromRtmp
  <1>14. shm' \in PacketRings(ShmCap)  BY <1>1, <1>3, <1>5, CacheNumbers, PushKeeps
  <1>15. CacheTypes'
    <2>1. sent' \in Nat /\ sent' + skipped <= MaxSeq  BY <1>1, <1>3, CacheNumbers
    <2>2. gen' # 0  BY <1>1, <1>3
    <2> QED BY <1>1, <1>2, <1>3, <1>12, <1>14, <2>1, <2>2 DEF CacheTypes
  <1>16. ShmCurrent'
    <2> SUFFICES ASSUME FromRtmp, NEW i \in Oldest(shm')..(shm'.head - 1)
                 PROVE  Slot(shm', i).gen = gen
      BY <1>1 DEF ShmCurrent, FromRtmp
    <2>1. /\ shm.head \in Nat /\ shm.count \in 0..ShmCap /\ shm.count <= shm.head
          /\ \A k \in (shm.head - shm.count)..(shm.head - 1) : Slot(shm, k).gen = gen
      BY <1>2, <1>3 DEF PacketRings, ShmCurrent, Oldest
    <2>2. CASE ~remote  BY <1>1, <2>1, <2>2 DEF Oldest
    <2>3. CASE remote
      <3>1. /\ shm'.head = shm.head + 1
            /\ shm'.count = IF shm.count < ShmCap THEN shm.count + 1 ELSE shm.count
            /\ Slot(shm', shm.head) = p
            /\ \A k \in Int : shm.head - ShmCap < k /\ k < shm.head => Slot(shm', k) = Slot(shm, k)
        BY <1>1, <1>3, <1>5, <2>3, CacheNumbers, PushKeeps
      <3>2. i \in (shm'.head - shm'.count)..(shm'.head - 1)  BY DEF Oldest
      <3>3. CASE i = shm.head  BY <1>7, <3>1, <3>3
      <3>4. CASE i # shm.head
        <4>1. ShmCap \in Nat \ {0}  BY CacheNumbers
        <4>2. /\ i \in Int /\ shm.head - ShmCap < i /\ i < shm.head
              /\ i \in (shm.head - shm.count)..(shm.head - 1)
          BY <2>1, <3>1, <3>2, <3>4, <4>1
        <4> QED BY <2>1, <3>1, <4>2
      <3> QED BY <3>3, <3>4
    <2> QED BY <2>2, <2>3
  <1> QED BY <1>11, <1>13, <1>15, <1>16 DEF CacheInv

LEMMA LostInv == ASSUME CacheInv, Lost PROVE CacheInv'
  <1>1. /\ proto = "whip" /\ skipped' = skipped + 1 /\ skipped < MaxSkipped
        /\ sent + skipped < MaxSeq
        /\ UNCHANGED <<pub, proto, gen, sent, window, base, local, shm>>
    BY DEF Lost
  <1>2. CacheTypes /\ Numbered /\ RingFollows /\ ShmCurrent  BY DEF CacheInv
  <1>3. skipped \in Nat /\ skipped' \in Nat /\ skipped < skipped'
    BY <1>1, <1>2, CacheNumbers DEF CacheTypes
  <1>4. Numbered'
    <2>1. PICK lost \in [1..Len(window) -> 0..skipped] :
             /\ \A i, k \in 1..Len(window) : i <= k => lost[i] <= lost[k]
             /\ \A i \in 1..Len(window) :
                   window[i].seq = (base + window[i].n - 1 + lost[i]) % SeqSpace
      BY <1>2 DEF Numbered, Numbers
    <2>2. lost \in [1..Len(window) -> 0..skipped']  BY <1>3
    <2>3. UNCHANGED <<gen, sent, window, base>>  BY <1>1
    <2> QED BY <1>2, <2>1, <2>2, <2>3, Zenon DEF Numbered, Numbers
  <1>5. CacheTypes'
    <2>1. sent + skipped' <= MaxSeq /\ skipped' \in 0..MaxSkipped
      BY <1>1, <1>2, CacheNumbers DEF CacheTypes
    <2> QED BY <1>1, <1>2, <2>1 DEF CacheTypes
  <1>6. RingFollows' /\ ShmCurrent'
    BY <1>1, <1>2 DEF RingFollows, ShmCurrent, FromRtmp, Mirrors, Oldest, Slot
  <1> QED BY <1>4, <1>5, <1>6 DEF CacheInv

LEMMA PublisherLeavesInv == ASSUME CacheInv, PublisherLeaves PROVE CacheInv'
  <1>1. PICK held \in BOOLEAN :
           /\ pub # NoWorker /\ pub' = NoWorker
           /\ local' = [local EXCEPT ![pub] = IF held THEN @ ELSE EmptyRing(LocalCap)]
           /\ UNCHANGED <<proto, gen, sent, window, skipped, base, shm>>
    BY DEF PublisherLeaves
  <1>2. CacheTypes /\ Numbered /\ RingFollows /\ ShmCurrent  BY DEF CacheInv
  <1>3. EmptyRing(LocalCap) \in PacketRings(LocalCap)  BY CacheNumbers, EmptyIsRing
  <1>4. /\ pub \in Processes /\ gen # 0 /\ local \in [Processes -> PacketRings(LocalCap)]
    BY <1>1, <1>2 DEF CacheTypes
  <1>5. local' \in [Processes -> PacketRings(LocalCap)]  BY <1>1, <1>3, <1>4
  <1>6. CacheTypes'  BY <1>1, <1>2, <1>4, <1>5 DEF CacheTypes
  <1>7. Numbered'  BY <1>1, <1>2 DEF Numbered
  <1>8. RingFollows' /\ ShmCurrent'  BY <1>1 DEF RingFollows, ShmCurrent, FromRtmp
  <1> QED BY <1>6, <1>7, <1>8 DEF CacheInv

LEMMA CacheStep == CacheInv /\ [CacheNext]_cacheVars => CacheInv'
  <1> SUFFICES ASSUME CacheInv, [CacheNext]_cacheVars PROVE CacheInv'  OBVIOUS
  <1> DEFINE kept == <<pub, proto, gen, sent, window, skipped, base, local, shm>>
  <1>1. ASSUME UNCHANGED kept PROVE CacheInv'
    <2>1. CacheTypes'  BY <1>1 DEF CacheInv, CacheTypes
    <2>2. Numbered'  BY <1>1 DEF CacheInv, Numbered
    <2>3. RingFollows' /\ ShmCurrent'
      BY <1>1 DEF CacheInv, RingFollows, ShmCurrent, FromRtmp, Mirrors, Oldest, Slot
    <2> QED BY <2>1, <2>2, <2>3 DEF CacheInv
  <1>2. ASSUME NEW w \in Processes, StartRtmp(w) PROVE CacheInv'  BY <1>2, StartRtmpInv
  <1>3. ASSUME NEW w \in Processes, Pli(w) PROVE CacheInv'  BY <1>1, <1>3 DEF Pli
  <1>4. ASSUME NEW w \in Processes, NEW s \in FirstSeqs, StartWhip(w, s) PROVE CacheInv'
    BY <1>4, StartWhipInv
  <1>5. ASSUME NEW part \in {"start", "more", "last"}, Video(part) PROVE CacheInv'
    BY <1>5, VideoInv
  <1>6. CASE PublisherLeaves  BY <1>6, PublisherLeavesInv
  <1>7. CASE Lost  BY <1>7, LostInv
  <1>8. CASE RemoteViewers  BY <1>1, <1>8 DEF RemoteViewers
  <1>9. CASE IntervalOver  BY <1>1, <1>9 DEF IntervalOver
  <1>10. CASE UNCHANGED cacheVars  BY <1>1, <1>10 DEF cacheVars
  <1> QED BY <1>2, <1>3, <1>4, <1>5, <1>6, <1>7, <1>8, <1>9, <1>10 DEF CacheNext

-----------------------------------------------------------------------------
(* What the caches answer *)

(* How far apart the numbers of a window's i-th and k-th packets are.       *)
LEMMA Spread ==
    ASSUME NEW b \in Int, NEW n \in Int, NEW l \in Int, NEW i \in Int, NEW k \in Int,
           NEW before \in Int, NEW after \in Int
    PROVE  LET x == b + (n - l + i) - 1 + before
               y == b + (n - l + k) - 1 + after
           IN  x \in Int /\ y \in Int /\ y - x = (k - i) + (after - before)
  OBVIOUS

(* Within a window no two packets have one number: less than a number space *)
(* lies between them, the losses included.                                  *)
LEMMA WindowDistinct ==
    ASSUME CacheInv, NEW i \in 1..Len(window), NEW k \in 1..Len(window),
           window[i].seq = window[k].seq, i <= k
    PROVE  i = k
  <1> DEFINE L == Len(window)
  <1>1. PICK lost \in [1..L -> 0..skipped] :
           /\ \A a, c \in 1..L : a <= c => lost[a] <= lost[c]
           /\ \A a \in 1..L : window[a].seq = (base + window[a].n - 1 + lost[a]) % SeqSpace
    BY DEF CacheInv, Numbered, Numbers
  <1>2. L \in Nat /\ L <= LocalCap /\ \A a \in 1..L : window[a].n = sent - L + a
    BY DEF CacheInv, Numbered, Numbers
  <1>3. /\ skipped \in Nat /\ skipped <= MaxSkipped /\ base \in Nat /\ sent \in Nat
    BY CacheNumbers DEF CacheInv, CacheTypes
  <1> HIDE DEF L
  <1>4. i \in 1..L /\ k \in 1..L  BY DEF L
  <1> DEFINE x == base + (sent - L + i) - 1 + lost[i]
             y == base + (sent - L + k) - 1 + lost[k]
  <1>5. lost[i] \in 0..skipped /\ lost[k] \in 0..skipped /\ lost[i] <= lost[k]  BY <1>1, <1>4
  <1>6. x % SeqSpace = y % SeqSpace  BY <1>1, <1>2, <1>4
  <1> DEFINE before == lost[i]
             after  == lost[k]
  <1>7. /\ L \in Int /\ i \in Int /\ k \in Int /\ before \in Int /\ after \in Int
        /\ sent \in Int /\ base \in Int
        /\ k - i <= LocalCap - 1 /\ 0 <= k - i
        /\ after - before <= MaxSkipped /\ 0 <= after - before
    BY <1>2, <1>3, <1>4, <1>5, CacheNumbers
  <1> HIDE DEF before, after
  <1>8. /\ x \in Int /\ y \in Int /\ y - x = (k - i) + (after - before)
    <2>1. x = base + (sent - L + i) - 1 + before /\ y = base + (sent - L + k) - 1 + after
      BY DEF x, y, before, after
    <2> HIDE DEF x, y
    <2> QED BY <1>7, <2>1, Spread
  <1> HIDE DEF x, y
  <1>9. y - x \in 0..(SeqSpace - 1)  BY <1>7, <1>8, CacheNumbers
  <1>10. x = y  BY <1>6, <1>8, <1>9, CacheNumbers, ModDistinct
  <1> QED BY <1>7, <1>8, <1>10

(* Where a ring holds nothing but the window, what it retains is the window.*)
LEMMA RingIsWindow ==
    ASSUME CacheInv, pub # NoWorker, FromRtmp \/ gen = 1
    PROVE  LET r == local[pub]
           IN  /\ r.head \in Nat /\ r.count = Len(window) /\ Oldest(r) = r.head - Len(window)
               /\ Len(window) \in Nat /\ Oldest(r) \in Int
               /\ \A at \in Oldest(r)..(r.head - 1) :
                     /\ at - Oldest(r) + 1 \in 1..Len(window)
                     /\ Slot(r, at) = window[at - Oldest(r) + 1]
  <1> DEFINE r == local[pub]
  <1>1. r.count = Len(window) /\ Mirrors(r, window)  BY DEF CacheInv, RingFollows
  <1>2. r \in PacketRings(LocalCap)  BY DEF CacheInv, CacheTypes
  <1>3. r.head \in Nat /\ r.count <= r.head  BY <1>2 DEF PacketRings
  <1>4. Len(window) \in Nat  BY <1>1 DEF Mirrors
  <1>5. Oldest(r) = r.head - Len(window) /\ Oldest(r) \in Int  BY <1>1, <1>3, <1>4 DEF Oldest
  <1>6. ASSUME NEW at \in Oldest(r)..(r.head - 1)
        PROVE  /\ at - Oldest(r) + 1 \in 1..Len(window)
               /\ Slot(r, at) = window[at - Oldest(r) + 1]
    <2>1. at - Oldest(r) + 1 \in 1..Len(window)  BY <1>3, <1>4, <1>5
    <2>2. r.head - Len(window) + (at - Oldest(r) + 1) - 1 = at  BY <1>3, <1>4, <1>5
    <2> QED BY <1>1, <2>1, <2>2 DEF Mirrors
  <1> QED BY <1>1, <1>3, <1>4, <1>5, <1>6

(* Numbers of one residue distance apart, below the modulus. *)
LEMMA ModDistance ==
    ASSUME NEW N \in Nat \ {0}, NEW a \in Int, NEW k \in 0..(N - 1)
    PROVE  (((a + k) % N) - (a % N)) % N = k
  <1> DEFINE x  == a + k
             q  == x \div N
             m  == x % N
             qa == a \div N
             ma == a % N
  <1>1. x \in Int  OBVIOUS
  <1>2. q \in Int /\ m \in Int /\ x = N * q + m  BY <1>1, DivSplit
  <1>3. qa \in Int /\ ma \in Int /\ a = N * qa + ma  BY DivSplit
  <1> HIDE DEF q, m, qa, ma
  <1> DEFINE c == qa - q
  <1>4. c \in Int /\ N * c = N * qa - N * q  BY <1>2, <1>3
  <1>5. m - ma \in Int /\ m - ma = N * c + k  BY <1>2, <1>3, <1>4
  <1> HIDE DEF c
  <1>6. (m - ma) % N = k  BY <1>4, <1>5, ModUnique
  <1> QED BY <1>6 DEF m, ma

LEMMA RetainedAnswered == ASSUME CacheInv PROVE RetainedFound
  <1> SUFFICES ASSUME FromRtmp, NEW p \in Retained(local[pub]) PROVE Get(local[pub], p.seq) = p
    BY DEF RetainedFound
  <1> DEFINE r   == local[pub]
             L   == Len(window)
             old == Oldest(r)
  <1>1. pub # NoWorker /\ proto = "rtmp"  BY DEF FromRtmp
  <1>2. /\ r.head \in Nat /\ r.count = L /\ old = r.head - L /\ L \in Nat /\ old \in Int
        /\ \A at \in old..(r.head - 1) : /\ at - old + 1 \in 1..L
                                         /\ Slot(r, at) = window[at - old + 1]
    BY <1>1, RingIsWindow
  <1>3. PICK at \in old..(r.head - 1) : p = Slot(r, at)  BY DEF Retained
  <1>4. PICK lost \in [1..L -> 0..skipped] :
           \A i \in 1..L : window[i].seq = (base + window[i].n - 1 + lost[i]) % SeqSpace
    BY DEF CacheInv, Numbered, Numbers
  <1>5. \A i \in 1..L : window[i].n = sent - L + i  BY DEF CacheInv, Numbered, Numbers
  <1>6. /\ base = 0 /\ skipped = 0 /\ sent \in Nat /\ L <= SeqSpace
    BY <1>1, CacheNumbers DEF CacheInv, CacheTypes, Numbered, Numbers
  <1> HIDE DEF r, L, old
  <1>7. \A i \in 1..L : window[i].seq = (sent - L + i - 1) % SeqSpace
    <2> SUFFICES ASSUME NEW i \in 1..L PROVE window[i].seq = (sent - L + i - 1) % SeqSpace  OBVIOUS
    <2>1. lost[i] = 0  BY <1>4, <1>6
    <2>2. window[i].n = sent - L + i /\ i \in Int /\ L \in Int /\ sent \in Int  BY <1>2, <1>5, <1>6
    <2>3. 0 + (sent - L + i) - 1 + 0 = sent - L + i - 1  BY <2>2
    <2> QED BY <1>4, <1>6, <2>1, <2>2, <2>3
  <1> DEFINE k == at - old
             a == sent - L
  <1>8. k \in 0..(L - 1) /\ k \in 0..(SeqSpace - 1) /\ a \in Int /\ old + k = at
    <2>1. at \in Int /\ old <= at /\ at <= r.head - 1  BY <1>2, <1>3
    <2>2. at - old <= L - 1  BY <1>2, <2>1
    <2>3. k \in Int /\ 0 <= k /\ k <= L - 1 /\ old + k = at
      <3>1. old \in Int /\ L \in Int  BY <1>2
      <3> QED BY <2>1, <2>2, <3>1
    <2>4. a \in Int  BY <1>2, <1>6
    <2> HIDE DEF k, a
    <2> QED BY <1>2, <1>6, <2>3, <2>4, CacheNumbers
  <1>9. p = window[k + 1] /\ p.seq = (a + k) % SeqSpace
    <2>1. k + 1 \in 1..L /\ sent - L + (k + 1) - 1 = a + k  BY <1>2, <1>6, <1>8
    <2>2. p = window[k + 1]  BY <1>2, <1>3
    <2> QED BY <1>7, <2>1, <2>2
  <1>10. Slot(r, old).seq = a % SeqSpace
    <2>1. old \in old..(r.head - 1) /\ old - old + 1 = 1 /\ 1 \in 1..L
      <3>1. at \in Int /\ old <= at /\ at <= r.head - 1  BY <1>2, <1>3
      <3>2. old <= r.head - 1  BY <1>2, <3>1
      <3>3. old \in old..(r.head - 1)  BY <1>2, <3>2
      <3>4. old - old + 1 = 1  BY <1>2
      <3>5. 1 \in 1..L  BY <1>2
      <3> QED BY <3>3, <3>4, <3>5
    <2>2. Slot(r, old) = window[1]  BY <1>2, <2>1
    <2>3. sent - L + 1 - 1 = a  BY <1>2, <1>6
    <2> QED BY <1>7, <2>1, <2>2, <2>3
  <1> HIDE DEF k, a
  <1>11. (p.seq - Slot(r, old).seq) % SeqSpace = k  BY <1>8, <1>9, <1>10, CacheNumbers, ModDistance
  <1>12. ~(r.count = 0 \/ k >= r.count)  BY <1>2, <1>8
  <1>13. Slot(r, old + k) = p  BY <1>3, <1>8
  <1> QED BY <1>11, <1>12, <1>13 DEF Get, r, old

LEMMA GenerationHeld == ASSUME CacheInv PROVE CurrentGeneration
  <1> SUFFICES ASSUME FromRtmp, NEW r \in {local[pub], shm}, NEW p \in Retained(r)
               PROVE  p.gen = gen
    BY DEF CurrentGeneration
  <1>1. PICK at \in Oldest(r)..(r.head - 1) : p = Slot(r, at)  BY DEF Retained
  <1>2. CASE r = shm  BY <1>1, <1>2 DEF CacheInv, ShmCurrent
  <1>3. CASE r = local[pub]
    <2>1. at - Oldest(r) + 1 \in 1..Len(window) /\ p = window[at - Oldest(r) + 1]
      BY <1>1, <1>3, RingIsWindow DEF FromRtmp
    <2> QED BY <2>1 DEF CacheInv, Numbered, Numbers
  <1> QED BY <1>2, <1>3

LEMMA NewestAnswered == ASSUME CacheInv PROVE NewestServed
  <1> SUFFICES ASSUME FromRtmp \/ (pub # NoWorker /\ gen = 1), NEW s \in 0..(SeqSpace - 1),
                      Get(local[pub], s) # Miss
               PROVE  \E i \in DOMAIN window :
                         /\ window[i] = Get(local[pub], s) /\ Get(local[pub], s).seq = s
                         /\ \A k \in DOMAIN window : window[k].seq = s => k <= i
    BY DEF NewestServed
  <1> DEFINE r    == local[pub]
             old  == Oldest(r)
             dist == (s - Slot(r, old).seq) % SeqSpace
             p    == Slot(r, old + dist)
  <1>1. pub # NoWorker  BY DEF FromRtmp
  <1>2. Get(r, s) = p /\ ~(r.count = 0 \/ dist >= r.count \/ p.seq # s)  BY DEF Get
  <1>3. /\ r.head \in Nat /\ r.count = Len(window) /\ old = r.head - Len(window)
        /\ Len(window) \in Nat /\ old \in Int
        /\ \A at \in old..(r.head - 1) : /\ at - old + 1 \in 1..Len(window)
                                         /\ Slot(r, at) = window[at - old + 1]
    BY <1>1, RingIsWindow
  <1>4. Slot(r, old).seq \in Int
    <2>1. old \in old..(r.head - 1) /\ old - old + 1 = 1  BY <1>2, <1>3
    <2>2. 1 \in 1..Len(window) /\ Slot(r, old) = window[1]  BY <1>3, <2>1
    <2>3. window[1] \in Packets  BY <2>2 DEF CacheInv, Numbered, Numbers
    <2> QED BY <2>2, <2>3, CacheNumbers DEF Packets
  <1>5. dist \in Nat  BY <1>4, CacheNumbers
  <1> HIDE DEF p, dist, old, r
  <1>6. old + dist \in old..(r.head - 1) /\ (old + dist) - old + 1 = dist + 1
    <2>1. dist <= Len(window) - 1  BY <1>2, <1>3, <1>5
    <2>2. old + dist <= r.head - 1  BY <1>3, <1>5, <2>1
    <2>3. old <= old + dist /\ old + dist \in Int  BY <1>3, <1>5
    <2>4. (old + dist) - old + 1 = dist + 1  BY <1>3, <1>5
    <2> QED BY <1>3, <2>2, <2>3, <2>4
  <1>7. dist + 1 \in 1..Len(window) /\ p = window[dist + 1]  BY <1>3, <1>6 DEF p
  <1>8. DOMAIN window = 1..Len(window)  BY DEF CacheInv, Numbered, Numbers
  <1>9. ASSUME NEW k \in DOMAIN window, window[k].seq = s PROVE k <= dist + 1
    <2>1. k \in 1..Len(window) /\ window[dist + 1].seq = s  BY <1>2, <1>7, <1>8
    <2> SUFFICES ASSUME ~(k <= dist + 1) PROVE FALSE  OBVIOUS
    <2>2. dist + 1 <= k  BY <1>3, <1>5, <2>1
    <2>3. dist + 1 = k  BY <1>7, <1>9, <2>1, <2>2, WindowDistinct
    <2> QED BY <1>3, <1>5, <2>1, <2>3
  <1> QED BY <1>2, <1>7, <1>8, <1>9 DEF r

LEMMA GreatestExists ==
    ASSUME NEW L \in Nat, NEW S \in SUBSET (1..L), S # {}
    PROVE  Max(S) \in S /\ \A y \in S : y <= Max(S)
  <1> DEFINE T == {L - x : x \in S}
  <1>1. T \in SUBSET Nat /\ T # {}
    <2>1. \A x \in S : x \in 1..L /\ L - x \in Nat  OBVIOUS
    <2>2. PICK x \in S : TRUE  OBVIOUS
    <2>3. L - x \in T  OBVIOUS
    <2> QED BY <2>1, <2>3
  <1>2. Min(T) \in T /\ \A y \in T : Min(T) <= y  BY <1>1, LeastExists
  <1>3. PICK x \in S : Min(T) = L - x  BY <1>2
  <1>4. \A y \in S : L - x <= L - y  BY <1>2, <1>3
  <1>5. \A y \in S : x >= y  BY <1>4
  <1>6. \E z \in S : \A y \in S : z >= y  BY <1>5
  <1>7. Max(S) \in S /\ \A y \in S : Max(S) >= y  BY <1>6, Zenon DEF Max
  <1> QED BY <1>7

(* A replay goes from the ring's keyframe to the newest packet at most.     *)
LEMMA ReplayExtent ==
    ASSUME NEW r, r.head \in Nat, NEW from \in Nat, from < r.head, ReplayFrom(r) = from
    PROVE  ReplayTo(r) \in from..(r.head - 1)
  <1> DEFINE ends == {i \in from..(r.head - 1) : Slot(r, i).part = "last"}
  <1>1. ReplayTo(r) = IF ends = {} THEN r.head - 1 ELSE Min(ends)  BY DEF ReplayTo
  <1>2. CASE ends = {}  BY <1>1, <1>2
  <1>3. CASE ends # {}
    <2>1. ends \in SUBSET Nat  OBVIOUS
    <2>2. Min(ends) \in ends  BY <1>3, <2>1, LeastExists
    <2> QED BY <1>1, <1>3, <2>2
  <1> QED BY <1>2, <1>3

LEMMA LatestKeyAnswered == ASSUME CacheInv PROVE LatestKeyServed
  <1> DEFINE r  == local[pub]
             L  == Len(window)
             m  == Max(Keyframes)
             from == ReplayFrom(r)
             to == ReplayTo(r)
             reply == Replay(r)
  <1> SUFFICES ASSUME pub # NoWorker, Keyframes # {}
               PROVE  /\ reply # <<>>
                      /\ \A i \in DOMAIN reply : m + i - 1 \in DOMAIN window
                                               /\ reply[i] = window[m + i - 1]
    BY DEF LatestKeyServed
  <1>1. r \in PacketRings(LocalCap) /\ Mirrors(r, window)
    BY DEF CacheInv, CacheTypes, RingFollows
  <1>2. /\ r.head \in Nat /\ r.count \in Nat /\ r.count <= r.head /\ r.gop \in Nat
    BY <1>1, CacheNumbers DEF PacketRings
  <1>3. L \in Nat /\ L <= r.count /\ DOMAIN window = 1..L  BY <1>1 DEF Mirrors
  <1>4. m \in Keyframes /\ \A k \in Keyframes : k <= m
    <2>1. Keyframes \in SUBSET (1..L)  BY <1>3 DEF Keyframes
    <2> QED BY <1>3, <2>1, GreatestExists
  <1>5. m \in 1..L /\ window[m].part = "start"  BY <1>3, <1>4 DEF Keyframes
  <1>6. \A k \in (m + 1)..L : window[k].part # "start"
    <2> SUFFICES ASSUME NEW k \in (m + 1)..L, window[k].part = "start" PROVE FALSE  OBVIOUS
    <2>1. k \in 1..L /\ ~(k <= m)  BY <1>3, <1>5
    <2> QED BY <1>3, <1>4, <2>1 DEF Keyframes
  <1>7. r.gop = r.head - L + m - 1  BY <1>1, <1>5, <1>6 DEF Mirrors
  <1>8. from = r.gop /\ from \in Nat /\ from < r.head
    <2>1. Oldest(r) \in Int /\ Oldest(r) <= r.gop /\ r.gop < r.head
      BY <1>2, <1>3, <1>5, <1>7 DEF Oldest
    <2> QED BY <1>2, <2>1 DEF ReplayFrom
  <1>9. to \in from..(r.head - 1)  BY <1>2, <1>8, ReplayExtent
  <1>10. reply = [k \in 1..(to - from + 1) |-> Slot(r, from + k - 1)]
    <2>1. r.count # 0  BY <1>2, <1>3, <1>5
    <2> QED BY <2>1 DEF Replay
  <1> HIDE DEF reply, r, L, m, from, to
  <1>11. to - from + 1 \in Nat /\ to - from + 1 >= 1  BY <1>2, <1>8, <1>9
  <1>12. reply # <<>>
    <2>1. 1 \in DOMAIN reply  BY <1>10, <1>11
    <2> QED BY <2>1
  <1>13. ASSUME NEW i \in DOMAIN reply
         PROVE  m + i - 1 \in DOMAIN window /\ reply[i] = window[m + i - 1]
    <2>1. i \in 1..(to - from + 1) /\ reply[i] = Slot(r, from + i - 1)  BY <1>10
    <2>2. i \in Int /\ 1 <= i /\ from + i - 1 <= r.head - 1  BY <1>2, <1>8, <1>9, <2>1
    <2>3. m \in Int /\ 1 <= m /\ from = r.head - L + m - 1  BY <1>3, <1>5, <1>7, <1>8
    <2>4. m + i - 1 \in 1..L  BY <1>2, <1>3, <2>2, <2>3
    <2>5. r.head - L + (m + i - 1) - 1 = from + i - 1  BY <1>2, <1>3, <2>2, <2>3
    <2>6. Slot(r, from + i - 1) = window[m + i - 1]  BY <1>1, <2>4, <2>5 DEF Mirrors, L
    <2> QED BY <1>3, <2>1, <2>4, <2>6
  <1> QED BY <1>12, <1>13

(* Whatever the size of the rings and of the number space, wherever the     *)
(* publisher comes back and over which protocol, and whatever its uplink    *)
(* loses short of a whole number space: what a NACK is answered with on the *)
(* publisher's worker is the packet meant, of this publish, and a replay    *)
(* begins with the latest keyframe that is still held.                      *)
THEOREM CachesExact == CacheSpec => []CacheExact
  <1>1. CacheInit => CacheInv  BY CacheInitInv
  <1>2. CacheInv /\ [CacheNext]_cacheVars => CacheInv'  BY CacheStep
  <1>3. CacheInv => CacheExact
    BY RetainedAnswered, GenerationHeld, NewestAnswered, LatestKeyAnswered DEF CacheExact
  <1> QED BY <1>1, <1>2, <1>3, PTL DEF CacheSpec

=============================================================================
