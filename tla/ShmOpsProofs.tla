---------------------------- MODULE ShmOpsProofs ----------------------------
(***************************************************************************)
(* Lemmas about the registry's operators, for any number of names, cells,  *)
(* ufrags and workers and any timeouts.                                    *)
(*                                                                         *)
(* The invariants are stated over a zone R, so that one lemma per registry *)
(* operation serves every action that performs it: ExpireLocked runs on    *)
(* its own, inside SourceGet and inside SessionAdd, and the registry's     *)
(* actions and the workers' handlers perform the same operations.          *)
(***************************************************************************)
EXTENDS ShmOps, FiniteSetTheorems, TLAPS

UniqueIn(R) ==
    \A c, d \in Cells :
        R.src[c].live /\ R.src[d].live /\ R.src[c].name = R.src[d].name => c = d

HeldIn(R) ==
    \A u \in Ufrags :
        /\ R.sess[u].ready => R.sess[u].owner # NoSlot /\ R.sess[u].expires = Unarmed
        /\ R.sess[u].linked => R.sess[u].ready /\ ~R.sess[u].pub

NoOrphanIn(R) ==
    \A c \in Cells :
        /\ R.src[c].live /\ ~R.src[c].publishing /\ Subscribers(R, c) = {}
             => R.src[c].expires # Unarmed
        /\ R.src[c].publishing => R.src[c].expires = Unarmed /\ R.src[c].kind # "none"

LiveIn(R) == \A u \in Ufrags : R.sess[u].live => R.src[R.sess[u].src].live

(* The inductive invariant over a zone. *)
RegInv(R) == R \in RegType /\ UniqueIn(R) /\ HeldIn(R) /\ NoOrphanIn(R)

(* Free cells and skeletons have the type of the live ones. *)
LEMMA FreshTypes ==
    /\ \A n \in Names : NewSource(n) \in SourceType
    /\ FreeSource \in SourceType
    /\ \A c \in Cells, pub \in BOOLEAN : NewSkeleton(c, pub) \in SkeletonType
    /\ FreeSkeleton \in SkeletonType
<1>1. \A n \in Names : NewSource(n) \in SourceType
  BY ShmTimes DEF NewSource, SourceType, Kinds, Unarmed
<1>2. AnyName \in Names
  BY ShmSets DEF AnyName
<1>3. FreeSource \in SourceType
  <2> DEFINE x == NewSource(AnyName)
  <2>1. x \in SourceType BY <1>1, <1>2
  <2>2. FreeSource = [x EXCEPT !.live = FALSE] BY DEF FreeSource
  <2> HIDE DEF x
  <2> QED BY <2>1, <2>2 DEF SourceType
<1>4. \A c \in Cells, pub \in BOOLEAN : NewSkeleton(c, pub) \in SkeletonType
  BY ShmTimes DEF NewSkeleton, SkeletonType, States, Unarmed
<1>5. AnyCell \in Cells
  BY ShmSets DEF AnyCell
<1>6. FreeSkeleton \in SkeletonType
  <2> DEFINE x == NewSkeleton(AnyCell, FALSE)
  <2>1. x \in SkeletonType BY <1>4, <1>5
  <2>2. FreeSkeleton = [x EXCEPT !.live = FALSE] BY DEF FreeSkeleton
  <2> HIDE DEF x
  <2> QED BY <2>1, <2>2 DEF SkeletonType
<1> QED BY <1>1, <1>3, <1>4, <1>6

(* The subscribers of a source are finitely many. *)
LEMMA CountsAreNat ==
    ASSUME NEW S \in SUBSET Ufrags PROVE Cardinality(S) \in Nat
BY ShmSets, FS_Subset, FS_CardinalityType

(* What a free skeleton and a free source look like. *)
LEMMA FreeShapes ==
    /\ ~FreeSource.live /\ ~FreeSource.publishing
    /\ ~FreeSkeleton.live /\ ~FreeSkeleton.ready /\ ~FreeSkeleton.linked
BY DEF FreeSource, NewSource, FreeSkeleton, NewSkeleton

(* What leaving changes in a source record. *)
LEMMA LeaveSourceFields ==
    ASSUME NEW R \in RegType, NEW c \in Cells, NEW S \in SUBSET Ufrags
    PROVE  /\ LeaveSource(R, c, S) \in SourceType
           /\ LeaveSource(R, c, S).live = R.src[c].live
           /\ LeaveSource(R, c, S).name = R.src[c].name
           /\ LeaveSource(R, c, S).publishing = R.src[c].publishing
           /\ LeaveSource(R, c, S).kind = R.src[c].kind
           /\ LeaveSource(R, c, S).expires =
                IF /\ Subscribers(R, c) \subseteq S
                   /\ ~R.src[c].publishing
                   /\ R.src[c].expires = Unarmed
                THEN SourceExpire ELSE R.src[c].expires
<1>1. R.src[c] \in SourceType BY DEF RegType
<1>2. /\ Cardinality(S \cap Subscribers(R, c)) \in Nat
      /\ Cardinality(RemoteIn(R, c, S)) \in Nat
  BY CountsAreNat DEF Subscribers, RemoteIn
<1>3. \A j, k \in Nat : AtLeastZero(j - k) \in Nat
  BY DEF AtLeastZero
<1>4. SourceExpire \in {Unarmed} \cup 0..SourceExpire
  BY ShmTimes
<1> DEFINE v == R.src[c].version + Cardinality(S \cap Subscribers(R, c))
           r == AtLeastZero(R.src[c].remote - Cardinality(RemoteIn(R, c, S)))
           e == IF /\ Subscribers(R, c) \subseteq S
                   /\ ~R.src[c].publishing
                   /\ R.src[c].expires = Unarmed
                THEN SourceExpire ELSE R.src[c].expires
<1>5. v \in Nat /\ r \in Nat /\ e \in {Unarmed} \cup 0..SourceExpire
  BY <1>1, <1>2, <1>3, <1>4 DEF SourceType
<1>6. LeaveSource(R, c, S)
        = [R.src[c] EXCEPT !.version = v, !.remote = r, !.expires = e]
  BY DEF LeaveSource
<1> HIDE DEF v, r, e
<1>7. /\ LeaveSource(R, c, S) \in SourceType
      /\ LeaveSource(R, c, S).live = R.src[c].live
      /\ LeaveSource(R, c, S).name = R.src[c].name
      /\ LeaveSource(R, c, S).publishing = R.src[c].publishing
      /\ LeaveSource(R, c, S).kind = R.src[c].kind
      /\ LeaveSource(R, c, S).expires = e
  BY <1>1, <1>5, <1>6 DEF SourceType
<1> QED BY <1>7 DEF e

(* Freeing a set of skeletons keeps the invariant: the source that loses    *)
(* its last subscriber while unpublished is given a deadline.               *)
LEMMA FreeSessionsInv ==
    ASSUME NEW R, RegInv(R), NEW S \in SUBSET Ufrags
    PROVE  RegInv(FreeSessions(R, S))
<1> DEFINE T == FreeSessions(R, S)
<1>0. R \in RegType BY DEF RegInv
<1>1. \A c \in Cells :
         \/ T.src[c] = R.src[c]
         \/ T.src[c] = LeaveSource(R, c, S)
  BY DEF FreeSessions
<1>2. \A u \in Ufrags : T.sess[u] = IF u \in S THEN FreeSkeleton ELSE R.sess[u]
  BY DEF FreeSessions
<1>3. T \in RegType
  <2>1. \A c \in Cells : T.src[c] \in SourceType
    BY <1>0, <1>1, LeaveSourceFields DEF RegType
  <2>2. \A u \in Ufrags : T.sess[u] \in SkeletonType
    BY <1>0, <1>2, FreshTypes DEF RegType
  <2> QED BY <2>1, <2>2 DEF FreeSessions, RegType
<1>4. \A c \in Cells : /\ T.src[c].live = R.src[c].live
                       /\ T.src[c].name = R.src[c].name
                       /\ T.src[c].publishing = R.src[c].publishing
                       /\ T.src[c].kind = R.src[c].kind
  BY <1>0, <1>1, LeaveSourceFields
<1>5. UniqueIn(T)
  BY <1>4 DEF RegInv, UniqueIn
<1>6. HeldIn(T)
  BY <1>2, FreeShapes DEF RegInv, HeldIn
<1>7. NoOrphanIn(T)
  <2> SUFFICES ASSUME NEW c \in Cells
               PROVE /\ /\ T.src[c].live
                        /\ ~T.src[c].publishing
                        /\ Subscribers(T, c) = {}
                        => T.src[c].expires # Unarmed
                     /\ T.src[c].publishing =>
                          T.src[c].expires = Unarmed /\ T.src[c].kind # "none"
    BY DEF NoOrphanIn
  <2>1. Subscribers(T, c) = Subscribers(R, c) \ S
    BY <1>2, FreeShapes DEF Subscribers
  <2>2. SourceExpire # Unarmed
    BY ShmTimes DEF Unarmed
  <2>3. CASE T.src[c] = R.src[c]
    <3>1. CASE R.src[c].live /\ Subscribers(T, c) # Subscribers(R, c)
      <4>1. \E u \in S : R.sess[u].live /\ R.sess[u].src = c
        BY <3>1, <2>1 DEF Subscribers
      <4>2. T.src[c] = LeaveSource(R, c, S)
        BY <4>1, <3>1 DEF FreeSessions
      <4> QED BY <4>2, <1>0, <1>4, <2>1, <2>2, LeaveSourceFields
              DEF RegInv, NoOrphanIn
    <3>2. CASE Subscribers(T, c) = Subscribers(R, c)
      BY <2>3, <3>2 DEF RegInv, NoOrphanIn
    <3> QED BY <2>3, <3>1, <3>2 DEF RegInv, NoOrphanIn
  <2>4. CASE T.src[c] = LeaveSource(R, c, S)
    BY <2>4, <1>0, <1>4, <2>1, <2>2, LeaveSourceFields DEF RegInv, NoOrphanIn
  <2> QED BY <1>1, <2>3, <2>4
<1> QED BY <1>3, <1>5, <1>6, <1>7 DEF RegInv

(* A source record that meets NoOrphanIn, given its subscribers. *)
Kept(s, subs) ==
    /\ s.live /\ ~s.publishing /\ subs = {} => s.expires # Unarmed
    /\ s.publishing => s.expires = Unarmed /\ s.kind # "none"

(* Rewriting source records keeps the invariant when no name appears and    *)
(* every record is still kept.                                              *)
LEMMA SourcesRewritten ==
    ASSUME NEW R, RegInv(R), NEW f \in [Cells -> SourceType],
           \A c \in Cells : f[c].live => R.src[c].live /\ f[c].name = R.src[c].name,
           \A c \in Cells : Kept(f[c], Subscribers(R, c))
    PROVE  RegInv([R EXCEPT !.src = f])
<1> DEFINE T == [R EXCEPT !.src = f]
<1>1. T.src = f /\ T.sess = R.sess /\ T \in RegType
  BY DEF RegInv, RegType
<1>2. \A c \in Cells : Subscribers(T, c) = Subscribers(R, c)
  BY <1>1 DEF Subscribers
<1>3. UniqueIn(T)
  BY <1>1 DEF RegInv, UniqueIn
<1>4. HeldIn(T)
  BY <1>1 DEF RegInv, HeldIn
<1>5. NoOrphanIn(T)
  BY <1>1, <1>2 DEF NoOrphanIn, Kept
<1> QED BY <1>1, <1>3, <1>4, <1>5 DEF RegInv

(* Every record of a zone that meets the invariant is typed and kept. *)
LEMMA SourceKept ==
    ASSUME NEW R, RegInv(R), NEW c \in Cells
    PROVE  R.src[c] \in SourceType /\ Kept(R.src[c], Subscribers(R, c))
BY DEF RegInv, RegType, NoOrphanIn, Kept

(* Clearing the claims of silent publishers leaves them with a deadline.    *)
LEMMA ReclaimInv ==
    ASSUME NEW R, RegInv(R) PROVE RegInv(ReclaimPublishers(R))
<1> DEFINE f == [c \in Cells |-> ReclaimPublisher(R.src[c])]
<1>1. \A s \in SourceType : /\ ReclaimPublisher(s) \in SourceType
                            /\ ReclaimPublisher(s).live = s.live
                            /\ ReclaimPublisher(s).name = s.name
  <2> SUFFICES ASSUME NEW s \in SourceType
               PROVE  /\ ReclaimPublisher(s) \in SourceType
                      /\ ReclaimPublisher(s).live = s.live
                      /\ ReclaimPublisher(s).name = s.name
    OBVIOUS
  <2> DEFINE e == IF s.expires = Unarmed THEN SourceExpire ELSE s.expires
  <2>1. e \in {Unarmed} \cup 0..SourceExpire /\ "none" \in Kinds
    BY ShmTimes DEF SourceType, Kinds
  <2>2. ReclaimPublisher(s) \in
          {s, [s EXCEPT !.publishing = FALSE, !.kind = "none", !.expires = e]}
    BY DEF ReclaimPublisher
  <2> HIDE DEF e
  <2> QED BY <2>1, <2>2 DEF SourceType
<1>2. \A c \in Cells : Kept(f[c], Subscribers(R, c))
  <2> SUFFICES ASSUME NEW c \in Cells
               PROVE  Kept(ReclaimPublisher(R.src[c]), Subscribers(R, c))
    OBVIOUS
  <2>1. SourceExpire # Unarmed BY ShmTimes DEF Unarmed
  <2> QED BY SourceKept, <2>1 DEF Kept, ReclaimPublisher, SourceType
<1>3. f \in [Cells -> SourceType]
  BY <1>1, SourceKept
<1>4. \A c \in Cells : f[c].live => R.src[c].live /\ f[c].name = R.src[c].name
  BY <1>1, SourceKept
<1> HIDE DEF f
<1>5. RegInv([R EXCEPT !.src = f])
  BY <1>2, <1>3, <1>4, SourcesRewritten
<1> QED BY <1>5 DEF ReclaimPublishers, f

(* Freeing sources: a cell that is not live owes no unique name or deadline. *)
LEMMA FreeSourcesInv ==
    ASSUME NEW R, RegInv(R), NEW C \in SUBSET Cells
    PROVE  RegInv(FreeSources(R, C))
<1> DEFINE f == [c \in Cells |-> IF c \in C THEN FreeSource ELSE R.src[c]]
<1>1. f \in [Cells -> SourceType]
  BY SourceKept, FreshTypes
<1>2. \A c \in Cells : f[c].live => R.src[c].live /\ f[c].name = R.src[c].name
  BY FreeShapes
<1>3. \A c \in Cells : Kept(f[c], Subscribers(R, c))
  BY SourceKept, FreeShapes DEF Kept
<1> HIDE DEF f
<1>4. RegInv([R EXCEPT !.src = f])
  BY <1>1, <1>2, <1>3, SourcesRewritten
<1> QED BY <1>4 DEF FreeSources, f

(* ngx_rtc_shm_expire_locked, by timer or by force, is its three passes.    *)
LEMMA ExpireLockedInv ==
    ASSUME NEW R, RegInv(R), NEW forced \in BOOLEAN
    PROVE  RegInv(ExpireLocked(R, forced))
<1> DEFINE R0 == FreeSessions(R, ExpiredSessions(R, forced))
           R1 == ReclaimPublishers(R0)
<1>1. RegInv(R0)
  BY FreeSessionsInv DEF ExpiredSessions
<1>2. RegInv(R1)
  BY <1>1, ReclaimInv
<1> HIDE DEF R1
<1>3. RegInv(FreeSources(R1, {c \in Cells : Reapable(R1, c, forced)}))
  BY <1>2, FreeSourcesInv
<1> QED BY <1>3 DEF ExpireLocked, R1

(* ngx_rtc_shm_source_remove frees at most one source.                      *)
LEMMA SourceRemoveInv ==
    ASSUME NEW R, RegInv(R), NEW n \in Names PROVE RegInv(SourceRemove(R, n))
BY FreeSourcesInv DEF SourceRemove, Lookup

(* The heartbeat only touches the source's last-seen stamp.                 *)
LEMMA HeartbeatInv ==
    ASSUME NEW R, RegInv(R), NEW c \in Cells PROVE RegInv(Heartbeat(R, c))
<1> DEFINE x == IF R.src[c].live THEN 0 ELSE R.src[c].seen
           f == [R.src EXCEPT ![c].seen = x]
<1>1. R.src[c] \in SourceType /\ R \in RegType BY SourceKept DEF RegInv
<1>2. x \in 0..PublishGrace BY <1>1, ShmTimes DEF SourceType
<1>3. Heartbeat(R, c) = [R EXCEPT !.src = f]
  BY <1>1 DEF Heartbeat, RegType
<1> HIDE DEF x
<1>4. f \in [Cells -> SourceType]
  BY <1>1, <1>2 DEF RegType, SourceType
<1>5. \A d \in Cells : /\ f[d].live = R.src[d].live /\ f[d].name = R.src[d].name
                       /\ f[d].publishing = R.src[d].publishing
                       /\ f[d].expires = R.src[d].expires
                       /\ f[d].kind = R.src[d].kind
  BY <1>1 DEF RegType, SourceType
<1>6. \A d \in Cells : Kept(f[d], Subscribers(R, d))
  BY <1>5, SourceKept DEF Kept
<1> HIDE DEF f
<1> QED BY <1>3, <1>4, <1>5, <1>6, SourcesRewritten

(* Writing publisher_slot touches none of the claim.                        *)
LEMMA PublisherSlotInv ==
    ASSUME NEW R, RegInv(R), NEW c \in Cells, NEW w \in Slots
    PROVE  RegInv(SetPublisherSlot(R, c, w))
<1> DEFINE x == IF R.src[c].live THEN w ELSE R.src[c].slot
           f == [R.src EXCEPT ![c].slot = x]
<1>1. R.src[c] \in SourceType /\ R \in RegType BY SourceKept DEF RegInv
<1>2. x \in Slots \cup {NoSlot} BY <1>1 DEF SourceType
<1>3. SetPublisherSlot(R, c, w) = [R EXCEPT !.src = f]
  BY <1>1 DEF SetPublisherSlot, RegType
<1> HIDE DEF x
<1>4. f \in [Cells -> SourceType]
  BY <1>1, <1>2 DEF RegType, SourceType
<1>5. \A d \in Cells : /\ f[d].live = R.src[d].live /\ f[d].name = R.src[d].name
                       /\ f[d].publishing = R.src[d].publishing
                       /\ f[d].expires = R.src[d].expires
                       /\ f[d].kind = R.src[d].kind
  BY <1>1 DEF RegType, SourceType
<1>6. \A d \in Cells : Kept(f[d], Subscribers(R, d))
  BY <1>5, SourceKept DEF Kept
<1> HIDE DEF f
<1> QED BY <1>3, <1>4, <1>5, <1>6, SourcesRewritten

(* A granted claim disarms the deadline of a source that is now in use.     *)
LEMMA TryPublishInv ==
    ASSUME NEW R, RegInv(R), NEW n \in Names, NEW kind \in Kinds \ {"none"}
    PROVE  RegInv(TryPublish(R, n, kind))
<1> DEFINE f == [c \in Cells |->
                   IF c \in Lookup(R, n) /\ ~PublishBusy(R, n, kind)
                   THEN [R.src[c] EXCEPT !.kind = kind, !.publishing = TRUE,
                                         !.expires = Unarmed, !.seen = 0]
                   ELSE R.src[c]]
<1>1. \A c \in Cells : f[c] \in SourceType
  <2> TAKE c \in Cells
  <2>1. R.src[c] \in SourceType BY SourceKept
  <2>2. 0 \in 0..PublishGrace BY ShmTimes
  <2>3. [R.src[c] EXCEPT !.kind = kind, !.publishing = TRUE,
                         !.expires = Unarmed, !.seen = 0] \in SourceType
    BY <2>1, <2>2 DEF SourceType
  <2> QED BY <2>1, <2>3
<1>2. \A c \in Cells : f[c].live => R.src[c].live /\ f[c].name = R.src[c].name
  BY SourceKept DEF SourceType
<1>3. \A c \in Cells : Kept(f[c], Subscribers(R, c))
  BY SourceKept DEF Kept, SourceType
<1>4. f \in [Cells -> SourceType] BY <1>1
<1> HIDE DEF f
<1>5. RegInv([R EXCEPT !.src = f])
  BY <1>2, <1>3, <1>4, SourcesRewritten
<1> QED BY <1>5 DEF TryPublish, f

(* A released claim arms the deadline of a source that became idle.         *)
LEMMA ReleasePublishInv ==
    ASSUME NEW R, RegInv(R), NEW n \in Names, NEW kind \in Kinds
    PROVE  RegInv(ReleasePublish(R, n, kind))
<1> DEFINE e(c) == IF Subscribers(R, c) # {} THEN Unarmed
                   ELSE IF R.src[c].expires = Unarmed THEN SourceExpire
                   ELSE R.src[c].expires
           f == [c \in Cells |->
                   IF c \in Lookup(R, n) /\ R.src[c].kind = kind
                   THEN [R.src[c] EXCEPT !.kind = "none", !.publishing = FALSE,
                                         !.expires = e(c)]
                   ELSE R.src[c]]
<1>1. ReleasePublish(R, n, kind) = [R EXCEPT !.src = f]
  BY DEF ReleasePublish
<1>2. \A c \in Cells : e(c) \in {Unarmed} \cup 0..SourceExpire
  BY SourceKept, ShmTimes DEF SourceType
<1>3. \A c \in Cells : Subscribers(R, c) = {} => e(c) # Unarmed
  BY ShmTimes DEF Unarmed
<1> HIDE DEF e
<1>4. \A c \in Cells : f[c] \in SourceType
  <2> TAKE c \in Cells
  <2>1. R.src[c] \in SourceType BY SourceKept
  <2>2. "none" \in Kinds BY DEF Kinds
  <2>3. [R.src[c] EXCEPT !.kind = "none", !.publishing = FALSE, !.expires = e(c)]
          \in SourceType
    BY <1>2, <2>1, <2>2 DEF SourceType
  <2> QED BY <2>1, <2>3
<1>5. \A c \in Cells : f[c].live => R.src[c].live /\ f[c].name = R.src[c].name
  BY SourceKept DEF SourceType
<1>6. \A c \in Cells : Kept(f[c], Subscribers(R, c))
  BY <1>3, SourceKept DEF Kept, SourceType
<1>7. f \in [Cells -> SourceType] BY <1>4
<1> HIDE DEF f
<1> QED BY <1>1, <1>5, <1>6, <1>7, SourcesRewritten

(* Rewriting skeletons keeps the invariant when subscribers are not lost. *)
LEMMA SkeletonsRewritten ==
    ASSUME NEW R, RegInv(R), NEW g \in [Ufrags -> SkeletonType],
           \A u \in Ufrags : /\ g[u].ready => g[u].owner # NoSlot
                                              /\ g[u].expires = Unarmed
                             /\ g[u].linked => g[u].ready /\ ~g[u].pub,
           \A c \in Cells : \A u \in Subscribers(R, c) :
                g[u].live /\ g[u].linked /\ g[u].src = c
    PROVE  RegInv([R EXCEPT !.sess = g])
<1> DEFINE T == [R EXCEPT !.sess = g]
<1>1. T.src = R.src /\ T.sess = g /\ T \in RegType
  BY DEF RegInv, RegType
<1>2. \A c \in Cells : Subscribers(R, c) \subseteq Subscribers(T, c)
  BY <1>1 DEF Subscribers
<1>3. UniqueIn(T)
  BY <1>1 DEF RegInv, UniqueIn
<1>4. HeldIn(T)
  BY <1>1 DEF HeldIn
<1>5. NoOrphanIn(T)
  BY <1>1, <1>2 DEF RegInv, NoOrphanIn
<1> QED BY <1>1, <1>3, <1>4, <1>5 DEF RegInv

(* Replacing one skeleton. *)
LEMMA SkeletonRewritten ==
    ASSUME NEW R, RegInv(R), NEW u \in Ufrags, NEW k \in SkeletonType,
           k.ready => k.owner # NoSlot /\ k.expires = Unarmed,
           k.linked => k.ready /\ ~k.pub,
           R.sess[u].live /\ R.sess[u].linked =>
               k.live /\ k.linked /\ k.src = R.sess[u].src
    PROVE  RegInv([R EXCEPT !.sess[u] = k])
<1> DEFINE g == [R.sess EXCEPT ![u] = k]
<1>1. R \in RegType BY DEF RegInv
<1>2. [R EXCEPT !.sess[u] = k] = [R EXCEPT !.sess = g]
  BY <1>1 DEF RegType
<1>3. g \in [Ufrags -> SkeletonType]
  BY <1>1 DEF RegType
<1>4. \A v \in Ufrags : /\ g[v].ready => g[v].owner # NoSlot /\ g[v].expires = Unarmed
                        /\ g[v].linked => g[v].ready /\ ~g[v].pub
  BY <1>1 DEF RegType, RegInv, HeldIn
<1>5. \A c \in Cells : \A v \in Subscribers(R, c) :
         g[v].live /\ g[v].linked /\ g[v].src = c
  BY <1>1 DEF RegType, Subscribers
<1> HIDE DEF g
<1> QED BY <1>2, <1>3, <1>4, <1>5, SkeletonsRewritten

(* A skeleton of a zone that meets the invariant. *)
LEMMA SkeletonHeld ==
    ASSUME NEW R, RegInv(R), NEW u \in Ufrags
    PROVE  /\ R \in RegType
           /\ R.sess[u] \in SkeletonType
           /\ R.sess[u].ready => R.sess[u].owner # NoSlot /\ R.sess[u].expires = Unarmed
           /\ R.sess[u].linked => R.sess[u].ready /\ ~R.sess[u].pub
BY DEF RegInv, RegType, HeldIn

(* A worker's slot is never the slot of nobody. *)
LEMMA WorkerSlot == \A w \in Slots : w # NoSlot
BY ShmSets

(* Binding a skeleton takes it out of the half-open reaper's reach.         *)
LEMMA BindInv ==
    ASSUME NEW R, RegInv(R), NEW u \in Ufrags, NEW w \in Slots
    PROVE  RegInv(SessionBind(R, u, w))
<1> DEFINE k == [R.sess[u] EXCEPT !.owner = w]
<1>1. [R EXCEPT !.sess[u].owner = w] = [R EXCEPT !.sess[u] = k]
  BY SkeletonHeld DEF RegType
<1>2. /\ k \in SkeletonType
      /\ k.owner = w /\ k.ready = R.sess[u].ready /\ k.linked = R.sess[u].linked
      /\ k.pub = R.sess[u].pub /\ k.expires = R.sess[u].expires
      /\ k.live = R.sess[u].live /\ k.src = R.sess[u].src
  BY SkeletonHeld DEF SkeletonType
<1> HIDE DEF k
<1>3. RegInv([R EXCEPT !.sess[u] = k])
  BY <1>2, SkeletonHeld, WorkerSlot, SkeletonRewritten
<1> QED BY <1>1, <1>3 DEF SessionBind

(* A close request only sets the skeleton's flag.                           *)
LEMMA RequestCloseInv ==
    ASSUME NEW R, RegInv(R), NEW u \in Ufrags
    PROVE  RegInv(SessionRequestClose(R, u))
<1> DEFINE k == [R.sess[u] EXCEPT !.close = TRUE]
<1>1. [R EXCEPT !.sess[u].close = TRUE] = [R EXCEPT !.sess[u] = k]
  BY SkeletonHeld DEF RegType
<1>2. /\ k \in SkeletonType
      /\ k.owner = R.sess[u].owner /\ k.ready = R.sess[u].ready
      /\ k.linked = R.sess[u].linked
      /\ k.pub = R.sess[u].pub /\ k.expires = R.sess[u].expires
      /\ k.live = R.sess[u].live /\ k.src = R.sess[u].src
  BY SkeletonHeld DEF SkeletonType
<1> HIDE DEF k
<1>3. RegInv([R EXCEPT !.sess[u] = k])
  BY <1>2, SkeletonHeld, SkeletonRewritten
<1> QED BY <1>1, <1>3 DEF SessionRequestClose

(* Recording a session's state touches neither owner nor deadline.          *)
LEMMA SetStateInv ==
    ASSUME NEW R, RegInv(R), NEW u \in Ufrags, NEW w \in Slots, NEW s \in States
    PROVE  RegInv(SessionSetState(R, u, w, s))
<1> DEFINE k == [R.sess[u] EXCEPT !.state = s]
<1>1. [R EXCEPT !.sess[u].state = s] = [R EXCEPT !.sess[u] = k]
  BY SkeletonHeld DEF RegType
<1>2. /\ k \in SkeletonType
      /\ k.owner = R.sess[u].owner /\ k.ready = R.sess[u].ready
      /\ k.linked = R.sess[u].linked
      /\ k.pub = R.sess[u].pub /\ k.expires = R.sess[u].expires
      /\ k.live = R.sess[u].live /\ k.src = R.sess[u].src
  BY SkeletonHeld DEF SkeletonType
<1> HIDE DEF k
<1>3. RegInv([R EXCEPT !.sess[u] = k])
  BY <1>2, SkeletonHeld, SkeletonRewritten
<1> QED BY <1>1, <1>3 DEF SessionSetState

(* A disconnect sets the close flag on every session of one name.           *)
LEMMA CloseNameInv ==
    ASSUME NEW R, RegInv(R), NEW n \in Names
    PROVE  RegInv(SourceRequestClose(R, n))
<1> DEFINE hit(u) == \E c \in Lookup(R, n) : u \in Subscribers(R, c)
           g == [u \in Ufrags |-> IF hit(u) THEN [R.sess[u] EXCEPT !.close = TRUE]
                                  ELSE R.sess[u]]
<1>1. SourceRequestClose(R, n) = [R EXCEPT !.sess = g]
  BY DEF SourceRequestClose
<1> HIDE DEF hit
<1>2. \A u \in Ufrags :
         /\ g[u] \in SkeletonType
         /\ g[u].owner = R.sess[u].owner /\ g[u].ready = R.sess[u].ready
         /\ g[u].linked = R.sess[u].linked
         /\ g[u].pub = R.sess[u].pub /\ g[u].expires = R.sess[u].expires
         /\ g[u].live = R.sess[u].live /\ g[u].src = R.sess[u].src
  BY SkeletonHeld DEF SkeletonType
<1>3. g \in [Ufrags -> SkeletonType] BY <1>2
<1> HIDE DEF g
<1>4. \A c \in Cells : \A u \in Subscribers(R, c) :
         g[u].live /\ g[u].linked /\ g[u].src = c
  BY <1>2 DEF Subscribers
<1> QED BY <1>1, <1>2, <1>3, <1>4, SkeletonHeld, SkeletonsRewritten

(* A new skeleton is not ready, so it may be within the reaper's reach.     *)
LEMMA PutSessionInv ==
    ASSUME NEW R, RegInv(R), NEW u \in Ufrags, NEW c \in Cells, NEW pub \in BOOLEAN,
           ~R.sess[u].live
    PROVE  RegInv(PutSession(R, u, c, pub))
<1> DEFINE k == NewSkeleton(c, pub)
<1>1. k \in SkeletonType BY FreshTypes
<1>2. ~k.ready /\ ~k.linked BY DEF NewSkeleton
<1> HIDE DEF k
<1>3. RegInv([R EXCEPT !.sess[u] = k])
  BY <1>1, <1>2, SkeletonRewritten
<1> QED BY <1>3 DEF PutSession, k

(* Writing both tables at once. *)
LEMMA ZoneRewritten ==
    ASSUME NEW R, RegInv(R),
           NEW f \in [Cells -> SourceType], NEW g \in [Ufrags -> SkeletonType],
           \A c \in Cells : f[c].live => R.src[c].live /\ f[c].name = R.src[c].name,
           \A u \in Ufrags : /\ g[u].ready => g[u].owner # NoSlot
                                              /\ g[u].expires = Unarmed
                             /\ g[u].linked => g[u].ready /\ ~g[u].pub,
           \A c \in Cells : Kept(f[c], Subscribers([src |-> f, sess |-> g], c))
    PROVE  RegInv([src |-> f, sess |-> g])
<1> DEFINE T == [src |-> f, sess |-> g]
<1>1. T.src = f /\ T.sess = g OBVIOUS
<1>2. T \in RegType BY DEF RegType
<1> HIDE DEF T
<1>3. UniqueIn(T) BY <1>1 DEF RegInv, UniqueIn
<1>4. HeldIn(T) BY <1>1 DEF HeldIn
<1>5. NoOrphanIn(T) BY <1>1 DEF NoOrphanIn, Kept, T
<1>6. RegInv(T) BY <1>2, <1>3, <1>4, <1>5 DEF RegInv
<1> QED BY <1>6 DEF T

(* Activation links the viewer and disarms its source's deadline.           *)
LEMMA ActivateInv ==
    ASSUME NEW R, RegInv(R), NEW u \in Ufrags, NEW w \in Slots
    PROVE  RegInv(SessionActivate(R, u, w))
<1> SUFFICES ASSUME MayAct(R, u, w) PROVE RegInv(SessionActivate(R, u, w))
  BY DEF SessionActivate
<1> DEFINE k == R.sess[u]
           joins == ~k.pub /\ ~k.linked
           m(c) == IF w # R.src[c].slot THEN R.src[c].remote + 1 ELSE R.src[c].remote
           f == [c \in Cells |->
                   IF joins /\ c = k.src /\ R.src[c].live
                   THEN [R.src[c] EXCEPT !.version = R.src[c].version + 1,
                                         !.expires = Unarmed, !.remote = m(c)]
                   ELSE R.src[c]]
           k2 == [k EXCEPT !.owner = w, !.ready = TRUE, !.state = "SRTP_READY",
                           !.expires = Unarmed, !.linked = k.linked \/ joins]
           g == [R.sess EXCEPT ![u] = k2]
           T == [src |-> f, sess |-> g]
<1>1. SessionActivate(R, u, w) = T
  BY DEF SessionActivate
<1>2. \A c \in Cells :
         /\ R.src[c].version + 1 \in Nat /\ m(c) \in Nat
         /\ R.src[c] \in SourceType
  BY SourceKept DEF SourceType
<1>3. /\ k2 \in SkeletonType
      /\ k2.owner = w /\ k2.ready /\ k2.expires = Unarmed
      /\ k2.linked <=> (k.linked \/ joins)
      /\ k2.pub <=> k.pub
      /\ k2.live <=> k.live
      /\ k2.src = k.src
  BY SkeletonHeld DEF SkeletonType, States
<1> HIDE DEF m, k2
<1>4. \A c \in Cells :
         /\ f[c] \in SourceType
         /\ f[c].live = R.src[c].live /\ f[c].name = R.src[c].name
         /\ f[c].publishing = R.src[c].publishing /\ f[c].kind = R.src[c].kind
         /\ f[c].expires = IF joins /\ c = k.src /\ R.src[c].live
                           THEN Unarmed ELSE R.src[c].expires
  <2> TAKE c \in Cells
  <2> HIDE DEF joins
  <2> QED BY <1>2 DEF SourceType
<1>5. f \in [Cells -> SourceType] BY <1>4
<1>6. R.sess \in [Ufrags -> SkeletonType] BY SkeletonHeld DEF RegType
<1>7. g \in [Ufrags -> SkeletonType] BY <1>3, <1>6
<1>8. \A v \in Ufrags : g[v] = IF v = u THEN k2 ELSE R.sess[v]
  BY <1>6
<1>9. T.src = f /\ T.sess = g OBVIOUS
<1> HIDE DEF f, g
<1>10. \A v \in Ufrags : /\ g[v].ready => g[v].owner # NoSlot /\ g[v].expires = Unarmed
                         /\ g[v].linked => g[v].ready /\ ~g[v].pub
  <2>1. k2.linked => ~k2.pub BY <1>3, SkeletonHeld
  <2> QED BY <2>1, <1>3, <1>8, SkeletonHeld, WorkerSlot
<1>11. \A c \in Cells : Subscribers(R, c) \subseteq Subscribers(T, c)
  BY <1>3, <1>8, <1>9 DEF Subscribers
<1>12. joins /\ k.src \in Cells => u \in Subscribers(T, k.src)
  BY <1>3, <1>8, <1>9 DEF Subscribers, MayAct
<1> HIDE DEF T, joins
<1>13. \A c \in Cells : Kept(f[c], Subscribers(T, c))
  BY <1>4, <1>11, <1>12, SourceKept DEF Kept
<1>14. RegInv(T)
  BY <1>4, <1>5, <1>7, <1>10, <1>13, ZoneRewritten DEF T
<1> QED BY <1>1, <1>14

(* A tick brings armed deadlines closer and arms or clears none.            *)
LEMMA ElapseInv ==
    ASSUME NEW R, RegInv(R) PROVE RegInv(Elapse(R))
<1> DEFINE e(c) == IF R.src[c].live THEN CountDown(R.src[c].expires)
                   ELSE R.src[c].expires
           h(c) == IF R.src[c].publishing /\ R.src[c].seen < PublishGrace
                   THEN R.src[c].seen + 1 ELSE R.src[c].seen
           d(u) == IF R.sess[u].live THEN CountDown(R.sess[u].expires)
                   ELSE R.sess[u].expires
           f == [c \in Cells |-> [R.src[c] EXCEPT !.expires = e(c), !.seen = h(c)]]
           g == [u \in Ufrags |-> [R.sess[u] EXCEPT !.expires = d(u)]]
           T == [src |-> f, sess |-> g]
<1>1. Elapse(R) = T
  BY DEF Elapse
<1>2. \A c \in Cells : /\ e(c) \in {Unarmed} \cup 0..SourceExpire
                       /\ e(c) = Unarmed <=> R.src[c].expires = Unarmed
                       /\ h(c) \in 0..PublishGrace
  BY SourceKept, ShmTimes DEF SourceType, CountDown, Unarmed
<1>3. \A u \in Ufrags : /\ d(u) \in {Unarmed} \cup 0..SessionExpire
                        /\ d(u) = Unarmed <=> R.sess[u].expires = Unarmed
  BY SkeletonHeld, ShmTimes DEF SkeletonType, CountDown, Unarmed
<1> HIDE DEF e, h, d
<1>4. \A c \in Cells :
         /\ f[c] \in SourceType
         /\ f[c].live = R.src[c].live /\ f[c].name = R.src[c].name
         /\ f[c].publishing = R.src[c].publishing /\ f[c].kind = R.src[c].kind
         /\ f[c].expires = e(c)
  <2> TAKE c \in Cells
  <2>1. R.src[c] \in SourceType BY SourceKept
  <2> QED BY <2>1, <1>2 DEF SourceType
<1>5. \A u \in Ufrags :
         /\ g[u] \in SkeletonType
         /\ g[u].owner = R.sess[u].owner /\ g[u].ready = R.sess[u].ready
         /\ g[u].linked = R.sess[u].linked
         /\ g[u].pub = R.sess[u].pub /\ g[u].expires = d(u)
         /\ g[u].live = R.sess[u].live /\ g[u].src = R.sess[u].src
  <2> TAKE u \in Ufrags
  <2>1. R.sess[u] \in SkeletonType BY SkeletonHeld
  <2> QED BY <2>1, <1>3 DEF SkeletonType
<1>6. f \in [Cells -> SourceType] /\ g \in [Ufrags -> SkeletonType]
  BY <1>4, <1>5
<1>7. T.src = f /\ T.sess = g OBVIOUS
<1> HIDE DEF f, g
<1>8. \A c \in Cells : Subscribers(T, c) = Subscribers(R, c)
  BY <1>5, <1>7 DEF Subscribers
<1>9. \A c \in Cells : Kept(f[c], Subscribers(T, c))
  BY <1>2, <1>4, <1>8, SourceKept DEF Kept
<1>10. \A u \in Ufrags : /\ g[u].ready => g[u].owner # NoSlot /\ g[u].expires = Unarmed
                         /\ g[u].linked => g[u].ready /\ ~g[u].pub
  BY <1>3, <1>5, SkeletonHeld
<1>11. RegInv(T)
  BY <1>4, <1>6, <1>9, <1>10, ZoneRewritten
<1> QED BY <1>1, <1>11

(* A new source takes a name nobody holds and starts with a deadline. *)
LEMMA AllocatedInv ==
    ASSUME NEW R, RegInv(R), NEW n \in Names, Lookup(R, n) = {},
           NEW o \in SourceAllocated(R, n)
    PROVE  RegInv(o.reg)
<1>1. PICK c \in FreeCells(R) : o = [reg |-> [R EXCEPT !.src[c] = NewSource(n)], ptr |-> c]
  BY DEF SourceAllocated
<1>2. c \in Cells /\ ~R.src[c].live BY DEF FreeCells
<1> DEFINE T == [R EXCEPT !.src[c] = NewSource(n)]
<1>3. R \in RegType BY DEF RegInv
<1>4. NewSource(n) \in SourceType BY FreshTypes
<1>5. /\ T \in RegType /\ T.sess = R.sess
      /\ \A d \in Cells : T.src[d] = IF d = c THEN NewSource(n) ELSE R.src[d]
  BY <1>2, <1>3, <1>4 DEF RegType
<1>6. /\ NewSource(n).name = n /\ ~NewSource(n).publishing
      /\ NewSource(n).expires # Unarmed
  BY ShmTimes DEF NewSource, Unarmed
<1> HIDE DEF T
<1>7. UniqueIn(T)
  BY <1>2, <1>5, <1>6 DEF RegInv, UniqueIn, Lookup
<1>8. HeldIn(T) BY <1>5 DEF RegInv, HeldIn
<1>9. \A d \in Cells : Subscribers(T, d) = Subscribers(R, d)
  BY <1>5 DEF Subscribers
<1>10. NoOrphanIn(T)
  BY <1>5, <1>6, <1>9 DEF RegInv, NoOrphanIn
<1>11. RegInv(T) BY <1>5, <1>7, <1>8, <1>10 DEF RegInv
<1> QED BY <1>1, <1>11 DEF T

-----------------------------------------------------------------------------
(* What one step of the registry may do to skeletons and sources.          *)

(* Skeletons keep their source and, once bound, their owner; a source that  *)
(* is freed was idle and is pointed at by nothing afterwards.               *)
SafeStep(R, T) ==
    /\ \A u \in Ufrags : T.sess[u].live =>
         /\ R.sess[u].live /\ T.sess[u].src = R.sess[u].src
         /\ R.sess[u].owner # NoSlot => T.sess[u].owner = R.sess[u].owner
    /\ \A c \in Cells : R.src[c].live /\ ~T.src[c].live =>
         /\ ~(R.src[c].publishing /\ R.src[c].seen < PublishGrace)
         /\ Subscribers(R, c) = {}
         /\ ~Referenced(T, c)

(* A safe step leaves no skeleton pointing at a freed source.               *)
LEMMA SafeKeepsLive ==
    ASSUME NEW R \in RegType, NEW T, SafeStep(R, T), LiveIn(R) PROVE LiveIn(T)
<1> SUFFICES ASSUME NEW u \in Ufrags, T.sess[u].live
             PROVE  T.src[T.sess[u].src].live
  BY DEF LiveIn
<1>1. R.sess[u].live /\ T.sess[u].src = R.sess[u].src BY DEF SafeStep
<1>2. T.sess[u].src \in Cells BY <1>1 DEF RegType, SkeletonType
<1>3. Referenced(T, T.sess[u].src) BY DEF Referenced
<1> QED BY <1>1, <1>2, <1>3 DEF SafeStep, LiveIn

(* A step that leaves the source list alone, or only writes into records.   *)
LEMMA SafeWrite ==
    ASSUME NEW R, NEW T,
           \A c \in Cells : R.src[c].live => T.src[c].live,
           \A u \in Ufrags : T.sess[u].live =>
             /\ R.sess[u].live /\ T.sess[u].src = R.sess[u].src
             /\ R.sess[u].owner # NoSlot => T.sess[u].owner = R.sess[u].owner
    PROVE  SafeStep(R, T)
BY DEF SafeStep

(* Freeing skeletons is safe: the ones left are unchanged.                  *)
LEMMA FreeSessionsSafe ==
    ASSUME NEW R \in RegType, NEW S \in SUBSET Ufrags
    PROVE  SafeStep(R, FreeSessions(R, S))
<1> DEFINE T == FreeSessions(R, S)
<1>1. \A c \in Cells : T.src[c] = R.src[c] \/ T.src[c] = LeaveSource(R, c, S)
  BY DEF FreeSessions
<1>2. \A c \in Cells : R.src[c].live => T.src[c].live
  BY <1>1, LeaveSourceFields
<1>3. \A u \in Ufrags : T.sess[u] = IF u \in S THEN FreeSkeleton ELSE R.sess[u]
  BY DEF FreeSessions
<1> HIDE DEF T
<1> QED BY <1>2, <1>3, FreeShapes, SafeWrite DEF T

(* The reaper frees only half-open skeletons, none of which subscribes.     *)
LEMMA ExpireLockedSafe ==
    ASSUME NEW R, RegInv(R), NEW forced \in BOOLEAN
    PROVE  /\ SafeStep(R, ExpireLocked(R, forced))
           /\ \A n \in Names : Lookup(ExpireLocked(R, forced), n) \subseteq Lookup(R, n)
<1> DEFINE S == ExpiredSessions(R, forced)
           R0 == FreeSessions(R, S)
           R1 == ReclaimPublishers(R0)
           C == {c \in Cells : Reapable(R1, c, forced)}
           T == FreeSources(R1, C)
<1>1. ExpireLocked(R, forced) = T
  BY DEF ExpireLocked
<1>2. RegInv(R0) /\ S \in SUBSET Ufrags
  BY FreeSessionsInv DEF ExpiredSessions
<1>3. \A u \in Ufrags : R0.sess[u] = IF u \in S THEN FreeSkeleton ELSE R.sess[u]
  BY DEF FreeSessions
<1>4. \A c \in Cells : R0.src[c] = R.src[c] \/ R0.src[c] = LeaveSource(R, c, S)
  BY DEF FreeSessions
<1>5. \A u \in S : ~R.sess[u].linked
  BY SkeletonHeld DEF ExpiredSessions
<1>6. \A c \in Cells : Subscribers(R0, c) = Subscribers(R, c)
  BY <1>3, <1>5, FreeShapes DEF Subscribers
<1>7. \A c \in Cells : /\ R0.src[c].live = R.src[c].live
                       /\ R0.src[c].name = R.src[c].name
                       /\ R0.src[c].publishing = R.src[c].publishing
                       /\ R0.src[c].seen = R.src[c].seen
  <2> TAKE c \in Cells
  <2>1. R \in RegType /\ R.src[c] \in SourceType BY SourceKept DEF RegInv
  <2>2. LeaveSource(R, c, S).seen = R.src[c].seen
    BY <2>1 DEF LeaveSource, SourceType
  <2> QED BY <1>2, <1>4, <2>1, <2>2, LeaveSourceFields
<1>8. R0 \in RegType BY <1>2 DEF RegInv
<1> HIDE DEF S, R0
<1>9. R1.sess = R0.sess /\ R1 \in RegType
  BY <1>2, <1>8, ReclaimInv DEF ReclaimPublishers, RegInv, RegType
<1>10. \A c \in Cells : R1.src[c] = ReclaimPublisher(R0.src[c])
  BY <1>8 DEF ReclaimPublishers, RegType
<1>11. \A c \in Cells :
          /\ R1.src[c].live = R0.src[c].live
          /\ R1.src[c].name = R0.src[c].name
          /\ R0.src[c].live /\ R0.src[c].publishing /\ R0.src[c].seen < PublishGrace
               => R1.src[c].publishing
  <2> TAKE c \in Cells
  <2>1. R0.src[c] \in SourceType BY <1>8 DEF RegType
  <2>2. R0.src[c].seen < PublishGrace => ~(R0.src[c].seen >= PublishGrace)
    BY <2>1, ShmTimes DEF SourceType
  <2> QED BY <1>10, <2>1, <2>2 DEF ReclaimPublisher, SourceType
<1> HIDE DEF R1
<1>12. /\ T.sess = R1.sess
       /\ \A c \in Cells : T.src[c] = IF c \in C THEN FreeSource ELSE R1.src[c]
  BY <1>9 DEF FreeSources, RegType
<1>13. \A c \in C : ~R1.src[c].publishing /\ Subscribers(R1, c) = {} /\ ~Referenced(R1, c)
  BY DEF Reapable
<1>14. \A c \in Cells : /\ Subscribers(R1, c) = Subscribers(R0, c)
                        /\ Referenced(T, c) <=> Referenced(R1, c)
  BY <1>9, <1>12 DEF Subscribers, Referenced
<1> HIDE DEF T, C
<1>15. \A c \in Cells : R.src[c].live /\ ~T.src[c].live => c \in C
  BY <1>7, <1>11, <1>12
<1>16. \A c \in Cells : R.src[c].live /\ ~T.src[c].live =>
          /\ ~(R.src[c].publishing /\ R.src[c].seen < PublishGrace)
          /\ Subscribers(R, c) = {}
          /\ ~Referenced(T, c)
  BY <1>6, <1>7, <1>11, <1>13, <1>14, <1>15
<1>17. \A u \in Ufrags : T.sess[u].live =>
          R.sess[u].live /\ T.sess[u] = R.sess[u]
  BY <1>3, <1>9, <1>12, FreeShapes
<1>18. SafeStep(R, T) BY <1>16, <1>17 DEF SafeStep
<1>19. \A n \in Names : Lookup(T, n) \subseteq Lookup(R, n)
  BY <1>7, <1>11, <1>12, FreeShapes DEF Lookup
<1> QED BY <1>1, <1>18, <1>19

(* ngx_rtc_shm_source_remove refuses a source that is in use.               *)
LEMMA SourceRemoveSafe ==
    ASSUME NEW R, RegInv(R), NEW n \in Names PROVE SafeStep(R, SourceRemove(R, n))
<1> DEFINE C == {c \in Lookup(R, n) : /\ Subscribers(R, c) = {}
                                      /\ ~R.src[c].publishing
                                      /\ ~Referenced(R, c)}
           T == FreeSources(R, C)
<1>1. R \in RegType BY DEF RegInv
<1>2. /\ T.sess = R.sess
      /\ \A c \in Cells : T.src[c] = IF c \in C THEN FreeSource ELSE R.src[c]
  BY <1>1 DEF FreeSources, RegType
<1>3. \A c \in Cells : Referenced(T, c) <=> Referenced(R, c)
  BY <1>2 DEF Referenced
<1> HIDE DEF T
<1>4. SafeStep(R, T) BY <1>2, <1>3 DEF SafeStep
<1> QED BY <1>4 DEF SourceRemove, T

(* Source lookup and creation. *)
LEMMA SourceGetOK ==
    ASSUME NEW R, RegInv(R), NEW n \in Names, NEW o \in SourceGet(R, n)
    PROVE  RegInv(o.reg) /\ SafeStep(R, o.reg)
<1> DEFINE R1 == ExpireLocked(R, TRUE)
<1>0. SafeStep(R, R) BY DEF SafeStep
<1>1. RegInv(R1) /\ SafeStep(R, R1) /\ Lookup(R1, n) \subseteq Lookup(R, n)
  BY ExpireLockedInv, ExpireLockedSafe
<1> HIDE DEF R1
<1>2. ASSUME NEW Q, RegInv(Q), SafeStep(R, Q), Lookup(Q, n) = {},
             o \in SourceAllocated(Q, n)
      PROVE  RegInv(o.reg) /\ SafeStep(R, o.reg)
  <2>1. PICK c \in FreeCells(Q) :
            o = [reg |-> [Q EXCEPT !.src[c] = NewSource(n)], ptr |-> c]
    BY <1>2 DEF SourceAllocated
  <2>2. c \in Cells /\ Q \in RegType BY <1>2 DEF FreeCells, RegInv
  <2>3. /\ o.reg.sess = Q.sess
        /\ \A d \in Cells : Q.src[d].live => o.reg.src[d].live
    BY <2>1, <2>2 DEF RegType, NewSource
  <2>4. \A d \in Cells : Referenced(o.reg, d) <=> Referenced(Q, d)
    BY <2>3 DEF Referenced
  <2>5. SafeStep(R, o.reg) BY <1>2, <2>3, <2>4 DEF SafeStep
  <2> QED BY <1>2, <2>5, AllocatedInv
<1>3. CASE Lookup(R, n) # {}
  BY <1>0, <1>3 DEF SourceGet
<1>4. CASE Lookup(R, n) = {}
  <2>1. \/ o \in SourceAllocated(R, n)
        \/ o \in SourceAllocated(R1, n)
        \/ o = [reg |-> R1, ptr |-> NoCell]
    BY <1>4 DEF SourceGet, R1
  <2> QED BY <1>0, <1>1, <1>2, <1>4, <2>1
<1> QED BY <1>3, <1>4

(* One locked call of the registry other than session_add, or a tick. *)
Called(R, T) ==
    \/ \E n \in Names :
         \/ \E o \in SourceGet(R, n) : T = o.reg
         \/ T = SourceRemove(R, n)
         \/ T = SourceRequestClose(R, n)
         \/ \E kind \in Kinds \ {"none"} :
              T = TryPublish(R, n, kind) \/ T = ReleasePublish(R, n, kind)
    \/ \E u \in Ufrags :
         \/ T = SessionRequestClose(R, u)
         \/ \E w \in Slots : \/ T = SessionBind(R, u, w) \/ T = SessionActivate(R, u, w)
                             \/ T = SessionRemoveIfOwner(R, u, w)
                             \/ \E s \in States : T = SessionSetState(R, u, w, s)
    \/ \E c \in Cells : \/ T = Heartbeat(R, c)
                        \/ \E w \in Slots : T = Heartbeat(SetPublisherSlot(R, c, w), c)
    \/ T = ExpireLocked(R, FALSE)
    \/ T = Elapse(R)

(* Every such call keeps the invariant and is a safe step. *)
LEMMA CalledSafe ==
    ASSUME NEW R, NEW T, RegInv(R), Called(R, T) PROVE RegInv(T) /\ SafeStep(R, T)
<1> DEFINE Goal == RegInv(T) /\ SafeStep(R, T)
<1>0. RegInv(R) /\ R \in RegType BY DEF RegInv
<1>1. ASSUME NEW n \in Names, \E o \in SourceGet(R, n) : T = o.reg PROVE Goal
  BY <1>0, <1>1, SourceGetOK
<1>2. ASSUME NEW n \in Names, T = SourceRemove(R, n) PROVE Goal
  BY <1>0, <1>2, SourceRemoveInv, SourceRemoveSafe
<1>3. ASSUME NEW n \in Names, T = SourceRequestClose(R, n) PROVE Goal
  <2>1. SafeStep(R, SourceRequestClose(R, n))
    <3> DEFINE X == SourceRequestClose(R, n)
    <3>1. X.src = R.src BY <1>0 DEF SourceRequestClose, RegType
    <3>2. \A u \in Ufrags : /\ X.sess[u].live = R.sess[u].live
                            /\ X.sess[u].src = R.sess[u].src
                            /\ X.sess[u].owner = R.sess[u].owner
      BY <1>0, SkeletonHeld DEF SourceRequestClose, RegType, SkeletonType
    <3> HIDE DEF X
    <3> QED BY <3>1, <3>2, SafeWrite DEF X
  <2> QED BY <1>0, <1>3, <2>1, CloseNameInv
<1>4. ASSUME NEW n \in Names, NEW kind \in Kinds \ {"none"}, T = TryPublish(R, n, kind) PROVE Goal
  <2>1. SafeStep(R, TryPublish(R, n, kind))
    <3> DEFINE X == TryPublish(R, n, kind)
    <3>1. \A d \in Cells : R.src[d].live => X.src[d].live
      BY <1>0 DEF TryPublish, RegType, SourceType
    <3>2. \A v \in Ufrags : /\ X.sess[v].live => R.sess[v].live
                            /\ X.sess[v].src = R.sess[v].src
                            /\ X.sess[v].owner = R.sess[v].owner
      BY <1>0 DEF TryPublish, RegType, SkeletonType
    <3> HIDE DEF X
    <3> QED BY <3>1, <3>2, SafeWrite DEF X
  <2> QED BY <1>0, <1>4, <2>1, TryPublishInv
<1>5. ASSUME NEW n \in Names, NEW kind \in Kinds \ {"none"}, T = ReleasePublish(R, n, kind) PROVE Goal
  <2>1. SafeStep(R, ReleasePublish(R, n, kind))
    <3> DEFINE X == ReleasePublish(R, n, kind)
    <3>1. \A d \in Cells : R.src[d].live => X.src[d].live
      BY <1>0 DEF ReleasePublish, RegType, SourceType
    <3>2. \A v \in Ufrags : /\ X.sess[v].live => R.sess[v].live
                            /\ X.sess[v].src = R.sess[v].src
                            /\ X.sess[v].owner = R.sess[v].owner
      BY <1>0 DEF ReleasePublish, RegType, SkeletonType
    <3> HIDE DEF X
    <3> QED BY <3>1, <3>2, SafeWrite DEF X
  <2> QED BY <1>0, <1>5, <2>1, ReleasePublishInv
<1>6. ASSUME NEW u \in Ufrags, T = SessionRequestClose(R, u) PROVE Goal
  <2>1. SafeStep(R, SessionRequestClose(R, u))
    <3> DEFINE X == SessionRequestClose(R, u)
    <3>1. \A d \in Cells : R.src[d].live => X.src[d].live
      BY <1>0 DEF SessionRequestClose, RegType, SourceType
    <3>2. \A v \in Ufrags : /\ X.sess[v].live => R.sess[v].live
                            /\ X.sess[v].src = R.sess[v].src
                            /\ X.sess[v].owner = R.sess[v].owner
      BY <1>0 DEF SessionRequestClose, RegType, SkeletonType
    <3> HIDE DEF X
    <3> QED BY <3>1, <3>2, SafeWrite DEF X
  <2> QED BY <1>0, <1>6, <2>1, RequestCloseInv
<1>7. ASSUME NEW u \in Ufrags, NEW w \in Slots, T = SessionBind(R, u, w) PROVE Goal
  <2>1. SafeStep(R, SessionBind(R, u, w))
    BY <1>0, SafeWrite DEF SessionBind, MayAct, RegType, SkeletonType
  <2> QED BY <1>0, <1>7, <2>1, BindInv
<1>8. ASSUME NEW u \in Ufrags, NEW w \in Slots, T = SessionActivate(R, u, w) PROVE Goal
  <2>1. SafeStep(R, SessionActivate(R, u, w))
    <3> DEFINE X == SessionActivate(R, u, w)
    <3>1. \A d \in Cells : R.src[d].live => X.src[d].live
      BY <1>0 DEF SessionActivate, MayAct, RegType, SourceType
    <3>2. \A v \in Ufrags : /\ X.sess[v].live => R.sess[v].live
                            /\ X.sess[v].src = R.sess[v].src
                            /\ R.sess[v].owner # NoSlot => X.sess[v].owner = R.sess[v].owner
      BY <1>0 DEF SessionActivate, MayAct, RegType, SkeletonType
    <3> HIDE DEF X
    <3> QED BY <3>1, <3>2, SafeWrite DEF X
  <2> QED BY <1>0, <1>8, <2>1, ActivateInv
<1>9. ASSUME NEW u \in Ufrags, NEW w \in Slots, T = SessionRemoveIfOwner(R, u, w) PROVE Goal
  <2>1. SafeStep(R, R) BY DEF SafeStep
  <2> QED BY <1>0, <1>9, <2>1, FreeSessionsInv, FreeSessionsSafe
          DEF SessionRemoveIfOwner
<1>10. ASSUME NEW u \in Ufrags, NEW w \in Slots, NEW s \in States, T = SessionSetState(R, u, w, s)
       PROVE Goal
  <2>1. SafeStep(R, SessionSetState(R, u, w, s))
    BY <1>0, SafeWrite DEF SessionSetState, MayAct, RegType, SkeletonType
  <2> QED BY <1>0, <1>10, <2>1, SetStateInv
<1>11. ASSUME NEW c \in Cells, T = Heartbeat(R, c) PROVE Goal
  <2>1. SafeStep(R, Heartbeat(R, c))
    BY <1>0, SafeWrite DEF Heartbeat, RegType, SourceType
  <2> QED BY <1>0, <1>11, <2>1, HeartbeatInv
<1>12. ASSUME NEW c \in Cells, NEW w \in Slots, T = Heartbeat(SetPublisherSlot(R, c, w), c) PROVE Goal
  <2> DEFINE Q == SetPublisherSlot(R, c, w)
  <2>1. RegInv(Q) BY <1>0, PublisherSlotInv
  <2>2. Q.sess = R.sess /\ \A d \in Cells : Q.src[d].live = R.src[d].live
    BY <1>0 DEF SetPublisherSlot, RegType, SourceType
  <2>3. Q \in RegType BY <2>1 DEF RegInv
  <2> HIDE DEF Q
  <2>4. /\ Heartbeat(Q, c).sess = Q.sess
        /\ \A d \in Cells : Heartbeat(Q, c).src[d].live = Q.src[d].live
    BY <2>3 DEF Heartbeat, RegType, SourceType
  <2>5. SafeStep(R, Heartbeat(Q, c)) BY <2>2, <2>4, SafeWrite
  <2> QED BY <1>12, <2>1, <2>5, HeartbeatInv DEF Q
<1>13. CASE T = ExpireLocked(R, FALSE)
  BY <1>0, <1>13, ExpireLockedInv, ExpireLockedSafe
<1>14. CASE T = Elapse(R)
  <2>1. SafeStep(R, Elapse(R))
    <3> DEFINE X == Elapse(R)
    <3>1. \A d \in Cells : R.src[d].live => X.src[d].live
      BY <1>0 DEF Elapse, RegType, SourceType
    <3>2. \A v \in Ufrags : /\ X.sess[v].live => R.sess[v].live
                            /\ X.sess[v].src = R.sess[v].src
                            /\ X.sess[v].owner = R.sess[v].owner
      BY <1>0 DEF Elapse, RegType, SkeletonType
    <3> HIDE DEF X
    <3> QED BY <3>1, <3>2, SafeWrite DEF X
  <2> QED BY <1>0, <1>14, <2>1, ElapseInv
<1> QED
  BY <1>1, <1>2, <1>3, <1>4, <1>5, <1>6, <1>7, <1>8, <1>9, <1>10, <1>11, <1>12,
     <1>13, <1>14
  DEF Called

(* session_add writes one new skeleton, possibly after a forced reap that   *)
(* left Q.                                                                  *)
AddsTo(R, Q, T, u, n, pub) ==
    /\ Q = R \/ ("session" \in SlabFails /\ Q = ExpireLocked(R, TRUE))
    /\ RegInv(Q) /\ SafeStep(R, Q)
    /\ T = Q \/ \E c \in Lookup(R, n) : T = PutSession(Q, u, c, pub)

LEMMA AddOutcome ==
    ASSUME NEW R, RegInv(R), NEW u \in Ufrags, NEW n \in Names, NEW pub \in BOOLEAN,
           NEW T \in SessionAdd(R, u, n, pub)
    PROVE  \E Q : AddsTo(R, Q, T, u, n, pub)
<1> DEFINE R1 == ExpireLocked(R, TRUE)
<1>1. RegInv(R1) /\ SafeStep(R, R1) BY ExpireLockedInv, ExpireLockedSafe
<1>2. SafeStep(R, R) BY DEF SafeStep
<1>3. \/ T = R
      \/ \E c \in Lookup(R, n) : T = PutSession(R, u, c, pub)
      \/ /\ "session" \in SlabFails
         /\ T = R1 \/ \E c \in Lookup(R, n) : T = PutSession(R1, u, c, pub)
  BY DEF SessionAdd
<1> HIDE DEF R1
<1>4. AddsTo(R, R, T, u, n, pub) \/ AddsTo(R, R1, T, u, n, pub)
  BY <1>1, <1>2, <1>3 DEF AddsTo, R1
<1> QED BY <1>4

-----------------------------------------------------------------------------
(* What a call does to the skeletons' media state, and to the claims.       *)

(* No skeleton is added, bound, activated or written, and no bound one is   *)
(* freed.                                                                   *)
Quiet(R, T) ==
    \A u \in Ufrags :
        /\ T.sess[u].live => /\ R.sess[u].live
                             /\ T.sess[u].owner = R.sess[u].owner
                             /\ T.sess[u].ready = R.sess[u].ready
                             /\ T.sess[u].state = R.sess[u].state
                             /\ T.sess[u].pub = R.sess[u].pub
        /\ R.sess[u].live /\ R.sess[u].owner # NoSlot => T.sess[u].live

LEMMA QuietSame == ASSUME NEW R, NEW T, T.sess = R.sess PROVE Quiet(R, T)
BY DEF Quiet

LEMMA QuietTwice == ASSUME NEW R, NEW Q, NEW T, Quiet(R, Q), Quiet(Q, T) PROVE Quiet(R, T)
BY DEF Quiet

(* A reap, forced or not, frees unbound skeletons only. *)
LEMMA ExpireQuiet ==
    ASSUME NEW R, RegInv(R), NEW forced \in BOOLEAN PROVE Quiet(R, ExpireLocked(R, forced))
<1> DEFINE S == ExpiredSessions(R, forced)
           R0 == FreeSessions(R, S)
           R1 == ReclaimPublishers(R0)
           T == FreeSources(R1, {c \in Cells : Reapable(R1, c, forced)})
<1>1. ExpireLocked(R, forced) = T BY DEF ExpireLocked
<1>2. RegInv(R0) BY FreeSessionsInv DEF ExpiredSessions
<1>3. \A u \in Ufrags : R0.sess[u] = IF u \in S THEN FreeSkeleton ELSE R.sess[u]
  BY DEF FreeSessions
<1>4. \A u \in S : R.sess[u].owner = NoSlot BY DEF ExpiredSessions
<1> HIDE DEF S, R0
<1>5. R0 \in RegType BY <1>2 DEF RegInv
<1>6. R1.sess = R0.sess /\ R1 \in RegType
  BY <1>2, <1>5, ReclaimInv DEF ReclaimPublishers, RegInv, RegType
<1> HIDE DEF R1
<1>7. T.sess = R1.sess BY <1>6 DEF FreeSources, RegType
<1> HIDE DEF T
<1>8. Quiet(R, T) BY <1>3, <1>4, <1>6, <1>7, FreeShapes DEF Quiet
<1> QED BY <1>1, <1>8

LEMMA GetQuiet ==
    ASSUME NEW R, RegInv(R), NEW n \in Names, NEW o \in SourceGet(R, n)
    PROVE  Quiet(R, o.reg) /\ o.ptr \in Cells \cup {NoCell}
<1> DEFINE R1 == ExpireLocked(R, TRUE)
<1>1. RegInv(R1) /\ Quiet(R, R1) BY ExpireLockedInv, ExpireQuiet
<1> HIDE DEF R1
<1>2. ASSUME NEW Q, RegInv(Q), o \in SourceAllocated(Q, n)
      PROVE  o.reg.sess = Q.sess /\ o.ptr \in Cells
  BY <1>2 DEF SourceAllocated, FreeCells, RegInv, RegType
<1>3. \/ o.reg = R /\ o.ptr \in Cells
      \/ o \in SourceAllocated(R, n)
      \/ o \in SourceAllocated(R1, n)
      \/ o = [reg |-> R1, ptr |-> NoCell]
  <2>1. CASE Lookup(R, n) # {}
    <3>1. PICK c \in Lookup(R, n) : o = [reg |-> R, ptr |-> c] BY <2>1 DEF SourceGet
    <3> QED BY <3>1 DEF Lookup
  <2>2. CASE Lookup(R, n) = {} BY <2>2 DEF SourceGet, R1
  <2> QED BY <2>1, <2>2
<1>4. o = [reg |-> R1, ptr |-> NoCell] => o.reg = R1 /\ o.ptr = NoCell OBVIOUS
<1>5. CASE o.reg = R /\ o.ptr \in Cells BY <1>5, QuietSame
<1>6. CASE o \in SourceAllocated(R, n) BY <1>2, <1>6, QuietSame
<1>7. CASE o \in SourceAllocated(R1, n)
  <2>1. o.reg.sess = R1.sess /\ o.ptr \in Cells BY <1>1, <1>2, <1>7
  <2> QED BY <1>1, <2>1 DEF Quiet
<1>8. CASE o = [reg |-> R1, ptr |-> NoCell] BY <1>1, <1>4, <1>8
<1> QED BY <1>3, <1>5, <1>6, <1>7, <1>8

(* Neither do the calls on sources, the kicks, the heartbeat and the clock. *)
LEMMA CalledQuiet ==
    ASSUME NEW R, RegInv(R), NEW T,
           \/ \E n \in Names :
                \/ T = SourceRemove(R, n) \/ T = SourceRequestClose(R, n)
                \/ \E kind \in Kinds : T = TryPublish(R, n, kind) \/ T = ReleasePublish(R, n, kind)
           \/ \E u \in Ufrags : T = SessionRequestClose(R, u)
           \/ \E c \in Cells : \/ T = Heartbeat(R, c)
                               \/ \E w \in Slots : T = Heartbeat(SetPublisherSlot(R, c, w), c)
           \/ T = Elapse(R)
    PROVE  Quiet(R, T)
<1>0. R \in RegType BY DEF RegInv
<1>1. ASSUME NEW n \in Names, T = SourceRemove(R, n) PROVE Quiet(R, T)
  BY <1>0, <1>1, QuietSame DEF SourceRemove, FreeSources, RegType
<1>2. ASSUME NEW n \in Names, T = SourceRequestClose(R, n) PROVE Quiet(R, T)
  BY <1>0, <1>2 DEF Quiet, SourceRequestClose, RegType, SkeletonType
<1>3. ASSUME NEW n \in Names, NEW kind \in Kinds, T = TryPublish(R, n, kind) PROVE Quiet(R, T)
  BY <1>0, <1>3, QuietSame DEF TryPublish, RegType
<1>4. ASSUME NEW n \in Names, NEW kind \in Kinds, T = ReleasePublish(R, n, kind) PROVE Quiet(R, T)
  BY <1>0, <1>4, QuietSame DEF ReleasePublish, RegType
<1>5. ASSUME NEW u \in Ufrags, T = SessionRequestClose(R, u) PROVE Quiet(R, T)
  BY <1>0, <1>5 DEF Quiet, SessionRequestClose, RegType, SkeletonType
<1>6. ASSUME NEW c \in Cells, T = Heartbeat(R, c) PROVE Quiet(R, T)
  BY <1>0, <1>6, QuietSame DEF Heartbeat, RegType
<1>7. ASSUME NEW c \in Cells, NEW w \in Slots, T = Heartbeat(SetPublisherSlot(R, c, w), c)
      PROVE  Quiet(R, T)
  <2> DEFINE Q == SetPublisherSlot(R, c, w)
  <2>1. Q.sess = R.sess BY <1>0 DEF SetPublisherSlot, RegType
  <2>2. Q \in RegType BY PublisherSlotInv DEF RegInv
  <2> HIDE DEF Q
  <2>3. Heartbeat(Q, c).sess = Q.sess BY <2>2 DEF Heartbeat, RegType
  <2> QED BY <1>7, <2>1, <2>3, QuietSame DEF Q
<1>8. CASE T = Elapse(R)
  BY <1>0, <1>8 DEF Quiet, Elapse, RegType, SkeletonType
<1> QED BY <1>1, <1>2, <1>3, <1>4, <1>5, <1>6, <1>7, <1>8

(* The calls on one skeleton leave the others alone. *)
LEMMA BindSkeleton ==
    ASSUME NEW R, RegInv(R), NEW u \in Ufrags, NEW w \in Slots
    PROVE  LET T == SessionBind(R, u, w)
           IN  /\ \A v \in Ufrags : v # u => T.sess[v] = R.sess[v]
               /\ T.sess[u].live = R.sess[u].live /\ T.sess[u].ready = R.sess[u].ready
               /\ T.sess[u].state = R.sess[u].state /\ T.sess[u].pub = R.sess[u].pub
               /\ IF MayAct(R, u, w) THEN T.sess[u].owner = w ELSE T.sess[u] = R.sess[u]
BY DEF SessionBind, RegInv, RegType, SkeletonType

LEMMA ActivateSkeleton ==
    ASSUME NEW R, RegInv(R), NEW u \in Ufrags, NEW w \in Slots
    PROVE  LET T == SessionActivate(R, u, w)
           IN  /\ \A v \in Ufrags : v # u => T.sess[v] = R.sess[v]
               /\ T.sess[u].live = R.sess[u].live /\ T.sess[u].pub = R.sess[u].pub
               /\ IF MayAct(R, u, w)
                  THEN T.sess[u].owner = w /\ T.sess[u].ready /\ T.sess[u].state = "SRTP_READY"
                  ELSE T.sess[u] = R.sess[u]
BY DEF SessionActivate, RegInv, RegType, SkeletonType

LEMMA SetStateSkeleton ==
    ASSUME NEW R, RegInv(R), NEW u \in Ufrags, NEW w \in Slots, NEW s \in States
    PROVE  LET T == SessionSetState(R, u, w, s)
           IN  /\ \A v \in Ufrags : v # u => T.sess[v] = R.sess[v]
               /\ T.sess[u].live = R.sess[u].live /\ T.sess[u].ready = R.sess[u].ready
               /\ T.sess[u].owner = R.sess[u].owner /\ T.sess[u].pub = R.sess[u].pub
               /\ T.sess[u].state = IF MayAct(R, u, w) THEN s ELSE R.sess[u].state
BY DEF SessionSetState, RegInv, RegType, SkeletonType

LEMMA RemoveSkeleton ==
    ASSUME NEW R, RegInv(R), NEW u \in Ufrags, NEW w \in Slots
    PROVE  LET T == SessionRemoveIfOwner(R, u, w)
           IN  /\ \A v \in Ufrags : v # u => T.sess[v] = R.sess[v]
               /\ IF MayAct(R, u, w) THEN ~T.sess[u].live ELSE T.sess[u] = R.sess[u]
BY FreeShapes DEF SessionRemoveIfOwner, FreeSessions

LEMMA AddSkeletons ==
    ASSUME NEW R, RegInv(R), NEW u \in Ufrags, NEW n \in Names, NEW pub \in BOOLEAN,
           NEW T \in SessionAdd(R, u, n, pub), ~R.sess[u].live
    PROVE  \E Q : /\ Quiet(R, Q) /\ RegInv(T)
                  /\ \A v \in Ufrags : v # u => T.sess[v] = Q.sess[v]
                  /\ T.sess[u].live => /\ ~T.sess[u].ready /\ T.sess[u].state = "NEW"
                                       /\ T.sess[u].owner = NoSlot /\ T.sess[u].pub = pub
<1>0. PICK Q : AddsTo(R, Q, T, u, n, pub) BY AddOutcome
<1>1. /\ Q = R \/ Q = ExpireLocked(R, TRUE)
      /\ RegInv(Q) /\ SafeStep(R, Q)
      /\ T = Q \/ \E c \in Lookup(R, n) : T = PutSession(Q, u, c, pub)
  BY <1>0 DEF AddsTo
<1>2. Quiet(R, Q) BY <1>1, QuietSame, ExpireQuiet
<1>3. ~Q.sess[u].live BY <1>2 DEF Quiet
<1>4. CASE T = Q BY <1>1, <1>2, <1>3, <1>4
<1>5. ASSUME NEW c \in Lookup(R, n), T = PutSession(Q, u, c, pub)
      PROVE  /\ RegInv(T) /\ \A v \in Ufrags : v # u => T.sess[v] = Q.sess[v]
             /\ T.sess[u] = NewSkeleton(c, pub)
  <2>1. c \in Cells BY DEF Lookup
  <2>2. RegInv(T) BY <1>1, <1>3, <1>5, <2>1, PutSessionInv
  <2>3. Q \in RegType BY <1>1 DEF RegInv
  <2> QED BY <1>5, <2>2, <2>3 DEF PutSession, RegType
<1>6. \A c : /\ ~NewSkeleton(c, pub).ready /\ NewSkeleton(c, pub).state = "NEW"
             /\ NewSkeleton(c, pub).owner = NoSlot /\ NewSkeleton(c, pub).pub = pub
  BY DEF NewSkeleton
<1> QED BY <1>1, <1>2, <1>4, <1>5, <1>6

(* A claim is on a live source. *)
ClaimsLive(R) == \A c \in Cells : R.src[c].publishing => R.src[c].live

(* No claim is made, and none changes hands. *)
NoClaim(R, T) ==
    \A c \in Cells : T.src[c].publishing =>
        /\ T.src[c].live /\ R.src[c].publishing
        /\ T.src[c].name = R.src[c].name /\ T.src[c].kind = R.src[c].kind

(* Source records that keep name and claim. *)
LEMMA ClaimSame ==
    ASSUME NEW R, NEW T, ClaimsLive(R),
           \A c \in Cells : /\ T.src[c].live = R.src[c].live
                            /\ T.src[c].name = R.src[c].name
                            /\ T.src[c].publishing = R.src[c].publishing
                            /\ T.src[c].kind = R.src[c].kind
    PROVE  NoClaim(R, T)
BY DEF NoClaim, ClaimsLive

LEMMA ClaimTwice ==
    ASSUME NEW R, NEW Q, NEW T, NoClaim(R, Q), NoClaim(Q, T) PROVE NoClaim(R, T)
BY DEF NoClaim

LEMMA NoClaimLive == ASSUME NEW R, NEW T, NoClaim(R, T) PROVE ClaimsLive(T)
BY DEF NoClaim, ClaimsLive

LEMMA FreeSessionsClaims ==
    ASSUME NEW R, R \in RegType, ClaimsLive(R), NEW S \in SUBSET Ufrags
    PROVE  NoClaim(R, FreeSessions(R, S))
<1> DEFINE T == FreeSessions(R, S)
<1>1. \A c \in Cells : T.src[c] = R.src[c] \/ T.src[c] = LeaveSource(R, c, S)
  BY DEF FreeSessions
<1> HIDE DEF T
<1>2. NoClaim(R, T) BY <1>1, LeaveSourceFields, ClaimSame
<1> QED BY <1>2 DEF T

LEMMA FreeSourcesClaims ==
    ASSUME NEW R, R \in RegType, ClaimsLive(R), NEW C
    PROVE  NoClaim(R, FreeSources(R, C))
<1>1. \A c \in Cells : FreeSources(R, C).src[c] = IF c \in C THEN FreeSource ELSE R.src[c]
  BY DEF FreeSources, RegType
<1> QED BY <1>1, FreeShapes DEF NoClaim, ClaimsLive

(* A reap takes claims and makes none. *)
LEMMA ExpireClaims ==
    ASSUME NEW R, RegInv(R), ClaimsLive(R), NEW forced \in BOOLEAN
    PROVE  NoClaim(R, ExpireLocked(R, forced))
<1> DEFINE R0 == FreeSessions(R, ExpiredSessions(R, forced))
           R1 == ReclaimPublishers(R0)
           T == FreeSources(R1, {c \in Cells : Reapable(R1, c, forced)})
<1>1. ExpireLocked(R, forced) = T BY DEF ExpireLocked
<1>2. RegInv(R0) /\ R \in RegType BY FreeSessionsInv DEF ExpiredSessions, RegInv
<1>3. ExpiredSessions(R, forced) \in SUBSET Ufrags BY DEF ExpiredSessions
<1>4. NoClaim(R, R0) BY <1>2, <1>3, FreeSessionsClaims
<1> HIDE DEF R0
<1>5. RegInv(R1) BY <1>2, ReclaimInv
<1>6. R0 \in RegType /\ R1 \in RegType BY <1>2, <1>5 DEF RegInv
<1>7. \A c \in Cells : R1.src[c] = ReclaimPublisher(R0.src[c])
  BY <1>6 DEF ReclaimPublishers, RegType
<1> HIDE DEF R1
<1>8. ASSUME NEW c \in Cells, R1.src[c].publishing PROVE R1.src[c] = R0.src[c]
  <2>1. R0.src[c] \in SourceType BY <1>6 DEF RegType
  <2> QED BY <1>7, <1>8, <2>1 DEF ReclaimPublisher, SourceType
<1>9. NoClaim(R0, R1) BY <1>4, <1>8 DEF NoClaim
<1>10. NoClaim(R1, T) BY <1>6, <1>9, NoClaimLive, FreeSourcesClaims
<1> HIDE DEF T
<1>11. NoClaim(R, T) BY <1>4, <1>9, <1>10, ClaimTwice
<1> QED BY <1>1, <1>11

LEMMA GetClaims ==
    ASSUME NEW R, RegInv(R), ClaimsLive(R), NEW n \in Names, NEW o \in SourceGet(R, n)
    PROVE  NoClaim(R, o.reg)
<1> DEFINE R1 == ExpireLocked(R, TRUE)
<1>1. RegInv(R1) /\ NoClaim(R, R1) BY ExpireLockedInv, ExpireClaims
<1>2. NoClaim(R, R) BY ClaimSame
<1> HIDE DEF R1
<1>3. ASSUME NEW Q, RegInv(Q), NoClaim(R, Q), o \in SourceAllocated(Q, n)
      PROVE  NoClaim(R, o.reg)
  <2>1. PICK c \in FreeCells(Q) : o = [reg |-> [Q EXCEPT !.src[c] = NewSource(n)], ptr |-> c]
    BY <1>3 DEF SourceAllocated
  <2>2. c \in Cells /\ Q \in RegType BY <1>3 DEF FreeCells, RegInv
  <2>3. \A d \in Cells : o.reg.src[d] = IF d = c THEN NewSource(n) ELSE Q.src[d]
    BY <2>1, <2>2 DEF RegType
  <2>4. ~NewSource(n).publishing BY DEF NewSource
  <2> QED BY <1>3, <2>3, <2>4 DEF NoClaim
<1>4. o.reg = R \/ o \in SourceAllocated(R, n) \/ o \in SourceAllocated(R1, n) \/ o.reg = R1
  <2>1. CASE Lookup(R, n) # {} BY <2>1 DEF SourceGet
  <2>2. CASE Lookup(R, n) = {}
    <3>1. \/ o \in SourceAllocated(R, n) \/ o \in SourceAllocated(R1, n)
          \/ o = [reg |-> R1, ptr |-> NoCell]
      BY <2>2 DEF SourceGet, R1
    <3> QED BY <3>1
  <2> QED BY <2>1, <2>2
<1> QED BY <1>1, <1>2, <1>3, <1>4

LEMMA AddClaims ==
    ASSUME NEW R, RegInv(R), ClaimsLive(R), NEW u \in Ufrags, NEW n \in Names,
           NEW pub \in BOOLEAN, NEW T \in SessionAdd(R, u, n, pub)
    PROVE  NoClaim(R, T)
<1>1. PICK Q : AddsTo(R, Q, T, u, n, pub) BY AddOutcome
<1>2. Q \in RegType BY <1>1 DEF AddsTo, RegInv
<1>3. T.src = Q.src BY <1>1, <1>2 DEF AddsTo, PutSession, RegType
<1>4. NoClaim(R, Q) BY <1>1, ExpireClaims, ClaimSame DEF AddsTo
<1> QED BY <1>3, <1>4 DEF NoClaim

(* A release clears the claim of its kind. *)
LEMMA ReleaseClaims ==
    ASSUME NEW R, RegInv(R), ClaimsLive(R), NEW n \in Names, NEW kind
    PROVE  LET T == ReleasePublish(R, n, kind)
           IN  /\ NoClaim(R, T)
               /\ \A c \in Cells : T.src[c].publishing => T.src[c].name # n \/ T.src[c].kind # kind
<1> DEFINE T == ReleasePublish(R, n, kind)
<1>0. R \in RegType BY DEF RegInv
<1>1. ASSUME NEW c \in Cells, T.src[c].publishing
      PROVE  T.src[c] = R.src[c] /\ ~(c \in Lookup(R, n) /\ R.src[c].kind = kind)
  <2>1. R.src[c] \in SourceType BY <1>0 DEF RegType
  <2>2. c \in Lookup(R, n) /\ R.src[c].kind = kind =>
          \E e : T.src[c] = [R.src[c] EXCEPT !.kind = "none", !.publishing = FALSE, !.expires = e]
    BY <1>0 DEF ReleasePublish, RegType
  <2>3. ~(c \in Lookup(R, n) /\ R.src[c].kind = kind) BY <1>1, <2>1, <2>2 DEF SourceType
  <2> QED BY <1>0, <2>3 DEF ReleasePublish, RegType
<1> HIDE DEF T
<1>2. NoClaim(R, T) BY <1>1 DEF NoClaim, ClaimsLive
<1>3. \A c \in Cells : T.src[c].publishing => T.src[c].name # n \/ T.src[c].kind # kind
  BY <1>1 DEF Lookup, ClaimsLive
<1> QED BY <1>2, <1>3 DEF T

(* A claim is granted on an unclaimed source, or to its own kind. *)
LEMMA TryClaims ==
    ASSUME NEW R, RegInv(R), ClaimsLive(R), NEW n \in Names, NEW kind
    PROVE  LET T == TryPublish(R, n, kind)
           IN  IF PublishBusy(R, n, kind)
               THEN /\ NoClaim(R, T)
                    /\ \A c \in Cells : T.src[c].publishing /\ T.src[c].name = n
                         => T.src[c].kind # kind
               ELSE /\ ClaimsLive(T)
                    /\ \A c \in Cells : T.src[c].publishing =>
                         \/ T.src[c].name = n /\ T.src[c].kind = kind
                         \/ /\ T.src[c].name # n /\ R.src[c].publishing
                            /\ T.src[c].name = R.src[c].name /\ T.src[c].kind = R.src[c].kind
<1> DEFINE T == TryPublish(R, n, kind)
<1>0. R \in RegType BY DEF RegInv
<1>1. \A c \in Cells :
        \/ T.src[c] = R.src[c] /\ (c \notin Lookup(R, n) \/ PublishBusy(R, n, kind))
        \/ /\ c \in Lookup(R, n) /\ ~PublishBusy(R, n, kind)
           /\ T.src[c].live /\ T.src[c].kind = kind /\ T.src[c].name = n
  <2> TAKE c \in Cells
  <2>1. R.src[c] \in SourceType BY <1>0 DEF RegType
  <2>2. T.src[c] = IF c \in Lookup(R, n) /\ ~PublishBusy(R, n, kind)
                   THEN [R.src[c] EXCEPT !.kind = kind, !.publishing = TRUE,
                                         !.expires = Unarmed, !.seen = 0]
                   ELSE R.src[c]
    BY <1>0 DEF TryPublish, RegType
  <2> QED BY <2>1, <2>2 DEF SourceType, Lookup
<1> HIDE DEF T
<1>2. CASE PublishBusy(R, n, kind)
  <2>1. NoClaim(R, T) BY <1>1, <1>2, ClaimSame
  <2>2. ASSUME NEW c \in Cells, T.src[c].publishing, T.src[c].name = n PROVE T.src[c].kind # kind
    <3>1. T.src[c] = R.src[c] BY <1>1, <1>2
    <3>2. R.src[c].live BY <2>2, <3>1 DEF ClaimsLive
    <3>3. PICK d \in Lookup(R, n) : R.src[d].kind \notin {"none", kind} BY <1>2 DEF PublishBusy
    <3>4. d = c BY <2>2, <3>1, <3>2, <3>3 DEF RegInv, UniqueIn, Lookup
    <3> QED BY <3>1, <3>3, <3>4
  <2> QED BY <1>2, <2>1, <2>2 DEF T
<1>3. CASE ~PublishBusy(R, n, kind)
  <2>1. ClaimsLive(T) BY <1>1 DEF ClaimsLive, Lookup
  <2>2. ASSUME NEW c \in Cells, T.src[c].publishing
        PROVE  \/ T.src[c].name = n /\ T.src[c].kind = kind
               \/ /\ T.src[c].name # n /\ R.src[c].publishing
                  /\ T.src[c].name = R.src[c].name /\ T.src[c].kind = R.src[c].kind
    BY <1>1, <1>3, <2>2 DEF ClaimsLive, Lookup
  <2> QED BY <1>3, <2>1, <2>2 DEF T
<1> QED BY <1>2, <1>3

(* The calls other than try_publish, and none of them makes a claim. *)
Unclaimed(R, T) ==
    \/ \E n \in Names :
         \/ \E o \in SourceGet(R, n) : T = o.reg
         \/ T = SourceRemove(R, n)
         \/ T = SourceRequestClose(R, n)
         \/ \E kind \in Kinds : T = ReleasePublish(R, n, kind)
    \/ \E u \in Ufrags :
         \/ T = SessionRequestClose(R, u)
         \/ \E w \in Slots : \/ T = SessionBind(R, u, w) \/ T = SessionActivate(R, u, w)
                             \/ T = SessionRemoveIfOwner(R, u, w)
                             \/ \E s \in States : T = SessionSetState(R, u, w, s)
    \/ \E c \in Cells : \/ T = Heartbeat(R, c)
                        \/ \E w \in Slots : T = Heartbeat(SetPublisherSlot(R, c, w), c)
    \/ T = ExpireLocked(R, FALSE)
    \/ T = Elapse(R)
    \/ T = R

LEMMA UnclaimedCalls ==
    ASSUME NEW R, RegInv(R), ClaimsLive(R), NEW T, Unclaimed(R, T) PROVE NoClaim(R, T)
<1> DEFINE Goal == NoClaim(R, T)
<1>0. R \in RegType BY DEF RegInv
<1>1. ASSUME NEW n \in Names, \E o \in SourceGet(R, n) : T = o.reg PROVE Goal
  BY <1>1, GetClaims
<1>2. ASSUME NEW n \in Names, T = SourceRemove(R, n) PROVE Goal
  BY <1>0, <1>2, FreeSourcesClaims DEF SourceRemove
<1>3. ASSUME NEW n \in Names, T = SourceRequestClose(R, n) PROVE Goal
  BY <1>0, <1>3, ClaimSame DEF SourceRequestClose, RegType
<1>4. ASSUME NEW n \in Names, NEW kind \in Kinds, T = ReleasePublish(R, n, kind) PROVE Goal
  BY <1>4, ReleaseClaims
<1>5. ASSUME NEW u \in Ufrags, T = SessionRequestClose(R, u) PROVE Goal
  BY <1>0, <1>5, ClaimSame DEF SessionRequestClose, RegType
<1>6. ASSUME NEW u \in Ufrags, NEW w \in Slots, T = SessionBind(R, u, w) PROVE Goal
  BY <1>0, <1>6, ClaimSame DEF SessionBind, RegType
<1>7. ASSUME NEW u \in Ufrags, NEW w \in Slots, T = SessionActivate(R, u, w) PROVE Goal
  <2>1. CASE ~MayAct(R, u, w) BY <1>7, <2>1, ClaimSame DEF SessionActivate
  <2>2. CASE MayAct(R, u, w)
    <3>1. ASSUME NEW c \in Cells
          PROVE  /\ T.src[c].live = R.src[c].live /\ T.src[c].name = R.src[c].name
                 /\ T.src[c].publishing = R.src[c].publishing
                 /\ T.src[c].kind = R.src[c].kind
      <4>1. R.src[c] \in SourceType BY <1>0 DEF RegType
      <4>2. \/ T.src[c] = R.src[c]
            \/ \E v, e, r : T.src[c] = [R.src[c] EXCEPT !.version = v, !.expires = e, !.remote = r]
        BY <1>7, <2>2 DEF SessionActivate
      <4> QED BY <4>1, <4>2 DEF SourceType
    <3> QED BY <3>1, ClaimSame
  <2> QED BY <2>1, <2>2
<1>8. ASSUME NEW u \in Ufrags, NEW w \in Slots, T = SessionRemoveIfOwner(R, u, w) PROVE Goal
  BY <1>0, <1>8, FreeSessionsClaims, ClaimSame DEF SessionRemoveIfOwner
<1>9. ASSUME NEW u \in Ufrags, NEW w \in Slots, NEW s \in States,
             T = SessionSetState(R, u, w, s)
      PROVE  Goal
  BY <1>0, <1>9, ClaimSame DEF SessionSetState, RegType
<1>10. ASSUME NEW c \in Cells, T = Heartbeat(R, c) PROVE Goal
  BY <1>0, <1>10, ClaimSame DEF Heartbeat, RegType, SourceType
<1>11. ASSUME NEW c \in Cells, NEW w \in Slots, T = Heartbeat(SetPublisherSlot(R, c, w), c)
       PROVE  Goal
  <2> DEFINE Q == SetPublisherSlot(R, c, w)
  <2>1. NoClaim(R, Q) BY <1>0, ClaimSame DEF SetPublisherSlot, RegType, SourceType
  <2>2. Q \in RegType BY PublisherSlotInv DEF RegInv
  <2> HIDE DEF Q
  <2>3. NoClaim(Q, Heartbeat(Q, c))
    BY <2>1, <2>2, NoClaimLive, ClaimSame DEF Heartbeat, RegType, SourceType
  <2> QED BY <1>11, <2>1, <2>3, ClaimTwice DEF Q
<1>12. CASE T = ExpireLocked(R, FALSE) BY <1>12, ExpireClaims
<1>13. CASE T = Elapse(R)
  <2>1. ASSUME NEW c \in Cells
        PROVE  /\ T.src[c].live = R.src[c].live /\ T.src[c].name = R.src[c].name
               /\ T.src[c].publishing = R.src[c].publishing /\ T.src[c].kind = R.src[c].kind
    <3>1. R.src[c] \in SourceType BY <1>0 DEF RegType
    <3>2. \E e, t : T.src[c] = [R.src[c] EXCEPT !.expires = e, !.seen = t]
      BY <1>13 DEF Elapse
    <3> QED BY <3>1, <3>2 DEF SourceType
  <2> QED BY <2>1, ClaimSame
<1>14. CASE T = R BY <1>14, ClaimSame
<1> QED BY <1>1, <1>2, <1>3, <1>4, <1>5, <1>6, <1>7, <1>8, <1>9, <1>10, <1>11, <1>12, <1>13,
           <1>14
        DEF Unclaimed


(* The zone that ngx_rtc_shm_init_zone leaves behind.                       *)
LEMMA EmptyZoneInv == RegInv(EmptyZone) /\ \A u \in Ufrags : ~EmptyZone.sess[u].live
<1>1. EmptyZone \in RegType BY FreshTypes DEF EmptyZone, RegType
<1>2. /\ \A c \in Cells : EmptyZone.src[c] = FreeSource
      /\ \A u \in Ufrags : EmptyZone.sess[u] = FreeSkeleton
  BY DEF EmptyZone
<1>3. UniqueIn(EmptyZone) /\ HeldIn(EmptyZone) /\ NoOrphanIn(EmptyZone)
  BY <1>2, FreeShapes DEF UniqueIn, HeldIn, NoOrphanIn
<1> QED BY <1>1, <1>2, <1>3, FreeShapes DEF RegInv
=============================================================================
