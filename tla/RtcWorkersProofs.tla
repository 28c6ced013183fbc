-------------------------- MODULE RtcWorkersProofs --------------------------
(***************************************************************************)
(* Proofs about RtcWorkers for any number of workers, names, clients and   *)
(* crashes.                                                                *)
(*                                                                         *)
(* A worker inside a handler is described by its agenda.  What a handler   *)
(* may leave there has few shapes (Shape), and what a call there says of   *)
(* the worker's sessions stays true until it is made (Backed), because a   *)
(* worker starts no other handler and no other worker writes its state.    *)
(***************************************************************************)
EXTENDS RtcWorkers, ShmOpsProofs, SequenceTheorems

Task == [op : {"ptr", "get", "add", "mirror", "state", "slot",
               "release", "remove", "drop", "scan"},
         n : Names, kind : Kinds, U : SUBSET Ufrags]

-----------------------------------------------------------------------------
(* The invariant *)

Types ==
    /\ RegInv(shm)
    /\ issued \subseteq Ufrags /\ \A u \in Ufrags : shm.sess[u].live => u \in issued
    /\ lsrc \in [Slots -> [Names -> LocalSource]]
    /\ lsess \in [Slots -> [Ufrags -> LocalSession]]
    /\ agenda \in [Slots -> Seq(Task)]
    /\ crashes \in Nat

(* The calls a handler may have left. *)
Shape(s) ==
    /\ \A i \in DOMAIN s :
         /\ s[i].op = "release" => s[i].kind # "none"
         /\ s[i].op = "drop" => \A u, v \in s[i].U : u = v
    /\ \A i, j \in DOMAIN s :
         /\ s[i].op \in {"mirror", "state"} => s[j].op \in {"mirror", "state"}
         /\ s[i].op \in {"drop", "scan"} => s[j].op \in {"release", "remove", "drop", "scan"}
         /\ s[i].op = "add" /\ s[j].op = "add" => i = j
         /\ s[i].op = "scan" => j <= i
    /\ \A i \in DOMAIN s : s[i].op = "get" /\ s[i].U # {} =>
         i + 1 \in DOMAIN s /\ s[i + 1].op = "add"

(* A skeleton about to be added has a ufrag that nobody else uses; a state  *)
(* about to be published, or a session about to be scanned, is there; a     *)
(* skeleton about to be dropped has lost its session.                       *)
Backed(w, a) ==
    \A u \in a.U :
        /\ a.op = "add" => /\ u \notin issued /\ lsess[w][u].st \in {"NEW", NoSession}
                           /\ \A x \in Slots : x # w => ~Has(x, u)
        /\ a.op \in {"state", "scan"} => Has(w, u)
        /\ a.op = "drop" => ~Has(w, u)

(* No ufrag is about to be added by two workers. *)
AddedOnce ==
    \A w, x \in Slots : w # x =>
        \A i \in DOMAIN agenda[w], j \in DOMAIN agenda[x] :
            agenda[w][i].op = "add" /\ agenda[x][j].op = "add"
              => agenda[w][i].U \cap agenda[x][j].U = {}

Handlers ==
    /\ \A w \in Slots : Shape(agenda[w]) /\ \A i \in DOMAIN agenda[w] : Backed(w, agenda[w][i])
    /\ AddedOnce

IndInv == Types /\ Handlers

(* A worker that has the ready session is the owner of a ready skeleton, if *)
(* it may act on the skeleton at all.                                       *)
ReadyInv == crashes = 0 =>
    \A u \in Ufrags : shm.sess[u].live =>
        /\ shm.sess[u].ready <=> shm.sess[u].state = "SRTP_READY"
        /\ shm.sess[u].ready =>
              \/ lsess[shm.sess[u].owner][u].st = "SRTP_READY"
              \/ \E i \in DOMAIN agenda[shm.sess[u].owner] :
                    /\ agenda[shm.sess[u].owner][i].op = "drop"
                    /\ u \in agenda[shm.sess[u].owner][i].U
        /\ \A w \in Slots : lsess[w][u].st = "SRTP_READY" /\ shm.sess[u].owner \in {NoSlot, w}
              => shm.sess[u].ready

(* A worker keeps a local source while it is published or held, and a WHIP  *)
(* publisher's mirror, made or about to be made, has a session.             *)
Held(w) ==
    /\ \A n \in Names :
         /\ lsrc[w][n].here <=> lsrc[w][n].kind # "none" \/ Holders(w, n) # {}
         /\ lsrc[w][n].kind = "whip" => Holders(w, n) # {}
    /\ \A i \in DOMAIN agenda[w] :
         agenda[w][i].op = "mirror" => Holders(w, agenda[w][i].n) # {}

SourceInv == \A w \in Slots : Held(w)

(* A source is tagged with its publisher as long as it is there and         *)
(* published, and only a published one has a pointer.  A worker where a     *)
(* WHIP publisher is has no RTMP publisher of that name.                    *)
Sound(l) == /\ l.kind # "none" => l.here
            /\ l.ptr # NoCell => l.kind # "none"

Tagged(w) ==
    /\ \A n \in Names : Sound(lsrc[w][n])
    /\ \A u \in Ufrags : Has(w, u) /\ lsess[w][u].pub
         => lsrc[w][lsess[w][u].name].kind # "rtmp"
    /\ \A i \in DOMAIN agenda[w] :
         /\ agenda[w][i].op = "ptr" => i = 1 /\ lsrc[w][agenda[w][i].n].kind # "none"
         /\ agenda[w][i].op = "mirror" => /\ i = 1 /\ lsrc[w][agenda[w][i].n].here
                                          /\ lsrc[w][agenda[w][i].n].kind # "rtmp"

(* Every claim is mirrored by a worker that publishes it, or about to be    *)
(* released by one.                                                         *)
Releases(s, n, k) ==
    \E i \in DOMAIN s : s[i].op = "release" /\ s[i].n = n /\ s[i].kind = k

Backs(w, n, k) == lsrc[w][n].kind = k \/ Releases(agenda[w], n, k)

Claims == crashes = 0 =>
    \A c \in Cells : shm.src[c].publishing =>
        \E w \in Slots : Backs(w, shm.src[c].name, shm.src[c].kind)

ClaimInv == ClaimsLive(shm) /\ Claims /\ \A w \in Slots : Tagged(w)

-----------------------------------------------------------------------------
(* The registry the workers call is the registry of ShmRegistry.            *)

LEMMA SameSourceRemove == \A R, n : Registry!SourceRemove(R, n) = SourceRemove(R, n)
BY Zenon
DEF Registry!SourceRemove, SourceRemove, Registry!FreeSources, FreeSources,
       Registry!FreeSource, FreeSource, Registry!NewSource, NewSource,
       Registry!AnyName, AnyName, Registry!Lookup, Lookup, Registry!Subscribers,
       Subscribers, Registry!Referenced, Referenced

LEMMA SameSessionBind == \A R, u, w : Registry!SessionBind(R, u, w) = SessionBind(R, u, w)
BY Zenon
DEF Registry!SessionBind, SessionBind, Registry!MayAct, MayAct

LEMMA SameSessionActivate == \A R, u, w : Registry!SessionActivate(R, u, w) = SessionActivate(R, u, w)
BY Zenon
DEF Registry!SessionActivate, SessionActivate, Registry!MayAct, MayAct,
       Registry!Unarmed, Unarmed

LEMMA SameSessionRequestClose == \A R, u : Registry!SessionRequestClose(R, u) = SessionRequestClose(R, u)
BY Zenon
DEF Registry!SessionRequestClose, SessionRequestClose

LEMMA SameSourceRequestClose == \A R, n : Registry!SourceRequestClose(R, n) = SourceRequestClose(R, n)
BY Zenon
DEF Registry!SourceRequestClose, SourceRequestClose, Registry!Lookup, Lookup,
       Registry!Subscribers, Subscribers

LEMMA SameSessionSetState == \A R, u, w, s : Registry!SessionSetState(R, u, w, s) = SessionSetState(R, u, w, s)
BY Zenon
DEF Registry!SessionSetState, SessionSetState, Registry!MayAct, MayAct

LEMMA SameTryPublish == \A R, n, kind : Registry!TryPublish(R, n, kind) = TryPublish(R, n, kind)
BY Zenon
DEF Registry!TryPublish, TryPublish, Registry!Lookup, Lookup,
       Registry!PublishBusy, PublishBusy, Registry!Unarmed, Unarmed

LEMMA SameReleasePublish == \A R, n, kind : Registry!ReleasePublish(R, n, kind) = ReleasePublish(R, n, kind)
BY Zenon
DEF Registry!ReleasePublish, ReleasePublish, Registry!Lookup, Lookup,
       Registry!Subscribers, Subscribers, Registry!Unarmed, Unarmed

LEMMA SameHeartbeat == \A R, c : Registry!Heartbeat(R, c) = Heartbeat(R, c)
BY Zenon
DEF Registry!Heartbeat, Heartbeat

LEMMA SameSetPublisherSlot == \A R, c, w : Registry!SetPublisherSlot(R, c, w) = SetPublisherSlot(R, c, w)
BY Zenon
DEF Registry!SetPublisherSlot, SetPublisherSlot

LEMMA SameElapse == \A R : Registry!Elapse(R) = Elapse(R)
BY Zenon
DEF Registry!Elapse, Elapse, Registry!CountDown, CountDown

LEMMA SameEmptyZone == Registry!EmptyZone = EmptyZone
BY Zenon
DEF Registry!EmptyZone, EmptyZone, Registry!FreeSource, FreeSource,
       Registry!NewSource, NewSource, Registry!AnyName, AnyName,
       Registry!FreeSkeleton, FreeSkeleton, Registry!NewSkeleton, NewSkeleton,
       Registry!AnyCell, AnyCell

LEMMA SameCardinality == \A S : Registry!Cardinality(S) = Cardinality(S)
BY Zenon DEF Registry!Cardinality, Cardinality

LEMMA SameLeaveSource ==
    ASSUME NEW R, NEW c, NEW S PROVE Registry!LeaveSource(R, c, S) = LeaveSource(R, c, S)
<1> DEFINE s == R.src[c]
           idle == Subscribers(R, c) \subseteq S /\ ~s.publishing
<1>1. /\ Registry!Cardinality(S \cap Subscribers(R, c)) = Cardinality(S \cap Subscribers(R, c))
      /\ Registry!Cardinality(RemoteIn(R, c, S)) = Cardinality(RemoteIn(R, c, S))
  BY SameCardinality
<1>2. Registry!LeaveSource(R, c, S) = [s EXCEPT
        !.version = @ + Registry!Cardinality(S \cap Subscribers(R, c)),
        !.remote  = AtLeastZero(@ - Registry!Cardinality(RemoteIn(R, c, S))),
        !.expires = IF idle /\ @ = Unarmed THEN SourceExpire ELSE @]
  BY Zenon DEF Registry!LeaveSource, Registry!Subscribers, Subscribers, Registry!RemoteIn,
               RemoteIn, Registry!AtLeastZero, AtLeastZero, Registry!Unarmed, Unarmed
<1>3. LeaveSource(R, c, S) = [s EXCEPT
        !.version = @ + Cardinality(S \cap Subscribers(R, c)),
        !.remote  = AtLeastZero(@ - Cardinality(RemoteIn(R, c, S))),
        !.expires = IF idle /\ @ = Unarmed THEN SourceExpire ELSE @]
  BY Zenon DEF LeaveSource
<1> QED BY <1>1, <1>2, <1>3

LEMMA SameFreeSessions == \A R, S : Registry!FreeSessions(R, S) = FreeSessions(R, S)
<1>1. Registry!FreeSkeleton = FreeSkeleton
  BY Zenon DEF Registry!FreeSkeleton, FreeSkeleton, Registry!NewSkeleton, NewSkeleton,
               Registry!AnyCell, AnyCell
<1> QED BY <1>1, SameLeaveSource DEF Registry!FreeSessions, FreeSessions

LEMMA SameSessionRemoveIfOwner ==
    \A R, u, w : Registry!SessionRemoveIfOwner(R, u, w) = SessionRemoveIfOwner(R, u, w)
BY SameFreeSessions
DEF Registry!SessionRemoveIfOwner, SessionRemoveIfOwner, Registry!MayAct, MayAct

LEMMA SameExpireLocked == \A R, forced : Registry!ExpireLocked(R, forced) = ExpireLocked(R, forced)
<1> SUFFICES ASSUME NEW R, NEW forced
             PROVE  Registry!ExpireLocked(R, forced) = ExpireLocked(R, forced)
  OBVIOUS
<1> DEFINE E(Q) == LET R1 == ReclaimPublishers(Q)
                   IN  FreeSources(R1, {c \in Cells : Reapable(R1, c, forced)})
<1>1. Registry!ExpireLocked(R, forced) = E(Registry!FreeSessions(R, ExpiredSessions(R, forced)))
  BY Zenon
  DEF Registry!ExpireLocked, Registry!ReclaimPublishers, ReclaimPublishers,
      Registry!ReclaimPublisher, ReclaimPublisher, Registry!FreeSources, FreeSources,
      Registry!FreeSource, FreeSource, Registry!NewSource, NewSource, Registry!AnyName, AnyName,
      Registry!Reapable, Reapable, Registry!Subscribers, Subscribers, Registry!Referenced,
      Referenced, Registry!Due, Due, Registry!Unarmed, Unarmed,
      Registry!ExpiredSessions, ExpiredSessions
<1>2. ExpireLocked(R, forced) = E(FreeSessions(R, ExpiredSessions(R, forced)))
  BY Zenon DEF ExpireLocked
<1>3. Registry!FreeSessions(R, ExpiredSessions(R, forced))
        = FreeSessions(R, ExpiredSessions(R, forced))
  BY SameFreeSessions
<1> HIDE DEF E
<1> QED BY <1>1, <1>2, <1>3

LEMMA SameSourceGet == \A R, n : Registry!SourceGet(R, n) = SourceGet(R, n)
<1>1. /\ \A R, n : Registry!Lookup(R, n) = Lookup(R, n)
      /\ \A R, n : Registry!SourceAllocated(R, n) = SourceAllocated(R, n)
      /\ \A R : Registry!SourceAllocFails(R) <=> SourceAllocFails(R)
  BY Zenon DEF Registry!Lookup, Lookup, Registry!SourceAllocated, SourceAllocated,
               Registry!SourceAllocFails, SourceAllocFails, Registry!FreeCells, FreeCells,
               Registry!NewSource, NewSource
<1> QED BY <1>1, SameExpireLocked DEF Registry!SourceGet, SourceGet

LEMMA SameSessionAdd ==
    \A R, u, n, pub : Registry!SessionAdd(R, u, n, pub) = SessionAdd(R, u, n, pub)
<1> SUFFICES ASSUME NEW R, NEW u, NEW n, NEW pub
             PROVE  Registry!SessionAdd(R, u, n, pub) = SessionAdd(R, u, n, pub)
  OBVIOUS
<1> DEFINE A(R1) == IF Lookup(R, n) = {} THEN {R}
                    ELSE {PutSession(R, u, c, pub) : c \in Lookup(R, n)} \cup
                         (IF "session" \in SlabFails
                          THEN {R1} \cup {PutSession(R1, u, c, pub) : c \in Lookup(R, n)}
                          ELSE {})
<1>1. Registry!SessionAdd(R, u, n, pub) = A(Registry!ExpireLocked(R, TRUE))
  BY Zenon DEF Registry!SessionAdd, Registry!Lookup, Lookup, Registry!PutSession, PutSession,
               Registry!NewSkeleton, NewSkeleton
<1>2. SessionAdd(R, u, n, pub) = A(ExpireLocked(R, TRUE)) BY Zenon DEF SessionAdd
<1>3. Registry!ExpireLocked(R, TRUE) = ExpireLocked(R, TRUE) BY SameExpireLocked
<1> HIDE DEF A
<1> QED BY <1>1, <1>2, <1>3

LEMMA SameKinds == Registry!Kinds = Kinds /\ Registry!States = States
BY DEF Registry!Kinds, Kinds, Registry!States, States

(* A locked call of a worker is a step of the registry. *)
LEMMA CallRefines ==
    ASSUME Called(shm, shm'), issued' = issued PROVE Registry!Next
<1> USE DEF Registry!Next, Registry!SourceCalls, Registry!SessionCalls, Registry!PublisherWrites
<1>1. ASSUME NEW n \in Names, \E o \in SourceGet(shm, n) : shm' = o.reg PROVE Registry!Next
  <2>1. Registry!Get(n) BY <1>1, SameSourceGet DEF Registry!Get
  <2> QED BY <2>1
<1>2. ASSUME NEW n \in Names, shm' = SourceRemove(shm, n) PROVE Registry!Next
  <2>1. Registry!Remove(n) BY <1>2, SameSourceRemove DEF Registry!Remove
  <2> QED BY <2>1
<1>3. ASSUME NEW n \in Names, shm' = SourceRequestClose(shm, n) PROVE Registry!Next
  <2>1. Registry!CloseName(n) BY <1>3, SameSourceRequestClose DEF Registry!CloseName
  <2> QED BY <2>1
<1>4. ASSUME NEW n \in Names, NEW kind \in Kinds \ {"none"}, shm' = TryPublish(shm, n, kind)
      PROVE  Registry!Next
  <2>1. Registry!Claim(n, kind) BY <1>4, SameTryPublish DEF Registry!Claim
  <2> QED BY <2>1, SameKinds
<1>5. ASSUME NEW n \in Names, NEW kind \in Kinds \ {"none"}, shm' = ReleasePublish(shm, n, kind)
      PROVE  Registry!Next
  <2>1. Registry!Release(n, kind) BY <1>5, SameReleasePublish DEF Registry!Release
  <2> QED BY <2>1, SameKinds
<1>6. ASSUME NEW u \in Ufrags, shm' = SessionRequestClose(shm, u) PROVE Registry!Next
  <2>1. Registry!RequestClose(u) BY <1>6, SameSessionRequestClose DEF Registry!RequestClose
  <2> QED BY <2>1
<1>7. ASSUME NEW u \in Ufrags, NEW w \in Slots, shm' = SessionBind(shm, u, w)
      PROVE  Registry!Next
  <2>1. Registry!Bind(u, w) BY <1>7, SameSessionBind DEF Registry!Bind
  <2> QED BY <2>1
<1>8. ASSUME NEW u \in Ufrags, NEW w \in Slots, shm' = SessionActivate(shm, u, w)
      PROVE  Registry!Next
  <2>1. Registry!Activate(u, w) BY <1>8, SameSessionActivate DEF Registry!Activate
  <2> QED BY <2>1
<1>9. ASSUME NEW u \in Ufrags, NEW w \in Slots, shm' = SessionRemoveIfOwner(shm, u, w)
      PROVE  Registry!Next
  <2>1. Registry!RemoveIfOwner(u, w)
    BY <1>9, SameSessionRemoveIfOwner DEF Registry!RemoveIfOwner
  <2> QED BY <2>1
<1>10. ASSUME NEW u \in Ufrags, NEW w \in Slots, NEW s \in States,
              shm' = SessionSetState(shm, u, w, s)
       PROVE  Registry!Next
  <2>1. Registry!SetState(u, w, s) BY <1>10, SameSessionSetState DEF Registry!SetState
  <2> QED BY <2>1, SameKinds
<1>11. ASSUME NEW c \in Cells, shm' = Heartbeat(shm, c) PROVE Registry!Next
  <2>1. Registry!Beat(c) BY <1>11, SameHeartbeat DEF Registry!Beat
  <2> QED BY <2>1
<1>12. ASSUME NEW c \in Cells, NEW w \in Slots,
              shm' = Heartbeat(SetPublisherSlot(shm, c, w), c)
       PROVE  Registry!Next
  <2>1. Registry!Publisher(c, w)
    BY <1>12, SameHeartbeat, SameSetPublisherSlot DEF Registry!Publisher
  <2> QED BY <2>1
<1>13. CASE shm' = ExpireLocked(shm, FALSE)
  <2>1. Registry!Expire BY <1>13, SameExpireLocked DEF Registry!Expire
  <2> QED BY <2>1
<1>14. CASE shm' = Elapse(shm)
  <2>1. Registry!Tick BY <1>14, SameElapse DEF Registry!Tick
  <2> QED BY <2>1
<1> QED
  BY <1>1, <1>2, <1>3, <1>4, <1>5, <1>6, <1>7, <1>8, <1>9, <1>10, <1>11, <1>12,
     <1>13, <1>14
  DEF Called

-----------------------------------------------------------------------------
(* Process-local records *)

LEMMA SourceTypes ==
    /\ AbsentSource \in LocalSource
    /\ \A s \in LocalSource :
         /\ Created(s) \in LocalSource /\ Cleared(s) \in LocalSource
         /\ \A k \in Kinds : Claimed(s, k) \in LocalSource
         /\ \A c \in Pointers : Cached(s, c) \in LocalSource
         /\ \A H : Removed(s, H) \in LocalSource
<1>0. 0 \in 0..ShmSync /\ NoCell \in Pointers /\ "none" \in Kinds
  BY WorkerTimes DEF Pointers, Kinds
<1>1. AbsentSource \in LocalSource BY <1>0 DEF AbsentSource, LocalSource
<1>2. ASSUME NEW s \in LocalSource PROVE Created(s) \in LocalSource
  BY <1>0 DEF Created, AbsentSource, LocalSource
<1>3. ASSUME NEW s \in LocalSource PROVE Cleared(s) \in LocalSource
  BY <1>0 DEF Cleared, LocalSource
<1>4. ASSUME NEW s \in LocalSource, NEW k \in Kinds PROVE Claimed(s, k) \in LocalSource
  <2>1. Created(s) \in LocalSource BY <1>2
  <2> QED BY <1>0, <2>1 DEF Claimed, LocalSource
<1>5. ASSUME NEW s \in LocalSource, NEW c \in Pointers PROVE Cached(s, c) \in LocalSource
  BY <1>0 DEF Cached, LocalSource
<1>6. ASSUME NEW s \in LocalSource, NEW H PROVE Removed(s, H) \in LocalSource
  BY <1>1 DEF Removed
<1> QED BY <1>1, <1>2, <1>3, <1>4, <1>5, <1>6

LEMMA SessionTypes ==
    /\ AbsentSession \in LocalSession /\ AbsentSession.st = NoSession
    /\ \A n \in Names, pub \in BOOLEAN : NewLocal(n, pub) \in LocalSession
<1>1. AnyName \in Names BY ShmSets DEF AnyName
<1> QED BY <1>1, WorkerTimes DEF AbsentSession, LocalSession, NewLocal, States, NoSession

(* The session a worker rebuilds from a skeleton. *)
LEMMA RebuiltFields ==
    ASSUME NEW n \in Names, NEW k \in SkeletonType
    PROVE  /\ Rebuilt(n, k) \in LocalSession /\ Rebuilt(n, k).st # NoSession
           /\ Rebuilt(n, k).name = n /\ Rebuilt(n, k).pub = k.pub
           /\ Rebuilt(n, k).st = "SRTP_READY" <=> k.ready
<1>1. k.pub \in BOOLEAN /\ k.ready \in BOOLEAN BY DEF SkeletonType
<1>2. NewLocal(n, k.pub) \in LocalSession BY <1>1, SessionTypes
<1>3. /\ NewLocal(n, k.pub).st = "NEW" /\ NewLocal(n, k.pub).name = n
      /\ NewLocal(n, k.pub).pub = k.pub
  BY DEF NewLocal
<1> QED BY <1>1, <1>2, <1>3 DEF Rebuilt, LocalSession, States, NoSession

(* A skeleton and the name of its source have their types. *)
LEMMA SkeletonFields ==
    ASSUME RegInv(shm), NEW u \in Ufrags
    PROVE  shm.sess[u] \in SkeletonType /\ shm.src[shm.sess[u].src].name \in Names
<1>1. shm \in RegType BY DEF RegInv
<1>2. shm.sess[u] \in SkeletonType /\ shm.sess[u].src \in Cells BY <1>1 DEF RegType, SkeletonType
<1>3. shm.src[shm.sess[u].src] \in SourceType BY <1>1, <1>2 DEF RegType
<1> QED BY <1>2, <1>3 DEF SourceType

(* One local source written. *)
LEMMA SourceWritten ==
    ASSUME Types, NEW w \in Slots, NEW n \in Names, NEW s \in LocalSource,
           lsrc' = [lsrc EXCEPT ![w][n] = s]
    PROVE  /\ lsrc' \in [Slots -> [Names -> LocalSource]]
           /\ lsrc'[w][n] = s
           /\ \A x \in Slots, m \in Names : x # w \/ m # n => lsrc'[x][m] = lsrc[x][m]
BY DEF Types

(* One local session written. *)
LEMMA SessionWritten ==
    ASSUME Types, NEW w \in Slots, NEW u \in Ufrags, NEW k \in LocalSession,
           lsess' = [lsess EXCEPT ![w][u] = k]
    PROVE  /\ lsess' \in [Slots -> [Ufrags -> LocalSession]]
           /\ lsess'[w][u] = k
           /\ \A x \in Slots, v \in Ufrags : x # w \/ v # u => lsess'[x][v] = lsess[x][v]
           /\ \A x \in Slots : x # w => lsess'[x] = lsess[x]
BY DEF Types

-----------------------------------------------------------------------------
(* Agendas *)

(* Agendas put together from shorter ones. *)
LEMMA JoinedAt ==
    ASSUME NEW S, NEW s \in Seq(S), NEW t \in Seq(S), NEW r \in Seq(S),
           Len(r) = Len(s) + Len(t),
           \A i \in 1..Len(s) : r[i] = s[i], \A i \in 1..Len(t) : r[Len(s) + i] = t[i]
    PROVE  s \o t = r
<1>1. /\ s \o t \in Seq(S) /\ Len(s \o t) = Len(s) + Len(t)
      /\ \A i \in 1..(Len(s) + Len(t)) : (s \o t)[i] = IF i <= Len(s) THEN s[i] ELSE t[i - Len(s)]
  BY ConcatProperties
<1>2. Len(s) \in Nat /\ Len(t) \in Nat OBVIOUS
<1>3. ASSUME NEW i \in 1..(Len(s) + Len(t)) PROVE (s \o t)[i] = r[i]
  <2>1. CASE i <= Len(s) BY <1>1, <1>2, <2>1
  <2>2. CASE ~(i <= Len(s))
    <3>1. i - Len(s) \in 1..Len(t) /\ Len(s) + (i - Len(s)) = i BY <1>2, <2>2
    <3> QED BY <1>1, <2>2, <3>1
  <2> QED BY <2>1, <2>2
<1> QED BY <1>1, <1>3, SeqEqual

LEMMA Joined11 == \A a, b \in Task : <<a>> \o <<b>> = <<a, b>>
<1> TAKE a, b \in Task
<1> DEFINE s == <<a>>
           t == <<b>>
           r == <<a, b>>
<1>1. s \in Seq(Task) /\ Len(s) = 1 /\ s[1] = a OBVIOUS
<1>2. t \in Seq(Task) /\ Len(t) = 1 /\ t[1] = b OBVIOUS
<1>3. r \in Seq(Task) /\ Len(r) = 2 /\ r[1] = a /\ r[2] = b
  OBVIOUS
<1> HIDE DEF s, t, r
<1>4. \A i \in 1..Len(s) : r[i] = s[i] BY <1>1, <1>3
<1>5. Len(r) = Len(s) + Len(t) /\ \A i \in 1..Len(t) : r[Len(s) + i] = t[i]
  BY <1>1, <1>2, <1>3
<1>6. s \o t = r BY <1>1, <1>2, <1>3, <1>4, <1>5, JoinedAt
<1> QED BY <1>6 DEF s, t, r

LEMMA Joined12 == \A a, b, c \in Task : <<a>> \o <<b, c>> = <<a, b, c>>
<1> TAKE a, b, c \in Task
<1> DEFINE s == <<a>>
           t == <<b, c>>
           r == <<a, b, c>>
<1>1. s \in Seq(Task) /\ Len(s) = 1 /\ s[1] = a OBVIOUS
<1>2. t \in Seq(Task) /\ Len(t) = 2 /\ t[1] = b /\ t[2] = c OBVIOUS
<1>3. r \in Seq(Task) /\ Len(r) = 3 /\ r[1] = a /\ r[2] = b /\ r[3] = c
  OBVIOUS
<1> HIDE DEF s, t, r
<1>4. \A i \in 1..Len(s) : r[i] = s[i] BY <1>1, <1>3
<1>5. Len(r) = Len(s) + Len(t) /\ \A i \in 1..Len(t) : r[Len(s) + i] = t[i]
  BY <1>1, <1>2, <1>3
<1>6. s \o t = r BY <1>1, <1>2, <1>3, <1>4, <1>5, JoinedAt
<1> QED BY <1>6 DEF s, t, r

LEMMA Joined21 == \A a, b, c \in Task : <<a, b>> \o <<c>> = <<a, b, c>>
<1> TAKE a, b, c \in Task
<1> DEFINE s == <<a, b>>
           t == <<c>>
           r == <<a, b, c>>
<1>1. s \in Seq(Task) /\ Len(s) = 2 /\ s[1] = a /\ s[2] = b OBVIOUS
<1>2. t \in Seq(Task) /\ Len(t) = 1 /\ t[1] = c OBVIOUS
<1>3. r \in Seq(Task) /\ Len(r) = 3 /\ r[1] = a /\ r[2] = b /\ r[3] = c
  OBVIOUS
<1> HIDE DEF s, t, r
<1>4. \A i \in 1..Len(s) : r[i] = s[i] BY <1>1, <1>3
<1>5. Len(r) = Len(s) + Len(t) /\ \A i \in 1..Len(t) : r[Len(s) + i] = t[i]
  BY <1>1, <1>2, <1>3
<1>6. s \o t = r BY <1>1, <1>2, <1>3, <1>4, <1>5, JoinedAt
<1> QED BY <1>6 DEF s, t, r

LEMMA Joined22 == \A a, b, c, d \in Task : <<a, b>> \o <<c, d>> = <<a, b, c, d>>
<1> TAKE a, b, c, d \in Task
<1> DEFINE s == <<a, b>>
           t == <<c, d>>
           r == <<a, b, c, d>>
<1>1. s \in Seq(Task) /\ Len(s) = 2 /\ s[1] = a /\ s[2] = b OBVIOUS
<1>2. t \in Seq(Task) /\ Len(t) = 2 /\ t[1] = c /\ t[2] = d OBVIOUS
<1>3. r \in Seq(Task) /\ Len(r) = 4 /\ r[1] = a /\ r[2] = b /\ r[3] = c /\ r[4] = d
  OBVIOUS
<1> HIDE DEF s, t, r
<1>4. \A i \in 1..Len(s) : r[i] = s[i] BY <1>1, <1>3
<1>5. Len(r) = Len(s) + Len(t) /\ \A i \in 1..Len(t) : r[Len(s) + i] = t[i]
  BY <1>1, <1>2, <1>3
<1>6. s \o t = r BY <1>1, <1>2, <1>3, <1>4, <1>5, JoinedAt
<1> QED BY <1>6 DEF s, t, r

LEMMA Joined31 == \A a, b, c, d \in Task : <<a, b, c>> \o <<d>> = <<a, b, c, d>>
<1> TAKE a, b, c, d \in Task
<1> DEFINE s == <<a, b, c>>
           t == <<d>>
           r == <<a, b, c, d>>
<1>1. s \in Seq(Task) /\ Len(s) = 3 /\ s[1] = a /\ s[2] = b /\ s[3] = c OBVIOUS
<1>2. t \in Seq(Task) /\ Len(t) = 1 /\ t[1] = d OBVIOUS
<1>3. r \in Seq(Task) /\ Len(r) = 4 /\ r[1] = a /\ r[2] = b /\ r[3] = c /\ r[4] = d
  OBVIOUS
<1> HIDE DEF s, t, r
<1>4. \A i \in 1..Len(s) : r[i] = s[i] BY <1>1, <1>3
<1>5. Len(r) = Len(s) + Len(t) /\ \A i \in 1..Len(t) : r[Len(s) + i] = t[i]
  BY <1>1, <1>2, <1>3
<1>6. s \o t = r BY <1>1, <1>2, <1>3, <1>4, <1>5, JoinedAt
<1> QED BY <1>6 DEF s, t, r

LEMMA Joined32 == \A a, b, c, d, e \in Task : <<a, b, c>> \o <<d, e>> = <<a, b, c, d, e>>
<1> TAKE a, b, c, d, e \in Task
<1> DEFINE s == <<a, b, c>>
           t == <<d, e>>
           r == <<a, b, c, d, e>>
<1>1. s \in Seq(Task) /\ Len(s) = 3 /\ s[1] = a /\ s[2] = b /\ s[3] = c OBVIOUS
<1>2. t \in Seq(Task) /\ Len(t) = 2 /\ t[1] = d /\ t[2] = e OBVIOUS
<1>3. r \in Seq(Task) /\ Len(r) = 5 /\ r[1] = a /\ r[2] = b /\ r[3] = c /\ r[4] = d /\ r[5] = e
  OBVIOUS
<1> HIDE DEF s, t, r
<1>4. \A i \in 1..Len(s) : r[i] = s[i] BY <1>1, <1>3
<1>5. Len(r) = Len(s) + Len(t) /\ \A i \in 1..Len(t) : r[Len(s) + i] = t[i]
  BY <1>1, <1>2, <1>3
<1>6. s \o t = r BY <1>1, <1>2, <1>3, <1>4, <1>5, JoinedAt
<1> QED BY <1>6 DEF s, t, r

LEMMA TailAt ==
    ASSUME NEW s \in Seq(Task), s # <<>>
    PROVE  /\ Tail(s) \in Seq(Task) /\ Head(s) = s[1] /\ 1 \in DOMAIN s /\ Head(s) \in Task
           /\ \A i \in DOMAIN Tail(s) : i + 1 \in DOMAIN s /\ Tail(s)[i] = s[i + 1]
           /\ \A i \in DOMAIN s : i = 1 \/ i - 1 \in DOMAIN Tail(s)
<1>1. Len(s) \in Nat /\ Len(s) # 0 /\ DOMAIN s = 1..Len(s) OBVIOUS
<1>2. Tail(s) \in Seq(Task) /\ Len(Tail(s)) = Len(s) - 1 /\ DOMAIN Tail(s) = 1..(Len(s) - 1)
      /\ \A i \in 1..(Len(s) - 1) : Tail(s)[i] = s[i + 1]
  BY <1>1
<1>3. Head(s) = s[1] /\ 1 \in DOMAIN s /\ s[1] \in Task BY <1>1
<1> QED BY <1>1, <1>2, <1>3

LEMMA TailShape ==
    ASSUME NEW s \in Seq(Task), s # <<>>, Shape(s) PROVE Shape(Tail(s))
<1> DEFINE t == Tail(s)
<1>1. /\ \A i \in DOMAIN t : i + 1 \in DOMAIN s /\ t[i] = s[i + 1]
      /\ \A i \in DOMAIN s : i = 1 \/ i - 1 \in DOMAIN t
      /\ t \in Seq(Task)
  BY TailAt
<1>2. \A i \in DOMAIN t : i \in Nat /\ i # 0 BY <1>1
<1> HIDE DEF t
<1>3. \A i \in DOMAIN t :
        /\ t[i].op = "release" => t[i].kind # "none"
        /\ t[i].op = "drop" => \A u, v \in t[i].U : u = v
  BY <1>1 DEF Shape
<1>4. ASSUME NEW i \in DOMAIN t, NEW j \in DOMAIN t
      PROVE  /\ t[i].op \in {"mirror", "state"} => t[j].op \in {"mirror", "state"}
             /\ t[i].op \in {"drop", "scan"} => t[j].op \in {"release", "remove", "drop", "scan"}
             /\ t[i].op = "add" /\ t[j].op = "add" => i = j
             /\ t[i].op = "scan" => j <= i
  <2>1. /\ t[i].op \in {"mirror", "state"} => t[j].op \in {"mirror", "state"}
        /\ t[i].op \in {"drop", "scan"} => t[j].op \in {"release", "remove", "drop", "scan"}
    BY <1>1 DEF Shape
  <2>2. /\ t[i].op = "add" /\ t[j].op = "add" => i + 1 = j + 1
        /\ t[i].op = "scan" => j + 1 <= i + 1
    BY <1>1 DEF Shape
  <2> QED BY <1>2, <2>1, <2>2
<1>5. ASSUME NEW i \in DOMAIN t, t[i].op = "get", t[i].U # {}
      PROVE  i + 1 \in DOMAIN t /\ t[i + 1].op = "add"
  <2>1. (i + 1) + 1 \in DOMAIN s /\ s[(i + 1) + 1].op = "add" BY <1>1, <1>5 DEF Shape
  <2>2. (i + 1) + 1 # 1 /\ ((i + 1) + 1) - 1 = i + 1 BY <1>2
  <2>3. i + 1 \in DOMAIN t BY <1>1, <2>1, <2>2
  <2> QED BY <1>1, <2>1, <2>3
<1> QED BY <1>3, <1>4, <1>5 DEF Shape, t

(* A step of worker w: what its own agenda needs, and the others' agendas.  *)
LEMMA WorkerStep ==
    ASSUME IndInv, NEW w \in Slots, NEW s \in Seq(Task), Shape(s),
           agenda' = [agenda EXCEPT ![w] = s],
           Called(shm, shm') \/ shm' = shm, issued' = issued, crashes' \in Nat,
           lsrc' \in [Slots -> [Names -> LocalSource]],
           lsess' \in [Slots -> [Ufrags -> LocalSession]],
           \A x \in Slots : x # w => lsess'[x] = lsess[x],
           \A u \in Ufrags : Has(w, u)' /\ ~Has(w, u) =>
              \A x \in Slots : x # w => \A i \in DOMAIN agenda[x] :
                 agenda[x][i].op = "add" => u \notin agenda[x][i].U,
           \A i \in DOMAIN s : Backed(w, s[i])',
           \A i \in DOMAIN s : s[i].op = "add" =>
              \A x \in Slots : x # w => \A j \in DOMAIN agenda[x] :
                 agenda[x][j].op = "add" => s[i].U \cap agenda[x][j].U = {}
    PROVE  IndInv'
<1>0. Types /\ Handlers BY DEF IndInv
<1>1. agenda'[w] = s /\ \A x \in Slots : x # w => agenda'[x] = agenda[x]
  BY <1>0 DEF Types
<1>2. RegInv(shm') /\ \A u \in Ufrags : shm'.sess[u].live => u \in issued'
  BY <1>0, CalledSafe DEF Types, SafeStep
<1>3. Types' BY <1>0, <1>2 DEF Types
<1>4. ASSUME NEW x \in Slots, x # w, NEW i \in DOMAIN agenda[x]
      PROVE  Backed(x, agenda[x][i])'
  <2> DEFINE a == agenda[x][i]
  <2>0. a \in Task BY <1>0 DEF Types
  <2>1. Backed(x, a) BY <1>0 DEF Handlers
  <2>2. a.U \subseteq Ufrags BY <2>0 DEF Task
  <2> HIDE DEF a
  <2> SUFFICES ASSUME NEW u \in a.U
               PROVE  /\ a.op = "add" => /\ u \notin issued /\ lsess[x][u].st \in {"NEW", NoSession}
                                         /\ \A y \in Slots : y # x => ~Has(y, u)'
                      /\ a.op \in {"state", "scan"} => Has(x, u)
                      /\ a.op = "drop" => ~Has(x, u)
    BY <1>1, <1>4 DEF Backed, Has, a
  <2>3. /\ a.op = "add" => /\ u \notin issued /\ lsess[x][u].st \in {"NEW", NoSession}
                           /\ \A y \in Slots : y # x => ~Has(y, u)
        /\ a.op \in {"state", "scan"} => Has(x, u)
        /\ a.op = "drop" => ~Has(x, u)
    BY <2>1 DEF Backed
  <2>4. ASSUME a.op = "add", NEW y \in Slots, y # x PROVE ~Has(y, u)'
    <3>1. ~Has(y, u) BY <2>3, <2>4
    <3>2. CASE y = w BY <1>4, <2>2, <2>4, <3>1, <3>2 DEF a
    <3>3. CASE y # w BY <3>1, <3>3 DEF Has
    <3> QED BY <3>2, <3>3
  <2> QED BY <2>3, <2>4
<1>5. ASSUME NEW x \in Slots
      PROVE  (Shape(agenda[x]) /\ \A i \in DOMAIN agenda[x] : Backed(x, agenda[x][i]))'
  <2>1. CASE x = w BY <1>1, <2>1 DEF Backed, Has
  <2>2. CASE x # w
    <3>1. Shape(agenda[x]) BY <1>0 DEF Handlers
    <3> QED BY <1>1, <1>4, <2>2, <3>1 DEF Backed, Has
  <2> QED BY <2>1, <2>2
<1>6. AddedOnce'
  <2> SUFFICES ASSUME NEW x \in Slots, NEW y \in Slots, x # y,
                      NEW i \in DOMAIN agenda'[x], NEW j \in DOMAIN agenda'[y],
                      agenda'[x][i].op = "add", agenda'[y][j].op = "add"
               PROVE  agenda'[x][i].U \cap agenda'[y][j].U = {}
    BY DEF AddedOnce
  <2>1. CASE x = w BY <1>1, <2>1
  <2>2. CASE y = w
    <3>1. agenda'[y][j].U \cap agenda'[x][i].U = {} BY <1>1, <2>2
    <3> QED BY <3>1
  <2>3. CASE x # w /\ y # w BY <1>0, <1>1, <2>3 DEF Handlers, AddedOnce
  <2> QED BY <2>1, <2>2, <2>3
<1>7. Handlers' BY <1>5, <1>6 DEF Handlers
<1> QED BY <1>3, <1>7 DEF IndInv

-----------------------------------------------------------------------------
(* The steps preserve IndInv *)

(* The zone after a step that draws no ufrag. *)
Locked == (Called(shm, shm') \/ shm' = shm) /\ issued' = issued

LEMMA EmptyAgenda == <<>> \in Seq(Task) /\ Shape(<<>>)
BY DEF Shape

(* A handler of one locked call, on a worker that gains no session. *)
LEMMA IdleStep ==
    ASSUME IndInv, NEW w \in Slots, Idle(w), agenda' = agenda, Locked, crashes' = crashes,
           lsrc' \in [Slots -> [Names -> LocalSource]],
           lsess' \in [Slots -> [Ufrags -> LocalSession]],
           \A x \in Slots : x # w => lsess'[x] = lsess[x],
           \A u \in Ufrags : Has(w, u)' => Has(w, u)
    PROVE  IndInv'
<1>1. agenda' = [agenda EXCEPT ![w] = <<>>] BY DEF IndInv, Types, Idle
<1>2. \A i \in DOMAIN <<>> : FALSE OBVIOUS
<1>3. crashes' \in Nat BY DEF IndInv, Types
<1> QED BY <1>1, <1>2, <1>3, WorkerStep, EmptyAgenda DEF Locked

(* The next call of a handler, on a worker that gains and loses no session. *)
LEMMA TailStep ==
    ASSUME IndInv, NEW w \in Slots, ~Idle(w), Continue(w), Locked, crashes' = crashes,
           lsrc' \in [Slots -> [Names -> LocalSource]],
           lsess' \in [Slots -> [Ufrags -> LocalSession]],
           \A x \in Slots : x # w => lsess'[x] = lsess[x],
           \A u \in Ufrags : Has(w, u)' <=> Has(w, u),
           \/ lsess' = lsess
           \/ \A i \in DOMAIN agenda[w] : agenda[w][i].op # "add"
    PROVE  IndInv'
<1> PICK s : s = Tail(agenda[w]) OBVIOUS
<1>0. Types /\ Handlers BY DEF IndInv
<1>1. agenda[w] \in Seq(Task) /\ agenda[w] # <<>> /\ Shape(agenda[w])
  BY <1>0 DEF Types, Idle, Handlers
<1>2. /\ s \in Seq(Task)
      /\ \A i \in DOMAIN s : i + 1 \in DOMAIN agenda[w] /\ s[i] = agenda[w][i + 1]
  BY <1>1, TailAt
<1>3. Shape(s) BY <1>1, TailShape
<1>4. agenda' = [agenda EXCEPT ![w] = s] BY DEF Continue
<1>5. crashes' \in Nat BY <1>0 DEF Types
<1>6. ASSUME NEW i \in DOMAIN s PROVE Backed(w, s[i])'
  <2> PICK a : a = s[i] OBVIOUS
  <2>1. Backed(w, a) /\ a \in Task BY <1>0, <1>1, <1>2 DEF Handlers
  <2>2. a.U \subseteq Ufrags BY <2>1 DEF Task
  <2>3. a.op = "add" => lsess' = lsess BY <1>2
  <2> QED BY <2>1, <2>2, <2>3 DEF Backed, Has, Locked
<1>7. \A i \in DOMAIN s : s[i].op = "add" =>
        \A x \in Slots : x # w => \A j \in DOMAIN agenda[x] :
           agenda[x][j].op = "add" => s[i].U \cap agenda[x][j].U = {}
  BY <1>0, <1>2 DEF Handlers, AddedOnce
<1> QED BY <1>2, <1>3, <1>4, <1>5, <1>6, <1>7, WorkerStep DEF Locked

(* A step of no worker's handler. *)
LEMMA OutsideStep ==
    ASSUME IndInv, agenda' = agenda, Locked, crashes' = crashes,
           lsrc' \in [Slots -> [Names -> LocalSource]],
           lsess' \in [Slots -> [Ufrags -> LocalSession]],
           \A x \in Slots, u \in Ufrags : lsess'[x][u].st = lsess[x][u].st
    PROVE  IndInv'
<1>0. Types /\ Handlers BY DEF IndInv
<1>1. RegInv(shm') /\ \A u \in Ufrags : shm'.sess[u].live => u \in issued'
  BY <1>0, CalledSafe DEF Types, SafeStep, Locked
<1>2. Types' BY <1>0, <1>1 DEF Types, Locked
<1>3. ASSUME NEW x \in Slots, NEW i \in DOMAIN agenda[x] PROVE Backed(x, agenda[x][i])'
  <2> PICK a : a = agenda[x][i] OBVIOUS
  <2>1. Backed(x, a) /\ a \in Task BY <1>0 DEF Handlers, Types
  <2>2. a.U \subseteq Ufrags BY <2>1 DEF Task
  <2>3. \A y \in Slots, u \in a.U : lsess'[y][u].st = lsess[y][u].st BY <2>2
  <2>4. \A y \in Slots, u \in a.U : Has(y, u)' <=> Has(y, u) BY <2>3 DEF Has
  <2>5. issued' = issued BY DEF Locked
  <2>6. Backed(x, a)' BY <2>1, <2>3, <2>4, <2>5, Zenon DEF Backed
  <2> QED BY <2>6 DEF Backed, Has
<1>4. AddedOnce' BY <1>0 DEF Handlers, AddedOnce
<1>5. \A x \in Slots : Shape(agenda[x])' BY <1>0 DEF Handlers
<1> QED BY <1>2, <1>3, <1>4, <1>5 DEF IndInv, Handlers

(* A handler that starts with an agenda, on a worker that gains at most the *)
(* session u, whose ufrag is fresh.                                         *)
LEMMA StartStep ==
    ASSUME IndInv, NEW w \in Slots, NEW u \in Ufrags, FreshUfrag(u),
           NEW s \in Seq(Task), Shape(s),
           agenda' = [agenda EXCEPT ![w] = s], Locked, crashes' = crashes,
           lsrc' \in [Slots -> [Names -> LocalSource]],
           lsess' \in [Slots -> [Ufrags -> LocalSession]],
           \A x \in Slots, v \in Ufrags : x # w \/ v # u => lsess'[x][v] = lsess[x][v],
           lsess'[w][u].st \in {"NEW", NoSession},
           \A i \in DOMAIN s : /\ s[i].U \subseteq {u}
                               /\ s[i].op \notin {"state", "scan", "drop"}
    PROVE  IndInv'
<1>0. Types /\ Handlers BY DEF IndInv
<1>1. \A x \in Slots : x # w => lsess'[x] = lsess[x] BY <1>0 DEF Types
<1>2. /\ u \notin issued /\ \A x \in Slots : ~Has(x, u)
      /\ \A x \in Slots : \A i \in DOMAIN agenda[x] : u \notin agenda[x][i].U
  BY DEF FreshUfrag
<1>3. \A v \in Ufrags : Has(w, v)' /\ ~Has(w, v) => v = u BY DEF Has
<1>4. \A x \in Slots : x # w => ~Has(x, u)' BY <1>1, <1>2 DEF Has
<1>5. \A i \in DOMAIN s : Backed(w, s[i])' BY <1>2, <1>4 DEF Backed, Locked
<1>6. \A i \in DOMAIN s : s[i].op = "add" =>
        \A x \in Slots : x # w => \A j \in DOMAIN agenda[x] :
           agenda[x][j].op = "add" => s[i].U \cap agenda[x][j].U = {}
  BY <1>2
<1>7. \A v \in Ufrags : Has(w, v)' /\ ~Has(w, v) =>
        \A x \in Slots : x # w => \A i \in DOMAIN agenda[x] :
           agenda[x][i].op = "add" => v \notin agenda[x][i].U
  BY <1>2, <1>3
<1>8. crashes' \in Nat BY <1>0 DEF Types
<1> QED BY <1>1, <1>5, <1>6, <1>7, <1>8, WorkerStep DEF Locked

(* The locked calls, as Called names them. *)
LEMMA GetLocked ==
    ASSUME NEW n \in Names, \E o \in SourceGet(shm, n) : shm' = o.reg, issued' = issued
    PROVE  Locked
BY DEF Locked, Called

LEMMA PublishLocked ==
    ASSUME NEW n \in Names, NEW kind \in Kinds \ {"none"}, issued' = issued,
           shm' = TryPublish(shm, n, kind) \/ shm' = ReleasePublish(shm, n, kind)
    PROVE  Locked
BY DEF Locked, Called

LEMMA SessionLocked ==
    ASSUME NEW u \in Ufrags, NEW w \in Slots, issued' = issued,
           \/ shm' = SessionBind(shm, u, w) \/ shm' = SessionActivate(shm, u, w)
           \/ shm' = SessionRemoveIfOwner(shm, u, w)
           \/ \E s \in States : shm' = SessionSetState(shm, u, w, s)
           \/ shm' = SessionRequestClose(shm, u)
    PROVE  Locked
BY DEF Locked, Called

LEMMA CallTask ==
    ASSUME NEW op \in {"ptr", "get", "add", "mirror", "state", "slot",
                       "release", "remove", "drop", "scan"},
           NEW n \in Names, NEW kind \in Kinds, NEW U \in SUBSET Ufrags
    PROVE  /\ Call(op, n, kind, U) \in Task
           /\ Call(op, n, kind, U).op = op /\ Call(op, n, kind, U).n = n
           /\ Call(op, n, kind, U).kind = kind /\ Call(op, n, kind, U).U = U
BY DEF Call, Task

LEMMA PlayStep ==
    ASSUME IndInv, NEW w \in Slots, NEW u \in Ufrags, NEW n \in Names, Play(w, u, n)
    PROVE  IndInv' /\ Locked
<1> DEFINE a == Call("add", n, "none", {u})
<1>0. Types BY DEF IndInv
<1>1. a \in Task /\ a.op = "add" /\ a.U = {u} BY CallTask DEF Kinds
<1> HIDE DEF a
<1>2. <<a>> \in Seq(Task) /\ Shape(<<a>>) BY <1>1 DEF Shape
<1>3. lsrc[w][n] \in LocalSource BY <1>0 DEF Types
<1>4. lsrc' \in [Slots -> [Names -> LocalSource]]
  BY <1>0, <1>3, SourceTypes, SourceWritten DEF Play
<1>5. PICK k : k = NewLocal(n, FALSE) OBVIOUS
<1>6. /\ lsess' \in [Slots -> [Ufrags -> LocalSession]]
      /\ lsess'[w][u].st = "NEW"
      /\ \A x \in Slots, v \in Ufrags : x # w \/ v # u => lsess'[x][v] = lsess[x][v]
  <2>1. k \in LocalSession /\ k.st = "NEW" BY <1>5, SessionTypes DEF NewLocal
  <2>2. lsess' = [lsess EXCEPT ![w][u] = k] BY <1>5 DEF Play
  <2>3. /\ lsess' \in [Slots -> [Ufrags -> LocalSession]]
        /\ lsess'[w][u] = k
        /\ \A x \in Slots, v \in Ufrags : x # w \/ v # u => lsess'[x][v] = lsess[x][v]
        /\ \A x \in Slots : x # w => lsess'[x] = lsess[x]
    BY <1>0, <2>1, <2>2, SessionWritten
  <2> QED BY <2>1, <2>3
<1>7. Locked BY GetLocked DEF Play
<1>8. agenda' = [agenda EXCEPT ![w] = <<a>>] /\ FreshUfrag(u) /\ crashes' = crashes
  BY DEF Play, a
<1>9. \A i \in DOMAIN <<a>> : <<a>>[i].U \subseteq {u} /\ <<a>>[i].op \notin {"state", "scan", "drop"}
  BY <1>1
<1> QED BY <1>2, <1>4, <1>6, <1>7, <1>8, <1>9, StartStep

LEMMA WhipStep ==
    ASSUME IndInv, NEW w \in Slots, NEW u \in Ufrags, NEW n \in Names, Whip(w, u, n)
    PROVE  IndInv' /\ Locked
<1> DEFINE p == Call("ptr", n, "whip", {})
           g == Call("get", n, "whip", {u})
           a == Call("add", n, "whip", {u})
<1>0. Types BY DEF IndInv
<1>1. /\ p \in Task /\ p.op = "ptr" /\ p.U = {}
      /\ g \in Task /\ g.op = "get" /\ g.U = {u}
      /\ a \in Task /\ a.op = "add" /\ a.U = {u}
  BY CallTask DEF Kinds
<1> HIDE DEF p, g, a
<1>2. \/ agenda' = [agenda EXCEPT ![w] = <<p, g, a>>]
      \/ agenda' = [agenda EXCEPT ![w] = <<g, a>>]
  <2>1. <<p>> \o <<g, a>> = <<p, g, a>> BY <1>1, Joined12, Zenon
  <2>2. <<g, a>> \in Seq(Task) BY <1>1
  <2>3. <<>> \o <<g, a>> = <<g, a>> BY <2>2, ConcatEmptySeq
  <2> QED BY <2>1, <2>3 DEF Whip, p, g, a
<1>3. lsrc' \in [Slots -> [Names -> LocalSource]]
  <2>1. Claimed(lsrc[w][n], "whip") \in LocalSource BY <1>0, SourceTypes DEF Types, Kinds
  <2> QED BY <1>0, <2>1, SourceWritten DEF Whip
<1>4. /\ lsess' \in [Slots -> [Ufrags -> LocalSession]]
      /\ lsess'[w][u].st = "NEW"
      /\ \A x \in Slots, v \in Ufrags : x # w \/ v # u => lsess'[x][v] = lsess[x][v]
  <2>1. PICK k : k = NewLocal(n, TRUE) OBVIOUS
  <2>2. k \in LocalSession /\ k.st = "NEW" BY <2>1, SessionTypes DEF NewLocal
  <2>3. lsess' = [lsess EXCEPT ![w][u] = k] BY <2>1 DEF Whip
  <2>4. /\ lsess' \in [Slots -> [Ufrags -> LocalSession]]
        /\ lsess'[w][u] = k
        /\ \A x \in Slots, v \in Ufrags : x # w \/ v # u => lsess'[x][v] = lsess[x][v]
        /\ \A x \in Slots : x # w => lsess'[x] = lsess[x]
    BY <1>0, <2>2, <2>3, SessionWritten
  <2> QED BY <2>2, <2>4
<1>5. Locked BY PublishLocked DEF Whip, Kinds
<1>6. FreshUfrag(u) /\ crashes' = crashes BY DEF Whip
<1>7. ASSUME NEW s, s = <<p, g, a>> \/ s = <<g, a>>
      PROVE  /\ s \in Seq(Task) /\ Shape(s)
             /\ \A i \in DOMAIN s : /\ s[i].U \subseteq {u}
                                    /\ s[i].op \notin {"state", "scan", "drop"}
  <2>1. CASE s = <<p, g, a>> BY <1>1, <2>1 DEF Shape
  <2>2. CASE s = <<g, a>> BY <1>1, <2>2 DEF Shape
  <2> QED BY <1>7, <2>1, <2>2
<1> QED BY <1>2, <1>3, <1>4, <1>5, <1>6, <1>7, StartStep

LEMMA WhipRefusedStep ==
    ASSUME IndInv, NEW w \in Slots, NEW u \in Ufrags, NEW n \in Names, WhipRefused(w, u, n)
    PROVE  IndInv' /\ Locked
<1>0. Types BY DEF IndInv
<1>1. Cleared(lsrc[w][n]) \in LocalSource BY <1>0, SourceTypes DEF Types
<1>2. lsrc' \in [Slots -> [Names -> LocalSource]]
  BY <1>0, <1>1, SourceWritten DEF WhipRefused
<1>3. Locked BY PublishLocked DEF WhipRefused, Kinds
<1>4. /\ Idle(w) /\ agenda' = agenda /\ crashes' = crashes /\ lsess' = lsess
      /\ lsess \in [Slots -> [Ufrags -> LocalSession]]
  BY <1>0 DEF WhipRefused, Types
<1> QED BY <1>2, <1>3, <1>4, IdleStep DEF Has

LEMMA PlayAbortedStep ==
    ASSUME IndInv, NEW w \in Slots, NEW u \in Ufrags, NEW n \in Names, PlayAborted(w, u, n)
    PROVE  IndInv' /\ Locked
<1>1. Locked BY GetLocked DEF PlayAborted
<1>2. /\ Idle(w) /\ agenda' = agenda /\ crashes' = crashes /\ lsess' = lsess /\ lsrc' = lsrc
      /\ lsess \in [Slots -> [Ufrags -> LocalSession]]
      /\ lsrc \in [Slots -> [Names -> LocalSource]]
  BY DEF PlayAborted, IndInv, Types
<1> QED BY <1>1, <1>2, IdleStep DEF Has

LEMMA WhipAbortedStep ==
    ASSUME IndInv, NEW w \in Slots, NEW u \in Ufrags, NEW n \in Names, WhipAborted(w, u, n)
    PROVE  IndInv' /\ Locked
<1> DEFINE l == Call("get", n, "whip", {})
           g == Call("get", n, "whip", {u})
           a == Call("add", n, "whip", {u})
           c == Call("release", n, "whip", {})
           d == Call("remove", n, "none", {})
<1>0. Types BY DEF IndInv
<1>1. /\ l \in Task /\ l.op = "get" /\ l.U = {}
      /\ g \in Task /\ g.op = "get" /\ g.U = {u}
      /\ a \in Task /\ a.op = "add" /\ a.U = {u}
      /\ c \in Task /\ c.op = "release" /\ c.U = {} /\ c.kind = "whip"
      /\ d \in Task /\ d.op = "remove" /\ d.U = {}
  BY CallTask DEF Kinds
<1> HIDE DEF l, g, a, c, d
<1>2. \/ agenda' = [agenda EXCEPT ![w] = <<l, g, a, c, d>>]
      \/ agenda' = [agenda EXCEPT ![w] = <<l, c, d>>]
      \/ agenda' = [agenda EXCEPT ![w] = <<g, a, c, d>>]
      \/ agenda' = [agenda EXCEPT ![w] = <<c, d>>]
  <2>1. /\ <<l>> \o <<g, a>> \o <<c, d>> = <<l, g, a, c, d>>
        /\ <<l>> \o <<>> \o <<c, d>> = <<l, c, d>>
        /\ <<>> \o <<g, a>> \o <<c, d>> = <<g, a, c, d>>
        /\ <<>> \o <<>> \o <<c, d>> = <<c, d>>
    <3>1. /\ <<l>> \in Seq(Task) /\ <<c, d>> \in Seq(Task) /\ <<g, a>> \in Seq(Task)
          /\ <<>> \in Seq(Task)
      BY <1>1
    <3>2. /\ <<>> \o <<g, a>> = <<g, a>> /\ <<l>> \o <<>> = <<l>>
          /\ <<>> \o <<>> = <<>> /\ <<>> \o <<c, d>> = <<c, d>>
      BY <3>1, ConcatEmptySeq
    <3>3. l \in Task /\ g \in Task /\ a \in Task /\ c \in Task /\ d \in Task BY <1>1
    <3>4. <<l>> \o <<g, a>> = <<l, g, a>> BY <3>3, Joined12, Zenon
    <3>5. <<l, g, a>> \o <<c, d>> = <<l, g, a, c, d>>
      <4>1. \A y, z \in Task : <<l, g, a>> \o <<y, z>> = <<l, g, a, y, z>>
        BY <3>3, Joined32, Zenon
      <4> QED BY <3>3, <4>1, Zenon
    <3>6. <<l>> \o <<c, d>> = <<l, c, d>> BY <3>3, Joined12, Zenon
    <3>7. <<g, a>> \o <<c, d>> = <<g, a, c, d>> BY <3>3, Joined22, Zenon
    <3> QED BY <3>2, <3>4, <3>5, <3>6, <3>7
  <2> QED BY <2>1 DEF WhipAborted, l, g, a, c, d
<1>3. lsrc' \in [Slots -> [Names -> LocalSource]]
  <2>1. Cleared(lsrc[w][n]) \in LocalSource BY <1>0, SourceTypes DEF Types
  <2> QED BY <1>0, <2>1, SourceWritten DEF WhipAborted
<1>4. Locked BY PublishLocked DEF WhipAborted, Kinds
<1>5. FreshUfrag(u) /\ crashes' = crashes /\ lsess' = lsess BY DEF WhipAborted
<1>6. /\ lsess \in [Slots -> [Ufrags -> LocalSession]]
      /\ lsess[w][u].st = NoSession
  BY <1>0, <1>5 DEF Types, FreshUfrag, Has
<1>7. ASSUME NEW s, \/ s = <<l, g, a, c, d>> \/ s = <<l, c, d>>
                    \/ s = <<g, a, c, d>> \/ s = <<c, d>>
      PROVE  /\ s \in Seq(Task) /\ Shape(s)
             /\ \A i \in DOMAIN s : /\ s[i].U \subseteq {u}
                                    /\ s[i].op \notin {"state", "scan", "drop"}
  <2>1. CASE s = <<l, g, a, c, d>> BY <1>1, <2>1 DEF Shape
  <2>2. CASE s = <<l, c, d>> BY <1>1, <2>2 DEF Shape
  <2>3. CASE s = <<g, a, c, d>> BY <1>1, <2>3 DEF Shape
  <2>4. CASE s = <<c, d>> BY <1>1, <2>4 DEF Shape
  <2> QED BY <1>7, <2>1, <2>2, <2>3, <2>4
<1> QED BY <1>2, <1>3, <1>4, <1>5, <1>6, <1>7, StartStep

LEMMA MovedSession ==
    ASSUME Types, NEW w \in Slots, NEW u \in Ufrags, NEW st \in States
    PROVE  Moved(lsess[w][u], st) \in LocalSession
<1>1. lsess[w][u] \in LocalSession /\ 0 \in 0..ReadyTimeout BY WorkerTimes DEF Types
<1> QED BY <1>1 DEF LocalSession, Moved

LEMMA StateWritten ==
    ASSUME Types, NEW w \in Slots, NEW u \in Ufrags, NEW st \in States,
           lsess' = [lsess EXCEPT ![w][u] = Moved(lsess[w][u], st)]
    PROVE  /\ lsess' \in [Slots -> [Ufrags -> LocalSession]]
           /\ lsess'[w][u].st = st /\ lsess'[w][u].name = lsess[w][u].name
           /\ lsess'[w][u].pub = lsess[w][u].pub
           /\ \A x \in Slots, v \in Ufrags : x # w \/ v # u => lsess'[x][v] = lsess[x][v]
           /\ \A x \in Slots : x # w => lsess'[x] = lsess[x]
<1> DEFINE k == Moved(lsess[w][u], st)
<1>1. lsess[w][u] \in LocalSession /\ 0 \in 0..ReadyTimeout BY WorkerTimes DEF Types
<1>2. /\ k \in LocalSession /\ k.st = st /\ k.name = lsess[w][u].name
      /\ k.pub = lsess[w][u].pub
  BY <1>1 DEF LocalSession, Moved
<1>3. lsess' = [lsess EXCEPT ![w][u] = k] OBVIOUS
<1> HIDE DEF k
<1>4. PICK l \in LocalSession : l = k BY <1>2
<1>5. lsess' = [lsess EXCEPT ![w][u] = l] BY <1>3, <1>4
<1>6. /\ lsess' \in [Slots -> [Ufrags -> LocalSession]]
      /\ lsess'[w][u] = l
      /\ \A x \in Slots, v \in Ufrags : x # w \/ v # u => lsess'[x][v] = lsess[x][v]
      /\ \A x \in Slots : x # w => lsess'[x] = lsess[x]
  BY <1>5, SessionWritten
<1> QED BY <1>2, <1>4, <1>6

LEMMA KickStep ==
    ASSUME IndInv, NEW u \in Ufrags, Kick(u) PROVE IndInv' /\ Locked
<1>1. Locked BY DEF Kick, Locked, Called
<1> QED BY <1>1, OutsideStep DEF Kick, IndInv, Types

LEMMA DisconnectStep ==
    ASSUME IndInv, NEW n \in Names, Disconnect(n) PROVE IndInv' /\ Locked
<1>1. Locked BY DEF Disconnect, Locked, Called
<1> QED BY <1>1, OutsideStep DEF Disconnect, IndInv, Types

LEMMA OnStunState ==
    \A st \in States : /\ OnStun(st) \in States /\ OnStun(st) # NoSession
                       /\ OnStun(st) = "SRTP_READY" <=> st = "SRTP_READY"
BY DEF OnStun, States, NoSession

(* A session some worker has is in a state of the table. *)
LEMMA HasState ==
    ASSUME Types, NEW w \in Slots, NEW u \in Ufrags
    PROVE  Has(w, u) => lsess[w][u].st \in States
BY DEF Types, LocalSession, Has

LEMMA StunStep ==
    ASSUME IndInv, NEW w \in Slots, NEW u \in Ufrags, Stun(w, u) PROVE IndInv' /\ Locked
<1> PICK st : st = OnStun(lsess[w][u].st) OBVIOUS
<1>0. Types BY DEF IndInv
<1>1. Idle(w) /\ Has(w, u) /\ agenda' = agenda /\ crashes' = crashes /\ lsrc' = lsrc
  BY DEF Stun
<1>2. lsess[w][u].st \in States BY <1>0, <1>1, HasState
<1>3. st \in States BY <1>2, OnStunState
<1>4. Locked BY <1>3, SessionLocked DEF Stun
<1>5. lsess' = [lsess EXCEPT ![w][u] = Moved(lsess[w][u], st)] BY DEF Stun
<1>6. /\ lsess' \in [Slots -> [Ufrags -> LocalSession]]
      /\ \A x \in Slots, v \in Ufrags : x # w \/ v # u => lsess'[x][v] = lsess[x][v]
      /\ \A x \in Slots : x # w => lsess'[x] = lsess[x]
  <2>1. PICK k \in LocalSession : k = Moved(lsess[w][u], st) BY <1>0, <1>3, MovedSession
  <2>2. lsess' = [lsess EXCEPT ![w][u] = k] BY <1>5, <2>1
  <2>3. /\ lsess' \in [Slots -> [Ufrags -> LocalSession]]
        /\ lsess'[w][u] = k
        /\ \A x \in Slots, v \in Ufrags : x # w \/ v # u => lsess'[x][v] = lsess[x][v]
        /\ \A x \in Slots : x # w => lsess'[x] = lsess[x]
    BY <1>0, <2>2, SessionWritten
  <2> QED BY <2>3
<1>7. \A v \in Ufrags : Has(w, v)' => Has(w, v) BY <1>1, <1>6 DEF Has
<1>8. lsrc' \in [Slots -> [Names -> LocalSource]] BY <1>0, <1>1 DEF Types
<1> QED BY <1>1, <1>4, <1>6, <1>7, <1>8, IdleStep

LEMMA DtlsStep ==
    ASSUME IndInv, NEW w \in Slots, NEW u \in Ufrags, Dtls(w, u) \/ DtlsDone(w, u)
    PROVE  IndInv' /\ Locked
<1>0. Types BY DEF IndInv
<1>1. /\ Idle(w) /\ Has(w, u) /\ agenda' = agenda /\ crashes' = crashes /\ lsrc' = lsrc
  BY DEF Dtls, DtlsDone, Has, NoSession
<1>2. PICK st \in States : lsess' = [lsess EXCEPT ![w][u] = Moved(lsess[w][u], st)]
  BY DEF Dtls, DtlsDone, States
<1>3. Locked
  <2>1. "DTLS_HANDSHAKE" \in States BY DEF States
  <2> QED BY <2>1, SessionLocked DEF Dtls, DtlsDone
<1>4. /\ lsess' \in [Slots -> [Ufrags -> LocalSession]]
      /\ \A x \in Slots, v \in Ufrags : x # w \/ v # u => lsess'[x][v] = lsess[x][v]
      /\ \A x \in Slots : x # w => lsess'[x] = lsess[x]
  <2>1. PICK k \in LocalSession : k = Moved(lsess[w][u], st) BY <1>0, <1>2, MovedSession
  <2>2. lsess' = [lsess EXCEPT ![w][u] = k] BY <1>2, <2>1
  <2>3. /\ lsess' \in [Slots -> [Ufrags -> LocalSession]]
        /\ lsess'[w][u] = k
        /\ \A x \in Slots, v \in Ufrags : x # w \/ v # u => lsess'[x][v] = lsess[x][v]
        /\ \A x \in Slots : x # w => lsess'[x] = lsess[x]
    BY <1>0, <2>2, SessionWritten
  <2> QED BY <2>3
<1>5. \A v \in Ufrags : Has(w, v)' => Has(w, v) BY <1>1, <1>4 DEF Has
<1>6. lsrc' \in [Slots -> [Names -> LocalSource]] BY <1>0, <1>1 DEF Types
<1> QED BY <1>1, <1>3, <1>4, <1>5, <1>6, IdleStep

LEMMA AttachStep ==
    ASSUME IndInv, NEW w \in Slots, NEW u \in Ufrags, Attach(w, u) PROVE IndInv' /\ Locked
<1>0. Types /\ Handlers BY DEF IndInv
<1>1. PICK k : k = shm.sess[u] OBVIOUS
<1>2. PICK n : n = shm.src[k.src].name OBVIOUS
<1>3. k \in SkeletonType /\ n \in Names
  <2>1. RegInv(shm) BY <1>0 DEF Types
  <2> QED BY <1>1, <1>2, <2>1, SkeletonFields, Zenon
<1> DEFINE m == Call("mirror", n, "whip", {})
           p == Call("state", n, "none", {u})
<1>4. /\ m \in Task /\ m.op = "mirror" /\ m.U = {}
      /\ p \in Task /\ p.op = "state" /\ p.U = {u}
  <2>1. "whip" \in Kinds /\ "none" \in Kinds BY DEF Kinds
  <2> QED BY <1>3, <2>1, CallTask
<1>5. /\ Idle(w) /\ u \in issued /\ ~Has(w, u) /\ crashes' = crashes /\ issued' = issued
      /\ shm' = SessionBind(shm, u, w)
      /\ lsrc' = [lsrc EXCEPT ![w][n] = Created(lsrc[w][n])]
      /\ lsess' = [lsess EXCEPT ![w][u] = Rebuilt(n, k)]
      /\ agenda' = [agenda EXCEPT ![w] = (IF k.pub THEN <<m>> ELSE <<>>) \o <<p>>]
  BY <1>1, <1>2, Zenon DEF Attach
<1> HIDE DEF m, p
<1>6. agenda' = [agenda EXCEPT ![w] = <<m, p>>] \/ agenda' = [agenda EXCEPT ![w] = <<p>>]
  <2>1. <<m>> \o <<p>> = <<m, p>> BY <1>4, Joined11, Zenon
  <2>2. <<p>> \in Seq(Task) BY <1>4
  <2>3. <<>> \o <<p>> = <<p>> BY <2>2, ConcatEmptySeq
  <2> QED BY <1>5, <2>1, <2>3
<1>7. Locked BY <1>5, SessionLocked
<1>8. lsrc' \in [Slots -> [Names -> LocalSource]]
  <2>1. PICK s : s = Created(lsrc[w][n]) OBVIOUS
  <2>2. s \in LocalSource BY <1>0, <1>3, <2>1, SourceTypes DEF Types
  <2> QED BY <1>0, <1>3, <1>5, <2>1, <2>2, SourceWritten
<1>9. Rebuilt(n, k) \in LocalSession /\ Rebuilt(n, k).st # NoSession
  BY <1>3, RebuiltFields, Zenon
<1>10. /\ lsess' \in [Slots -> [Ufrags -> LocalSession]]
       /\ lsess'[w][u] = Rebuilt(n, k)
       /\ \A x \in Slots, v \in Ufrags : x # w \/ v # u => lsess'[x][v] = lsess[x][v]
       /\ \A x \in Slots : x # w => lsess'[x] = lsess[x]
  BY <1>0, <1>5, <1>9, SessionWritten
<1>11. ASSUME NEW v \in Ufrags, Has(w, v)', ~Has(w, v)
       PROVE  \A x \in Slots : x # w => \A i \in DOMAIN agenda[x] :
                 agenda[x][i].op = "add" => v \notin agenda[x][i].U
  <2>1. v = u BY <1>10, <1>11 DEF Has
  <2> QED BY <1>0, <1>5, <2>1 DEF Handlers, Backed
<1>12. ASSUME NEW s, s = <<m, p>> \/ s = <<p>>
       PROVE  /\ s \in Seq(Task) /\ Shape(s)
              /\ \A i \in DOMAIN s : Backed(w, s[i])'
              /\ \A i \in DOMAIN s : s[i].op # "add"
  <2>1. Has(w, u)' BY <1>9, <1>10 DEF Has
  <2>2. Backed(w, m)' /\ Backed(w, p)' BY <1>4, <2>1 DEF Backed
  <2>3. CASE s = <<m, p>>
    <3>1. s \in Seq(Task) /\ DOMAIN s = 1..2 /\ s[1] = m /\ s[2] = p BY <1>4, <2>3
    <3>2. Shape(s) BY <1>4, <3>1 DEF Shape
    <3> QED BY <1>4, <2>2, <3>1, <3>2
  <2>4. CASE s = <<p>>
    <3>1. s \in Seq(Task) /\ DOMAIN s = 1..1 /\ s[1] = p BY <1>4, <2>4
    <3>2. Shape(s) BY <1>4, <3>1 DEF Shape
    <3> QED BY <1>4, <2>2, <3>1, <3>2
  <2> QED BY <1>12, <2>3, <2>4
<1>13. PICK s : (s = <<m, p>> \/ s = <<p>>) /\ agenda' = [agenda EXCEPT ![w] = s] BY <1>6
<1>14. crashes' \in Nat BY <1>0, <1>5 DEF Types
<1>15. IndInv' BY <1>7, <1>8, <1>10, <1>11, <1>12, <1>13, <1>14, WorkerStep DEF Locked
<1> QED BY <1>7, <1>15

(* The calls that close session u, followed by the rest t of a reap pass. *)
Closing(s, w, u, t) ==
    LET n == lsess[w][u].name IN
    /\ s \in Seq(Task) /\ Shape(s)
    /\ \A i \in DOMAIN s :
         \/ s[i].op \in {"release", "remove"} /\ s[i].U = {} /\ lsrc[w][n].kind = "whip"
         \/ s[i].op = "drop" /\ s[i].U = {u}
         \/ t = <<s[i]>>
    /\ \E i \in DOMAIN s : s[i] = Call("drop", n, "none", {u})
    /\ lsrc[w][n].kind = "whip" => \E i \in DOMAIN s : s[i] = Call("release", n, "whip", {})

LEMMA CloseCallsShape ==
    ASSUME Types, NEW w \in Slots, NEW u \in Ufrags, NEW t \in Seq(Task),
           t = <<>> \/ \E b \in Task : b.op = "scan" /\ t = <<b>>
    PROVE  Closing(CloseCalls(w, u) \o t, w, u, t) /\ CloseCalls(w, u) \in Seq(Task)
<1> DEFINE n == lsess[w][u].name
           c == Call("release", n, "whip", {})
           r == Call("remove", n, "none", {})
           d == Call("drop", n, "none", {u})
           pub == lsrc[w][n].kind = "whip"
           s == CloseCalls(w, u) \o t
           Good == /\ s \in Seq(Task) /\ Shape(s)
                   /\ \A i \in DOMAIN s :
                        \/ s[i].op \in {"release", "remove"} /\ s[i].U = {} /\ pub
                        \/ s[i].op = "drop" /\ s[i].U = {u}
                        \/ t = <<s[i]>>
                   /\ \E i \in DOMAIN s : s[i] = d
                   /\ pub => \E i \in DOMAIN s : s[i] = c
<1>1. n \in Names BY DEF Types, LocalSession
<1>2. /\ c \in Task /\ c.op = "release" /\ c.U = {} /\ c.kind = "whip"
      /\ r \in Task /\ r.op = "remove" /\ r.U = {}
      /\ d \in Task /\ d.op = "drop" /\ d.U = {u}
  BY <1>1, CallTask DEF Kinds
<1>3. CloseCalls(w, u) = (IF pub THEN <<c, r>> ELSE <<>>) \o <<d>> BY DEF CloseCalls
<1> HIDE DEF n, c, r, d
<1>4. CloseCalls(w, u) = IF pub THEN <<c, r, d>> ELSE <<d>>
  <2>1. <<c, r>> \o <<d>> = <<c, r, d>> BY <1>2, Joined21, Zenon
  <2>2. <<d>> \in Seq(Task) BY <1>2
  <2>3. <<>> \o <<d>> = <<d>> BY <2>2, ConcatEmptySeq
  <2> QED BY <1>3, <2>1, <2>3
<1> HIDE DEF pub
<1>5. <<c, r, d>> \in Seq(Task) /\ <<d>> \in Seq(Task) BY <1>2
<1>6. ASSUME t = <<>> PROVE Good
  <2>1. s = IF pub THEN <<c, r, d>> ELSE <<d>> BY <1>4, <1>5, <1>6, ConcatEmptySeq
  <2> HIDE DEF s
  <2>2. CASE pub
    <3>1. s \in Seq(Task) /\ DOMAIN s = 1..3 /\ s[1] = c /\ s[2] = r /\ s[3] = d
      BY <1>5, <2>1, <2>2
    <3>2. Shape(s) BY <1>2, <3>1 DEF Shape
    <3> QED BY <1>2, <2>2, <3>1, <3>2
  <2>3. CASE ~pub
    <3>1. s \in Seq(Task) /\ DOMAIN s = 1..1 /\ s[1] = d BY <1>5, <2>1, <2>3
    <3>2. Shape(s) BY <1>2, <3>1 DEF Shape
    <3> QED BY <1>2, <2>3, <3>1, <3>2
  <2> QED BY <2>2, <2>3
<1>7. ASSUME NEW b \in Task, b.op = "scan", t = <<b>> PROVE Good
  <2>1. <<c, r, d>> \o <<b>> = <<c, r, d, b>>
    <3>1. c \in Task /\ r \in Task /\ d \in Task BY <1>2
    <3>2. \A x \in Task : <<c, r, d>> \o <<x>> = <<c, r, d, x>> BY <3>1, Joined31, Zenon
    <3> QED BY <3>2
  <2>2. <<d>> \o <<b>> = <<d, b>> BY <1>2, Joined11, Zenon
  <2>3. s = IF pub THEN <<c, r, d, b>> ELSE <<d, b>> BY <1>4, <1>7, <2>1, <2>2
  <2> HIDE DEF s
  <2>4. CASE pub
    <3>1. s \in Seq(Task) /\ DOMAIN s = 1..4 /\ s[1] = c /\ s[2] = r /\ s[3] = d /\ s[4] = b
      BY <1>2, <2>3, <2>4
    <3>2. Shape(s) BY <1>2, <1>7, <3>1 DEF Shape
    <3> QED BY <1>2, <1>7, <2>4, <3>1, <3>2
  <2>5. CASE ~pub
    <3>1. s \in Seq(Task) /\ DOMAIN s = 1..2 /\ s[1] = d /\ s[2] = b BY <1>2, <2>3, <2>5
    <3>2. Shape(s) BY <1>2, <1>7, <3>1 DEF Shape
    <3> QED BY <1>2, <1>7, <2>5, <3>1, <3>2
  <2> QED BY <2>4, <2>5
<1> HIDE DEF Good
<1>8. Good BY <1>6, <1>7
<1>9. Closing(s, w, u, t)
  <2> HIDE DEF s
  <2> QED BY <1>8, Zenon DEF Good, Closing, c, d, n, pub
<1> QED BY <1>4, <1>5, <1>9

(* Closing a session leaves the other workers' alone. *)
LEMMA CloseLocalStep ==
    ASSUME Types, NEW w \in Slots, NEW u \in Ufrags, CloseLocal(w, u)
    PROVE  /\ lsrc' \in [Slots -> [Names -> LocalSource]]
           /\ lsess' \in [Slots -> [Ufrags -> LocalSession]]
           /\ lsess'[w][u] = AbsentSession
           /\ \A x \in Slots, v \in Ufrags : x # w \/ v # u => lsess'[x][v] = lsess[x][v]
           /\ \A x \in Slots : x # w => lsess'[x] = lsess[x]
<1> PICK n : n = lsess[w][u].name OBVIOUS
<1>1. n \in Names BY DEF Types, LocalSession
<1> DEFINE q == IF lsrc[w][n].kind = "whip" THEN Cleared(lsrc[w][n]) ELSE lsrc[w][n]
<1> PICK s : s = Removed(q, Holders(w, n) \ {u}) OBVIOUS
<1>2. s \in LocalSource
  <2>1. lsrc[w][n] \in LocalSource BY <1>1 DEF Types
  <2>2. q \in LocalSource BY <2>1, SourceTypes
  <2> HIDE DEF q
  <2> QED BY <2>2, SourceTypes
<1>3. lsrc' = [lsrc EXCEPT ![w][n] = s] /\ lsess' = [lsess EXCEPT ![w][u] = AbsentSession]
  BY Zenon DEF CloseLocal
<1> HIDE DEF q
<1>4. lsrc' \in [Slots -> [Names -> LocalSource]] BY <1>1, <1>2, <1>3, SourceWritten, Zenon
<1>5. AbsentSession \in LocalSession BY SessionTypes
<1>6. /\ lsess' \in [Slots -> [Ufrags -> LocalSession]]
      /\ lsess'[w][u] = AbsentSession
      /\ \A x \in Slots, v \in Ufrags : x # w \/ v # u => lsess'[x][v] = lsess[x][v]
      /\ \A x \in Slots : x # w => lsess'[x] = lsess[x]
  BY <1>3, <1>5, SessionWritten, Zenon
<1> QED BY <1>4, <1>6

(* A handler that closes a session, the reaper's included. *)
LEMMA CloseStep ==
    ASSUME IndInv, NEW w \in Slots, NEW u \in Ufrags, CloseLocal(w, u), NEW t \in Seq(Task),
           \/ t = <<>>
           \/ \E b \in Task : b.op = "scan" /\ t = <<b>> /\ \A v \in b.U : v # u /\ Has(w, v),
           agenda' = [agenda EXCEPT ![w] = CloseCalls(w, u) \o t],
           UNCHANGED <<shm, issued, crashes>>
    PROVE  IndInv' /\ Locked
<1>0. Types BY DEF IndInv
<1>1. PICK s : s = CloseCalls(w, u) \o t OBVIOUS
<1>2. Closing(s, w, u, t)
  <2>1. t = <<>> \/ \E b \in Task : b.op = "scan" /\ t = <<b>> OBVIOUS
  <2>2. Closing(CloseCalls(w, u) \o t, w, u, t) BY <1>0, <2>1, CloseCallsShape
  <2> QED BY <1>1, <2>2
<1>3. /\ lsrc' \in [Slots -> [Names -> LocalSource]]
      /\ lsess' \in [Slots -> [Ufrags -> LocalSession]]
      /\ lsess'[w][u] = AbsentSession
      /\ \A x \in Slots, v \in Ufrags : x # w \/ v # u => lsess'[x][v] = lsess[x][v]
      /\ \A x \in Slots : x # w => lsess'[x] = lsess[x]
  BY <1>0, CloseLocalStep
<1>4. ~Has(w, u)' BY <1>3, SessionTypes DEF Has
<1>5. \A v \in Ufrags : v # u => (Has(w, v)' <=> Has(w, v)) BY <1>3 DEF Has
<1>6. s \in Seq(Task) /\ Shape(s) BY <1>2 DEF Closing
<1>7. ASSUME NEW i \in DOMAIN s PROVE Backed(w, s[i])' /\ s[i].op # "add"
  <2>1. CASE s[i].op \in {"release", "remove"} /\ s[i].U = {} BY <2>1 DEF Backed
  <2>2. CASE s[i].op = "drop" /\ s[i].U = {u} BY <1>4, <2>2 DEF Backed
  <2>3. CASE t = <<s[i]>>
    <3>1. t # <<>> /\ t[1] = s[i] BY <2>3
    <3>2. /\ s[i] \in Task /\ s[i].op = "scan"
          /\ \A v \in s[i].U : v # u /\ Has(w, v)
      <4>1. PICK b \in Task : b.op = "scan" /\ t = <<b>> /\ \A v \in b.U : v # u /\ Has(w, v)
        BY <3>1
      <4>2. b = s[i] BY <3>1, <4>1
      <4> QED BY <4>1, <4>2
    <3>3. s[i].U \subseteq Ufrags BY <3>2 DEF Task
    <3> QED BY <1>5, <3>2, <3>3 DEF Backed
  <2> QED BY <1>2, <2>1, <2>2, <2>3 DEF Closing
<1>8. \A v \in Ufrags : Has(w, v)' => Has(w, v) BY <1>4, <1>5
<1>9. Locked /\ crashes' \in Nat BY <1>0 DEF Locked, Types
<1>10. agenda' = [agenda EXCEPT ![w] = s] BY <1>1
<1>11. IndInv' BY <1>3, <1>6, <1>7, <1>8, <1>9, <1>10, WorkerStep DEF Locked
<1> QED BY <1>9, <1>11

LEMMA HangupStep ==
    ASSUME IndInv, NEW w \in Slots, NEW u \in Ufrags, Hangup(w, u) PROVE IndInv' /\ Locked
<1>1. Types /\ <<>> \in Seq(Task) BY DEF IndInv
<1>2. CloseCalls(w, u) \in Seq(Task) BY <1>1, CloseCallsShape
<1>3. CloseCalls(w, u) \o <<>> = CloseCalls(w, u) BY <1>2, ConcatEmptySeq
<1>4. agenda' = [agenda EXCEPT ![w] = CloseCalls(w, u) \o <<>>] BY <1>3 DEF Hangup
<1>5. CloseLocal(w, u) /\ UNCHANGED <<shm, issued, crashes>> BY DEF Hangup
<1> QED BY <1>1, <1>4, <1>5, CloseStep

LEMMA WhipMediaStep ==
    ASSUME IndInv, NEW w \in Slots, NEW u \in Ufrags, WhipMedia(w, u) PROVE IndInv' /\ Locked
<1>0. Types BY DEF IndInv
<1>1. PICK n : n = lsess[w][u].name OBVIOUS
<1>2. n \in Names BY <1>0, <1>1 DEF Types, LocalSession
<1>3. /\ Idle(w) /\ agenda' = agenda /\ crashes' = crashes /\ issued' = issued
      /\ lsess' = [lsess EXCEPT ![w][u].idle = 0]
  BY DEF WhipMedia
<1>4. /\ lsess' \in [Slots -> [Ufrags -> LocalSession]]
      /\ \A x \in Slots : x # w => lsess'[x] = lsess[x]
      /\ \A v \in Ufrags : lsess'[w][v].st = lsess[w][v].st
  <2>1. PICK k : k = [lsess[w][u] EXCEPT !.idle = 0] OBVIOUS
  <2>2. lsess[w][u] \in LocalSession /\ 0 \in 0..ReadyTimeout BY <1>0, WorkerTimes DEF Types
  <2>3. k \in LocalSession /\ k.st = lsess[w][u].st BY <2>1, <2>2 DEF LocalSession
  <2>4. lsess' = [lsess EXCEPT ![w][u] = k] BY <1>3, <2>1
  <2>5. /\ lsess' \in [Slots -> [Ufrags -> LocalSession]]
        /\ lsess'[w][u] = k
        /\ \A x \in Slots, v \in Ufrags : x # w \/ v # u => lsess'[x][v] = lsess[x][v]
        /\ \A x \in Slots : x # w => lsess'[x] = lsess[x]
    BY <1>0, <2>3, <2>4, SessionWritten
  <2> QED BY <2>3, <2>5
<1>5. \/ UNCHANGED <<shm, lsrc>>
      \/ /\ shm' = TryPublish(shm, n, "whip")
         /\ \E c : /\ c = lsrc[w][n].ptr \/ c = NoCell
                   /\ lsrc' = [lsrc EXCEPT ![w][n] = Cached(lsrc[w][n], c)]
  BY <1>1 DEF WhipMedia
<1>6. Locked BY <1>2, <1>3, <1>5, PublishLocked DEF Kinds, Locked
<1>7. lsrc' \in [Slots -> [Names -> LocalSource]]
  <2>1. CASE lsrc' = lsrc BY <1>0, <2>1 DEF Types
  <2>2. ASSUME NEW c, c = lsrc[w][n].ptr \/ c = NoCell,
               lsrc' = [lsrc EXCEPT ![w][n] = Cached(lsrc[w][n], c)]
        PROVE  lsrc' \in [Slots -> [Names -> LocalSource]]
    <3>1. lsrc[w][n] \in LocalSource BY <1>0, <1>2 DEF Types
    <3>2. c \in Pointers BY <2>2, <3>1 DEF LocalSource, Pointers
    <3>3. PICK s : s = Cached(lsrc[w][n], c) OBVIOUS
    <3>4. s \in LocalSource BY <3>1, <3>2, <3>3, SourceTypes
    <3> QED BY <1>0, <1>2, <2>2, <3>3, <3>4, SourceWritten
  <2> QED BY <1>5, <2>1, <2>2
<1>8. \A v \in Ufrags : Has(w, v)' => Has(w, v) BY <1>4 DEF Has
<1> QED BY <1>3, <1>4, <1>6, <1>7, <1>8, IdleStep

LEMMA ReapStep ==
    ASSUME IndInv, NEW w \in Slots, Reap(w) PROVE IndInv' /\ Locked
<1>0. Types BY DEF IndInv
<1>1. PICK U : U = {u \in Ufrags : Has(w, u)} OBVIOUS
<1> DEFINE a == Call("scan", AnyName, "none", U)
<1>2. AnyName \in Names BY ShmSets DEF AnyName
<1>3. a \in Task /\ a.op = "scan" /\ a.U = U BY <1>1, <1>2, CallTask DEF Kinds
<1>4. /\ shm' = ExpireLocked(shm, FALSE) /\ UNCHANGED <<issued, lsrc, lsess, crashes>>
      /\ Idle(w)
      /\ agenda' = [agenda EXCEPT ![w] = IF \E u \in Ufrags : Has(w, u) THEN <<a>> ELSE <<>>]
  BY <1>1 DEF Reap
<1> HIDE DEF a
<1>5. PICK s : /\ s = <<a>> \/ s = <<>>
               /\ agenda' = [agenda EXCEPT ![w] = s]
  BY <1>4
<1>6. s \in Seq(Task) /\ Shape(s) /\ \A i \in DOMAIN s : s[i] = a
  <2>1. CASE s = <<a>> BY <1>3, <2>1 DEF Shape
  <2>2. CASE s = <<>> BY <2>2 DEF Shape
  <2> QED BY <1>5, <2>1, <2>2
<1>7. Backed(w, a)'
  <2>1. \A u \in U : Has(w, u)' BY <1>1, <1>4 DEF Has
  <2> QED BY <1>3, <2>1 DEF Backed
<1>8. Locked BY <1>4 DEF Locked, Called
<1>9. /\ crashes' \in Nat /\ lsrc' \in [Slots -> [Names -> LocalSource]]
      /\ lsess' \in [Slots -> [Ufrags -> LocalSession]]
      /\ \A x \in Slots : x # w => lsess'[x] = lsess[x]
      /\ \A u \in Ufrags : Has(w, u)' => Has(w, u)
  BY <1>0, <1>4 DEF Types, Has
<1>10. \A i \in DOMAIN s : Backed(w, s[i])' /\ s[i].op # "add" BY <1>3, <1>6, <1>7
<1>11. IndInv' BY <1>5, <1>6, <1>8, <1>9, <1>10, WorkerStep DEF Locked
<1> QED BY <1>8, <1>11

LEMMA RtmpFastStep ==
    ASSUME IndInv, NEW w \in Slots, NEW n \in Names, RtmpFast(w, n) PROVE IndInv' /\ Locked
<1>0. Types BY DEF IndInv
<1>1. PICK c : c = lsrc[w][n].ptr OBVIOUS
<1>2. c \in Cells BY <1>0, <1>1 DEF RtmpFast, Types, LocalSource, Pointers
<1>3. /\ Idle(w) /\ shm' = Heartbeat(shm, c)
      /\ UNCHANGED <<issued, lsrc, lsess, agenda, crashes>>
  BY <1>1 DEF RtmpFast
<1>4. Locked BY <1>2, <1>3 DEF Locked, Called
<1> QED BY <1>0, <1>3, <1>4, OutsideStep DEF Types

LEMMA RtmpClaimStep ==
    ASSUME IndInv, NEW w \in Slots, NEW n \in Names, RtmpClaim(w, n) PROVE IndInv' /\ Locked
<1> DEFINE p == Call("ptr", n, "rtmp", {})
           q == Call("slot", n, "rtmp", {})
<1>0. Types BY DEF IndInv
<1>1. /\ p \in Task /\ p.op = "ptr" /\ p.U = {}
      /\ q \in Task /\ q.op = "slot" /\ q.U = {}
  BY CallTask DEF Kinds
<1>2. /\ Idle(w) /\ shm' = TryPublish(shm, n, "rtmp") /\ UNCHANGED <<issued, lsess, crashes>>
      /\ \/ /\ lsrc' = [lsrc EXCEPT ![w][n] = Cleared(Created(lsrc[w][n]))]
            /\ agenda' = agenda
         \/ /\ lsrc' = [lsrc EXCEPT ![w][n] = Claimed(lsrc[w][n], "rtmp")]
            /\ \/ agenda' = [agenda EXCEPT ![w] = <<p, q>>]
               \/ agenda' = [agenda EXCEPT ![w] = <<>>]
  BY DEF RtmpClaim
<1> HIDE DEF p, q
<1>3. PICK s : /\ s = <<p, q>> \/ s = <<>>
               /\ agenda' = [agenda EXCEPT ![w] = s]
  <2>1. agenda = [agenda EXCEPT ![w] = <<>>] BY <1>0, <1>2 DEF Idle, Types
  <2> QED BY <1>2, <2>1
<1>4. lsrc' \in [Slots -> [Names -> LocalSource]]
  <2>1. PICK l : /\ l = Cleared(Created(lsrc[w][n])) \/ l = Claimed(lsrc[w][n], "rtmp")
                 /\ lsrc' = [lsrc EXCEPT ![w][n] = l]
    BY <1>2
  <2>2. lsrc[w][n] \in LocalSource BY <1>0 DEF Types
  <2>3. Created(lsrc[w][n]) \in LocalSource BY <2>2, SourceTypes
  <2>4. l \in LocalSource BY <2>1, <2>2, <2>3, SourceTypes DEF Kinds
  <2> QED BY <1>0, <2>1, <2>4, SourceWritten
<1>5. Locked BY <1>2, PublishLocked DEF Kinds
<1>6. s \in Seq(Task) /\ Shape(s) /\ \A i \in DOMAIN s : s[i] = p \/ s[i] = q
  <2>1. CASE s = <<p, q>>
    <3>1. s \in Seq(Task) /\ DOMAIN s = 1..2 /\ s[1] = p /\ s[2] = q BY <1>1, <2>1
    <3> QED BY <1>1, <3>1 DEF Shape
  <2>2. CASE s = <<>> BY <2>2 DEF Shape
  <2> QED BY <1>3, <2>1, <2>2
<1>7. Backed(w, p)' /\ Backed(w, q)' BY <1>1 DEF Backed
<1>8. \A i \in DOMAIN s : Backed(w, s[i])' /\ s[i].op # "add" BY <1>1, <1>6, <1>7
<1>9. /\ crashes' \in Nat /\ lsess' \in [Slots -> [Ufrags -> LocalSession]]
      /\ \A x \in Slots : x # w => lsess'[x] = lsess[x]
      /\ \A u \in Ufrags : Has(w, u)' => Has(w, u)
  BY <1>0, <1>2 DEF Types, Has
<1>10. IndInv' BY <1>3, <1>4, <1>5, <1>6, <1>8, <1>9, WorkerStep DEF Locked
<1> QED BY <1>5, <1>10

LEMMA RtmpStopStep ==
    ASSUME IndInv, NEW w \in Slots, NEW n \in Names, RtmpStop(w, n) PROVE IndInv' /\ Locked
<1> DEFINE c == Call("release", n, "rtmp", {})
           r == Call("remove", n, "none", {})
<1>0. Types BY DEF IndInv
<1>1. /\ c \in Task /\ c.op = "release" /\ c.U = {} /\ c.kind = "rtmp"
      /\ r \in Task /\ r.op = "remove" /\ r.U = {}
  BY CallTask DEF Kinds
<1>2. /\ UNCHANGED <<shm, issued, lsess, crashes>>
      /\ lsrc' = [lsrc EXCEPT ![w][n] = Removed(Cleared(lsrc[w][n]), Holders(w, n))]
      /\ agenda' = [agenda EXCEPT ![w] = <<c, r>>]
  BY DEF RtmpStop
<1> HIDE DEF c, r
<1>3. lsrc' \in [Slots -> [Names -> LocalSource]]
  <2>1. lsrc[w][n] \in LocalSource BY <1>0 DEF Types
  <2>2. Cleared(lsrc[w][n]) \in LocalSource BY <2>1, SourceTypes
  <2>3. PICK l : l = Removed(Cleared(lsrc[w][n]), Holders(w, n)) OBVIOUS
  <2>4. l \in LocalSource BY <2>2, <2>3, SourceTypes
  <2> QED BY <1>0, <1>2, <2>3, <2>4, SourceWritten
<1>4. Locked BY <1>2 DEF Locked
<1>5. PICK s : s = <<c, r>> OBVIOUS
<1>6. s \in Seq(Task) /\ DOMAIN s = 1..2 /\ s[1] = c /\ s[2] = r BY <1>1, <1>5
<1>7. Shape(s) BY <1>1, <1>6 DEF Shape
<1>8. Backed(w, c)' /\ Backed(w, r)' BY <1>1 DEF Backed
<1>9. \A i \in DOMAIN s : Backed(w, s[i])' /\ s[i].op # "add" BY <1>1, <1>6, <1>8
<1>10. /\ crashes' \in Nat /\ lsess' \in [Slots -> [Ufrags -> LocalSession]]
       /\ \A x \in Slots : x # w => lsess'[x] = lsess[x]
       /\ \A u \in Ufrags : Has(w, u)' => Has(w, u)
  BY <1>0, <1>2 DEF Types, Has
<1>11. agenda' = [agenda EXCEPT ![w] = s] BY <1>2, <1>5
<1>12. IndInv' BY <1>3, <1>4, <1>6, <1>7, <1>9, <1>10, <1>11, WorkerStep DEF Locked
<1> QED BY <1>4, <1>12

LEMMA CrashStep ==
    ASSUME IndInv, NEW w \in Slots, Crash(w) PROVE IndInv' /\ Locked
<1>0. Types BY DEF IndInv
<1>1. /\ UNCHANGED <<shm, issued>> /\ crashes' = crashes + 1
      /\ lsrc' = [lsrc EXCEPT ![w] = [n \in Names |-> AbsentSource]]
      /\ lsess' = [lsess EXCEPT ![w] = [u \in Ufrags |-> AbsentSession]]
      /\ agenda' = [agenda EXCEPT ![w] = <<>>]
  BY DEF Crash
<1>2. /\ AbsentSource \in LocalSource /\ AbsentSession \in LocalSession
      /\ AbsentSession.st = NoSession
  BY SourceTypes, SessionTypes
<1>3. lsrc' \in [Slots -> [Names -> LocalSource]] BY <1>0, <1>1, <1>2 DEF Types
<1>4. /\ lsess' \in [Slots -> [Ufrags -> LocalSession]]
      /\ \A x \in Slots : x # w => lsess'[x] = lsess[x]
      /\ \A u \in Ufrags : lsess'[w][u] = AbsentSession
  BY <1>0, <1>1, <1>2 DEF Types
<1>5. \A u \in Ufrags : ~Has(w, u)' BY <1>2, <1>4 DEF Has
<1>6. Locked /\ crashes' \in Nat BY <1>0, <1>1 DEF Locked, Types
<1>7. \A i \in DOMAIN <<>> : FALSE OBVIOUS
<1>8. IndInv' BY <1>1, <1>3, <1>4, <1>5, <1>6, <1>7, EmptyAgenda, WorkerStep DEF Locked
<1> QED BY <1>6, <1>8

LEMMA TickStep ==
    ASSUME IndInv, Tick PROVE IndInv' /\ Locked
<1>0. Types BY DEF IndInv
<1>1. Locked /\ agenda' = agenda /\ crashes' = crashes BY DEF Tick, Locked, Called
<1>2. lsrc' \in [Slots -> [Names -> LocalSource]]
  <2>1. ASSUME NEW w \in Slots, NEW n \in Names
        PROVE  [lsrc[w][n] EXCEPT !.sync = IF lsrc[w][n].ptr # NoCell /\ @ < ShmSync
                                           THEN @ + 1 ELSE @] \in LocalSource
    <3>1. lsrc[w][n] \in LocalSource BY <1>0 DEF Types
    <3> QED BY <3>1, WorkerTimes DEF LocalSource
  <2> QED BY <2>1 DEF Tick
<1>3. /\ lsess' \in [Slots -> [Ufrags -> LocalSession]]
      /\ \A x \in Slots, u \in Ufrags : lsess'[x][u].st = lsess[x][u].st
  <2> DEFINE aged(w, u) == [lsess[w][u] EXCEPT !.idle =
               IF Has(w, u) /\ @ < Timeout(lsess[w][u].st) THEN @ + 1 ELSE @]
  <2>1. ASSUME NEW w \in Slots, NEW u \in Ufrags
        PROVE  aged(w, u) \in LocalSession /\ aged(w, u).st = lsess[w][u].st
    <3>1. lsess[w][u] \in LocalSession BY <1>0 DEF Types
    <3>2. Timeout(lsess[w][u].st) \in 0..ReadyTimeout BY WorkerTimes DEF Timeout
    <3> QED BY <3>1, <3>2, WorkerTimes DEF LocalSession
  <2>2. lsess' = [w \in Slots |-> [u \in Ufrags |-> aged(w, u)]] BY DEF Tick
  <2> HIDE DEF aged
  <2> QED BY <2>1, <2>2
<1> QED BY <1>1, <1>2, <1>3, OutsideStep

-----------------------------------------------------------------------------
(* The locked calls of a handler *)

(* The call a worker is at. *)
At(w, a) == ~Idle(w) /\ a = Head(agenda[w])

LEMMA CallAt ==
    ASSUME IndInv, NEW w \in Slots, NEW a, At(w, a)
    PROVE  /\ a \in Task /\ a.n \in Names /\ a.kind \in Kinds /\ a.U \subseteq Ufrags
           /\ agenda[w] \in Seq(Task) /\ agenda[w] # <<>>
           /\ 1 \in DOMAIN agenda[w] /\ a = agenda[w][1]
           /\ Backed(w, a) /\ Shape(agenda[w])
<1>1. Types /\ Handlers BY DEF IndInv
<1>2. agenda[w] \in Seq(Task) /\ agenda[w] # <<>> BY <1>1 DEF Types, At, Idle
<1>3. Head(agenda[w]) = agenda[w][1] /\ 1 \in DOMAIN agenda[w] /\ Head(agenda[w]) \in Task
  BY <1>2, TailAt
<1>4. a = agenda[w][1] /\ a \in Task BY <1>3 DEF At
<1>5. Backed(w, a) /\ Shape(agenda[w]) BY <1>1, <1>3, <1>4 DEF Handlers
<1>6. a.n \in Names /\ a.kind \in Kinds /\ a.U \subseteq Ufrags BY <1>4 DEF Task
<1> QED BY <1>2, <1>3, <1>4, <1>5, <1>6

LEMMA QuietCallStep ==
    ASSUME IndInv, NEW w \in Slots, ~Idle(w), Continue(w), Locked, crashes' = crashes,
           lsrc' \in [Slots -> [Names -> LocalSource]], lsess' = lsess
    PROVE  IndInv'
BY TailStep DEF Has, IndInv, Types

LEMMA CachePointerStep ==
    ASSUME IndInv, NEW w \in Slots, NEW a, At(w, a), CachePointer(w, a) \/ MirrorClaim(w, a)
    PROVE  IndInv' /\ Locked
<1>0. Types BY DEF IndInv
<1>1. a.n \in Names BY CallAt
<1>2. PICK o \in SourceGet(shm, a.n) :
        /\ shm' = o.reg
        /\ \/ lsrc' = [lsrc EXCEPT ![w][a.n] = Cached(lsrc[w][a.n], o.ptr)]
           \/ lsrc' = [lsrc EXCEPT ![w][a.n] = Mirrored(lsrc[w][a.n], o.ptr)]
  BY DEF CachePointer, MirrorClaim
<1>3. Continue(w) /\ UNCHANGED <<issued, lsess, crashes>> BY DEF CachePointer, MirrorClaim
<1>4. o.ptr \in Pointers
  <2>1. RegInv(shm) BY <1>0 DEF Types
  <2> QED BY <1>1, <2>1, GetQuiet DEF Pointers
<1>5. lsrc' \in [Slots -> [Names -> LocalSource]]
  <2>1. PICK p : p = o.ptr OBVIOUS
  <2>2. lsrc[w][a.n] \in LocalSource BY <1>0, <1>1 DEF Types
  <2>3. Cached(lsrc[w][a.n], p) \in LocalSource BY <1>4, <2>1, <2>2, SourceTypes
  <2>4. Mirrored(lsrc[w][a.n], p) \in LocalSource BY <2>3 DEF Mirrored, LocalSource, Kinds
  <2>5. PICK s : /\ s = Cached(lsrc[w][a.n], p) \/ s = Mirrored(lsrc[w][a.n], p)
                 /\ lsrc' = [lsrc EXCEPT ![w][a.n] = s]
    BY <1>2, <2>1
  <2>6. s \in LocalSource BY <2>3, <2>4, <2>5
  <2> QED BY <1>0, <1>1, <2>5, <2>6, SourceWritten
<1>6. Locked BY <1>1, <1>2, <1>3, GetLocked
<1> QED BY <1>3, <1>5, <1>6, QuietCallStep DEF At

(* Calls that leave every process-local record alone. *)
LEMMA PlainCallStep ==
    ASSUME IndInv, NEW w \in Slots, NEW a, At(w, a),
           \/ a.op = "slot" /\ RecordSlot(w, a)
           \/ a.op = "release" /\ ReleaseClaim(w, a)
           \/ a.op = "remove" /\ RemoveSource(w, a)
           \/ a.op = "drop" /\ DropSkeleton(w, a)
    PROVE  IndInv' /\ Locked
<1>0. Types BY DEF IndInv
<1>1. /\ a.n \in Names /\ a.kind \in Kinds /\ a.U \subseteq Ufrags
      /\ 1 \in DOMAIN agenda[w] /\ a = agenda[w][1] /\ Shape(agenda[w])
  BY CallAt
<1>2. Continue(w) /\ UNCHANGED <<issued, lsrc, lsess, crashes>>
  BY DEF RecordSlot, ReleaseClaim, RemoveSource, DropSkeleton
<1>3. CASE RecordSlot(w, a)
  <2>1. PICK c : c = lsrc[w][a.n].ptr OBVIOUS
  <2>2. c \in Cells \/ c = NoCell BY <1>0, <1>1, <2>1 DEF Types, LocalSource, Pointers
  <2>3. shm' = IF c = NoCell THEN shm ELSE Heartbeat(SetPublisherSlot(shm, c, w), c)
    BY <1>3, <2>1 DEF RecordSlot
  <2> QED BY <1>2, <2>2, <2>3, QuietCallStep, <1>0 DEF Locked, Called, At, Types
<1>4. CASE a.op = "release" /\ ReleaseClaim(w, a)
  <2>1. a.kind \in Kinds \ {"none"} BY <1>1, <1>4 DEF Shape
  <2>2. Locked BY <1>1, <1>2, <1>4, <2>1, PublishLocked DEF ReleaseClaim
  <2> QED BY <1>0, <1>2, <2>2, QuietCallStep DEF At, Types
<1>5. CASE RemoveSource(w, a)
  <2>1. Locked BY <1>1, <1>2, <1>5 DEF RemoveSource, Locked, Called
  <2> QED BY <1>0, <1>2, <2>1, QuietCallStep DEF At, Types
<1>6. CASE DropSkeleton(w, a)
  <2>1. Locked BY <1>1, <1>2, <1>6, SessionLocked DEF DropSkeleton
  <2> QED BY <1>0, <1>2, <2>1, QuietCallStep DEF At, Types
<1> QED BY <1>3, <1>4, <1>5, <1>6

(* A handler that skips to a later call. *)
LEMMA SuffixStep ==
    ASSUME IndInv, NEW w \in Slots, NEW s \in Seq(Task), Shape(s),
           \A i \in DOMAIN s : \E j \in DOMAIN agenda[w] : s[i] = agenda[w][j],
           agenda' = [agenda EXCEPT ![w] = s], Locked,
           UNCHANGED <<lsrc, lsess, crashes>>
    PROVE  IndInv'
<1>0. Types /\ Handlers BY DEF IndInv
<1>1. /\ crashes' \in Nat /\ lsrc' \in [Slots -> [Names -> LocalSource]]
      /\ lsess' \in [Slots -> [Ufrags -> LocalSession]]
      /\ \A x \in Slots : x # w => lsess'[x] = lsess[x]
      /\ \A u \in Ufrags : Has(w, u)' => Has(w, u)
  BY <1>0 DEF Types, Has
<1>2. ASSUME NEW i \in DOMAIN s PROVE Backed(w, s[i])'
  <2>1. Backed(w, s[i]) BY <1>0 DEF Handlers
  <2> QED BY <2>1 DEF Backed, Has, Locked
<1>3. \A i \in DOMAIN s : s[i].op = "add" =>
        \A x \in Slots : x # w => \A j \in DOMAIN agenda[x] :
           agenda[x][j].op = "add" => s[i].U \cap agenda[x][j].U = {}
  BY <1>0 DEF Handlers, AddedOnce
<1> QED BY <1>1, <1>2, <1>3, WorkerStep DEF Locked

LEMMA WhipSourceStep ==
    ASSUME IndInv, NEW w \in Slots, NEW a, At(w, a), a.op = "get", WhipSource(w, a)
    PROVE  IndInv' /\ Locked
<1>1. /\ a.n \in Names /\ agenda[w] \in Seq(Task) /\ agenda[w] # <<>>
      /\ 1 \in DOMAIN agenda[w] /\ a = agenda[w][1] /\ Shape(agenda[w])
  BY CallAt
<1>2. PICK t : t = Tail(agenda[w]) OBVIOUS
<1>3. PICK t2 : t2 = Tail(t) OBVIOUS
<1>4. PICK o \in SourceGet(shm, a.n) :
        /\ shm' = o.reg
        /\ agenda' = [agenda EXCEPT ![w] = IF o.ptr = NoCell /\ a.U # {} THEN t2 ELSE t]
  BY <1>2, <1>3 DEF WhipSource
<1>5. UNCHANGED <<issued, lsrc, lsess, crashes>> BY DEF WhipSource
<1>6. Locked BY <1>1, <1>4, <1>5, GetLocked
<1>7. /\ t \in Seq(Task) /\ Shape(t)
      /\ \A i \in DOMAIN t : i + 1 \in DOMAIN agenda[w] /\ t[i] = agenda[w][i + 1]
      /\ \A i \in DOMAIN agenda[w] : i = 1 \/ i - 1 \in DOMAIN t
  BY <1>1, <1>2, TailAt, TailShape
<1>8. ASSUME a.U # {}
      PROVE  /\ t2 \in Seq(Task) /\ Shape(t2)
             /\ \A i \in DOMAIN t2 : i + 1 \in DOMAIN t /\ t2[i] = t[i + 1]
  <2>1. 1 + 1 \in DOMAIN agenda[w] BY <1>1, <1>8 DEF Shape
  <2>2. (1 + 1) - 1 \in DOMAIN t BY <1>7, <2>1
  <2>3. t # <<>> BY <2>2
  <2> QED BY <1>3, <1>7, <2>3, TailAt, TailShape
<1>9. CASE o.ptr = NoCell /\ a.U # {}
  <2>1. \A i \in DOMAIN t2 : \E j \in DOMAIN agenda[w] : t2[i] = agenda[w][j]
    BY <1>7, <1>8, <1>9
  <2> QED BY <1>4, <1>5, <1>6, <1>8, <1>9, <2>1, SuffixStep
<1>10. CASE ~(o.ptr = NoCell /\ a.U # {})
  <2>1. \A i \in DOMAIN t : \E j \in DOMAIN agenda[w] : t[i] = agenda[w][j] BY <1>7
  <2> QED BY <1>4, <1>5, <1>6, <1>7, <1>10, <2>1, SuffixStep
<1> QED BY <1>9, <1>10

LEMMA PublishStateStep ==
    ASSUME IndInv, NEW w \in Slots, NEW a, At(w, a), a.op = "state", PublishState(w, a)
    PROVE  IndInv' /\ Locked
<1>0. Types BY DEF IndInv
<1>1. /\ a.U \subseteq Ufrags /\ 1 \in DOMAIN agenda[w] /\ a = agenda[w][1]
      /\ Shape(agenda[w]) /\ Backed(w, a)
  BY CallAt
<1>2. PICK u \in a.U : /\ lsess' = [lsess EXCEPT ![w][u].st = OnStun(lsess[w][u].st)]
                       /\ shm' = SessionSetState(shm, u, w, OnStun(lsess[w][u].st))
  BY DEF PublishState
<1>3. Continue(w) /\ UNCHANGED <<issued, lsrc, crashes>> BY DEF PublishState
<1>4. PICK st : st = OnStun(lsess[w][u].st) OBVIOUS
<1>5. u \in Ufrags /\ Has(w, u) BY <1>1 DEF Backed
<1>6. st \in States /\ st # NoSession
  <2>1. lsess[w][u].st \in States BY <1>0, <1>5, HasState
  <2> QED BY <1>4, <2>1, OnStunState
<1>7. /\ lsess' \in [Slots -> [Ufrags -> LocalSession]]
      /\ lsess'[w][u].st = st
      /\ \A v \in Ufrags : v # u => lsess'[w][v] = lsess[w][v]
      /\ \A x \in Slots : x # w => lsess'[x] = lsess[x]
  <2>1. PICK k : k = [lsess[w][u] EXCEPT !.st = st] OBVIOUS
  <2>2. lsess[w][u] \in LocalSession BY <1>0, <1>5 DEF Types
  <2>3. k \in LocalSession /\ k.st = st BY <1>6, <2>1, <2>2 DEF LocalSession
  <2>4. lsess' = [lsess EXCEPT ![w][u] = k] BY <1>2, <1>4, <2>1
  <2>5. /\ lsess' \in [Slots -> [Ufrags -> LocalSession]]
        /\ lsess'[w][u] = k
        /\ \A x \in Slots, v \in Ufrags : x # w \/ v # u => lsess'[x][v] = lsess[x][v]
        /\ \A x \in Slots : x # w => lsess'[x] = lsess[x]
    BY <1>0, <1>5, <2>3, <2>4, SessionWritten
  <2> QED BY <2>3, <2>5
<1>8. Locked BY <1>2, <1>3, <1>4, <1>5, <1>6, SessionLocked
<1>9. \A v \in Ufrags : Has(w, v)' <=> Has(w, v) BY <1>5, <1>6, <1>7 DEF Has
<1>10. \A i \in DOMAIN agenda[w] : agenda[w][i].op # "add"
  <2>1. \A i \in DOMAIN agenda[w] : agenda[w][i].op \in {"mirror", "state"}
    BY <1>1 DEF Shape
  <2> QED BY <2>1
<1>11. lsrc' \in [Slots -> [Names -> LocalSource]] /\ ~Idle(w) BY <1>0, <1>3 DEF Types, At
<1> QED BY <1>3, <1>7, <1>8, <1>9, <1>10, <1>11, TailStep

LEMMA ScanSessionStep ==
    ASSUME IndInv, NEW w \in Slots, NEW a, At(w, a), a.op = "scan", ScanSession(w, a)
    PROVE  IndInv' /\ Locked
<1>0. Types BY DEF IndInv
<1>1. /\ a.n \in Names /\ a.kind \in Kinds /\ a.U \subseteq Ufrags /\ Backed(w, a)
  BY CallAt
<1>2. PICK u \in a.U :
        LET rest == IF a.U = {u} THEN <<>> ELSE <<Call("scan", a.n, a.kind, a.U \ {u})>>
        IN  /\ \/ /\ CloseLocal(w, u)
                  /\ agenda' = [agenda EXCEPT ![w] = CloseCalls(w, u) \o rest]
               \/ /\ agenda' = [agenda EXCEPT ![w] = rest]
                  /\ UNCHANGED <<lsrc, lsess>>
            /\ UNCHANGED <<shm, issued, crashes>>
  BY DEF ScanSession
<1>3. u \in Ufrags BY <1>1
<1> DEFINE b == Call("scan", a.n, a.kind, a.U \ {u})
           t == IF a.U = {u} THEN <<>> ELSE <<b>>
<1>4. b \in Task /\ b.op = "scan" /\ b.U = a.U \ {u} BY <1>1, CallTask
<1>5. \A v \in b.U : v # u /\ Has(w, v) BY <1>1, <1>4 DEF Backed
<1> HIDE DEF b
<1>6. t \in Seq(Task) /\ Shape(t) /\ \A i \in DOMAIN t : t[i] = b
  <2>1. <<b>> \in Seq(Task) /\ Shape(<<b>>) /\ \A i \in DOMAIN <<b>> : <<b>>[i] = b
    BY <1>4 DEF Shape
  <2> QED BY <2>1, EmptyAgenda
<1>7. \/ t = <<>>
      \/ \E e \in Task : e.op = "scan" /\ t = <<e>> /\ \A v \in e.U : v # u /\ Has(w, v)
  BY <1>4, <1>5
<1>8. /\ \/ CloseLocal(w, u) /\ agenda' = [agenda EXCEPT ![w] = CloseCalls(w, u) \o t]
         \/ agenda' = [agenda EXCEPT ![w] = t] /\ UNCHANGED <<lsrc, lsess>>
      /\ UNCHANGED <<shm, issued, crashes>>
  BY <1>2 DEF b
<1> HIDE DEF t
<1>9. CASE CloseLocal(w, u) /\ agenda' = [agenda EXCEPT ![w] = CloseCalls(w, u) \o t]
  BY <1>3, <1>6, <1>7, <1>8, <1>9, CloseStep
<1>10. CASE agenda' = [agenda EXCEPT ![w] = t] /\ UNCHANGED <<lsrc, lsess>>
  <2>1. Locked BY <1>8 DEF Locked
  <2>2. /\ crashes' \in Nat /\ lsrc' \in [Slots -> [Names -> LocalSource]]
        /\ lsess' \in [Slots -> [Ufrags -> LocalSession]]
        /\ \A x \in Slots : x # w => lsess'[x] = lsess[x]
        /\ \A v \in Ufrags : Has(w, v)' => Has(w, v)
    BY <1>0, <1>8, <1>10 DEF Types, Has
  <2>3. Backed(w, b)' BY <1>4, <1>5, <1>10 DEF Backed, Has
  <2>4. \A i \in DOMAIN t : Backed(w, t[i])' /\ t[i].op # "add" BY <1>4, <1>6, <2>3
  <2>5. IndInv' BY <1>6, <1>10, <2>1, <2>2, <2>4, WorkerStep DEF Locked
  <2> QED BY <2>1, <2>5
<1> QED BY <1>8, <1>9, <1>10

(* A new skeleton: its ufrag is drawn, and was nobody's. *)
Drawn ==
    \E u \in Ufrags, n \in Names, pub \in BOOLEAN :
        /\ u \notin issued /\ issued' = issued \cup {u}
        /\ shm' \in SessionAdd(shm, u, n, pub)
        /\ \A x \in Slots : lsess[x][u].st \in {"NEW", NoSession}

LEMMA AddSkeletonStep ==
    ASSUME IndInv, NEW w \in Slots, NEW a, At(w, a), a.op = "add", AddSkeleton(w, a)
    PROVE  IndInv' /\ Drawn
<1>0. Types /\ Handlers BY DEF IndInv
<1>1. /\ a.n \in Names /\ a.U \subseteq Ufrags /\ agenda[w] \in Seq(Task) /\ agenda[w] # <<>>
      /\ 1 \in DOMAIN agenda[w] /\ a = agenda[w][1] /\ Backed(w, a) /\ Shape(agenda[w])
  BY CallAt
<1>2. PICK u \in a.U : /\ \E r \in SessionAdd(shm, u, a.n, a.kind = "whip") : shm' = r
                       /\ issued' = issued \cup {u}
  BY DEF AddSkeleton
<1>3. PICK pub \in BOOLEAN : pub = (a.kind = "whip") OBVIOUS
<1>4. shm' \in SessionAdd(shm, u, a.n, pub) BY <1>2, <1>3
<1>5. /\ u \in Ufrags /\ u \notin issued /\ lsess[w][u].st \in {"NEW", NoSession}
      /\ \A x \in Slots : x # w => ~Has(x, u)
  BY <1>1 DEF Backed
<1>6. Drawn BY <1>1, <1>2, <1>4, <1>5 DEF Drawn, Has
<1>7. Continue(w) /\ UNCHANGED <<lsrc, lsess, crashes>> BY DEF AddSkeleton
<1>8. /\ RegInv(shm') /\ \A v \in Ufrags : shm'.sess[v].live => v \in issued'
  <2>1. RegInv(shm) /\ ~shm.sess[u].live BY <1>0, <1>5 DEF Types
  <2>2. PICK Q : /\ Quiet(shm, Q) /\ RegInv(shm')
                 /\ \A v \in Ufrags : v # u => shm'.sess[v] = Q.sess[v]
                 /\ shm'.sess[u].live =>
                      /\ ~shm'.sess[u].ready /\ shm'.sess[u].state = "NEW"
                      /\ shm'.sess[u].owner = NoSlot /\ shm'.sess[u].pub = pub
    BY <1>1, <1>4, <1>5, <2>1, AddSkeletons
  <2>3. \A v \in Ufrags : Q.sess[v].live => shm.sess[v].live BY <2>2 DEF Quiet
  <2> QED BY <1>0, <1>2, <2>2, <2>3 DEF Types
<1>9. PICK s : s = Tail(agenda[w]) OBVIOUS
<1>10. /\ s \in Seq(Task) /\ Shape(s)
       /\ \A i \in DOMAIN s : i + 1 \in DOMAIN agenda[w] /\ s[i] = agenda[w][i + 1]
  BY <1>1, <1>9, TailAt, TailShape
<1>11. \A i \in DOMAIN s : s[i].op # "add"
  <2>1. \A i \in DOMAIN s : i \in Nat /\ i # 0 BY <1>10
  <2>2. \A i \in DOMAIN s : i + 1 # 1 BY <2>1
  <2> QED BY <1>1, <1>10, <2>2 DEF Shape
<1>12. agenda'[w] = s /\ \A x \in Slots : x # w => agenda'[x] = agenda[x]
  BY <1>0, <1>7, <1>9 DEF Types, Continue
<1>13. agenda' \in [Slots -> Seq(Task)]
  BY <1>0, <1>7, <1>9, <1>10 DEF Types, Continue
<1>14. Types' BY <1>0, <1>2, <1>5, <1>7, <1>8, <1>13 DEF Types
<1>15. ASSUME NEW x \in Slots, x # w, NEW i \in DOMAIN agenda[x]
       PROVE  agenda[x][i].op = "add" => u \notin agenda[x][i].U
  <2>1. agenda[x][i].op = "add" => agenda[w][1].U \cap agenda[x][i].U = {}
    BY <1>0, <1>1, <1>15 DEF Handlers, AddedOnce
  <2> QED BY <1>1, <2>1
<1>16. ASSUME NEW x \in Slots
       PROVE  (Shape(agenda[x]) /\ \A i \in DOMAIN agenda[x] : Backed(x, agenda[x][i]))'
  <2>1. CASE x = w
    <3>1. ASSUME NEW i \in DOMAIN s PROVE Backed(w, s[i])'
      <4>1. Backed(w, s[i]) BY <1>0, <1>10 DEF Handlers
      <4> QED BY <1>7, <1>11, <4>1 DEF Backed, Has
    <3> QED BY <1>10, <1>12, <2>1, <3>1 DEF Backed, Has
  <2>2. CASE x # w
    <3>1. ASSUME NEW i \in DOMAIN agenda[x] PROVE Backed(x, agenda[x][i])'
      <4>1. PICK b : b = agenda[x][i] OBVIOUS
      <4>2. Backed(x, b) /\ (b.op = "add" => u \notin b.U)
        BY <1>0, <1>15, <2>2, <4>1 DEF Handlers
      <4>3. Backed(x, b)' BY <1>2, <1>7, <4>2 DEF Backed, Has
      <4> QED BY <1>12, <2>2, <4>1, <4>3 DEF Backed, Has
    <3>2. Shape(agenda[x]) BY <1>0 DEF Handlers
    <3> QED BY <1>12, <2>2, <3>1, <3>2 DEF Backed, Has
  <2> QED BY <2>1, <2>2
<1>17. AddedOnce'
  <2> SUFFICES ASSUME NEW x \in Slots, NEW y \in Slots, x # y,
                      NEW i \in DOMAIN agenda'[x], NEW j \in DOMAIN agenda'[y],
                      agenda'[x][i].op = "add", agenda'[y][j].op = "add"
               PROVE  agenda'[x][i].U \cap agenda'[y][j].U = {}
    BY DEF AddedOnce
  <2>1. x # w /\ y # w BY <1>11, <1>12
  <2> QED BY <1>0, <1>12, <2>1 DEF Handlers, AddedOnce
<1>18. Handlers' BY <1>16, <1>17 DEF Handlers
<1> QED BY <1>6, <1>14, <1>18 DEF IndInv

LEMMA ResumeStep ==
    ASSUME IndInv, NEW w \in Slots, Resume(w) PROVE IndInv' /\ (Locked \/ Drawn)
<1>1. PICK a : a = Head(agenda[w]) OBVIOUS
<1>2. At(w, a) BY <1>1 DEF Resume, At
<1>3. \/ CachePointer(w, a) \/ MirrorClaim(w, a)
      \/ a.op = "get" /\ WhipSource(w, a)
      \/ a.op = "add" /\ AddSkeleton(w, a)
      \/ a.op = "state" /\ PublishState(w, a)
      \/ \/ a.op = "slot" /\ RecordSlot(w, a)
         \/ a.op = "release" /\ ReleaseClaim(w, a)
         \/ a.op = "remove" /\ RemoveSource(w, a)
         \/ a.op = "drop" /\ DropSkeleton(w, a)
      \/ a.op = "scan" /\ ScanSession(w, a)
  BY <1>1 DEF Resume
<1> QED
  BY <1>2, <1>3, CachePointerStep, WhipSourceStep, AddSkeletonStep, PublishStateStep,
     PlainCallStep, ScanSessionStep

(* Every step. *)
LEMMA NextStep == ASSUME IndInv, Next PROVE IndInv' /\ (Locked \/ Drawn)
<1>1. ASSUME NEW w \in Slots, Signalling(w) PROVE IndInv' /\ Locked
  BY <1>1, PlayStep, WhipStep, WhipRefusedStep, PlayAbortedStep, WhipAbortedStep
  DEF Signalling
<1>2. ASSUME NEW w \in Slots, MediaPlane(w) PROVE IndInv' /\ Locked
  BY <1>2, StunStep, AttachStep, DtlsStep, HangupStep, WhipMediaStep DEF MediaPlane
<1>3. ASSUME NEW w \in Slots, Ingest(w) PROVE IndInv' /\ Locked
  BY <1>3, RtmpFastStep, RtmpClaimStep, RtmpStopStep DEF Ingest
<1>4. ASSUME Admin PROVE IndInv' /\ Locked BY <1>4, KickStep, DisconnectStep DEF Admin
<1> QED
  BY <1>1, <1>2, <1>3, <1>4, ReapStep, ResumeStep, CrashStep, TickStep DEF Next

LEMMA Initially == ASSUME Init PROVE IndInv
<1>1. shm = EmptyZone /\ issued = {} /\ crashes = 0 BY DEF Init
<1>2. RegInv(shm) /\ \A u \in Ufrags : ~shm.sess[u].live
  BY <1>1, EmptyZoneInv
<1>3. AbsentSource \in LocalSource /\ AbsentSession \in LocalSession
  BY SourceTypes, SessionTypes
<1>4. agenda \in [Slots -> Seq(Task)] /\ \A w \in Slots : agenda[w] = <<>> BY DEF Init
<1>5. Types BY <1>1, <1>2, <1>3, <1>4 DEF Types, Init
<1>6. \A w \in Slots : \A i \in DOMAIN agenda[w] : FALSE BY <1>4
<1>7. Handlers BY <1>4, <1>6, EmptyAgenda DEF Handlers, AddedOnce
<1> QED BY <1>5, <1>7 DEF IndInv

LEMMA Stutter == ASSUME IndInv, UNCHANGED vars PROVE IndInv'
<1>1. Locked BY DEF vars, Locked
<1> QED BY <1>1, OutsideStep DEF vars, IndInv, Types

LEMMA Safe == Spec => []IndInv
<1>1. Init => IndInv BY Initially
<1>2. IndInv /\ [Next]_vars => IndInv' BY NextStep, Stutter
<1> QED BY <1>1, <1>2, PTL DEF Spec

(* Workers die one at a time, as often as the bound allows. *)
LEMMA CrashCount ==
    ASSUME [Next]_vars
    PROVE  \/ crashes' = crashes
           \/ /\ crashes < MaxCrashes /\ crashes' = crashes + 1
              /\ \E w \in Slots : Crash(w)
<1>1. ASSUME NEW w \in Slots, Signalling(w) PROVE crashes' = crashes
  BY <1>1, Zenon DEF Signalling, Play, Whip, WhipRefused, PlayAborted, WhipAborted
<1>2. ASSUME NEW w \in Slots, MediaPlane(w) PROVE crashes' = crashes
  BY <1>2, Zenon DEF MediaPlane, Stun, Attach, Dtls, DtlsDone, Hangup, WhipMedia
<1>3. ASSUME NEW w \in Slots, Ingest(w) PROVE crashes' = crashes
  BY <1>3 DEF Ingest, RtmpFast, RtmpClaim, RtmpStop
<1>4. ASSUME NEW w \in Slots, Resume(w) PROVE crashes' = crashes
  BY <1>4, Zenon DEF Resume, CachePointer, WhipSource, AddSkeleton, MirrorClaim, PublishState,
              RecordSlot, ReleaseClaim, RemoveSource, DropSkeleton, ScanSession
<1>5. ASSUME NEW w \in Slots, Reap(w) PROVE crashes' = crashes BY <1>5 DEF Reap
<1>6. ASSUME Admin \/ Tick PROVE crashes' = crashes
  BY <1>6 DEF Admin, Kick, Disconnect, Tick
<1>7. ASSUME NEW w \in Slots, Crash(w) PROVE crashes < MaxCrashes /\ crashes' = crashes + 1
  BY <1>7 DEF Crash
<1> QED BY <1>1, <1>2, <1>3, <1>4, <1>5, <1>6, <1>7 DEF Next, vars

-----------------------------------------------------------------------------
(* Types and refinement *)

(* The zone, each worker's sources and sessions and the calls its handler   *)
(* has left keep their types, however the handlers' locked calls interleave *)
(* and wherever workers die (RtcWorkers!TypeOK).                            *)
THEOREM TypeCorrect == Spec => []TypeOK
<1>1. Init => IndInv /\ crashes \in 0..MaxCrashes BY Initially, WorkerClients DEF Init
<1>2. IndInv /\ crashes \in 0..MaxCrashes /\ [Next]_vars => IndInv' /\ (crashes \in 0..MaxCrashes)'
  <2>1. crashes \in 0..MaxCrashes /\ [Next]_vars => (crashes \in 0..MaxCrashes)'
    BY CrashCount, WorkerClients
  <2> QED BY <2>1, NextStep, Stutter
<1>3. IndInv /\ crashes \in 0..MaxCrashes => TypeOK
  <2> SUFFICES ASSUME Types, crashes \in 0..MaxCrashes PROVE TypeOK BY DEF IndInv
  <2>1. \A w \in Slots : \A i \in DOMAIN agenda[w] : agenda[w][i] \in Task BY DEF Types
  <2> QED BY <2>1 DEF Types, TypeOK, RegInv, Task
<1> QED BY <1>1, <1>2, <1>3, PTL DEF Spec

(* Whatever a handler does between two lock boundaries, the zone only ever  *)
(* takes steps of the registry's contract: a skeleton is added under a      *)
(* ufrag that was never drawn, a claim is released by its kind, a pointer   *)
(* written through is a cell.  What is proved of ShmRegistry therefore      *)
(* holds under the workers.                                                 *)
THEOREM WorkersImplementRegistry == Spec => ImplementsRegistry
<1>1. Init => Registry!Init BY SameEmptyZone DEF Init, Registry!Init
<1>2. IndInv /\ [Next]_vars => [Registry!Next]_(Registry!vars)
  <2> SUFFICES ASSUME IndInv, [Next]_vars PROVE [Registry!Next]_(Registry!vars)
    OBVIOUS
  <2>1. CASE UNCHANGED vars BY <2>1 DEF vars, Registry!vars
  <2>2. CASE Next
    <3>1. Locked \/ Drawn BY <2>2, NextStep
    <3>2. CASE Locked BY <3>2, CallRefines DEF Locked, Registry!vars
    <3>3. CASE Drawn
      <4>1. PICK u \in Ufrags, n \in Names, pub \in BOOLEAN :
              /\ u \notin issued /\ issued' = issued \cup {u}
              /\ shm' \in SessionAdd(shm, u, n, pub)
        BY <3>3 DEF Drawn
      <4>2. Registry!Add(u, n, pub) BY <4>1, SameSessionAdd DEF Registry!Add
      <4> QED BY <4>2 DEF Registry!Next, Registry!SourceCalls
    <3> QED BY <3>1, <3>2, <3>3
  <2> QED BY <2>1, <2>2
<1> QED BY <1>1, <1>2, Safe, PTL DEF Spec, ImplementsRegistry, Registry!Spec

-----------------------------------------------------------------------------
(* Media state: ready skeletons and their sessions *)

(* A worker is about to drop its skeleton of u. *)
Dropping(w, u) == \E i \in DOMAIN agenda[w] : agenda[w][i].op = "drop" /\ u \in agenda[w][i].U

(* What FreedByOwner says of a step. *)
StillHeld == \A u \in Ufrags, w \in Slots :
            /\ shm.sess[u].live /\ shm.sess[u].owner = w
            /\ ~shm'.sess[u].live
            => ~Has(w, u)

LEMMA ReadyInvUnfolded ==
    ASSUME ReadyInv, crashes = 0, NEW u \in Ufrags, shm.sess[u].live
    PROVE  /\ shm.sess[u].ready <=> shm.sess[u].state = "SRTP_READY"
           /\ shm.sess[u].ready => \/ lsess[shm.sess[u].owner][u].st = "SRTP_READY"
                                   \/ Dropping(shm.sess[u].owner, u)
           /\ \A w \in Slots : lsess[w][u].st = "SRTP_READY" /\ shm.sess[u].owner \in {NoSlot, w}
                 => shm.sess[u].ready
BY DEF ReadyInv, Dropping

LEMMA ReadyInvFolded ==
    ASSUME crashes' = 0 =>
             \A u \in Ufrags : shm'.sess[u].live =>
               /\ shm'.sess[u].ready <=> shm'.sess[u].state = "SRTP_READY"
               /\ shm'.sess[u].ready =>
                     \/ lsess'[shm'.sess[u].owner][u].st = "SRTP_READY"
                     \/ \E i \in DOMAIN agenda'[shm'.sess[u].owner] :
                           /\ agenda'[shm'.sess[u].owner][i].op = "drop"
                           /\ u \in agenda'[shm'.sess[u].owner][i].U
               /\ \A w \in Slots :
                     lsess'[w][u].st = "SRTP_READY" /\ shm'.sess[u].owner \in {NoSlot, w}
                       => shm'.sess[u].ready
    PROVE  ReadyInv'
BY DEF ReadyInv

(* A ready skeleton has an owner. *)
LEMMA ReadyOwned ==
    ASSUME Types, NEW u \in Ufrags
    PROVE  /\ shm.sess[u].owner \in Slots \cup {NoSlot}
           /\ shm.sess[u].ready => shm.sess[u].owner \in Slots
           /\ shm.sess[u].ready \in BOOLEAN
<1>1. RegInv(shm) BY DEF Types
<1>2. shm.sess[u] \in SkeletonType /\ (shm.sess[u].ready => shm.sess[u].owner # NoSlot)
  BY <1>1, SkeletonHeld
<1> QED BY <1>2 DEF SkeletonType

(* A step that leaves the skeletons alone, makes no session ready and drops *)
(* the skeleton of every ready session it closes.                           *)
LEMMA QuietReady ==
    ASSUME IndInv, ReadyInv, Quiet(shm, shm'), crashes' = crashes,
           \A w \in Slots, u \in Ufrags :
             /\ lsess'[w][u].st = "SRTP_READY" => lsess[w][u].st = "SRTP_READY"
             /\ lsess[w][u].st = "SRTP_READY" =>
                   lsess'[w][u].st = "SRTP_READY" \/ Dropping(w, u)'
             /\ Dropping(w, u) => Dropping(w, u)'
    PROVE  ReadyInv' /\ StillHeld
<1>0. Types BY DEF IndInv
<1>1. StillHeld
  <2> SUFFICES ASSUME NEW u \in Ufrags, NEW w \in Slots,
                      shm.sess[u].live, shm.sess[u].owner = w, ~shm'.sess[u].live
               PROVE  FALSE
    BY DEF StillHeld
  <2> QED BY WorkerSlot DEF Quiet
<1>2. ASSUME crashes' = 0, NEW u \in Ufrags, shm'.sess[u].live
      PROVE  /\ shm'.sess[u].ready <=> shm'.sess[u].state = "SRTP_READY"
             /\ shm'.sess[u].ready => \/ lsess'[shm'.sess[u].owner][u].st = "SRTP_READY"
                                      \/ Dropping(shm.sess[u].owner, u)'
             /\ \A w \in Slots :
                   lsess'[w][u].st = "SRTP_READY" /\ shm'.sess[u].owner \in {NoSlot, w}
                     => shm'.sess[u].ready
  <2>1. /\ shm.sess[u].live /\ shm'.sess[u].owner = shm.sess[u].owner
        /\ shm'.sess[u].ready = shm.sess[u].ready /\ shm'.sess[u].state = shm.sess[u].state
    BY <1>2 DEF Quiet
  <2>2. PICK o : o = shm.sess[u].owner OBVIOUS
  <2>3. shm.sess[u].ready => o \in Slots BY <1>0, <2>2, ReadyOwned
  <2>4. crashes = 0 BY <1>2
  <2>5. /\ shm.sess[u].ready <=> shm.sess[u].state = "SRTP_READY"
        /\ shm.sess[u].ready => lsess[o][u].st = "SRTP_READY" \/ Dropping(o, u)
        /\ \A w \in Slots : lsess[w][u].st = "SRTP_READY" /\ o \in {NoSlot, w}
              => shm.sess[u].ready
    BY <2>1, <2>2, <2>4, ReadyInvUnfolded
  <2>6. shm.sess[u].ready => lsess'[o][u].st = "SRTP_READY" \/ Dropping(o, u)'
    BY <2>3, <2>5, Zenon
  <2>7. shm'.sess[u].ready => \/ lsess'[shm'.sess[u].owner][u].st = "SRTP_READY"
                              \/ Dropping(shm.sess[u].owner, u)'
    BY <2>1, <2>2, <2>6 DEF Dropping
  <2> QED BY <2>1, <2>2, <2>5, <2>7
<1>3. ReadyInv' BY <1>2, ReadyInvFolded DEF Dropping
<1> QED BY <1>1, <1>3

(* A handler's first step. *)
LEMMA StartReady ==
    ASSUME IndInv, ReadyInv, NEW w \in Slots, Idle(w), Quiet(shm, shm'), crashes' = crashes,
           NEW s, agenda' = agenda \/ agenda' = [agenda EXCEPT ![w] = s],
           \A x \in Slots, u \in Ufrags :
             lsess'[x][u].st = "SRTP_READY" <=> lsess[x][u].st = "SRTP_READY"
    PROVE  ReadyInv' /\ StillHeld
<1>0. Types BY DEF IndInv
<1>1. \A x \in Slots : x # w => agenda'[x] = agenda[x] BY <1>0 DEF Types
<1>2. \A u : ~Dropping(w, u) BY DEF Dropping, Idle
<1>3. \A x \in Slots, u \in Ufrags : Dropping(x, u) => Dropping(x, u)'
  BY <1>1, <1>2 DEF Dropping
<1> QED BY <1>3, QuietReady

LEMMA TryQuiet ==
    ASSUME IndInv, NEW n \in Names, NEW kind \in Kinds, shm' = TryPublish(shm, n, kind)
    PROVE  Quiet(shm, shm')
BY CalledQuiet DEF IndInv, Types

LEMMA SignallingReady ==
    ASSUME IndInv, ReadyInv, NEW w \in Slots, Signalling(w) PROVE ReadyInv' /\ StillHeld
<1>0. Types BY DEF IndInv
<1>1. PICK u \in Ufrags, n \in Names :
        \/ Play(w, u, n) \/ Whip(w, u, n) \/ WhipRefused(w, u, n)
        \/ PlayAborted(w, u, n) \/ WhipAborted(w, u, n)
  BY DEF Signalling
<1>2. RegInv(shm) /\ "whip" \in Kinds BY <1>0 DEF Types, Kinds
<1>3. Quiet(shm, shm')
  <2>1. CASE Play(w, u, n) \/ PlayAborted(w, u, n)
    BY <1>2, <2>1, GetQuiet DEF Play, PlayAborted
  <2>2. CASE Whip(w, u, n) \/ WhipRefused(w, u, n) \/ WhipAborted(w, u, n)
    BY <1>2, <2>2, TryQuiet DEF Whip, WhipRefused, WhipAborted
  <2> QED BY <1>1, <2>1, <2>2
<1>4. Idle(w) /\ crashes' = crashes
  BY <1>1 DEF Play, Whip, WhipRefused, PlayAborted, WhipAborted
<1>5. PICK s : agenda' = agenda \/ agenda' = [agenda EXCEPT ![w] = s]
  BY <1>1 DEF Play, Whip, WhipRefused, PlayAborted, WhipAborted
<1>6. ASSUME NEW x \in Slots, NEW v \in Ufrags
      PROVE  lsess'[x][v].st = "SRTP_READY" <=> lsess[x][v].st = "SRTP_READY"
  <2>1. CASE lsess' = lsess BY <2>1
  <2>2. ASSUME NEW pub \in BOOLEAN, lsess' = [lsess EXCEPT ![w][u] = NewLocal(n, pub)],
               FreshUfrag(u)
        PROVE  lsess'[x][v].st = "SRTP_READY" <=> lsess[x][v].st = "SRTP_READY"
    <3>1. NewLocal(n, pub) \in LocalSession /\ NewLocal(n, pub).st = "NEW"
      BY SessionTypes DEF NewLocal
    <3>2. /\ lsess' \in [Slots -> [Ufrags -> LocalSession]]
          /\ lsess'[w][u] = NewLocal(n, pub)
          /\ \A y \in Slots, z \in Ufrags : y # w \/ z # u => lsess'[y][z] = lsess[y][z]
          /\ \A y \in Slots : y # w => lsess'[y] = lsess[y]
      BY <1>0, <2>2, <3>1, SessionWritten
    <3>3. lsess[w][u].st = NoSession BY <2>2 DEF FreshUfrag, Has
    <3> QED BY <3>1, <3>2, <3>3 DEF NoSession
  <2> QED BY <1>1, <2>1, <2>2 DEF Play, Whip, WhipRefused, PlayAborted, WhipAborted
<1> QED BY <1>3, <1>4, <1>5, <1>6, StartReady

LEMMA IngestReady ==
    ASSUME IndInv, ReadyInv, NEW w \in Slots, Ingest(w) PROVE ReadyInv' /\ StillHeld
<1>0. Types BY DEF IndInv
<1>1. PICK n \in Names : RtmpFast(w, n) \/ RtmpClaim(w, n) \/ RtmpStop(w, n) BY DEF Ingest
<1>2. Quiet(shm, shm')
  <2>1. CASE RtmpFast(w, n)
    <3>1. PICK c : c = lsrc[w][n].ptr OBVIOUS
    <3>2. c \in Cells BY <1>0, <2>1, <3>1 DEF RtmpFast, Types, LocalSource, Pointers
    <3>3. shm' = Heartbeat(shm, c) BY <2>1, <3>1 DEF RtmpFast
    <3> QED BY <1>0, <3>2, <3>3, CalledQuiet DEF Types
  <2>2. CASE RtmpClaim(w, n) BY <2>2, TryQuiet DEF RtmpClaim, Kinds
  <2>3. CASE RtmpStop(w, n) BY <2>3, QuietSame DEF RtmpStop
  <2> QED BY <1>1, <2>1, <2>2, <2>3
<1>3. Idle(w) /\ crashes' = crashes /\ lsess' = lsess
  BY <1>1 DEF RtmpFast, RtmpClaim, RtmpStop
<1>4. PICK s : agenda' = agenda \/ agenda' = [agenda EXCEPT ![w] = s]
  BY <1>1 DEF RtmpFast, RtmpClaim, RtmpStop
<1> QED BY <1>2, <1>3, <1>4, StartReady

LEMMA ReapReady ==
    ASSUME IndInv, ReadyInv, NEW w \in Slots, Reap(w) PROVE ReadyInv' /\ StillHeld
<1>1. Quiet(shm, shm') BY ExpireQuiet DEF Reap, IndInv, Types
<1>2. PICK s : agenda' = [agenda EXCEPT ![w] = s] BY DEF Reap
<1> QED BY <1>1, <1>2, StartReady DEF Reap

LEMMA OutsideReady ==
    ASSUME IndInv, ReadyInv, Admin \/ Tick PROVE ReadyInv' /\ StillHeld
<1>0. Types BY DEF IndInv
<1>1. Quiet(shm, shm') BY <1>0, CalledQuiet DEF Admin, Kick, Disconnect, Tick, Types
<1>2. agenda' = agenda /\ crashes' = crashes BY DEF Admin, Kick, Disconnect, Tick
<1>3. \A x \in Slots, u \in Ufrags : lsess'[x][u].st = lsess[x][u].st
  <2>1. CASE Admin BY <2>1 DEF Admin, Kick, Disconnect
  <2>2. CASE Tick
    <3>1. \A x \in Slots, u \in Ufrags : lsess[x][u] \in LocalSession BY <1>0 DEF Types
    <3> QED BY <2>2, <3>1 DEF Tick, LocalSession
  <2> QED BY <2>1, <2>2
<1>4. \A x \in Slots, u \in Ufrags : Dropping(x, u) => Dropping(x, u)'
  BY <1>2 DEF Dropping
<1> QED BY <1>1, <1>2, <1>3, <1>4, QuietReady

(* A session whose skeleton is about to be dropped is gone. *)
LEMMA DroppingGone ==
    ASSUME IndInv, NEW w \in Slots, NEW u \in Ufrags, Dropping(w, u) PROVE ~Has(w, u)
BY DEF IndInv, Handlers, Backed, Dropping

(* What a worker's step on skeleton u must show. *)
LEMMA SkeletonReady ==
    ASSUME IndInv, ReadyInv, NEW u \in Ufrags, crashes' = crashes,
           \A v \in Ufrags : v # u /\ shm'.sess[v].live =>
             /\ shm.sess[v].live /\ shm'.sess[v].owner = shm.sess[v].owner
             /\ shm'.sess[v].ready = shm.sess[v].ready /\ shm'.sess[v].state = shm.sess[v].state,
           \A x \in Slots, v \in Ufrags : v # u =>
             /\ lsess'[x][v].st = "SRTP_READY" => lsess[x][v].st = "SRTP_READY"
             /\ lsess[x][v].st = "SRTP_READY" => lsess'[x][v].st = "SRTP_READY"
             /\ Dropping(x, v) => Dropping(x, v)',
           crashes = 0 /\ shm'.sess[u].live =>
             /\ shm'.sess[u].ready <=> shm'.sess[u].state = "SRTP_READY"
             /\ shm'.sess[u].ready => \/ lsess'[shm'.sess[u].owner][u].st = "SRTP_READY"
                                      \/ \E i \in DOMAIN agenda'[shm'.sess[u].owner] :
                                            /\ agenda'[shm'.sess[u].owner][i].op = "drop"
                                            /\ u \in agenda'[shm'.sess[u].owner][i].U
             /\ \A x \in Slots :
                   lsess'[x][u].st = "SRTP_READY" /\ shm'.sess[u].owner \in {NoSlot, x}
                     => shm'.sess[u].ready
    PROVE  ReadyInv'
<1>0. Types BY DEF IndInv
<1>1. ASSUME crashes' = 0, NEW v \in Ufrags, v # u, shm'.sess[v].live
      PROVE  /\ shm'.sess[v].ready <=> shm'.sess[v].state = "SRTP_READY"
             /\ shm'.sess[v].ready => \/ lsess'[shm'.sess[v].owner][v].st = "SRTP_READY"
                                      \/ Dropping(shm.sess[v].owner, v)'
             /\ \A w \in Slots :
                   lsess'[w][v].st = "SRTP_READY" /\ shm'.sess[v].owner \in {NoSlot, w}
                     => shm'.sess[v].ready
  <2>1. /\ shm.sess[v].live /\ shm'.sess[v].owner = shm.sess[v].owner /\ crashes = 0
        /\ shm'.sess[v].ready = shm.sess[v].ready /\ shm'.sess[v].state = shm.sess[v].state
    BY <1>1
  <2>2. PICK o : o = shm.sess[v].owner OBVIOUS
  <2>3. shm.sess[v].ready => o \in Slots BY <1>0, <2>2, ReadyOwned
  <2>4. /\ shm.sess[v].ready <=> shm.sess[v].state = "SRTP_READY"
        /\ shm.sess[v].ready => lsess[o][v].st = "SRTP_READY" \/ Dropping(o, v)
        /\ \A w \in Slots : lsess[w][v].st = "SRTP_READY" /\ o \in {NoSlot, w}
              => shm.sess[v].ready
    BY <2>1, <2>2, ReadyInvUnfolded
  <2>5. shm.sess[v].ready => lsess'[o][v].st = "SRTP_READY" \/ Dropping(o, v)'
    BY <1>1, <2>3, <2>4, Zenon
  <2>6. shm'.sess[v].ready => \/ lsess'[shm'.sess[v].owner][v].st = "SRTP_READY"
                              \/ Dropping(shm.sess[v].owner, v)'
    BY <2>1, <2>2, <2>5 DEF Dropping
  <2> QED BY <1>1, <2>1, <2>2, <2>4, <2>6
<1>2. ASSUME crashes' = 0, NEW v \in Ufrags, shm'.sess[v].live
      PROVE  /\ shm'.sess[v].ready <=> shm'.sess[v].state = "SRTP_READY"
             /\ shm'.sess[v].ready => \/ lsess'[shm'.sess[v].owner][v].st = "SRTP_READY"
                                      \/ \E i \in DOMAIN agenda'[shm'.sess[v].owner] :
                                            /\ agenda'[shm'.sess[v].owner][i].op = "drop"
                                            /\ v \in agenda'[shm'.sess[v].owner][i].U
             /\ \A w \in Slots :
                   lsess'[w][v].st = "SRTP_READY" /\ shm'.sess[v].owner \in {NoSlot, w}
                     => shm'.sess[v].ready
  <2>1. CASE v = u BY <1>2, <2>1
  <2>2. CASE v # u BY <1>1, <1>2, <2>2 DEF Dropping
  <2> QED BY <2>1, <2>2
<1> QED BY <1>2, ReadyInvFolded

(* STUN, DTLS and attach publish the state of a session the worker has. *)
LEMMA StateReady ==
    ASSUME IndInv, ReadyInv, NEW w \in Slots, NEW u \in Ufrags, NEW st \in States,
           Has(w, u), shm' = SessionSetState(shm, u, w, st), crashes' = crashes,
           st = "SRTP_READY" <=> lsess[w][u].st = "SRTP_READY", lsess'[w][u].st = st,
           \A x \in Slots, v \in Ufrags : x # w \/ v # u => lsess'[x][v].st = lsess[x][v].st,
           \A x \in Slots, v \in Ufrags : Dropping(x, v) => Dropping(x, v)'
    PROVE  ReadyInv' /\ StillHeld
<1>0. Types /\ RegInv(shm) BY DEF IndInv, Types
<1>1. /\ \A v \in Ufrags : v # u => shm'.sess[v] = shm.sess[v]
      /\ shm'.sess[u].live = shm.sess[u].live /\ shm'.sess[u].ready = shm.sess[u].ready
      /\ shm'.sess[u].owner = shm.sess[u].owner
      /\ shm'.sess[u].state = IF MayAct(shm, u, w) THEN st ELSE shm.sess[u].state
  BY <1>0, SetStateSkeleton
<1>2. StillHeld BY <1>1 DEF StillHeld
<1>3. PICK o : o = shm.sess[u].owner OBVIOUS
<1>4. ASSUME crashes = 0, shm.sess[u].live
      PROVE  /\ shm.sess[u].ready <=> shm'.sess[u].state = "SRTP_READY"
             /\ shm.sess[u].ready => o \in Slots /\ (lsess'[o][u].st = "SRTP_READY" \/ Dropping(o, u)')
             /\ \A x \in Slots : lsess'[x][u].st = "SRTP_READY" /\ o \in {NoSlot, x}
                   => shm.sess[u].ready
  <2>1. shm.sess[u].ready => o \in Slots BY <1>0, <1>3, ReadyOwned
  <2>2. /\ shm.sess[u].ready <=> shm.sess[u].state = "SRTP_READY"
        /\ shm.sess[u].ready => lsess[o][u].st = "SRTP_READY" \/ Dropping(o, u)
        /\ \A x \in Slots : lsess[x][u].st = "SRTP_READY" /\ o \in {NoSlot, x}
              => shm.sess[u].ready
    BY <1>3, <1>4, ReadyInvUnfolded
  <2>3. \A x \in Slots : lsess'[x][u].st = "SRTP_READY" <=> lsess[x][u].st = "SRTP_READY"
    <3> TAKE x \in Slots
    <3>1. CASE x = w BY <3>1
    <3>2. CASE x # w BY <3>2
    <3> QED BY <3>1, <3>2
  <2>4. shm.sess[u].ready <=> shm'.sess[u].state = "SRTP_READY"
    <3>1. CASE ~MayAct(shm, u, w) BY <1>1, <2>2, <3>1
    <3>2. CASE MayAct(shm, u, w)
      <4>1. o \in {NoSlot, w} /\ shm'.sess[u].state = st BY <1>1, <1>3, <3>2 DEF MayAct
      <4>2. st = "SRTP_READY" => shm.sess[u].ready BY <2>2, <4>1
      <4>3. shm.sess[u].ready => st = "SRTP_READY"
        <5>1. shm.sess[u].ready => o = w BY <2>1, <4>1, WorkerSlot
        <5>2. ~Dropping(w, u) BY DroppingGone
        <5> QED BY <2>2, <5>1, <5>2
      <4> QED BY <4>1, <4>2, <4>3
    <3> QED BY <3>1, <3>2
  <2> QED BY <2>1, <2>2, <2>3, <2>4
<1>5. crashes = 0 /\ shm'.sess[u].live =>
        /\ shm'.sess[u].ready <=> shm'.sess[u].state = "SRTP_READY"
        /\ shm'.sess[u].ready => \/ lsess'[shm'.sess[u].owner][u].st = "SRTP_READY"
                                 \/ \E i \in DOMAIN agenda'[shm'.sess[u].owner] :
                                       /\ agenda'[shm'.sess[u].owner][i].op = "drop"
                                       /\ u \in agenda'[shm'.sess[u].owner][i].U
        /\ \A x \in Slots :
              lsess'[x][u].st = "SRTP_READY" /\ shm'.sess[u].owner \in {NoSlot, x}
                => shm'.sess[u].ready
  BY <1>1, <1>3, <1>4 DEF Dropping
<1>6. ReadyInv' BY <1>1, <1>5, SkeletonReady
<1> QED BY <1>2, <1>6

(* An idle worker drops nothing; the others' agendas are their own. *)
LEMMA IdleDrops ==
    ASSUME Types, NEW w \in Slots, Idle(w), NEW s,
           agenda' = agenda \/ agenda' = [agenda EXCEPT ![w] = s]
    PROVE  \A x \in Slots, v \in Ufrags : Dropping(x, v) => Dropping(x, v)'
<1>1. \A x \in Slots : x # w => agenda'[x] = agenda[x] BY DEF Types
<1>2. \A u : ~Dropping(w, u) BY DEF Dropping, Idle
<1> QED BY <1>1, <1>2 DEF Dropping

LEMMA StunReady ==
    ASSUME IndInv, ReadyInv, NEW w \in Slots, NEW u \in Ufrags, Stun(w, u) \/ Dtls(w, u)
    PROVE  ReadyInv' /\ StillHeld
<1>0. Types BY DEF IndInv
<1>1. /\ Idle(w) /\ Has(w, u) /\ agenda' = agenda /\ crashes' = crashes
  BY DEF Stun, Dtls, Has, NoSession
<1>2. lsess[w][u].st \in States BY <1>0, <1>1, HasState
<1>3. PICK st : /\ lsess' = [lsess EXCEPT ![w][u] = Moved(lsess[w][u], st)]
                /\ shm' = SessionSetState(shm, u, w, st)
                /\ st \in States /\ (st = "SRTP_READY" <=> lsess[w][u].st = "SRTP_READY")
  <2>1. CASE Stun(w, u) BY <1>2, <2>1, OnStunState DEF Stun
  <2>2. CASE Dtls(w, u)
    <3> DEFINE d == "DTLS_HANDSHAKE"
    <3>1. d \in States /\ d # "SRTP_READY" /\ "ICE_BOUND" # "SRTP_READY" BY DEF States
    <3>2. /\ lsess' = [lsess EXCEPT ![w][u] = Moved(lsess[w][u], d)]
          /\ shm' = SessionSetState(shm, u, w, d) /\ lsess[w][u].st = "ICE_BOUND"
      BY <2>2 DEF Dtls
    <3> HIDE DEF d
    <3> QED BY <3>1, <3>2
  <2> QED BY <2>1, <2>2
<1>4. /\ lsess' \in [Slots -> [Ufrags -> LocalSession]]
      /\ lsess'[w][u].st = st /\ lsess'[w][u].name = lsess[w][u].name
      /\ lsess'[w][u].pub = lsess[w][u].pub
      /\ \A x \in Slots, v \in Ufrags : x # w \/ v # u => lsess'[x][v] = lsess[x][v]
      /\ \A x \in Slots : x # w => lsess'[x] = lsess[x]
  <2>1. st \in States /\ lsess' = [lsess EXCEPT ![w][u] = Moved(lsess[w][u], st)] BY <1>3
  <2> QED BY <1>0, <2>1, StateWritten, Zenon
<1>5. \A x \in Slots, v \in Ufrags : x # w \/ v # u => lsess'[x][v].st = lsess[x][v].st
  BY <1>4
<1>6. \A x \in Slots, v \in Ufrags : Dropping(x, v) => Dropping(x, v)'
  BY <1>1 DEF Dropping
<1> QED BY <1>1, <1>3, <1>4, <1>5, <1>6, StateReady

(* The handshake completes at the worker that may act on the skeleton, or   *)
(* at one that may not, and then nothing of the skeleton changes.           *)
LEMMA DoneReady ==
    ASSUME IndInv, ReadyInv, NEW w \in Slots, NEW u \in Ufrags, DtlsDone(w, u)
    PROVE  ReadyInv' /\ StillHeld
<1>0. Types /\ RegInv(shm) BY DEF IndInv, Types
<1>1. /\ Idle(w) /\ agenda' = agenda /\ crashes' = crashes
      /\ lsess' = [lsess EXCEPT ![w][u] = Moved(lsess[w][u], "SRTP_READY")]
      /\ shm' = SessionActivate(shm, u, w)
      /\ lsess[w][u].st = "DTLS_HANDSHAKE"
  BY DEF DtlsDone
<1>2. "SRTP_READY" \in States BY DEF States
<1>3. /\ lsess' \in [Slots -> [Ufrags -> LocalSession]]
      /\ lsess'[w][u].st = "SRTP_READY" /\ lsess'[w][u].name = lsess[w][u].name
      /\ lsess'[w][u].pub = lsess[w][u].pub
      /\ \A x \in Slots, v \in Ufrags : x # w \/ v # u => lsess'[x][v] = lsess[x][v]
      /\ \A x \in Slots : x # w => lsess'[x] = lsess[x]
  BY <1>0, <1>1, <1>2, StateWritten
<1>4. /\ \A v \in Ufrags : v # u => shm'.sess[v] = shm.sess[v]
      /\ shm'.sess[u].live = shm.sess[u].live
      /\ IF MayAct(shm, u, w)
         THEN shm'.sess[u].owner = w /\ shm'.sess[u].ready /\ shm'.sess[u].state = "SRTP_READY"
         ELSE shm'.sess[u] = shm.sess[u]
  BY <1>0, <1>1, ActivateSkeleton
<1>5. StillHeld BY <1>4 DEF StillHeld
<1>6. \A x \in Slots, v \in Ufrags : Dropping(x, v) => Dropping(x, v)'
  BY <1>1 DEF Dropping
<1>7. crashes = 0 /\ shm'.sess[u].live =>
        /\ shm'.sess[u].ready <=> shm'.sess[u].state = "SRTP_READY"
        /\ shm'.sess[u].ready => \/ lsess'[shm'.sess[u].owner][u].st = "SRTP_READY"
                                 \/ \E i \in DOMAIN agenda'[shm'.sess[u].owner] :
                                       /\ agenda'[shm'.sess[u].owner][i].op = "drop"
                                       /\ u \in agenda'[shm'.sess[u].owner][i].U
        /\ \A x \in Slots :
              lsess'[x][u].st = "SRTP_READY" /\ shm'.sess[u].owner \in {NoSlot, x}
                => shm'.sess[u].ready
  <2>1. CASE MayAct(shm, u, w) BY <1>3, <1>4, <2>1
  <2>2. CASE ~MayAct(shm, u, w)
    <3> SUFFICES ASSUME crashes = 0, shm.sess[u].live
                 PROVE  /\ shm.sess[u].ready <=> shm.sess[u].state = "SRTP_READY"
                        /\ shm.sess[u].ready =>
                             \/ lsess'[shm.sess[u].owner][u].st = "SRTP_READY"
                             \/ Dropping(shm.sess[u].owner, u)
                        /\ \A x \in Slots :
                             lsess'[x][u].st = "SRTP_READY" /\ shm.sess[u].owner \in {NoSlot, x}
                               => shm.sess[u].ready
      BY <1>1, <1>4, <2>2 DEF Dropping
    <3>1. shm.sess[u].owner # NoSlot /\ shm.sess[u].owner # w BY <2>2 DEF MayAct
    <3>2. /\ shm.sess[u].ready <=> shm.sess[u].state = "SRTP_READY"
          /\ shm.sess[u].ready => \/ lsess[shm.sess[u].owner][u].st = "SRTP_READY"
                                  \/ Dropping(shm.sess[u].owner, u)
          /\ \A x \in Slots : lsess[x][u].st = "SRTP_READY" /\ shm.sess[u].owner \in {NoSlot, x}
                => shm.sess[u].ready
      BY ReadyInvUnfolded
    <3>3. shm.sess[u].owner \in Slots BY <1>0, <3>1, ReadyOwned
    <3>4. lsess'[shm.sess[u].owner][u] = lsess[shm.sess[u].owner][u] BY <1>3, <3>1, <3>3
    <3> QED BY <1>3, <3>1, <3>2, <3>4
  <2> QED BY <2>1, <2>2
<1>8. \A x \in Slots, v \in Ufrags : v # u =>
        /\ lsess'[x][v].st = "SRTP_READY" => lsess[x][v].st = "SRTP_READY"
        /\ lsess[x][v].st = "SRTP_READY" => lsess'[x][v].st = "SRTP_READY"
        /\ Dropping(x, v) => Dropping(x, v)'
  BY <1>3, <1>6
<1>9. ReadyInv' BY <1>1, <1>4, <1>7, <1>8, SkeletonReady
<1> QED BY <1>5, <1>9

(* The worker that binds a skeleton rebuilds a session as ready as it. *)
LEMMA AttachReady ==
    ASSUME IndInv, ReadyInv, NEW w \in Slots, NEW u \in Ufrags, Attach(w, u)
    PROVE  ReadyInv' /\ StillHeld
<1>0. Types /\ RegInv(shm) BY DEF IndInv, Types
<1>1. PICK k : k = shm.sess[u] OBVIOUS
<1>2. PICK n : n = shm.src[k.src].name OBVIOUS
<1>3. k \in SkeletonType /\ n \in Names
  <2>1. RegInv(shm) BY <1>0
  <2> QED BY <1>1, <1>2, <2>1, SkeletonFields, Zenon
<1>4. /\ Idle(w) /\ MayAct(shm, u, w) /\ crashes' = crashes
      /\ shm' = SessionBind(shm, u, w)
      /\ lsess' = [lsess EXCEPT ![w][u] = Rebuilt(n, k)]
  BY <1>1, <1>2, Zenon DEF Attach
<1>5. PICK s : agenda' = [agenda EXCEPT ![w] = s] BY Zenon DEF Attach
<1>6. Rebuilt(n, k) \in LocalSession /\ (Rebuilt(n, k).st = "SRTP_READY" <=> k.ready)
  BY <1>3, RebuiltFields, Zenon
<1>7. /\ lsess' \in [Slots -> [Ufrags -> LocalSession]]
      /\ lsess'[w][u] = Rebuilt(n, k)
      /\ \A x \in Slots, v \in Ufrags : x # w \/ v # u => lsess'[x][v] = lsess[x][v]
      /\ \A x \in Slots : x # w => lsess'[x] = lsess[x]
  BY <1>0, <1>4, <1>6, SessionWritten
<1>8. /\ \A v \in Ufrags : v # u => shm'.sess[v] = shm.sess[v]
      /\ shm'.sess[u].live = shm.sess[u].live /\ shm'.sess[u].ready = shm.sess[u].ready
      /\ shm'.sess[u].state = shm.sess[u].state /\ shm'.sess[u].owner = w
  BY <1>0, <1>4, BindSkeleton
<1>9. StillHeld BY <1>8 DEF StillHeld
<1>10. \A x \in Slots, v \in Ufrags : Dropping(x, v) => Dropping(x, v)'
  BY <1>0, <1>4, <1>5, IdleDrops
<1>11. crashes = 0 /\ shm.sess[u].live => (shm.sess[u].ready <=> shm.sess[u].state = "SRTP_READY")
  BY ReadyInvUnfolded
<1>12. crashes = 0 /\ shm'.sess[u].live =>
        /\ shm'.sess[u].ready <=> shm'.sess[u].state = "SRTP_READY"
        /\ shm'.sess[u].ready => \/ lsess'[shm'.sess[u].owner][u].st = "SRTP_READY"
                                 \/ \E i \in DOMAIN agenda'[shm'.sess[u].owner] :
                                       /\ agenda'[shm'.sess[u].owner][i].op = "drop"
                                       /\ u \in agenda'[shm'.sess[u].owner][i].U
        /\ \A x \in Slots :
              lsess'[x][u].st = "SRTP_READY" /\ shm'.sess[u].owner \in {NoSlot, x}
                => shm'.sess[u].ready
  BY <1>1, <1>6, <1>7, <1>8, <1>11, WorkerSlot
<1>13. \A x \in Slots, v \in Ufrags : v # u =>
        /\ lsess'[x][v].st = "SRTP_READY" => lsess[x][v].st = "SRTP_READY"
        /\ lsess[x][v].st = "SRTP_READY" => lsess'[x][v].st = "SRTP_READY"
        /\ Dropping(x, v) => Dropping(x, v)'
  BY <1>7, <1>10
<1>14. ReadyInv' BY <1>4, <1>8, <1>12, <1>13, SkeletonReady
<1> QED BY <1>9, <1>14

(* A worker that closes a session drops its skeleton next. *)
LEMMA CloseReady ==
    ASSUME IndInv, ReadyInv, NEW w \in Slots, NEW u \in Ufrags, CloseLocal(w, u),
           \A v : ~Dropping(w, v), NEW t \in Seq(Task),
           t = <<>> \/ \E b \in Task : b.op = "scan" /\ t = <<b>>,
           agenda' = [agenda EXCEPT ![w] = CloseCalls(w, u) \o t],
           UNCHANGED <<shm, issued, crashes>>
    PROVE  ReadyInv' /\ StillHeld
<1>0. Types BY DEF IndInv
<1>1. PICK s : s = CloseCalls(w, u) \o t OBVIOUS
<1>2. Closing(CloseCalls(w, u) \o t, w, u, t) BY <1>0, CloseCallsShape
<1>3. \E i \in DOMAIN s : s[i].op = "drop" /\ u \in s[i].U
  BY <1>1, <1>2 DEF Closing, Call
<1>4. agenda'[w] = s /\ \A x \in Slots : x # w => agenda'[x] = agenda[x]
  BY <1>0, <1>1 DEF Types
<1>5. Dropping(w, u)' BY <1>3, <1>4 DEF Dropping
<1>6. \A x \in Slots, v \in Ufrags : Dropping(x, v) => Dropping(x, v)'
  BY <1>4 DEF Dropping
<1>7. /\ lsrc' \in [Slots -> [Names -> LocalSource]]
      /\ lsess' \in [Slots -> [Ufrags -> LocalSession]]
      /\ lsess'[w][u] = AbsentSession
      /\ \A x \in Slots, v \in Ufrags : x # w \/ v # u => lsess'[x][v] = lsess[x][v]
      /\ \A x \in Slots : x # w => lsess'[x] = lsess[x]
  BY <1>0, CloseLocalStep
<1>8. lsess'[w][u].st # "SRTP_READY" BY <1>7, SessionTypes DEF NoSession
<1>9. \A x \in Slots, v \in Ufrags :
        /\ lsess'[x][v].st = "SRTP_READY" => lsess[x][v].st = "SRTP_READY"
        /\ lsess[x][v].st = "SRTP_READY" => lsess'[x][v].st = "SRTP_READY" \/ Dropping(x, v)'
        /\ Dropping(x, v) => Dropping(x, v)'
  BY <1>5, <1>6, <1>7, <1>8
<1>10. Quiet(shm, shm') BY QuietSame
<1> QED BY <1>9, <1>10, QuietReady

LEMMA HangupReady ==
    ASSUME IndInv, ReadyInv, NEW w \in Slots, NEW u \in Ufrags, Hangup(w, u)
    PROVE  ReadyInv' /\ StillHeld
<1>1. Types /\ <<>> \in Seq(Task) BY DEF IndInv
<1>2. CloseCalls(w, u) \in Seq(Task) BY <1>1, CloseCallsShape
<1>3. CloseCalls(w, u) \o <<>> = CloseCalls(w, u) BY <1>2, ConcatEmptySeq
<1>4. agenda' = [agenda EXCEPT ![w] = CloseCalls(w, u) \o <<>>] BY <1>3 DEF Hangup
<1>5. CloseLocal(w, u) /\ UNCHANGED <<shm, issued, crashes>> BY DEF Hangup
<1>6. \A v : ~Dropping(w, v) BY DEF Hangup, Idle, Dropping
<1> QED BY <1>1, <1>4, <1>5, <1>6, CloseReady

LEMMA WhipMediaReady ==
    ASSUME IndInv, ReadyInv, NEW w \in Slots, NEW u \in Ufrags, WhipMedia(w, u)
    PROVE  ReadyInv' /\ StillHeld
<1>0. Types BY DEF IndInv
<1>1. PICK n : n = lsess[w][u].name OBVIOUS
<1>2. n \in Names BY <1>0, <1>1 DEF Types, LocalSession
<1>3. /\ Idle(w) /\ agenda' = agenda /\ crashes' = crashes
      /\ lsess' = [lsess EXCEPT ![w][u].idle = 0]
      /\ shm' = shm \/ shm' = TryPublish(shm, n, "whip")
  BY <1>1 DEF WhipMedia
<1>4. \A x \in Slots, v \in Ufrags : lsess'[x][v].st = lsess[x][v].st
  <2>1. \A x \in Slots, v \in Ufrags : lsess[x][v] \in LocalSession BY <1>0 DEF Types
  <2> QED BY <1>0, <1>3, <2>1 DEF Types, LocalSession
<1>5. Quiet(shm, shm') BY <1>2, <1>3, QuietSame, TryQuiet DEF Kinds
<1> QED BY <1>3, <1>4, <1>5, StartReady

LEMMA MediaPlaneReady ==
    ASSUME IndInv, ReadyInv, NEW w \in Slots, MediaPlane(w) PROVE ReadyInv' /\ StillHeld
BY StunReady, AttachReady, DoneReady, HangupReady, WhipMediaReady DEF MediaPlane

-----------------------------------------------------------------------------
(* The locked calls of a handler, again *)

(* Only the reaper and a close have skeletons to drop. *)
LEMMA DropsBehind ==
    ASSUME IndInv, NEW w \in Slots, NEW a, At(w, a),
           a.op \notin {"release", "remove", "drop"}
    PROVE  \A v : ~Dropping(w, v)
<1>1. /\ agenda[w] \in Seq(Task) /\ 1 \in DOMAIN agenda[w] /\ a = agenda[w][1]
      /\ Shape(agenda[w])
  BY CallAt
<1>2. ASSUME NEW i \in DOMAIN agenda[w], agenda[w][i].op = "drop" PROVE FALSE
  <2>1. a.op \in {"release", "remove", "drop", "scan"} BY <1>1, <1>2 DEF Shape
  <2>2. a.op = "scan" BY <2>1
  <2>3. i <= 1 BY <1>1, <1>2, <2>2 DEF Shape
  <2>4. i = 1 BY <1>1, <2>3
  <2> QED BY <1>1, <1>2, <2>2, <2>4
<1> QED BY <1>2 DEF Dropping

(* A call made takes no other off the agenda. *)
LEMMA TailDrops ==
    ASSUME IndInv, NEW w \in Slots, NEW a, At(w, a), Continue(w)
    PROVE  \A x \in Slots, v \in Ufrags :
             Dropping(x, v) /\ (x = w /\ a.op = "drop" => v \notin a.U) => Dropping(x, v)'
<1>0. Types BY DEF IndInv
<1>1. /\ agenda[w] \in Seq(Task) /\ agenda[w] # <<>> /\ a = agenda[w][1] BY CallAt
<1>2. PICK s : s = Tail(agenda[w]) OBVIOUS
<1>3. /\ s \in Seq(Task)
      /\ \A i \in DOMAIN s : i + 1 \in DOMAIN agenda[w] /\ s[i] = agenda[w][i + 1]
      /\ \A i \in DOMAIN agenda[w] : i = 1 \/ i - 1 \in DOMAIN s
  BY <1>1, <1>2, TailAt
<1>4. agenda'[w] = s /\ \A x \in Slots : x # w => agenda'[x] = agenda[x]
  BY <1>0, <1>2 DEF Types, Continue
<1>5. ASSUME NEW v \in Ufrags, Dropping(w, v), a.op = "drop" => v \notin a.U
      PROVE  Dropping(w, v)'
  <2>1. PICK i \in DOMAIN agenda[w] : agenda[w][i].op = "drop" /\ v \in agenda[w][i].U
    BY <1>5 DEF Dropping
  <2>2. i # 1 BY <1>1, <1>5, <2>1
  <2>3. i \in Int BY <1>1
  <2>4. PICK j : j = i - 1 OBVIOUS
  <2>5. j \in DOMAIN s /\ j + 1 = i BY <1>3, <2>2, <2>3, <2>4
  <2>6. s[j] = agenda[w][i] BY <1>3, <2>5
  <2> QED BY <1>4, <2>1, <2>5, <2>6 DEF Dropping
<1> QED BY <1>4, <1>5 DEF Dropping

(* Calls that touch no skeleton, or only reap. *)
LEMMA QuietCallReady ==
    ASSUME IndInv, ReadyInv, NEW w \in Slots, NEW a, At(w, a),
           \/ CachePointer(w, a) \/ MirrorClaim(w, a)
           \/ RecordSlot(w, a) \/ ReleaseClaim(w, a) \/ RemoveSource(w, a),
           a.op # "drop"
    PROVE  ReadyInv' /\ StillHeld
<1>0. Types /\ RegInv(shm) BY DEF IndInv, Types
<1>1. a.n \in Names /\ a.kind \in Kinds BY CallAt
<1>2. Continue(w) /\ lsess' = lsess /\ crashes' = crashes
  BY DEF CachePointer, MirrorClaim, RecordSlot, ReleaseClaim, RemoveSource
<1>3. Quiet(shm, shm')
  <2>1. CASE CachePointer(w, a) \/ MirrorClaim(w, a)
    BY <1>0, <1>1, <2>1, GetQuiet DEF CachePointer, MirrorClaim
  <2>2. CASE RecordSlot(w, a)
    <3>1. PICK c : c = lsrc[w][a.n].ptr OBVIOUS
    <3>2. c \in Cells \/ c = NoCell BY <1>0, <1>1, <3>1 DEF Types, LocalSource, Pointers
    <3>3. shm' = IF c = NoCell THEN shm ELSE Heartbeat(SetPublisherSlot(shm, c, w), c)
      BY <2>2, <3>1 DEF RecordSlot
    <3>4. CASE shm' = shm BY <3>4, QuietSame
    <3>5. CASE c \in Cells /\ shm' = Heartbeat(SetPublisherSlot(shm, c, w), c)
      BY <1>0, <3>5, CalledQuiet
    <3> QED BY <3>2, <3>3, <3>4, <3>5
  <2>3. CASE ReleaseClaim(w, a) BY <1>0, <1>1, <2>3, CalledQuiet DEF ReleaseClaim
  <2>4. CASE RemoveSource(w, a) BY <1>0, <1>1, <2>4, CalledQuiet DEF RemoveSource
  <2> QED BY <2>1, <2>2, <2>3, <2>4
<1>4. \A x \in Slots, v \in Ufrags : Dropping(x, v) => Dropping(x, v)'
  BY <1>2, TailDrops
<1> QED BY <1>2, <1>3, <1>4, QuietReady

LEMMA WhipSourceReady ==
    ASSUME IndInv, ReadyInv, NEW w \in Slots, NEW a, At(w, a), a.op = "get", WhipSource(w, a)
    PROVE  ReadyInv' /\ StillHeld
<1>0. Types /\ RegInv(shm) BY DEF IndInv, Types
<1>1. a.n \in Names BY CallAt
<1>2. Quiet(shm, shm') /\ lsess' = lsess /\ crashes' = crashes
  BY <1>0, <1>1, GetQuiet DEF WhipSource
<1>3. PICK s : agenda' = [agenda EXCEPT ![w] = s] BY DEF WhipSource
<1>4. \A x \in Slots : x # w => agenda'[x] = agenda[x] BY <1>0, <1>3 DEF Types
<1>5. \A v : ~Dropping(w, v) BY DropsBehind
<1>6. \A x \in Slots, v \in Ufrags : Dropping(x, v) => Dropping(x, v)'
  BY <1>4, <1>5 DEF Dropping
<1> QED BY <1>2, <1>6, QuietReady

LEMMA PublishStateReady ==
    ASSUME IndInv, ReadyInv, NEW w \in Slots, NEW a, At(w, a), a.op = "state",
           PublishState(w, a)
    PROVE  ReadyInv' /\ StillHeld
<1>0. Types BY DEF IndInv
<1>1. a.U \subseteq Ufrags /\ Backed(w, a) BY CallAt
<1>2. PICK u \in a.U : /\ lsess' = [lsess EXCEPT ![w][u].st = OnStun(lsess[w][u].st)]
                       /\ shm' = SessionSetState(shm, u, w, OnStun(lsess[w][u].st))
  BY DEF PublishState
<1>3. Continue(w) /\ crashes' = crashes BY DEF PublishState
<1>4. PICK st : st = OnStun(lsess[w][u].st) OBVIOUS
<1>5. u \in Ufrags /\ Has(w, u) BY <1>1 DEF Backed
<1>6. st \in States /\ (st = "SRTP_READY" <=> lsess[w][u].st = "SRTP_READY")
  <2>1. lsess[w][u].st \in States BY <1>0, <1>5, HasState
  <2> QED BY <1>4, <2>1, OnStunState
<1>7. /\ lsess'[w][u].st = st
      /\ \A x \in Slots, v \in Ufrags : x # w \/ v # u => lsess'[x][v].st = lsess[x][v].st
  <2>1. PICK k : k = [lsess[w][u] EXCEPT !.st = st] OBVIOUS
  <2>2. lsess[w][u] \in LocalSession BY <1>0, <1>5 DEF Types
  <2>3. k \in LocalSession /\ k.st = st BY <1>6, <2>1, <2>2 DEF LocalSession
  <2>4. lsess' = [lsess EXCEPT ![w][u] = k] BY <1>2, <1>4, <2>1
  <2>5. /\ lsess' \in [Slots -> [Ufrags -> LocalSession]]
        /\ lsess'[w][u] = k
        /\ \A x \in Slots, v \in Ufrags : x # w \/ v # u => lsess'[x][v] = lsess[x][v]
        /\ \A x \in Slots : x # w => lsess'[x] = lsess[x]
    BY <1>0, <1>5, <2>3, <2>4, SessionWritten
  <2> QED BY <2>3, <2>5
<1>8. \A x \in Slots, v \in Ufrags : Dropping(x, v) => Dropping(x, v)'
  BY <1>3, TailDrops
<1>9. shm' = SessionSetState(shm, u, w, st) BY <1>2, <1>4
<1> QED BY <1>3, <1>5, <1>6, <1>7, <1>8, <1>9, StateReady

(* A skeleton is added for a session that is not ready anywhere. *)
LEMMA AddSkeletonReady ==
    ASSUME IndInv, ReadyInv, NEW w \in Slots, NEW a, At(w, a), a.op = "add",
           AddSkeleton(w, a)
    PROVE  ReadyInv' /\ StillHeld
<1>0. Types /\ RegInv(shm) BY DEF IndInv, Types
<1>1. Continue(w) /\ lsess' = lsess /\ crashes' = crashes BY DEF AddSkeleton
<1>2. PICK u \in Ufrags, n \in Names, pub \in BOOLEAN :
        /\ u \notin issued /\ issued' = issued \cup {u}
        /\ shm' \in SessionAdd(shm, u, n, pub)
        /\ \A x \in Slots : lsess[x][u].st \in {"NEW", NoSession}
  BY AddSkeletonStep DEF Drawn
<1>3. ~shm.sess[u].live BY <1>0, <1>2 DEF Types
<1>4. PICK Q : /\ Quiet(shm, Q) /\ RegInv(shm')
               /\ \A v \in Ufrags : v # u => shm'.sess[v] = Q.sess[v]
               /\ shm'.sess[u].live =>
                    /\ ~shm'.sess[u].ready /\ shm'.sess[u].state = "NEW"
                    /\ shm'.sess[u].owner = NoSlot /\ shm'.sess[u].pub = pub
  BY <1>0, <1>2, <1>3, AddSkeletons
<1>5. StillHeld
  <2> SUFFICES ASSUME NEW v \in Ufrags, NEW x \in Slots,
                      shm.sess[v].live, shm.sess[v].owner = x, ~shm'.sess[v].live
               PROVE  FALSE
    BY DEF StillHeld
  <2>1. v # u BY <1>3
  <2> QED BY <1>4, <2>1, WorkerSlot DEF Quiet
<1>6. \A v \in Ufrags : v # u /\ shm'.sess[v].live =>
        /\ shm.sess[v].live /\ shm'.sess[v].owner = shm.sess[v].owner
        /\ shm'.sess[v].ready = shm.sess[v].ready /\ shm'.sess[v].state = shm.sess[v].state
  BY <1>4 DEF Quiet
<1>7. \A x \in Slots, v \in Ufrags : Dropping(x, v) => Dropping(x, v)'
  BY <1>1, TailDrops
<1>8. \A x \in Slots : lsess'[x][u].st # "SRTP_READY" BY <1>1, <1>2 DEF NoSession
<1>9. "NEW" # "SRTP_READY" OBVIOUS
<1>10. ReadyInv' BY <1>1, <1>4, <1>6, <1>7, <1>8, <1>9, SkeletonReady
<1> QED BY <1>5, <1>10

(* Only the owner of a skeleton, or anybody while it has none, drops it. *)
LEMMA DropSkeletonReady ==
    ASSUME IndInv, ReadyInv, NEW w \in Slots, NEW a, At(w, a), a.op = "drop",
           DropSkeleton(w, a)
    PROVE  ReadyInv' /\ StillHeld
<1>0. Types /\ RegInv(shm) BY DEF IndInv, Types
<1>1. /\ a.U \subseteq Ufrags /\ Backed(w, a) /\ 1 \in DOMAIN agenda[w]
      /\ a = agenda[w][1] /\ Shape(agenda[w])
  BY CallAt
<1>2. PICK u \in a.U : shm' = SessionRemoveIfOwner(shm, u, w) BY DEF DropSkeleton
<1>3. Continue(w) /\ lsess' = lsess /\ crashes' = crashes BY DEF DropSkeleton
<1>4. u \in Ufrags /\ ~Has(w, u) /\ \A v \in a.U : v = u
  BY <1>1 DEF Backed, Shape
<1>5. /\ \A v \in Ufrags : v # u => shm'.sess[v] = shm.sess[v]
      /\ IF MayAct(shm, u, w) THEN ~shm'.sess[u].live ELSE shm'.sess[u] = shm.sess[u]
  BY <1>0, <1>2, <1>4, RemoveSkeleton
<1>6. StillHeld
  <2> SUFFICES ASSUME NEW v \in Ufrags, NEW x \in Slots,
                      shm.sess[v].live, shm.sess[v].owner = x, ~shm'.sess[v].live
               PROVE  ~Has(x, v)
    BY DEF StillHeld
  <2>1. v = u /\ MayAct(shm, u, w) BY <1>5
  <2>2. x = w BY <2>1, WorkerSlot DEF MayAct
  <2> QED BY <1>4, <2>1, <2>2
<1>7. \A x \in Slots, v \in Ufrags : Dropping(x, v) /\ (x = w => v # u) => Dropping(x, v)'
  BY <1>3, <1>4, TailDrops
<1>8. ASSUME crashes = 0, shm'.sess[u].live
      PROVE  /\ shm'.sess[u].ready <=> shm'.sess[u].state = "SRTP_READY"
             /\ shm'.sess[u].ready => \/ lsess'[shm'.sess[u].owner][u].st = "SRTP_READY"
                                      \/ Dropping(shm.sess[u].owner, u)'
             /\ \A x \in Slots :
                   lsess'[x][u].st = "SRTP_READY" /\ shm'.sess[u].owner \in {NoSlot, x}
                     => shm'.sess[u].ready
  <2>1. shm'.sess[u] = shm.sess[u] /\ ~MayAct(shm, u, w) BY <1>5, <1>8
  <2>2. PICK o : o = shm.sess[u].owner OBVIOUS
  <2>3. o \in Slots /\ o # w
    <3>1. o # NoSlot /\ o # w BY <1>8, <2>1, <2>2 DEF MayAct
    <3> QED BY <1>0, <1>4, <2>2, <3>1, ReadyOwned
  <2>4. /\ shm.sess[u].ready <=> shm.sess[u].state = "SRTP_READY"
        /\ shm.sess[u].ready => lsess[o][u].st = "SRTP_READY" \/ Dropping(o, u)
        /\ \A x \in Slots : lsess[x][u].st = "SRTP_READY" /\ o \in {NoSlot, x}
              => shm.sess[u].ready
    BY <1>4, <1>8, <2>1, <2>2, ReadyInvUnfolded
  <2>5. Dropping(o, u) => Dropping(o, u)' BY <1>4, <1>7, <2>3
  <2>6. Dropping(o, u)' => Dropping(shm.sess[u].owner, u)' BY <2>1, <2>2 DEF Dropping
  <2> QED BY <1>3, <2>1, <2>2, <2>4, <2>5, <2>6
<1>9. \A v \in Ufrags : v # u /\ shm'.sess[v].live =>
        /\ shm.sess[v].live /\ shm'.sess[v].owner = shm.sess[v].owner
        /\ shm'.sess[v].ready = shm.sess[v].ready /\ shm'.sess[v].state = shm.sess[v].state
  BY <1>5
<1>10. crashes = 0 /\ shm'.sess[u].live =>
        /\ shm'.sess[u].ready <=> shm'.sess[u].state = "SRTP_READY"
        /\ shm'.sess[u].ready => \/ lsess'[shm'.sess[u].owner][u].st = "SRTP_READY"
                                 \/ \E i \in DOMAIN agenda'[shm'.sess[u].owner] :
                                       /\ agenda'[shm'.sess[u].owner][i].op = "drop"
                                       /\ u \in agenda'[shm'.sess[u].owner][i].U
        /\ \A x \in Slots :
              lsess'[x][u].st = "SRTP_READY" /\ shm'.sess[u].owner \in {NoSlot, x}
                => shm'.sess[u].ready
  BY <1>8 DEF Dropping
<1>11. \A x \in Slots, v \in Ufrags : v # u =>
        /\ lsess'[x][v].st = "SRTP_READY" => lsess[x][v].st = "SRTP_READY"
        /\ lsess[x][v].st = "SRTP_READY" => lsess'[x][v].st = "SRTP_READY"
        /\ Dropping(x, v) => Dropping(x, v)'
  BY <1>3, <1>7
<1>12. ReadyInv' BY <1>3, <1>4, <1>9, <1>10, <1>11, SkeletonReady
<1> QED BY <1>6, <1>12

LEMMA ScanSessionReady ==
    ASSUME IndInv, ReadyInv, NEW w \in Slots, NEW a, At(w, a), a.op = "scan",
           ScanSession(w, a)
    PROVE  ReadyInv' /\ StillHeld
<1>0. Types BY DEF IndInv
<1>1. a.n \in Names /\ a.kind \in Kinds /\ a.U \subseteq Ufrags BY CallAt
<1>2. PICK u \in a.U :
        LET rest == IF a.U = {u} THEN <<>> ELSE <<Call("scan", a.n, a.kind, a.U \ {u})>>
        IN  /\ \/ /\ CloseLocal(w, u)
                  /\ agenda' = [agenda EXCEPT ![w] = CloseCalls(w, u) \o rest]
               \/ /\ agenda' = [agenda EXCEPT ![w] = rest]
                  /\ UNCHANGED <<lsrc, lsess>>
            /\ UNCHANGED <<shm, issued, crashes>>
  BY DEF ScanSession
<1>3. u \in Ufrags BY <1>1
<1> DEFINE b == Call("scan", a.n, a.kind, a.U \ {u})
           t == IF a.U = {u} THEN <<>> ELSE <<b>>
<1>4. b \in Task /\ b.op = "scan" BY <1>1, CallTask
<1> HIDE DEF b
<1>5. t \in Seq(Task) /\ (t = <<>> \/ \E e \in Task : e.op = "scan" /\ t = <<e>>)
  BY <1>4
<1>6. /\ \/ CloseLocal(w, u) /\ agenda' = [agenda EXCEPT ![w] = CloseCalls(w, u) \o t]
         \/ agenda' = [agenda EXCEPT ![w] = t] /\ UNCHANGED <<lsrc, lsess>>
      /\ UNCHANGED <<shm, issued, crashes>>
  BY <1>2 DEF b
<1> HIDE DEF t
<1>7. \A v : ~Dropping(w, v) BY DropsBehind
<1>8. CASE CloseLocal(w, u) /\ agenda' = [agenda EXCEPT ![w] = CloseCalls(w, u) \o t]
  BY <1>3, <1>5, <1>6, <1>7, <1>8, CloseReady
<1>9. CASE agenda' = [agenda EXCEPT ![w] = t] /\ UNCHANGED <<lsrc, lsess>>
  <2>1. \A x \in Slots : x # w => agenda'[x] = agenda[x] BY <1>0, <1>9 DEF Types
  <2>2. \A x \in Slots, v \in Ufrags : Dropping(x, v) => Dropping(x, v)'
    BY <1>7, <2>1 DEF Dropping
  <2>3. Quiet(shm, shm') /\ lsess' = lsess /\ crashes' = crashes BY <1>6, <1>9, QuietSame
  <2> QED BY <2>2, <2>3, QuietReady
<1> QED BY <1>6, <1>8, <1>9

LEMMA ResumeReady ==
    ASSUME IndInv, ReadyInv, NEW w \in Slots, Resume(w) PROVE ReadyInv' /\ StillHeld
<1>1. PICK a : a = Head(agenda[w]) OBVIOUS
<1>2. At(w, a) BY <1>1 DEF Resume, At
<1>3. \/ /\ \/ CachePointer(w, a) \/ MirrorClaim(w, a)
            \/ RecordSlot(w, a) \/ ReleaseClaim(w, a) \/ RemoveSource(w, a)
         /\ a.op # "drop"
      \/ a.op = "get" /\ WhipSource(w, a)
      \/ a.op = "add" /\ AddSkeleton(w, a)
      \/ a.op = "state" /\ PublishState(w, a)
      \/ a.op = "drop" /\ DropSkeleton(w, a)
      \/ a.op = "scan" /\ ScanSession(w, a)
  BY <1>1 DEF Resume
<1> QED
  BY <1>2, <1>3, QuietCallReady, WhipSourceReady, AddSkeletonReady, PublishStateReady,
     DropSkeletonReady, ScanSessionReady

LEMMA CrashReady ==
    ASSUME IndInv, ReadyInv, NEW w \in Slots, Crash(w) PROVE ReadyInv' /\ StillHeld
<1>1. shm' = shm /\ crashes' = crashes + 1 /\ crashes \in Nat BY DEF Crash, IndInv, Types
<1>2. crashes' # 0 BY <1>1
<1>3. ReadyInv' BY <1>2, ReadyInvFolded
<1> QED BY <1>1, <1>3 DEF StillHeld

LEMMA ReadyStep == ASSUME IndInv, ReadyInv, [Next]_vars PROVE ReadyInv' /\ StillHeld
<1>1. CASE UNCHANGED vars
  <2>1. \A x \in Slots, u \in Ufrags : Dropping(x, u) => Dropping(x, u)'
    BY <1>1 DEF vars, Dropping
  <2> QED BY <1>1, <2>1, QuietSame, QuietReady DEF vars
<1>2. ASSUME NEW w \in Slots,
             Signalling(w) \/ MediaPlane(w) \/ Ingest(w) \/ Reap(w) \/ Resume(w) \/ Crash(w)
      PROVE  ReadyInv' /\ StillHeld
  BY <1>2, SignallingReady, MediaPlaneReady, IngestReady, ReapReady, ResumeReady, CrashReady
<1>3. CASE Admin \/ Tick BY <1>3, OutsideReady
<1> QED BY <1>1, <1>2, <1>3 DEF Next

LEMMA ReadyInitially == ASSUME Init PROVE ReadyInv
<1>1. shm = EmptyZone BY DEF Init
<1>2. \A u \in Ufrags : ~shm.sess[u].live BY <1>1, EmptyZoneInv
<1> QED BY <1>2 DEF ReadyInv

(* While no worker has died, a skeleton that media is sent to says          *)
(* SRTP_READY and belongs to a worker that still has the ready session or   *)
(* has closed it and is about to drop the skeleton; for any number of       *)
(* workers racing over a ufrag with STUN, DTLS, attach, kick and reap       *)
(* (RtcWorkers!ReadyHasMedia).                                              *)
THEOREM ReadyMediaHeld == Spec => []ReadyHasMedia
<1>1. Init => IndInv /\ ReadyInv BY Initially, ReadyInitially
<1>2. IndInv /\ ReadyInv /\ [Next]_vars => IndInv' /\ ReadyInv'
  BY NextStep, Stutter, ReadyStep
<1>3. ReadyInv => ReadyHasMedia BY DEF ReadyInv, ReadyHasMedia
<1> QED BY <1>1, <1>2, <1>3, PTL DEF Spec

(* A bound skeleton disappears only when its owner no longer has the        *)
(* session, crashes included: no reap pass, forced reap or other worker's   *)
(* close takes a live session away (RtcWorkers!FreedByOwner).               *)
THEOREM OwnerFrees == Spec => FreedByOwner
<1>1. Init => IndInv /\ ReadyInv BY Initially, ReadyInitially
<1>2. IndInv /\ ReadyInv /\ [Next]_vars => IndInv' /\ ReadyInv'
  BY NextStep, Stutter, ReadyStep
<1>3. IndInv /\ ReadyInv /\ [Next]_vars =>
        [\A u \in Ufrags, w \in Slots :
           /\ shm.sess[u].live /\ shm.sess[u].owner = w
           /\ ~shm'.sess[u].live
           => ~Has(w, u)]_vars
  BY ReadyStep DEF StillHeld
<1> QED BY <1>1, <1>2, <1>3, PTL DEF Spec, FreedByOwner

-----------------------------------------------------------------------------
(* Process-local sources *)

LEMMA HeldElsewhere ==
    ASSUME NEW w, Held(w), lsrc'[w] = lsrc[w], lsess'[w] = lsess[w], agenda'[w] = agenda[w]
    PROVE  Held(w)'
BY DEF Held, Holders, Has

(* A session that opens, or closes, changes the holders of its source only. *)
LEMMA OtherHolders ==
    ASSUME NEW w, NEW u \in Ufrags, NEW m,
           \A v \in Ufrags : v # u => lsess'[w][v] = lsess[w][v],
           Has(w, u) => lsess[w][u].name # m, Has(w, u)' => lsess'[w][u].name # m
    PROVE  Holders(w, m)' = Holders(w, m)
BY DEF Holders, Has

(* A step of w that publishes nothing and opens or closes no session, and   *)
(* leaves the agenda s.                                                     *)
Steady(w, s) ==
    /\ agenda' = [agenda EXCEPT ![w] = s]
    /\ \A i \in DOMAIN s : s[i].op = "mirror" => \E j \in DOMAIN agenda[w] : s[i] = agenda[w][j]
    /\ \A x \in Slots : x # w => lsrc'[x] = lsrc[x] /\ lsess'[x] = lsess[x]
    /\ \A n \in Names : /\ lsrc'[w][n].here = lsrc[w][n].here
                        /\ lsrc'[w][n].kind = lsrc[w][n].kind
    /\ \A u \in Ufrags : /\ Has(w, u)' <=> Has(w, u)
                         /\ lsess'[w][u].name = lsess[w][u].name

LEMMA HeldKept ==
    ASSUME Types, NEW w \in Slots, Held(w), NEW s, Steady(w, s) PROVE Held(w)'
<1>0. agenda'[w] = s BY DEF Types, Steady
<1>1. \A n : Holders(w, n)' = Holders(w, n)
  <2>1. \A u \in Ufrags : /\ Has(w, u)' <=> Has(w, u)
                          /\ lsess'[w][u].name = lsess[w][u].name
    BY DEF Steady
  <2> QED BY <2>1 DEF Holders
<1>2. \A n \in Names : (/\ lsrc[w][n].here <=> lsrc[w][n].kind # "none" \/ Holders(w, n) # {}
                        /\ lsrc[w][n].kind = "whip" => Holders(w, n) # {})'
  BY <1>1 DEF Held, Steady
<1>3. ASSUME NEW i \in DOMAIN agenda'[w], agenda'[w][i].op = "mirror"
      PROVE  (Holders(w, agenda[w][i].n) # {})'
  <2>1. PICK j \in DOMAIN agenda[w] : agenda'[w][i] = agenda[w][j] BY <1>0, <1>3 DEF Steady
  <2>2. PICK n : n = agenda[w][j].n OBVIOUS
  <2>3. Holders(w, n) # {} BY <1>3, <2>1, <2>2 DEF Held
  <2>4. Holders(w, n)' # {} BY <1>1, <2>3
  <2> QED BY <2>1, <2>2, <2>4 DEF Holders, Has
<1> QED BY <1>2, <1>3 DEF Held

(* A step of w on its source n. *)
LEMMA HeldAt ==
    ASSUME NEW w, Held(w), NEW n \in Names,
           \A m \in Names : m # n => /\ lsrc'[w][m] = lsrc[w][m]
                                     /\ Holders(w, m)' = Holders(w, m),
           lsrc'[w][n].here <=> lsrc'[w][n].kind # "none" \/ Holders(w, n)' # {},
           lsrc'[w][n].kind = "whip" => Holders(w, n)' # {},
           \A i \in DOMAIN agenda'[w] : agenda'[w][i].op = "mirror" =>
             agenda'[w][i].n = n /\ Holders(w, n)' # {}
    PROVE  Held(w)'
<1>1. \A m \in Names : (/\ lsrc[w][m].here <=> lsrc[w][m].kind # "none" \/ Holders(w, m) # {}
                        /\ lsrc[w][m].kind = "whip" => Holders(w, m) # {})'
  <2> TAKE m \in Names
  <2>1. CASE m = n BY <2>1
  <2>2. CASE m # n BY <2>2 DEF Held
  <2> QED BY <2>1, <2>2
<1>2. ASSUME NEW i \in DOMAIN agenda'[w], agenda'[w][i].op = "mirror"
      PROVE  (Holders(w, agenda[w][i].n) # {})'
  BY <1>2 DEF Holders, Has
<1> QED BY <1>1, <1>2 DEF Held

(* The other workers' sources are their own. *)
LEMMA WorkerHeld ==
    ASSUME Types, SourceInv, NEW w \in Slots, Held(w)',
           \A x \in Slots : x # w => /\ lsrc'[x] = lsrc[x] /\ lsess'[x] = lsess[x]
                                     /\ agenda'[x] = agenda[x]
    PROVE  SourceInv'
<1>1. ASSUME NEW x \in Slots PROVE Held(x)'
  <2>1. CASE x = w BY <2>1
  <2>2. CASE x # w BY <2>2, HeldElsewhere DEF SourceInv
  <2> QED BY <2>1, <2>2
<1> QED BY <1>1 DEF SourceInv

LEMMA SourceFields ==
    \A s \in LocalSource :
      /\ Created(s).here /\ Created(s).kind = IF s.here THEN s.kind ELSE "none"
      /\ Cleared(s).here = s.here /\ Cleared(s).kind = "none"
      /\ \A k \in Kinds : Claimed(s, k).here /\ Claimed(s, k).kind = k
      /\ \A c \in Pointers : /\ Cached(s, c).here = s.here /\ Cached(s, c).kind = s.kind
                             /\ Mirrored(s, c).here = s.here /\ Mirrored(s, c).kind = "whip"
      /\ \A H : IF s.kind = "none" /\ H = {}
                THEN ~Removed(s, H).here /\ Removed(s, H).kind = "none"
                ELSE Removed(s, H) = s
<1> TAKE s \in LocalSource
<1>1. AbsentSource \in LocalSource /\ ~AbsentSource.here /\ AbsentSource.kind = "none"
  BY SourceTypes DEF AbsentSource
<1>2. Created(s) \in LocalSource BY SourceTypes
<1>3. Created(s).here /\ Created(s).kind = IF s.here THEN s.kind ELSE "none"
  BY <1>1 DEF Created, LocalSource
<1>4. Cleared(s).here = s.here /\ Cleared(s).kind = "none" BY DEF Cleared, LocalSource
<1>5. \A k \in Kinds : Claimed(s, k).here /\ Claimed(s, k).kind = k
  BY <1>2, <1>3 DEF Claimed, LocalSource
<1>6. ASSUME NEW c \in Pointers
      PROVE  /\ Cached(s, c).here = s.here /\ Cached(s, c).kind = s.kind
             /\ Mirrored(s, c).here = s.here /\ Mirrored(s, c).kind = "whip"
  <2>1. Cached(s, c) \in LocalSource BY SourceTypes
  <2>2. Cached(s, c).here = s.here /\ Cached(s, c).kind = s.kind BY DEF Cached, LocalSource
  <2> QED BY <2>1, <2>2 DEF Mirrored, LocalSource
<1>7. \A H : IF s.kind = "none" /\ H = {}
             THEN ~Removed(s, H).here /\ Removed(s, H).kind = "none"
             ELSE Removed(s, H) = s
  BY <1>1 DEF Removed, HeldBy
<1> QED BY <1>3, <1>4, <1>5, <1>6, <1>7

(* No claim is mirrored from this agenda. *)
NoMirror(s) == s \in Seq(Task) /\ \A i \in DOMAIN s : s[i].op # "mirror"

LEMMA NoMirrorJoined ==
    ASSUME NEW s, NEW t, NoMirror(s), NoMirror(t) PROVE NoMirror(s \o t)
<1>1. s \in Seq(Task) /\ t \in Seq(Task) BY DEF NoMirror
<1>2. /\ s \o t \in Seq(Task) /\ Len(s \o t) = Len(s) + Len(t)
      /\ \A i \in 1..(Len(s) + Len(t)) : (s \o t)[i] = IF i <= Len(s) THEN s[i] ELSE t[i - Len(s)]
  BY <1>1, ConcatProperties
<1>3. ASSUME NEW i \in DOMAIN (s \o t) PROVE (s \o t)[i].op # "mirror"
  <2>1. Len(s) \in Nat /\ Len(t) \in Nat BY <1>1
  <2>2. i \in 1..(Len(s) + Len(t)) BY <1>2
  <2>3. CASE i <= Len(s)
    <3>1. i \in DOMAIN s BY <1>1, <2>1, <2>2, <2>3
    <3> QED BY <1>2, <2>2, <2>3, <3>1 DEF NoMirror
  <2>4. CASE ~(i <= Len(s))
    <3>1. i - Len(s) \in DOMAIN t BY <1>1, <2>1, <2>2, <2>4
    <3> QED BY <1>2, <2>2, <2>4, <3>1 DEF NoMirror
  <2> QED BY <2>3, <2>4
<1> QED BY <1>2, <1>3 DEF NoMirror

LEMMA NoMirrorShort ==
    /\ NoMirror(<<>>)
    /\ \A a \in Task : a.op # "mirror" => NoMirror(<<a>>)
    /\ \A a, b \in Task : a.op # "mirror" /\ b.op # "mirror" => NoMirror(<<a, b>>)
<1>1. NoMirror(<<>>) BY DEF NoMirror
<1>2. ASSUME NEW a \in Task, a.op # "mirror" PROVE NoMirror(<<a>>) BY <1>2 DEF NoMirror
<1>3. ASSUME NEW a \in Task, NEW b \in Task, a.op # "mirror", b.op # "mirror"
      PROVE  NoMirror(<<a, b>>)
  BY <1>3 DEF NoMirror
<1> QED BY <1>1, <1>2, <1>3

(* A handler's first step that leaves the sessions alone. *)
LEMMA OpenHeld ==
    ASSUME IndInv, SourceInv, NEW w \in Slots, NEW n \in Names, NEW l,
           lsrc' = [lsrc EXCEPT ![w][n] = l], lsess' = lsess,
           NEW s, NoMirror(s), agenda' = [agenda EXCEPT ![w] = s],
           l.here <=> l.kind # "none" \/ Holders(w, n) # {},
           l.kind = "whip" => Holders(w, n) # {}
    PROVE  SourceInv'
<1>0. Types /\ Held(w) BY DEF IndInv, SourceInv
<1>1. /\ lsrc'[w][n] = l /\ \A m \in Names : m # n => lsrc'[w][m] = lsrc[w][m]
      /\ \A x \in Slots : x # w => lsrc'[x] = lsrc[x] /\ agenda'[x] = agenda[x]
      /\ agenda'[w] = s
  BY <1>0 DEF Types
<1>2. \A m : Holders(w, m)' = Holders(w, m) BY DEF Holders, Has
<1>3. \A i \in DOMAIN agenda'[w] : agenda'[w][i].op # "mirror" BY <1>1 DEF NoMirror
<1>4. Held(w)' BY <1>0, <1>1, <1>2, <1>3, HeldAt
<1> QED BY <1>0, <1>1, <1>4, WorkerHeld

(* A signalling handler that creates session u of source n. *)
LEMMA NewHeld ==
    ASSUME IndInv, SourceInv, NEW w \in Slots, NEW u \in Ufrags, NEW n \in Names, ~Has(w, u),
           NEW l, l.here, lsrc' = [lsrc EXCEPT ![w][n] = l],
           NEW k \in LocalSession, k.st # NoSession, k.name = n,
           lsess' = [lsess EXCEPT ![w][u] = k],
           NEW s, agenda' = [agenda EXCEPT ![w] = s],
           \A i \in DOMAIN s : s[i].op = "mirror" => s[i].n = n
    PROVE  SourceInv'
<1>0. Types /\ Held(w) BY DEF IndInv, SourceInv
<1>1. /\ lsrc'[w][n] = l /\ \A m \in Names : m # n => lsrc'[w][m] = lsrc[w][m]
      /\ \A x \in Slots : x # w => lsrc'[x] = lsrc[x] /\ agenda'[x] = agenda[x]
      /\ agenda'[w] = s
  BY <1>0 DEF Types
<1>2. /\ lsess' \in [Slots -> [Ufrags -> LocalSession]]
      /\ lsess'[w][u] = k
      /\ \A x \in Slots, v \in Ufrags : x # w \/ v # u => lsess'[x][v] = lsess[x][v]
      /\ \A x \in Slots : x # w => lsess'[x] = lsess[x]
  BY <1>0, SessionWritten
<1>3. Holders(w, n)' # {}
  <2>1. u \in Holders(w, n)' BY <1>2 DEF Holders, Has
  <2> QED BY <2>1
<1>4. \A m \in Names : m # n => Holders(w, m)' = Holders(w, m)
  BY <1>2, OtherHolders
<1>5. Held(w)' BY <1>0, <1>1, <1>3, <1>4, HeldAt
<1> QED BY <1>0, <1>1, <1>2, <1>5, WorkerHeld

LEMMA PlayHeld ==
    ASSUME IndInv, SourceInv, NEW w \in Slots, NEW u \in Ufrags, NEW n \in Names,
           Play(w, u, n)
    PROVE  SourceInv'
<1>0. Types BY DEF IndInv
<1>1. PICK l : l = Created(lsrc[w][n]) OBVIOUS
<1>2. l.here BY <1>0, <1>1, SourceFields DEF Types
<1>3. PICK k : k = NewLocal(n, FALSE) OBVIOUS
<1>4. k \in LocalSession /\ k.st # NoSession /\ k.name = n
  BY <1>3, SessionTypes DEF NewLocal, NoSession
<1>5. PICK a : a = Call("add", n, "none", {u}) OBVIOUS
<1>6. a.op # "mirror" BY <1>5 DEF Call
<1>7. PICK s : s = <<a>> OBVIOUS
<1>8. \A i \in DOMAIN s : s[i].op # "mirror" BY <1>6, <1>7
<1>9. /\ ~Has(w, u) /\ lsrc' = [lsrc EXCEPT ![w][n] = l]
      /\ lsess' = [lsess EXCEPT ![w][u] = k] /\ agenda' = [agenda EXCEPT ![w] = s]
  BY <1>1, <1>3, <1>5, <1>7 DEF Play, FreshUfrag
<1> QED BY <1>2, <1>4, <1>8, <1>9, NewHeld

LEMMA WhipHeld ==
    ASSUME IndInv, SourceInv, NEW w \in Slots, NEW u \in Ufrags, NEW n \in Names,
           Whip(w, u, n)
    PROVE  SourceInv'
<1>0. Types BY DEF IndInv
<1>1. PICK l : l = Claimed(lsrc[w][n], "whip") OBVIOUS
<1>2. l.here
  <2>1. lsrc[w][n] \in LocalSource /\ "whip" \in Kinds BY <1>0 DEF Types, Kinds
  <2> QED BY <1>1, <2>1, SourceFields
<1>3. PICK k : k = NewLocal(n, TRUE) OBVIOUS
<1>4. k \in LocalSession /\ k.st # NoSession /\ k.name = n
  BY <1>3, SessionTypes DEF NewLocal, NoSession
<1> DEFINE p == Call("ptr", n, "whip", {})
           g == Call("get", n, "whip", {u})
           a == Call("add", n, "whip", {u})
           q == IF Lookup(shm, n) # {} THEN <<p>> ELSE <<>>
<1>5. /\ p \in Task /\ p.op = "ptr" /\ g \in Task /\ g.op = "get"
      /\ a \in Task /\ a.op = "add"
  BY CallTask DEF Kinds
<1>6. PICK s : s = q \o <<g, a>> OBVIOUS
<1>7. /\ ~Has(w, u) /\ lsrc' = [lsrc EXCEPT ![w][n] = l]
      /\ lsess' = [lsess EXCEPT ![w][u] = k] /\ agenda' = [agenda EXCEPT ![w] = s]
  BY <1>1, <1>3, <1>6 DEF Whip, FreshUfrag
<1> HIDE DEF p, g, a
<1>8. NoMirror(q) /\ NoMirror(<<g, a>>) BY <1>5, NoMirrorShort
<1> HIDE DEF q
<1>9. NoMirror(s) BY <1>6, <1>8, NoMirrorJoined
<1>10. \A i \in DOMAIN s : s[i].op # "mirror" BY <1>9 DEF NoMirror
<1> QED BY <1>2, <1>4, <1>7, <1>10, NewHeld

(* A mirror cleared at a worker that does not publish over RTMP. *)
LEMMA ClearedHeld ==
    ASSUME IndInv, SourceInv, NEW w \in Slots, NEW n \in Names, lsrc[w][n].kind # "rtmp",
           NEW l, l = Cleared(lsrc[w][n])
    PROVE  /\ l.here <=> l.kind # "none" \/ Holders(w, n) # {}
           /\ l.kind = "whip" => Holders(w, n) # {}
<1>1. lsrc[w][n] \in LocalSource BY DEF IndInv, Types
<1>2. lsrc[w][n].kind \in {"none", "whip"} BY <1>1 DEF LocalSource, Kinds
<1>3. l.here = lsrc[w][n].here /\ l.kind = "none" BY <1>1, SourceFields
<1>4. /\ lsrc[w][n].here <=> lsrc[w][n].kind # "none" \/ Holders(w, n) # {}
      /\ lsrc[w][n].kind = "whip" => Holders(w, n) # {}
  BY DEF SourceInv, Held
<1> QED BY <1>2, <1>3, <1>4

LEMMA WhipRefusedHeld ==
    ASSUME IndInv, SourceInv, NEW w \in Slots, NEW u \in Ufrags, NEW n \in Names,
           WhipRefused(w, u, n)
    PROVE  SourceInv'
<1>0. Types BY DEF IndInv
<1>1. PICK l : l = Cleared(lsrc[w][n]) OBVIOUS
<1>2. PICK s : s = <<>> OBVIOUS
<1>3. NoMirror(s) BY <1>2, NoMirrorShort
<1>4. /\ lsrc[w][n].kind # "rtmp" /\ lsrc' = [lsrc EXCEPT ![w][n] = l] /\ lsess' = lsess
      /\ agenda' = [agenda EXCEPT ![w] = s]
  BY <1>0, <1>1, <1>2 DEF WhipRefused, Idle, Types
<1>5. /\ l.here <=> l.kind # "none" \/ Holders(w, n) # {}
      /\ l.kind = "whip" => Holders(w, n) # {}
  BY <1>1, <1>4, ClearedHeld
<1> QED BY <1>3, <1>4, <1>5, OpenHeld

LEMMA WhipAbortedHeld ==
    ASSUME IndInv, SourceInv, NEW w \in Slots, NEW u \in Ufrags, NEW n \in Names,
           WhipAborted(w, u, n)
    PROVE  SourceInv'
<1>1. PICK l : l = Cleared(lsrc[w][n]) OBVIOUS
<1> DEFINE e == Call("get", n, "whip", {})
           g == Call("get", n, "whip", {u})
           a == Call("add", n, "whip", {u})
           c == Call("release", n, "whip", {})
           r == Call("remove", n, "none", {})
           q == IF Lookup(shm, n) # {} THEN <<e>> ELSE <<>>
           t(added) == IF added THEN <<g, a>> ELSE <<>>
<1>2. /\ e \in Task /\ e.op = "get" /\ g \in Task /\ g.op = "get"
      /\ a \in Task /\ a.op = "add" /\ c \in Task /\ c.op = "release"
      /\ r \in Task /\ r.op = "remove"
  BY CallTask DEF Kinds
<1>3. PICK added \in BOOLEAN : agenda' = [agenda EXCEPT ![w] = q \o t(added) \o <<c, r>>]
  BY DEF WhipAborted
<1> HIDE DEF e, g, a, c, r
<1>4. NoMirror(q) /\ NoMirror(t(added)) /\ NoMirror(<<c, r>>) BY <1>2, NoMirrorShort
<1> HIDE DEF q, t
<1>5. PICK s : s = q \o t(added) \o <<c, r>> OBVIOUS
<1>6. NoMirror(s)
  <2>1. NoMirror(q \o t(added)) BY <1>4, NoMirrorJoined
  <2> QED BY <1>4, <1>5, <2>1, NoMirrorJoined
<1>7. /\ lsrc[w][n].kind # "rtmp" /\ lsrc' = [lsrc EXCEPT ![w][n] = l] /\ lsess' = lsess
      /\ agenda' = [agenda EXCEPT ![w] = s]
  BY <1>1, <1>3, <1>5 DEF WhipAborted
<1>8. /\ l.here <=> l.kind # "none" \/ Holders(w, n) # {}
      /\ l.kind = "whip" => Holders(w, n) # {}
  BY <1>1, <1>7, ClearedHeld
<1> QED BY <1>6, <1>7, <1>8, OpenHeld

LEMMA SteadyHeld ==
    ASSUME IndInv, SourceInv, NEW w \in Slots, NEW s, Steady(w, s) PROVE SourceInv'
<1>0. Types /\ Held(w) BY DEF IndInv, SourceInv
<1>1. agenda'[w] = s /\ \A x \in Slots : x # w => agenda'[x] = agenda[x]
  BY <1>0 DEF Types, Steady
<1>2. Held(w)' BY <1>0, HeldKept
<1> QED BY <1>0, <1>1, <1>2, WorkerHeld DEF Steady

LEMMA SignallingHeld ==
    ASSUME IndInv, SourceInv, NEW w \in Slots, Signalling(w) PROVE SourceInv'
<1>1. ASSUME NEW u \in Ufrags, NEW n \in Names, PlayAborted(w, u, n) PROVE SourceInv'
  BY <1>1 DEF PlayAborted, SourceInv, Held, Holders, Has
<1> QED
  BY <1>1, PlayHeld, WhipHeld, WhipRefusedHeld, WhipAbortedHeld DEF Signalling

LEMMA PacketHeld ==
    ASSUME IndInv, SourceInv, NEW w \in Slots, NEW u \in Ufrags,
           Stun(w, u) \/ Dtls(w, u) \/ DtlsDone(w, u)
    PROVE  SourceInv'
<1>0. Types BY DEF IndInv
<1>1. /\ Idle(w) /\ Has(w, u) /\ agenda' = agenda /\ lsrc' = lsrc
  BY DEF Stun, Dtls, DtlsDone, Has, NoSession
<1>2. lsess[w][u].st \in States BY <1>0, <1>1, HasState
<1>3. PICK st \in States : lsess' = [lsess EXCEPT ![w][u] = Moved(lsess[w][u], st)]
  BY <1>2, OnStunState DEF Stun, Dtls, DtlsDone, States
<1>4. st # NoSession BY DEF States, NoSession
<1>5. /\ lsess' \in [Slots -> [Ufrags -> LocalSession]]
      /\ lsess'[w][u].st = st /\ lsess'[w][u].name = lsess[w][u].name
      /\ lsess'[w][u].pub = lsess[w][u].pub
      /\ \A x \in Slots, v \in Ufrags : x # w \/ v # u => lsess'[x][v] = lsess[x][v]
      /\ \A x \in Slots : x # w => lsess'[x] = lsess[x]
  <2>1. lsess' = [lsess EXCEPT ![w][u] = Moved(lsess[w][u], st)] BY <1>3
  <2> QED BY <1>0, <2>1, StateWritten, Zenon
<1>6. \A v \in Ufrags : /\ Has(w, v)' <=> Has(w, v)
                        /\ lsess'[w][v].name = lsess[w][v].name
  <2> TAKE v \in Ufrags
  <2>1. CASE v = u BY <1>1, <1>4, <1>5, <2>1 DEF Has
  <2>2. CASE v # u BY <1>5, <2>2 DEF Has
  <2> QED BY <2>1, <2>2
<1>7. PICK s : s = agenda[w] OBVIOUS
<1>8. agenda' = [agenda EXCEPT ![w] = s] BY <1>0, <1>1, <1>7 DEF Types
<1>9. \A i \in DOMAIN s : s[i].op = "mirror" => \E j \in DOMAIN agenda[w] : s[i] = agenda[w][j]
  BY <1>7
<1>10. Steady(w, s) BY <1>1, <1>5, <1>6, <1>8, <1>9 DEF Steady
<1> QED BY <1>10, SteadyHeld

LEMMA AttachHeld ==
    ASSUME IndInv, SourceInv, NEW w \in Slots, NEW u \in Ufrags, Attach(w, u)
    PROVE  SourceInv'
<1>0. Types /\ RegInv(shm) BY DEF IndInv, Types
<1>1. PICK k : k = shm.sess[u] OBVIOUS
<1>2. PICK n : n = shm.src[k.src].name OBVIOUS
<1>3. k \in SkeletonType /\ n \in Names
  <2>1. RegInv(shm) BY <1>0
  <2> QED BY <1>1, <1>2, <2>1, SkeletonFields, Zenon
<1> DEFINE m == Call("mirror", n, "whip", {})
           p == Call("state", n, "none", {u})
<1>4. m \in Task /\ p \in Task /\ m.n = n /\ p.n = n BY <1>3, CallTask DEF Kinds
<1>5. PICK l : l = Created(lsrc[w][n]) OBVIOUS
<1>6. l.here BY <1>0, <1>3, <1>5, SourceFields DEF Types
<1>7. PICK r : r = Rebuilt(n, k) OBVIOUS
<1>8. r \in LocalSession /\ r.st # NoSession /\ r.name = n
  BY <1>3, <1>7, RebuiltFields, Zenon
<1>9. /\ ~Has(w, u) /\ lsrc' = [lsrc EXCEPT ![w][n] = l]
      /\ lsess' = [lsess EXCEPT ![w][u] = r]
      /\ agenda' = [agenda EXCEPT ![w] = (IF k.pub THEN <<m>> ELSE <<>>) \o <<p>>]
  BY <1>1, <1>2, <1>5, <1>7, Zenon DEF Attach
<1> HIDE DEF m, p
<1>10. agenda' = [agenda EXCEPT ![w] = <<m, p>>] \/ agenda' = [agenda EXCEPT ![w] = <<p>>]
  <2>1. <<m>> \o <<p>> = <<m, p>> BY <1>4, Joined11, Zenon
  <2>2. <<p>> \in Seq(Task) BY <1>4
  <2>3. <<>> \o <<p>> = <<p>> BY <2>2, ConcatEmptySeq
  <2> QED BY <1>9, <2>1, <2>3
<1>11. PICK s : (s = <<m, p>> \/ s = <<p>>) /\ agenda' = [agenda EXCEPT ![w] = s] BY <1>10
<1>12. \A i \in DOMAIN s : s[i].n = n
  <2>1. CASE s = <<m, p>> BY <1>4, <2>1
  <2>2. CASE s = <<p>> BY <1>4, <2>2
  <2> QED BY <1>11, <2>1, <2>2
<1>13. agenda' = [agenda EXCEPT ![w] = s] BY <1>11
<1>14. \A i \in DOMAIN s : s[i].op = "mirror" => s[i].n = n BY <1>12
<1>15. /\ ~Has(w, u) /\ lsrc' = [lsrc EXCEPT ![w][n] = l]
       /\ lsess' = [lsess EXCEPT ![w][u] = r]
  BY <1>9
<1> QED BY <1>3, <1>6, <1>8, <1>13, <1>14, <1>15, NewHeld

(* A session that leaves takes its source with it, unless another session   *)
(* holds it or it is published over RTMP.                                   *)
LEMMA CloseHeld ==
    ASSUME IndInv, SourceInv, NEW w \in Slots, NEW u \in Ufrags, CloseLocal(w, u), Has(w, u),
           NEW s, NoMirror(s), agenda' = [agenda EXCEPT ![w] = s]
    PROVE  SourceInv'
<1>0. Types /\ Held(w) BY DEF IndInv, SourceInv
<1>1. PICK n : n = lsess[w][u].name OBVIOUS
<1>2. n \in Names BY <1>0, <1>1 DEF Types, LocalSession
<1> DEFINE q == IF lsrc[w][n].kind = "whip" THEN Cleared(lsrc[w][n]) ELSE lsrc[w][n]
<1>3. PICK l : l = Removed(q, Holders(w, n) \ {u}) OBVIOUS
<1>4. lsrc' = [lsrc EXCEPT ![w][n] = l] BY <1>1, <1>3 DEF CloseLocal
<1>5. u \in Holders(w, n) BY <1>1 DEF Holders
<1>6. lsrc[w][n] \in LocalSource BY <1>0, <1>2 DEF Types
<1>7. lsrc[w][n].here BY <1>0, <1>2, <1>5 DEF Held
<1>8. q \in LocalSource /\ q.here /\ q.kind # "whip"
  BY <1>6, <1>7, SourceTypes, SourceFields
<1> HIDE DEF q
<1>9. IF q.kind = "none" /\ Holders(w, n) \ {u} = {} THEN ~l.here /\ l.kind = "none" ELSE l = q
  BY <1>3, <1>8, SourceFields
<1>10. /\ lsrc'[w][n] = l /\ \A m \in Names : m # n => lsrc'[w][m] = lsrc[w][m]
       /\ \A x \in Slots : x # w => lsrc'[x] = lsrc[x] /\ agenda'[x] = agenda[x]
       /\ agenda'[w] = s
  BY <1>0, <1>2, <1>4 DEF Types
<1>11. /\ lsrc' \in [Slots -> [Names -> LocalSource]]
       /\ lsess' \in [Slots -> [Ufrags -> LocalSession]]
       /\ lsess'[w][u] = AbsentSession
       /\ \A x \in Slots, v \in Ufrags : x # w \/ v # u => lsess'[x][v] = lsess[x][v]
       /\ \A x \in Slots : x # w => lsess'[x] = lsess[x]
  BY <1>0, CloseLocalStep
<1>12. ~Has(w, u)' BY <1>11, SessionTypes DEF Has
<1>13. Holders(w, n)' = Holders(w, n) \ {u} BY <1>11, <1>12 DEF Holders, Has
<1>14. \A m \in Names : m # n => Holders(w, m)' = Holders(w, m)
  BY <1>1, <1>11, <1>12, OtherHolders
<1>15. /\ lsrc'[w][n].here <=> lsrc'[w][n].kind # "none" \/ Holders(w, n)' # {}
       /\ lsrc'[w][n].kind = "whip" => Holders(w, n)' # {}
  BY <1>8, <1>9, <1>10, <1>13
<1>16. \A i \in DOMAIN agenda'[w] : agenda'[w][i].op # "mirror" BY <1>10 DEF NoMirror
<1>17. Held(w)' BY <1>0, <1>2, <1>10, <1>14, <1>15, <1>16, HeldAt
<1> QED BY <1>0, <1>10, <1>11, <1>17, WorkerHeld

LEMMA ClosingNoMirror ==
    ASSUME Types, NEW w \in Slots, NEW u \in Ufrags, NEW t \in Seq(Task),
           t = <<>> \/ \E b \in Task : b.op = "scan" /\ t = <<b>>
    PROVE  NoMirror(CloseCalls(w, u) \o t)
<1>1. PICK s : s = CloseCalls(w, u) \o t OBVIOUS
<1>2. Closing(s, w, u, t)
  <2>1. Closing(CloseCalls(w, u) \o t, w, u, t) BY CloseCallsShape
  <2> QED BY <1>1, <2>1
<1>3. s \in Seq(Task) BY <1>2 DEF Closing
<1>4. ASSUME NEW i \in DOMAIN s PROVE s[i].op # "mirror"
  <2>1. s[i].op \in {"release", "remove"} \/ s[i].op = "drop" \/ t = <<s[i]>>
    BY <1>2 DEF Closing
  <2>2. CASE t = <<s[i]>>
    <3>1. t # <<>> /\ t[1] = s[i] BY <2>2
    <3>2. PICK b \in Task : b.op = "scan" /\ t = <<b>> BY <3>1
    <3>3. b = s[i] BY <3>1, <3>2
    <3> QED BY <3>2, <3>3
  <2> QED BY <2>1, <2>2
<1> QED BY <1>1, <1>3, <1>4 DEF NoMirror

LEMMA HangupHeld ==
    ASSUME IndInv, SourceInv, NEW w \in Slots, NEW u \in Ufrags, Hangup(w, u)
    PROVE  SourceInv'
<1>1. Types /\ <<>> \in Seq(Task) BY DEF IndInv
<1>2. CloseCalls(w, u) \in Seq(Task) BY <1>1, CloseCallsShape
<1>3. CloseCalls(w, u) \o <<>> = CloseCalls(w, u) BY <1>2, ConcatEmptySeq
<1>4. NoMirror(CloseCalls(w, u) \o <<>>) BY <1>1, ClosingNoMirror
<1>5. PICK s : s = CloseCalls(w, u) OBVIOUS
<1>6. NoMirror(s) BY <1>3, <1>4, <1>5
<1>7. agenda' = [agenda EXCEPT ![w] = s] /\ CloseLocal(w, u) /\ Has(w, u)
  BY <1>5 DEF Hangup, Has, NoSession
<1> QED BY <1>6, <1>7, CloseHeld

LEMMA WhipMediaHeld ==
    ASSUME IndInv, SourceInv, NEW w \in Slots, NEW u \in Ufrags, WhipMedia(w, u)
    PROVE  SourceInv'
<1>0. Types BY DEF IndInv
<1>1. PICK n : n = lsess[w][u].name OBVIOUS
<1>2. n \in Names BY <1>0, <1>1 DEF Types, LocalSession
<1>3. agenda' = agenda /\ lsess' = [lsess EXCEPT ![w][u].idle = 0] BY DEF WhipMedia
<1>4. /\ \A x \in Slots : x # w => lsess'[x] = lsess[x]
      /\ \A v \in Ufrags : /\ Has(w, v)' <=> Has(w, v)
                           /\ lsess'[w][v].name = lsess[w][v].name
  <2>1. \A x \in Slots, v \in Ufrags : lsess[x][v] \in LocalSession BY <1>0 DEF Types
  <2>2. \A v \in Ufrags : /\ lsess'[w][v].st = lsess[w][v].st
                          /\ lsess'[w][v].name = lsess[w][v].name
    BY <1>0, <1>3, <2>1 DEF Types, LocalSession
  <2>3. \A x \in Slots : x # w => lsess'[x] = lsess[x] BY <1>0, <1>3 DEF Types
  <2> QED BY <2>2, <2>3 DEF Has
<1>5. \/ lsrc' = lsrc
      \/ \E c : /\ c = lsrc[w][n].ptr \/ c = NoCell
                /\ lsrc' = [lsrc EXCEPT ![w][n] = Cached(lsrc[w][n], c)]
  BY <1>1 DEF WhipMedia
<1>6. /\ \A x \in Slots : x # w => lsrc'[x] = lsrc[x]
      /\ \A m \in Names : /\ lsrc'[w][m].here = lsrc[w][m].here
                          /\ lsrc'[w][m].kind = lsrc[w][m].kind
  <2>1. CASE lsrc' = lsrc BY <2>1
  <2>2. ASSUME NEW c, c = lsrc[w][n].ptr \/ c = NoCell,
               lsrc' = [lsrc EXCEPT ![w][n] = Cached(lsrc[w][n], c)]
        PROVE  /\ \A x \in Slots : x # w => lsrc'[x] = lsrc[x]
               /\ \A m \in Names : /\ lsrc'[w][m].here = lsrc[w][m].here
                                   /\ lsrc'[w][m].kind = lsrc[w][m].kind
    <3>1. lsrc[w][n] \in LocalSource BY <1>0, <1>2 DEF Types
    <3>2. c \in Pointers BY <2>2, <3>1 DEF LocalSource, Pointers
    <3>3. PICK l : l = Cached(lsrc[w][n], c) OBVIOUS
    <3>4. l.here = lsrc[w][n].here /\ l.kind = lsrc[w][n].kind
      BY <3>1, <3>2, <3>3, SourceFields
    <3>5. lsrc' = [lsrc EXCEPT ![w][n] = l] BY <2>2, <3>3
    <3> QED BY <1>0, <1>2, <3>4, <3>5 DEF Types
  <2> QED BY <1>5, <2>1, <2>2
<1>7. PICK s : s = agenda[w] OBVIOUS
<1>8. agenda' = [agenda EXCEPT ![w] = s] BY <1>0, <1>3, <1>7 DEF Types
<1>9. \A i \in DOMAIN s : s[i].op = "mirror" => \E j \in DOMAIN agenda[w] : s[i] = agenda[w][j]
  BY <1>7
<1>10. Steady(w, s) BY <1>4, <1>6, <1>8, <1>9 DEF Steady
<1> QED BY <1>10, SteadyHeld

LEMMA MediaPlaneHeld ==
    ASSUME IndInv, SourceInv, NEW w \in Slots, MediaPlane(w) PROVE SourceInv'
BY PacketHeld, AttachHeld, HangupHeld, WhipMediaHeld DEF MediaPlane

(* No RTMP publish is refused. *)
RtmpAccepted ==
    \A w \in Slots, n \in Names : RtmpClaim(w, n) => ~PublishBusy(shm, n, "rtmp")

LEMMA RtmpClaimHeld ==
    ASSUME IndInv, SourceInv, NEW w \in Slots, NEW n \in Names, RtmpClaim(w, n), RtmpAccepted
    PROVE  SourceInv'
<1> DEFINE p == Call("ptr", n, "rtmp", {})
           q == Call("slot", n, "rtmp", {})
<1>0. Types BY DEF IndInv
<1>1. p \in Task /\ p.op = "ptr" /\ q \in Task /\ q.op = "slot" BY CallTask DEF Kinds
<1>2. PICK l : l = Claimed(lsrc[w][n], "rtmp") OBVIOUS
<1>3. l.here /\ l.kind = "rtmp"
  <2>1. lsrc[w][n] \in LocalSource /\ "rtmp" \in Kinds BY <1>0 DEF Types, Kinds
  <2> QED BY <1>2, <2>1, SourceFields
<1>4. ~PublishBusy(shm, n, "rtmp") BY DEF RtmpAccepted
<1>5. /\ lsrc' = [lsrc EXCEPT ![w][n] = l] /\ lsess' = lsess
      /\ \/ agenda' = [agenda EXCEPT ![w] = <<p, q>>]
         \/ agenda' = [agenda EXCEPT ![w] = <<>>]
  BY <1>2, <1>4 DEF RtmpClaim
<1> HIDE DEF p, q
<1>6. PICK s : (s = <<p, q>> \/ s = <<>>) /\ agenda' = [agenda EXCEPT ![w] = s] BY <1>5
<1>7. NoMirror(s) BY <1>1, <1>6, NoMirrorShort
<1>8. /\ l.here <=> l.kind # "none" \/ Holders(w, n) # {}
      /\ l.kind = "whip" => Holders(w, n) # {}
  BY <1>3
<1> QED BY <1>5, <1>6, <1>7, <1>8, OpenHeld

LEMMA RtmpStopHeld ==
    ASSUME IndInv, SourceInv, NEW w \in Slots, NEW n \in Names, RtmpStop(w, n)
    PROVE  SourceInv'
<1> DEFINE c == Call("release", n, "rtmp", {})
           r == Call("remove", n, "none", {})
<1>0. Types BY DEF IndInv
<1>1. c \in Task /\ c.op = "release" /\ r \in Task /\ r.op = "remove" BY CallTask DEF Kinds
<1>2. PICK q : q = Cleared(lsrc[w][n]) OBVIOUS
<1>3. PICK l : l = Removed(q, Holders(w, n)) OBVIOUS
<1>4. /\ lsrc[w][n].kind = "rtmp" /\ lsrc' = [lsrc EXCEPT ![w][n] = l] /\ lsess' = lsess
      /\ agenda' = [agenda EXCEPT ![w] = <<c, r>>]
  BY <1>2, <1>3 DEF RtmpStop
<1> HIDE DEF c, r
<1>5. PICK s : s = <<c, r>> OBVIOUS
<1>6. NoMirror(s) BY <1>1, <1>5, NoMirrorShort
<1>7. lsrc[w][n] \in LocalSource BY <1>0 DEF Types
<1>8. lsrc[w][n].here BY <1>4 DEF SourceInv, Held
<1>9. q \in LocalSource /\ q.here /\ q.kind = "none"
  BY <1>2, <1>7, <1>8, SourceTypes, SourceFields
<1>10. IF q.kind = "none" /\ Holders(w, n) = {} THEN ~l.here /\ l.kind = "none" ELSE l = q
  BY <1>3, <1>9, SourceFields
<1>11. /\ l.here <=> l.kind # "none" \/ Holders(w, n) # {}
       /\ l.kind = "whip" => Holders(w, n) # {}
  BY <1>9, <1>10
<1>12. agenda' = [agenda EXCEPT ![w] = s] BY <1>4, <1>5
<1> QED BY <1>4, <1>6, <1>11, <1>12, OpenHeld

LEMMA IngestHeld ==
    ASSUME IndInv, SourceInv, NEW w \in Slots, Ingest(w), RtmpAccepted PROVE SourceInv'
<1>1. ASSUME NEW n \in Names, RtmpFast(w, n) PROVE SourceInv'
  BY <1>1 DEF RtmpFast, SourceInv, Held, Holders, Has
<1> QED BY <1>1, RtmpClaimHeld, RtmpStopHeld DEF Ingest

LEMMA ReapHeld ==
    ASSUME IndInv, SourceInv, NEW w \in Slots, Reap(w) PROVE SourceInv'
<1>0. Types BY DEF IndInv
<1>1. PICK U : U = {u \in Ufrags : Has(w, u)} OBVIOUS
<1>2. PICK a : a = Call("scan", AnyName, "none", U) OBVIOUS
<1>3. a.op = "scan" BY <1>2 DEF Call
<1>4. /\ UNCHANGED <<lsrc, lsess>>
      /\ agenda' = [agenda EXCEPT ![w] = IF \E u \in Ufrags : Has(w, u) THEN <<a>> ELSE <<>>]
  BY <1>1, <1>2 DEF Reap
<1>5. PICK s : (s = <<a>> \/ s = <<>>) /\ agenda' = [agenda EXCEPT ![w] = s] BY <1>4
<1>6. \A i \in DOMAIN s : s[i].op # "mirror" BY <1>3, <1>5
<1>7. Steady(w, s) BY <1>4, <1>5, <1>6 DEF Steady, Has
<1> QED BY <1>7, SteadyHeld

(* A handler that goes on to its next call, or to the one after it. *)
LEMMA SuffixHeld ==
    ASSUME IndInv, SourceInv, NEW w \in Slots, NEW a, At(w, a), lsrc' = lsrc, lsess' = lsess,
           Continue(w) \/ (a.op = "get" /\ WhipSource(w, a))
    PROVE  SourceInv'
<1>1. /\ agenda[w] \in Seq(Task) /\ agenda[w] # <<>> /\ 1 \in DOMAIN agenda[w]
      /\ a = agenda[w][1] /\ Shape(agenda[w])
  BY CallAt
<1>2. PICK t : t = Tail(agenda[w]) OBVIOUS
<1>3. PICK t2 : t2 = Tail(t) OBVIOUS
<1>4. /\ t \in Seq(Task)
      /\ \A i \in DOMAIN t : i + 1 \in DOMAIN agenda[w] /\ t[i] = agenda[w][i + 1]
      /\ \A i \in DOMAIN agenda[w] : i = 1 \/ i - 1 \in DOMAIN t
  BY <1>1, <1>2, TailAt
<1>5. PICK s : /\ s = t \/ (s = t2 /\ a.op = "get" /\ a.U # {})
               /\ agenda' = [agenda EXCEPT ![w] = s]
  <2>1. CASE Continue(w) BY <1>2, <2>1 DEF Continue
  <2>2. CASE WhipSource(w, a) /\ a.op = "get"
    <3>1. PICK o : agenda' = [agenda EXCEPT ![w] =
                               IF o.ptr = NoCell /\ a.U # {} THEN t2 ELSE t]
      BY <1>2, <1>3, <2>2 DEF WhipSource
    <3> QED BY <2>2, <3>1
  <2> QED BY <2>1, <2>2
<1>6. ASSUME NEW i \in DOMAIN s PROVE \E j \in DOMAIN agenda[w] : s[i] = agenda[w][j]
  <2>1. CASE s = t BY <1>4, <1>6, <2>1
  <2>2. CASE s = t2 /\ a.op = "get" /\ a.U # {}
    <3>1. 1 + 1 \in DOMAIN agenda[w] BY <1>1, <2>2 DEF Shape
    <3>2. (1 + 1) - 1 \in DOMAIN t BY <1>4, <3>1
    <3>3. t # <<>> BY <3>2
    <3>4. \A k \in DOMAIN t2 : k + 1 \in DOMAIN t /\ t2[k] = t[k + 1] BY <1>3, <1>4, <3>3, TailAt
    <3> QED BY <1>4, <1>6, <2>2, <3>4
  <2> QED BY <1>5, <2>1, <2>2
<1>7. Steady(w, s) BY <1>5, <1>6 DEF Steady, Has
<1> QED BY <1>7, SteadyHeld

LEMMA CachePointerHeld ==
    ASSUME IndInv, SourceInv, NEW w \in Slots, NEW a, At(w, a),
           \/ CachePointer(w, a)
           \/ a.op = "mirror" /\ MirrorClaim(w, a)
    PROVE  SourceInv'
<1>0. Types /\ RegInv(shm) /\ Held(w) BY DEF IndInv, Types, SourceInv
<1>1. /\ a.n \in Names /\ agenda[w] \in Seq(Task) /\ agenda[w] # <<>>
      /\ 1 \in DOMAIN agenda[w] /\ a = agenda[w][1]
  BY CallAt
<1>2. PICK n : n = a.n OBVIOUS
<1>3. n \in Names BY <1>1, <1>2
<1>4. PICK o \in SourceGet(shm, n) :
        \/ lsrc' = [lsrc EXCEPT ![w][n] = Cached(lsrc[w][n], o.ptr)]
        \/ /\ a.op = "mirror"
           /\ lsrc' = [lsrc EXCEPT ![w][n] = Mirrored(lsrc[w][n], o.ptr)]
  BY <1>2 DEF CachePointer, MirrorClaim
<1>5. PICK p : p = o.ptr OBVIOUS
<1>6. p \in Pointers BY <1>0, <1>3, <1>5, GetQuiet DEF Pointers
<1>7. PICK l : /\ \/ l = Cached(lsrc[w][n], p)
                  \/ a.op = "mirror" /\ l = Mirrored(lsrc[w][n], p)
               /\ lsrc' = [lsrc EXCEPT ![w][n] = l]
  BY <1>4, <1>5
<1>8. lsrc[w][n] \in LocalSource BY <1>0, <1>3 DEF Types
<1>9. /\ l.here = lsrc[w][n].here
      /\ l.kind = lsrc[w][n].kind \/ (a.op = "mirror" /\ l.kind = "whip")
  BY <1>6, <1>7, <1>8, SourceFields
<1>10. Continue(w) /\ lsess' = lsess BY DEF CachePointer, MirrorClaim
<1>11. PICK s : s = Tail(agenda[w]) OBVIOUS
<1>12. /\ lsrc'[w][n] = l /\ \A m \in Names : m # n => lsrc'[w][m] = lsrc[w][m]
       /\ \A x \in Slots : x # w => lsrc'[x] = lsrc[x] /\ agenda'[x] = agenda[x]
       /\ agenda'[w] = s
  BY <1>0, <1>3, <1>7, <1>10, <1>11 DEF Types, Continue
<1>13. \A m : Holders(w, m)' = Holders(w, m) BY <1>10 DEF Holders, Has
<1>14. a.op = "mirror" => Holders(w, n) # {} BY <1>0, <1>1, <1>2 DEF Held
<1>15. \A m \in Names : (/\ lsrc[w][m].here <=> lsrc[w][m].kind # "none" \/ Holders(w, m) # {}
                         /\ lsrc[w][m].kind = "whip" => Holders(w, m) # {})'
  <2> TAKE m \in Names
  <2>1. /\ lsrc[w][m].here <=> lsrc[w][m].kind # "none" \/ Holders(w, m) # {}
        /\ lsrc[w][m].kind = "whip" => Holders(w, m) # {}
    BY <1>0 DEF Held
  <2>2. CASE m = n BY <1>9, <1>12, <1>13, <1>14, <2>1, <2>2
  <2>3. CASE m # n BY <1>12, <1>13, <2>1, <2>3
  <2> QED BY <2>2, <2>3
<1>16. ASSUME NEW i \in DOMAIN agenda'[w], agenda'[w][i].op = "mirror"
       PROVE  (Holders(w, agenda[w][i].n) # {})'
  <2>1. i + 1 \in DOMAIN agenda[w] /\ s[i] = agenda[w][i + 1]
    BY <1>1, <1>11, <1>12, <1>16, TailAt
  <2>2. PICK m : m = agenda[w][i + 1].n OBVIOUS
  <2>3. Holders(w, m) # {} BY <1>0, <1>12, <1>16, <2>1, <2>2 DEF Held
  <2>4. Holders(w, m)' # {} BY <1>13, <2>3
  <2> QED BY <1>12, <2>1, <2>2, <2>4 DEF Holders, Has
<1>17. Held(w)' BY <1>15, <1>16 DEF Held
<1>18. \A x \in Slots : x # w => /\ lsrc'[x] = lsrc[x] /\ lsess'[x] = lsess[x]
                                 /\ agenda'[x] = agenda[x]
  BY <1>10, <1>12
<1> QED BY <1>0, <1>17, <1>18, WorkerHeld

LEMMA PublishStateHeld ==
    ASSUME IndInv, SourceInv, NEW w \in Slots, NEW a, At(w, a), a.op = "state",
           PublishState(w, a)
    PROVE  SourceInv'
<1>0. Types BY DEF IndInv
<1>1. /\ a.U \subseteq Ufrags /\ Backed(w, a) /\ agenda[w] \in Seq(Task) /\ agenda[w] # <<>>
  BY CallAt
<1>2. PICK u \in a.U : lsess' = [lsess EXCEPT ![w][u].st = OnStun(lsess[w][u].st)]
  BY DEF PublishState
<1>3. Continue(w) /\ lsrc' = lsrc BY DEF PublishState
<1>4. PICK st : st = OnStun(lsess[w][u].st) OBVIOUS
<1>5. u \in Ufrags /\ Has(w, u) BY <1>1 DEF Backed
<1>6. st \in States /\ st # NoSession
  <2>1. lsess[w][u].st \in States BY <1>0, <1>5, HasState
  <2> QED BY <1>4, <2>1, OnStunState
<1>7. PICK k : k = [lsess[w][u] EXCEPT !.st = st] OBVIOUS
<1>8. k \in LocalSession /\ k.st = st /\ k.name = lsess[w][u].name
  <2>1. lsess[w][u] \in LocalSession BY <1>0, <1>5 DEF Types
  <2> QED BY <1>6, <1>7, <2>1 DEF LocalSession
<1>9. lsess' = [lsess EXCEPT ![w][u] = k] BY <1>2, <1>4, <1>7
<1>10. /\ lsess' \in [Slots -> [Ufrags -> LocalSession]]
       /\ lsess'[w][u] = k
       /\ \A x \in Slots, v \in Ufrags : x # w \/ v # u => lsess'[x][v] = lsess[x][v]
       /\ \A x \in Slots : x # w => lsess'[x] = lsess[x]
  BY <1>0, <1>5, <1>8, <1>9, SessionWritten
<1>11. \A v \in Ufrags : /\ Has(w, v)' <=> Has(w, v)
                         /\ lsess'[w][v].name = lsess[w][v].name
  <2> TAKE v \in Ufrags
  <2>1. CASE v = u BY <1>5, <1>6, <1>8, <1>10, <2>1 DEF Has
  <2>2. CASE v # u BY <1>10, <2>2 DEF Has
  <2> QED BY <2>1, <2>2
<1>12. PICK s : s = Tail(agenda[w]) OBVIOUS
<1>13. \A i \in DOMAIN s : i + 1 \in DOMAIN agenda[w] /\ s[i] = agenda[w][i + 1]
  BY <1>1, <1>12, TailAt
<1>14. agenda' = [agenda EXCEPT ![w] = s] BY <1>3, <1>12 DEF Continue
<1>15. Steady(w, s) BY <1>3, <1>10, <1>11, <1>13, <1>14 DEF Steady
<1> QED BY <1>15, SteadyHeld

LEMMA ScanSessionHeld ==
    ASSUME IndInv, SourceInv, NEW w \in Slots, NEW a, At(w, a), a.op = "scan",
           ScanSession(w, a)
    PROVE  SourceInv'
<1>0. Types BY DEF IndInv
<1>1. a.n \in Names /\ a.kind \in Kinds /\ a.U \subseteq Ufrags /\ Backed(w, a) BY CallAt
<1>2. PICK u \in a.U :
        LET rest == IF a.U = {u} THEN <<>> ELSE <<Call("scan", a.n, a.kind, a.U \ {u})>>
        IN  \/ /\ CloseLocal(w, u)
               /\ agenda' = [agenda EXCEPT ![w] = CloseCalls(w, u) \o rest]
            \/ /\ agenda' = [agenda EXCEPT ![w] = rest]
               /\ UNCHANGED <<lsrc, lsess>>
  BY DEF ScanSession
<1>3. u \in Ufrags /\ Has(w, u) BY <1>1 DEF Backed
<1> DEFINE b == Call("scan", a.n, a.kind, a.U \ {u})
           t == IF a.U = {u} THEN <<>> ELSE <<b>>
<1>4. b \in Task /\ b.op = "scan" BY <1>1, CallTask
<1> HIDE DEF b
<1>5. /\ t \in Seq(Task) /\ (t = <<>> \/ \E e \in Task : e.op = "scan" /\ t = <<e>>)
      /\ \A i \in DOMAIN t : t[i].op # "mirror"
  BY <1>4
<1>6. \/ CloseLocal(w, u) /\ agenda' = [agenda EXCEPT ![w] = CloseCalls(w, u) \o t]
      \/ agenda' = [agenda EXCEPT ![w] = t] /\ UNCHANGED <<lsrc, lsess>>
  BY <1>2 DEF b
<1> HIDE DEF t
<1>7. CASE CloseLocal(w, u) /\ agenda' = [agenda EXCEPT ![w] = CloseCalls(w, u) \o t]
  <2>1. PICK s : s = CloseCalls(w, u) \o t OBVIOUS
  <2>2. NoMirror(CloseCalls(w, u) \o t) BY <1>0, <1>3, <1>5, ClosingNoMirror
  <2>3. NoMirror(s) /\ agenda' = [agenda EXCEPT ![w] = s] BY <1>7, <2>1, <2>2
  <2> QED BY <1>3, <1>7, <2>3, CloseHeld
<1>8. CASE agenda' = [agenda EXCEPT ![w] = t] /\ UNCHANGED <<lsrc, lsess>>
  <2>1. PICK s : s = t OBVIOUS
  <2>2. Steady(w, s) BY <1>5, <1>8, <2>1 DEF Steady, Has
  <2> QED BY <2>2, SteadyHeld
<1> QED BY <1>6, <1>7, <1>8

LEMMA ResumeHeld ==
    ASSUME IndInv, SourceInv, NEW w \in Slots, Resume(w) PROVE SourceInv'
<1>1. PICK a : a = Head(agenda[w]) OBVIOUS
<1>2. At(w, a) BY <1>1 DEF Resume, At
<1>3. \/ CachePointer(w, a)
      \/ a.op = "mirror" /\ MirrorClaim(w, a)
      \/ /\ lsrc' = lsrc /\ lsess' = lsess
         /\ Continue(w) \/ (a.op = "get" /\ WhipSource(w, a))
      \/ a.op = "state" /\ PublishState(w, a)
      \/ a.op = "scan" /\ ScanSession(w, a)
  BY <1>1
  DEF Resume, WhipSource, AddSkeleton, RecordSlot, ReleaseClaim, RemoveSource, DropSkeleton
<1> QED BY <1>2, <1>3, CachePointerHeld, SuffixHeld, PublishStateHeld, ScanSessionHeld

LEMMA CrashHeld ==
    ASSUME IndInv, SourceInv, NEW w \in Slots, Crash(w) PROVE SourceInv'
<1>0. Types BY DEF IndInv
<1>1. /\ lsrc' = [lsrc EXCEPT ![w] = [n \in Names |-> AbsentSource]]
      /\ lsess' = [lsess EXCEPT ![w] = [u \in Ufrags |-> AbsentSession]]
      /\ agenda' = [agenda EXCEPT ![w] = <<>>]
  BY DEF Crash
<1>2. ~AbsentSource.here /\ AbsentSource.kind = "none" BY DEF AbsentSource
<1>3. /\ \A n \in Names : lsrc'[w][n] = AbsentSource
      /\ \A u \in Ufrags : lsess'[w][u] = AbsentSession
      /\ agenda'[w] = <<>>
      /\ \A x \in Slots : x # w => /\ lsrc'[x] = lsrc[x] /\ lsess'[x] = lsess[x]
                                   /\ agenda'[x] = agenda[x]
  BY <1>0, <1>1 DEF Types
<1>4. \A n : Holders(w, n)' = {} BY <1>3, SessionTypes DEF Holders, Has
<1>5. Held(w)' BY <1>2, <1>3, <1>4 DEF Held
<1> QED BY <1>0, <1>3, <1>5, WorkerHeld

LEMMA OutsideHeld ==
    ASSUME IndInv, SourceInv, Admin \/ Tick PROVE SourceInv'
<1>0. Types BY DEF IndInv
<1>1. CASE Admin
  BY <1>1 DEF Admin, Kick, Disconnect, SourceInv, Held, Holders, Has
<1>2. CASE Tick
  <2>1. ASSUME NEW w \in Slots PROVE Held(w)'
    <3>1. PICK s : s = agenda[w] OBVIOUS
    <3>2. agenda' = agenda /\ agenda'[w] = s BY <1>2, <3>1 DEF Tick
    <3>3. \A n \in Names : /\ lsrc'[w][n].here = lsrc[w][n].here
                           /\ lsrc'[w][n].kind = lsrc[w][n].kind
      <4>1. \A n \in Names : lsrc[w][n] \in LocalSource BY <1>0 DEF Types
      <4> QED BY <1>2, <4>1 DEF Tick, LocalSource
    <3>4. \A u \in Ufrags : /\ lsess'[w][u].st = lsess[w][u].st
                            /\ lsess'[w][u].name = lsess[w][u].name
      <4>1. \A u \in Ufrags : lsess[w][u] \in LocalSession BY <1>0 DEF Types
      <4> QED BY <1>2, <4>1 DEF Tick, LocalSession
    <3>5. \A n : Holders(w, n)' = Holders(w, n) BY <3>4 DEF Holders, Has
    <3>6. Held(w) BY DEF SourceInv
    <3> QED BY <3>2, <3>3, <3>5, <3>6 DEF Held, Holders, Has
  <2> QED BY <2>1 DEF SourceInv
<1> QED BY <1>1, <1>2

LEMMA SourceStep ==
    ASSUME IndInv, SourceInv, [Next]_vars, [RtmpAccepted]_vars PROVE SourceInv'
<1>1. CASE UNCHANGED vars BY <1>1 DEF vars, SourceInv, Held, Holders, Has
<1>2. ASSUME NEW w \in Slots, RtmpAccepted,
             Signalling(w) \/ MediaPlane(w) \/ Ingest(w) \/ Reap(w) \/ Resume(w) \/ Crash(w)
      PROVE  SourceInv'
  BY <1>2, SignallingHeld, MediaPlaneHeld, IngestHeld, ReapHeld, ResumeHeld, CrashHeld
<1>3. CASE Admin \/ Tick BY <1>3, OutsideHeld
<1> QED BY <1>1, <1>2, <1>3 DEF Next

LEMMA SourceInitially == ASSUME Init PROVE SourceInv
<1>1. ~AbsentSource.here /\ AbsentSource.kind = "none" BY DEF AbsentSource
<1>2. ASSUME NEW w \in Slots PROVE Held(w)
  <2>1. /\ \A n \in Names : lsrc[w][n] = AbsentSource
        /\ \A u \in Ufrags : lsess[w][u] = AbsentSession
        /\ agenda[w] = <<>>
    BY DEF Init
  <2>2. \A n : Holders(w, n) = {} BY <2>1, SessionTypes DEF Holders, Has
  <2> QED BY <1>1, <2>1, <2>2 DEF Held
<1> QED BY <1>2 DEF SourceInv

(* As long as no RTMP publish is refused, a worker keeps its local source   *)
(* exactly while the source is published or a session holds it: no close,   *)
(* release, teardown or crash leaves a session with a freed sess->source or *)
(* nobody's source behind (RtcWorkers!LocalSourceHeld).                     *)
THEOREM SourcesHeld == Spec /\ [][RtmpAccepted]_vars => []LocalSourceHeld
<1>1. Init => IndInv /\ SourceInv BY Initially, SourceInitially
<1>2. IndInv /\ SourceInv /\ [Next]_vars /\ [RtmpAccepted]_vars => IndInv' /\ SourceInv'
  BY NextStep, Stutter, SourceStep
<1>3. SourceInv => LocalSourceHeld BY DEF SourceInv, Held, LocalSourceHeld
<1> QED BY <1>1, <1>2, <1>3, PTL DEF Spec

-----------------------------------------------------------------------------
(* Claims and their publishers *)

(* A step of w that writes its source n, and leaves the agenda s. *)
Turn(w, n, l, s) ==
    /\ lsrc' = [lsrc EXCEPT ![w][n] = l] /\ agenda' = [agenda EXCEPT ![w] = s]
    /\ \A x \in Slots : x # w => lsess'[x] = lsess[x]
    /\ crashes' = crashes

(* The sessions, and the calls of the agenda, agree with the source. *)
Fit(w, n, l, s) ==
    /\ Sound(l)
    /\ \A u \in Ufrags : Has(w, u)' /\ lsess'[w][u].pub =>
         IF lsess'[w][u].name = n THEN l.kind # "rtmp"
         ELSE /\ Has(w, u) /\ lsess[w][u].pub
              /\ lsess[w][u].name = lsess'[w][u].name
    /\ \A i \in DOMAIN s :
         /\ s[i].op = "ptr" => i = 1 /\ s[i].n = n /\ l.kind # "none"
         /\ s[i].op = "mirror" => i = 1 /\ s[i].n = n /\ l.here /\ l.kind # "rtmp"

(* What w backs afterwards. *)
WillBack(w, n, l, s, m, k) ==
    (IF m = n THEN l.kind = k ELSE lsrc[w][m].kind = k) \/ Releases(s, m, k)

LEMMA TurnFields ==
    ASSUME IndInv, NEW w \in Slots, NEW n \in Names, NEW l, NEW s, Turn(w, n, l, s)
    PROVE  /\ lsrc'[w][n] = l /\ \A m \in Names : m # n => lsrc'[w][m] = lsrc[w][m]
           /\ agenda'[w] = s
           /\ \A x \in Slots : x # w => /\ lsrc'[x] = lsrc[x] /\ agenda'[x] = agenda[x]
                                        /\ lsess'[x] = lsess[x]
BY DEF IndInv, Types, Turn

LEMMA TurnTagged ==
    ASSUME IndInv, ClaimInv, lsess' \in [Slots -> [Ufrags -> LocalSession]],
           NEW w \in Slots, NEW n \in Names, NEW l, NEW s,
           Turn(w, n, l, s), Fit(w, n, l, s)
    PROVE  \A x \in Slots : Tagged(x)'
<1> TAKE x \in Slots
<1>0. Tagged(x) /\ Tagged(w) BY DEF ClaimInv
<1>1. /\ lsrc'[w][n] = l /\ \A m \in Names : m # n => lsrc'[w][m] = lsrc[w][m]
      /\ agenda'[w] = s
      /\ \A y \in Slots : y # w => /\ lsrc'[y] = lsrc[y] /\ agenda'[y] = agenda[y]
                                   /\ lsess'[y] = lsess[y]
  BY TurnFields
<1>2. CASE x # w
  <2>1. lsrc'[x] = lsrc[x] /\ agenda'[x] = agenda[x] /\ lsess'[x] = lsess[x] BY <1>1, <1>2
  <2> QED BY <1>0, <2>1 DEF Tagged, Has
<1>3. CASE x = w
  <2>1. \A m \in Names : Sound(lsrc'[w][m])
    <3> TAKE m \in Names
    <3>1. CASE m = n BY <1>1, <3>1 DEF Fit
    <3>2. CASE m # n BY <1>0, <1>1, <3>2 DEF Tagged
    <3> QED BY <3>1, <3>2
  <2>2. ASSUME NEW u \in Ufrags, Has(w, u)', lsess'[w][u].pub
        PROVE  lsrc'[w][lsess'[w][u].name].kind # "rtmp"
    <3>1. PICK m : m = lsess'[w][u].name OBVIOUS
    <3>2. m \in Names BY <3>1 DEF LocalSession
    <3>3. CASE m = n BY <1>1, <2>2, <3>1, <3>3, Zenon DEF Fit
    <3>4. CASE m # n
      <4>1. Has(w, u) /\ lsess[w][u].pub /\ lsess[w][u].name = m BY <2>2, <3>1, <3>4 DEF Fit
      <4>2. lsrc[w][m].kind # "rtmp" BY <1>0, <4>1 DEF Tagged
      <4> QED BY <1>1, <3>1, <3>2, <3>4, <4>2
    <3> QED BY <3>3, <3>4
  <2>3. ASSUME NEW i \in DOMAIN s
        PROVE  /\ s[i].op = "ptr" => i = 1 /\ lsrc'[w][s[i].n].kind # "none"
               /\ s[i].op = "mirror" => /\ i = 1 /\ lsrc'[w][s[i].n].here
                                        /\ lsrc'[w][s[i].n].kind # "rtmp"
    BY <1>1 DEF Fit
  <2>4. Tagged(w)' BY <1>1, <2>1, <2>2, <2>3 DEF Tagged, Sound
  <2> QED BY <1>3, <2>4
<1> QED BY <1>2, <1>3

(* Every claim is one that w will back, or one that w did not. *)
LEMMA TurnClaims ==
    ASSUME IndInv, ClaimInv, NEW w \in Slots, NEW n \in Names, NEW l, NEW s,
           RegInv(shm'), Turn(w, n, l, s),
           \A c \in Cells : shm'.src[c].publishing =>
             \/ WillBack(w, n, l, s, shm'.src[c].name, shm'.src[c].kind)
             \/ /\ shm.src[c].publishing
                /\ shm'.src[c].name = shm.src[c].name /\ shm'.src[c].kind = shm.src[c].kind
                /\ ~Backs(w, shm.src[c].name, shm.src[c].kind)
    PROVE  Claims'
<1>1. /\ lsrc'[w][n] = l /\ \A m \in Names : m # n => lsrc'[w][m] = lsrc[w][m]
      /\ agenda'[w] = s
      /\ \A y \in Slots : y # w => /\ lsrc'[y] = lsrc[y] /\ agenda'[y] = agenda[y]
                                   /\ lsess'[y] = lsess[y]
  BY TurnFields
<1>2. ASSUME crashes' = 0, NEW c \in Cells, shm'.src[c].publishing
      PROVE  \E x \in Slots : Backs(x, shm.src[c].name, shm.src[c].kind)'
  <2>1. PICK m, k : m = shm'.src[c].name /\ k = shm'.src[c].kind OBVIOUS
  <2>2. m \in Names
    <3>1. shm' \in RegType BY DEF RegInv
    <3>2. shm'.src[c] \in SourceType BY <3>1 DEF RegType
    <3> QED BY <2>1, <3>2 DEF SourceType
  <2>3. CASE WillBack(w, n, l, s, m, k)
    <3>1. lsrc'[w][m].kind = k \/ Releases(agenda'[w], m, k)
      BY <1>1, <2>2, <2>3 DEF WillBack
    <3>2. Backs(w, shm.src[c].name, shm.src[c].kind)' BY <2>1, <3>1 DEF Backs, Releases
    <3> QED BY <3>2
  <2>4. CASE shm.src[c].publishing /\ m = shm.src[c].name /\ k = shm.src[c].kind /\ ~Backs(w, m, k)
    <3>1. crashes = 0 BY <1>2 DEF Turn
    <3>2. PICK x \in Slots : Backs(x, m, k) BY <2>4, <3>1 DEF ClaimInv, Claims
    <3>3. x # w BY <2>4, <3>2
    <3>4. lsrc'[x] = lsrc[x] /\ agenda'[x] = agenda[x] BY <1>1, <3>3
    <3>5. Backs(x, shm.src[c].name, shm.src[c].kind)' BY <2>1, <3>2, <3>4 DEF Backs, Releases
    <3> QED BY <3>5
  <2> QED BY <1>2, <2>1, <2>3, <2>4
<1> QED BY <1>2 DEF Claims

(* A step that makes no claim and gives up none. *)
LEMMA TurnKeeps ==
    ASSUME IndInv, IndInv', ClaimInv, NEW w \in Slots, NEW n \in Names, NEW l, NEW s,
           Turn(w, n, l, s), Fit(w, n, l, s), NoClaim(shm, shm'),
           \/ lsrc[w][n].kind \in {"none", l.kind}
           \/ Releases(s, n, lsrc[w][n].kind),
           \A m \in Names, k \in Kinds : Releases(agenda[w], m, k) => Releases(s, m, k)
    PROVE  ClaimInv'
<1>0. RegInv(shm) /\ RegInv(shm') /\ lsess' \in [Slots -> [Ufrags -> LocalSession]]
  BY DEF IndInv, Types
<1>1. ClaimsLive(shm') BY NoClaimLive
<1>2. \A x \in Slots : Tagged(x)' BY <1>0, TurnTagged
<1>3. ASSUME NEW c \in Cells, shm'.src[c].publishing
      PROVE  \/ WillBack(w, n, l, s, shm'.src[c].name, shm'.src[c].kind)
             \/ /\ shm.src[c].publishing
                /\ shm'.src[c].name = shm.src[c].name /\ shm'.src[c].kind = shm.src[c].kind
                /\ ~Backs(w, shm.src[c].name, shm.src[c].kind)
  <2>1. /\ shm.src[c].publishing
        /\ shm'.src[c].name = shm.src[c].name /\ shm'.src[c].kind = shm.src[c].kind
    BY <1>3 DEF NoClaim
  <2>2. PICK m, k : m = shm.src[c].name /\ k = shm.src[c].kind OBVIOUS
  <2>3. m \in Names /\ k \in Kinds /\ k # "none"
    <3>1. shm \in RegType /\ NoOrphanIn(shm) BY <1>0 DEF RegInv
    <3>2. shm.src[c] \in SourceType BY <3>1 DEF RegType
    <3> QED BY <2>1, <2>2, <3>1, <3>2 DEF SourceType, NoOrphanIn
  <2>4. Backs(w, m, k) => WillBack(w, n, l, s, m, k)
    <3>1. CASE Releases(agenda[w], m, k) BY <2>3, <3>1 DEF WillBack
    <3>2. CASE lsrc[w][m].kind = k /\ m # n BY <3>2 DEF WillBack
    <3>3. CASE lsrc[w][m].kind = k /\ m = n BY <2>3, <3>3 DEF WillBack
    <3> QED BY <3>1, <3>2, <3>3 DEF Backs
  <2> QED BY <2>1, <2>2, <2>4
<1>4. Claims' BY <1>0, <1>3, TurnClaims
<1> QED BY <1>1, <1>2, <1>4 DEF ClaimInv

(* A claim, granted or refused, of a worker between handlers that backs no  *)
(* claim of another kind.                                                   *)
LEMMA TurnTries ==
    ASSUME IndInv, IndInv', ClaimInv, NEW w \in Slots, NEW n \in Names, NEW l, NEW s,
           NEW kind \in Kinds \ {"none"}, Idle(w),
           Turn(w, n, l, s), Fit(w, n, l, s), shm' = TryPublish(shm, n, kind),
           IF PublishBusy(shm, n, kind) THEN lsrc[w][n].kind \in {"none", kind}
           ELSE l.kind = kind \/ Releases(s, n, kind)
    PROVE  ClaimInv'
<1>0. /\ RegInv(shm) /\ RegInv(shm') /\ lsess' \in [Slots -> [Ufrags -> LocalSession]]
      /\ ClaimsLive(shm)
  BY DEF IndInv, Types, ClaimInv
<1>1. IF PublishBusy(shm, n, kind)
      THEN /\ NoClaim(shm, shm')
           /\ \A c \in Cells : shm'.src[c].publishing /\ shm'.src[c].name = n
                => shm'.src[c].kind # kind
      ELSE /\ ClaimsLive(shm')
           /\ \A c \in Cells : shm'.src[c].publishing =>
                \/ shm'.src[c].name = n /\ shm'.src[c].kind = kind
                \/ /\ shm'.src[c].name # n /\ shm.src[c].publishing
                   /\ shm'.src[c].name = shm.src[c].name /\ shm'.src[c].kind = shm.src[c].kind
  BY <1>0, TryClaims
<1>2. ClaimsLive(shm') BY <1>1, NoClaimLive
<1>3. \A x \in Slots : Tagged(x)' BY <1>0, TurnTagged
<1>4. \A m, k : ~Releases(agenda[w], m, k) BY DEF Idle, Releases
<1>5. ASSUME NEW c \in Cells, shm'.src[c].publishing
      PROVE  \/ WillBack(w, n, l, s, shm'.src[c].name, shm'.src[c].kind)
             \/ /\ shm.src[c].publishing
                /\ shm'.src[c].name = shm.src[c].name /\ shm'.src[c].kind = shm.src[c].kind
                /\ ~Backs(w, shm.src[c].name, shm.src[c].kind)
  <2>1. shm'.src[c].kind # "none" BY <1>0, <1>5 DEF RegInv, NoOrphanIn
  <2>2. CASE PublishBusy(shm, n, kind)
    <3>1. /\ shm.src[c].publishing
          /\ shm'.src[c].name = shm.src[c].name /\ shm'.src[c].kind = shm.src[c].kind
      BY <1>1, <1>5, <2>2 DEF NoClaim
    <3>2. CASE shm.src[c].name # n BY <1>4, <3>1, <3>2 DEF WillBack, Backs
    <3>3. CASE shm.src[c].name = n
      <4>1. shm.src[c].kind # kind BY <1>1, <1>5, <2>2, <3>1, <3>3
      <4>2. lsrc[w][n].kind # shm.src[c].kind BY <2>1, <2>2, <3>1, <4>1
      <4> QED BY <1>4, <3>1, <3>3, <4>2 DEF Backs
    <3> QED BY <3>2, <3>3
  <2>3. CASE ~PublishBusy(shm, n, kind)
    <3>1. CASE shm'.src[c].name = n /\ shm'.src[c].kind = kind BY <2>3, <3>1 DEF WillBack
    <3>2. CASE /\ shm'.src[c].name # n /\ shm.src[c].publishing
               /\ shm'.src[c].name = shm.src[c].name /\ shm'.src[c].kind = shm.src[c].kind
      BY <1>4, <3>2 DEF WillBack, Backs
    <3> QED BY <1>1, <1>5, <2>3, <3>1, <3>2
  <2> QED BY <2>2, <2>3
<1>6. Claims' BY <1>0, <1>5, TurnClaims
<1> QED BY <1>2, <1>3, <1>6 DEF ClaimInv

-----------------------------------------------------------------------------
(* Steps of a worker and the claims it backs *)

LEMMA SoundSources ==
    ASSUME NEW s \in LocalSource, Sound(s)
    PROVE  /\ Sound(AbsentSource)
           /\ Sound(Created(s)) /\ Created(s).here /\ Created(s).kind = s.kind
           /\ Sound(Cleared(s)) /\ Cleared(s).kind = "none"
           /\ Sound(Cleared(Created(s))) /\ Cleared(Created(s)).kind = "none"
           /\ \A k \in Kinds : Sound(Claimed(s, k)) /\ Claimed(s, k).kind = k
           /\ \A c \in Pointers :
                /\ Cached(s, c).kind = s.kind
                /\ s.kind # "none" \/ c = NoCell => Sound(Cached(s, c))
                /\ Mirrored(s, c).kind = "whip"
                /\ s.here => Sound(Mirrored(s, c))
           /\ \A H : Sound(Removed(s, H)) /\ Removed(s, H).kind = s.kind
<1>1. Sound(AbsentSource) /\ AbsentSource.kind = "none" BY DEF AbsentSource, Sound
<1>2. /\ Created(s) \in LocalSource /\ Cleared(s) \in LocalSource
      /\ Cleared(Created(s)) \in LocalSource
  BY SourceTypes
<1>3. Created(s).here /\ Created(s).kind = s.kind /\ Sound(Created(s))
  <2>1. CASE s.here BY <2>1 DEF Created
  <2>2. CASE ~s.here
    <3>1. s.kind = "none" BY <2>2 DEF Sound
    <3>2. Created(s).ptr = NoCell BY <2>2 DEF Created, AbsentSource
    <3> QED BY <2>2, <3>1, <3>2, SourceFields DEF Sound
  <2> QED BY <2>1, <2>2
<1>4. ASSUME NEW t \in LocalSource PROVE Sound(Cleared(t)) /\ Cleared(t).kind = "none"
  BY DEF Cleared, LocalSource, Sound
<1>5. ASSUME NEW k \in Kinds PROVE Sound(Claimed(s, k)) /\ Claimed(s, k).kind = k
  <2>1. Claimed(s, k).ptr = NoCell BY <1>2 DEF Claimed, LocalSource
  <2> QED BY <2>1, SourceFields DEF Sound
<1>6. ASSUME NEW c \in Pointers
      PROVE  /\ Cached(s, c).kind = s.kind
             /\ s.kind # "none" \/ c = NoCell => Sound(Cached(s, c))
             /\ Mirrored(s, c).kind = "whip"
             /\ s.here => Sound(Mirrored(s, c))
  <2>1. Cached(s, c).ptr = c BY DEF Cached, LocalSource
  <2> QED BY <2>1, SourceFields DEF Sound
<1>7. ASSUME NEW H PROVE Sound(Removed(s, H)) /\ Removed(s, H).kind = s.kind
  BY <1>1 DEF Removed
<1> QED BY <1>1, <1>2, <1>3, <1>4, <1>5, <1>6, <1>7

(* No publisher session opens, or moves to another source, at w. *)
SamePublishers(w) ==
    \A u \in Ufrags : Has(w, u)' /\ lsess'[w][u].pub =>
        Has(w, u) /\ lsess[w][u].pub /\ lsess[w][u].name = lsess'[w][u].name

(* What is left of a handler that neither claims nor mirrors any more. *)
Settled(s) == \A i \in DOMAIN s : s[i].op # "ptr" /\ s[i].op # "mirror"

LEMMA SameFit ==
    ASSUME ClaimInv, NEW w \in Slots, NEW n \in Names, NEW l, Sound(l), NEW s, Settled(s),
           SamePublishers(w),
           l.kind # "rtmp" \/ l.kind = lsrc[w][n].kind
    PROVE  Fit(w, n, l, s)
<1>1. Tagged(w) BY DEF ClaimInv
<1>2. ASSUME NEW u \in Ufrags, Has(w, u)', lsess'[w][u].pub
      PROVE  IF lsess'[w][u].name = n THEN l.kind # "rtmp"
             ELSE /\ Has(w, u) /\ lsess[w][u].pub
                  /\ lsess[w][u].name = lsess'[w][u].name
  <2>1. Has(w, u) /\ lsess[w][u].pub /\ lsess[w][u].name = lsess'[w][u].name
    BY <1>2 DEF SamePublishers
  <2>2. lsrc[w][lsess[w][u].name].kind # "rtmp" BY <1>1, <2>1 DEF Tagged
  <2> QED BY <2>1, <2>2
<1> QED BY <1>2 DEF Fit, Settled

(* A step of w that leaves its sources alone. *)
LEMMA QuietTurn ==
    ASSUME IndInv, IndInv', ClaimInv, NEW w \in Slots, NEW s, Settled(s), SamePublishers(w),
           NoClaim(shm, shm'), lsrc' = lsrc, agenda' = [agenda EXCEPT ![w] = s],
           \A x \in Slots : x # w => lsess'[x] = lsess[x], crashes' = crashes,
           \A m \in Names, k \in Kinds : Releases(agenda[w], m, k) => Releases(s, m, k)
    PROVE  ClaimInv'
<1>1. PICK n : n = AnyName OBVIOUS
<1>2. n \in Names BY <1>1, ShmSets DEF AnyName
<1>3. PICK l : l = lsrc[w][n] OBVIOUS
<1>4. lsrc' = [lsrc EXCEPT ![w][n] = l] BY <1>2, <1>3 DEF IndInv, Types
<1>5. Sound(l) BY <1>2, <1>3 DEF ClaimInv, Tagged
<1>6. Turn(w, n, l, s) BY <1>4 DEF Turn
<1>7. Fit(w, n, l, s) BY <1>2, <1>3, <1>5, SameFit
<1>8. lsrc[w][n].kind \in {"none", l.kind} BY <1>3
<1> QED BY <1>2, <1>6, <1>7, <1>8, TurnKeeps

LEMMA QuietCall ==
    ASSUME IndInv, ClaimInv, Unclaimed(shm, shm') PROVE NoClaim(shm, shm')
BY UnclaimedCalls DEF IndInv, Types, ClaimInv

(* A handler that makes its only locked call, and it is no claim. *)
LEMMA IdleTurn ==
    ASSUME IndInv, IndInv', ClaimInv, NEW w \in Slots, Idle(w), SamePublishers(w),
           Unclaimed(shm, shm'), lsrc' = lsrc, agenda' = agenda,
           \A x \in Slots : x # w => lsess'[x] = lsess[x], crashes' = crashes
    PROVE  ClaimInv'
<1>1. PICK s : s = agenda[w] OBVIOUS
<1>2. s = <<>> BY <1>1 DEF Idle
<1>3. agenda' = [agenda EXCEPT ![w] = s] BY <1>1 DEF IndInv, Types
<1>4. Settled(s) BY <1>2 DEF Settled
<1>5. \A m \in Names, k \in Kinds : Releases(agenda[w], m, k) => Releases(s, m, k) BY <1>1
<1>6. NoClaim(shm, shm') BY QuietCall
<1> QED BY <1>3, <1>4, <1>5, <1>6, QuietTurn

LEMMA PlayAbortedClaims ==
    ASSUME IndInv, IndInv', ClaimInv, NEW w \in Slots, NEW u, NEW n \in Names,
           PlayAborted(w, u, n)
    PROVE  ClaimInv'
<1>1. Unclaimed(shm, shm') BY DEF PlayAborted, Unclaimed
<1>2. /\ Idle(w) /\ lsrc' = lsrc /\ agenda' = agenda /\ lsess' = lsess /\ crashes' = crashes
  BY DEF PlayAborted
<1>3. SamePublishers(w) BY <1>2 DEF SamePublishers, Has
<1> QED BY <1>1, <1>2, <1>3, IdleTurn

LEMMA RtmpFastClaims ==
    ASSUME IndInv, IndInv', ClaimInv, NEW w \in Slots, NEW n \in Names, RtmpFast(w, n)
    PROVE  ClaimInv'
<1>1. lsrc[w][n].ptr \in Cells
  <2>1. lsrc[w][n] \in LocalSource BY DEF IndInv, Types
  <2> QED BY <2>1 DEF RtmpFast, LocalSource, Pointers
<1>2. Unclaimed(shm, shm') BY <1>1 DEF RtmpFast, Unclaimed
<1>3. /\ Idle(w) /\ lsrc' = lsrc /\ agenda' = agenda /\ lsess' = lsess /\ crashes' = crashes
  BY DEF RtmpFast
<1>4. SamePublishers(w) BY <1>3 DEF SamePublishers, Has
<1> QED BY <1>2, <1>3, <1>4, IdleTurn

LEMMA PacketClaims ==
    ASSUME IndInv, IndInv', ClaimInv, NEW w \in Slots, NEW u \in Ufrags,
           Stun(w, u) \/ Dtls(w, u) \/ DtlsDone(w, u)
    PROVE  ClaimInv'
<1>0. Types BY DEF IndInv
<1>1. /\ Idle(w) /\ Has(w, u) /\ agenda' = agenda /\ lsrc' = lsrc /\ crashes' = crashes
  BY DEF Stun, Dtls, DtlsDone, Has, NoSession
<1>2. lsess[w][u].st \in States BY <1>0, <1>1, HasState
<1>3. PICK st \in States :
        /\ lsess' = [lsess EXCEPT ![w][u] = Moved(lsess[w][u], st)]
        /\ shm' = SessionSetState(shm, u, w, st) \/ shm' = SessionActivate(shm, u, w)
  BY <1>2, OnStunState DEF Stun, Dtls, DtlsDone, States
<1>4. Unclaimed(shm, shm') BY <1>3 DEF Unclaimed
<1>5. /\ lsess'[w][u].st = st /\ lsess'[w][u].name = lsess[w][u].name
      /\ lsess'[w][u].pub = lsess[w][u].pub
      /\ \A x \in Slots, v \in Ufrags : x # w \/ v # u => lsess'[x][v] = lsess[x][v]
      /\ \A x \in Slots : x # w => lsess'[x] = lsess[x]
  <2>1. lsess' = [lsess EXCEPT ![w][u] = Moved(lsess[w][u], st)] BY <1>3
  <2> QED BY <1>0, <2>1, StateWritten, Zenon
<1>6. SamePublishers(w)
  <2>1. ASSUME NEW v \in Ufrags, Has(w, v)', lsess'[w][v].pub
        PROVE  Has(w, v) /\ lsess[w][v].pub /\ lsess[w][v].name = lsess'[w][v].name
    <3>1. CASE v = u BY <1>1, <1>5, <2>1, <3>1
    <3>2. CASE v # u BY <1>5, <2>1, <3>2 DEF Has
    <3> QED BY <3>1, <3>2
  <2> QED BY <2>1 DEF SamePublishers
<1> QED BY <1>1, <1>4, <1>5, <1>6, IdleTurn

LEMMA ReapClaims ==
    ASSUME IndInv, IndInv', ClaimInv, NEW w \in Slots, Reap(w) PROVE ClaimInv'
<1>1. PICK U : U = {u \in Ufrags : Has(w, u)} OBVIOUS
<1>2. PICK a : a = Call("scan", AnyName, "none", U) OBVIOUS
<1>3. a.op = "scan" BY <1>2 DEF Call
<1>4. /\ lsrc' = lsrc /\ lsess' = lsess /\ crashes' = crashes /\ Idle(w)
      /\ agenda' = [agenda EXCEPT ![w] = IF \E u \in Ufrags : Has(w, u) THEN <<a>> ELSE <<>>]
  BY <1>1, <1>2 DEF Reap
<1>5. PICK s : (s = <<a>> \/ s = <<>>) /\ agenda' = [agenda EXCEPT ![w] = s] BY <1>4
<1>6. Settled(s) BY <1>3, <1>5 DEF Settled
<1>7. \A m \in Names, k \in Kinds : Releases(agenda[w], m, k) => Releases(s, m, k)
  BY <1>4 DEF Idle, Releases
<1>8. Unclaimed(shm, shm') BY DEF Reap, Unclaimed
<1>9. NoClaim(shm, shm') BY <1>8, QuietCall
<1>10. SamePublishers(w) BY <1>4 DEF SamePublishers, Has
<1> QED BY <1>4, <1>5, <1>6, <1>7, <1>9, <1>10, QuietTurn

IsRelease(a, n, k) == a.op = "release" /\ a.n = n /\ a.kind = k

(* What a call leaves: the calls after it, a release among them or made. *)
LEMMA QuietTail ==
    ASSUME IndInv, ClaimInv, NEW w \in Slots, NEW a, At(w, a), NEW s, s = Tail(agenda[w])
    PROVE  /\ Settled(s)
           /\ \A m, k : Releases(agenda[w], m, k) =>
                Releases(s, m, k) \/ IsRelease(a, m, k)
<1>1. /\ agenda[w] \in Seq(Task) /\ agenda[w] # <<>> /\ 1 \in DOMAIN agenda[w]
      /\ a = agenda[w][1]
  BY CallAt
<1>2. /\ s \in Seq(Task)
      /\ \A i \in DOMAIN s : i + 1 \in DOMAIN agenda[w] /\ s[i] = agenda[w][i + 1]
      /\ \A i \in DOMAIN agenda[w] : i = 1 \/ i - 1 \in DOMAIN s
  BY <1>1, TailAt
<1>3. Tagged(w) BY DEF ClaimInv
<1>4. ASSUME NEW i \in DOMAIN s PROVE s[i].op # "ptr" /\ s[i].op # "mirror"
  <2>1. i \in Nat /\ i # 0 BY <1>2
  <2>2. i + 1 # 1 BY <2>1
  <2> QED BY <1>2, <1>3, <2>2 DEF Tagged
<1>5. ASSUME NEW m, NEW k, NEW i \in DOMAIN agenda[w], agenda[w][i].op = "release",
             agenda[w][i].n = m, agenda[w][i].kind = k
      PROVE  Releases(s, m, k) \/ IsRelease(a, m, k)
  <2>1. CASE i = 1 BY <1>1, <1>5, <2>1 DEF IsRelease
  <2>2. CASE i # 1
    <3>1. i - 1 \in DOMAIN s BY <1>2, <2>2
    <3>2. (i - 1) + 1 = i BY <1>1
    <3>3. s[i - 1] = agenda[w][i] BY <1>2, <3>1, <3>2
    <3> QED BY <1>5, <3>1, <3>3 DEF Releases
  <2> QED BY <2>1, <2>2
<1>6. Settled(s) BY <1>4 DEF Settled
<1>7. ASSUME NEW m, NEW k, Releases(agenda[w], m, k)
      PROVE  Releases(s, m, k) \/ IsRelease(a, m, k)
  <2>1. PICK i \in DOMAIN agenda[w] : /\ agenda[w][i].op = "release"
                                      /\ agenda[w][i].n = m /\ agenda[w][i].kind = k
    BY <1>7 DEF Releases
  <2> QED BY <1>5, <2>1
<1> QED BY <1>6, <1>7

(* The calls that leave the worker's sources alone, and release nothing. *)
LEMMA PlainCallClaims ==
    ASSUME IndInv, IndInv', ClaimInv, NEW w \in Slots, NEW a, At(w, a),
           \/ a.op = "add" /\ AddSkeleton(w, a)
           \/ a.op = "slot" /\ RecordSlot(w, a)
           \/ a.op = "remove" /\ RemoveSource(w, a)
           \/ a.op = "drop" /\ DropSkeleton(w, a)
    PROVE  ClaimInv'
<1>0. RegInv(shm) /\ ClaimsLive(shm) BY DEF IndInv, Types, ClaimInv
<1>1. a.n \in Names /\ a.kind \in Kinds /\ a.U \subseteq Ufrags BY CallAt
<1>2. /\ Continue(w) /\ lsrc' = lsrc /\ lsess' = lsess /\ crashes' = crashes
      /\ a.op # "release"
  BY DEF AddSkeleton, RecordSlot, RemoveSource, DropSkeleton
<1>3. PICK s : s = Tail(agenda[w]) OBVIOUS
<1>4. agenda' = [agenda EXCEPT ![w] = s] BY <1>2, <1>3 DEF Continue
<1>5. Settled(s) /\ \A m \in Names, k \in Kinds : Releases(agenda[w], m, k) => Releases(s, m, k)
  BY <1>2, <1>3, QuietTail DEF IsRelease
<1>6. NoClaim(shm, shm')
  <2>1. CASE AddSkeleton(w, a)
    <3>1. PICK u \in a.U : shm' \in SessionAdd(shm, u, a.n, a.kind = "whip")
      BY <2>1 DEF AddSkeleton
    <3>2. PICK n, p : n = a.n /\ p = (a.kind = "whip") OBVIOUS
    <3>3. u \in Ufrags /\ n \in Names /\ p \in BOOLEAN BY <1>1, <3>2
    <3>4. shm' \in SessionAdd(shm, u, n, p) BY <3>1, <3>2
    <3> QED BY <1>0, <3>3, <3>4, AddClaims
  <2>2. CASE RecordSlot(w, a)
    <3>1. PICK c : c = lsrc[w][a.n].ptr OBVIOUS
    <3>2. lsrc[w][a.n] \in LocalSource BY <1>1 DEF IndInv, Types
    <3>3. c = NoCell \/ c \in Cells BY <3>1, <3>2 DEF LocalSource, Pointers
    <3>4. shm' = IF c = NoCell THEN shm ELSE Heartbeat(SetPublisherSlot(shm, c, w), c)
      BY <2>2, <3>1 DEF RecordSlot
    <3>5. Unclaimed(shm, shm') BY <3>3, <3>4 DEF Unclaimed
    <3> QED BY <3>5, QuietCall
  <2>3. CASE RemoveSource(w, a)
    <3>1. Unclaimed(shm, shm') BY <1>1, <2>3 DEF RemoveSource, Unclaimed
    <3> QED BY <3>1, QuietCall
  <2>4. CASE DropSkeleton(w, a)
    <3>1. Unclaimed(shm, shm') BY <1>1, <2>4 DEF DropSkeleton, Unclaimed
    <3> QED BY <3>1, QuietCall
  <2> QED BY <2>1, <2>2, <2>3, <2>4
<1>7. SamePublishers(w) BY <1>2 DEF SamePublishers, Has
<1> QED BY <1>2, <1>4, <1>5, <1>6, <1>7, QuietTurn

LEMMA WhipSourceClaims ==
    ASSUME IndInv, IndInv', ClaimInv, NEW w \in Slots, NEW a, At(w, a), a.op = "get",
           WhipSource(w, a)
    PROVE  ClaimInv'
<1>1. /\ a.n \in Names /\ agenda[w] \in Seq(Task) /\ agenda[w] # <<>>
      /\ 1 \in DOMAIN agenda[w] /\ a = agenda[w][1] /\ Shape(agenda[w])
  BY CallAt
<1>2. PICK t : t = Tail(agenda[w]) OBVIOUS
<1>3. PICK t2 : t2 = Tail(t) OBVIOUS
<1>4. /\ t \in Seq(Task)
      /\ \A i \in DOMAIN t : i + 1 \in DOMAIN agenda[w] /\ t[i] = agenda[w][i + 1]
      /\ \A i \in DOMAIN agenda[w] : i = 1 \/ i - 1 \in DOMAIN t
  BY <1>1, <1>2, TailAt
<1>5. PICK s : /\ s = t \/ (s = t2 /\ a.U # {})
               /\ agenda' = [agenda EXCEPT ![w] = s]
  <2>1. PICK o : agenda' = [agenda EXCEPT ![w] = IF o.ptr = NoCell /\ a.U # {} THEN t2 ELSE t]
    BY <1>2, <1>3 DEF WhipSource
  <2> QED BY <2>1
<1>6. Settled(t) /\ \A m \in Names, k \in Kinds : Releases(agenda[w], m, k) => Releases(t, m, k)
  BY <1>2, QuietTail DEF IsRelease
<1>7. Settled(s) /\ \A m \in Names, k \in Kinds : Releases(agenda[w], m, k) => Releases(s, m, k)
  <2>1. CASE s = t BY <1>6, <2>1
  <2>2. CASE s = t2 /\ a.U # {}
    <3>1. 1 + 1 \in DOMAIN agenda[w] /\ agenda[w][1 + 1].op = "add" BY <1>1, <2>2 DEF Shape
    <3>2. (1 + 1) - 1 = 1 /\ 1 + 1 # 1 OBVIOUS
    <3>3. 1 \in DOMAIN t BY <1>4, <3>1, <3>2
    <3>4. t[1].op = "add" BY <1>4, <3>1, <3>3
    <3>5. t # <<>> BY <3>3
    <3>6. /\ \A i \in DOMAIN s : i + 1 \in DOMAIN t /\ s[i] = t[i + 1]
          /\ \A i \in DOMAIN t : i = 1 \/ i - 1 \in DOMAIN s
      BY <1>3, <1>4, <2>2, <3>5, TailAt
    <3>7. Settled(s) BY <1>6, <3>6 DEF Settled
    <3>8. ASSUME NEW m \in Names, NEW k \in Kinds, Releases(t, m, k) PROVE Releases(s, m, k)
      <4>1. PICK i \in DOMAIN t : t[i].op = "release" /\ t[i].n = m /\ t[i].kind = k
        BY <3>8 DEF Releases
      <4>2. i # 1 BY <3>4, <4>1
      <4>3. i - 1 \in DOMAIN s BY <3>6, <4>2
      <4>4. (i - 1) + 1 = i BY <1>4
      <4>5. s[i - 1] = t[i] BY <3>6, <4>3, <4>4
      <4> QED BY <4>1, <4>3, <4>5 DEF Releases
    <3> QED BY <1>6, <3>7, <3>8
  <2> QED BY <1>5, <2>1, <2>2
<1>8. Unclaimed(shm, shm') BY <1>1 DEF WhipSource, Unclaimed
<1>9. NoClaim(shm, shm') BY <1>8, QuietCall
<1>10. lsrc' = lsrc /\ lsess' = lsess /\ crashes' = crashes BY DEF WhipSource
<1>11. SamePublishers(w) BY <1>10 DEF SamePublishers, Has
<1> QED BY <1>5, <1>7, <1>9, <1>10, <1>11, QuietTurn

LEMMA PublishStateClaims ==
    ASSUME IndInv, IndInv', ClaimInv, NEW w \in Slots, NEW a, At(w, a), a.op = "state",
           PublishState(w, a)
    PROVE  ClaimInv'
<1>0. Types BY DEF IndInv
<1>1. a.U \subseteq Ufrags /\ Backed(w, a) BY CallAt
<1>2. PICK u \in a.U :
        /\ lsess' = [lsess EXCEPT ![w][u].st = OnStun(lsess[w][u].st)]
        /\ shm' = SessionSetState(shm, u, w, OnStun(lsess[w][u].st))
  BY DEF PublishState
<1>3. Continue(w) /\ lsrc' = lsrc /\ crashes' = crashes BY DEF PublishState
<1>4. PICK st : st = OnStun(lsess[w][u].st) OBVIOUS
<1>5. u \in Ufrags /\ Has(w, u) BY <1>1 DEF Backed
<1>6. st \in States
  <2>1. lsess[w][u].st \in States BY <1>0, <1>5, HasState
  <2> QED BY <1>4, <2>1, OnStunState
<1>7. Unclaimed(shm, shm') BY <1>2, <1>4, <1>5, <1>6 DEF Unclaimed
<1>8. NoClaim(shm, shm') BY <1>7, QuietCall
<1>9. PICK k : k = [lsess[w][u] EXCEPT !.st = st] OBVIOUS
<1>10. k \in LocalSession /\ k.name = lsess[w][u].name /\ k.pub = lsess[w][u].pub
  <2>1. lsess[w][u] \in LocalSession BY <1>0, <1>5 DEF Types
  <2> QED BY <1>6, <1>9, <2>1 DEF LocalSession
<1>11. lsess' = [lsess EXCEPT ![w][u] = k] BY <1>2, <1>4, <1>9
<1>12. /\ lsess' \in [Slots -> [Ufrags -> LocalSession]]
       /\ lsess'[w][u] = k
       /\ \A x \in Slots, v \in Ufrags : x # w \/ v # u => lsess'[x][v] = lsess[x][v]
       /\ \A x \in Slots : x # w => lsess'[x] = lsess[x]
  BY <1>0, <1>5, <1>10, <1>11, SessionWritten
<1>13. SamePublishers(w)
  <2>1. ASSUME NEW v \in Ufrags, Has(w, v)', lsess'[w][v].pub
        PROVE  Has(w, v) /\ lsess[w][v].pub /\ lsess[w][v].name = lsess'[w][v].name
    <3>1. CASE v = u BY <1>5, <1>10, <1>12, <2>1, <3>1
    <3>2. CASE v # u BY <1>12, <2>1, <3>2 DEF Has
    <3> QED BY <3>1, <3>2
  <2> QED BY <2>1 DEF SamePublishers
<1>14. PICK s : s = Tail(agenda[w]) OBVIOUS
<1>15. Settled(s) /\ \A m \in Names, j \in Kinds : Releases(agenda[w], m, j) => Releases(s, m, j)
  BY <1>14, QuietTail DEF IsRelease
<1>16. agenda' = [agenda EXCEPT ![w] = s] BY <1>3, <1>14 DEF Continue
<1> QED BY <1>3, <1>8, <1>12, <1>13, <1>15, <1>16, QuietTurn

(* A step of w that writes its source n, keeps what it says of the          *)
(* publisher or clears what it will release, and claims nothing.            *)
LEMMA SourceTurn ==
    ASSUME IndInv, IndInv', ClaimInv, NEW w \in Slots, NEW n \in Names, NEW l, Sound(l),
           NEW s, Settled(s), SamePublishers(w), Turn(w, n, l, s), NoClaim(shm, shm'),
           \/ l.kind = lsrc[w][n].kind
           \/ l.kind = "whip" /\ lsrc[w][n].kind = "none"
           \/ l.kind = "none" /\ Releases(s, n, lsrc[w][n].kind),
           \A m \in Names, k \in Kinds : Releases(agenda[w], m, k) => Releases(s, m, k)
    PROVE  ClaimInv'
<1>1. Fit(w, n, l, s) BY SameFit
<1>2. lsrc[w][n].kind \in {"none", l.kind} \/ Releases(s, n, lsrc[w][n].kind) OBVIOUS
<1> QED BY <1>1, <1>2, TurnKeeps

LEMMA NoReleases == \A m, k : ~Releases(<<>>, m, k)
BY DEF Releases

LEMMA PlayClaims ==
    ASSUME IndInv, IndInv', ClaimInv, NEW w \in Slots, NEW u \in Ufrags, NEW n \in Names,
           Play(w, u, n)
    PROVE  ClaimInv'
<1>0. Types BY DEF IndInv
<1>1. PICK l : l = Created(lsrc[w][n]) OBVIOUS
<1>2. Sound(l) /\ l.kind = lsrc[w][n].kind
  <2>1. lsrc[w][n] \in LocalSource /\ Sound(lsrc[w][n]) BY <1>0 DEF Types, ClaimInv, Tagged
  <2> QED BY <1>1, <2>1, SoundSources
<1>3. PICK k : k = NewLocal(n, FALSE) OBVIOUS
<1>4. k \in LocalSession /\ ~k.pub BY <1>3, SessionTypes DEF NewLocal
<1>5. PICK a : a = Call("add", n, "none", {u}) OBVIOUS
<1>6. a.op = "add" BY <1>5 DEF Call
<1>7. PICK s : s = <<a>> OBVIOUS
<1>8. Settled(s) BY <1>6, <1>7 DEF Settled
<1>9. /\ Idle(w) /\ lsrc' = [lsrc EXCEPT ![w][n] = l] /\ crashes' = crashes
      /\ lsess' = [lsess EXCEPT ![w][u] = k] /\ agenda' = [agenda EXCEPT ![w] = s]
  BY <1>1, <1>3, <1>5, <1>7 DEF Play
<1>10. /\ lsess' \in [Slots -> [Ufrags -> LocalSession]]
       /\ lsess'[w][u] = k
       /\ \A x \in Slots, v \in Ufrags : x # w \/ v # u => lsess'[x][v] = lsess[x][v]
       /\ \A x \in Slots : x # w => lsess'[x] = lsess[x]
  BY <1>0, <1>4, <1>9, SessionWritten
<1>11. SamePublishers(w) BY <1>4, <1>10 DEF SamePublishers, Has
<1>12. Turn(w, n, l, s) BY <1>9, <1>10 DEF Turn
<1>13. Unclaimed(shm, shm') BY DEF Play, Unclaimed
<1>14. NoClaim(shm, shm') BY <1>13, QuietCall
<1>15. \A m \in Names, j \in Kinds : Releases(agenda[w], m, j) => Releases(s, m, j)
  BY <1>9, NoReleases DEF Idle
<1> QED BY <1>2, <1>8, <1>11, <1>12, <1>14, <1>15, SourceTurn

LEMMA CloseClaims ==
    ASSUME IndInv, IndInv', ClaimInv, NEW w \in Slots, NEW u \in Ufrags, CloseLocal(w, u),
           NEW t \in Seq(Task), t = <<>> \/ \E b \in Task : b.op = "scan" /\ t = <<b>>,
           agenda' = [agenda EXCEPT ![w] = CloseCalls(w, u) \o t],
           \A m, k : ~Releases(agenda[w], m, k), shm' = shm, crashes' = crashes
    PROVE  ClaimInv'
<1>0. Types BY DEF IndInv
<1>1. PICK n : n = lsess[w][u].name OBVIOUS
<1>2. n \in Names BY <1>0, <1>1 DEF Types, LocalSession
<1>3. PICK s : s = CloseCalls(w, u) \o t OBVIOUS
<1>4. Closing(s, w, u, t)
  <2>1. Closing(CloseCalls(w, u) \o t, w, u, t) BY <1>0, CloseCallsShape
  <2> QED BY <1>3, <2>1
<1>5. Settled(s)
  <2>1. ASSUME NEW i \in DOMAIN s PROVE s[i].op # "ptr" /\ s[i].op # "mirror"
    <3>1. s[i].op \in {"release", "remove"} \/ s[i].op = "drop" \/ t = <<s[i]>>
      BY <1>4 DEF Closing
    <3>2. CASE t = <<s[i]>>
      <4>1. t # <<>> /\ t[1] = s[i] BY <3>2
      <4>2. PICK b \in Task : b.op = "scan" /\ t = <<b>> BY <4>1
      <4>3. b = s[i] BY <4>1, <4>2
      <4> QED BY <4>2, <4>3
    <3> QED BY <3>1, <3>2
  <2> QED BY <2>1 DEF Settled
<1>6. lsrc[w][n].kind = "whip" => Releases(s, n, "whip")
  <2>1. CASE lsrc[w][n].kind = "whip"
    <3>1. PICK i \in DOMAIN s : s[i] = Call("release", n, "whip", {})
      BY <1>1, <1>4, <2>1 DEF Closing
    <3>2. s[i].op = "release" /\ s[i].n = n /\ s[i].kind = "whip" BY <3>1 DEF Call
    <3> QED BY <3>2 DEF Releases
  <2> QED BY <2>1
<1> DEFINE q == IF lsrc[w][n].kind = "whip" THEN Cleared(lsrc[w][n]) ELSE lsrc[w][n]
<1>7. PICK l : l = Removed(q, Holders(w, n) \ {u}) OBVIOUS
<1>8. lsrc' = [lsrc EXCEPT ![w][n] = l] BY <1>1, <1>7 DEF CloseLocal
<1>9. lsrc[w][n] \in LocalSource /\ Sound(lsrc[w][n])
  BY <1>0, <1>2 DEF Types, ClaimInv, Tagged
<1>10. /\ q \in LocalSource /\ Sound(q)
       /\ q.kind = IF lsrc[w][n].kind = "whip" THEN "none" ELSE lsrc[w][n].kind
  BY <1>9, SourceTypes, SoundSources
<1> HIDE DEF q
<1>11. Sound(l) /\ l.kind = q.kind BY <1>7, <1>10, SoundSources
<1>12. \/ l.kind = lsrc[w][n].kind
       \/ l.kind = "none" /\ Releases(s, n, lsrc[w][n].kind)
  BY <1>6, <1>10, <1>11
<1>13. /\ lsess'[w][u] = AbsentSession
       /\ \A x \in Slots, v \in Ufrags : x # w \/ v # u => lsess'[x][v] = lsess[x][v]
       /\ \A x \in Slots : x # w => lsess'[x] = lsess[x]
  BY <1>0, CloseLocalStep
<1>14. SamePublishers(w) BY <1>13, SessionTypes DEF SamePublishers, Has
<1>15. agenda' = [agenda EXCEPT ![w] = s] BY <1>3
<1>16. Turn(w, n, l, s) BY <1>8, <1>13, <1>15 DEF Turn
<1>17. Unclaimed(shm, shm') BY DEF Unclaimed
<1>18. NoClaim(shm, shm') BY <1>17, QuietCall
<1> QED BY <1>2, <1>5, <1>11, <1>12, <1>14, <1>16, <1>18, SourceTurn

LEMMA HangupClaims ==
    ASSUME IndInv, IndInv', ClaimInv, NEW w \in Slots, NEW u \in Ufrags, Hangup(w, u)
    PROVE  ClaimInv'
<1>1. Types /\ <<>> \in Seq(Task) BY DEF IndInv
<1>2. CloseCalls(w, u) \in Seq(Task) BY <1>1, CloseCallsShape
<1>3. CloseCalls(w, u) \o <<>> = CloseCalls(w, u) BY <1>2, ConcatEmptySeq
<1>4. PICK t : t = <<>> OBVIOUS
<1>5. agenda' = [agenda EXCEPT ![w] = CloseCalls(w, u) \o t] BY <1>3, <1>4 DEF Hangup
<1>6. CloseLocal(w, u) /\ shm' = shm /\ crashes' = crashes /\ Idle(w) BY DEF Hangup
<1>7. \A m, k : ~Releases(agenda[w], m, k) BY <1>6, NoReleases DEF Idle
<1>8. t \in Seq(Task) BY <1>1, <1>4
<1> QED BY <1>4, <1>5, <1>6, <1>7, <1>8, CloseClaims

LEMMA ScanSessionClaims ==
    ASSUME IndInv, IndInv', ClaimInv, NEW w \in Slots, NEW a, At(w, a), a.op = "scan",
           ScanSession(w, a)
    PROVE  ClaimInv'
<1>1. /\ a.n \in Names /\ a.kind \in Kinds /\ a.U \subseteq Ufrags /\ Shape(agenda[w])
      /\ agenda[w] \in Seq(Task) /\ 1 \in DOMAIN agenda[w] /\ a = agenda[w][1]
  BY CallAt
<1>2. PICK u \in a.U :
        LET rest == IF a.U = {u} THEN <<>> ELSE <<Call("scan", a.n, a.kind, a.U \ {u})>>
        IN  \/ /\ CloseLocal(w, u)
               /\ agenda' = [agenda EXCEPT ![w] = CloseCalls(w, u) \o rest]
            \/ /\ agenda' = [agenda EXCEPT ![w] = rest]
               /\ UNCHANGED <<lsrc, lsess>>
  BY DEF ScanSession
<1>3. shm' = shm /\ crashes' = crashes /\ u \in Ufrags BY <1>1 DEF ScanSession
<1>4. \A m, k : ~Releases(agenda[w], m, k)
  <2>1. ASSUME NEW i \in DOMAIN agenda[w] PROVE agenda[w][i].op # "release"
    <3>1. i <= 1 BY <1>1 DEF Shape
    <3>2. i = 1 BY <1>1, <3>1
    <3> QED BY <1>1, <3>2
  <2> QED BY <2>1 DEF Releases
<1> DEFINE b == Call("scan", a.n, a.kind, a.U \ {u})
           t == IF a.U = {u} THEN <<>> ELSE <<b>>
<1>5. b \in Task /\ b.op = "scan" BY <1>1, CallTask
<1> HIDE DEF b
<1>6. /\ t \in Seq(Task) /\ (t = <<>> \/ \E e \in Task : e.op = "scan" /\ t = <<e>>)
      /\ Settled(t)
  BY <1>5 DEF Settled
<1>7. \/ CloseLocal(w, u) /\ agenda' = [agenda EXCEPT ![w] = CloseCalls(w, u) \o t]
      \/ agenda' = [agenda EXCEPT ![w] = t] /\ UNCHANGED <<lsrc, lsess>>
  BY <1>2 DEF b
<1> HIDE DEF t
<1>8. CASE CloseLocal(w, u) /\ agenda' = [agenda EXCEPT ![w] = CloseCalls(w, u) \o t]
  <2>1. PICK s : s = t OBVIOUS
  <2>2. /\ s \in Seq(Task) /\ (s = <<>> \/ \E e \in Task : e.op = "scan" /\ s = <<e>>)
        /\ agenda' = [agenda EXCEPT ![w] = CloseCalls(w, u) \o s] /\ CloseLocal(w, u)
    BY <1>6, <1>8, <2>1
  <2> QED BY <1>3, <1>4, <2>2, CloseClaims
<1>9. CASE agenda' = [agenda EXCEPT ![w] = t] /\ UNCHANGED <<lsrc, lsess>>
  <2>1. Unclaimed(shm, shm') BY <1>3 DEF Unclaimed
  <2>2. NoClaim(shm, shm') BY <2>1, QuietCall
  <2>3. SamePublishers(w) BY <1>9 DEF SamePublishers, Has
  <2>4. PICK s : s = t OBVIOUS
  <2>5. agenda' = [agenda EXCEPT ![w] = s] /\ Settled(s) BY <1>6, <1>9, <2>4
  <2> QED BY <1>3, <1>4, <1>9, <2>2, <2>3, <2>5, QuietTurn
<1> QED BY <1>7, <1>8, <1>9

LEMMA RtmpStopClaims ==
    ASSUME IndInv, IndInv', ClaimInv, NEW w \in Slots, NEW n \in Names, RtmpStop(w, n)
    PROVE  ClaimInv'
<1> DEFINE c == Call("release", n, "rtmp", {})
           r == Call("remove", n, "none", {})
<1>0. Types BY DEF IndInv
<1>1. /\ c.op = "release" /\ c.n = n /\ c.kind = "rtmp" /\ r.op = "remove" BY DEF Call
<1>2. PICK q : q = Cleared(lsrc[w][n]) OBVIOUS
<1>3. PICK l : l = Removed(q, Holders(w, n)) OBVIOUS
<1>4. /\ lsrc[w][n].kind = "rtmp" /\ lsrc' = [lsrc EXCEPT ![w][n] = l] /\ lsess' = lsess
      /\ agenda' = [agenda EXCEPT ![w] = <<c, r>>] /\ shm' = shm /\ crashes' = crashes
      /\ Idle(w)
  BY <1>2, <1>3 DEF RtmpStop
<1> HIDE DEF c, r
<1>5. PICK s : s = <<c, r>> OBVIOUS
<1>6. Settled(s) BY <1>1, <1>5 DEF Settled
<1>7. Releases(s, n, "rtmp")
  <2>1. 1 \in DOMAIN s /\ s[1] = c BY <1>5
  <2> QED BY <1>1, <2>1 DEF Releases
<1>8. lsrc[w][n] \in LocalSource /\ Sound(lsrc[w][n]) BY <1>0 DEF Types, ClaimInv, Tagged
<1>9. q \in LocalSource /\ Sound(q) /\ q.kind = "none"
  BY <1>2, <1>8, SourceTypes, SoundSources
<1>10. Sound(l) /\ l.kind = "none" BY <1>3, <1>9, SoundSources
<1>11. agenda' = [agenda EXCEPT ![w] = s] BY <1>4, <1>5
<1>12. Turn(w, n, l, s) BY <1>4, <1>11 DEF Turn
<1>13. Unclaimed(shm, shm') BY <1>4 DEF Unclaimed
<1>14. NoClaim(shm, shm') BY <1>13, QuietCall
<1>15. SamePublishers(w) BY <1>4 DEF SamePublishers, Has
<1>16. \A m \in Names, k \in Kinds : Releases(agenda[w], m, k) => Releases(s, m, k)
  BY <1>4, NoReleases DEF Idle
<1>17. l.kind = "none" /\ Releases(s, n, lsrc[w][n].kind) BY <1>4, <1>7, <1>10
<1> QED BY <1>6, <1>10, <1>12, <1>14, <1>15, <1>16, <1>17, SourceTurn

LEMMA CachePointerClaims ==
    ASSUME IndInv, IndInv', ClaimInv, NEW w \in Slots, NEW a, At(w, a),
           \/ a.op = "ptr" /\ CachePointer(w, a)
           \/ a.op = "mirror" /\ MirrorClaim(w, a)
    PROVE  ClaimInv'
<1>0. Types /\ RegInv(shm) /\ ClaimsLive(shm) /\ Tagged(w) BY DEF IndInv, Types, ClaimInv
<1>1. /\ a.n \in Names /\ 1 \in DOMAIN agenda[w] /\ a = agenda[w][1]
  BY CallAt
<1>2. PICK n : n = a.n OBVIOUS
<1>3. n \in Names BY <1>1, <1>2
<1>4. PICK o \in SourceGet(shm, n) :
        /\ shm' = o.reg
        /\ \/ /\ a.op = "ptr"
              /\ lsrc' = [lsrc EXCEPT ![w][n] = Cached(lsrc[w][n], o.ptr)]
           \/ /\ a.op = "mirror"
              /\ lsrc' = [lsrc EXCEPT ![w][n] = Mirrored(lsrc[w][n], o.ptr)]
  BY <1>2 DEF CachePointer, MirrorClaim
<1>5. PICK p : p = o.ptr OBVIOUS
<1>6. p \in Pointers BY <1>0, <1>3, <1>5, GetQuiet DEF Pointers
<1>7. PICK l : /\ \/ a.op = "ptr" /\ l = Cached(lsrc[w][n], p)
                  \/ a.op = "mirror" /\ l = Mirrored(lsrc[w][n], p)
               /\ lsrc' = [lsrc EXCEPT ![w][n] = l]
  BY <1>4, <1>5
<1>8. lsrc[w][n] \in LocalSource /\ Sound(lsrc[w][n]) BY <1>0, <1>3 DEF Types, Tagged
<1>9. /\ a.op = "ptr" => lsrc[w][n].kind # "none"
      /\ a.op = "mirror" => lsrc[w][n].here /\ lsrc[w][n].kind # "rtmp"
  BY <1>0, <1>1, <1>2 DEF Tagged
<1>10. lsrc[w][n].kind \in {"none", "rtmp", "whip"} BY <1>8 DEF LocalSource, Kinds
<1>11. Sound(l) /\ (l.kind = lsrc[w][n].kind \/ (l.kind = "whip" /\ lsrc[w][n].kind = "none"))
  BY <1>6, <1>7, <1>8, <1>9, <1>10, SoundSources
<1>12. Continue(w) /\ lsess' = lsess /\ crashes' = crashes BY DEF CachePointer, MirrorClaim
<1>13. PICK s : s = Tail(agenda[w]) OBVIOUS
<1>14. agenda' = [agenda EXCEPT ![w] = s] BY <1>12, <1>13 DEF Continue
<1>15. Settled(s) /\ \A m \in Names, k \in Kinds : Releases(agenda[w], m, k) => Releases(s, m, k)
  BY <1>7, <1>13, QuietTail DEF IsRelease
<1>16. Turn(w, n, l, s) BY <1>7, <1>12, <1>14 DEF Turn
<1>17. NoClaim(shm, shm') BY <1>0, <1>3, <1>4, GetClaims
<1>18. SamePublishers(w) BY <1>12 DEF SamePublishers, Has
<1> QED BY <1>3, <1>11, <1>15, <1>16, <1>17, <1>18, SourceTurn

(* A release made: what the worker backs otherwise it still backs. *)
LEMMA ReleaseClaimClaims ==
    ASSUME IndInv, IndInv', ClaimInv, NEW w \in Slots, NEW a, At(w, a), ReleaseClaim(w, a)
    PROVE  ClaimInv'
<1>0. /\ Types /\ RegInv(shm) /\ RegInv(shm') /\ ClaimsLive(shm) /\ Tagged(w)
      /\ lsess' \in [Slots -> [Ufrags -> LocalSession]]
  BY DEF IndInv, Types, ClaimInv
<1>1. a.n \in Names BY CallAt
<1>2. PICK g, q : g = a.n /\ q = a.kind OBVIOUS
<1>3. shm' = ReleasePublish(shm, g, q) /\ g \in Names BY <1>1, <1>2 DEF ReleaseClaim
<1>4. /\ NoClaim(shm, shm')
      /\ \A c \in Cells : shm'.src[c].publishing => shm'.src[c].name # g \/ shm'.src[c].kind # q
  BY <1>0, <1>3, ReleaseClaims
<1>5. PICK s : s = Tail(agenda[w]) OBVIOUS
<1>6. /\ Settled(s)
      /\ \A m, k : Releases(agenda[w], m, k) => Releases(s, m, k) \/ (m = g /\ k = q)
  <2>1. /\ Settled(s)
        /\ \A m, k : Releases(agenda[w], m, k) =>
             Releases(s, m, k) \/ IsRelease(a, m, k)
    BY <1>5, QuietTail
  <2> QED BY <1>2, <2>1 DEF IsRelease
<1>7. PICK n : n = AnyName OBVIOUS
<1>8. n \in Names BY <1>7, ShmSets DEF AnyName
<1>9. PICK l : l = lsrc[w][n] OBVIOUS
<1>10. lsrc' = lsrc /\ lsess' = lsess /\ crashes' = crashes BY DEF ReleaseClaim
<1>11. lsrc' = [lsrc EXCEPT ![w][n] = l] BY <1>0, <1>8, <1>9, <1>10 DEF Types
<1>12. agenda' = [agenda EXCEPT ![w] = s] BY <1>5 DEF ReleaseClaim, Continue
<1>13. Turn(w, n, l, s) BY <1>10, <1>11, <1>12 DEF Turn
<1>14. SamePublishers(w) BY <1>10 DEF SamePublishers, Has
<1>15. Sound(l) BY <1>0, <1>8, <1>9 DEF Tagged
<1>16. Fit(w, n, l, s) BY <1>6, <1>8, <1>9, <1>14, <1>15, SameFit
<1>17. \A x \in Slots : Tagged(x)' BY <1>0, <1>8, <1>13, <1>16, TurnTagged
<1>18. ClaimsLive(shm') BY <1>4, NoClaimLive
<1>19. ASSUME NEW c \in Cells, shm'.src[c].publishing
       PROVE  \/ WillBack(w, n, l, s, shm'.src[c].name, shm'.src[c].kind)
              \/ /\ shm.src[c].publishing
                 /\ shm'.src[c].name = shm.src[c].name /\ shm'.src[c].kind = shm.src[c].kind
                 /\ ~Backs(w, shm.src[c].name, shm.src[c].kind)
  <2>1. /\ shm.src[c].publishing
        /\ shm'.src[c].name = shm.src[c].name /\ shm'.src[c].kind = shm.src[c].kind
    BY <1>4, <1>19 DEF NoClaim
  <2>2. PICK i, j : i = shm.src[c].name /\ j = shm.src[c].kind OBVIOUS
  <2>3. i # g \/ j # q BY <1>4, <1>19, <2>1, <2>2
  <2>4. Backs(w, i, j) => WillBack(w, n, l, s, i, j) BY <1>6, <1>9, <2>3 DEF Backs, WillBack
  <2> QED BY <2>1, <2>2, <2>4
<1>20. Claims' BY <1>0, <1>8, <1>13, <1>19, TurnClaims
<1> QED BY <1>17, <1>18, <1>20 DEF ClaimInv

LEMMA ResumeClaims ==
    ASSUME IndInv, IndInv', ClaimInv, NEW w \in Slots, Resume(w) PROVE ClaimInv'
<1>1. PICK a : a = Head(agenda[w]) OBVIOUS
<1>2. At(w, a) BY <1>1 DEF Resume, At
<1>3. \/ a.op = "ptr" /\ CachePointer(w, a)
      \/ a.op = "get" /\ WhipSource(w, a)
      \/ a.op = "add" /\ AddSkeleton(w, a)
      \/ a.op = "mirror" /\ MirrorClaim(w, a)
      \/ a.op = "state" /\ PublishState(w, a)
      \/ a.op = "slot" /\ RecordSlot(w, a)
      \/ a.op = "release" /\ ReleaseClaim(w, a)
      \/ a.op = "remove" /\ RemoveSource(w, a)
      \/ a.op = "drop" /\ DropSkeleton(w, a)
      \/ a.op = "scan" /\ ScanSession(w, a)
  BY <1>1 DEF Resume
<1>4. CASE (a.op = "ptr" /\ CachePointer(w, a)) \/ (a.op = "mirror" /\ MirrorClaim(w, a))
  BY <1>2, <1>4, CachePointerClaims
<1>5. CASE a.op = "get" /\ WhipSource(w, a) BY <1>2, <1>5, WhipSourceClaims
<1>6. CASE \/ a.op = "add" /\ AddSkeleton(w, a)
           \/ a.op = "slot" /\ RecordSlot(w, a)
           \/ a.op = "remove" /\ RemoveSource(w, a)
           \/ a.op = "drop" /\ DropSkeleton(w, a)
  BY <1>2, <1>6, PlainCallClaims
<1>7. CASE a.op = "state" /\ PublishState(w, a) BY <1>2, <1>7, PublishStateClaims
<1>8. CASE ReleaseClaim(w, a) BY <1>2, <1>8, ReleaseClaimClaims
<1>9. CASE a.op = "scan" /\ ScanSession(w, a) BY <1>2, <1>9, ScanSessionClaims
<1> QED BY <1>3, <1>4, <1>5, <1>6, <1>7, <1>8, <1>9

LEMMA SettledJoined ==
    ASSUME NEW s \in Seq(Task), NEW t \in Seq(Task), Settled(s), Settled(t)
    PROVE  /\ s \o t \in Seq(Task) /\ Settled(s \o t)
           /\ \A n, k : Releases(t, n, k) => Releases(s \o t, n, k)
<1>1. /\ s \o t \in Seq(Task) /\ Len(s \o t) = Len(s) + Len(t)
      /\ \A i \in 1..(Len(s) + Len(t)) : (s \o t)[i] = IF i <= Len(s) THEN s[i] ELSE t[i - Len(s)]
  BY ConcatProperties
<1>2. Len(s) \in Nat /\ Len(t) \in Nat OBVIOUS
<1>3. ASSUME NEW i \in DOMAIN (s \o t)
      PROVE  (s \o t)[i].op # "ptr" /\ (s \o t)[i].op # "mirror"
  <2>1. i \in 1..(Len(s) + Len(t)) BY <1>1
  <2>2. CASE i <= Len(s)
    <3>1. i \in DOMAIN s BY <1>2, <2>1, <2>2
    <3> QED BY <1>1, <2>1, <2>2, <3>1 DEF Settled
  <2>3. CASE ~(i <= Len(s))
    <3>1. i - Len(s) \in DOMAIN t BY <1>2, <2>1, <2>3
    <3> QED BY <1>1, <2>1, <2>3, <3>1 DEF Settled
  <2> QED BY <2>2, <2>3
<1>4. ASSUME NEW n, NEW k, Releases(t, n, k) PROVE Releases(s \o t, n, k)
  <2>1. PICK i \in DOMAIN t : t[i].op = "release" /\ t[i].n = n /\ t[i].kind = k
    BY <1>4 DEF Releases
  <2>2. i \in 1..Len(t) OBVIOUS
  <2>3. /\ Len(s) + i \in 1..(Len(s) + Len(t)) /\ ~(Len(s) + i <= Len(s))
        /\ (Len(s) + i) - Len(s) = i
    BY <1>2, <2>2
  <2>4. Len(s) + i \in DOMAIN (s \o t) BY <1>1, <2>3
  <2>5. (s \o t)[Len(s) + i] = t[i] BY <1>1, <2>3
  <2> QED BY <2>1, <2>4, <2>5 DEF Releases
<1> QED BY <1>1, <1>3, <1>4 DEF Settled

LEMMA SettledShort ==
    /\ Settled(<<>>)
    /\ \A a \in Task : a.op # "ptr" /\ a.op # "mirror" => Settled(<<a>>)
    /\ \A a, b \in Task : a.op # "ptr" /\ a.op # "mirror" /\ b.op # "ptr" /\ b.op # "mirror"
         => Settled(<<a, b>>)
<1>1. Settled(<<>>) BY DEF Settled
<1>2. ASSUME NEW a \in Task, a.op # "ptr", a.op # "mirror" PROVE Settled(<<a>>)
  BY <1>2 DEF Settled
<1>3. ASSUME NEW a \in Task, NEW b \in Task, a.op # "ptr", a.op # "mirror",
             b.op # "ptr", b.op # "mirror"
      PROVE  Settled(<<a, b>>)
  BY <1>3 DEF Settled
<1> QED BY <1>1, <1>2, <1>3

LEMMA WhipRefusedClaims ==
    ASSUME IndInv, IndInv', ClaimInv, NEW w \in Slots, NEW u \in Ufrags, NEW n \in Names,
           WhipRefused(w, u, n)
    PROVE  ClaimInv'
<1>0. Types BY DEF IndInv
<1>1. PICK l : l = Cleared(lsrc[w][n]) OBVIOUS
<1>2. PICK s : s = <<>> OBVIOUS
<1>3. Settled(s) BY <1>2, SettledShort
<1>4. /\ Idle(w) /\ lsrc[w][n].kind # "rtmp" /\ PublishBusy(shm, n, "whip")
      /\ shm' = TryPublish(shm, n, "whip") /\ lsess' = lsess /\ crashes' = crashes
      /\ lsrc' = [lsrc EXCEPT ![w][n] = l] /\ agenda' = [agenda EXCEPT ![w] = s]
  BY <1>0, <1>1, <1>2 DEF WhipRefused, Idle, Types
<1>5. lsrc[w][n] \in LocalSource /\ Sound(lsrc[w][n]) BY <1>0 DEF Types, ClaimInv, Tagged
<1>6. lsrc[w][n].kind \in {"none", "whip"} BY <1>4, <1>5 DEF LocalSource, Kinds
<1>7. Sound(l) /\ l.kind = "none" BY <1>1, <1>5, SoundSources
<1>8. SamePublishers(w) BY <1>4 DEF SamePublishers, Has
<1>9. Fit(w, n, l, s) BY <1>3, <1>7, <1>8, SameFit
<1>10. Turn(w, n, l, s) BY <1>4 DEF Turn
<1>11. PICK kind : kind = "whip" OBVIOUS
<1>12. kind \in Kinds \ {"none"} BY <1>11 DEF Kinds
<1>13. /\ shm' = TryPublish(shm, n, kind)
       /\ IF PublishBusy(shm, n, kind) THEN lsrc[w][n].kind \in {"none", kind}
          ELSE l.kind = kind \/ Releases(s, n, kind)
  BY <1>4, <1>6, <1>11
<1> QED BY <1>4, <1>9, <1>10, <1>12, <1>13, TurnTries

LEMMA WhipAbortedClaims ==
    ASSUME IndInv, IndInv', ClaimInv, NEW w \in Slots, NEW u \in Ufrags, NEW n \in Names,
           WhipAborted(w, u, n)
    PROVE  ClaimInv'
<1>0. Types BY DEF IndInv
<1>1. PICK l : l = Cleared(lsrc[w][n]) OBVIOUS
<1> DEFINE e == Call("get", n, "whip", {})
           g == Call("get", n, "whip", {u})
           a == Call("add", n, "whip", {u})
           c == Call("release", n, "whip", {})
           r == Call("remove", n, "none", {})
           q == IF Lookup(shm, n) # {} THEN <<e>> ELSE <<>>
           t(added) == IF added THEN <<g, a>> ELSE <<>>
<1>2. /\ e \in Task /\ e.op = "get" /\ g \in Task /\ g.op = "get"
      /\ a \in Task /\ a.op = "add" /\ c \in Task /\ c.op = "release"
      /\ c.n = n /\ c.kind = "whip" /\ r \in Task /\ r.op = "remove"
  BY CallTask DEF Kinds
<1>3. PICK added \in BOOLEAN : agenda' = [agenda EXCEPT ![w] = q \o t(added) \o <<c, r>>]
  BY DEF WhipAborted
<1> HIDE DEF e, g, a, c, r
<1>4. Settled(q) /\ Settled(t(added)) /\ Settled(<<c, r>>) BY <1>2, SettledShort
<1>5. q \in Seq(Task) /\ t(added) \in Seq(Task) /\ <<c, r>> \in Seq(Task) BY <1>2
<1> HIDE DEF q, t
<1>6. Releases(<<c, r>>, n, "whip")
  <2>1. PICK z : z = <<c, r>> OBVIOUS
  <2>2. 1 \in DOMAIN z /\ z[1] = c BY <2>1
  <2>3. Releases(z, n, "whip") BY <1>2, <2>2 DEF Releases
  <2> QED BY <2>1, <2>3
<1>7. PICK s : s = q \o t(added) \o <<c, r>> OBVIOUS
<1>8. Settled(s) /\ Releases(s, n, "whip")
  <2>1. PICK y, z : y = q \o t(added) /\ z = <<c, r>> OBVIOUS
  <2>2. y \in Seq(Task) /\ Settled(y) BY <1>4, <1>5, <2>1, SettledJoined
  <2>3. z \in Seq(Task) /\ Settled(z) /\ Releases(z, n, "whip") BY <1>4, <1>5, <1>6, <2>1
  <2>4. /\ y \o z \in Seq(Task) /\ Settled(y \o z)
        /\ \A m, k : Releases(z, m, k) => Releases(y \o z, m, k)
    BY <2>2, <2>3, SettledJoined
  <2>5. s = y \o z BY <1>7, <2>1
  <2> QED BY <2>3, <2>4, <2>5
<1>9. /\ Idle(w) /\ ~PublishBusy(shm, n, "whip")
      /\ shm' = TryPublish(shm, n, "whip") /\ lsess' = lsess /\ crashes' = crashes
      /\ lsrc' = [lsrc EXCEPT ![w][n] = l] /\ agenda' = [agenda EXCEPT ![w] = s]
  BY <1>1, <1>3, <1>7 DEF WhipAborted
<1>10. lsrc[w][n] \in LocalSource /\ Sound(lsrc[w][n]) BY <1>0 DEF Types, ClaimInv, Tagged
<1>11. Sound(l) /\ l.kind = "none" BY <1>1, <1>10, SoundSources
<1>12. SamePublishers(w) BY <1>9 DEF SamePublishers, Has
<1>13. Fit(w, n, l, s) BY <1>8, <1>11, <1>12, SameFit
<1>14. Turn(w, n, l, s) BY <1>9 DEF Turn
<1>15. PICK kind : kind = "whip" OBVIOUS
<1>16. kind \in Kinds \ {"none"} BY <1>15 DEF Kinds
<1>17. /\ shm' = TryPublish(shm, n, kind)
       /\ IF PublishBusy(shm, n, kind) THEN lsrc[w][n].kind \in {"none", kind}
          ELSE l.kind = kind \/ Releases(s, n, kind)
  BY <1>8, <1>9, <1>15
<1> QED BY <1>9, <1>13, <1>14, <1>16, <1>17, TurnTries

LEMMA WhipClaims ==
    ASSUME IndInv, IndInv', ClaimInv, NEW w \in Slots, NEW u \in Ufrags, NEW n \in Names,
           Whip(w, u, n)
    PROVE  ClaimInv'
<1>0. Types BY DEF IndInv
<1>1. PICK l : l = Claimed(lsrc[w][n], "whip") OBVIOUS
<1>2. Sound(l) /\ l.kind = "whip"
  <2>1. lsrc[w][n] \in LocalSource /\ Sound(lsrc[w][n]) BY <1>0 DEF Types, ClaimInv, Tagged
  <2>2. "whip" \in Kinds BY DEF Kinds
  <2> QED BY <1>1, <2>1, <2>2, SoundSources
<1>3. PICK k : k = NewLocal(n, TRUE) OBVIOUS
<1>4. k \in LocalSession /\ k.name = n BY <1>3, SessionTypes DEF NewLocal
<1> DEFINE p == Call("ptr", n, "whip", {})
           g == Call("get", n, "whip", {u})
           a == Call("add", n, "whip", {u})
<1>5. /\ p \in Task /\ p.op = "ptr" /\ p.n = n /\ g \in Task /\ g.op = "get"
      /\ a \in Task /\ a.op = "add"
  BY CallTask DEF Kinds
<1>6. /\ Idle(w) /\ lsrc' = [lsrc EXCEPT ![w][n] = l] /\ crashes' = crashes
      /\ ~PublishBusy(shm, n, "whip") /\ shm' = TryPublish(shm, n, "whip")
      /\ lsess' = [lsess EXCEPT ![w][u] = k]
      /\ agenda' = [agenda EXCEPT ![w] =
           (IF Lookup(shm, n) # {} THEN <<p>> ELSE <<>>) \o <<g, a>>]
  BY <1>1, <1>3 DEF Whip
<1> HIDE DEF p, g, a
<1>7. PICK s : (s = <<p, g, a>> \/ s = <<g, a>>) /\ agenda' = [agenda EXCEPT ![w] = s]
  <2>1. <<p>> \o <<g, a>> = <<p, g, a>> BY <1>5, Joined12, Zenon
  <2>2. <<g, a>> \in Seq(Task) BY <1>5
  <2>3. <<>> \o <<g, a>> = <<g, a>> BY <2>2, ConcatEmptySeq
  <2> QED BY <1>6, <2>1, <2>3
<1>8. ASSUME NEW i \in DOMAIN s
      PROVE  s[i].op # "mirror" /\ (s[i].op = "ptr" => i = 1 /\ s[i].n = n)
  <2>1. CASE s = <<p, g, a>> BY <1>5, <1>8, <2>1
  <2>2. CASE s = <<g, a>> BY <1>5, <1>8, <2>2
  <2> QED BY <1>7, <2>1, <2>2
<1>9. /\ lsess' \in [Slots -> [Ufrags -> LocalSession]]
      /\ lsess'[w][u] = k
      /\ \A x \in Slots, v \in Ufrags : x # w \/ v # u => lsess'[x][v] = lsess[x][v]
      /\ \A x \in Slots : x # w => lsess'[x] = lsess[x]
  BY <1>0, <1>4, <1>6, SessionWritten
<1>10. ASSUME NEW v \in Ufrags, Has(w, v)', lsess'[w][v].pub
       PROVE  IF lsess'[w][v].name = n THEN l.kind # "rtmp"
              ELSE /\ Has(w, v) /\ lsess[w][v].pub
                   /\ lsess[w][v].name = lsess'[w][v].name
  <2>1. CASE v = u BY <1>2, <1>4, <1>9, <2>1
  <2>2. CASE v # u BY <1>2, <1>9, <1>10, <2>2 DEF Has
  <2> QED BY <2>1, <2>2
<1>11. Fit(w, n, l, s) BY <1>2, <1>8, <1>10 DEF Fit
<1>12. Turn(w, n, l, s) BY <1>6, <1>7, <1>9 DEF Turn
<1>13. PICK kind : kind = "whip" OBVIOUS
<1>14. kind \in Kinds \ {"none"} BY <1>13 DEF Kinds
<1>15. /\ shm' = TryPublish(shm, n, kind)
       /\ IF PublishBusy(shm, n, kind) THEN lsrc[w][n].kind \in {"none", kind}
          ELSE l.kind = kind \/ Releases(s, n, kind)
  BY <1>2, <1>6, <1>13
<1> QED BY <1>6, <1>11, <1>12, <1>14, <1>15, TurnTries

LEMMA SignallingClaims ==
    ASSUME IndInv, IndInv', ClaimInv, NEW w \in Slots, Signalling(w) PROVE ClaimInv'
BY PlayClaims, WhipClaims, WhipRefusedClaims, PlayAbortedClaims, WhipAbortedClaims
DEF Signalling

LEMMA WhipMediaClaims ==
    ASSUME IndInv, IndInv', ClaimInv, NEW w \in Slots, NEW u \in Ufrags, WhipMedia(w, u)
    PROVE  ClaimInv'
<1>0. Types /\ Tagged(w) BY DEF IndInv, ClaimInv
<1>1. PICK n : n = lsess[w][u].name OBVIOUS
<1>2. n \in Names BY <1>0, <1>1 DEF Types, LocalSession
<1>3. /\ Idle(w) /\ agenda' = agenda /\ lsess' = [lsess EXCEPT ![w][u].idle = 0]
      /\ crashes' = crashes /\ Has(w, u) /\ lsess[w][u].pub
  BY DEF WhipMedia, Has, NoSession
<1>4. /\ \A x \in Slots : x # w => lsess'[x] = lsess[x]
      /\ \A v \in Ufrags : /\ lsess'[w][v].st = lsess[w][v].st
                           /\ lsess'[w][v].name = lsess[w][v].name
                           /\ lsess'[w][v].pub = lsess[w][v].pub
  <2>1. \A x \in Slots, v \in Ufrags : lsess[x][v] \in LocalSession BY <1>0 DEF Types
  <2>2. \A v \in Ufrags : /\ lsess'[w][v].st = lsess[w][v].st
                          /\ lsess'[w][v].name = lsess[w][v].name
                          /\ lsess'[w][v].pub = lsess[w][v].pub
    BY <1>0, <1>3, <2>1 DEF Types, LocalSession
  <2>3. \A x \in Slots : x # w => lsess'[x] = lsess[x] BY <1>0, <1>3 DEF Types
  <2> QED BY <2>2, <2>3
<1>5. SamePublishers(w) BY <1>4 DEF SamePublishers, Has
<1>6. CASE shm' = shm /\ lsrc' = lsrc
  <2>1. Unclaimed(shm, shm') BY <1>6 DEF Unclaimed
  <2> QED BY <1>3, <1>4, <1>5, <1>6, <2>1, IdleTurn
<1>7. ASSUME lsrc[w][n].ptr # NoCell, shm' = TryPublish(shm, n, "whip"),
             NEW c, c = lsrc[w][n].ptr \/ c = NoCell,
             lsrc' = [lsrc EXCEPT ![w][n] = Cached(lsrc[w][n], c)]
      PROVE  ClaimInv'
  <2>1. lsrc[w][n] \in LocalSource /\ Sound(lsrc[w][n]) BY <1>0, <1>2 DEF Types, Tagged
  <2>2. lsrc[w][n].kind = "whip"
    <3>1. lsrc[w][n].kind # "rtmp" BY <1>0, <1>1, <1>3 DEF Tagged
    <3>2. lsrc[w][n].kind # "none" BY <1>7, <2>1 DEF Sound
    <3> QED BY <2>1, <3>1, <3>2 DEF LocalSource, Kinds
  <2>3. c \in Pointers BY <1>7, <2>1 DEF LocalSource, Pointers
  <2>4. PICK l : l = Cached(lsrc[w][n], c) OBVIOUS
  <2>5. Sound(l) /\ l.kind = "whip" BY <2>1, <2>2, <2>3, <2>4, SoundSources
  <2>6. PICK s : s = agenda[w] OBVIOUS
  <2>7. agenda' = [agenda EXCEPT ![w] = s] BY <1>0, <1>3, <2>6 DEF Types
  <2>8. Settled(s) BY <1>3, <2>6, SettledShort DEF Idle
  <2>9. Turn(w, n, l, s) BY <1>3, <1>4, <1>7, <2>4, <2>7 DEF Turn
  <2>10. Fit(w, n, l, s) BY <1>2, <1>5, <2>2, <2>5, <2>8, SameFit
  <2>11. PICK kind : kind = "whip" OBVIOUS
  <2>12. kind \in Kinds \ {"none"} BY <2>11 DEF Kinds
  <2>13. /\ shm' = TryPublish(shm, n, kind)
         /\ IF PublishBusy(shm, n, kind) THEN lsrc[w][n].kind \in {"none", kind}
            ELSE l.kind = kind \/ Releases(s, n, kind)
    BY <1>7, <2>2, <2>5, <2>11
  <2> QED BY <1>2, <1>3, <2>9, <2>10, <2>12, <2>13, TurnTries
<1>8. \/ shm' = shm /\ lsrc' = lsrc
      \/ /\ lsrc[w][n].ptr # NoCell /\ shm' = TryPublish(shm, n, "whip")
         /\ \E c : /\ c = lsrc[w][n].ptr \/ c = NoCell
                   /\ lsrc' = [lsrc EXCEPT ![w][n] = Cached(lsrc[w][n], c)]
  BY <1>1 DEF WhipMedia
<1> QED BY <1>6, <1>7, <1>8

(* No RTMP publisher and WHIP publisher of one name meet on a worker. *)
PublishersApart ==
    \A w \in Slots :
        /\ \A n \in Names : RtmpClaim(w, n) =>
             lsrc[w][n].kind # "whip" /\ \A u \in Holders(w, n) : ~lsess[w][u].pub
        /\ \A u \in Ufrags : Attach(w, u) /\ shm.sess[u].pub =>
             lsrc[w][shm.src[shm.sess[u].src].name].kind # "rtmp"

LEMMA RtmpClaimClaims ==
    ASSUME IndInv, IndInv', ClaimInv, NEW w \in Slots, NEW n \in Names, RtmpClaim(w, n),
           PublishersApart
    PROVE  ClaimInv'
<1>0. Types /\ Tagged(w) BY DEF IndInv, ClaimInv
<1>1. lsrc[w][n] \in LocalSource /\ Sound(lsrc[w][n]) BY <1>0 DEF Types, Tagged
<1>2. lsrc[w][n].kind \in {"none", "rtmp"}
  <2>1. lsrc[w][n].kind # "whip" BY DEF PublishersApart
  <2> QED BY <1>1, <2>1 DEF LocalSource, Kinds
<1>3. \A u \in Ufrags : Has(w, u) /\ lsess[w][u].pub => lsess[w][u].name # n
  BY DEF PublishersApart, Holders
<1>4. /\ Idle(w) /\ lsess' = lsess /\ crashes' = crashes
      /\ shm' = TryPublish(shm, n, "rtmp")
  BY DEF RtmpClaim
<1> DEFINE p == Call("ptr", n, "rtmp", {})
           q == Call("slot", n, "rtmp", {})
<1>5. p \in Task /\ p.op = "ptr" /\ p.n = n /\ q \in Task /\ q.op = "slot"
  BY CallTask DEF Kinds
<1>6. PICK l, s : /\ lsrc' = [lsrc EXCEPT ![w][n] = l] /\ agenda' = [agenda EXCEPT ![w] = s]
                  /\ IF PublishBusy(shm, n, "rtmp")
                     THEN l = Cleared(Created(lsrc[w][n])) /\ s = <<>>
                     ELSE l = Claimed(lsrc[w][n], "rtmp") /\ (s = <<>> \/ s = <<p, q>>)
  <2>1. CASE PublishBusy(shm, n, "rtmp")
    <3>1. agenda' = [agenda EXCEPT ![w] = <<>>] BY <1>0, <1>4, <2>1 DEF RtmpClaim, Idle, Types
    <3> QED BY <2>1, <3>1 DEF RtmpClaim
  <2>2. CASE ~PublishBusy(shm, n, "rtmp") BY <2>2 DEF RtmpClaim
  <2> QED BY <2>1, <2>2
<1> HIDE DEF p, q
<1>7. /\ Sound(l)
      /\ l.kind = IF PublishBusy(shm, n, "rtmp") THEN "none" ELSE "rtmp"
  <2>1. "rtmp" \in Kinds BY DEF Kinds
  <2> QED BY <1>1, <1>6, <2>1, SoundSources
<1>8. ASSUME NEW i \in DOMAIN s
      PROVE  s[i].op # "mirror" /\ (s[i].op = "ptr" => i = 1 /\ s[i].n = n /\ l.kind # "none")
  <2>1. s = <<p, q>> /\ l.kind = "rtmp" BY <1>6, <1>7, <1>8
  <2> QED BY <1>5, <1>8, <2>1
<1>9. \A u \in Ufrags : Has(w, u)' /\ lsess'[w][u].pub =>
        /\ lsess'[w][u].name # n
        /\ Has(w, u) /\ lsess[w][u].pub /\ lsess[w][u].name = lsess'[w][u].name
  BY <1>3, <1>4 DEF Has
<1>10. Fit(w, n, l, s) BY <1>7, <1>8, <1>9 DEF Fit
<1>11. Turn(w, n, l, s) BY <1>4, <1>6 DEF Turn
<1>12. PICK kind : kind = "rtmp" OBVIOUS
<1>13. kind \in Kinds \ {"none"} BY <1>12 DEF Kinds
<1>14. /\ shm' = TryPublish(shm, n, kind)
       /\ IF PublishBusy(shm, n, kind) THEN lsrc[w][n].kind \in {"none", kind}
          ELSE l.kind = kind \/ Releases(s, n, kind)
  BY <1>2, <1>4, <1>7, <1>12
<1> QED BY <1>4, <1>10, <1>11, <1>13, <1>14, TurnTries

LEMMA AttachClaims ==
    ASSUME IndInv, IndInv', ClaimInv, NEW w \in Slots, NEW u \in Ufrags, Attach(w, u),
           PublishersApart
    PROVE  ClaimInv'
<1>0. Types /\ RegInv(shm) /\ Tagged(w) BY DEF IndInv, Types, ClaimInv
<1>1. PICK k : k = shm.sess[u] OBVIOUS
<1>2. PICK n : n = shm.src[k.src].name OBVIOUS
<1>3. k \in SkeletonType /\ n \in Names
  <2>1. RegInv(shm) BY <1>0
  <2> QED BY <1>1, <1>2, <2>1, SkeletonFields, Zenon
<1> DEFINE e == Call("mirror", n, "whip", {})
           p == Call("state", n, "none", {u})
<1>4. e \in Task /\ e.op = "mirror" /\ e.n = n /\ p \in Task /\ p.op = "state"
  BY <1>3, CallTask DEF Kinds
<1>5. PICK l : l = Created(lsrc[w][n]) OBVIOUS
<1>6. Sound(l) /\ l.here /\ l.kind = lsrc[w][n].kind
  <2>1. lsrc[w][n] \in LocalSource /\ Sound(lsrc[w][n]) BY <1>0, <1>3 DEF Types, Tagged
  <2> QED BY <1>5, <2>1, SoundSources
<1>7. k.pub => l.kind # "rtmp" BY <1>1, <1>2, <1>6 DEF PublishersApart
<1>8. PICK r : r = Rebuilt(n, k) OBVIOUS
<1>9. r \in LocalSession /\ r.name = n /\ r.pub = k.pub
  BY <1>3, <1>8, RebuiltFields, Zenon
<1>10. /\ Idle(w) /\ shm' = SessionBind(shm, u, w) /\ crashes' = crashes
       /\ lsrc' = [lsrc EXCEPT ![w][n] = l] /\ lsess' = [lsess EXCEPT ![w][u] = r]
       /\ agenda' = [agenda EXCEPT ![w] = (IF k.pub THEN <<e>> ELSE <<>>) \o <<p>>]
  BY <1>1, <1>2, <1>5, <1>8, Zenon DEF Attach
<1> HIDE DEF e, p
<1>11. PICK s : /\ (k.pub /\ s = <<e, p>>) \/ s = <<p>>
                /\ agenda' = [agenda EXCEPT ![w] = s]
  <2>1. <<e>> \o <<p>> = <<e, p>> BY <1>4, Joined11, Zenon
  <2>2. <<p>> \in Seq(Task) BY <1>4
  <2>3. <<>> \o <<p>> = <<p>> BY <2>2, ConcatEmptySeq
  <2> QED BY <1>10, <2>1, <2>3
<1>12. ASSUME NEW i \in DOMAIN s
       PROVE  s[i].op # "ptr" /\ (s[i].op = "mirror" => i = 1 /\ s[i].n = n /\ k.pub)
  <2>1. CASE k.pub /\ s = <<e, p>> BY <1>4, <1>12, <2>1
  <2>2. CASE s = <<p>> BY <1>4, <1>12, <2>2
  <2> QED BY <1>11, <2>1, <2>2
<1>13. /\ lsess' \in [Slots -> [Ufrags -> LocalSession]]
       /\ lsess'[w][u] = r
       /\ \A x \in Slots, v \in Ufrags : x # w \/ v # u => lsess'[x][v] = lsess[x][v]
       /\ \A x \in Slots : x # w => lsess'[x] = lsess[x]
  BY <1>0, <1>9, <1>10, SessionWritten
<1>14. ASSUME NEW v \in Ufrags, Has(w, v)', lsess'[w][v].pub
       PROVE  IF lsess'[w][v].name = n THEN l.kind # "rtmp"
              ELSE /\ Has(w, v) /\ lsess[w][v].pub
                   /\ lsess[w][v].name = lsess'[w][v].name
  <2>1. CASE v = u BY <1>7, <1>9, <1>13, <1>14, <2>1
  <2>2. CASE v # u
    <3>1. Has(w, v) /\ lsess[w][v].pub /\ lsess[w][v].name = lsess'[w][v].name
      BY <1>13, <1>14, <2>2 DEF Has
    <3>2. lsrc[w][lsess[w][v].name].kind # "rtmp" BY <1>0, <3>1 DEF Tagged
    <3> QED BY <1>6, <3>1, <3>2
  <2> QED BY <2>1, <2>2
<1>15. Fit(w, n, l, s) BY <1>6, <1>7, <1>12, <1>14 DEF Fit
<1>16. Turn(w, n, l, s) BY <1>10, <1>11, <1>13 DEF Turn
<1>17. Unclaimed(shm, shm') BY <1>10 DEF Unclaimed
<1>18. NoClaim(shm, shm') BY <1>17, QuietCall
<1>19. lsrc[w][n].kind \in {"none", l.kind} BY <1>6
<1>20. \A m \in Names, j \in Kinds : Releases(agenda[w], m, j) => Releases(s, m, j)
  BY <1>10, NoReleases DEF Idle
<1> QED BY <1>3, <1>15, <1>16, <1>18, <1>19, <1>20, TurnKeeps

LEMMA MediaPlaneClaims ==
    ASSUME IndInv, IndInv', ClaimInv, NEW w \in Slots, MediaPlane(w), PublishersApart
    PROVE  ClaimInv'
BY PacketClaims, AttachClaims, HangupClaims, WhipMediaClaims DEF MediaPlane

LEMMA IngestClaims ==
    ASSUME IndInv, IndInv', ClaimInv, NEW w \in Slots, Ingest(w), PublishersApart
    PROVE  ClaimInv'
BY RtmpFastClaims, RtmpClaimClaims, RtmpStopClaims DEF Ingest

LEMMA CrashClaims ==
    ASSUME IndInv, ClaimInv, NEW w \in Slots, Crash(w) PROVE ClaimInv'
<1>0. Types BY DEF IndInv
<1>1. /\ lsrc' = [lsrc EXCEPT ![w] = [n \in Names |-> AbsentSource]]
      /\ lsess' = [lsess EXCEPT ![w] = [u \in Ufrags |-> AbsentSession]]
      /\ agenda' = [agenda EXCEPT ![w] = <<>>] /\ shm' = shm /\ crashes' = crashes + 1
  BY DEF Crash
<1>2. /\ \A n \in Names : lsrc'[w][n] = AbsentSource
      /\ \A u \in Ufrags : lsess'[w][u] = AbsentSession
      /\ agenda'[w] = <<>>
      /\ \A x \in Slots : x # w => /\ lsrc'[x] = lsrc[x] /\ lsess'[x] = lsess[x]
                                   /\ agenda'[x] = agenda[x]
  BY <1>0, <1>1 DEF Types
<1>3. Sound(AbsentSource) BY DEF AbsentSource, Sound
<1>4. ASSUME NEW x \in Slots PROVE Tagged(x)'
  <2>1. CASE x = w BY <1>2, <1>3, <2>1, SessionTypes DEF Tagged, Sound, Has
  <2>2. CASE x # w BY <1>2, <2>2 DEF ClaimInv, Tagged, Has
  <2> QED BY <2>1, <2>2
<1>5. crashes' # 0 BY <1>0, <1>1 DEF Types
<1> QED BY <1>1, <1>4, <1>5 DEF ClaimInv, Claims, ClaimsLive

LEMMA OutsideClaims ==
    ASSUME IndInv, ClaimInv, Admin \/ Tick PROVE ClaimInv'
<1>0. Types BY DEF IndInv
<1>1. agenda' = agenda /\ crashes' = crashes BY DEF Admin, Kick, Disconnect, Tick
<1>2. ASSUME NEW w \in Slots, NEW n \in Names
      PROVE  /\ lsrc'[w][n].here = lsrc[w][n].here /\ lsrc'[w][n].kind = lsrc[w][n].kind
             /\ lsrc'[w][n].ptr = lsrc[w][n].ptr
  <2>1. CASE Admin BY <2>1 DEF Admin, Kick, Disconnect
  <2>2. CASE Tick
    <3>1. lsrc[w][n] \in LocalSource BY <1>0 DEF Types
    <3> QED BY <2>2, <3>1 DEF Tick, LocalSource
  <2> QED BY <2>1, <2>2
<1>3. ASSUME NEW w \in Slots, NEW u \in Ufrags
      PROVE  /\ lsess'[w][u].st = lsess[w][u].st /\ lsess'[w][u].pub = lsess[w][u].pub
             /\ lsess'[w][u].name = lsess[w][u].name
  <2>1. CASE Admin BY <2>1 DEF Admin, Kick, Disconnect
  <2>2. CASE Tick
    <3>1. lsess[w][u] \in LocalSession BY <1>0 DEF Types
    <3> QED BY <2>2, <3>1 DEF Tick, LocalSession
  <2> QED BY <2>1, <2>2
<1>4. Unclaimed(shm, shm') BY DEF Admin, Kick, Disconnect, Tick, Unclaimed
<1>5. NoClaim(shm, shm') BY <1>4, QuietCall
<1>6. ASSUME NEW w \in Slots PROVE Tagged(w)'
  <2>1. Tagged(w) BY DEF ClaimInv
  <2>2. \A n \in Names : Sound(lsrc'[w][n]) BY <1>2, <2>1 DEF Tagged, Sound
  <2>3. ASSUME NEW u \in Ufrags, Has(w, u)', lsess'[w][u].pub
        PROVE  lsrc'[w][lsess'[w][u].name].kind # "rtmp"
    <3>1. PICK m : m = lsess[w][u].name OBVIOUS
    <3>2. m \in Names BY <1>0, <3>1 DEF Types, LocalSession
    <3>3. lsrc[w][m].kind # "rtmp" BY <1>3, <2>1, <2>3, <3>1 DEF Tagged, Has
    <3> QED BY <1>2, <1>3, <3>1, <3>2, <3>3
  <2>4. ASSUME NEW i \in DOMAIN agenda[w]
        PROVE  /\ agenda[w][i].op = "ptr" => i = 1 /\ lsrc'[w][agenda[w][i].n].kind # "none"
               /\ agenda[w][i].op = "mirror" => /\ i = 1 /\ lsrc'[w][agenda[w][i].n].here
                                                /\ lsrc'[w][agenda[w][i].n].kind # "rtmp"
    <3>1. agenda[w][i].n \in Names
      <4>1. agenda[w] \in Seq(Task) BY <1>0 DEF Types
      <4>2. agenda[w][i] \in Task BY <4>1
      <4> QED BY <4>2 DEF Task
    <3> QED BY <1>2, <2>1, <3>1 DEF Tagged
  <2> QED BY <1>1, <2>2, <2>3, <2>4 DEF Tagged, Sound
<1>7. ASSUME crashes' = 0, NEW c \in Cells, shm'.src[c].publishing
      PROVE  \E w \in Slots : Backs(w, shm.src[c].name, shm.src[c].kind)'
  <2>1. PICK m, k : m = shm.src[c].name /\ k = shm.src[c].kind OBVIOUS
  <2>2. shm.src[c].publishing /\ shm'.src[c].name = m /\ shm'.src[c].kind = k
    BY <1>5, <1>7, <2>1 DEF NoClaim
  <2>3. PICK w \in Slots : Backs(w, m, k) BY <1>1, <1>7, <2>1, <2>2 DEF ClaimInv, Claims
  <2>4. m \in Names
    <3>1. shm \in RegType BY <1>0 DEF Types, RegInv
    <3>2. shm.src[c] \in SourceType BY <3>1 DEF RegType
    <3> QED BY <2>1, <3>2 DEF SourceType
  <2>5. lsrc'[w][m].kind = k \/ Releases(agenda'[w], m, k) BY <1>1, <1>2, <2>3, <2>4 DEF Backs
  <2>6. Backs(w, shm.src[c].name, shm.src[c].kind)' BY <2>2, <2>5 DEF Backs, Releases
  <2> QED BY <2>6
<1>8. Claims' BY <1>7 DEF Claims
<1>9. ClaimsLive(shm') BY <1>5, NoClaimLive
<1> QED BY <1>6, <1>8, <1>9 DEF ClaimInv

LEMMA ClaimStep ==
    ASSUME IndInv, IndInv', ClaimInv, [Next]_vars, [PublishersApart]_vars PROVE ClaimInv'
<1>1. CASE UNCHANGED vars
  BY <1>1 DEF vars, ClaimInv, ClaimsLive, Claims, Backs, Releases, Tagged, Sound, Has
<1>2. ASSUME NEW w \in Slots, PublishersApart,
             Signalling(w) \/ MediaPlane(w) \/ Ingest(w) \/ Reap(w) \/ Resume(w) \/ Crash(w)
      PROVE  ClaimInv'
  BY <1>2, SignallingClaims, MediaPlaneClaims, IngestClaims, ReapClaims, ResumeClaims,
     CrashClaims
<1>3. CASE Admin \/ Tick BY <1>3, OutsideClaims
<1> QED BY <1>1, <1>2, <1>3 DEF Next

LEMMA ClaimInitially == ASSUME Init PROVE ClaimInv
<1>1. Sound(AbsentSource) BY DEF AbsentSource, Sound
<1>2. ASSUME NEW w \in Slots PROVE Tagged(w)
  <2>1. /\ \A n \in Names : lsrc[w][n] = AbsentSource
        /\ \A u \in Ufrags : lsess[w][u] = AbsentSession
        /\ agenda[w] = <<>>
    BY DEF Init
  <2> QED BY <1>1, <2>1, SessionTypes DEF Tagged, Has
<1>3. ASSUME NEW c \in Cells PROVE ~shm.src[c].publishing
  <2>1. shm.src[c] = FreeSource BY DEF Init, EmptyZone
  <2> QED BY <2>1, FreeShapes
<1> QED BY <1>2, <1>3 DEF ClaimInv, Claims, ClaimsLive

(* As long as no RTMP and WHIP publishers of one name meet on a worker, a   *)
(* claim never outlives its publisher, crashes apart: refused and aborted   *)
(* publishes, renewals, takeovers after a silent claim, closes and          *)
(* teardowns leave no source claimed that no worker mirrors or is about to  *)
(* release (RtcWorkers!ClaimHasPublisher).                                  *)
THEOREM ClaimsHeld == Spec /\ [][PublishersApart]_vars => []ClaimHasPublisher
<1>1. Init => IndInv /\ ClaimInv BY Initially, ClaimInitially
<1>2. IndInv /\ ClaimInv /\ [Next]_vars /\ [PublishersApart]_vars => IndInv' /\ ClaimInv'
  BY NextStep, Stutter, ClaimStep
<1>3. ClaimInv => ClaimHasPublisher
  BY DEF ClaimInv, Claims, Backs, Releases, ClaimHasPublisher, ClaimOwned
<1> QED BY <1>1, <1>2, <1>3, PTL DEF Spec
=============================================================================
