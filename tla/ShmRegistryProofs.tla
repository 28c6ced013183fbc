-------------------------- MODULE ShmRegistryProofs --------------------------
(***************************************************************************)
(* Proofs about ShmRegistry for any number of names, cells, ufrags and     *)
(* workers and any timeouts, from the lemmas about its operators.          *)
(***************************************************************************)
EXTENDS ShmRegistry, ShmOpsProofs

-----------------------------------------------------------------------------
(* Every step of the specification. *)

IndInv ==
    /\ RegInv(shm)
    /\ issued \subseteq Ufrags
    /\ \A u \in Ufrags : shm.sess[u].live => u \in issued

(* Every action other than Add keeps the invariant and is a safe step. *)
LEMMA CallsSafe ==
    ASSUME IndInv, Next, ~(\E u \in Ufrags, n \in Names, pub \in BOOLEAN : Add(u, n, pub))
    PROVE  RegInv(shm') /\ SafeStep(shm, shm') /\ issued' = issued
<1>1. Called(shm, shm') /\ issued' = issued
  BY DEF Next, SourceCalls, SessionCalls, PublisherWrites, Called, Get, Remove, CloseName,
         Claim, Release, RequestClose, Bind, Activate, RemoveIfOwner, SetState, Beat,
         Publisher, Expire, Tick
<1> QED BY <1>1, CalledSafe DEF IndInv

(* Add writes one new skeleton, possibly after a forced reap. *)
LEMMA AddStep ==
    ASSUME IndInv, NEW u \in Ufrags, NEW n \in Names, NEW pub \in BOOLEAN, Add(u, n, pub)
    PROVE  \E Q : /\ Q = shm \/ ("session" \in SlabFails /\ Q = ExpireLocked(shm, TRUE))
                  /\ RegInv(Q) /\ SafeStep(shm, Q)
                  /\ \/ shm' = Q
                     \/ \E c \in Lookup(shm, n) : shm' = PutSession(Q, u, c, pub)
<1>1. PICK r \in SessionAdd(shm, u, n, pub) : shm' = r BY DEF Add
<1>2. RegInv(shm) BY DEF IndInv
<1>3. PICK Q : AddsTo(shm, Q, shm', u, n, pub) BY <1>1, <1>2, AddOutcome
<1> QED BY <1>3 DEF AddsTo

(* A new skeleton, after a forced reap or not, keeps the invariant.         *)
LEMMA AddInv ==
    ASSUME IndInv, NEW u \in Ufrags, NEW n \in Names, NEW pub \in BOOLEAN, Add(u, n, pub)
    PROVE  IndInv'
<1>1. PICK Q : /\ RegInv(Q) /\ SafeStep(shm, Q)
               /\ \/ shm' = Q
                  \/ \E c \in Lookup(shm, n) : shm' = PutSession(Q, u, c, pub)
  BY AddStep
<1>2. u \notin issued /\ issued' = issued \cup {u} BY DEF Add
<1>3. \A v \in Ufrags : Q.sess[v].live => v \in issued
  BY <1>1 DEF SafeStep, IndInv
<1>4. CASE shm' = Q
  BY <1>1, <1>2, <1>3, <1>4 DEF IndInv
<1>5. ASSUME NEW c \in Lookup(shm, n), shm' = PutSession(Q, u, c, pub) PROVE IndInv'
  <2>1. c \in Cells /\ ~Q.sess[u].live BY <1>2, <1>3 DEF Lookup
  <2>2. RegInv(shm') BY <1>1, <1>5, <2>1, PutSessionInv
  <2>3. \A v \in Ufrags \ {u} : shm'.sess[v] = Q.sess[v]
    BY <1>1, <1>5, SkeletonHeld DEF PutSession, RegType
  <2> QED BY <1>2, <1>3, <2>2, <2>3 DEF IndInv
<1> QED BY <1>1, <1>4, <1>5

LEMMA InitInv == Init => IndInv
BY EmptyZoneInv DEF Init, IndInv

(* Every call of a worker, every tick and every reap keeps the invariant.   *)
LEMMA StepInv == IndInv /\ [Next]_vars => IndInv'
<1> SUFFICES ASSUME IndInv, [Next]_vars PROVE IndInv' OBVIOUS
<1>1. CASE \E u \in Ufrags, n \in Names, pub \in BOOLEAN : Add(u, n, pub)
  BY <1>1, AddInv
<1>2. CASE Next /\ ~(\E u \in Ufrags, n \in Names, pub \in BOOLEAN : Add(u, n, pub))
  BY <1>2, CallsSafe DEF IndInv, SafeStep
<1>3. CASE UNCHANGED vars
  BY <1>3 DEF vars, IndInv
<1> QED BY <1>1, <1>2, <1>3

(* Hence it holds of every reachable zone.                                  *)
LEMMA AlwaysIndInv == Spec => []IndInv
BY InitInv, StepInv, PTL DEF Spec

(* The zone is well formed whatever the workers call and whenever the slab  *)
(* runs out of pages.                                                       *)
THEOREM TypeCorrect == Spec => []TypeOK
<1>1. IndInv => TypeOK BY DEF IndInv, RegInv, TypeOK
<1> QED BY <1>1, AlwaysIndInv, PTL

(* The registry's safety: one source per name, no ready session within      *)
(* reach of the half-open reaper, and a deadline on every idle source.      *)
LEMMA RegistrySafe == IndInv => UniqueNames /\ ReadySessionsHeld /\ NoOrphanSource
BY DEF IndInv, RegInv, UniqueIn, HeldIn, NoOrphanIn,
       UniqueNames, ReadySessionsHeld, NoOrphanSource

(* ngx_rtc_shm_source_get never registers a name twice, whatever expires    *)
(* in between.                                                              *)
THEOREM OneSourcePerName == Spec => []UniqueNames
BY RegistrySafe, AlwaysIndInv, PTL

(* A session that reached SRTP_READY has an owner and no deadline: the      *)
(* half-open reaper of ngx_rtc_shm_expire_locked cannot take it.            *)
THEOREM ReadyNotReaped == Spec => []ReadySessionsHeld
BY RegistrySafe, AlwaysIndInv, PTL

(* A source nobody publishes and nobody watches has a deadline, so that its *)
(* slab page comes back.                                                    *)
THEOREM IdleSourceExpires == Spec => []NoOrphanSource
BY RegistrySafe, AlwaysIndInv, PTL

(* As long as skeleton allocations succeed, every step is safe apart from   *)
(* the one new skeleton, and that one points at a live source.              *)
LEMMA AddSafe ==
    ASSUME "session" \notin SlabFails,
           IndInv, NEW u \in Ufrags, NEW n \in Names, NEW pub \in BOOLEAN, Add(u, n, pub)
    PROVE  /\ shm'.src = shm.src
           /\ \A v \in Ufrags : shm.sess[v].live => shm'.sess[v] = shm.sess[v]
           /\ LiveIn(shm) => LiveIn(shm')
<1>1. \/ shm' = shm
      \/ \E c \in Lookup(shm, n) : shm' = PutSession(shm, u, c, pub)
  BY AddStep
<1>2. ~shm.sess[u].live BY DEF Add, IndInv
<1>3. shm \in RegType BY DEF IndInv, RegInv
<1>4. ASSUME NEW c \in Lookup(shm, n), shm' = PutSession(shm, u, c, pub)
      PROVE  /\ shm'.src = shm.src
             /\ \A v \in Ufrags : shm'.sess[v] = IF v = u THEN NewSkeleton(c, pub)
                                                 ELSE shm.sess[v]
             /\ shm.src[c].live /\ NewSkeleton(c, pub).src = c
  BY <1>3, <1>4 DEF PutSession, RegType, Lookup, NewSkeleton
<1> QED BY <1>1, <1>2, <1>4 DEF LiveIn

(* No skeleton is left pointing at a freed source, as long as skeleton      *)
(* allocations do not fail: the failing case is the one ngx_rtc_shm_session *)
(* _add gets wrong (run registry_pressure).                                 *)
THEOREM NoDanglingSource ==
    ASSUME "session" \notin SlabFails PROVE Spec => []SkeletonSourceLive
<1> DEFINE Live == LiveIn(shm)
<1>1. Init => Live
  BY FreeShapes DEF Init, EmptyZone, LiveIn
<1>2. IndInv /\ Live /\ [Next]_vars => Live'
  <2> SUFFICES ASSUME IndInv, Live, [Next]_vars PROVE Live' OBVIOUS
  <2>0. shm \in RegType BY DEF IndInv, RegInv
  <2>1. CASE \E u \in Ufrags, n \in Names, pub \in BOOLEAN : Add(u, n, pub)
    BY <2>1, AddSafe
  <2>2. CASE Next /\ ~(\E u \in Ufrags, n \in Names, pub \in BOOLEAN : Add(u, n, pub))
    BY <2>0, <2>2, CallsSafe, SafeKeepsLive
  <2>3. CASE UNCHANGED vars
    BY <2>3 DEF vars, LiveIn
  <2> QED BY <2>1, <2>2, <2>3
<1>3. Live => SkeletonSourceLive
  BY DEF LiveIn, SkeletonSourceLive
<1> HIDE DEF Live
<1> QED BY <1>1, <1>2, <1>3, AlwaysIndInv, PTL DEF Spec

(* Under the same assumption a source is freed only when it is idle. *)
THEOREM FreedIdle ==
    ASSUME "session" \notin SlabFails PROVE Spec => FreedOnlyWhenIdle
<1> DEFINE Step == \A c \in Cells : shm.src[c].live /\ ~shm'.src[c].live =>
                     /\ ~(shm.src[c].publishing /\ shm.src[c].seen < PublishGrace)
                     /\ Subscribers(shm, c) = {}
                     /\ ~Referenced(shm', c)
<1>1. IndInv /\ [Next]_vars => [Step]_vars
  <2> SUFFICES ASSUME IndInv, Next PROVE Step OBVIOUS
  <2>1. CASE \E u \in Ufrags, n \in Names, pub \in BOOLEAN : Add(u, n, pub)
    BY <2>1, AddSafe
  <2>2. CASE ~(\E u \in Ufrags, n \in Names, pub \in BOOLEAN : Add(u, n, pub))
    BY <2>2, CallsSafe DEF SafeStep
  <2> QED BY <2>1, <2>2
<1> QED BY <1>1, AlwaysIndInv, PTL DEF Spec, FreedOnlyWhenIdle

(* A bound skeleton keeps its owner until it is freed, reaps by force       *)
(* included: two workers never both own one session.                        *)
THEOREM OwnerFixed == Spec => OwnerNeverMoves
<1> DEFINE Step == \A u \in Ufrags : /\ shm.sess[u].live /\ shm'.sess[u].live
                                     /\ shm.sess[u].owner # NoSlot
                                     => shm'.sess[u].owner = shm.sess[u].owner
<1>1. IndInv /\ [Next]_vars => [Step]_vars
  <2> SUFFICES ASSUME IndInv, Next PROVE Step OBVIOUS
  <2>1. ASSUME NEW u \in Ufrags, NEW n \in Names, NEW pub \in BOOLEAN, Add(u, n, pub)
        PROVE  Step
    <3>1. PICK Q : /\ RegInv(Q) /\ SafeStep(shm, Q)
                   /\ \/ shm' = Q
                      \/ \E c \in Lookup(shm, n) : shm' = PutSession(Q, u, c, pub)
      BY <2>1, AddStep
    <3>2. \A v \in Ufrags \ {u} : shm'.sess[v] = Q.sess[v]
      BY <3>1, SkeletonHeld DEF PutSession, RegType
    <3>3. ~shm.sess[u].live BY <2>1 DEF Add, IndInv
    <3> QED BY <3>1, <3>2, <3>3 DEF SafeStep
  <2>2. CASE ~(\E u \in Ufrags, n \in Names, pub \in BOOLEAN : Add(u, n, pub))
    BY <2>2, CallsSafe DEF SafeStep
  <2> QED BY <2>1, <2>2
<1> QED BY <1>1, AlwaysIndInv, PTL DEF Spec, OwnerNeverMoves
=============================================================================
