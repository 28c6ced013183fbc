--------------------------- MODULE TransportProofs ---------------------------
(***************************************************************************)
(* Proofs about Transport for any number of sessions, addresses, retries   *)
(* and crashes, with or without failing allocations, for clients that keep *)
(* to their address (Roaming = FALSE; the run transport_roaming shows what *)
(* happens when one does not).                                             *)
(*                                                                         *)
(* The invariant is stated over a world, so that one lemma per function of *)
(* the code serves every handler that calls it.                            *)
(***************************************************************************)
EXTENDS Transport, FiniteSetTheorems, TLAPS

WorldType == [sess : [Sessions -> Session], conn : [Conns -> Connection],
              posted : Seq(Conns), skel : [Sessions -> {"none", "half", "ready"}],
              bad : SUBSET {"session", "connection", "finalize"}]

(* A session and its connection point at each other, or neither at the      *)
(* other; a session that has a connection lives.                            *)
Mutual(W) ==
    /\ \A u \in Sessions : W.sess[u].conn # Null =>
          /\ W.sess[u].mem = "live" /\ W.sess[u].conn \in Conns
          /\ W.conn[W.sess[u].conn].ctx = u
    /\ \A c \in Conns : W.conn[c].ctx # Null =>
          /\ W.conn[c].open /\ W.sess[W.conn[c].ctx].conn = c

(* Only a live session has a timer: no timer fires into freed memory. *)
TimersLive(W) == \A u \in Sessions : W.sess[u].timer # "none" => W.sess[u].mem = "live"

Queued(W, c) == \E i \in DOMAIN W.posted : W.posted[i] = c

(* A connection is queued for its finalize once, after its session left it. *)
PostedOnce(W) ==
    /\ \A i \in DOMAIN W.posted : W.conn[W.posted[i]].ctx = Null
    /\ \A i, j \in DOMAIN W.posted : W.posted[i] = W.posted[j] => i = j

Returned(W) ==
    \A c \in Conns : W.conn[c].open /\ W.conn[c].bound /\ ~W.conn[c].stuck =>
        W.conn[c].ctx # Null \/ Queued(W, c)

(* The inductive invariant over a world. *)
Safe(W) == /\ W \in WorldType /\ W.bad = {}
           /\ Mutual(W) /\ TimersLive(W) /\ PostedOnce(W) /\ Returned(W)

IndInv == Safe(World) /\ crashes \in 0..MaxCrashes

(* Safe, with session u alive: what a handler may assume of the session it  *)
(* serves, and every function but the closing ones leaves it so.            *)
SafeWith(W, u) == Safe(W) /\ u \in Sessions /\ W.sess[u].mem = "live"

-----------------------------------------------------------------------------
(* Lemmas about the values *)

(* Whatever the event, the state machine is left in one of its states. *)
LEMMA MovedType ==
    ASSUME NEW st \in SessionStates, NEW e PROVE Moved(st, e) \in SessionStates
BY DEF Moved, SessionStates

(* The blank session and the closed connection have the types of the rest. *)
LEMMA BlankTypes == NoSession \in Session /\ Closed \in Connection
BY TransportConstants DEF NoSession, Session, SessionStates, Closed, Connection, IdleMax, Larger

(* What each function writes into a session record is a session record,     *)
(* and only a close ends its life.                                          *)
LEMMA Idle0 == 0 \in 0..IdleMax
BY TransportConstants DEF IdleMax, Larger

LEMMA TimedWrite ==
    ASSUME NEW s \in Session, NEW ok \in BOOLEAN
    PROVE  Timed(s, ok) \in Session /\ Timed(s, ok).mem = s.mem /\ Timed(s, ok).conn = s.conn
BY DEF Timed, Session

LEMMA KeyedWrite ==
    ASSUME NEW s \in Session
    PROVE  Keyed(s) \in Session /\ Keyed(s).mem = s.mem /\ Keyed(s).conn = s.conn
<1>1. \A e : Moved(s.st, e) \in SessionStates BY MovedType DEF Session
<1> QED BY <1>1, Idle0 DEF Keyed, Session

LEMMA StartedWrite ==
    ASSUME NEW s \in Session, NEW c \in Conns, NEW created \in BOOLEAN
    PROVE  /\ Started(s, c, created) \in Session
           /\ Started(s, c, created).mem = s.mem /\ Started(s, c, created).conn = c
<1>1. \A e : Moved(s.st, e) \in SessionStates BY MovedType DEF Session
<1> QED BY <1>1 DEF Started, Session

LEMMA OnAddressWrite ==
    ASSUME NEW s \in Session, NEW c \in Conns
    PROVE  /\ OnAddress(s, c) \in Session
           /\ OnAddress(s, c).mem = s.mem /\ OnAddress(s, c).conn = c
<1>1. \A e : Moved(s.st, e) \in SessionStates BY MovedType DEF Session
<1> QED BY <1>1, Idle0 DEF OnAddress, Session

LEMMA ResentWrite ==
    ASSUME NEW s \in Session, s.tries # MaxTries
    PROVE  Resent(s) \in Session /\ Resent(s).mem = s.mem /\ Resent(s).conn = s.conn
<1>1. s.tries \in 0..MaxTries /\ MaxTries \in Nat BY TransportConstants DEF Session
<1>2. s.tries + 1 \in 0..MaxTries BY <1>1
<1> QED BY <1>2 DEF Resent, Session

LEMMA FreedWrite ==
    ASSUME NEW s \in Session, NEW e
    PROVE  /\ Freed(s, e) \in Session /\ Freed(s, e).mem = "freed"
           /\ Freed(s, e).conn = s.conn /\ Freed(s, e).timer = "none"
<1>1. Moved(s.st, e) \in SessionStates BY MovedType DEF Session
<1> QED BY <1>1 DEF Freed, Session

(* Reading a live session, and sending on its connection, touches no freed  *)
(* memory: both leave a safe world as it is.                                *)
LEMMA Accesses ==
    ASSUME NEW W, NEW u, SafeWith(W, u)
    PROVE  UseSession(W, u) = W /\ Send(W, u) = W
<1>1. W \in WorldType /\ W.sess[u].mem # "freed" BY DEF SafeWith, Safe
<1>2. W.sess[u].conn # Gone
  BY TransportConstants DEF SafeWith, Safe, Mutual
<1>3. [W EXCEPT !.bad = W.bad] = W BY <1>1 DEF WorldType
<1> QED BY <1>1, <1>2, <1>3 DEF UseSession, Send

(* Rewriting a live session in place, connection and lifetime apart, keeps  *)
(* the world safe; so does rewriting skeletons, of any session.             *)
LEMMA Rewrite ==
    ASSUME NEW W, NEW T, NEW u, SafeWith(W, u), T \in WorldType,
           T.conn = W.conn, T.posted = W.posted, T.bad = W.bad,
           T.sess[u].mem = "live", T.sess[u].conn = W.sess[u].conn,
           \A v \in Sessions : v # u => T.sess[v] = W.sess[v]
    PROVE  SafeWith(T, u)
<1>0. u \in Sessions /\ W \in WorldType BY DEF SafeWith, Safe
<1>2. Mutual(T)
  <2>1. \A v \in Sessions : T.sess[v].conn = W.sess[v].conn OBVIOUS
  <2>2. \A v \in Sessions : W.sess[v].mem = "live" => T.sess[v].mem = "live" OBVIOUS
  <2>3. \A c \in Conns : W.conn[c].ctx # Null => W.conn[c].ctx \in Sessions
    BY <1>0 DEF WorldType, Connection
  <2> QED BY <2>1, <2>2, <2>3 DEF SafeWith, Safe, Mutual
<1>3. TimersLive(T) BY DEF SafeWith, Safe, TimersLive
<1>4. PostedOnce(T) /\ Returned(T)
  BY DEF SafeWith, Safe, PostedOnce, Returned, Queued
<1> QED BY <1>0, <1>2, <1>3, <1>4 DEF SafeWith, Safe

(* The same for the usual case, one session record replaced. *)
LEMMA Replace ==
    ASSUME NEW W, NEW u, SafeWith(W, u), NEW s \in Session,
           s.mem = "live", s.conn = W.sess[u].conn
    PROVE  /\ SafeWith([W EXCEPT !.sess[u] = s], u)
           /\ [W EXCEPT !.sess[u] = s].sess[u] = s
           /\ [W EXCEPT !.sess[u] = s].conn = W.conn
<1> DEFINE T == [W EXCEPT !.sess[u] = s]
<1>1. /\ T \in WorldType
      /\ T.conn = W.conn /\ T.posted = W.posted /\ T.bad = W.bad
      /\ T.sess[u] = s
      /\ \A v \in Sessions : v # u => T.sess[v] = W.sess[v]
  BY DEF WorldType, SafeWith, Safe
<1> HIDE DEF T
<1>2. SafeWith(T, u) BY <1>1, Rewrite
<1> QED BY <1>1, <1>2 DEF T

-----------------------------------------------------------------------------
(* The functions of the code *)

(* ngx_rtc_stream_dtls_schedule and ngx_rtc_stream_dtls_cancel. *)
LEMMA TimerSafe ==
    ASSUME NEW W, NEW u, SafeWith(W, u), NEW alloc \in BOOLEAN
    PROVE  /\ SafeWith(Schedule(W, u, alloc), u) /\ SafeWith(Cancel(W, u), u)
           /\ Schedule(W, u, alloc).conn = W.conn
<1> DEFINE ok == W.sess[u].timer # "none" \/ alloc
           a == Timed(W.sess[u], ok)
           b == [W.sess[u] EXCEPT !.timer = "none"]
<1>1. W.sess[u] \in Session /\ W.sess[u].mem = "live"
  BY DEF SafeWith, Safe, WorldType
<1>2. /\ a \in Session /\ a.mem = "live" /\ a.conn = W.sess[u].conn
      /\ b \in Session /\ b.mem = "live" /\ b.conn = W.sess[u].conn
  <2>1. ok \in BOOLEAN OBVIOUS
  <2>2. a \in Session /\ a.mem = "live" /\ a.conn = W.sess[u].conn
    <3> HIDE DEF ok
    <3> QED BY <1>1, <2>1, TimedWrite
  <2>3. b \in Session /\ b.mem = "live" /\ b.conn = W.sess[u].conn
    BY <1>1 DEF Session
  <2> QED BY <2>2, <2>3
<1>3. /\ SafeWith([W EXCEPT !.sess[u] = a], u) /\ [W EXCEPT !.sess[u] = a].conn = W.conn
      /\ SafeWith([W EXCEPT !.sess[u] = b], u)
  <2> HIDE DEF a, b
  <2> QED BY <1>2, Replace
<1>4. \/ Schedule(W, u, alloc) = W
      \/ Schedule(W, u, alloc) = [W EXCEPT !.sess[u] = a]
  BY DEF Schedule
<1>5. Cancel(W, u) = [W EXCEPT !.sess[u] = b]
  BY DEF Cancel
<1> HIDE DEF a, b
<1> QED BY <1>3, <1>4, <1>5

(* ngx_rtc_stream_dtls_done, and the handshake's end that calls it. *)
LEMMA FinishedSafe ==
    ASSUME NEW W, NEW u, SafeWith(W, u), NEW ok \in BOOLEAN
    PROVE  SafeWith(Finished(W, u, ok), u) /\ Finished(W, u, ok).conn = W.conn
<1> DEFINE s == [W.sess[u] EXCEPT !.done = TRUE, !.flight = "off"]
           V == [W EXCEPT !.sess[u] = s]
           a == [V.sess[u] EXCEPT !.close_pending = TRUE]
           b == Keyed(V.sess[u])
           A == [V EXCEPT !.sess[u] = a]
           T == [V EXCEPT !.sess[u] = b, !.skel[u] = "ready"]
<1>1. W.sess[u] \in Session /\ W.sess[u].mem = "live" /\ u \in Sessions
  BY DEF SafeWith, Safe, WorldType
<1>2. s \in Session /\ s.mem = "live" /\ s.conn = W.sess[u].conn
  BY <1>1 DEF Session
<1>3. SafeWith(V, u) /\ V.sess[u] = s /\ V.conn = W.conn
  <2> HIDE DEF s
  <2> QED BY <1>2, Replace
<1>4. Finished(W, u, ok) = Done(V, u, ok) BY DEF Finished
<1> HIDE DEF V
<1>5. UseSession(V, u) = V BY <1>3, Accesses
<1>6. Done(V, u, ok) = IF ~ok THEN A ELSE T
  BY <1>5 DEF Done
<1>7. V.sess[u] \in Session /\ V.sess[u].mem = "live" BY <1>2, <1>3
<1>9. /\ a \in Session /\ a.mem = "live" /\ a.conn = V.sess[u].conn
      /\ b \in Session /\ b.mem = "live" /\ b.conn = V.sess[u].conn
  <2>1. Keyed(V.sess[u]) \in Session /\ Keyed(V.sess[u]).mem = V.sess[u].mem
        /\ Keyed(V.sess[u]).conn = V.sess[u].conn
    BY <1>7, KeyedWrite
  <2> QED BY <1>7, <2>1 DEF Session
<1> HIDE DEF a, b, s
<1>10. SafeWith(A, u) /\ A.conn = V.conn
  <2>1. SafeWith(V, u) /\ a \in Session /\ a.mem = "live" /\ a.conn = V.sess[u].conn
    BY <1>3, <1>9
  <2> QED BY <2>1, Replace
<1>11. SafeWith(T, u) /\ T.conn = W.conn
  <2>1. /\ T \in WorldType /\ T.conn = V.conn /\ T.posted = V.posted /\ T.bad = V.bad
        /\ T.sess[u] = b
        /\ \A v \in Sessions : v # u => T.sess[v] = V.sess[v]
    BY <1>3, <1>9 DEF SafeWith, Safe, WorldType
  <2> HIDE DEF T
  <2>2. SafeWith(V, u) /\ b.mem = "live" /\ b.conn = V.sess[u].conn
    BY <1>3, <1>7, <1>9
  <2>3. SafeWith(T, u) BY <2>1, <2>2, Rewrite
  <2> QED BY <1>3, <2>1, <2>3
<1> HIDE DEF A, T
<1> QED BY <1>3, <1>4, <1>6, <1>10, <1>11

(* ngx_rtc_stream_session_close: the session leaves its connection before   *)
(* it is freed, and the connection is queued for its finalize at most once  *)
(* because its context is cleared with it.                                  *)
LEMMA CloseSafe ==
    ASSUME NEW W, NEW u, SafeWith(W, u), NEW e, NEW alloc \in BOOLEAN
    PROVE  Safe(Close(W, u, e, alloc))
<1> DEFINE c == W.sess[u].conn
           s == [W.sess[u] EXCEPT !.conn = Null]
           k == Released(W.conn[c], alloc)
           q == IF alloc THEN Append(W.posted, c) ELSE W.posted
           V == [W EXCEPT !.sess[u].conn = Null]
           D == Detach(W, u, alloc)
           T == Close(W, u, e, alloc)
<1>0. /\ W \in WorldType /\ u \in Sessions /\ W.sess[u] \in Session
      /\ Mutual(W) /\ TimersLive(W) /\ PostedOnce(W) /\ Returned(W) /\ W.bad = {}
  BY DEF SafeWith, Safe, WorldType
<1>1. UseSession(W, u) = W /\ Send(W, u) = W BY Accesses
<1>2. s \in Session /\ s.conn = Null BY <1>0 DEF Session
<1>3. T = [D EXCEPT !.sess[u] = Freed(D.sess[u], e), !.skel[u] = "none"]
  BY <1>1 DEF Close
<1>4. D = IF c \notin Conns THEN V
          ELSE [V EXCEPT !.conn[c] = k, !.posted = q]
  BY <1>0, <1>1 DEF Detach, WorldType
<1> DEFINE f == Freed(s, e)
<1>5. f \in Session /\ f.mem = "freed" /\ f.conn = Null /\ f.timer = "none"
  <2> HIDE DEF s
  <2> QED BY <1>2, FreedWrite
<1>v. /\ V \in WorldType /\ V.conn = W.conn /\ V.posted = W.posted /\ V.bad = W.bad
      /\ V.skel = W.skel /\ V.sess[u] = s
      /\ \A v \in Sessions : v # u => V.sess[v] = W.sess[v]
  BY <1>0, <1>2 DEF WorldType
<1> HIDE DEF V, D, T, f, s, k
<1>6. CASE c \notin Conns
  <2>1. /\ T \in WorldType /\ T.conn = W.conn /\ T.posted = W.posted /\ T.bad = W.bad
        /\ T.sess[u] = f
        /\ \A v \in Sessions : v # u => T.sess[v] = W.sess[v]
    <3>1. D = V BY <1>4, <1>6
    <3>2. T = [V EXCEPT !.sess[u] = f, !.skel[u] = "none"] BY <3>1, <1>3, <1>v DEF f
    <3> QED BY <1>0, <1>5, <1>v, <3>2 DEF WorldType
  <2>2. W.sess[u].conn = Null BY <1>0, <1>6 DEF Mutual
  <2>3. \A d \in Conns : W.conn[d].ctx # Null => W.conn[d].ctx # u /\ W.conn[d].ctx \in Sessions
    BY <1>0, <2>2, TransportConstants DEF Mutual, WorldType, Connection
  <2>4. Mutual(T) /\ TimersLive(T)
    BY <1>0, <1>5, <2>1, <2>3 DEF Mutual, TimersLive
  <2>5. PostedOnce(T) /\ Returned(T)
    BY <1>0, <2>1 DEF PostedOnce, Returned, Queued
  <2> QED BY <1>0, <2>1, <2>4, <2>5 DEF Safe, T
<1>7. CASE c \in Conns
  <2>1. W.conn[c].ctx = u /\ W.conn[c] \in Connection
    BY <1>0, <1>7, TransportConstants DEF Mutual, WorldType
  <2>2. k \in Connection /\ k.ctx = Null /\ k.stuck = ~alloc
    BY <2>1 DEF Released, Connection, k
  <2>3. q \in Seq(Conns) BY <1>0, <1>7 DEF WorldType
  <2>4. /\ T \in WorldType /\ T.posted = q /\ T.bad = W.bad
        /\ T.conn[c] = k
        /\ \A d \in Conns : d # c => T.conn[d] = W.conn[d]
        /\ T.sess[u] = f
        /\ \A v \in Sessions : v # u => T.sess[v] = W.sess[v]
    <3> HIDE DEF q, c
    <3>1. D = [V EXCEPT !.conn[c] = k, !.posted = q] BY <1>4, <1>7
    <3>2. /\ D \in WorldType /\ D.posted = q /\ D.bad = V.bad /\ D.conn[c] = k
          /\ D.sess = V.sess
          /\ \A d \in Conns : d # c => D.conn[d] = V.conn[d]
      BY <1>v, <1>7, <2>2, <2>3, <3>1 DEF WorldType
    <3>3. T = [D EXCEPT !.sess[u] = f, !.skel[u] = "none"] BY <3>2, <1>3, <1>v DEF f
    <3>4. /\ T \in WorldType /\ T.posted = D.posted /\ T.bad = D.bad /\ T.conn = D.conn
          /\ T.sess[u] = f
          /\ \A v \in Sessions : v # u => T.sess[v] = D.sess[v]
      BY <1>0, <1>5, <3>2, <3>3 DEF WorldType
    <3> QED BY <1>v, <3>2, <3>4
  <2>5. \A v \in Sessions : v # u => T.sess[v].conn # c
    BY <1>0, <1>7, <2>1, <2>4, TransportConstants DEF Mutual
  <2>6. \A d \in Conns : d # c /\ W.conn[d].ctx # Null =>
                         W.conn[d].ctx # u /\ W.conn[d].ctx \in Sessions
    BY <1>0, TransportConstants DEF Mutual, WorldType, Connection
  <2>7. \A i \in DOMAIN W.posted : W.posted[i] # c /\ W.posted[i] \in Conns
    BY <1>0, <2>1, TransportConstants DEF PostedOnce, WorldType
  <2>8. Mutual(T) /\ TimersLive(T)
    BY <1>0, <1>5, <2>2, <2>4, <2>5, <2>6 DEF Mutual, TimersLive
  <2>9. PostedOnce(T)
    BY <1>0, <1>7, <2>2, <2>4, <2>7 DEF PostedOnce, WorldType
  <2>10. Returned(T)
    <3>1. \A d \in Conns : Queued(W, d) => Queued(T, d)
      BY <1>0, <1>7, <2>4 DEF Queued, WorldType
    <3>2. alloc => Queued(T, c)
      <4> SUFFICES ASSUME alloc PROVE Queued(T, c) OBVIOUS
      <4>1. T.posted = Append(W.posted, c) BY <2>4
      <4>2. Len(W.posted) + 1 \in DOMAIN T.posted /\ T.posted[Len(W.posted) + 1] = c
        BY <4>1, <1>0, <1>7 DEF WorldType
      <4> QED BY <4>2 DEF Queued
    <3> QED BY <1>0, <2>2, <2>4, <3>1, <3>2 DEF Returned
  <2> QED BY <1>0, <2>4, <2>8, <2>9, <2>10 DEF Safe, T
<1> QED BY <1>6, <1>7

(* A session that saw activity, or whose flight changed, is as good. *)
LEMMA Touched ==
    ASSUME NEW W, NEW u, SafeWith(W, u)
    PROVE  /\ SafeWith([W EXCEPT !.sess[u].idle = 0], u)
           /\ \A x \in {"off", "running", "due"} : SafeWith([W EXCEPT !.sess[u].flight = x], u)
           /\ \A x \in {"none", "idle", "armed"} : SafeWith([W EXCEPT !.sess[u].timer = x], u)
<1>1. W.sess[u] \in Session /\ W.sess[u].mem = "live"
  BY DEF SafeWith, Safe, WorldType
<1>2. 0 \in 0..IdleMax BY TransportConstants DEF IdleMax, Larger
<1>3. SafeWith([W EXCEPT !.sess[u].idle = 0], u)
  <2> DEFINE s == [W.sess[u] EXCEPT !.idle = 0]
  <2>1. s \in Session /\ s.mem = "live" /\ s.conn = W.sess[u].conn
    BY <1>1, <1>2 DEF Session
  <2>2. [W EXCEPT !.sess[u].idle = 0] = [W EXCEPT !.sess[u] = s] OBVIOUS
  <2> HIDE DEF s
  <2> QED BY <2>1, <2>2, Replace
<1>4. ASSUME NEW x \in {"off", "running", "due"}
      PROVE  SafeWith([W EXCEPT !.sess[u].flight = x], u)
  <2> DEFINE s == [W.sess[u] EXCEPT !.flight = x]
  <2>1. s \in Session /\ s.mem = "live" /\ s.conn = W.sess[u].conn
    BY <1>1 DEF Session
  <2>2. [W EXCEPT !.sess[u].flight = x] = [W EXCEPT !.sess[u] = s] OBVIOUS
  <2> HIDE DEF s
  <2> QED BY <2>1, <2>2, Replace
<1>5. ASSUME NEW x \in {"none", "idle", "armed"}
      PROVE  SafeWith([W EXCEPT !.sess[u].timer = x], u)
  <2> DEFINE s == [W.sess[u] EXCEPT !.timer = x]
  <2>1. s \in Session /\ s.mem = "live" /\ s.conn = W.sess[u].conn
    BY <1>1 DEF Session
  <2>2. [W EXCEPT !.sess[u].timer = x] = [W EXCEPT !.sess[u] = s] OBVIOUS
  <2> HIDE DEF s
  <2> QED BY <2>1, <2>2, Replace
<1> QED BY <1>3, <1>4, <1>5

(* The tail of a handler closes a flagged session or times it again. *)
LEMMA SettleSafe ==
    ASSUME NEW W, NEW u, SafeWith(W, u), NEW alloc \in BOOLEAN
    PROVE  Safe(Settle(W, u, alloc))
<1>1. UseSession(W, u) = W BY Accesses
<1>2. Settle(W, u, alloc) = IF W.sess[u].close_pending
                            THEN Close(W, u, "CLOSE", alloc) ELSE Schedule(W, u, alloc)
  BY <1>1 DEF Settle
<1>3. Safe(Close(W, u, "CLOSE", alloc)) BY CloseSafe
<1>4. Safe(Schedule(W, u, alloc)) BY TimerSafe DEF SafeWith
<1> QED BY <1>2, <1>3, <1>4

(* Whatever the DTLS library does with a datagram, short of failing, the    *)
(* session is alive when it returns: the callback only flags it.            *)
LEMMA OnDataSafe ==
    ASSUME NEW W, NEW u, SafeWith(W, u), NEW T \in OnData(W, u)
    PROVE  SafeWith(T, u)
<1>1. Send(W, u) = W BY Accesses
<1>2. \/ T = W
      \/ T = [W EXCEPT !.sess[u].flight = "running"]
      \/ \E ok \in BOOLEAN : T = Finished(W, u, ok)
  BY <1>1 DEF OnData
<1>3. SafeWith([W EXCEPT !.sess[u].flight = "running"], u) BY Touched
<1>4. \A ok \in BOOLEAN : SafeWith(Finished(W, u, ok), u) BY FinishedSafe
<1> QED BY <1>2, <1>3, <1>4

(* From ngx_rtc_dtls_on_data on. *)
LEMMA FedToSafe ==
    ASSUME NEW W, NEW u, SafeWith(W, u), NEW alloc \in BOOLEAN, NEW T \in FedTo(W, u, alloc)
    PROVE  Safe(T)
<1> DEFINE V == [W EXCEPT !.sess[u].idle = 0]
<1>1. SafeWith(V, u) BY Touched
<1>2. \/ T = Close(V, u, "CLOSE", alloc)
      \/ \E X \in OnData(V, u) : T = Settle(X, u, alloc)
  BY DEF FedTo
<1> HIDE DEF V
<1> QED BY <1>1, <1>2, CloseSafe, OnDataSafe, SettleSafe

(* ngx_rtc_stream_on_dtls, for the session in the connection's context. *)
LEMMA OnDtlsSafe ==
    ASSUME NEW W, NEW c \in Conns, NEW u, SafeWith(W, u), W.conn[c].ctx = u,
           NEW wellFormed \in BOOLEAN, NEW created \in BOOLEAN, NEW alloc \in BOOLEAN,
           NEW T \in OnDtls(W, c, u, wellFormed, created, alloc)
    PROVE  Safe(T)
<1> DEFINE s == Started(W.sess[u], c, created)
           N == [W EXCEPT !.sess[u] = s]
<1>1. UseSession(W, u) = W BY Accesses
<1>2. W.sess[u] \in Session /\ W.sess[u].mem = "live" /\ W.sess[u].conn = c
  BY TransportConstants DEF SafeWith, Safe, WorldType, Mutual
<1>3. s \in Session /\ s.mem = "live" /\ s.conn = W.sess[u].conn
  BY <1>2, StartedWrite
<1>4. SafeWith(N, u)
  <2> HIDE DEF s
  <2> QED BY <1>3, Replace
<1>5. \/ T \in FedTo(W, u, alloc)
      \/ T = W
      \/ T = Close(N, u, "CLOSE", alloc)
      \/ T \in FedTo(Schedule(N, u, alloc), u, alloc)
  BY <1>1 DEF OnDtls
<1> HIDE DEF N
<1>6. SafeWith(Schedule(N, u, alloc), u) BY <1>4, TimerSafe
<1>7. CASE T \in FedTo(W, u, alloc) BY <1>7, FedToSafe
<1>8. CASE T = W BY <1>8 DEF SafeWith
<1>9. CASE T = Close(N, u, "CLOSE", alloc) BY <1>4, <1>9, CloseSafe
<1>10. CASE T \in FedTo(Schedule(N, u, alloc), u, alloc)
  <2> DEFINE M == Schedule(N, u, alloc)
  <2>1. SafeWith(M, u) /\ T \in FedTo(M, u, alloc) BY <1>6, <1>10
  <2> HIDE DEF M
  <2> QED BY <2>1, FedToSafe
<1> QED BY <1>5, <1>7, <1>8, <1>9, <1>10

(* A session that is not alive has no connection, and none points at it.    *)
LEMMA DeadIsFree ==
    ASSUME NEW W, Safe(W), NEW u \in Sessions, W.sess[u].mem # "live"
    PROVE  W.sess[u].conn = Null /\ \A c \in Conns : W.conn[c].ctx # u
<1>1. W.sess[u].conn = Null BY DEF Safe, Mutual
<1> QED BY <1>1, TransportConstants DEF Safe, Mutual

(* A session may be born where none is alive: signalled, or rebuilt from    *)
(* its skeleton.                                                            *)
LEMMA Born ==
    ASSUME NEW W, NEW T, Safe(W), NEW u \in Sessions, W.sess[u].mem # "live",
           T \in WorldType, T.conn = W.conn, T.posted = W.posted, T.bad = W.bad,
           T.sess[u].conn = Null, T.sess[u].mem = "live" \/ T.sess[u].timer = "none",
           \A v \in Sessions : v # u => T.sess[v] = W.sess[v]
    PROVE  Safe(T)
<1>1. \A c \in Conns : W.conn[c].ctx # u BY DeadIsFree
<1>2. \A c \in Conns : W.conn[c].ctx # Null => W.conn[c].ctx \in Sessions
  BY DEF Safe, WorldType, Connection
<1>3. Mutual(T) BY <1>1, <1>2 DEF Safe, Mutual
<1>4. TimersLive(T) BY DEF Safe, TimersLive
<1>5. PostedOnce(T) /\ Returned(T) BY DEF Safe, PostedOnce, Returned, Queued
<1> QED BY <1>3, <1>4, <1>5 DEF Safe

(* The first datagram from an address opens a connection without context.   *)
LEMMA OpenedSafe ==
    ASSUME NEW W, Safe(W), NEW c \in Conns
    PROVE  /\ Safe(Opened(W, c)) /\ Opened(W, c).conn[c].open
           /\ Opened(W, c).conn[c].ctx = W.conn[c].ctx
           /\ Opened(W, c).sess = W.sess /\ Opened(W, c).posted = W.posted
           /\ Opened(W, c).skel = W.skel
<1>0. W \in WorldType BY DEF Safe
<1>1. CASE W.conn[c].open BY <1>1 DEF Opened
<1>2. CASE ~W.conn[c].open
  <2> DEFINE k == [Closed EXCEPT !.open = TRUE]
             T == [W EXCEPT !.conn[c] = k]
  <2>1. k \in Connection /\ k.open /\ k.ctx = Null /\ ~k.bound
    BY BlankTypes DEF Closed, Connection
  <2>2. Opened(W, c) = T BY <1>2 DEF Opened
  <2> HIDE DEF k
  <2>3. /\ T \in WorldType /\ T.sess = W.sess /\ T.posted = W.posted /\ T.bad = W.bad
        /\ T.skel = W.skel /\ T.conn[c] = k
        /\ \A d \in Conns : d # c => T.conn[d] = W.conn[d]
    BY <1>0, <2>1 DEF WorldType
  <2> HIDE DEF T
  <2>4. W.conn[c].ctx = Null BY <1>2 DEF Safe, Mutual
  <2>5. \A d \in Conns : T.conn[d].ctx = W.conn[d].ctx BY <2>1, <2>3, <2>4
  <2>6. Mutual(T) BY <2>1, <2>3, <2>5, TransportConstants DEF Safe, Mutual
  <2>7. PostedOnce(T)
    <3>1. \A i \in DOMAIN W.posted : W.posted[i] \in Conns BY <1>0 DEF WorldType
    <3> QED BY <2>3, <2>5, <3>1 DEF Safe, PostedOnce
  <2>8. TimersLive(T) /\ Returned(T)
    BY <2>1, <2>3 DEF Safe, TimersLive, Returned, Queued
  <2> QED BY <2>1, <2>2, <2>3, <2>4, <2>6, <2>7, <2>8 DEF Safe
<1> QED BY <1>1, <1>2

(* ngx_rtc_stream_on_stun binds a session to an address neither of them     *)
(* shares with another.                                                     *)
LEMMA BoundSafe ==
    ASSUME NEW W, NEW u, SafeWith(W, u), NEW c \in Conns, W.conn[c].open,
           W.sess[u].conn \in {Null, c}, W.conn[c].ctx \in {Null, u},
           Queued(W, c) => W.sess[u].conn = c
    PROVE  Safe(Bound(W, u, c))
<1> DEFINE s == OnAddress(W.sess[u], c)
           k == Serving(W.conn[c], u)
           T == [W EXCEPT !.sess[u] = s, !.conn[c] = k]
<1>0. W \in WorldType /\ u \in Sessions /\ W.sess[u].mem = "live" BY DEF SafeWith, Safe
<1>1. W.sess[u] \in Session /\ W.conn[c] \in Connection BY <1>0 DEF WorldType
<1>2. s \in Session /\ s.mem = "live" /\ s.conn = c
  BY <1>0, <1>1, OnAddressWrite
<1>3. k \in Connection /\ k.ctx = u /\ k.open
  BY <1>0, <1>1 DEF Serving, Connection
<1>4. Bound(W, u, c) = T BY DEF Bound
<1> HIDE DEF s, k
<1>5. /\ T \in WorldType /\ T.posted = W.posted /\ T.bad = W.bad
      /\ T.sess[u] = s /\ T.conn[c] = k
      /\ \A v \in Sessions : v # u => T.sess[v] = W.sess[v]
      /\ \A d \in Conns : d # c => T.conn[d] = W.conn[d]
  BY <1>0, <1>2, <1>3 DEF WorldType
<1> HIDE DEF T
<1>6. \A v \in Sessions : v # u => W.sess[v].conn # c
  BY <1>0, TransportConstants DEF SafeWith, Safe, Mutual
<1>7. \A d \in Conns : d # c => W.conn[d].ctx # u
  BY <1>0, TransportConstants DEF SafeWith, Safe, Mutual
<1>8. ~Queued(W, c)
  BY <1>0, TransportConstants DEF SafeWith, Safe, Mutual, PostedOnce, Queued
<1>9. \A d \in Conns : W.conn[d].ctx # Null => W.conn[d].ctx \in Sessions
  BY <1>0 DEF WorldType, Connection
<1>10. Mutual(T)
  BY <1>0, <1>2, <1>3, <1>5, <1>6, <1>7, <1>9 DEF SafeWith, Safe, Mutual
<1>11. TimersLive(T) BY <1>2, <1>5 DEF SafeWith, Safe, TimersLive
<1>12. PostedOnce(T)
  <2>1. \A i \in DOMAIN W.posted : W.posted[i] \in Conns BY <1>0 DEF WorldType
  <2> QED BY <1>5, <1>8, <2>1 DEF SafeWith, Safe, PostedOnce, Queued
<1>13. Returned(T)
  BY <1>0, <1>3, <1>5, TransportConstants DEF SafeWith, Safe, Returned, Queued
<1> QED BY <1>4, <1>5, <1>10, <1>11, <1>12, <1>13 DEF SafeWith, Safe

-----------------------------------------------------------------------------
(* The actions *)

(* A handler that maps the world to a safe one leaves a safe state behind.  *)
LEMMA BecomesSafe ==
    ASSUME NEW T, Safe(T), Becomes(T), crashes \in 0..MaxCrashes PROVE IndInv'
<1>1. T \in WorldType BY DEF Safe
<1>2. World' = T BY <1>1 DEF Becomes, World, WorldType
<1>3. Safe(World') BY <1>2
<1> QED BY <1>3 DEF Becomes, IndInv

(* The allocator's answer is a Boolean. *)
LEMMA AllocType == \A alloc \in Allocated : alloc \in BOOLEAN
BY DEF Allocated

(* The state as a world. *)
LEMMA WorldFields ==
    /\ World.sess = sess /\ World.conn = conn /\ World.posted = posted
    /\ World.skel = skel /\ World.bad = bad
BY DEF World

LEMMA SignalInv ==
    ASSUME IndInv, NEW u \in Sessions, NEW here \in BOOLEAN, Signal(u, here) PROVE IndInv'
<1> DEFINE m == IF here THEN "live" ELSE "none"
           s == [sess[u] EXCEPT !.mem = m]
           T == [World EXCEPT !.skel[u] = "half", !.sess[u].mem = m]
<1>0. World \in WorldType /\ Safe(World) /\ crashes \in 0..MaxCrashes BY DEF IndInv, Safe
<1>1. sess[u] \in Session /\ sess[u].mem = "none" /\ sess[u].conn = Null /\ sess[u].timer = "none"
  BY <1>0, WorldFields DEF Signal, Safe, WorldType, Mutual, TimersLive
<1>2. s \in Session /\ s.conn = Null /\ s.timer = "none"
  BY <1>1 DEF Session
<1>3. /\ T \in WorldType /\ T.conn = conn /\ T.posted = posted /\ T.bad = bad
      /\ T.sess[u] = s /\ \A v \in Sessions : v # u => T.sess[v] = sess[v]
  BY <1>0, <1>2, WorldFields DEF WorldType
<1>4. Becomes(T) BY WorldFields DEF Signal
<1> HIDE DEF T, s
<1>5. Safe(T) BY <1>0, <1>1, <1>2, <1>3, WorldFields, Born
<1> QED BY <1>0, <1>4, <1>5, BecomesSafe

LEMMA StunInv ==
    ASSUME ~Roaming, IndInv, NEW u \in Sessions, NEW c \in Conns, Stun(u, c) PROVE IndInv'
<1> DEFINE W == Opened(World, c)
           V == IF Live(u) THEN W ELSE Attached(W, u)
<1>0. Safe(World) /\ crashes \in 0..MaxCrashes BY DEF IndInv
<1>1. /\ Safe(W) /\ W.conn[c].open /\ W.conn[c].ctx = conn[c].ctx
      /\ W.sess = sess /\ W.posted = posted
  BY <1>0, OpenedSafe, WorldFields
<1>2. Settled(u, c) BY DEF Stun
<1>3. /\ SafeWith(V, u) /\ V.conn = W.conn /\ V.posted = W.posted
      /\ V.sess[u].conn = sess[u].conn
  <2>1. CASE Live(u) BY <1>1, <2>1 DEF SafeWith, Live
  <2>2. CASE ~Live(u)
    <3> DEFINE s == [NoSession EXCEPT !.mem = "live",
                       !.st = IF W.skel[u] = "ready" THEN "SRTP_READY" ELSE "NEW"]
               T == [W EXCEPT !.sess[u] = s]
    <3>1. s \in Session /\ s.mem = "live" /\ s.conn = Null
      BY BlankTypes DEF NoSession, Session, SessionStates
    <3>2. Attached(W, u) = T BY DEF Attached
    <3> HIDE DEF W, s
    <3>3. W \in WorldType BY <1>1 DEF Safe
    <3>4. /\ T \in WorldType /\ T.conn = W.conn /\ T.posted = W.posted /\ T.bad = W.bad
          /\ T.sess[u] = s /\ \A v \in Sessions : v # u => T.sess[v] = W.sess[v]
      BY <3>1, <3>3 DEF WorldType
    <3> HIDE DEF T
    <3>5. W.sess[u].mem # "live" BY <1>1, <2>2 DEF Live
    <3>6. Safe(T) BY <1>1, <3>1, <3>4, <3>5, Born
    <3>7. sess[u].conn = Null BY <1>1, <3>5, DeadIsFree
    <3> QED BY <2>2, <3>1, <3>2, <3>4, <3>6, <3>7 DEF SafeWith
  <2> QED BY <2>1, <2>2
<1>4. Becomes(V) \/ Becomes(Bound(V, u, c)) \/ Becomes(W)
  BY DEF Stun
<1> HIDE DEF V, W
<1>5. Safe(V) BY <1>3 DEF SafeWith
<1>6. Safe(Bound(V, u, c))
  BY <1>1, <1>2, <1>3, BoundSafe DEF Settled, Queued
<1> QED BY <1>0, <1>1, <1>4, <1>5, <1>6, BecomesSafe

LEMMA DtlsInv == ASSUME IndInv, NEW c \in Conns, Dtls(c) PROVE IndInv'
<1> DEFINE W == Opened(World, c)
           u == W.conn[c].ctx
<1>0. Safe(World) /\ crashes \in 0..MaxCrashes BY DEF IndInv
<1>1. Safe(W) BY <1>0, OpenedSafe
<1>2. CASE u = Null BY <1>0, <1>1, <1>2, BecomesSafe DEF Dtls
<1>3. CASE u # Null
  <2>1. PICK wellFormed \in BOOLEAN, created \in BOOLEAN, alloc \in Allocated :
           \E T \in OnDtls(W, c, u, wellFormed, created, alloc) : Becomes(T)
    BY <1>3 DEF Dtls
  <2>2. PICK T \in OnDtls(W, c, u, wellFormed, created, alloc) : Becomes(T)
    BY <2>1
  <2> HIDE DEF W
  <2>3. u \in Sessions /\ W.sess[u].conn = c
    BY <1>1, <1>3 DEF Safe, WorldType, Connection, Mutual
  <2>4. SafeWith(W, u)
    BY <1>1, <2>3, TransportConstants DEF SafeWith, Safe, Mutual
  <2>5. Safe(T)
    <3>1. W.conn[c].ctx = u OBVIOUS
    <3> HIDE DEF u
    <3> QED BY <2>2, <2>4, <3>1, AllocType, OnDtlsSafe
  <2> QED BY <1>0, <2>2, <2>5, BecomesSafe
<1> QED BY <1>2, <1>3

(* The session a packet is dispatched to is alive. *)
LEMMA Dispatched ==
    ASSUME IndInv, NEW c \in Conns, conn[c].ctx # Null
    PROVE  SafeWith(World, conn[c].ctx)
<1>1. Safe(World) /\ World.conn = conn /\ World.sess = sess BY WorldFields DEF IndInv
<1>2. conn[c].ctx \in Sessions /\ sess[conn[c].ctx].conn = c
  BY <1>1 DEF Safe, WorldType, Connection, Mutual
<1> QED BY <1>1, <1>2, TransportConstants DEF SafeWith, Safe, Mutual

LEMMA SrtpInv ==
    ASSUME IndInv, NEW c \in Conns, Srtp(c) PROVE IndInv'
<1> DEFINE u == conn[c].ctx
<1>1. SafeWith(World, u) BY Dispatched DEF Srtp
<1>2. crashes \in 0..MaxCrashes BY DEF IndInv
<1> HIDE DEF u
<1>3. UseSession(World, u) = World BY <1>1, Accesses
<1>4. Becomes(World) \/ Becomes([World EXCEPT !.sess[u].idle = 0])
  BY <1>3 DEF Srtp, u
<1>5. Safe(World) /\ Safe([World EXCEPT !.sess[u].idle = 0])
  BY <1>1, Touched DEF SafeWith
<1> QED BY <1>2, <1>4, <1>5, BecomesSafe

LEMMA SrtcpInv ==
    ASSUME IndInv, NEW c \in Conns, NEW bye \in BOOLEAN, Srtcp(c, bye) PROVE IndInv'
<1> DEFINE u == conn[c].ctx
           W == [World EXCEPT !.sess[u].idle = 0]
<1>1. SafeWith(World, u) BY Dispatched DEF Srtcp
<1>2. crashes \in 0..MaxCrashes BY DEF IndInv
<1>3. UseSession(World, u) = World
  <2> HIDE DEF u
  <2> QED BY <1>1, Accesses
<1>4. \/ Becomes(World) \/ Becomes(W)
      \/ \E alloc \in Allocated : Becomes(Close(W, u, "RTCP_BYE", alloc))
  BY <1>3 DEF Srtcp
<1> HIDE DEF u
<1>5. SafeWith(W, u) BY <1>1, Touched
<1> HIDE DEF W
<1>6. \A alloc \in Allocated : Safe(Close(W, u, "RTCP_BYE", alloc))
  BY <1>5, AllocType, CloseSafe
<1> QED BY <1>1, <1>2, <1>4, <1>5, <1>6, BecomesSafe DEF SafeWith

LEMMA MediaInv == ASSUME IndInv, NEW u \in Sessions, Media(u) PROVE IndInv'
<1>1. SafeWith(World, u) /\ crashes \in 0..MaxCrashes
  BY WorldFields DEF IndInv, SafeWith, Media, Live
<1>2. Becomes(World) BY <1>1, Accesses DEF Media
<1> QED BY <1>1, <1>2, BecomesSafe DEF SafeWith

LEMMA FlightDueInv == ASSUME IndInv, NEW u \in Sessions, FlightDue(u) PROVE IndInv'
<1>1. SafeWith(World, u) /\ crashes \in 0..MaxCrashes
  BY WorldFields DEF IndInv, SafeWith, FlightDue, Live
<1>2. SafeWith([World EXCEPT !.sess[u].flight = "due"], u) BY <1>1, Touched
<1> QED BY <1>1, <1>2, BecomesSafe DEF SafeWith, FlightDue

(* Cancelling a timer is safe even after the session was closed. *)
LEMMA CancelSafe == ASSUME NEW W, Safe(W), NEW u \in Sessions PROVE Safe(Cancel(W, u))
<1> DEFINE s == [W.sess[u] EXCEPT !.timer = "none"]
           T == [W EXCEPT !.sess[u] = s]
<1>0. W \in WorldType /\ W.sess[u] \in Session BY DEF Safe, WorldType
<1>1. s \in Session /\ s.mem = W.sess[u].mem /\ s.conn = W.sess[u].conn /\ s.timer = "none"
  BY <1>0 DEF Session
<1>2. Cancel(W, u) = T BY DEF Cancel
<1> HIDE DEF s
<1>3. /\ T \in WorldType /\ T.conn = W.conn /\ T.posted = W.posted /\ T.bad = W.bad
      /\ T.sess[u] = s /\ \A v \in Sessions : v # u => T.sess[v] = W.sess[v]
  BY <1>0, <1>1 DEF WorldType
<1> HIDE DEF T
<1>4. \A v \in Sessions : T.sess[v].conn = W.sess[v].conn /\ T.sess[v].mem = W.sess[v].mem
  BY <1>1, <1>3
<1>5. \A c \in Conns : W.conn[c].ctx # Null => W.conn[c].ctx \in Sessions
  BY <1>0 DEF WorldType, Connection
<1>6. Mutual(T) BY <1>3, <1>4, <1>5 DEF Safe, Mutual
<1>7. TimersLive(T) BY <1>1, <1>3 DEF Safe, TimersLive
<1>8. PostedOnce(T) /\ Returned(T) BY <1>3 DEF Safe, PostedOnce, Returned, Queued
<1> QED BY <1>2, <1>3, <1>6, <1>7, <1>8 DEF Safe

LEMMA DtlsTimerInv == ASSUME IndInv, NEW u \in Sessions, DtlsTimer(u) PROVE IndInv'
<1> DEFINE X == [World EXCEPT !.sess[u].timer = "idle"]
<1>0. crashes \in 0..MaxCrashes BY DEF IndInv
<1>1. SafeWith(World, u)
  BY WorldFields DEF IndInv, SafeWith, Safe, TimersLive, DtlsTimer
<1>2. SafeWith(X, u) BY <1>1, Touched
<1>3. UseSession(X, u) = X /\ Send(X, u) = X
  <2> HIDE DEF X
  <2> QED BY <1>2, Accesses
<1>4. \/ Becomes(X)
      \/ \E alloc \in Allocated : Becomes(Settle(X, u, alloc))
      \/ \E alloc \in Allocated : Becomes(Close(X, u, "TIMEOUT", alloc))
      \/ \E alloc \in Allocated, T \in HandleTimeout(X, u) :
            \/ Becomes(Settle(T, u, alloc))
            \/ \E ok \in BOOLEAN :
                  \/ Becomes(Cancel(Settle(Finished(T, u, ok), u, alloc), u))
                  \/ Becomes(Settle(Finished(T, u, ok), u, alloc))
  BY <1>3 DEF DtlsTimer
<1> HIDE DEF X
<1>5. ASSUME NEW T \in HandleTimeout(X, u) PROVE SafeWith(T, u)
  <2>1. X.sess[u] \in Session /\ X.sess[u].mem = "live"
    BY <1>2 DEF SafeWith, Safe, WorldType
  <2>2. X.sess[u].tries # MaxTries /\ T = [X EXCEPT !.sess[u] = Resent(X.sess[u])]
    BY <1>3, <1>5 DEF HandleTimeout
  <2> DEFINE s == Resent(X.sess[u])
  <2>3. s \in Session /\ s.mem = "live" /\ s.conn = X.sess[u].conn
    BY <2>1, <2>2, ResentWrite
  <2> HIDE DEF s
  <2>4. SafeWith([X EXCEPT !.sess[u] = s], u) BY <1>2, <2>3, Replace
  <2> QED BY <2>2, <2>4 DEF s
<1>6. CASE Becomes(X) BY <1>0, <1>2, <1>6, BecomesSafe DEF SafeWith
<1>7. ASSUME NEW alloc \in Allocated, Becomes(Settle(X, u, alloc)) PROVE IndInv'
  <2>1. Safe(Settle(X, u, alloc)) BY <1>2, AllocType, SettleSafe
  <2> QED BY <1>0, <1>7, <2>1, BecomesSafe
<1>8. ASSUME NEW alloc \in Allocated, Becomes(Close(X, u, "TIMEOUT", alloc)) PROVE IndInv'
  <2>1. Safe(Close(X, u, "TIMEOUT", alloc)) BY <1>2, AllocType, CloseSafe
  <2> QED BY <1>0, <1>8, <2>1, BecomesSafe
<1>9. ASSUME NEW alloc \in Allocated, NEW T \in HandleTimeout(X, u),
             Becomes(Settle(T, u, alloc))
      PROVE  IndInv'
  <2>1. Safe(Settle(T, u, alloc)) BY <1>5, AllocType, SettleSafe
  <2> QED BY <1>0, <1>9, <2>1, BecomesSafe
<1>10. ASSUME NEW alloc \in Allocated, NEW T \in HandleTimeout(X, u), NEW ok \in BOOLEAN,
              \/ Becomes(Cancel(Settle(Finished(T, u, ok), u, alloc), u))
              \/ Becomes(Settle(Finished(T, u, ok), u, alloc))
       PROVE  IndInv'
  <2> DEFINE F == Finished(T, u, ok)
             G == Settle(F, u, alloc)
  <2>1. SafeWith(F, u) BY <1>5, FinishedSafe
  <2>2. Becomes(Cancel(G, u)) \/ Becomes(G) BY <1>10
  <2>3. Safe(G)
    <3> HIDE DEF F
    <3> QED BY <2>1, AllocType, SettleSafe
  <2> HIDE DEF G
  <2>4. Safe(Cancel(G, u)) BY <2>3, CancelSafe
  <2> QED BY <1>0, <2>2, <2>3, <2>4, BecomesSafe
<1> QED BY <1>4, <1>6, <1>7, <1>8, <1>9, <1>10

LEMMA TickInv == ASSUME IndInv, Tick PROVE IndInv'
<1> DEFINE f == [u \in Sessions |-> IF Live(u) /\ sess[u].idle < IdleMax
                                    THEN [sess[u] EXCEPT !.idle = sess[u].idle + 1] ELSE sess[u]]
           T == [World EXCEPT !.sess = f]
<1>0. World \in WorldType /\ Safe(World) /\ crashes \in 0..MaxCrashes BY DEF IndInv, Safe
<1>1. ASSUME NEW u \in Sessions
      PROVE  /\ f[u] \in Session /\ f[u].mem = sess[u].mem /\ f[u].conn = sess[u].conn
             /\ f[u].timer = sess[u].timer
  <2>1. sess[u] \in Session BY <1>0, WorldFields DEF WorldType
  <2>2. IdleMax \in Nat /\ sess[u].idle \in 0..IdleMax
    BY <2>1, TransportConstants DEF Session, IdleMax, Larger
  <2>3. sess[u].idle < IdleMax => sess[u].idle + 1 \in 0..IdleMax BY <2>2
  <2> QED BY <2>1, <2>3 DEF Session
<1>2. /\ T \in WorldType /\ T.conn = conn /\ T.posted = posted /\ T.bad = bad
      /\ T.sess = f
  <2>1. f \in [Sessions -> Session] BY <1>1
  <2> HIDE DEF f
  <2> QED BY <1>0, <2>1, WorldFields DEF WorldType
<1>3. Becomes(T) BY DEF Tick
<1> HIDE DEF T, f
<1>4. \A c \in Conns : conn[c].ctx # Null => conn[c].ctx \in Sessions
  BY <1>0, WorldFields DEF WorldType, Connection
<1>5. Mutual(T) BY <1>0, <1>1, <1>2, <1>4, WorldFields DEF Safe, Mutual
<1>6. TimersLive(T) BY <1>0, <1>1, <1>2, WorldFields DEF Safe, TimersLive
<1>7. PostedOnce(T) /\ Returned(T)
  BY <1>0, <1>2, WorldFields DEF Safe, PostedOnce, Returned, Queued
<1>8. Safe(T) BY <1>0, <1>2, <1>5, <1>6, <1>7, WorldFields DEF Safe
<1> QED BY <1>0, <1>3, <1>8, BecomesSafe

(* The posted finalizes destroy connections no session points at, each      *)
(* once.                                                                    *)
LEMMA RunPostedInv == ASSUME IndInv, RunPosted PROVE IndInv'
<1> DEFINE doomed == {posted[i] : i \in DOMAIN posted}
           f == [u \in Sessions |-> IF sess[u].conn \in doomed
                                    THEN [sess[u] EXCEPT !.conn = Gone] ELSE sess[u]]
           k == [c \in Conns |-> IF c \in doomed THEN Closed ELSE conn[c]]
           b == IF \E i, j \in DOMAIN posted : i # j /\ posted[i] = posted[j]
                THEN bad \cup {"finalize"} ELSE bad
           T == [World EXCEPT !.posted = <<>>, !.conn = k, !.sess = f, !.bad = b]
<1>0. World \in WorldType /\ Safe(World) /\ crashes \in 0..MaxCrashes BY DEF IndInv, Safe
<1>1. \A c \in doomed : conn[c].ctx = Null
  BY <1>0, WorldFields DEF Safe, PostedOnce
<1>2. \A u \in Sessions : sess[u].conn \notin doomed
  <2>1. \A c \in doomed : c \in Conns BY <1>0, WorldFields DEF WorldType
  <2> QED BY <1>0, <1>1, <2>1, WorldFields, TransportConstants DEF Safe, Mutual
<1>3. f = sess BY <1>0, <1>2, WorldFields DEF WorldType
<1>4. b = bad BY <1>0, WorldFields DEF Safe, PostedOnce
<1>5. Becomes(T) BY WorldFields DEF RunPosted
<1>6. k \in [Conns -> Connection] BY <1>0, WorldFields, BlankTypes DEF WorldType
<1>7. \A c \in Conns : k[c] = conn[c] \/ (k[c] = Closed /\ conn[c].ctx = Null)
  BY <1>1
<1>8. \A c \in Conns : k[c] = Closed \/ ~Queued(World, c)
  BY WorldFields DEF Queued
<1> HIDE DEF f, k, b, doomed
<1>9. /\ T \in WorldType /\ T.conn = k /\ T.posted = <<>> /\ T.bad = bad /\ T.sess = sess
  <2>1. << >> \in Seq(Conns) OBVIOUS
  <2>2. World.sess \in [Sessions -> Session] /\ f = World.sess /\ b = World.bad
    BY <1>0, <1>3, <1>4, WorldFields DEF WorldType
  <2>3. T \in WorldType /\ T.conn = k /\ T.posted = <<>> /\ T.bad = b /\ T.sess = f
    BY <1>0, <1>6, <2>1, <2>2 DEF WorldType
  <2> QED BY <1>3, <1>4, <2>3
<1> HIDE DEF T
<1>10. Mutual(T)
  <2>1. \A c \in Conns : k[c].ctx = conn[c].ctx BY <1>7 DEF Closed
  <2>2. \A c \in Conns : k[c].ctx # Null => k[c].open = conn[c].open BY <1>7 DEF Closed
  <2> QED BY <1>0, <1>9, <2>1, <2>2, WorldFields DEF Safe, Mutual
<1>11. TimersLive(T) BY <1>0, <1>9, WorldFields DEF Safe, TimersLive
<1>12. PostedOnce(T) BY <1>9 DEF PostedOnce
<1>13. Returned(T)
  BY <1>0, <1>7, <1>8, <1>9, WorldFields DEF Safe, Returned, Closed
<1>14. Safe(T) BY <1>0, <1>9, <1>10, <1>11, <1>12, <1>13, WorldFields DEF Safe
<1> QED BY <1>0, <1>5, <1>14, BecomesSafe

LEMMA CrashInv == ASSUME IndInv, Crash PROVE IndInv'
<1>0. World \in WorldType /\ Safe(World) BY DEF IndInv, Safe
<1>1. crashes' \in 0..MaxCrashes
  BY TransportConstants DEF IndInv, Crash
<1>2. \A u \in Sessions : /\ sess'[u] \in Session /\ sess'[u].conn = Null
                          /\ sess'[u].timer = "none"
  <2> SUFFICES ASSUME NEW u \in Sessions
               PROVE  sess'[u] \in Session /\ sess'[u].conn = Null /\ sess'[u].timer = "none"
    OBVIOUS
  <2>1. CASE sess[u].mem = "freed"
    <3>1. sess'[u] = sess[u] BY <2>1 DEF Crash
    <3>2. sess[u] \in Session /\ sess[u].conn = Null /\ sess[u].timer = "none"
      BY <1>0, <2>1, WorldFields DEF Safe, WorldType, Mutual, TimersLive
    <3> QED BY <3>1, <3>2
  <2>2. CASE sess[u].mem # "freed"
    <3>1. sess'[u] = NoSession BY <2>2 DEF Crash
    <3> QED BY <3>1, BlankTypes DEF NoSession
  <2> QED BY <2>1, <2>2
<1>3. sess' \in [Sessions -> Session]
  <2>1. sess' = [u \in Sessions |-> sess'[u]] BY DEF Crash
  <2> QED BY <1>2, <2>1
<1>4. conn' \in [Conns -> Connection] /\ \A c \in Conns : conn'[c] = Closed
  BY BlankTypes DEF Crash
<1>5. posted' = <<>> /\ skel' = skel /\ bad' = bad BY DEF Crash
<1>6. /\ World'.sess = sess' /\ World'.conn = conn' /\ World'.posted = posted'
      /\ World'.skel = skel' /\ World'.bad = bad'
  BY DEF World
<1>7. World' \in WorldType
  <2>1. << >> \in Seq(Conns) OBVIOUS
  <2>2. /\ skel \in [Sessions -> {"none", "half", "ready"}]
        /\ bad \in SUBSET {"session", "connection", "finalize"}
    BY <1>0, WorldFields DEF WorldType
  <2> QED BY <1>3, <1>4, <1>5, <2>1, <2>2 DEF World, WorldType
<1>8. Mutual(World') BY <1>2, <1>4, <1>6 DEF Mutual, Closed
<1>9. TimersLive(World') BY <1>2, <1>6 DEF TimersLive
<1>10. PostedOnce(World') BY <1>5, <1>6 DEF PostedOnce
<1>11. Returned(World') BY <1>4, <1>6 DEF Returned, Closed
<1>12. World'.bad = {} BY <1>0, <1>5, <1>6, WorldFields DEF Safe
<1> QED BY <1>1, <1>7, <1>8, <1>9, <1>10, <1>11, <1>12 DEF IndInv, Safe

(* ngx_rtc_stream_reap_timer closes many sessions in one turn; each had a   *)
(* connection of its own, so the events it posts are distinct, and distinct *)
(* from those already posted.                                               *)
LEMMA ReapInv == ASSUME IndInv, NEW kicked \in SUBSET Sessions, Reap(kicked) PROVE IndInv'
<1> DEFINE overdue  == {u \in Sessions : Live(u) /\ (u \in kicked \/ sess[u].idle >= Timeout(sess[u]))}
           attached == {u \in overdue : sess[u].conn \in Conns}
           why(u)   == IF u \in kicked THEN "CLOSE" ELSE "TIMEOUT"
           f == [u \in Sessions |-> IF u \in overdue
                    THEN [Freed(sess[u], why(u)) EXCEPT !.conn = Null] ELSE sess[u]]
           g == [u \in Sessions |-> IF u \in overdue THEN "none" ELSE skel[u]]
           b == IF \E u \in overdue : sess[u].conn = Gone
                THEN bad \cup {"connection"} ELSE bad
<1>0. /\ World \in WorldType /\ Safe(World) /\ crashes \in 0..MaxCrashes
      /\ sess \in [Sessions -> Session] /\ conn \in [Conns -> Connection]
      /\ posted \in Seq(Conns) /\ skel \in [Sessions -> {"none", "half", "ready"}]
  BY WorldFields DEF IndInv, Safe, WorldType
<1>1. PICK granted \in SUBSET attached :
         \E order \in Bijection(1..Cardinality(granted), granted) :
           Becomes([World EXCEPT
             !.sess = f,
             !.conn = [c \in Conns |-> IF \E u \in attached : sess[u].conn = c
                         THEN Released(conn[c], \E u \in granted : sess[u].conn = c)
                         ELSE conn[c]],
             !.posted = posted \o [i \in 1..Cardinality(granted) |-> sess[order[i]].conn],
             !.skel = g,
             !.bad = b])
  BY WorldFields DEF Reap
<1> DEFINE n == Cardinality(granted)
<1>2. n \in Nat
  <2>1. IsFiniteSet(granted) BY <1>1, TransportConstants, FS_Subset
  <2> QED BY <2>1, FS_CardinalityType
<1> DEFINE k == [c \in Conns |-> IF \E u \in attached : sess[u].conn = c
                    THEN Released(conn[c], \E u \in granted : sess[u].conn = c)
                    ELSE conn[c]]
<1>3. PICK order \in Bijection(1..n, granted) :
         Becomes([World EXCEPT !.sess = f, !.conn = k,
                    !.posted = posted \o [i \in 1..n |-> sess[order[i]].conn],
                    !.skel = g, !.bad = b])
  BY <1>1
<1> DEFINE q == [i \in 1..n |-> sess[order[i]].conn]
           T == [World EXCEPT !.sess = f, !.conn = k, !.posted = posted \o q,
                              !.skel = g, !.bad = b]
<1>4. /\ \A i \in 1..n : order[i] \in granted
      /\ \A i, j \in 1..n : order[i] = order[j] => i = j
      /\ \A u \in granted : \E i \in 1..n : order[i] = u
  BY <1>3 DEF Bijection, Injection, Surjection, IsInjective
<1>5. ASSUME NEW u \in Sessions, u \in overdue
      PROVE  sess[u].mem = "live" /\ sess[u].conn # Gone /\ (sess[u].conn = Null \/ u \in attached)
  BY <1>0, <1>5, WorldFields, TransportConstants DEF Safe, Mutual, Live
<1>6. ASSUME NEW u \in Sessions
      PROVE  /\ f[u] \in Session
             /\ u \notin overdue => f[u] = sess[u]
             /\ u \in overdue => f[u].conn = Null /\ f[u].timer = "none"
  <2>1. CASE u \in overdue
    <3> DEFINE s == Freed(sess[u], why(u))
    <3>1. s \in Session /\ s.timer = "none" BY <1>0, FreedWrite
    <3>2. f[u] = [s EXCEPT !.conn = Null] BY <2>1
    <3> HIDE DEF s, f
    <3>3. f[u] \in Session /\ f[u].conn = Null /\ f[u].timer = "none"
      BY <3>1, <3>2 DEF Session
    <3> QED BY <2>1, <3>3
  <2>2. CASE u \notin overdue
    <3>1. f[u] = sess[u] BY <2>2
    <3> HIDE DEF f, overdue
    <3> QED BY <1>0, <2>2, <3>1
  <2> QED BY <2>1, <2>2
<1>7. f \in [Sessions -> Session] /\ DOMAIN f = Sessions
  <2>1. f = [u \in Sessions |-> f[u]] OBVIOUS
  <2> HIDE DEF f
  <2> QED BY <1>6, <2>1
<1>8. g \in [Sessions -> {"none", "half", "ready"}] BY <1>0
<1>9. b = World.bad BY <1>5, WorldFields
<1>10. ASSUME NEW u \in attached
       PROVE  u \in Sessions /\ sess[u].conn \in Conns /\ conn[sess[u].conn].ctx = u
  BY <1>0, WorldFields, TransportConstants DEF Safe, Mutual
<1>11. \A i \in 1..n : order[i] \in attached /\ q[i] = sess[order[i]].conn /\ q[i] \in Conns
  BY <1>1, <1>4, <1>10
<1>12. q \in Seq(Conns) /\ Len(q) = n /\ DOMAIN q = 1..n
  BY <1>2, <1>11
<1>13. ASSUME NEW c \in Conns
       PROVE  /\ k[c] \in Connection
              /\ (\E u \in attached : sess[u].conn = c) =>
                    /\ k[c].ctx = Null
                    /\ ~k[c].stuck => \E u \in granted : sess[u].conn = c
              /\ ~(\E u \in attached : sess[u].conn = c) => k[c] = conn[c]
  <2>1. conn[c] \in Connection BY <1>0
  <2> DEFINE x == \E u \in granted : sess[u].conn = c
  <2>2. Released(conn[c], x) \in Connection /\ Released(conn[c], x).ctx = Null
        /\ (Released(conn[c], x).stuck <=> ~x)
    <3>1. x \in BOOLEAN OBVIOUS
    <3> HIDE DEF x
    <3> QED BY <2>1, <3>1 DEF Released, Connection
  <2>3. CASE \E u \in attached : sess[u].conn = c
    <3>1. k[c] = Released(conn[c], x) BY <2>3
    <3> HIDE DEF k, attached, x
    <3>2. k[c] \in Connection /\ k[c].ctx = Null /\ (~k[c].stuck => x) BY <2>2, <3>1
    <3> QED BY <2>3, <3>2 DEF x
  <2>4. CASE ~(\E u \in attached : sess[u].conn = c)
    <3>1. k[c] = conn[c] BY <2>4
    <3> HIDE DEF k, attached
    <3> QED BY <2>1, <2>4, <3>1
  <2> QED BY <2>3, <2>4
<1>14. k \in [Conns -> Connection]
  <2>1. k = [c \in Conns |-> k[c]] OBVIOUS
  <2> HIDE DEF k
  <2> QED BY <1>13, <2>1
<1>15. Becomes(T) BY <1>3
<1> HIDE DEF f, g, b, k, q, n, attached, overdue
<1>16. posted \o q \in Seq(Conns) BY <1>0, <1>12
<1>17. T \in WorldType /\ T.sess = f /\ T.conn = k /\ T.posted = posted \o q /\ T.bad = bad
  <2>1. T \in WorldType /\ T.sess = f /\ T.conn = k /\ T.posted = posted \o q /\ T.bad = World.bad
    BY <1>0, <1>7, <1>8, <1>9, <1>14, <1>16 DEF WorldType
  <2> QED BY <2>1, WorldFields
<1> HIDE DEF T
<1>18. Mutual(T)
  <2>1. ASSUME NEW u \in Sessions, f[u].conn # Null
        PROVE  f[u].mem = "live" /\ f[u].conn \in Conns /\ k[f[u].conn].ctx = u
    <3>1. u \notin overdue /\ f[u] = sess[u] BY <1>6, <2>1
    <3>2. sess[u].mem = "live" /\ sess[u].conn \in Conns /\ conn[sess[u].conn].ctx = u
      BY <1>0, <2>1, <3>1, WorldFields DEF Safe, Mutual
    <3>3. ~(\E v \in attached : sess[v].conn = sess[u].conn)
      BY <1>10, <3>1, <3>2 DEF attached
    <3> QED BY <1>13, <3>1, <3>2, <3>3
  <2>2. ASSUME NEW c \in Conns, k[c].ctx # Null
        PROVE  k[c].open /\ f[k[c].ctx].conn = c
    <3>1. ~(\E v \in attached : sess[v].conn = c) /\ k[c] = conn[c] BY <1>13, <2>2
    <3>2. conn[c].ctx \in Sessions /\ conn[c].open /\ sess[conn[c].ctx].conn = c
      BY <1>0, <2>2, <3>1, WorldFields DEF Safe, Mutual, Connection
    <3>3. conn[c].ctx \notin overdue
      BY <1>5, <3>1, <3>2, TransportConstants
    <3> QED BY <1>6, <3>1, <3>2, <3>3
  <2> QED BY <1>17, <2>1, <2>2 DEF Mutual
<1>19. TimersLive(T)
  BY <1>0, <1>6, <1>17, WorldFields DEF Safe, TimersLive
<1>20. \A c \in Conns : conn[c].ctx = Null => k[c].ctx = Null
  BY <1>13
<1>21. PostedOnce(T)
  <2>1. \A i \in DOMAIN posted : posted[i] \in Conns /\ conn[posted[i]].ctx = Null
    BY <1>0, WorldFields DEF Safe, PostedOnce
  <2>2. \A i \in 1..n : /\ conn[q[i]].ctx # Null /\ k[q[i]].ctx = Null
    BY <1>10, <1>11, <1>13, TransportConstants
  <2>3. \A i, j \in 1..n : q[i] = q[j] => i = j
    BY <1>4, <1>10, <1>11
  <2>4. \A i, j \in DOMAIN posted : posted[i] = posted[j] => i = j
    BY <1>0, WorldFields DEF Safe, PostedOnce
  <2>5. \A i \in DOMAIN (posted \o q) :
           \/ i \in DOMAIN posted /\ (posted \o q)[i] = posted[i]
           \/ /\ i - Len(posted) \in 1..n /\ i \notin DOMAIN posted
              /\ (posted \o q)[i] = q[i - Len(posted)]
    BY <1>0, <1>2, <1>12
  <2>6. \A i \in DOMAIN (posted \o q) : k[(posted \o q)[i]].ctx = Null
    BY <1>20, <2>1, <2>2, <2>5
  <2>7. ASSUME NEW i \in DOMAIN (posted \o q), NEW j \in DOMAIN (posted \o q),
               (posted \o q)[i] = (posted \o q)[j]
        PROVE  i = j
    <3>1. i \in Nat /\ j \in Nat /\ Len(posted) \in Nat BY <1>0, <1>12
    <3>2. CASE i \in DOMAIN posted /\ j \in DOMAIN posted BY <2>4, <2>5, <2>7, <3>2
    <3>3. CASE i \notin DOMAIN posted /\ j \notin DOMAIN posted
      <4>1. i - Len(posted) = j - Len(posted) BY <2>3, <2>5, <2>7, <3>3
      <4> QED BY <3>1, <4>1
    <3>4. CASE i \in DOMAIN posted /\ j \notin DOMAIN posted BY <2>1, <2>2, <2>5, <2>7, <3>4
    <3>5. CASE i \notin DOMAIN posted /\ j \in DOMAIN posted BY <2>1, <2>2, <2>5, <2>7, <3>5
    <3> QED BY <3>2, <3>3, <3>4, <3>5
  <2> QED BY <1>17, <2>6, <2>7 DEF PostedOnce
<1>22. Returned(T)
  <2>1. \A c \in Conns : Queued(World, c) => Queued(T, c)
    <3>1. \A i \in DOMAIN posted : i \in DOMAIN (posted \o q) /\ (posted \o q)[i] = posted[i]
      BY <1>0, <1>2, <1>12
    <3> QED BY <1>17, <3>1, WorldFields DEF Queued
  <2>2. \A u \in granted : Queued(T, sess[u].conn)
    <3> SUFFICES ASSUME NEW u \in granted PROVE Queued(T, sess[u].conn) OBVIOUS
    <3>1. PICK i \in 1..n : order[i] = u BY <1>4
    <3>2. q[i] = sess[u].conn BY <1>11, <3>1
    <3>3. Len(posted) + i \in DOMAIN (posted \o q) /\ (posted \o q)[Len(posted) + i] = q[i]
      BY <1>0, <1>2, <1>12
    <3> QED BY <1>17, <3>2, <3>3 DEF Queued
  <2> SUFFICES ASSUME NEW c \in Conns, k[c].open, k[c].bound, ~k[c].stuck
               PROVE  k[c].ctx # Null \/ Queued(T, c)
    BY <1>17 DEF Returned
  <2>3. CASE \E u \in attached : sess[u].conn = c BY <1>13, <2>2, <2>3
  <2>4. CASE ~(\E u \in attached : sess[u].conn = c)
    <3>1. k[c] = conn[c] BY <1>13, <2>4
    <3> QED BY <1>0, <2>1, <3>1, WorldFields DEF Safe, Returned
  <2> QED BY <2>3, <2>4
<1>23. Safe(T) BY <1>0, <1>17, <1>18, <1>19, <1>21, <1>22, WorldFields DEF Safe
<1> QED BY <1>0, <1>15, <1>23, BecomesSafe

-----------------------------------------------------------------------------
(* The theorems *)

LEMMA InitInv == Init => IndInv
<1> SUFFICES ASSUME Init PROVE IndInv OBVIOUS
<1>1. \A u \in Sessions : sess[u] = NoSession BY DEF Init
<1>2. \A c \in Conns : conn[c] = Closed BY DEF Init
<1>3. World \in WorldType
  <2>1. << >> \in Seq(Conns) OBVIOUS
  <2> QED BY <2>1, BlankTypes DEF Init, World, WorldType
<1>4. Mutual(World) /\ TimersLive(World) /\ Returned(World)
  BY <1>1, <1>2, WorldFields DEF Mutual, TimersLive, Returned, NoSession, Closed
<1>5. PostedOnce(World) BY WorldFields DEF Init, PostedOnce
<1> QED BY <1>3, <1>4, <1>5, WorldFields, TransportConstants DEF Init, IndInv, Safe

LEMMA StepInv == ASSUME ~Roaming PROVE IndInv /\ [Next]_vars => IndInv'
<1> SUFFICES ASSUME IndInv, [Next]_vars PROVE IndInv' OBVIOUS
<1>1. CASE UNCHANGED vars BY <1>1 DEF vars, IndInv, World
<1>2. ASSUME NEW u \in Sessions, NEW here \in BOOLEAN, Signal(u, here) PROVE IndInv'
  BY <1>2, SignalInv
<1>3. ASSUME NEW u \in Sessions, NEW c \in Conns, Stun(u, c) PROVE IndInv'
  BY <1>3, StunInv
<1>4. ASSUME NEW u \in Sessions, Media(u) \/ DtlsTimer(u) \/ FlightDue(u) PROVE IndInv'
  BY <1>4, MediaInv, DtlsTimerInv, FlightDueInv
<1>5. ASSUME NEW c \in Conns, Dtls(c) \/ Srtp(c) PROVE IndInv'
  BY <1>5, DtlsInv, SrtpInv
<1>6. ASSUME NEW c \in Conns, NEW bye \in BOOLEAN, Srtcp(c, bye) PROVE IndInv'
  BY <1>6, SrtcpInv
<1>7. ASSUME NEW kicked \in SUBSET Sessions, Reap(kicked) PROVE IndInv'
  BY <1>7, ReapInv
<1>8. CASE RunPosted \/ Tick \/ Crash BY <1>8, RunPostedInv, TickInv, CrashInv
<1> QED BY <1>1, <1>2, <1>3, <1>4, <1>5, <1>6, <1>7, <1>8 DEF Next

LEMMA AlwaysIndInv == ASSUME ~Roaming PROVE Spec => []IndInv
<1>1. Init => IndInv BY InitInv
<1>2. IndInv /\ [Next]_vars => IndInv' BY StepInv
<1> QED BY <1>1, <1>2, PTL DEF Spec

(* The worker's tables hold what their declarations say. *)
THEOREM TypeCorrect == ASSUME ~Roaming PROVE Spec => []TypeOK
<1>1. IndInv => TypeOK
  BY WorldFields DEF IndInv, Safe, WorldType, TypeOK
<1>2. Spec => []IndInv BY AlwaysIndInv
<1> QED BY <1>1, <1>2, PTL

(* No callback, timer, posted event or packet reaches a session or a        *)
(* connection that ngx_rtc_stream_session_close or its posted finalize has  *)
(* freed, and none is finalized twice, as long as a client keeps its        *)
(* address: however handshakes fail, whichever allocations fail and         *)
(* whenever the worker dies.                                                *)
THEOREM NothingUsedAfterFree == ASSUME ~Roaming PROVE Spec => []NoUseAfterFree
<1>1. IndInv => NoUseAfterFree
  BY WorldFields DEF IndInv, Safe, NoUseAfterFree
<1>2. Spec => []IndInv BY AlwaysIndInv
<1> QED BY <1>1, <1>2, PTL

(* Under the same assumption a connection slot that served a session either *)
(* still does or is queued for its finalize.                                *)
THEOREM SlotsGivenBack == ASSUME ~Roaming PROVE Spec => []SlotsReturned
<1>1. IndInv => SlotsReturned
  <2> SUFFICES ASSUME IndInv, NEW c \in Conns, conn[c].open, conn[c].bound, ~conn[c].stuck
               PROVE  \/ \E u \in Sessions : Live(u) /\ sess[u].conn = c
                      \/ \E i \in DOMAIN posted : posted[i] = c
    BY DEF SlotsReturned
  <2>1. CASE conn[c].ctx # Null
    <3>1. SafeWith(World, conn[c].ctx) BY <2>1, Dispatched
    <3>2. sess[conn[c].ctx].conn = c
      BY <2>1, WorldFields DEF IndInv, Safe, Mutual
    <3> QED BY <3>1, <3>2, WorldFields DEF SafeWith, Live
  <2>2. CASE conn[c].ctx = Null
    BY <2>2, WorldFields DEF IndInv, Safe, Returned, Queued
  <2> QED BY <2>1, <2>2
<1>2. Spec => []IndInv BY AlwaysIndInv
<1> QED BY <1>1, <1>2, PTL
=============================================================================
