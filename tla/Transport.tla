----------------------------- MODULE Transport ------------------------------
(***************************************************************************)
(* The media transport of one worker: nginx UDP connections, the sessions  *)
(* bound to them, the DTLS handshake with its retransmission timer, and    *)
(* the teardown that frees them.  What can go wrong is the lifetime of two *)
(* kinds of memory, a session and a connection, that point at each other   *)
(* while callbacks, timers and posted events hold pointers of their own.   *)
(* Handlers run to completion, so each is one action, composed of the      *)
(* functions it calls; each is a map from a world W to the next one, and   *)
(* W.bad records every access to freed memory on the way.                  *)
(***************************************************************************)
EXTENDS Naturals, Sequences, FiniteSets, Functions, SessionFsm

CONSTANTS
    Sessions,          \* ICE ufrags; random in the code, never repeated
    Conns,             \* remote addresses (4-tuples) of clients
    Null,              \* no session, no connection
    Gone,              \* a pointer to a connection that was destroyed
    Roaming,           \* may a client change its address, or share one?
    AllocFails,        \* may a small allocation fail?
    HandshakeTimeout,  \* rtc_handshake_timeout in ticks
    ReadyTimeout,      \* rtc_ready_timeout in ticks
    MaxTries,          \* retransmissions after which OpenSSL gives up
    MaxCrashes         \* bound on worker crashes

(* Assumption on the constants, checked where the module is instantiated. *)
ASSUME TransportConstants ==
    /\ IsFiniteSet(Sessions) /\ Null \notin Sessions
    /\ Null \notin Conns /\ Gone \notin Conns /\ Null # Gone
    /\ {Roaming, AllocFails} \subseteq BOOLEAN
    /\ {HandshakeTimeout, ReadyTimeout, MaxTries} \subseteq Nat \ {0}
    /\ MaxCrashes \in Nat

VARIABLES
    sess,     \* ufrag -> ngx_rtc_session_t of this worker
    conn,     \* address -> its nginx connection and stream session
    posted,   \* finalize events in ngx_posted_events, oldest first
    skel,     \* ufrag -> its skeleton in the zone: none, half open or ready
    crashes,  \* bounds Crash
    bad       \* history: what was accessed after it was freed

vars == <<sess, conn, posted, skel, crashes, bad>>

Larger(a, b) == IF a < b THEN b ELSE a

IdleMax == Larger(HandshakeTimeout, ReadyTimeout)

(* flight: the OpenSSL timer of the flight in the air.  timer: the nginx    *)
(* event, not allocated, allocated or armed.  starved: history, it could    *)
(* not be allocated.                                                        *)
Session == [mem : {"none", "live", "freed"}, st : SessionStates, conn : Conns \cup {Null, Gone},
            ssl : BOOLEAN, done : BOOLEAN, flight : {"off", "running", "due"},
            tries : 0..MaxTries, timer : {"none", "idle", "armed"},
            starved : BOOLEAN, close_pending : BOOLEAN, keys : BOOLEAN, idle : 0..IdleMax]

(* ctx: the module's context of the stream session.  bound: history, a      *)
(* session was bound to it.  stuck: history, its finalize could not be      *)
(* posted.                                                                  *)
Connection == [open : BOOLEAN, ctx : Sessions \cup {Null}, bound : BOOLEAN, stuck : BOOLEAN]

TypeOK ==
    /\ sess \in [Sessions -> Session]
    /\ conn \in [Conns -> Connection]
    /\ posted \in Seq(Conns)
    /\ skel \in [Sessions -> {"none", "half", "ready"}]
    /\ crashes \in 0..MaxCrashes
    /\ bad \subseteq {"session", "connection", "finalize"}

NoSession == [mem |-> "none", st |-> "NEW", conn |-> Null, ssl |-> FALSE, done |-> FALSE,
              flight |-> "off", tries |-> 0, timer |-> "none", starved |-> FALSE,
              close_pending |-> FALSE, keys |-> FALSE, idle |-> 0]

Closed == [open |-> FALSE, ctx |-> Null, bound |-> FALSE, stuck |-> FALSE]

Init == /\ sess = [u \in Sessions |-> NoSession]
        /\ conn = [c \in Conns |-> Closed]
        /\ posted = <<>>
        /\ skel = [u \in Sessions |-> "none"]
        /\ crashes = 0
        /\ bad = {}

(* The world the handlers' functions map. *)
World == [sess |-> sess, conn |-> conn, posted |-> posted, skel |-> skel, bad |-> bad]

Becomes(W) == /\ sess' = W.sess /\ conn' = W.conn /\ posted' = W.posted
              /\ skel' = W.skel /\ bad' = W.bad /\ UNCHANGED crashes

Live(u) == sess[u].mem = "live"

-----------------------------------------------------------------------------
(* Accesses *)

(* Reading or writing the memory of session u. *)
UseSession(W, u) == [W EXCEPT !.bad = IF W.sess[u].mem = "freed" THEN @ \cup {"session"} ELSE @]

(* c->send on the connection of session u, if it has one. *)
Send(W, u) == [W EXCEPT !.bad = IF W.sess[u].conn = Gone THEN @ \cup {"connection"} ELSE @]

(* An nginx timer or posted event may be allocated, or not. *)
Allocated == IF AllocFails THEN BOOLEAN ELSE {TRUE}

-----------------------------------------------------------------------------
(* The DTLS timer *)

(* ngx_rtc_dtls_next_timeout_ms > 0.  DTLSv1_get_timeout is 0 without a     *)
(* running timer and for one that is due.                                   *)
NextTimeout(s) == s.ssl /\ ~s.done /\ s.flight = "running"

Timed(s, ok) == [s EXCEPT !.timer = IF ok THEN "armed" ELSE @, !.starved = ~ok]

(* ngx_rtc_stream_dtls_schedule *)
Schedule(W, u, alloc) ==
    LET s  == W.sess[u]
        ok == s.timer # "none" \/ alloc
    IN  IF ~NextTimeout(s) THEN W
        ELSE [W EXCEPT !.sess[u] = Timed(@, ok)]

(* ngx_rtc_stream_dtls_cancel *)
Cancel(W, u) == [W EXCEPT !.sess[u].timer = "none"]

-----------------------------------------------------------------------------
(* Teardown *)

(* Mutant: the nginx connection is left to nginx. *)
DetachKeepsSlot(W, u, alloc) ==
    LET c == W.sess[u].conn
        V == [Send(W, u) EXCEPT !.sess[u].conn = Null]
    IN  IF c \notin Conns THEN V ELSE [V EXCEPT !.conn[c].ctx = Null]

(* ngx_rtc_stream_session_close, first half: the context of the session's   *)
(* connection is cleared and the connection's finalize posted, if its event *)
(* can be allocated.                                                        *)
Released(k, alloc) == [k EXCEPT !.ctx = Null, !.stuck = ~alloc]

Detach(W, u, alloc) ==
    LET c == W.sess[u].conn
        V == [Send(W, u) EXCEPT !.sess[u].conn = Null]
    IN  IF c \notin Conns THEN V
        ELSE [V EXCEPT !.conn[c] = Released(@, alloc),
                       !.posted = IF alloc THEN Append(@, c) ELSE @]

(* The second half.  Source and registry are RtcWorkers' subject; here the  *)
(* timer is cancelled, keys and SSL are freed, then the session is.         *)
Freed(s, event) == [s EXCEPT !.st = Moved(@, event), !.timer = "none", !.keys = FALSE,
                             !.ssl = FALSE, !.done = FALSE, !.flight = "off",
                             !.mem = "freed"]

(* The whole close; the skeleton goes too. *)
Close(W, u, event, alloc) ==
    [Detach(UseSession(W, u), u, alloc) EXCEPT !.sess[u] = Freed(@, event),
                                               !.skel[u] = "none"]

-----------------------------------------------------------------------------
(* The handshake *)

Keyed(s) == [s EXCEPT !.keys = TRUE, !.idle = 0, !.st = Moved(@, "DTLS_HANDSHAKE_DONE")]

(* Mutant: a failed key export closes the session from the callback. *)
DoneCloses(W, u, ok) ==
    IF ok THEN [UseSession(W, u) EXCEPT !.sess[u] = Keyed(@), !.skel[u] = "ready"]
    ELSE Close(W, u, "CLOSE", TRUE)

(* ngx_rtc_stream_dtls_done: keys are exported and SRTP created, or the     *)
(* session is flagged for its caller to close.                              *)
Done(W, u, ok) ==
    LET V == UseSession(W, u)
    IN  IF ~ok THEN [V EXCEPT !.sess[u].close_pending = TRUE]
        ELSE [V EXCEPT !.sess[u] = Keyed(@), !.skel[u] = "ready"]

(* The handshake is finished: the flight's timer stops and the callback     *)
(* runs, once.                                                              *)
Finished(W, u, ok) ==
    LET s == W.sess[u]
    IN  Done([W EXCEPT !.sess[u] = [s EXCEPT !.done = TRUE, !.flight = "off"]], u, ok)

(* ngx_rtc_dtls_on_data, on an SSL object: the worlds OpenSSL may leave     *)
(* behind when it does not fail.  It answers (c->send), starts a flight     *)
(* when the client's is complete, or finishes the handshake.                *)
OnData(W, u) ==
    LET s == W.sess[u]
        V == Send(W, u)
    IN  {V} \cup
        (CASE s.done                       -> {}
           [] ~s.done /\ s.flight = "off"  -> {[V EXCEPT !.sess[u].flight = "running"]}
           [] ~s.done /\ s.flight # "off"  -> {Finished(V, u, ok) : ok \in BOOLEAN})

(* Mutant: nothing times the flight that was just sent. *)
SettleUntimed(W, u, alloc) ==
    LET V == UseSession(W, u)
    IN  IF V.sess[u].close_pending THEN Close(V, u, "CLOSE", alloc) ELSE V

(* The tail of on_dtls and of the timer handler after the library returned: *)
(* a flagged session is closed, any other is timed again.                   *)
Settle(W, u, alloc) ==
    LET V == UseSession(W, u)
    IN  IF V.sess[u].close_pending THEN Close(V, u, "CLOSE", alloc) ELSE Schedule(V, u, alloc)

(* From ngx_rtc_dtls_on_data on: it fails, always without an SSL object, or *)
(* the handler settles.                                                     *)
FedTo(W, u, alloc) ==
    LET V == [W EXCEPT !.sess[u].idle = 0]
    IN  {Close(V, u, "CLOSE", alloc)}
        \cup IF V.sess[u].ssl THEN {Settle(X, u, alloc) : X \in OnData(V, u)} ELSE {}

Started(s, c, created) ==
    [s EXCEPT !.st = Moved(@, "DTLS_PACKET"), !.conn = c, !.ssl = created]

(* ngx_rtc_stream_on_dtls for the session in the connection's context: the  *)
(* first record creates the SSL object, which may fail.                     *)
OnDtls(W, c, u, wellFormed, created, alloc) ==
    LET V == UseSession(W, u)
        s == V.sess[u]
        N == [V EXCEPT !.sess[u] = Started(@, c, created)]
    IN  IF ~DtlsPending(s.st) THEN FedTo(V, u, alloc)
        ELSE IF s.st = "NEW" \/ ~wellFormed THEN {V}
        ELSE IF ~created THEN {Close(N, u, "CLOSE", alloc)}
        ELSE FedTo(Schedule(N, u, alloc), u, alloc)

-----------------------------------------------------------------------------
(* Datagrams.  One for an address without a connection opens it.            *)
Opened(W, c) == IF W.conn[c].open THEN W
                ELSE [W EXCEPT !.conn[c] = [Closed EXCEPT !.open = TRUE]]

(* A client keeps its address for a session, and an address is used again   *)
(* once the last session's connection is gone.                              *)
Settled(u, c) == /\ sess[u].conn \in {Null, c}
                 /\ conn[c].ctx \in {Null, u}
                 /\ c \notin {posted[i] : i \in DOMAIN posted} \/ sess[u].conn = c

(* ngx_rtc_stream_attach_from_shm: a worker that does not know the session  *)
(* rebuilds it from its skeleton, ready if the skeleton is.                 *)
Attached(W, u) == [W EXCEPT !.sess[u] = [NoSession EXCEPT !.mem = "live",
                       !.st = IF W.skel[u] = "ready" THEN "SRTP_READY" ELSE "NEW"]]

OnAddress(s, c) == [s EXCEPT !.conn = c, !.idle = 0, !.st = Moved(@, "STUN_BINDING")]

Serving(k, u) == [k EXCEPT !.ctx = u, !.bound = TRUE]

(* ngx_rtc_stream_on_stun: a binding request, once it is verified.  The     *)
(* session it names is looked up or rebuilt before that.                    *)
Bound(W, u, c) ==
    [W EXCEPT !.sess[u] = OnAddress(@, c), !.conn[c] = Serving(@, u)]

Stun(u, c) ==
    /\ Roaming \/ Settled(u, c)
    /\ LET W == Opened(World, c)
           V == IF Live(u) THEN W ELSE Attached(W, u)
       IN  \/ /\ Live(u) \/ skel[u] # "none"
              /\ Becomes(V) \/ Becomes(Bound(V, u, c))
           \/ ~Live(u) /\ Becomes(W)

(* A DTLS record.  Without a context it is ignored. *)
Dtls(c) ==
    LET W == Opened(World, c)
        u == W.conn[c].ctx
    IN  IF u = Null THEN Becomes(W)
        ELSE \E wellFormed, created \in BOOLEAN, alloc \in Allocated :
               \E T \in OnDtls(W, c, u, wellFormed, created, alloc) : Becomes(T)

(* A packet can be decrypted once the session has keys.                     *)
Unprotects(s) == IsReady(s.st) /\ s.keys

(* ngx_rtc_stream_on_srtp: media of a publisher counts as activity once it  *)
(* is decrypted.                                                            *)
Srtp(c) ==
    LET u == conn[c].ctx
        W == UseSession(World, u)
    IN  /\ conn[c].open /\ u # Null
        /\ Becomes(IF Unprotects(sess[u])
                   THEN [W EXCEPT !.sess[u].idle = 0] ELSE W)

(* ngx_rtc_stream_on_rtcp: any feedback counts as activity; a BYE is acted  *)
(* on after the compound packet was walked.                                 *)
Srtcp(c, bye) ==
    LET u == conn[c].ctx
        W == [UseSession(World, u) EXCEPT !.sess[u].idle = 0]
    IN  /\ conn[c].open /\ u # Null
        /\ IF ~IsReady(sess[u].st) \/ sess[u].conn = Null THEN Becomes(UseSession(World, u))
           ELSE IF bye /\ Unprotects(sess[u])
           THEN \E alloc \in Allocated : Becomes(Close(W, u, "RTCP_BYE", alloc))
           ELSE Becomes(W)

-----------------------------------------------------------------------------
(* Signalling, media, timers *)

(* An offer is accepted here, or on another worker, which leaves a          *)
(* skeleton only.                                                           *)
Signal(u, here) ==
    /\ sess[u].mem = "none" /\ skel[u] = "none"
    /\ Becomes([World EXCEPT !.skel[u] = "half",
                  !.sess[u].mem = IF here THEN "live" ELSE "none"])

(* Media to a subscriber: ngx_rtc_session_send_rtp. *)
Media(u) == /\ Live(u) /\ IsReady(sess[u].st) /\ sess[u].conn # Null
            /\ Becomes(Send(World, u))

Resent(s) == [s EXCEPT !.flight = "running", !.tries = @ + 1]

(* DTLSv1_handle_timeout, for a flight that is due: it is sent again, or    *)
(* OpenSSL gives up, which it does at MaxTries at the latest.               *)
HandleTimeout(W, u) ==
    IF W.sess[u].tries = MaxTries THEN {}
    ELSE {[Send(W, u) EXCEPT !.sess[u] = Resent(@)]}

(* ngx_rtc_stream_dtls_timer.  ok is the key export's outcome, should the   *)
(* handshake be found finished.                                             *)
DtlsTimer(u) ==
    LET W == UseSession([World EXCEPT !.sess[u].timer = "idle"], u)
        s == W.sess[u]
    IN  /\ s.timer = "idle" /\ sess[u].timer = "armed"
        /\ \/ s.done /\ Becomes(W)
           \/ /\ ~s.done /\ s.flight # "due"
              /\ \E alloc \in Allocated : Becomes(Settle(W, u, alloc))
           \/ /\ ~s.done /\ s.flight = "due"
              /\ \E alloc \in Allocated :
                    \/ Becomes(Close(W, u, "TIMEOUT", alloc))
                    \/ \E T \in HandleTimeout(W, u) :
                          \/ Becomes(Settle(T, u, alloc))
                          \/ \E ok \in BOOLEAN :
                                LET F == Settle(Finished(T, u, ok), u, alloc)
                                IN  Becomes(IF ok THEN Cancel(F, u) ELSE F)

(* The OpenSSL timer runs out. *)
FlightDue(u) == /\ Live(u) /\ sess[u].flight = "running"
                /\ Becomes([World EXCEPT !.sess[u].flight = "due"])

Timeout(s) == IF IsReady(s.st) THEN ReadyTimeout ELSE HandshakeTimeout

(* ngx_rtc_stream_reap_timer: every session that is kicked or was silent    *)
(* for too long is closed, in some order; granted are those whose finalize  *)
(* event could be allocated.                                                *)
Reap(kicked) ==
    LET overdue  == {u \in Sessions : Live(u) /\ (u \in kicked \/ sess[u].idle >= Timeout(sess[u]))}
        attached == {u \in overdue : sess[u].conn \in Conns}
        why(u)   == IF u \in kicked THEN "CLOSE" ELSE "TIMEOUT"
    IN  /\ overdue # {}
        /\ \E granted \in IF AllocFails THEN SUBSET attached ELSE {attached} :
           \E order \in Bijection(1..Cardinality(granted), granted) :
              Becomes([World EXCEPT
                !.sess = [u \in Sessions |-> IF u \in overdue
                            THEN [Freed(sess[u], why(u)) EXCEPT !.conn = Null] ELSE sess[u]],
                !.conn = [c \in Conns |-> IF \E u \in attached : sess[u].conn = c
                            THEN Released(conn[c], \E u \in granted : sess[u].conn = c)
                            ELSE conn[c]],
                !.posted = @ \o [i \in 1..Cardinality(granted) |-> sess[order[i]].conn],
                !.skel = [u \in Sessions |-> IF u \in overdue THEN "none" ELSE skel[u]],
                !.bad = IF \E u \in overdue : sess[u].conn = Gone
                        THEN @ \cup {"connection"} ELSE @])

(* ngx_rtc_stream_close_ev_handler for every posted event; a connection can *)
(* be finalized once.                                                       *)
RunPosted ==
    LET doomed == {posted[i] : i \in DOMAIN posted}
    IN  /\ posted # <<>>
        /\ Becomes([World EXCEPT
              !.posted = <<>>,
              !.conn = [c \in Conns |-> IF c \in doomed THEN Closed ELSE conn[c]],
              !.sess = [u \in Sessions |-> IF sess[u].conn \in doomed
                                           THEN [sess[u] EXCEPT !.conn = Gone] ELSE sess[u]],
              !.bad = IF \E i, j \in DOMAIN posted : i # j /\ posted[i] = posted[j]
                      THEN @ \cup {"finalize"} ELSE @])

Tick == Becomes([World EXCEPT !.sess = [u \in Sessions |->
            IF Live(u) /\ sess[u].idle < IdleMax
            THEN [sess[u] EXCEPT !.idle = @ + 1] ELSE sess[u]]])

(* The worker dies and is respawned on its slot; the zone survives. *)
Crash == /\ crashes < MaxCrashes
         /\ crashes' = crashes + 1
         /\ sess' = [u \in Sessions |-> IF sess[u].mem = "freed" THEN sess[u] ELSE NoSession]
         /\ conn' = [c \in Conns |-> Closed]
         /\ posted' = <<>>
         /\ UNCHANGED <<skel, bad>>

-----------------------------------------------------------------------------
Next == \/ \E u \in Sessions : \/ \E here \in BOOLEAN : Signal(u, here)
                               \/ \E c \in Conns : Stun(u, c)
                               \/ Media(u) \/ DtlsTimer(u) \/ FlightDue(u)
        \/ \E c \in Conns : Dtls(c) \/ Srtp(c) \/ \E bye \in BOOLEAN : Srtcp(c, bye)
        \/ \E kicked \in SUBSET Sessions : Reap(kicked)
        \/ RunPosted \/ Tick \/ Crash

Spec == Init /\ [][Next]_vars

(* Timers that are due and posted events are served in every turn of the    *)
(* event loop, and OpenSSL's clock runs.                                    *)
Fairness == /\ \A u \in Sessions : WF_vars(DtlsTimer(u)) /\ WF_vars(FlightDue(u))
            /\ WF_vars(RunPosted)

LiveSpec == Spec /\ Fairness

-----------------------------------------------------------------------------
(* Properties *)

(* No handler, callback, timer or posted event uses a session or an nginx   *)
(* connection after it was freed, nor finalizes a connection twice.         *)
NoUseAfterFree == bad = {}

(* A connection slot a session was bound to is given back: it belongs to a  *)
(* live session or its finalize is posted.                                  *)
SlotsReturned ==
    \A c \in Conns : conn[c].open /\ conn[c].bound /\ ~conn[c].stuck =>
        \/ \E u \in Sessions : Live(u) /\ sess[u].conn = c
        \/ \E i \in DOMAIN posted : posted[i] = c

(* A flight in the air is timed. *)
FlightTimed ==
    \A u \in Sessions :
        Live(u) /\ sess[u].flight # "off" /\ ~sess[u].starved => sess[u].timer = "armed"

(* However much else the client sends, a handshake whose flight it never    *)
(* answers ends.                                                            *)
HandshakeEnds ==
    \A u \in Sessions :
        (Live(u) /\ sess[u].flight # "off") ~> (~Live(u) \/ sess[u].done \/ sess[u].starved)

(* A session that reports SRTP_READY can protect a packet. *)
ReadyCarriesMedia ==
    \A u \in Sessions : Live(u) /\ IsReady(sess[u].st) => sess[u].keys

(* A connection slot without a session is given back, sooner or later.      *)
NoIdleSlot ==
    \A c \in Conns : conn[c].open ~>
        (~conn[c].open \/ \E u \in Sessions : Live(u) /\ sess[u].conn = c)
=============================================================================
