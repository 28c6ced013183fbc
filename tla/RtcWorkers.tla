----------------------------- MODULE RtcWorkers -----------------------------
(***************************************************************************)
(* The nginx workers around the shared registry: signalling (HTTP), the    *)
(* UDP media plane, the RTMP ingest bridge and the reap timer.             *)
(*                                                                         *)
(* A worker is single threaded, so only the registry's lock boundaries     *)
(* inside a handler are visible to the others.  A handler is its first     *)
(* locked call, taken with the handler's own action, and the rest of its   *)
(* locked calls, left on the worker's agenda and taken one at a time by    *)
(* Resume.  Changes to process-local state are merged into those steps.    *)
(*                                                                         *)
(* A worker keeps, per name, its ngx_rtc_source_t (`lsrc`) and, per ufrag, *)
(* its ngx_rtc_session_t (`lsess`).  The signalling worker keeps a second  *)
(* copy of a session whose media runs on another worker.                   *)
(***************************************************************************)
EXTENDS ShmOps, Sequences

CONSTANTS
    Players,          \* ufrags of WebRTC viewers
    Whips,            \* ufrags of WHIP publishers
    Aborted,          \* ufrags whose signalling request fails part-way
    RtmpWorkers,      \* workers an RTMP publisher may connect to
    Kicked,           \* ufrags an administrator may disconnect
    ShmSync,          \* NGX_RTC_SHM_SYNC_MS, in ticks
    HandshakeTimeout, \* rtc_handshake_timeout, in ticks
    ReadyTimeout,     \* rtc_ready_timeout, in ticks
    MaxCrashes        \* bound on worker crashes

ASSUME WorkerClients ==
    /\ Players \cup Whips \cup Aborted \subseteq Ufrags
    /\ Players \cap Whips = {} /\ Aborted \cap (Players \cup Whips) = {}
    /\ RtmpWorkers \subseteq Slots /\ Kicked \subseteq Ufrags
    /\ MaxCrashes \in Nat

ASSUME WorkerTimes ==
    /\ ShmSync \in Nat \ {0}
    /\ HandshakeTimeout \in Nat \ {0}
    /\ ReadyTimeout \in Nat \ {0} /\ HandshakeTimeout <= ReadyTimeout

VARIABLES
    shm, issued,  \* the registry, as in ShmRegistry
    lsrc,         \* worker -> name -> process-local source
    lsess,        \* worker -> ufrag -> process-local session
    agenda,       \* worker -> locked calls its current handler still makes
    crashes       \* worker crashes so far

vars == <<shm, issued, lsrc, lsess, agenda, crashes>>

NoSession == "NONE"
Pointers  == Cells \cup {NoCell}

(* `publishing` of a local source is 1 exactly when publisher_kind is set:  *)
(* claim, release and mirror write the pair.  `sync` is the age of          *)
(* shm_sync_ms, kept only while shm_src is cached.                          *)
LocalSource  == [here : BOOLEAN, kind : Kinds, ptr : Pointers, sync : 0..ShmSync]
LocalSession == [st : States \cup {NoSession}, name : Names, pub : BOOLEAN,
                 idle : 0..ReadyTimeout]

AbsentSource  == [here |-> FALSE, kind |-> "none", ptr |-> NoCell, sync |-> 0]
AbsentSession == [st |-> NoSession, name |-> AnyName, pub |-> FALSE, idle |-> 0]

(* A locked call of a handler.  Unused fields hold a fixed value. *)
Call(op, n, kind, U) == [op |-> op, n |-> n, kind |-> kind, U |-> U]

(* Types of the zone, of each worker's sources and sessions, and of the     *)
(* locked calls a handler has left to make.                                 *)
TypeOK ==
    /\ shm \in RegType
    /\ issued \subseteq Ufrags
    /\ lsrc \in [Slots -> [Names -> LocalSource]]
    /\ lsess \in [Slots -> [Ufrags -> LocalSession]]
    /\ \A w \in Slots : \A i \in DOMAIN agenda[w] :
         agenda[w][i] \in [op : {"ptr", "get", "add", "mirror", "state", "slot",
                                 "release", "remove", "drop", "scan"},
                           n : Names, kind : Kinds, U : SUBSET Ufrags]
    /\ crashes \in 0..MaxCrashes

Init == /\ shm = EmptyZone
        /\ issued = {}
        /\ lsrc = [w \in Slots |-> [n \in Names |-> AbsentSource]]
        /\ lsess = [w \in Slots |-> [u \in Ufrags |-> AbsentSession]]
        /\ agenda = [w \in Slots |-> <<>>]
        /\ crashes = 0

Idle(w) == agenda[w] = <<>>

Has(w, u) == lsess[w][u].st # NoSession

-----------------------------------------------------------------------------
(* The process-local source *)

(* ngx_rtc_source_create: look up, else build an empty one. *)
Created(s) == IF s.here THEN s ELSE [AbsentSource EXCEPT !.here = TRUE]

(* ngx_rtc_publish_claim's mirror, without the pointer it looks up later. *)
Claimed(s, kind) == [Created(s) EXCEPT !.kind = kind, !.ptr = NoCell, !.sync = 0]

(* The mirror cleared: a refused claim, or ngx_rtc_publish_release. *)
Cleared(s) == [s EXCEPT !.kind = "none", !.ptr = NoCell, !.sync = 0]

(* Mutant: only the publisher keeps a local source. *)
HeldByNobody(H) == FALSE

(* ngx_rtc_source_has_holder, for the sessions H that still hold it. *)
HeldBy(H) == H # {}

Holders(w, n) == {u \in Ufrags : Has(w, u) /\ lsess[w][u].name = n}

(* ngx_rtc_source_remove: keeps a source that publishes or is held. *)
Removed(s, H) == IF s.kind = "none" /\ ~HeldBy(H) THEN AbsentSource ELSE s

(* The shm source pointer cached, and stamped. *)
Cached(s, c) == [s EXCEPT !.ptr = c, !.sync = 0]

(* ngx_rtc_publish_mirror, after the pointer is cached. *)
Mirrored(s, c) == [Cached(s, c) EXCEPT !.kind = "whip"]

-----------------------------------------------------------------------------
(* Signalling: ngx_rtc_http_module.c *)

NewLocal(n, pub) == [st |-> "NEW", name |-> n, pub |-> pub, idle |-> 0]

(* Mutant: a ufrag is reused once no worker has the session. *)
ReusedUfrag(u) == \A w \in Slots : ~Has(w, u)

(* Ufrags are random: one that is in use, or in a request, is not drawn.     *)
FreshUfrag(u) == /\ u \notin issued
                 /\ \A w \in Slots : /\ ~Has(w, u)
                                     /\ \A i \in DOMAIN agenda[w] : u \notin agenda[w][i].U

(* POST /rtc/v1/play: shm source first, then the skeleton. *)
Play(w, u, n) ==
    /\ Idle(w) /\ u \in Players /\ FreshUfrag(u)
    /\ \E o \in SourceGet(shm, n) : shm' = o.reg
    /\ lsrc' = [lsrc EXCEPT ![w][n] = Created(@)]
    /\ lsess' = [lsess EXCEPT ![w][u] = NewLocal(n, FALSE)]
    /\ agenda' = [agenda EXCEPT ![w] = <<Call("add", n, "none", {u})>>]
    /\ UNCHANGED <<issued, crashes>>

(* POST /rtc/v1/whip: claim the name.  A refused claim clears the mirror of *)
(* a source this worker had, and removes one it just built.                 *)
WhipRefused(w, u, n) ==
    /\ Idle(w) /\ u \in Whips /\ FreshUfrag(u)
    /\ lsrc[w][n].kind # "rtmp" /\ PublishBusy(shm, n, "whip")
    /\ shm' = TryPublish(shm, n, "whip")
    /\ lsrc' = [lsrc EXCEPT ![w][n] = Cleared(@)]
    /\ UNCHANGED <<issued, lsess, agenda, crashes>>

(* The claim never creates the shm source: when there is none the mirror    *)
(* says "whip" with no pointer, and the source is created afterwards.       *)
Whip(w, u, n) ==
    /\ Idle(w) /\ u \in Whips /\ FreshUfrag(u)
    /\ lsrc[w][n].kind # "rtmp" /\ ~PublishBusy(shm, n, "whip")
    /\ shm' = TryPublish(shm, n, "whip")
    /\ lsrc' = [lsrc EXCEPT ![w][n] = Claimed(@, "whip")]
    /\ lsess' = [lsess EXCEPT ![w][u] = NewLocal(n, TRUE)]
    /\ agenda' = [agenda EXCEPT ![w] =
         (IF Lookup(shm, n) # {} THEN <<Call("ptr", n, "whip", {})>> ELSE <<>>)
         \o <<Call("get", n, "whip", {u}), Call("add", n, "whip", {u})>>]
    /\ UNCHANGED <<issued, crashes>>

(* A request that fails after its first call: play leaves the shm source it *)
(* looked up; WHIP gives its claim back but not a skeleton it had added.    *)
PlayAborted(w, u, n) ==
    /\ Idle(w) /\ u \in Aborted
    /\ \E o \in SourceGet(shm, n) : shm' = o.reg
    /\ UNCHANGED <<issued, lsrc, lsess, agenda, crashes>>

(* Mutant: the request that fails clears its mirror and keeps the claim. *)
WhipAbortedClaimed(w, u, n) ==
    /\ Idle(w) /\ u \in Aborted /\ FreshUfrag(u)
    /\ lsrc[w][n].kind # "rtmp" /\ ~PublishBusy(shm, n, "whip")
    /\ shm' = TryPublish(shm, n, "whip")
    /\ lsrc' = [lsrc EXCEPT ![w][n] = Cleared(@)]
    /\ UNCHANGED <<issued, lsess, agenda, crashes>>

WhipAborted(w, u, n) ==
    /\ Idle(w) /\ u \in Aborted /\ FreshUfrag(u)
    /\ lsrc[w][n].kind # "rtmp" /\ ~PublishBusy(shm, n, "whip")
    /\ shm' = TryPublish(shm, n, "whip")
    /\ lsrc' = [lsrc EXCEPT ![w][n] = Cleared(@)]
    /\ \E added \in BOOLEAN : agenda' = [agenda EXCEPT ![w] =
         (IF Lookup(shm, n) # {} THEN <<Call("get", n, "whip", {})>> ELSE <<>>)
         \o (IF added THEN <<Call("get", n, "whip", {u}), Call("add", n, "whip", {u})>>
             ELSE <<>>)
         \o <<Call("release", n, "whip", {}), Call("remove", n, "none", {})>>]
    /\ UNCHANGED <<issued, lsess, crashes>>

(* POST /rtc/v1/kick and /rtc/v1/disconnect only raise flags in the zone. *)
Kick(u) == /\ u \in Kicked \cap issued
           /\ shm' = SessionRequestClose(shm, u)
           /\ UNCHANGED <<issued, lsrc, lsess, agenda, crashes>>

Disconnect(n) == /\ Kicked # {}
                 /\ shm' = SourceRequestClose(shm, n)
                 /\ UNCHANGED <<issued, lsrc, lsess, agenda, crashes>>

-----------------------------------------------------------------------------
(* The UDP media plane: ngx_rtc_stream_module.c *)

(* A session a packet moved to a state, with its idle time restarted. *)
Moved(k, st) == [k EXCEPT !.st = st, !.idle = 0]

(* STUN_BINDING moves NEW to ICE_BOUND and is a no-op in every other state. *)
OnStun(st) == IF st = "NEW" THEN "ICE_BOUND" ELSE st

(* A binding request for a session this worker knows: refresh, publish.     *)
Stun(w, u) ==
    /\ Idle(w) /\ Has(w, u)
    /\ LET st == OnStun(lsess[w][u].st)
       IN  /\ lsess' = [lsess EXCEPT ![w][u] = Moved(@, st)]
           /\ shm' = SessionSetState(shm, u, w, st)
    /\ UNCHANGED <<issued, lsrc, agenda, crashes>>

(* A session rebuilt from its skeleton k: ready at once if that was. *)
Rebuilt(n, k) == [NewLocal(n, k.pub) EXCEPT !.st = IF k.ready THEN "SRTP_READY" ELSE @]

(* A binding request for an unknown session: bind its skeleton and rebuild  *)
(* the session; a WHIP publisher's source is resolved and mirrored next.    *)
(* A client that got no answer does not know its ufrag.                     *)
Attach(w, u) ==
    /\ Idle(w) /\ u \in issued \ Aborted /\ ~Has(w, u) /\ MayAct(shm, u, w)
    /\ LET k == shm.sess[u]
           n == shm.src[k.src].name
       IN  /\ shm' = SessionBind(shm, u, w)
           /\ lsrc' = [lsrc EXCEPT ![w][n] = Created(@)]
           /\ lsess' = [lsess EXCEPT ![w][u] = Rebuilt(n, k)]
           /\ agenda' = [agenda EXCEPT ![w] =
                (IF k.pub THEN <<Call("mirror", n, "whip", {})>> ELSE <<>>)
                \o <<Call("state", n, "none", {u})>>]
    /\ UNCHANGED <<issued, crashes>>

(* The first DTLS record of a bound session. *)
Dtls(w, u) ==
    /\ Idle(w) /\ lsess[w][u].st = "ICE_BOUND"
    /\ lsess' = [lsess EXCEPT ![w][u] = Moved(@, "DTLS_HANDSHAKE")]
    /\ shm' = SessionSetState(shm, u, w, "DTLS_HANDSHAKE")
    /\ UNCHANGED <<issued, lsrc, agenda, crashes>>

(* The handshake completes.  Whether the skeleton could be activated is not *)
(* looked at.                                                               *)
DtlsDone(w, u) ==
    /\ Idle(w) /\ lsess[w][u].st = "DTLS_HANDSHAKE"
    /\ lsess' = [lsess EXCEPT ![w][u] = Moved(@, "SRTP_READY")]
    /\ shm' = SessionActivate(shm, u, w)
    /\ UNCHANGED <<issued, lsrc, agenda, crashes>>

(* Mutant: the leaving session still counts as a holder of its source. *)
CloseLocalCountsItself(w, u) ==
    LET n == lsess[w][u].name
        s == lsrc[w][n]
    IN  /\ lsess' = [lsess EXCEPT ![w][u] = AbsentSession]
        /\ lsrc' = [lsrc EXCEPT ![w][n] =
             Removed(IF s.kind = "whip" THEN Cleared(s) ELSE s, Holders(w, n))]

(* The local half of ngx_rtc_stream_session_close, and the calls it leaves: *)
(* the claim is released whenever the source is WHIP published, whoever     *)
(* closes.                                                                  *)
CloseLocal(w, u) ==
    LET n == lsess[w][u].name
        s == lsrc[w][n]
    IN  /\ lsess' = [lsess EXCEPT ![w][u] = AbsentSession]
        /\ lsrc' = [lsrc EXCEPT ![w][n] =
             Removed(IF s.kind = "whip" THEN Cleared(s) ELSE s, Holders(w, n) \ {u})]

(* Mutants: the skeleton, or the claim, is forgotten. *)
CloseCallsKeepsSkeleton(w, u) ==
    LET n == lsess[w][u].name
    IN  IF lsrc[w][n].kind = "whip"
        THEN <<Call("release", n, "whip", {}), Call("remove", n, "none", {})>>
        ELSE <<>>

CloseCallsKeepsClaim(w, u) == <<Call("drop", lsess[w][u].name, "none", {u})>>

CloseCalls(w, u) ==
    LET n == lsess[w][u].name
    IN  (IF lsrc[w][n].kind = "whip"
         THEN <<Call("release", n, "whip", {}), Call("remove", n, "none", {})>>
         ELSE <<>>)
        \o <<Call("drop", n, "none", {u})>>

(* DTLS failure, DTLS alert or RTCP BYE. *)
Hangup(w, u) ==
    /\ Idle(w) /\ lsess[w][u].st \in {"DTLS_HANDSHAKE", "SRTP_READY"}
    /\ CloseLocal(w, u)
    /\ agenda' = [agenda EXCEPT ![w] = CloseCalls(w, u)]
    /\ UNCHANGED <<shm, issued, crashes>>

(* A WHIP publisher's packet: ngx_rtc_stream_shm_source renews the claim at *)
(* most once per ShmSync and forgets the pointer when it cannot.  A renewed *)
(* claim keeps the pointer it had.                                          *)
WhipMedia(w, u) ==
    /\ Idle(w) /\ lsess[w][u].st = "SRTP_READY" /\ lsess[w][u].pub
    /\ lsess' = [lsess EXCEPT ![w][u].idle = 0]
    /\ LET n == lsess[w][u].name
           s == lsrc[w][n]
           ok == Lookup(shm, n) # {} /\ ~PublishBusy(shm, n, "whip")
       IN  IF s.ptr = NoCell \/ s.sync < ShmSync
           THEN UNCHANGED <<shm, lsrc>>
           ELSE /\ shm' = TryPublish(shm, n, "whip")
                /\ lsrc' = [lsrc EXCEPT ![w][n] = Cached(s, IF ok THEN s.ptr ELSE NoCell)]
    /\ UNCHANGED <<issued, agenda, crashes>>

(* ngx_rtc_stream_reap_timer: the zone, then every session of this worker. *)
Reap(w) ==
    /\ Idle(w)
    /\ shm' = ExpireLocked(shm, FALSE)
    /\ agenda' = [agenda EXCEPT ![w] =
         IF \E u \in Ufrags : Has(w, u)
         THEN <<Call("scan", AnyName, "none", {u \in Ufrags : Has(w, u)})>> ELSE <<>>]
    /\ UNCHANGED <<issued, lsrc, lsess, crashes>>

-----------------------------------------------------------------------------
(* The RTMP bridge: ngx_rtmp_rtc_bridge_module.c *)

(* A media message within ShmSync of the last claim: heartbeat only. *)
RtmpFast(w, n) ==
    /\ Idle(w) /\ w \in RtmpWorkers
    /\ lsrc[w][n].kind = "rtmp" /\ lsrc[w][n].ptr # NoCell /\ lsrc[w][n].sync < ShmSync
    /\ shm' = Heartbeat(shm, lsrc[w][n].ptr)
    /\ UNCHANGED <<issued, lsrc, lsess, agenda, crashes>>

(* Otherwise ngx_rtmp_rtc_sync_shm claims, or renews the claim. *)
RtmpClaim(w, n) ==
    /\ Idle(w) /\ w \in RtmpWorkers
    /\ ~(lsrc[w][n].kind = "rtmp" /\ lsrc[w][n].ptr # NoCell /\ lsrc[w][n].sync < ShmSync)
    /\ shm' = TryPublish(shm, n, "rtmp")
    /\ IF PublishBusy(shm, n, "rtmp")
       THEN /\ lsrc' = [lsrc EXCEPT ![w][n] = Cleared(Created(@))]
            /\ UNCHANGED agenda
       ELSE /\ lsrc' = [lsrc EXCEPT ![w][n] = Claimed(@, "rtmp")]
            /\ agenda' = [agenda EXCEPT ![w] =
                 IF Lookup(shm, n) # {}
                 THEN <<Call("ptr", n, "rtmp", {}), Call("slot", n, "rtmp", {})>>
                 ELSE <<>>]
    /\ UNCHANGED <<issued, lsess, crashes>>

(* Mutant: the stop clears the mirror and not the shm claim. *)
RtmpStopLocally(w, n) ==
    /\ Idle(w) /\ lsrc[w][n].kind = "rtmp"
    /\ lsrc' = [lsrc EXCEPT ![w][n] = Removed(Cleared(@), Holders(w, n))]
    /\ UNCHANGED <<shm, issued, lsess, agenda, crashes>>

(* The publisher's closeStream, deleteStream or disconnect. *)
RtmpStop(w, n) ==
    /\ Idle(w) /\ lsrc[w][n].kind = "rtmp"
    /\ lsrc' = [lsrc EXCEPT ![w][n] = Removed(Cleared(@), Holders(w, n))]
    /\ agenda' = [agenda EXCEPT ![w] =
         <<Call("release", n, "rtmp", {}), Call("remove", n, "none", {})>>]
    /\ UNCHANGED <<shm, issued, lsess, crashes>>

-----------------------------------------------------------------------------
(* The rest of a handler, one locked call at a time *)

Continue(w) == agenda' = [agenda EXCEPT ![w] = Tail(@)]

(* ngx_rtc_shm_source_get after a claim: cache the pointer. *)
CachePointer(w, a) ==
    /\ \E o \in SourceGet(shm, a.n) :
         /\ shm' = o.reg
         /\ lsrc' = [lsrc EXCEPT ![w][a.n] = Cached(@, o.ptr)]
    /\ Continue(w)
    /\ UNCHANGED <<issued, lsess, crashes>>

(* The WHIP handler's own lookup; without a source it adds no skeleton. *)
WhipSource(w, a) ==
    /\ \E o \in SourceGet(shm, a.n) :
         /\ shm' = o.reg
         /\ agenda' = [agenda EXCEPT ![w] =
              IF o.ptr = NoCell /\ a.U # {} THEN Tail(Tail(@)) ELSE Tail(@)]
    /\ UNCHANGED <<issued, lsrc, lsess, crashes>>

AddSkeleton(w, a) ==
    /\ \E u \in a.U :
         /\ \E r \in SessionAdd(shm, u, a.n, a.kind = "whip") : shm' = r
         /\ issued' = issued \cup {u}
    /\ Continue(w)
    /\ UNCHANGED <<lsrc, lsess, crashes>>

(* attach_from_shm looks the source of a WHIP publisher up and mirrors it. *)
MirrorClaim(w, a) ==
    /\ \E o \in SourceGet(shm, a.n) :
         /\ shm' = o.reg
         /\ lsrc' = [lsrc EXCEPT ![w][a.n] = Mirrored(@, o.ptr)]
    /\ Continue(w)
    /\ UNCHANGED <<issued, lsess, crashes>>

(* The rest of on_stun after an attach: the FSM event, the published state. *)
PublishState(w, a) ==
    /\ \E u \in a.U :
         LET st == OnStun(lsess[w][u].st)
         IN  /\ lsess' = [lsess EXCEPT ![w][u].st = st]
             /\ shm' = SessionSetState(shm, u, w, st)
    /\ Continue(w)
    /\ UNCHANGED <<issued, lsrc, crashes>>

(* publisher_slot and the heartbeat, written without the lock. *)
RecordSlot(w, a) ==
    /\ LET c == lsrc[w][a.n].ptr
       IN  shm' = IF c = NoCell THEN shm ELSE Heartbeat(SetPublisherSlot(shm, c, w), c)
    /\ Continue(w)
    /\ UNCHANGED <<issued, lsrc, lsess, crashes>>

ReleaseClaim(w, a) ==
    /\ shm' = ReleasePublish(shm, a.n, a.kind)
    /\ Continue(w)
    /\ UNCHANGED <<issued, lsrc, lsess, crashes>>

RemoveSource(w, a) ==
    /\ shm' = SourceRemove(shm, a.n)
    /\ Continue(w)
    /\ UNCHANGED <<issued, lsrc, lsess, crashes>>

DropSkeleton(w, a) ==
    /\ \E u \in a.U : shm' = SessionRemoveIfOwner(shm, u, w)
    /\ Continue(w)
    /\ UNCHANGED <<issued, lsrc, lsess, crashes>>

(* A session the reaper closes: kicked, or idle past its timeout. *)
Timeout(st) == IF st = "SRTP_READY" THEN ReadyTimeout ELSE HandshakeTimeout

(* Mutants: the reaper looks at idle times only, or at kicks only. *)
OverdueIdle(w, u) == lsess[w][u].idle >= Timeout(lsess[w][u].st)

OverdueKicked(w, u) == shm.sess[u].live /\ shm.sess[u].close

Overdue(w, u) == \/ shm.sess[u].live /\ shm.sess[u].close
                 \/ lsess[w][u].idle >= Timeout(lsess[w][u].st)

ScanSession(w, a) ==
    \E u \in a.U :
        LET rest == IF a.U = {u} THEN <<>> ELSE <<Call("scan", a.n, a.kind, a.U \ {u})>>
        IN  /\ IF Overdue(w, u)
               THEN /\ CloseLocal(w, u)
                    /\ agenda' = [agenda EXCEPT ![w] = CloseCalls(w, u) \o rest]
               ELSE /\ agenda' = [agenda EXCEPT ![w] = rest]
                    /\ UNCHANGED <<lsrc, lsess>>
            /\ UNCHANGED <<shm, issued, crashes>>

Resume(w) ==
    /\ ~Idle(w)
    /\ LET a == Head(agenda[w])
       IN  \/ a.op = "ptr"     /\ CachePointer(w, a)
           \/ a.op = "get"     /\ WhipSource(w, a)
           \/ a.op = "add"     /\ AddSkeleton(w, a)
           \/ a.op = "mirror"  /\ MirrorClaim(w, a)
           \/ a.op = "state"   /\ PublishState(w, a)
           \/ a.op = "slot"    /\ RecordSlot(w, a)
           \/ a.op = "release" /\ ReleaseClaim(w, a)
           \/ a.op = "remove"  /\ RemoveSource(w, a)
           \/ a.op = "drop"    /\ DropSkeleton(w, a)
           \/ a.op = "scan"    /\ ScanSession(w, a)

-----------------------------------------------------------------------------
(* A worker dies, possibly inside a handler, and is respawned on its slot:  *)
(* everything process-local is lost, the zone is not.                       *)
Crash(w) ==
    /\ crashes < MaxCrashes
    /\ crashes' = crashes + 1
    /\ lsrc' = [lsrc EXCEPT ![w] = [n \in Names |-> AbsentSource]]
    /\ lsess' = [lsess EXCEPT ![w] = [u \in Ufrags |-> AbsentSession]]
    /\ agenda' = [agenda EXCEPT ![w] = <<>>]
    /\ UNCHANGED <<shm, issued>>

(* A tick is seconds, a handler microseconds: time passes between handlers. *)
Tick ==
    /\ \A w \in Slots : Idle(w)
    /\ shm' = Elapse(shm)
    /\ lsrc' = [w \in Slots |-> [n \in Names |->
         [lsrc[w][n] EXCEPT !.sync = IF lsrc[w][n].ptr # NoCell /\ @ < ShmSync
                                     THEN @ + 1 ELSE @]]]
    /\ lsess' = [w \in Slots |-> [u \in Ufrags |->
         [lsess[w][u] EXCEPT !.idle = IF Has(w, u) /\ @ < Timeout(lsess[w][u].st)
                                      THEN @ + 1 ELSE @]]]
    /\ UNCHANGED <<issued, agenda, crashes>>

Signalling(w) == \E u \in Ufrags, n \in Names :
                   \/ Play(w, u, n) \/ Whip(w, u, n) \/ WhipRefused(w, u, n)
                   \/ PlayAborted(w, u, n) \/ WhipAborted(w, u, n)

MediaPlane(w) == \E u \in Ufrags :
                   \/ Stun(w, u) \/ Attach(w, u) \/ Dtls(w, u) \/ DtlsDone(w, u)
                   \/ Hangup(w, u) \/ WhipMedia(w, u)

Ingest(w) == \E n \in Names : RtmpFast(w, n) \/ RtmpClaim(w, n) \/ RtmpStop(w, n)

Admin == (\E u \in Ufrags : Kick(u)) \/ (\E n \in Names : Disconnect(n))

Next == \/ \E w \in Slots : \/ Signalling(w) \/ MediaPlane(w) \/ Ingest(w)
                            \/ Reap(w) \/ Resume(w) \/ Crash(w)
        \/ Admin
        \/ Tick

Spec == Init /\ [][Next]_vars

(* A started handler finishes, the reap timer keeps firing and the clock    *)
(* keeps advancing, whatever traffic arrives.  No client is obliged to send.*)
Fairness == /\ SF_vars(Tick)
            /\ \A w \in Slots : WF_vars(Resume(w)) /\ SF_vars(Reap(w))

LiveSpec == Spec /\ Fairness

-----------------------------------------------------------------------------
(* Properties *)

Registry == INSTANCE ShmRegistry

(* The workers implement the registry's contract: whatever a handler does   *)
(* between two lock boundaries, the zone only ever takes steps of           *)
(* ShmRegistry, so what is proved there holds here.                         *)
ImplementsRegistry == Registry!Spec

(* A worker keeps its local source exactly as long as it is published or a  *)
(* session holds it: closing several sessions of one source in a reap pass, *)
(* releasing a publisher and the RTMP teardown leave no session with a      *)
(* freed sess->source, and nobody's source behind (ngx_rtc_source_          *)
(* unsubscribe, ngx_rtmp_rtc_release_publish), as long as no RTMP publish   *)
(* is refused.                                                              *)
LocalSourceHeld ==
    \A w \in Slots, n \in Names :
        lsrc[w][n].here <=> lsrc[w][n].kind # "none" \/ Holders(w, n) # {}

(* A ready skeleton, which media is sent to and /rtc/v1/stats shows, says   *)
(* SRTP_READY and belongs to a worker that has the ready session, until     *)
(* that worker closes it: a stray STUN at the signalling worker's early     *)
(* copy does not set it back, and while no worker has crashed no skeleton   *)
(* is ready without its media path.                                         *)
ReadyHasMedia == crashes = 0 =>
    \A u \in Ufrags : shm.sess[u].live =>
        /\ shm.sess[u].ready <=> shm.sess[u].state = "SRTP_READY"
        /\ shm.sess[u].ready =>
              LET w == shm.sess[u].owner IN
              \/ lsess[w][u].st = "SRTP_READY"
              \/ \E i \in DOMAIN agenda[w] : agenda[w][i].op = "drop" /\ u \in agenda[w][i].U

(* A bound skeleton disappears only when its owner has closed its session:  *)
(* neither the reaper, nor the signalling worker dropping its own copy, nor *)
(* a forced reap takes a live session away.                                 *)
FreedByOwner ==
    [][\A u \in Ufrags, w \in Slots :
         /\ shm.sess[u].live /\ shm.sess[u].owner = w
         /\ ~shm'.sess[u].live
         => ~Has(w, u)]_vars

(* Somebody will give the claim of the source in cell c back: a worker      *)
(* mirrors it, or is about to release it.                                   *)
ClaimOwned(c) ==
    \E w \in Slots :
        LET n == shm.src[c].name IN
        \/ lsrc[w][n].kind = shm.src[c].kind
        \/ \E i \in DOMAIN agenda[w] : /\ agenda[w][i].op = "release"
                                     /\ agenda[w][i].n = n /\ agenda[w][i].kind = shm.src[c].kind

(* A claim never outlives its publisher while no worker crashes and no RTMP *)
(* and WHIP publishers of one name meet on a worker: some worker still      *)
(* mirrors it, or is about to release it.                                   *)
ClaimHasPublisher == crashes = 0 =>
    \A c \in Cells : shm.src[c].publishing => ClaimOwned(c)

(* RTMP comes to a worker that mirrors a WHIP claim of n, or a worker that  *)
(* RTMP publishes n on has a WHIP publisher's session.                      *)
PublishersMeet(w, n) ==
    \/ lsrc[w][n].kind = "whip" /\ RtmpClaim(w, n)
    \/ lsrc[w][n].kind = "rtmp" /\ \E u \in Holders(w, n) : lsess[w][u].pub

(* No request leaves a claim behind that nobody will give back, whether it  *)
(* is refused, fails after it claimed, or competes with the other protocol  *)
(* on another worker: a claim loses its owner only when a worker crashes or *)
(* when both protocols meet in the one mirror a worker has of the name.     *)
ClaimHandedBack ==
    [][\A c \in Cells :
         shm'.src[c].publishing /\ ~ClaimOwned(c)' =>
             \/ shm.src[c].publishing /\ ~ClaimOwned(c)
             \/ crashes' > crashes
             \/ \E w \in Slots, n \in Names : PublishersMeet(w, n)]_vars

(* A kicked session goes away, wherever its media runs, unless a worker     *)
(* dies: the skeleton of a dead owner keeps its flag and nobody reads it.   *)
KickCloses ==
    \A u \in Ufrags : shm.sess[u].live /\ shm.sess[u].close ~> ~shm.sess[u].live \/ crashes > 0

(* A session whose client went silent is closed everywhere. *)
SilentCloses ==
    \A u \in Ufrags, w \in Slots :
        Has(w, u) /\ lsess[w][u].idle >= Timeout(lsess[w][u].st)
          ~> (~Has(w, u) \/ lsess[w][u].idle = 0)

(* Sessions end: kicked by an administrator or left by a silent client, on  *)
(* every worker that has them.                                              *)
SessionsEnd == KickCloses /\ SilentCloses

(* The reaper's promise, with the workers' own timers running it: no source *)
(* that stays idle and no claim that stays silent is pinned in the zone.    *)
IdleSourceReaped == Registry!IdleSourceReaped

-----------------------------------------------------------------------------
(* What the code's comments say of it, and it does not do. *)

(* ngx_rtc_shm.h: a claim degrades to no mirror, never to a dangling        *)
(* pointer; publishing == 1 keeps the cached source alive.                  *)
CachedPointerLive ==
    \A w \in Slots, n \in Names :
        lsrc[w][n].ptr # NoCell => lsrc[w][n].ptr \in Lookup(shm, n)

(* ngx_rtc_shm.c: a source has exactly one publisher; another kind is       *)
(* rejected.  Both mirrors set, and the WHIP publisher's media just flowed. *)
OnePublisher ==
    \A n \in Names, w, v \in Slots, u \in Ufrags :
        ~ /\ lsrc[w][n].kind = "rtmp"
          /\ lsess[v][u].st = "SRTP_READY" /\ lsess[v][u].pub /\ lsess[v][u].idle = 0
          /\ lsess[v][u].name = n /\ lsrc[v][n].kind = "whip"

(* ngx_rtc_shm.c: a stale close must not clear a live publisher's flag.     *)
(* The claim is fresh, so it is a close and not the reaper that clears it.  *)
LiveClaimKept ==
    [][\A c \in Cells, w \in Slots, u \in Ufrags :
         /\ shm.src[c].live /\ shm.src[c].publishing /\ shm.src[c].kind = "whip"
         /\ shm.src[c].seen < PublishGrace
         /\ lsess[w][u].st = "SRTP_READY" /\ lsess[w][u].pub /\ lsess[w][u].idle = 0
         /\ lsess[w][u].name = shm.src[c].name
         => shm'.src[c].publishing]_vars

(* ngx_rtc_shm.h: remote_subscribers counts the viewers on a worker other   *)
(* than publisher_slot.                                                     *)
RemoteCountExact ==
    \A c \in Cells : shm.src[c].live =>
        shm.src[c].remote = Cardinality(RemoteIn(shm, c, Ufrags))
=============================================================================
