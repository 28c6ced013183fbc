----------------------------- MODULE SessionFsm -----------------------------
(***************************************************************************)
(* The tables of ngx_rtc_session_fsm.c in the form the engine (Hsm) takes, *)
(* and what they mean: one root, five states below it, close-class events  *)
(* handled at the root.  Guards are inputs; the states have no actions.    *)
(***************************************************************************)
EXTENDS Sequences, Naturals

SessionStates == {"NEW", "ICE_BOUND", "DTLS_HANDSHAKE", "SRTP_READY", "CLOSED"}

SessionTree ==
    [st \in SessionStates \cup {"SESSION"} |-> IF st = "SESSION" THEN "null" ELSE "SESSION"]

(* A row of a transition table: an external one has a target, an internal   *)
(* one none; with a guard or without.                                       *)
External(event, target) ==
    [event |-> event, target |-> target, guarded |-> FALSE, internal |-> FALSE]

Internal(event) ==
    [event |-> event, target |-> "null", guarded |-> FALSE, internal |-> TRUE]

GuardedBy(row) == [row EXCEPT !.guarded = TRUE]

(* Mutant: a repeated binding takes the session back, as it brought it here. *)
RebindingRows == <<External("DTLS_HANDSHAKE_DONE", "SRTP_READY"),
                   External("SRTP_READY", "SRTP_READY"),
                   GuardedBy(External("STUN_BINDING", "ICE_BOUND"))>>

HandshakeRows == <<External("DTLS_HANDSHAKE_DONE", "SRTP_READY"),
                   External("SRTP_READY", "SRTP_READY"),
                   GuardedBy(Internal("STUN_BINDING"))>>

SessionRules ==
    [st \in DOMAIN SessionTree |->
        CASE st = "SESSION"        -> <<External("CLOSE", "CLOSED"),
                                        External("TIMEOUT", "CLOSED"),
                                        External("RTCP_BYE", "CLOSED")>>
          [] st = "NEW"            -> <<GuardedBy(External("STUN_BINDING", "ICE_BOUND"))>>
          [] st = "ICE_BOUND"      -> <<GuardedBy(Internal("STUN_BINDING")),
                                        GuardedBy(External("DTLS_PACKET", "DTLS_HANDSHAKE"))>>
          [] st = "DTLS_HANDSHAKE" -> HandshakeRows
          [] st = "SRTP_READY"     -> <<Internal("SRTP_READY"),
                                        GuardedBy(Internal("STUN_BINDING"))>>
          [] st = "CLOSED"         -> <<Internal("CLOSE"), Internal("TIMEOUT"),
                                        Internal("RTCP_BYE")>>]

-----------------------------------------------------------------------------
(* What the tables amount to: the state after an event whose guard passes.  *)
CloseClass == {"CLOSE", "TIMEOUT", "RTCP_BYE"}

Moved(st, event) ==
    CASE event \in CloseClass                                 -> "CLOSED"
      [] st = "NEW" /\ event = "STUN_BINDING"                 -> "ICE_BOUND"
      [] st = "ICE_BOUND" /\ event = "DTLS_PACKET"            -> "DTLS_HANDSHAKE"
      [] /\ st = "DTLS_HANDSHAKE"
         /\ event \in {"DTLS_HANDSHAKE_DONE", "SRTP_READY"}   -> "SRTP_READY"
      [] OTHER                                                -> st

(* ngx_rtc_session_fsm_dtls_pending, ngx_rtc_session_fsm_is_ready *)
DtlsPending(st) == st \in {"NEW", "ICE_BOUND"}

IsReady(st) == st = "SRTP_READY"
=============================================================================
