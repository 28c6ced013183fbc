----------------------------- MODULE StatsPage ------------------------------
(***************************************************************************)
(* The statistics document, ngx_rtc_http_render_stats: every source with   *)
(* its sessions, then the totals, written into a fixed buffer.  A write    *)
(* that does not fit stops at the end of the buffer, without an error.     *)
(* What is written is only its length here; how many sources and sessions  *)
(* there are is left open.                                                 *)
(***************************************************************************)
EXTENDS Naturals

CONSTANTS
    Cap,       \* bytes of the buffer
    Reserve,   \* NGX_RTC_STATS_RESERVE
    Opening,   \* length of the document's first bytes
    Heads,     \* lengths a source's entry may have up to its sessions,
    Rows,      \* one of its sessions,
    Tails,     \* the rest of the entry,
    Totals     \* and what follows the last source

(* What must follow the last thing that was started fits into the reserve.  *)
ASSUME PageConstants ==
    /\ Cap \in Nat /\ Reserve \in Nat /\ Opening \in Nat
    /\ Heads \subseteq Nat /\ Rows \subseteq Nat /\ Tails \subseteq Nat /\ Totals \subseteq Nat
    /\ Tails # {} /\ Totals # {} /\ Reserve < Cap
    /\ \A c \in Totals : Opening + c <= Cap
    /\ \A t \in Tails, c \in Totals :
          /\ \A h \in Heads : h + t + c <= Reserve
          /\ \A r \in Rows : r + t + c <= Reserve

VARIABLES
    phase,   \* "begin", between "sources", among a source's "sessions", "end"
    at,      \* p - buf
    lost     \* history: bytes that were not written

pageVars == <<phase, at, lost>>

PageTypeOK == /\ phase \in {"begin", "sources", "sessions", "end"}
              /\ at \in 0..Cap
              /\ lost \in Nat

PageInit == phase = "begin" /\ at = 0 /\ lost = 0

(* ngx_slprintf of n bytes (external) *)
Slprintf(n) == IF at + n <= Cap THEN at' = at + n /\ lost' = lost
                                ELSE at' = Cap /\ lost' = lost + (at + n - Cap)

(* Mutant: there is room while the buffer is not full. *)
RoomWhileAny(p) == p < Cap

(* The test before a source, and before a session. *)
Room(p) == p < Cap - Reserve

Begin      == phase = "begin" /\ Slprintf(Opening) /\ phase' = "sources"
Source(n)  == phase = "sources" /\ Room(at) /\ Slprintf(n) /\ phase' = "sessions"
Row(n)     == phase = "sessions" /\ Room(at) /\ Slprintf(n) /\ phase' = "sessions"

(* The lists end, or there is no more room. *)
Rest(n)    == phase = "sessions" /\ Slprintf(n) /\ phase' = "sources"
Finish(n)  == phase = "sources" /\ Slprintf(n) /\ phase' = "end"

(* The next page. *)
Again      == phase = "end" /\ phase' = "begin" /\ at' = 0 /\ UNCHANGED lost

PageNext == \/ Begin \/ Again
            \/ \E n \in Heads : Source(n)
            \/ \E n \in Rows : Row(n)
            \/ \E n \in Tails : Rest(n)
            \/ \E n \in Totals : Finish(n)

PageSpec == PageInit /\ [][PageNext]_pageVars

-----------------------------------------------------------------------------
(* However many sources and sessions there are, the document is whole: no   *)
(* write was cut.                                                           *)
DocumentWhole == lost = 0
=============================================================================
