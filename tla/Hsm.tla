-------------------------------- MODULE Hsm --------------------------------
(***************************************************************************)
(* The hierarchical state machine engine behind the session lifecycle: an  *)
(* event is offered to the current state and bubbles to its parents; the   *)
(* first rule that matches runs its action and, unless it is internal, the *)
(* exits up to and the entries down from the lowest common ancestor.  The  *)
(* calls of one dispatch are recorded in order.                            *)
(***************************************************************************)
EXTENDS Naturals, Sequences, SequencesExt

CONSTANTS
    None,        \* NULL
    Parent,      \* state -> its parent, or None
    Rules,       \* state -> its transition table
    Initial,     \* initial_state
    BufferSize   \* elements of entry_path_buffer

States == DOMAIN Parent

Events == UNION {{Rules[st][i].event : i \in DOMAIN Rules[st]} : st \in States} \cup {"unknown"}

(* A row of a transition table. *)
TransitionRow == [event : Events, target : States \cup {None}, guarded : BOOLEAN, internal : BOOLEAN]

(* No state is its own ancestor: of any states there is one whose parent is *)
(* not among them.                                                          *)
HsmConstants ==
    /\ Initial \in States /\ None \notin States /\ BufferSize \in Nat \ {0}
    /\ \A st \in States : Parent[st] \in States \cup {None}
    /\ \A some \in SUBSET States : some # {} => \E st \in some : Parent[st] \notin some
    /\ \A st \in States : Rules[st] \in Seq(TransitionRow)

ASSUME FsmConstants == HsmConstants

VARIABLES
    current,  \* current_state
    active,   \* history: states entered and not left, innermost first
    call      \* history: the last call, what it was given and what it did

fsmVars == <<current, active, call>>

-----------------------------------------------------------------------------
(* A state and its ancestors, innermost first: the walk along parent. *)
Chain[st \in States] ==
    IF Parent[st] = None THEN <<st>> ELSE <<st>> \o Chain[Parent[st]]

(* hsm_get_state_depth *)
Depth(st) == IF st = None THEN 0 ELSE Len(Chain[st])

Shallower(s1, s2) == IF Depth(s1) < Depth(s2) THEN Depth(s1) ELSE Depth(s2)

(* hsm_find_lca: level the two walks, then climb together; two roots that   *)
(* differ meet at NULL.                                                     *)
Lca(s1, s2) ==
    LET n     == Shallower(s1, s2)
        at(s, i) == Chain[s][Depth(s) - n + i]
        meets == {i \in 1..n : at(s1, i) = at(s2, i)}
    IN  IF meets = {} THEN None
        ELSE at(s1, CHOOSE i \in meets : \A j \in meets : i <= j)

(* From st up to, and without, its ancestor stop. *)
Below(st, stop) == SubSeq(Chain[st], 1, Depth(st) - Depth(stop))

(* Mutant: entry actions run in the order the path was collected. *)
EntryOrderUp(path) == path

(* The entry path is collected upwards and run downwards. *)
EntryOrder(path) == Reverse(path)

Calls(kind, path) == [i \in DOMAIN path |-> <<kind, path[i]>>]

(* hsm_perform_transition from source: whether it was done, and its calls.  *)
Transition(source, target) ==
    IF target = None THEN [ok |-> FALSE, calls |-> <<>>]
    ELSE IF source = target
    THEN [ok |-> TRUE, calls |-> <<<<"exit", source>>, <<"entry", target>>>>]
    ELSE LET lca  == Lca(source, target)
             path == Below(target, lca)
         IN  IF Len(path) > BufferSize THEN [ok |-> FALSE, calls |-> <<>>]
             ELSE [ok |-> TRUE,
                   calls |-> Calls("exit", Below(source, lca))
                               \o Calls("entry", EntryOrder(path))]

(* hsm_find_matching_transition: the first rule for the event whose guard,  *)
(* if any, passes; 0 if there is none.                                      *)
Matching(st, event, passing) ==
    LET hits == {i \in DOMAIN Rules[st] :
                    /\ Rules[st][i].event = event
                    /\ Rules[st][i].guarded => <<st, i>> \in passing}
    IN  IF hits = {} THEN 0 ELSE CHOOSE i \in hits : \A j \in hits : i <= j

Unhandled == [ok |-> FALSE, state |-> current, calls |-> <<>>, overflow |-> FALSE]

(* hsm_process_state_transitions and hsm_execute_transition for one state.  *)
Offered(st, event, passing) ==
    LET i    == Matching(st, event, passing)
        rule == Rules[st][i]
        move == Transition(current, rule.target)
        act  == <<<<"action", st>>>>
    IN  IF i = 0 THEN Unhandled
        ELSE IF rule.internal
        THEN [ok |-> TRUE, state |-> current, calls |-> act, overflow |-> FALSE]
        ELSE [ok |-> move.ok, state |-> IF move.ok THEN rule.target ELSE current,
              calls |-> act \o move.calls, overflow |-> ~move.ok]

(* ngx_rtc_hsm_dispatch: what the current state does not handle its parents *)
(* are offered.                                                             *)
Bubbled(event, passing) ==
    LET chain == Chain[current]
        from[i \in 1..(Len(chain) + 1)] ==
            IF i > Len(chain) THEN Unhandled
            ELSE LET here == Offered(chain[i], event, passing)
                     up   == from[i + 1]
                 IN  IF here.ok THEN here
                     ELSE [up EXCEPT !.calls = here.calls \o @,
                                     !.overflow = @ \/ here.overflow]
    IN  from[1]

-----------------------------------------------------------------------------
(* Replaying the calls on the active states: an exit must leave the         *)
(* innermost, an entry must enter a child of the innermost; anything else   *)
(* leaves the stack broken.                                                 *)
Broken == <<None>>

Stepped(stack, kind, st) ==
    LET top == IF stack = <<>> THEN None ELSE Head(stack)
    IN  IF stack = Broken THEN Broken
        ELSE CASE kind = "action" -> stack
               [] kind = "exit"   -> IF top = st THEN Tail(stack) ELSE Broken
               [] kind = "entry"  -> IF Parent[st] = top THEN <<st>> \o stack ELSE Broken

Replayed(stack, calls) ==
    LET upto[i \in 0..Len(calls)] ==
            IF i = 0 THEN stack ELSE Stepped(upto[i - 1], calls[i][1], calls[i][2])
    IN  upto[Len(calls)]

-----------------------------------------------------------------------------
(* The record of a call. *)
Call(event, from, passing, ok, calls, overflow) ==
    [event |-> event, from |-> from, passing |-> passing, ok |-> ok, calls |-> calls,
     overflow |-> overflow]

(* ngx_rtc_hsm_init: the initial state's entry action does not run. *)
FsmInit ==
    /\ current = Initial /\ active = Chain[Initial]
    /\ call = Call("init", Initial, {}, TRUE, <<>>, FALSE)

Dispatch(event, passing) ==
    \E done \in {Bubbled(event, passing)} :
        /\ current' = done.state
        /\ active' = Replayed(active, done.calls)
        /\ call' = Call(event, current, passing, done.ok, done.calls, done.overflow)

(* ngx_rtc_hsm_reset *)
Reset ==
    LET move == Transition(current, Initial)
    IN  /\ current' = IF move.ok THEN Initial ELSE current
        /\ active' = Replayed(active, move.calls)
        /\ call' = Call("reset", current, {}, move.ok, move.calls, ~move.ok)

(* ngx_rtc_hsm_restore_state: the machine is put into a state reached       *)
(* elsewhere, and no action runs.                                           *)
Restore(st) ==
    /\ current' = st
    /\ active' = Chain[st]
    /\ call' = Call("restore", current, {}, TRUE, <<>>, FALSE)

(* The guarded rules an event may meet on its way up. *)
Guarded ==
    LET met == UNION {{st} \X DOMAIN Rules[st] : st \in ToSet(Chain[current])}
    IN  {row \in met : Rules[row[1]][row[2]].guarded}

FsmNext ==
    \/ \E event \in Events, passing \in SUBSET Guarded : Dispatch(event, passing)
    \/ Reset
    \/ \E st \in States : Restore(st)

FsmSpec == FsmInit /\ [][FsmNext]_fsmVars

-----------------------------------------------------------------------------
(* Properties *)

(* Every dispatch leaves exactly the states it has to, innermost first, and *)
(* enters the ones it has to, outermost first: replayed call by call, the   *)
(* active states are always the current state and its ancestors.            *)
ProperlyNested == active = Chain[current]

(* An event is acted on exactly once, by the innermost of the current       *)
(* states that has a rule for it whose guard passes, and with none it is    *)
(* reported unhandled and changes nothing.                                  *)
HandledOnce ==
    LET able    == {st \in ToSet(Chain[call.from]) :
                        Matching(st, call.event, call.passing) # 0}
        actions == SelectSeq(call.calls, LAMBDA c : c[1] = "action")
    IN  call.event \in Events =>
          IF able = {} THEN ~call.ok /\ call.calls = <<>> /\ current = call.from
          ELSE /\ call.ok /\ Len(actions) = 1
               /\ \A st \in able : Depth(st) <= Depth(actions[1][2])

(* A transition whose entry path does not fit is reported: the dispatch     *)
(* that met it answers false.                                               *)
OverflowReported == call.overflow => ~call.ok
=============================================================================
