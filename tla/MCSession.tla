----------------------------- MODULE MCSession ------------------------------
(* The parts of a session and of its source's audio for TLC: the send gate, *)
(* the pacer, the NACK window, the RTCP a viewer sends and the figures it   *)
(* is sent, its STUN checks and their answers, its offer and the answer,    *)
(* the map of RTP time to the wall clock, the lifecycle's state machine (on *)
(* a tree made to exercise it and on the session's own tables), the page of *)
(* statistics, the audio offload with its queues of sizes, and the byte     *)
(* arena those queues are kept in.  What one part takes from another (a     *)
(* verdict, a delivery, a report) is already any input of its module, so    *)
(* they need not move together: `part` is the one a behaviour exercises,    *)
(* and the others keep their initial state.                                 *)
EXTENDS Integers, Sequences, Hsm, SessionFsm, SendGate, NackWindow, AvSync, AudioWorker, ByteRing,
        Reports, StatsPage

VARIABLES
    part,
    target, tokens, started, idle, win, clear, pacer_last,       \* Pacer
    state, entered, told,                                        \* Hsm, on the session's tables
    got, effects, closed,                                        \* Rtcp
    request, bound, response,                                    \* Stun
    lines, answer                                                \* Sdp

(* The code's ratios on a small scale; the burst of the lowest rate is      *)
(* smaller than the largest packet.                                         *)
SomeReports == {<<0, 0>>, <<0, 4>>, <<1, 3>>, <<1, 29>>}

Pacing == INSTANCE Pacer WITH
          last <- pacer_last, MinBps <- 16, MaxBps <- 20, BitsPerUnit <- 8,
          BurstMs <- 4, MaxPkt <- 9, WindowMs <- 5, MinPkts <- 8, HighPm <- 50,
          LowPm <- 20, DecreaseNum <- 85, DecreaseDen <- 100, IncreaseNum <- 8,
          IncreaseDen <- 100, Packets <- {5, 9}, Gaps <- {1, 4},
          Reports <- SomeReports, Rembs <- {8, 18}

(* Single wants, repeats inside one NACK, and more than the budget.         *)
SomeNacks == {<<1>>, <<2, 1>>, <<3, 3>>, <<1, 2, 3, 4>>, <<4, 1, 4, 2>>}

(* Two trees, one of depth four, with inherited, internal, guarded, self    *)
(* and cross-tree transitions.                                              *)
Tree == [root |-> "null", a |-> "root", a1 |-> "a", a11 |-> "a1", a2 |-> "a",
         b |-> "root", other |-> "null"]

To(event, st)   == [event |-> event, target |-> st, guarded |-> FALSE, internal |-> FALSE]
When(event, st) == [event |-> event, target |-> st, guarded |-> TRUE, internal |-> FALSE]
Swallow(event)  == [event |-> event, target |-> "null", guarded |-> FALSE, internal |-> TRUE]

Tables ==
    [root  |-> <<To("close", "b"), To("leave", "other"), To("deep", "b")>>,
     a     |-> <<When("go", "a11"), To("go", "a2"), To("up", "root")>>,
     a1    |-> <<To("again", "a1"), When("close", "a2")>>,
     a11   |-> <<To("again", "a11"), When("go", "b"), To("over", "b")>>,
     a2    |-> <<To("deep", "a11"), To("up", "a")>>,
     b     |-> <<Swallow("close"), To("deep", "a11"), When("go", "a1")>>,
     other |-> <<To("deep", "a11"), To("go", "root"), When("close", "a2")>>]

Lifecycle == INSTANCE Hsm WITH
          None <- "null", Parent <- SessionTree, Rules <- SessionRules, Initial <- "NEW",
          BufferSize <- 2, current <- state, active <- entered, call <- told

(* A NACK's numbers wrap and need up to three entries, of which two are     *)
(* read, and may not fit; feedback is cut into runs and vectors that end    *)
(* before, at and past its count.                                           *)
SomeChunks == [form : {"run"}, symbol : {0, 2}, len : {0, 1, 3}]
                \cup [form : {"vector"}, symbols : {<<0, 1, 1, 0>>, <<1, 0, 0, 0>>, <<2, 0>>, <<0, 1>>}]

SomeFeedbacks ==
    [type : {"twcc"}, count : {3, 5}, chunks : UNION {[1..n -> SomeChunks] : n \in 0..2}]

Viewer == INSTANCE Rtcp WITH
          SeqSpace <- 16, BlpBits <- 2, EntriesMax <- 2, NackCap <- 4, RateSpace <- 64,
          Base <- 13, Missing <- SUBSET (0..6), Feedbacks <- SomeFeedbacks,
          Rembs <- [type : {"remb"}, mantissa : {3}, exp : {1, 5}]

(* Checks with the attributes browsers send, user names of every padding,   *)
(* one longer than is kept, another session's, and a wrong password.        *)
Server == [id |-> "server", len |-> 8]

SomeExtras == {<<>>, <<[type |-> "USE-CANDIDATE", len |-> 0, value |-> 0],
                       [type |-> "SOFTWARE", len |-> 5, value |-> 0]>>}

Checks == INSTANCE Stun WITH
          Ufrag <- Server, Pwd <- "pwd", UfragMax <- 16, OutLen <- 256,
          Locals <- {Server, [Server EXCEPT !.id = "other"], [Server EXCEPT !.len = 17]},
          Remotes <- [id : {"client"}, len : {4, 5, 7, 17}], Extras <- SomeExtras,
          Keys <- {"pwd", "wrong"}

(* Offers of up to three sections (and one of four, too many): video with   *)
(* its codec first, last, twice, not at all or under a number the m-line    *)
(* does not list, audio with and without it, and media that is not carried. *)
M(type, pts) == [line |-> "m", type |-> type, pts |-> pts]
Mid(mid)     == [line |-> "mid", value |-> mid]
Map(pt, enc) == [line |-> "rtpmap", pt |-> pt, encoding |-> enc]
Ext(id)      == [line |-> "extmap", id |-> id]

VideoSections ==
    {<<M("video", <<96, 98>>)>> \o attrs : attrs \in
        {<<Mid("v"), Map(96, "H264"), Map(98, "VP8"), Ext(3)>>,
         <<Map(96, "VP8"), Map(98, "H264"), Mid("v")>>,
         <<Ext(15), Map(98, "H264"), Map(96, "H264"), Mid("v")>>,
         <<Mid("v"), Map(96, "VP8")>>,
         <<Mid("v"), Map(97, "H264")>>}}

OtherSections ==
    {<<M("audio", <<111>>), Map(111, "opus"), Mid("a")>>,
     <<M("audio", <<0>>), Mid("a")>>,
     <<M("application", <<>>), Mid("d")>>,
     <<M("application", <<>>), Mid("d"), [line |-> "fmtp", pt |-> 96]>>}

SomeOffers ==
    LET some == VideoSections \cup OtherSections
        four == <<M("audio", <<>>), M("audio", <<>>), M("audio", <<>>), M("audio", <<>>)>>
    IN  {first \o x \o y \o z : first \in {<<>>, <<Mid("s")>>}, x \in some,
                              y \in some \cup {<<>>}, z \in some \cup {<<>>}} \cup {four}

Signalling == INSTANCE Sdp WITH
          MaxMedia <- 3, MaxPt <- 2, ExtMax <- 14, Offers <- SomeOffers,
          SourcePt <- [video |-> 102, audio |-> 111]

(* A viewer on the publisher's worker and one on another. *)
Homes == [near |-> 1, far |-> 2]

(* Entries of zero to three bytes; two of each length, so that a mix-up     *)
(* shows, one with bytes that read as lengths.  No entry's size divides the *)
(* arena, so that prefixes and payloads are split anywhere.                 *)
SmallPayloads == {<<>>, <<1>>, <<0>>, <<2, 1>>, <<1, 2>>, <<2, 0, 1>>}

ASSUME SessionConstants ==
    /\ Pacing!PacerConstants /\ Lifecycle!HsmConstants
    /\ Viewer!RtcpConstants /\ Checks!StunConstants /\ Signalling!SdpConstants

paceVars  == <<target, tokens, started, idle, win, clear, pacer_last>>
tableVars == <<state, entered, told>>
rtcpVars  == <<got, effects, closed>>
stunVars  == <<request, bound, response>>
sdpVars   == <<lines, answer>>

controlVars == <<gateVars, paceVars, nackVars>>
serviceVars == <<rtcpVars, stunVars, syncVars, sdpVars, figureVars, pageVars>>
soundVars   == <<audioVars, ringVars>>
stateVars   == <<fsmVars, tableVars>>
vars        == <<part, controlVars, serviceVars, soundVars, stateVars>>

-----------------------------------------------------------------------------
Init == /\ part \in {"gate", "pacer", "nack", "fsm", "lifecycle", "rtcp", "stun", "sync", "sdp",
                     "figures", "page", "offload", "arena"}
        /\ GateInit /\ Pacing!Init /\ NackInit /\ Viewer!Init /\ Checks!Init /\ SyncInit
        /\ FiguresInit /\ PageInit /\ AudioInit /\ RingInit
        /\ FsmInit /\ Lifecycle!FsmInit
        /\ part # "figures" => pub = [kind |-> "rtmp", on |-> 1] /\ zone.found
        /\ IF part = "sdp" THEN Signalling!Init ELSE lines = <<>> /\ answer = <<>>

GateStep    == part = "gate"    /\ UNCHANGED <<part, paceVars, nackVars, serviceVars, soundVars, stateVars>>
PacerStep   == part = "pacer"   /\ UNCHANGED <<part, gateVars, nackVars, serviceVars, soundVars, stateVars>>
NackStep    == part = "nack"    /\ UNCHANGED <<part, gateVars, paceVars, serviceVars, soundVars, stateVars>>
OffloadStep == part = "offload" /\ UNCHANGED <<part, controlVars, serviceVars, ringVars, stateVars>>
ArenaStep   == part = "arena"   /\ UNCHANGED <<part, controlVars, serviceVars, audioVars, stateVars>>
FsmStep     == part = "fsm"       /\ UNCHANGED <<part, controlVars, serviceVars, soundVars, tableVars>>
TableStep   == part = "lifecycle" /\ UNCHANGED <<part, controlVars, serviceVars, soundVars, fsmVars>>

RtcpStep    == part = "rtcp"    /\ UNCHANGED <<stunVars, syncVars, sdpVars, figureVars, pageVars>>
StunStep    == part = "stun"    /\ UNCHANGED <<rtcpVars, syncVars, sdpVars, figureVars, pageVars>>
SyncStep    == part = "sync"    /\ UNCHANGED <<rtcpVars, stunVars, sdpVars, figureVars, pageVars>>
SdpStep     == part = "sdp"     /\ UNCHANGED <<rtcpVars, stunVars, syncVars, figureVars, pageVars>>
FiguresStep == part = "figures" /\ UNCHANGED <<rtcpVars, stunVars, syncVars, sdpVars, pageVars>>
PageStep    == part = "page"    /\ UNCHANGED <<rtcpVars, stunVars, syncVars, sdpVars, figureVars>>

(* The session's machine takes events, and the state a peer published; it   *)
(* is never reset.                                                          *)
LifecycleNext ==
    \/ \E event \in Lifecycle!Events, passing \in SUBSET Lifecycle!Guarded :
          Lifecycle!Dispatch(event, passing)
    \/ \E st \in SessionStates : Lifecycle!Restore(st)

ServiceNext ==
    /\ UNCHANGED <<part, controlVars, soundVars, stateVars>>
    /\ \/ RtcpStep    /\ Viewer!Next
       \/ StunStep    /\ Checks!Next
       \/ SyncStep    /\ SyncNext
       \/ SdpStep     /\ Signalling!Next
       \/ FiguresStep /\ FiguresNext
       \/ PageStep    /\ PageNext

Next == \/ ServiceNext
        \/ GateStep    /\ GateNext
        \/ PacerStep   /\ Pacing!Next
        \/ NackStep    /\ NackNext
        \/ OffloadStep /\ AudioNext
        \/ ArenaStep   /\ RingNext
        \/ FsmStep     /\ FsmNext
        \/ TableStep   /\ LifecycleNext

(* The fairness of Pacer and of AudioWorker. *)
Fairness == /\ WF_vars(PacerStep /\ Pacing!Feedback)
            /\ WF_vars(PacerStep /\ Pacing!PathClears)
            /\ WF_vars(OffloadStep /\ Handler)
            /\ WF_vars(OffloadStep /\ Transcoder)

LiveSpec == Init /\ [][Next]_vars /\ Fairness

-----------------------------------------------------------------------------
(* Properties, beside those of the modules that are extended *)

(* Every part stays within its types. *)
TypeOK == /\ GateTypeOK /\ Pacing!TypeOK /\ NackTypeOK
          /\ AudioTypeOK /\ RingTypeOK

(* The pacer cannot shut a session down: a pause of one burst window admits *)
(* any packet, at any rate, and on a clear path the rate climbs back to its *)
(* maximum.                                                                 *)
PacerRecovers == []Pacing!PauseAdmits /\ Pacing!RateRecovers

(* The session's tables, run by the engine, come to what the other modules  *)
(* take them for: an event whose guard passes moves the session as Moved    *)
(* says, whatever was restored before it, and any other changes nothing;    *)
(* exits and entries nest on this tree as well.                             *)
TableAgrees ==
    LET rows == SessionRules[told.from]
        held == \E i \in DOMAIN rows : /\ rows[i].event = told.event /\ rows[i].guarded
                                       /\ <<told.from, i>> \notin told.passing
    IN  /\ told.event \in Lifecycle!Events =>
              state = IF held THEN told.from ELSE Moved(told.from, told.event)
        /\ Lifecycle!ProperlyNested

(* RTCP makes the server do what the viewer meant.                          *)
FeedbackExact == Viewer!FeedbackExact

(* Exactly the checks signed for this session are answered, and verifiably. *)
BindingAnswered == Checks!BindingAnswered

(* An answer mirrors its offer.                                             *)
AnswerMirrors == part = "sdp" => Signalling!AnswerMirrors

(* No wakeup of the transcoder thread is lost: queued frames are taken, and *)
(* tearing the worker down does not block the event loop for good.          *)
ThreadWakes == FramesTaken /\ JoinReturns
=============================================================================
