------------------------------ MODULE MCVideo -------------------------------
(* The path of a video packet through one source for TLC: the packetizer of *)
(* an RTMP tag, the reorder buffer of a WHIP uplink, the caches a viewer is *)
(* answered from, and the identity the video travels under.  What the       *)
(* buffer skips is already any loss of VideoCache, and what the packetizer  *)
(* makes any packet of it, so they need not move together: `part` is the    *)
(* one a behaviour exercises.                                               *)
EXTENDS Integers, Sequences, Jitter, MediaIdentity, VideoCache

VARIABLES
    part,
    video_seq, sps, pps, frame, first, packets, frames           \* Packetizer

(* NAL units of no byte, of one, and around one, two and three packets; one *)
(* tag holds more of them than are collected.                               *)
Units == [kind : {"idr", "other"}, len : {1, 7, 8, 9, 15, 16}]
           \cup {[kind |-> "b", len |-> 9], [kind |-> "other", len |-> 0]}

Tags == UNION {[1..k -> Units] : k \in 0..2} \cup [1..3 -> [kind : {"idr"}, len : {8, 9}]]

Packing == INSTANCE Packetizer WITH
          out <- packets, Mtu <- 7, MaxNalus <- 2, ParamMax <- 2, SeqSpace <- 6,
          Frames <- Tags, Params <- {0, 1, 2}, MaxFrames <- 2

ASSUME VideoConstants == Packing!PacketizerConstants

tagVars == <<video_seq, sps, pps, frame, first, packets, frames>>
vars    == <<part, jitterVars, cacheVars, tagVars, identityVars>>

-----------------------------------------------------------------------------
Init == /\ part \in {"uplink", "publish", "publishes", "packets", "identity"}
        /\ JitterInit /\ CacheInit /\ Packing!Init /\ IdentityInit

(* Bound: one publish that wraps ring and numbers, or two short ones, each  *)
(* over either protocol and on either worker.                               *)
CachePart == \/ part = "publish"   /\ gen' <= 1
             \/ part = "publishes" /\ sent' + skipped' <= 2

Next == \/ part = "uplink"   /\ JitterNext   /\ UNCHANGED <<part, cacheVars, tagVars, identityVars>>
        \/ CacheNext /\ CachePart            /\ UNCHANGED <<part, jitterVars, tagVars, identityVars>>
        \/ part = "packets"  /\ Packing!Next /\ UNCHANGED <<part, jitterVars, cacheVars, identityVars>>
        \/ part = "identity" /\ IdentityNext /\ UNCHANGED <<part, jitterVars, cacheVars, tagVars>>

Spec == Init /\ [][Next]_vars

-----------------------------------------------------------------------------
(* Properties; UplinkOrdered is Jitter's, CacheExact is VideoCache's and    *)
(* Negotiated is MediaIdentity's.                                           *)

(* Every part stays within its types. *)
TypeOK == JitterTypeOK /\ CacheTypeOK /\ Packing!TypeOK /\ IdentityTypeOK

(* A receiver puts the packets of an RTMP tag together to exactly the NAL   *)
(* units that were to be sent.                                              *)
Reassembles == Packing!Reassembles
=============================================================================
