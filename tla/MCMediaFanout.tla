--------------------------- MODULE MCMediaFanout ----------------------------
(* Instances of MediaFanout for TLC: the publisher on worker 0, one viewer   *)
(* beside it and two on worker 1.                                            *)
EXTENDS MediaFanout

CONSTANTS a, b, c

PlacedViewers == [v \in {a, b, c} |-> IF v = a THEN 0 ELSE 1]
=============================================================================
