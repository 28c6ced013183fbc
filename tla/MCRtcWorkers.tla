---------------------------- MODULE MCRtcWorkers ----------------------------
(* Instances of RtcWorkers for TLC: two workers and a few clients.  Workers  *)
(* are interchangeable when RTMP may reach all of them or none.              *)
EXTENDS RtcWorkers, TLC

Symmetry == Permutations(Players) \cup Permutations(Whips) \cup Permutations(Slots)
=============================================================================
