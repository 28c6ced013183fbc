--------------------------- MODULE MCShmRegistry ----------------------------
(* Instances of ShmRegistry for TLC.  Ufrags and slots are interchangeable;  *)
(* names and cells are not (a free cell keeps a CHOOSEn name).               *)
EXTENDS ShmRegistry, TLC

Symmetry == Permutations(Ufrags) \cup Permutations(Slots)
=============================================================================
