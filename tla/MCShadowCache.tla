--------------------------- MODULE MCShadowCache ---------------------------
(* Instances of ShadowCache for TLC.                                         *)
EXTENDS ShadowCache, TLC

MCSymmetry == Permutations(Keys) \cup Permutations(Values)
=============================================================================
