--------------------- MODULE MCSemanticReadScheduler ---------------------
(* Instances of SemanticReadScheduler for TLC.                               *)
EXTENDS SemanticReadScheduler, TLC

MCSymmetry == Permutations(Readers)
=============================================================================
