---------------------------- MODULE MCB503Session ----------------------------
(* TLC instances of B503Session. *)
EXTENDS B503Session, TLC

(* Callers are anonymous, and no device address is special. *)
Symmetry == Permutations(Callers) \cup Permutations(Targets)
=============================================================================
