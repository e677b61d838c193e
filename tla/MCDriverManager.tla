--------------------------- MODULE MCDriverManager ---------------------------
(* TLC instances of DriverManager. *)
EXTENDS DriverManager, TLC

(* Goroutine slots are anonymous, and no capability is special. *)
Symmetry == Permutations(Procs) \cup Permutations(Capabilities)
=============================================================================
