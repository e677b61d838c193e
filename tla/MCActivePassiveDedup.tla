------------------------- MODULE MCActivePassiveDedup -------------------------
(* ActivePassiveDedup with the constants of its .cfg file. *)
EXTENDS ActivePassiveDedup
===============================================================================
