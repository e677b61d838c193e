---------------------------- MODULE MCRuntimeControl ----------------------------
(* RuntimeControl with the constants of its .cfg files. *)
EXTENDS RuntimeControl
=================================================================================
