--------------------------- MODULE MCRuntimeState ---------------------------
(* Instances of RuntimeState for TLC.                                        *)
EXTENDS RuntimeState
=============================================================================
