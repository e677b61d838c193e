---------------------------- MODULE MCAdapterMux ----------------------------
(* Instances of AdapterMux for TLC.                                          *)
EXTENDS AdapterMux
=============================================================================
