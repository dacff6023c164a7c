---------------------------- MODULE MCKeepAlive ----------------------------
(* Small instances of KeepAlive for TLC: the numbers are in the configs. *)
EXTENDS KeepAlive
=============================================================================
