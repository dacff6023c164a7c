------------------------------ MODULE MCToChan ------------------------------
(* Small instances of ToChan for TLC: the values are in the configs. *)
EXTENDS ToChan

CONSTANTS m1, m2, m3
=============================================================================
