----------------------------- MODULE MCEndToEnd -----------------------------
(* EndToEnd for model checking: the constants are given in the cfgs. *)
EXTENDS EndToEnd
=============================================================================
