-------------------------- MODULE MCClientChanges --------------------------
(* ClientChanges for model checking: the constants are given in the cfgs. *)
EXTENDS ClientChanges
=============================================================================
