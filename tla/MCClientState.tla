---------------------------- MODULE MCClientState ----------------------------
(* ClientState for model checking: the constants are given in the cfgs. *)
EXTENDS ClientState
=============================================================================
