---------------------------- MODULE MCReplication ----------------------------
(* Replication for model checking: the constants are given in the cfgs. *)
EXTENDS Replication
=============================================================================
