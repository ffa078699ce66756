--------------------------- MODULE MCServerChanges ---------------------------
(* ServerChanges with values for model checking. *)
EXTENDS ServerChanges
=============================================================================
