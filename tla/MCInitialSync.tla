--------------------------- MODULE MCInitialSync ---------------------------
(* InitialSync with values for model checking. *)
EXTENDS InitialSync

\* A table of two rows and one of a single row.
TwoTables == <<2, 1>>
SmallTables == <<1, 1>>
=============================================================================
