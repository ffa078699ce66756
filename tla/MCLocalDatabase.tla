--------------------------- MODULE MCLocalDatabase ---------------------------
(* Instances of LocalDatabase for TLC: every child refers to parent 1.      *)
EXTENDS LocalDatabase

MCParentOf == [c \in Child \cup NewChild |-> 1]
=============================================================================
