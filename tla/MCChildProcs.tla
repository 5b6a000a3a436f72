----------------------------- MODULE MCChildProcs -----------------------------
(* Instances of ChildProcs: two entries and three processes.                  *)
EXTENDS ChildProcs
=============================================================================
