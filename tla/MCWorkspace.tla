---------------------------- MODULE MCWorkspace ----------------------------
(* Instances of Workspace.  A few words stand for thousands: what matters  *)
(* is which blocks fit where.                                              *)
EXTENDS Workspace
=============================================================================
