----------------------------- MODULE MCRefCount -----------------------------
(* A small instance of RefCount.                                           *)
EXTENDS RefCount, TLC

CONSTANTS a1, a2, a3, a4, a5, p

PoolSymmetry == Permutations(Arrays)
=============================================================================
