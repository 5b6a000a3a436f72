------------------------------ MODULE MCHeap ------------------------------
(***************************************************************************)
(* Small workspaces for module Heap.  The header and block sizes are those *)
(* of the 64-bit build (flhsize 5, minsize 8); the workspace is shrunk.    *)
(***************************************************************************)
EXTENDS Heap

MCRequests  == {8, 13}
MCLastWords == {3}
=============================================================================
