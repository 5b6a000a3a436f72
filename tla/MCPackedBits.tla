---------------------------- MODULE MCPackedBits ----------------------------
(* Words of four bits, in two bytes, and arrays of up to a word and a bit. *)
EXTENDS PackedBits
=============================================================================
