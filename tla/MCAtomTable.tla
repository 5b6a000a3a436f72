---------------------------- MODULE MCAtomTable ----------------------------
(* Instances of AtomTable for TLC: a table of 5 cells, which becomes one   *)
(* of 10, stepped through by 3; a phrase and a fault of one text always    *)
(* collide, the two texts collide in the small table.                      *)
EXTENDS AtomTable, TLC

MCTexts   == {"a", "b"}
MCHashSum == "a" :> 1 @@ "b" :> 6
=============================================================================
