------------------------------- MODULE MCCalls -------------------------------
(* Instances of Calls: F with a local transformer T that has a local    *)
(* operation B, so that B sees an operation parameter and a variable.      *)
EXTENDS Calls, TLC

MCOuter == "F" :> <<>> @@ "T" :> <<"F">> @@ "B" :> <<"T", "F">>
=============================================================================
