---------------------------- MODULE AtomTableAbs ----------------------------
(***************************************************************************)
(* What the table of phrases and faults promises, without the table: for   *)
(* each kind and text there is at most one array; who asks for an atom     *)
(* gets the array that exists or a new one, or the request fails.          *)
(***************************************************************************)
CONSTANTS Keys, Arrays, none

VARIABLES atom,   (* The key of each array in use.                         *)
          call,   (* The key that is asked for, or none.                   *)
          result  (* The last answer, none after a failure.                *)

vars == <<atom, call, result>>

InUse == DOMAIN atom

Init == atom = [z \in {} |-> none] /\ call = none /\ result = none

Ask(key) ==
  /\ call = none /\ call' = key
  /\ result' = none
  /\ UNCHANGED atom

Answer(z) ==
  /\ call # none
  /\ z \in InUse /\ atom[z] = call
  /\ result' = z /\ call' = none
  /\ UNCHANGED atom

(* A new array, with the answer or before it.                              *)
Make(z) ==
  /\ call # none
  /\ z \in Arrays \ InUse
  /\ \A y \in InUse : atom[y] # call
  /\ atom' = [y \in InUse \cup {z} |-> IF y = z THEN call ELSE atom[y]]
  /\ \/ result' = z /\ call' = none
     \/ UNCHANGED <<call, result>>

Fail ==
  /\ call # none
  /\ result' = none /\ call' = none
  /\ UNCHANGED atom

(* The call that drops an array begins.                                    *)
Forget == call = none /\ result' = none /\ UNCHANGED <<atom, call>>

(* Nothing refers to z any more.                                           *)
Drop(z) ==
  /\ call = none
  /\ z \in InUse
  /\ atom' = [y \in InUse \ {z} |-> atom[y]]
  /\ result' = none
  /\ UNCHANGED call

Next ==
  \/ \E key \in Keys : Ask(key)
  \/ \E z \in Arrays : Answer(z) \/ Make(z) \/ Drop(z)
  \/ Fail
  \/ Forget

Spec == Init /\ [][Next]_vars
=============================================================================
