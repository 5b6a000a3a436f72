------------------------------- MODULE Values -------------------------------
(***************************************************************************)
(* What the evaluator promises of arrays, with neither containers nor      *)
(* counts: the stack and the variables hold values, an operation takes     *)
(* values and gives a value, and the value of a variable changes by an     *)
(* assignment to it only.  A value is an atom or a list of values.         *)
(***************************************************************************)
EXTENDS Integers, Sequences

CONSTANTS Vars, Texts, Nums, MaxItems, no_value, fault, none

Atom(a)   == <<"atom", a>>
List(s)   == <<"list", s>>
IsList(u) == u[1] = "list"
IsNum(u)  == u[1] = "atom" /\ u[2] \in Nums
Items(u)  == u[2]
Fault     == Atom(fault)

(* An address is an integer or a list of one, counted from zero.           *)
IsAddr(u) == IsNum(u) \/ (IsList(u) /\ Len(Items(u)) = 1 /\ IsNum(Items(u)[1]))
Index(u)  == 1 + (IF IsList(u) THEN Items(u)[1][2] ELSE u[2])

Valid(u, at)     == IsList(u) /\ IsAddr(at) /\ Index(at) \in DOMAIN Items(u)
Picked(u, at)    == IF Valid(u, at) THEN Items(u)[Index(at)] ELSE Fault
Placed(u, at, w) == IF Valid(u, at) THEN List([Items(u) EXCEPT ![Index(at)] = w]) ELSE Fault

IsPair(u) == IsList(u) /\ Len(Items(u)) = 2

(* place applied to a value, the pair ((w, at), u).                        *)
PlaceOf(z) ==
  IF IsPair(z) /\ IsPair(Items(z)[1])
  THEN Placed(Items(z)[2], Items(Items(z)[1])[2], Items(Items(z)[1])[1])
  ELSE Fault

VARIABLES stack,  (* The values on the evaluation stack, the top last.     *)
          val,    (* The value of each variable.                           *)
          held,   (* The right side of an indexed assignment, or none.     *)
          target, (* The variable it is made to, or none.                  *)
          due     (* The value the operation under way must give, or none. *)

vars == <<stack, val, held, target, due>>

Top     == stack[Len(stack)]
Pop(n)  == SubSeq(stack, 1, Len(stack) - n)
TopN(n) == SubSeq(stack, Len(stack) - n + 1, Len(stack))

Init ==
  /\ stack = <<>>
  /\ val = [v \in Vars |-> Atom(no_value)]
  /\ held = none /\ target = none /\ due = none

Push(u) == stack' = Append(stack, u) /\ UNCHANGED <<val, held, target, due>>

Discard ==
  /\ stack # <<>>
  /\ stack' = Pop(1)
  /\ UNCHANGED <<val, held, target, due>>

MkList(n) ==
  /\ n <= Len(stack)
  /\ stack' = Append(Pop(n), List(TopN(n)))
  /\ UNCHANGED <<val, held, target, due>>

(* v := the top of the stack, which stays there as the result.             *)
Assign(v) ==
  /\ stack # <<>>
  /\ val' = [val EXCEPT ![v] = Top]
  /\ UNCHANGED <<stack, held, target, due>>

(* v@i, with the address on the stack.                                     *)
Pick(v) ==
  /\ stack # <<>>
  /\ stack' = Append(Pop(1), Picked(val[v], Top))
  /\ UNCHANGED <<val, held, target, due>>

(* v@i := the top of the stack: the right side is taken, ...               *)
Hold(v) ==
  /\ target = none /\ stack # <<>>
  /\ held' = Top /\ target' = v
  /\ stack' = Pop(1)
  /\ UNCHANGED <<val, due>>

(* ... the address is taken, which settles the result, ...                 *)
Address ==
  /\ held # none /\ stack # <<>>
  /\ due' = Placed(val[target], Top, held)
  /\ stack' = Pop(1)
  /\ held' = none
  /\ UNCHANGED <<val, target>>

(* ... and the variable gets it, unless it is a fault.                     *)
Update ==
  /\ target # none /\ due \notin {none, Fault}
  /\ val' = [val EXCEPT ![target] = due]
  /\ UNCHANGED <<stack, held, target, due>>

(* place takes the pair on the stack.                                      *)
Place ==
  /\ target = none /\ stack # <<>>
  /\ due' = PlaceOf(Top)
  /\ stack' = Pop(1)
  /\ UNCHANGED <<val, held, target>>

(* The operation under way gives its result.  An indexed assignment does   *)
(* so only when the variable has it.                                       *)
Deliver ==
  /\ due # none
  /\ target # none /\ due # Fault => val[target] = due
  /\ stack' = Append(stack, due)
  /\ target' = none /\ due' = none
  /\ UNCHANGED <<val, held>>

(* A jump to the top level: the stack is lost, the variables stay.         *)
Jump ==
  /\ stack' = <<>> /\ held' = none /\ target' = none /\ due' = none
  /\ UNCHANGED val

Next ==
  \/ \E a \in Texts \cup Nums : Push(Atom(a))
  \/ \E v \in Vars : Push(val[v]) \/ Assign(v) \/ Pick(v) \/ Hold(v)
  \/ \E n \in 1 .. MaxItems : MkList(n)
  \/ Discard \/ Address \/ Update \/ Place \/ Deliver \/ Jump

Spec == Init /\ [][Next]_vars
=============================================================================
