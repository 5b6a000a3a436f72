------------------------------ MODULE BitLists ------------------------------
(***************************************************************************)
(* What the primitives on booleans promise, whatever the words the bits    *)
(* are packed in: a value is a truth value or a list of them, and an       *)
(* operation gives its result item by item.                                *)
(***************************************************************************)
EXTENDS Integers, Sequences, FiniteSets

CONSTANT MaxBits

VARIABLES x, (* The operand on the left, which the result replaces.        *)
          y, (* The operand on the right.                                  *)
          op (* The operation that gave x or y.                            *)

vars == <<x, y, op>>

Atom(b) == [atom |-> TRUE, s |-> <<b>>]
List(s) == [atom |-> FALSE, s |-> s]
Item(u, i) == IF u.atom THEN u.s[1] ELSE u.s[i]

Or(a, b)  == a \/ b
And(a, b) == a /\ b
Xor(a, b) == a # b

Ones(s, n)   == Cardinality({i \in 1 .. n : s[i]})
Parity(s, n) == Ones(s, n) % 2 = 1

Conform(u, v) == u.atom \/ v.atom \/ Len(u.s) = Len(v.s)
Shape(u, v)   == IF u.atom THEN v ELSE u
EachBoth(f(_, _), u, v) ==
  [Shape(u, v) EXCEPT !.s = [i \in DOMAIN @ |-> f(Item(u, i), Item(v, i))]]

Init == x \in {Atom(b) : b \in BOOLEAN} /\ y = x /\ op = "none"

Give(name, u) == op' = name /\ x' = u /\ UNCHANGED y

New(b)    == Give("new", Atom(b))
Keep      == op' = "keep" /\ y' = x /\ UNCHANGED x
Solitary  == x.atom /\ Give("solitary", List(x.s))
Add(b)    == ~x.atom /\ Len(x.s) < MaxBits /\ Give("append", List(Append(x.s, b)))
Set(i, b) == ~x.atom /\ i \in DOMAIN x.s /\ Give("place", [x EXCEPT !.s[i] = b])
Link      == Len(x.s) + Len(y.s) <= MaxBits /\ Give("link", List(x.s \o y.s))
Drop(n)   == ~x.atom /\ n < Len(x.s) /\ Give("drop", List(SubSeq(x.s, n + 1, Len(x.s))))

Not == Give("not", [x EXCEPT !.s = [i \in DOMAIN @ |-> ~@[i]]])
Both(name, f(_, _)) == Conform(x, y) /\ Give(name, EachBoth(f, x, y))
Running ==
  Give("acc_xor", IF Len(x.s) = 1 THEN Atom(x.s[1])
                  ELSE List([i \in DOMAIN x.s |-> Parity(x.s, i)]))

(* The bit operations take operands of as many items, and spread one item  *)
(* on the left over the items on the right.  Of one item on the right, and *)
(* of two tallies that differ otherwise, they promise the tally only.      *)
BitBoth(name, f(_, _)) ==
  CASE Len(x.s) = Len(y.s) ->
         Give(name, [atom |-> IF Len(x.s) = 1 THEN y.atom ELSE x.atom,
                     s    |-> [i \in DOMAIN x.s |-> f(x.s[i], y.s[i])]])
    [] Len(x.s) = 1 /\ Len(y.s) > 1 ->
         Give(name, [y EXCEPT !.s = [i \in DOMAIN @ |-> f(x.s[1], @[i])]])
    [] OTHER ->
         /\ op' = name /\ UNCHANGED y
         /\ Len(x'.s) = Len(x.s) /\ x'.atom = x.atom

Ask(name, b) == Give(name, Atom(b))

Next ==
  \/ \E b \in BOOLEAN : New(b) \/ Add(b) \/ \E i \in 1 .. MaxBits : Set(i, b)
  \/ \E n \in 1 .. MaxBits : Drop(n)
  \/ Keep \/ Solitary \/ Link \/ Not \/ Running
  \/ Both("or", Or) \/ Both("and", And) \/ Both("xor", Xor)
  \/ BitBoth("bit_or", Or) \/ BitBoth("bit_and", And) \/ BitBoth("bit_xor", Xor)
  \/ Ask("any", \E i \in DOMAIN x.s : x.s[i])
  \/ Ask("all", \A i \in DOMAIN x.s : x.s[i])
  \/ Ask("parity", Parity(x.s, Len(x.s)))
  \/ Ask("equal", x = y)

Spec == Init /\ [][Next]_vars
=============================================================================
