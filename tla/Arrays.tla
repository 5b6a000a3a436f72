------------------------------- MODULE Arrays -------------------------------
(***************************************************************************)
(* Nial arrays as absmach.c represents them, and their comparison.  An     *)
(* array has a kind, a shape and its items in row-major order.  Atoms of   *)
(* one kind (truth values, numbers) are stored packed in an array of that  *)
(* kind; whether such items are packed is visible, since "equal" compares  *)
(* kinds.  Phrases and faults are interned and only ever atoms.            *)
(***************************************************************************)
EXTENDS Integers, Sequences, SequencesExt

atype == 1
booltype == 2
inttype == 3
phrasetype == 7
faulttype == 8
homotype(k) == k \in {booltype, inttype}

Atom(k, v) == [k |-> k, v |-> v]
createint(n)  == Atom(inttype, n)
createbool(b) == Atom(booltype, IF b THEN 1 ELSE 0)
Phrase(n)     == Atom(phrasetype, n)
True_val      == createbool(TRUE)
False_val     == createbool(FALSE)
(* The texts of the faults in the order of tkncompare.                     *)
FaultTexts ==
  <<"?A", "?I", "?L", "?O", "?address", "?addresses", "?conform", "?count", "?divisor",
    "?fill", "?fold", "?fork", "?fuse", "?identity", "?insert", "?noexpr", "?overflow",
    "?pair", "?path", "?place", "?raise", "?rank", "?shape", "?slice", "?sort", "?take",
    "?team", "?test">>
FaultNo == [t \in ToSet(FaultTexts) |-> CHOOSE i \in DOMAIN FaultTexts : FaultTexts[i] = t]
makefault(t) == Atom(faulttype, FaultNo[t])

atomic(x)   == "v" \in DOMAIN x
shape(x)    == IF atomic(x) THEN <<>> ELSE x.sh
valence(x)  == Len(shape(x))
items(x)    == IF atomic(x) THEN <<x>> ELSE x.it
tally(x)    == Len(items(x))
fetchasarray(x, i) == items(x)[i + 1]
intval(x)   == x.v
boolval(x)  == x.v = 1
Values(x)   == [i \in 1 .. tally(x) |-> items(x)[i].v]

prodints(s) == FoldLeft(LAMBDA a, b : a * b, 1, s)
sumints(s)  == FoldLeft(LAMBDA a, b : a + b, 0, s)

(* A single of packed items is the atom; what is empty is of kind atype.   *)
new_create_array(k, sh, its) ==
  CASE sh = <<>> /\ homotype(k) -> its[1]
    [] its = <<>>               -> [k |-> atype, sh |-> sh, it |-> <<>>]
    [] OTHER                    -> [k |-> k, sh |-> sh, it |-> its]
NewList(k, its) == new_create_array(k, <<Len(its)>>, its)
Null      == [k |-> atype, sh |-> <<0>>, it |-> <<>>]
Ints(s)   == NewList(inttype, [i \in 1 .. Len(s) |-> createint(s[i])])

homotest(x) ==
  /\ x.k = atype /\ tally(x) > 0
  /\ LET k == fetchasarray(x, 0).k
     IN homotype(k) /\ \A i \in 1 .. tally(x) : atomic(items(x)[i]) /\ items(x)[i].k = k
implode(x)  == new_create_array(fetchasarray(x, 0).k, x.sh, x.it)
Imploded(x) == IF homotest(x) THEN implode(x) ELSE x
explode(x)  == [x EXCEPT !.k = atype]

(* Built as an array of arrays, then packed if it can be.                  *)
Build(sh, its) == Imploded([k |-> atype, sh |-> sh, it |-> its])
mklist(its)    == IF its = <<>> THEN Null ELSE Build(<<Len(its)>>, its)

equalshape(x, y) == shape(x) = shape(y)

simple(x) == x.k # atype \/ \A i \in 1 .. tally(x) : atomic(items(x)[i])

(* Kind, shape and items agree, as "equal" compares them.                  *)
equal(x, y) == x = y
AllEqual(s) == \A i \in 1 .. Len(s) : equal(s[1], s[i])

-----------------------------------------------------------------------------
(* The order of all arrays.                                                *)
ShapeUp(a, b) ==
  LET n == Min({Len(a), Len(b)})
      d == {i \in 1 .. n : a[i] # b[i]}
  IN IF d = {} THEN Len(a) <= Len(b) ELSE a[Min(d)] < b[Min(d)]

RECURSIVE up(_, _)
up(a, b) ==
  LET t     == Min({tally(a), tally(b)})
      d     == {i \in 1 .. t : ~equal(items(a)[i], items(b)[i])}
      Text(p) == p.k \in {phrasetype, faulttype}
      ByItems ==
        IF d # {} THEN up(items(a)[Min(d)], items(b)[Min(d)])
        ELSE IF tally(a) # tally(b) THEN tally(a) < tally(b)
        ELSE ShapeUp(shape(a), shape(b))
  IN CASE equal(a, b) -> TRUE
       [] ~equal(a, b) /\ atomic(a) /\ atomic(b) -> IF a.k # b.k THEN a.k < b.k ELSE a.v <= b.v
       [] t = 0 /\ tally(a) = tally(b) -> ShapeUp(shape(a), shape(b))
       [] t = 0 /\ tally(a) # tally(b) -> tally(a) = 0
       [] t > 0 /\ a.k # b.k /\ homotype(a.k) /\ homotype(b.k) -> a.k < b.k
       [] t > 0 /\ ~atomic(a) /\ Text(b) -> items(a)[1] # b /\ up(items(a)[1], b)
       [] t > 0 /\ ~atomic(b) /\ Text(a) -> up(a, items(b)[1])
       [] OTHER -> ByItems

(* What a packed array is worth: items of one kind of atoms are packed, in *)
(* an array that is not empty, and there is an item for each place.        *)
RECURSIVE Canonical(_)
Canonical(x) ==
  \/ atomic(x)
  \/ /\ x.k = atype \/ (homotype(x.k) /\ x.sh # <<>>)
     /\ tally(x) = prodints(x.sh)
     /\ homotype(x.k) => tally(x) > 0 /\ \A i \in 1 .. tally(x) : items(x)[i].k = x.k /\ atomic(items(x)[i])
     /\ x.k = atype => ~homotest(x) /\ \A i \in 1 .. tally(x) : Canonical(items(x)[i])
     /\ x.sh = <<>> => ~atomic(x.it[1])
=============================================================================
