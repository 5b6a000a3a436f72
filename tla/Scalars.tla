------------------------------ MODULE Scalars ------------------------------
(***************************************************************************)
(* The pervasive operations on numbers, truth values, phrases and faults   *)
(* (arith.c, compare.c, logicops.c).  An operation on two arrays takes a   *)
(* path of its own for packed operands, and otherwise goes item by item.   *)
(* Integers have w bits.  Real numbers and characters are left out.        *)
(***************************************************************************)
EXTENDS ArrayOps

CONSTANTS w,         (* Bits of an integer (64).                           *)
          TestsKept  (* Does the program, as built, test sums that wrap?   *)
ASSUME ScalarsAssumption == w \in Nat /\ w > 1 /\ TestsKept \in BOOLEAN

SMALLINT == -(2 ^ (w - 1))
LARGEINT == 2 ^ (w - 1) - 1
(* What the processor makes of a result that has more bits.                *)
Wrap(n) == ((n - SMALLINT) % (2 ^ w)) + SMALLINT

Arith   == makefault("?A")
Logical == makefault("?L")
Zenith  == makefault("?I")
Nadir   == makefault("?O")

(* An operation on two words gives an atom, or says that it failed.  C     *)
(* leaves a sum that wraps undefined: a compiler may take it that none     *)
(* does, and drop the tests that ask for the sign of one, or keep them.    *)
(* What is built of products is the same either way.                       *)
Fails == makefault("?overflow")
(* Mutant: a sum that wraps is not noticed.                                *)
UncheckedAdd(x, y) == createint(Wrap(x + y))
safeintadd(x, y) ==
  LET s == Wrap(x + y)
  IN IF \/ TestsKept /\ ((x >= 0 /\ y > 0 /\ s < 0) \/ (x <= 0 /\ y < 0 /\ s > 0))
        \/ x = SMALLINT /\ y = SMALLINT
     THEN Fails ELSE createint(s)
safeintsub(x, y) ==
  LET s == Wrap(x - y)
  IN IF TestsKept /\ ((x >= 0 /\ y < 0 /\ s < 0) \/ (x <= 0 /\ y > 0 /\ s > 0)) THEN Fails ELSE createint(s)
Magnitude(n) == IF n < 0 THEN Wrap(-n) ELSE n
safeintmult(x, y) ==
  LET a == Magnitude(x)
      b == Magnitude(y)
      z == Wrap(a * b)
  IN IF z < 0 \/ (z > 0 /\ (z < a \/ z < b)) THEN Fails
     ELSE createint(IF (x >= 0) <=> (y >= 0) THEN z ELSE Wrap(-z))
safeintabs(x) == IF x = SMALLINT THEN Fails ELSE createint(AbsOf(x))

(* The divisor is 0 or more: C division, corrected to round down.          *)
nial_quotient(x, y) ==
  IF y = 0 THEN 0 ELSE IF x >= 0 THEN x \div y ELSE -((-(x + 1)) \div y) - 1
nial_mod(x, y) ==
  LET m == IF x >= 0 THEN x % y ELSE -((-x) % y)
  IN IF y = 0 THEN x ELSE IF m < 0 THEN m + y ELSE m

numeric(k) == k \in {booltype, inttype}
Conforming(x, y) == atomic(x) \/ atomic(y) \/ equalshape(x, y)
Both(x, y)  == atomic(x) /\ atomic(y)
Wider(x, y) == IF atomic(x) THEN shape(y) ELSE shape(x)
Sole(x, i)  == IF tally(x) = 1 THEN ifirst(x) ELSE items(x)[i]

(* Item by item: an operand of one item goes with every item of the other. *)
int_eachboth(f(_, _), x, y) ==
  LET shp == CASE tally(x) = 1 /\ tally(y) = 1 ->
                    IF valence(x) > valence(y) THEN shape(x) ELSE shape(y)
               [] tally(x) = 1 /\ tally(y) # 1 -> shape(y)
               [] OTHER -> shape(x)
      its == [i \in 1 .. prodints(shp) |-> f(Sole(x, i), Sole(y, i))]
  IN CASE tally(x) # 1 /\ tally(y) # 1 /\ ~equalshape(x, y) -> makefault("?conform")
       [] (tally(x) = 1 \/ tally(y) = 1 \/ equalshape(x, y)) /\ shp = <<>> /\ atomic(its[1]) -> its[1]
       [] OTHER -> Imploded([k |-> atype, sh |-> shp, it |-> its])

(* Packed operands: f on their values, which are spread over the shape.    *)
Packed(f(_, _), x, y) ==
  LET shp == Wider(x, y)
      V(u, i) == IF atomic(u) THEN u.v ELSE items(u)[i].v
  IN [i \in 1 .. prodints(shp) |-> f(V(x, i), V(y, i))]

(* Two atoms, one at least no number: a fault prevails over what is none.  *)
FaultOf(x, y, std) ==
  CASE x.k = faulttype /\ y.k = faulttype -> IF x = y THEN x ELSE std
    [] x.k = faulttype /\ y.k # faulttype -> x
    [] x.k # faulttype /\ y.k = faulttype -> y
    [] OTHER                              -> std

-----------------------------------------------------------------------------
(* plus, minus, times: if a vector overflows anywhere, item by item.       *)
Arithmetic(op(_, _), again(_, _), x, y) ==
  LET fast == numeric(x.k) /\ numeric(y.k) /\ Conforming(x, y)
      z    == Packed(op, x, y)
      sound == \A i \in DOMAIN z : z[i] # Fails
  IN CASE fast /\ Both(x, y)            -> z[1]
       [] fast /\ ~Both(x, y) /\ sound  -> new_create_array(inttype, Wider(x, y), z)
       [] ~fast /\ Both(x, y)           -> FaultOf(x, y, Arith)
       [] OTHER                         -> int_eachboth(again, x, y)
RECURSIVE nial_plus(_, _)
nial_plus(x, y) == LET again(a, b) == nial_plus(a, b) IN Arithmetic(safeintadd, again, x, y)
RECURSIVE nial_minus(_, _)
nial_minus(x, y) == LET again(a, b) == nial_minus(a, b) IN Arithmetic(safeintsub, again, x, y)
RECURSIVE nial_times(_, _)
nial_times(x, y) == LET again(a, b) == nial_times(a, b) IN Arithmetic(safeintmult, again, x, y)

(* quotient and mod: with a negative divisor among several, item by item.  *)
Division(op(_, _), again(_, _), x, y) ==
  LET fast == numeric(x.k) /\ numeric(y.k) /\ Conforming(x, y)
      negative == \E i \in 1 .. tally(y) : items(y)[i].v < 0
      z == Packed(LAMBDA a, b : createint(op(a, b)), x, y)
  IN CASE fast /\ Both(x, y) /\ negative -> makefault("?divisor")
       [] fast /\ ~negative              -> new_create_array(inttype, Wider(x, y), z)
       [] ~fast /\ Both(x, y)            -> FaultOf(x, y, Arith)
       [] OTHER                          -> int_eachboth(again, x, y)
RECURSIVE b_quotient(_, _)
b_quotient(x, y) == LET again(a, b) == b_quotient(a, b) IN Division(nial_quotient, again, x, y)
RECURSIVE b_mod(_, _)
b_mod(x, y) == LET again(a, b) == b_mod(a, b) IN Division(nial_mod, again, x, y)

RECURSIVE iopposite(_)
iopposite(x) ==
  IF atomic(x) THEN IF x.k = faulttype THEN x ELSE nial_minus(createint(0), x)
  ELSE int_each(LAMBDA it : iopposite(it), x)

(* A list with SMALLINT is left out: the result is a block released.       *)
RECURSIVE iabs(_)
iabs(x) ==
  CASE numeric(x.k) /\ atomic(x)  -> safeintabs(x.v)
    [] numeric(x.k) /\ ~atomic(x) -> new_create_array(inttype, shape(x),
                                       [i \in 1 .. tally(x) |-> safeintabs(items(x)[i].v)])
    [] x.k = phrasetype  -> Arith
    [] x.k = faulttype   -> x
    [] OTHER             -> int_each(LAMBDA it : iabs(it), x)

-----------------------------------------------------------------------------
(* Comparison: atoms of two kinds go by their type, and the faults ?O and  *)
(* ?I are the least and the greatest.                                      *)
AsInt(x, other) == IF x.k = booltype /\ other.k = inttype THEN [x EXCEPT !.k = inttype] ELSE x
AtomLte(x, y) ==
  LET a == AsInt(x, y)
      b == AsInt(y, x)
  IN CASE a = b                                  -> TRUE
       [] a # b /\ (a = Nadir \/ b = Zenith)     -> TRUE
       [] a # b /\ ~(a = Nadir \/ b = Zenith) /\ (a = Zenith \/ b = Nadir) -> FALSE
       [] OTHER -> IF a.k = b.k THEN a.v <= b.v ELSE a.k < b.k
AtomLt(x, y) ==
  LET a == AsInt(x, y)
      b == AsInt(y, x)
  IN CASE a = Nadir \/ b = Zenith -> TRUE
       [] ~(a = Nadir \/ b = Zenith) /\ (a = Zenith \/ b = Nadir) -> FALSE
       [] OTHER -> IF a.k = b.k THEN a.v < b.v ELSE a.k < b.k
AtomMatch(x, y) == x = y
AtomMate(x, y)  == AsInt(x, y) = AsInt(y, x)

Compare(rel(_, _), mix, again(_, _), x, y) ==
  IF Conforming(x, y) /\ (Both(x, y) \/ (homotype(x.k) /\ homotype(y.k) /\ (mix \/ x.k = y.k)))
  THEN LET its(u, i) == IF atomic(u) THEN u ELSE items(u)[i]
       IN new_create_array(booltype, Wider(x, y),
            [i \in 1 .. prodints(Wider(x, y)) |-> createbool(rel(its(x, i), its(y, i)))])
  ELSE int_eachboth(again, x, y)
RECURSIVE b_lte(_, _)
b_lte(x, y) == LET again(a, b) == b_lte(a, b) IN Compare(AtomLte, TRUE, again, x, y)
RECURSIVE b_lt(_, _)
b_lt(x, y) == LET again(a, b) == b_lt(a, b) IN Compare(AtomLt, TRUE, again, x, y)
b_gte(x, y) == b_lte(y, x)
b_gt(x, y)  == b_lt(y, x)
RECURSIVE b_mate(_, _)
b_mate(x, y) == LET again(a, b) == b_mate(a, b) IN Compare(AtomMate, TRUE, again, x, y)
RECURSIVE b_match(_, _)
b_match(x, y) == LET again(a, b) == b_match(a, b) IN Compare(AtomMatch, FALSE, again, x, y)

-----------------------------------------------------------------------------
(* and, or, xor of truth values; max and min of numbers.                   *)
Connect(op(_, _), again(_, _), x, y) ==
  LET fast == x.k = booltype /\ y.k = booltype /\ Conforming(x, y)
  IN CASE fast                -> new_create_array(booltype, Wider(x, y),
                                   Packed(LAMBDA a, b : createbool(op(a = 1, b = 1)), x, y))
       [] ~fast /\ Both(x, y) -> FaultOf(x, y, Logical)
       [] OTHER               -> int_eachboth(again, x, y)
RECURSIVE b_or(_, _)
b_or(x, y) == LET again(a, b) == b_or(a, b) IN Connect(LAMBDA p, q : p \/ q, again, x, y)
RECURSIVE b_and(_, _)
b_and(x, y) == LET again(a, b) == b_and(a, b) IN Connect(LAMBDA p, q : p /\ q, again, x, y)
RECURSIVE b_xor(_, _)
b_xor(x, y) == LET again(a, b) == b_xor(a, b) IN Connect(LAMBDA p, q : p # q, again, x, y)

(* weak gives way to any other atom; strong is the answer for the rest.    *)
Extreme(better(_, _), weak, strong, again(_, _), x, y) ==
  LET fast == numeric(x.k) /\ numeric(y.k) /\ Conforming(x, y)
      k    == IF x.k = y.k THEN x.k ELSE inttype
      AtFault(f, other) == IF f = weak THEN other ELSE f
  IN CASE fast -> new_create_array(k, Wider(x, y),
                    Packed(LAMBDA a, b : Atom(k, IF better(a, b) THEN a ELSE b), x, y))
       [] ~fast /\ Both(x, y) ->
            CASE x.k = faulttype /\ y.k = faulttype   -> IF x = y THEN x ELSE strong
              [] x.k = faulttype /\ y.k # faulttype   -> AtFault(x, y)
              [] x.k # faulttype /\ y.k = faulttype   -> AtFault(y, x)
              [] x.k = phrasetype /\ y.k = phrasetype -> IF better(x.v, y.v) THEN x ELSE y
              [] OTHER                                -> strong
       [] ~fast /\ ~Both(x, y) -> int_eachboth(again, x, y)
RECURSIVE b_max(_, _)
b_max(x, y) == LET again(a, b) == b_max(a, b) IN Extreme(LAMBDA a, b : a >= b, Nadir, Zenith, again, x, y)
RECURSIVE b_min(_, _)
b_min(x, y) == LET again(a, b) == b_min(a, b) IN Extreme(LAMBDA a, b : a <= b, Zenith, Nadir, again, x, y)

RECURSIVE inot(_)
inot(x) ==
  CASE x.k = booltype  -> new_create_array(booltype, shape(x),
                            [i \in 1 .. tally(x) |-> createbool(~boolval(items(x)[i]))])
    [] x.k = faulttype -> x
    [] atomic(x) /\ x.k \in {inttype, phrasetype} -> Logical
    [] OTHER           -> int_each(LAMBDA it : inot(it), x)

-----------------------------------------------------------------------------
(* Reductive operations: over the atoms of an array, or, of an array that  *)
(* is not simple, over the items at each place.                            *)
arithconvert(x) == [i \in 1 .. tally(x) |-> items(x)[i].v]
Highest(x) == Max({items(x)[i].k : i \in 1 .. tally(x)})
testfaults(x, std) ==
  LET f == SelectSeq(items(x), LAMBDA it : it.k = faulttype)
      text == \E i \in 1 .. tally(x) : items(x)[i].k = phrasetype
  IN IF ~text /\ f # <<>> /\ AllEqual(f) THEN f[1] ELSE std

Total(op(_, _), unit, vals) ==
  FoldLeft(LAMBDA s, v : IF s = Fails THEN Fails ELSE op(s.v, v), createint(unit), vals)
Reductive(total(_), empty, std, both(_, _), again(_), x) ==
  CASE atomic(x) /\ ~homotype(x.k) -> IF x.k = faulttype THEN x ELSE std
    [] tally(x) = 0                -> empty
    [] tally(x) > 0 /\ simple(x) /\ (homotype(x.k) \/ x.k = atype) -> total(x)
    [] ~simple(x) /\ tally(x) = 2  -> both(items(x)[1], items(x)[2])
    [] OTHER                       -> int_each(again, ipack(x))
OfNumbers(op(_, _), unit, x) ==
  IF numeric(Highest(x)) THEN Total(op, unit, arithconvert(x)) ELSE testfaults(x, Arith)
RECURSIVE isum(_)
isum(x) ==
  Reductive(LAMBDA u : OfNumbers(safeintadd, 0, u), createint(0), Arith, nial_plus, LAMBDA u : isum(u), x)
RECURSIVE iproduct(_)
iproduct(x) ==
  Reductive(LAMBDA u : OfNumbers(safeintmult, 1, u), createint(1), Arith, nial_times, LAMBDA u : iproduct(u), x)

OfTruth(q, x) == IF x.k = booltype THEN createbool(q)
                 ELSE IF x.k = inttype THEN Logical ELSE testfaults(x, Logical)
Ones(x) == {i \in 1 .. tally(x) : boolval(items(x)[i])}
RECURSIVE ior(_)
ior(x) == Reductive(LAMBDA u : OfTruth(Ones(u) # {}, u), False_val, Logical, b_or, LAMBDA u : ior(u), x)
RECURSIVE iand(_)
iand(x) == Reductive(LAMBDA u : OfTruth(Ones(u) = 1 .. tally(u), u), True_val, Logical, b_and,
                     LAMBDA u : iand(u), x)
RECURSIVE ixor(_)
ixor(x) == Reductive(LAMBDA u : OfTruth(Cardinality(Ones(u)) % 2 = 1, u), False_val, Logical, b_xor,
                     LAMBDA u : ixor(u), x)
Folded(op(_, _), x) == FoldLeft(op, items(x)[1], Tail(items(x)))
RECURSIVE imax(_)
imax(x) == Reductive(LAMBDA u : Folded(b_max, u), Nadir, Zenith, b_max, LAMBDA u : imax(u), x)
RECURSIVE imin(_)
imin(x) == Reductive(LAMBDA u : Folded(b_min, u), Zenith, Nadir, b_min, LAMBDA u : imin(u), x)
=============================================================================
