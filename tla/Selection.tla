------------------------------ MODULE Selection ------------------------------
(***************************************************************************)
(* Selection and insertion by address, path, addresses and slice           *)
(* (insel.c).  What the routines say with their truth value, that an       *)
(* address is no good, is the value Invalid.                               *)
(***************************************************************************)
EXTENDS Scalars

Invalid == Atom(0, 0)

(* The place of an address in row-major order, or -1.                      *)
PlaceOf(a, addr) ==
  IF /\ addr.k = inttype
     /\ tally(addr) = valence(a)
     /\ \A i \in 1 .. valence(a) : Values(addr)[i] \in 0 .. shape(a)[i] - 1
  THEN IndexOf(Values(addr), shape(a)) ELSE -1

pick(a, addr) ==
  LET index == PlaceOf(a, addr)
  IN CASE valence(a) = 0 /\ tally(addr) = 0                    -> ifirst(a)
       [] ~(valence(a) = 0 /\ tally(addr) = 0) /\ index >= 0   -> fetchasarray(a, index)
       [] OTHER                                                -> Invalid
b_pick(x, y) == LET z == pick(y, x) IN IF z = Invalid THEN makefault("?address") ELSE z
isecond(x) == IF tally(x) >= 2 THEN fetchasarray(x, 1) ELSE makefault("?address")
ithird(x)  == IF tally(x) >= 3 THEN fetchasarray(x, 2) ELSE makefault("?address")

reach(a, path) == FoldLeft(LAMBDA b, addr : IF b = Invalid THEN Invalid ELSE pick(b, addr), a, items(path))
b_reach(x, y) == LET z == reach(y, x) IN IF z = Invalid THEN makefault("?path") ELSE z

choose(a, addrs) ==
  LET its == [i \in 1 .. tally(addrs) |-> pick(a, items(addrs)[i])]
      k   == IF valence(addrs) = 0 \/ ~homotype(a.k) THEN atype ELSE a.k
  IN CASE Invalid \in ToSet(its) -> Invalid
       [] Invalid \notin ToSet(its) /\ valence(addrs) = 0 -> isingle(its[1])
       [] OTHER -> Imploded(new_create_array(k, shape(addrs), its))
EachLeftPick(x, y) == int_eachboth(b_pick, x, isingle(y))
b_choose(x, y) == LET z == choose(y, x) IN IF z = Invalid THEN EachLeftPick(x, y) ELSE z

(* The addresses of a slice: an axis left out stands for all of it.        *)
Nullexpr == makefault("?noexpr")
slice_addrs(a, addr) ==
  LET Whole(i) == IF items(addr)[i] = Nullexpr THEN generateints(shape(a)[i]) ELSE items(addr)[i]
      axes == CASE atomic(addr)                     -> ilist(addr)
                [] ~atomic(addr) /\ addr.k = atype  -> [addr EXCEPT !.it = [i \in DOMAIN addr.it |-> Whole(i)]]
                [] OTHER                            -> addr
  IN IF tally(addr) # valence(a) THEN Invalid ELSE icart(axes)

(* A row or a column of a table is taken without a look at its items.      *)
isint(x) == atomic(x) /\ x.k = inttype
RowOf(addr)    == items(addr)[2] = Nullexpr /\ isint(items(addr)[1])
ColumnOf(addr) == items(addr)[1] = Nullexpr /\ isint(items(addr)[2])
TableSlice(a, addr) == valence(a) = 2 /\ addr.k = atype /\ (RowOf(addr) \/ ColumnOf(addr))
LineSize(a, addr) == IF RowOf(addr) THEN a.sh[2] ELSE a.sh[1]
LineGood(a, addr) ==
  IF RowOf(addr) THEN intval(items(addr)[1]) \in 0 .. a.sh[1] - 1
  ELSE intval(items(addr)[2]) \in 0 .. a.sh[2] - 1
LineIndex(a, addr, j) ==
  IF RowOf(addr) THEN intval(items(addr)[1]) * a.sh[2] + j ELSE j * a.sh[2] + intval(items(addr)[2])

SelectLine(a, addr) ==
  IF LineGood(a, addr)
  THEN NewList(a.k, [j \in 1 .. LineSize(a, addr) |-> fetchasarray(a, LineIndex(a, addr, j - 1))])
  ELSE makefault("?address")
Chosen(a, addrs, fault) == LET z == choose(a, addrs) IN IF z = Invalid THEN makefault(fault) ELSE z
SelectAll(a, addrs) == Chosen(a, addrs, "?addresses")
SelectSlice(a, addr) ==
  LET addrs == slice_addrs(a, addr)
  IN CASE TableSlice(a, addr) -> SelectLine(a, addr)
       [] ~TableSlice(a, addr) /\ addrs = Invalid -> makefault("?slice")
       [] OTHER -> Chosen(a, addrs, "?slice")

-----------------------------------------------------------------------------
(* Insertion.  A target is the array worked on (a), the block the variable *)
(* holds (var), whether the two differ (changed), whether that block was   *)
(* written to (touched, which clears its flag) and whether there are other *)
(* holders (shared).  What is shared is copied first.                      *)
Target(a, shared) ==
  [a |-> a, var |-> a, changed |-> FALSE, touched |-> FALSE, shared |-> shared, ok |-> TRUE]
Refused(t) == [t EXCEPT !.ok = FALSE]
Inserted(a, index, x) == [a EXCEPT !.it[index + 1] = x]

place(t, addr, x) ==
  LET index   == PlaceOf(t.a, addr)
      unlike  == homotype(t.a.k) /\ ~(t.a.k = x.k /\ atomic(x))
      moved   == t.changed \/ unlike \/ t.shared
      raw     == Inserted(IF unlike THEN explode(t.a) ELSE t.a, index, x)
  IN CASE valence(t.a) = 0 /\ tally(addr) = 0 -> [t EXCEPT !.a = isingle(x), !.changed = TRUE]
       [] valence(t.a) # 0 /\ index >= 0 ->
            [t EXCEPT !.a = Imploded(raw), !.var = IF moved THEN @ ELSE raw,
                      !.touched = @ \/ ~moved, !.changed = moved \/ homotest(raw)]
       [] OTHER -> Refused(t)

(* The items of vals go to addrs one after the other, until one fails.     *)
placeall(t, addrs, vals) ==
  LET Val(i) == IF valence(vals) = 0 THEN ifirst(vals) ELSE items(vals)[i]
      step(u, i) == IF u.ok THEN place(u, items(addrs)[i], Val(i)) ELSE u
  IN IF tally(addrs) # tally(vals) /\ valence(vals) # 0 THEN Refused(t)
     ELSE FoldLeft(step, t, [i \in 1 .. tally(addrs) |-> i])

(* Down the path by pick, and up again by place.                           *)
RECURSIVE pathup(_, _, _)
pathup(target, path, val) ==
  LET addr == Head(path)
      down == pick(target, addr)
      new  == IF down = Invalid THEN Invalid ELSE pathup(down, Tail(path), val)
  IN CASE path = <<>> -> val
       [] path # <<>> /\ (down = Invalid \/ new = Invalid) -> Invalid
       [] OTHER -> place(Target(target, TRUE), addr, new).a
deepplace(a, path, x) == pathup(a, items(path), x)

(* What the variable holds in the end: the result, or if it is refused the *)
(* block that was worked on in place.                                      *)
Outcome(t) == IF t.ok THEN t.a ELSE t.var
splace(a, shared, addr, x) == Outcome(place(Target(a, shared), addr, x))
splaceall(a, shared, addrs, vals) == Outcome(placeall(Target(a, shared), addrs, vals))
sdeepplace(a, path, x) == LET z == deepplace(a, path, x) IN IF z = Invalid THEN a ELSE z

(* A row or a column whose kind fits is stored as it stands; the code      *)
(* takes it to be long enough, and so do the slices tried here.            *)
insertLine(a, addr, val) ==
  LET v == IF valence(val) = 0 THEN reshape(createint(LineSize(a, addr)), val) ELSE val
      at == [j \in 1 .. LineSize(a, addr) |-> LineIndex(a, addr, j - 1) + 1]
      J(i) == CHOOSE j \in DOMAIN at : at[j] = i
  IN IF LineGood(a, addr)
     THEN [a EXCEPT !.it = [i \in DOMAIN a.it |-> IF i \in ToSet(at) THEN items(v)[J(i)] ELSE a.it[i]]]
     ELSE a
LineFits(a, addr, val) == TableSlice(a, addr) /\ a.k = val.k
LongEnough(a, addr, val) == valence(val) = 0 \/ tally(val) >= LineSize(a, addr)
insertSlice(a, shared, addr, val) ==
  LET addrs == slice_addrs(a, addr)
  IN CASE LineFits(a, addr, val) -> insertLine(a, addr, val)
       [] ~LineFits(a, addr, val) /\ addrs = Invalid -> a
       [] OTHER -> splaceall(a, shared, addrs, val)
=============================================================================
