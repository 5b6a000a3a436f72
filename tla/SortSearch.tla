----------------------------- MODULE SortSearch -----------------------------
(***************************************************************************)
(* Sorting (trs.c) and what uses the order (atops.c): find, findall, cull, *)
(* diverse, except.  An array carries a flag that says it is sorted by     *)
(* "up"; the operations that trust it take it as an argument here.         *)
(***************************************************************************)
EXTENDS Selection

(* By "up" on the items, or on the packed values, which is the same.       *)
InOrder(x) == \A i \in 1 .. tally(x) - 1 : up(items(x)[i], items(x)[i + 1])
check_sorted(x) == InOrder(x)

(* The comparators a program may sort by.                                  *)
Comparison(f, a, b) ==
  CASE f = "up"   -> createbool(up(a, b))
    [] f = "lte"  -> b_lte(a, b)
    [] f = "gte"  -> b_gte(a, b)
    [] f = "plus" -> nial_plus(a, b)

-----------------------------------------------------------------------------
(* The list merge of Knuth: L links the items, from 1, of each run; the    *)
(* last link of a run leads to the next run but one and is negative.       *)
(* le[i, j] is the truth value "item i is in order before j", or what the  *)
(* comparator gave in place of one, which ends the sort.                   *)
BadCompare == <<0>>
Truth(v) == v.k = booltype /\ atomic(v)
(* Mutant: the end of a run is lost.                                       *)
Unsigned(old, i) == i
Signed(old, i) == IF old < 0 THEN -i ELSE i

(* r.L are the links so far, r.t is where the end of the run is to go.     *)
Linked(r, p, v) ==
  CASE ~Truth(v)     -> [r EXCEPT !.L = BadCompare]
    [] v = True_val  -> [r EXCEPT !.L[p] = p + 1]
    [] v = False_val -> [L |-> [r.L EXCEPT ![r.t] = -(p + 1)], t |-> p]
Ended(n, r) == IF r.L = BadCompare THEN r.L ELSE [r.L EXCEPT ![r.t] = 0, ![n] = 0, ![n + 1] = -@]
Unlinked(n) == [L |-> [i \in 0 .. n + 1 |-> IF i = 0 THEN 1 ELSE 0], t |-> n + 1]
FirstRuns(n, le) ==
  IF n < 2 THEN Unlinked(n).L
  ELSE Ended(n, FoldLeft(LAMBDA r, p : IF r.L = BadCompare THEN r ELSE Linked(r, p, le[p, p + 1]),
                         Unlinked(n), [p \in 1 .. n - 1 |-> p]))

RECURSIVE EndOfRun(_, _)
EndOfRun(L, t) == IF L[t] > 0 THEN EndOfRun(L, L[t]) ELSE t

(* The runs that start at p and q are merged behind s, then the next two.  *)
RECURSIVE MergeRuns(_, _)
MergeRuns(m, le) ==
  LET v     == le[m.p, m.q]
      it    == IF v = True_val THEN m.p ELSE m.q
      other == IF v = True_val THEN m.q ELSE m.p
      L1    == [m.L EXCEPT ![m.s] = Signed(@, it)]
      last  == EndOfRun(L1, other)
      L2    == [L1 EXCEPT ![it] = other]
      onP   == IF v = True_val THEN -L1[it] ELSE -L1[last]
      onQ   == IF v = True_val THEN -L1[last] ELSE -L1[it]
  IN CASE ~Truth(v) -> BadCompare
       [] Truth(v) /\ L1[it] > 0 ->
            MergeRuns([m EXCEPT !.L = L1, !.s = it, !.p = IF v = True_val THEN L1[it] ELSE @,
                                !.q = IF v = True_val THEN @ ELSE L1[it]], le)
       [] Truth(v) /\ L1[it] <= 0 /\ onQ # 0 ->
            MergeRuns([L |-> L2, s |-> m.t, t |-> last, p |-> onP, q |-> onQ], le)
       [] OTHER -> [[L2 EXCEPT ![m.t] = Signed(@, onP)] EXCEPT ![last] = 0]
RECURSIVE MergePasses(_, _, _)
MergePasses(L, n, le) ==
  IF L = BadCompare \/ L[n + 1] = 0 THEN L
  ELSE MergePasses(MergeRuns([L |-> L, s |-> 0, t |-> n + 1, p |-> L[0], q |-> L[n + 1]], le), n, le)

(* The items in the order of the links from L[0].                          *)
Chain(L, n) == LET c[i \in 1 .. n] == IF i = 1 THEN L[0] ELSE L[c[i - 1]] IN c
Chained(n, L) == IF L = BadCompare THEN BadCompare ELSE [i \in 1 .. n |-> Chain(L, n)[i]]
SortedChain(n, le) == Chained(n, MergePasses(FirstRuns(n, le), n, le))

(* Numbers, and any items of a simple array under <=, go by "up".          *)
ByUp(f, x) == f = "up" \/ (f = "lte" /\ x.k = inttype)
ItemsInOrder(f, x, i, j) ==
  IF f = "lte" /\ simple(x) THEN createbool(up(items(x)[i], items(x)[j]))
  ELSE Comparison(f, items(x)[i], items(x)[j])
Position(i, y) == IF valence(y) = 1 THEN createint(i) ELSE ToAddress(i, shape(y))
PositionKind(y) == IF valence(y) = 1 THEN inttype ELSE atype
Arranged(x, order, gradesw) ==
  IF order = BadCompare THEN makefault("?sort")
  ELSE IF gradesw
       THEN new_create_array(PositionKind(x), x.sh, [i \in DOMAIN order |-> Position(order[i] - 1, x)])
       ELSE Imploded(new_create_array(x.k, x.sh, [i \in DOMAIN order |-> items(x)[order[i]]]))
sort(f, x, gradesw) ==
  IF atomic(x) \/ (InOrder(x) /\ ByUp(f, x))
  THEN IF ~gradesw THEN x ELSE IF atomic(x) THEN isingle(Null) ELSE itell(gage(ishape(x)))
  ELSE Arranged(x, SortedChain(tally(x), [i, j \in 1 .. tally(x) |-> ItemsInOrder(f, x, i, j)]), gradesw)

-----------------------------------------------------------------------------
(* Binary search for the first item equal to the target, then, from there, *)
(* for the last.  The interval is <<low, mid>> and <<mid, high>>; NotFound *)
(* is an empty interval.                                                   *)
(* Mutant: what is equal is taken to come before.                          *)
NotAfter(x, y) == up(x, y)
Before(x, y) == up(x, y) /\ ~equal(x, y)
NotFound == <<0, -1>>
RECURSIVE LowSearch(_, _, _, _)
LowSearch(x, y, low, midlow) ==
  LET probe == (low + midlow) \div 2
      val   == fetchasarray(y, probe)
      l     == IF ~equal(val, x) /\ up(val, x) THEN probe + 1 ELSE low
      m     == IF equal(val, x) THEN probe ELSE IF up(val, x) THEN midlow ELSE probe - 1
  IN CASE Before(x, fetchasarray(y, low)) -> -1
       [] ~Before(x, fetchasarray(y, low))
          /\ (l > tally(y) - 1 \/ m < low \/ (equal(val, x) /\ low = probe)) -> l
       [] OTHER -> LowSearch(x, y, l, m)
RECURSIVE HighSearch(_, _, _, _)
HighSearch(x, y, midhigh, high) ==
  LET probe == (high + midhigh + 1) \div 2
      val   == fetchasarray(y, probe)
      h     == IF ~equal(val, x) /\ ~up(val, x) THEN probe - 1 ELSE high
      m     == IF equal(val, x) THEN probe ELSE IF up(val, x) THEN probe + 1 ELSE midhigh
  IN CASE Before(fetchasarray(y, high), x) -> -1
       [] ~Before(fetchasarray(y, high), x) /\ (h < 0 \/ m > high \/ (equal(val, x) /\ high = probe)) -> h
       [] OTHER -> HighSearch(x, y, m, h)
Between(low, high) == IF low = -1 \/ high = -1 \/ low > high THEN NotFound ELSE <<low, high>>
HighEnd(x, y, low, firstonly) ==
  IF firstonly \/ low >= tally(y) THEN tally(y) - 1 ELSE HighSearch(x, y, low, tally(y) - 1)
IntervalFrom(x, y, low, firstonly) == Between(low, HighEnd(x, y, low, firstonly))
Interval(x, y, firstonly) == IntervalFrom(x, y, LowSearch(x, y, 0, tally(y) - 1), firstonly)

(* The flag is of use where the items of y can be the item sought.         *)
Searchable(x, y) ==
  /\ tally(y) > 0
  /\ IF atomic(x) /\ x.k = inttype THEN y.k = inttype
     ELSE y.k = atype /\ x.k # booltype
Places(x, y) == {i \in 0 .. tally(y) - 1 : equal(x, fetchasarray(y, i))}
Linear(x, y) == SetToSortSeq(Places(x, y), <)

(* The places found, from zero, in the order of the items.                 *)
Inside(iv) == [i \in 1 .. iv[2] - iv[1] + 1 |-> iv[1] + i - 1]
Matches(x, y, flag, firstonly) ==
  IF flag /\ Searchable(x, y) THEN Inside(Interval(x, y, firstonly)) ELSE Linear(x, y)
Sought(y, at) ==
  IF at # <<>> THEN mklist(<<True_val, Position(at[1], y)>>)
  ELSE mklist(<<False_val, IF valence(y) = 1 THEN createint(tally(y)) ELSE ishape(y)>>)
nseek(x, y, flag) ==
  IF atomic(y) THEN pair(createbool(equal(x, y)), Null) ELSE Sought(y, Matches(x, y, flag, TRUE))
Positions(y, at) == NewList(PositionKind(y), [i \in DOMAIN at |-> Position(at[i], y)])
findall(x, y, flag) ==
  IF atomic(y) THEN IF equal(x, y) THEN nial_solitary(Null) ELSE Null
  ELSE Positions(y, Matches(x, y, flag, FALSE))

-----------------------------------------------------------------------------
(* The first of each run of equal items.                                   *)
Pattern(x) == NewList(booltype, [i \in 1 .. tally(x) |->
                createbool(i = 1 \/ ~equal(items(x)[i], items(x)[i - 1]))])
CullBy(a, ord) == choose(a, sort("lte", sublist(Pattern(choose(a, ord)), ord), FALSE))
cull(x) == CullBy(ilist(x), sort("up", ilist(x), TRUE))
scull(x) == sublist(Pattern(x), x)
Trusted(x, flag) == flag \/ check_sorted(x)
icull(x, flag) == IF Trusted(x, flag) THEN scull(x) ELSE cull(x)
idiverse(x, flag) ==
  iand(IF Trusted(x, flag) THEN Pattern(x)
       ELSE LET a == ilist(x) IN Pattern(choose(a, sort("up", a, TRUE))))

(* The places of the items of a that are not in b, both in order: the walk *)
(* passes over the items of b that come before the item of a.              *)
RECURSIVE Walk(_, _, _, _)
Walk(a, b, i, j) ==
  LET ai == fetchasarray(a, i)
      bj == fetchasarray(b, j)
  IN CASE j >= tally(b) -> [n \in 1 .. tally(a) - i |-> i + n - 1]
       [] j < tally(b) /\ i >= tally(a) -> <<>>
       [] j < tally(b) /\ i < tally(a) /\ up(ai, bj) ->
            (IF equal(ai, bj) THEN <<>> ELSE <<i>>) \o Walk(a, b, i + 1, j)
       [] OTHER -> Walk(a, b, i, j + 1)
PlacesIn(ord, kept) == Ints([i \in DOMAIN kept |-> intval(fetchasarray(ord, kept[i]))])
ExceptBy(a, ord, b) == choose(a, sort("lte", PlacesIn(ord, Walk(choose(a, ord), b, 0, 0)), FALSE))
except(x, y) == ExceptBy(ilist(x), sort("up", ilist(x), TRUE), sort("up", cull(y), FALSE))
KindLeft(a, b) == IF a.k # b.k THEN atype ELSE a.k
sexcept(x, y) ==
  LET a    == ilist(x)
      kept == Walk(a, y, 0, 0)
  IN IF tally(y) = 0 THEN a
     ELSE Imploded(NewList(KindLeft(a, y), [i \in DOMAIN kept |-> fetchasarray(a, kept[i])]))
oldexcept(x, y) ==
  LET its == SelectSeq(items(x), LAMBDA it : Places(it, y) = {})
  IN IF Len(its) = tally(x) THEN ilist(x) ELSE Imploded(NewList(ilist(x).k, its))
CONSTANT CROSSOVER  (* Sizes from which except sorts (5000).               *)
b_except(x, y, xflag, yflag) ==
  LET big == tally(x) # 1 /\ tally(x) * tally(y) > CROSSOVER
  IN CASE ~Trusted(x, xflag) /\ ~big -> oldexcept(x, y)
       [] ~Trusted(x, xflag) /\ big  -> except(x, y)
       [] OTHER -> sexcept(x, IF Trusted(y, yflag) THEN y ELSE sort("up", y, FALSE))
=============================================================================
