---------------------------- MODULE Transformers ----------------------------
(***************************************************************************)
(* The transformers (trs.c): each takes operations, applies them to parts  *)
(* of its argument by do_apply and puts the results together.  Where the   *)
(* code has a loop of its own for what its comment defines by recursion,   *)
(* the loop is what is modelled.  Operations without effects are assumed.  *)
(***************************************************************************)
EXTENDS SortSearch

CONSTANTS do_apply(_, _),  (* The result of an operation on an array.      *)
          Reductives       (* Basic operations that reduce by themselves.  *)

each(f, x) == int_each(LAMBDA it : do_apply(f, it), x)
eachboth(f, x, y) == int_eachboth(LAMBDA a, b : do_apply(f, pair(a, b)), x, y)
ieachleft(f, x, y)  == eachboth(f, x, isingle(y))
ieachright(f, x, y) == eachboth(f, isingle(x), y)
ieachall(f, x) == IF f \in Reductives THEN do_apply(f, x) ELSE each(f, ipack(x))

(* For a pair a b each item of a goes with each item of b in turn; the     *)
(* results are packed only while all have the kind of the first.           *)
OuterOf(shz, z) ==
  IF z = <<>> THEN new_create_array(atype, shz, <<>>)
  ELSE new_create_array(KindOf(z[1].k, \A k \in DOMAIN z : atomic(z[k]) /\ z[k].k = z[1].k), shz, z)
outer(f, a, b) ==
  LET n == tally(b)
  IN OuterOf(shape(a) \o shape(b),
             [k \in 1 .. tally(a) * n |-> do_apply(f, pair(fetchasarray(a, (k - 1) \div n), fetchasarray(b, (k - 1) % n)))])
iouter(f, x) == IF tally(x) = 2 THEN outer(f, items(x)[1], items(x)[2]) ELSE each(f, icart(x))

ileaf(f, x) ==
  LET RECURSIVE Leaf(_)
      Leaf(a) == IF atomic(a) THEN do_apply(f, a) ELSE int_each(LAMBDA it : Leaf(it), a)
  IN Leaf(x)
itwig(f, x) ==
  LET RECURSIVE Twig(_)
      Twig(a) == IF simple(a) THEN do_apply(f, a) ELSE int_each(LAMBDA it : Twig(it), a)
  IN Twig(x)

ifold(f, x, y) ==
  IF isint(x) THEN FoldLeft(LAMBDA r, i : do_apply(f, r), y, [i \in 1 .. intval(x) |-> i])
  ELSE makefault("?fold")
iconverse(f, x) == IF tally(x) # 2 THEN makefault("?pair") ELSE do_apply(f, ireverse(x))
iiterate(f, x) == IF tally(x) = 0 THEN Nullexpr ELSE do_apply(f, items(x)[tally(x)])
iteam(fs, x) ==
  IF Len(fs) # tally(x) THEN makefault("?team")
  ELSE IF atomic(x) THEN isingle(do_apply(fs[1], x))
       ELSE IF tally(x) = 0 THEN x
            ELSE Build(x.sh, [i \in 1 .. tally(x) |-> do_apply(fs[i], items(x)[i])])

-----------------------------------------------------------------------------
(* FORK: tests and operations by turns, and one for the rest.              *)
RECURSIVE ForkFrom(_, _)
ForkFrom(fs, x) ==
  LET test == do_apply(Head(fs), x)
  IN CASE fs = <<>>                            -> Nullexpr
       [] Len(fs) = 1                          -> test
       [] Len(fs) > 1 /\ ~Truth(test)          -> Logical
       [] Len(fs) > 1 /\ test = True_val       -> do_apply(fs[2], x)
       [] OTHER                                -> ForkFrom(Tail(Tail(fs)), x)
ifork(fs, x) == IF Len(fs) < 2 THEN makefault("?fork") ELSE ForkFrom(fs, x)

(* RECUR: the parts on the way down are kept, and joined on the way back.  *)
BadTest == makefault("?test")
Join(joinf, part, res) == do_apply(joinf, pair(part, res))
RECURSIVE RecurDown(_, _, _, _, _)
RecurDown(test, parta, partb, x, elements) ==
  LET res == do_apply(test, x)
  IN CASE res.k # booltype -> [ok |-> FALSE, x |-> x, elements |-> elements]
       [] res.k = booltype /\ boolval(res) -> [ok |-> TRUE, x |-> x, elements |-> elements]
       [] OTHER -> RecurDown(test, parta, partb, do_apply(partb, x), Append(elements, do_apply(parta, x)))
RecurUp(d, endf, joinf) ==
  IF d.ok THEN FoldRight(LAMBDA e, res : Join(joinf, e, res), d.elements, do_apply(endf, d.x)) ELSE BadTest
irecur(test, endf, parta, joinf, partb, x) == RecurUp(RecurDown(test, parta, partb, x, <<>>), endf, joinf)
iacross(endf, parta, joinf, x) ==
  FoldRight(LAMBDA it, res : Join(joinf, do_apply(parta, it), res), items(x), do_apply(endf, Null))

(* DOWN: candidates is a stack of arrays still to be taken apart, and of   *)
(* shapes, under a marker, of those whose parts lie above; results is the  *)
(* stack of what has been done.                                            *)
marker == Phrase(99)
RECURSIVE DownLoop(_, _, _)
DownLoop(ops, candidates, results) ==
  LET b     == Last(candidates)
      rest  == Front(candidates)
      shp   == Last(rest)
      n     == prodints(Values(shp))
      base  == Len(results) - n
      whole == b_reshape(shp, mklist(SubSeq(results, base + 1, Len(results))))
      test  == do_apply(ops.test, b)
      parts == do_apply(ops.structf, b)
  IN CASE candidates = <<>> -> results[1]
       [] candidates # <<>> /\ b = marker ->
            DownLoop(ops, Front(rest), Append(SubSeq(results, 1, base), do_apply(ops.joinf, whole)))
       [] candidates # <<>> /\ b # marker /\ test.k # booltype -> BadTest
       [] candidates # <<>> /\ b # marker /\ test = True_val ->
            DownLoop(ops, rest, Append(results, do_apply(ops.endf, b)))
       [] OTHER -> DownLoop(ops, rest \o <<ishape(parts), marker>> \o Reverse(items(parts)), results)
idown(ops, x) == DownLoop(ops, <<x>>, <<>>)

-----------------------------------------------------------------------------
(* From the right for what does not reduce by itself.                      *)
reduce(f, its) ==
  FoldRight(LAMBDA it, res : do_apply(f, pair(it, res)), Front(its), Last(its))
ireduce(f, x) ==
  IF f \in Reductives \cup {"link", "plus", "times"}
  THEN do_apply(CASE f = "plus" -> "sum" [] f = "times" -> "product" [] OTHER -> f, x)
  ELSE IF tally(x) = 0 THEN makefault("?identity") ELSE reduce(f, items(x))
LeftTotals(f, its) ==
  FoldLeft(LAMBDA done, it : Append(done, do_apply(f, pair(Last(done), it))), <<Head(its)>>, Tail(its))
RightTotals(f, its) == [i \in DOMAIN its |-> reduce(f, SubSeq(its, 1, i))]
iaccumulate(f, x) ==
  IF tally(x) <= 1 THEN x
  ELSE Build(x.sh, IF f \in Reductives \cup {"link", "plus", "times"}
                   THEN LeftTotals(f, items(x)) ELSE RightTotals(f, items(x)))

(* The subarrays on the last n axes, which must give results alike.        *)
SubArray(a, sh, i) ==
  new_create_array(a.k, sh, SubSeq(items(a), (i - 1) * prodints(sh) + 1, i * prodints(sh)))
Ranked(outer_sh, res) ==
  LET outshape == outer_sh \o shape(res[1])
      alike    == \A i \in DOMAIN res : res[i].k = res[1].k /\ shape(res[i]) = shape(res[1])
  IN CASE prodints(outshape) = 0           -> new_create_array(atype, outshape, <<>>)
       [] prodints(outshape) > 0 /\ ~alike -> makefault("?rank")
       [] OTHER -> new_create_array(IF res[1].k >= phrasetype THEN atype ELSE res[1].k, outshape,
                                    FlattenSeq([i \in DOMAIN res |-> items(res[i])]))
rank(f, n, a) ==
  LET m     == valence(a) - n
      inner == SubSeq(shape(a), m + 1, valence(a))
  IN CASE atomic(a)                            -> isingle(do_apply(f, a))
       [] ~atomic(a) /\ tally(a) = 0           -> a
       [] ~atomic(a) /\ tally(a) > 0 /\ n = 0  -> imix(each(f, int_each(isingle, a)))
       [] OTHER -> Ranked(SubSeq(shape(a), 1, m),
                          [i \in 1 .. tally(a) \div prodints(inner) |-> do_apply(f, SubArray(a, inner, i))])

(* a and b of one length: the items of b by the equal items of a.          *)
ByKeys(f, keys, sa, sb) ==
  mklist([i \in 1 .. tally(keys) |-> do_apply(f, choose(sb, findall(items(keys)[i], sa, TRUE)))])
Sorted(f, a, b, ind) == ByKeys(f, cull(a), choose(a, ind), choose(b, ind))
ibykey(f, a, b) == Sorted(f, a, b, sort("up", a, TRUE))
=============================================================================
