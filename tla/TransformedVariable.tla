------------------------- MODULE TransformedVariable -------------------------
(***************************************************************************)
(* A program that applies transformers to the variable A.  What EACH,      *)
(* REDUCE and the others make of A is kept packed, and the loops give what *)
(* the recursive definitions in the comments above them say.               *)
(***************************************************************************)
EXTENDS ArrayVariable, Transformers

Transform ==
  \E f \in {"plus", "sum", "tally", "reverse", "first"} :
    \/ Computed(each(f, a), FALSE)
    \/ Computed(ireduce(f, a), FALSE)
    \/ Computed(iaccumulate(f, a), FALSE)
    \/ \E n \in 1 .. valence(a) - 1 : Computed(rank(f, n, a), FALSE)
    \/ \E x \in Atoms : Computed(ieachright(f, a, x), FALSE) \/ Computed(ieachleft(f, a, x), FALSE)
    \/ Computed(ileaf(f, a), FALSE) \/ Computed(itwig(f, a), FALSE) \/ Computed(ieachall(f, a), FALSE)
    \/ Computed(iconverse(f, a), FALSE) \/ Computed(iiterate(f, a), FALSE)
    \/ Computed(ifold(f, createint(2), a), FALSE)
    \/ Computed(iteam(<<f, "tally">>, a), FALSE) \/ Computed(ifork(<<"empty", f, "atomic", f, "rest">>, a), FALSE)
AssembleParts ==
  \/ \E x \in Atoms : Untested(iouter("plus", pair(a, x)))
  \/ valence(a) > 0 /\ Untested(rank("first", valence(a), a))

NextT == Assign \/ Transform \/ AssembleParts
SpecT == Init /\ [][NextT]_vars
-----------------------------------------------------------------------------
(* The loops that run the transformers RECUR, ACROSS, DOWN, REDUCE,        *)
(* ACCUMULATE, RANK and BYKEY give what the definitions in the comments    *)
(* above them say, and what a transformer gives is packed where it can be. *)
DefRecur(test, endf, parta, joinf, partb, x) ==
  LET RECURSIVE R(_)
      R(b) == IF do_apply(test, b) = True_val THEN do_apply(endf, b)
              ELSE Join(joinf, do_apply(parta, b), R(do_apply(partb, b)))
  IN R(x)
DefAcross(endf, parta, joinf, x) ==
  LET RECURSIVE R(_)
      R(b) == IF tally(b) = 0 THEN do_apply(endf, b)
              ELSE Join(joinf, do_apply(parta, ifirst(b)), R(irest(b)))
  IN R(ilist(x))
DefDown(ops, x) ==
  LET RECURSIVE R(_)
      R(b) == IF do_apply(ops.test, b) = True_val THEN do_apply(ops.endf, b)
              ELSE do_apply(ops.joinf, int_each(LAMBDA it : R(it), do_apply(ops.structf, b)))
  IN R(x)
DefReduce(f, x) ==
  LET RECURSIVE R(_)
      R(b) == IF tally(b) = 1 THEN ifirst(b) ELSE do_apply(f, pair(ifirst(b), R(irest(b))))
  IN IF tally(x) = 0 THEN makefault("?identity") ELSE R(ilist(x))
Heads(x) == [n \in 1 .. tally(x) |-> b_take(createint(n), ilist(x))]
Downs == [test : {"atomic"}, structf : {"same", "reverse"}, endf : {"opposite"}, joinf : {"reverse", "link"}]
LoopsFollowRecursion ==
  gap = "none" =>
    /\ Canonical(a)
    /\ \A parta \in {"first", "tally"}, joinf \in {"minus", "hitch"} :
         irecur("empty", "tally", parta, joinf, "rest", a) = DefRecur("empty", "tally", parta, joinf, "rest", a)
    /\ \A parta \in {"same", "opposite"}, joinf \in {"minus", "hitch"} :
         iacross("tally", parta, joinf, a) = DefAcross("tally", parta, joinf, a)
    /\ tally(a) > 0 => \A ops \in Downs : idown(ops, a) = DefDown(ops, a)
    /\ \A f \in {"minus", "hitch", "lte", "max"} :
         /\ ireduce(f, a) = DefReduce(f, a)
         /\ tally(a) > 1 => iaccumulate(f, a) =
              b_reshape(ishape(a), mklist([n \in 1 .. tally(a) |-> DefReduce(f, Heads(a)[n])]))
    /\ ~atomic(a) /\ tally(a) > 0 => \A f \in {"sum", "reverse", "tally"}, n \in 1 .. valence(a) - 1 :
         LET z == rank(f, n, a)
         IN z = makefault("?rank") \/ tally(z) = 0 \/ z = imix(each(f, nial_raise(a, valence(a) - n)))
    /\ valence(a) = 1 /\ tally(a) > 0 => \A f \in {"reverse", "sum"} :
         ibykey(f, a, ireverse(a)) = each(f, int_each(LAMBDA key : choose(ireverse(a), findall(key, a, FALSE)), cull(a)))
=============================================================================
