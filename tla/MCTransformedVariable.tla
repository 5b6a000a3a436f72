------------------------ MODULE MCTransformedVariable ------------------------
(* Basic operations for the program to apply, and arrays to write down.    *)
EXTENDS TransformedVariable

First2(op(_, _), x) ==
  IF tally(x) = 2 THEN op(items(x)[1], items(x)[2]) ELSE makefault("?pair")
Primitive(f, x) ==
  CASE f = "plus"  -> First2(nial_plus, x)
    [] f = "minus" -> First2(nial_minus, x)
    [] f = "max"   -> First2(b_max, x)
    [] f = "lte"   -> First2(b_lte, x)
    [] f = "sum"   -> isum(x)
    [] f = "opposite" -> iopposite(x)
    [] f = "imax"  -> imax(x)
    [] f = "tally" -> createint(tally(x))
    [] f = "reverse" -> ireverse(x)
    [] f = "first" -> ifirst(x)
    [] f = "rest"  -> irest(x)
    [] f = "list"  -> ilist(x)
    [] f = "link"  -> ilink(x)
    [] f = "atomic" -> createbool(atomic(x))
    [] f = "empty" -> createbool(tally(x) = 0)
    [] f = "hitch" -> First2(hitch, x)
    [] f = "same"  -> x
BasicReductives == {"sum", "product", "imax"}
I(n) == createint(n)
Items    == {I(0), I(1), I(2), True_val, Phrase(1)}
AllItems == {I(0), I(2), True_val, False_val, Phrase(1)}
Arrays1  == Items \cup {Null, Nadir, Ints(<<2, 0>>), Ints(<<0>>), Ints(<<-1>>), Ints(<<1, 2>>), Ints(<<2, 0, 2>>),
                        mklist(<<I(2), Phrase(1)>>), mklist(<<False_val, True_val>>),
                        Build(<<2, 1>>, <<I(2), Phrase(1)>>), mklist(<<Ints(<<0, 2>>), I(2)>>)}
=============================================================================
