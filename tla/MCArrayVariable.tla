--------------------------- MODULE MCArrayVariable ---------------------------
(* Arrays for the program to write down.                                   *)
EXTENDS ArrayVariable

I(n) == createint(n)
Items    == {I(0), I(1), I(2), True_val, Phrase(1)}
AllItems == {I(0), I(2), True_val, False_val, Phrase(1)}
Arrays1  == Items \cup {Null, Nadir, Ints(<<2, 0>>), Ints(<<0>>), Ints(<<-1>>), Ints(<<1, 2>>), Ints(<<2, 0, 2>>),
                        mklist(<<I(2), Phrase(1)>>), mklist(<<False_val, True_val>>),
                        Build(<<2, 1>>, <<I(2), Phrase(1)>>), mklist(<<Ints(<<0, 2>>), I(2)>>)}
=============================================================================
