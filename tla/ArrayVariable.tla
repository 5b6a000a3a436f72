---------------------------- MODULE ArrayVariable ----------------------------
(***************************************************************************)
(* A program at work on a variable A: it computes arrays from A, sorts and *)
(* searches A, and inserts in A.  The array of A carries the flag that it  *)
(* is sorted, which operations set, trust and clear, and may have another  *)
(* holder, so that an insertion works on a copy.                           *)
(***************************************************************************)
EXTENDS SortSearch, FiniteSets

CONSTANTS Pool,      (* Arrays that the program writes down.               *)
          Atoms,     (* Items and targets of searches, a part of Pool.     *)
          Leaves,    (* Atoms that the arrays of A are made of.            *)
          MaxTally   (* Bound on the items of A.                           *)

VARIABLES a,       (* The array of A.                                      *)
          sorted,  (* Its flag.                                            *)
          shared,  (* Whether something else holds the same array.         *)
          gap      (* What the program has done since the last assignment  *)
                   (* that the code does not keep its representation for.  *)
vars == <<a, sorted, shared, gap>>

(* Bounds: few items of few kinds, and at most one level of nesting.       *)
Nested(x) == {i \in 1 .. tally(x) : ~atomic(items(x)[i])}
Small(x) ==
  /\ valence(x) <= 2
  /\ tally(x) <= IF simple(x) THEN MaxTally ELSE 2
  /\ Cardinality(Nested(x)) <= 1
  /\ \A it \in ToSet(items(x)) :
       simple(it) /\ tally(it) \in 1 .. 2 /\ valence(it) <= 1 /\ ToSet(items(it)) \subseteq Leaves

Becomes(x, flag) == a' = x /\ sorted' = flag /\ shared' = FALSE /\ gap' = "none"
Computed(x, flag) == gap = "none" /\ Small(x) /\ Becomes(x, flag)

Init == a \in Pool /\ sorted = FALSE /\ shared = FALSE /\ gap = "none"

Assign == \E x \in Pool : Becomes(x, FALSE)
Share  == gap = "none" /\ shared' = TRUE /\ UNCHANGED <<a, sorted, gap>>
Forget == shared /\ shared' = FALSE /\ UNCHANGED <<a, sorted, gap>>

(* A is the argument of cull, diverse or except, which test the order.     *)
Flagged == sorted \/ (tally(a) >= 2 /\ check_sorted(a))
Examine == gap = "none" /\ sorted' = Flagged /\ UNCHANGED <<a, shared, gap>>

(* Results that are new arrays, without the flag.                          *)
Rearrange ==
  \/ Computed(ireverse(a), FALSE)
  \/ Computed(itranspose(a), FALSE)
  \/ Computed(imix(a), FALSE)
  \/ Computed(isingle(a), FALSE)
  \/ Computed(ipack(a), FALSE)
  \/ Computed(ilink(a), FALSE)
  \/ Computed(itype(a), FALSE)
  \/ Computed(ishape(a), FALSE)
  \/ Computed(ipair(a), FALSE) \/ Computed(isecond(a), FALSE) \/ Computed(ithird(a), FALSE)
  \/ \E n \in 0 .. valence(a) + 1 : Computed(b_raise(createint(n), a), FALSE)
  \/ \E x \in Atoms : Computed(append(a, x), FALSE) \/ Computed(hitch(x, a), FALSE)
  \/ \E x \in Pool : Computed(b_reshape(x, a), FALSE)
  \/ \E x \in Pool : Computed(b_take(x, a), FALSE) \/ Computed(b_drop(x, a), FALSE)
  \/ \E x \in Pool : Computed(b_choose(x, a), FALSE) \/ Computed(SelectAll(a, x), FALSE)
  \/ Computed(igrid(a), FALSE)

(* Results that are flagged: sorted, or a part of what is.  The argument   *)
(* itself may be the result, flagged when it is found in order.            *)
SortIt ==
  \E f \in {"up", "lte", "gte", "plus"} :
    Computed(sort(f, a, FALSE), ~atomic(a) /\ ByUp(f, a))
Filter ==
  \/ Computed(irest(a), sorted)
  \/ Computed(ilist(a), sorted)
  \/ Computed(nial_solitary(a), sorted)
  \/ Computed(icull(a, sorted), Flagged)
  \/ \E x \in Pool : Computed(sublist(x, a), sorted)
  \/ \E x \in Pool :
       Computed(b_except(a, x, sorted, FALSE), Trusted(a, sorted) /\ (tally(x) > 0 \/ Flagged))

(* abs of a list with the least integer never ends.                        *)
AbsEnds == \A x \in {a} \cup ToSet(items(a)) : x.k = inttype /\ ~atomic(x) => SMALLINT \notin ToSet(Values(x))
Compute ==
  \/ \E x \in Atoms :
       \/ Computed(nial_plus(a, x), FALSE) \/ Computed(nial_minus(a, x), FALSE) \/ Computed(nial_times(a, x), FALSE)
       \/ Computed(b_quotient(a, x), FALSE) \/ Computed(b_mod(a, x), FALSE)
       \/ Computed(b_max(a, x), FALSE) \/ Computed(b_min(a, x), FALSE)
       \/ Computed(b_lte(a, x), FALSE) \/ Computed(b_lt(a, x), FALSE)
       \/ Computed(b_mate(a, x), FALSE) \/ Computed(b_match(a, x), FALSE) \/ Computed(b_or(a, x), FALSE)
  \/ Computed(isum(a), FALSE) \/ Computed(iproduct(a), FALSE) \/ Computed(imax(a), FALSE)
  \/ Computed(iopposite(a), FALSE) \/ Computed(inot(a), FALSE)
  \/ AbsEnds /\ Computed(iabs(a), FALSE)
(* Results that are not tested for items that could be packed.             *)
Untested(x) == gap = "none" /\ Small(x) /\ a' = x /\ sorted' = FALSE /\ shared' = FALSE /\ gap' = "untested"
Assemble ==
  \/ \E x \in Pool : Untested(b_cut(x, a)) \/ Untested(b_cutall(x, a))
  \/ valence(a) = 2 /\ Untested(fuse(mklist(<<Ints(<<0, 1>>)>>), a))

-----------------------------------------------------------------------------
(* Insertions in place, or in a copy.  An insertion clears the flag; one   *)
(* refused leaves the flag that the items before it cleared.               *)
(* Mutant: an insertion leaves the flag alone.                             *)
UpdatedOnly(x, touched) == Small(x) /\ a' = x /\ sorted' = sorted /\ shared' = (shared /\ x = a)
Updated(x, touched) ==
  /\ Small(x)
  /\ a' = x /\ sorted' = (sorted /\ ~touched) /\ shared' = (shared /\ x = a)
Inner     == {Null, Ints(<<0>>), Ints(<<1>>)}
Addresses == Inner \cup {Ints(s) : s \in {<<2>>, <<3>>} \cup [1 .. 2 -> 0 .. 2]}
InsertItem ==
  \E adr \in Addresses, x \in Atoms :
    /\ gap = "none"
    /\ Updated(splace(a, shared, adr, x), place(Target(a, shared), adr, x).ok)
    /\ UNCHANGED gap
InsertDeep ==
  \E adr \in Inner, adr2 \in Inner, x \in Atoms :
    LET path == mklist(<<adr, adr2>>)
    IN /\ gap = "none"
       /\ deepplace(a, path, x) # Invalid
       /\ Updated(sdeepplace(a, path, x), TRUE)
       /\ UNCHANGED gap
(* A refusal after some items are in: the block of A keeps them, and is    *)
(* not what the last of them would have made of it.                        *)
InsertItems ==
  \E i, j \in {0, 2}, x, y \in Atoms :
    LET t == placeall(Target(a, shared), mklist(<<Ints(<<i>>), Ints(<<j>>)>>), mklist(<<x, y>>))
    IN /\ gap = "none" /\ valence(a) = 1
       /\ Updated(Outcome(t), t.ok \/ t.touched)
       /\ gap' = IF ~t.ok /\ a.k = atype /\ ~shared THEN "refused" ELSE "none"

(* A row or column read or stored as it stands is not looked at again.     *)
Lines == {mklist(<<Nullexpr, createint(0)>>), mklist(<<createint(0), Nullexpr>>)}
ReadLine ==
  \E adr \in Lines :
    /\ gap = "none" /\ valence(a) = 2
    /\ Small(SelectSlice(a, adr))
    /\ a' = SelectSlice(a, adr) /\ sorted' = FALSE /\ shared' = FALSE
    /\ gap' = IF a.k = atype THEN "line" ELSE "none"
StoreLine ==
  \E adr \in Lines, x \in Pool :
    /\ gap = "none" /\ valence(a) = 2 /\ TableSlice(a, adr) /\ LongEnough(a, adr, x)
    /\ Updated(insertSlice(a, shared, adr, x), ~LineFits(a, adr, x) \/ shared)
    /\ gap' = IF LineFits(a, adr, x) THEN "line" ELSE "none"

Next ==
  \/ Assign \/ Share \/ Forget \/ Examine \/ Rearrange \/ SortIt \/ Filter \/ Compute \/ Assemble
  \/ InsertItem \/ InsertDeep \/ InsertItems \/ ReadLine \/ StoreLine

Spec == Init /\ [][Next]_vars
-----------------------------------------------------------------------------
(* Arrays are kept packed: what the items could be packed in, they are, at *)
(* every level, whatever mix of computing and inserting made the array; so *)
(* that "equal", which compares kinds, says of two arrays with the same    *)
(* items and shape that they are equal.  Not after a row or column read or *)
(* stored, not after an insertion of several items refused half way, and   *)
(* not in what cut, cutall and fuse with grouped axes make.                *)
RepresentationKept == gap = "none" => Canonical(a)

(* An array flagged as sorted is in the order of "up": the operations that *)
(* set the flag without a look at the items may, and no insertion leaves   *)
(* it on an array it has put out of order, but that of a row or column.    *)
FlagTruthful == sorted /\ gap = "none" => InOrder(a)

(* What the searches find with the help of the flag is what a look at      *)
(* every item finds: find and findall by binary search, cull, diverse and  *)
(* except by sorting or by a walk along two sorted arrays.                 *)
Found(x) == SelectSeq([i \in 1 .. tally(a) |-> i], LAMBDA i : items(a)[i] = x)
Firsts == SelectSeq([i \in 1 .. tally(a) |-> i], LAMBDA i : items(a)[i] \notin {items(a)[j] : j \in 1 .. i - 1})
Remaining(y) == SelectSeq(items(a), LAMBDA it : it \notin ToSet(items(y)))
FindsAt(x, adr) ==
  /\ findall(x, a, sorted) = mklist(adr)
  /\ nseek(x, a, sorted) = IF adr = <<>> THEN nseek(x, a, FALSE) ELSE mklist(<<True_val, adr[1]>>)
FirstsAre(f) ==
  /\ icull(a, sorted) = mklist([n \in DOMAIN f |-> items(a)[f[n]]])
  /\ idiverse(a, sorted) = createbool(Len(f) = tally(a))
SearchesAgree ==
  gap = "none" =>
    /\ ~atomic(a) => \A x \in Atoms :
         /\ FindsAt(x, [n \in DOMAIN Found(x) |-> Position(Found(x)[n] - 1, a)])
         /\ items(nseek(x, a, FALSE))[1] = createbool(Found(x) # <<>>)
    /\ FirstsAre(Firsts)
    /\ \A y \in Pool : b_except(a, y, sorted, FALSE) = mklist(Remaining(y))

(* "up" is a total order of all arrays, and SORT and GRADE, by "up" or by  *)
(* >= on numbers, give the one order of the items that keeps equal items   *)
(* as they were.                                                           *)
OrderIsTotal ==
  \A x \in Pool :
    /\ up(a, x) \/ up(x, a)
    /\ up(a, x) => (up(x, a) => a = x) /\ \A y \in Pool : up(x, y) => up(a, y)
    /\ up(x, a) => \A y \in Pool : up(a, y) => up(x, y)
Precedes(f, x, i, j) ==
  LET le == Comparison(f, items(x)[i + 1], items(x)[j + 1])
      ge == Comparison(f, items(x)[j + 1], items(x)[i + 1])
  IN le = True_val /\ (ge = True_val => i < j)
StableBy(f, x, ord, p) ==
  /\ ToSet(p) = 0 .. tally(x) - 1
  /\ \A i \in 1 .. tally(x) - 1 : Precedes(f, x, p[i], p[i + 1])
  /\ sort(f, x, FALSE) = choose(x, ord)
StableIn(f, x, ord) == StableBy(f, x, ord, [i \in 1 .. tally(x) |-> PlaceOf(x, items(ord)[i])])
SortIsStable(f, x) == StableIn(f, x, sort(f, x, TRUE))
(* Longer lists, with several runs to merge.                               *)
Longer == {ilink(mklist(<<a, x, ireverse(a)>>)) : x \in {y \in Pool : y.k = inttype}}
ToSort ==
  IF valence(a) = 0 THEN {}
  ELSE {a} \cup (IF valence(a) = 1 /\ a.k = inttype /\ tally(a) = MaxTally THEN Longer ELSE {})
SortIsRight ==
  gap = "none" =>
    /\ OrderIsTotal
    /\ \A x \in ToSort, f \in {"up", "gte", "lte"} : (f = "up" \/ x.k = inttype) => SortIsStable(f, x)

(* The operations that take an array apart and those that build one agree: *)
(* what one makes, the other undoes, with the items packed as they were.   *)
Rejoins(n) ==
  LET head == b_take(createint(n), a)
      tail == b_drop(createint(n), a)
  IN ilink(IF n >= 0 THEN pair(head, tail) ELSE pair(tail, head)) = a
Reversed(n) == mklist([j \in 1 .. n |-> createint(n - j)])
Reaches(adr, adr2, x) ==
  LET path == mklist(<<adr, adr2>>)
      z    == deepplace(a, path, x)
  IN z # Invalid => /\ reach(a, path) # Invalid
                    /\ b_reach(path, z) = x
                    /\ \A p \in Inner : p # adr => pick(z, p) = pick(a, p)
SelectionLaws ==
  gap = "none" =>
    /\ tally(a) > 0 => ilist(a) = hitch(ifirst(a), irest(a))
    /\ \A x \in Atoms : irest(hitch(x, a)) = IF tally(a) = 0 THEN Null ELSE ilist(a)
    /\ valence(a) = 1 => \A n \in -tally(a) .. tally(a) : Rejoins(n)
    /\ valence(a) > 0 /\ tally(a) > 0 =>
         /\ choose(a, igrid(a)) = a
         /\ \A n \in 0 .. valence(a) : imix(nial_raise(a, n)) = a
         /\ \A x \in Pool : x.k = booltype =>
              /\ ilink(b_cutall(x, a)) = ilist(a)
              /\ ilink(b_cut(x, a)) = sublist(inot(Marks(x, a)), a)
    /\ itranspose(itranspose(a)) = a
    /\ valence(a) > 1 => itranspose(a) = fuse(Reversed(valence(a)), a)
    /\ \A adr, adr2 \in Inner, x \in Atoms : Reaches(adr, adr2, x)

(* Sums and differences are exact or, where the tests are kept, said to    *)
(* have overflowed; quotients and remainders by what is positive are       *)
(* exact.  Of products only those are claimed that are integers of the     *)
(* machine and have nothing to do with the least one: safeintmult takes    *)
(* some that wrap for right (0 for 4294967296 * 4294967296).  A vector     *)
(* gives item by item what its items give, whichever path is taken for it; *)
(* a list adds up, and multiplies, to what PLUS and TIMES give from item   *)
(* to item.                                                                *)
Ends == SMALLINT .. LARGEINT
Exact(z, n)    == n \in Ends => z = createint(n)
Reported(z, n) == n \notin Ends => z = Fails
Numbers == {it \in ToSet(items(a)) : atomic(it) /\ numeric(it.k)}
NumbersRight ==
  gap = "none" =>
    /\ \A m \in Numbers, n \in Ends :
         /\ Exact(nial_plus(m, createint(n)), m.v + n)
         /\ Exact(nial_minus(m, createint(n)), m.v - n)
         /\ TestsKept => /\ Reported(nial_plus(m, createint(n)), m.v + n)
                         /\ Reported(nial_minus(m, createint(n)), m.v - n)
         /\ SMALLINT \notin {m.v, n, m.v * n} => Exact(nial_times(m, createint(n)), m.v * n)
         /\ n > 0 => n * b_quotient(m, createint(n)).v + b_mod(m, createint(n)).v = m.v
    /\ \A x \in Pool : ~Both(a, x) =>
         /\ nial_plus(a, x) = int_eachboth(nial_plus, a, x)
         /\ nial_minus(a, x) = int_eachboth(nial_minus, a, x)
         /\ nial_times(a, x) = int_eachboth(nial_times, a, x)
         /\ b_quotient(a, x) = int_eachboth(b_quotient, a, x)
         /\ b_mod(x, a) = int_eachboth(b_mod, x, a)
         /\ b_max(a, x) = int_eachboth(b_max, a, x)
         /\ b_lte(a, x) = int_eachboth(b_lte, a, x)
         /\ b_match(a, x) = int_eachboth(b_match, a, x)
    /\ Numbers = ToSet(items(a)) =>
         /\ isum(a) = FoldLeft(nial_plus, createint(0), items(a))
         /\ iproduct(a) = FoldLeft(nial_times, createint(1), items(a))
=============================================================================
