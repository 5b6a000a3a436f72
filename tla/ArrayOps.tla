------------------------------ MODULE ArrayOps ------------------------------
(***************************************************************************)
(* The operations on the structure of arrays (atops.c), each a function of *)
(* its arguments, with every test for packed items (homotest) where the    *)
(* code has it, and none where it has none.  The texts of the faults are   *)
(* shortened.                                                              *)
(***************************************************************************)
EXTENDS Arrays

(* A kind is kept where it packs atoms, and the new items are of it.       *)
KindOf(k, same) == IF same /\ homotype(k) THEN k ELSE atype

isingle(x) == IF atomic(x) THEN x ELSE new_create_array(atype, <<>>, <<x>>)
nial_solitary(x) == NewList(KindOf(x.k, atomic(x)), <<x>>)
ilist(x) ==
  CASE valence(x) = 1 -> x
    [] atomic(x)      -> nial_solitary(x)
    [] OTHER          -> NewList(x.k, items(x))
ishape(x) == IF valence(x) = 0 THEN Null ELSE Ints(shape(x))
ifirst(x) == IF tally(x) > 0 THEN fetchasarray(x, 0) ELSE makefault("?address")
(* Mutant: the rest of a list is not looked at again.                      *)
RestAsIs(x) == IF tally(x) <= 1 THEN Null ELSE NewList(x.k, Tail(items(x)))
irest(x)  == IF tally(x) <= 1 THEN Null ELSE Imploded(NewList(x.k, Tail(items(x))))
pair(x, y) == NewList(KindOf(x.k, x.k = y.k /\ atomic(x) /\ atomic(y)), <<x, y>>)

(* An item is added: the kind is kept if it holds the new item too.        *)
Fits(it, x) == (x.k = it.k /\ valence(it) = 0) \/ x.k = atype
append(x, y) ==
  CASE tally(x) = 0 -> nial_solitary(y)
    [] atomic(x)    -> pair(x, y)
    [] OTHER        -> NewList(KindOf(x.k, Fits(y, x)), Append(items(x), y))
hitch(x, y) ==
  CASE tally(y) = 0 -> nial_solitary(x)
    [] atomic(y)    -> pair(x, y)
    [] OTHER        -> NewList(KindOf(y.k, Fits(x, y)), <<x>> \o items(y))

validshape(x) == x = Null \/ (x.k = inttype /\ \A i \in 1 .. tally(x) : items(x)[i].v >= 0)
reshape(x, y) ==
  IF tally(x) = 0
  THEN IF tally(y) = 0 THEN makefault("?fill") ELSE isingle(ifirst(y))
  ELSE LET cnt == prodints(Values(x))
           src == IF tally(y) = 0 THEN makefault("?fill") ELSE y
       IN Imploded(new_create_array(IF cnt = 0 \/ src.k > 6 THEN atype ELSE src.k, Values(x),
                                    [i \in 1 .. cnt |-> fetchasarray(src, (i - 1) % tally(src))]))
b_reshape(x, y) == IF validshape(x) THEN reshape(x, y) ELSE makefault("?shape")
ipair(x) == IF tally(x) = 2 /\ valence(x) = 1 THEN x ELSE reshape(createint(2), x)

(* EACH with a primitive: one application per item, in the shape of x.     *)
int_each(f(_), x) ==
  CASE tally(x) = 0   -> x
    [] valence(x) = 0 -> isingle(f(ifirst(x)))
    [] OTHER          -> Build(x.sh, [i \in 1 .. tally(x) |-> f(items(x)[i])])

ilink(x) ==
  IF x.k # atype THEN ilist(x)
  ELSE mklist(FlattenSeq([i \in 1 .. tally(x) |-> items(items(x)[i])]))

RECURSIVE icontent(_)
icontent(x) == IF simple(x) THEN ilist(x) ELSE ilink(int_each(LAMBDA it : icontent(it), x))

Ordinal(it) == IF it.k = inttype /\ intval(it) >= 0 THEN it ELSE createint(0)
gage(x) ==
  LET flat == icontent(x)
      c    == IF tally(flat) = 1 THEN isingle(ifirst(flat)) ELSE flat
  IN CASE x.k = inttype /\ tally(x) = 1 -> Ordinal(ifirst(x))
       [] x.k = inttype /\ tally(x) # 1 /\ (\A i \in 1 .. tally(x) : items(x)[i].v >= 0) -> ilist(x)
       [] OTHER -> new_create_array(inttype, shape(c), [i \in 1 .. tally(c) |-> Ordinal(items(c)[i])])

-----------------------------------------------------------------------------
(* Addresses, and the arrays of them.                                      *)
AddressOf(i, shp) ==
  [j \in 1 .. Len(shp) |-> (i \div prodints(SubSeq(shp, j + 1, Len(shp)))) % shp[j]]
IndexOf(adr, shp) == FoldLeft(LAMBDA a, j : a * shp[j] + adr[j], 0, [j \in 1 .. Len(shp) |-> j])
ToAddress(i, shp) == IF shp = <<>> THEN Null ELSE Ints(AddressOf(i, shp))

icart(x) ==
  LET arg == items(x)
      sc  == FlattenSeq([j \in 1 .. Len(arg) |-> shape(arg[j])])
      fs  == [j \in 1 .. Len(arg) |-> tally(arg[j])]
      Itm(i) == Build(x.sh, [j \in 1 .. Len(arg) |-> fetchasarray(arg[j], AddressOf(i, fs)[j])])
  IN CASE atomic(x) -> x
       [] ~atomic(x) /\ (tally(x) = 0 \/ homotype(x.k)) -> isingle(x)
       [] ~atomic(x) /\ tally(x) > 0 /\ valence(x) = 0  -> int_each(isingle, ifirst(x))
       [] OTHER -> new_create_array(atype, sc, [i \in 1 .. prodints(sc) |-> Itm(i - 1)])

generateints(n) == Ints([i \in 1 .. n |-> i - 1])
RECURSIVE itell(_)
itell(x) ==
  CASE ~validshape(x)               -> makefault("?shape")
    [] validshape(x) /\ atomic(x)   -> generateints(intval(x))
    [] OTHER -> icart(int_each(LAMBDA n : itell(n), x))
igrid(x) == LET s == ishape(x) IN itell(IF tally(s) = 1 THEN ifirst(s) ELSE s)

RECURSIVE itype(_)
itype(x) ==
  IF atomic(x) THEN Atom(x.k, 0) ELSE int_each(LAMBDA it : itype(it), x)

-----------------------------------------------------------------------------
(* take and drop: where each axis starts and how much of it is had.        *)
AbsOf(n) == IF n < 0 THEN -n ELSE n
(* Mutant: a negative length is taken from the front.                      *)
TakeFront(n, ext)  == 0
TakeStart(n, ext)  == IF n >= 0 THEN 0 ELSE ext + n
TakeLength(n, ext) == AbsOf(n)
DropStart(n, ext)  == IF n >= 0 THEN Min({n, ext}) ELSE 0
DropLength(n, ext) == IF ext >= AbsOf(n) THEN ext - AbsOf(n) ELSE 0
Portion(y, starts, lengths) ==
  LET fill == IF tally(y) > 0 THEN itype(ifirst(y)) ELSE makefault("?fill")
      At(i) == LET adr == [j \in DOMAIN starts |-> starts[j] + AddressOf(i, lengths)[j]]
               IN IF \A j \in DOMAIN adr : adr[j] \in 0 .. y.sh[j] - 1
                  THEN fetchasarray(y, IndexOf(adr, y.sh)) ELSE fill
  IN IF prodints(lengths) = 0 THEN reshape(Ints(lengths), y)
     ELSE Imploded(new_create_array(y.k, lengths, [i \in 1 .. prodints(lengths) |-> At(i - 1)]))
takedrop(x, y, start(_, _), length(_, _), onSingle) ==
  CASE x.k # inttype /\ tally(x) > 0 -> makefault("?take")
    [] (x.k = inttype \/ tally(x) = 0) /\ valence(y) = 0 -> onSingle
    [] (x.k = inttype \/ tally(x) = 0) /\ valence(y) # 0 /\ tally(x) # valence(y) -> makefault("?take")
    [] OTHER -> Portion(y, [j \in DOMAIN y.sh |-> start(Values(x)[j], y.sh[j])],
                           [j \in DOMAIN y.sh |-> length(Values(x)[j], y.sh[j])])
b_take(x, y) ==
  takedrop(x, y, TakeStart, TakeLength, reshape(int_each(LAMBDA n : createint(AbsOf(intval(n))), x), y))
b_drop(x, y) == takedrop(x, y, DropStart, DropLength, IF tally(x) = 0 THEN y ELSE Null)

(* cut, cutall and sublist: a list of truth values marks items of y.       *)
Marks(x, y) == IF tally(x) # tally(y) THEN reshape(createint(tally(y)), x) ELSE x
Marked(x, y) == {i \in 0 .. tally(y) - 1 : boolval(fetchasarray(Marks(x, y), i))}
BadMarks(x, y) == (x.k # booltype /\ tally(x) # 0) \/ (tally(x) = 0 /\ tally(y) # 0)
cutorcutall(x, y, skip) ==
  LET at     == SetToSortSeq(Marked(x, y), <)
      starts == <<0>> \o [i \in DOMAIN at |-> at[i] + skip]
      ends   == at \o <<tally(y)>>
      itm(i) == NewList(IF y.k > 6 THEN atype ELSE y.k, SubSeq(items(y), starts[i] + 1, ends[i]))
  IN IF BadMarks(x, y) THEN makefault("?L")
     ELSE NewList(atype, SelectSeq([i \in DOMAIN ends |-> itm(i)], LAMBDA u : tally(u) > 0))
b_cut(x, y)    == cutorcutall(x, y, 1)
b_cutall(x, y) == cutorcutall(x, y, 0)
sublist(x, y) ==
  LET at == SetToSortSeq(Marked(x, y), <)
  IN CASE BadMarks(x, y) -> makefault("?L")
       [] ~BadMarks(x, y) /\ at = <<>> -> Null
       [] OTHER -> Imploded(NewList(IF y.k > 6 THEN atype ELSE y.k,
                                    [i \in DOMAIN at |-> fetchasarray(y, at[i])]))

-----------------------------------------------------------------------------
(* pack interchanges the two upper levels, items of one item replicated.   *)
PackShape(its) ==
  LET many   == SelectSeq(its, LAMBDA it : tally(it) # 1)
      deepest == Max({valence(its[i]) : i \in DOMAIN its})
  IN IF many # <<>> THEN shape(many[1])
     ELSE shape(its[Min({i \in DOMAIN its : valence(its[i]) = deepest})])
pack(x) ==
  LET its == items(x)
      shp == IF \A i \in DOMAIN its : equalshape(its[1], its[i]) THEN shape(its[1]) ELSE PackShape(its)
      From(it, i) == IF tally(it) = 1 THEN ifirst(it) ELSE fetchasarray(it, i)
      nit(i) == IF valence(x) = 0 /\ atomic(From(its[1], i)) THEN From(its[1], i)
                ELSE Build(x.sh, [j \in DOMAIN its |-> From(its[j], i)])
  IN IF \E i \in DOMAIN its : tally(its[i]) # 1 /\ shape(its[i]) # shp THEN makefault("?conform")
     ELSE Imploded([k |-> atype, sh |-> shp, it |-> [i \in 1 .. prodints(shp) |-> nit(i - 1)]])
ipack(x) ==
  CASE atomic(x)               -> x
    [] ~atomic(x) /\ simple(x) -> isingle(x)
    [] OTHER                   -> pack(x)

nial_raise(x, n) ==
  LET outer == SubSeq(shape(x), 1, n)
      inner == SubSeq(shape(x), n + 1, valence(x))
      cnt   == prodints(inner)
  IN CASE atomic(x) \/ (n = valence(x) /\ homotype(x.k)) -> x
       [] ~atomic(x) /\ n = valence(x) /\ ~homotype(x.k) -> int_each(isingle, x)
       [] OTHER -> new_create_array(atype, outer,
                     [i \in 1 .. prodints(outer) |->
                        Imploded(new_create_array(x.k, inner, SubSeq(items(x), (i - 1) * cnt + 1, i * cnt)))])
b_raise(x, y) ==
  IF x.k = inttype /\ intval(ifirst(x)) \in 0 .. valence(y) THEN nial_raise(y, intval(ifirst(x)))
  ELSE makefault("?raise")

(* The axes of b that each axis of the result runs along.                  *)
Groups(a) == [i \in 1 .. tally(a) |-> Values(items(a)[i])]
Strides(shp) == [j \in DOMAIN shp |-> prodints(SubSeq(shp, j + 1, Len(shp)))]
FuseAxes(g, b) ==
  LET ns == [i \in DOMAIN g |-> Min({b.sh[ax + 1] : ax \in ToSet(g[i])})]
      newstrides == [i \in DOMAIN g |-> sumints([j \in DOMAIN g[i] |-> Strides(b.sh)[g[i][j] + 1]])]
      index(i) == sumints([j \in DOMAIN g |-> newstrides[j] * AddressOf(i, ns)[j]])
  IN new_create_array(b.k, ns, [i \in 1 .. prodints(ns) |-> fetchasarray(b, index(i - 1))])
EachAxisOnce(all, v) == Len(all) = v /\ ToSet(all) = 0 .. v - 1
fuse(a, b) ==
  LET v == valence(b)
      Coded == a.k \in {inttype, atype} /\ \A i \in 1 .. tally(a) : items(a)[i].k = inttype
      ok == CASE v = 0   -> tally(a) = 0   \* [Null] is refused: the test takes the tally of a truth value
              [] v = 1   -> a.k = inttype /\ Values(a) = <<0>>
              [] OTHER   -> Coded /\ EachAxisOnce(FlattenSeq(Groups(a)), v)
  IN CASE ~ok          -> makefault("?fuse")
       [] ok /\ v <= 1 -> b
       [] OTHER        -> FuseAxes(Groups(a), b)

itranspose(x) ==
  LET vx == valence(x)
      r  == x.sh[1]
      c  == x.sh[2]
      i(p) == p % r
      j(p) == p \div r
  IN CASE vx <= 1 -> x
       [] vx = 2  -> new_create_array(x.k, <<c, r>>, [p \in 1 .. tally(x) |->
                                                       fetchasarray(x, i(p - 1) * c + j(p - 1))])
       [] OTHER   -> fuse(Ints([n \in 1 .. vx |-> vx - n]), x)
ireverse(x) ==
  IF valence(x) = 0 \/ tally(x) = 0 THEN x ELSE new_create_array(x.k, x.sh, Reverse(items(x)))

imix(x) ==
  CASE tally(x) = 0 -> b_reshape(append(ishape(x), createint(0)), Null)
    [] tally(x) > 0 /\ ~AllEqual([i \in 1 .. tally(x) |-> ishape(items(x)[i])]) -> makefault("?conform")
    [] OTHER -> b_reshape(ilink(pair(ishape(x), ishape(ifirst(x)))), ilink(x))
=============================================================================
