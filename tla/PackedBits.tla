----------------------------- MODULE PackedBits -----------------------------
(***************************************************************************)
(* Boolean arrays as absmach.c stores them, boolsPW items to a word with   *)
(* the first item in the highest bit, and the primitives that work on      *)
(* whole words: copy, or, and, xor, not, equal, the running parity and the *)
(* bit operations.  The bits after the last item are not always zero.      *)
(***************************************************************************)
EXTENDS Integers, Sequences, SequencesExt

CONSTANTS boolsPW, (* Bits in a word (64, or 32).                          *)
          ByteSize,(* Bits in a byte (8).                                  *)
          MaxBits  (* Bound: items of an array.                            *)

ASSUME WordAssumption ==
  /\ boolsPW \in Nat \ {0} /\ ByteSize \in Nat \ {0} /\ MaxBits \in Nat
  /\ boolsPW % ByteSize = 0 /\ \E n \in 0 .. boolsPW : boolsPW = 2 ^ n

VARIABLES x, (* The operand on the left, which the result replaces.        *)
          y, (* The operand on the right.                                  *)
          op (* The operation that gave x or y.                            *)

vars == <<x, y, op>>

-----------------------------------------------------------------------------
(* Words, the highest bit first.                                           *)
Bits       == 1 .. boolsPW
AllBitsOn  == [p \in Bits |-> TRUE]
Zeros      == [p \in Bits |-> FALSE]
masks(n)   == [p \in Bits |-> p > boolsPW - n]
OrW(a, b)  == [p \in Bits |-> a[p] \/ b[p]]
AndW(a, b) == [p \in Bits |-> a[p] /\ b[p]]
XorW(a, b) == [p \in Bits |-> a[p] # b[p]]
NotW(a)    == [p \in Bits |-> ~a[p]]
(* A shift to the right keeps the sign.                                    *)
Shr(a, n)  == [p \in Bits |-> IF p > n THEN a[p - n] ELSE a[1]]
Shl(a, n)  == [p \in Bits |-> p + n <= boolsPW /\ a[p + n]]

(* Arrays: a new one has its words set to zero.                            *)
Excess(n)   == n % boolsPW
NumWords(n) == n \div boolsPW + (IF Excess(n) = 0 THEN 0 ELSE 1)
new_create_array(atom, n) == [atom |-> atom, tally |-> n,
                              w |-> [k \in 1 .. NumWords(n) |-> Zeros]]
Shaped(u, words) == [u EXCEPT !.w = words]

fetch_bool(u, i)    == u.w[i \div boolsPW + 1][(i % boolsPW) + 1]
store_bool(u, i, b) == [u EXCEPT !.w[i \div boolsPW + 1][(i % boolsPW) + 1] = b]
createbool(b)       == store_bool(new_create_array(TRUE, 1), 0, b)
boolval(u)          == fetch_bool(u, 0)

(* A mutant: the bits after the last item are not masked.                  *)
KeptAll(n) == AllBitsOn

(* The bits of the last word that belong to items.                         *)
Kept(n) == IF Excess(n) = 0 THEN AllBitsOn ELSE NotW(masks(boolsPW - Excess(n)))
(* Word by word, with the last one cut off after the last item.            *)
ByWord(f(_), u) ==
  Shaped(u, [k \in DOMAIN u.w |-> IF k < Len(u.w) THEN f(k) ELSE AndW(f(k), Kept(u.tally))])

-----------------------------------------------------------------------------
(* copy: cnt items of u from su on, to z from sz on.                       *)
RECURSIVE CopyPieces(_, _, _, _, _)
CopyPieces(z, sz, u, su, cnt) ==
  IF cnt = 0 THEN z
  ELSE LET ox == Excess(su)  oz == Excess(sz)
           bc == Min({cnt, boolsPW - ox, boolsPW - oz})
           cp == AndW(Shr(u.w[su \div boolsPW + 1], boolsPW - (ox + bc)), masks(bc))
           rz == boolsPW - (oz + bc)
           k  == sz \div boolsPW + 1
       IN CopyPieces([z EXCEPT !.w[k] = OrW(AndW(@, NotW(Shl(masks(bc), rz))), Shl(cp, rz))],
                     sz + bc, u, su + bc, cnt - bc)

CopyWords(z, sz, u, su, n) ==
  Shaped(z, [k \in DOMAIN z.w |->
               LET d == k - 1 - sz \div boolsPW
               IN IF d \in 0 .. n - 1 THEN u.w[su \div boolsPW + d + 1] ELSE z.w[k]])

copy(z, sz, u, su, cnt) ==
  IF Excess(sz) = 0 /\ Excess(su) = 0
  THEN LET wds == cnt \div boolsPW
       IN FoldLeft(LAMBDA a, i : store_bool(a, sz + i, fetch_bool(u, su + i)),
                   CopyWords(z, sz, u, su, wds),
                   [j \in 1 .. Excess(cnt) |-> wds * boolsPW + j - 1])
  ELSE CopyPieces(z, sz, u, su, cnt)

-----------------------------------------------------------------------------
initbool(u, b) ==
  LET wds == u.tally \div boolsPW
  IN FoldLeft(LAMBDA a, i : store_bool(a, i, b),
              Shaped(u, [k \in DOMAIN u.w |->
                           IF k <= wds THEN IF b THEN AllBitsOn ELSE Zeros ELSE u.w[k]]),
              [j \in 1 .. Excess(u.tally) |-> wds * boolsPW + j - 1])

FreshLike(u) == new_create_array(u.atom, u.tally)

orboolvectors(u, v)  == ByWord(LAMBDA k : OrW(u.w[k], v.w[k]), FreshLike(u))
andboolvectors(u, v) == ByWord(LAMBDA k : AndW(u.w[k], v.w[k]), FreshLike(u))
xorboolvectors(u, v) == ByWord(LAMBDA k : XorW(u.w[k], v.w[k]), FreshLike(u))
notbools(u)          == ByWord(LAMBDA k : NotW(u.w[k]), FreshLike(u))

Conform(u, v) == u.atom \/ v.atom \/ u.tally = v.tally

(* One operand is an atom: its value decides.                              *)
OrAtom(b, v)  == IF b THEN initbool(FreshLike(v), TRUE) ELSE v
AndAtom(b, v) == IF b THEN v ELSE initbool(FreshLike(v), FALSE)
XorAtom(b, v) == IF b THEN notbools(v) ELSE ByWord(LAMBDA k : v.w[k], FreshLike(v))

b_or(u, v) ==
  CASE u.atom /\ v.atom  -> createbool(boolval(u) \/ boolval(v))
    [] u.atom /\ ~v.atom -> OrAtom(boolval(u), v)
    [] ~u.atom /\ v.atom -> OrAtom(boolval(v), u)
    [] OTHER             -> orboolvectors(u, v)
b_and(u, v) ==
  CASE u.atom /\ v.atom  -> createbool(boolval(u) /\ boolval(v))
    [] u.atom /\ ~v.atom -> AndAtom(boolval(u), v)
    [] ~u.atom /\ v.atom -> AndAtom(boolval(v), u)
    [] OTHER             -> andboolvectors(u, v)
b_xor(u, v) ==
  CASE u.atom /\ v.atom  -> createbool(boolval(u) # boolval(v))
    [] u.atom /\ ~v.atom -> XorAtom(boolval(u), v)
    [] ~u.atom /\ v.atom -> XorAtom(boolval(v), u)
    [] OTHER             -> xorboolvectors(u, v)

(* The word with the bits of the items only; a whole word is kept whole.   *)
Trail(u) == AndW(u.w[Len(u.w)], Kept(u.tally))
orbools(u) ==
  (\E k \in 1 .. u.tally \div boolsPW : u.w[k] # Zeros) \/ (Excess(u.tally) # 0 /\ Trail(u) # Zeros)
andbools(u) ==
  /\ \A k \in 1 .. u.tally \div boolsPW : u.w[k] = AllBitsOn
  /\ Excess(u.tally) # 0 => Trail(u) = Kept(u.tally)

(* The words are folded into one, and that one in halves, 1/2, 1/4 ...     *)
RECURSIVE Folded(_, _)
Folded(a, j) == IF j = 0 THEN a ELSE Folded(XorW(a, Shr(a, j)), j \div 2)
xorbools(u) ==
  LET whole == FoldLeft(XorW, Zeros, SubSeq(u.w, 1, u.tally \div boolsPW))
      all   == IF Excess(u.tally) # 0 THEN XorW(whole, Trail(u)) ELSE whole
  IN Folded(all, boolsPW \div 2)[boolsPW]

equal(u, v) ==
  LET limit == u.tally \div boolsPW
  IN /\ u.atom = v.atom /\ u.tally = v.tally
     /\ \A k \in 1 .. limit : u.w[k] = v.w[k]
     /\ \A i \in limit * boolsPW .. u.tally - 1 : fetch_bool(u, i) = fetch_bool(v, i)

(* The tables give the running parity of a byte, with the carry into it.   *)
acc_xor_table(byte, carry) ==
  [p \in 1 .. ByteSize |-> (Cardinality({q \in 1 .. p : byte[q]}) % 2 = 1) # carry]
AccXor(u) ==
  LET bits  == FlattenSeq(u.w)
      bytes == [k \in 1 .. Len(bits) \div ByteSize |-> SubSeq(bits, (k - 1) * ByteSize + 1, k * ByteSize)]
      run   == FoldLeft(LAMBDA a, byte :
                          a \o acc_xor_table(byte, IF a = <<>> THEN FALSE ELSE a[Len(a)]),
                        <<>>, bytes)
  IN ByWord(LAMBDA k : SubSeq(run, (k - 1) * boolsPW + 1, k * boolsPW), FreshLike(u))
iacc_xor(u) == IF u.tally <= 1 THEN createbool(boolval(u)) ELSE AccXor(u)

(* The bit operations: one item on the left is spread over a word; of one  *)
(* item on the right, or where the tallies differ, the word is the mask.   *)
bitops_bool(f(_, _), u, v) ==
  LET res == IF u.tally = 1 THEN FreshLike(v) ELSE FreshLike(u)
      mask == IF u.tally = 1 THEN IF boolval(u) THEN AllBitsOn ELSE Zeros ELSE v.w[1]
  IN Shaped(res, [k \in DOMAIN res.w |->
       CASE u.tally = v.tally -> f(u.w[k], v.w[k])
         [] u.tally # v.tally /\ u.tally = 1 -> f(mask, v.w[k])
         [] OTHER -> f(mask, u.w[k])])

-----------------------------------------------------------------------------
Init == x \in {createbool(b) : b \in BOOLEAN} /\ y = x /\ op = "none"

Give(name, u) == op' = name /\ x' = u /\ UNCHANGED y

New(b)   == Give("new", createbool(b))
Keep     == op' = "keep" /\ y' = x /\ UNCHANGED x
Solitary == x.atom /\ Give("solitary", store_bool(new_create_array(FALSE, 1), 0, boolval(x)))

append(b) ==
  /\ ~x.atom /\ x.tally < MaxBits
  /\ Give("append", store_bool(copy(new_create_array(FALSE, x.tally + 1), 0, x, 0, x.tally),
                               x.tally, b))
place(i, b) == ~x.atom /\ i < x.tally /\ Give("place", store_bool(x, i, b))
ilink ==
  /\ x.tally + y.tally <= MaxBits
  /\ Give("link", copy(copy(new_create_array(FALSE, x.tally + y.tally), 0, x, 0, x.tally),
                       x.tally, y, 0, y.tally))
drop(n) ==
  /\ ~x.atom /\ n < x.tally
  /\ Give("drop", copy(new_create_array(FALSE, x.tally - n), 0, x, n, x.tally - n))

inot    == Give("not", notbools(x))
or      == Conform(x, y) /\ Give("or", b_or(x, y))
and     == Conform(x, y) /\ Give("and", b_and(x, y))
xor     == Conform(x, y) /\ Give("xor", b_xor(x, y))
acc_xor == Give("acc_xor", iacc_xor(x))
bit_and == Give("bit_and", bitops_bool(AndW, x, y))
bit_or  == Give("bit_or", bitops_bool(OrW, x, y))
bit_xor == Give("bit_xor", bitops_bool(XorW, x, y))
ior     == Give("any", createbool(orbools(x)))
iand    == Give("all", createbool(andbools(x)))
ixor    == Give("parity", createbool(xorbools(x)))
iequal  == Give("equal", createbool(equal(x, y)))

Next ==
  \/ \E b \in BOOLEAN : New(b) \/ append(b) \/ \E i \in 0 .. MaxBits - 1 : place(i, b)
  \/ \E n \in 1 .. MaxBits : drop(n)
  \/ Keep \/ Solitary \/ ilink \/ inot \/ or \/ and \/ xor \/ acc_xor
  \/ bit_and \/ bit_or \/ bit_xor \/ ior \/ iand \/ ixor \/ iequal

Spec == Init /\ [][Next]_vars

-----------------------------------------------------------------------------
Value(u) == [atom |-> u.atom, s |-> [i \in 1 .. u.tally |-> fetch_bool(u, i - 1)]]
Lists    == INSTANCE BitLists WITH x <- Value(x), y <- Value(y)

(* Whatever operations follow each other, the packed arrays give, item by  *)
(* item, what lists of truth values give: no bit after the last item gets  *)
(* into a result, and no item is lost at the edge of a word (copy,         *)
(* logicops.c, equal, iacc_xor, bitops_bool).                              *)
ImplementsBitLists == Lists!Spec
=============================================================================
