--------------------------- MODULE RefCountProofs ---------------------------
(* Proofs about RefCount for any number of arrays and variables, lists of    *)
(* any length and any order of operations and jumps.                         *)
(*                                                                           *)
(* The idea: the count of an array is the sum of the numbers of its places   *)
(* on the stack, in variables, in lists and among the freeups to do; so an   *)
(* array that anything refers to is in use.  What freeup may give back is    *)
(* bounded by a set of arrays: whatever refers to an array from outside of   *)
(* the set keeps it, and the locals of the operation under way are outside.  *)
EXTENDS RefCount, SetLemmas, SequenceTheorems, TLAPS

Plain == {"side_effect", "item_address", "same_atom", "held_pair"} \cap Uses = {}

Words  == All \cup {gone} \cup Nums \cup Texts
Kinds  == {"free", "int", "ints", "phrase", "atype"}
Blocks == [kind : Kinds, items : Seq(Words), refcnt : Nat]
Frees  == [arr : All, drop : BOOLEAN]
Visits == [arr : All, next : Nat \ {0}]

(* The heap h; freeit is at work on the frames fs.                           *)
HeapOK(h) ==
  /\ h \in [All -> Blocks]
  /\ \A x \in All :
       /\ Len(h[x].items) <= MaxItems
       /\ h[x].kind = "free" => h[x].refcnt = 0
       /\ h[x].kind \in {"int", "phrase"} => Len(h[x].items) = 1
       /\ h[x].kind \in {"int", "ints"} => h[x].items \in Seq(Nums)
       /\ h[x].kind = "atype" => h[x].items \in Seq(All \cup {gone})

FramesOK(h, fs) ==
  /\ fs \in Seq(Visits)
  /\ \A k \in DOMAIN fs : h[fs[k].arr].kind # "free" /\ h[fs[k].arr].refcnt = 0
  /\ \A k, l \in DOMAIN fs : fs[k].arr = fs[l].arr => k = l

(* The places of x in a sequence, and of an array in the variables and in    *)
(* the lists; a freeup that drops a count is the only one to refer.          *)
Places(s, x) == {j \in DOMAIN s : s[j] = x}
InVars(f, x) == {v \in Vars : f[v] = x}

(* Item j of w is a reference that w still has.                              *)
Has1(h, fs, w, j) ==
  /\ h[w].kind = "atype" /\ j \in DOMAIN h[w].items /\ h[w].items[j] # gone
  /\ \A k \in DOMAIN fs : fs[k].arr = w => j >= fs[k].next
IsAt(h, fs, w, j, x) == Has1(h, fs, w, j) /\ h[w].items[j] = x
InLists(h, fs, x) == {p \in All \X (1 .. MaxItems) : Has1(h, fs, p[1], p[2]) /\ h[p[1]].items[p[2]] = x}

NS(s, x)     == Cardinality(Places(s, x))
NV(f, x)     == Cardinality(InVars(f, x))
NL(h, fs, x) == Cardinality(InLists(h, fs, x))
One(b)       == IF b THEN 1 ELSE 0

Total(h, s, f, t, fs, x) ==
  One(x = no_value) + NS(s, x) + NV(f, x) + NS(t, Drop(x)) + NL(h, fs, x)

Core(h, s, f, t, fs) ==
  /\ HeapOK(h) /\ FramesOK(h, fs)
  /\ s \in Seq(All) /\ f \in [Vars -> All] /\ t \in Seq(Frees)
  /\ \A x \in All : h[x].refcnt = Total(h, s, f, t, fs, x)
-----------------------------------------------------------------------------
RefersTo(w, y) == \E j \in DOMAIN items(w) : Has1(heap, frames, w, j) /\ items(w)[j] = y

(* A reference to y from the first n places of the stack, a variable or a    *)
(* list outside of P.                                                        *)
Firm(y, n, P) ==
  \/ y = no_value
  \/ \E j \in DOMAIN stk : j <= n /\ stk[j] = y
  \/ \E v \in Vars : valu[v] = y
  \/ \E w \in All \ P : RefersTo(w, y)

(* A reference that a freeing which gives back no more than P leaves, and    *)
(* one that an index expression leaves too.                                  *)
Strong(y, P)  == Firm(y, Len(stk), P)
Lasting(y, P) == Firm(y, r.base, P)

(* The arrays freeit is at work on, and those of the freeups to do.          *)
Framed(fs) == {fs[k].arr : k \in DOMAIN fs}
Waiting    == {todo[k].arr : k \in DOMAIN todo}

(* The freeing under way and to do gives back nothing but members of P.      *)
Within(P) ==
  /\ Framed(frames) \subseteq P
  /\ \A y \in Waiting : y \in P \/ Strong(y, P)
  /\ \A w \in P : \A y \in All : RefersTo(w, y) => y \in P \/ Strong(y, P)

(* A freeup of an array does not free one that is to be freed after it.      *)
TodoOK ==
  /\ \A y \in All, k \in DOMAIN todo : todo[k] = Free(y) => InUse(y)
  /\ \A y \in All, k, l \in DOMAIN todo : k < l /\ ~todo[l].drop /\ y = todo[k].arr =>
       /\ ~todo[k].drop
       /\ refcnt(y) > 0 \/ (kind(y) # "atype" /\ y # todo[l].arr)
  /\ \A y \in Framed(frames), l \in DOMAIN todo : ~todo[l].drop => kind(y) # "atype" /\ y # todo[l].arr

Clearing == {"clearstack", "clearheap"}
Working  == {"replace", "implode", "pack", "unprotect", "push"}
Ending   == {"fault", "store", "finish"}

GoneOK ==
  \A w \in All : \A j \in DOMAIN items(w) :
    kind(w) = "atype" /\ items(w)[j] = gone => pc \in Clearing /\ refcnt(w) = 0

Outer  == {r.outer[k].arr : k \in DOMAIN r.outer}
Locals == Outer \cup (IF pc = "index" THEN {r.x} ELSE {})
                \cup (IF pc \in {"place"} \cup Working THEN {r.a, r.x, r.addr} ELSE {})

(* An array with count zero is a local or will be freed.                     *)
ZeroOK ==
  \A w \in All : InUse(w) /\ refcnt(w) = 0 =>
    \/ w \in Framed(frames)
    \/ \E k \in DOMAIN todo : todo[k] = Free(w)
    \/ w \in Locals
    \/ pc = "clearstack"
    \/ pc = "clearheap" /\ w \in unseen

Registers ==
  /\ r = [op |-> r.op, var |-> r.var, base |-> r.base, a |-> r.a, i |-> r.i, x |-> r.x,
          addr |-> r.addr, outer |-> r.outer, changed |-> r.changed, protect |-> r.protect,
          due |-> r.due]
  /\ r.base \in Nat /\ r.i \in Nat /\ r.outer \in Seq(Frees)
  /\ r.changed \in BOOLEAN /\ r.protect \in BOOLEAN
  /\ pc \in {"idle", "index", "place"} \cup Working \cup Ending \cup Clearing
  /\ unseen \in SUBSET All

(* The array that place is applied to is freed last.                         *)
Pair(p) == r.outer # <<>> /\ p = r.outer[Len(r.outer)].arr

OuterOK ==
  \A p \in All : Pair(p) =>
    /\ InUse(p) /\ refcnt(p) = 0
    /\ \A y \in All, k \in DOMAIN r.outer : k < Len(r.outer) /\ y = r.outer[k].arr =>
         /\ InUse(y)
         /\ \/ RefersTo(p, y)
            \/ kind(y) # "atype" /\ refcnt(y) = 0
                 /\ \A l \in DOMAIN r.outer : r.outer[l].arr = y => l = k
    /\ \A k \in DOMAIN r.outer : ~r.outer[k].drop

(* Only the stack above base is used by an index expression, and it makes    *)
(* nothing but atoms: other arrays it only fetches.                          *)
Simple(y) == kind(y) # "atype" /\ y # r.x
Kept(y)   == Simple(y) \/ Lasting(y, {})
InIndex ==
  /\ r.op = "insert" /\ r.var \in Vars /\ r.outer = <<>> /\ ~r.protect /\ ~r.changed
  /\ r.base <= Len(stk)
  /\ r.x \in Used
  /\ \A y \in All : (\E j \in DOMAIN stk : j > r.base /\ stk[j] = y) => Kept(y)
  /\ \A y \in Waiting : Kept(y)
  /\ \A k \in DOMAIN todo : ~todo[k].drop
  /\ \A y \in Framed(frames) : Simple(y)

(* The stack while a protected array may lie on it.                          *)
Depth == r.base + (IF r.protect THEN 1 ELSE 0)

At(a, x, d) == a = r.a /\ x = r.x /\ d = r.addr

(* The pair p is that of first and a, first that of x and addr.              *)
ByInsert == r.op = "insert" /\ r.var \in Vars /\ r.outer = <<>>
ByPlace(p, first) ==
  /\ r.op = "place" /\ ~r.protect /\ r.outer = <<Free(first), Free(p)>>
  /\ InUse(p) /\ refcnt(p) = 0 /\ RefersTo(p, first)
  /\ r.a # p /\ r.x # p
  /\ \A d \in All : d = r.addr => RefersTo(first, d) \/ (refcnt(d) = 0 /\ Simple(d))

Begins(a, x, d) ==
  /\ InUse(a) /\ InUse(x) /\ InUse(d)
  /\ r.i # 0 => kind(a) \in {"ints", "atype"} /\ r.i \in DOMAIN items(a)
  /\ \/ /\ ByInsert /\ a = valu[r.var] /\ Kept(d)
        /\ r.i # 0 => \E S \in SUBSET All : ClosedUnderItems(S) /\ a \in S /\ d \notin S
     \/ \E p, first \in All : ByPlace(p, first) /\ kind(p) = "atype" /\ items(p) = <<first, a>>

InPlace ==
  /\ Ready /\ ~r.changed /\ Len(stk) = Depth
  /\ {r.a, r.x, r.addr} \subseteq All
  /\ \A a, x, d \in All : At(a, x, d) => Begins(a, x, d)

(* What is freed meanwhile is none of the locals.                            *)
Apart(P) ==
  /\ Within(P) /\ P \cap Locals = {}
  /\ pc \in Working => \A a, x, d \in All : At(a, x, d) => Simple(d) \/ Lasting(d, P \cup {a})

(* What an insertion at item i of a leaves alone.                            *)
Avoids(S, a, d) ==
  /\ ClosedUnderItems(S) /\ d \notin S
  /\ kind(a) = "atype" => \A j \in DOMAIN items(a) : items(a)[j] \in S

Works(a, x, d) ==
  /\ InUse(a) /\ InUse(x) /\ InUse(d)
  /\ pc \in {"pack", "unprotect"} => stk[Len(stk)] = x
  /\ pc \in {"replace", "implode", "pack"} => kind(a) \in {"ints", "atype"} /\ r.i \in DOMAIN items(a)
  /\ r.changed => refcnt(a) = 0 /\ a # x
  /\ \/ ByInsert /\ (~r.changed => a = valu[r.var])
     \/ \E p, first \in All :
          /\ ByPlace(p, first) /\ (~r.changed => RefersTo(p, a))
          /\ pc \in {"replace", "implode", "pack"} => a # first
  /\ pc = "replace" =>
       /\ frames = <<>> /\ (\A k \in DOMAIN todo : ~todo[k].drop) /\ \A y \in Waiting : Strong(y, {})
       /\ kind(a) = "ints" => kind(x) = "int"
       /\ r.op = "insert" => \E S \in SUBSET All : Avoids(S, a, d)
  /\ pc \in {"implode", "pack"} /\ r.op = "insert" /\ kind(a) = "atype" =>
       \A j \in DOMAIN items(a) : items(a)[j] = d => d = x
  /\ pc = "pack" => homotest(a)
  /\ pc \in {"pack", "push"} => Ready

InWorking ==
  /\ Len(stk) = Depth + (IF pc \in {"pack", "unprotect"} THEN 1 ELSE 0)
  /\ {r.a, r.x, r.addr} \subseteq All
  /\ \A a, x, d \in All : At(a, x, d) => Works(a, x, d)

InEnding ==
  /\ OuterOK
  /\ r.protect => r.outer = <<>>
  /\ Len(stk) = Depth + (IF pc = "fault" THEN 0 ELSE 1)
  /\ pc = "store" => ByInsert

Control ==
  /\ Registers /\ TodoOK /\ GoneOK /\ ZeroOK
  /\ pc \in {"idle"} \cup Clearing => r = NoLocals
  /\ pc \in Working \cup Ending => \E P \in SUBSET All : Apart(P)
  /\ pc = "index" => InIndex
  /\ pc = "place" => InPlace
  /\ pc \in Working => InWorking
  /\ pc \in Ending => InEnding

IInv == Core(heap, stk, valu, todo, frames) /\ Control
-----------------------------------------------------------------------------
(***************************************************************************)
(* Counting.                                                               *)
(***************************************************************************)
LEMMA SameSize ==
  ASSUME NEW S, NEW T, IsFiniteSet(S), NEW f \in [S -> T],
         \A a, b \in S : f[a] = f[b] => a = b, \A y \in T : \E a \in S : f[a] = y
  PROVE  Cardinality(T) = Cardinality(S)
<1>1. f \in Bijection(S, T) BY DEF Bijection, Injection, Surjection, IsInjective
<1>2. ExistsBijection(S, T) BY <1>1 DEF ExistsBijection
<1> QED BY <1>2, FS_Bijection

LEMMA TwoMembers ==
  ASSUME NEW S, IsFiniteSet(S), NEW a \in S, NEW b \in S, a # b
  PROVE  Cardinality(S) >= 2
<1>1. IsFiniteSet(S \ {a}) /\ Cardinality(S \ {a}) = Cardinality(S) - 1 BY FS_RemoveElement
<1>2. Cardinality(S \ {a}) \in Nat /\ Cardinality(S) \in Nat BY <1>1, FS_CardinalityType
<1>3. Cardinality(S \ {a}) # 0 BY <1>1, FS_EmptySet
<1> QED BY <1>1, <1>2, <1>3

LEMMA PlacesFinite ==
  ASSUME NEW S, NEW s \in Seq(S), NEW x
  PROVE  /\ IsFiniteSet(Places(s, x)) /\ NS(s, x) \in Nat
         /\ NS(s, x) > 0 <=> \E j \in DOMAIN s : s[j] = x
<1>1. DOMAIN s = 1 .. Len(s) /\ Len(s) \in Nat OBVIOUS
<1>2. IsFiniteSet(1 .. Len(s)) BY <1>1, FS_Interval
<1>3. Places(s, x) \in SUBSET (1 .. Len(s)) BY <1>1 DEF Places
<1>4. IsFiniteSet(Places(s, x)) BY <1>2, <1>3, FS_Subset
<1>5. NS(s, x) \in Nat BY <1>4, FS_CardinalityType DEF NS
<1>6. NS(s, x) = 0 <=> Places(s, x) = {} BY <1>4, FS_EmptySet DEF NS
<1>7. Places(s, x) = {} <=> ~ \E j \in DOMAIN s : s[j] = x BY DEF Places
<1> QED BY <1>4, <1>5, <1>6, <1>7

LEMMA PlacesEmpty == \A x : NS(<<>>, x) = 0
<1> TAKE x
<1>1. Places(<<>>, x) = {} BY DEF Places
<1> QED BY <1>1, FS_EmptySet DEF NS

LEMMA PlacesAppend ==
  ASSUME NEW S, NEW s \in Seq(S), NEW y \in S, NEW x
  PROVE  NS(Append(s, y), x) = NS(s, x) + One(x = y)
<1>1. IsFiniteSet(Places(s, x)) /\ NS(s, x) \in Nat BY PlacesFinite
<1>2. Len(s) + 1 \notin Places(s, x) BY DEF Places
<1>3. CASE x = y
  <2>1. Places(Append(s, y), x) = Places(s, x) \cup {Len(s) + 1} BY <1>3 DEF Places
  <2>2. Cardinality(Places(s, x) \cup {Len(s) + 1}) = Cardinality(Places(s, x)) + 1
    BY <1>1, <1>2, FS_AddElement
  <2> QED BY <1>3, <2>1, <2>2 DEF NS, One
<1>4. CASE x # y
  <2>1. Places(Append(s, y), x) = Places(s, x) BY <1>4 DEF Places
  <2> QED BY <1>1, <1>4, <2>1 DEF NS, One
<1> QED BY <1>3, <1>4

LEMMA PlacesConcat ==
  ASSUME NEW S, NEW s \in Seq(S), NEW t \in Seq(S), NEW x
  PROVE  NS(s \o t, x) = NS(s, x) + NS(t, x)
<1> DEFINE T == {j \in DOMAIN (s \o t) : j > Len(s) /\ (s \o t)[j] = x}
           f == [j \in Places(t, x) |-> j + Len(s)]
<1>1. IsFiniteSet(Places(s, x)) /\ IsFiniteSet(Places(t, x)) /\ NS(s, x) \in Nat /\ NS(t, x) \in Nat
  BY PlacesFinite
<1>2. Places(s \o t, x) = Places(s, x) \cup T BY DEF Places
<1>3. Places(s, x) \cap T = {} BY DEF Places
<1>4. f \in [Places(t, x) -> T] BY DEF Places
<1>5. \A a, b \in Places(t, x) : f[a] = f[b] => a = b BY DEF Places
<1>6. \A k \in T : \E a \in Places(t, x) : f[a] = k
  <2> TAKE k \in T
  <2>1. k - Len(s) \in Places(t, x) BY DEF Places
  <2>2. f[k - Len(s)] = k BY <2>1
  <2> QED BY <2>1, <2>2
<1> HIDE DEF f
<1>7. Cardinality(T) = Cardinality(Places(t, x))
  <2> HIDE DEF T
  <2> QED BY <1>1, <1>4, <1>5, <1>6, SameSize
<1>8. IsFiniteSet(T)
  <2>0. s \o t \in Seq(S) OBVIOUS
  <2>1. IsFiniteSet(Places(s \o t, x)) BY <2>0, PlacesFinite
  <2>2. T \in SUBSET Places(s \o t, x) BY <1>2
  <2> HIDE DEF T
  <2> QED BY <2>1, <2>2, FS_Subset
<1> HIDE DEF T
<1>9. Cardinality(Places(s, x) \cup T) = Cardinality(Places(s, x)) + Cardinality(T) - Cardinality({})
  BY <1>1, <1>3, <1>8, FS_Union
<1> QED BY <1>1, <1>2, <1>7, <1>9, FS_EmptySet DEF NS

(* The last of a sequence, and the first, apart from the others.             *)
LEMMA PlacesBelow ==
  ASSUME NEW S, NEW s \in Seq(S), s # <<>>, NEW x
  PROVE  /\ SubSeq(s, 1, Len(s) - 1) \in Seq(S) /\ s[Len(s)] \in S
         /\ Len(SubSeq(s, 1, Len(s) - 1)) = Len(s) - 1
         /\ \A j \in 1 .. Len(s) - 1 : SubSeq(s, 1, Len(s) - 1)[j] = s[j]
         /\ NS(s, x) = NS(SubSeq(s, 1, Len(s) - 1), x) + One(x = s[Len(s)])
<1> DEFINE b == SubSeq(s, 1, Len(s) - 1)
<1>0. Len(s) \in Nat \ {0} BY EmptySeq
<1>1. b \in Seq(S) /\ s[Len(s)] \in S /\ Len(b) = Len(s) - 1 BY <1>0
<1>2. \A j \in 1 .. Len(s) - 1 : b[j] = s[j] OBVIOUS
<1>3. s = Append(b, s[Len(s)]) OBVIOUS
<1> HIDE DEF b
<1>4. NS(Append(b, s[Len(s)]), x) = NS(b, x) + One(x = s[Len(s)]) BY <1>1, PlacesAppend
<1> QED BY <1>1, <1>2, <1>3, <1>4 DEF b

LEMMA PlacesOne == \A x, y : NS(<<y>>, x) = One(x = y)
<1> TAKE x, y
<1>1. Places(<<y>>, x) = IF x = y THEN {1} ELSE {} BY DEF Places
<1> QED BY <1>1, FS_EmptySet, FS_Singleton DEF NS, One

LEMMA PlacesTail ==
  ASSUME NEW S, NEW s \in Seq(S), s # <<>>, NEW x
  PROVE  NS(s, x) = NS(Tail(s), x) + One(x = Head(s))
<1>1. s = <<Head(s)>> \o Tail(s) /\ Tail(s) \in Seq(S) /\ <<Head(s)>> \in Seq(S) OBVIOUS
<1>2. PICK a, b : a = <<Head(s)>> /\ b = Tail(s) OBVIOUS
<1>3. NS(a \o b, x) = NS(a, x) + NS(b, x) BY <1>1, <1>2, PlacesConcat
<1>4. NS(a, x) = One(x = Head(s)) BY <1>2, PlacesOne
<1>5. NS(b, x) \in Nat BY <1>1, <1>2, PlacesFinite
<1>6. One(x = Head(s)) \in Nat BY DEF One
<1>7. NS(s, x) = NS(a, x) + NS(b, x) BY <1>1, <1>2, <1>3
<1> HIDE DEF NS
<1> QED BY <1>2, <1>4, <1>5, <1>6, <1>7

LEMMA VarsFinite ==
  ASSUME NEW f, NEW x
  PROVE  /\ IsFiniteSet(InVars(f, x)) /\ NV(f, x) \in Nat
         /\ NV(f, x) > 0 <=> \E v \in Vars : f[v] = x
<1>1. InVars(f, x) \in SUBSET Vars BY DEF InVars
<1>2. IsFiniteSet(InVars(f, x)) BY <1>1, RefCountConstants, FS_Subset
<1>3. NV(f, x) \in Nat BY <1>2, FS_CardinalityType DEF NV
<1>4. NV(f, x) = 0 <=> InVars(f, x) = {} BY <1>2, FS_EmptySet DEF NV
<1>5. InVars(f, x) = {} <=> ~ \E v \in Vars : f[v] = x BY DEF InVars
<1> QED BY <1>2, <1>3, <1>4, <1>5

LEMMA VarsStore ==
  ASSUME NEW f \in [Vars -> All], NEW v \in Vars, NEW g,
         \A u \in Vars : u # v => g[u] = f[u], NEW x
  PROVE  NV(g, x) = NV(f, x) - One(x = f[v]) + One(x = g[v])
<1> DEFINE D == InVars(f, x) \ {v}
<1>1. IsFiniteSet(InVars(f, x)) /\ NV(f, x) \in Nat BY VarsFinite
<1>2. IsFiniteSet(D) /\ Cardinality(D) = IF v \in InVars(f, x) THEN NV(f, x) - 1 ELSE NV(f, x)
  BY <1>1, FS_RemoveElement DEF NV
<1>3. v \in InVars(f, x) <=> x = f[v] BY DEF InVars
<1>4. Cardinality(D) \in Nat BY <1>2, FS_CardinalityType
<1>5. Cardinality(D) = NV(f, x) - One(x = f[v]) BY <1>1, <1>2, <1>3 DEF One
<1>6. CASE x = g[v]
  <2>1. InVars(g, x) = D \cup {v} BY <1>6 DEF InVars
  <2>2. v \notin D OBVIOUS
  <2> HIDE DEF D
  <2>3. Cardinality(D \cup {v}) = Cardinality(D) + 1 BY <1>2, <2>2, FS_AddElement
  <2> QED BY <1>5, <1>6, <2>1, <2>3 DEF NV, One
<1>7. CASE x # g[v]
  <2>1. InVars(g, x) = D BY <1>7 DEF InVars
  <2>2. NV(g, x) = Cardinality(D) BY <2>1 DEF NV
  <2> HIDE DEF D
  <2> QED BY <1>1, <1>5, <1>7, <2>2 DEF One
<1> QED BY <1>6, <1>7

LEMMA ListsFinite ==
  ASSUME NEW h, NEW fs, NEW x
  PROVE  /\ IsFiniteSet(InLists(h, fs, x)) /\ NL(h, fs, x) \in Nat
         /\ \A w \in All, j \in 1 .. MaxItems :
              Has1(h, fs, w, j) /\ h[w].items[j] = x => NL(h, fs, x) > 0
         /\ NL(h, fs, x) > 0 =>
              \E w \in All, j \in 1 .. MaxItems : Has1(h, fs, w, j) /\ h[w].items[j] = x
<1>1. IsFiniteSet(All)
  <2>1. IsFiniteSet(Arrays \cup {no_value}) BY RefCountConstants, FS_AddElement
  <2> QED BY <2>1 DEF All
<1>2. IsFiniteSet(1 .. MaxItems)
  <2>1. MaxItems \in Int /\ 1 \in Int BY RefCountConstants
  <2> QED BY <2>1, FS_Interval
<1>3. IsFiniteSet(All \X (1 .. MaxItems)) BY <1>1, <1>2, FS_Product
<1>4. InLists(h, fs, x) \in SUBSET (All \X (1 .. MaxItems)) BY DEF InLists
<1>5. IsFiniteSet(InLists(h, fs, x)) BY <1>3, <1>4, FS_Subset
<1>6. NL(h, fs, x) \in Nat BY <1>5, FS_CardinalityType DEF NL
<1>7. NL(h, fs, x) = 0 <=> InLists(h, fs, x) = {} BY <1>5, FS_EmptySet DEF NL
<1>8. \A w \in All, j \in 1 .. MaxItems :
        Has1(h, fs, w, j) /\ h[w].items[j] = x => <<w, j>> \in InLists(h, fs, x)
  BY DEF InLists
<1>9. \A p \in InLists(h, fs, x) : \E w \in All, j \in 1 .. MaxItems : Has1(h, fs, w, j) /\ h[w].items[j] = x
  BY DEF InLists
<1>10. ASSUME NEW w \in All, NEW j \in 1 .. MaxItems, Has1(h, fs, w, j), h[w].items[j] = x
       PROVE  NL(h, fs, x) > 0
  <2>1. InLists(h, fs, x) # {} BY <1>8, <1>10
  <2> QED BY <1>6, <1>7, <2>1
<1>11. NL(h, fs, x) > 0 => InLists(h, fs, x) # {} BY <1>7
<1>12. NL(h, fs, x) > 0 =>
         \E w \in All, j \in 1 .. MaxItems : Has1(h, fs, w, j) /\ h[w].items[j] = x BY <1>9, <1>11
<1> QED BY <1>5, <1>6, <1>10, <1>12

(* Two items that refer to x are two references.                             *)
LEMMA ListsTwo ==
  ASSUME NEW h, NEW fs, NEW x, NEW w \in All, NEW j \in 1 .. MaxItems, NEW u \in All, NEW k \in 1 .. MaxItems,
         Has1(h, fs, w, j), h[w].items[j] = x, Has1(h, fs, u, k), h[u].items[k] = x, w # u \/ j # k
  PROVE  NL(h, fs, x) >= 2
<1>1. <<w, j>> \in InLists(h, fs, x) /\ <<u, k>> \in InLists(h, fs, x) BY DEF InLists
<1>2. <<w, j>> # <<u, k>> OBVIOUS
<1>3. IsFiniteSet(InLists(h, fs, x)) BY ListsFinite
<1> QED BY <1>1, <1>2, <1>3, TwoMembers DEF NL

(* Steps that leave the items of lists as they are.                          *)
LEMMA ListsSame ==
  ASSUME NEW h, NEW fs, NEW g, NEW gs, NEW x,
         \A w \in All, j \in 1 .. MaxItems :
           Has1(h, fs, w, j) /\ h[w].items[j] = x <=> Has1(g, gs, w, j) /\ g[w].items[j] = x
  PROVE  NL(g, gs, x) = NL(h, fs, x)
<1>1. InLists(g, gs, x) = InLists(h, fs, x) BY DEF InLists
<1> QED BY <1>1 DEF NL

(* One item less, one more, and another list.                                *)
LEMMA ListsLess ==
  ASSUME NEW h, NEW fs, NEW g, NEW gs, NEW x, NEW y, NEW u \in All, NEW k \in 1 .. MaxItems,
         IsAt(h, fs, u, k, y),
         \A w \in All, j \in 1 .. MaxItems : IsAt(g, gs, w, j, x) <=> IsAt(h, fs, w, j, x) /\ ~(w = u /\ j = k)
  PROVE  /\ x = y => NL(h, fs, x) = NL(g, gs, x) + 1
         /\ x # y => NL(h, fs, x) = NL(g, gs, x)
<1>1. InLists(g, gs, x) = InLists(h, fs, x) \ {<<u, k>>} BY DEF InLists, IsAt
<1>2. <<u, k>> \in InLists(h, fs, x) <=> x = y BY DEF InLists, IsAt
<1>3. IsFiniteSet(InLists(h, fs, x)) /\ NL(h, fs, x) \in Nat BY ListsFinite
<1>4. NL(g, gs, x) = IF <<u, k>> \in InLists(h, fs, x) THEN NL(h, fs, x) - 1 ELSE NL(h, fs, x)
  BY <1>1, <1>3, FS_RemoveElement DEF NL
<1> QED BY <1>2, <1>3, <1>4

LEMMA ListsReplaced ==
  ASSUME NEW h, NEW fs, NEW g, NEW gs, NEW x, NEW u \in All, NEW k \in 1 .. MaxItems,
         Has1(h, fs, u, k), Has1(g, gs, u, k),
         \A w \in All, j \in 1 .. MaxItems : w # u \/ j # k =>
           (Has1(h, fs, w, j) /\ h[w].items[j] = x <=> Has1(g, gs, w, j) /\ g[w].items[j] = x)
  PROVE  NL(g, gs, x) = NL(h, fs, x) - One(x = h[u].items[k]) + One(x = g[u].items[k])
<1> DEFINE D == InLists(h, fs, x) \ {<<u, k>>}
<1>1. InLists(g, gs, x) = IF x = g[u].items[k] THEN D \cup {<<u, k>>} ELSE D BY DEF InLists
<1>2. <<u, k>> \in InLists(h, fs, x) <=> x = h[u].items[k] BY DEF InLists
<1>3. IsFiniteSet(InLists(h, fs, x)) /\ NL(h, fs, x) \in Nat BY ListsFinite
<1>4. IsFiniteSet(D) /\ Cardinality(D) = NL(h, fs, x) - One(x = h[u].items[k])
  <2>1. IsFiniteSet(D) /\ Cardinality(D) = IF <<u, k>> \in InLists(h, fs, x) THEN NL(h, fs, x) - 1 ELSE NL(h, fs, x)
    BY <1>3, FS_RemoveElement DEF NL
  <2> HIDE DEF D
  <2> QED BY <1>2, <1>3, <2>1 DEF One
<1>5. <<u, k>> \notin D OBVIOUS
<1> HIDE DEF D
<1>6. Cardinality(D) \in Nat BY <1>4, FS_CardinalityType
<1>7. Cardinality(D \cup {<<u, k>>}) = Cardinality(D) + 1 BY <1>4, <1>5, FS_AddElement
<1>8. NL(g, gs, x) = Cardinality(D) + One(x = g[u].items[k]) BY <1>1, <1>6, <1>7 DEF NL, One
<1> QED BY <1>4, <1>8

LEMMA ListsMore ==
  ASSUME NEW h, NEW fs, NEW g, NEW gs, NEW x, x # gone, NEW u \in All, NEW its \in Seq(All \cup {gone}),
         Len(its) <= MaxItems, g[u].kind = "atype", g[u].items = its, h[u].kind # "atype",
         \A k \in DOMAIN gs : gs[k].arr # u,
         \A w \in All, j \in 1 .. MaxItems : w # u =>
           (Has1(h, fs, w, j) /\ h[w].items[j] = x <=> Has1(g, gs, w, j) /\ g[w].items[j] = x)
  PROVE  NL(g, gs, x) = NL(h, fs, x) + NS(its, x)
<1> DEFINE T == {u} \X Places(its, x)
           f == [j \in Places(its, x) |-> <<u, j>>]
<1>0. MaxItems \in Nat /\ Len(its) \in Nat BY RefCountConstants
<1>1. InLists(g, gs, x) = InLists(h, fs, x) \cup T
  <2>1. ASSUME NEW w \in All, NEW j \in 1 .. MaxItems
        PROVE  <<w, j>> \in InLists(g, gs, x) <=> <<w, j>> \in InLists(h, fs, x) \cup T
    <3>1. CASE w # u BY <3>1 DEF InLists
    <3>2. CASE w = u
      <4>1. <<w, j>> \notin InLists(h, fs, x) BY <3>2 DEF InLists, Has1
      <4>2. <<w, j>> \in InLists(g, gs, x) <=> j \in Places(its, x) BY <3>2 DEF InLists, Has1, Places
      <4> QED BY <3>2, <4>1, <4>2
    <3> QED BY <3>1, <3>2
  <2>2. T \subseteq All \X (1 .. MaxItems)
    <3>1. Places(its, x) \subseteq 1 .. MaxItems BY <1>0 DEF Places
    <3> QED BY <3>1
  <2>3. InLists(g, gs, x) \subseteq All \X (1 .. MaxItems) /\ InLists(h, fs, x) \subseteq All \X (1 .. MaxItems)
    BY DEF InLists
  <2> HIDE DEF T
  <2> QED BY <2>1, <2>2, <2>3
<1>2. InLists(h, fs, x) \cap T = {} BY DEF InLists, Has1
<1>3. IsFiniteSet(InLists(h, fs, x)) /\ NL(h, fs, x) \in Nat BY ListsFinite
<1>4. IsFiniteSet(Places(its, x)) /\ NS(its, x) \in Nat BY PlacesFinite
<1>5. IsFiniteSet(T) BY <1>4, FS_Singleton, FS_Product
<1>6. Cardinality(T) = NS(its, x)
  <2>1. f \in [Places(its, x) -> T] OBVIOUS
  <2>2. \A a, b \in Places(its, x) : f[a] = f[b] => a = b OBVIOUS
  <2>3. \A y \in T : \E a \in Places(its, x) : f[a] = y OBVIOUS
  <2> HIDE DEF T, f
  <2> QED BY <1>4, <2>1, <2>2, <2>3, SameSize DEF NS
<1> HIDE DEF T
<1>7. Cardinality(InLists(h, fs, x) \cup T) = Cardinality(InLists(h, fs, x)) + Cardinality(T) - Cardinality({})
  BY <1>2, <1>3, <1>5, FS_Union
<1> QED BY <1>1, <1>3, <1>4, <1>6, <1>7, FS_EmptySet DEF NL

-----------------------------------------------------------------------------
(***************************************************************************)
(* The moves the steps are made of: each keeps the counts right.           *)
(***************************************************************************)
LEMMA HeapFacts ==
  ASSUME NEW h, HeapOK(h), NEW x \in All
  PROVE  /\ h[x] = [kind |-> h[x].kind, items |-> h[x].items, refcnt |-> h[x].refcnt]
         /\ h[x].kind \in Kinds /\ h[x].items \in Seq(Words) /\ h[x].refcnt \in Nat
         /\ Len(h[x].items) \in Nat /\ DOMAIN h[x].items = 1 .. Len(h[x].items)
         /\ Len(h[x].items) <= MaxItems
         /\ \A j \in DOMAIN h[x].items : j \in 1 .. MaxItems /\ j \in Nat /\ j >= 1
<1>1. h[x] \in Blocks BY DEF HeapOK
<1>2. h[x].items \in Seq(Words) BY <1>1 DEF Blocks
<1>3. Len(h[x].items) \in Nat /\ DOMAIN h[x].items = 1 .. Len(h[x].items) BY <1>2, LenProperties
<1>4. Len(h[x].items) <= MaxItems BY DEF HeapOK
<1>5. \A j \in DOMAIN h[x].items : j \in 1 .. MaxItems /\ j \in Nat /\ j >= 1
  BY <1>3, <1>4, RefCountConstants
<1> QED BY <1>1, <1>3, <1>4, <1>5 DEF Blocks

(* The heap g is h with other counts.                                        *)
Recount(h, g) ==
  /\ g \in [All -> Blocks]
  /\ \A y \in All : g[y].kind = h[y].kind /\ g[y].items = h[y].items

LEMMA HeapRecounted ==
  ASSUME NEW h, HeapOK(h), NEW g, Recount(h, g),
         \A y \in All : g[y].kind = "free" => g[y].refcnt = 0
  PROVE  HeapOK(g)
BY DEF HeapOK, Recount

LEMMA IncrIs ==
  ASSUME NEW h, HeapOK(h), NEW x \in All, h[x].kind # "free"
  PROVE  /\ HeapOK(Incr(h, x)) /\ Recount(h, Incr(h, x))
         /\ \A y \in All : Incr(h, x)[y].refcnt = h[y].refcnt + One(y = x)
<1> DEFINE g == Incr(h, x)
<1>1. h \in [All -> Blocks] BY DEF HeapOK
<1>2. g = [y \in All |-> IF y = x THEN [h[x] EXCEPT !.refcnt = h[x].refcnt + 1] ELSE h[y]]
  BY <1>1 DEF Incr
<1>3. h[x] = [kind |-> h[x].kind, items |-> h[x].items, refcnt |-> h[x].refcnt] /\ h[x].refcnt \in Nat
      /\ h[x].kind \in Kinds /\ h[x].items \in Seq(Words)
  BY HeapFacts
<1>4. g[x] = [kind |-> h[x].kind, items |-> h[x].items, refcnt |-> h[x].refcnt + 1] BY <1>2, <1>3
<1>5. \A y \in All : y # x => g[y] = h[y] BY <1>2
<1>6. g \in [All -> Blocks]
  <2>1. h[x].refcnt + 1 \in Nat BY <1>3
  <2>2. g[x] \in Blocks BY <1>3, <1>4, <2>1 DEF Blocks
  <2>3. \A y \in All : g[y] \in Blocks BY <1>1, <1>5, <2>2
  <2>4. g = [y \in All |-> g[y]] BY <1>2
  <2> HIDE DEF g
  <2> QED BY <2>3, <2>4
<1> HIDE DEF g
<1>7. Recount(h, g) BY <1>4, <1>5, <1>6 DEF Recount
<1>8. \A y \in All : g[y].refcnt = h[y].refcnt + One(y = x)
  <2> TAKE y \in All
  <2>1. h[y].refcnt \in Nat BY HeapFacts
  <2> QED BY <1>4, <1>5, <2>1 DEF One
<1>9. \A y \in All : g[y].kind = "free" => g[y].refcnt = 0
  <2> TAKE y \in All
  <2>1. h[y].kind = "free" => h[y].refcnt = 0 BY DEF HeapOK
  <2>2. CASE y = x BY <1>4, <2>2
  <2>3. CASE y # x BY <1>5, <2>1, <2>3
  <2> QED BY <2>2, <2>3
<1>10. HeapOK(g) BY <1>7, <1>9, HeapRecounted
<1> QED BY <1>7, <1>8, <1>10 DEF g

LEMMA DecrIs ==
  ASSUME NEW h, HeapOK(h), NEW x \in All, h[x].refcnt > 0
  PROVE  /\ HeapOK(Decr(h, x)) /\ Recount(h, Decr(h, x))
         /\ \A y \in All : Decr(h, x)[y].refcnt = h[y].refcnt - One(y = x)
<1> DEFINE g == Decr(h, x)
<1>1. h \in [All -> Blocks] BY DEF HeapOK
<1>2. g = [y \in All |-> IF y = x THEN [h[x] EXCEPT !.refcnt = h[x].refcnt - 1] ELSE h[y]]
  BY <1>1 DEF Decr
<1>3. h[x] = [kind |-> h[x].kind, items |-> h[x].items, refcnt |-> h[x].refcnt] /\ h[x].refcnt \in Nat
      /\ h[x].kind \in Kinds /\ h[x].items \in Seq(Words)
  BY HeapFacts
<1>4. g[x] = [kind |-> h[x].kind, items |-> h[x].items, refcnt |-> h[x].refcnt - 1] BY <1>2, <1>3
<1>5. \A y \in All : y # x => g[y] = h[y] BY <1>2
<1>6. g \in [All -> Blocks]
  <2>1. h[x].refcnt - 1 \in Nat BY <1>3
  <2>2. g[x] \in Blocks BY <1>3, <1>4, <2>1 DEF Blocks
  <2>3. \A y \in All : g[y] \in Blocks BY <1>1, <1>5, <2>2
  <2>4. g = [y \in All |-> g[y]] BY <1>2
  <2> HIDE DEF g
  <2> QED BY <2>3, <2>4
<1> HIDE DEF g
<1>7. Recount(h, g) BY <1>4, <1>5, <1>6 DEF Recount
<1>8. \A y \in All : g[y].refcnt = h[y].refcnt - One(y = x)
  <2> TAKE y \in All
  <2>1. h[y].refcnt \in Nat BY HeapFacts
  <2> QED BY <1>4, <1>5, <2>1 DEF One
<1>9. \A y \in All : g[y].kind = "free" => g[y].refcnt = 0
  <2> TAKE y \in All
  <2>1. h[y].kind = "free" => h[y].refcnt = 0 BY DEF HeapOK
  <2>2. CASE y = x
    <3>1. g[y].kind = h[y].kind BY <1>4, <2>2
    <3>2. h[y].kind # "free" BY <2>1, <2>2
    <3> QED BY <3>1, <3>2
  <2>3. CASE y # x BY <1>5, <2>1, <2>3
  <2> QED BY <2>2, <2>3
<1>10. HeapOK(g) BY <1>7, <1>9, HeapRecounted
<1> QED BY <1>7, <1>8, <1>10 DEF g

(* A new array.                                                              *)
LEMMA MadeIs ==
  ASSUME NEW h, HeapOK(h), NEW x \in All, NEW k \in Kinds \ {"free"}, NEW its \in Seq(Words),
         Len(its) <= MaxItems, k \in {"int", "phrase"} => Len(its) = 1,
         k \in {"int", "ints"} => its \in Seq(Nums), k = "atype" => its \in Seq(All \cup {gone})
  PROVE  /\ HeapOK(Made(h, x, k, its))
         /\ Made(h, x, k, its)[x] = [kind |-> k, items |-> its, refcnt |-> 0]
         /\ \A y \in All : y # x => Made(h, x, k, its)[y] = h[y]
<1> DEFINE g == Made(h, x, k, its)
<1>1. h \in [All -> Blocks] BY DEF HeapOK
<1>2. g = [y \in All |-> IF y = x THEN [kind |-> k, items |-> its, refcnt |-> 0] ELSE h[y]]
  BY <1>1 DEF Made
<1>3. g[x] = [kind |-> k, items |-> its, refcnt |-> 0] /\ \A y \in All : y # x => g[y] = h[y] BY <1>2
<1>4. g[x] \in Blocks BY <1>3 DEF Blocks
<1>5. g \in [All -> Blocks] BY <1>1, <1>2, <1>4
<1> HIDE DEF g
<1>6. HeapOK(g)
  <2>1. ASSUME NEW y \in All
        PROVE  /\ Len(g[y].items) <= MaxItems
               /\ g[y].kind = "free" => g[y].refcnt = 0
               /\ g[y].kind \in {"int", "phrase"} => Len(g[y].items) = 1
               /\ g[y].kind \in {"int", "ints"} => g[y].items \in Seq(Nums)
               /\ g[y].kind = "atype" => g[y].items \in Seq(All \cup {gone})
    <3>1. CASE y = x
      <4>1. g[y].kind = k /\ g[y].items = its /\ g[y].refcnt = 0 BY <1>3, <3>1
      <4> QED BY <4>1
    <3>2. CASE y # x
      <4>1. g[y] = h[y] BY <1>3, <3>2
      <4> QED BY <4>1 DEF HeapOK
    <3> QED BY <3>1, <3>2
  <2> QED BY <1>5, <2>1 DEF HeapOK
<1> QED BY <1>3, <1>6 DEF g

LEMMA ListsKept ==
  ASSUME NEW h, NEW g, NEW fs,
         \A w \in All : h[w].kind = "atype" \/ g[w].kind = "atype" =>
           g[w].kind = h[w].kind /\ g[w].items = h[w].items
  PROVE  \A x \in All : NL(g, fs, x) = NL(h, fs, x)
<1> TAKE x \in All
<1>1. \A w \in All, j \in 1 .. MaxItems :
        Has1(h, fs, w, j) /\ h[w].items[j] = x <=> Has1(g, fs, w, j) /\ g[w].items[j] = x
  BY DEF Has1
<1> QED BY <1>1, ListsSame

LEMMA DropIs ==
  /\ \A x, y : Drop(x) = Drop(y) <=> x = y
  /\ \A x, y : Drop(x) # Free(y)
  /\ \A x \in All : Drop(x) \in Frees /\ Free(x) \in Frees
  /\ \A t \in Frees : t.drop => t = Drop(t.arr)
  /\ \A t \in Frees : ~t.drop => t = Free(t.arr)
<1>1. \A x : Drop(x).arr = x /\ Drop(x).drop = TRUE /\ Free(x).drop = FALSE /\ Free(x).arr = x BY DEF Drop, Free
<1>2. \A x, y : Drop(x) = Drop(y) <=> x = y BY <1>1
<1>3. \A x, y : Drop(x) # Free(y) BY <1>1
<1> QED BY <1>2, <1>3 DEF Drop, Free, Frees

(* The numbers of the references to x, and that each counts.                 *)
LEMMA CoreCounts ==
  ASSUME NEW h, NEW s, NEW f, NEW t, NEW fs, Core(h, s, f, t, fs), NEW x \in All
  PROVE  /\ h[x].refcnt = One(x = no_value) + NS(s, x) + NV(f, x) + NS(t, Drop(x)) + NL(h, fs, x)
         /\ h[x].refcnt \in Nat
         /\ NS(s, x) \in Nat /\ NV(f, x) \in Nat /\ NS(t, Drop(x)) \in Nat /\ NL(h, fs, x) \in Nat
         /\ NS(s, x) > 0 <=> \E j \in DOMAIN s : s[j] = x
         /\ NV(f, x) > 0 <=> \E v \in Vars : f[v] = x
         /\ NS(t, Drop(x)) > 0 <=> \E j \in DOMAIN t : t[j] = Drop(x)
         /\ NL(h, fs, x) > 0 <=> \E w \in All : \E j \in DOMAIN h[w].items : Has1(h, fs, w, j) /\ h[w].items[j] = x
<1>1. HeapOK(h) /\ s \in Seq(All) /\ t \in Seq(Frees) /\ h[x].refcnt = Total(h, s, f, t, fs, x) BY DEF Core
<1>2. NS(s, x) \in Nat /\ (NS(s, x) > 0 <=> \E j \in DOMAIN s : s[j] = x) BY <1>1, PlacesFinite
<1>3. NV(f, x) \in Nat /\ (NV(f, x) > 0 <=> \E v \in Vars : f[v] = x) BY VarsFinite
<1>4. NS(t, Drop(x)) \in Nat /\ (NS(t, Drop(x)) > 0 <=> \E j \in DOMAIN t : t[j] = Drop(x)) BY <1>1, PlacesFinite
<1>5. NL(h, fs, x) \in Nat
      /\ (NL(h, fs, x) > 0 <=> \E w \in All, j \in 1 .. MaxItems : Has1(h, fs, w, j) /\ h[w].items[j] = x)
  BY ListsFinite
<1>6. \A w \in All : \A j \in DOMAIN h[w].items : j \in 1 .. MaxItems
  <2> TAKE w \in All
  <2>1. DOMAIN h[w].items = 1 .. Len(h[w].items) /\ Len(h[w].items) \in Nat /\ Len(h[w].items) <= MaxItems
    BY <1>1, HeapFacts
  <2> QED BY <2>1, RefCountConstants
<1>7. NL(h, fs, x) > 0 <=> \E w \in All : \E j \in DOMAIN h[w].items : Has1(h, fs, w, j) /\ h[w].items[j] = x
  BY <1>5, <1>6 DEF Has1
<1>8. h[x].refcnt \in Nat BY <1>1, HeapFacts
<1> QED BY <1>1, <1>2, <1>3, <1>4, <1>5, <1>7, <1>8 DEF Total

(* An array with a reference has a count, and is in use.                     *)
LEMMA Referred ==
  ASSUME NEW h, NEW s, NEW f, NEW t, NEW fs, Core(h, s, f, t, fs), NEW x \in All
  PROVE  /\ (\E j \in DOMAIN s : s[j] = x) => h[x].refcnt > 0
         /\ (\E v \in Vars : f[v] = x) => h[x].refcnt > 0
         /\ (\E j \in DOMAIN t : t[j] = Drop(x)) => h[x].refcnt > 0
         /\ (\E w \in All : \E j \in DOMAIN h[w].items : Has1(h, fs, w, j) /\ h[w].items[j] = x) => h[x].refcnt > 0
         /\ x = no_value => h[x].refcnt > 0
         /\ h[x].refcnt > 0 => h[x].kind # "free"
<1>1. h[x].kind = "free" => h[x].refcnt = 0 BY DEF Core, HeapOK
<1>2. One(x = no_value) \in Nat /\ (x = no_value => One(x = no_value) = 1) BY DEF One
<1> HIDE DEF NS, NV, NL
<1> QED BY <1>1, <1>2, CoreCounts

LEMMA NoFrames == \A h : FramesOK(h, <<>>)
BY DEF FramesOK

LEMMA CorePush ==
  ASSUME NEW h, NEW s, NEW f, NEW t, Core(h, s, f, t, <<>>), NEW x \in All, h[x].kind # "free"
  PROVE  Core(Incr(h, x), Append(s, x), f, t, <<>>)
<1> DEFINE g == Incr(h, x)
<1>1. HeapOK(h) /\ s \in Seq(All) BY DEF Core
<1>2. HeapOK(g) /\ Recount(h, g) /\ \A y \in All : g[y].refcnt = h[y].refcnt + One(y = x) BY <1>1, IncrIs
<1> HIDE DEF g
<1>3. \A y \in All : NL(g, <<>>, y) = NL(h, <<>>, y) BY <1>2, ListsKept DEF Recount
<1>4. \A y : NS(Append(s, x), y) = NS(s, y) + One(y = x) BY <1>1, PlacesAppend
<1>5. ASSUME NEW y \in All PROVE g[y].refcnt = Total(g, Append(s, x), f, t, <<>>, y)
  <2>1. One(y = x) \in Nat /\ One(y = no_value) \in Nat BY DEF One
  <2> QED BY <1>2, <1>3, <1>4, <2>1, CoreCounts DEF Total
<1> QED BY <1>2, <1>5, NoFrames DEF Core, g

LEMMA CorePop ==
  ASSUME NEW h, NEW s, NEW f, NEW t, Core(h, s, f, t, <<>>), s # <<>>
  PROVE  Core(Decr(h, s[Len(s)]), SubSeq(s, 1, Len(s) - 1), f, t, <<>>)
<1> DEFINE x == s[Len(s)]
           g == Decr(h, x)
           b == SubSeq(s, 1, Len(s) - 1)
<1>1. HeapOK(h) /\ s \in Seq(All) BY DEF Core
<1>2. x \in All /\ b \in Seq(All) /\ \A y : NS(s, y) = NS(b, y) + One(y = x) BY <1>1, PlacesBelow
<1>3. h[x].refcnt > 0
  <2>1. Len(s) \in DOMAIN s BY <1>1, EmptySeq
  <2> QED BY <1>2, <2>1, Referred
<1> HIDE DEF x, b
<1>4. HeapOK(g) /\ Recount(h, g) /\ \A y \in All : g[y].refcnt = h[y].refcnt - One(y = x) BY <1>1, <1>2, <1>3, DecrIs
<1> HIDE DEF g
<1>5. \A y \in All : NL(g, <<>>, y) = NL(h, <<>>, y) BY <1>4, ListsKept DEF Recount
<1>6. ASSUME NEW y \in All PROVE g[y].refcnt = Total(g, b, f, t, <<>>, y)
  <2>1. One(y = x) \in Nat /\ One(y = no_value) \in Nat BY DEF One
  <2>2. NS(b, y) \in Nat BY <1>2, PlacesFinite
  <2> QED BY SMTT(30), <1>2, <1>4, <1>5, <2>1, <2>2, CoreCounts DEF Total
<1> QED BY <1>2, <1>4, <1>6, NoFrames DEF Core, g, b, x

NoItems(k, its) ==
  /\ k \in {"int", "ints", "phrase"} /\ its \in Seq(Words) /\ Len(its) <= MaxItems
  /\ k \in {"int", "phrase"} => Len(its) = 1
  /\ k \in {"int", "ints"} => its \in Seq(Nums)

LEMMA CoreAtom ==
  ASSUME NEW h, NEW s, NEW f, NEW t, Core(h, s, f, t, <<>>), NEW x \in All, h[x].kind = "free",
         NEW k, NEW its, NoItems(k, its)
  PROVE  /\ Core(Made(h, x, k, its), s, f, t, <<>>)
         /\ Made(h, x, k, its)[x] = [kind |-> k, items |-> its, refcnt |-> 0]
         /\ \A y \in All : y # x => Made(h, x, k, its)[y] = h[y]
<1> DEFINE g == Made(h, x, k, its)
<1>0. /\ k \in Kinds \ {"free"} /\ k # "atype" /\ its \in Seq(Words) /\ Len(its) <= MaxItems
      /\ k \in {"int", "phrase"} => Len(its) = 1
      /\ k \in {"int", "ints"} => its \in Seq(Nums)
  BY DEF Kinds, NoItems
<1>1. HeapOK(h) BY DEF Core
<1>2. HeapOK(g) /\ g[x] = [kind |-> k, items |-> its, refcnt |-> 0] /\ \A y \in All : y # x => g[y] = h[y]
  BY <1>0, <1>1, MadeIs
<1> HIDE DEF g
<1>3. h[x].refcnt = 0 BY <1>1 DEF HeapOK
<1>4. \A y \in All : NL(g, <<>>, y) = NL(h, <<>>, y)
  <2>1. \A w \in All : h[w].kind = "atype" \/ g[w].kind = "atype" => g[w].kind = h[w].kind /\ g[w].items = h[w].items
    <3> TAKE w \in All
    <3>1. CASE w = x
      <4>1. g[w].kind = k /\ h[w].kind = "free" BY <1>2, <3>1
      <4> QED BY <1>0, <4>1
    <3>2. CASE w # x BY <1>2, <3>2
    <3> QED BY <3>1, <3>2
  <2> QED BY <2>1, ListsKept
<1>5. ASSUME NEW y \in All PROVE g[y].refcnt = Total(g, s, f, t, <<>>, y)
  <2>1. g[y].refcnt = h[y].refcnt BY <1>2, <1>3
  <2> QED BY <1>4, <2>1, CoreCounts DEF Total
<1>6. s \in Seq(All) /\ f \in [Vars -> All] /\ t \in Seq(Frees) BY DEF Core
<1>7. Core(g, s, f, t, <<>>) BY <1>2, <1>5, <1>6, NoFrames DEF Core
<1> QED BY <1>2, <1>7 DEF g

(* References that the stack gives up go to a new list, or are to be dropped.*)
LEMMA CoreList ==
  ASSUME NEW h, NEW s \in Seq(All), NEW its \in Seq(All), NEW f, NEW t, Core(h, s \o its, f, t, <<>>),
         NEW x \in All, h[x].kind = "free", Len(its) <= MaxItems
  PROVE  /\ Core(Made(h, x, "atype", its), s, f, t, <<>>)
         /\ Made(h, x, "atype", its)[x] = [kind |-> "atype", items |-> its, refcnt |-> 0]
         /\ \A y \in All : y # x => Made(h, x, "atype", its)[y] = h[y]
<1> DEFINE g == Made(h, x, "atype", its)
<1>0. "atype" \in Kinds \ {"free"} /\ its \in Seq(Words) /\ its \in Seq(All \cup {gone}) BY SeqMonotonic DEF Kinds, Words
<1>1. HeapOK(h) BY DEF Core
<1>2. HeapOK(g) /\ g[x] = [kind |-> "atype", items |-> its, refcnt |-> 0] /\ \A y \in All : y # x => g[y] = h[y]
  BY <1>0, <1>1, MadeIs
<1> HIDE DEF g
<1>3. h[x].refcnt = 0 BY <1>1 DEF HeapOK
<1>4. \A y \in All : NL(g, <<>>, y) = NL(h, <<>>, y) + NS(its, y)
  <2> TAKE y \in All
  <2>1. y # gone BY RefCountConstants DEF All
  <2>2. g[x].kind = "atype" /\ g[x].items = its BY <1>2
  <2>3. \A w \in All, j \in 1 .. MaxItems : w # x =>
          (Has1(h, <<>>, w, j) /\ h[w].items[j] = y <=> Has1(g, <<>>, w, j) /\ g[w].items[j] = y)
    BY <1>2 DEF Has1
  <2> QED BY <1>0, <2>1, <2>2, <2>3, ListsMore
<1>5. ASSUME NEW y \in All PROVE g[y].refcnt = Total(g, s, f, t, <<>>, y)
  <2>1. g[y].refcnt = h[y].refcnt BY <1>2, <1>3
  <2>2. NS(s \o its, y) = NS(s, y) + NS(its, y) BY PlacesConcat
  <2>3. NS(s, y) \in Nat /\ NS(its, y) \in Nat BY PlacesFinite
  <2>4. One(y = no_value) \in Nat BY DEF One
  <2> HIDE DEF NS, NL, NV
  <2> QED BY SMTT(30), <1>4, <2>1, <2>2, <2>3, <2>4, CoreCounts DEF Total
<1>6. f \in [Vars -> All] /\ t \in Seq(Frees) BY DEF Core
<1>7. Core(g, s, f, t, <<>>) BY <1>2, <1>5, <1>6, NoFrames DEF Core
<1> QED BY <1>2, <1>7 DEF g

(* Freeups that drop nothing.                                                *)
LEMMA CoreTodo ==
  ASSUME NEW h, NEW s, NEW f, NEW fs, Core(h, s, f, <<>>, fs), NEW t \in Seq(Frees),
         \A j \in DOMAIN t : ~t[j].drop
  PROVE  Core(h, s, f, t, fs)
<1>1. ASSUME NEW y \in All PROVE NS(t, Drop(y)) = NS(<<>>, Drop(y))
  <2>1. Places(t, Drop(y)) = Places(<<>>, Drop(y)) BY DEF Places, Drop
  <2> QED BY <2>1 DEF NS
<1> QED BY <1>1 DEF Core, Total

LEMMA DropOne == \A x, y : NS(<<Drop(x)>>, Drop(y)) = One(y = x)
BY PlacesOne, DropIs DEF One

LEMMA CorePopDrop ==
  ASSUME NEW h, NEW s, NEW f, Core(h, s, f, <<>>, <<>>), s # <<>>
  PROVE  Core(h, SubSeq(s, 1, Len(s) - 1), f, <<Drop(s[Len(s)])>>, <<>>)
<1> DEFINE x == s[Len(s)]
           b == SubSeq(s, 1, Len(s) - 1)
<1>1. HeapOK(h) /\ s \in Seq(All) /\ f \in [Vars -> All] BY DEF Core
<1>2. x \in All /\ b \in Seq(All) /\ \A y : NS(s, y) = NS(b, y) + One(y = x) BY <1>1, PlacesBelow
<1> HIDE DEF x, b
<1>3. ASSUME NEW y \in All PROVE h[y].refcnt = Total(h, b, f, <<Drop(x)>>, <<>>, y)
  <2>1. One(y = x) \in Nat /\ One(y = no_value) \in Nat BY DEF One
  <2>2. NS(b, y) \in Nat BY <1>2, PlacesFinite
  <2> HIDE DEF NS, NL, NV
  <2> QED BY <1>2, <2>1, <2>2, CoreCounts, PlacesEmpty, DropOne DEF Total
<1>4. <<Drop(x)>> \in Seq(Frees) BY <1>2, DropIs
<1> QED BY <1>1, <1>2, <1>3, <1>4, NoFrames DEF Core, x, b

(* The result at the top, a protected array under it.                        *)
LEMMA CoreUnder ==
  ASSUME NEW h, NEW s, NEW f, Core(h, s, f, <<>>, <<>>), Len(s) >= 2
  PROVE  Core(h, Append(SubSeq(s, 1, Len(s) - 2), s[Len(s)]), f, <<Drop(s[Len(s) - 1])>>, <<>>)
<1> DEFINE x == s[Len(s) - 1]
           u == s[Len(s)]
           b == SubSeq(s, 1, Len(s) - 1)
           c == SubSeq(s, 1, Len(s) - 2)
<1>1. HeapOK(h) /\ s \in Seq(All) /\ f \in [Vars -> All] BY DEF Core
<1>2. Len(s) \in Nat /\ s # <<>> BY <1>1
<1>3. u \in All /\ b \in Seq(All) /\ Len(b) = Len(s) - 1 /\ (\A j \in 1 .. Len(s) - 1 : b[j] = s[j])
      /\ \A y : NS(s, y) = NS(b, y) + One(y = u)
  BY <1>1, <1>2, PlacesBelow
<1>4. c = SubSeq(b, 1, Len(b) - 1)
  <2>1. c \in Seq(All) /\ Len(c) = Len(s) - 2 /\ \A j \in 1 .. Len(s) - 2 : c[j] = s[j]
    <3>1. PICK n \in Nat : n = Len(s) - 2 BY <1>2
    <3>2. \A j \in 1 .. n : s[j] \in All BY <1>1, <1>2, <3>1
    <3>3. SubSeq(s, 1, n) \in Seq(All) /\ Len(SubSeq(s, 1, n)) = (IF 1 <= n THEN n - 1 + 1 ELSE 0)
          /\ \A j \in 1 .. n - 1 + 1 : SubSeq(s, 1, n)[j] = s[1 + j - 1]
      BY <3>1, <3>2, SubSeqProperties
    <3>4. Len(SubSeq(s, 1, n)) = n BY <3>1, <3>3
    <3>5. \A j \in 1 .. n : SubSeq(s, 1, n)[j] = s[j] BY <3>1, <3>3
    <3> QED BY <3>1, <3>3, <3>4, <3>5
  <2>2. b # <<>>
    <3>1. Len(b) >= 1 BY <1>2, <1>3
    <3> HIDE DEF b
    <3> QED BY <1>3, <3>1
  <2>3. SubSeq(b, 1, Len(b) - 1) \in Seq(All) /\ Len(SubSeq(b, 1, Len(b) - 1)) = Len(b) - 1
        /\ \A j \in 1 .. Len(b) - 1 : SubSeq(b, 1, Len(b) - 1)[j] = b[j]
    BY <1>3, <2>2, PlacesBelow
  <2> HIDE DEF b, c
  <2>4. Len(c) = Len(SubSeq(b, 1, Len(b) - 1)) BY <1>3, <1>2, <2>1, <2>3
  <2>5. \A j \in 1 .. Len(c) : c[j] = SubSeq(b, 1, Len(b) - 1)[j] BY <1>2, <1>3, <2>1, <2>3
  <2> QED BY <2>1, <2>3, <2>4, <2>5, SeqEqual
<1>5. b[Len(b)] = x BY <1>2, <1>3
<1> HIDE DEF b, c, u, x
<1>6. x \in All /\ c \in Seq(All) /\ \A y : NS(b, y) = NS(c, y) + One(y = x)
  <2>1. b # <<>>
    <3>1. Len(b) >= 1 BY <1>2, <1>3
    <3> HIDE DEF b
    <3> QED BY <1>3, <3>1
  <2> QED BY <1>3, <1>4, <1>5, <2>1, PlacesBelow
<1>7. \A y : NS(Append(c, u), y) = NS(c, y) + One(y = u) BY <1>3, <1>6, PlacesAppend
<1>8. ASSUME NEW y \in All PROVE h[y].refcnt = Total(h, Append(c, u), f, <<Drop(x)>>, <<>>, y)
  <2>1. One(y = x) \in Nat /\ One(y = u) \in Nat /\ One(y = no_value) \in Nat BY DEF One
  <2>2. NS(c, y) \in Nat BY <1>6, PlacesFinite
  <2> HIDE DEF NS, NL, NV
  <2>3. NS(s, y) = NS(c, y) + One(y = x) + One(y = u) BY <1>3, <1>6
  <2>4. NS(Append(c, u), y) + NS(<<Drop(x)>>, Drop(y)) = NS(s, y) + NS(<<>>, Drop(y))
    BY <1>7, <2>1, <2>2, <2>3, PlacesEmpty, DropOne
  <2>5. NS(Append(c, u), y) \in Nat /\ NS(<<Drop(x)>>, Drop(y)) \in Nat BY <1>7, <2>1, <2>2, DropOne
  <2> QED BY SMTT(30), <2>1, <2>4, <2>5, CoreCounts DEF Total
<1>9. <<Drop(x)>> \in Seq(Frees) /\ Append(c, u) \in Seq(All) BY <1>3, <1>6, DropIs
<1> QED BY <1>1, <1>8, <1>9, NoFrames DEF Core, x, c, u

LEMMA CorePack ==
  ASSUME NEW h, NEW s \in Seq(All), NEW its \in Seq(All), NEW f, Core(h, s \o its, f, <<>>, <<>>)
  PROVE  Core(h, s, f, [j \in 1 .. Len(its) |-> Drop(its[Len(its) + 1 - j])], <<>>)
<1> DEFINE n == Len(its)
           t == [j \in 1 .. n |-> Drop(its[n + 1 - j])]
<1>1. n \in Nat OBVIOUS
<1>2. t \in Seq(Frees)
  <2>1. ASSUME NEW j \in 1 .. n PROVE t[j] \in Frees
    <3>1. its[n + 1 - j] \in All BY <1>1
    <3> QED BY <3>1, DropIs
  <2>2. t = [j \in 1 .. n |-> t[j]] OBVIOUS
  <2> HIDE DEF t
  <2>3. t \in [1 .. n -> Frees] BY <2>1, <2>2
  <2> QED BY <1>1, <2>3
<1>3. ASSUME NEW y PROVE NS(t, Drop(y)) = NS(its, y)
  <2> DEFINE e == [j \in Places(its, y) |-> n + 1 - j]
  <2>1. e \in [Places(its, y) -> Places(t, Drop(y))] BY <1>1 DEF Places
  <2>2. \A a, b \in Places(its, y) : e[a] = e[b] => a = b BY <1>1 DEF Places
  <2>3. ASSUME NEW j \in Places(t, Drop(y)) PROVE \E a \in Places(its, y) : e[a] = j
    <3>1. j \in 1 .. n /\ Drop(its[n + 1 - j]) = Drop(y) BY DEF Places
    <3>2. its[n + 1 - j] = y BY <3>1, DropIs
    <3>3. n + 1 - j \in Places(its, y) BY <1>1, <3>1, <3>2 DEF Places
    <3>4. e[n + 1 - j] = j BY <1>1, <3>1, <3>3
    <3> QED BY <3>3, <3>4
  <2>4. IsFiniteSet(Places(its, y)) BY PlacesFinite
  <2> HIDE DEF e, t
  <2> QED BY <2>1, <2>2, <2>3, <2>4, SameSize DEF NS
<1> HIDE DEF t, n
<1>4. ASSUME NEW y \in All PROVE h[y].refcnt = Total(h, s, f, t, <<>>, y)
  <2>1. One(y = no_value) \in Nat BY DEF One
  <2>2. NS(s, y) \in Nat /\ NS(its, y) \in Nat BY PlacesFinite
  <2>3. NS(s \o its, y) = NS(s, y) + NS(its, y) BY PlacesConcat
  <2> HIDE DEF NS, NL, NV
  <2> QED BY <1>3, <2>1, <2>2, <2>3, CoreCounts, PlacesEmpty DEF Total
<1>5. HeapOK(h) /\ f \in [Vars -> All] BY DEF Core
<1> QED BY <1>2, <1>4, <1>5, NoFrames DEF Core, t, n

LEMMA CoreStore ==
  ASSUME NEW h, NEW s, NEW f, Core(h, s, f, <<>>, <<>>), NEW v \in Vars, NEW x \in All, h[x].kind # "free"
  PROVE  Core(Incr(h, x), s, [f EXCEPT ![v] = x], <<Drop(f[v])>>, <<>>)
<1> DEFINE g == Incr(h, x)
           e == [f EXCEPT ![v] = x]
<1>1. HeapOK(h) /\ f \in [Vars -> All] /\ s \in Seq(All) BY DEF Core
<1>2. HeapOK(g) /\ Recount(h, g) /\ \A y \in All : g[y].refcnt = h[y].refcnt + One(y = x) BY <1>1, IncrIs
<1> HIDE DEF g
<1>3. \A y \in All : NL(g, <<>>, y) = NL(h, <<>>, y) BY <1>2, ListsKept DEF Recount
<1>4. ASSUME NEW y PROVE NV(e, y) = NV(f, y) - One(y = f[v]) + One(y = x)
  <2>1. e[v] = x /\ \A u \in Vars : u # v => e[u] = f[u] BY <1>1
  <2> HIDE DEF e
  <2>2. NV(e, y) = NV(f, y) - One(y = f[v]) + One(y = e[v]) BY <1>1, <2>1, VarsStore
  <2> QED BY <2>1, <2>2
<1>5. e \in [Vars -> All] BY <1>1
<1> HIDE DEF e
<1>6. ASSUME NEW y \in All PROVE g[y].refcnt = Total(g, s, e, <<Drop(f[v])>>, <<>>, y)
  <2>1. One(y = x) \in Nat /\ One(y = no_value) \in Nat /\ One(y = f[v]) \in Nat BY DEF One
  <2>2. NV(f, y) \in Nat BY VarsFinite
  <2> HIDE DEF NS, NL, NV
  <2> QED BY SMTT(30), <1>2, <1>3, <1>4, <2>1, <2>2, CoreCounts, PlacesEmpty, DropOne DEF Total
<1>7. <<Drop(f[v])>> \in Seq(Frees)
  <2>1. f[v] \in All BY <1>1
  <2> QED BY <2>1, DropIs
<1> QED BY <1>1, <1>2, <1>5, <1>6, <1>7, NoFrames DEF Core, g, e

(* copy_array of a list: each item has another reference.                    *)
LEMMA CoreCopy ==
  ASSUME NEW h, NEW s, NEW f, NEW t, Core(h, s, f, t, <<>>), NEW a \in All, h[a].kind = "atype",
         NEW its, its = h[a].items, NEW x \in All, h[x].kind = "free"
  PROVE  LET g == Made(IncrAll(h, its), x, "atype", its)
         IN  /\ Core(g, s, f, t, <<>>)
             /\ g[x] = [kind |-> "atype", items |-> its, refcnt |-> 0]
             /\ \A y \in All : y # x => g[y].kind = h[y].kind /\ g[y].items = h[y].items
                                        /\ g[y].refcnt = h[y].refcnt + NS(its, y)
<1> DEFINE q == IncrAll(h, its)
           g == Made(q, x, "atype", its)
<1>1. HeapOK(h) /\ s \in Seq(All) /\ f \in [Vars -> All] /\ t \in Seq(Frees) BY DEF Core
<1>2. its \in Seq(All \cup {gone}) /\ its \in Seq(Words) /\ Len(its) <= MaxItems BY <1>1, HeapFacts DEF HeapOK
<1>3. \A y : NS(its, y) \in Nat BY <1>2, PlacesFinite
<1>4. \A y \in All : q[y] = [h[y] EXCEPT !.refcnt = @ + NS(its, y)] BY DEF IncrAll, NS, Places
<1>5. ASSUME NEW y \in All
      PROVE  /\ q[y].kind = h[y].kind /\ q[y].items = h[y].items /\ q[y].refcnt = h[y].refcnt + NS(its, y)
             /\ q[y] \in Blocks
  <2>1. h[y] = [kind |-> h[y].kind, items |-> h[y].items, refcnt |-> h[y].refcnt] /\ h[y].refcnt \in Nat
        /\ h[y].kind \in Kinds /\ h[y].items \in Seq(Words)
    BY <1>1, HeapFacts
  <2>2. q[y] = [kind |-> h[y].kind, items |-> h[y].items, refcnt |-> h[y].refcnt + NS(its, y)]
    BY <1>4, <2>1
  <2>3. h[y].refcnt + NS(its, y) \in Nat BY <1>3, <2>1
  <2> HIDE DEF q, NS
  <2>4. q[y].kind = h[y].kind /\ q[y].items = h[y].items /\ q[y].refcnt = h[y].refcnt + NS(its, y) BY <2>2
  <2> QED BY <2>1, <2>2, <2>3, <2>4 DEF Blocks
<1>6. \A y \in All : y \in {its[j] : j \in DOMAIN its} => h[y].kind # "free"
  <2> TAKE y \in All
  <2> HAVE y \in {its[j] : j \in DOMAIN its}
  <2>1. PICK j \in DOMAIN its : its[j] = y OBVIOUS
  <2>2. y # gone BY RefCountConstants DEF All
  <2>3. Has1(h, <<>>, a, j) /\ h[a].items[j] = y BY <2>1, <2>2 DEF Has1
  <2>4. j \in DOMAIN h[a].items BY <2>1
  <2> QED BY <2>3, <2>4, Referred
<1>7. HeapOK(q)
  <2>1. q = [y \in All |-> q[y]] BY DEF IncrAll
  <2> HIDE DEF q
  <2>2. q \in [All -> Blocks] BY <1>5, <2>1
  <2>3. Recount(h, q) BY <1>5, <2>2 DEF Recount
  <2>4. ASSUME NEW y \in All, q[y].kind = "free" PROVE q[y].refcnt = 0
    <3>1. h[y].kind = "free" /\ h[y].refcnt = 0 BY <1>1, <1>5, <2>4 DEF HeapOK
    <3>2. ~ \E j \in DOMAIN its : its[j] = y BY <1>6, <3>1
    <3>3. NS(its, y) = 0 BY <1>2, <1>3, <3>2, PlacesFinite
    <3>4. q[y].refcnt = h[y].refcnt + NS(its, y) BY <1>5
    <3> QED BY <3>1, <3>3, <3>4
  <2> QED BY <1>1, <2>3, <2>4, HeapRecounted
<1> HIDE DEF q
<1>8. HeapOK(g) /\ g[x] = [kind |-> "atype", items |-> its, refcnt |-> 0] /\ \A y \in All : y # x => g[y] = q[y]
  <2>1. "atype" \in Kinds \ {"free"} BY DEF Kinds
  <2> QED BY <1>2, <1>7, <2>1, MadeIs
<1> HIDE DEF g
<1>9. \A y \in All : y # x => g[y].kind = h[y].kind /\ g[y].items = h[y].items /\ g[y].refcnt = h[y].refcnt + NS(its, y)
  BY <1>5, <1>8
<1>10. h[x].refcnt = 0 /\ NS(its, x) = 0
  <2>1. h[x].refcnt = 0 BY <1>1 DEF HeapOK
  <2>2. ~ \E j \in DOMAIN its : its[j] = x BY <1>6
  <2> QED BY <1>2, <1>3, <2>1, <2>2, PlacesFinite
<1>11. \A y \in All : NL(g, <<>>, y) = NL(h, <<>>, y) + NS(its, y)
  <2> TAKE y \in All
  <2>1. y # gone BY RefCountConstants DEF All
  <2>2. g[x].kind = "atype" /\ g[x].items = its BY <1>8
  <2>3. \A w \in All, j \in 1 .. MaxItems : w # x =>
          (Has1(h, <<>>, w, j) /\ h[w].items[j] = y <=> Has1(g, <<>>, w, j) /\ g[w].items[j] = y)
    BY <1>9 DEF Has1
  <2> QED BY <1>2, <2>1, <2>2, <2>3, ListsMore
<1>12. ASSUME NEW y \in All PROVE g[y].refcnt = Total(g, s, f, t, <<>>, y)
  <2>1. g[y].refcnt = h[y].refcnt + NS(its, y)
    <3>1. CASE y = x
      <4>1. g[y].refcnt = 0 BY <1>8, <3>1
      <4> QED BY <1>10, <3>1, <4>1
    <3>2. CASE y # x BY <1>9, <3>2
    <3> QED BY <3>1, <3>2
  <2>2. One(y = no_value) \in Nat /\ NS(its, y) \in Nat /\ NL(g, <<>>, y) = NL(h, <<>>, y) + NS(its, y)
    BY <1>3, <1>11 DEF One
  <2> HIDE DEF NS, NL, NV
  <2> QED BY <2>1, <2>2, CoreCounts DEF Total
<1>13. Core(g, s, f, t, <<>>) BY <1>1, <1>8, <1>12, NoFrames DEF Core
<1> QED BY <1>8, <1>9, <1>13 DEF g, q

(* The heap h with x as item i of a.                                         *)
With(h, a, i, x) == [h EXCEPT ![a].items[i] = x]

(* A heap with the items of one array changed.                               *)
LEMMA ItemsIs ==
  ASSUME NEW h, HeapOK(h), NEW a \in All, NEW i \in DOMAIN h[a].items, NEW x \in Words
  PROVE  LET g == With(h, a, i, x)
         IN  /\ g[a] = [kind |-> h[a].kind, items |-> [h[a].items EXCEPT ![i] = x], refcnt |-> h[a].refcnt]
             /\ \A y \in All : y # a => g[y] = h[y]
             /\ g \in [All -> Blocks]
<1> DEFINE g == [h EXCEPT ![a].items[i] = x]
<1>1. h \in [All -> Blocks] BY DEF HeapOK
<1>2. h[a] = [kind |-> h[a].kind, items |-> h[a].items, refcnt |-> h[a].refcnt] /\ h[a].refcnt \in Nat
      /\ h[a].kind \in Kinds /\ h[a].items \in Seq(Words)
  BY HeapFacts
<1>3. g = [y \in All |-> IF y = a THEN [h[a] EXCEPT !.items = [h[a].items EXCEPT ![i] = x]] ELSE h[y]]
  BY <1>1
<1>4. g[a] = [kind |-> h[a].kind, items |-> [h[a].items EXCEPT ![i] = x], refcnt |-> h[a].refcnt]
  BY <1>2, <1>3
<1>5. \A y \in All : y # a => g[y] = h[y] BY <1>3
<1>6. [h[a].items EXCEPT ![i] = x] \in Seq(Words) BY <1>2
<1>7. g[a] \in Blocks BY <1>2, <1>4, <1>6 DEF Blocks
<1>8. g \in [All -> Blocks] BY <1>1, <1>3, <1>5, <1>7
<1> QED BY <1>4, <1>5, <1>8 DEF With

LEMMA CoreData ==
  ASSUME NEW h, NEW s, NEW f, NEW t, Core(h, s, f, t, <<>>), NEW a \in All, h[a].kind = "ints",
         NEW i \in DOMAIN h[a].items, NEW x \in Nums
  PROVE  LET g == With(h, a, i, x)
         IN  /\ Core(g, s, f, t, <<>>)
             /\ g[a] = [kind |-> "ints", items |-> [h[a].items EXCEPT ![i] = x], refcnt |-> h[a].refcnt]
             /\ \A y \in All : y # a => g[y] = h[y]
<1> DEFINE g == With(h, a, i, x)
<1>1. HeapOK(h) /\ s \in Seq(All) /\ f \in [Vars -> All] /\ t \in Seq(Frees) BY DEF Core
<1>2. x \in Words BY DEF Words
<1>3. /\ g[a] = [kind |-> h[a].kind, items |-> [h[a].items EXCEPT ![i] = x], refcnt |-> h[a].refcnt]
      /\ \A y \in All : y # a => g[y] = h[y]
      /\ g \in [All -> Blocks]
  BY <1>1, <1>2, ItemsIs
<1> HIDE DEF g
<1>4. h[a].items \in Seq(Nums) /\ Len(h[a].items) <= MaxItems BY <1>1 DEF HeapOK
<1>5. [h[a].items EXCEPT ![i] = x] \in Seq(Nums) /\ Len([h[a].items EXCEPT ![i] = x]) = Len(h[a].items)
  <2>1. i \in 1 .. Len(h[a].items) BY <1>4
  <2> QED BY <1>4, <2>1, ExceptSeq
<1>6. HeapOK(g)
  <2>1. ASSUME NEW y \in All
        PROVE  /\ Len(g[y].items) <= MaxItems
               /\ g[y].kind = "free" => g[y].refcnt = 0
               /\ g[y].kind \in {"int", "phrase"} => Len(g[y].items) = 1
               /\ g[y].kind \in {"int", "ints"} => g[y].items \in Seq(Nums)
               /\ g[y].kind = "atype" => g[y].items \in Seq(All \cup {gone})
    <3>1. CASE y = a
      <4>1. g[y].kind = "ints" /\ g[y].items = [h[a].items EXCEPT ![i] = x] BY <1>3, <3>1
      <4> QED BY <1>4, <1>5, <4>1
    <3>2. CASE y # a
      <4>1. g[y] = h[y] BY <1>3, <3>2
      <4> QED BY <1>1, <4>1 DEF HeapOK
    <3> QED BY <3>1, <3>2
  <2> QED BY <1>3, <2>1 DEF HeapOK
<1>7. \A y \in All : NL(g, <<>>, y) = NL(h, <<>>, y)
  <2>1. \A w \in All : h[w].kind = "atype" \/ g[w].kind = "atype" => g[w].kind = h[w].kind /\ g[w].items = h[w].items
    BY <1>3
  <2> QED BY <2>1, ListsKept
<1>8. ASSUME NEW y \in All PROVE g[y].refcnt = Total(g, s, f, t, <<>>, y)
  <2>1. g[y].refcnt = h[y].refcnt BY <1>3
  <2> QED BY <1>7, <2>1, CoreCounts DEF Total
<1>9. Core(g, s, f, t, <<>>) BY <1>1, <1>6, <1>8, NoFrames DEF Core
<1> QED BY <1>3, <1>9 DEF g

(* replace_array: the new item is counted, and the old one to be dropped.    *)
LEMMA CoreReplace ==
  ASSUME NEW h, NEW s, NEW f, Core(h, s, f, <<>>, <<>>), NEW a \in All, h[a].kind = "atype",
         NEW i \in DOMAIN h[a].items, h[a].items[i] # gone, NEW x \in All, h[x].kind # "free"
  PROVE  LET g == With(Incr(h, x), a, i, x)
         IN  /\ Core(g, s, f, <<Drop(h[a].items[i])>>, <<>>)
             /\ g[a].items = [h[a].items EXCEPT ![i] = x]
             /\ \A y \in All : g[y].kind = h[y].kind /\ g[y].refcnt = h[y].refcnt + One(y = x)
             /\ \A y \in All : y # a => g[y].items = h[y].items
<1> DEFINE q == Incr(h, x)
           g == With(q, a, i, x)
           o == h[a].items[i]
<1>1. HeapOK(h) /\ s \in Seq(All) /\ f \in [Vars -> All] BY DEF Core
<1>2. HeapOK(q) /\ Recount(h, q) /\ \A y \in All : q[y].refcnt = h[y].refcnt + One(y = x) BY <1>1, IncrIs
<1> HIDE DEF q
<1>3. q[a].items = h[a].items /\ q[a].kind = "atype" BY <1>2 DEF Recount
<1>4. x \in Words BY DEF Words
<1>5. /\ g[a] = [kind |-> q[a].kind, items |-> [q[a].items EXCEPT ![i] = x], refcnt |-> q[a].refcnt]
      /\ \A y \in All : y # a => g[y] = q[y]
      /\ g \in [All -> Blocks]
  <2>1. i \in DOMAIN q[a].items BY <1>3
  <2> QED BY <1>2, <1>4, <2>1, ItemsIs
<1> HIDE DEF g
<1>6. h[a].items \in Seq(All \cup {gone}) /\ Len(h[a].items) <= MaxItems BY <1>1 DEF HeapOK
<1>7. /\ g[a].items = [h[a].items EXCEPT ![i] = x]
      /\ \A y \in All : g[y].kind = h[y].kind /\ g[y].refcnt = h[y].refcnt + One(y = x)
      /\ \A y \in All : y # a => g[y].items = h[y].items
  BY <1>2, <1>3, <1>5 DEF Recount
<1>8. i \in 1 .. Len(h[a].items) /\ i \in 1 .. MaxItems
  <2>1. i \in 1 .. Len(h[a].items) /\ Len(h[a].items) \in Nat BY <1>6
  <2> QED BY <1>6, <2>1, RefCountConstants
<1>9. [h[a].items EXCEPT ![i] = x] \in Seq(All \cup {gone}) /\ Len([h[a].items EXCEPT ![i] = x]) = Len(h[a].items)
  BY <1>6, <1>8, ExceptSeq
<1>10. HeapOK(g)
  <2>1. ASSUME NEW y \in All
        PROVE  /\ Len(g[y].items) <= MaxItems
               /\ g[y].kind = "free" => g[y].refcnt = 0
               /\ g[y].kind \in {"int", "phrase"} => Len(g[y].items) = 1
               /\ g[y].kind \in {"int", "ints"} => g[y].items \in Seq(Nums)
               /\ g[y].kind = "atype" => g[y].items \in Seq(All \cup {gone})
    <3>1. CASE y = a
      <4>1. g[y].kind = "atype" /\ g[y].items = [h[a].items EXCEPT ![i] = x] BY <1>7, <3>1
      <4> QED BY <1>6, <1>9, <4>1
    <3>2. CASE y # a
      <4>1. g[y] = q[y] BY <1>5, <3>2
      <4> QED BY <1>2, <4>1 DEF HeapOK
    <3> QED BY <3>1, <3>2
  <2> QED BY <1>5, <2>1 DEF HeapOK
<1>11. o \in All BY <1>6, <1>8
<1>12. ASSUME NEW y \in All PROVE NL(g, <<>>, y) = NL(h, <<>>, y) - One(y = o) + One(y = x)
  <2>0. x # gone BY RefCountConstants DEF All
  <2>1. Has1(h, <<>>, a, i) /\ Has1(g, <<>>, a, i) /\ g[a].items[i] = x
    <3>1. DOMAIN g[a].items = DOMAIN h[a].items /\ g[a].items[i] = x BY <1>6, <1>7, <1>8
    <3> QED BY <1>7, <2>0, <3>1 DEF Has1
  <2>2. ASSUME NEW w \in All, NEW j \in 1 .. MaxItems, w # a \/ j # i
        PROVE  Has1(h, <<>>, w, j) /\ h[w].items[j] = y <=> Has1(g, <<>>, w, j) /\ g[w].items[j] = y
    <3>1. CASE w # a BY <1>7, <3>1 DEF Has1
    <3>2. CASE w = a /\ j # i
      <4>1. DOMAIN g[a].items = DOMAIN h[a].items /\ (j \in DOMAIN h[a].items => g[a].items[j] = h[a].items[j])
        BY <1>6, <1>7, <3>2
      <4> QED BY <1>7, <3>2, <4>1 DEF Has1
    <3> QED BY <2>2, <3>1, <3>2
  <2>3. NL(g, <<>>, y) = NL(h, <<>>, y) - One(y = h[a].items[i]) + One(y = g[a].items[i])
    <3>1. \A w \in All, j \in 1 .. MaxItems : w # a \/ j # i =>
            (Has1(h, <<>>, w, j) /\ h[w].items[j] = y <=> Has1(g, <<>>, w, j) /\ g[w].items[j] = y)
      BY <2>2
    <3>2. i \in 1 .. MaxItems BY <1>8
    <3>3. Has1(h, <<>>, a, i) /\ Has1(g, <<>>, a, i) BY <2>1
    <3> QED BY ONLY <3>1, <3>2, <3>3, a \in All, ListsReplaced
  <2> QED BY <2>1, <2>3
<1> HIDE DEF o
<1>13. ASSUME NEW y \in All PROVE g[y].refcnt = Total(g, s, f, <<Drop(o)>>, <<>>, y)
  <2>1. g[y].refcnt = h[y].refcnt + One(y = x) BY <1>7
  <2>2. One(y = no_value) \in Nat /\ One(y = o) \in Nat /\ One(y = x) \in Nat BY DEF One
  <2> HIDE DEF NS, NL, NV
  <2> QED BY <1>12, <2>1, <2>2, CoreCounts, PlacesEmpty, DropOne DEF Total
<1>14. <<Drop(o)>> \in Seq(Frees) BY <1>11, DropIs
<1>15. Core(g, s, f, <<Drop(o)>>, <<>>) BY <1>1, <1>10, <1>13, <1>14, NoFrames DEF Core
<1> QED BY <1>7, <1>15 DEF g, q, o

(* h with x exploded to the items its, as far as they were made.             *)
AsExploded(h, g, x, its) ==
  /\ g = [y \in All |-> g[y]] /\ g[x] = [kind |-> "atype", refcnt |-> 0, items |-> its]
  /\ \A i, j \in DOMAIN its : its[i] \in All /\ its[i] = its[j] => i = j
  /\ \A j \in DOMAIN its : its[j] # x
  /\ \A y \in All : (\E j \in DOMAIN its : its[j] = y) =>
       h[y].kind = "free" /\ \E n \in Nums : g[y] = [kind |-> "int", refcnt |-> 1, items |-> <<n>>]
  /\ \A y \in All : y # x /\ ~ (\E j \in DOMAIN its : its[j] = y) => g[y] = h[y]

(* explode: a new list x, whose items are gone or new integers.              *)
LEMMA CoreExploded ==
  ASSUME NEW h, NEW s, NEW f, NEW t, Core(h, s, f, t, <<>>), NEW x \in All, h[x].kind = "free",
         NEW its \in Seq(All \cup {gone}), Len(its) <= MaxItems, NEW g, AsExploded(h, g, x, its)
  PROVE  Core(g, s, f, t, <<>>)
<1> USE DEF AsExploded
<1>1. HeapOK(h) /\ s \in Seq(All) /\ f \in [Vars -> All] /\ t \in Seq(Frees) BY DEF Core
<1>2. MaxItems \in Nat \ {0} BY RefCountConstants
<1>3. its \in Seq(Words)
  <2>1. All \cup {gone} \subseteq Words BY DEF Words
  <2> QED BY <2>1, SeqMonotonic
<1>4. ASSUME NEW y \in All
      PROVE  /\ g[y] \in Blocks
             /\ Len(g[y].items) <= MaxItems
             /\ g[y].kind = "free" => g[y].refcnt = 0
             /\ g[y].kind \in {"int", "phrase"} => Len(g[y].items) = 1
             /\ g[y].kind \in {"int", "ints"} => g[y].items \in Seq(Nums)
             /\ g[y].kind = "atype" => g[y].items \in Seq(All \cup {gone})
  <2>1. CASE y = x
    <3>1. g[y].kind = "atype" /\ g[y].items = its /\ g[y].refcnt = 0 BY <2>1
    <3>2. g[y] \in Blocks BY <1>3, <2>1 DEF Blocks, Kinds
    <3> QED BY <3>1, <3>2
  <2>2. CASE y # x /\ \E j \in DOMAIN its : its[j] = y
    <3>1. PICK n \in Nums : g[y] = [kind |-> "int", refcnt |-> 1, items |-> <<n>>] BY <2>2
    <3>2. PICK m : m = <<n>> OBVIOUS
    <3>3. m \in Seq(Nums) /\ m \in Seq(Words) /\ Len(m) = 1 BY <3>2 DEF Words
    <3>4. g[y] = [kind |-> "int", refcnt |-> 1, items |-> m] BY <3>1, <3>2
    <3>5. g[y].kind = "int" /\ g[y].items = m /\ g[y].refcnt = 1 BY <3>4
    <3>6. g[y] \in Blocks BY <3>3, <3>4 DEF Blocks, Kinds
    <3>7. 1 <= MaxItems BY <1>2
    <3>8. Len(g[y].items) = 1 /\ g[y].items \in Seq(Nums) BY <3>3, <3>5
    <3> QED BY <3>5, <3>6, <3>7, <3>8
  <2>3. CASE y # x /\ ~ \E j \in DOMAIN its : its[j] = y
    <3>1. g[y] = h[y] BY <2>3
    <3> QED BY <1>1, <3>1 DEF HeapOK
  <2> QED BY <2>1, <2>2, <2>3
<1>5. HeapOK(g)
  <2>1. g \in [All -> Blocks] BY <1>4
  <2> QED BY <1>4, <2>1 DEF HeapOK
<1>6. ASSUME NEW y \in All PROVE NS(its, y) = One(\E j \in DOMAIN its : its[j] = y)
  <2>1. CASE \E j \in DOMAIN its : its[j] = y
    <3>1. PICK j \in DOMAIN its : its[j] = y BY <2>1
    <3>2. Places(its, y) = {j} BY <3>1 DEF Places
    <3> QED BY <2>1, <3>2, FS_Singleton DEF NS, One
  <2>2. CASE ~ \E j \in DOMAIN its : its[j] = y
    <3>1. Places(its, y) = {} BY <2>2 DEF Places
    <3> QED BY <2>2, <3>1, FS_EmptySet DEF NS, One
  <2> QED BY <2>1, <2>2
<1>7. ASSUME NEW y \in All PROVE g[y].refcnt = h[y].refcnt + NS(its, y)
  <2>0. h[y].refcnt \in Nat /\ (h[y].kind = "free" => h[y].refcnt = 0) BY <1>1, HeapFacts DEF HeapOK
  <2>1. CASE y = x
    <3>1. g[y].refcnt = 0 /\ h[y].refcnt = 0 BY <2>0, <2>1
    <3>2. NS(its, y) = 0 BY <1>6, <2>1 DEF One
    <3> QED BY <3>1, <3>2
  <2>2. CASE y # x /\ \E j \in DOMAIN its : its[j] = y
    <3>1. g[y].refcnt = 1 /\ h[y].refcnt = 0 BY <2>0, <2>2
    <3>2. NS(its, y) = 1 BY <1>6, <2>2 DEF One
    <3> QED BY <3>1, <3>2
  <2>3. CASE y # x /\ ~ \E j \in DOMAIN its : its[j] = y
    <3>1. g[y].refcnt = h[y].refcnt BY <2>3
    <3>2. NS(its, y) = 0 BY <1>6, <2>3 DEF One
    <3> QED BY <2>0, <3>1, <3>2
  <2> QED BY <2>1, <2>2, <2>3
<1>8. ASSUME NEW y \in All PROVE NL(g, <<>>, y) = NL(h, <<>>, y) + NS(its, y)
  <2>1. y # gone BY RefCountConstants DEF All
  <2>2. g[x].kind = "atype" /\ g[x].items = its /\ h[x].kind # "atype" OBVIOUS
  <2>3. \A w \in All, j \in 1 .. MaxItems : w # x =>
          (Has1(h, <<>>, w, j) /\ h[w].items[j] = y <=> Has1(g, <<>>, w, j) /\ g[w].items[j] = y)
    <3> TAKE w \in All, j \in 1 .. MaxItems
    <3> HAVE w # x
    <3>1. CASE \E i \in DOMAIN its : its[i] = w
      <4>1. h[w].kind = "free" /\ g[w].kind = "int" BY <3>1
      <4> QED BY <4>1 DEF Has1
    <3>2. CASE ~ \E i \in DOMAIN its : its[i] = w
      <4>1. g[w] = h[w] BY <3>2
      <4> QED BY <4>1 DEF Has1
    <3> QED BY <3>1, <3>2
  <2> QED BY <2>1, <2>2, <2>3, ListsMore
<1>9. ASSUME NEW y \in All PROVE g[y].refcnt = Total(g, s, f, t, <<>>, y)
  <2>1. NS(its, y) \in Nat BY PlacesFinite
  <2>2. One(y = no_value) \in Nat BY DEF One
  <2>3. g[y].refcnt = h[y].refcnt + NS(its, y) /\ NL(g, <<>>, y) = NL(h, <<>>, y) + NS(its, y) BY <1>7, <1>8
  <2>4. PICK m : m = NS(its, y) OBVIOUS
  <2> QED BY <2>1, <2>2, <2>3, <2>4, CoreCounts DEF Total
<1> QED BY <1>1, <1>5, <1>9, NoFrames DEF Core

(* Which items the array in the last frame still has.                        *)
LastIs(fs, w, n)    == fs # <<>> /\ w = fs[Len(fs)].arr /\ n = fs[Len(fs)].next
StillHas(h, w, n, j) == h[w].kind = "atype" /\ j \in DOMAIN h[w].items /\ h[w].items[j] # gone /\ j >= n

LEMMA LastFrame ==
  ASSUME NEW h, NEW fs, FramesOK(h, fs), NEW w, NEW n, LastIs(fs, w, n)
  PROVE  /\ Len(fs) \in DOMAIN fs /\ Len(fs) \in Nat \ {0} /\ DOMAIN fs = 1 .. Len(fs)
         /\ w \in All /\ n \in Nat \ {0}
<1>0. fs # <<>> /\ w = fs[Len(fs)].arr /\ n = fs[Len(fs)].next BY DEF LastIs
<1>1. fs \in Seq(Visits) BY DEF FramesOK
<1>2. Len(fs) \in Nat \ {0} /\ DOMAIN fs = 1 .. Len(fs) BY <1>0, <1>1, EmptySeq
<1>3. Len(fs) \in DOMAIN fs BY <1>2
<1>4. fs[Len(fs)] \in Visits BY <1>1, <1>3
<1> QED BY <1>0, <1>2, <1>3, <1>4 DEF Visits

LEMMA LastOnce ==
  ASSUME NEW h, NEW fs, FramesOK(h, fs), NEW w, NEW n, LastIs(fs, w, n)
  PROVE  \A k \in DOMAIN fs : fs[k].arr = w => k = Len(fs)
<1>1. Len(fs) \in DOMAIN fs BY LastFrame
<1>2. w = fs[Len(fs)].arr BY DEF LastIs
<1> QED BY <1>1, <1>2 DEF FramesOK

LEMMA LastHas ==
  ASSUME NEW h, NEW fs, FramesOK(h, fs), NEW w, NEW n, LastIs(fs, w, n)
  PROVE  \A j : Has1(h, fs, w, j) <=> StillHas(h, w, n, j)
<1>1. Len(fs) \in DOMAIN fs BY LastFrame
<1>2. \A k \in DOMAIN fs : fs[k].arr = w => k = Len(fs) BY LastOnce
<1>3. w = fs[Len(fs)].arr /\ n = fs[Len(fs)].next BY DEF LastIs
<1> QED BY <1>1, <1>2, <1>3 DEF Has1, StillHas

(* freeup and freeit, a step at a time.                                      *)
LEMMA FramesAdded ==
  ASSUME NEW h, HeapOK(h), NEW fs, FramesOK(h, fs), NEW x \in All
  PROVE  LET gs == Append(fs, [arr |-> x, next |-> 1])
         IN  /\ gs \in Seq(Visits)
             /\ \A w \in All : \A j : Has1(h, gs, w, j) <=> Has1(h, fs, w, j)
             /\ \A k \in DOMAIN fs : gs[k] = fs[k]
             /\ DOMAIN gs = DOMAIN fs \cup {Len(fs) + 1} /\ Len(fs) + 1 \notin DOMAIN fs
             /\ gs[Len(fs) + 1] = [arr |-> x, next |-> 1]
<1> DEFINE n == [arr |-> x, next |-> 1]
           gs == Append(fs, n)
<1>1. fs \in Seq(Visits) /\ n \in Visits BY DEF FramesOK, Visits
<1> HIDE DEF n
<1>2. gs \in Seq(Visits) /\ Len(fs) \in Nat /\ DOMAIN gs = 1 .. Len(fs) + 1 /\ DOMAIN fs = 1 .. Len(fs) BY <1>1
<1>3. (\A k \in DOMAIN fs : gs[k] = fs[k]) /\ gs[Len(fs) + 1] = n BY <1>1
<1> HIDE DEF gs
<1>4. DOMAIN gs = DOMAIN fs \cup {Len(fs) + 1} /\ Len(fs) + 1 \notin DOMAIN fs BY <1>2
<1>5. n.arr = x /\ n.next = 1 BY DEF n
<1>6. ASSUME NEW w \in All, NEW j PROVE Has1(h, gs, w, j) <=> Has1(h, fs, w, j)
  <2>1. j \in DOMAIN h[w].items => j >= 1 BY HeapFacts
  <2>2. \A k \in DOMAIN gs : k \in DOMAIN fs \/ gs[k] = n BY <1>3, <1>4
  <2>3. Has1(h, gs, w, j) => Has1(h, fs, w, j) BY <1>3, <1>4 DEF Has1
  <2>4. Has1(h, fs, w, j) => Has1(h, gs, w, j) BY <1>3, <1>5, <2>1, <2>2 DEF Has1
  <2> QED BY <2>3, <2>4
<1> QED BY <1>2, <1>3, <1>4, <1>6 DEF gs, n

Now == Core(heap, stk, valu, todo, frames)

(* Arrays keep kind and items.                                               *)
AsBefore(y) == kind(y)' = kind(y) /\ items(y)' = items(y)

LEMMA FreeupIs ==
  ASSUME Now, TodoOK, Freeup
  PROVE  /\ Now' /\ UNCHANGED <<stk, valu, pc, r, unseen>>
         /\ todo # <<>> /\ frames = <<>> /\ todo' = Tail(todo)
         /\ LET t == todo[1] IN
              /\ t \in Frees /\ InUse(t.arr)
              /\ heap'[t.arr].refcnt = refcnt(t.arr) - One(t.drop) /\ heap'[t.arr].refcnt \in Nat
              /\ \A y \in All : AsBefore(y) /\ (y # t.arr => refcnt(y)' = refcnt(y))
              /\ frames' = IF heap'[t.arr].refcnt = 0 THEN <<[arr |-> t.arr, next |-> 1]>> ELSE <<>>
         /\ \A w \in All : \A j : Has1(heap, frames, w, j)' <=> Has1(heap, frames, w, j)
<1> DEFINE t == todo[1]
           x == t.arr
           n == refcnt(x) - One(t.drop)
           g == [heap EXCEPT ![x].refcnt = n]
           gs == IF n = 0 THEN <<[arr |-> x, next |-> 1]>> ELSE <<>>
<1>1. HeapOK(heap) /\ stk \in Seq(All) /\ valu \in [Vars -> All] /\ todo \in Seq(Frees) BY DEF Now, Core
<1>2. frames = <<>> /\ todo # <<>> /\ todo' = Tail(todo) /\ UNCHANGED <<stk, valu, pc, r, unseen>> BY DEF Freeup
<1>3. 1 \in DOMAIN todo /\ Head(todo) = t /\ t \in Frees /\ Tail(todo) \in Seq(Frees)
  <2>1. Len(todo) \in Nat \ {0} BY <1>1, <1>2, EmptySeq
  <2>2. 1 \in DOMAIN todo BY <1>1, <2>1
  <2> QED BY <1>1, <1>2, <2>2
<1>4. x \in All /\ t.drop \in BOOLEAN BY <1>3 DEF Frees
<1>5. refcnt(x) \in Nat BY <1>1, <1>4, HeapFacts DEF refcnt
<1>6. n \in Nat /\ heap[x].kind # "free"
  <2>1. CASE t.drop
    <3>1. t = Drop(x) BY <1>3, <2>1, DropIs
    <3>2. heap[x].refcnt > 0 /\ heap[x].kind # "free" BY <1>3, <1>4, <3>1, Referred DEF Now
    <3> QED BY <1>5, <2>1, <3>2 DEF One, refcnt
  <2>2. CASE ~t.drop
    <3>0. t = Free(x) BY <1>3, <2>2, DropIs
    <3>1. InUse(x) BY <1>3, <1>4, <3>0 DEF TodoOK
    <3> QED BY <1>5, <2>2, <3>1 DEF One, InUse, kind
  <2> QED BY <2>1, <2>2
<1>7. heap' = g /\ frames' = gs
  <2>1. (IF t.drop THEN refcnt(x) - 1 ELSE refcnt(x)) = n BY <1>5 DEF One
  <2> QED BY <1>3, <2>1 DEF Freeup
<1>8. /\ g[x] = [kind |-> heap[x].kind, items |-> heap[x].items, refcnt |-> n]
      /\ \A y \in All : y # x => g[y] = heap[y]
      /\ g \in [All -> Blocks]
  <2>1. heap[x] = [kind |-> heap[x].kind, items |-> heap[x].items, refcnt |-> heap[x].refcnt]
        /\ heap[x].kind \in Kinds /\ heap[x].items \in Seq(Words)
    BY <1>1, <1>4, HeapFacts
  <2>2. heap \in [All -> Blocks] BY <1>1 DEF HeapOK
  <2> HIDE DEF n, x
  <2>3. g = [y \in All |-> IF y = x THEN [heap[x] EXCEPT !.refcnt = n] ELSE heap[y]] BY <2>2
  <2>4. g[x] = [kind |-> heap[x].kind, items |-> heap[x].items, refcnt |-> n] BY <1>4, <2>1, <2>3
  <2>5. g[x] \in Blocks BY <1>6, <2>1, <2>4 DEF Blocks
  <2> QED BY <2>2, <2>3, <2>4, <2>5
<1> HIDE DEF g
<1>9. /\ heap'[x].refcnt = n
      /\ \A y \in All : AsBefore(y) /\ (y # x => refcnt(y)' = refcnt(y))
  <2>1. heap'[x].refcnt = n BY <1>7, <1>8
  <2>2. ASSUME NEW y \in All PROVE AsBefore(y) /\ (y # x => refcnt(y)' = refcnt(y))
    <3>1. CASE y = x
      <4>1. g[y].kind = heap[y].kind /\ g[y].items = heap[y].items BY <1>8, <3>1
      <4> QED BY <1>7, <3>1, <4>1 DEF AsBefore, kind, items
    <3>2. CASE y # x BY <1>7, <1>8, <3>2 DEF AsBefore, kind, items, refcnt
    <3> QED BY <3>1, <3>2
  <2> QED BY <2>1, <2>2
<1>10. HeapOK(g)
  <2>1. Recount(heap, g)
    <3>1. \A y \in All : g[y].kind = heap[y].kind /\ g[y].items = heap[y].items BY <1>8
    <3> QED BY <1>8, <3>1 DEF Recount
  <2>2. \A y \in All : g[y].kind = "free" => g[y].refcnt = 0
    <3> TAKE y \in All
    <3>1. CASE y = x
      <4>1. g[y].kind = heap[x].kind BY <1>8, <3>1
      <4> QED BY <1>6, <4>1
    <3>2. CASE y # x
      <4>1. g[y] = heap[y] BY <1>8, <3>2
      <4> QED BY <1>1, <4>1 DEF HeapOK
    <3> QED BY <3>1, <3>2
  <2> QED BY <1>1, <2>1, <2>2, HeapRecounted
<1>11. FramesOK(g, gs) /\ \A w \in All : \A j : Has1(g, gs, w, j) <=> Has1(heap, <<>>, w, j)
  <2>1. \A w \in All : \A j : Has1(g, <<>>, w, j) <=> Has1(heap, <<>>, w, j)
    <3>1. \A w \in All : g[w].kind = heap[w].kind /\ g[w].items = heap[w].items BY <1>8
    <3> QED BY <3>1 DEF Has1
  <2>2. CASE n = 0
    <3>1. gs = <<[arr |-> x, next |-> 1]>> BY <2>2
    <3>2. PICK e : e = [arr |-> x, next |-> 1] OBVIOUS
    <3>3. e \in Visits /\ e.arr = x /\ e.next = 1 BY <1>4, <3>2 DEF Visits
    <3>4. gs \in Seq(Visits) /\ DOMAIN gs = {1} /\ gs[1] = e BY <3>1, <3>2, <3>3
    <3> HIDE DEF gs, n, x
    <3>5. \A k \in DOMAIN gs : gs[k].arr = x /\ gs[k].next = 1 BY <3>3, <3>4
    <3>6. g[x].refcnt = 0 /\ g[x].kind # "free" BY <1>6, <1>8, <2>2
    <3>7. FramesOK(g, gs) BY <3>4, <3>5, <3>6 DEF FramesOK
    <3>8. ASSUME NEW w \in All, NEW j PROVE Has1(g, gs, w, j) <=> Has1(g, <<>>, w, j)
      <4>1. j \in DOMAIN g[w].items => j >= 1 BY <1>10, HeapFacts
      <4> QED BY <3>5, <4>1 DEF Has1
    <3> QED BY <2>1, <3>7, <3>8
  <2>3. CASE n # 0
    <3>1. gs = <<>> BY <2>3
    <3> QED BY <2>1, <3>1, NoFrames
  <2> QED BY <2>2, <2>3
<1>12. \A y \in All : NL(g, gs, y) = NL(heap, <<>>, y)
  <2> TAKE y \in All
  <2>1. \A w \in All, j \in 1 .. MaxItems :
          Has1(heap, <<>>, w, j) /\ heap[w].items[j] = y <=> Has1(g, gs, w, j) /\ g[w].items[j] = y
    <3>1. \A w \in All : g[w].items = heap[w].items BY <1>8
    <3> QED BY <1>11, <3>1
  <2> HIDE DEF gs
  <2> QED BY <2>1, ListsSame
<1>13. ASSUME NEW y \in All PROVE g[y].refcnt = Total(g, stk, valu, Tail(todo), gs, y)
  <2>1. g[y].refcnt = heap[y].refcnt - One(Drop(y) = t)
    <3>1. CASE y = x
      <4>1. Drop(y) = t <=> t.drop BY <1>3, <3>1, DropIs DEF Drop
      <4> QED BY <1>4, <1>8, <3>1, <4>1 DEF One, refcnt
    <3>2. CASE y # x
      <4>1. Drop(y) # t BY <3>2 DEF Drop
      <4>2. heap[y].refcnt \in Nat BY <1>1, HeapFacts
      <4> QED BY <1>8, <3>2, <4>1, <4>2 DEF One
    <3> QED BY <3>1, <3>2
  <2>2. NS(todo, Drop(y)) = NS(Tail(todo), Drop(y)) + One(Drop(y) = t) BY <1>1, <1>2, <1>3, PlacesTail
  <2>3. NS(Tail(todo), Drop(y)) \in Nat BY <1>3, PlacesFinite
  <2>4. One(y = no_value) \in Nat /\ One(Drop(y) = t) \in Nat BY DEF One
  <2>5. NL(g, gs, y) = NL(heap, <<>>, y) BY <1>12
  <2>6. Core(heap, stk, valu, todo, <<>>) BY <1>2 DEF Now
  <2> HIDE DEF gs, x, n, t
  <2> QED BY <2>1, <2>2, <2>3, <2>4, <2>5, <2>6, CoreCounts DEF Total
<1>14. Now' BY <1>1, <1>2, <1>3, <1>7, <1>10, <1>11, <1>13 DEF Now, Core
<1>15. \A w \in All : \A j : Has1(heap, frames, w, j)' <=> Has1(heap, frames, w, j)
  BY <1>2, <1>7, <1>11 DEF Has1
<1> QED BY <1>2, <1>3, <1>4, <1>6, <1>7, <1>9, <1>14, <1>15 DEF InUse, kind

LEMMA FramesAdvanced ==
  ASSUME NEW h, HeapOK(h), NEW fs, FramesOK(h, fs), fs # <<>>, NEW w, NEW k,
         w = fs[Len(fs)].arr, k = fs[Len(fs)].next
  PROVE  LET gs == Advance(fs)
         IN  /\ FramesOK(h, gs) /\ gs # <<>> /\ DOMAIN gs = DOMAIN fs
             /\ \A l \in DOMAIN fs : gs[l].arr = fs[l].arr
             /\ \A u \in All : \A j : Has1(h, gs, u, j) <=> Has1(h, fs, u, j) /\ ~(u = w /\ j = k)
<1> DEFINE n == Len(fs)
           gs == Advance(fs)
<1>0. LastIs(fs, w, k) BY DEF LastIs
<1>1. /\ n \in DOMAIN fs /\ n \in Nat \ {0} /\ DOMAIN fs = 1 .. n
      /\ w \in All /\ k \in Nat \ {0} /\ fs[n] = [arr |-> w, next |-> k]
      /\ \A l \in DOMAIN fs : fs[l].arr = w => l = n
  <2>1. /\ n \in DOMAIN fs /\ n \in Nat \ {0} /\ DOMAIN fs = 1 .. n
        /\ w \in All /\ k \in Nat \ {0}
    BY <1>0, LastFrame
  <2>2. fs[n] \in Visits BY <2>1 DEF FramesOK
  <2>3. fs[n] = [arr |-> w, next |-> k] BY <2>2 DEF Visits
  <2> QED BY <1>0, <2>1, <2>3, LastOnce
<1>2. fs \in Seq(Visits) BY DEF FramesOK
<1>3. gs = [l \in 1 .. n |-> IF l = n THEN [fs[n] EXCEPT !.next = k + 1] ELSE fs[l]] BY <1>1, <1>2 DEF Advance
<1>4. gs[n] = [arr |-> w, next |-> k + 1] BY <1>1, <1>3
<1>5. \A l \in DOMAIN fs : l # n => gs[l] = fs[l] BY <1>1, <1>3
<1>6. gs \in Seq(Visits) /\ DOMAIN gs = DOMAIN fs
  <2>1. gs[n] \in Visits
    <3>1. k + 1 \in Nat \ {0} BY <1>1
    <3> HIDE DEF gs
    <3> QED BY <1>1, <1>4, <3>1 DEF Visits
  <2>2. \A l \in 1 .. n : gs[l] \in Visits
    <3> HIDE DEF gs, n
    <3> QED BY <1>1, <1>2, <1>5, <2>1
  <2>3. gs = [l \in 1 .. n |-> gs[l]] BY <1>3
  <2> HIDE DEF gs, n
  <2>4. gs \in [1 .. n -> Visits] BY <2>2, <2>3
  <2> QED BY <1>1, <2>4
<1> HIDE DEF gs
<1>7. \A l \in DOMAIN fs : gs[l].arr = fs[l].arr BY <1>1, <1>4, <1>5
<1>8. FramesOK(h, gs) BY <1>6, <1>7 DEF FramesOK
<1>9. ASSUME NEW u \in All, NEW j PROVE Has1(h, gs, u, j) <=> Has1(h, fs, u, j) /\ ~(u = w /\ j = k)
  <2>1. CASE u = w
    <3>0. gs # <<>> BY <1>1, <1>6
    <3>1. Has1(h, fs, u, j) <=> h[u].kind = "atype" /\ j \in DOMAIN h[u].items /\ h[u].items[j] # gone /\ j >= k
      <4>1. Has1(h, fs, w, j) <=> StillHas(h, w, k, j) BY <1>0, LastHas
      <4> QED BY <2>1, <4>1 DEF StillHas
    <3>2. Has1(h, gs, u, j) <=> h[u].kind = "atype" /\ j \in DOMAIN h[u].items /\ h[u].items[j] # gone /\ j >= k + 1
      <4>1. \A l \in DOMAIN gs : gs[l].arr = u => l = n BY <1>1, <1>6, <1>7, <2>1
      <4>2. gs[n].arr = u /\ gs[n].next = k + 1 /\ n \in DOMAIN gs BY <1>1, <1>4, <1>6, <2>1
      <4> HIDE DEF n
      <4> QED BY <4>1, <4>2 DEF Has1
    <3>3. j \in DOMAIN h[u].items => j \in Nat BY HeapFacts
    <3> QED BY <1>1, <2>1, <3>1, <3>2, <3>3
  <2>2. CASE u # w
    <3>1. \A l \in DOMAIN fs : fs[l].arr = u => gs[l] = fs[l]
      <4> TAKE l \in DOMAIN fs
      <4> HAVE fs[l].arr = u
      <4>1. l # n BY <1>1, <2>2
      <4> QED BY <1>5, <4>1
    <3>2. Has1(h, fs, u, j) => Has1(h, gs, u, j) BY <1>6, <1>7, <3>1 DEF Has1
    <3>3. Has1(h, gs, u, j) => Has1(h, fs, u, j) BY <1>6, <1>7, <3>1 DEF Has1
    <3> QED BY <2>2, <3>2, <3>3
  <2> QED BY <2>1, <2>2
<1>10. gs # <<>> BY <1>1, <1>6
<1> QED BY <1>6, <1>7, <1>8, <1>9, <1>10 DEF gs

LEMMA FreeItemIs ==
  ASSUME Now, FreeItem, NEW w, NEW k, NEW it, w = Frame.arr, k = Frame.next, it = items(w)[k]
  PROVE  /\ Now' /\ UNCHANGED <<stk, valu, todo, pc, r, unseen>>
         /\ w \in Framed(frames) /\ w \in All /\ kind(w) = "atype" /\ k \in DOMAIN items(w)
         /\ \A y \in All : AsBefore(y)
         /\ it # gone => it \in All /\ Has1(heap, frames, w, k) /\ refcnt(it) > 0
                         /\ \A y \in All : refcnt(y)' = refcnt(y) - One(y = it)
         /\ it = gone => heap' = heap
         /\ \A u \in All : \A j : Has1(heap, frames, u, j)' <=> Has1(heap, frames, u, j) /\ ~(u = w /\ j = k)
         /\ Framed(frames)' = Framed(frames) \cup (IF it # gone /\ heap'[it].refcnt = 0 THEN {it} ELSE {})
<1> DEFINE rest == Advance(frames)
           n == Len(frames)
<1>1. HeapOK(heap) /\ FramesOK(heap, frames) /\ stk \in Seq(All) /\ valu \in [Vars -> All] /\ todo \in Seq(Frees)
  BY DEF Now, Core
<1>2. /\ frames # <<>> /\ ItemsLeft /\ UNCHANGED <<stk, valu, todo, pc, r, unseen>>
      /\ IF it # gone /\ refcnt(it) > 0
         THEN /\ heap' = Decr(heap, it)
              /\ frames' = IF refcnt(it) = 1 THEN Append(rest, [arr |-> it, next |-> 1]) ELSE rest
         ELSE heap' = heap /\ frames' = rest
  BY DEF FreeItem
<1>3. w = frames[n].arr /\ k = frames[n].next BY DEF Frame, Last
<1>4. /\ n \in DOMAIN frames /\ w \in All /\ k \in Nat \ {0}
      /\ \A j : Has1(heap, frames, w, j) <=>
              heap[w].kind = "atype" /\ j \in DOMAIN heap[w].items /\ heap[w].items[j] # gone /\ j >= k
  <2>1. LastIs(frames, w, k) BY <1>2, <1>3 DEF LastIs
  <2>2. n \in DOMAIN frames /\ w \in All /\ k \in Nat \ {0} BY <1>1, <2>1, LastFrame
  <2>3. \A j : Has1(heap, frames, w, j) <=> StillHas(heap, w, k, j) BY <1>1, <2>1, LastHas
  <2> QED BY <2>2, <2>3 DEF StillHas
<1>5. kind(w) = "atype" /\ k \in DOMAIN items(w)
  <2>1. kind(w) = "atype" /\ k <= tally(w) BY <1>2 DEF ItemsLeft
  <2>2. DOMAIN items(w) = 1 .. tally(w) /\ tally(w) \in Nat BY <1>1, <1>4, HeapFacts DEF items, tally
  <2> QED BY <1>4, <2>1, <2>2
<1>6. it # gone => Has1(heap, frames, w, k) BY <1>4, <1>5 DEF kind, items
<1>7. /\ FramesOK(heap, rest) /\ rest # <<>> /\ DOMAIN rest = DOMAIN frames
      /\ \A l \in DOMAIN frames : rest[l].arr = frames[l].arr
      /\ \A u \in All : \A j : Has1(heap, rest, u, j) <=> Has1(heap, frames, u, j) /\ ~(u = w /\ j = k)
  BY <1>1, <1>2, <1>3, FramesAdvanced
<1> HIDE DEF rest
<1>8. Framed(rest) = Framed(frames) BY <1>7 DEF Framed
<1>9. w \in Framed(frames) BY <1>3, <1>4 DEF Framed
<1>10. CASE it = gone
  <2>1. heap' = heap /\ frames' = rest BY <1>2, <1>10
  <2>2. \A y \in All : NL(heap, rest, y) = NL(heap, frames, y)
    <3> TAKE y \in All
    <3>1. y # gone BY RefCountConstants DEF All
    <3>2. ~Has1(heap, frames, w, k) BY <1>10 DEF Has1, items
    <3>3. \A u \in All, j \in 1 .. MaxItems : Has1(heap, rest, u, j) <=> Has1(heap, frames, u, j) BY <1>7, <3>2
    <3>4. \A u \in All, j \in 1 .. MaxItems :
            Has1(heap, frames, u, j) /\ heap[u].items[j] = y <=> Has1(heap, rest, u, j) /\ heap[u].items[j] = y
      BY <3>3
    <3> QED BY <3>4, ListsSame
  <2>3. Now'
    <3>1. \A y \in All : heap[y].refcnt = Total(heap, stk, valu, todo, rest, y) BY <2>2 DEF Now, Core, Total
    <3> QED BY <1>1, <1>2, <1>7, <2>1, <3>1 DEF Now, Core
  <2>4. \A y \in All : AsBefore(y) BY <2>1 DEF AsBefore, kind, items
  <2>5. \A u \in All : \A j : Has1(heap, frames, u, j)' <=> Has1(heap, frames, u, j) /\ ~(u = w /\ j = k)
    BY <1>7, <2>1 DEF Has1
  <2>6. Framed(frames)' = Framed(frames) BY <1>8, <2>1 DEF Framed
  <2> QED BY <1>2, <1>4, <1>5, <1>9, <1>10, <2>1, <2>3, <2>4, <2>5, <2>6
<1>11. CASE it # gone
  <2>1. it \in All
    <3>1. items(w) \in Seq(All \cup {gone}) BY <1>1, <1>4, <1>5 DEF HeapOK, kind, items
    <3> QED BY <1>5, <1>11, <3>1
  <2>2. refcnt(it) > 0 /\ refcnt(it) \in Nat /\ kind(it) # "free"
    <3>1. \E u \in All : \E j \in DOMAIN heap[u].items : Has1(heap, frames, u, j) /\ heap[u].items[j] = it
      BY <1>4, <1>5, <1>6, <1>11 DEF items
    <3>2. refcnt(it) > 0 /\ kind(it) # "free" BY <2>1, <3>1, Referred DEF Now, refcnt, kind
    <3> QED BY <1>1, <2>1, <3>2, HeapFacts DEF refcnt
  <2> DEFINE g == Decr(heap, it)
             gs == IF refcnt(it) = 1 THEN Append(rest, [arr |-> it, next |-> 1]) ELSE rest
  <2>3. heap' = g /\ frames' = gs BY <1>2, <1>11, <2>2
  <2>4. HeapOK(g) /\ Recount(heap, g) /\ \A y \in All : g[y].refcnt = heap[y].refcnt - One(y = it)
    BY <1>1, <2>1, <2>2, DecrIs DEF refcnt
  <2> HIDE DEF g
  <2>5. \A y \in All : AsBefore(y) /\ refcnt(y)' = refcnt(y) - One(y = it)
    BY <2>3, <2>4 DEF AsBefore, kind, items, refcnt, Recount
  <2>6. heap'[it].refcnt = 0 <=> refcnt(it) = 1
    <3>1. heap'[it].refcnt = refcnt(it) - 1 BY <2>1, <2>3, <2>4 DEF One, refcnt
    <3> QED BY <2>2, <3>1
  <2>7. FramesOK(g, rest)
    <3>1. rest \in Seq(Visits) BY <1>7 DEF FramesOK
    <3>2. ASSUME NEW l \in DOMAIN rest PROVE g[rest[l].arr].kind # "free" /\ g[rest[l].arr].refcnt = 0
      <4>1. rest[l].arr \in All
        <5>1. rest[l] \in Visits BY <3>1
        <5> QED BY <5>1 DEF Visits
      <4>2. heap[rest[l].arr].kind # "free" /\ heap[rest[l].arr].refcnt = 0 BY <1>7 DEF FramesOK
      <4>3. rest[l].arr # it BY <2>2, <4>2 DEF refcnt
      <4> QED BY <2>4, <4>1, <4>2, <4>3 DEF Recount, One
    <3> QED BY <1>7, <3>1, <3>2 DEF FramesOK
  <2>8. /\ FramesOK(g, gs)
        /\ \A u \in All : \A j : Has1(g, gs, u, j) <=> Has1(heap, frames, u, j) /\ ~(u = w /\ j = k)
        /\ Framed(gs) = Framed(frames) \cup (IF refcnt(it) = 1 THEN {it} ELSE {})
    <3>1. \A u \in All : \A j : Has1(g, rest, u, j) <=> Has1(heap, frames, u, j) /\ ~(u = w /\ j = k)
      <4>1. \A u \in All : g[u].kind = heap[u].kind /\ g[u].items = heap[u].items BY <2>4 DEF Recount
      <4>2. \A u \in All : \A j : Has1(g, rest, u, j) <=> Has1(heap, rest, u, j) BY <4>1 DEF Has1
      <4> QED BY <1>7, <4>2
    <3>2. CASE refcnt(it) # 1
      <4>1. gs = rest BY <3>2
      <4> QED BY <1>8, <2>7, <3>1, <3>2, <4>1
    <3>3. CASE refcnt(it) = 1
      <4>1. gs = Append(rest, [arr |-> it, next |-> 1]) BY <3>3
      <4>2. /\ gs \in Seq(Visits)
            /\ \A u \in All : \A j : Has1(g, gs, u, j) <=> Has1(g, rest, u, j)
            /\ \A l \in DOMAIN rest : gs[l] = rest[l]
            /\ DOMAIN gs = DOMAIN rest \cup {Len(rest) + 1} /\ Len(rest) + 1 \notin DOMAIN rest
            /\ gs[Len(rest) + 1] = [arr |-> it, next |-> 1]
        BY <2>1, <2>4, <2>7, <4>1, FramesAdded
      <4> HIDE DEF gs
      <4>3. gs[Len(rest) + 1].arr = it BY <4>2
      <4>4. Framed(gs) = Framed(rest) \cup {it} BY <4>2, <4>3 DEF Framed
      <4>5. g[it].refcnt = 0 /\ g[it].kind # "free"
        <5>1. g[it].refcnt = heap[it].refcnt - 1 BY <2>1, <2>4 DEF One
        <5> QED BY <2>1, <2>2, <2>4, <3>3, <5>1 DEF Recount, refcnt, kind
      <4>6. \A l \in DOMAIN rest : rest[l].arr # it
        <5>1. \A l \in DOMAIN rest : heap[rest[l].arr].refcnt = 0 BY <1>7 DEF FramesOK
        <5> QED BY <2>2, <5>1 DEF refcnt
      <4>7. FramesOK(g, gs)
        <5>1. \A l \in DOMAIN gs : g[gs[l].arr].kind # "free" /\ g[gs[l].arr].refcnt = 0
          BY <2>7, <4>2, <4>3, <4>5 DEF FramesOK
        <5>2. ASSUME NEW l \in DOMAIN gs, NEW m \in DOMAIN gs, gs[l].arr = gs[m].arr PROVE l = m
          <6>1. CASE l \in DOMAIN rest /\ m \in DOMAIN rest BY <2>7, <4>2, <5>2, <6>1 DEF FramesOK
          <6>2. CASE l \notin DOMAIN rest /\ m \in DOMAIN rest
            <7>1. gs[l].arr = it /\ gs[m].arr = rest[m].arr BY <4>2, <4>3, <6>2
            <7> QED BY <4>6, <5>2, <6>2, <7>1
          <6>3. CASE l \in DOMAIN rest /\ m \notin DOMAIN rest
            <7>1. gs[m].arr = it /\ gs[l].arr = rest[l].arr BY <4>2, <4>3, <6>3
            <7> QED BY <4>6, <5>2, <6>3, <7>1
          <6>4. CASE l \notin DOMAIN rest /\ m \notin DOMAIN rest BY <4>2, <6>4
          <6> QED BY <6>1, <6>2, <6>3, <6>4
        <5> QED BY <4>2, <5>1, <5>2 DEF FramesOK
      <4> QED BY <1>8, <3>1, <3>3, <4>2, <4>4, <4>7
    <3> QED BY <3>2, <3>3
  <2> HIDE DEF gs
  <2>9. ASSUME NEW y \in All PROVE NL(heap, frames, y) = NL(g, gs, y) + One(y = it)
    <3>0. k \in 1 .. MaxItems BY <1>1, <1>4, <1>5, HeapFacts DEF items
    <3>1. \A u \in All, j \in 1 .. MaxItems : IsAt(g, gs, u, j, y) <=> IsAt(heap, frames, u, j, y) /\ ~(u = w /\ j = k)
      BY <2>4, <2>8 DEF Recount, IsAt
    <3>2. IsAt(heap, frames, w, k, it) /\ w \in All BY <1>4, <1>6, <1>11 DEF items, IsAt
    <3>3. NL(g, gs, y) \in Nat BY ListsFinite
    <3> QED BY <3>0, <3>1, <3>2, <3>3, ListsLess DEF One
  <2>10. ASSUME NEW y \in All PROVE g[y].refcnt = Total(g, stk, valu, todo, gs, y)
    <3>1. g[y].refcnt = heap[y].refcnt - One(y = it) BY <2>4
    <3>2. NL(heap, frames, y) = NL(g, gs, y) + One(y = it) BY <2>9
    <3>3. One(y = no_value) \in Nat /\ One(y = it) \in Nat /\ NL(g, gs, y) \in Nat BY ListsFinite DEF One
    <3>4. Core(heap, stk, valu, todo, frames) BY DEF Now
    <3> QED BY <3>1, <3>2, <3>3, <3>4, CoreCounts DEF Total
  <2>11. Now' BY <1>1, <1>2, <2>3, <2>4, <2>8, <2>10 DEF Now, Core
  <2>12. \A u \in All : \A j : Has1(heap, frames, u, j)' <=> Has1(heap, frames, u, j) /\ ~(u = w /\ j = k)
    BY <2>3, <2>8 DEF Has1
  <2>13. Framed(frames)' = Framed(frames) \cup (IF heap'[it].refcnt = 0 THEN {it} ELSE {})
    BY <2>3, <2>6, <2>8 DEF Framed
  <2> QED BY <1>2, <1>4, <1>5, <1>6, <1>9, <1>11, <2>1, <2>2, <2>5, <2>11, <2>12, <2>13
<1> QED BY <1>10, <1>11

LEMMA ReleaseIs ==
  ASSUME Now, Release, NEW w, w = Frame.arr
  PROVE  /\ Now' /\ UNCHANGED <<stk, valu, todo, pc, r, unseen>>
         /\ frames # <<>> /\ w \in Framed(frames) /\ w \in All
         /\ kind(w)' = "free" /\ refcnt(w)' = 0 /\ refcnt(w) = 0
         /\ \A y \in All : y # w => heap'[y] = heap[y]
         /\ \A u \in All : \A j : Has1(heap, frames, u, j)' <=> Has1(heap, frames, u, j)
         /\ Framed(frames)' = Framed(frames) \ {w}
<1> DEFINE n == Len(frames)
<1>1. HeapOK(heap) /\ FramesOK(heap, frames) /\ stk \in Seq(All) /\ valu \in [Vars -> All] /\ todo \in Seq(Frees)
  BY DEF Now, Core
<1>2. /\ frames # <<>> /\ ~ItemsLeft /\ UNCHANGED <<stk, valu, todo, pc, r, unseen>>
      /\ heap' = [heap EXCEPT ![w] = free] /\ frames' = SubSeq(frames, 1, n - 1)
  BY DEF Release, Front
<1>3. w = frames[n].arr /\ Frame.next = frames[n].next BY DEF Frame, Last
<1>4. PICK k : k = frames[n].next OBVIOUS
<1>5. n \in DOMAIN frames /\ n \in Nat \ {0} /\ DOMAIN frames = 1 .. n /\ w \in All /\ heap[w].refcnt = 0
      /\ \A l \in DOMAIN frames : frames[l].arr = w => l = n
  <2>1. LastIs(frames, w, k) BY <1>2, <1>3, <1>4 DEF LastIs
  <2>2. n \in DOMAIN frames /\ n \in Nat \ {0} /\ w \in All /\ DOMAIN frames = 1 .. n BY <1>1, <2>1, LastFrame
  <2>3. \A l \in DOMAIN frames : frames[l].arr = w => l = n BY <1>1, <2>1, LastOnce
  <2>4. heap[w].refcnt = 0 BY <1>1, <1>3, <2>2 DEF FramesOK
  <2> QED BY <2>2, <2>3, <2>4
<1>6. \A j : ~Has1(heap, frames, w, j)
  <2>1. LastIs(frames, w, k) BY <1>2, <1>3, <1>4 DEF LastIs
  <2>2. \A j : Has1(heap, frames, w, j) <=> StillHas(heap, w, k, j) BY <1>1, <2>1, LastHas
  <2>3. heap[w].kind # "atype" \/ ~(k <= Len(heap[w].items)) BY <1>2, <1>3, <1>4 DEF ItemsLeft, kind, tally, items
  <2>4. Len(heap[w].items) \in Nat /\ DOMAIN heap[w].items = 1 .. Len(heap[w].items) BY <1>1, <1>5, HeapFacts
  <2>5. \A j \in DOMAIN heap[w].items : j <= Len(heap[w].items) /\ j \in Nat BY <2>4
  <2>6. k \in Nat BY <1>1, <2>1, LastFrame
  <2>7. \A j \in DOMAIN heap[w].items : heap[w].kind = "atype" => ~(j >= k)
    <3>1. PICK m \in Nat : m = Len(heap[w].items) BY <2>4
    <3> QED BY <2>3, <2>5, <2>6, <3>1
  <2> QED BY <2>2, <2>7 DEF StillHas
<1>7. heap \in [All -> Blocks] BY <1>1 DEF HeapOK
<1>8. heap'[w] = free /\ \A y \in All : y # w => heap'[y] = heap[y] BY <1>2, <1>5, <1>7
<1>9. free.kind = "free" /\ free.items = <<>> /\ free.refcnt = 0 BY DEF free
<1>10. HeapOK(heap')
  <2>1. free \in Blocks BY DEF free, Blocks, Kinds
  <2>2. heap' \in [All -> Blocks] BY <1>2, <1>7, <2>1
  <2>3. ASSUME NEW y \in All
        PROVE  /\ Len(heap'[y].items) <= MaxItems
               /\ heap'[y].kind = "free" => heap'[y].refcnt = 0
               /\ heap'[y].kind \in {"int", "phrase"} => Len(heap'[y].items) = 1
               /\ heap'[y].kind \in {"int", "ints"} => heap'[y].items \in Seq(Nums)
               /\ heap'[y].kind = "atype" => heap'[y].items \in Seq(All \cup {gone})
    <3>1. CASE y = w
      <4>1. heap'[y].kind = "free" /\ heap'[y].items = <<>> /\ heap'[y].refcnt = 0 BY <1>8, <1>9, <3>1
      <4>2. Len(<<>>) = 0 /\ 0 <= MaxItems BY RefCountConstants
      <4> QED BY <4>1, <4>2
    <3>2. CASE y # w
      <4>1. heap'[y] = heap[y] BY <1>8, <3>2
      <4> QED BY <1>1, <4>1 DEF HeapOK
    <3> QED BY <3>1, <3>2
  <2> QED BY <2>2, <2>3 DEF HeapOK
<1>11. /\ frames' \in Seq(Visits) /\ DOMAIN frames' = 1 .. n - 1
       /\ \A l \in 1 .. n - 1 : frames'[l] = frames[l]
  <2>1. frames \in Seq(Visits) BY <1>1 DEF FramesOK
  <2>2. Len(SubSeq(frames, 1, Len(frames) - 1)) = Len(frames) - 1
        /\ SubSeq(frames, 1, Len(frames) - 1) \in Seq(Visits)
        /\ \A j \in 1 .. Len(frames) - 1 : SubSeq(frames, 1, Len(frames) - 1)[j] = frames[j]
    BY <1>2, <2>1, PlacesBelow
  <2> QED BY <1>2, <2>2
<1>20. \A l \in 1 .. n - 1 : l \in DOMAIN frames /\ l # n
  <2>1. PICK m \in Nat \ {0} : m = n BY <1>5
  <2>2. \A l \in 1 .. m - 1 : l \in 1 .. m /\ l # m BY <2>1
  <2> QED BY <1>5, <2>1, <2>2
<1>12. Framed(frames') = Framed(frames) \ {w}
  <2>1. \A l \in 1 .. n - 1 : l \in DOMAIN frames /\ l # n BY <1>20
  <2>2. \A l \in DOMAIN frames : l # n => l \in 1 .. n - 1 BY <1>5
  <2> HIDE DEF n
  <2> QED BY <1>3, <1>5, <1>11, <2>1, <2>2 DEF Framed
<1>13. ASSUME NEW u \in All, NEW j PROVE Has1(heap', frames', u, j) <=> Has1(heap, frames, u, j)
  <2>1. CASE u = w
    <3>1. heap'[u].kind # "atype" BY <1>8, <1>9, <2>1
    <3> QED BY <1>6, <2>1, <3>1 DEF Has1
  <2>2. CASE u # w
    <3>1. heap'[u] = heap[u] BY <1>8, <2>2
    <3>2. \A l \in DOMAIN frames : frames[l].arr = u => l \in DOMAIN frames' /\ frames'[l] = frames[l]
      <4> TAKE l \in DOMAIN frames
      <4> HAVE frames[l].arr = u
      <4>1. l # n BY <1>3, <2>2
      <4>2. l \in 1 .. n - 1 BY <1>5, <4>1
      <4> QED BY <1>11, <4>2
    <3>3. \A l \in DOMAIN frames' : l \in DOMAIN frames /\ frames'[l] = frames[l]
      <4> QED BY <1>5, <1>11, <1>20
    <3> QED BY <3>1, <3>2, <3>3 DEF Has1
  <2> QED BY <2>1, <2>2
<1>14. FramesOK(heap', frames')
  <2>1. \A l \in DOMAIN frames' : l \in DOMAIN frames /\ frames'[l] = frames[l] /\ l # n
    <3> QED BY <1>5, <1>11, <1>20
  <2>2. ASSUME NEW l \in DOMAIN frames' PROVE heap'[frames'[l].arr].kind # "free" /\ heap'[frames'[l].arr].refcnt = 0
    <3>1. frames'[l] = frames[l] /\ frames[l].arr # w /\ frames[l] \in Visits BY <1>1, <1>5, <2>1 DEF FramesOK
    <3>2. frames[l].arr \in All BY <3>1 DEF Visits
    <3>3. heap'[frames[l].arr] = heap[frames[l].arr] BY <1>8, <3>1, <3>2
    <3>4. heap[frames[l].arr].kind # "free" /\ heap[frames[l].arr].refcnt = 0 BY <1>1, <2>1 DEF FramesOK
    <3> QED BY <3>1, <3>3, <3>4
  <2>3. \A l, m \in DOMAIN frames' : frames'[l].arr = frames'[m].arr => l = m BY <1>1, <2>1 DEF FramesOK
  <2> QED BY <1>11, <2>2, <2>3 DEF FramesOK
<1>15. \A y \in All : NL(heap', frames', y) = NL(heap, frames, y)
  <2> TAKE y \in All
  <2>1. \A u \in All, j \in 1 .. MaxItems :
          Has1(heap, frames, u, j) /\ heap[u].items[j] = y <=> Has1(heap', frames', u, j) /\ heap'[u].items[j] = y
    <3> TAKE u \in All, j \in 1 .. MaxItems
    <3>1. CASE u = w BY <1>6, <1>13, <3>1
    <3>2. CASE u # w
      <4>1. heap'[u] = heap[u] BY <1>8, <3>2
      <4> QED BY <1>13, <4>1
    <3> QED BY <3>1, <3>2
  <2> QED BY <2>1, ListsSame
<1>16. ASSUME NEW y \in All PROVE heap'[y].refcnt = Total(heap', stk, valu, todo, frames', y)
  <2>1. heap'[y].refcnt = heap[y].refcnt BY <1>5, <1>8, <1>9
  <2>2. heap[y].refcnt = Total(heap, stk, valu, todo, frames, y) BY DEF Now, Core
  <2> QED BY <1>15, <2>1, <2>2 DEF Total
<1>17. Now' BY <1>1, <1>2, <1>10, <1>14, <1>16 DEF Now, Core
<1>18. w \in Framed(frames) BY <1>3, <1>5 DEF Framed
<1>19. kind(w)' = "free" /\ refcnt(w)' = 0 /\ refcnt(w) = 0 BY <1>5, <1>8, <1>9 DEF kind, refcnt
<1> QED BY <1>2, <1>5, <1>8, <1>12, <1>13, <1>17, <1>18, <1>19 DEF Framed

(* What the three steps of freeing have in common.                           *)
Near(y) ==
  \/ todo # <<>> /\ y = todo[1].arr
  \/ \E w \in Framed(frames) : RefersTo(w, y)

GivesUp ==
  /\ Now' /\ UNCHANGED <<stk, valu, pc, r, unseen>>
  /\ todo' = todo \/ (todo # <<>> /\ todo' = Tail(todo))
  /\ \A w, y \in All : RefersTo(w, y)' => RefersTo(w, y)
  /\ \A w, y \in All : w \notin Framed(frames) /\ RefersTo(w, y) => RefersTo(w, y)'
  /\ \A y \in All : AsBefore(y) \/ (y \in Framed(frames) /\ kind(y)' = "free")
  /\ \A y \in All : refcnt(y)' \in Nat /\ refcnt(y)' <= refcnt(y) /\ (refcnt(y)' = refcnt(y) \/ Near(y))
  /\ Framed(frames)' \subseteq All
  /\ \A y \in Framed(frames)' : y \in Framed(frames) \/ (Near(y) /\ refcnt(y)' = 0)
  /\ \A y \in All : kind(y)' # "free" /\ refcnt(y)' = 0 =>
       \/ y \in Framed(frames)'
       \/ refcnt(y) = 0 /\ y \notin Framed(frames) /\ (todo' = todo \/ y # todo[1].arr)

LEMMA NowCounts ==
  ASSUME Now, NEW y \in All
  PROVE  refcnt(y) \in Nat /\ kind(y) \in Kinds /\ DOMAIN items(y) = 1 .. Len(items(y)) /\ Len(items(y)) \in Nat
<1>1. HeapOK(heap) BY DEF Now, Core
<1> QED BY <1>1, HeapFacts DEF refcnt, kind, items

LEMMA NowCountsNext ==
  ASSUME Now', NEW y \in All
  PROVE  refcnt(y)' \in Nat /\ kind(y)' \in Kinds
<1>1. HeapOK(heap') BY DEF Now, Core
<1> QED BY <1>1, HeapFacts DEF refcnt, kind, items

LEMMA FramedAll ==
  /\ Now => Framed(frames) \subseteq All
  /\ Now' => Framed(frames)' \subseteq All
<1>1. ASSUME NEW h, NEW fs, FramesOK(h, fs) PROVE Framed(fs) \subseteq All
  <2>1. \A k \in DOMAIN fs : fs[k] \in Visits BY <1>1 DEF FramesOK
  <2> QED BY <2>1 DEF Framed, Visits
<1>2. Now => FramesOK(heap, frames) BY DEF Now, Core
<1>3. Now' => FramesOK(heap', frames') BY DEF Now, Core
<1>4. Framed(frames)' = Framed(frames') BY DEF Framed
<1> QED BY <1>1, <1>2, <1>3, <1>4

LEMMA FreeupGives == Now /\ TodoOK /\ Freeup => GivesUp
<1> SUFFICES ASSUME Now, TodoOK, Freeup PROVE GivesUp OBVIOUS
<1> DEFINE t == todo[1]
<1>1. /\ Now' /\ UNCHANGED <<stk, valu, pc, r, unseen>>
      /\ todo # <<>> /\ frames = <<>> /\ todo' = Tail(todo)
      /\ t \in Frees /\ InUse(t.arr)
      /\ heap'[t.arr].refcnt = refcnt(t.arr) - One(t.drop) /\ heap'[t.arr].refcnt \in Nat
      /\ \A y \in All : AsBefore(y) /\ (y # t.arr => refcnt(y)' = refcnt(y))
      /\ frames' = IF heap'[t.arr].refcnt = 0 THEN <<[arr |-> t.arr, next |-> 1]>> ELSE <<>>
      /\ \A w \in All : \A j : Has1(heap, frames, w, j)' <=> Has1(heap, frames, w, j)
  BY FreeupIs
<1>2. PICK x : x = t.arr OBVIOUS
<1>3. x \in All BY <1>1, <1>2 DEF Frees
<1>4. refcnt(x)' = refcnt(x) - One(t.drop) /\ refcnt(x)' \in Nat BY <1>1, <1>2 DEF refcnt
<1>5. Framed(frames) = {} BY <1>1 DEF Framed
<1>6. Framed(frames)' = IF refcnt(x)' = 0 THEN {x} ELSE {}
  <2>1. frames' = IF refcnt(x)' = 0 THEN <<[arr |-> x, next |-> 1]>> ELSE <<>> BY <1>1, <1>2 DEF refcnt
  <2>2. CASE refcnt(x)' = 0
    <3>1. PICK e : e = [arr |-> x, next |-> 1] OBVIOUS
    <3>2. frames' = <<e>> /\ e.arr = x BY <2>1, <2>2, <3>1
    <3>3. DOMAIN frames' = {1} /\ frames'[1] = e BY <3>2
    <3> QED BY <2>2, <3>2, <3>3 DEF Framed
  <2>3. CASE refcnt(x)' # 0 BY <2>1, <2>3 DEF Framed
  <2> QED BY <2>2, <2>3
<1>7. Near(x) BY <1>1, <1>2 DEF Near
<1>8. ASSUME NEW w \in All, NEW y \in All PROVE RefersTo(w, y)' <=> RefersTo(w, y)
  <2>1. items(w)' = items(w) /\ \A j : Has1(heap, frames, w, j)' <=> Has1(heap, frames, w, j) BY <1>1 DEF AsBefore
  <2> QED BY <2>1 DEF RefersTo
<1>9. ASSUME NEW y \in All PROVE refcnt(y)' \in Nat /\ refcnt(y)' <= refcnt(y) /\ (refcnt(y)' = refcnt(y) \/ Near(y))
  <2>1. refcnt(y) \in Nat BY NowCounts
  <2>2. CASE y = x
    <3>1. One(t.drop) \in {0, 1} BY DEF One
    <3> HIDE DEF t
    <3> QED BY <1>4, <1>7, <2>1, <2>2, <3>1
  <2>3. CASE y # x
    <3>1. refcnt(y)' = refcnt(y) BY <1>1, <1>2, <2>3
    <3> QED BY <2>1, <3>1
  <2> QED BY <2>2, <2>3
<1>10. \A y \in Framed(frames)' : y \in Framed(frames) \/ (Near(y) /\ refcnt(y)' = 0) BY <1>6, <1>7
<1>11. ASSUME NEW y \in All, refcnt(y)' = 0
       PROVE  \/ y \in Framed(frames)'
              \/ refcnt(y) = 0 /\ y \notin Framed(frames) /\ (todo' = todo \/ y # todo[1].arr)
  <2>1. CASE y = x BY <1>6, <1>11, <2>1
  <2>2. CASE y # x
    <3>1. refcnt(y)' = refcnt(y) BY <1>1, <1>2, <2>2
    <3> QED BY <1>2, <1>5, <1>11, <2>2, <3>1
  <2> QED BY <2>1, <2>2
<1>12. \A y \in All : AsBefore(y) BY <1>1
<1>13. Framed(frames)' \subseteq All BY <1>3, <1>6
<1> QED BY <1>1, <1>8, <1>9, <1>10, <1>11, <1>12, <1>13 DEF GivesUp

LEMMA FreeItemGives == Now /\ FreeItem => GivesUp
<1> SUFFICES ASSUME Now, FreeItem PROVE GivesUp OBVIOUS
<1>1. PICK w, k : w = Frame.arr /\ k = Frame.next OBVIOUS
<1>2. PICK it : it = items(w)[k] OBVIOUS
<1>3. /\ Now' /\ UNCHANGED <<stk, valu, todo, pc, r, unseen>>
      /\ w \in Framed(frames) /\ w \in All /\ kind(w) = "atype" /\ k \in DOMAIN items(w)
      /\ \A y \in All : AsBefore(y)
      /\ it # gone => it \in All /\ Has1(heap, frames, w, k) /\ refcnt(it) > 0
                      /\ \A y \in All : refcnt(y)' = refcnt(y) - One(y = it)
      /\ it = gone => heap' = heap
      /\ \A u \in All : \A j : Has1(heap, frames, u, j)' <=> Has1(heap, frames, u, j) /\ ~(u = w /\ j = k)
      /\ Framed(frames)' = Framed(frames) \cup (IF it # gone /\ heap'[it].refcnt = 0 THEN {it} ELSE {})
  BY <1>1, <1>2, FreeItemIs
<1>4. ASSUME NEW u \in All, NEW y \in All PROVE RefersTo(u, y)' => RefersTo(u, y)
  <2>1. items(u)' = items(u) /\ \A j : Has1(heap, frames, u, j)' => Has1(heap, frames, u, j) BY <1>3 DEF AsBefore
  <2> QED BY <2>1 DEF RefersTo
<1>5. ASSUME NEW u \in All, NEW y \in All, u \notin Framed(frames), RefersTo(u, y) PROVE RefersTo(u, y)'
  <2>1. u # w BY <1>3, <1>5
  <2>2. items(u)' = items(u) /\ \A j : Has1(heap, frames, u, j)' <=> Has1(heap, frames, u, j) BY <1>3, <2>1 DEF AsBefore
  <2> QED BY <1>5, <2>2 DEF RefersTo
<1>6. it # gone => Near(it)
  <2>1. it # gone => RefersTo(w, it) BY <1>2, <1>3 DEF RefersTo
  <2> QED BY <1>3, <2>1 DEF Near
<1>7. ASSUME NEW y \in All PROVE refcnt(y)' = refcnt(y) \/ (y = it /\ it # gone /\ refcnt(y)' = refcnt(y) - 1)
  <2>1. refcnt(y) \in Nat BY NowCounts
  <2>2. CASE it = gone
    <3>1. heap' = heap BY <1>3, <2>2
    <3> QED BY <3>1 DEF refcnt
  <2>3. CASE it # gone
    <3>1. refcnt(y)' = refcnt(y) - One(y = it) BY <1>3, <2>3
    <3> QED BY <2>1, <2>3, <3>1 DEF One
  <2> QED BY <2>2, <2>3
<1>8. ASSUME NEW y \in All PROVE refcnt(y)' \in Nat /\ refcnt(y)' <= refcnt(y) /\ (refcnt(y)' = refcnt(y) \/ Near(y))
  <2>1. refcnt(y) \in Nat /\ refcnt(y)' \in Nat BY <1>3, NowCounts, NowCountsNext
  <2> QED BY <1>6, <1>7, <2>1
<1>9. Framed(frames)' \subseteq All BY <1>3, FramedAll
<1>10. \A y \in Framed(frames)' : y \in Framed(frames) \/ (Near(y) /\ refcnt(y)' = 0) BY <1>3, <1>6 DEF refcnt
<1>11. ASSUME NEW y \in All, refcnt(y)' = 0
       PROVE  \/ y \in Framed(frames)'
              \/ refcnt(y) = 0 /\ y \notin Framed(frames) /\ (todo' = todo \/ y # todo[1].arr)
  <2>1. CASE refcnt(y)' = refcnt(y) BY <1>3, <1>11, <2>1
  <2>2. CASE y = it /\ it # gone BY <1>3, <1>11, <2>2 DEF refcnt
  <2> QED BY <1>7, <2>1, <2>2
<1> QED BY <1>3, <1>4, <1>5, <1>8, <1>9, <1>10, <1>11 DEF GivesUp

LEMMA ReleaseGives == Now /\ Release => GivesUp
<1> SUFFICES ASSUME Now, Release PROVE GivesUp OBVIOUS
<1>1. PICK w : w = Frame.arr OBVIOUS
<1>2. /\ Now' /\ UNCHANGED <<stk, valu, todo, pc, r, unseen>>
      /\ frames # <<>> /\ w \in Framed(frames) /\ w \in All
      /\ kind(w)' = "free" /\ refcnt(w)' = 0 /\ refcnt(w) = 0
      /\ \A y \in All : y # w => heap'[y] = heap[y]
      /\ \A u \in All : \A j : Has1(heap, frames, u, j)' <=> Has1(heap, frames, u, j)
      /\ Framed(frames)' = Framed(frames) \ {w}
  BY <1>1, ReleaseIs
<1>3. \A y \in All : y # w => AsBefore(y) /\ refcnt(y)' = refcnt(y) BY <1>2 DEF AsBefore, kind, items, refcnt
<1>4. ASSUME NEW u \in All, NEW y \in All PROVE RefersTo(u, y)' <=> RefersTo(u, y)
  <2>1. \A j : Has1(heap, frames, u, j)' <=> Has1(heap, frames, u, j) BY <1>2
  <2>2. CASE u = w
    <3>1. \A j : ~Has1(heap, frames, u, j)' BY <1>2, <2>2 DEF Has1, kind
    <3> QED BY <2>1, <3>1 DEF RefersTo
  <2>3. CASE u # w
    <3>1. items(u)' = items(u) BY <1>3, <2>3 DEF AsBefore
    <3> QED BY <2>1, <3>1 DEF RefersTo
  <2> QED BY <2>2, <2>3
<1>5. ASSUME NEW y \in All PROVE refcnt(y)' \in Nat /\ refcnt(y)' <= refcnt(y) /\ refcnt(y)' = refcnt(y)
  <2>1. refcnt(y) \in Nat BY NowCounts
  <2> QED BY <1>2, <1>3, <2>1
<1>6. Framed(frames)' \subseteq All BY <1>2, FramedAll
<1>7. ASSUME NEW y \in All, kind(y)' # "free", refcnt(y)' = 0
      PROVE  y \in Framed(frames)' \/ (refcnt(y) = 0 /\ y \notin Framed(frames))
  BY <1>2, <1>5, <1>7
<1> QED BY <1>2, <1>3, <1>4, <1>5, <1>6, <1>7 DEF GivesUp

LEMMA StrongIs ==
  ASSUME Now, NEW y \in All, NEW P
  PROVE  Strong(y, P) \/ Lasting(y, P) => refcnt(y) > 0 /\ kind(y) # "free"
<1>1. Core(heap, stk, valu, todo, frames) BY DEF Now
<1>2. /\ (\E j \in DOMAIN stk : stk[j] = y) => refcnt(y) > 0
      /\ (\E v \in Vars : valu[v] = y) => refcnt(y) > 0
      /\ (\E w \in All : \E j \in DOMAIN items(w) : Has1(heap, frames, w, j) /\ items(w)[j] = y) => refcnt(y) > 0
      /\ y = no_value => refcnt(y) > 0
      /\ refcnt(y) > 0 => kind(y) # "free"
  BY <1>1, Referred DEF refcnt, kind, items
<1> QED BY <1>2 DEF Strong, Lasting, Firm, RefersTo

LEMMA StrongIsNext ==
  ASSUME Now', NEW y \in All, NEW P
  PROVE  (Strong(y, P) \/ Lasting(y, P))' => refcnt(y)' > 0 /\ kind(y)' # "free"
<1>1. Core(heap', stk', valu', todo', frames') BY DEF Now
<1>2. /\ (\E j \in DOMAIN stk' : stk'[j] = y) => refcnt(y)' > 0
      /\ (\E v \in Vars : valu'[v] = y) => refcnt(y)' > 0
      /\ (\E w \in All : \E j \in DOMAIN items(w)' : Has1(heap', frames', w, j) /\ items(w)'[j] = y) => refcnt(y)' > 0
      /\ y = no_value => refcnt(y)' > 0
      /\ refcnt(y)' > 0 => kind(y)' # "free"
  BY <1>1, Referred DEF refcnt, kind, items
<1> QED BY <1>2 DEF Strong, Lasting, Firm, RefersTo

LEMMA StrongKept ==
  ASSUME UNCHANGED <<stk, valu, r>>, NEW y, NEW P, \A w \in All : w \notin P => (RefersTo(w, y)' <=> RefersTo(w, y))
  PROVE  (Strong(y, P)' <=> Strong(y, P)) /\ (Lasting(y, P)' <=> Lasting(y, P))
<1>1. (\E w \in All \ P : RefersTo(w, y)') <=> (\E w \in All \ P : RefersTo(w, y)) OBVIOUS
<1> QED BY <1>1 DEF Strong, Lasting, Firm

LEMMA StrongMore ==
  ASSUME NEW y, NEW P, NEW Q
  PROVE  P \subseteq Q => (Strong(y, Q) => Strong(y, P)) /\ (Lasting(y, Q) => Lasting(y, P))
BY DEF Strong, Lasting, Firm

(* A freeing gives back no more than P.                                      *)
LEMMA FreeWithin ==
  ASSUME Now, GivesUp, NEW P \in SUBSET All, Within(P)
  PROVE  /\ Within(P)' /\ Framed(frames)' \subseteq P
         /\ \A w, y \in All : w \notin P => (RefersTo(w, y)' <=> RefersTo(w, y))
         /\ \A y \in All : Strong(y, P)' <=> Strong(y, P)
         /\ \A y \in All : y \notin P => AsBefore(y) /\ (refcnt(y)' = refcnt(y) \/ Strong(y, P))
<1>0. todo \in Seq(Frees) BY DEF Now, Core
<1>1. Framed(frames) \subseteq P BY DEF Within
<1>2. \A w, y \in All : w \notin P => (RefersTo(w, y)' <=> RefersTo(w, y)) BY <1>1 DEF GivesUp
<1>3. \A y \in All : Strong(y, P)' <=> Strong(y, P)
  <2> TAKE y \in All
  <2>1. \A w \in All : w \notin P => (RefersTo(w, y)' <=> RefersTo(w, y)) BY <1>2
  <2> QED BY <2>1, StrongKept DEF GivesUp
<1>4. ASSUME NEW y \in All, Near(y) PROVE y \in P \/ Strong(y, P)
  <2>1. CASE todo # <<>> /\ y = todo[1].arr
    <3>1. 1 \in DOMAIN todo BY <1>0, <2>1
    <3> QED BY <2>1, <3>1 DEF Within, Waiting
  <2>2. CASE \E w \in Framed(frames) : RefersTo(w, y) BY <1>1, <2>2 DEF Within
  <2> QED BY <1>4, <2>1, <2>2 DEF Near
<1>5. Framed(frames)' \subseteq P
  <2>1. ASSUME NEW y \in Framed(frames)' PROVE y \in P
    <3>1. y \in All BY DEF GivesUp
    <3>2. CASE y \in Framed(frames) BY <1>1, <3>2
    <3>3. CASE Near(y) /\ refcnt(y)' = 0
      <4>1. ~Strong(y, P)' BY <3>1, <3>3, StrongIsNext DEF GivesUp
      <4> QED BY <1>3, <1>4, <3>1, <3>3, <4>1
    <3> QED BY <3>2, <3>3 DEF GivesUp
  <2> QED BY <2>1
<1>6. \A y \in All : y \notin P => AsBefore(y) /\ (refcnt(y)' = refcnt(y) \/ Strong(y, P)) BY <1>1, <1>4 DEF GivesUp
<1>7. Within(P)'
  <2>2. ASSUME NEW y \in Waiting' PROVE y \in P \/ Strong(y, P)'
    <3>1. y \in Waiting
      <4>1. CASE todo' = todo BY <4>1 DEF Waiting
      <4>2. CASE todo # <<>> /\ todo' = Tail(todo)
        <5>1. \A k \in DOMAIN todo' : k + 1 \in DOMAIN todo /\ todo'[k] = todo[k + 1] BY <1>0, <4>2
        <5> QED BY <5>1 DEF Waiting
      <4> QED BY <4>1, <4>2 DEF GivesUp
    <3>2. y \in P \/ Strong(y, P) BY <3>1 DEF Within
    <3>3. y \in All
      <4>1. \A k \in DOMAIN todo : todo[k] \in Frees BY <1>0
      <4> QED BY <3>1, <4>1 DEF Waiting, Frees
    <3> QED BY <1>3, <3>2, <3>3
  <2>3. ASSUME NEW w \in P, NEW y \in All, RefersTo(w, y)' PROVE y \in P \/ Strong(y, P)'
    <3>1. RefersTo(w, y) BY <2>3 DEF GivesUp
    <3>2. y \in P \/ Strong(y, P) BY <3>1 DEF Within
    <3> QED BY <1>3, <3>2
  <2> QED BY <1>5, <2>2, <2>3 DEF Within
<1> QED BY <1>2, <1>3, <1>5, <1>6, <1>7

(* What waits and drops nothing is still in use.                             *)
LEMMA FreesAre ==
  ASSUME NEW t \in Seq(Frees), NEW k \in DOMAIN t
  PROVE  /\ t[k].arr \in All /\ t[k].drop \in BOOLEAN
         /\ \A y : t[k] = Free(y) <=> ~t[k].drop /\ t[k].arr = y
         /\ \A y : t[k] = Drop(y) <=> t[k].drop /\ t[k].arr = y
<1>1. t[k] \in Frees OBVIOUS
<1>2. t[k] = [arr |-> t[k].arr, drop |-> t[k].drop] BY <1>1 DEF Frees
<1>3. \A y : Free(y).arr = y /\ ~Free(y).drop /\ Drop(y).arr = y /\ Drop(y).drop BY DEF Free, Drop
<1>4. \A y : ~t[k].drop /\ t[k].arr = y => t[k] = Free(y) BY <1>2 DEF Free
<1>5. \A y : t[k].drop /\ t[k].arr = y => t[k] = Drop(y) BY <1>1, <1>2 DEF Drop, Frees
<1> QED BY <1>1, <1>3, <1>4, <1>5 DEF Frees

LEMMA TodoKept == Now /\ TodoOK /\ Freeing => TodoOK'
<1> SUFFICES ASSUME Now, TodoOK, Freeing PROVE TodoOK' OBVIOUS
<1>0. todo \in Seq(Frees) BY DEF Now, Core
<1>1. CASE Freeup
  <2> DEFINE t == todo[1]
  <2>1. /\ todo # <<>> /\ frames = <<>> /\ todo' = Tail(todo) /\ t \in Frees
        /\ heap'[t.arr].refcnt = refcnt(t.arr) - One(t.drop)
        /\ \A y \in All : AsBefore(y) /\ (y # t.arr => refcnt(y)' = refcnt(y))
    BY <1>1, FreeupIs
  <2>2. PICK x : x = t.arr OBVIOUS
  <2>3. x \in All BY <2>1, <2>2 DEF Frees
  <2>4. 1 \in DOMAIN todo /\ \A k \in DOMAIN todo' : k \in Nat /\ 1 < k + 1 /\ k + 1 \in DOMAIN todo /\ todo'[k] = todo[k + 1]
    BY <1>0, <2>1
  <2>5. Framed(frames)' \subseteq {x} /\ (x \in Framed(frames)' => refcnt(x)' = 0)
    <3>1. GivesUp BY <1>1, FreeupGives
    <3>2. Framed(frames) = {} BY <2>1 DEF Framed
    <3>3. \A y \in Framed(frames)' : Near(y) /\ refcnt(y)' = 0 BY <3>1, <3>2 DEF GivesUp
    <3> QED BY <2>2, <3>2, <3>3 DEF Near
  <2>6. ASSUME NEW y \in All, NEW k \in DOMAIN todo', todo'[k] = Free(y) PROVE InUse(y)'
    <3>1. InUse(y) BY <2>4, <2>6 DEF TodoOK
    <3> QED BY <2>1, <3>1 DEF AsBefore, InUse
  <2>7. \A l \in DOMAIN todo' : ~todo'[l].drop => ~t.drop /\ (refcnt(x) > 0 \/ (kind(x) # "atype" /\ x # todo'[l].arr))
    BY <2>2, <2>3, <2>4 DEF TodoOK
  <2>8. (\E l \in DOMAIN todo' : ~todo'[l].drop) => \A y \in All : refcnt(y)' = refcnt(y)
    <3>1. refcnt(x) \in Nat BY <2>3, NowCounts
    <3>2. ~t.drop => refcnt(x)' = refcnt(x) BY <2>1, <2>2, <3>1 DEF One, refcnt
    <3> QED BY <2>1, <2>2, <2>7, <3>2
  <2>9. ASSUME NEW y \in All, NEW k \in DOMAIN todo', NEW l \in DOMAIN todo', k < l, ~todo'[l].drop, y = todo'[k].arr
        PROVE  ~todo'[k].drop /\ (refcnt(y)' > 0 \/ (kind(y)' # "atype" /\ y # todo'[l].arr))
    <3>1. k + 1 < l + 1 BY <2>4, <2>9
    <3>2. ~todo'[k].drop /\ (refcnt(y) > 0 \/ (kind(y) # "atype" /\ y # todo'[l].arr)) BY <2>4, <2>9, <3>1 DEF TodoOK
    <3>3. refcnt(y)' = refcnt(y) /\ kind(y)' = kind(y) BY <2>1, <2>8, <2>9 DEF AsBefore
    <3> QED BY <3>2, <3>3
  <2>10. ASSUME NEW y \in Framed(frames)', NEW l \in DOMAIN todo', ~todo'[l].drop
         PROVE  kind(y)' # "atype" /\ y # todo'[l].arr
    <3>1. y = x /\ refcnt(x)' = 0 BY <2>5
    <3>2. refcnt(x)' = refcnt(x) /\ kind(x)' = kind(x) BY <2>1, <2>3, <2>8, <2>10 DEF AsBefore
    <3> QED BY <2>7, <2>10, <3>1, <3>2
  <2> QED BY <2>6, <2>9, <2>10 DEF TodoOK
<1>2. CASE FreeItem
  <2>1. PICK w : w = Frame.arr OBVIOUS
  <2>2. PICK k, it : k = Frame.next /\ it = items(w)[k] OBVIOUS
  <2>3. w \in Framed(frames) /\ kind(w) = "atype" /\ todo' = todo /\ \A y \in All : AsBefore(y)
    BY <1>2, <2>1, <2>2, FreeItemIs
  <2>4. \A l \in DOMAIN todo : todo[l].drop BY <2>3 DEF TodoOK
  <2>5. \A y, l : l \in DOMAIN todo => todo[l] # Free(y) BY <1>0, <2>4, FreesAre
  <2> QED BY <2>3, <2>4, <2>5 DEF TodoOK
<1>3. CASE Release
  <2>1. PICK w : w = Frame.arr OBVIOUS
  <2>2. /\ todo' = todo /\ w \in Framed(frames) /\ w \in All
        /\ \A y \in All : y # w => heap'[y] = heap[y]
        /\ Framed(frames)' = Framed(frames) \ {w}
    BY <1>3, <2>1, ReleaseIs
  <2>3. \A y \in All : y # w => kind(y)' = kind(y) /\ refcnt(y)' = refcnt(y) BY <2>2 DEF kind, refcnt
  <2>4. \A l \in DOMAIN todo : ~todo[l].drop => todo[l].arr # w BY <2>2 DEF TodoOK
  <2>5. Framed(frames) \subseteq All BY FramedAll
  <2>6. ASSUME NEW y \in All, NEW k \in DOMAIN todo', todo'[k] = Free(y) PROVE InUse(y)'
    <3>1. InUse(y) BY <2>2, <2>6 DEF TodoOK
    <3>2. y # w BY <1>0, <2>2, <2>4, <2>6, FreesAre
    <3> QED BY <2>3, <3>1, <3>2 DEF InUse
  <2>7. ASSUME NEW y \in All, NEW k \in DOMAIN todo', NEW l \in DOMAIN todo', k < l, ~todo'[l].drop, y = todo'[k].arr
        PROVE  ~todo'[k].drop /\ (refcnt(y)' > 0 \/ (kind(y)' # "atype" /\ y # todo'[l].arr))
    <3>1. ~todo[k].drop /\ (refcnt(y) > 0 \/ (kind(y) # "atype" /\ y # todo[l].arr)) BY <2>2, <2>7 DEF TodoOK
    <3>2. y # w BY <2>2, <2>4, <2>7, <3>1
    <3> QED BY <2>2, <2>3, <3>1, <3>2
  <2>8. ASSUME NEW y \in Framed(frames)', NEW l \in DOMAIN todo', ~todo'[l].drop
        PROVE  kind(y)' # "atype" /\ y # todo'[l].arr
    <3>1. y \in Framed(frames) /\ y # w /\ y \in All BY <2>2, <2>5
    <3>2. kind(y) # "atype" /\ y # todo[l].arr BY <2>2, <2>8, <3>1 DEF TodoOK
    <3> QED BY <2>2, <2>3, <3>1, <3>2
  <2> QED BY <2>6, <2>7, <2>8 DEF TodoOK
<1> QED BY <1>1, <1>2, <1>3 DEF Freeing

LEMMA FreeingGives == Now /\ TodoOK /\ Freeing => GivesUp
BY FreeupGives, FreeItemGives, ReleaseGives DEF Freeing

LEMMA GoneKept == Now /\ GivesUp /\ GoneOK => GoneOK'
<1> SUFFICES ASSUME Now, GivesUp, GoneOK, NEW w \in All, NEW j \in DOMAIN items(w)',
                    kind(w)' = "atype", items(w)'[j] = gone
             PROVE  pc' \in Clearing /\ refcnt(w)' = 0
  BY DEF GoneOK
<1>1. AsBefore(w) BY DEF GivesUp
<1>2. kind(w) = "atype" /\ j \in DOMAIN items(w) /\ items(w)[j] = gone BY <1>1 DEF AsBefore
<1>3. pc \in Clearing /\ refcnt(w) = 0 BY <1>2 DEF GoneOK
<1>4. refcnt(w)' \in Nat /\ refcnt(w)' <= refcnt(w) BY DEF GivesUp
<1> QED BY <1>3, <1>4 DEF GivesUp

LEMMA ZeroKept == Now /\ GivesUp /\ ZeroOK => ZeroOK'
<1> SUFFICES ASSUME Now, GivesUp, ZeroOK, NEW w \in All, InUse(w)', refcnt(w)' = 0
             PROVE  \/ w \in Framed(frames)'
                    \/ \E k \in DOMAIN todo' : todo'[k] = Free(w)
                    \/ w \in Locals'
                    \/ pc' = "clearstack"
                    \/ pc' = "clearheap" /\ w \in unseen'
  BY DEF ZeroOK
<1>0. todo \in Seq(Frees) BY DEF Now, Core
<1>1. CASE w \in Framed(frames)' BY <1>1
<1>2. CASE refcnt(w) = 0 /\ w \notin Framed(frames) /\ (todo' = todo \/ w # todo[1].arr)
  <2>1. AsBefore(w) BY <1>2 DEF GivesUp
  <2>2. InUse(w) BY <2>1 DEF AsBefore, InUse
  <2>3. CASE \E k \in DOMAIN todo : todo[k] = Free(w)
    <3>1. PICK k \in DOMAIN todo : todo[k] = Free(w) BY <2>3
    <3>2. CASE todo' = todo BY <3>1, <3>2
    <3>3. CASE todo' = Tail(todo) /\ w # todo[1].arr
      <4>1. todo[k].arr = w BY <3>1 DEF Free
      <4>2. k # 1 BY <3>3, <4>1
      <4>3. k - 1 \in DOMAIN todo' /\ todo'[k - 1] = todo[k] BY <1>0, <3>3, <4>2
      <4> QED BY <3>1, <4>3
    <3> QED BY <1>2, <3>2, <3>3 DEF GivesUp
  <2>4. CASE w \in Locals
    <3>1. Locals' = Locals BY DEF GivesUp, Locals, Outer
    <3> QED BY <2>4, <3>1
  <2>5. CASE pc = "clearstack" \/ (pc = "clearheap" /\ w \in unseen) BY <2>5 DEF GivesUp
  <2> QED BY <1>2, <2>2, <2>3, <2>4, <2>5 DEF ZeroOK
<1> QED BY <1>1, <1>2 DEF GivesUp, InUse

LEMMA WaitingKept ==
  ASSUME Now, GivesUp
  PROVE  /\ Waiting \subseteq All /\ Waiting' \subseteq Waiting
         /\ (\A k \in DOMAIN todo : ~todo[k].drop) => \A k \in DOMAIN todo' : ~todo'[k].drop
<1>0. todo \in Seq(Frees) BY DEF Now, Core
<1>1. \A k \in DOMAIN todo' : \E l \in DOMAIN todo : todo'[k] = todo[l]
  <2>1. CASE todo' = todo BY <2>1
  <2>2. CASE todo # <<>> /\ todo' = Tail(todo)
    <3>1. \A k \in DOMAIN todo' : k + 1 \in DOMAIN todo /\ todo'[k] = todo[k + 1] BY <1>0, <2>2
    <3> QED BY <3>1
  <2> QED BY <2>1, <2>2 DEF GivesUp
<1>2. \A k \in DOMAIN todo : todo[k].arr \in All BY <1>0, FreesAre
<1>3. Waiting \subseteq All BY <1>2 DEF Waiting
<1>4. Waiting' \subseteq Waiting
  <2>1. \A y \in Waiting' : \E k \in DOMAIN todo' : y = todo'[k].arr BY DEF Waiting
  <2> QED BY <1>1, <2>1 DEF Waiting
<1> QED BY <1>1, <1>3, <1>4

LEMMA SimpleKept == ASSUME GivesUp, NEW y \in All, Simple(y) PROVE Simple(y)'
<1>1. kind(y)' = kind(y) \/ kind(y)' = "free" BY DEF GivesUp, AsBefore
<1>2. kind(y)' # "atype" BY <1>1 DEF Simple
<1> QED BY <1>2 DEF GivesUp, Simple

LEMMA ListsRefer == ASSUME NEW w, NEW y, RefersTo(w, y) PROVE kind(w) = "atype"
BY DEF RefersTo, Has1, kind

LEMMA LastingStrong ==
  ASSUME NEW y, NEW P, Now, r.base <= Len(stk), r.base \in Nat, Lasting(y, P) PROVE Strong(y, P)
<1>1. Firm(y, r.base, P) BY DEF Lasting
<1>2. stk \in Seq(All) BY DEF Now, Core
<1>3. \A j \in DOMAIN stk : j <= Len(stk) BY <1>2
<1>4. Firm(y, Len(stk), P) BY <1>1, <1>3 DEF Firm
<1> QED BY <1>4 DEF Strong

LEMMA FreeingIndex == Now /\ GivesUp /\ Registers /\ InIndex => InIndex'
<1> SUFFICES ASSUME Now, GivesUp, Registers, InIndex PROVE InIndex' OBVIOUS
<1> DEFINE P == {y \in All : Simple(y)}
<1>1. /\ r.op = "insert" /\ r.var \in Vars /\ r.outer = <<>> /\ ~r.protect /\ ~r.changed
      /\ r.base <= Len(stk) /\ r.base \in Nat /\ r.x \in Used
  BY DEF InIndex, Registers
<1>2. UNCHANGED <<stk, valu, pc, r, unseen>> BY DEF GivesUp
<1>3. \A w \in P : \A y \in All : ~RefersTo(w, y) BY ListsRefer DEF Simple
<1>4. \A y \in All : Kept(y) => y \in P \/ Strong(y, P)
  <2> TAKE y \in All
  <2>1. Lasting(y, {}) => Lasting(y, P)
    <3>1. (\E w \in All \ {} : RefersTo(w, y)) => \E w \in All \ P : RefersTo(w, y) BY <1>3
    <3> QED BY <3>1 DEF Lasting, Firm
  <2>2. Lasting(y, P) => Strong(y, P) BY <1>1, LastingStrong
  <2> QED BY <2>1, <2>2 DEF Kept
<1>5. Within(P)
  <2>1. Framed(frames) \subseteq P BY FramedAll DEF InIndex
  <2>2. \A y \in Waiting : y \in P \/ Strong(y, P)
    <3>1. Waiting \subseteq All BY WaitingKept
    <3>2. \A y \in Waiting : Kept(y) BY DEF InIndex
    <3> QED BY <1>4, <3>1, <3>2
  <2> QED BY <1>3, <2>1, <2>2 DEF Within
<1>6. P \in SUBSET All OBVIOUS
<1>7. /\ Framed(frames)' \subseteq P
      /\ \A w, y \in All : w \notin P => (RefersTo(w, y)' <=> RefersTo(w, y))
      /\ \A y \in All : y \notin P => AsBefore(y)
  BY <1>5, <1>6, FreeWithin
<1>8. \A w, y \in All : RefersTo(w, y)' <=> RefersTo(w, y) BY <1>3, <1>7 DEF GivesUp
<1>9. ASSUME NEW y \in All, Kept(y) PROVE Kept(y)'
  <2>1. Simple(y) => Simple(y)' BY SimpleKept
  <2>2. Lasting(y, {})' <=> Lasting(y, {}) BY <1>2, <1>8, StrongKept
  <2> QED BY <1>9, <2>1, <2>2 DEF Kept
<1>10. (r.x \in Used)'
  <2>1. PICK x \in All : x = r.x /\ InUse(x) BY <1>1 DEF Used
  <2>2. x \notin P BY <2>1 DEF Simple
  <2>3. InUse(x)' BY <1>7, <2>1, <2>2 DEF AsBefore, InUse
  <2> QED BY <1>2, <2>1, <2>3 DEF Used
<1>11. \A y \in All : (\E j \in DOMAIN stk' : j > r'.base /\ stk'[j] = y) => Kept(y)' BY <1>2, <1>9 DEF InIndex
<1>12. \A y \in Waiting' : Kept(y)' BY <1>9, WaitingKept DEF InIndex
<1>13. \A k \in DOMAIN todo' : ~todo'[k].drop BY WaitingKept DEF InIndex
<1>14. \A y \in Framed(frames)' : Simple(y)' BY <1>6, <1>7, SimpleKept
<1> QED BY <1>1, <1>2, <1>10, <1>11, <1>12, <1>13, <1>14 DEF InIndex

LEMMA OuterTwo ==
  ASSUME NEW f, NEW p, r.outer = <<Free(f), Free(p)>>
  PROVE  Outer = {f, p} /\ Len(r.outer) = 2 /\ r.outer[1] = Free(f) /\ r.outer[2] = Free(p) /\ DOMAIN r.outer = {1, 2}
<1>1. PICK a, b : a = Free(f) /\ b = Free(p) OBVIOUS
<1>2. r.outer = <<a, b>> BY <1>1
<1>3. a.arr = f /\ b.arr = p BY <1>1 DEF Free
<1>4. Len(r.outer) = 2 /\ r.outer[1] = a /\ r.outer[2] = b /\ DOMAIN r.outer = {1, 2} BY <1>2
<1> QED BY <1>1, <1>3, <1>4 DEF Outer

(* What a freeing leaves of the operation under way.                         *)
LEMMA PlaceKept ==
  ASSUME Now, GivesUp, NEW P \in SUBSET All, Apart(P), pc \in Working,
         {r.a, r.x, r.addr} \subseteq All, NEW p \in All, NEW first \in All, ByPlace(p, first)
  PROVE  ByPlace(p, first)' /\ \A y \in All : RefersTo(p, y)' <=> RefersTo(p, y)
<1>0. /\ r.op = "place" /\ ~r.protect /\ r.outer = <<Free(first), Free(p)>>
      /\ InUse(p) /\ refcnt(p) = 0 /\ RefersTo(p, first)
      /\ r.a # p /\ r.x # p
      /\ \A d \in All : d = r.addr => RefersTo(first, d) \/ (refcnt(d) = 0 /\ Simple(d))
  BY DEF ByPlace
<1>1. Within(P) /\ P \cap Locals = {} BY DEF Apart
<1>2. p \notin P /\ first \notin P
  <2>1. Outer = {first, p} BY <1>0, OuterTwo
  <2> QED BY <1>1, <2>1 DEF Locals
<1>3. /\ \A w, y \in All : w \notin P => (RefersTo(w, y)' <=> RefersTo(w, y))
      /\ \A y \in All : y \notin P => AsBefore(y)
  BY <1>1, FreeWithin
<1>4. UNCHANGED r BY DEF GivesUp
<1>5. InUse(p)' BY <1>0, <1>2, <1>3 DEF AsBefore, InUse
<1>6. \A y \in All : refcnt(y) = 0 => refcnt(y)' = 0
  <2> TAKE y \in All
  <2>1. refcnt(y)' \in Nat /\ refcnt(y)' <= refcnt(y) BY DEF GivesUp
  <2> QED BY <2>1
<1>7. refcnt(p)' = 0 BY <1>0, <1>6
<1>8. RefersTo(p, first)' BY <1>0, <1>2, <1>3
<1>9. \A d \in All : d = r'.addr => RefersTo(first, d)' \/ (refcnt(d)' = 0 /\ Simple(d)')
  BY <1>0, <1>2, <1>3, <1>4, <1>6, SimpleKept
<1> QED BY <1>0, <1>2, <1>3, <1>4, <1>5, <1>7, <1>8, <1>9 DEF ByPlace

LEMMA FreeingWorking ==
  ASSUME Now, GivesUp, ~Ready, Registers, InWorking, pc \in Working, NEW P \in SUBSET All, Apart(P)
  PROVE  InWorking' /\ Apart(P)'
<1>1. Within(P) /\ P \cap Locals = {} BY DEF Apart
<1>2. /\ Within(P)'
      /\ \A w, y \in All : w \notin P => (RefersTo(w, y)' <=> RefersTo(w, y))
      /\ \A y \in All : y \notin P => AsBefore(y)
  BY <1>1, FreeWithin
<1>3. UNCHANGED <<stk, valu, pc, r, unseen>> BY DEF GivesUp
<1>4. Locals' = Locals BY <1>3 DEF Locals, Outer
<1>5. {r.a, r.x, r.addr} \subseteq All /\ {r.a, r.x, r.addr} \cap P = {} BY <1>1 DEF InWorking, Locals
<1>6. Apart(P)'
  <2>1. ASSUME NEW a \in All, NEW x \in All, NEW d \in All, At(a, x, d) PROVE (Simple(d) \/ Lasting(d, P \cup {a}))'
    <3>1. Simple(d) => Simple(d)' BY SimpleKept
    <3>2. Lasting(d, P \cup {a})' <=> Lasting(d, P \cup {a}) BY <1>2, <1>3, StrongKept
    <3>3. Simple(d) \/ Lasting(d, P \cup {a}) BY <2>1 DEF Apart
    <3> QED BY <3>1, <3>2, <3>3
  <2>2. \A a, x, d \in All : At(a, x, d)' <=> At(a, x, d) BY <1>3 DEF At
  <2> QED BY <1>1, <1>2, <1>3, <1>4, <2>1, <2>2 DEF Apart
<1>7. ASSUME NEW a \in All, NEW x \in All, NEW d \in All, At(a, x, d) PROVE Works(a, x, d)'
  <2>1. Works(a, x, d) BY <1>7 DEF InWorking
  <2>2. a \notin P /\ x \notin P /\ d \notin P BY <1>5, <1>7 DEF At
  <2>3. AsBefore(a) /\ AsBefore(x) /\ AsBefore(d) BY <1>2, <2>2
  <2>4. InUse(a)' /\ InUse(x)' /\ InUse(d)' BY <2>1, <2>3 DEF AsBefore, InUse, Works
  <2>5. /\ pc' \in {"pack", "unprotect"} => stk'[Len(stk')] = x
        /\ pc' \in {"replace", "implode", "pack"} => kind(a)' \in {"ints", "atype"} /\ r'.i \in DOMAIN items(a)'
    BY <1>3, <2>1, <2>3 DEF Works, AsBefore
  <2>6. r'.changed => refcnt(a)' = 0 /\ a # x
    <3>1. refcnt(a)' \in Nat /\ refcnt(a)' <= refcnt(a) BY DEF GivesUp
    <3>2. r.changed => refcnt(a) = 0 /\ a # x BY <2>1 DEF Works
    <3> QED BY <1>3, <3>1, <3>2
  <2>7. \/ ByInsert' /\ (~r'.changed => a = valu'[r'.var])
        \/ \E p, first \in All :
             /\ ByPlace(p, first)' /\ (~r'.changed => RefersTo(p, a)')
             /\ pc' \in {"replace", "implode", "pack"} => a # first
    <3>1. CASE ByInsert /\ (~r.changed => a = valu[r.var]) BY <1>3, <3>1 DEF ByInsert
    <3>2. ASSUME NEW p \in All, NEW first \in All, ByPlace(p, first), ~r.changed => RefersTo(p, a),
                 pc \in {"replace", "implode", "pack"} => a # first
          PROVE  /\ ByPlace(p, first)' /\ (~r'.changed => RefersTo(p, a)')
                 /\ pc' \in {"replace", "implode", "pack"} => a # first
      <4>1. ByPlace(p, first)' /\ \A y \in All : RefersTo(p, y)' <=> RefersTo(p, y) BY <1>5, <3>2, PlaceKept
      <4> QED BY <1>3, <3>2, <4>1
    <3> QED BY <2>1, <3>1, <3>2 DEF Works
  <2>8. pc' = "replace" =>
          /\ frames' = <<>> /\ (\A k \in DOMAIN todo' : ~todo'[k].drop) /\ \A y \in Waiting' : Strong(y, {})'
          /\ kind(a)' = "ints" => kind(x)' = "int"
          /\ r'.op = "insert" => \E S \in SUBSET All : Avoids(S, a, d)'
    <3> SUFFICES ASSUME pc = "replace"
                 PROVE  /\ frames' = <<>> /\ (\A k \in DOMAIN todo' : ~todo'[k].drop) /\ \A y \in Waiting' : Strong(y, {})'
                        /\ kind(a)' = "ints" => kind(x)' = "int"
                        /\ r'.op = "insert" => \E S \in SUBSET All : Avoids(S, a, d)'
      BY <1>3
    <3>1. /\ frames = <<>> /\ (\A k \in DOMAIN todo : ~todo[k].drop) /\ \A y \in Waiting : Strong(y, {})
          /\ kind(a) = "ints" => kind(x) = "int"
          /\ r.op = "insert" => \E S \in SUBSET All : Avoids(S, a, d)
      BY <2>1 DEF Works
    <3>2. Within({})
      <4>1. Framed(frames) = {} BY <3>1 DEF Framed
      <4> QED BY <3>1, <4>1 DEF Within
    <3>3. /\ Framed(frames)' \subseteq {}
          /\ \A y \in All : Strong(y, {})' <=> Strong(y, {})
          /\ \A y \in All : AsBefore(y)
      BY <3>2, FreeWithin
    <3>4. frames' = <<>>
      <4>1. frames' \in Seq(Visits) BY DEF GivesUp, Now, Core, FramesOK
      <4>2. ~ \E k \in DOMAIN frames' : TRUE BY <3>3 DEF Framed
      <4>3. Len(frames') \in Nat /\ DOMAIN frames' = 1 .. Len(frames') BY <4>1
      <4>4. Len(frames') = 0
        <5>1. Len(frames') # 0 => 1 \in 1 .. Len(frames') BY <4>3
        <5> QED BY <4>2, <4>3, <5>1
      <4> QED BY <4>1, <4>4, EmptySeq
    <3>5. \A y \in Waiting' : Strong(y, {})'
      <4>1. Waiting' \subseteq Waiting /\ Waiting \subseteq All BY WaitingKept
      <4> QED BY <3>1, <3>3, <4>1
    <3>6. \A S \in SUBSET All : Avoids(S, a, d) => Avoids(S, a, d)'
      <4> TAKE S \in SUBSET All
      <4> HAVE Avoids(S, a, d)
      <4>1. ClosedUnderItems(S)'
        <5>1. \A y \in S : kind(y)' = kind(y) /\ items(y)' = items(y) BY <3>3 DEF AsBefore
        <5>2. ClosedUnderItems(S) BY DEF Avoids
        <5> QED BY <5>1, <5>2 DEF ClosedUnderItems
      <4> QED BY <2>3, <4>1 DEF Avoids, AsBefore
    <3>7. \A k \in DOMAIN todo' : ~todo'[k].drop BY <3>1, WaitingKept
    <3> QED BY <1>3, <2>3, <3>1, <3>4, <3>5, <3>6, <3>7 DEF AsBefore
  <2>9. pc' \in {"implode", "pack"} /\ r'.op = "insert" /\ kind(a)' = "atype" =>
          \A j \in DOMAIN items(a)' : items(a)'[j] = d => d = x
    BY <1>3, <2>1, <2>3 DEF Works, AsBefore
  <2>10. pc' \notin {"pack", "push"} BY <1>3, <2>1 DEF Works
  <2> QED BY <2>4, <2>5, <2>6, <2>7, <2>8, <2>9, <2>10 DEF Works
<1>8. InWorking'
  <2>1. \A a, x, d \in All : At(a, x, d)' <=> At(a, x, d) BY <1>3 DEF At
  <2>2. Len(stk') = (Depth + (IF pc \in {"pack", "unprotect"} THEN 1 ELSE 0))' BY <1>3 DEF InWorking, Depth
  <2> QED BY <1>3, <1>5, <1>7, <2>1, <2>2 DEF InWorking
<1> QED BY <1>6, <1>8

LEMMA FreeingEnding ==
  ASSUME Now, GivesUp, Registers, InEnding, pc \in Ending, NEW P \in SUBSET All, Apart(P)
  PROVE  InEnding' /\ Apart(P)'
<1>1. Within(P) /\ P \cap Locals = {} BY DEF Apart
<1>2. /\ Within(P)'
      /\ \A w, y \in All : w \notin P => (RefersTo(w, y)' <=> RefersTo(w, y))
      /\ \A y \in All : y \notin P => AsBefore(y)
  BY <1>1, FreeWithin
<1>3. UNCHANGED <<stk, valu, pc, r, unseen>> BY DEF GivesUp
<1>4. Locals' = Locals BY <1>3 DEF Locals, Outer
<1>5. Apart(P)'
  <2>1. pc \notin Working BY DEF Ending, Working
  <2> QED BY <1>1, <1>2, <1>3, <1>4, <2>1 DEF Apart
<1>6. \A y \in All : y \in Outer => AsBefore(y) /\ \A u \in All : RefersTo(y, u)' <=> RefersTo(y, u)
  BY <1>1, <1>2 DEF Locals
<1>7. \A y \in All : refcnt(y) = 0 => refcnt(y)' = 0
  <2> TAKE y \in All
  <2>1. refcnt(y)' \in Nat /\ refcnt(y)' <= refcnt(y) BY DEF GivesUp
  <2> QED BY <2>1
<1>8. OuterOK'
  <2> SUFFICES ASSUME NEW p \in All, Pair(p)
               PROVE  /\ InUse(p)' /\ refcnt(p)' = 0
                      /\ \A y \in All, k \in DOMAIN r.outer : k < Len(r.outer) /\ y = r.outer[k].arr =>
                           /\ InUse(y)'
                           /\ \/ RefersTo(p, y)'
                              \/ kind(y)' # "atype" /\ refcnt(y)' = 0
                                   /\ \A l \in DOMAIN r.outer : r.outer[l].arr = y => l = k
                      /\ \A k \in DOMAIN r.outer : ~r.outer[k].drop
    BY <1>3 DEF OuterOK, Pair
  <2>1. p \in Outer
    <3>1. r.outer \in Seq(Frees) /\ r.outer # <<>> /\ p = r.outer[Len(r.outer)].arr BY DEF Registers, Pair
    <3>2. Len(r.outer) \in DOMAIN r.outer BY <3>1, EmptySeq
    <3> QED BY <3>1, <3>2 DEF Outer
  <2>2. InUse(p) /\ refcnt(p) = 0 /\ (\A k \in DOMAIN r.outer : ~r.outer[k].drop) BY DEF InEnding, OuterOK
  <2>3. InUse(p)' /\ refcnt(p)' = 0 BY <1>6, <1>7, <2>1, <2>2 DEF AsBefore, InUse
  <2>4. ASSUME NEW y \in All, NEW k \in DOMAIN r.outer, k < Len(r.outer), y = r.outer[k].arr
        PROVE  /\ InUse(y)'
               /\ \/ RefersTo(p, y)'
                  \/ kind(y)' # "atype" /\ refcnt(y)' = 0 /\ \A l \in DOMAIN r.outer : r.outer[l].arr = y => l = k
    <3>1. y \in Outer BY <2>4 DEF Outer
    <3>2. /\ InUse(y)
          /\ \/ RefersTo(p, y)
             \/ kind(y) # "atype" /\ refcnt(y) = 0 /\ \A l \in DOMAIN r.outer : r.outer[l].arr = y => l = k
      BY <2>4 DEF InEnding, OuterOK
    <3>3. AsBefore(y) BY <1>6, <3>1
    <3>4. InUse(y)' BY <3>2, <3>3 DEF AsBefore, InUse
    <3>5. RefersTo(p, y) => RefersTo(p, y)' BY <1>6, <2>1
    <3>6. kind(y)' = kind(y) /\ (refcnt(y) = 0 => refcnt(y)' = 0) BY <1>7, <3>3 DEF AsBefore
    <3> QED BY <3>2, <3>4, <3>5, <3>6
  <2> QED BY <2>2, <2>3, <2>4
<1>9. (r.protect => r.outer = <<>>)' /\ (Len(stk) = Depth + (IF pc = "fault" THEN 0 ELSE 1))' /\ (pc = "store" => ByInsert)'
  BY <1>3 DEF InEnding, Depth, ByInsert
<1> QED BY <1>5, <1>8, <1>9 DEF InEnding

LEMMA PcNow ==
  ASSUME Registers
  PROVE  pc \in {"idle", "index", "place"} \cup Working \cup Ending \cup Clearing
BY DEF Registers

LEMMA FreeingKeeps == IInv /\ Freeing => IInv'
<1> SUFFICES ASSUME Now, Control, Freeing PROVE IInv' BY DEF IInv, Now
<1>1. Registers /\ TodoOK /\ GoneOK /\ ZeroOK BY DEF Control
<1>2. GivesUp BY <1>1, FreeingGives
<1>3. Now' /\ UNCHANGED <<stk, valu, pc, r, unseen>> BY <1>2 DEF GivesUp
<1>4. TodoOK' /\ GoneOK' /\ ZeroOK' BY <1>1, <1>2, TodoKept, GoneKept, ZeroKept
<1>5. Registers' BY <1>1, <1>3 DEF Registers
<1>6. ~Ready BY DEF Freeing, Freeup, FreeItem, Release, Ready
<1>7. (pc \in {"idle"} \cup Clearing => r = NoLocals)' BY <1>3 DEF Control
<1>8. (pc = "index" => InIndex)' BY <1>1, <1>2, <1>3, FreeingIndex DEF Control
<1>9. (pc = "place" => InPlace)' BY <1>3, <1>6 DEF Control, InPlace
<1>10. ASSUME pc \in Working PROVE InWorking' /\ \E P \in SUBSET All : Apart(P)'
  <2>1. PICK P \in SUBSET All : Apart(P) BY <1>10 DEF Control
  <2>2. InWorking BY <1>10 DEF Control
  <2> QED BY <1>1, <1>2, <1>6, <1>10, <2>1, <2>2, FreeingWorking
<1>11. ASSUME pc \in Ending PROVE InEnding' /\ \E P \in SUBSET All : Apart(P)'
  <2>1. PICK P \in SUBSET All : Apart(P) BY <1>11 DEF Control
  <2>2. InEnding BY <1>11 DEF Control
  <2> QED BY <1>1, <1>2, <1>11, <2>1, <2>2, FreeingEnding
<1>12. (pc \in Working \cup Ending => \E P \in SUBSET All : Apart(P))' BY <1>3, <1>10, <1>11
<1>13. (pc \in Working => InWorking)' /\ (pc \in Ending => InEnding)' BY <1>3, <1>10, <1>11
<1>14. Control' BY <1>4, <1>5, <1>7, <1>8, <1>9, <1>12, <1>13 DEF Control
<1> QED BY <1>3, <1>14 DEF IInv, Now

-----------------------------------------------------------------------------
(***************************************************************************)
(* The steps of operations: nothing is being freed.                        *)
(***************************************************************************)
LEMMA FreshIs ==
  ASSUME NEW n \in Nat, HasRoom(n)
  PROVE  /\ Fresh(n) \in [1 .. n -> Unused]
         /\ \A i, j \in 1 .. n : Fresh(n)[i] = Fresh(n)[j] => i = j
<1>1. IsFiniteSet(Unused)
  <2>1. Unused \in SUBSET Arrays BY DEF Unused
  <2> QED BY <2>1, FS_Subset, RefCountConstants
<1>2. Cardinality(Unused) \in Nat /\ ExistsBijection(1 .. Cardinality(Unused), Unused)
  BY <1>1, FS_CardinalityType
<1>3. PICK c \in Nat : c = Cardinality(Unused) /\ c >= n BY <1>2 DEF HasRoom
<1>4. PICK b : b \in Bijection(1 .. c, Unused) BY <1>2, <1>3 DEF ExistsBijection
<1>5. b \in [1 .. c -> Unused] /\ \A i, j \in 1 .. c : b[i] = b[j] => i = j
  BY <1>4 DEF Bijection, Injection, IsInjective
<1>6. PICK s : s = [i \in 1 .. n |-> b[i]] OBVIOUS
<1>7. s \in [1 .. n -> Unused] /\ IsInjective(s) BY <1>3, <1>5, <1>6 DEF IsInjective
<1>8. Fresh(n) \in [1 .. n -> Unused] /\ IsInjective(Fresh(n)) BY <1>7 DEF Fresh
<1> QED BY <1>8 DEF IsInjective

LEMMA FreshOne ==
  ASSUME HasRoom(1)
  PROVE  Fresh(1)[1] \in All /\ ~InUse(Fresh(1)[1]) /\ Fresh(1)[1] \in Arrays
<1>1. Fresh(1) \in [1 .. 1 -> Unused] BY FreshIs
<1>2. Fresh(1)[1] \in Unused BY <1>1
<1> QED BY <1>2 DEF Unused, All

LEMMA RoomFor ==
  ASSUME NEW n \in Nat, NEW m \in Nat, HasRoom(n + m)
  PROVE  HasRoom(n)
<1>1. IsFiniteSet(Unused)
  <2>1. Unused \in SUBSET Arrays BY DEF Unused
  <2> QED BY <2>1, FS_Subset, RefCountConstants
<1>2. Cardinality(Unused) \in Nat BY <1>1, FS_CardinalityType
<1> QED BY <1>2 DEF HasRoom

(* While nothing is being freed a list refers to each of its items.          *)
LEMMA ItemRefers ==
  ASSUME frames = <<>>, NEW w, NEW y
  PROVE  RefersTo(w, y) <=> kind(w) = "atype" /\ y # gone /\ \E j \in DOMAIN items(w) : items(w)[j] = y
BY DEF RefersTo, Has1, kind, items

LEMMA ItemRefersNext ==
  ASSUME frames' = <<>>, NEW w, NEW y
  PROVE  RefersTo(w, y)' <=> kind(w)' = "atype" /\ y # gone /\ \E j \in DOMAIN items(w)' : items(w)'[j] = y
BY DEF RefersTo, Has1, kind, items

LEMMA RefersKept ==
  ASSUME frames = <<>>, frames' = <<>>, NEW w, NEW y, kind(w) = "atype" => AsBefore(w)
  PROVE  RefersTo(w, y) => RefersTo(w, y)'
BY ItemRefers, ItemRefersNext DEF AsBefore

LEMMA NoGone == gone \notin All
BY RefCountConstants DEF All

LEMMA FirmKept ==
  ASSUME NEW y, NEW n, NEW m, NEW P, NEW Q,
         \A j \in DOMAIN stk : j <= n => j \in DOMAIN stk' /\ stk'[j] = stk[j] /\ j <= m,
         \A v \in Vars : valu[v] = y => valu'[v] = y,
         \A w \in All : w \notin P /\ RefersTo(w, y) => w \notin Q /\ RefersTo(w, y)'
  PROVE  Firm(y, n, P) => Firm(y, m, Q)'
BY DEF Firm

(* Outside of an operation.                                                  *)
LEMMA IdleKept ==
  ASSUME pc' = "idle", r' = NoLocals, unseen' \in SUBSET All, Now', TodoOK', frames' = <<>>,
         \A w \in All : kind(w)' = "atype" => \A j \in DOMAIN items(w)' : items(w)'[j] # gone,
         \A w \in All : InUse(w)' /\ refcnt(w)' = 0 => \E k \in DOMAIN todo' : todo'[k] = Free(w)
  PROVE  IInv'
<1>1. Registers'
  <2>1. NoLocals = [op |-> NoLocals.op, var |-> NoLocals.var, base |-> NoLocals.base, a |-> NoLocals.a,
                    i |-> NoLocals.i, x |-> NoLocals.x, addr |-> NoLocals.addr, outer |-> NoLocals.outer,
                    changed |-> NoLocals.changed, protect |-> NoLocals.protect, due |-> NoLocals.due]
    BY DEF NoLocals
  <2>2. /\ NoLocals.base = 0 /\ NoLocals.i = 0 /\ NoLocals.outer = <<>>
        /\ NoLocals.changed \in BOOLEAN /\ NoLocals.protect \in BOOLEAN
    BY DEF NoLocals
  <2>3. <<>> \in Seq(Frees) OBVIOUS
  <2>4. PICK q : q = NoLocals OBVIOUS
  <2>5. r' = [op |-> r'.op, var |-> r'.var, base |-> r'.base, a |-> r'.a, i |-> r'.i, x |-> r'.x,
              addr |-> r'.addr, outer |-> r'.outer, changed |-> r'.changed, protect |-> r'.protect,
              due |-> r'.due]
    BY <2>1
  <2>6. r'.base \in Nat /\ r'.i \in Nat /\ r'.outer \in Seq(Frees) /\ r'.changed \in BOOLEAN /\ r'.protect \in BOOLEAN
    BY <2>2, <2>3
  <2> QED BY <2>5, <2>6 DEF Registers
<1>2. GoneOK' BY DEF GoneOK
<1>3. ZeroOK' BY DEF ZeroOK
<1>4. pc' \notin Working \cup Ending \cup {"index", "place"} BY DEF Working, Ending
<1>5. Control' BY <1>1, <1>2, <1>3, <1>4 DEF Control
<1> QED BY <1>5 DEF IInv, Now

LEMMA NowItems ==
  ASSUME Now, NEW w \in All
  PROVE  /\ kind(w) \in Kinds /\ items(w) \in Seq(Words) /\ refcnt(w) \in Nat /\ Len(items(w)) <= MaxItems
         /\ kind(w) \in {"int", "phrase"} => Len(items(w)) = 1
         /\ kind(w) \in {"int", "ints"} => items(w) \in Seq(Nums)
         /\ kind(w) = "atype" => items(w) \in Seq(All \cup {gone})
         /\ kind(w) = "free" => refcnt(w) = 0
<1>1. HeapOK(heap) BY DEF Now, Core
<1>2. heap[w] \in Blocks BY <1>1 DEF HeapOK
<1> QED BY <1>1, <1>2 DEF HeapOK, Blocks, kind, items, refcnt

LEMMA Resting ==
  ASSUME Now, Control, Ready
  PROVE  /\ todo = <<>> /\ frames = <<>> /\ Registers
         /\ pc \notin Clearing =>
              /\ \A w \in All : kind(w) = "atype" => \A j \in DOMAIN items(w) : items(w)[j] \in All
              /\ \A w \in All : InUse(w) /\ refcnt(w) = 0 => w \in Locals
         /\ pc = "idle" => Locals = {} /\ r = NoLocals
         /\ pc = "index" => Locals = {r.x} /\ r.x \in All
<1>1. todo = <<>> /\ frames = <<>> BY DEF Ready
<1>2. Registers /\ GoneOK /\ ZeroOK /\ (pc = "idle" => r = NoLocals) /\ (pc = "index" => InIndex) BY DEF Control
<1>3. ASSUME pc \notin Clearing, NEW w \in All, kind(w) = "atype", NEW j \in DOMAIN items(w) PROVE items(w)[j] \in All
  <2>1. items(w)[j] # gone BY <1>2, <1>3 DEF GoneOK
  <2>2. items(w) \in Seq(All \cup {gone}) BY <1>3, NowItems
  <2> QED BY <1>3, <2>1, <2>2
<1>4. ASSUME pc \notin Clearing, NEW w \in All, InUse(w), refcnt(w) = 0 PROVE w \in Locals
  <2>1. Framed(frames) = {} BY <1>1 DEF Framed
  <2>2. ~ \E k \in DOMAIN todo : todo[k] = Free(w) BY <1>1
  <2> QED BY <1>2, <1>4, <2>1, <2>2 DEF ZeroOK, Clearing
<1>5. pc = "idle" => Locals = {}
  <2>1. NoLocals.outer = <<>> BY DEF NoLocals
  <2>2. pc = "idle" => r.outer = <<>> BY <1>2, <2>1
  <2> QED BY <2>2 DEF Locals, Outer, Working
<1>6. pc = "index" => Locals = {r.x} /\ r.x \in All
  <2>1. pc = "index" => r.outer = <<>> /\ r.x \in All BY <1>2 DEF InIndex, Used
  <2> QED BY <2>1 DEF Locals, Outer, Working
<1> QED BY <1>1, <1>2, <1>3, <1>4, <1>5, <1>6

(* An integer or a phrase is made, or a list of integers.                    *)
LEMMA CoreLeaf ==
  ASSUME NEW h, NEW s, NEW f, NEW t, Core(h, s, f, t, <<>>), NEW x \in All, h[x].kind = "free",
         NEW k \in {"int", "phrase"}, NEW u, k = "int" => u \in Nums, k = "phrase" => u \in Texts
  PROVE  /\ Core(Made(h, x, k, <<u>>), s, f, t, <<>>)
         /\ Made(h, x, k, <<u>>)[x] = [kind |-> k, items |-> <<u>>, refcnt |-> 0]
         /\ \A y \in All : y # x => Made(h, x, k, <<u>>)[y] = h[y]
<1>1. PICK its : its = <<u>> OBVIOUS
<1>2. u \in Words BY DEF Words
<1>3. its \in Seq(Words) /\ Len(its) = 1 /\ 1 <= MaxItems BY <1>1, <1>2, RefCountConstants
<1>4. k \in {"int", "ints"} => its \in Seq(Nums) BY <1>1
<1>5. NoItems(k, its) BY <1>3, <1>4 DEF NoItems
<1>6. /\ Core(Made(h, x, k, its), s, f, t, <<>>)
      /\ Made(h, x, k, its)[x] = [kind |-> k, items |-> its, refcnt |-> 0]
      /\ \A y \in All : y # x => Made(h, x, k, its)[y] = h[y]
  BY <1>5, CoreAtom
<1> QED BY <1>1, <1>6

LEMMA CorePacked ==
  ASSUME NEW h, NEW s, NEW f, NEW t, Core(h, s, f, t, <<>>), NEW x \in All, h[x].kind = "free",
         NEW its \in Seq(Nums), Len(its) <= MaxItems
  PROVE  /\ Core(Made(h, x, "ints", its), s, f, t, <<>>)
         /\ Made(h, x, "ints", its)[x] = [kind |-> "ints", items |-> its, refcnt |-> 0]
         /\ \A y \in All : y # x => Made(h, x, "ints", its)[y] = h[y]
<1>1. its \in Seq(Words) BY DEF Words
<1>2. NoItems("ints", its) BY <1>1 DEF NoItems
<1> QED BY <1>2, CoreAtom

LEMMA PushLeafIs ==
  ASSUME NEW h, NEW s, NEW f, NEW t, Core(h, s, f, t, <<>>), HasRoom(1), \A y \in All : h[y].kind = kind(y),
         NEW k \in {"int", "phrase"}, NEW u, k = "int" => u \in Nums, k = "phrase" => u \in Texts,
         NEW x, x = Fresh(1)[1], Push(Made(h, x, k, <<u>>), s, x)
  PROVE  /\ x \in All /\ ~InUse(x) /\ stk' = Append(s, x) /\ Core(heap', stk', f, t, <<>>)
         /\ heap'[x].kind = k /\ heap'[x].refcnt > 0 /\ \A y \in All : y # x => heap'[y] = h[y]
<1>1. x \in All /\ ~InUse(x) /\ h[x].kind = "free" BY FreshOne DEF InUse
<1>2. PICK g : g = Made(h, x, k, <<u>>) OBVIOUS
<1>3. /\ Core(g, s, f, t, <<>>) /\ g[x] = [kind |-> k, items |-> <<u>>, refcnt |-> 0]
      /\ \A y \in All : y # x => g[y] = h[y]
  BY <1>1, <1>2, CoreLeaf
<1>4. g[x].kind = k /\ g[x].kind # "free" BY <1>3
<1>5. Core(Incr(g, x), Append(s, x), f, t, <<>>) BY <1>1, <1>3, <1>4, CorePush
<1>6. HeapOK(g) BY <1>3 DEF Core
<1>7. /\ Recount(g, Incr(g, x)) /\ g[x].refcnt \in Nat
      /\ \A y \in All : Incr(g, x)[y].refcnt = g[y].refcnt + One(y = x)
  <2>1. g[x].refcnt \in Nat BY <1>1, <1>6, HeapFacts
  <2> QED BY <1>1, <1>4, <1>6, <2>1, IncrIs
<1>8. Incr(g, x)[x].kind = k /\ Incr(g, x)[x].refcnt > 0 BY <1>1, <1>4, <1>7 DEF Recount, One
<1>9. \A y \in All : y # x => Incr(g, x)[y] = h[y]
  <2>1. g \in [All -> Blocks] BY <1>6 DEF HeapOK
  <2> QED BY <1>3, <2>1 DEF Incr
<1>10. heap' = Incr(g, x) /\ stk' = Append(s, x) BY <1>2 DEF Push
<1> QED BY <1>1, <1>5, <1>8, <1>9, <1>10

(* A phrase or a fault is pushed on the stack s in the heap h.               *)
LEMMA PushTextIs ==
  ASSUME Plain, NEW h, NEW s, NEW f, NEW t, Core(h, s, f, t, <<>>), NEW u \in Texts, PushText(h, s, u),
         \A y \in All : h[y].kind = kind(y)
  PROVE  \E x \in All :
           /\ stk' = Append(s, x) /\ Core(heap', stk', f, t, <<>>)
           /\ heap'[x].kind = "phrase" /\ heap'[x].refcnt > 0
           /\ h[x].kind = "free" \/ (h[x].kind = "phrase" /\ heap'[x].items = h[x].items /\ ~OnlyLocal(h, x))
           /\ \A y \in All : y # x => heap'[y] = h[y]
<1>1. HeapOK(h) BY DEF Core
<1>2. CASE \E x \in All : HasText(h, x, u)
  <2>1. PICK x \in All : HasText(h, x, u) /\ Push(h, s, x) /\ ~OnlyLocal(h, x)
    BY <1>2 DEF PushText, Plain
  <2>2. h[x].kind = "phrase" BY <2>1 DEF HasText
  <2>3. heap' = Incr(h, x) /\ stk' = Append(s, x) BY <2>1 DEF Push
  <2>4. Core(Incr(h, x), Append(s, x), f, t, <<>>) BY <2>2, CorePush
  <2>5. /\ Recount(h, Incr(h, x)) /\ h[x].refcnt \in Nat
        /\ \A y \in All : Incr(h, x)[y].refcnt = h[y].refcnt + One(y = x)
    BY <1>1, <2>2, IncrIs, HeapFacts
  <2>6. Incr(h, x)[x].kind = h[x].kind /\ Incr(h, x)[x].items = h[x].items /\ Incr(h, x)[x].refcnt > 0
    BY <2>5 DEF Recount, One
  <2>7. \A y \in All : y # x => Incr(h, x)[y] = h[y]
    <3>1. h \in [All -> Blocks] BY <1>1 DEF HeapOK
    <3> QED BY <3>1 DEF Incr
  <2> QED BY <2>1, <2>2, <2>3, <2>4, <2>6, <2>7
<1>3. CASE ~ \E x \in All : HasText(h, x, u)
  <2>1. PICK x : x = Fresh(1)[1] OBVIOUS
  <2>2. HasRoom(1) /\ Push(Made(h, x, "phrase", <<u>>), s, x) BY <1>3, <2>1 DEF PushText
  <2>3. "phrase" \in {"int", "phrase"} OBVIOUS
  <2>4. /\ x \in All /\ ~InUse(x) /\ stk' = Append(s, x) /\ Core(heap', stk', f, t, <<>>)
        /\ heap'[x].kind = "phrase" /\ heap'[x].refcnt > 0 /\ \A y \in All : y # x => heap'[y] = h[y]
    BY <2>1, <2>2, <2>3, PushLeafIs
  <2>5. h[x].kind = "free" BY <2>4 DEF InUse
  <2> QED BY <2>4, <2>5
<1> QED BY <1>2, <1>3

(* An index expression cannot free what is referred to: no step of it can    *)
(* take more than the integers and phrases it has made.                      *)
LEMMA CountedKept ==
  ASSUME Now, Control, Ready, pc = "index", NEW x \in All, refcnt(x) > 0
  PROVE  Kept(x)
<1>1. todo = <<>> /\ frames = <<>> /\ InIndex /\ Registers BY Resting DEF Control
<1>2. Core(heap, stk, valu, todo, frames) BY DEF Now
<1>3. PICK a, b, c, d, e : /\ a = One(x = no_value) /\ b = NS(stk, x) /\ c = NV(valu, x) /\ d = NS(todo, Drop(x))
                           /\ e = NL(heap, frames, x)
  OBVIOUS
<1>4. /\ refcnt(x) = a + b + c + d + e /\ b \in Nat /\ c \in Nat /\ e \in Nat
      /\ b > 0 <=> \E j \in DOMAIN stk : stk[j] = x
      /\ c > 0 <=> \E v \in Vars : valu[v] = x
      /\ e > 0 <=> \E w \in All : \E j \in DOMAIN items(w) : Has1(heap, frames, w, j) /\ items(w)[j] = x
  BY <1>2, <1>3, CoreCounts DEF refcnt, items
<1>5. d = 0 BY <1>1, <1>3, PlacesEmpty
<1>6. a \in Nat /\ (a > 0 => x = no_value) BY <1>3 DEF One
<1>7. a > 0 \/ b > 0 \/ c > 0 \/ e > 0 BY <1>4, <1>5, <1>6
<1>8. e > 0 => \E w \in All \ {} : RefersTo(w, x) BY <1>4 DEF RefersTo
<1>9. a > 0 \/ c > 0 \/ e > 0 => Lasting(x, {}) BY <1>4, <1>6, <1>8 DEF Lasting, Firm
<1>10. ASSUME NEW j \in DOMAIN stk, stk[j] = x PROVE Kept(x)
  <2>1. CASE j > r.base BY <1>1, <1>10, <2>1 DEF InIndex
  <2>2. CASE j <= r.base BY <1>10, <2>2 DEF Kept, Lasting, Firm
  <2>3. stk \in Seq(All) /\ r.base \in Nat BY <1>1, <1>2 DEF Core, Registers
  <2> QED BY <2>1, <2>2, <2>3
<1> QED BY <1>4, <1>7, <1>9, <1>10 DEF Kept

LEMMA BelowIs ==
  ASSUME stk \in Seq(All), NEW n \in Nat, n <= Len(stk)
  PROVE  /\ Below(n) \in Seq(All) /\ Len(Below(n)) = Len(stk) - n
         /\ \A j \in 1 .. Len(stk) - n : Below(n)[j] = stk[j]
<1>1. PICK m \in Nat : m = Len(stk) - n OBVIOUS
<1>2. SubSeq(stk, 1, m) \in Seq(All) /\ Len(SubSeq(stk, 1, m)) = m
  BY <1>1
<1>3. \A j \in 1 .. m : SubSeq(stk, 1, m)[j] = stk[j] BY <1>1
<1> QED BY <1>1, <1>2, <1>3 DEF Below

(* A step of an evaluation that pushes x on what is below on the stack.      *)
LEMMA FetchKept ==
  ASSUME Now, Control, Evaluating, Same, Now', NEW x \in All, NEW s, s = stk \/ (Has(1) /\ s = Below(1)),
         stk' = Append(s, x), TodoOK', \A k \in DOMAIN todo' : ~todo'[k].drop,
         \A y \in All : AsBefore(y) \/ (y = x /\ ~InUse(y) /\ kind(y)' \in {"int", "phrase"}),
         \A y \in All : InUse(y)' /\ refcnt(y)' = 0 =>
           (InUse(y) /\ refcnt(y) = 0) \/ \E k \in DOMAIN todo' : todo'[k] = Free(y),
         pc = "index" => Kept(x) \/ ~InUse(x),
         pc = "index" => \A y \in Waiting' : y \in All /\ Kept(y)
  PROVE  IInv'
<1>1. Ready /\ pc \in {"idle", "index"} BY DEF Evaluating
<1>2. UNCHANGED <<valu, frames, pc, r, unseen>> BY DEF Same
<1>3. pc \notin Clearing \cup Working \cup Ending \cup {"place"} BY <1>1 DEF Clearing, Working, Ending
<1>4. /\ frames = <<>> /\ frames' = <<>> /\ Registers
      /\ \A w \in All : kind(w) = "atype" => \A j \in DOMAIN items(w) : items(w)[j] \in All
      /\ \A w \in All : InUse(w) /\ refcnt(w) = 0 => w \in Locals
      /\ pc = "idle" => Locals = {} /\ r = NoLocals
      /\ pc = "index" => Locals = {r.x} /\ r.x \in All
  BY <1>1, <1>2, <1>3, Resting
<1>5. \A w \in All : kind(w)' = "atype" => \A j \in DOMAIN items(w)' : items(w)'[j] # gone
  <2> SUFFICES ASSUME NEW w \in All, kind(w)' = "atype", NEW j \in DOMAIN items(w)' PROVE items(w)'[j] # gone
    OBVIOUS
  <2>1. AsBefore(w) OBVIOUS
  <2>2. items(w)'[j] \in All BY <1>4, <2>1 DEF AsBefore
  <2> QED BY <2>2, NoGone
<1>6. CASE pc = "idle"
  <2>1. \A w \in All : InUse(w)' /\ refcnt(w)' = 0 => \E k \in DOMAIN todo' : todo'[k] = Free(w) BY <1>4, <1>6
  <2>2. unseen' \in SUBSET All BY <1>2, <1>4 DEF Registers
  <2> QED BY <1>2, <1>4, <1>5, <1>6, <2>1, <2>2, IdleKept
<1>7. CASE pc = "index"
  <2>1. InIndex BY <1>7 DEF Control
  <2>2. /\ r.op = "insert" /\ r.var \in Vars /\ r.outer = <<>> /\ ~r.protect /\ ~r.changed
        /\ r.base <= Len(stk) /\ r.base \in Nat /\ r.x \in All /\ InUse(r.x)
        /\ \A y \in All : (\E j \in DOMAIN stk : j > r.base /\ stk[j] = y) => Kept(y)
    BY <1>4, <2>1 DEF InIndex, Registers, Used
  <2>3. stk \in Seq(All) BY DEF Now, Core
  <2>4. /\ s \in Seq(All) /\ Len(s) <= Len(stk) /\ r.base <= Len(s) /\ Len(s) \in Nat
        /\ \A j \in 1 .. Len(s) : s[j] = stk[j]
    <3>1. CASE s = stk BY <2>2, <2>3, <3>1
    <3>2. CASE Has(1) /\ s = Below(1)
      <4>1. 1 <= Len(stk) /\ r.base <= Len(stk) - 1 /\ Len(stk) \in Nat BY <2>2, <2>3, <3>2 DEF Has
      <4>2. s \in Seq(All) /\ Len(s) = Len(stk) - 1 /\ \A j \in 1 .. Len(stk) - 1 : s[j] = stk[j]
        BY <2>3, <3>2, <4>1, BelowIs
      <4> QED BY <4>1, <4>2
    <3> QED BY <3>1, <3>2
  <2>5. /\ DOMAIN stk = 1 .. Len(stk) /\ DOMAIN stk' = 1 .. Len(s) + 1 /\ Len(stk') = Len(s) + 1 /\ stk'[Len(s) + 1] = x
        /\ \A j \in 1 .. Len(s) : stk'[j] = stk[j]
    BY <2>3, <2>4
  <2>6. ASSUME NEW y \in All, Kept(y) PROVE Kept(y)'
    <3>1. Simple(y) => Simple(y)' BY <1>2 DEF Simple, AsBefore
    <3>2. PICK n : n = r.base OBVIOUS
    <3>3. \A j \in DOMAIN stk : j <= n => j \in DOMAIN stk' /\ stk'[j] = stk[j] /\ j <= n BY <2>2, <2>4, <2>5, <3>2
    <3>4. \A w \in All : RefersTo(w, y) => RefersTo(w, y)'
      <4> TAKE w \in All
      <4>1. kind(w) = "atype" => AsBefore(w) BY DEF InUse
      <4> QED BY <1>4, <4>1, RefersKept
    <3>5. Firm(y, n, {}) => Firm(y, n, {})' BY <1>2, <3>3, <3>4, FirmKept
    <3> QED BY <1>2, <2>6, <3>1, <3>2, <3>5 DEF Kept, Lasting
  <2>7. Kept(x)'
    <3>1. CASE Kept(x) BY <2>6, <3>1
    <3>2. CASE ~InUse(x) /\ AsBefore(x)
      <4>1. Simple(x)' BY <1>2, <2>2, <3>2 DEF Simple, AsBefore, InUse
      <4> QED BY <4>1 DEF Kept
    <3>3. CASE ~InUse(x) /\ kind(x)' \in {"int", "phrase"}
      <4>1. Simple(x)' BY <1>2, <2>2, <3>3 DEF Simple
      <4> QED BY <4>1 DEF Kept
    <3> QED BY <1>7, <3>1, <3>2, <3>3
  <2>8. \A y \in All : (\E j \in DOMAIN stk' : j > r'.base /\ stk'[j] = y) => Kept(y)'
    <3> SUFFICES ASSUME NEW y \in All, NEW j \in DOMAIN stk', j > r.base, stk'[j] = y PROVE Kept(y)' BY <1>2
    <3>1. CASE j = Len(s) + 1 BY <2>5, <2>7, <3>1
    <3>2. CASE j # Len(s) + 1
      <4>1. j \in 1 .. Len(s) /\ j \in DOMAIN stk BY <2>4, <2>5, <3>2
      <4>2. stk[j] = y BY <2>5, <4>1
      <4>3. Kept(y) BY <2>2, <4>1, <4>2
      <4> QED BY <2>6, <4>3
    <3> QED BY <3>1, <3>2
  <2>9. (r.x \in Used)'
    <3>1. PICK y \in All : y = r.x /\ InUse(y) BY <2>2
    <3>2. AsBefore(y) BY <3>1
    <3> QED BY <1>2, <3>1, <3>2 DEF Used, InUse, AsBefore
  <2>10. \A y \in Waiting' : Kept(y)' BY <1>7, <2>6
  <2>11. \A y \in Framed(frames)' : Simple(y)' BY <1>4 DEF Framed
  <2>12. (r.base <= Len(stk))' BY <1>2, <2>2, <2>4, <2>5
  <2>13. InIndex' BY <1>2, <2>2, <2>8, <2>9, <2>10, <2>11, <2>12 DEF InIndex
  <2>14. Registers' BY <1>2, <1>4 DEF Registers
  <2>15. GoneOK' BY <1>5 DEF GoneOK
  <2>16. ZeroOK'
    <3>1. Locals' = Locals BY <1>2 DEF Locals, Outer
    <3> QED BY <1>4, <3>1 DEF ZeroOK
  <2>17. Control' BY <1>2, <1>3, <1>7, <2>13, <2>14, <2>15, <2>16 DEF Control
  <2> QED BY <2>17 DEF IInv, Now
<1> QED BY <1>1, <1>6, <1>7

LEMMA TodoNone ==
  ASSUME todo' = <<>>, frames' = <<>>
  PROVE  TodoOK' /\ (\A k \in DOMAIN todo' : ~todo'[k].drop) /\ Waiting' = {}
<1>1. DOMAIN todo' = {} OBVIOUS
<1> QED BY <1>1 DEF TodoOK, Framed, Waiting

LEMMA PushNumKeeps ==
  ASSUME Now, Control, NEW n \in Nums, PushNum(n)
  PROVE  IInv'
<1>1. PICK x : x = Fresh(1)[1] OBVIOUS
<1>2. Evaluating /\ Ready /\ HasRoom(1 + Spare) /\ Push(Made(heap, x, "int", <<n>>), stk, x) /\ Same /\ todo' = todo
  BY <1>1 DEF PushNum, Pushing, Leaves, Evaluating
<1>3. HasRoom(1) BY <1>2, RoomFor, RefCountConstants
<1>4. todo = <<>> /\ frames = <<>> BY <1>2, Resting
<1>5. Core(heap, stk, valu, <<>>, <<>>) BY <1>4 DEF Now
<1>6. (\A y \in All : heap[y].kind = kind(y)) /\ "int" \in {"int", "phrase"} BY DEF kind
<1>7. /\ x \in All /\ ~InUse(x) /\ stk' = Append(stk, x) /\ Core(heap', stk', valu, <<>>, <<>>)
      /\ heap'[x].kind = "int" /\ heap'[x].refcnt > 0 /\ \A y \in All : y # x => heap'[y] = heap[y]
  BY <1>1, <1>2, <1>3, <1>5, <1>6, PushLeafIs
<1>8. frames' = <<>> /\ todo' = <<>> /\ valu' = valu BY <1>2, <1>4 DEF Same
<1>9. Now' BY <1>7, <1>8 DEF Now
<1>10. TodoOK' /\ (\A k \in DOMAIN todo' : ~todo'[k].drop) /\ Waiting' = {} BY <1>8, TodoNone
<1>11. \A y \in All : AsBefore(y) \/ (y = x /\ ~InUse(y) /\ kind(y)' \in {"int", "phrase"})
  BY <1>7 DEF AsBefore, kind, items
<1>12. \A y \in All : InUse(y)' /\ refcnt(y)' = 0 => InUse(y) /\ refcnt(y) = 0
  <2> TAKE y \in All
  <2>1. CASE y = x BY <1>7, <2>1, <1>9, NowCountsNext DEF refcnt
  <2>2. CASE y # x BY <1>7, <2>2 DEF InUse, kind, refcnt
  <2> QED BY <2>1, <2>2
<1> QED BY <1>2, <1>7, <1>9, <1>10, <1>11, <1>12, FetchKept

LEMMA PushVarKeeps ==
  ASSUME Now, Control, NEW v \in Vars, PushVar(v)
  PROVE  IInv'
<1>1. PICK x : x = valu[v] OBVIOUS
<1>2. Evaluating /\ Ready /\ Push(heap, stk, x) /\ Same /\ todo' = todo
  BY <1>1 DEF PushVar, Pushing, Evaluating
<1>4. todo = <<>> /\ frames = <<>> BY <1>2, Resting
<1>5. Core(heap, stk, valu, <<>>, <<>>) /\ HeapOK(heap) BY <1>4 DEF Now, Core
<1>6. x \in All BY <1>1, <1>5 DEF Core
<1>7. heap[x].refcnt > 0 /\ heap[x].kind # "free" BY <1>1, <1>5, <1>6, Referred
<1>8. heap' = Incr(heap, x) /\ stk' = Append(stk, x) BY <1>2 DEF Push
<1>9. frames' = <<>> /\ todo' = <<>> /\ valu' = valu BY <1>2, <1>4 DEF Same
<1>10. Now' BY <1>5, <1>6, <1>7, <1>8, <1>9, CorePush DEF Now
<1>11. Recount(heap, heap') /\ \A y \in All : heap'[y].refcnt = heap[y].refcnt + One(y = x)
  BY <1>5, <1>6, <1>7, <1>8, IncrIs
<1>12. TodoOK' /\ (\A k \in DOMAIN todo' : ~todo'[k].drop) /\ Waiting' = {} BY <1>9, TodoNone
<1>13. \A y \in All : AsBefore(y) BY <1>11 DEF AsBefore, kind, items, Recount
<1>14. \A y \in All : InUse(y)' /\ refcnt(y)' = 0 => InUse(y) /\ refcnt(y) = 0
  <2> TAKE y \in All
  <2>1. refcnt(y)' = refcnt(y) + One(y = x) BY <1>11 DEF refcnt
  <2>2. refcnt(y) \in Nat BY NowCounts
  <2> QED BY <1>13, <2>1, <2>2 DEF InUse, AsBefore, One
<1>15. pc = "index" => Kept(x)
  <2>1. refcnt(x) > 0 BY <1>7 DEF refcnt
  <2> QED BY <1>2, <1>6, <2>1, CountedKept
<1> QED BY <1>2, <1>6, <1>8, <1>10, <1>12, <1>13, <1>14, <1>15, FetchKept

LEMMA PushLiteralKeeps ==
  ASSUME Now, Control, Plain, NEW u \in Texts, PushLiteral(u)
  PROVE  IInv'
<1>1. Evaluating /\ Ready /\ PushText(heap, stk, u) /\ Same /\ todo' = todo
  BY DEF PushLiteral, Pushing, Evaluating
<1>2. todo = <<>> /\ frames = <<>> BY <1>1, Resting
<1>3. Core(heap, stk, valu, <<>>, <<>>) BY <1>2 DEF Now
<1>4. \A y \in All : heap[y].kind = kind(y) BY DEF kind
<1>5. PICK x \in All :
           /\ stk' = Append(stk, x) /\ Core(heap', stk', valu, <<>>, <<>>)
           /\ heap'[x].kind = "phrase" /\ heap'[x].refcnt > 0
           /\ heap[x].kind = "free" \/ (heap[x].kind = "phrase" /\ heap'[x].items = heap[x].items /\ ~OnlyLocal(heap, x))
           /\ \A y \in All : y # x => heap'[y] = heap[y]
  BY <1>1, <1>3, <1>4, PushTextIs
<1>6. frames' = <<>> /\ todo' = <<>> /\ valu' = valu BY <1>1, <1>2 DEF Same
<1>7. Now' BY <1>5, <1>6 DEF Now
<1>8. TodoOK' /\ (\A k \in DOMAIN todo' : ~todo'[k].drop) /\ Waiting' = {} BY <1>6, TodoNone
<1>9. \A y \in All : AsBefore(y) \/ (y = x /\ ~InUse(y) /\ kind(y)' \in {"int", "phrase"})
  BY <1>5 DEF AsBefore, kind, items, InUse
<1>10. \A y \in All : InUse(y)' /\ refcnt(y)' = 0 => InUse(y) /\ refcnt(y) = 0
  <2> TAKE y \in All
  <2>1. CASE y = x BY <1>5, <2>1, <1>7, NowCountsNext DEF refcnt
  <2>2. CASE y # x BY <1>5, <2>2 DEF InUse, kind, refcnt
  <2> QED BY <2>1, <2>2
<1>11. pc = "index" => Kept(x) \/ ~InUse(x)
  <2> SUFFICES ASSUME pc = "index", InUse(x) PROVE Kept(x) OBVIOUS
  <2>1. kind(x) = "phrase" /\ (x = r.x => refcnt(x) # 0) BY <1>5 DEF InUse, kind, refcnt, OnlyLocal
  <2>2. CASE x # r.x BY <2>1, <2>2 DEF Kept, Simple
  <2>3. CASE x = r.x
    <3>1. refcnt(x) > 0 BY <2>1, <2>3, NowCounts
    <3> QED BY <1>1, <3>1, CountedKept
  <2> QED BY <2>2, <2>3
<1> QED BY <1>1, <1>5, <1>7, <1>8, <1>9, <1>10, <1>11, FetchKept

LEMMA TodoTwo ==
  ASSUME NEW a \in All, NEW b \in All, todo' = <<Free(a), Free(b)>>, frames' = <<>>, InUse(a)', InUse(b)',
         refcnt(a)' > 0 \/ (kind(a)' # "atype" /\ a # b)
  PROVE  /\ TodoOK' /\ (\A k \in DOMAIN todo' : ~todo'[k].drop) /\ Waiting' = {a, b} /\ todo' \in Seq(Frees)
         /\ (\E k \in DOMAIN todo' : todo'[k] = Free(a)) /\ (\E k \in DOMAIN todo' : todo'[k] = Free(b))
<1>1. PICK s, t : s = Free(a) /\ t = Free(b) OBVIOUS
<1>2. todo' = <<s, t>> BY <1>1
<1>3. s.arr = a /\ t.arr = b /\ ~s.drop /\ ~t.drop /\ s \in Frees /\ t \in Frees BY <1>1 DEF Free, Frees
<1>4. todo' \in Seq(Frees) /\ todo'[1] = s /\ todo'[2] = t /\ DOMAIN todo' = {1, 2} BY <1>2, <1>3
<1>5. \A k \in DOMAIN todo' : ~todo'[k].drop BY <1>3, <1>4
<1>6. Waiting' = {a, b} BY <1>3, <1>4 DEF Waiting
<1>7. (\E k \in DOMAIN todo' : todo'[k] = Free(a)) /\ (\E k \in DOMAIN todo' : todo'[k] = Free(b)) BY <1>1, <1>4
<1>8. \A y : s = Free(y) => y = a BY <1>3 DEF Free
<1>9. \A y : t = Free(y) => y = b BY <1>3 DEF Free
<1>10. \A y \in All, k \in DOMAIN todo' : todo'[k] = Free(y) => InUse(y)' BY <1>4, <1>8, <1>9
<1>11. \A y \in All, k, l \in DOMAIN todo' : k < l /\ ~todo'[l].drop /\ y = todo'[k].arr =>
         /\ ~todo'[k].drop
         /\ refcnt(y)' > 0 \/ (kind(y)' # "atype" /\ y # todo'[l].arr)
  <2> TAKE y \in All, k, l \in DOMAIN todo'
  <2> HAVE k < l /\ ~todo'[l].drop /\ y = todo'[k].arr
  <2>1. k = 1 /\ l = 2 BY <1>4
  <2> QED BY <1>3, <1>4, <1>5, <2>1
<1>12. Framed(frames)' = {} BY DEF Framed
<1> QED BY <1>4, <1>5, <1>6, <1>7, <1>10, <1>11, <1>12 DEF TodoOK

LEMMA ItemAtIs ==
  ASSUME NEW h, HeapOK(h), NEW a \in All, NEW d \in All, NEW i, i = ItemAt(h, a, d)
  PROVE  /\ i \in Nat
         /\ i # 0 => h[a].kind \in {"ints", "atype"} /\ i \in DOMAIN h[a].items
<1>1. PICK n, j : n = Len(h[a].items) /\ j = h[d].items[1] OBVIOUS
<1>2. CASE /\ h[a].kind \in {"ints", "atype"} /\ h[d].kind \in {"int", "ints"}
           /\ Len(h[d].items) = 1 /\ j < n
  <2>1. i = j + 1 BY <1>1, <1>2 DEF ItemAt
  <2>2. h[d].items \in Seq(Nums) BY <1>2 DEF HeapOK
  <2>3. 1 \in DOMAIN h[d].items BY <1>2, <2>2
  <2>6. PICK q : q = h[d].items OBVIOUS
  <2>7. q \in Seq(Nums) /\ 1 \in DOMAIN q BY <2>2, <2>3, <2>6
  <2>8. q[1] \in Nums BY <2>7
  <2>4. j \in Nat BY <1>1, <2>6, <2>8, RefCountConstants
  <2>5. n \in Nat /\ DOMAIN h[a].items = 1 .. n BY <1>1, HeapFacts
  <2> QED BY <1>2, <2>1, <2>4, <2>5
<1>3. CASE ~ (/\ h[a].kind \in {"ints", "atype"} /\ h[d].kind \in {"int", "ints"}
              /\ Len(h[d].items) = 1 /\ j < n)
  <2>1. i = 0 BY <1>1, <1>3 DEF ItemAt
  <2> QED BY <2>1
<1> QED BY <1>2, <1>3

LEMMA PickKeeps ==
  ASSUME Now, Control, Plain, NEW v \in Vars, Pick(v)
  PROVE  IInv'
<1>1. PICK a, d, i, h : a = valu[v] /\ d = top /\ h = Decr(heap, d) /\ i = ItemAt(heap, a, d) OBVIOUS
<1>2. Evaluating /\ Ready /\ Has(1) /\ Same /\ todo' = <<Free(a), Free(d)>>
  BY <1>1 DEF Pick, Evaluating
<1>3. IF i # 0
      THEN IF kind(a) = "atype" THEN Push(h, Below(1), items(a)[i])
           ELSE Leaves /\ Push(Made(h, Fresh(1)[1], "int", <<items(a)[i]>>), Below(1), Fresh(1)[1])
      ELSE Leaves /\ PushText(h, Below(1), fault)
  BY <1>1 DEF Pick
<1>4. pc \notin Clearing BY <1>2 DEF Evaluating, Clearing
<1>5. /\ todo = <<>> /\ frames = <<>> /\ Registers
      /\ \A w \in All : kind(w) = "atype" => \A j \in DOMAIN items(w) : items(w)[j] \in All
  BY <1>2, <1>4, Resting
<1>6. Core(heap, stk, valu, <<>>, <<>>) /\ HeapOK(heap) BY <1>5 DEF Now, Core
<1>7. stk \in Seq(All) /\ a \in All /\ valu \in [Vars -> All] BY <1>1, <1>6 DEF Core
<1>8. Len(stk) >= r.base + 1 /\ Len(stk) \in Nat \ {0} /\ d = stk[Len(stk)] /\ Len(stk) \in DOMAIN stk /\ d \in All
  BY <1>1, <1>2, <1>5, <1>7 DEF Has, top, Registers
<1>9. Core(h, Below(1), valu, <<>>, <<>>) BY <1>1, <1>6, <1>8, CorePop DEF Below
<1>10. heap[a].refcnt > 0 /\ heap[a].kind # "free" /\ heap[d].refcnt > 0 /\ heap[d].kind # "free"
  BY <1>1, <1>6, <1>7, <1>8, Referred
<1>11. Recount(heap, h) /\ \A y \in All : h[y].refcnt = heap[y].refcnt - One(y = d)
  BY <1>1, <1>6, <1>8, <1>10, DecrIs
<1>12. \A y \in All : h[y].kind = kind(y) /\ h[y].items = items(y) BY <1>11 DEF Recount, kind, items
<1>13. i \in Nat /\ (i # 0 => kind(a) \in {"ints", "atype"} /\ i \in DOMAIN items(a))
  BY <1>1, <1>6, <1>7, <1>8, ItemAtIs DEF kind, items
<1> DEFINE Pushed(x) ==
             /\ stk' = Append(Below(1), x) /\ Core(heap', stk', valu, <<>>, <<>>) /\ heap'[x].refcnt > 0
             /\ \A y \in All : AsBefore(y) \/ (y = x /\ ~InUse(y) /\ kind(y)' \in {"int", "phrase"})
             /\ \A y \in All : y # x => heap'[y].refcnt = h[y].refcnt
             /\ InUse(x) /\ pc = "index" => Kept(x)
<1>14. \E x \in All : Pushed(x)
  <2>1. CASE i # 0 /\ kind(a) = "atype"
    <3>1. PICK x : x = items(a)[i] OBVIOUS
    <3>2. heap' = Incr(h, x) /\ stk' = Append(Below(1), x) BY <1>3, <2>1, <3>1 DEF Push
    <3>3. x \in All BY <1>5, <1>7, <1>13, <2>1, <3>1
    <3>4. RefersTo(a, x)
      <4>1. x # gone BY <3>3, NoGone
      <4> QED BY <1>5, <1>13, <2>1, <3>1, <4>1, ItemRefers
    <3>5. h[x].refcnt > 0 /\ h[x].kind # "free"
      <4>1. i \in DOMAIN h[a].items /\ h[a].items[i] = x /\ Has1(h, <<>>, a, i)
        <5>1. x # gone BY <3>3, NoGone
        <5> QED BY <1>7, <1>12, <1>13, <2>1, <3>1, <5>1 DEF Has1
      <4>2. \E w \in All : \E j \in DOMAIN h[w].items : Has1(h, <<>>, w, j) /\ h[w].items[j] = x BY <1>7, <4>1
      <4> QED BY <1>9, <3>3, <4>2, Referred
    <3>6. Core(heap', stk', valu, <<>>, <<>>) BY <1>9, <3>2, <3>3, <3>5, CorePush
    <3>7. HeapOK(h) BY <1>9 DEF Core
    <3>8. Recount(h, heap') /\ \A y \in All : heap'[y].refcnt = h[y].refcnt + One(y = x)
      BY <3>2, <3>3, <3>5, <3>7, IncrIs
    <3>9. \A y \in All : AsBefore(y) BY <1>12, <3>8 DEF AsBefore, kind, items, Recount
    <3>10. h[x].refcnt \in Nat BY <3>3, <3>7, HeapFacts
    <3>11. heap'[x].refcnt > 0 /\ \A y \in All : y # x => heap'[y].refcnt = h[y].refcnt
      <4>1. heap'[x].refcnt = h[x].refcnt + 1 BY <3>3, <3>8 DEF One
      <4>2. ASSUME NEW y \in All, y # x PROVE heap'[y].refcnt = h[y].refcnt
        <5>1. h[y].refcnt \in Nat BY <3>7, HeapFacts
        <5>2. heap'[y].refcnt = h[y].refcnt + 0 BY <3>8, <4>2 DEF One
        <5> QED BY <5>1, <5>2
      <4> QED BY <3>5, <3>10, <4>1, <4>2
    <3>12. pc = "index" => Kept(x)
      <4>1. \E w \in All \ {} : RefersTo(w, x) BY <1>7, <3>4
      <4> QED BY <4>1 DEF Kept, Lasting, Firm
    <3> QED BY <3>2, <3>3, <3>6, <3>9, <3>11, <3>12
  <2>2. CASE i # 0 /\ kind(a) # "atype"
    <3>1. PICK x, u : x = Fresh(1)[1] /\ u = items(a)[i] OBVIOUS
    <3>2. HasRoom(1) /\ Push(Made(h, x, "int", <<u>>), Below(1), x)
      BY <1>3, <2>2, <3>1, RoomFor, RefCountConstants DEF Leaves
    <3>3. u \in Nums
      <4>1. kind(a) = "ints" BY <1>13, <2>2
      <4>2. items(a) \in Seq(Nums) BY <1>7, <4>1, NowItems
      <4> QED BY <1>13, <2>2, <3>1, <4>2
    <3>4. "int" \in {"int", "phrase"} OBVIOUS
    <3>5. /\ x \in All /\ ~InUse(x) /\ stk' = Append(Below(1), x) /\ Core(heap', stk', valu, <<>>, <<>>)
          /\ heap'[x].kind = "int" /\ heap'[x].refcnt > 0 /\ \A y \in All : y # x => heap'[y] = h[y]
      BY <1>9, <1>12, <3>1, <3>2, <3>3, <3>4, PushLeafIs
    <3>6. \A y \in All : AsBefore(y) \/ (y = x /\ ~InUse(y) /\ kind(y)' \in {"int", "phrase"})
      BY <1>12, <3>5 DEF AsBefore, kind, items
    <3> QED BY <3>5, <3>6
  <2>3. CASE i = 0
    <3>1. PushText(h, Below(1), fault) /\ fault \in Texts BY <1>3, <2>3, RefCountConstants
    <3>2. PICK x \in All :
            /\ stk' = Append(Below(1), x) /\ Core(heap', stk', valu, <<>>, <<>>)
            /\ heap'[x].kind = "phrase" /\ heap'[x].refcnt > 0
            /\ h[x].kind = "free" \/ (h[x].kind = "phrase" /\ heap'[x].items = h[x].items /\ ~OnlyLocal(h, x))
            /\ \A y \in All : y # x => heap'[y] = h[y]
      BY <1>9, <1>12, <3>1, PushTextIs
    <3>3. \A y \in All : AsBefore(y) \/ (y = x /\ ~InUse(y) /\ kind(y)' \in {"int", "phrase"})
      BY <1>12, <3>2 DEF AsBefore, kind, items, InUse
    <3>4. ASSUME pc = "index", InUse(x) PROVE Kept(x)
      <4>1. kind(x) = "phrase" /\ (x = r.x => h[x].refcnt # 0) BY <1>12, <3>2, <3>4 DEF InUse, OnlyLocal
      <4>2. CASE x # r.x BY <4>1, <4>2 DEF Kept, Simple
      <4>3. CASE x = r.x
        <5>1. refcnt(x) \in Nat /\ h[x].refcnt = refcnt(x) - One(x = d) BY <1>11, NowCounts DEF refcnt
        <5>2. refcnt(x) > 0 BY <1>10, <4>1, <4>3, <5>1 DEF One, refcnt
        <5> QED BY <1>2, <3>4, <5>2, CountedKept
      <4> QED BY <4>2, <4>3
    <3> QED BY <3>2, <3>3, <3>4
  <2> QED BY <1>13, <2>1, <2>2, <2>3
<1>15. PICK x \in All : Pushed(x) BY <1>14
<1>16. frames' = <<>> /\ valu' = valu BY <1>2, <1>5 DEF Same
<1>17. AsBefore(a) /\ AsBefore(d) BY <1>7, <1>8, <1>10, <1>15 DEF InUse, kind
<1>18. InUse(a)' /\ InUse(d)' BY <1>10, <1>17 DEF InUse, AsBefore, kind
<1>19. refcnt(a)' > 0
  <2>1. Core(heap', stk', valu, <<>>, <<>>) BY <1>15
  <2>2. \E u \in Vars : valu[u] = a BY <1>1
  <2> QED BY <1>7, <2>1, <2>2, Referred DEF refcnt
<1>20. /\ TodoOK' /\ (\A k \in DOMAIN todo' : ~todo'[k].drop) /\ Waiting' = {a, d} /\ todo' \in Seq(Frees)
       /\ (\E k \in DOMAIN todo' : todo'[k] = Free(d))
  BY <1>2, <1>7, <1>8, <1>16, <1>18, <1>19, TodoTwo
<1>21. Now'
  <2>1. Core(heap', stk', valu, <<>>, <<>>) BY <1>15
  <2> QED BY <1>16, <1>20, <2>1, CoreTodo DEF Now
<1>22. ASSUME NEW y \in All, InUse(y)', refcnt(y)' = 0
       PROVE  (InUse(y) /\ refcnt(y) = 0) \/ \E k \in DOMAIN todo' : todo'[k] = Free(y)
  <2>1. y # x BY <1>15, <1>21, <1>22, NowCountsNext DEF refcnt
  <2>2. AsBefore(y) /\ refcnt(y)' = h[y].refcnt BY <1>15, <2>1 DEF refcnt
  <2>3. InUse(y) BY <1>22, <2>2 DEF InUse, AsBefore
  <2>4. CASE y = d BY <1>20, <2>4
  <2>5. CASE y # d
    <3>1. h[y].refcnt = refcnt(y) - 0 BY <1>11, <2>5 DEF One, refcnt
    <3>2. refcnt(y) \in Nat BY NowCounts
    <3> QED BY <1>22, <2>2, <2>3, <3>1, <3>2
  <2> QED BY <2>4, <2>5
<1>23. ASSUME pc = "index", NEW y \in Waiting' PROVE y \in All /\ Kept(y)
  <2>1. y = a \/ y = d BY <1>20
  <2>2. Kept(a) BY <1>1 DEF Kept, Lasting, Firm
  <2>3. Kept(d)
    <3>1. InIndex BY <1>23 DEF Control
    <3>2. Len(stk) > r.base BY <1>5, <1>8 DEF Registers
    <3> QED BY <1>8, <3>1, <3>2 DEF InIndex
  <2> QED BY <1>7, <1>8, <2>1, <2>2, <2>3
<1>24. (pc = "index" => Kept(x) \/ ~InUse(x)) /\ stk' = Append(Below(1), x)
       /\ \A y \in All : AsBefore(y) \/ (y = x /\ ~InUse(y) /\ kind(y)' \in {"int", "phrase"})
  BY <1>15
<1> HIDE DEF Pushed
<1> QED BY <1>2, <1>20, <1>21, <1>22, <1>23, <1>24, FetchKept

LEMMA TodoDrops ==
  ASSUME frames' = <<>>, \A k \in DOMAIN todo' : todo'[k].drop
  PROVE  TodoOK'
<1>1. \A y, k : k \in DOMAIN todo' => todo'[k] # Free(y) BY DEF Free
<1>2. Framed(frames)' = {} BY DEF Framed
<1> QED BY <1>1, <1>2 DEF TodoOK

LEMMA TodoDrop ==
  ASSUME frames' = <<>>, NEW x, todo' = <<Drop(x)>>
  PROVE  TodoOK' /\ Waiting' = {x}
<1>1. PICK t : t = Drop(x) OBVIOUS
<1>2. todo' = <<t>> /\ t.drop /\ t.arr = x BY <1>1 DEF Drop
<1>3. DOMAIN todo' = {1} /\ todo'[1] = t BY <1>2
<1>4. \A k \in DOMAIN todo' : todo'[k].drop BY <1>2, <1>3
<1> QED BY <1>2, <1>3, <1>4, TodoDrops DEF Waiting

LEMMA StatementPlain == ASSUME Plain, Statement PROVE pc = "idle" /\ Ready
BY DEF Plain, Statement, Evaluating

(* Outside of an operation and of what it leaves to free, nothing is held    *)
(* by locals.                                                                *)
LEMMA IdleNow ==
  ASSUME Now, Control, Ready, pc = "idle"
  PROVE  /\ todo = <<>> /\ frames = <<>> /\ r = NoLocals /\ r.base = 0 /\ unseen \in SUBSET All
         /\ Core(heap, stk, valu, <<>>, <<>>) /\ HeapOK(heap) /\ stk \in Seq(All) /\ valu \in [Vars -> All]
         /\ \A w \in All : kind(w) = "atype" => \A j \in DOMAIN items(w) : items(w)[j] \in All
         /\ \A w \in All : InUse(w) => refcnt(w) > 0
<1>1. /\ todo = <<>> /\ frames = <<>> /\ Registers /\ Locals = {} /\ r = NoLocals
      /\ \A w \in All : kind(w) = "atype" => \A j \in DOMAIN items(w) : items(w)[j] \in All
      /\ \A w \in All : InUse(w) /\ refcnt(w) = 0 => w \in Locals
  BY Resting DEF Clearing
<1>2. NoLocals.base = 0 BY DEF NoLocals
<1>3. Core(heap, stk, valu, <<>>, <<>>) BY <1>1 DEF Now
<1>4. \A w \in All : refcnt(w) \in Nat BY NowCounts
<1> QED BY <1>1, <1>2, <1>3, <1>4 DEF Core, Registers

LEMMA DiscardKeeps ==
  ASSUME Now, Control, Plain, Discard
  PROVE  IInv'
<1>1. PICK d : d = top OBVIOUS
<1>2. pc = "idle" /\ Ready /\ Has(1) /\ stk' = Below(1) /\ todo' = <<Drop(d)>> /\ Same /\ heap' = heap
  BY <1>1, StatementPlain DEF Discard
<1>3. /\ frames = <<>> /\ r = NoLocals /\ r.base = 0 /\ unseen \in SUBSET All /\ Core(heap, stk, valu, <<>>, <<>>)
      /\ \A w \in All : kind(w) = "atype" => \A j \in DOMAIN items(w) : items(w)[j] \in All
      /\ \A w \in All : InUse(w) => refcnt(w) > 0
  BY <1>2, IdleNow
<1>4. stk \in Seq(All) /\ stk # <<>> /\ d = stk[Len(stk)] BY <1>1, <1>2, <1>3 DEF Core, Has, top
<1>5. Core(heap, Below(1), valu, <<Drop(d)>>, <<>>) BY <1>3, <1>4, CorePopDrop DEF Below
<1>6. frames' = <<>> /\ valu' = valu /\ pc' = "idle" /\ r' = NoLocals /\ unseen' \in SUBSET All
  BY <1>2, <1>3 DEF Same
<1>7. Now' BY <1>2, <1>5, <1>6 DEF Now
<1>8. TodoOK' BY <1>2, <1>6, TodoDrop
<1>9. \A w \in All : kind(w)' = kind(w) /\ items(w)' = items(w) /\ refcnt(w)' = refcnt(w)
  BY <1>2 DEF kind, items, refcnt
<1>10. \A w \in All : kind(w)' = "atype" => \A j \in DOMAIN items(w)' : items(w)'[j] # gone
  BY <1>3, <1>9, NoGone
<1>11. \A w \in All : ~(InUse(w)' /\ refcnt(w)' = 0)
  <2> TAKE w \in All
  <2>1. refcnt(w) \in Nat BY NowCounts
  <2> QED BY <1>3, <1>9, <2>1 DEF InUse
<1> QED BY <1>6, <1>7, <1>8, <1>10, <1>11, IdleKept

(* A step of the top level that makes no more than the array x, a list of    *)
(* arrays if at all, and leaves everything referred to.                      *)
LEMMA StatementKept ==
  ASSUME Now, Control, Ready, pc = "idle", pc' = "idle", UNCHANGED <<frames, r, unseen>>, Now', TodoOK',
         NEW x \in All, refcnt(x)' > 0,
         \A y \in All : y # x => AsBefore(y) /\ (InUse(y) => refcnt(y)' > 0),
         kind(x)' = "atype" => \A j \in DOMAIN items(x)' : items(x)'[j] \in All
  PROVE  IInv'
<1>1. /\ frames = <<>> /\ r = NoLocals /\ unseen \in SUBSET All
      /\ \A w \in All : kind(w) = "atype" => \A j \in DOMAIN items(w) : items(w)[j] \in All
  BY IdleNow
<1>2. \A w \in All : kind(w)' = "atype" => \A j \in DOMAIN items(w)' : items(w)'[j] # gone
  <2> TAKE w \in All
  <2>1. kind(w)' = "atype" => \A j \in DOMAIN items(w)' : items(w)'[j] \in All BY <1>1 DEF AsBefore
  <2> QED BY <2>1, NoGone
<1>3. \A w \in All : ~(InUse(w)' /\ refcnt(w)' = 0)
  <2> TAKE w \in All
  <2>1. refcnt(w)' \in Nat BY NowCountsNext
  <2> QED BY <2>1 DEF InUse, AsBefore
<1> QED BY <1>1, <1>2, <1>3, IdleKept

LEMMA AssignKeeps ==
  ASSUME Now, Control, Plain, NEW v \in Vars, Assign(v)
  PROVE  IInv'
<1>1. PICK d : d = top OBVIOUS
<1>2. pc = "idle" /\ Ready /\ Has(1) /\ Store(heap, v, d) /\ UNCHANGED <<stk, frames, pc, r, unseen>>
  BY <1>1, StatementPlain DEF Assign
<1>3. /\ frames = <<>> /\ r.base = 0 /\ Core(heap, stk, valu, <<>>, <<>>) /\ HeapOK(heap)
      /\ \A w \in All : kind(w) = "atype" => \A j \in DOMAIN items(w) : items(w)[j] \in All
      /\ \A w \in All : InUse(w) => refcnt(w) > 0
  BY <1>2, IdleNow
<1>4. stk \in Seq(All) /\ Len(stk) \in DOMAIN stk /\ d = stk[Len(stk)] /\ d \in All
  BY <1>1, <1>2, <1>3 DEF Core, Has, top
<1>5. heap[d].kind # "free" BY <1>3, <1>4, Referred
<1>6. heap' = Incr(heap, d) /\ valu' = [valu EXCEPT ![v] = d] /\ todo' = <<Drop(valu[v])>> BY <1>2 DEF Store
<1>7. Core(heap', stk, valu', todo', <<>>) BY <1>3, <1>4, <1>5, <1>6, CoreStore
<1>8. Now' BY <1>2, <1>3, <1>7 DEF Now
<1>9. TodoOK' BY <1>2, <1>3, <1>6, TodoDrop
<1>10. Recount(heap, heap') /\ \A y \in All : heap'[y].refcnt = heap[y].refcnt + One(y = d)
  BY <1>3, <1>4, <1>5, <1>6, IncrIs
<1>11. \A y \in All : AsBefore(y) /\ (InUse(y) => refcnt(y)' > 0)
  <2> TAKE y \in All
  <2>1. AsBefore(y) BY <1>10 DEF AsBefore, Recount, kind, items
  <2>2. refcnt(y)' = refcnt(y) + One(y = d) BY <1>10 DEF refcnt
  <2>3. refcnt(y) \in Nat /\ One(y = d) \in Nat BY NowCounts DEF One
  <2> QED BY <1>3, <2>1, <2>2, <2>3
<1>12. refcnt(d)' > 0 BY <1>4, <1>5, <1>11 DEF InUse, kind
<1>13. kind(d)' = "atype" => \A j \in DOMAIN items(d)' : items(d)'[j] \in All BY <1>3, <1>4, <1>11 DEF AsBefore
<1> QED BY <1>2, <1>4, <1>8, <1>9, <1>11, <1>12, <1>13, StatementKept

LEMMA PushedIs ==
  ASSUME NEW g, NEW s, NEW f, NEW t, Core(g, s, f, t, <<>>), NEW x \in All, g[x].kind # "free", Push(g, s, x)
  PROVE  /\ Core(heap', stk', f, t, <<>>) /\ stk' = Append(s, x)
         /\ refcnt(x)' = g[x].refcnt + 1 /\ g[x].refcnt \in Nat /\ kind(x)' = g[x].kind /\ items(x)' = g[x].items
         /\ \A y \in All : y # x => kind(y)' = g[y].kind /\ items(y)' = g[y].items /\ refcnt(y)' = g[y].refcnt
<1>1. HeapOK(g) BY DEF Core
<1>2. heap' = Incr(g, x) /\ stk' = Append(s, x) BY DEF Push
<1>3. Core(Incr(g, x), Append(s, x), f, t, <<>>) BY CorePush
<1>4. Recount(g, Incr(g, x)) /\ \A y \in All : Incr(g, x)[y].refcnt = g[y].refcnt + One(y = x)
  BY <1>1, IncrIs
<1>5. \A y \in All : g[y].refcnt \in Nat BY <1>1, HeapFacts
<1>6. \A y \in All : kind(y)' = g[y].kind /\ items(y)' = g[y].items BY <1>2, <1>4 DEF Recount, kind, items
<1>7. refcnt(x)' = g[x].refcnt + 1 BY <1>2, <1>4 DEF refcnt, One
<1>8. ASSUME NEW y \in All, y # x PROVE refcnt(y)' = g[y].refcnt
  <2>1. refcnt(y)' = g[y].refcnt + 0 BY <1>2, <1>4, <1>8 DEF refcnt, One
  <2> QED BY <1>5, <2>1
<1> QED BY <1>2, <1>3, <1>5, <1>6, <1>7, <1>8

LEMMA TopIs ==
  ASSUME stk \in Seq(All), NEW n \in Nat, n <= Len(stk)
  PROVE  TopN(n) \in Seq(All) /\ Len(TopN(n)) = n /\ stk = Below(n) \o TopN(n)
<1>1. PICK m \in Nat : m = Len(stk) - n OBVIOUS
<1>2. Len(stk) = m + n /\ Len(stk) - n + 1 = m + 1 BY <1>1
<1>3. PICK s : s = SubSeq(stk, m + 1, m + n) OBVIOUS
<1>4. s \in Seq(All) /\ Len(s) = n /\ \A j \in 1 .. n : s[j] = stk[m + j]
  <2>1. m + 1 \in 1 .. Len(stk) + 1 /\ m + n \in (m + 1) - 1 .. Len(stk) BY <1>2
  <2>2. s \in Seq(All) BY <1>3, <2>1, SubSeqProperties
  <2>3. Len(s) = (m + n) - (m + 1) + 1 BY <1>3, <2>1, SubSeqProperties
  <2>4. \A j \in 1 .. (m + n) - (m + 1) + 1 : s[j] = stk[(m + 1) + j - 1] BY <1>3, <2>1, SubSeqProperties
  <2> QED BY <2>2, <2>3, <2>4
<1>5. PICK b : b = Below(n) OBVIOUS
<1>6. b \in Seq(All) /\ Len(b) = m /\ \A j \in 1 .. m : b[j] = stk[j] BY <1>1, <1>5, BelowIs
<1>7. PICK c : c = b \o s OBVIOUS
<1>8. c \in Seq(All) /\ Len(c) = m + n BY <1>4, <1>6, <1>7, ConcatProperties
<1>9. \A j \in 1 .. m + n : c[j] = stk[j]
  <2> TAKE j \in 1 .. m + n
  <2>1. CASE j <= m BY <1>4, <1>6, <1>7, <2>1
  <2>2. CASE j > m
    <3>1. j - m \in 1 .. n /\ c[j] = s[j - m] BY <1>4, <1>6, <1>7, <2>2
    <3> QED BY <1>4, <3>1
  <2> QED BY <2>1, <2>2
<1>10. c = stk BY <1>2, <1>8, <1>9
<1> QED BY <1>2, <1>3, <1>4, <1>5, <1>7, <1>10 DEF TopN

LEMMA MkListKeeps ==
  ASSUME Now, Control, Plain, NEW n \in 1 .. MaxItems, MkList(n)
  PROVE  IInv'
<1>1. PICK z, its, b : z = Fresh(1)[1] /\ its = TopN(n) /\ b = Below(n) OBVIOUS
<1>2. pc = "idle" /\ Ready /\ Has(n) /\ HasRoom(1) /\ Same
  BY StatementPlain DEF MkList
<1>3. IF \A j \in 1 .. n : kind(its[j]) = "int"
      THEN /\ Push(Made(heap, z, "ints", [j \in 1 .. n |-> items(its[j])[1]]), b, z)
           /\ todo' = [j \in 1 .. n |-> Drop(its[n + 1 - j])]
      ELSE Push(Made(heap, z, "atype", its), b, z) /\ UNCHANGED todo
  BY <1>1 DEF MkList
<1>4. /\ todo = <<>> /\ frames = <<>> /\ r.base = 0 /\ Core(heap, stk, valu, <<>>, <<>>)
      /\ \A w \in All : kind(w) = "atype" => \A j \in DOMAIN items(w) : items(w)[j] \in All
      /\ \A w \in All : InUse(w) => refcnt(w) > 0
  BY <1>2, IdleNow
<1>5. n \in Nat /\ n >= 1 /\ n <= MaxItems /\ MaxItems \in Nat BY RefCountConstants
<1>6. stk \in Seq(All) /\ n <= Len(stk) BY <1>2, <1>4, <1>5 DEF Core, Has
<1>7. /\ its \in Seq(All) /\ Len(its) = n /\ DOMAIN its = 1 .. n /\ stk = b \o its
  <2>1. its \in Seq(All) /\ Len(its) = n /\ stk = b \o its BY <1>1, <1>5, <1>6, TopIs
  <2> QED BY <2>1
<1>8. b \in Seq(All) BY <1>1, <1>5, <1>6, BelowIs
<1>9. z \in All /\ heap[z].kind = "free" /\ ~InUse(z) BY <1>1, <1>2, FreshOne DEF InUse, kind
<1>10. frames' = <<>> /\ UNCHANGED <<valu, frames, r, unseen>> /\ pc' = "idle" BY <1>2, <1>4 DEF Same
<1>11. CASE \A j \in 1 .. n : kind(its[j]) = "int"
  <2>1. PICK data : data = [j \in 1 .. n |-> items(its[j])[1]] OBVIOUS
  <2>2. \A j \in 1 .. n : data[j] \in Nums
    <3> TAKE j \in 1 .. n
    <3>1. PICK y \in All : y = its[j] BY <1>7
    <3>2. kind(y) = "int" BY <1>11, <3>1
    <3>3. items(y) \in Seq(Nums) /\ Len(items(y)) = 1 BY <3>2, NowItems
    <3>4. PICK q : q = items(y) OBVIOUS
    <3>5. q[1] \in Nums BY <3>3, <3>4
    <3> QED BY <2>1, <3>1, <3>4, <3>5
  <2>3. data \in Seq(Nums) /\ Len(data) = n BY <1>5, <2>1, <2>2
  <2>5. PICK t : t = [j \in 1 .. n |-> Drop(its[n + 1 - j])] OBVIOUS
  <2>6. Core(heap, b, valu, t, <<>>) BY <1>4, <1>7, <1>8, <2>5, CorePack
  <2>9. PICK g : g = Made(heap, z, "ints", data) OBVIOUS
  <2>10. /\ Core(g, b, valu, t, <<>>) /\ g[z] = [kind |-> "ints", items |-> data, refcnt |-> 0]
         /\ \A y \in All : y # z => g[y] = heap[y]
    BY <1>5, <1>9, <2>3, <2>6, <2>9, CorePacked
  <2>11. g[z].kind = "ints" BY <2>10
  <2>12. Push(g, b, z) /\ todo' = t BY <1>3, <1>11, <2>1, <2>5, <2>9
  <2>13. /\ Core(heap', stk', valu, t, <<>>) /\ refcnt(z)' = g[z].refcnt + 1 /\ g[z].refcnt \in Nat /\ kind(z)' = "ints"
         /\ \A y \in All : y # z => kind(y)' = g[y].kind /\ items(y)' = g[y].items /\ refcnt(y)' = g[y].refcnt
    BY <1>9, <2>10, <2>11, <2>12, PushedIs
  <2>14. Now' BY <1>10, <2>12, <2>13 DEF Now
  <2>15. \A k2 \in DOMAIN todo' : todo'[k2].drop BY <2>5, <2>12 DEF Drop
  <2>16. TodoOK' BY <1>10, <2>15, TodoDrops
  <2>17. \A y \in All : y # z => AsBefore(y) /\ (InUse(y) => refcnt(y)' > 0)
    BY <1>4, <2>10, <2>13 DEF AsBefore, kind, items, refcnt
  <2> QED BY <1>2, <1>9, <1>10, <2>13, <2>14, <2>16, <2>17, StatementKept
<1>12. CASE ~ \A j \in 1 .. n : kind(its[j]) = "int"
  <2>1. PICK g : g = Made(heap, z, "atype", its) OBVIOUS
  <2>2. Core(heap, b \o its, valu, <<>>, <<>>) BY <1>4, <1>7
  <2>3. /\ Core(g, b, valu, <<>>, <<>>) /\ g[z] = [kind |-> "atype", items |-> its, refcnt |-> 0]
        /\ \A y \in All : y # z => g[y] = heap[y]
    BY <1>5, <1>7, <1>8, <1>9, <2>1, <2>2, CoreList
  <2>4. g[z].kind = "atype" /\ g[z].items = its BY <2>3
  <2>5. Push(g, b, z) /\ todo' = <<>> BY <1>3, <1>4, <1>12, <2>1
  <2>6. /\ Core(heap', stk', valu, <<>>, <<>>) /\ refcnt(z)' = g[z].refcnt + 1 /\ g[z].refcnt \in Nat /\ items(z)' = its
        /\ \A y \in All : y # z => kind(y)' = g[y].kind /\ items(y)' = g[y].items /\ refcnt(y)' = g[y].refcnt
    BY <1>9, <2>3, <2>4, <2>5, PushedIs
  <2>7. Now' BY <1>10, <2>5, <2>6 DEF Now
  <2>8. TodoOK' BY <1>10, <2>5, TodoNone
  <2>9. \A y \in All : y # z => AsBefore(y) /\ (InUse(y) => refcnt(y)' > 0)
    BY <1>4, <2>3, <2>6 DEF AsBefore, kind, items, refcnt
  <2>10. \A j \in DOMAIN items(z)' : items(z)'[j] \in All BY <1>7, <2>6
  <2> QED BY <1>2, <1>9, <1>10, <2>6, <2>7, <2>8, <2>9, <2>10, StatementKept
<1> QED BY <1>11, <1>12

LEMMA NoLocalsIs ==
  /\ NoLocals.base = 0 /\ NoLocals.i = 0 /\ NoLocals.outer = <<>> /\ ~NoLocals.changed /\ ~NoLocals.protect
  /\ <<>> \in Seq(Frees)
BY DEF NoLocals

LEMMA RecountNext ==
  ASSUME Recount(heap, heap')
  PROVE  \A y \in All : AsBefore(y)
BY DEF Recount, AsBefore, kind, items

(* The stack gives up its top, which is in a local from now on.              *)
LEMMA PopIs ==
  ASSUME Core(heap, stk, valu, <<>>, <<>>), stk # <<>>, NEW d, d = top, heap' = Decr(heap, d)
  PROVE  /\ Core(heap', Below(1), valu, <<>>, <<>>)
         /\ d \in All /\ InUse(d) /\ \A y \in All : AsBefore(y)
         /\ refcnt(d) \in Nat /\ refcnt(d) > 0 /\ refcnt(d)' = refcnt(d) - 1
         /\ \A y \in All : y # d => refcnt(y)' = refcnt(y)
<1>1. HeapOK(heap) /\ stk \in Seq(All) BY DEF Core
<1>2. Len(stk) \in DOMAIN stk /\ d = stk[Len(stk)] /\ d \in All BY <1>1, EmptySeq DEF top
<1>3. heap[d].refcnt > 0 /\ heap[d].kind # "free" BY <1>2, Referred
<1>4. Core(heap', Below(1), valu, <<>>, <<>>) BY <1>2, CorePop DEF Below
<1>5. Recount(heap, heap') /\ \A y \in All : heap'[y].refcnt = heap[y].refcnt - One(y = d)
  BY <1>1, <1>2, <1>3, DecrIs
<1>6. \A y \in All : refcnt(y) \in Nat BY <1>1, HeapFacts DEF refcnt
<1>7. ASSUME NEW y \in All, y # d PROVE refcnt(y)' = refcnt(y)
  <2>1. refcnt(y)' = refcnt(y) - 0 BY <1>5, <1>7 DEF refcnt, One
  <2> QED BY <1>6, <2>1
<1>8. refcnt(d)' = refcnt(d) - 1 BY <1>2, <1>5 DEF refcnt, One
<1> QED BY <1>2, <1>3, <1>4, <1>5, <1>6, <1>7, <1>8, RecountNext DEF InUse, kind, refcnt

LEMMA InsertKeeps ==
  ASSUME Now, Control, NEW v \in Vars, Insert(v)
  PROVE  IInv'
<1>1. PICK d : d = top OBVIOUS
<1>2. /\ Ready /\ pc = "idle" /\ Has(1) /\ heap' = Decr(heap, d) /\ stk' = Below(1)
      /\ r' = [NoLocals EXCEPT !.op = "insert", !.var = v, !.base = Len(stk) - 1, !.x = d]
      /\ pc' = "index" /\ UNCHANGED <<valu, todo, frames, unseen>>
  BY <1>1 DEF Insert
<1>3. /\ todo = <<>> /\ frames = <<>> /\ r.base = 0 /\ unseen \in SUBSET All
      /\ Core(heap, stk, valu, <<>>, <<>>) /\ stk \in Seq(All)
      /\ \A w \in All : kind(w) = "atype" => \A j \in DOMAIN items(w) : items(w)[j] \in All
      /\ \A w \in All : InUse(w) => refcnt(w) > 0
  BY <1>2, IdleNow
<1>4. stk # <<>> /\ Len(stk) - 1 \in Nat BY <1>2, <1>3 DEF Has
<1>5. /\ r' = [op |-> r'.op, var |-> r'.var, base |-> r'.base, a |-> r'.a, i |-> r'.i, x |-> r'.x,
               addr |-> r'.addr, outer |-> r'.outer, changed |-> r'.changed, protect |-> r'.protect,
               due |-> r'.due]
      /\ r'.op = "insert" /\ r'.var = v /\ r'.base = Len(stk) - 1 /\ r'.x = d
      /\ r'.i = NoLocals.i /\ r'.outer = NoLocals.outer /\ r'.changed = NoLocals.changed /\ r'.protect = NoLocals.protect
  BY <1>2 DEF NoLocals
<1>6. /\ Core(heap', Below(1), valu, <<>>, <<>>)
      /\ d \in All /\ InUse(d) /\ \A y \in All : AsBefore(y)
      /\ \A y \in All : y # d => refcnt(y)' = refcnt(y)
  BY <1>1, <1>2, <1>3, <1>4, PopIs
<1>7. Len(Below(1)) = Len(stk) - 1 /\ Below(1) \in Seq(All)
  <2>1. 1 <= Len(stk) BY <1>3, <1>4
  <2> QED BY <1>3, <2>1, BelowIs
<1>8. Now' BY <1>2, <1>3, <1>6 DEF Now
<1>9. TodoOK' /\ (\A k \in DOMAIN todo' : ~todo'[k].drop) /\ Waiting' = {} BY <1>2, <1>3, TodoNone
<1>10. r'.changed \in BOOLEAN /\ r'.protect \in BOOLEAN
  <2>1. NoLocals.changed \in BOOLEAN /\ NoLocals.protect \in BOOLEAN BY DEF NoLocals
  <2> QED BY <1>5, <2>1
<1>11. Registers'
  <2>1. r' = [op |-> r'.op, var |-> r'.var, base |-> r'.base, a |-> r'.a, i |-> r'.i, x |-> r'.x,
              addr |-> r'.addr, outer |-> r'.outer, changed |-> r'.changed, protect |-> r'.protect,
              due |-> r'.due]
    BY <1>5
  <2>2. r'.base \in Nat /\ r'.i \in Nat /\ r'.outer \in Seq(Frees) BY <1>4, <1>5, NoLocalsIs
  <2>3. pc' = "index" /\ unseen' \in SUBSET All BY <1>2, <1>3
  <2> QED BY <1>10, <2>1, <2>2, <2>3 DEF Registers
<1>12. GoneOK' BY <1>3, <1>6, NoGone DEF GoneOK, AsBefore
<1>13. ZeroOK'
  <2>1. \A w \in All : InUse(w)' /\ refcnt(w)' = 0 => w = d
    <3> TAKE w \in All
    <3>1. refcnt(w) \in Nat BY NowCounts
    <3> QED BY <1>3, <1>6, <3>1 DEF InUse, AsBefore
  <2>2. d \in Locals' BY <1>2, <1>5 DEF Locals
  <2> QED BY <2>1, <2>2 DEF ZeroOK
<1>14. InIndex'
  <2>1. (r.x \in Used)' BY <1>5, <1>6 DEF Used, InUse, AsBefore
  <2>2. ~ \E j \in DOMAIN stk' : j > r'.base BY <1>2, <1>4, <1>5, <1>7
  <2>3. r'.base <= Len(stk') BY <1>2, <1>4, <1>5, <1>7
  <2>4. Framed(frames)' = {} BY <1>2, <1>3 DEF Framed
  <2> QED BY <1>5, <1>9, <2>1, <2>2, <2>3, <2>4, NoLocalsIs DEF InIndex
<1>15. Control' BY <1>2, <1>9, <1>11, <1>12, <1>13, <1>14 DEF Control, Working, Ending, Clearing
<1> QED BY <1>8, <1>15 DEF IInv, Now

LEMMA KeptKept ==
  ASSUME Now, frames = <<>>, frames' = <<>>, valu' = valu, r'.x = r.x, r'.base = r.base, r.base \in Nat,
         \A j \in DOMAIN stk : j <= r.base => j \in DOMAIN stk' /\ stk'[j] = stk[j],
         \A y \in All : InUse(y) => AsBefore(y),
         NEW y \in All, InUse(y), Kept(y)
  PROVE  Kept(y)'
<1>1. Simple(y) => Simple(y)' BY DEF Simple, AsBefore
<1>2. PICK n : n = r.base OBVIOUS
<1>3. \A w \in All : RefersTo(w, y) => RefersTo(w, y)'
  <2> TAKE w \in All
  <2>1. kind(w) = "atype" => AsBefore(w) BY DEF InUse
  <2> QED BY <2>1, RefersKept
<1>4. \A j \in DOMAIN stk : j <= n => j \in DOMAIN stk' /\ stk'[j] = stk[j] /\ j <= n BY <1>2
<1>5. Firm(y, n, {}) => Firm(y, n, {})' BY <1>3, <1>4, FirmKept
<1> QED BY <1>1, <1>2, <1>5 DEF Kept, Lasting

LEMMA ClosedKept ==
  ASSUME NEW S \in SUBSET All, \A y \in S : kind(y) = "atype" \/ kind(y)' = "atype" => AsBefore(y)
  PROVE  ClosedUnderItems(S) => ClosedUnderItems(S)'
BY DEF ClosedUnderItems, AsBefore

LEMMA IndexDoneKeeps ==
  ASSUME Now, Control, Plain, IndexDone
  PROVE  IInv'
<1>1. PICK a, d, i, self : a = valu[r.var] /\ d = top /\ self = Protects(a) /\ i = ItemAt(heap, a, d) OBVIOUS
<1>2. /\ Ready /\ pc = "index" /\ Len(stk) = r.base + 1 /\ (i # 0 => ~IsPartOf(d, a))
      /\ IF self THEN Push(Decr(heap, d), Below(1), a) ELSE heap' = Decr(heap, d) /\ stk' = Below(1)
      /\ pc' = "place" /\ UNCHANGED <<valu, todo, frames, unseen>>
  BY <1>1 DEF IndexDone, Plain
<1>3. PICK due : r' = [r EXCEPT !.a = a, !.addr = d, !.protect = self, !.i = i, !.due = due]
  BY <1>1 DEF IndexDone
<1>4. /\ todo = <<>> /\ frames = <<>> /\ Registers /\ Locals = {r.x} /\ r.x \in All
      /\ \A w \in All : kind(w) = "atype" => \A j \in DOMAIN items(w) : items(w)[j] \in All
      /\ \A w \in All : InUse(w) /\ refcnt(w) = 0 => w \in Locals
  BY <1>2, Resting DEF Clearing
<1>5. /\ r.op = "insert" /\ r.var \in Vars /\ r.outer = <<>> /\ ~r.changed /\ InUse(r.x)
      /\ \A y \in All : (\E j \in DOMAIN stk : j > r.base /\ stk[j] = y) => Kept(y)
  BY <1>2 DEF Control, InIndex, Used
<1>6. /\ r = [op |-> r.op, var |-> r.var, base |-> r.base, a |-> r.a, i |-> r.i, x |-> r.x,
              addr |-> r.addr, outer |-> r.outer, changed |-> r.changed, protect |-> r.protect,
              due |-> r.due]
      /\ r.base \in Nat /\ r.changed \in BOOLEAN /\ unseen \in SUBSET All
  BY <1>4 DEF Registers
<1>7. /\ r' = [op |-> r'.op, var |-> r'.var, base |-> r'.base, a |-> r'.a, i |-> r'.i, x |-> r'.x,
               addr |-> r'.addr, outer |-> r'.outer, changed |-> r'.changed, protect |-> r'.protect,
               due |-> r'.due]
      /\ r'.op = "insert" /\ r'.var = r.var /\ r'.base = r.base /\ r'.x = r.x /\ r'.outer = r.outer
      /\ r'.changed = r.changed /\ r'.a = a /\ r'.addr = d /\ r'.protect = self /\ r'.i = i
  BY <1>3, <1>5, <1>6
<1>8. Core(heap, stk, valu, <<>>, <<>>) BY <1>4 DEF Now
<1>9. /\ HeapOK(heap) /\ stk \in Seq(All) /\ valu \in [Vars -> All] /\ a \in All BY <1>1, <1>5, <1>8 DEF Core
<1>10. /\ stk # <<>> /\ Len(stk) \in Nat /\ Len(stk) \in DOMAIN stk /\ d = stk[Len(stk)] /\ d \in All
  BY <1>1, <1>2, <1>6, <1>9 DEF top
<1>11. InUse(a) /\ refcnt(a) > 0 BY <1>1, <1>5, <1>8, <1>9, Referred DEF InUse, kind, refcnt
<1>12. /\ Below(1) \in Seq(All) /\ Len(Below(1)) = r.base /\ \A j \in 1 .. r.base : Below(1)[j] = stk[j]
  BY <1>2, <1>6, <1>9, BelowIs
<1>13. /\ Now' /\ \A y \in All : AsBefore(y)
       /\ \A y \in All : y # d => refcnt(y)' >= refcnt(y)
       /\ stk' = IF self THEN Append(Below(1), a) ELSE Below(1)
       /\ InUse(d)
  <2>1. PICK g : g = Decr(heap, d) OBVIOUS
  <2>2. heap[d].refcnt > 0 /\ heap[d].kind # "free" BY <1>8, <1>10, Referred
  <2>3. Core(g, Below(1), valu, <<>>, <<>>) BY <1>8, <1>10, <2>1, CorePop DEF Below
  <2>4. Recount(heap, g) /\ \A y \in All : g[y].refcnt = heap[y].refcnt - One(y = d)
    BY <1>9, <1>10, <2>1, <2>2, DecrIs
  <2>5. \A y \in All : y # d => g[y].refcnt = refcnt(y)
    <3> TAKE y \in All
    <3>1. refcnt(y) \in Nat BY NowCounts
    <3> QED BY <2>4, <3>1 DEF One, refcnt
  <2>6. \A y \in All : refcnt(y) \in Nat BY NowCounts
  <2>7. CASE ~self
    <3>1. heap' = g /\ stk' = Below(1) BY <1>2, <2>1, <2>7
    <3>2. Now' BY <1>2, <1>4, <2>3, <3>1 DEF Now
    <3>3. \A y \in All : AsBefore(y) BY <2>4, <3>1, RecountNext
    <3>4. \A y \in All : y # d => refcnt(y)' = refcnt(y) BY <2>5, <3>1 DEF refcnt
    <3> QED BY <2>2, <2>6, <2>7, <3>1, <3>2, <3>3, <3>4 DEF InUse, kind
  <2>8. CASE self
    <3>1. Push(g, Below(1), a) BY <1>2, <2>1, <2>8
    <3>2. g[a].kind # "free" BY <1>9, <1>11, <2>4 DEF Recount, InUse, kind
    <3>3. /\ Core(heap', stk', valu, <<>>, <<>>) /\ stk' = Append(Below(1), a)
          /\ refcnt(a)' = g[a].refcnt + 1 /\ g[a].refcnt \in Nat /\ kind(a)' = g[a].kind /\ items(a)' = g[a].items
          /\ \A y \in All : y # a => kind(y)' = g[y].kind /\ items(y)' = g[y].items /\ refcnt(y)' = g[y].refcnt
      BY <1>9, <2>3, <3>1, <3>2, PushedIs
    <3>4. Now' BY <1>2, <1>4, <3>3 DEF Now
    <3>5. \A y \in All : AsBefore(y) BY <2>4, <3>3 DEF Recount, AsBefore, kind, items
    <3>6. \A y \in All : y # d => refcnt(y)' >= refcnt(y) BY <2>5, <2>6, <3>3
    <3> QED BY <2>2, <2>8, <3>3, <3>4, <3>5, <3>6 DEF InUse, kind
  <2>9. self \in BOOLEAN BY <1>1 DEF Protects
  <2> QED BY <2>7, <2>8, <2>9
<1>14. \A y \in All : InUse(y)' <=> InUse(y) BY <1>13 DEF InUse, AsBefore
<1>15. frames' = <<>> /\ todo' = <<>> BY <1>2, <1>4
<1>16. TodoOK' BY <1>15, TodoNone
<1>17. Registers'
  <2>1. self \in BOOLEAN BY <1>1 DEF Protects
  <2>2. i \in Nat BY <1>1, <1>9, <1>10, ItemAtIs
  <2>3. r'.outer \in Seq(Frees) BY <1>5, <1>7
  <2>4. r'.base \in Nat /\ r'.i \in Nat /\ r'.changed \in BOOLEAN /\ r'.protect \in BOOLEAN BY <1>6, <1>7, <2>1, <2>2
  <2> QED BY <1>2, <1>6, <1>7, <2>3, <2>4 DEF Registers
<1>18. GoneOK' BY <1>4, <1>13, NoGone DEF GoneOK, AsBefore
<1>19. ZeroOK'
  <2> SUFFICES ASSUME NEW w \in All, InUse(w)', refcnt(w)' = 0 PROVE w \in Locals' BY DEF ZeroOK
  <2>1. Locals' = {a, r.x, d}
    <3>1. Outer' = {} BY <1>5, <1>7 DEF Outer
    <3> QED BY <1>2, <1>7, <3>1 DEF Locals, Working
  <2>2. CASE w = d BY <2>1, <2>2
  <2>3. CASE w # d
    <3>1. refcnt(w) \in Nat BY NowCounts
    <3>2. refcnt(w) = 0 BY <1>13, <2>3, <3>1
    <3> QED BY <1>4, <1>14, <2>1, <3>2
  <2> QED BY <2>2, <2>3
<1>20. InPlace'
  <2>1. PICK x \in All : x = r.x BY <1>4
  <2>2. Len(stk') = Depth' BY <1>6, <1>7, <1>9, <1>12, <1>13 DEF Depth
  <2>3. Ready' /\ ~r'.changed BY <1>5, <1>7, <1>15 DEF Ready
  <2>4. Begins(a, x, d)'
    <3>1. InUse(a)' /\ InUse(x)' /\ InUse(d)' BY <1>5, <1>9, <1>10, <1>11, <1>13, <1>14, <2>1
    <3>2. r'.i # 0 => kind(a)' \in {"ints", "atype"} /\ r'.i \in DOMAIN items(a)'
      <4>1. i # 0 => heap[a].kind \in {"ints", "atype"} /\ i \in DOMAIN heap[a].items BY <1>1, <1>9, <1>10, ItemAtIs
      <4> QED BY <1>7, <1>9, <1>13, <4>1 DEF AsBefore, kind, items
    <3>3. ByInsert' /\ a = valu'[r'.var] BY <1>1, <1>2, <1>5, <1>7 DEF ByInsert
    <3>4. Kept(d)'
      <4>1. Kept(d) BY <1>2, <1>5, <1>6, <1>10
      <4>2. \A j \in DOMAIN stk : j <= r.base => j \in DOMAIN stk' /\ stk'[j] = stk[j]
        <5> TAKE j \in DOMAIN stk
        <5> HAVE j <= r.base
        <5>1. j \in 1 .. r.base BY <1>6, <1>9
        <5>2. j \in DOMAIN Below(1) /\ Below(1)[j] = stk[j] BY <1>12, <5>1
        <5>3. CASE self BY <1>9, <1>12, <1>13, <5>1, <5>2, <5>3
        <5>4. CASE ~self BY <1>13, <5>2, <5>4
        <5> QED BY <5>3, <5>4
      <4> QED BY <1>2, <1>4, <1>6, <1>7, <1>10, <1>13, <4>1, <4>2, KeptKept
    <3>5. r'.i # 0 => \E S \in SUBSET All : ClosedUnderItems(S)' /\ a \in S /\ d \notin S
      <4> SUFFICES ASSUME i # 0 PROVE \E S \in SUBSET All : ClosedUnderItems(S)' /\ a \in S /\ d \notin S BY <1>7
      <4>1. PICK S \in SUBSET All : a \in S /\ ClosedUnderItems(S) /\ d \notin S BY <1>2 DEF IsPartOf
      <4>2. ClosedUnderItems(S)' BY <1>13, <4>1, ClosedKept
      <4> QED BY <4>1, <4>2
    <3> QED BY <3>1, <3>2, <3>3, <3>4, <3>5 DEF Begins
  <2>5. \A a2, x2, d2 \in All : At(a2, x2, d2)' => a2 = a /\ x2 = x /\ d2 = d BY <1>7, <2>1 DEF At
  <2>6. {r'.a, r'.x, r'.addr} \subseteq All BY <1>7, <1>9, <1>10, <2>1
  <2> QED BY <2>2, <2>3, <2>4, <2>5, <2>6 DEF InPlace
<1>21. Control' BY <1>2, <1>16, <1>17, <1>18, <1>19, <1>20 DEF Control, Working, Ending, Clearing
<1> QED BY <1>13, <1>21 DEF IInv, Now

LEMMA SplitIs ==
  ASSUME NEW h, NEW s, NEW f, NEW t, Core(h, s, f, t, <<>>), \A y \in All : h[y].kind = kind(y),
         NEW z \in All, h[z].kind # "free", Len(h[z].items) = 2, CanSplit(h, z),
         h[z].kind = "atype" => \A j \in DOMAIN h[z].items : h[z].items[j] \in All,
         NEW g, NEW a, NEW b, Split(h, z) = [heap |-> g, first |-> a, second |-> b]
  PROVE  /\ a \in All /\ b \in All /\ Core(g, s, f, t, <<>>) /\ g[a].kind # "free" /\ g[b].kind # "free"
         /\ \/ h[z].kind = "atype" /\ g = h /\ h[z].items = <<a, b>>
            \/ /\ h[z].kind = "ints" /\ a # b /\ h[a].kind = "free" /\ h[b].kind = "free"
               /\ g[a].kind = "int" /\ g[a].refcnt = 0 /\ Len(g[a].items) = 1
               /\ g[b].kind = "int" /\ g[b].refcnt = 0 /\ Len(g[b].items) = 1
               /\ \A y \in All : y # a /\ y # b => g[y] = h[y]
<1>1. HeapOK(h) BY DEF Core
<1>2. PICK q : q = h[z].items OBVIOUS
<1>3. q \in Seq(Words) /\ Len(q) = 2 /\ DOMAIN q = {1, 2} /\ q = <<q[1], q[2]>>
  <2>1. q \in Seq(Words) /\ Len(q) = 2 BY <1>1, <1>2, HeapFacts
  <2> QED BY <2>1
<1>4. CASE h[z].kind = "atype"
  <2>1. g = h /\ a = q[1] /\ b = q[2] BY <1>2, <1>4 DEF Split
  <2>2. a \in All /\ b \in All BY <1>2, <1>3, <1>4, <2>1
  <2>3. a # gone /\ b # gone BY <2>2, NoGone
  <2>4. Has1(h, <<>>, z, 1) /\ Has1(h, <<>>, z, 2) /\ h[z].items[1] = a /\ h[z].items[2] = b
    BY <1>2, <1>3, <1>4, <2>1, <2>3 DEF Has1
  <2>5. 1 \in DOMAIN h[z].items /\ 2 \in DOMAIN h[z].items BY <1>2, <1>3
  <2>6. \E w \in All : \E j \in DOMAIN h[w].items : Has1(h, <<>>, w, j) /\ h[w].items[j] = a BY <2>4, <2>5
  <2>7. \E w \in All : \E j \in DOMAIN h[w].items : Has1(h, <<>>, w, j) /\ h[w].items[j] = b BY <2>4, <2>5
  <2>8. h[a].kind # "free" /\ h[b].kind # "free" BY <2>2, <2>6, <2>7, Referred
  <2> QED BY <1>2, <1>3, <1>4, <2>1, <2>2, <2>8
<1>5. CASE h[z].kind # "atype"
  <2>1. PICK e : e = Fresh(2) OBVIOUS
  <2>2. HasRoom(2) BY <1>5 DEF CanSplit
  <2>3. e \in [1 .. 2 -> Unused] /\ \A i, j \in 1 .. 2 : e[i] = e[j] => i = j BY <2>1, <2>2, FreshIs
  <2>4. e[1] \in Unused /\ e[2] \in Unused /\ e[1] # e[2] BY <2>3
  <2>5. /\ e[1] \in All /\ e[2] \in All /\ h[e[1]].kind = "free" /\ h[e[2]].kind = "free"
    BY <2>4 DEF Unused, InUse, All
  <2>6. PICK u, v, g1 : u = q[1] /\ v = q[2] /\ g1 = Made(h, e[1], "int", <<u>>) OBVIOUS
  <2>7. a = e[1] /\ b = e[2] /\ g = Made(g1, e[2], "int", <<v>>)
    <3>1. Split(h, z) = [heap |-> Made(Made(h, e[1], "int", <<q[1]>>), e[2], "int", <<q[2]>>),
                         first |-> e[1], second |-> e[2]]
      BY <1>2, <1>5, <2>1 DEF Split
    <3> QED BY <2>6, <3>1
  <2>8. h[z].kind = "ints"
    <3>1. h[z].kind \in Kinds BY <1>1, HeapFacts
    <3>2. h[z].kind \notin {"int", "phrase"}
      <4>1. h[z].kind \in {"int", "phrase"} => Len(h[z].items) = 1 BY <1>1 DEF HeapOK
      <4> QED BY <4>1
    <3> QED BY <1>5, <3>1, <3>2 DEF Kinds
  <2>9. u \in Nums /\ v \in Nums
    <3>1. q \in Seq(Nums) BY <1>1, <1>2, <2>8 DEF HeapOK
    <3> QED BY <1>3, <2>6, <3>1
  <2>10. "int" \in {"int", "phrase"} OBVIOUS
  <2>11. /\ Core(g1, s, f, t, <<>>) /\ g1[a] = [kind |-> "int", items |-> <<u>>, refcnt |-> 0]
         /\ \A y \in All : y # a => g1[y] = h[y]
    BY <2>5, <2>6, <2>7, <2>9, <2>10, CoreLeaf
  <2>12. g1[b].kind = "free" BY <2>4, <2>5, <2>7, <2>11
  <2>13. /\ Core(g, s, f, t, <<>>) /\ g[b] = [kind |-> "int", items |-> <<v>>, refcnt |-> 0]
         /\ \A y \in All : y # b => g[y] = g1[y]
    BY <2>5, <2>7, <2>9, <2>10, <2>11, <2>12, CoreLeaf
  <2>14. g[a] = [kind |-> "int", items |-> <<u>>, refcnt |-> 0] BY <2>4, <2>5, <2>7, <2>11, <2>13
  <2>15. /\ g[a].kind = "int" /\ g[a].refcnt = 0 /\ Len(g[a].items) = 1
         /\ g[b].kind = "int" /\ g[b].refcnt = 0 /\ Len(g[b].items) = 1
    BY <2>13, <2>14
  <2> QED BY <2>4, <2>5, <2>7, <2>8, <2>11, <2>13, <2>15
<1> QED BY <1>4, <1>5

(* place is refused: what it has taken is freed after the fault is made.     *)
LEMMA RefuseKept ==
  ASSUME Now', frames' = <<>>, todo' = <<>>, pc' = "fault", unseen' \in SUBSET All, NEW fr \in Seq(Frees), NEW n \in Nat,
         NEW due, r' = [[NoLocals EXCEPT !.op = "place", !.base = n, !.due = due] EXCEPT !.outer = fr],
         Len(stk') = n, OuterOK',
         \A w \in All : kind(w)' = "atype" => \A j \in DOMAIN items(w)' : items(w)'[j] # gone,
         \A w \in All : InUse(w)' /\ refcnt(w)' = 0 => \E k \in DOMAIN fr : fr[k].arr = w
  PROVE  IInv'
<1>1. NoLocals.changed \in BOOLEAN /\ NoLocals.protect \in BOOLEAN BY DEF NoLocals
<1>2. /\ r' = [op |-> r'.op, var |-> r'.var, base |-> r'.base, a |-> r'.a, i |-> r'.i, x |-> r'.x,
               addr |-> r'.addr, outer |-> r'.outer, changed |-> r'.changed, protect |-> r'.protect,
               due |-> r'.due]
      /\ r'.base = n /\ r'.outer = fr
      /\ r'.i = NoLocals.i /\ r'.changed = NoLocals.changed /\ r'.protect = NoLocals.protect
  BY DEF NoLocals
<1>3. r'.base \in Nat /\ r'.i \in Nat /\ r'.outer \in Seq(Frees) /\ r'.changed \in BOOLEAN /\ r'.protect \in BOOLEAN
  BY <1>1, <1>2, NoLocalsIs
<1>4. Registers' BY <1>2, <1>3 DEF Registers, Ending
<1>5. TodoOK' /\ Waiting' = {} BY TodoNone
<1>6. GoneOK' BY DEF GoneOK
<1>7. Outer' = {fr[k].arr : k \in DOMAIN fr} BY <1>2 DEF Outer
<1>8. ZeroOK' BY <1>7 DEF ZeroOK, Locals
<1>9. Apart({})'
  <2>1. Framed(frames)' = {} BY DEF Framed
  <2>2. Within({})' BY <1>5, <2>1 DEF Within
  <2> QED BY <2>2 DEF Apart, Working
<1>10. InEnding'
  <2>1. Len(stk') = (Depth + (IF pc = "fault" THEN 0 ELSE 1))' BY <1>2, NoLocalsIs DEF Depth
  <2> QED BY <1>2, <2>1, NoLocalsIs DEF InEnding
<1>11. \E P \in SUBSET All : Apart(P)' BY <1>9
<1>12. Control' BY <1>4, <1>5, <1>6, <1>8, <1>10, <1>11 DEF Control, Working, Clearing
<1> QED BY <1>12 DEF IInv, Now

LEMMA OuterOneNext ==
  ASSUME NEW p \in All, r'.outer = <<Free(p)>>, InUse(p)', refcnt(p)' = 0
  PROVE  OuterOK'
<1>1. PICK t : t = Free(p) OBVIOUS
<1>2. t.arr = p /\ ~t.drop BY <1>1 DEF Free
<1>3. PICK fr : fr = r'.outer OBVIOUS
<1>4. DOMAIN fr = {1} /\ Len(fr) = 1 /\ fr[1] = t BY <1>1, <1>3
<1> QED BY <1>2, <1>3, <1>4 DEF OuterOK, Pair

LEMMA OuterThreeNext ==
  ASSUME NEW p \in All, NEW a \in All, NEW b \in All, r'.outer = <<Free(a), Free(b), Free(p)>>,
         InUse(p)', refcnt(p)' = 0, InUse(a)', InUse(b)',
         \/ RefersTo(p, a)' /\ RefersTo(p, b)'
         \/ /\ kind(a)' # "atype" /\ refcnt(a)' = 0 /\ kind(b)' # "atype" /\ refcnt(b)' = 0
            /\ a # b /\ a # p /\ b # p
  PROVE  OuterOK'
<1>1. PICK s, t, u : s = Free(a) /\ t = Free(b) /\ u = Free(p) OBVIOUS
<1>2. s.arr = a /\ ~s.drop /\ t.arr = b /\ ~t.drop /\ u.arr = p /\ ~u.drop BY <1>1 DEF Free
<1>3. PICK fr : fr = r'.outer OBVIOUS
<1>4. DOMAIN fr = {1, 2, 3} /\ Len(fr) = 3 /\ fr[1] = s /\ fr[2] = t /\ fr[3] = u BY <1>1, <1>3
<1>5. \A k \in DOMAIN fr : ~fr[k].drop BY <1>2, <1>4
<1>6. ASSUME NEW y \in All, NEW k \in DOMAIN fr, k < 3, y = fr[k].arr
      PROVE  /\ InUse(y)'
             /\ RefersTo(p, y)' \/ (kind(y)' # "atype" /\ refcnt(y)' = 0 /\ \A l \in DOMAIN fr : fr[l].arr = y => l = k)
  <2>1. CASE k = 1
    <3>1. y = a BY <1>2, <1>4, <1>6, <2>1
    <3>2. b # a /\ p # a => \A l \in DOMAIN fr : fr[l].arr = y => l = k BY <1>2, <1>4, <2>1, <3>1
    <3> QED BY <3>1, <3>2
  <2>2. CASE k = 2
    <3>1. y = b BY <1>2, <1>4, <1>6, <2>2
    <3>2. b # a /\ p # b => \A l \in DOMAIN fr : fr[l].arr = y => l = k BY <1>2, <1>4, <2>2, <3>1
    <3> QED BY <3>1, <3>2
  <2> QED BY <1>4, <1>6, <2>1, <2>2
<1>7. \A q : Pair(q)' => q = p BY <1>2, <1>3, <1>4 DEF Pair
<1> QED BY <1>3, <1>4, <1>5, <1>6, <1>7 DEF OuterOK

LEMMA SplitHas == \A h, z : \E g, a, b : Split(h, z) = [heap |-> g, first |-> a, second |-> b]
BY DEF Split

(* place of a pair z of a pair and an array, each with the items it needs.   *)
LEMMA PlaceBegins ==
  ASSUME Now, Control, Ready, pc = "idle", NEW z \in All, stk # <<>>, z = top, refcnt(z) <= 1, tally(z) = 2,
         NEW h, h = Decr(heap, z), stk' = Below(1), UNCHANGED <<valu, todo, frames, unseen>>, pc' = "place",
         NEW g, NEW a, NEW b, Split(h, z) = [heap |-> g, first |-> a, second |-> b], CanSplit(h, z),
         Len(g[a].items) = 2, CanSplit(g, a),
         NEW g2, NEW x, NEW d, Split(g, a) = [heap |-> g2, first |-> x, second |-> d], heap' = g2,
         NEW n, NEW due, n = Len(stk) - 1,
         r' = [[NoLocals EXCEPT !.op = "place", !.base = n, !.due = due] EXCEPT
                 !.a = b, !.x = x, !.addr = d, !.i = ItemAt(g2, b, d), !.outer = <<Free(a), Free(z)>>]
  PROVE  IInv'
<1>1. /\ todo = <<>> /\ frames = <<>> /\ unseen \in SUBSET All
      /\ Core(heap, stk, valu, <<>>, <<>>) /\ stk \in Seq(All)
      /\ \A w \in All : kind(w) = "atype" => \A j \in DOMAIN items(w) : items(w)[j] \in All
      /\ \A w \in All : InUse(w) => refcnt(w) > 0
  BY IdleNow
<1>2. Core(h, Below(1), valu, <<>>, <<>>) BY <1>1, CorePop DEF Below, top
<1>3. heap[z].refcnt > 0 /\ heap[z].kind # "free" /\ heap[z].refcnt \in Nat
  <2>1. Len(stk) \in DOMAIN stk /\ z = stk[Len(stk)] BY <1>1, EmptySeq DEF top
  <2>2. \E j \in DOMAIN stk : stk[j] = z BY <2>1
  <2> QED BY <1>1, <2>2, Referred, CoreCounts
<1>4. HeapOK(heap) BY <1>1 DEF Core
<1>5. Recount(heap, h) /\ \A y \in All : h[y].refcnt = heap[y].refcnt - One(y = z) BY <1>3, <1>4, DecrIs
<1>6. h[z].refcnt = 0 BY <1>3, <1>5 DEF One, refcnt
<1>7. \A y \in All : h[y].kind = kind(y) /\ h[y].items = items(y) BY <1>5 DEF Recount, kind, items
<1>8. \A y \in All : y # z /\ h[y].refcnt = 0 => h[y].kind = "free"
  <2> TAKE y \in All
  <2>1. refcnt(y) \in Nat BY NowCounts
  <2>2. y # z => h[y].refcnt = refcnt(y) - 0 BY <1>5 DEF One, refcnt
  <2> QED BY <1>1, <1>7, <2>1, <2>2 DEF InUse
<1>9. /\ h[z].kind # "free" /\ Len(h[z].items) = 2
      /\ h[z].kind = "atype" => \A j \in DOMAIN h[z].items : h[z].items[j] \in All
      /\ \A y \in All : h[y].kind = kind(y)
  BY <1>1, <1>3, <1>7 DEF kind, tally
<1>10. /\ a \in All /\ b \in All /\ Core(g, Below(1), valu, <<>>, <<>>) /\ g[a].kind # "free" /\ g[b].kind # "free"
       /\ \/ h[z].kind = "atype" /\ g = h /\ h[z].items = <<a, b>>
          \/ h[z].kind = "ints" /\ Len(g[a].items) = 1
  BY <1>2, <1>9, SplitIs
<1>11. h[z].kind = "atype" /\ g = h /\ h[z].items = <<a, b>> BY <1>10
<1>12. /\ \A y \in All : g[y].kind = kind(y)
       /\ g[a].kind = "atype" => \A j \in DOMAIN g[a].items : g[a].items[j] \in All
  BY <1>1, <1>7, <1>10, <1>11
<1>13. /\ x \in All /\ d \in All /\ Core(g2, Below(1), valu, <<>>, <<>>) /\ g2[x].kind # "free" /\ g2[d].kind # "free"
       /\ \/ g[a].kind = "atype" /\ g2 = g /\ g[a].items = <<x, d>>
          \/ /\ g[a].kind = "ints" /\ x # d /\ g[x].kind = "free" /\ g[d].kind = "free"
             /\ g2[x].kind = "int" /\ g2[x].refcnt = 0 /\ g2[d].kind = "int" /\ g2[d].refcnt = 0
             /\ \A y \in All : y # x /\ y # d => g2[y] = g[y]
  BY <1>10, <1>12, SplitIs
<1>14. frames' = <<>> /\ todo' = <<>> /\ valu' = valu BY <1>1
<1>15. Now' BY <1>13, <1>14 DEF Now
<1>16. TodoOK' BY <1>14, TodoNone
<1>17. Len(stk) >= 1 /\ Len(stk') = n /\ n \in Nat
  <2>1. Len(stk) \in Nat \ {0} BY <1>1, EmptySeq
  <2> QED BY <1>1, <2>1, BelowIs
<1>18. NoLocals.changed \in BOOLEAN /\ NoLocals.protect \in BOOLEAN BY DEF NoLocals
<1>19. PICK i : i = ItemAt(g2, b, d) OBVIOUS
<1>20. i \in Nat /\ (i # 0 => g2[b].kind \in {"ints", "atype"} /\ i \in DOMAIN g2[b].items)
  <2>1. HeapOK(g2) BY <1>13 DEF Core
  <2>2. b \in All /\ d \in All BY <1>10, <1>13
  <2> QED BY <1>19, <2>1, <2>2, ItemAtIs
<1>21. /\ r' = [op |-> r'.op, var |-> r'.var, base |-> r'.base, a |-> r'.a, i |-> r'.i, x |-> r'.x,
                addr |-> r'.addr, outer |-> r'.outer, changed |-> r'.changed, protect |-> r'.protect,
                due |-> r'.due]
       /\ r'.op = "place" /\ r'.base = n /\ r'.outer = <<Free(a), Free(z)>> /\ r'.a = b /\ r'.x = x /\ r'.addr = d
       /\ r'.i = i /\ r'.changed = NoLocals.changed /\ r'.protect = NoLocals.protect
  BY <1>19 DEF NoLocals
<1>22. <<Free(a), Free(z)>> \in Seq(Frees)
  <2>1. PICK s, t : s = Free(a) /\ t = Free(z) OBVIOUS
  <2>2. s \in Frees /\ t \in Frees BY <1>10, <2>1 DEF Free, Frees
  <2>3. <<s, t>> \in Seq(Frees) BY <2>2
  <2> QED BY <2>1, <2>3
<1>23. r'.base \in Nat /\ r'.i \in Nat /\ r'.outer \in Seq(Frees) /\ r'.changed \in BOOLEAN /\ r'.protect \in BOOLEAN
  BY <1>17, <1>18, <1>20, <1>21, <1>22
<1>24. Registers' BY <1>1, <1>21, <1>23 DEF Registers
<1>25. \A y \in All : kind(y)' = "atype" => kind(y)' = kind(y) /\ items(y)' = items(y)
  <2> TAKE y \in All
  <2>1. g2[y].kind = "atype" => g2[y] = g[y] BY <1>13
  <2>2. heap'[y].kind = "atype" => heap'[y].kind = h[y].kind /\ heap'[y].items = h[y].items BY <1>11, <2>1
  <2> QED BY <1>7, <2>2 DEF kind, items
<1>26. GoneOK' BY <1>1, <1>25, NoGone DEF GoneOK
<1>27. \A y \in All : y # x /\ y # d => g2[y] = h[y] BY <1>11, <1>13
<1>28. (z # x /\ z # d) \/ g2 = h
  <2>1. h[z].kind # "free" BY <1>9
  <2> QED BY <1>11, <1>13, <2>1
<1>29. heap'[z] = h[z] BY <1>27, <1>28
<1>30. kind(z)' = "atype" /\ items(z)' = <<a, b>> /\ refcnt(z)' = 0 /\ InUse(z)'
  BY <1>6, <1>11, <1>29 DEF kind, items, refcnt, InUse
<1>31. ZeroOK'
  <2> SUFFICES ASSUME NEW w \in All, InUse(w)', refcnt(w)' = 0 PROVE w \in Locals' BY DEF ZeroOK
  <2>1. PICK s, t : s = Free(a) /\ t = Free(z) OBVIOUS
  <2>2. s.arr = a /\ t.arr = z BY <2>1 DEF Free
  <2>3. r'.outer = <<s, t>> BY <1>21, <2>1
  <2>4. DOMAIN r'.outer = {1, 2} /\ r'.outer[1] = s /\ r'.outer[2] = t BY <2>3
  <2>5. z \in Outer' BY <2>2, <2>4 DEF Outer
  <2>6. Locals' = Outer' \cup {b, x, d} BY <1>21 DEF Locals
  <2>7. CASE w = x \/ w = d BY <2>6, <2>7
  <2>8. CASE w # x /\ w # d
    <3>1. h[w].kind # "free" /\ h[w].refcnt = 0 BY <1>27, <2>8 DEF InUse, kind, refcnt
    <3> QED BY <1>8, <2>5, <2>6, <3>1
  <2> QED BY <2>7, <2>8
<1>32. RefersTo(z, a)' /\ RefersTo(z, b)'
  <2>1. PICK q : q = items(z)' OBVIOUS
  <2>2. q = <<a, b>> BY <1>30, <2>1
  <2>3. DOMAIN q = {1, 2} /\ q[1] = a /\ q[2] = b BY <2>2
  <2> QED BY <1>10, <1>14, <1>30, <2>1, <2>3, NoGone, ItemRefersNext
<1>33. ASSUME NEW y \in All, NEW w \in All, RefersTo(w, y)' PROVE refcnt(y)' > 0
  <2>1. Core(heap', stk', valu', todo', frames') BY <1>15 DEF Now
  <2>2. \E u \in All : \E j \in DOMAIN heap'[u].items : Has1(heap', frames', u, j) /\ heap'[u].items[j] = y
    BY <1>33 DEF RefersTo, items
  <2> QED BY <2>1, <2>2, Referred DEF refcnt
<1>34. b # z BY <1>30, <1>32, <1>33
<1>35. \/ RefersTo(a, x)' /\ RefersTo(a, d)'
       \/ x # d /\ kind(x)' = "int" /\ refcnt(x)' = 0 /\ kind(d)' = "int" /\ refcnt(d)' = 0 /\ ~InUse(x)
  <2>1. CASE g[a].kind = "atype" /\ g2 = g /\ g[a].items = <<x, d>>
    <3>1. PICK q : q = items(a)' OBVIOUS
    <3>2. kind(a)' = "atype" /\ q = <<x, d>> BY <2>1, <3>1 DEF kind, items
    <3>3. DOMAIN q = {1, 2} /\ q[1] = x /\ q[2] = d BY <3>2
    <3> QED BY <1>13, <1>14, <3>1, <3>2, <3>3, NoGone, ItemRefersNext
  <2>2. CASE x # d /\ g[x].kind = "free" /\ g2[x].kind = "int" /\ g2[x].refcnt = 0 /\ g2[d].kind = "int" /\ g2[d].refcnt = 0
    BY <1>12, <1>13, <2>2 DEF kind, refcnt, InUse
  <2> QED BY <1>13, <2>1, <2>2
<1>36. x # z
  <2>1. CASE RefersTo(a, x)' BY <1>10, <1>13, <1>30, <1>33, <2>1
  <2>2. CASE ~InUse(x) BY <1>3, <2>2 DEF InUse, kind
  <2> QED BY <1>35, <2>1, <2>2
<1>37. ByPlace(z, a)'
  <2>1. \A d2 \in All : d2 = r'.addr => RefersTo(a, d2)' \/ (refcnt(d2)' = 0 /\ Simple(d2)')
    <3>1. x # d /\ kind(d)' = "int" => Simple(d)' BY <1>21 DEF Simple
    <3> QED BY <1>21, <1>35, <3>1
  <2> QED BY <1>21, <1>30, <1>32, <1>34, <1>36, <2>1, NoLocalsIs DEF ByPlace
<1>38. Begins(b, x, d)'
  <2>1. InUse(b)'
    <3>1. refcnt(b)' > 0 BY <1>10, <1>32, <1>33
    <3>2. Core(heap', stk', valu', todo', frames') BY <1>15 DEF Now
    <3> QED BY <1>10, <3>1, <3>2, Referred DEF refcnt, InUse, kind
  <2>2. InUse(x)' /\ InUse(d)' BY <1>13 DEF InUse, kind
  <2>3. r'.i # 0 => kind(b)' \in {"ints", "atype"} /\ r'.i \in DOMAIN items(b)' BY <1>20, <1>21 DEF kind, items
  <2>4. \E p, first \in All : ByPlace(p, first)' /\ kind(p)' = "atype" /\ items(p)' = <<first, b>>
    BY <1>10, <1>30, <1>37
  <2> QED BY <2>1, <2>2, <2>3, <2>4 DEF Begins
<1>39. InPlace'
  <2>1. \A a2, x2, d2 \in All : At(a2, x2, d2)' => a2 = b /\ x2 = x /\ d2 = d BY <1>21 DEF At
  <2>2. {r'.a, r'.x, r'.addr} \subseteq All BY <1>10, <1>13, <1>21
  <2>3. Ready' /\ ~r'.changed /\ Len(stk') = Depth' BY <1>14, <1>17, <1>21, NoLocalsIs DEF Ready, Depth
  <2> QED BY <1>38, <2>1, <2>2, <2>3 DEF InPlace
<1>40. Control' BY <1>16, <1>24, <1>26, <1>31, <1>39 DEF Control, Working, Ending, Clearing
<1> QED BY <1>15, <1>40 DEF IInv, Now

LEMMA PlaceRefused ==
  ASSUME Now, Control, Ready, pc = "idle", NEW z \in All, stk # <<>>, z = top, refcnt(z) <= 1,
         NEW h, h = Decr(heap, z), stk' = Below(1), UNCHANGED <<valu, todo, frames, unseen>>, pc' = "fault",
         NEW n, NEW due, n = Len(stk) - 1, NEW fr,
         r' = [[NoLocals EXCEPT !.op = "place", !.base = n, !.due = due] EXCEPT !.outer = fr],
         \/ fr = <<Free(z)>> /\ heap' = h
         \/ /\ tally(z) = 2 /\ CanSplit(h, z)
            /\ \E g, a, b : /\ Split(h, z) = [heap |-> g, first |-> a, second |-> b]
                            /\ heap' = g /\ fr = <<Free(a), Free(b), Free(z)>>
  PROVE  IInv'
<1>1. /\ todo = <<>> /\ frames = <<>> /\ unseen \in SUBSET All
      /\ Core(heap, stk, valu, <<>>, <<>>) /\ stk \in Seq(All)
      /\ \A w \in All : kind(w) = "atype" => \A j \in DOMAIN items(w) : items(w)[j] \in All
      /\ \A w \in All : InUse(w) => refcnt(w) > 0
  BY IdleNow
<1>2. Core(h, Below(1), valu, <<>>, <<>>) BY <1>1, CorePop DEF Below, top
<1>3. heap[z].refcnt > 0 /\ heap[z].kind # "free" /\ heap[z].refcnt \in Nat
  <2>1. Len(stk) \in DOMAIN stk /\ z = stk[Len(stk)] BY <1>1, EmptySeq DEF top
  <2>2. \E j \in DOMAIN stk : stk[j] = z BY <2>1
  <2> QED BY <1>1, <2>2, Referred, CoreCounts
<1>4. HeapOK(heap) BY <1>1 DEF Core
<1>5. Recount(heap, h) /\ \A y \in All : h[y].refcnt = heap[y].refcnt - One(y = z) BY <1>3, <1>4, DecrIs
<1>6. h[z].refcnt = 0 BY <1>3, <1>5 DEF One, refcnt
<1>7. \A y \in All : h[y].kind = kind(y) /\ h[y].items = items(y) BY <1>5 DEF Recount, kind, items
<1>8. \A y \in All : y # z /\ h[y].refcnt = 0 => h[y].kind = "free"
  <2> TAKE y \in All
  <2>1. refcnt(y) \in Nat BY NowCounts
  <2>2. y # z => h[y].refcnt = refcnt(y) - 0 BY <1>5 DEF One, refcnt
  <2> QED BY <1>1, <1>7, <2>1, <2>2 DEF InUse
<1>9. frames' = <<>> /\ todo' = <<>> /\ valu' = valu /\ unseen' \in SUBSET All BY <1>1
<1>10. Len(stk') = n /\ n \in Nat
  <2>1. Len(stk) \in Nat \ {0} BY <1>1, EmptySeq
  <2> QED BY <1>1, <2>1, BelowIs
<1>11. r'.outer = fr BY DEF NoLocals
<1>12. Free(z) \in Frees /\ Free(z).arr = z BY DEF Free, Frees
<1>13. CASE fr = <<Free(z)>> /\ heap' = h
  <2>1. Now' BY <1>2, <1>9, <1>13 DEF Now
  <2>2. InUse(z)' /\ refcnt(z)' = 0 BY <1>3, <1>6, <1>7, <1>13 DEF InUse, kind, refcnt
  <2>3. OuterOK' BY <1>11, <1>13, <2>2, OuterOneNext
  <2>4. \A w \in All : kind(w)' = "atype" => \A j \in DOMAIN items(w)' : items(w)'[j] # gone
    <3>1. \A w \in All : kind(w)' = kind(w) /\ items(w)' = items(w) BY <1>7, <1>13 DEF kind, items
    <3> QED BY <1>1, <3>1, NoGone
  <2>5. \A w \in All : InUse(w)' /\ refcnt(w)' = 0 => w = z BY <1>8, <1>13 DEF InUse, kind, refcnt
  <2>6. PICK t : t = Free(z) OBVIOUS
  <2>7. fr = <<t>> /\ t \in Frees /\ t.arr = z BY <1>12, <1>13, <2>6
  <2>8. fr \in Seq(Frees) /\ 1 \in DOMAIN fr /\ fr[1].arr = z BY <2>7
  <2>9. \A w \in All : InUse(w)' /\ refcnt(w)' = 0 => \E k \in DOMAIN fr : fr[k].arr = w BY <2>5, <2>8
  <2> QED BY <1>9, <1>10, <2>1, <2>3, <2>4, <2>8, <2>9, RefuseKept
<1>14. ASSUME tally(z) = 2, CanSplit(h, z), NEW g, NEW a, NEW b, Split(h, z) = [heap |-> g, first |-> a, second |-> b],
              heap' = g, fr = <<Free(a), Free(b), Free(z)>>
       PROVE  IInv'
  <2>1. /\ h[z].kind # "free" /\ Len(h[z].items) = 2
        /\ h[z].kind = "atype" => \A j \in DOMAIN h[z].items : h[z].items[j] \in All
        /\ \A y \in All : h[y].kind = kind(y)
    BY <1>1, <1>3, <1>7, <1>14 DEF kind, tally
  <2>2. /\ a \in All /\ b \in All /\ Core(g, Below(1), valu, <<>>, <<>>) /\ g[a].kind # "free" /\ g[b].kind # "free"
        /\ \/ h[z].kind = "atype" /\ g = h /\ h[z].items = <<a, b>>
           \/ /\ h[z].kind = "ints" /\ a # b /\ h[a].kind = "free" /\ h[b].kind = "free"
              /\ g[a].kind = "int" /\ g[a].refcnt = 0
              /\ g[b].kind = "int" /\ g[b].refcnt = 0
              /\ \A y \in All : y # a /\ y # b => g[y] = h[y]
    BY <1>2, <1>14, <2>1, SplitIs
  <2>3. Now' BY <1>9, <1>14, <2>2 DEF Now
  <2>4. heap'[z] = h[z] BY <1>14, <2>1, <2>2
  <2>5. InUse(z)' /\ refcnt(z)' = 0 /\ InUse(a)' /\ InUse(b)' BY <1>6, <1>14, <2>1, <2>2, <2>4 DEF InUse, kind, refcnt
  <2>6. \/ RefersTo(z, a)' /\ RefersTo(z, b)'
        \/ /\ kind(a)' # "atype" /\ refcnt(a)' = 0 /\ kind(b)' # "atype" /\ refcnt(b)' = 0
           /\ a # b /\ a # z /\ b # z
    <3>1. CASE h[z].kind = "atype" /\ g = h /\ h[z].items = <<a, b>>
      <4>1. PICK q : q = items(z)' OBVIOUS
      <4>2. kind(z)' = "atype" /\ q = <<a, b>> BY <2>4, <3>1, <4>1 DEF kind, items
      <4>3. DOMAIN q = {1, 2} /\ q[1] = a /\ q[2] = b BY <4>2
      <4> QED BY <1>9, <2>2, <4>1, <4>2, <4>3, NoGone, ItemRefersNext
    <3>2. CASE h[z].kind = "ints" BY <1>14, <2>1, <2>2, <3>2 DEF kind, refcnt
    <3> QED BY <2>2, <3>1, <3>2
  <2>7. OuterOK' BY <1>11, <1>14, <2>2, <2>5, <2>6, OuterThreeNext
  <2>8. \A w \in All : kind(w)' = "atype" => \A j \in DOMAIN items(w)' : items(w)'[j] # gone
    <3> TAKE w \in All
    <3>1. g[w].kind = "atype" => g[w] = h[w] BY <2>2
    <3>2. kind(w)' = "atype" => kind(w) = "atype" /\ items(w)' = items(w) BY <1>7, <1>14, <3>1 DEF kind, items
    <3> QED BY <1>1, <3>2, NoGone
  <2>9. \A w \in All : InUse(w)' /\ refcnt(w)' = 0 => w \in {a, b, z}
    <3> TAKE w \in All
    <3>1. w # a /\ w # b => g[w] = h[w] BY <2>2
    <3> QED BY <1>8, <1>14, <3>1 DEF InUse, kind, refcnt
  <2>10. PICK s, t, u : s = Free(a) /\ t = Free(b) /\ u = Free(z) OBVIOUS
  <2>11. s \in Frees /\ t \in Frees /\ u \in Frees /\ s.arr = a /\ t.arr = b /\ u.arr = z
    BY <2>2, <2>10 DEF Free, Frees
  <2>12. fr = <<s, t, u>> BY <1>14, <2>10
  <2>13. fr \in Seq(Frees) /\ DOMAIN fr = {1, 2, 3} /\ fr[1] = s /\ fr[2] = t /\ fr[3] = u BY <2>11, <2>12
  <2>14. \A w \in All : InUse(w)' /\ refcnt(w)' = 0 => \E k \in DOMAIN fr : fr[k].arr = w BY <2>9, <2>11, <2>13
  <2> QED BY <1>9, <1>10, <2>3, <2>7, <2>8, <2>13, <2>14, RefuseKept
<1> QED BY <1>13, <1>14

LEMMA IPlaceKeeps ==
  ASSUME Now, Control, Plain, IPlace
  PROVE  IInv'
<1>1. PICK z, h, due, n : z = top /\ h = Decr(heap, z) /\ due = V!PlaceOf(Value[z]) /\ n = Len(stk) - 1 OBVIOUS
<1>2. PICK g, a, b : Split(h, z) = [heap |-> g, first |-> a, second |-> b] BY SplitHas
<1>3. PICK g2, x, d : Split(g, a) = [heap |-> g2, first |-> x, second |-> d] BY SplitHas
<1>4. Split(h, z).heap = g /\ Split(h, z).first = a /\ Split(h, z).second = b BY <1>2
<1>5. Split(g, a).heap = g2 /\ Split(g, a).first = x /\ Split(g, a).second = d BY <1>3
<1>6. Ready /\ pc = "idle" /\ Has(1) /\ refcnt(z) <= 1 /\ stk' = Below(1) /\ UNCHANGED <<valu, todo, frames, unseen>>
  <2>1. refcnt(top) > 1 => "held_pair" \in Uses BY DEF IPlace
  <2>2. ~(refcnt(z) > 1) BY <1>1, <2>1 DEF Plain
  <2>3. Ready /\ pc = "idle" /\ Has(1) /\ stk' = Below(1) /\ UNCHANGED <<valu, todo, frames, unseen>> BY DEF IPlace
  <2>4. stk \in Seq(All) /\ r.base = 0 BY <2>3, IdleNow
  <2>5. z \in All BY <1>1, <2>3, <2>4 DEF Has, top
  <2>6. refcnt(z) \in Nat BY <2>5, NowCounts
  <2> QED BY <2>2, <2>3, <2>6
<1>7. IF tally(z) # 2
      THEN /\ heap' = h /\ pc' = "fault"
           /\ r' = [[NoLocals EXCEPT !.op = "place", !.base = n, !.due = due] EXCEPT !.outer = <<Free(z)>>]
      ELSE /\ CanSplit(h, z)
           /\ IF Len(g[a].items) # 2
              THEN /\ heap' = g /\ pc' = "fault"
                   /\ r' = [[NoLocals EXCEPT !.op = "place", !.base = n, !.due = due] EXCEPT
                              !.outer = <<Free(a), Free(b), Free(z)>>]
              ELSE /\ CanSplit(g, a) /\ heap' = g2 /\ pc' = "place"
                   /\ r' = [[NoLocals EXCEPT !.op = "place", !.base = n, !.due = due] EXCEPT
                              !.a = b, !.x = x, !.addr = d, !.i = ItemAt(g2, b, d), !.outer = <<Free(a), Free(z)>>]
  BY <1>1, <1>4, <1>5 DEF IPlace
<1>8. stk \in Seq(All) /\ r.base = 0 BY <1>6, IdleNow
<1>9. z \in All /\ stk # <<>> BY <1>1, <1>6, <1>8 DEF Has, top
<1>10. CASE tally(z) # 2
  <2>1. PICK fr : fr = <<Free(z)>> OBVIOUS
  <2>2. /\ heap' = h /\ pc' = "fault"
        /\ r' = [[NoLocals EXCEPT !.op = "place", !.base = n, !.due = due] EXCEPT !.outer = fr]
    BY <1>7, <1>10, <2>1
  <2> QED BY <1>1, <1>6, <1>9, <2>1, <2>2, PlaceRefused
<1>11. CASE tally(z) = 2 /\ Len(g[a].items) # 2
  <2>1. PICK fr : fr = <<Free(a), Free(b), Free(z)>> OBVIOUS
  <2>2. /\ heap' = g /\ pc' = "fault" /\ CanSplit(h, z)
        /\ r' = [[NoLocals EXCEPT !.op = "place", !.base = n, !.due = due] EXCEPT !.outer = fr]
    BY <1>7, <1>11, <2>1
  <2>3. \E g9, a9, b9 : /\ Split(h, z) = [heap |-> g9, first |-> a9, second |-> b9]
                        /\ heap' = g9 /\ fr = <<Free(a9), Free(b9), Free(z)>>
    BY <1>2, <2>1, <2>2
  <2> QED BY <1>1, <1>6, <1>9, <1>11, <2>2, <2>3, PlaceRefused
<1>12. CASE tally(z) = 2 /\ Len(g[a].items) = 2
  <2>1. /\ CanSplit(h, z) /\ CanSplit(g, a) /\ heap' = g2 /\ pc' = "place"
        /\ r' = [[NoLocals EXCEPT !.op = "place", !.base = n, !.due = due] EXCEPT
                   !.a = b, !.x = x, !.addr = d, !.i = ItemAt(g2, b, d), !.outer = <<Free(a), Free(z)>>]
    BY <1>7, <1>12
  <2> QED BY <1>1, <1>2, <1>3, <1>6, <1>9, <1>12, <2>1, PlaceBegins
<1> QED BY <1>10, <1>11, <1>12

LEMMA OuterNoneNext == ASSUME r'.outer = <<>> PROVE OuterOK' /\ Outer' = {}
BY DEF OuterOK, Pair, Outer

LEMMA OuterTwoNext ==
  ASSUME NEW p \in All, NEW f \in All, r'.outer = <<Free(f), Free(p)>>, InUse(p)', refcnt(p)' = 0, InUse(f)', RefersTo(p, f)'
  PROVE  OuterOK' /\ Outer' = {f, p}
<1>1. PICK s, t : s = Free(f) /\ t = Free(p) OBVIOUS
<1>2. s.arr = f /\ ~s.drop /\ t.arr = p /\ ~t.drop BY <1>1 DEF Free
<1>3. PICK fr : fr = r'.outer OBVIOUS
<1>4. DOMAIN fr = {1, 2} /\ Len(fr) = 2 /\ fr[1] = s /\ fr[2] = t BY <1>1, <1>3
<1>5. \A k \in DOMAIN fr : ~fr[k].drop BY <1>2, <1>4
<1>6. \A y \in All, k \in DOMAIN fr : k < 2 /\ y = fr[k].arr => y = f BY <1>2, <1>4
<1>7. \A q : Pair(q)' => q = p BY <1>2, <1>3, <1>4 DEF Pair
<1>8. OuterOK' BY <1>3, <1>4, <1>5, <1>6, <1>7 DEF OuterOK
<1> QED BY <1>2, <1>3, <1>4, <1>8 DEF Outer

(* The address and the new item are given up, and an insertion is at its end.*)
LEMMA EndingBegins ==
  ASSUME Now, Now', Registers, frames = <<>>, frames' = <<>>, r' = r, unseen' = unseen, valu' = valu, pc' \in Ending,
         NEW a \in All, NEW x \in All, NEW d \in All, x = r.x, a = r.a, d = r.addr, todo' = <<Free(d), Free(x)>>,
         \A y \in All : AsBefore(y), \A y \in All : y # a => refcnt(y)' = refcnt(y), refcnt(a)' > 0,
         InUse(x), InUse(d), Simple(d) \/ refcnt(d)' > 0,
         ByInsert \/ \E p, first \in All : ByPlace(p, first),
         Len(stk') = Depth + (IF pc' = "fault" THEN 0 ELSE 1), pc' = "store" => ByInsert,
         \A w \in All : kind(w) = "atype" => \A j \in DOMAIN items(w) : items(w)[j] \in All,
         \A w \in All : InUse(w) /\ refcnt(w) = 0 => w \in Outer \cup {a, x, d}
  PROVE  IInv'
<1>1. Registers' BY DEF Registers, Ending, Working
<1>2. \A y \in All : InUse(y)' <=> InUse(y) BY DEF AsBefore, InUse
<1>3. refcnt(d)' > 0 \/ (kind(d)' # "atype" /\ d # x) BY DEF Simple, AsBefore
<1>4. /\ TodoOK' /\ Waiting' = {d, x}
      /\ (\E k \in DOMAIN todo' : todo'[k] = Free(d)) /\ (\E k \in DOMAIN todo' : todo'[k] = Free(x))
  BY <1>2, <1>3, TodoTwo
<1>5. GoneOK' BY NoGone DEF GoneOK, AsBefore
<1>6. Outer' = Outer /\ Locals' = Outer
  <2>1. Outer' = Outer BY DEF Outer
  <2> QED BY <2>1 DEF Locals, Ending, Working
<1>7. ZeroOK'
  <2> SUFFICES ASSUME NEW w \in All, InUse(w)', refcnt(w)' = 0
               PROVE  w \in Locals' \/ \E k \in DOMAIN todo' : todo'[k] = Free(w)
    BY DEF ZeroOK
  <2>1. w # a OBVIOUS
  <2>2. w \in Outer \cup {a, x, d} BY <1>2, <2>1
  <2> QED BY <1>4, <1>6, <2>1, <2>2
<1>8. \A w, y \in All : RefersTo(w, y)' <=> RefersTo(w, y) BY ItemRefers, ItemRefersNext DEF AsBefore
<1>9. \A y \in All, w \in All : RefersTo(w, y) => refcnt(y) > 0
  <2> TAKE y \in All, w \in All
  <2> HAVE RefersTo(w, y)
  <2>1. Core(heap, stk, valu, todo, frames) BY DEF Now
  <2>2. \E u \in All : \E j \in DOMAIN heap[u].items : Has1(heap, frames, u, j) /\ heap[u].items[j] = y
    BY DEF RefersTo, items
  <2> QED BY <2>1, <2>2, Referred DEF refcnt
<1>10. /\ OuterOK' /\ (r.protect => r.outer = <<>>)
       /\ \A y \in Outer : y \in All
       /\ \A y \in {d, x} \cap Outer : \E w \in Outer : RefersTo(w, y)
       /\ \A w \in All, y \in Outer : RefersTo(w, y) => \E u \in Outer : RefersTo(u, y)
  <2>1. CASE ByInsert
    <3>1. r.outer = <<>> BY <2>1 DEF ByInsert
    <3>2. OuterOK' /\ Outer = {} BY <1>6, <3>1, OuterNoneNext
    <3> QED BY <3>1, <3>2
  <2>2. ASSUME NEW p \in All, NEW f \in All, ByPlace(p, f)
        PROVE  /\ OuterOK' /\ ~r.protect /\ Outer = {f, p}
               /\ \A y \in {d, x} \cap Outer : RefersTo(p, y)
               /\ \A w \in All, y \in Outer : RefersTo(w, y) => RefersTo(p, y)
    <3>1. /\ ~r.protect /\ r.outer = <<Free(f), Free(p)>> /\ InUse(p) /\ refcnt(p) = 0 /\ RefersTo(p, f)
          /\ a # p /\ x # p /\ (RefersTo(f, d) \/ (refcnt(d) = 0 /\ Simple(d)))
      BY <2>2 DEF ByPlace
    <3>2. InUse(p)' /\ refcnt(p)' = 0 /\ RefersTo(p, f)' BY <1>2, <1>8, <3>1
    <3>3. InUse(f)'
      <4>1. refcnt(f) > 0 BY <1>9, <3>1
      <4>2. Core(heap, stk, valu, todo, frames) BY DEF Now
      <4>3. heap[f].kind # "free" BY <4>1, <4>2, Referred DEF refcnt
      <4> QED BY <1>2, <4>3 DEF InUse, kind
    <3>4. OuterOK' /\ Outer = {f, p} BY <1>6, <3>1, <3>2, <3>3, OuterTwoNext
    <3>5. d # p
      <4>1. CASE RefersTo(f, d) BY <1>9, <3>1, <4>1
      <4>2. CASE Simple(d) BY <3>1, <4>2, ListsRefer DEF Simple
      <4> QED BY <3>1, <4>1, <4>2
    <3>6. \A w \in All : ~RefersTo(w, p)
      <4> TAKE w \in All
      <4>1. RefersTo(w, p) => refcnt(p) > 0 BY <1>9
      <4> QED BY <3>1, <4>1
    <3> QED BY <3>1, <3>4, <3>5, <3>6
  <2> QED BY <2>1, <2>2
<1>10a. PICK P \in SUBSET All : P = All \ Outer OBVIOUS
<1>11. Within(P)'
  <2>1. Framed(frames)' \subseteq P BY DEF Framed
  <2>2. ASSUME NEW y \in All, NEW u \in Outer, RefersTo(u, y) PROVE Strong(y, P)'
    <3>1. u \in All \ P /\ RefersTo(u, y)' BY <1>8, <1>10, <1>10a, <2>2
    <3> QED BY <3>1 DEF Strong, Firm
  <2>3. \A y \in Waiting' : y \in P \/ Strong(y, P)' BY <1>4, <1>10, <1>10a, <2>2
  <2>4. \A w \in P : \A y \in All : RefersTo(w, y)' => y \in P \/ Strong(y, P)' BY <1>8, <1>10, <1>10a, <2>2
  <2> QED BY <2>1, <2>3, <2>4 DEF Within
<1>12. Apart(P)'
  <2>1. P \cap Locals' = {} BY <1>6, <1>10a
  <2>2. pc' \notin Working BY DEF Ending, Working
  <2> QED BY <1>11, <2>1, <2>2 DEF Apart
<1>13. InEnding' BY <1>10 DEF InEnding, Depth, ByInsert
<1>14. \E Q \in SUBSET All : Apart(Q)' BY <1>12
<1>15. pc' \notin {"idle", "index", "place"} \cup Clearing \cup Working BY DEF Ending, Working, Clearing
<1>16. Control' BY <1>1, <1>4, <1>5, <1>7, <1>13, <1>14, <1>15 DEF Control
<1> QED BY <1>16 DEF IInv, Now

LEMMA PlaceFailsKeeps ==
  ASSUME Now, Control, PlaceFails
  PROVE  IInv'
<1>1. /\ Ready /\ pc = "place" /\ r.i = 0 /\ todo' = <<Free(r.addr), Free(r.x)>> /\ pc' = "fault"
      /\ UNCHANGED <<heap, stk, valu, frames, r, unseen>>
  BY DEF PlaceFails
<1>2. /\ todo = <<>> /\ frames = <<>> /\ Registers
      /\ \A w \in All : kind(w) = "atype" => \A j \in DOMAIN items(w) : items(w)[j] \in All
      /\ \A w \in All : InUse(w) /\ refcnt(w) = 0 => w \in Locals
  BY <1>1, Resting DEF Clearing
<1>3. InPlace BY <1>1 DEF Control
<1>4. PICK a, x, d \in All : a = r.a /\ x = r.x /\ d = r.addr BY <1>3 DEF InPlace
<1>5. Begins(a, x, d) BY <1>3, <1>4 DEF InPlace, At
<1>6. InUse(a) /\ InUse(x) /\ InUse(d) BY <1>5 DEF Begins
<1>7. \A y \in All : AsBefore(y) /\ refcnt(y)' = refcnt(y) /\ (InUse(y)' <=> InUse(y))
  BY <1>1 DEF AsBefore, kind, items, refcnt, InUse
<1>8. Core(heap, stk, valu, <<>>, <<>>) BY <1>2 DEF Now
<1>9. ASSUME NEW w \in All, NEW y \in All, RefersTo(w, y) PROVE refcnt(y) > 0
  <2>1. \E u \in All : \E j \in DOMAIN heap[u].items : Has1(heap, <<>>, u, j) /\ heap[u].items[j] = y
    BY <1>2, <1>9 DEF RefersTo, items
  <2> QED BY <1>8, <2>1, Referred DEF refcnt
<1>10. refcnt(a) > 0 /\ (Simple(d) \/ refcnt(d) > 0)
  <2>1. CASE ByInsert /\ a = valu[r.var] /\ Kept(d)
    <3>1. refcnt(a) > 0
      <4>1. \E v \in Vars : valu[v] = a BY <2>1 DEF ByInsert
      <4> QED BY <1>8, <4>1, Referred DEF refcnt
    <3>2. Lasting(d, {}) => refcnt(d) > 0 BY StrongIs
    <3> QED BY <2>1, <3>1, <3>2 DEF Kept
  <2>2. ASSUME NEW p \in All, NEW f \in All, ByPlace(p, f), kind(p) = "atype", items(p) = <<f, a>>
        PROVE  refcnt(a) > 0 /\ (Simple(d) \/ refcnt(d) > 0)
    <3>1. RefersTo(p, a)
      <4>1. PICK q : q = items(p) OBVIOUS
      <4>2. q = <<f, a>> BY <2>2, <4>1
      <4>3. 2 \in DOMAIN q /\ q[2] = a BY <4>2
      <4> QED BY <1>2, <2>2, <4>1, <4>3, NoGone, ItemRefers
    <3>2. RefersTo(f, d) \/ Simple(d) BY <1>4, <2>2 DEF ByPlace
    <3> QED BY <1>9, <3>1, <3>2
  <2> QED BY <1>5, <2>1, <2>2 DEF Begins
<1>11. ByInsert \/ \E p, f \in All : ByPlace(p, f) BY <1>5 DEF Begins
<1>12. \A w \in All : InUse(w) /\ refcnt(w) = 0 => w \in Outer \cup {a, x, d}
  <2>1. Locals = Outer \cup {a, x, d} BY <1>1, <1>4 DEF Locals
  <2> QED BY <1>2, <2>1
<1>13. Now'
  <2>1. PICK s, t : s = Free(d) /\ t = Free(x) OBVIOUS
  <2>2. s \in Frees /\ t \in Frees /\ ~s.drop /\ ~t.drop BY <2>1 DEF Free, Frees
  <2>3. todo' = <<s, t>> BY <1>1, <1>4, <2>1
  <2>4. todo' \in Seq(Frees) /\ DOMAIN todo' = {1, 2} /\ todo'[1] = s /\ todo'[2] = t BY <2>2, <2>3
  <2>5. \A k \in DOMAIN todo' : ~todo'[k].drop BY <2>2, <2>4
  <2> QED BY <1>1, <1>2, <1>8, <2>4, <2>5, CoreTodo DEF Now
<1>14. Len(stk') = Depth + 0 /\ pc' \in Ending
  <2>1. Len(stk) \in Nat BY <1>8 DEF Core
  <2> QED BY <1>1, <1>3, <2>1 DEF InPlace, Ending
<1> QED BY <1>1, <1>2, <1>4, <1>6, <1>7, <1>10, <1>11, <1>12, <1>13, <1>14, EndingBegins

(* What an operation leaves to be freed when it ends.                        *)
LEMMA OuterTodo ==
  ASSUME Now, Registers, OuterOK, todo' = r.outer, frames = <<>>, frames' = <<>>,
         \A y \in All : InUse(y) => kind(y)' = kind(y) /\ (refcnt(y) > 0 => refcnt(y)' > 0)
  PROVE  /\ TodoOK' /\ todo' \in Seq(Frees) /\ (\A k \in DOMAIN todo' : ~todo'[k].drop)
         /\ \A y \in Outer : \E k \in DOMAIN todo' : todo'[k] = Free(y)
<1>1. r.outer \in Seq(Frees) BY DEF Registers
<1>2. PICK fr \in Seq(Frees) : fr = r.outer BY <1>1
<1>3. DOMAIN fr = 1 .. Len(fr) /\ Len(fr) \in Nat BY <1>2
<1>4. \A k \in DOMAIN fr : fr[k].arr \in All /\ \A y : fr[k] = Free(y) <=> ~fr[k].drop /\ fr[k].arr = y
  BY <1>2, FreesAre
<1>5. CASE fr = <<>>
  <2>1. todo' = <<>> /\ Outer = {} BY <1>2, <1>5 DEF Outer
  <2> QED BY <1>1, <2>1, TodoNone
<1>6. CASE fr # <<>>
  <2>1. Len(fr) \in DOMAIN fr /\ Len(fr) > 0 BY <1>3, <1>6, EmptySeq
  <2>2. PICK p \in All : p = fr[Len(fr)].arr BY <1>4, <2>1
  <2>3. Pair(p) BY <1>2, <1>6, <2>2 DEF Pair
  <2>4. /\ InUse(p) /\ refcnt(p) = 0
        /\ \A y \in All, k \in DOMAIN fr : k < Len(fr) /\ y = fr[k].arr =>
             /\ InUse(y)
             /\ \/ RefersTo(p, y)
                \/ kind(y) # "atype" /\ refcnt(y) = 0 /\ \A l \in DOMAIN fr : fr[l].arr = y => l = k
        /\ \A k \in DOMAIN fr : ~fr[k].drop
    BY <1>2, <2>3 DEF OuterOK
  <2>5. \A y \in All : RefersTo(p, y) => refcnt(y) > 0
    <3> TAKE y \in All
    <3> HAVE RefersTo(p, y)
    <3>1. \E u \in All : \E j \in DOMAIN heap[u].items : Has1(heap, frames, u, j) /\ heap[u].items[j] = y
      BY DEF RefersTo, items
    <3> QED BY <3>1, Referred DEF Now, refcnt
  <2>6. \A k \in DOMAIN fr : InUse(fr[k].arr)'
    <3> TAKE k \in DOMAIN fr
    <3>1. InUse(fr[k].arr)
      <4>1. k = Len(fr) \/ k < Len(fr) BY <1>3
      <4> QED BY <1>4, <2>2, <2>4, <4>1
    <3> QED BY <1>4, <3>1 DEF InUse
  <2>7. ASSUME NEW y \in All, NEW k \in DOMAIN fr, NEW l \in DOMAIN fr, k < l, y = fr[k].arr
        PROVE  refcnt(y)' > 0 \/ (kind(y)' # "atype" /\ y # fr[l].arr)
    <3>1. k < Len(fr) BY <1>3, <2>7
    <3>2. k # l BY <1>3, <2>7
    <3> QED BY <2>4, <2>5, <2>7, <3>1, <3>2
  <2>8. \A k \in DOMAIN todo' : ~todo'[k].drop BY <1>2, <2>4
  <2>9. Framed(frames)' = {} BY DEF Framed
  <2>10. \A y \in All, k \in DOMAIN todo' : todo'[k] = Free(y) => InUse(y)' BY <1>2, <1>4, <2>6
  <2>11. TodoOK' BY <1>2, <2>7, <2>8, <2>9, <2>10 DEF TodoOK
  <2>12. \A y \in Outer : \E k \in DOMAIN todo' : todo'[k] = Free(y)
    <3> TAKE y \in Outer
    <3>1. PICK k \in DOMAIN fr : y = fr[k].arr BY <1>2 DEF Outer
    <3> QED BY <1>2, <1>4, <2>4, <3>1
  <2> QED BY <1>1, <2>8, <2>11, <2>12
<1> QED BY <1>5, <1>6

LEMMA PushFaultKeeps ==
  ASSUME Now, Control, Plain, PushFault
  PROVE  IInv'
<1>1. /\ Ready /\ pc = "fault" /\ todo' = r.outer /\ pc' = "idle" /\ r' = NoLocals
      /\ UNCHANGED <<valu, frames, unseen>>
      /\ IF r.protect THEN UNCHANGED <<heap, stk>> ELSE PushText(heap, stk, fault)
  BY DEF PushFault
<1>2. /\ todo = <<>> /\ frames = <<>> /\ Registers
      /\ \A w \in All : kind(w) = "atype" => \A j \in DOMAIN items(w) : items(w)[j] \in All
      /\ \A w \in All : InUse(w) /\ refcnt(w) = 0 => w \in Locals
  BY <1>1, Resting DEF Clearing
<1>3. Locals = Outer BY <1>1 DEF Locals, Working
<1>4. OuterOK BY <1>1 DEF Control, Ending, InEnding
<1>5. Core(heap, stk, valu, <<>>, <<>>) BY <1>2 DEF Now
<1>6. \/ heap' = heap /\ stk' = stk
      \/ \E x \in All : /\ Core(heap', stk', valu, <<>>, <<>>) /\ kind(x)' = "phrase" /\ refcnt(x)' > 0
                        /\ kind(x) \in {"free", "phrase"}
                        /\ \A y \in All : y # x => heap'[y] = heap[y]
  <2>1. fault \in Texts BY RefCountConstants
  <2>2. \A y \in All : heap[y].kind = kind(y) BY DEF kind
  <2>3. CASE PushText(heap, stk, fault)
    <3>1. PICK x \in All :
            /\ stk' = Append(stk, x) /\ Core(heap', stk', valu, <<>>, <<>>)
            /\ heap'[x].kind = "phrase" /\ heap'[x].refcnt > 0
            /\ heap[x].kind = "free" \/ (heap[x].kind = "phrase" /\ heap'[x].items = heap[x].items /\ ~OnlyLocal(heap, x))
            /\ \A y \in All : y # x => heap'[y] = heap[y]
      BY <1>5, <2>1, <2>2, <2>3, PushTextIs
    <3> QED BY <3>1 DEF kind, refcnt
  <2> QED BY <1>1, <2>3
<1>7. /\ Core(heap', stk', valu', <<>>, <<>>)
      /\ \A y \in All : (kind(y)' = kind(y) /\ items(y)' = items(y) /\ refcnt(y)' = refcnt(y))
           \/ (kind(y)' = "phrase" /\ refcnt(y)' > 0 /\ kind(y) \in {"free", "phrase"})
  BY <1>1, <1>5, <1>6 DEF kind, items, refcnt
<1>8. \A y \in All : InUse(y) => kind(y)' = kind(y) /\ (refcnt(y) > 0 => refcnt(y)' > 0) BY <1>7 DEF InUse
<1>9. /\ TodoOK' /\ todo' \in Seq(Frees) /\ (\A k \in DOMAIN todo' : ~todo'[k].drop)
      /\ \A y \in Outer : \E k \in DOMAIN todo' : todo'[k] = Free(y)
  BY <1>1, <1>2, <1>4, <1>8, OuterTodo
<1>10. Now' BY <1>1, <1>2, <1>7, <1>9, CoreTodo DEF Now
<1>11. \A w \in All : kind(w)' = "atype" => \A j \in DOMAIN items(w)' : items(w)'[j] # gone BY <1>2, <1>7, NoGone
<1>12. \A w \in All : InUse(w)' /\ refcnt(w)' = 0 => \E k \in DOMAIN todo' : todo'[k] = Free(w)
  <2> SUFFICES ASSUME NEW w \in All, InUse(w)', refcnt(w)' = 0 PROVE w \in Outer BY <1>9
  <2>1. kind(w)' = kind(w) /\ refcnt(w)' = refcnt(w) BY <1>7
  <2> QED BY <1>2, <1>3, <2>1 DEF InUse
<1>13. unseen' \in SUBSET All BY <1>1, <1>2 DEF Registers
<1> QED BY <1>1, <1>2, <1>9, <1>10, <1>11, <1>12, <1>13, IdleKept

LEMMA FinishKeeps ==
  ASSUME Now, Control, Finish
  PROVE  IInv'
<1>1. /\ Ready /\ pc = "finish" /\ pc' = "idle" /\ r' = NoLocals
      /\ UNCHANGED <<heap, valu, frames, unseen>>
      /\ IF r.protect
         THEN stk' = Append(Below(2), top) /\ todo' = <<Drop(stk[Len(stk) - 1])>>
         ELSE stk' = stk /\ todo' = r.outer
  BY DEF Finish
<1>2. /\ todo = <<>> /\ frames = <<>> /\ Registers
      /\ \A w \in All : kind(w) = "atype" => \A j \in DOMAIN items(w) : items(w)[j] \in All
      /\ \A w \in All : InUse(w) /\ refcnt(w) = 0 => w \in Locals
  BY <1>1, Resting DEF Clearing
<1>3. Locals = Outer BY <1>1 DEF Locals, Working
<1>4. InEnding BY <1>1 DEF Control, Ending
<1>5. Core(heap, stk, valu, <<>>, <<>>) BY <1>2 DEF Now
<1>6. \A y \in All : kind(y)' = kind(y) /\ items(y)' = items(y) /\ refcnt(y)' = refcnt(y)
  BY <1>1 DEF kind, items, refcnt
<1>7. /\ Now' /\ TodoOK'
      /\ \A y \in Outer : \E k \in DOMAIN todo' : todo'[k] = Free(y)
  <2>1. CASE r.protect
    <3>1. Outer = {} BY <1>4, <2>1 DEF InEnding, Outer
    <3>2. r.base \in Nat BY <1>2 DEF Registers
    <3>3. Len(stk) = r.base + 1 + 1 BY <1>1, <1>4, <2>1 DEF InEnding, Depth
    <3>4. Len(stk) >= 2 BY <3>2, <3>3
    <3>5. Core(heap, Append(SubSeq(stk, 1, Len(stk) - 2), stk[Len(stk)]), valu, <<Drop(stk[Len(stk) - 1])>>, <<>>)
      BY <1>5, <3>4, CoreUnder
    <3>6. Now' BY <1>1, <1>2, <2>1, <3>5 DEF Now, Below, top
    <3>7. TodoOK' BY <1>1, <1>2, <2>1, TodoDrop
    <3> QED BY <3>1, <3>6, <3>7
  <2>2. CASE ~r.protect
    <3>1. todo' = r.outer /\ stk' = stk BY <1>1, <2>2
    <3>2. OuterOK BY <1>4 DEF InEnding
    <3>3. /\ TodoOK' /\ todo' \in Seq(Frees) /\ (\A k \in DOMAIN todo' : ~todo'[k].drop)
          /\ \A y \in Outer : \E k \in DOMAIN todo' : todo'[k] = Free(y)
      BY <1>1, <1>2, <1>6, <3>1, <3>2, OuterTodo
    <3>4. Now' BY <1>1, <1>2, <1>5, <3>1, <3>3, CoreTodo DEF Now
    <3> QED BY <3>3, <3>4
  <2> QED BY <2>1, <2>2
<1>8. \A w \in All : kind(w)' = "atype" => \A j \in DOMAIN items(w)' : items(w)'[j] # gone BY <1>2, <1>6, NoGone
<1>9. \A w \in All : InUse(w)' /\ refcnt(w)' = 0 => \E k \in DOMAIN todo' : todo'[k] = Free(w)
  BY <1>2, <1>3, <1>6, <1>7 DEF InUse
<1>10. unseen' \in SUBSET All BY <1>1, <1>2 DEF Registers
<1> QED BY <1>1, <1>2, <1>7, <1>8, <1>9, <1>10, IdleKept

LEMMA StoreResultKeeps ==
  ASSUME Now, Control, StoreResult
  PROVE  IInv'
<1>1. /\ Ready /\ pc = "store" /\ pc' = "finish" /\ UNCHANGED <<stk, frames, r, unseen>>
      /\ IF r.changed THEN Store(heap, r.var, top) ELSE UNCHANGED <<heap, valu, todo>>
  BY DEF StoreResult
<1>2. /\ todo = <<>> /\ frames = <<>> /\ Registers
      /\ \A w \in All : kind(w) = "atype" => \A j \in DOMAIN items(w) : items(w)[j] \in All
      /\ \A w \in All : InUse(w) /\ refcnt(w) = 0 => w \in Locals
  BY <1>1, Resting DEF Clearing
<1>3. InEnding BY <1>1 DEF Control, Ending
<1>4. r.outer = <<>> /\ r.var \in Vars BY <1>1, <1>3 DEF InEnding, ByInsert
<1>5. Outer = {} /\ Locals = {} BY <1>1, <1>4 DEF Locals, Outer, Working
<1>6. OuterOK' /\ Outer' = {} BY <1>1, <1>4, OuterNoneNext
<1>7. Locals' = {} BY <1>1, <1>6 DEF Locals, Working
<1>8. Core(heap, stk, valu, <<>>, <<>>) BY <1>2 DEF Now
<1>9. /\ Now' /\ TodoOK' /\ Waiting' \subseteq All
      /\ \A y \in All : kind(y)' = kind(y) /\ items(y)' = items(y) /\ refcnt(y)' >= refcnt(y)
                        /\ refcnt(y) \in Nat /\ refcnt(y)' \in Nat
  <2>1. CASE r.changed
    <3>1. Store(heap, r.var, top) BY <1>1, <2>1
    <3>2. r.base \in Nat BY <1>2 DEF Registers
    <3>3. Len(stk) = Depth + 1 BY <1>1, <1>3 DEF InEnding
    <3>4. Depth \in Nat BY <3>2 DEF Depth
    <3>5. Len(stk) \in DOMAIN stk /\ stk \in Seq(All) BY <1>8, <3>3, <3>4 DEF Core
    <3>6. PICK x \in All : x = top BY <3>5 DEF top
    <3>7. \E j \in DOMAIN stk : stk[j] = x BY <3>5, <3>6 DEF top
    <3>8. heap[x].kind # "free" BY <1>8, <3>7, Referred
    <3>9. PICK v \in Vars : v = r.var BY <1>4
    <3>10. heap' = Incr(heap, x) /\ valu' = [valu EXCEPT ![v] = x] /\ todo' = <<Drop(valu[v])>>
      BY <3>1, <3>6, <3>9 DEF Store
    <3>11. Core(Incr(heap, x), stk, [valu EXCEPT ![v] = x], <<Drop(valu[v])>>, <<>>)
      BY <1>8, <3>8, CoreStore
    <3>12. Now' BY <1>1, <1>2, <3>10, <3>11 DEF Now
    <3>13. PICK y \in All : y = valu[v] BY <1>8 DEF Core
    <3>14. TodoOK' /\ Waiting' = {y} BY <1>1, <1>2, <3>10, <3>13, TodoDrop
    <3>15. HeapOK(heap) BY <1>8 DEF Core
    <3>16. /\ Recount(heap, Incr(heap, x))
           /\ \A u \in All : Incr(heap, x)[u].refcnt = heap[u].refcnt + One(u = x)
      BY <3>8, <3>15, IncrIs
    <3>17. \A u \in All : AsBefore(u) BY <3>10, <3>16, RecountNext
    <3>18. \A u \in All : refcnt(u)' = refcnt(u) + One(u = x) BY <3>10, <3>16 DEF refcnt
    <3>19. \A u \in All : refcnt(u) \in Nat BY NowCounts
    <3>20. \A u \in All : One(u = x) \in {0, 1} BY DEF One
    <3>21. \A u \in All : refcnt(u)' >= refcnt(u) /\ refcnt(u)' \in Nat BY <3>18, <3>19, <3>20
    <3> QED BY <3>12, <3>14, <3>17, <3>19, <3>21 DEF AsBefore
  <2>2. CASE ~r.changed
    <3>1. UNCHANGED <<heap, valu, todo>> BY <1>1, <2>2
    <3>2. Now' BY <1>1, <3>1 DEF Now
    <3>3. TodoOK' /\ Waiting' = {} BY <1>1, <1>2, <3>1, TodoNone
    <3>4. \A u \in All : refcnt(u) \in Nat BY NowCounts
    <3> QED BY <3>1, <3>2, <3>3, <3>4 DEF kind, items, refcnt
  <2> QED BY <2>1, <2>2
<1>10. Registers' BY <1>1, <1>2 DEF Registers, Ending
<1>11. GoneOK' BY <1>2, <1>9, NoGone DEF GoneOK
<1>12. ZeroOK'
  <2> SUFFICES ASSUME NEW w \in All, InUse(w)', refcnt(w)' = 0 PROVE FALSE BY DEF ZeroOK
  <2>1. InUse(w) /\ refcnt(w) = 0 BY <1>9 DEF InUse
  <2> QED BY <1>2, <1>5, <2>1
<1>13. \E P \in SUBSET All : Apart(P)'
  <2>1. PICK P \in SUBSET All : P = All OBVIOUS
  <2>2. Framed(frames)' = {} BY <1>1, <1>2 DEF Framed
  <2>3. Within(P)' BY <1>9, <2>1, <2>2 DEF Within
  <2>4. Apart(P)' BY <1>1, <1>7, <2>3 DEF Apart, Working
  <2> QED BY <2>4
<1>14. InEnding' BY <1>1, <1>3, <1>4, <1>6 DEF InEnding, Depth
<1>15. pc' \notin {"idle", "index", "place"} \cup Clearing \cup Working BY <1>1 DEF Working, Clearing
<1>16. Control' BY <1>9, <1>10, <1>11, <1>12, <1>13, <1>14, <1>15 DEF Control
<1> QED BY <1>9, <1>16 DEF IInv, Now

LEMMA PushResultKeeps ==
  ASSUME Now, Control, PushResult
  PROVE  IInv'
<1>1. /\ Ready /\ pc = "push" /\ Push(heap, stk, r.a) /\ todo' = <<Free(r.addr), Free(r.x)>>
      /\ pc' = IF r.op = "insert" THEN "store" ELSE "finish"
      /\ UNCHANGED <<valu, frames, r, unseen>>
  BY DEF PushResult
<1>2. /\ todo = <<>> /\ frames = <<>> /\ Registers
      /\ \A w \in All : kind(w) = "atype" => \A j \in DOMAIN items(w) : items(w)[j] \in All
      /\ \A w \in All : InUse(w) /\ refcnt(w) = 0 => w \in Locals
  BY <1>1, Resting DEF Clearing
<1>3. pc \in Working BY <1>1 DEF Working
<1>4. InWorking /\ \E P \in SUBSET All : Apart(P) BY <1>3 DEF Control
<1>5. PICK a, x, d \in All : a = r.a /\ x = r.x /\ d = r.addr BY <1>4 DEF InWorking
<1>6. Works(a, x, d) BY <1>4, <1>5 DEF InWorking, At
<1>7. InUse(a) /\ InUse(x) /\ InUse(d) BY <1>6 DEF Works
<1>8. ByInsert \/ \E p, f \in All : ByPlace(p, f) BY <1>6 DEF Works
<1>9. Simple(d) \/ refcnt(d) > 0
  <2>1. PICK P \in SUBSET All : Apart(P) BY <1>4
  <2>2. Simple(d) \/ Lasting(d, P \cup {a}) BY <1>3, <1>5, <2>1 DEF Apart, At
  <2> QED BY <2>2, StrongIs
<1>10. Core(heap, stk, valu, <<>>, <<>>) /\ heap[a].kind # "free" BY <1>2, <1>7 DEF Now, InUse, kind
<1>11. Push(heap, stk, a) BY <1>1, <1>5
<1>12. /\ Core(heap', stk', valu, <<>>, <<>>) /\ stk' = Append(stk, a)
       /\ refcnt(a)' = heap[a].refcnt + 1 /\ heap[a].refcnt \in Nat /\ kind(a)' = heap[a].kind /\ items(a)' = heap[a].items
       /\ \A y \in All : y # a => kind(y)' = heap[y].kind /\ items(y)' = heap[y].items /\ refcnt(y)' = heap[y].refcnt
  BY <1>10, <1>11, PushedIs
<1>13. \A y \in All : AsBefore(y) /\ (y # a => refcnt(y)' = refcnt(y)) BY <1>12 DEF AsBefore, kind, items, refcnt
<1>14. refcnt(a)' > 0 BY <1>12
<1>15. Simple(d) \/ refcnt(d)' > 0
  <2>1. CASE d = a BY <1>14, <2>1
  <2>2. CASE d # a BY <1>9, <1>13, <2>2
  <2> QED BY <2>1, <2>2
<1>16. Now'
  <2>1. PICK s, t : s = Free(d) /\ t = Free(x) OBVIOUS
  <2>2. s \in Frees /\ t \in Frees /\ ~s.drop /\ ~t.drop BY <2>1 DEF Free, Frees
  <2>3. todo' = <<s, t>> BY <1>1, <1>5, <2>1
  <2>4. todo' \in Seq(Frees) /\ DOMAIN todo' = {1, 2} /\ todo'[1] = s /\ todo'[2] = t BY <2>2, <2>3
  <2>5. \A k \in DOMAIN todo' : ~todo'[k].drop BY <2>2, <2>4
  <2> QED BY <1>1, <1>2, <1>12, <2>4, <2>5, CoreTodo DEF Now
<1>17. /\ pc' \in Ending /\ pc' # "fault" /\ Len(stk') = Depth + 1
       /\ pc' = "store" => ByInsert
  <2>1. r.op = "insert" => ByInsert BY <1>8 DEF ByPlace
  <2>2. Len(stk) = Depth
    <3>1. Len(stk) = Depth + 0 BY <1>1, <1>4 DEF InWorking
    <3>2. r.base \in Nat BY <1>2 DEF Registers
    <3> QED BY <3>1, <3>2 DEF Depth
  <2>3. Len(stk') = Len(stk) + 1 BY <1>10, <1>12 DEF Core
  <2> QED BY <1>1, <2>1, <2>2, <2>3 DEF Ending
<1>18. \A w \in All : InUse(w) /\ refcnt(w) = 0 => w \in Outer \cup {a, x, d}
  <2>1. Locals = Outer \cup {a, x, d} BY <1>1, <1>5 DEF Locals, Working
  <2> QED BY <1>2, <2>1
<1>19. frames' = <<>> /\ r' = r /\ unseen' = unseen /\ valu' = valu /\ todo' = <<Free(d), Free(x)>> BY <1>1, <1>2, <1>5
<1>20. Len(stk') = Depth + (IF pc' = "fault" THEN 0 ELSE 1) BY <1>17
<1> QED BY <1>2, <1>5, <1>7, <1>8, <1>13, <1>14, <1>15, <1>16, <1>17, <1>18, <1>19, <1>20, EndingBegins

(* While an insertion works on its locals a, x and d.                        *)
LEMMA WorkingNext ==
  ASSUME Now', Registers', TodoOK', GoneOK', ZeroOK', pc' \in Working,
         NEW a \in All, NEW x \in All, NEW d \in All, r'.a = a, r'.x = x, r'.addr = d,
         NEW P \in SUBSET All, Within(P)', P \cap Locals' = {}, (Simple(d) \/ Lasting(d, P \cup {a}))', Works(a, x, d)',
         Len(stk') = Depth' + (IF pc' \in {"pack", "unprotect"} THEN 1 ELSE 0)
  PROVE  IInv'
<1>1. \A b, y, e \in All : At(b, y, e)' => b = a /\ y = x /\ e = d BY DEF At
<1>2. Apart(P)' BY <1>1 DEF Apart
<1>3. {r.a, r.x, r.addr}' \subseteq All OBVIOUS
<1>4. InWorking' BY <1>1, <1>3 DEF InWorking
<1>5. pc' \notin {"idle", "index", "place"} \cup Clearing \cup Ending BY DEF Working, Ending, Clearing
<1>6. Control' BY <1>2, <1>4, <1>5 DEF Control
<1> QED BY <1>6 DEF IInv, Now

(* At rest in an insertion.                                                  *)
LEMMA WorkingNow ==
  ASSUME Now, Control, pc \in Working
  PROVE  \E a, x, d \in All :
           /\ a = r.a /\ x = r.x /\ d = r.addr /\ Works(a, x, d)
           /\ Locals = Outer \cup {a, x, d}
           /\ Simple(d) \/ Lasting(d, {a})
<1>1. InWorking /\ \E P \in SUBSET All : Apart(P) BY DEF Control
<1>2. PICK a, x, d \in All : a = r.a /\ x = r.x /\ d = r.addr BY <1>1 DEF InWorking
<1>3. Works(a, x, d) BY <1>1, <1>2 DEF InWorking, At
<1>4. PICK P \in SUBSET All : Apart(P) BY <1>1
<1>5. Simple(d) \/ Lasting(d, P \cup {a}) BY <1>2, <1>4 DEF Apart, At
<1>6. Lasting(d, P \cup {a}) => Lasting(d, {a}) BY StrongMore
<1>7. pc # "index" BY DEF Working
<1>8. Locals = Outer \cup {a, x, d} BY <1>2, <1>7 DEF Locals
<1> QED BY <1>2, <1>3, <1>5, <1>6, <1>8

(* A reference below the base stays while nothing but the count changes.     *)
LEMMA LastingKept ==
  ASSUME Now, r.base \in Nat, r'.base = r.base, valu' = valu, frames = <<>>, frames' = <<>>,
         \A j \in DOMAIN stk : j <= r.base => j \in DOMAIN stk' /\ stk'[j] = stk[j],
         NEW y, NEW P, NEW Q,
         \A w \in All : w \notin P /\ RefersTo(w, y) => w \notin Q /\ AsBefore(w)
  PROVE  Lasting(y, P) => Lasting(y, Q)'
<1>1. PICK n : n = r.base OBVIOUS
<1>2. \A j \in DOMAIN stk : j <= n => j \in DOMAIN stk' /\ stk'[j] = stk[j] /\ j <= n BY <1>1
<1>3. \A w \in All : w \notin P /\ RefersTo(w, y) => w \notin Q /\ RefersTo(w, y)'
  <2> SUFFICES ASSUME NEW w \in All, w \notin P, RefersTo(w, y) PROVE w \notin Q /\ RefersTo(w, y)' OBVIOUS
  <2>1. w \notin Q /\ AsBefore(w) OBVIOUS
  <2> QED BY <2>1, RefersKept
<1>4. \A v \in Vars : valu[v] = y => valu'[v] = y OBVIOUS
<1>5. Firm(y, n, P) => Firm(y, n, Q)' BY <1>2, <1>3, <1>4, FirmKept
<1> QED BY <1>1, <1>5 DEF Lasting

(* The tests of implode, and the end of the protection of x.                 *)
LEMMA WorkingOn ==
  ASSUME Now, Control, Ready, pc \in Working, pc' \in {"pack", "push"}, Now', UNCHANGED <<valu, todo, frames, r, unseen>>,
         \A y \in All : AsBefore(y), \A y \in All : y # r.x => refcnt(y)' = refcnt(y),
         \A j \in DOMAIN stk : j <= r.base => j \in DOMAIN stk' /\ stk'[j] = stk[j],
         pc' = "pack" => pc = "implode" /\ homotest(r.a) /\ stk'[Len(stk')] = r.x,
         Len(stk') = Depth + (IF pc' = "pack" THEN 1 ELSE 0)
  PROVE  IInv'
<1>1. pc' \in Working /\ pc' \notin {"replace", "implode", "unprotect"} /\ pc \notin Clearing BY DEF Working, Clearing
<1>2. /\ todo = <<>> /\ frames = <<>> /\ Registers
      /\ \A w \in All : kind(w) = "atype" => \A j \in DOMAIN items(w) : items(w)[j] \in All
      /\ \A w \in All : InUse(w) /\ refcnt(w) = 0 => w \in Locals
  BY <1>1, Resting
<1>3. PICK a, x, d \in All :
        /\ a = r.a /\ x = r.x /\ d = r.addr /\ Works(a, x, d)
        /\ Locals = Outer \cup {a, x, d}
        /\ Simple(d) \/ Lasting(d, {a})
  BY WorkingNow
<1>4. \A y \in All : kind(y)' = kind(y) /\ items(y)' = items(y) /\ (InUse(y)' <=> InUse(y))
  BY DEF AsBefore, InUse
<1>5. todo' = <<>> /\ frames' = <<>> /\ r' = r /\ valu' = valu BY <1>2
<1>6. TodoOK' /\ Waiting' = {} BY <1>5, TodoNone
<1>7. Outer' = Outer BY <1>5 DEF Outer
<1>8. Locals' = Locals
  <2>1. pc' # "index" BY <1>1 DEF Working
  <2> QED BY <1>1, <1>3, <1>5, <1>7, <2>1 DEF Locals
<1>9. GoneOK' BY <1>2, <1>4, NoGone DEF GoneOK
<1>10. ZeroOK'
  <2> SUFFICES ASSUME NEW w \in All, InUse(w)', refcnt(w)' = 0 PROVE w \in Locals' BY DEF ZeroOK
  <2>1. CASE w = x BY <1>3, <1>8, <2>1
  <2>2. CASE w # x BY <1>2, <1>3, <1>4, <1>8, <2>2
  <2> QED BY <2>1, <2>2
<1>11. Registers' BY <1>1, <1>2, <1>5 DEF Registers
<1>12. (Simple(d) \/ Lasting(d, {} \cup {a}))'
  <2>1. Simple(d) => Simple(d)' BY <1>4, <1>5 DEF Simple
  <2>2. r.base \in Nat BY <1>2 DEF Registers
  <2>3. Lasting(d, {a}) => Lasting(d, {a})' BY <1>2, <1>5, <2>2, LastingKept
  <2>4. {} \cup {a} = {a} OBVIOUS
  <2> QED BY <1>3, <2>1, <2>3, <2>4
<1>13. Within({})'
  <2>1. Framed(frames)' = {} BY <1>5 DEF Framed
  <2> QED BY <1>6, <2>1 DEF Within
<1>14. \A w, y \in All : RefersTo(w, y)' <=> RefersTo(w, y) BY <1>2, <1>4, <1>5, ItemRefers, ItemRefersNext
<1>15. Works(a, x, d)'
  <2>1. InUse(a)' /\ InUse(x)' /\ InUse(d)' BY <1>3, <1>4 DEF Works
  <2>2. pc' = "pack" => stk'[Len(stk')] = x /\ pc = "implode" /\ homotest(a) BY <1>3
  <2>3. pc' = "pack" => kind(a)' \in {"ints", "atype"} /\ r'.i \in DOMAIN items(a)' BY <1>3, <1>4, <1>5, <2>2 DEF Works
  <2>4. r'.changed => refcnt(a)' = 0 /\ a # x BY <1>3, <1>5 DEF Works
  <2>5. \/ ByInsert' /\ (~r'.changed => a = valu'[r'.var])
        \/ \E p, first \in All :
             /\ ByPlace(p, first)' /\ (~r'.changed => RefersTo(p, a)')
             /\ pc' = "pack" => a # first
    <3>1. CASE ByInsert /\ (~r.changed => a = valu[r.var]) BY <1>5, <3>1 DEF ByInsert
    <3>2. ASSUME NEW p \in All, NEW first \in All, ByPlace(p, first), ~r.changed => RefersTo(p, a),
                 pc \in {"replace", "implode", "pack"} => a # first
          PROVE  ByPlace(p, first)' /\ (~r'.changed => RefersTo(p, a)') /\ (pc' = "pack" => a # first)
      <4>1. x # p /\ d = r.addr /\ (RefersTo(first, d) \/ (refcnt(d) = 0 /\ Simple(d))) BY <1>3, <3>2 DEF ByPlace
      <4>2. refcnt(p)' = refcnt(p) BY <1>3, <4>1
      <4>3. Simple(d) => Simple(d)' /\ refcnt(d)' = refcnt(d) BY <1>3, <1>4, <1>5 DEF Simple
      <4>4. RefersTo(first, d)' \/ (refcnt(d)' = 0 /\ Simple(d)') BY <1>14, <4>1, <4>3
      <4>5. \A e \in All : e = r'.addr => e = d BY <1>3, <1>5
      <4>6. ByPlace(p, first)' BY <1>4, <1>5, <1>14, <3>2, <4>2, <4>4, <4>5 DEF ByPlace
      <4> QED BY <1>5, <1>14, <2>2, <3>2, <4>6
    <3> QED BY <1>3, <3>1, <3>2 DEF Works
  <2>6. pc' = "pack" /\ r'.op = "insert" /\ kind(a)' = "atype" =>
          \A j \in DOMAIN items(a)' : items(a)'[j] = d => d = x
    BY <1>3, <1>4, <1>5, <2>2 DEF Works
  <2>7. pc' = "pack" => homotest(a)'
    <3> SUFFICES ASSUME pc' = "pack" PROVE homotest(a)' OBVIOUS
    <3>1. homotest(a) BY <2>2
    <3>2. PICK q : q = items(a) OBVIOUS
    <3>3. kind(a) = "atype" /\ \A j \in DOMAIN q : kind(q[j]) = "int" BY <3>1, <3>2 DEF homotest
    <3>4. \A j \in DOMAIN q : q[j] \in All BY <1>2, <3>2, <3>3
    <3>5. kind(a)' = "atype" /\ items(a)' = q BY <1>4, <3>2, <3>3
    <3>6. \A j \in DOMAIN q : kind(q[j])' = "int" BY <1>4, <3>3, <3>4
    <3> QED BY <3>5, <3>6 DEF homotest
  <2>8. Ready' BY <1>5 DEF Ready
  <2> QED BY <1>1, <2>1, <2>2, <2>3, <2>4, <2>5, <2>6, <2>7, <2>8 DEF Works
<1>16. Depth' = Depth BY <1>5 DEF Depth
<1>17. Len(stk') = Depth' + (IF pc' \in {"pack", "unprotect"} THEN 1 ELSE 0) BY <1>1, <1>16
<1> QED BY <1>1, <1>3, <1>5, <1>6, <1>9, <1>10, <1>11, <1>12, <1>13, <1>15, <1>17, WorkingNext

LEMMA TestItemsKeeps ==
  ASSUME Now, Control, TestItems
  PROVE  IInv'
<1>1. /\ Ready /\ pc = "implode" /\ UNCHANGED <<valu, todo, frames, r, unseen>>
      /\ IF homotest(r.a) THEN Push(heap, stk, r.x) /\ pc' = "pack" ELSE UNCHANGED <<heap, stk>> /\ pc' = "push"
  BY DEF TestItems
<1>2. todo = <<>> /\ frames = <<>> /\ Registers BY <1>1, Resting
<1>3. pc \in Working BY <1>1 DEF Working
<1>4. InWorking BY <1>3 DEF Control
<1>5. r.base \in Nat BY <1>2 DEF Registers
<1>6. Len(stk) = Depth /\ Depth >= r.base /\ Depth \in Nat
  <2>1. Len(stk) = Depth + 0 BY <1>1, <1>4 DEF InWorking
  <2> QED BY <1>5, <2>1 DEF Depth
<1>7. PICK a, x, d \in All :
        /\ a = r.a /\ x = r.x /\ d = r.addr /\ Works(a, x, d)
        /\ Locals = Outer \cup {a, x, d}
        /\ Simple(d) \/ Lasting(d, {a})
  BY <1>3, WorkingNow
<1>8. Core(heap, stk, valu, <<>>, <<>>) BY <1>2 DEF Now
<1>9. CASE homotest(r.a)
  <2>1. Push(heap, stk, x) /\ pc' = "pack" BY <1>1, <1>7, <1>9
  <2>2. heap[x].kind # "free" BY <1>7 DEF Works, InUse, kind
  <2>3. /\ Core(heap', stk', valu, <<>>, <<>>) /\ stk' = Append(stk, x)
        /\ kind(x)' = heap[x].kind /\ items(x)' = heap[x].items
        /\ \A y \in All : y # x => kind(y)' = heap[y].kind /\ items(y)' = heap[y].items /\ refcnt(y)' = heap[y].refcnt
    BY <1>8, <2>1, <2>2, PushedIs
  <2>4. \A y \in All : AsBefore(y) /\ (y # x => refcnt(y)' = refcnt(y)) BY <2>3 DEF AsBefore, kind, items, refcnt
  <2>5. Now' BY <1>1, <1>2, <2>3 DEF Now
  <2>6. /\ Len(stk') = Len(stk) + 1 /\ stk'[Len(stk')] = x
        /\ \A j \in DOMAIN stk : j <= r.base => j \in DOMAIN stk' /\ stk'[j] = stk[j]
    <3>1. stk \in Seq(All) BY <1>8 DEF Core
    <3> QED BY <2>3, <3>1
  <2>7. Len(stk') = Depth + (IF pc' = "pack" THEN 1 ELSE 0) BY <1>6, <2>1, <2>6
  <2>8. \A y \in All : y # r.x => refcnt(y)' = refcnt(y) BY <1>7, <2>4
  <2>9. pc' = "pack" => pc = "implode" /\ homotest(r.a) /\ stk'[Len(stk')] = r.x BY <1>1, <1>7, <1>9, <2>6
  <2> QED BY <1>1, <1>3, <2>1, <2>4, <2>5, <2>6, <2>7, <2>8, <2>9, WorkingOn
<1>10. CASE ~homotest(r.a)
  <2>1. UNCHANGED <<heap, stk, valu, todo, frames, r, unseen>> /\ pc' = "push" BY <1>1, <1>10
  <2>2. \A y \in All : AsBefore(y) /\ refcnt(y)' = refcnt(y) BY <2>1 DEF AsBefore, kind, items, refcnt
  <2>3. Now' BY <2>1 DEF Now
  <2>4. Len(stk') = Depth + (IF pc' = "pack" THEN 1 ELSE 0) BY <1>6, <2>1
  <2>5. \A j \in DOMAIN stk : j <= r.base => j \in DOMAIN stk' /\ stk'[j] = stk[j] BY <2>1
  <2> QED BY <1>1, <1>3, <2>1, <2>2, <2>3, <2>4, <2>5, WorkingOn
<1> QED BY <1>9, <1>10

LEMMA UnprotectKeeps ==
  ASSUME Now, Control, Unprotect
  PROVE  IInv'
<1>1. /\ Ready /\ pc = "unprotect" /\ UNCHANGED <<valu, todo, frames, r, unseen>>
      /\ heap' = Decr(heap, top) /\ stk' = Below(1) /\ pc' = "push"
  BY DEF Unprotect
<1>2. todo = <<>> /\ frames = <<>> /\ Registers BY <1>1, Resting
<1>3. pc \in Working BY <1>1 DEF Working
<1>4. InWorking BY <1>3 DEF Control
<1>5. r.base \in Nat BY <1>2 DEF Registers
<1>6. Len(stk) = Depth + 1 /\ Depth >= r.base /\ Depth \in Nat
  <2>1. Len(stk) = Depth + 1 BY <1>1, <1>4 DEF InWorking
  <2> QED BY <1>5, <2>1 DEF Depth
<1>7. PICK a, x, d \in All :
        /\ a = r.a /\ x = r.x /\ d = r.addr /\ Works(a, x, d)
        /\ Locals = Outer \cup {a, x, d}
        /\ Simple(d) \/ Lasting(d, {a})
  BY <1>3, WorkingNow
<1>8. Core(heap, stk, valu, <<>>, <<>>) BY <1>2 DEF Now
<1>9. x = top BY <1>1, <1>7 DEF Works, top
<1>10. stk # <<>> /\ heap' = Decr(heap, x) /\ stk \in Seq(All)
  <2>1. stk \in Seq(All) BY <1>8 DEF Core
  <2> QED BY <1>1, <1>6, <1>9, <2>1
<1>11. /\ Core(heap', Below(1), valu, <<>>, <<>>)
       /\ \A y \in All : AsBefore(y)
       /\ \A y \in All : y # x => refcnt(y)' = refcnt(y)
  BY <1>8, <1>9, <1>10, PopIs
<1>12. Now' BY <1>1, <1>2, <1>11 DEF Now
<1>13. /\ Len(stk') = Len(stk) - 1 /\ \A j \in 1 .. Len(stk) - 1 : stk'[j] = stk[j]
       /\ DOMAIN stk = 1 .. Len(stk) /\ DOMAIN stk' = 1 .. Len(stk) - 1
  <2>1. /\ Below(1) \in Seq(All) /\ Len(Below(1)) = Len(stk) - 1 /\ \A j \in 1 .. Len(stk) - 1 : Below(1)[j] = stk[j]
    BY <1>6, <1>10, BelowIs
  <2>2. stk' \in Seq(All) BY <1>1, <2>1
  <2> QED BY <1>1, <1>10, <2>1, <2>2
<1>14. \A j \in DOMAIN stk : j <= r.base => j \in DOMAIN stk' /\ stk'[j] = stk[j] BY <1>5, <1>6, <1>13
<1>15. Len(stk') = Depth + (IF pc' = "pack" THEN 1 ELSE 0) BY <1>1, <1>6, <1>13
<1>16. \A y \in All : y # r.x => refcnt(y)' = refcnt(y) BY <1>7, <1>11
<1> QED BY <1>1, <1>3, <1>11, <1>12, <1>14, <1>15, <1>16, WorkingOn

LEMMA TodoFree ==
  ASSUME NEW x \in All, frames' = <<>>, todo' = <<Free(x)>>, InUse(x)'
  PROVE  /\ TodoOK' /\ (\A k \in DOMAIN todo' : ~todo'[k].drop) /\ Waiting' = {x} /\ todo' \in Seq(Frees)
         /\ \E k \in DOMAIN todo' : todo'[k] = Free(x)
<1>1. PICK s : s = Free(x) OBVIOUS
<1>2. s.arr = x /\ ~s.drop /\ s \in Frees BY <1>1 DEF Free, Frees
<1>3. todo' = <<s>> BY <1>1
<1>4. todo' \in Seq(Frees) /\ todo'[1] = s /\ DOMAIN todo' = {1} BY <1>2, <1>3
<1>5. \A k \in DOMAIN todo' : ~todo'[k].drop BY <1>2, <1>4
<1>6. Waiting' = {x} BY <1>2, <1>4 DEF Waiting
<1>7. \E k \in DOMAIN todo' : todo'[k] = Free(x) BY <1>1, <1>4
<1>8. \A y : s = Free(y) => y = x BY <1>2 DEF Free
<1>9. \A y \in All, k \in DOMAIN todo' : todo'[k] = Free(y) => InUse(y)' BY <1>4, <1>8
<1>10. \A k, l \in DOMAIN todo' : ~(k < l) BY <1>4
<1>11. Framed(frames)' = {} BY DEF Framed
<1> QED BY <1>4, <1>5, <1>6, <1>7, <1>9, <1>10, <1>11 DEF TodoOK

(* The container changes.                                                    *)
LEMMA ContainerIs ==
  ASSUME Registers, NEW z, r' = [r EXCEPT !.a = z, !.changed = TRUE], pc' \in Working, unseen' = unseen
  PROVE  /\ Registers' /\ Outer' = Outer /\ Depth' = Depth
         /\ r'.op = r.op /\ r'.var = r.var /\ r'.base = r.base /\ r'.x = r.x /\ r'.outer = r.outer
         /\ r'.changed /\ r'.a = z /\ r'.addr = r.addr /\ r'.protect = r.protect /\ r'.i = r.i
         /\ Locals' = Outer \cup {z, r.x, r.addr}
<1>1. /\ r = [op |-> r.op, var |-> r.var, base |-> r.base, a |-> r.a, i |-> r.i, x |-> r.x,
              addr |-> r.addr, outer |-> r.outer, changed |-> r.changed, protect |-> r.protect,
              due |-> r.due]
      /\ r.base \in Nat /\ r.i \in Nat /\ r.outer \in Seq(Frees) /\ r.protect \in BOOLEAN /\ unseen \in SUBSET All
  BY DEF Registers
<1>2. /\ r' = [op |-> r'.op, var |-> r'.var, base |-> r'.base, a |-> r'.a, i |-> r'.i, x |-> r'.x,
               addr |-> r'.addr, outer |-> r'.outer, changed |-> r'.changed, protect |-> r'.protect,
               due |-> r'.due]
      /\ r'.op = r.op /\ r'.var = r.var /\ r'.base = r.base /\ r'.x = r.x /\ r'.outer = r.outer
      /\ r'.changed = TRUE /\ r'.a = z /\ r'.addr = r.addr /\ r'.protect = r.protect /\ r'.i = r.i
  BY <1>1
<1>3. r'.base \in Nat /\ r'.i \in Nat /\ r'.outer \in Seq(Frees) /\ r'.changed \in BOOLEAN /\ r'.protect \in BOOLEAN
  BY <1>1, <1>2
<1>4. Registers' BY <1>1, <1>2, <1>3 DEF Registers
<1>5. Outer' = Outer BY <1>2 DEF Outer
<1>6. Depth' = Depth BY <1>2 DEF Depth
<1>7. pc' # "index" BY DEF Working
<1>8. Locals' = Outer \cup {z, r.x, r.addr} BY <1>2, <1>5, <1>7 DEF Locals
<1> QED BY <1>2, <1>4, <1>5, <1>6, <1>8

(* The data of the items of a list of integers.                              *)
LEMMA PackedData ==
  ASSUME Now, NEW q \in Seq(All), Len(q) <= MaxItems, \A j \in DOMAIN q : kind(q[j]) = "int"
  PROVE  /\ [j \in DOMAIN q |-> items(q[j])[1]] \in Seq(Nums)
         /\ Len([j \in DOMAIN q |-> items(q[j])[1]]) <= MaxItems
<1>1. \A j \in DOMAIN q : items(q[j])[1] \in Nums
  <2> TAKE j \in DOMAIN q
  <2>1. PICK w \in All : w = q[j] OBVIOUS
  <2>2. items(w) \in Seq(Nums) /\ Len(items(w)) = 1 BY <2>1, NowItems
  <2>3. PICK s : s = items(w) OBVIOUS
  <2>4. s \in Seq(Nums) /\ Len(s) = 1 BY <2>2, <2>3
  <2>5. 1 \in 1 .. Len(s) BY <2>4
  <2>6. \A l \in 1 .. Len(s) : s[l] \in Nums BY <2>4, ElementOfSeq
  <2>7. s[1] \in Nums BY <2>5, <2>6
  <2> QED BY <2>1, <2>3, <2>7
<1>2. PICK n \in Nat : n = Len(q) /\ DOMAIN q = 1 .. n OBVIOUS
<1>3. PICK f : f = [j \in DOMAIN q |-> items(q[j])[1]] OBVIOUS
<1>4. f \in [1 .. n -> Nums] BY <1>1, <1>2, <1>3
<1>5. f \in Seq(Nums) /\ Len(f) = n BY <1>4
<1> QED BY <1>2, <1>3, <1>5

LEMMA ImplodeKeeps ==
  ASSUME Now, Control, Implode
  PROVE  IInv'
<1>1. PICK z : z = Fresh(1)[1] OBVIOUS
<1>2. /\ Ready /\ pc = "pack" /\ HasRoom(1)
      /\ heap' = Made(heap, z, "ints", [j \in DOMAIN items(r.a) |-> items(items(r.a)[j])[1]])
      /\ r' = [r EXCEPT !.a = z, !.changed = TRUE]
      /\ todo' = <<Free(r.a)>> /\ pc' = "unprotect" /\ UNCHANGED <<stk, valu, frames, unseen>>
  BY <1>1 DEF Implode
<1>3. /\ todo = <<>> /\ frames = <<>> /\ Registers
      /\ \A w \in All : kind(w) = "atype" => \A j \in DOMAIN items(w) : items(w)[j] \in All
      /\ \A w \in All : InUse(w) /\ refcnt(w) = 0 => w \in Locals
  BY <1>2, Resting DEF Clearing
<1>4. pc \in Working /\ pc' \in Working BY <1>2 DEF Working
<1>5. PICK a, x, d \in All :
        /\ a = r.a /\ x = r.x /\ d = r.addr /\ Works(a, x, d)
        /\ Locals = Outer \cup {a, x, d}
        /\ Simple(d) \/ Lasting(d, {a})
  BY <1>4, WorkingNow
<1>6. /\ Registers' /\ Outer' = Outer /\ Depth' = Depth
      /\ r'.op = r.op /\ r'.var = r.var /\ r'.base = r.base /\ r'.x = x /\ r'.outer = r.outer
      /\ r'.changed /\ r'.a = z /\ r'.addr = d /\ r'.protect = r.protect /\ r'.i = r.i
      /\ Locals' = Outer \cup {z, x, d}
  BY <1>2, <1>3, <1>4, <1>5, ContainerIs
<1>7. z \in All /\ ~InUse(z) BY <1>1, <1>2, FreshOne
<1>8. Core(heap, stk, valu, <<>>, <<>>) BY <1>3 DEF Now
<1>9. PICK q : q = items(a) OBVIOUS
<1>10. /\ InUse(a) /\ InUse(x) /\ InUse(d) /\ stk[Len(stk)] = x
       /\ r.changed => refcnt(a) = 0 /\ a # x
       /\ \/ ByInsert /\ (~r.changed => a = valu[r.var])
          \/ \E p, first \in All : ByPlace(p, first) /\ (~r.changed => RefersTo(p, a)) /\ a # first
       /\ r.op = "insert" /\ kind(a) = "atype" => \A j \in DOMAIN q : q[j] = d => d = x
       /\ homotest(a)
  BY <1>2, <1>5, <1>9 DEF Works
<1>11. /\ kind(a) = "atype" /\ \A j \in DOMAIN q : kind(q[j]) = "int"
       /\ q \in Seq(All) /\ Len(q) <= MaxItems
  <2>1. kind(a) = "atype" /\ \A j \in DOMAIN q : kind(q[j]) = "int" BY <1>9, <1>10 DEF homotest
  <2>2. q \in Seq(Words) /\ Len(q) <= MaxItems BY <1>9, NowItems
  <2>3. \A j \in DOMAIN q : q[j] \in All BY <1>3, <1>9, <2>1
  <2>4. q \in Seq(All) BY <2>2, <2>3
  <2> QED BY <2>1, <2>2, <2>4
<1>12. PICK its : its = [j \in DOMAIN q |-> items(q[j])[1]] OBVIOUS
<1>13. its \in Seq(Nums) /\ Len(its) <= MaxItems BY <1>11, <1>12, PackedData
<1>14. heap' = Made(heap, z, "ints", its) BY <1>2, <1>5, <1>9, <1>12
<1>15. heap[z].kind = "free" BY <1>7 DEF InUse, kind
<1>16. /\ Core(heap', stk, valu, <<>>, <<>>)
       /\ heap'[z] = [kind |-> "ints", items |-> its, refcnt |-> 0]
       /\ \A y \in All : y # z => heap'[y] = heap[y]
  BY <1>7, <1>8, <1>13, <1>14, <1>15, CorePacked
<1>17. /\ kind(z)' = "ints" /\ refcnt(z)' = 0 /\ InUse(z)'
       /\ \A y \in All : y # z => AsBefore(y) /\ refcnt(y)' = refcnt(y) /\ kind(y)' = kind(y) /\ (InUse(y)' <=> InUse(y))
  BY <1>16 DEF AsBefore, kind, items, refcnt, InUse
<1>18. frames' = <<>> /\ todo' = <<Free(a)>> /\ valu' = valu /\ a # z BY <1>2, <1>3, <1>5, <1>7, <1>10
<1>19. /\ TodoOK' /\ (\A k \in DOMAIN todo' : ~todo'[k].drop) /\ Waiting' = {a} /\ todo' \in Seq(Frees)
       /\ \E k \in DOMAIN todo' : todo'[k] = Free(a)
  BY <1>10, <1>17, <1>18, TodoFree
<1>20. Now' BY <1>2, <1>16, <1>18, <1>19, CoreTodo DEF Now
<1>21. GoneOK' BY <1>3, <1>17, NoGone DEF GoneOK, AsBefore
<1>22. ZeroOK'
  <2> SUFFICES ASSUME NEW w \in All, InUse(w)', refcnt(w)' = 0
               PROVE  w \in Locals' \/ \E k \in DOMAIN todo' : todo'[k] = Free(w)
    BY DEF ZeroOK
  <2>1. CASE w = z BY <1>6, <2>1
  <2>2. CASE w # z
    <3>1. w \in Outer \cup {a, x, d} BY <1>3, <1>5, <1>17, <2>2
    <3> QED BY <1>6, <1>19, <3>1
  <2> QED BY <2>1, <2>2
<1>23. \A w, y \in All : w # z => (RefersTo(w, y)' <=> RefersTo(w, y))
  BY <1>3, <1>17, <1>18, ItemRefers, ItemRefersNext DEF AsBefore
<1>24. \A y \in All, w \in All : RefersTo(w, y) => refcnt(y) > 0
  <2> TAKE y \in All, w \in All
  <2> HAVE RefersTo(w, y)
  <2>1. \E u \in All : \E j \in DOMAIN heap[u].items : Has1(heap, frames, u, j) /\ heap[u].items[j] = y
    BY DEF RefersTo, items
  <2> QED BY <1>3, <1>8, <2>1, Referred DEF refcnt
<1>25. \A y : RefersTo(a, y) => \E j \in DOMAIN q : q[j] = y BY <1>3, <1>9, ItemRefers
<1>26. PICK P \in SUBSET All : P = ({a} \cup {q[j] : j \in DOMAIN q}) \ Locals'
  <2>1. \A j \in DOMAIN q : q[j] \in All BY <1>11
  <2>2. ({a} \cup {q[j] : j \in DOMAIN q}) \ Locals' \in SUBSET All BY <2>1
  <2> QED BY <2>2
<1>27. \A w \in P : kind(w) = "atype" => w = a BY <1>11, <1>26
<1>28. z \notin P /\ (\A y \in Outer : y \notin P) /\ x \notin P /\ d \notin P BY <1>6, <1>26
<1>29. \A w \in Outer, y \in All : w \in All /\ w # z /\ RefersTo(w, y) => Strong(y, P)'
  <2> SUFFICES ASSUME NEW w \in Outer, NEW y \in All, w \in All, w # z, RefersTo(w, y) PROVE Strong(y, P)' OBVIOUS
  <2>1. RefersTo(w, y)' /\ w \notin P BY <1>23, <1>28
  <2> QED BY <2>1 DEF Strong, Firm
<1>30. /\ a \notin P => Strong(a, P)'
       /\ \A j \in DOMAIN q : q[j] \notin P => Strong(q[j], P)'
       /\ \E p, first \in All : (ByPlace(p, first) /\ r.op # "insert") \/ ByInsert
  <2>0. Strong(x, P)'
    <3>1. stk' = stk /\ stk \in Seq(All) BY <1>2, <1>8 DEF Core
    <3>2. Len(stk) \in DOMAIN stk
      <4>1. InWorking BY <1>4 DEF Control
      <4>2. Len(stk) = Depth + 1 /\ r.base \in Nat BY <1>2, <1>3, <4>1 DEF InWorking, Registers
      <4> QED BY <3>1, <4>2 DEF Depth
    <3>3. Len(stk') \in DOMAIN stk' /\ stk'[Len(stk')] = x /\ Len(stk') <= Len(stk') BY <1>10, <3>1, <3>2
    <3> QED BY <3>3 DEF Strong, Firm
  <2>1. r.changed => a # d
    <3> SUFFICES ASSUME r.changed, a = d PROVE FALSE OBVIOUS
    <3>1. ~Simple(d) BY <1>11 DEF Simple
    <3>2. refcnt(d) > 0 BY <1>5, <3>1, StrongIs
    <3> QED BY <1>10, <3>2
  <2>2. CASE ByInsert /\ (~r.changed => a = valu[r.var])
    <3>1. Outer = {} /\ r.op = "insert" /\ r.var \in Vars BY <2>2 DEF ByInsert, Outer
    <3>2. a \notin P => Strong(a, P)'
      <4>1. CASE r.changed
        <5>1. a \notin Locals' BY <1>6, <1>10, <1>18, <2>1, <3>1, <4>1
        <5> QED BY <1>26, <5>1
      <4>2. CASE ~r.changed
        <5>1. \E v \in Vars : valu'[v] = a BY <1>18, <2>2, <3>1, <4>2
        <5> QED BY <5>1 DEF Strong, Firm
      <4>3. r.changed \in BOOLEAN BY <1>3 DEF Registers
      <4> QED BY <4>1, <4>2, <4>3
    <3>3. ASSUME NEW j \in DOMAIN q, q[j] \notin P PROVE Strong(q[j], P)'
      <4>1. PICK y \in All : y = q[j] BY <1>11
      <4>2. y \in Locals' BY <1>26, <3>3, <4>1
      <4>3. y # z
        <5>1. InUse(y) BY <1>11, <4>1 DEF InUse
        <5> QED BY <1>7, <5>1
      <4>4. y = x BY <1>6, <1>10, <1>11, <3>1, <4>1, <4>2, <4>3
      <4> QED BY <2>0, <4>1, <4>4
    <3> QED BY <2>2, <3>2, <3>3
  <2>3. ASSUME NEW p \in All, NEW first \in All, ByPlace(p, first), ~r.changed => RefersTo(p, a), a # first
        PROVE  /\ a \notin P => Strong(a, P)'
               /\ \A j \in DOMAIN q : q[j] \notin P => Strong(q[j], P)'
               /\ r.op # "insert"
    <3>1. /\ r.op = "place" /\ r.outer = <<Free(first), Free(p)>> /\ InUse(p) /\ refcnt(p) = 0 /\ RefersTo(p, first)
          /\ a # p /\ (RefersTo(first, d) \/ (refcnt(d) = 0 /\ Simple(d)))
      BY <1>5, <2>3 DEF ByPlace
    <3>2. Outer = {first, p} BY <3>1, OuterTwo
    <3>3. first # z /\ p # z
      <4>1. heap[first].kind # "free" BY <1>8, <1>24, <3>1, Referred DEF refcnt
      <4>2. InUse(first) BY <4>1 DEF InUse, kind
      <4> QED BY <1>7, <3>1, <4>2
    <3>4. a \notin P => Strong(a, P)'
      <4>1. CASE r.changed
        <5>1. a \notin Locals' BY <1>6, <1>10, <1>18, <2>1, <2>3, <3>1, <3>2, <4>1
        <5> QED BY <1>26, <5>1
      <4>2. CASE ~r.changed BY <1>29, <2>3, <3>2, <3>3, <4>2
      <4>3. r.changed \in BOOLEAN BY <1>3 DEF Registers
      <4> QED BY <4>1, <4>2, <4>3
    <3>5. ASSUME NEW j \in DOMAIN q, q[j] \notin P PROVE Strong(q[j], P)'
      <4>1. PICK y \in All : y = q[j] BY <1>11
      <4>2. y \in Locals' BY <1>26, <3>5, <4>1
      <4>3. y # z
        <5>1. InUse(y) BY <1>11, <4>1 DEF InUse
        <5> QED BY <1>7, <5>1
      <4>4. RefersTo(a, y)
        <5>1. y # gone BY NoGone
        <5> QED BY <1>3, <1>9, <1>11, <4>1, <5>1, ItemRefers
      <4>5. refcnt(y) > 0 BY <1>24, <4>4
      <4>6. y \in {x, d, first} BY <1>6, <3>1, <3>2, <4>2, <4>3, <4>5
      <4>7. CASE y = x BY <2>0, <4>1, <4>7
      <4>8. CASE y = first BY <1>29, <3>1, <3>2, <3>3, <4>1, <4>8
      <4>9. CASE y = d
        <5>1. RefersTo(first, d) BY <3>1, <4>5, <4>9
        <5> QED BY <1>29, <3>2, <3>3, <4>1, <4>9, <5>1
      <4> QED BY <4>6, <4>7, <4>8, <4>9
    <3> QED BY <3>1, <3>4, <3>5
  <2> QED BY <1>10, <2>2, <2>3
<1>31. Within(P)'
  <2>1. Framed(frames)' = {} BY <1>18 DEF Framed
  <2>2. ASSUME NEW w \in P, NEW y \in All, RefersTo(w, y)' PROVE y \in P \/ Strong(y, P)'
    <3>1. RefersTo(w, y) BY <1>23, <1>28, <2>2
    <3>2. w = a BY <1>27, <3>1, ListsRefer
    <3>3. PICK j \in DOMAIN q : q[j] = y BY <1>25, <3>1, <3>2
    <3> QED BY <1>30, <3>3
  <2> QED BY <1>19, <1>30, <2>1, <2>2 DEF Within
<1>32. P \cap Locals' = {} BY <1>26
<1>33. (Simple(d) \/ Lasting(d, P \cup {z}))'
  <2>1. d # z BY <1>7, <1>10
  <2>2. Simple(d) => Simple(d)' BY <1>5, <1>6, <1>17, <2>1 DEF Simple
  <2>3. \A w \in All : w \notin {a} /\ RefersTo(w, d) => w \notin P \cup {z} /\ AsBefore(w)
    BY <1>7, <1>17, <1>27, ListsRefer DEF InUse
  <2>4. r.base \in Nat BY <1>3 DEF Registers
  <2>5. \A j \in DOMAIN stk : j <= r.base => j \in DOMAIN stk' /\ stk'[j] = stk[j] BY <1>2
  <2>6. Lasting(d, {a}) => Lasting(d, P \cup {z})' BY <1>3, <1>6, <1>18, <2>3, <2>4, <2>5, LastingKept
  <2> QED BY <1>5, <2>2, <2>6
<1>34. Works(z, x, d)'
  <2>1. InUse(z)' /\ InUse(x)' /\ InUse(d)' BY <1>10, <1>17
  <2>2. stk'[Len(stk')] = x BY <1>2, <1>10
  <2>3. r'.changed => refcnt(z)' = 0 /\ z # x BY <1>7, <1>10, <1>17
  <2>4. ByInsert' \/ \E p, first \in All : ByPlace(p, first)'
    <3>1. CASE ByInsert BY <1>6, <3>1 DEF ByInsert
    <3>2. ASSUME NEW p \in All, NEW first \in All, ByPlace(p, first) PROVE ByPlace(p, first)'
      <4>1. /\ InUse(p) /\ refcnt(p) = 0 /\ RefersTo(p, first) /\ x # p
            /\ (RefersTo(first, d) \/ (refcnt(d) = 0 /\ Simple(d)))
        BY <1>5, <3>2 DEF ByPlace
      <4>2. first # z /\ p # z /\ d # z
        <5>1. heap[first].kind # "free" BY <1>8, <1>24, <4>1, Referred DEF refcnt
        <5>2. InUse(first) BY <5>1 DEF InUse, kind
        <5> QED BY <1>7, <1>10, <4>1, <5>2
      <4>3. InUse(p)' /\ refcnt(p)' = 0 /\ RefersTo(p, first)' BY <1>17, <1>23, <4>1, <4>2
      <4>4. Simple(d) => Simple(d)' /\ refcnt(d)' = refcnt(d) BY <1>5, <1>6, <1>17, <4>2 DEF Simple
      <4>5. RefersTo(first, d)' \/ (refcnt(d)' = 0 /\ Simple(d)') BY <1>23, <4>1, <4>2, <4>4
      <4>6. \A e \in All : e = r'.addr => e = d BY <1>6
      <4> QED BY <1>6, <3>2, <4>1, <4>2, <4>3, <4>5, <4>6 DEF ByPlace
    <3> QED BY <1>10, <3>1, <3>2
  <2> QED BY <1>2, <1>6, <2>1, <2>2, <2>3, <2>4 DEF Works
<1>35. Len(stk') = Depth' + (IF pc' \in {"pack", "unprotect"} THEN 1 ELSE 0)
  <2>1. InWorking BY <1>4 DEF Control
  <2> QED BY <1>2, <1>6, <2>1 DEF InWorking
<1> QED BY <1>4, <1>6, <1>7, <1>19, <1>20, <1>21, <1>22, <1>31, <1>32, <1>33, <1>34, <1>35, WorkingNext

(* The new item is in its place, and the old one or nothing is to be freed.  *)
LEMMA ReplaceDone ==
  ASSUME Now, Control, Ready, pc = "replace", pc' = "implode", UNCHANGED <<stk, valu, frames, r, unseen>>, Now', TodoOK',
         NEW a \in All, NEW x \in All, NEW d \in All, a = r.a, x = r.x, d = r.addr, Works(a, x, d),
         \A y \in All : y # a => AsBefore(y), kind(a)' = kind(a), DOMAIN items(a)' = DOMAIN items(a),
         \A y \in All : y # x => refcnt(y)' = refcnt(y),
         kind(a) = "atype" => \A j \in DOMAIN items(a)' : items(a)'[j] \in All,
         r.op = "insert" /\ kind(a) = "atype" => \A j \in DOMAIN items(a)' : items(a)'[j] = d => d = x,
         NEW P \in SUBSET All, Within(P)', P \cap Locals = {}, (Simple(d) \/ Lasting(d, P \cup {a}))'
  PROVE  IInv'
<1>1. /\ todo = <<>> /\ frames = <<>> /\ Registers
      /\ \A w \in All : kind(w) = "atype" => \A j \in DOMAIN items(w) : items(w)[j] \in All
      /\ \A w \in All : InUse(w) /\ refcnt(w) = 0 => w \in Locals
  BY Resting DEF Clearing
<1>2. pc \in Working /\ pc' \in Working BY DEF Working
<1>3. frames' = <<>> /\ r' = r /\ valu' = valu BY <1>1
<1>4. \A y \in All : kind(y)' = kind(y) /\ (InUse(y)' <=> InUse(y)) BY DEF AsBefore, InUse
<1>5. Outer' = Outer BY <1>3 DEF Outer
<1>6. Locals = Outer \cup {a, x, d} /\ Locals' = Locals BY <1>2, <1>3, <1>5 DEF Locals
<1>7. Registers' BY <1>1, <1>2, <1>3 DEF Registers
<1>8. GoneOK'
  <2>1. \A w \in All : kind(w)' = "atype" => \A j \in DOMAIN items(w)' : items(w)'[j] \in All
    BY <1>1, <1>4 DEF AsBefore
  <2> QED BY <2>1, NoGone DEF GoneOK
<1>9. ZeroOK'
  <2> SUFFICES ASSUME NEW w \in All, InUse(w)', refcnt(w)' = 0 PROVE w \in Locals' BY DEF ZeroOK
  <2>1. CASE w = x BY <1>6, <2>1
  <2>2. CASE w # x BY <1>1, <1>4, <1>6, <2>2
  <2> QED BY <2>1, <2>2
<1>10. \A w, y \in All : w # a => (RefersTo(w, y)' <=> RefersTo(w, y))
  BY <1>1, <1>3, ItemRefers, ItemRefersNext DEF AsBefore
<1>11. Works(a, x, d)'
  <2>1. InUse(a)' /\ InUse(x)' /\ InUse(d)' BY <1>4 DEF Works
  <2>2. kind(a)' \in {"ints", "atype"} /\ r'.i \in DOMAIN items(a)' BY <1>3 DEF Works
  <2>3. r'.changed => refcnt(a)' = 0 /\ a # x BY <1>3 DEF Works
  <2>4. \/ ByInsert' /\ (~r'.changed => a = valu'[r'.var])
        \/ \E p, first \in All : ByPlace(p, first)' /\ (~r'.changed => RefersTo(p, a)') /\ a # first
    <3>1. CASE ByInsert /\ (~r.changed => a = valu[r.var]) BY <1>3, <3>1 DEF ByInsert
    <3>2. ASSUME NEW p \in All, NEW first \in All, ByPlace(p, first), ~r.changed => RefersTo(p, a), a # first
          PROVE  ByPlace(p, first)' /\ (~r'.changed => RefersTo(p, a)')
      <4>1. /\ x # p /\ a # p /\ RefersTo(p, first) /\ InUse(p) /\ refcnt(p) = 0
            /\ (RefersTo(first, d) \/ (refcnt(d) = 0 /\ Simple(d)))
        BY <3>2 DEF ByPlace
      <4>2. refcnt(p)' = 0 /\ InUse(p)' /\ RefersTo(p, first)' BY <1>4, <1>10, <4>1
      <4>3. Simple(d) => Simple(d)' /\ refcnt(d)' = refcnt(d) BY <1>3, <1>4 DEF Simple
      <4>4. RefersTo(first, d)' \/ (refcnt(d)' = 0 /\ Simple(d)') BY <1>10, <3>2, <4>1, <4>3
      <4>5. \A e \in All : e = r'.addr => e = d BY <1>3
      <4>6. ByPlace(p, first)' BY <1>3, <3>2, <4>1, <4>2, <4>4, <4>5 DEF ByPlace
      <4> QED BY <1>3, <1>10, <3>2, <4>1, <4>6
    <3> QED BY <3>1, <3>2 DEF Works
  <2>5. r'.op = "insert" /\ kind(a)' = "atype" => \A j \in DOMAIN items(a)' : items(a)'[j] = d => d = x
    BY <1>3
  <2> QED BY <2>1, <2>2, <2>3, <2>4, <2>5 DEF Works
<1>12. Len(stk') = Depth' + (IF pc' \in {"pack", "unprotect"} THEN 1 ELSE 0)
  <2>1. InWorking BY <1>2 DEF Control
  <2> QED BY <1>3, <2>1 DEF InWorking, Depth
<1> QED BY <1>2, <1>3, <1>6, <1>7, <1>8, <1>9, <1>11, <1>12, WorkingNext

LEMMA ReplaceKeeps ==
  ASSUME Now, Control, Replace
  PROVE  IInv'
<1>1. /\ Ready /\ pc = "replace" /\ pc' = "implode" /\ UNCHANGED <<stk, valu, frames, r, unseen>>
      /\ IF kind(r.a) = "atype"
         THEN heap' = NewItem(heap) /\ todo' = <<Drop(items(r.a)[r.i])>>
         ELSE heap' = [heap EXCEPT ![r.a].items[r.i] = items(r.x)[1]] /\ UNCHANGED todo
  BY DEF Replace
<1>2. /\ todo = <<>> /\ frames = <<>> /\ Registers
      /\ \A w \in All : kind(w) = "atype" => \A j \in DOMAIN items(w) : items(w)[j] \in All
      /\ \A w \in All : InUse(w) /\ refcnt(w) = 0 => w \in Locals
  BY <1>1, Resting DEF Clearing
<1>3. pc \in Working BY <1>1 DEF Working
<1>4. PICK a, x, d \in All :
        /\ a = r.a /\ x = r.x /\ d = r.addr /\ Works(a, x, d)
        /\ Locals = Outer \cup {a, x, d}
        /\ Simple(d) \/ Lasting(d, {a})
  BY <1>3, WorkingNow
<1>5. PICK i, q : i = r.i /\ q = items(a) OBVIOUS
<1>6. Core(heap, stk, valu, <<>>, <<>>) /\ HeapOK(heap) BY <1>2 DEF Now, Core
<1>7. /\ InUse(a) /\ InUse(x) /\ InUse(d) /\ kind(a) \in {"ints", "atype"} /\ i \in DOMAIN q
      /\ r.changed => refcnt(a) = 0 /\ a # x
      /\ \/ ByInsert /\ (~r.changed => a = valu[r.var])
         \/ \E p, first \in All : ByPlace(p, first) /\ (~r.changed => RefersTo(p, a)) /\ a # first
      /\ kind(a) = "ints" => kind(x) = "int"
      /\ r.op = "insert" => \E S \in SUBSET All : Avoids(S, a, d)
  BY <1>1, <1>4, <1>5 DEF Works
<1>8. \A y \in All, w \in All : RefersTo(w, y) => refcnt(y) > 0
  <2> TAKE y \in All, w \in All
  <2> HAVE RefersTo(w, y)
  <2>1. \E u \in All : \E j \in DOMAIN heap[u].items : Has1(heap, frames, u, j) /\ heap[u].items[j] = y
    BY DEF RefersTo, items
  <2> QED BY <1>2, <1>6, <2>1, Referred DEF refcnt
<1>9. frames' = <<>> /\ r' = r /\ valu' = valu /\ stk' = stk /\ r.base \in Nat /\ r.changed \in BOOLEAN
  BY <1>1, <1>2 DEF Registers
<1>10. \A j \in DOMAIN stk : j <= r.base => j \in DOMAIN stk' /\ stk'[j] = stk[j] BY <1>9
<1>11. CASE kind(a) = "ints"
  <2>1. PICK n : n = items(x)[1] OBVIOUS
  <2>2. n \in Nums
    <3>1. items(x) \in Seq(Nums) /\ Len(items(x)) = 1 BY <1>7, <1>11, NowItems
    <3>2. PICK s : s = items(x) OBVIOUS
    <3>3. 1 \in 1 .. Len(s) /\ s \in Seq(Nums) BY SMTT(30), <3>1, <3>2
    <3>4. s[1] \in Nums BY <3>3, ElementOfSeq
    <3> QED BY <2>1, <3>2, <3>4
  <2> DEFINE e == With(heap, a, i, n)
  <2>3. heap' = e /\ todo' = <<>> BY <1>1, <1>2, <1>4, <1>5, <1>11, <2>1 DEF With
  <2>5. heap[a].kind = "ints" /\ i \in DOMAIN heap[a].items /\ heap[a].items = q BY <1>5, <1>7, <1>11 DEF kind, items
  <2>5a. /\ Core(e, stk, valu, <<>>, <<>>)
         /\ e[a] = [kind |-> "ints", items |-> [heap[a].items EXCEPT ![i] = n], refcnt |-> heap[a].refcnt]
         /\ \A y \in All : y # a => e[y] = heap[y]
    <3>1. Core(heap, stk, valu, <<>>, <<>>) BY <1>6
    <3>2. heap[a].kind = "ints" BY <2>5
    <3>3. i \in DOMAIN heap[a].items BY <2>5
    <3> QED BY <2>2, <3>1, <3>2, <3>3, CoreData
  <2> HIDE DEF e
  <2>4. PICK g : g = e /\ heap' = g /\ todo' = <<>> BY <2>3
  <2>6. /\ Core(g, stk, valu, <<>>, <<>>)
        /\ g[a] = [kind |-> "ints", items |-> [heap[a].items EXCEPT ![i] = n], refcnt |-> heap[a].refcnt]
        /\ \A y \in All : y # a => g[y] = heap[y]
    BY <2>4, <2>5a
  <2>7. /\ kind(a)' = "ints" /\ items(a)' = [q EXCEPT ![i] = n] /\ refcnt(a)' = refcnt(a)
        /\ \A y \in All : y # a => AsBefore(y) /\ refcnt(y)' = refcnt(y)
    BY <2>4, <2>5, <2>6 DEF AsBefore, kind, items, refcnt
  <2>8. DOMAIN items(a)' = DOMAIN items(a)
    <3>1. PICK q2 : q2 = [q EXCEPT ![i] = n] OBVIOUS
    <3>2. DOMAIN q2 = DOMAIN q BY <3>1
    <3> QED BY <1>5, <2>7, <3>1, <3>2
  <2>9. Now' BY <1>9, <2>4, <2>6 DEF Now
  <2>10. TodoOK' /\ Waiting' = {} BY <1>9, <2>4, TodoNone
  <2>11. Within({})'
    <3>1. Framed(frames)' = {} BY <1>9 DEF Framed
    <3> QED BY <2>10, <3>1 DEF Within
  <2>12. (Simple(d) \/ Lasting(d, {} \cup {a}))'
    <3>1. kind(d)' = kind(d) BY <1>11, <2>7 DEF AsBefore
    <3>2. Simple(d) => Simple(d)' BY <1>9, <3>1 DEF Simple
    <3>3. \A w \in All : w \notin {a} /\ RefersTo(w, d) => w \notin {a} /\ AsBefore(w) BY <2>7
    <3>4. Lasting(d, {a}) => Lasting(d, {a})' BY <1>2, <1>9, <1>10, <3>3, LastingKept
    <3>5. {} \cup {a} = {a} OBVIOUS
    <3> QED BY <1>4, <3>2, <3>4, <3>5
  <2>13. {} \cap Locals = {} /\ {} \in SUBSET All OBVIOUS
  <2>14. kind(a) # "atype" /\ kind(a)' = kind(a) BY <1>11, <2>7
  <2> QED BY <1>1, <1>4, <2>7, <2>8, <2>9, <2>10, <2>11, <2>12, <2>13, <2>14, ReplaceDone
<1>12. CASE kind(a) = "atype"
  <2>1. PICK old \in All : old = q[i] BY <1>2, <1>5, <1>7, <1>12
  <2> DEFINE e == With(Incr(heap, x), a, i, x)
  <2>2. heap' = e /\ todo' = <<Drop(old)>>
    <3>1. NewItem(heap) = e BY <1>4, <1>5 DEF NewItem, With
    <3> QED BY <1>1, <1>4, <1>5, <1>12, <2>1, <3>1
  <2>4. heap[a].kind = "atype" /\ i \in DOMAIN heap[a].items /\ old = heap[a].items[i] /\ heap[a].items[i] # gone /\ heap[x].kind # "free"
    BY <1>5, <1>7, <1>12, <2>1, NoGone DEF kind, items, InUse
  <2>4a. /\ Core(e, stk, valu, <<Drop(heap[a].items[i])>>, <<>>)
         /\ e[a].items = [heap[a].items EXCEPT ![i] = x]
         /\ \A y \in All : e[y].kind = heap[y].kind /\ e[y].refcnt = heap[y].refcnt + One(y = x)
         /\ \A y \in All : y # a => e[y].items = heap[y].items
    <3>1. Core(heap, stk, valu, <<>>, <<>>) BY <1>6
    <3>2. heap[a].kind = "atype" BY <2>4
    <3>3. i \in DOMAIN heap[a].items BY <2>4
    <3>4. heap[a].items[i] # gone BY <2>4
    <3>5. heap[x].kind # "free" BY <2>4
    <3> QED BY <3>1, <3>2, <3>3, <3>4, <3>5, CoreReplace
  <2> HIDE DEF e
  <2>3. PICK g : g = e /\ heap' = g /\ todo' = <<Drop(old)>> BY <2>2
  <2>5. /\ Core(g, stk, valu, <<Drop(old)>>, <<>>)
        /\ g[a].items = [heap[a].items EXCEPT ![i] = x]
        /\ \A y \in All : g[y].kind = heap[y].kind /\ g[y].refcnt = heap[y].refcnt + One(y = x)
        /\ \A y \in All : y # a => g[y].items = heap[y].items
    BY <2>3, <2>4, <2>4a
  <2>6. /\ items(a)' = [q EXCEPT ![i] = x] /\ \A y \in All : kind(y)' = kind(y) /\ refcnt(y)' = refcnt(y) + One(y = x)
        /\ \A y \in All : y # a => AsBefore(y)
    BY <1>5, <2>3, <2>5 DEF AsBefore, kind, items, refcnt
  <2>6a. \A y \in All : y # a => AsBefore(y) BY <2>6
  <2>6b. UNCHANGED <<stk, valu, frames, r, unseen>> /\ Ready /\ pc = "replace" /\ pc' = "implode" BY <1>1
  <2>7. \A y \in All : y # x => refcnt(y)' = refcnt(y)
    <3> TAKE y \in All
    <3>1. refcnt(y) \in Nat BY NowCounts
    <3> QED BY <2>6, <3>1 DEF One
  <2>8. PICK q2 : q2 = items(a)' OBVIOUS
  <2>9. DOMAIN q2 = DOMAIN q /\ q2[i] = x /\ \A j \in DOMAIN q : j # i => q2[j] = q[j] BY <1>7, <2>6, <2>8
  <2>10. \A j \in DOMAIN q : q[j] \in All BY <1>2, <1>5, <1>12
  <2>11. \A j \in DOMAIN q2 : q2[j] \in All BY <2>9, <2>10
  <2>12. Now' BY <1>9, <2>3, <2>4, <2>5 DEF Now
  <2>13. TodoOK' /\ Waiting' = {old} BY <1>9, <2>3, TodoDrop
  <2>14. Framed(frames)' = {} BY <1>9 DEF Framed
  <2>15. \A w, y \in All : w # a => (RefersTo(w, y)' <=> RefersTo(w, y))
    BY <1>2, <1>9, <2>6, ItemRefers, ItemRefersNext DEF AsBefore
  <2>16. RefersTo(a, x)' /\ RefersTo(a, old)
    <3>1. kind(a)' = "atype" /\ x # gone /\ i \in DOMAIN q2 BY <1>7, <1>12, <2>6, <2>9, NoGone
    <3>2. RefersTo(a, x)' BY <1>9, <2>8, <2>9, <3>1, ItemRefersNext
    <3>3. RefersTo(a, old) BY <1>2, <1>5, <1>7, <1>12, <2>1, <2>4, ItemRefers
    <3> QED BY <3>2, <3>3
  <2>17. \A P : \A w, y \in All : w \notin P /\ RefersTo(w, y)' => Strong(y, P)' BY DEF Strong, Firm
  <2>18. /\ DOMAIN items(a)' = DOMAIN items(a) /\ kind(a)' = kind(a)
         /\ kind(a) = "atype" => \A j \in DOMAIN items(a)' : items(a)'[j] \in All
    BY <1>5, <2>6, <2>8, <2>9, <2>11
  <2>19. CASE ByInsert /\ (~r.changed => a = valu[r.var])
    <3>1. r.op = "insert" /\ r.var \in Vars /\ Outer = {} BY <2>19 DEF ByInsert, Outer
    <3>2. PICK S \in SUBSET All : Avoids(S, a, d) BY <1>7, <3>1
    <3>3. /\ \A y \in S : kind(y) = "atype" => \A j \in DOMAIN items(y) : items(y)[j] \in S
          /\ d \notin S /\ \A j \in DOMAIN q : q[j] \in S
      BY <1>5, <1>12, <3>2 DEF Avoids, ClosedUnderItems
    <3>4. PICK P \in SUBSET All : P = S \ {a, x} OBVIOUS
    <3>5. P \cap Locals = {} /\ a \notin P BY <1>4, <3>1, <3>3, <3>4
    <3>6. Strong(x, P)' BY <2>16, <2>17, <3>5
    <3>7. \A w \in All : RefersTo(w, a) => Strong(a, P)'
      <4> SUFFICES ASSUME NEW w \in All, RefersTo(w, a) PROVE Strong(a, P)' OBVIOUS
      <4>1. ~r.changed BY <1>7, <1>8
      <4>2. \E v \in Vars : valu'[v] = a BY <1>9, <2>19, <3>1, <4>1
      <4> QED BY <4>2 DEF Strong, Firm
    <3>8. \A w \in S, y \in All : RefersTo(w, y) => y \in S
      <4> SUFFICES ASSUME NEW w \in S, NEW y \in All, RefersTo(w, y) PROVE y \in S OBVIOUS
      <4>1. w \in All /\ kind(w) = "atype" /\ \E j \in DOMAIN items(w) : items(w)[j] = y BY <1>2, ItemRefers
      <4> QED BY <3>3, <4>1
    <3>9. Within(P)'
      <4>1. old \in P \/ Strong(old, P)'
        <5>1. old \in S BY <1>7, <2>1, <3>3
        <5> QED BY <2>16, <3>4, <3>6, <3>7, <5>1
      <4>2. ASSUME NEW w \in P, NEW y \in All, RefersTo(w, y)' PROVE y \in P \/ Strong(y, P)'
        <5>1. w # a /\ w \in S /\ w \in All BY <3>4
        <5>2. RefersTo(w, y) BY <2>15, <4>2, <5>1
        <5>3. y \in S BY <3>8, <5>1, <5>2
        <5> QED BY <3>4, <3>6, <3>7, <5>1, <5>2, <5>3
      <4> QED BY <2>13, <2>14, <4>1, <4>2 DEF Within
    <3>10. (Simple(d) \/ Lasting(d, P \cup {a}))'
      <4>1. Simple(d) => Simple(d)' BY <1>9, <2>6 DEF Simple
      <4>2. \A w \in All : w \notin {a} /\ RefersTo(w, d) => w \notin P \cup {a} /\ AsBefore(w) BY <2>6, <3>3, <3>4, <3>8
      <4>3. Lasting(d, {a}) => Lasting(d, P \cup {a})' BY <1>2, <1>9, <1>10, <4>2, LastingKept
      <4> QED BY <1>4, <4>1, <4>3
    <3>11. r.op = "insert" /\ kind(a) = "atype" => \A j \in DOMAIN items(a)' : items(a)'[j] = d => d = x
      <4>1. \A j \in DOMAIN q2 : q2[j] = d => d = x BY <2>9, <3>3
      <4> QED BY <2>8, <4>1
    <3> QED BY <1>4, <2>6a, <2>6b, <2>7, <2>12, <2>13, <2>18, <3>5, <3>9, <3>10, <3>11, ReplaceDone
  <2>20. ASSUME NEW p \in All, NEW first \in All, ByPlace(p, first), ~r.changed => RefersTo(p, a), a # first
         PROVE  IInv'
    <3>1. /\ r.op # "insert" /\ r.outer = <<Free(first), Free(p)>> /\ refcnt(p) = 0 /\ RefersTo(p, first)
          /\ a # p /\ x # p /\ (RefersTo(first, d) \/ (refcnt(d) = 0 /\ Simple(d)))
      BY <1>4, <2>20 DEF ByPlace
    <3>2. Outer = {first, p} BY <3>1, OuterTwo
    <3>3. PICK P \in SUBSET All : P = All \ {first, p, a, x, d} OBVIOUS
    <3>4. P \cap Locals = {} BY <1>4, <3>2, <3>3
    <3>5. first \notin P \cup {a} /\ p \notin P \cup {a} /\ a \notin P BY <2>20, <3>1, <3>3
    <3>6. RefersTo(p, first)' BY <2>15, <3>1
    <3>7. Strong(x, P)' /\ Strong(first, P)' BY <2>16, <2>17, <3>5, <3>6
    <3>8. ASSUME NEW w \in All, NEW y \in All \ P, RefersTo(w, y) PROVE Strong(y, P)'
      <4>1. refcnt(y) > 0 BY <1>8, <3>8
      <4>2. y \in {first, x, a, d} BY <3>1, <3>3, <4>1
      <4>3. CASE y = a
        <5>1. ~r.changed BY <1>7, <4>1, <4>3
        <5>2. RefersTo(p, a)' BY <2>15, <2>20, <3>1, <5>1
        <5> QED BY <2>17, <3>5, <4>3, <5>2
      <4>4. CASE y = d
        <5>1. RefersTo(first, d)' BY <2>15, <2>20, <3>1, <4>1, <4>4
        <5> QED BY <2>17, <3>5, <4>4, <5>1
      <4> QED BY <3>7, <4>2, <4>3, <4>4
    <3>9. Within(P)'
      <4>1. old \in P \/ Strong(old, P)' BY <2>16, <3>8
      <4>2. ASSUME NEW w \in P, NEW y \in All, RefersTo(w, y)' PROVE y \in P \/ Strong(y, P)'
        <5>1. w # a BY <3>5
        <5>2. RefersTo(w, y) BY <2>15, <4>2, <5>1
        <5> QED BY <3>8, <5>2
      <4> QED BY <2>13, <2>14, <4>1, <4>2 DEF Within
    <3>10. (Simple(d) \/ Lasting(d, P \cup {a}))'
      <4>1. Simple(d) => Simple(d)' BY <1>9, <2>6 DEF Simple
      <4>2. RefersTo(first, d) => Lasting(d, P \cup {a})'
        <5>1. RefersTo(first, d) => RefersTo(first, d)' BY <2>15, <2>20
        <5> QED BY <3>5, <5>1 DEF Lasting, Firm
      <4> QED BY <3>1, <4>1, <4>2
    <3> QED BY <1>4, <2>6a, <2>6b, <2>7, <2>12, <2>13, <2>18, <3>1, <3>4, <3>9, <3>10, ReplaceDone
  <2> QED BY <1>7, <2>19, <2>20
<1> QED BY <1>7, <1>11, <1>12

(* At the start of an insertion the container and the address are counted.   *)
LEMMA BeginsIs ==
  ASSUME Now, frames = <<>>, Registers, \A w \in All : kind(w) = "atype" => \A j \in DOMAIN items(w) : items(w)[j] \in All,
         NEW a \in All, NEW x \in All, NEW d \in All, a = r.a, x = r.x, d = r.addr, Begins(a, x, d)
  PROVE  /\ refcnt(a) > 0 /\ Strong(a, {}) /\ (Simple(d) \/ Lasting(d, {}))
         /\ \A p, first \in All : ByPlace(p, first) /\ kind(p) = "atype" /\ items(p) = <<first, a>> => RefersTo(p, a)
<1>1. \A p, first \in All : ByPlace(p, first) /\ kind(p) = "atype" /\ items(p) = <<first, a>> => RefersTo(p, a)
  <2> TAKE p, first \in All
  <2> HAVE ByPlace(p, first) /\ kind(p) = "atype" /\ items(p) = <<first, a>>
  <2>1. PICK q : q = items(p) OBVIOUS
  <2>2. q = <<first, a>> BY <2>1
  <2>3. 2 \in DOMAIN q /\ q[2] = a BY <2>2
  <2> QED BY <2>1, <2>3, NoGone, ItemRefers
<1>2. Strong(a, {}) /\ (Simple(d) \/ Lasting(d, {}))
  <2>1. CASE ByInsert /\ a = valu[r.var] /\ Kept(d)
    <3>1. \E v \in Vars : valu[v] = a BY <2>1 DEF ByInsert
    <3>2. Strong(a, {}) BY <3>1 DEF Strong, Firm
    <3> QED BY <2>1, <3>2 DEF Kept
  <2>2. ASSUME NEW p \in All, NEW first \in All, ByPlace(p, first), kind(p) = "atype", items(p) = <<first, a>>
        PROVE  Strong(a, {}) /\ (Simple(d) \/ Lasting(d, {}))
    <3>1. RefersTo(p, a) BY <1>1, <2>2
    <3>2. RefersTo(first, d) \/ Simple(d) BY <2>2 DEF ByPlace
    <3>3. p \in All \ {} /\ first \in All \ {} OBVIOUS
    <3> QED BY <3>1, <3>2, <3>3 DEF Strong, Lasting, Firm
  <2> QED BY <2>1, <2>2 DEF Begins
<1>3. refcnt(a) > 0 BY <1>2, StrongIs
<1> QED BY <1>1, <1>2, <1>3

(* An insertion goes on with a new container z in the place of a.            *)
LEMMA NewContainer ==
  ASSUME Now, Control, Ready, pc = "place", r.i # 0, pc' = "replace", UNCHANGED <<stk, valu, frames, unseen>>, Now',
         NEW a \in All, NEW x \in All, NEW d \in All, a = r.a, x = r.x, d = r.addr, Begins(a, x, d),
         NEW z \in All, ~InUse(z), r' = [r EXCEPT !.a = z, !.changed = TRUE],
         \A y \in All : InUse(y) => AsBefore(y) /\ (refcnt(y)' = 0 <=> refcnt(y) = 0),
         \A y \in All : ~InUse(y) /\ InUse(y)' => y = z \/ (kind(y)' = "int" /\ refcnt(y)' > 0),
         kind(z)' \in {"ints", "atype"}, DOMAIN items(z)' = DOMAIN items(a), refcnt(z)' = 0,
         kind(z)' = "atype" => \A j \in DOMAIN items(z)' : items(z)'[j] \in All,
         kind(z)' = "ints" => kind(x) = "int",
         TodoOK', Waiting' \subseteq {a}, \A k \in DOMAIN todo' : ~todo'[k].drop,
         r.op = "insert" => \E S \in SUBSET All : Avoids(S, z, d)'
  PROVE  IInv'
<1>1. /\ todo = <<>> /\ frames = <<>> /\ Registers
      /\ \A w \in All : kind(w) = "atype" => \A j \in DOMAIN items(w) : items(w)[j] \in All
      /\ \A w \in All : InUse(w) /\ refcnt(w) = 0 => w \in Locals
  BY Resting DEF Clearing
<1>2. InPlace BY DEF Control
<1>3. /\ refcnt(a) > 0 /\ Strong(a, {}) /\ (Simple(d) \/ Lasting(d, {}))
      /\ \A p, first \in All : ByPlace(p, first) /\ kind(p) = "atype" /\ items(p) = <<first, a>> => RefersTo(p, a)
  BY <1>1, BeginsIs
<1>4. pc' \in Working BY DEF Working
<1>5. /\ Registers' /\ Outer' = Outer /\ Depth' = Depth
      /\ r'.op = r.op /\ r'.var = r.var /\ r'.base = r.base /\ r'.x = x /\ r'.outer = r.outer
      /\ r'.changed /\ r'.a = z /\ r'.addr = d /\ r'.protect = r.protect /\ r'.i = r.i
      /\ Locals' = Outer \cup {z, x, d}
  BY <1>1, <1>4, ContainerIs
<1>6. InUse(a) /\ InUse(x) /\ InUse(d) /\ r.i \in DOMAIN items(a) BY DEF Begins
<1>7. frames' = <<>> /\ valu' = valu /\ stk' = stk BY <1>1
<1>8. \A y \in All : InUse(y) => InUse(y)' /\ kind(y)' = kind(y) BY DEF AsBefore, InUse
<1>9. \A y \in All, w \in All : RefersTo(w, y) => w # z /\ RefersTo(w, y)'
  <2> SUFFICES ASSUME NEW y \in All, NEW w \in All, RefersTo(w, y) PROVE w # z /\ RefersTo(w, y)' OBVIOUS
  <2>1. InUse(w) BY ListsRefer DEF InUse
  <2> QED BY <1>1, <1>7, <2>1, RefersKept
<1>10. \A y \in All, w \in All : RefersTo(w, y) => refcnt(y) > 0 /\ InUse(y)
  <2> TAKE y \in All, w \in All
  <2> HAVE RefersTo(w, y)
  <2>1. \E u \in All : \E j \in DOMAIN heap[u].items : Has1(heap, frames, u, j) /\ heap[u].items[j] = y
    BY DEF RefersTo, items
  <2> QED BY <2>1, Referred DEF Now, refcnt, InUse, kind
<1>11. Strong(a, {})'
  <2>1. CASE ByInsert /\ a = valu[r.var]
    <3>1. \E v \in Vars : valu'[v] = a BY <1>7, <2>1 DEF ByInsert
    <3> QED BY <3>1 DEF Strong, Firm
  <2>2. ASSUME NEW p \in All, NEW first \in All, ByPlace(p, first), kind(p) = "atype", items(p) = <<first, a>>
        PROVE  Strong(a, {})'
    <3>1. RefersTo(p, a)' /\ p \in All \ {} BY <1>3, <1>9, <2>2
    <3> QED BY <3>1 DEF Strong, Firm
  <2> QED BY <2>1, <2>2 DEF Begins
<1>12. GoneOK'
  <2>1. ASSUME NEW w \in All, kind(w)' = "atype" PROVE \A j \in DOMAIN items(w)' : items(w)'[j] \in All
    <3>1. CASE InUse(w)
      <4>1. kind(w) = "atype" /\ items(w)' = items(w) BY <2>1, <3>1 DEF AsBefore
      <4> QED BY <1>1, <4>1
    <3>2. CASE ~InUse(w)
      <4>1. w = z BY <2>1, <3>2 DEF InUse
      <4> QED BY <2>1, <4>1
    <3> QED BY <3>1, <3>2
  <2> QED BY <2>1, NoGone DEF GoneOK
<1>13. ZeroOK'
  <2> SUFFICES ASSUME NEW w \in All, InUse(w)', refcnt(w)' = 0 PROVE w \in Locals' BY DEF ZeroOK
  <2>1. CASE w = z BY <1>5, <2>1
  <2>2. CASE w # z
    <3>1. InUse(w) BY <2>2
    <3>2. refcnt(w) = 0 /\ w # a BY <1>3, <3>1
    <3>3. Locals = Outer \cup {a, x, d} BY DEF Locals
    <3> QED BY <1>1, <1>5, <3>1, <3>2, <3>3
  <2> QED BY <2>1, <2>2
<1>14. Within({})'
  <2>1. Framed(frames)' = {} BY <1>7 DEF Framed
  <2> QED BY <1>11, <2>1 DEF Within
<1>15. (Simple(d) \/ Lasting(d, {} \cup {z}))'
  <2>1. Simple(d) => Simple(d)' BY <1>5, <1>6, <1>8 DEF Simple
  <2>2. \A w \in All : w \notin {} /\ RefersTo(w, d) => w \notin {} \cup {z} /\ AsBefore(w)
    BY <1>9, ListsRefer DEF InUse
  <2>3. r.base \in Nat BY <1>1 DEF Registers
  <2>4. \A j \in DOMAIN stk : j <= r.base => j \in DOMAIN stk' /\ stk'[j] = stk[j] BY <1>7
  <2>5. Lasting(d, {}) => Lasting(d, {} \cup {z})' BY <1>1, <1>5, <1>7, <2>2, <2>3, <2>4, LastingKept
  <2> QED BY <1>3, <2>1, <2>5
<1>16. Works(z, x, d)'
  <2>1. InUse(z)' /\ InUse(x)' /\ InUse(d)' BY <1>6, <1>8 DEF InUse
  <2>2. kind(z)' \in {"ints", "atype"} /\ r'.i \in DOMAIN items(z)' BY <1>5, <1>6
  <2>3. r'.changed => refcnt(z)' = 0 /\ z # x BY <1>6
  <2>4. ByInsert' \/ \E p, first \in All : ByPlace(p, first)' /\ z # first
    <3>1. CASE ByInsert BY <1>5, <3>1 DEF ByInsert
    <3>2. ASSUME NEW p \in All, NEW first \in All, ByPlace(p, first) PROVE ByPlace(p, first)' /\ z # first
      <4>1. /\ x # p /\ RefersTo(p, first) /\ InUse(p) /\ refcnt(p) = 0
            /\ (RefersTo(first, d) \/ (refcnt(d) = 0 /\ Simple(d)))
        BY <3>2 DEF ByPlace
      <4>2. refcnt(p)' = 0 /\ InUse(p)' /\ RefersTo(p, first)' /\ z # p /\ z # first BY <1>8, <1>9, <1>10, <4>1
      <4>3. Simple(d) => Simple(d)' BY <1>5, <1>6, <1>8 DEF Simple
      <4>4. RefersTo(first, d)' \/ (refcnt(d)' = 0 /\ Simple(d)') BY <1>6, <1>9, <4>1, <4>3
      <4>5. \A e \in All : e = r'.addr => e = d BY <1>5
      <4>6. ByPlace(p, first)' BY <1>5, <3>2, <4>1, <4>2, <4>4, <4>5 DEF ByPlace
      <4> QED BY <4>2, <4>6
    <3> QED BY <3>1, <3>2 DEF Begins
  <2>5. /\ frames' = <<>> /\ (\A k \in DOMAIN todo' : ~todo'[k].drop) /\ \A y \in Waiting' : Strong(y, {})'
        /\ kind(z)' = "ints" => kind(x)' = "int"
        /\ r'.op = "insert" => \E S \in SUBSET All : Avoids(S, z, d)'
    BY <1>5, <1>6, <1>7, <1>8, <1>11
  <2> QED BY <1>5, <2>1, <2>2, <2>3, <2>4, <2>5 DEF Works
<1>17. Len(stk') = Depth' + (IF pc' \in {"pack", "unprotect"} THEN 1 ELSE 0)
  <2>1. Len(stk) = Depth BY <1>2 DEF InPlace
  <2>2. r.base \in Nat BY <1>1 DEF Registers
  <2>3. Depth \in Nat BY <2>2 DEF Depth
  <2> QED BY <1>5, <1>7, <2>1, <2>3
<1>18. {} \in SUBSET All /\ {} \cap Locals' = {} OBVIOUS
<1> QED BY <1>4, <1>5, <1>12, <1>13, <1>14, <1>15, <1>16, <1>17, <1>18, WorkingNext

(* explode, up to k items.                                                   *)
LEMMA ExplodedIs ==
  ASSUME Now, todo = <<>>, frames = <<>>, NEW a \in All, a = r.a, kind(a) = "ints", NEW q, q = items(a),
         NEW k \in Nat, k <= Len(q), HasRoom(k + 1), NEW s, s = Fresh(k + 1), NEW g, g = Exploded(k, s), NEW z, z = s[1]
  PROVE  /\ Core(g, stk, valu, <<>>, <<>>)
         /\ z \in All /\ ~InUse(z) /\ g[z].kind = "atype" /\ g[z].refcnt = 0 /\ DOMAIN g[z].items = DOMAIN q
         /\ \A j \in DOMAIN q : /\ j <= k => g[z].items[j] \in All /\ ~InUse(g[z].items[j])
                                /\ j > k => g[z].items[j] = gone
         /\ \A y \in All : InUse(y) => g[y] = heap[y]
         /\ \A y \in All : ~InUse(y) /\ g[y].kind # "free" => y = z \/ (g[y].kind = "int" /\ g[y].refcnt = 1)
         /\ \A y \in All : (\E j \in 1 .. k : y = g[z].items[j]) => g[y].kind = "int"
<1>1. s \in [1 .. k + 1 -> Unused] /\ \A i, j \in 1 .. k + 1 : s[i] = s[j] => i = j BY FreshIs
<1>2. \A j \in 1 .. k + 1 : s[j] \in All /\ ~InUse(s[j]) BY <1>1 DEF Unused, All
<1>3. 1 \in 1 .. k + 1 /\ \A j \in 1 .. k : j + 1 \in 1 .. k + 1 /\ j + 1 # 1 OBVIOUS
<1>4. z \in All /\ ~InUse(z) /\ \A j \in 1 .. k : s[j + 1] \in All /\ ~InUse(s[j + 1]) /\ s[j + 1] # z
  BY <1>1, <1>2, <1>3
<1>5. \A i, j \in 1 .. k : s[i + 1] = s[j + 1] => i = j
  <2> TAKE i, j \in 1 .. k
  <2> HAVE s[i + 1] = s[j + 1]
  <2>1. i + 1 = j + 1 BY <1>1, <1>3
  <2> QED BY <2>1
<1>6. q \in Seq(Nums) /\ Len(q) <= MaxItems BY NowItems
<1>7. PICK n \in Nat : n = Len(q) /\ DOMAIN q = 1 .. n BY <1>6
<1>8. PICK its : its = [j \in 1 .. n |-> IF j <= k THEN s[j + 1] ELSE gone] OBVIOUS
<1>9. /\ its \in Seq(All \cup {gone}) /\ Len(its) = n /\ DOMAIN its = 1 .. n
      /\ \A j \in 1 .. n : (j <= k => j \in 1 .. k /\ its[j] = s[j + 1]) /\ (j > k => its[j] = gone)
      /\ \A j \in 1 .. k : j \in 1 .. n /\ its[j] = s[j + 1]
  <2>1. \A j \in 1 .. n : j <= k => j \in 1 .. k OBVIOUS
  <2>2. \A j \in 1 .. n : its[j] \in All \cup {gone} BY <1>4, <1>8, <2>1
  <2>3. its \in [1 .. n -> All \cup {gone}] BY <1>8, <2>2
  <2>4. its \in Seq(All \cup {gone}) /\ Len(its) = n /\ DOMAIN its = 1 .. n BY <2>3
  <2>5. \A j \in 1 .. k : j \in 1 .. n /\ j <= k BY <1>7
  <2>6. \A j \in 1 .. n : (j <= k => its[j] = s[j + 1]) /\ (j > k => its[j] = gone) BY <1>8
  <2>7. \A j \in 1 .. k : its[j] = s[j + 1] BY <2>5, <2>6
  <2> QED BY <2>1, <2>4, <2>5, <2>6, <2>7
<1>10. g = [y \in All |->
              IF y = z THEN [kind |-> "atype", refcnt |-> 0, items |-> its]
              ELSE IF \E j \in 1 .. k : y = s[j + 1]
              THEN [kind |-> "int", refcnt |-> 1, items |-> <<q[CHOOSE j \in 1 .. k : y = s[j + 1]]>>]
              ELSE heap[y]]
  <2>1. tally(r.a) = n BY <1>7 DEF tally
  <2> QED BY <1>8, <2>1 DEF Exploded
<1>11. g[z] = [kind |-> "atype", refcnt |-> 0, items |-> its] BY <1>4, <1>10
<1>12. \A y \in All : (\E j \in 1 .. k : y = s[j + 1]) =>
         \E m \in Nums : g[y] = [kind |-> "int", refcnt |-> 1, items |-> <<m>>]
  <2> TAKE y \in All
  <2> HAVE \E j \in 1 .. k : y = s[j + 1]
  <2>1. PICK i : i = CHOOSE j \in 1 .. k : y = s[j + 1] OBVIOUS
  <2>2. i \in 1 .. k BY <2>1
  <2>3. i \in 1 .. Len(q) BY <1>7, <2>2
  <2>4. q[i] \in Nums BY <1>6, <2>3, ElementOfSeq
  <2>5. g[y] = [kind |-> "int", refcnt |-> 1, items |-> <<q[i]>>] BY <1>4, <1>10, <2>1
  <2> QED BY <2>4, <2>5
<1>13. \A y \in All : y # z /\ ~(\E j \in 1 .. k : y = s[j + 1]) => g[y] = heap[y] BY <1>10
<1>14. \A y \in All : (\E j \in DOMAIN its : its[j] = y) => \E j \in 1 .. k : y = s[j + 1]
  <2> TAKE y \in All
  <2> HAVE \E j \in DOMAIN its : its[j] = y
  <2>1. PICK j \in 1 .. n : its[j] = y BY <1>9
  <2>2. j <= k BY <1>9, <2>1, NoGone
  <2> QED BY <1>9, <2>1, <2>2
<1>15. \A y \in All : (\E j \in 1 .. k : y = s[j + 1]) => \E j \in DOMAIN its : its[j] = y BY <1>9
<1>16. Core(g, stk, valu, <<>>, <<>>)
  <2>1. Core(heap, stk, valu, <<>>, <<>>) BY DEF Now
  <2>2. heap[z].kind = "free" BY <1>4 DEF InUse, kind
  <2>3. \A i, j \in DOMAIN its : its[i] \in All /\ its[i] = its[j] => i = j
    <3> TAKE i, j \in DOMAIN its
    <3> HAVE its[i] \in All /\ its[i] = its[j]
    <3>1. i <= k /\ j <= k BY <1>9, NoGone
    <3> QED BY <1>5, <1>9, <3>1
  <2>4. \A j \in DOMAIN its : its[j] # z
    <3> TAKE j \in DOMAIN its
    <3>1. CASE j <= k BY <1>4, <1>9, <3>1
    <3>2. CASE j > k BY <1>4, <1>9, <3>2, NoGone
    <3> QED BY <1>9, <3>1, <3>2
  <2>5. \A y \in All : (\E j \in DOMAIN its : its[j] = y) =>
          heap[y].kind = "free" /\ \E m \in Nums : g[y] = [kind |-> "int", refcnt |-> 1, items |-> <<m>>]
    <3> TAKE y \in All
    <3> HAVE \E j \in DOMAIN its : its[j] = y
    <3>1. \E j \in 1 .. k : y = s[j + 1] BY <1>14
    <3>2. heap[y].kind = "free" BY <1>4, <3>1 DEF InUse, kind
    <3> QED BY <1>12, <3>1, <3>2
  <2>6. \A y \in All : y # z /\ ~(\E j \in DOMAIN its : its[j] = y) => g[y] = heap[y] BY <1>13, <1>15
  <2>7. g = [y \in All |-> g[y]]
    <3>1. DOMAIN g = All BY <1>10
    <3> QED BY <1>10, <3>1
  <2>8. Len(its) <= MaxItems BY <1>6, <1>7, <1>9
  <2>9. its \in Seq(All \cup {gone}) BY <1>9
  <2>10. AsExploded(heap, g, z, its) BY <1>11, <2>3, <2>4, <2>5, <2>6, <2>7 DEF AsExploded
  <2> QED BY <1>4, <2>1, <2>2, <2>8, <2>9, <2>10, CoreExploded
<1>17. \A y \in All : InUse(y) => g[y] = heap[y] BY <1>4, <1>13
<1>18. \A y \in All : (\E j \in 1 .. k : y = s[j + 1]) => g[y].kind = "int" /\ g[y].refcnt = 1
  <2> TAKE y \in All
  <2> HAVE \E j \in 1 .. k : y = s[j + 1]
  <2>1. PICK m \in Nums : g[y] = [kind |-> "int", refcnt |-> 1, items |-> <<m>>] BY <1>12
  <2> QED BY <2>1
<1>19. \A y \in All : ~InUse(y) /\ g[y].kind # "free" => y = z \/ (g[y].kind = "int" /\ g[y].refcnt = 1)
  <2> SUFFICES ASSUME NEW y \in All, ~InUse(y), g[y].kind # "free", y # z PROVE \E j \in 1 .. k : y = s[j + 1]
    BY <1>18
  <2> QED BY <1>13 DEF InUse, kind
<1>20. /\ g[z].kind = "atype" /\ g[z].refcnt = 0 /\ DOMAIN g[z].items = DOMAIN q
       /\ \A j \in DOMAIN q : /\ j <= k => g[z].items[j] \in All /\ ~InUse(g[z].items[j])
                              /\ j > k => g[z].items[j] = gone
       /\ \A y \in All : (\E j \in 1 .. k : y = g[z].items[j]) => g[y].kind = "int"
  <2>1. g[z].items = its /\ g[z].kind = "atype" /\ g[z].refcnt = 0 BY <1>11
  <2>2. \A j \in DOMAIN q : /\ j <= k => its[j] \in All /\ ~InUse(its[j])
                            /\ j > k => its[j] = gone
    BY <1>4, <1>7, <1>9
  <2>3. \A y \in All : (\E j \in 1 .. k : y = its[j]) => g[y].kind = "int" BY <1>9, <1>18
  <2> QED BY <1>7, <1>9, <2>1, <2>2, <2>3
<1> QED BY <1>4, <1>16, <1>17, <1>19, <1>20

(* Unshare of a list of data that is to get another item.                    *)
LEMMA ExplodeKeeps ==
  ASSUME Now, Control, Unshare, Explodes
  PROVE  IInv'
<1>1. /\ Ready /\ pc = "place" /\ r.i # 0 /\ pc' = "replace" /\ UNCHANGED <<stk, valu, frames, unseen>>
  BY DEF Unshare, Placing
<1>2. todo = <<>> /\ frames = <<>> /\ Registers BY <1>1, Resting
<1>3. InPlace BY <1>1 DEF Control
<1>4. PICK a, x, d \in All : At(a, x, d) BY <1>3 DEF InPlace, At
<1>5. a = r.a /\ x = r.x /\ d = r.addr /\ Begins(a, x, d) BY <1>3, <1>4 DEF InPlace, At
<1>6. kind(a) = "ints" /\ InUse(a) /\ InUse(d) BY <1>5 DEF Explodes, Begins
<1>7. PICK q : q = items(a) OBVIOUS
<1>8. q \in Seq(Nums) BY <1>6, <1>7, NowItems
<1>9. PICK n : n = Len(q) OBVIOUS
<1>10. n \in Nat /\ n <= Len(q) /\ DOMAIN q = 1 .. n BY <1>8, <1>9
<1>11. tally(r.a) = n BY <1>5, <1>7, <1>9 DEF tally
<1>12. PICK s : s = Fresh(n + 1) OBVIOUS
<1>13. PICK z : z = s[1] OBVIOUS
<1>14. PICK g : g = Exploded(n, s) OBVIOUS
<1>15. HasRoom(n + 1) /\ heap' = g /\ r' = [r EXCEPT !.a = z, !.changed = TRUE] /\ todo' = <<Free(a)>>
  BY <1>5, <1>11, <1>12, <1>13, <1>14 DEF Unshare
<1>16. /\ Core(g, stk, valu, <<>>, <<>>)
       /\ z \in All /\ ~InUse(z) /\ g[z].kind = "atype" /\ g[z].refcnt = 0 /\ DOMAIN g[z].items = DOMAIN q
       /\ \A j \in DOMAIN q : /\ j <= n => g[z].items[j] \in All /\ ~InUse(g[z].items[j])
                              /\ j > n => g[z].items[j] = gone
       /\ \A y \in All : InUse(y) => g[y] = heap[y]
       /\ \A y \in All : ~InUse(y) /\ g[y].kind # "free" => y = z \/ (g[y].kind = "int" /\ g[y].refcnt = 1)
       /\ \A y \in All : (\E j \in 1 .. n : y = g[z].items[j]) => g[y].kind = "int"
  BY <1>2, <1>5, <1>6, <1>7, <1>10, <1>12, <1>13, <1>14, <1>15, ExplodedIs
<1>17. PICK its : its = g[z].items OBVIOUS
<1>18. kind(z)' = "atype" /\ refcnt(z)' = 0 /\ items(z)' = its /\ DOMAIN its = DOMAIN items(a)
  BY <1>7, <1>15, <1>16, <1>17 DEF kind, refcnt, items
<1>19. \A j \in DOMAIN its : its[j] \in All /\ ~InUse(its[j]) BY <1>7, <1>10, <1>16, <1>17, <1>18
<1>20. \A y \in All : InUse(y) => AsBefore(y) /\ refcnt(y)' = refcnt(y) /\ InUse(y)'
  BY <1>15, <1>16 DEF AsBefore, kind, items, refcnt, InUse
<1>21. \A y \in All : ~InUse(y) /\ InUse(y)' => y = z \/ (kind(y)' = "int" /\ refcnt(y)' > 0)
  BY <1>15, <1>16 DEF kind, refcnt, InUse
<1>22. /\ TodoOK' /\ (\A k \in DOMAIN todo' : ~todo'[k].drop) /\ Waiting' = {a} /\ todo' \in Seq(Frees)
  BY <1>1, <1>2, <1>6, <1>15, <1>20, TodoFree
<1>23. Now'
  <2>1. Core(g, stk, valu, todo', <<>>) BY <1>16, <1>22, CoreTodo
  <2> QED BY <1>1, <1>2, <1>15, <2>1 DEF Now
<1>24. \E S \in SUBSET All : Avoids(S, z, d)'
  <2>1. PICK S : S = {its[j] : j \in DOMAIN its} OBVIOUS
  <2>2. S \in SUBSET All /\ d \notin S BY <1>6, <1>19, <2>1
  <2>3. \A y \in S : kind(y)' = "int"
    <3> TAKE y \in S
    <3>1. y \in All /\ \E j \in 1 .. n : y = its[j] BY <1>7, <1>10, <1>18, <2>1, <2>2
    <3> QED BY <1>15, <1>16, <1>17, <3>1 DEF kind
  <2>4. \A j \in DOMAIN its : its[j] \in S BY <2>1
  <2>5. ClosedUnderItems(S)' BY <2>3 DEF ClosedUnderItems
  <2> QED BY <1>18, <2>2, <2>4, <2>5 DEF Avoids
<1>25. \A y \in All : InUse(y) => AsBefore(y) /\ (refcnt(y)' = 0 <=> refcnt(y) = 0) BY <1>20
<1>26. kind(z)' \in {"ints", "atype"} /\ DOMAIN items(z)' = DOMAIN items(a) /\ refcnt(z)' = 0
       /\ (kind(z)' = "atype" => \A j \in DOMAIN items(z)' : items(z)'[j] \in All)
       /\ (kind(z)' = "ints" => kind(x) = "int")
  BY <1>18, <1>19
<1>27. Waiting' \subseteq {a} BY <1>22
<1> QED BY <1>1, <1>5, <1>15, <1>16, <1>21, <1>22, <1>23, <1>24, <1>25, <1>26, <1>27, NewContainer

(* The copy z of an array a.                                                 *)
LEMMA CopyIs ==
  ASSUME Now, todo = <<>>, frames = <<>>, NEW a \in All, kind(a) \in {"ints", "atype"},
         \A j \in DOMAIN items(a) : kind(a) = "atype" => items(a)[j] \in All,
         NEW z \in All, ~InUse(z), NEW g, g = Copy(a, z)
  PROVE  /\ Core(g, stk, valu, <<>>, <<>>)
         /\ g[z].kind = kind(a) /\ g[z].items = items(a) /\ g[z].refcnt = 0
         /\ \A y \in All : y # z => g[y].kind = kind(y) /\ g[y].items = items(y)
                                    /\ (g[y].refcnt = 0 <=> refcnt(y) = 0)
<1>1. Core(heap, stk, valu, <<>>, <<>>) /\ heap[z].kind = "free" BY DEF Now, InUse, kind
<1>2. CASE kind(a) = "ints"
  <2>1. PICK its : its = items(a) OBVIOUS
  <2>2. its \in Seq(Nums) /\ Len(its) <= MaxItems BY <1>2, <2>1, NowItems
  <2>3. g = Made(heap, z, "ints", its) BY <1>2, <2>1 DEF Copy
  <2>4. /\ Core(g, stk, valu, <<>>, <<>>) /\ g[z] = [kind |-> "ints", items |-> its, refcnt |-> 0]
        /\ \A y \in All : y # z => g[y] = heap[y]
    BY <1>1, <2>2, <2>3, CorePacked
  <2>5. g[z].kind = "ints" /\ g[z].items = its /\ g[z].refcnt = 0 BY <2>4
  <2> QED BY <1>2, <2>1, <2>4, <2>5 DEF kind, items, refcnt
<1>3. CASE kind(a) = "atype"
  <2>1. PICK its : its = items(a) OBVIOUS
  <2>2. its \in Seq(All \cup {gone}) BY <1>3, <2>1, NowItems
  <2>3. g = Made(IncrAll(heap, its), z, "atype", its) BY <1>3, <2>1 DEF Copy
  <2>4. heap[a].kind = "atype" /\ its = heap[a].items BY <1>3, <2>1 DEF kind, items
  <2>5. /\ Core(g, stk, valu, <<>>, <<>>) /\ g[z] = [kind |-> "atype", items |-> its, refcnt |-> 0]
        /\ \A y \in All : y # z => g[y].kind = heap[y].kind /\ g[y].items = heap[y].items
                                   /\ g[y].refcnt = heap[y].refcnt + NS(its, y)
    BY <1>1, <2>3, <2>4, CoreCopy
  <2>6. g[z].kind = "atype" /\ g[z].items = its /\ g[z].refcnt = 0 BY <2>5
  <2>7. ASSUME NEW y \in All PROVE refcnt(y) \in Nat /\ NS(its, y) \in Nat /\ (NS(its, y) > 0 => refcnt(y) > 0)
    <3>1. refcnt(y) \in Nat BY NowCounts
    <3>2. NS(its, y) \in Nat /\ (NS(its, y) > 0 <=> \E j \in DOMAIN its : its[j] = y) BY <2>2, PlacesFinite
    <3>3. ASSUME NEW j \in DOMAIN its, its[j] = y PROVE refcnt(y) > 0
      <4>1. y # gone BY NoGone
      <4>2. Has1(heap, <<>>, a, j) /\ heap[a].items[j] = y /\ j \in DOMAIN heap[a].items
        BY <2>4, <3>3, <4>1 DEF Has1
      <4> QED BY <1>1, <4>2, Referred DEF refcnt
    <3> QED BY <3>1, <3>2, <3>3
  <2>8. \A y \in All : y # z => (g[y].refcnt = 0 <=> refcnt(y) = 0)
    <3> TAKE y \in All
    <3> HAVE y # z
    <3>1. g[y].refcnt = refcnt(y) + NS(its, y) BY <2>5 DEF refcnt
    <3> QED BY <2>7, <3>1
  <2> QED BY <1>3, <2>1, <2>5, <2>6, <2>8 DEF kind, items
<1> QED BY <1>2, <1>3

(* Unshare of an array with other references.                                *)
LEMMA CopyKeeps ==
  ASSUME Now, Control, Unshare, ~Explodes, Shared(r.a)
  PROVE  IInv'
<1>1. /\ Ready /\ pc = "place" /\ r.i # 0 /\ pc' = "replace" /\ UNCHANGED <<stk, valu, frames, unseen>>
  BY DEF Unshare, Placing
<1>2. /\ todo = <<>> /\ frames = <<>>
      /\ \A w \in All : kind(w) = "atype" => \A j \in DOMAIN items(w) : items(w)[j] \in All
  BY <1>1, Resting DEF Clearing
<1>3. InPlace BY <1>1 DEF Control
<1>4. PICK a, x, d \in All : At(a, x, d) BY <1>3 DEF InPlace, At
<1>5. a = r.a /\ x = r.x /\ d = r.addr /\ Begins(a, x, d) BY <1>3, <1>4 DEF InPlace, At
<1>6. kind(a) \in {"ints", "atype"} /\ InUse(a) /\ InUse(d) BY <1>1, <1>5 DEF Begins
<1>7. kind(a) = "ints" => kind(x) = "int" BY <1>5 DEF Explodes
<1>8. PICK z : z = Fresh(1)[1] OBVIOUS
<1>9. PICK g : g = Copy(a, z) OBVIOUS
<1>10. HasRoom(1) /\ heap' = g /\ r' = [r EXCEPT !.a = z, !.changed = TRUE] /\ todo' = <<>>
  BY <1>5, <1>8, <1>9 DEF Unshare
<1>11. z \in All /\ ~InUse(z)
  <2>1. z \in Unused BY <1>8, <1>10, FreshIs
  <2> QED BY <2>1 DEF Unused, All
<1>12. /\ Core(g, stk, valu, <<>>, <<>>)
       /\ g[z].kind = kind(a) /\ g[z].items = items(a) /\ g[z].refcnt = 0
       /\ \A y \in All : y # z => g[y].kind = kind(y) /\ g[y].items = items(y) /\ (g[y].refcnt = 0 <=> refcnt(y) = 0)
  BY <1>2, <1>6, <1>9, <1>11, CopyIs
<1>13. PICK its : its = items(a) OBVIOUS
<1>14. kind(z)' = kind(a) /\ refcnt(z)' = 0 /\ items(z)' = its
  BY <1>10, <1>12, <1>13 DEF kind, refcnt, items
<1>15. \A y \in All : y # z => AsBefore(y) /\ (refcnt(y)' = 0 <=> refcnt(y) = 0) /\ (InUse(y)' <=> InUse(y))
  BY <1>10, <1>12 DEF AsBefore, kind, items, refcnt, InUse
<1>16. TodoOK' /\ (\A k \in DOMAIN todo' : ~todo'[k].drop) /\ Waiting' = {} BY <1>1, <1>2, <1>10, TodoNone
<1>17. Now' BY <1>1, <1>2, <1>10, <1>12 DEF Now
<1>18. r.op = "insert" => \E S \in SUBSET All : Avoids(S, z, d)'
  <2> HAVE r.op = "insert"
  <2>1. ByInsert BY <1>5 DEF Begins, ByPlace
  <2>2. \A p, first \in All : ~ByPlace(p, first) BY DEF ByPlace
  <2>3. PICK S \in SUBSET All : ClosedUnderItems(S) /\ a \in S /\ d \notin S BY <1>1, <1>5, <2>2 DEF Begins
  <2>4. kind(a) = "atype" => \A j \in DOMAIN its : its[j] \in S BY <1>13, <2>3 DEF ClosedUnderItems
  <2>5. ClosedUnderItems(S)'
    <3> SUFFICES ASSUME NEW y \in S, kind(y)' = "atype" PROVE \A j \in DOMAIN items(y)' : items(y)'[j] \in S
      BY DEF ClosedUnderItems
    <3>1. CASE y = z BY <1>14, <2>4, <3>1
    <3>2. CASE y # z
      <4>1. kind(y) = "atype" /\ items(y)' = items(y) BY <1>15, <3>2 DEF AsBefore
      <4> QED BY <2>3, <4>1 DEF ClosedUnderItems
    <3> QED BY <3>1, <3>2
  <2> QED BY <1>14, <2>3, <2>4, <2>5 DEF Avoids
<1>19. /\ \A y \in All : InUse(y) => AsBefore(y) /\ (refcnt(y)' = 0 <=> refcnt(y) = 0)
       /\ \A y \in All : ~InUse(y) /\ InUse(y)' => y = z \/ (kind(y)' = "int" /\ refcnt(y)' > 0)
  BY <1>11, <1>15
<1>20. kind(z)' \in {"ints", "atype"} /\ DOMAIN items(z)' = DOMAIN items(a) /\ refcnt(z)' = 0
       /\ (kind(z)' = "atype" => \A j \in DOMAIN items(z)' : items(z)'[j] \in All)
       /\ (kind(z)' = "ints" => kind(x) = "int")
  BY <1>2, <1>6, <1>7, <1>13, <1>14
<1>21. Waiting' \subseteq {a} BY <1>16
<1> QED BY <1>1, <1>5, <1>10, <1>11, <1>16, <1>17, <1>18, <1>19, <1>20, <1>21, NewContainer

(* Unshare of an array that is updated in place.                             *)
LEMMA InPlaceKeeps ==
  ASSUME Now, Control, Unshare, ~Explodes, ~Shared(r.a)
  PROVE  IInv'
<1>1. /\ Ready /\ pc = "place" /\ r.i # 0 /\ pc' = "replace" /\ UNCHANGED <<heap, stk, valu, todo, frames, r, unseen>>
  BY DEF Unshare, Placing
<1>2. /\ todo = <<>> /\ frames = <<>> /\ Registers
      /\ \A w \in All : kind(w) = "atype" => \A j \in DOMAIN items(w) : items(w)[j] \in All
      /\ \A w \in All : InUse(w) /\ refcnt(w) = 0 => w \in Locals
  BY <1>1, Resting DEF Clearing
<1>3. InPlace BY <1>1 DEF Control
<1>4. PICK a, x, d \in All : At(a, x, d) BY <1>3 DEF InPlace, At
<1>5. a = r.a /\ x = r.x /\ d = r.addr /\ Begins(a, x, d) BY <1>3, <1>4 DEF InPlace, At
<1>6. kind(a) \in {"ints", "atype"} /\ r.i \in DOMAIN items(a) /\ InUse(a) /\ InUse(x) /\ InUse(d)
  BY <1>1, <1>5 DEF Begins
<1>7. kind(a) = "ints" => kind(x) = "int" BY <1>5 DEF Explodes
<1>8. refcnt(a) <= 1
  <2>1. refcnt(a) \in Nat BY NowCounts
  <2> QED BY <1>5, <2>1 DEF Shared
<1>9. /\ Strong(a, {})
      /\ \A p, first \in All : ByPlace(p, first) /\ kind(p) = "atype" /\ items(p) = <<first, a>> => RefersTo(p, a)
  BY <1>2, <1>5, BeginsIs
<1>10. \A p, first \in All : kind(p) = "atype" /\ items(p) = <<first, a>> => a # first
  <2> SUFFICES ASSUME NEW p \in All, NEW first \in All, kind(p) = "atype", items(p) = <<first, a>>, a = first PROVE FALSE
    OBVIOUS
  <2>1. Core(heap, stk, valu, <<>>, <<>>) BY <1>2 DEF Now
  <2>2. PICK q : q = items(p) OBVIOUS
  <2>3. q = <<a, a>> BY <2>2
  <2>4. q[1] = a /\ q[2] = a /\ 1 \in DOMAIN q /\ 2 \in DOMAIN q BY <2>3
  <2>5. heap[p].kind = "atype" /\ heap[p].items = q BY <2>2 DEF kind, items
  <2>6. Has1(heap, <<>>, p, 1) /\ Has1(heap, <<>>, p, 2) BY <2>4, <2>5, NoGone DEF Has1
  <2>7. HeapOK(heap) BY <2>1 DEF Core
  <2>8. 1 \in 1 .. MaxItems /\ 2 \in 1 .. MaxItems BY <2>4, <2>5, <2>7, HeapFacts
  <2>9. NL(heap, <<>>, a) >= 2 BY <2>4, <2>5, <2>6, <2>8, ListsTwo
  <2>10. /\ heap[a].refcnt = One(a = no_value) + NS(stk, a) + NV(valu, a) + NS(<<>>, Drop(a)) + NL(heap, <<>>, a)
         /\ NS(stk, a) \in Nat /\ NV(valu, a) \in Nat /\ NS(<<>>, Drop(a)) \in Nat /\ NL(heap, <<>>, a) \in Nat
    BY <2>1, CoreCounts
  <2>11. One(a = no_value) \in Nat BY DEF One
  <2> QED BY <1>8, <2>9, <2>10, <2>11 DEF refcnt
<1>11. /\ r.op = "insert" => \E S \in SUBSET All : Avoids(S, a, d)
       /\ Simple(d) \/ Lasting(d, {a})
  <2>1. CASE ByInsert /\ Kept(d)
    <3>1. \A p, first \in All : ~ByPlace(p, first) BY <2>1 DEF ByInsert, ByPlace
    <3>2. PICK S \in SUBSET All : ClosedUnderItems(S) /\ a \in S /\ d \notin S BY <1>1, <1>5, <3>1 DEF Begins
    <3>3. kind(a) = "atype" => \A j \in DOMAIN items(a) : items(a)[j] \in S BY <3>2 DEF ClosedUnderItems
    <3>4. Avoids(S, a, d) BY <3>2, <3>3 DEF Avoids
    <3>5. ~RefersTo(a, d)
      <4>1. RefersTo(a, d) => kind(a) = "atype" /\ \E j \in DOMAIN items(a) : items(a)[j] = d BY <1>2, ItemRefers
      <4> QED BY <3>2, <3>3, <4>1
    <3>6. Lasting(d, {}) => Lasting(d, {a}) BY <3>5 DEF Lasting, Firm
    <3> QED BY <2>1, <3>4, <3>6 DEF Kept
  <2>2. ASSUME NEW p \in All, NEW first \in All, ByPlace(p, first), kind(p) = "atype", items(p) = <<first, a>>
        PROVE  r.op # "insert" /\ (Simple(d) \/ Lasting(d, {a}))
    <3>1. first \in All \ {a} BY <1>10, <2>2
    <3>2. RefersTo(first, d) \/ Simple(d) BY <1>5, <2>2 DEF ByPlace
    <3>3. r.op # "insert" BY <2>2 DEF ByPlace
    <3> QED BY <3>1, <3>2, <3>3 DEF Lasting, Firm
  <2> QED BY <1>5, <2>1, <2>2 DEF Begins
<1>12. Works(a, x, d)'
  <2>1. InUse(a)' /\ InUse(x)' /\ InUse(d)' BY <1>1, <1>6 DEF InUse, kind
  <2>2. kind(a)' \in {"ints", "atype"} /\ r'.i \in DOMAIN items(a)' BY <1>1, <1>6 DEF kind, items
  <2>3. ~r'.changed BY <1>1, <1>3 DEF InPlace
  <2>4. \/ ByInsert' /\ a = valu'[r'.var]
        \/ \E p, first \in All : ByPlace(p, first)' /\ RefersTo(p, a)' /\ a # first
    <3>1. CASE ByInsert /\ a = valu[r.var] BY <1>1, <3>1 DEF ByInsert
    <3>2. ASSUME NEW p \in All, NEW first \in All, ByPlace(p, first), kind(p) = "atype", items(p) = <<first, a>>
          PROVE  ByPlace(p, first)' /\ RefersTo(p, a)' /\ a # first
      <4>1. RefersTo(p, a) /\ a # first BY <1>9, <1>10, <3>2
      <4>2. RefersTo(p, a)' BY <1>1, <4>1 DEF RefersTo, Has1, items
      <4>3. ByPlace(p, first)' BY <1>1, <3>2 DEF ByPlace, RefersTo, Has1, items, kind, refcnt, InUse, Simple
      <4> QED BY <4>1, <4>2, <4>3
    <3> QED BY <1>5, <3>1, <3>2 DEF Begins
  <2>5. /\ frames' = <<>> /\ (\A k \in DOMAIN todo' : ~todo'[k].drop) /\ \A y \in Waiting' : Strong(y, {})'
        /\ kind(a)' = "ints" => kind(x)' = "int"
    BY <1>1, <1>2, <1>7 DEF Waiting, kind
  <2>6. r'.op = "insert" => \E S \in SUBSET All : Avoids(S, a, d)'
    BY <1>1, <1>11 DEF Avoids, ClosedUnderItems, kind, items
  <2> QED BY <1>1, <2>1, <2>2, <2>3, <2>4, <2>5, <2>6 DEF Works
<1>13. (Simple(d) \/ Lasting(d, {} \cup {a}))'
  <2>1. {} \cup {a} = {a} OBVIOUS
  <2>2. Simple(d) => Simple(d)' BY <1>1 DEF Simple, kind
  <2>3. Lasting(d, {a}) => Lasting(d, {a})' BY <1>1 DEF Lasting, Firm, RefersTo, Has1, items
  <2> QED BY <1>11, <2>1, <2>2, <2>3
<1>14. Now' /\ Registers' /\ TodoOK'
  <2>1. Now' BY <1>1 DEF Now
  <2>2. Registers' BY <1>1, <1>2 DEF Registers, Working
  <2>3. TodoOK' BY <1>1, <1>2, TodoNone
  <2> QED BY <2>1, <2>2, <2>3
<1>15. GoneOK' BY <1>1, <1>2, NoGone DEF GoneOK, kind, items
<1>16. ZeroOK'
  <2>1. Locals' = Locals BY <1>1 DEF Locals, Outer, Working
  <2> QED BY <1>1, <1>2, <2>1 DEF ZeroOK, InUse, kind, refcnt
<1>17. Within({})'
  <2>1. Framed(frames)' = {} /\ Waiting' = {} BY <1>1, <1>2 DEF Framed, Waiting
  <2> QED BY <2>1 DEF Within
<1>18. Len(stk') = Depth' + (IF pc' \in {"pack", "unprotect"} THEN 1 ELSE 0)
  <2>1. Len(stk) = Depth BY <1>3 DEF InPlace
  <2>2. r.base \in Nat BY <1>2 DEF Registers
  <2>3. Depth \in Nat /\ Depth' = Depth BY <1>1, <2>2 DEF Depth
  <2> QED BY <1>1, <2>1, <2>3
<1>19. pc' \in Working /\ {} \in SUBSET All /\ {} \cap Locals' = {} BY <1>1 DEF Working
<1> QED BY <1>1, <1>5, <1>12, <1>13, <1>14, <1>15, <1>16, <1>17, <1>18, <1>19, WorkingNext

LEMMA UnshareKeeps ==
  ASSUME Now, Control, Unshare
  PROVE  IInv'
BY ExplodeKeeps, CopyKeeps, InPlaceKeeps

(* The cleanup.                                                              *)
LEMMA ClearingKept ==
  ASSUME Now', TodoOK', GoneOK', ZeroOK', unseen' \in SUBSET All, r' = NoLocals, pc' \in Clearing
  PROVE  IInv'
<1>1. Registers'
  <2>1. NoLocals.base \in Nat /\ NoLocals.i \in Nat /\ NoLocals.outer \in Seq(Frees)
        /\ NoLocals.changed \in BOOLEAN /\ NoLocals.protect \in BOOLEAN
    BY NoLocalsIs DEF NoLocals
  <2>2. NoLocals = [op |-> NoLocals.op, var |-> NoLocals.var, base |-> NoLocals.base, a |-> NoLocals.a, i |-> NoLocals.i,
                    x |-> NoLocals.x, addr |-> NoLocals.addr, outer |-> NoLocals.outer, changed |-> NoLocals.changed,
                    protect |-> NoLocals.protect, due |-> NoLocals.due]
    BY DEF NoLocals
  <2> QED BY <2>1, <2>2 DEF Registers
<1>2. pc' \notin Working \cup Ending \cup {"index", "place", "idle"} BY DEF Clearing, Working, Ending
<1>3. Control' BY <1>1, <1>2 DEF Control
<1> QED BY <1>3 DEF IInv, Now

LEMMA JumpKeeps ==
  ASSUME Now, Control, Jump
  PROVE  IInv'
<1>1. /\ Ready /\ heap' = heap /\ pc' = "clearstack" /\ r' = NoLocals /\ UNCHANGED <<stk, valu, todo, frames, unseen>>
      /\ pc \notin Clearing
  BY DEF Jump, JumpTo, Placing, Clearing
<1>2. /\ todo = <<>> /\ frames = <<>> /\ Registers
      /\ \A w \in All : kind(w) = "atype" => \A j \in DOMAIN items(w) : items(w)[j] \in All
  BY <1>1, Resting
<1>3. Now' BY <1>1 DEF Now
<1>4. TodoOK' BY <1>1, <1>2, TodoNone
<1>5. GoneOK' BY <1>1, <1>2, NoGone DEF GoneOK, kind, items
<1>6. ZeroOK' BY <1>1 DEF ZeroOK
<1>7. unseen' \in SUBSET All BY <1>1, <1>2 DEF Registers
<1> QED BY <1>1, <1>3, <1>4, <1>5, <1>6, <1>7, ClearingKept DEF Clearing

LEMMA ExplodeJumpKeeps ==
  ASSUME Now, Control, ExplodeJump
  PROVE  IInv'
<1>1. Ready /\ pc = "place" /\ r.i # 0 /\ Explodes BY DEF ExplodeJump, Placing
<1>2. /\ todo = <<>> /\ frames = <<>> /\ Registers
      /\ \A w \in All : kind(w) = "atype" => \A j \in DOMAIN items(w) : items(w)[j] \in All
  BY <1>1, Resting DEF Clearing
<1>3. InPlace BY <1>1 DEF Control
<1>4. PICK a \in All : a = r.a BY <1>3 DEF InPlace
<1>5. kind(a) = "ints" BY <1>1, <1>4 DEF Explodes
<1>6. PICK q : q = items(a) OBVIOUS
<1>7. q \in Seq(Nums) BY <1>5, <1>6, NowItems
<1>8. PICK n \in Nat : n = Len(q) BY <1>7
<1>9. tally(r.a) = n BY <1>4, <1>6, <1>8 DEF tally
<1>10. PICK k \in 0 .. n - 1 : HasRoom(k + 1) /\ JumpTo(Exploded(k, Fresh(k + 1))) BY <1>9 DEF ExplodeJump
<1>11. k \in Nat /\ k <= Len(q) BY <1>8
<1>12. PICK s : s = Fresh(k + 1) OBVIOUS
<1>13. PICK z : z = s[1] OBVIOUS
<1>14. PICK g : g = Exploded(k, s) OBVIOUS
<1>15. heap' = g /\ pc' = "clearstack" /\ r' = NoLocals /\ UNCHANGED <<stk, valu, todo, frames, unseen>>
  BY <1>10, <1>12, <1>14 DEF JumpTo
<1>16. /\ Core(g, stk, valu, <<>>, <<>>) /\ g[z].refcnt = 0
       /\ \A y \in All : InUse(y) => g[y] = heap[y]
       /\ \A y \in All : ~InUse(y) /\ g[y].kind # "free" => y = z \/ (g[y].kind = "int" /\ g[y].refcnt = 1)
  BY <1>2, <1>4, <1>5, <1>6, <1>10, <1>11, <1>12, <1>13, <1>14, ExplodedIs
<1>17. Now' BY <1>2, <1>15, <1>16 DEF Now
<1>18. TodoOK' BY <1>2, <1>15, TodoNone
<1>19. GoneOK'
  <2> SUFFICES ASSUME NEW w \in All, NEW j \in DOMAIN items(w)', kind(w)' = "atype", items(w)'[j] = gone
               PROVE  refcnt(w)' = 0
    BY <1>15 DEF GoneOK, Clearing
  <2>1. CASE InUse(w)
    <3>1. kind(w) = "atype" /\ items(w)' = items(w) BY <1>15, <1>16, <2>1 DEF kind, items
    <3> QED BY <1>2, <3>1, NoGone
  <2>2. CASE ~InUse(w)
    <3>1. w = z BY <1>15, <1>16, <2>2 DEF kind
    <3> QED BY <1>15, <1>16, <3>1 DEF refcnt
  <2> QED BY <2>1, <2>2
<1>20. ZeroOK' BY <1>15 DEF ZeroOK
<1>21. unseen' \in SUBSET All BY <1>2, <1>15 DEF Registers
<1> QED BY <1>15, <1>17, <1>18, <1>19, <1>20, <1>21, ClearingKept DEF Clearing

LEMMA ClearStackKeeps ==
  ASSUME Now, Control, ClearStack
  PROVE  IInv'
<1>1. Ready /\ pc = "clearstack" /\ UNCHANGED <<heap, valu, frames, r>> BY DEF ClearStack
<1>2. todo = <<>> /\ frames = <<>> /\ Registers BY <1>1, Resting
<1>3. GoneOK /\ r = NoLocals BY <1>1 DEF Control, Clearing
<1>4. CASE stk # <<>> /\ stk' = Below(1) /\ todo' = <<Drop(top)>> /\ UNCHANGED <<pc, unseen>>
  <2>1. Core(heap, stk, valu, <<>>, <<>>) BY <1>2 DEF Now
  <2>2. Core(heap, stk', valu, todo', <<>>) BY <1>4, <2>1, CorePopDrop DEF Below, top
  <2>3. Now' BY <1>1, <1>2, <2>2 DEF Now
  <2>4. TodoOK' BY <1>1, <1>2, <1>4, TodoDrop
  <2>5. GoneOK' BY <1>1, <1>3, <1>4 DEF GoneOK, kind, items, refcnt
  <2>6. ZeroOK' BY <1>1, <1>4 DEF ZeroOK
  <2>7. unseen' \in SUBSET All BY <1>2, <1>4 DEF Registers
  <2> QED BY <1>1, <1>3, <1>4, <2>3, <2>4, <2>5, <2>6, <2>7, ClearingKept DEF Clearing
<1>5. CASE stk = <<>> /\ pc' = "clearheap" /\ unseen' = All /\ UNCHANGED <<stk, todo>>
  <2>1. Now' BY <1>1, <1>5 DEF Now
  <2>2. TodoOK' BY <1>1, <1>2, <1>5, TodoNone
  <2>3. GoneOK' BY <1>1, <1>3, <1>5 DEF GoneOK, kind, items, refcnt, Clearing
  <2>4. ZeroOK' BY <1>5 DEF ZeroOK
  <2> QED BY <1>1, <1>3, <1>5, <2>1, <2>2, <2>3, <2>4, ClearingKept DEF Clearing
<1> QED BY <1>4, <1>5 DEF ClearStack

LEMMA ClearHeapKeeps ==
  ASSUME Now, Control, ClearHeap
  PROVE  IInv'
<1>1. Ready /\ pc = "clearheap" /\ UNCHANGED <<heap, stk, valu, frames, r>> BY DEF ClearHeap
<1>2. todo = <<>> /\ frames = <<>> /\ Registers BY <1>1, Resting
<1>3. GoneOK /\ ZeroOK /\ r = NoLocals BY <1>1 DEF Control, Clearing
<1>4. \A w \in All : InUse(w) /\ refcnt(w) = 0 => w \in Unreferenced
  <2> SUFFICES ASSUME NEW w \in All, InUse(w), refcnt(w) = 0 PROVE w \in unseen BY DEF Unreferenced
  <2>1. Framed(frames) = {} /\ ~ \E k \in DOMAIN todo : todo[k] = Free(w) BY <1>2 DEF Framed
  <2>2. Locals = {} BY <1>1, <1>3, NoLocalsIs DEF Locals, Outer, Working
  <2> QED BY <1>1, <1>3, <2>1, <2>2 DEF ZeroOK
<1>5. Core(heap, stk, valu, <<>>, <<>>) BY <1>2 DEF Now
<1>6. ASSUME NEW x \in Unreferenced, unseen' = unseen \ {x}, todo' = <<Free(x)>>, pc' = pc
      PROVE  IInv'
  <2>1. x \in All /\ InUse(x)' BY <1>1, <1>2, <1>6 DEF Unreferenced, Registers, InUse, kind
  <2>2. /\ TodoOK' /\ (\A k \in DOMAIN todo' : ~todo'[k].drop) /\ todo' \in Seq(Frees)
        /\ \E k \in DOMAIN todo' : todo'[k] = Free(x)
    BY <1>1, <1>2, <1>6, <2>1, TodoFree
  <2>3. Core(heap, stk, valu, todo', <<>>) BY <1>5, <2>2, CoreTodo
  <2>4. Now' BY <1>1, <1>2, <2>3 DEF Now
  <2>5. GoneOK' BY <1>1, <1>3, <1>6 DEF GoneOK, kind, items, refcnt
  <2>6. ZeroOK'
    <3> SUFFICES ASSUME NEW w \in All, InUse(w)', refcnt(w)' = 0
                 PROVE  w \in unseen' \/ \E k \in DOMAIN todo' : todo'[k] = Free(w)
      BY <1>1, <1>6 DEF ZeroOK
    <3>1. w \in Unreferenced BY <1>1, <1>4 DEF InUse, kind, refcnt
    <3> QED BY <1>6, <2>2, <3>1 DEF Unreferenced
  <2>7. unseen' \in SUBSET All BY <1>2, <1>6 DEF Registers
  <2>8. r' = NoLocals /\ pc' \in Clearing BY <1>1, <1>3, <1>6 DEF Clearing
  <2> QED BY <2>2, <2>4, <2>5, <2>6, <2>7, <2>8, ClearingKept
<1>7. CASE Unreferenced = {} /\ unseen' = {} /\ pc' = "idle" /\ todo' = todo
  <2>1. Now' BY <1>1, <1>7 DEF Now
  <2>2. TodoOK' BY <1>1, <1>2, <1>7, TodoNone
  <2>3. \A w \in All : InUse(w)' => refcnt(w)' # 0 BY <1>1, <1>4, <1>7 DEF InUse, kind, refcnt
  <2>4. \A w \in All : kind(w)' = "atype" => \A j \in DOMAIN items(w)' : items(w)'[j] # gone
    <3> SUFFICES ASSUME NEW w \in All, kind(w)' = "atype", NEW j \in DOMAIN items(w)', items(w)'[j] = gone PROVE FALSE
      OBVIOUS
    <3>1. refcnt(w) = 0 BY <1>1, <1>3 DEF GoneOK, kind, items
    <3>2. InUse(w) BY <1>1 DEF InUse, kind
    <3> QED BY <1>4, <1>7, <3>1, <3>2
  <2>5. unseen' \in SUBSET All BY <1>7
  <2> QED BY <1>1, <1>2, <1>3, <1>7, <2>1, <2>2, <2>3, <2>4, <2>5, IdleKept
<1> QED BY <1>6, <1>7 DEF ClearHeap

(* The initial state, a step of any kind, and none.                          *)
LEMMA InitIs == Init => IInv
<1> SUFFICES ASSUME Init PROVE IInv OBVIOUS
<1>1. /\ heap = [x \in All |-> IF x = no_value
                               THEN [kind |-> "phrase", items |-> <<no_value>>, refcnt |-> 1 + Cardinality(Vars)]
                               ELSE free]
      /\ stk = <<>> /\ valu = [v \in Vars |-> no_value] /\ todo = <<>> /\ frames = <<>>
      /\ pc = "idle" /\ r = NoLocals /\ unseen = {}
  BY DEF Init
<1>2. PICK c : c = Cardinality(Vars) OBVIOUS
<1>3. c \in Nat BY <1>2, RefCountConstants, FS_CardinalityType
<1>4. PICK u : u = <<no_value>> OBVIOUS
<1>5. no_value \in All BY DEF All
<1>6. u \in Seq(Words) /\ Len(u) = 1 BY <1>4, <1>5 DEF Words
<1>7. /\ kind(no_value) = "phrase" /\ items(no_value) = u /\ refcnt(no_value) = 1 + c
      /\ \A x \in All : x # no_value => kind(x) = "free" /\ items(x) = <<>> /\ refcnt(x) = 0
  BY <1>1, <1>2, <1>4, <1>5 DEF kind, items, refcnt, free
<1>8. HeapOK(heap)
  <2>1. MaxItems \in Nat \ {0} BY RefCountConstants
  <2>2. [kind |-> "phrase", items |-> u, refcnt |-> 1 + c] \in Blocks BY <1>3, <1>6 DEF Blocks, Kinds
  <2>3. free \in Blocks BY DEF free, Blocks, Kinds
  <2>4. heap = [x \in All |-> IF x = no_value THEN [kind |-> "phrase", items |-> u, refcnt |-> 1 + c] ELSE free]
    BY <1>1, <1>2, <1>4
  <2>5. heap \in [All -> Blocks] BY <2>2, <2>3, <2>4
  <2>6. Len(<<>>) = 0 OBVIOUS
  <2>7. \A x \in All :
          /\ Len(items(x)) <= MaxItems
          /\ kind(x) = "free" => refcnt(x) = 0
          /\ kind(x) \in {"int", "phrase"} => Len(items(x)) = 1
          /\ kind(x) \notin {"int", "ints", "atype"}
    <3> TAKE x \in All
    <3>1. CASE x = no_value
      <4>1. kind(x) = "phrase" /\ items(x) = u BY <1>7, <3>1
      <4> QED BY <1>6, <2>1, <4>1
    <3>2. CASE x # no_value
      <4>1. kind(x) = "free" /\ items(x) = <<>> /\ refcnt(x) = 0 BY <1>7, <3>2
      <4> QED BY <2>1, <2>6, <4>1
    <3> QED BY <3>1, <3>2
  <2> QED BY <2>5, <2>7 DEF HeapOK, kind, items, refcnt
<1>9. ASSUME NEW x \in All PROVE heap[x].refcnt = Total(heap, stk, valu, todo, frames, x)
  <2>1. NS(stk, x) = 0 /\ NS(todo, Drop(x)) = 0 BY <1>1, PlacesEmpty
  <2>2. NL(heap, frames, x) = 0
    <3>1. \A w \in All : heap[w].kind # "atype" BY <1>7 DEF kind
    <3>2. InLists(heap, frames, x) = {} BY <3>1 DEF InLists, Has1
    <3> QED BY <3>2, FS_EmptySet DEF NL
  <2>3. CASE x = no_value
    <3>1. InVars(valu, x) = Vars BY <1>1, <2>3 DEF InVars
    <3>2. NV(valu, x) = c BY <1>2, <3>1 DEF NV
    <3>3. One(x = no_value) = 1 BY <2>3 DEF One
    <3>4. Total(heap, stk, valu, todo, frames, x) = 1 + c BY <1>3, <2>1, <2>2, <3>2, <3>3 DEF Total
    <3> QED BY <1>7, <2>3, <3>4 DEF refcnt
  <2>4. CASE x # no_value
    <3>1. InVars(valu, x) = {} BY <1>1, <2>4 DEF InVars
    <3>2. NV(valu, x) = 0 BY <3>1, FS_EmptySet DEF NV
    <3>3. One(x = no_value) = 0 BY <2>4 DEF One
    <3>4. Total(heap, stk, valu, todo, frames, x) = 0 BY <2>1, <2>2, <3>2, <3>3 DEF Total
    <3> QED BY <1>7, <2>4, <3>4 DEF refcnt
  <2> QED BY <2>3, <2>4
<1>10. Core(heap, stk, valu, todo, frames)
  <2>1. FramesOK(heap, frames) BY <1>1, NoFrames
  <2>2. stk \in Seq(All) /\ valu \in [Vars -> All] /\ todo \in Seq(Frees) BY <1>1, <1>5
  <2> QED BY <1>8, <1>9, <2>1, <2>2 DEF Core
<1>11. Registers
  <2>1. NoLocals.base \in Nat /\ NoLocals.i \in Nat /\ NoLocals.outer \in Seq(Frees)
        /\ NoLocals.changed \in BOOLEAN /\ NoLocals.protect \in BOOLEAN
    BY NoLocalsIs DEF NoLocals
  <2>2. NoLocals = [op |-> NoLocals.op, var |-> NoLocals.var, base |-> NoLocals.base, a |-> NoLocals.a, i |-> NoLocals.i,
                    x |-> NoLocals.x, addr |-> NoLocals.addr, outer |-> NoLocals.outer, changed |-> NoLocals.changed,
                    protect |-> NoLocals.protect, due |-> NoLocals.due]
    BY DEF NoLocals
  <2> QED BY <1>1, <2>1, <2>2 DEF Registers
<1>12. TodoOK BY <1>1 DEF TodoOK, Framed
<1>13. GoneOK BY <1>7 DEF GoneOK
<1>14. ZeroOK BY <1>3, <1>7 DEF ZeroOK, InUse
<1>15. Control BY <1>1, <1>11, <1>12, <1>13, <1>14 DEF Control, Working, Ending
<1> QED BY <1>10, <1>15 DEF IInv

LEMMA StutterKeeps == IInv /\ UNCHANGED vars => IInv'
<1> SUFFICES ASSUME IInv, UNCHANGED vars PROVE IInv' OBVIOUS
<1>1. UNCHANGED <<heap, stk, valu, todo, frames, pc, r, unseen>> BY DEF vars
<1>2. Core(heap, stk, valu, todo, frames)' BY <1>1 DEF IInv
<1>3. Registers' BY <1>1 DEF IInv, Control, Registers
<1>4. \A y : /\ kind(y)' = kind(y) /\ items(y)' = items(y) /\ refcnt(y)' = refcnt(y)
              /\ (InUse(y)' <=> InUse(y))
  BY <1>1 DEF kind, items, refcnt, InUse
<1>5. Framed(frames)' = Framed(frames) /\ Waiting' = Waiting /\ Outer' = Outer BY <1>1 DEF Framed, Waiting, Outer
<1>6. Locals' = Locals BY <1>1, <1>5 DEF Locals
<1>7. TodoOK' /\ GoneOK' /\ ZeroOK'
  <2>1. TodoOK /\ GoneOK /\ ZeroOK BY DEF IInv, Control
  <2>2. TodoOK' BY <1>1, <1>4, <1>5, <2>1 DEF TodoOK
  <2>3. GoneOK' BY <1>1, <1>4, <2>1 DEF GoneOK
  <2>4. ZeroOK' BY <1>1, <1>4, <1>5, <1>6, <2>1 DEF ZeroOK
  <2> QED BY <2>2, <2>3, <2>4
<1>8. \A w, y : RefersTo(w, y)' <=> RefersTo(w, y) BY <1>1 DEF RefersTo, items
<1>9. \A y, P : (Strong(y, P)' <=> Strong(y, P)) /\ (Lasting(y, P)' <=> Lasting(y, P))
  BY <1>1, <1>8 DEF Strong, Lasting, Firm
<1>10. \A P : Within(P)' <=> Within(P) BY <1>1, <1>5, <1>8, <1>9 DEF Within
<1>11. \A y : (Simple(y)' <=> Simple(y)) /\ (Kept(y)' <=> Kept(y)) BY <1>1, <1>4, <1>9 DEF Simple, Kept
<1>12. \A p, first \in All : ByPlace(p, first)' <=> ByPlace(p, first) BY <1>1, <1>4, <1>8, <1>11 DEF ByPlace
<1>13. ByInsert' <=> ByInsert BY <1>1 DEF ByInsert
<1>14. \A S \in SUBSET All : ClosedUnderItems(S)' <=> ClosedUnderItems(S) BY <1>4 DEF ClosedUnderItems
<1>15. \A S \in SUBSET All, a, d \in All : Avoids(S, a, d)' <=> Avoids(S, a, d) BY <1>4, <1>14 DEF Avoids
<1>16. \A P \in SUBSET All : Apart(P) => Apart(P)'
  BY <1>1, <1>6, <1>9, <1>10, <1>11 DEF Apart, At
<1>17. \A a, x, d \in All : (At(a, x, d)' <=> At(a, x, d)) /\ (Begins(a, x, d) => Begins(a, x, d)')
  BY <1>1, <1>4, <1>11, <1>12, <1>13, <1>14 DEF At, Begins
<1>18. \A a, x, d \in All : Works(a, x, d) => Works(a, x, d)'
  <2> SUFFICES ASSUME NEW a \in All, NEW x \in All, NEW d \in All, Works(a, x, d) PROVE Works(a, x, d)' OBVIOUS
  <2>1. homotest(a)' <=> homotest(a) BY <1>1 DEF homotest, kind, items, tally
  <2>2. Ready' <=> Ready BY <1>1 DEF Ready
  <2> QED BY <1>1, <1>4, <1>5, <1>8, <1>9, <1>12, <1>13, <1>15, <2>1, <2>2 DEF Works
<1>19. InIndex => InIndex' BY <1>1, <1>4, <1>5, <1>11 DEF InIndex, Used
<1>20. InPlace => InPlace' BY <1>1, <1>17 DEF InPlace, Ready, Depth
<1>21. InWorking => InWorking' BY <1>1, <1>17, <1>18 DEF InWorking, Depth
<1>22. InEnding => InEnding'
  <2>1. OuterOK => OuterOK' BY <1>1, <1>4, <1>8 DEF OuterOK, Pair
  <2> QED BY <1>1, <1>13, <2>1 DEF InEnding, Depth
<1>23. Control' BY <1>1, <1>3, <1>7, <1>16, <1>19, <1>20, <1>21, <1>22 DEF IInv, Control
<1> QED BY <1>2, <1>23 DEF IInv

LEMMA StepKeeps == Plain /\ IInv /\ [Next]_vars => IInv'
<1> SUFFICES ASSUME Plain, IInv, Next PROVE IInv' BY StutterKeeps
<1>1. Now /\ Control BY DEF IInv, Now
<1>2. CASE \E n \in Nums : PushNum(n) BY <1>1, <1>2, PushNumKeeps
<1>3. CASE \E t \in Texts : PushLiteral(t) BY <1>1, <1>3, PushLiteralKeeps
<1>4. ASSUME NEW v \in Vars, PushVar(v) \/ Assign(v) \/ Pick(v) \/ Insert(v) PROVE IInv'
  BY <1>1, <1>4, PushVarKeeps, AssignKeeps, PickKeeps, InsertKeeps
<1>5. CASE \E n \in 1 .. MaxItems : MkList(n) BY <1>1, <1>5, MkListKeeps
<1>6. CASE Discard BY <1>1, <1>6, DiscardKeeps
<1>7. CASE IPlace BY <1>1, <1>7, IPlaceKeeps
<1>8. CASE Inserting
  <2>1. CASE IndexDone BY <1>1, <2>1, IndexDoneKeeps
  <2>2. CASE PlaceFails BY <1>1, <2>2, PlaceFailsKeeps
  <2>3. CASE PushFault BY <1>1, <2>3, PushFaultKeeps
  <2>4. CASE Unshare BY <1>1, <2>4, UnshareKeeps
  <2>5. CASE Replace BY <1>1, <2>5, ReplaceKeeps
  <2>6. CASE TestItems BY <1>1, <2>6, TestItemsKeeps
  <2>7. CASE Implode BY <1>1, <2>7, ImplodeKeeps
  <2>8. CASE Unprotect BY <1>1, <2>8, UnprotectKeeps
  <2>9. CASE PushResult BY <1>1, <2>9, PushResultKeeps
  <2>10. CASE StoreResult BY <1>1, <2>10, StoreResultKeeps
  <2>11. CASE Finish BY <1>1, <2>11, FinishKeeps
  <2> QED BY <1>8, <2>1, <2>2, <2>3, <2>4, <2>5, <2>6, <2>7, <2>8, <2>9, <2>10, <2>11 DEF Inserting
<1>9. CASE Freeing BY <1>9, FreeingKeeps
<1>10. CASE Cleaning BY <1>1, <1>10, ClearStackKeeps, ClearHeapKeeps DEF Cleaning
<1>11. CASE Jump BY <1>1, <1>11, JumpKeeps
<1>12. CASE ExplodeJump BY <1>1, <1>12, ExplodeJumpKeeps
<1> QED BY <1>2, <1>3, <1>4, <1>5, <1>6, <1>7, <1>8, <1>9, <1>10, <1>11, <1>12 DEF Next

LEMMA Invariance == ASSUME Plain PROVE Spec => []IInv
<1>1. Init => IInv BY InitIs
<1>2. IInv /\ [Next]_vars => IInv' BY StepKeeps
<1> QED BY <1>1, <1>2, PTL DEF Spec
-----------------------------------------------------------------------------
(***************************************************************************)
(* Packing.                                                                *)
(***************************************************************************)
(* What packing needs.  A list of arrays has an item that is no integer; or  *)
(* it is the one being updated; or it has been packed and the copy takes its *)
(* place: it has one reference at most, that of the variable, of a freeup,   *)
(* or of a pair that is to be freed.                                         *)
Mixed(w) == \E j \in DOMAIN items(w) : items(w)[j] \in All /\ kind(items(w)[j]) # "int"

Updating    == {"replace", "implode", "pack"}
OfPlace(p)  == r.changed /\ pc \in {"unprotect", "push", "finish"} /\ p \in Outer
OfInsert(w) == r.changed /\ pc \in {"unprotect", "push", "store"} /\ ByInsert /\ w = valu[r.var]

Doomed(p) ==
  /\ refcnt(p) = 0
  /\ p \in Framed(frames) \/ (\E k \in DOMAIN todo : todo[k] = Free(p)) \/ OfPlace(p)

Leaving(w) ==
  /\ refcnt(w) <= 1
  /\ \/ Doomed(w)
     \/ \E k \in DOMAIN todo : todo[k] = Drop(w)
     \/ \E p \in All : RefersTo(p, w) /\ Doomed(p)
     \/ OfInsert(w)
     \/ pc \in Clearing /\ refcnt(w) = 0

ListsPacked == \A w \in All : kind(w) = "atype" => Mixed(w) \/ Leaving(w) \/ (pc \in Updating /\ w = r.a)

PackedOK ==
  /\ ListsPacked
  /\ pc = "place" /\ r.i # 0 /\ r.a = r.x => refcnt(r.a) > 1
  /\ pc \in Updating /\ ~r.changed => refcnt(r.a) <= 1 /\ r.a # r.x

(* From h to g no list is made or changed.                                   *)
Whole(h)    == \A y \in All : h[y] = [kind |-> h[y].kind, items |-> h[y].items, refcnt |-> h[y].refcnt]
Quiet(h, g) ==
  /\ g = [y \in All |-> g[y]] /\ Whole(g)
  /\ \A y \in All : h[y].kind # "free" => g[y].kind = h[y].kind /\ g[y].items = h[y].items
  /\ \A y \in All : g[y].kind = "atype" => h[y].kind = "atype"

LEMMA QuietAll ==
  /\ Now => Quiet(heap, heap)
  /\ \A h, g, e : Quiet(h, g) /\ Quiet(g, e) => Quiet(h, e)
<1>1. Now => Quiet(heap, heap)
  <2> HAVE Now
  <2>1. heap \in [All -> Blocks] BY DEF Now, Core, HeapOK
  <2> QED BY <2>1 DEF Quiet, Whole, Blocks
<1>2. \A h, g, e : Quiet(h, g) /\ Quiet(g, e) => Quiet(h, e)
  <2> SUFFICES ASSUME NEW h, NEW g, NEW e, Quiet(h, g), Quiet(g, e) PROVE Quiet(h, e) OBVIOUS
  <2>1. e = [y \in All |-> e[y]] /\ Whole(e) BY DEF Quiet
  <2>2. \A y \in All : h[y].kind # "free" => g[y].kind = h[y].kind /\ g[y].items = h[y].items BY DEF Quiet
  <2>3. \A y \in All : g[y].kind # "free" => e[y].kind = g[y].kind /\ e[y].items = g[y].items BY DEF Quiet
  <2>4. \A y \in All : e[y].kind = "atype" => g[y].kind = "atype" BY DEF Quiet
  <2>5. \A y \in All : g[y].kind = "atype" => h[y].kind = "atype" BY DEF Quiet
  <2>6. \A y \in All : h[y].kind # "free" => e[y].kind = h[y].kind /\ e[y].items = h[y].items BY <2>2, <2>3
  <2>7. \A y \in All : e[y].kind = "atype" => h[y].kind = "atype" BY <2>4, <2>5
  <2> QED BY <2>1, <2>6, <2>7 DEF Quiet
<1> QED BY <1>1, <1>2

LEMMA QuietIncr ==
  ASSUME NEW h, NEW e, Quiet(e, h), NEW x
  PROVE  Quiet(e, Incr(h, x)) /\ Quiet(e, Decr(h, x))
<1>1. h = [y \in All |-> h[y]] /\ Whole(h) BY DEF Quiet
<1>2. ASSUME NEW g, NEW n, g = [h EXCEPT ![x] = [h[x] EXCEPT !.refcnt = n]] PROVE Quiet(h, g)
  <2>1. g = [y \in All |-> IF y = x THEN [h[x] EXCEPT !.refcnt = n] ELSE h[y]] BY <1>1, <1>2
  <2>2. ASSUME NEW y \in All
        PROVE  /\ g[y] = [kind |-> g[y].kind, items |-> g[y].items, refcnt |-> g[y].refcnt]
               /\ g[y].kind = h[y].kind /\ g[y].items = h[y].items
    <3>1. h[y] = [kind |-> h[y].kind, items |-> h[y].items, refcnt |-> h[y].refcnt] BY <1>1 DEF Whole
    <3>2. CASE y = x
      <4>1. g[y] = [h[y] EXCEPT !.refcnt = n] BY <2>1, <3>2
      <4>2. PICK k, its, c : h[y] = [kind |-> k, items |-> its, refcnt |-> c] BY <3>1
      <4>3. g[y] = [kind |-> k, items |-> its, refcnt |-> n] BY <4>1, <4>2
      <4> QED BY <4>2, <4>3
    <3>3. CASE y # x BY <2>1, <3>1, <3>3
    <3> QED BY <3>2, <3>3
  <2>3. g = [y \in All |-> g[y]] BY <2>1
  <2> QED BY <2>2, <2>3 DEF Quiet, Whole
<1>3. Quiet(h, Incr(h, x)) /\ Quiet(h, Decr(h, x))
  <2>1. Incr(h, x) = [h EXCEPT ![x] = [h[x] EXCEPT !.refcnt = h[x].refcnt + 1]] BY DEF Incr
  <2>2. Decr(h, x) = [h EXCEPT ![x] = [h[x] EXCEPT !.refcnt = h[x].refcnt - 1]] BY DEF Decr
  <2> QED BY <1>2, <2>1, <2>2
<1> QED BY <1>3, QuietAll

LEMMA QuietMade ==
  ASSUME NEW h, NEW e, Quiet(e, h), NEW x, e[x].kind = "free", NEW k, k # "atype", NEW its
  PROVE  Quiet(e, Made(h, x, k, its))
<1>1. h = [y \in All |-> h[y]] /\ Whole(h) BY DEF Quiet
<1>2. PICK g : g = Made(h, x, k, its) OBVIOUS
<1>3. g = [h EXCEPT ![x] = [kind |-> k, items |-> its, refcnt |-> 0]] BY <1>2 DEF Made
<1>4. g = [y \in All |-> IF y = x THEN [kind |-> k, items |-> its, refcnt |-> 0] ELSE h[y]] BY <1>1, <1>3
<1>5. ASSUME NEW y \in All
      PROVE  /\ g[y] = [kind |-> g[y].kind, items |-> g[y].items, refcnt |-> g[y].refcnt]
             /\ e[y].kind # "free" => g[y].kind = e[y].kind /\ g[y].items = e[y].items
             /\ g[y].kind = "atype" => e[y].kind = "atype"
  <2>1. CASE y = x
    <3>1. g[y] = [kind |-> k, items |-> its, refcnt |-> 0] BY <1>4, <2>1
    <3> QED BY <2>1, <3>1
  <2>2. CASE y # x
    <3>1. g[y] = h[y] BY <1>4, <2>2
    <3>2. h[y] = [kind |-> h[y].kind, items |-> h[y].items, refcnt |-> h[y].refcnt] BY <1>1 DEF Whole
    <3>3. e[y].kind # "free" => h[y].kind = e[y].kind /\ h[y].items = e[y].items BY DEF Quiet
    <3>4. h[y].kind = "atype" => e[y].kind = "atype" BY DEF Quiet
    <3> QED BY <3>1, <3>2, <3>3, <3>4
  <2> QED BY <2>1, <2>2
<1>6. g = [y \in All |-> g[y]] BY <1>4
<1> QED BY <1>2, <1>5, <1>6 DEF Quiet, Whole

LEMMA QuietPush ==
  ASSUME NEW h, Quiet(heap, h), NEW s
  PROVE  /\ \A x : Push(h, s, x) => Quiet(heap, heap')
         /\ \A k, its : k # "atype" /\ HasRoom(1) /\ Push(Made(h, Fresh(1)[1], k, its), s, Fresh(1)[1]) => Quiet(heap, heap')
         /\ \A u : PushText(h, s, u) => Quiet(heap, heap')
<1>1. ASSUME NEW g, Quiet(heap, g), NEW x, Push(g, s, x) PROVE Quiet(heap, heap')
  <2>1. heap' = Incr(g, x) BY <1>1 DEF Push
  <2> QED BY <1>1, <2>1, QuietIncr
<1>2. ASSUME NEW k, NEW its, k # "atype", HasRoom(1), Push(Made(h, Fresh(1)[1], k, its), s, Fresh(1)[1])
      PROVE  Quiet(heap, heap')
  <2>1. PICK x : x = Fresh(1)[1] OBVIOUS
  <2>2. heap[x].kind = "free" BY <1>2, <2>1, FreshOne DEF InUse, kind
  <2>3. Quiet(heap, Made(h, x, k, its)) BY <1>2, <2>2, QuietMade
  <2> QED BY <1>1, <1>2, <2>1, <2>3
<1>3. ASSUME NEW u, PushText(h, s, u) PROVE Quiet(heap, heap')
  <2>1. CASE \E x \in All : HasText(h, x, u)
    <3>1. PICK x \in All : Push(h, s, x) BY <1>3, <2>1 DEF PushText
    <3> QED BY <1>1, <3>1
  <2>2. CASE ~ \E x \in All : HasText(h, x, u)
    <3>1. HasRoom(1) /\ Push(Made(h, Fresh(1)[1], "phrase", <<u>>), s, Fresh(1)[1]) BY <1>3, <2>2 DEF PushText
    <3>2. "phrase" # "atype" OBVIOUS
    <3> QED BY <1>2, <3>1, <3>2
  <2> QED BY <2>1, <2>2
<1> QED BY <1>1, <1>2, <1>3

LEMMA MixedKept ==
  ASSUME Now, frames = <<>>, \A y \in All : InUse(y) => kind(y)' = kind(y),
         NEW w \in All, kind(w) = "atype", AsBefore(w), Mixed(w)
  PROVE  kind(w)' = "atype" /\ Mixed(w)'
<1>1. PICK q : q = items(w) OBVIOUS
<1>2. PICK j \in DOMAIN q : q[j] \in All /\ kind(q[j]) # "int" BY <1>1 DEF Mixed
<1>3. PICK y \in All : y = q[j] BY <1>2
<1>4. y # gone BY NoGone
<1>5. Has1(heap, frames, w, j) /\ heap[w].items[j] = y
  <2>1. \A k \in DOMAIN frames : frames[k].arr = w => j >= frames[k].next OBVIOUS
  <2>2. heap[w].kind = "atype" /\ heap[w].items = q BY <1>1 DEF kind, items
  <2> QED BY <1>2, <1>3, <1>4, <2>1, <2>2 DEF Has1
<1>6. InUse(y)
  <2>1. j \in DOMAIN heap[w].items BY <1>1, <1>2 DEF items
  <2>2. \E v \in All : \E i \in DOMAIN heap[v].items : Has1(heap, frames, v, i) /\ heap[v].items[i] = y BY <1>5, <2>1
  <2> QED BY <2>2, Referred DEF Now, InUse, kind
<1>7. kind(y)' # "int" BY <1>2, <1>3, <1>6
<1>8. items(w)' = q BY <1>1 DEF AsBefore
<1> QED BY <1>2, <1>3, <1>7, <1>8 DEF Mixed, AsBefore

LEMMA RestLeaving ==
  ASSUME Now, Ready, NEW w \in All, Leaving(w)
  PROVE  /\ refcnt(w) <= 1 /\ refcnt(w) \in Nat
         /\ \/ refcnt(w) = 0 /\ OfPlace(w)
            \/ \E p \in All : RefersTo(p, w) /\ refcnt(p) = 0 /\ OfPlace(p)
            \/ OfInsert(w)
            \/ pc \in Clearing /\ refcnt(w) = 0
<1>1. todo = <<>> /\ frames = <<>> BY DEF Ready
<1>2. Framed(frames) = {} /\ (\A k \in DOMAIN todo : FALSE) BY <1>1 DEF Framed
<1>3. \A p \in All : Doomed(p) => refcnt(p) = 0 /\ OfPlace(p) BY <1>2 DEF Doomed
<1> QED BY <1>2, <1>3, NowCounts DEF Leaving

LEMMA RestMixed ==
  ASSUME Now, Ready, ListsPacked, pc \in {"idle", "index", "place", "fault"}
  PROVE  \A w \in All : kind(w) = "atype" => Mixed(w)
<1> SUFFICES ASSUME NEW w \in All, kind(w) = "atype" PROVE Mixed(w) OBVIOUS
<1>1. pc \notin Updating /\ pc \notin Clearing /\ pc \notin {"unprotect", "push", "finish", "store"} BY DEF Updating, Clearing
<1>2. ~Leaving(w) BY <1>1, RestLeaving DEF OfPlace, OfInsert
<1> QED BY <1>1, <1>2 DEF ListsPacked

LEMMA QuietPacked ==
  ASSUME Now, Ready, ListsPacked, pc \in {"idle", "index", "place", "fault"}, Quiet(heap, heap')
  PROVE  ListsPacked'
<1>1. \A y \in All : InUse(y) => AsBefore(y) BY DEF Quiet, InUse, AsBefore, kind, items
<1>2. \A y \in All : InUse(y) => kind(y)' = kind(y) BY <1>1 DEF AsBefore
<1>3. frames = <<>> BY DEF Ready
<1>4. ASSUME NEW w \in All, kind(w)' = "atype" PROVE Mixed(w)'
  <2>1. kind(w) = "atype" BY <1>4 DEF Quiet, kind
  <2>2. AsBefore(w) BY <1>1, <2>1 DEF InUse
  <2>3. Mixed(w) BY <2>1, RestMixed
  <2> QED BY <1>2, <1>3, <2>1, <2>2, <2>3, MixedKept
<1> QED BY <1>4 DEF ListsPacked

LEMMA PlainPacked ==
  ASSUME ListsPacked', pc' \notin Updating, pc' # "place" PROVE PackedOK'
BY DEF PackedOK

(* The operations of the evaluator.                                          *)
LEMMA EvaluatingPacks ==
  ASSUME Now, Control, PackedOK, Plain,
         \/ \E n \in Nums : PushNum(n)
         \/ \E t \in Texts : PushLiteral(t)
         \/ \E v \in Vars : PushVar(v) \/ Assign(v) \/ Pick(v) \/ Insert(v)
         \/ Discard
  PROVE  PackedOK'
<1>1. Quiet(heap, heap) BY QuietAll
<1> DEFINE Fits == Ready /\ pc \in {"idle", "index"} /\ Quiet(heap, heap') /\ pc' \in {"idle", "index"}
<1>2. ASSUME NEW n \in Nums, PushNum(n) PROVE Fits
  <2>1. HasRoom(1) /\ Push(Made(heap, Fresh(1)[1], "int", <<n>>), stk, Fresh(1)[1])
    BY <1>2, RoomFor, RefCountConstants DEF PushNum, Leaves
  <2>2. "int" # "atype" OBVIOUS
  <2>3. Quiet(heap, heap') BY <1>1, <2>1, <2>2, QuietPush
  <2> QED BY <1>2, <2>3 DEF PushNum, Pushing, Evaluating, Same
<1>3. ASSUME NEW t \in Texts, PushLiteral(t) PROVE Fits
  <2>1. PushText(heap, stk, t) BY <1>3 DEF PushLiteral
  <2>2. Quiet(heap, heap') BY <1>1, <2>1, QuietPush
  <2> QED BY <1>3, <2>2 DEF PushLiteral, Pushing, Evaluating, Same
<1>4. ASSUME NEW v \in Vars, PushVar(v) PROVE Fits
  <2>1. Push(heap, stk, valu[v]) BY <1>4 DEF PushVar
  <2>2. Quiet(heap, heap') BY <1>1, <2>1, QuietPush
  <2> QED BY <1>4, <2>2 DEF PushVar, Pushing, Evaluating, Same
<1>5. ASSUME NEW v \in Vars, Assign(v) PROVE Fits
  <2>1. heap' = Incr(heap, top) BY <1>5 DEF Assign, Store
  <2>2. Quiet(heap, heap') BY <1>1, <2>1, QuietIncr
  <2> QED BY <1>5, <2>2 DEF Assign, Statement, Evaluating
<1>6. ASSUME NEW v \in Vars, Pick(v) PROVE Fits
  <2>1. PICK a, i, h : a = valu[v] /\ h = Decr(heap, top) /\ i = ItemAt(heap, a, top) OBVIOUS
  <2>2. IF i # 0
        THEN IF kind(a) = "atype" THEN Push(h, Below(1), items(a)[i])
             ELSE Leaves /\ Push(Made(h, Fresh(1)[1], "int", <<items(a)[i]>>), Below(1), Fresh(1)[1])
        ELSE Leaves /\ PushText(h, Below(1), fault)
    BY <1>6, <2>1 DEF Pick
  <2>3. Quiet(heap, h) BY <1>1, <2>1, QuietIncr
  <2>4. Leaves => HasRoom(1) BY RoomFor, RefCountConstants DEF Leaves
  <2>5. "int" # "atype" OBVIOUS
  <2>6. Quiet(heap, heap') BY <2>2, <2>3, <2>4, <2>5, QuietPush
  <2> QED BY <1>6, <2>6 DEF Pick, Evaluating, Same
<1>7. ASSUME NEW v \in Vars, Insert(v) PROVE Fits
  <2>1. heap' = Decr(heap, top) BY <1>7 DEF Insert
  <2>2. Quiet(heap, heap') BY <1>1, <2>1, QuietIncr
  <2> QED BY <1>7, <2>2 DEF Insert
<1>8. ASSUME Discard PROVE Fits
  <2>1. heap' = heap BY <1>8 DEF Discard
  <2> QED BY <1>1, <1>8, <2>1 DEF Discard, Statement, Evaluating, Same
<1>9. Fits BY <1>2, <1>3, <1>4, <1>5, <1>6, <1>7, <1>8
<1>10. ListsPacked' BY <1>9, QuietPacked DEF PackedOK
<1>11. pc' \notin Updating /\ pc' # "place" BY <1>9 DEF Updating
<1> QED BY <1>10, <1>11, PlainPacked

LEMMA NewList ==
  ASSUME Now, Ready, ListsPacked, pc \in {"idle", "index", "place", "fault"},
         \A y \in All : InUse(y) => AsBefore(y),
         NEW z, \A y \in All : ~InUse(y) /\ kind(y)' = "atype" => y = z
  PROVE  \A w \in All : kind(w)' = "atype" => w = z \/ Mixed(w)'
<1> SUFFICES ASSUME NEW w \in All, kind(w)' = "atype", w # z PROVE Mixed(w)' OBVIOUS
<1>1. frames = <<>> BY DEF Ready
<1>2. \A y \in All : InUse(y) => kind(y)' = kind(y) BY DEF AsBefore
<1>3. InUse(w) OBVIOUS
<1>4. AsBefore(w) /\ kind(w) = "atype" BY <1>2, <1>3
<1>5. Mixed(w) BY <1>4, RestMixed
<1> QED BY <1>1, <1>2, <1>4, <1>5, MixedKept

LEMMA MkListPacks ==
  ASSUME Now, Control, PackedOK, Plain, NEW n \in 1 .. MaxItems, MkList(n)
  PROVE  PackedOK'
<1>1. PICK z, its, b : z = Fresh(1)[1] /\ its = TopN(n) /\ b = Below(n) OBVIOUS
<1>2. pc = "idle" /\ Ready /\ Has(n) /\ HasRoom(1) /\ Same
  BY StatementPlain DEF MkList
<1>3. IF \A j \in 1 .. n : kind(its[j]) = "int"
      THEN /\ Push(Made(heap, z, "ints", [j \in 1 .. n |-> items(its[j])[1]]), b, z)
           /\ todo' = [j \in 1 .. n |-> Drop(its[n + 1 - j])]
      ELSE Push(Made(heap, z, "atype", its), b, z) /\ UNCHANGED todo
  BY <1>1 DEF MkList
<1>4. todo = <<>> /\ frames = <<>> /\ r.base = 0 /\ Core(heap, stk, valu, <<>>, <<>>) BY <1>2, IdleNow
<1>5. n \in Nat /\ n >= 1 /\ n <= MaxItems /\ MaxItems \in Nat BY RefCountConstants
<1>6. stk \in Seq(All) /\ n <= Len(stk) BY <1>2, <1>4, <1>5 DEF Core, Has
<1>7. its \in Seq(All) /\ Len(its) = n /\ DOMAIN its = 1 .. n /\ stk = b \o its
  <2>1. its \in Seq(All) /\ Len(its) = n /\ stk = b \o its BY <1>1, <1>5, <1>6, TopIs
  <2> QED BY <2>1
<1>8. b \in Seq(All) BY <1>1, <1>5, <1>6, BelowIs
<1>9. z \in All /\ heap[z].kind = "free" /\ ~InUse(z) BY <1>1, <1>2, FreshOne DEF InUse, kind
<1>10. pc' = "idle" BY <1>2 DEF Same
<1>11. ListsPacked BY DEF PackedOK
<1>12. CASE \A j \in 1 .. n : kind(its[j]) = "int"
  <2>1. PICK g : g = Made(heap, z, "ints", [j \in 1 .. n |-> items(its[j])[1]]) OBVIOUS
  <2>2. Quiet(heap, heap) BY QuietAll
  <2>3. "ints" # "atype" OBVIOUS
  <2>4. Quiet(heap, g) BY <1>9, <2>1, <2>2, <2>3, QuietMade
  <2>5. heap' = Incr(g, z) BY <1>3, <1>12, <2>1 DEF Push
  <2>6. Quiet(heap, heap') BY <2>4, <2>5, QuietIncr
  <2>7. ListsPacked' BY <1>2, <1>11, <2>6, QuietPacked
  <2> QED BY <1>10, <2>7, PlainPacked DEF Updating
<1>13. CASE ~ \A j \in 1 .. n : kind(its[j]) = "int"
  <2>1. PICK g : g = Made(heap, z, "atype", its) OBVIOUS
  <2>2. Core(heap, b \o its, valu, <<>>, <<>>) BY <1>4, <1>7
  <2>3. /\ Core(g, b, valu, <<>>, <<>>) /\ g[z] = [kind |-> "atype", items |-> its, refcnt |-> 0]
        /\ \A y \in All : y # z => g[y] = heap[y]
    BY <1>5, <1>7, <1>8, <1>9, <2>1, <2>2, CoreList
  <2>4. g[z].kind = "atype" /\ g[z].items = its BY <2>3
  <2>5. Push(g, b, z) BY <1>3, <1>13, <2>1
  <2>6. /\ items(z)' = its /\ kind(z)' = "atype"
        /\ \A y \in All : y # z => kind(y)' = g[y].kind /\ items(y)' = g[y].items
    BY <1>9, <2>3, <2>4, <2>5, PushedIs
  <2>7. \A y \in All : y # z => AsBefore(y) BY <2>3, <2>6 DEF AsBefore, kind, items
  <2>8. \A w \in All : kind(w)' = "atype" => w = z \/ Mixed(w)'
    <3>1. \A y \in All : InUse(y) => AsBefore(y) BY <1>9, <2>7
    <3>2. \A y \in All : ~InUse(y) /\ kind(y)' = "atype" => y = z BY <2>7 DEF AsBefore, InUse
    <3> QED BY <1>2, <1>11, <3>1, <3>2, NewList
  <2>9. Mixed(z)'
    <3>1. PICK j \in 1 .. n : kind(its[j]) # "int" BY <1>13
    <3>2. PICK y \in All : y = its[j] BY <1>7
    <3>3. kind(y)' # "int" BY <2>6, <2>7, <3>1, <3>2 DEF AsBefore
    <3> QED BY <1>7, <2>6, <3>1, <3>2, <3>3 DEF Mixed
  <2>10. ListsPacked' BY <2>8, <2>9 DEF ListsPacked
  <2> QED BY <1>10, <2>10, PlainPacked DEF Updating
<1> QED BY <1>12, <1>13

LEMMA IndexDonePacks ==
  ASSUME Now, Control, PackedOK, Plain, IndexDone
  PROVE  PackedOK'
<1>1. PICK a, d, i, self : a = valu[r.var] /\ d = top /\ self = Protects(a) /\ i = ItemAt(heap, a, d) OBVIOUS
<1>2. /\ Ready /\ pc = "index" /\ Len(stk) = r.base + 1
      /\ IF self THEN Push(Decr(heap, d), Below(1), a) ELSE heap' = Decr(heap, d) /\ stk' = Below(1)
      /\ pc' = "place" /\ UNCHANGED <<valu, todo, frames, unseen>>
  BY <1>1 DEF IndexDone
<1>3. PICK due : r' = [r EXCEPT !.a = a, !.addr = d, !.protect = self, !.i = i, !.due = due]
  BY <1>1 DEF IndexDone
<1>4. todo = <<>> /\ frames = <<>> /\ Registers BY <1>2, Resting
<1>5. r.op = "insert" /\ r.var \in Vars BY <1>2 DEF Control, InIndex
<1>6. r = [op |-> r.op, var |-> r.var, base |-> r.base, a |-> r.a, i |-> r.i, x |-> r.x,
           addr |-> r.addr, outer |-> r.outer, changed |-> r.changed, protect |-> r.protect,
           due |-> r.due]
  BY <1>4 DEF Registers
<1>7. r'.x = r.x /\ r'.a = a BY <1>3, <1>6
<1>8. PICK g : g = Decr(heap, d) OBVIOUS
<1>9. Quiet(heap, g) BY <1>8, QuietAll, QuietIncr
<1>10. Quiet(heap, heap')
  <2>1. heap' = g \/ heap' = Incr(g, a) BY <1>2, <1>8 DEF Push
  <2> QED BY <1>9, <2>1, QuietIncr
<1>11. ListsPacked' BY <1>2, <1>10, QuietPacked DEF PackedOK
<1>12. a = r.x => refcnt(a)' > 1
  <2> SUFFICES ASSUME a = r.x PROVE refcnt(a)' > 1 OBVIOUS
  <2>1. stk' = Append(Below(1), a) BY <1>1, <1>2 DEF Protects, Push
  <2>2. Now' BY IndexDoneKeeps DEF IInv, Now
  <2>3. Core(heap', stk', valu', todo', frames') BY <2>2 DEF Now
  <2>4. stk \in Seq(All) /\ valu \in [Vars -> All] /\ a \in All BY <1>1, <1>5 DEF Now, Core
  <2>5. Len(stk) >= 1 /\ Len(stk) \in Nat /\ 1 \in Nat BY <1>2, <1>4, <2>4 DEF Registers
  <2>6. Below(1) \in Seq(All) BY <2>4, <2>5, BelowIs
  <2>7. \E j \in DOMAIN stk' : stk'[j] = a
    <3>1. PICK q : q = Below(1) OBVIOUS
    <3>2. stk' = Append(q, a) /\ q \in Seq(All) BY <2>1, <2>6, <3>1
    <3>3. Len(q) + 1 \in DOMAIN stk' /\ stk'[Len(q) + 1] = a BY <2>4, <3>2
    <3> QED BY <3>3
  <2>8. \E v \in Vars : valu'[v] = a BY <1>1, <1>2, <1>5
  <2>9. NS(stk', a) > 0 /\ NV(valu', a) > 0 BY <2>3, <2>4, <2>7, <2>8, CoreCounts
  <2>10. /\ heap'[a].refcnt = One(a = no_value) + NS(stk', a) + NV(valu', a) + NS(todo', Drop(a)) + NL(heap', frames', a)
         /\ NS(stk', a) \in Nat /\ NV(valu', a) \in Nat /\ NS(todo', Drop(a)) \in Nat /\ NL(heap', frames', a) \in Nat
    BY <2>3, <2>4, CoreCounts
  <2>11. One(a = no_value) \in Nat BY DEF One
  <2> QED BY <2>9, <2>10, <2>11 DEF refcnt
<1> QED BY <1>2, <1>7, <1>11, <1>12 DEF PackedOK, Updating, refcnt

LEMMA QuietSplit ==
  ASSUME NEW h, Quiet(heap, h), NEW z, CanSplit(h, z), NEW g, NEW x, NEW d, Split(h, z) = [heap |-> g, first |-> x, second |-> d]
  PROVE  /\ Quiet(heap, g)
         /\ \/ h[z].kind = "atype" /\ g = h /\ x = h[z].items[1]
            \/ h[z].kind # "atype" /\ g[x].kind = "int"
<1>1. CASE h[z].kind = "atype"
  <2>1. [heap |-> g, first |-> x, second |-> d] = [heap |-> h, first |-> h[z].items[1], second |-> h[z].items[2]]
    BY <1>1 DEF Split
  <2> QED BY <1>1, <2>1
<1>2. CASE h[z].kind # "atype"
  <2>1. HasRoom(2) BY <1>2 DEF CanSplit
  <2>2. PICK s : s = Fresh(2) OBVIOUS
  <2>3. s \in [1 .. 2 -> Unused] BY <2>1, <2>2, FreshIs
  <2>4. PICK p, q : p = s[1] /\ q = s[2] OBVIOUS
  <2>5. p \in All /\ q \in All /\ heap[p].kind = "free" /\ heap[q].kind = "free"
    BY <2>3, <2>4 DEF Unused, All, InUse, kind
  <2>6. PICK e, its, jts : /\ its = <<h[z].items[1]>> /\ jts = <<h[z].items[2]>> /\ e = Made(h, p, "int", its)
    OBVIOUS
  <2>7. [heap |-> g, first |-> x, second |-> d] = [heap |-> Made(e, q, "int", jts), first |-> p, second |-> q]
    BY <1>2, <2>2, <2>4, <2>6 DEF Split
  <2>8. "int" # "atype" OBVIOUS
  <2>9. Quiet(heap, e) BY <2>5, <2>6, <2>8, QuietMade
  <2>10. Quiet(heap, g) BY <2>5, <2>7, <2>8, <2>9, QuietMade
  <2>11. h = [y \in All |-> h[y]] /\ e = [y \in All |-> e[y]] BY <2>9 DEF Quiet
  <2>12. e[p].kind = "int"
    <3>1. e = [h EXCEPT ![p] = [kind |-> "int", items |-> its, refcnt |-> 0]] BY <2>6 DEF Made
    <3>2. e[p] = [kind |-> "int", items |-> its, refcnt |-> 0] BY <2>5, <2>11, <3>1
    <3> QED BY <3>2
  <2>13. g[p].kind = "int"
    <3>1. g = [e EXCEPT ![q] = [kind |-> "int", items |-> jts, refcnt |-> 0]] BY <2>7 DEF Made
    <3>2. p = q => g[p] = [kind |-> "int", items |-> jts, refcnt |-> 0] BY <2>5, <2>11, <3>1
    <3>3. p # q => g[p] = e[p] BY <2>5, <2>11, <3>1
    <3> QED BY <2>12, <3>2, <3>3
  <2> QED BY <1>2, <2>7, <2>10, <2>13
<1> QED BY <1>1, <1>2

LEMMA IPlacePacks ==
  ASSUME Now, Control, PackedOK, Plain, IPlace
  PROVE  PackedOK'
<1>1. PICK z, h, due, n : z = top /\ h = Decr(heap, z) /\ due = V!PlaceOf(Value[z]) /\ n = Len(stk) - 1 OBVIOUS
<1>2. PICK g, a, b : Split(h, z) = [heap |-> g, first |-> a, second |-> b] BY SplitHas
<1>3. PICK g2, x, d : Split(g, a) = [heap |-> g2, first |-> x, second |-> d] BY SplitHas
<1>4. Split(h, z).heap = g /\ Split(h, z).first = a /\ Split(h, z).second = b BY <1>2
<1>5. Split(g, a).heap = g2 /\ Split(g, a).first = x /\ Split(g, a).second = d BY <1>3
<1>6. Ready /\ pc = "idle" BY DEF IPlace
<1>7. IF tally(z) # 2
      THEN heap' = h /\ pc' = "fault"
      ELSE /\ CanSplit(h, z)
           /\ IF Len(g[a].items) # 2
              THEN heap' = g /\ pc' = "fault"
              ELSE /\ CanSplit(g, a) /\ heap' = g2 /\ pc' = "place"
                   /\ r' = [[NoLocals EXCEPT !.op = "place", !.base = n, !.due = due] EXCEPT
                              !.a = b, !.x = x, !.addr = d, !.i = ItemAt(g2, b, d), !.outer = <<Free(a), Free(z)>>]
  BY <1>1, <1>4, <1>5 DEF IPlace
<1>8. Quiet(heap, h) BY <1>1, QuietAll, QuietIncr
<1>9. tally(z) = 2 => Quiet(heap, g) BY <1>2, <1>7, <1>8, QuietSplit
<1>10. Quiet(heap, heap')
  <2>1. CASE tally(z) = 2 /\ Len(g[a].items) = 2 BY <1>3, <1>7, <1>9, <2>1, QuietSplit
  <2> QED BY <1>7, <1>8, <1>9, <2>1
<1>11. ListsPacked' BY <1>6, <1>10, QuietPacked DEF PackedOK
<1>12. CASE pc' = "fault" BY <1>11, <1>12, PlainPacked DEF Updating
<1>13. CASE pc' # "fault"
  <2>1. /\ tally(z) = 2 /\ Len(g[a].items) = 2 /\ CanSplit(g, a) /\ heap' = g2 /\ pc' = "place"
        /\ r' = [[NoLocals EXCEPT !.op = "place", !.base = n, !.due = due] EXCEPT
                   !.a = b, !.x = x, !.addr = d, !.i = ItemAt(g2, b, d), !.outer = <<Free(a), Free(z)>>]
    BY <1>7, <1>13
  <2>2. r'.op = "place" /\ r'.a = b /\ r'.x = x /\ r'.addr = d /\ r'.outer = <<Free(a), Free(z)>>
    BY <2>1 DEF NoLocals
  <2>3. ASSUME r'.i # 0, b = x PROVE refcnt(b)' > 1
    <3>1. Now' /\ Control' BY IPlaceKeeps DEF IInv, Now
    <3>2. InPlace' BY <2>1, <3>1 DEF Control
    <3>3. b \in All /\ x \in All /\ d \in All /\ frames' = <<>> BY <2>2, <3>2 DEF InPlace, Ready
    <3>4. Begins(b, x, d)' BY <2>2, <3>2, <3>3 DEF InPlace, At
    <3>5. kind(b)' \in {"ints", "atype"} BY <2>3, <3>4 DEF Begins
    <3>6. PICK p, first \in All : ByPlace(p, first)' /\ kind(p)' = "atype" /\ items(p)' = <<first, b>>
      BY <2>2, <3>4 DEF Begins, ByInsert
    <3>7. r'.outer = <<Free(first), Free(p)>> /\ refcnt(p)' = 0 /\ RefersTo(p, first)' BY <3>6 DEF ByPlace
    <3>8. first = a
      <4>1. PICK s, t, u, v : s = Free(a) /\ t = Free(z) /\ u = Free(first) /\ v = Free(p) OBVIOUS
      <4>2. <<s, t>> = <<u, v>> BY <2>2, <3>7, <4>1
      <4>3. s = u BY <4>2
      <4> QED BY <4>1, <4>3 DEF Free
    <3>9. Core(heap', stk', valu', todo', frames') /\ HeapOK(heap') BY <3>1 DEF Now, Core
    <3>10. refcnt(first)' > 0
      <4>1. \E u \in All : \E j \in DOMAIN heap'[u].items : Has1(heap', frames', u, j) /\ heap'[u].items[j] = first
        BY <3>6, <3>7 DEF RefersTo, items
      <4> QED BY <3>6, <3>9, <4>1, Referred DEF refcnt
    <3>11. p # first BY <3>7, <3>10
    <3>12. kind(first)' = "atype" /\ Len(items(first)') = 2 /\ items(first)'[1] = b
      <4>1. Quiet(heap, g) BY <1>9, <2>1
      <4>2. \/ g[a].kind = "atype" /\ g2 = g /\ x = g[a].items[1]
            \/ g2[x].kind = "int"
        BY <1>3, <2>1, <4>1, QuietSplit
      <4>3. g2[x].kind # "int" BY <2>1, <2>3, <3>5 DEF kind
      <4> QED BY <2>1, <2>3, <3>8, <4>2, <4>3 DEF kind, items
    <3>13. PICK e : e = heap' OBVIOUS
    <3>14. /\ e[p].kind = "atype" /\ e[p].items = <<first, b>> /\ e[first].kind = "atype"
           /\ Len(e[first].items) = 2 /\ e[first].items[1] = b
      BY <3>6, <3>12, <3>13 DEF kind, items
    <3>15. DOMAIN e[p].items = {1, 2} /\ e[p].items[2] = b BY <3>14
    <3>16. DOMAIN e[first].items = 1 .. 2 BY <3>9, <3>13, <3>14, HeapFacts
    <3>17. 1 \in 1 .. MaxItems /\ 2 \in 1 .. MaxItems BY <3>6, <3>9, <3>13, <3>15, HeapFacts
    <3>18. Has1(e, <<>>, p, 2) /\ Has1(e, <<>>, first, 1)
      <4>1. DOMAIN <<>> = {} OBVIOUS
      <4>2. \A k \in DOMAIN <<>> : FALSE BY <4>1
      <4>3. b # gone BY <3>3, NoGone
      <4> QED BY <3>14, <3>15, <3>16, <4>2, <4>3 DEF Has1
    <3>19. NL(e, <<>>, b) >= 2 BY <3>6, <3>11, <3>14, <3>15, <3>17, <3>18, ListsTwo
    <3>20. /\ e[b].refcnt = One(b = no_value) + NS(stk', b) + NV(valu', b) + NS(todo', Drop(b)) + NL(e, <<>>, b)
           /\ NS(stk', b) \in Nat /\ NV(valu', b) \in Nat /\ NS(todo', Drop(b)) \in Nat /\ NL(e, <<>>, b) \in Nat
      BY <3>3, <3>9, <3>13, CoreCounts
    <3>21. One(b = no_value) \in Nat BY DEF One
    <3> QED BY <3>13, <3>19, <3>20, <3>21 DEF refcnt
  <2> QED BY <1>11, <2>1, <2>2, <2>3 DEF PackedOK, Updating, refcnt
<1> QED BY <1>12, <1>13

LEMMA RestingPacks ==
  ASSUME Now, PackedOK, "implode_jump" \notin Uses, PlaceFails \/ PushFault \/ Jump
  PROVE  PackedOK'
<1> DEFINE Fits == /\ Ready /\ pc \in {"idle", "index", "place", "fault"} /\ Quiet(heap, heap')
                   /\ pc' \in {"idle", "fault", "clearstack"}
<1>1. Quiet(heap, heap) BY QuietAll
<1>2. ASSUME PlaceFails PROVE Fits
  <2>1. heap' = heap BY <1>2 DEF PlaceFails
  <2> QED BY <1>1, <1>2, <2>1 DEF PlaceFails
<1>3. ASSUME PushFault PROVE Fits
  <2>1. heap' = heap \/ PushText(heap, stk, fault) BY <1>3 DEF PushFault
  <2>2. Quiet(heap, heap') BY <1>1, <2>1, QuietPush
  <2> QED BY <1>3, <2>2 DEF PushFault
<1>4. ASSUME Jump PROVE Fits
  <2>1. heap' = heap /\ pc' = "clearstack" BY <1>4 DEF Jump, JumpTo
  <2> QED BY <1>1, <1>4, <2>1 DEF Jump, Placing
<1>5. Fits BY <1>2, <1>3, <1>4
<1>6. ListsPacked' BY <1>5, QuietPacked DEF PackedOK
<1>7. pc' \notin Updating /\ pc' # "place" BY <1>5 DEF Updating
<1> QED BY <1>6, <1>7, PlainPacked

(* A new container is put in the place of the one that place is applied to.  *)
LEMMA ContainerPacks ==
  ASSUME Now, Control, PackedOK, Ready, pc = "place", pc' = "replace", UNCHANGED unseen,
         NEW z \in All, r' = [r EXCEPT !.a = z, !.changed = TRUE],
         \A y \in All : InUse(y) => AsBefore(y),
         \A y \in All : ~InUse(y) /\ kind(y)' = "atype" => y = z
  PROVE  PackedOK'
<1>1. Registers BY DEF Control
<1>2. r'.a = z /\ r'.changed BY <1>1, ContainerIs DEF Working
<1>3. \A w \in All : kind(w)' = "atype" => w = z \/ Mixed(w)' BY NewList DEF PackedOK
<1>4. ListsPacked' BY <1>2, <1>3 DEF ListsPacked, Updating
<1> QED BY <1>2, <1>4 DEF PackedOK, Updating

LEMMA UnsharePacks ==
  ASSUME Now, Control, PackedOK, Unshare
  PROVE  PackedOK'
<1>1. /\ Ready /\ pc = "place" /\ r.i # 0 /\ pc' = "replace" /\ UNCHANGED <<stk, valu, frames, unseen>>
  BY DEF Unshare, Placing
<1>2. /\ todo = <<>> /\ frames = <<>>
      /\ \A w \in All : kind(w) = "atype" => \A j \in DOMAIN items(w) : items(w)[j] \in All
  BY <1>1, Resting DEF Clearing
<1>3. InPlace BY <1>1 DEF Control
<1>4. PICK a, x, d \in All : At(a, x, d) BY <1>3 DEF InPlace, At
<1>5. a = r.a /\ x = r.x /\ Begins(a, x, d) /\ ~r.changed BY <1>3, <1>4 DEF InPlace, At
<1>6. CASE Explodes
  <2>1. kind(a) = "ints" BY <1>5, <1>6 DEF Explodes
  <2>2. PICK q : q = items(a) OBVIOUS
  <2>3. q \in Seq(Nums) BY <2>1, <2>2, NowItems
  <2>4. PICK n : n = Len(q) OBVIOUS
  <2>5. n \in Nat /\ n <= Len(q) BY <2>3, <2>4
  <2>6. tally(r.a) = n BY <1>5, <2>2, <2>4 DEF tally
  <2>7. PICK s : s = Fresh(n + 1) OBVIOUS
  <2>8. PICK z : z = s[1] OBVIOUS
  <2>9. PICK g : g = Exploded(n, s) OBVIOUS
  <2>10. HasRoom(n + 1) /\ heap' = g /\ r' = [r EXCEPT !.a = z, !.changed = TRUE]
    BY <1>5, <1>6, <2>6, <2>7, <2>8, <2>9 DEF Unshare
  <2>11. /\ z \in All
         /\ \A y \in All : InUse(y) => g[y] = heap[y]
         /\ \A y \in All : ~InUse(y) /\ g[y].kind # "free" => y = z \/ (g[y].kind = "int" /\ g[y].refcnt = 1)
    BY <1>2, <1>5, <2>1, <2>2, <2>5, <2>7, <2>8, <2>9, <2>10, ExplodedIs
  <2>12. \A y \in All : InUse(y) => AsBefore(y) BY <2>10, <2>11 DEF AsBefore, kind, items
  <2>13. \A y \in All : ~InUse(y) /\ kind(y)' = "atype" => y = z BY <2>10, <2>11 DEF kind
  <2> QED BY <1>1, <2>10, <2>11, <2>12, <2>13, ContainerPacks
<1>7. CASE ~Explodes /\ Shared(r.a)
  <2>1. kind(a) \in {"ints", "atype"} BY <1>1, <1>5 DEF Begins
  <2>2. PICK z : z = Fresh(1)[1] OBVIOUS
  <2>3. PICK g : g = Copy(a, z) OBVIOUS
  <2>4. HasRoom(1) /\ heap' = g /\ r' = [r EXCEPT !.a = z, !.changed = TRUE]
    BY <1>5, <1>7, <2>2, <2>3 DEF Unshare
  <2>5. z \in All /\ ~InUse(z)
    <3>1. z \in Unused BY <2>2, <2>4, FreshIs
    <3> QED BY <3>1 DEF Unused, All
  <2>6. \A y \in All : y # z => g[y].kind = kind(y) /\ g[y].items = items(y)
    BY <1>2, <2>1, <2>3, <2>5, CopyIs
  <2>7. \A y \in All : y # z => AsBefore(y) BY <2>4, <2>6 DEF AsBefore, kind, items
  <2>8. \A y \in All : InUse(y) => AsBefore(y) BY <2>5, <2>7
  <2>9. \A y \in All : ~InUse(y) /\ kind(y)' = "atype" => y = z BY <2>7 DEF AsBefore, InUse
  <2> QED BY <1>1, <2>4, <2>5, <2>8, <2>9, ContainerPacks
<1>8. CASE ~Explodes /\ ~Shared(r.a)
  <2>1. UNCHANGED <<heap, todo, r>> BY <1>8 DEF Unshare
  <2>2. refcnt(a) \in Nat BY NowCounts
  <2>3. refcnt(a) <= 1 BY <1>5, <1>8, <2>2 DEF Shared
  <2>4. r.a # r.x BY <1>1, <1>5, <2>2, <2>3 DEF PackedOK
  <2>5. Quiet(heap, heap') BY <2>1, QuietAll
  <2>6. ListsPacked' BY <1>1, <2>5, QuietPacked DEF PackedOK
  <2> QED BY <1>1, <1>5, <2>1, <2>3, <2>4, <2>6 DEF PackedOK, refcnt
<1> QED BY <1>6, <1>7, <1>8

LEMMA ExplodeJumpPacks ==
  ASSUME Now, Control, PackedOK, ExplodeJump
  PROVE  PackedOK'
<1>1. Ready /\ pc = "place" /\ r.i # 0 /\ Explodes BY DEF ExplodeJump, Placing
<1>2. todo = <<>> /\ frames = <<>> BY <1>1, Resting DEF Clearing
<1>3. InPlace BY <1>1 DEF Control
<1>4. PICK a \in All : a = r.a BY <1>3 DEF InPlace
<1>5. kind(a) = "ints" BY <1>1, <1>4 DEF Explodes
<1>6. PICK q : q = items(a) OBVIOUS
<1>7. q \in Seq(Nums) BY <1>5, <1>6, NowItems
<1>8. PICK n \in Nat : n = Len(q) BY <1>7
<1>9. tally(r.a) = n BY <1>4, <1>6, <1>8 DEF tally
<1>10. PICK k \in 0 .. n - 1 : HasRoom(k + 1) /\ JumpTo(Exploded(k, Fresh(k + 1))) BY <1>9 DEF ExplodeJump
<1>11. k \in Nat /\ k <= Len(q) BY <1>8
<1>12. PICK s : s = Fresh(k + 1) OBVIOUS
<1>13. PICK z : z = s[1] OBVIOUS
<1>14. PICK g : g = Exploded(k, s) OBVIOUS
<1>15. heap' = g /\ pc' = "clearstack" BY <1>10, <1>12, <1>14 DEF JumpTo
<1>16. /\ g[z].refcnt = 0
       /\ \A y \in All : InUse(y) => g[y] = heap[y]
       /\ \A y \in All : ~InUse(y) /\ g[y].kind # "free" => y = z \/ (g[y].kind = "int" /\ g[y].refcnt = 1)
  BY <1>2, <1>4, <1>5, <1>6, <1>10, <1>11, <1>12, <1>13, <1>14, ExplodedIs
<1>17. \A w \in All : kind(w)' = "atype" => w = z \/ Mixed(w)'
  <2>1. \A y \in All : InUse(y) => AsBefore(y) BY <1>15, <1>16 DEF AsBefore, kind, items
  <2>2. \A y \in All : ~InUse(y) /\ kind(y)' = "atype" => y = z BY <1>15, <1>16 DEF kind
  <2> QED BY <1>1, <2>1, <2>2, NewList DEF PackedOK
<1>18. Leaving(z)'
  <2>1. refcnt(z)' = 0 BY <1>15, <1>16 DEF refcnt
  <2> QED BY <1>15, <2>1 DEF Leaving, Clearing
<1>19. ListsPacked' BY <1>17, <1>18 DEF ListsPacked
<1> QED BY <1>15, <1>19, PlainPacked DEF Updating

(* While a container is updated every other list of arrays is mixed.         *)
LEMMA OthersMixed ==
  ASSUME Now, Ready, ListsPacked, pc \in Updating
  PROVE  \A w \in All : kind(w) = "atype" /\ w # r.a => Mixed(w)
<1> SUFFICES ASSUME NEW w \in All, kind(w) = "atype", w # r.a PROVE Mixed(w) OBVIOUS
<1>1. pc \notin Clearing /\ pc \notin {"unprotect", "push", "finish", "store"} BY DEF Updating, Clearing
<1>2. ~Leaving(w) BY <1>1, RestLeaving DEF OfPlace, OfInsert
<1> QED BY <1>2 DEF ListsPacked

LEMMA ReplaceIs ==
  ASSUME Now, Control, Replace, NEW y \in All
  PROVE  kind(y)' = kind(y) /\ (y # r.a => AsBefore(y)) /\ (y # r.x => refcnt(y)' = refcnt(y))
<1>1. /\ Ready /\ pc = "replace" /\ pc' = "implode"
      /\ IF kind(r.a) = "atype" THEN heap' = NewItem(heap)
         ELSE heap' = [heap EXCEPT ![r.a].items[r.i] = items(r.x)[1]]
  BY DEF Replace
<1>2. HeapOK(heap) BY DEF Now, Core
<1>3. pc \in Working BY <1>1 DEF Working
<1>4. PICK a, x, d \in All : a = r.a /\ x = r.x /\ d = r.addr /\ Works(a, x, d) BY <1>3, WorkingNow
<1>5. PICK i, q : i = r.i /\ q = items(a) OBVIOUS
<1>6. /\ InUse(x) /\ kind(a) \in {"ints", "atype"} /\ i \in DOMAIN q
      /\ kind(a) = "ints" => kind(x) = "int"
  BY <1>1, <1>4, <1>5 DEF Works
<1>7. i \in DOMAIN heap[a].items BY <1>5, <1>6 DEF items
<1>8. CASE kind(a) = "ints"
  <2>1. PICK n : n = items(x)[1] OBVIOUS
  <2>2. n \in Words
    <3>1. items(x) \in Seq(Nums) /\ Len(items(x)) = 1 BY <1>6, <1>8, NowItems
    <3>2. PICK s : s = items(x) OBVIOUS
    <3>3. s \in Seq(Nums) /\ Len(s) = 1 BY <3>1, <3>2
    <3>4. 1 \in 1 .. Len(s) BY <3>3
    <3>5. s[1] \in Nums BY <3>3, <3>4, ElementOfSeq
    <3> QED BY <2>1, <3>2, <3>5 DEF Words
  <2>3. PICK g : g = With(heap, a, i, n) OBVIOUS
  <2>4. heap' = g BY <1>1, <1>4, <1>5, <1>8, <2>1, <2>3 DEF With
  <2>5. /\ g[a] = [kind |-> heap[a].kind, items |-> [heap[a].items EXCEPT ![i] = n], refcnt |-> heap[a].refcnt]
        /\ \A u \in All : u # a => g[u] = heap[u]
    BY <1>2, <1>7, <2>2, <2>3, ItemsIs
  <2>6. g[a].kind = heap[a].kind /\ g[a].refcnt = heap[a].refcnt BY <2>5
  <2> QED BY <1>4, <2>4, <2>5, <2>6 DEF AsBefore, kind, items, refcnt
<1>9. CASE kind(a) = "atype"
  <2>1. PICK h : h = Incr(heap, x) OBVIOUS
  <2>2. heap[x].kind # "free" BY <1>6 DEF InUse, kind
  <2>3. HeapOK(h) /\ Recount(heap, h) /\ \A u \in All : h[u].refcnt = heap[u].refcnt + One(u = x)
    BY <1>2, <2>1, <2>2, IncrIs
  <2>4. PICK g : g = With(h, a, i, x) OBVIOUS
  <2>5. heap' = g BY <1>1, <1>4, <1>5, <1>9, <2>1, <2>4 DEF NewItem, With
  <2>6. i \in DOMAIN h[a].items /\ x \in Words BY <1>7, <2>3 DEF Recount, Words
  <2>7. /\ g[a] = [kind |-> h[a].kind, items |-> [h[a].items EXCEPT ![i] = x], refcnt |-> h[a].refcnt]
        /\ \A u \in All : u # a => g[u] = h[u]
    BY <2>3, <2>4, <2>6, ItemsIs
  <2>8. g[a].kind = h[a].kind /\ g[a].refcnt = h[a].refcnt BY <2>7
  <2>9. g[y].kind = h[y].kind /\ g[y].refcnt = h[y].refcnt /\ (y # a => g[y].items = h[y].items) BY <2>7, <2>8
  <2>10. y # x => h[y].refcnt = heap[y].refcnt
    <3>1. heap[y].refcnt \in Nat BY <1>2, HeapFacts
    <3> QED BY <2>3, <3>1 DEF One
  <2> QED BY <1>4, <2>3, <2>5, <2>9, <2>10 DEF AsBefore, Recount, kind, items, refcnt
<1> QED BY <1>6, <1>8, <1>9

LEMMA ReplacePacks ==
  ASSUME Now, Control, PackedOK, Replace
  PROVE  PackedOK'
<1>1. Ready /\ pc = "replace" /\ pc' = "implode" /\ r' = r BY DEF Replace
<1>2. pc \in Updating /\ pc' \in Updating /\ pc \in Working BY <1>1 DEF Updating, Working
<1>3. frames = <<>> BY <1>1 DEF Ready
<1>4. \A y \in All : InUse(y) => kind(y)' = kind(y) BY ReplaceIs
<1>5. ASSUME NEW w \in All, kind(w)' = "atype", w # r.a PROVE Mixed(w)'
  <2>1. kind(w) = "atype" /\ AsBefore(w) BY <1>5, ReplaceIs
  <2>2. Mixed(w) BY <1>1, <1>2, <1>5, <2>1, OthersMixed DEF PackedOK
  <2> QED BY <1>3, <1>4, <2>1, <2>2, MixedKept
<1>6. ListsPacked' BY <1>1, <1>2, <1>5 DEF ListsPacked
<1>7. PICK a \in All : a = r.a BY <1>2, WorkingNow
<1>8. ~r.changed => refcnt(a)' <= 1 /\ r.a # r.x
  <2>1. ~r.changed => refcnt(a) <= 1 /\ r.a # r.x BY <1>2, <1>7 DEF PackedOK
  <2> QED BY <1>7, <2>1, ReplaceIs
<1> QED BY <1>1, <1>6, <1>7, <1>8 DEF PackedOK, refcnt

LEMMA TestItemsPacks ==
  ASSUME Now, Control, PackedOK, TestItems
  PROVE  PackedOK'
<1>1. /\ Ready /\ pc = "implode" /\ UNCHANGED <<valu, todo, frames, r, unseen>>
      /\ IF homotest(r.a) THEN Push(heap, stk, r.x) /\ pc' = "pack" ELSE UNCHANGED <<heap, stk>> /\ pc' = "push"
  BY DEF TestItems
<1>2. pc \in Updating /\ pc \in Working BY <1>1 DEF Updating, Working
<1>3. /\ todo = <<>> /\ frames = <<>>
      /\ \A w \in All : kind(w) = "atype" => \A j \in DOMAIN items(w) : items(w)[j] \in All
  BY <1>1, Resting DEF Clearing
<1>4. PICK a, x, d \in All : a = r.a /\ x = r.x /\ Works(a, x, d) BY <1>2, WorkingNow
<1>5. ~r.changed => refcnt(a) <= 1 /\ a # x BY <1>2, <1>4 DEF PackedOK
<1>6. \A y \in All : AsBefore(y) /\ (y # x => refcnt(y)' = refcnt(y))
  <2>1. CASE homotest(r.a)
    <3>1. Push(heap, stk, x) BY <1>1, <1>4, <2>1
    <3>2. heap[x].kind # "free" BY <1>4 DEF Works, InUse, kind
    <3>3. Core(heap, stk, valu, <<>>, <<>>) BY <1>3 DEF Now
    <3>4. /\ kind(x)' = heap[x].kind /\ items(x)' = heap[x].items
          /\ \A y \in All : y # x => kind(y)' = heap[y].kind /\ items(y)' = heap[y].items /\ refcnt(y)' = heap[y].refcnt
      BY <3>1, <3>2, <3>3, PushedIs
    <3> QED BY <3>4 DEF AsBefore, kind, items, refcnt
  <2>2. CASE ~homotest(r.a) BY <1>1, <2>2 DEF AsBefore, kind, items, refcnt
  <2> QED BY <2>1, <2>2
<1>7. \A y \in All : InUse(y) => kind(y)' = kind(y) BY <1>6 DEF AsBefore
<1>8. ASSUME NEW w \in All, kind(w)' = "atype", Mixed(w) PROVE Mixed(w)'
  <2>1. kind(w) = "atype" /\ AsBefore(w) BY <1>6, <1>8 DEF AsBefore
  <2> QED BY <1>3, <1>7, <1>8, <2>1, MixedKept
<1>9. ASSUME NEW w \in All, kind(w)' = "atype", w # a PROVE Mixed(w)'
  <2>1. kind(w) = "atype" BY <1>6, <1>9 DEF AsBefore
  <2>2. Mixed(w) BY <1>1, <1>2, <1>4, <1>9, <2>1, OthersMixed DEF PackedOK
  <2> QED BY <1>8, <1>9, <2>2
<1>10. CASE homotest(r.a)
  <2>1. pc' = "pack" /\ r' = r BY <1>1, <1>10
  <2>2. ListsPacked' BY <1>4, <1>9, <2>1 DEF ListsPacked, Updating
  <2>3. ~r.changed => refcnt(a)' <= 1 /\ a # x BY <1>5, <1>6
  <2> QED BY <1>4, <2>1, <2>2, <2>3 DEF PackedOK, refcnt
<1>11. CASE ~homotest(r.a)
  <2>1. pc' = "push" BY <1>1, <1>11
  <2>2. kind(a) = "atype" => Mixed(a) BY <1>3, <1>4, <1>11 DEF homotest, Mixed
  <2>3. kind(a)' = "atype" => Mixed(a)' BY <1>6, <1>8, <2>2 DEF AsBefore
  <2>4. ListsPacked' BY <1>9, <2>3 DEF ListsPacked
  <2> QED BY <2>1, <2>4, PlainPacked DEF Updating
<1> QED BY <1>10, <1>11

LEMMA ImplodePacks ==
  ASSUME Now, Control, PackedOK, Implode
  PROVE  PackedOK'
<1>1. PICK z : z = Fresh(1)[1] OBVIOUS
<1>2. /\ Ready /\ pc = "pack" /\ HasRoom(1)
      /\ heap' = Made(heap, z, "ints", [j \in DOMAIN items(r.a) |-> items(items(r.a)[j])[1]])
      /\ r' = [r EXCEPT !.a = z, !.changed = TRUE]
      /\ todo' = <<Free(r.a)>> /\ pc' = "unprotect" /\ UNCHANGED <<stk, valu, frames, unseen>>
  BY <1>1 DEF Implode
<1>3. /\ todo = <<>> /\ frames = <<>> /\ Registers BY <1>2, Resting
<1>4. pc \in Working /\ pc' \in Working /\ pc \in Updating BY <1>2 DEF Working, Updating
<1>5. PICK a, x, d \in All : a = r.a /\ x = r.x /\ d = r.addr /\ Works(a, x, d) BY <1>4, WorkingNow
<1>6. r'.var = r.var /\ r'.op = r.op /\ r'.outer = r.outer /\ r'.changed /\ Outer' = Outer
  BY <1>2, <1>3, <1>4, ContainerIs
<1>7. z \in All /\ heap[z].kind = "free" /\ ~InUse(z) BY <1>1, <1>2, FreshOne DEF InUse, kind
<1>8. PICK its : its = [j \in DOMAIN items(r.a) |-> items(items(r.a)[j])[1]] OBVIOUS
<1>9. /\ kind(z)' = "ints"
      /\ \A y \in All : y # z => AsBefore(y) /\ refcnt(y)' = refcnt(y)
  <2>1. PICK h : h = heap OBVIOUS
  <2>2. h \in [All -> Blocks] BY <2>1 DEF Now, Core, HeapOK
  <2>3. heap' = [h EXCEPT ![z] = [kind |-> "ints", items |-> its, refcnt |-> 0]] BY <1>2, <1>8, <2>1 DEF Made
  <2>4. heap'[z] = [kind |-> "ints", items |-> its, refcnt |-> 0] BY <1>7, <2>2, <2>3
  <2>5. \A y \in All : y # z => heap'[y] = h[y] BY <2>2, <2>3
  <2> QED BY <2>1, <2>4, <2>5 DEF AsBefore, kind, items, refcnt
<1>10. \A y \in All : InUse(y) => kind(y)' = kind(y) BY <1>7, <1>9 DEF AsBefore
<1>11. \A w \in All : kind(w)' = "atype" => w # z /\ kind(w) = "atype" /\ AsBefore(w) BY <1>9 DEF AsBefore
<1>12. ASSUME NEW w \in All, kind(w)' = "atype", w # a PROVE Mixed(w)'
  <2>1. kind(w) = "atype" /\ AsBefore(w) BY <1>11, <1>12
  <2>2. Mixed(w) BY <1>2, <1>4, <1>5, <1>12, <2>1, OthersMixed DEF PackedOK
  <2> QED BY <1>3, <1>10, <2>1, <2>2, MixedKept
<1>13. /\ InUse(a) /\ (r.changed => refcnt(a) = 0)
       /\ \/ ByInsert /\ (~r.changed => a = valu[r.var])
          \/ \E p, first \in All : ByPlace(p, first) /\ (~r.changed => RefersTo(p, a))
  BY <1>5 DEF Works
<1>14. a # z /\ refcnt(a) \in Nat BY <1>7, <1>13, NowCounts
<1>15. refcnt(a)' = refcnt(a) /\ AsBefore(a) BY <1>9, <1>14
<1>16. r.changed \in BOOLEAN BY <1>3 DEF Registers
<1>17. Leaving(a)'
  <2>1. CASE r.changed
    <3>1. refcnt(a)' = 0 BY <1>13, <1>15, <2>1
    <3>2. \E k \in DOMAIN todo' : todo'[k] = Free(a) BY <1>2, <1>5
    <3> QED BY <3>1, <3>2 DEF Leaving, Doomed
  <2>2. CASE ~r.changed
    <3>1. refcnt(a)' <= 1 BY <1>4, <1>5, <1>15, <2>2 DEF PackedOK
    <3>2. CASE ByInsert /\ a = valu[r.var]
      <4>1. a = valu'[r'.var] BY <1>2, <1>6, <3>2
      <4>2. ByInsert' BY <1>6, <3>2 DEF ByInsert
      <4>3. OfInsert(a)' BY <1>2, <1>6, <4>1, <4>2 DEF OfInsert
      <4> QED BY <3>1, <4>3 DEF Leaving
    <3>3. ASSUME NEW p \in All, NEW first \in All, ByPlace(p, first), RefersTo(p, a) PROVE Leaving(a)'
      <4>1. InUse(p) /\ refcnt(p) = 0 /\ r.outer = <<Free(first), Free(p)>> BY <3>3 DEF ByPlace
      <4>2. p # z BY <1>7, <4>1
      <4>3. p \in Outer' BY <1>6, <4>1, OuterTwo
      <4>4. Doomed(p)' BY <1>2, <1>6, <1>9, <4>1, <4>2, <4>3 DEF Doomed, OfPlace
      <4>5. frames' = <<>> BY <1>2, <1>3
      <4>6. RefersTo(p, a)' BY <1>3, <1>9, <3>3, <4>2, <4>5, RefersKept
      <4> QED BY <3>1, <4>4, <4>6 DEF Leaving
    <3> QED BY <1>13, <2>2, <3>2, <3>3
  <2> QED BY <1>16, <2>1, <2>2
<1>18. ListsPacked' BY <1>12, <1>17 DEF ListsPacked
<1> QED BY <1>2, <1>18, PlainPacked DEF Updating

LEMMA UnprotectPacks ==
  ASSUME Now, Control, PackedOK, Unprotect
  PROVE  PackedOK'
<1>1. /\ Ready /\ pc = "unprotect" /\ UNCHANGED <<valu, todo, frames, r, unseen>>
      /\ heap' = Decr(heap, top) /\ stk' = Below(1) /\ pc' = "push"
  BY DEF Unprotect
<1>2. todo = <<>> /\ frames = <<>> /\ Registers BY <1>1, Resting
<1>3. pc \in Working BY <1>1 DEF Working
<1>4. InWorking BY <1>3 DEF Control
<1>5. PICK x \in All : x = top /\ x = r.x
  <2>1. PICK a, x, d \in All : a = r.a /\ x = r.x /\ d = r.addr /\ Works(a, x, d) BY <1>3, WorkingNow
  <2>2. stk[Len(stk)] = x BY <1>1, <2>1 DEF Works
  <2> QED BY <2>1, <2>2 DEF top
<1>6. stk # <<>> /\ heap' = Decr(heap, x) /\ stk \in Seq(All)
  <2>1. stk \in Seq(All) BY DEF Now, Core
  <2>2. r.base \in Nat BY <1>2 DEF Registers
  <2>3. Len(stk) > 0 BY <1>1, <1>4, <2>2 DEF InWorking, Depth
  <2> QED BY <1>1, <1>5, <2>1, <2>3
<1>7. Core(heap, stk, valu, <<>>, <<>>) BY <1>2 DEF Now
<1>8. /\ \A y \in All : AsBefore(y)
      /\ \A y \in All : y # x => refcnt(y)' = refcnt(y)
      /\ refcnt(x) \in Nat /\ refcnt(x) > 0 /\ refcnt(x)' = refcnt(x) - 1
  BY <1>5, <1>6, <1>7, PopIs
<1>10. \A y \in All : refcnt(y)' <= refcnt(y) /\ refcnt(y)' \in Nat /\ refcnt(y) \in Nat BY <1>8, NowCounts
<1>11. \A y \in All : refcnt(y) = 0 => refcnt(y)' = 0 BY <1>10
<1>12. ASSUME NEW w \in All, kind(w)' = "atype" PROVE Mixed(w)' \/ Leaving(w)'
  <2>1. kind(w) = "atype" /\ AsBefore(w) BY <1>8, <1>12 DEF AsBefore
  <2>2. Mixed(w) \/ Leaving(w) BY <1>1, <2>1 DEF PackedOK, ListsPacked, Updating
  <2>3. CASE Mixed(w)
    <3>1. \A y \in All : InUse(y) => kind(y)' = kind(y) BY <1>8 DEF AsBefore
    <3> QED BY <1>2, <2>1, <2>3, <3>1, MixedKept
  <2>4. CASE Leaving(w)
    <3>1. refcnt(w)' <= 1 BY <1>10, <2>4, RestLeaving, <1>1
    <3>2. \A p : OfPlace(p) => OfPlace(p)' BY <1>1 DEF OfPlace, Outer
    <3>3. pc \notin Clearing BY <1>1 DEF Clearing
    <3>4. CASE refcnt(w) = 0 /\ OfPlace(w) BY <1>11, <3>1, <3>2, <3>4 DEF Leaving, Doomed
    <3>5. ASSUME NEW p \in All, RefersTo(p, w), refcnt(p) = 0, OfPlace(p) PROVE Leaving(w)'
      <4>1. frames' = <<>> /\ AsBefore(p) BY <1>1, <1>2, <1>8
      <4>2. RefersTo(p, w)' BY <1>2, <3>5, <4>1, RefersKept
      <4> QED BY <1>11, <3>1, <3>2, <3>5, <4>2 DEF Leaving, Doomed
    <3>6. CASE OfInsert(w)
      <4>1. OfInsert(w)' BY <1>1, <3>6 DEF OfInsert, ByInsert
      <4> QED BY <3>1, <4>1 DEF Leaving
    <3> QED BY <1>1, <2>4, <3>3, <3>4, <3>5, <3>6, RestLeaving
  <2> QED BY <2>2, <2>3, <2>4
<1>13. ListsPacked' BY <1>12 DEF ListsPacked
<1> QED BY <1>1, <1>13, PlainPacked DEF Updating

LEMMA PushResultPacks ==
  ASSUME Now, Control, PackedOK, PushResult
  PROVE  PackedOK'
<1>1. /\ Ready /\ pc = "push" /\ Push(heap, stk, r.a)
      /\ pc' = IF r.op = "insert" THEN "store" ELSE "finish"
      /\ UNCHANGED <<valu, frames, r, unseen>>
  BY DEF PushResult
<1>2. todo = <<>> /\ frames = <<>> /\ Registers BY <1>1, Resting
<1>3. pc \in Working BY <1>1 DEF Working
<1>4. PICK a, x, d \in All : a = r.a /\ x = r.x /\ d = r.addr /\ Works(a, x, d) BY <1>3, WorkingNow
<1>5. /\ InUse(a) /\ (r.changed => refcnt(a) = 0)
      /\ ByInsert \/ \E p, first \in All : ByPlace(p, first)
  BY <1>4 DEF Works
<1>6. Core(heap, stk, valu, <<>>, <<>>) /\ heap[a].kind # "free" BY <1>2, <1>5 DEF Now, InUse, kind
<1>7. Push(heap, stk, a) BY <1>1, <1>4
<1>8. /\ kind(a)' = heap[a].kind /\ items(a)' = heap[a].items
      /\ \A y \in All : y # a => kind(y)' = heap[y].kind /\ items(y)' = heap[y].items /\ refcnt(y)' = heap[y].refcnt
  BY <1>6, <1>7, PushedIs
<1>9. \A y \in All : AsBefore(y) /\ (y # a => refcnt(y)' = refcnt(y)) BY <1>8 DEF AsBefore, kind, items, refcnt
<1>10. pc' \in {"store", "finish"} BY <1>1
<1>11. \A y \in All, w \in All : RefersTo(w, y) => refcnt(y) > 0
  <2> TAKE y \in All, w \in All
  <2> HAVE RefersTo(w, y)
  <2>1. \E u \in All : \E j \in DOMAIN heap[u].items : Has1(heap, frames, u, j) /\ heap[u].items[j] = y
    BY DEF RefersTo, items
  <2> QED BY <1>2, <1>6, <2>1, Referred DEF refcnt
(* Only the pair that place is applied to has no reference.                  *)
<1>12. ASSUME NEW p \in All, refcnt(p) = 0, OfPlace(p)
       PROVE  refcnt(p)' = 0 /\ OfPlace(p)' /\ r.changed
  <2>1. r.changed /\ p \in Outer BY <1>12 DEF OfPlace
  <2>2. ~ByInsert BY <2>1 DEF ByInsert, Outer
  <2>3. PICK q, first \in All : ByPlace(q, first) BY <1>5, <2>2
  <2>4. /\ r.op = "place" /\ r.outer = <<Free(first), Free(q)>> /\ RefersTo(q, first) /\ r.a # q
    BY <2>3 DEF ByPlace
  <2>5. p \in {first, q} BY <2>1, <2>4, OuterTwo
  <2>6. p = q BY <1>11, <1>12, <2>4, <2>5
  <2>7. p # a BY <1>4, <2>4, <2>6
  <2>8. pc' = "finish" /\ r' = r BY <1>1, <2>4
  <2>9. OfPlace(p)' BY <2>1, <2>8 DEF OfPlace, Outer
  <2> QED BY <1>9, <1>12, <2>1, <2>7, <2>9
<1>13. ASSUME NEW w \in All, kind(w)' = "atype" PROVE Mixed(w)' \/ Leaving(w)'
  <2>1. kind(w) = "atype" /\ AsBefore(w) BY <1>9, <1>13 DEF AsBefore
  <2>2. Mixed(w) \/ Leaving(w) BY <1>1, <2>1 DEF PackedOK, ListsPacked, Updating
  <2>3. CASE Mixed(w)
    <3>1. \A y \in All : InUse(y) => kind(y)' = kind(y) BY <1>9 DEF AsBefore
    <3> QED BY <1>2, <2>1, <2>3, <3>1, MixedKept
  <2>4. CASE Leaving(w)
    <3>1. refcnt(w) <= 1 /\ refcnt(w) \in Nat BY <1>1, <2>4, RestLeaving
    <3>2. pc \notin Clearing BY <1>1 DEF Clearing
    <3>3. CASE refcnt(w) = 0 /\ OfPlace(w) BY <1>12, <3>3 DEF Leaving, Doomed
    <3>4. ASSUME NEW p \in All, RefersTo(p, w), refcnt(p) = 0, OfPlace(p) PROVE Leaving(w)'
      <4>1. refcnt(p)' = 0 /\ OfPlace(p)' /\ r.changed BY <1>12, <3>4
      <4>2. w # a BY <1>5, <1>11, <3>4, <4>1
      <4>3. refcnt(w)' <= 1 BY <1>9, <3>1, <4>2
      <4>4. frames' = <<>> /\ AsBefore(p) BY <1>1, <1>2, <1>9
      <4>5. RefersTo(p, w)' BY <1>2, <3>4, <4>4, RefersKept
      <4> QED BY <4>1, <4>3, <4>5 DEF Leaving, Doomed
    <3>5. CASE OfInsert(w)
      <4>1. r.changed /\ ByInsert /\ w = valu[r.var] BY <3>5 DEF OfInsert
      <4>2. r.op = "insert" /\ r.var \in Vars BY <4>1 DEF ByInsert
      <4>3. NV(valu, w) > 0 BY <1>6, <4>1, <4>2, CoreCounts
      <4>4. refcnt(w) > 0
        <5>1. /\ heap[w].refcnt = One(w = no_value) + NS(stk, w) + NV(valu, w) + NS(<<>>, Drop(w)) + NL(heap, <<>>, w)
              /\ NS(stk, w) \in Nat /\ NV(valu, w) \in Nat /\ NS(<<>>, Drop(w)) \in Nat /\ NL(heap, <<>>, w) \in Nat
          BY <1>6, CoreCounts
        <5>2. One(w = no_value) \in Nat BY DEF One
        <5> QED BY <4>3, <5>1, <5>2 DEF refcnt
      <4>5. w # a BY <1>5, <4>1, <4>4
      <4>6. refcnt(w)' <= 1 BY <1>9, <3>1, <4>5
      <4>7. OfInsert(w)' BY <1>1, <4>1, <4>2 DEF OfInsert, ByInsert
      <4> QED BY <4>6, <4>7 DEF Leaving
    <3> QED BY <1>1, <2>4, <3>2, <3>3, <3>4, <3>5, RestLeaving
  <2> QED BY <2>2, <2>3, <2>4
<1>14. ListsPacked' BY <1>13 DEF ListsPacked
<1> QED BY <1>10, <1>14, PlainPacked DEF Updating

LEMMA StoreResultPacks ==
  ASSUME Now, Control, PackedOK, StoreResult
  PROVE  PackedOK'
<1>1. /\ Ready /\ pc = "store" /\ pc' = "finish" /\ UNCHANGED <<stk, frames, r, unseen>>
      /\ IF r.changed THEN Store(heap, r.var, top) ELSE UNCHANGED <<heap, valu, todo>>
  BY DEF StoreResult
<1>2. todo = <<>> /\ frames = <<>> /\ Registers BY <1>1, Resting
<1>3. InEnding BY <1>1 DEF Control, Ending
<1>4. PICK v \in Vars : v = r.var BY <1>1, <1>3 DEF InEnding, ByInsert
<1>5. Core(heap, stk, valu, <<>>, <<>>) /\ valu \in [Vars -> All] BY <1>2 DEF Now, Core
<1>6. PICK x \in All : x = top /\ \E j \in DOMAIN stk : stk[j] = x
  <2>1. r.base \in Nat BY <1>2 DEF Registers
  <2>2. Len(stk) = Depth + 1 BY <1>1, <1>3 DEF InEnding
  <2>3. Depth \in Nat BY <2>1 DEF Depth
  <2>4. Len(stk) \in DOMAIN stk /\ stk \in Seq(All) BY <1>5, <2>2, <2>3 DEF Core
  <2> QED BY <2>4 DEF top
<1>7. Quiet(heap, heap')
  <2>1. heap' = heap \/ heap' = Incr(heap, x) BY <1>1, <1>6 DEF Store
  <2> QED BY <2>1, QuietAll, QuietIncr
<1>8. \A y \in All : InUse(y) => AsBefore(y) BY <1>7 DEF Quiet, InUse, AsBefore, kind, items
<1>9. ASSUME NEW w \in All, kind(w)' = "atype" PROVE Mixed(w)' \/ Leaving(w)'
  <2>1. kind(w) = "atype" BY <1>7, <1>9 DEF Quiet, kind
  <2>2. AsBefore(w) BY <1>8, <2>1 DEF InUse
  <2>3. Mixed(w) \/ Leaving(w) BY <1>1, <2>1 DEF PackedOK, ListsPacked, Updating
  <2>4. CASE Mixed(w)
    <3>1. \A y \in All : InUse(y) => kind(y)' = kind(y) BY <1>8 DEF AsBefore
    <3> QED BY <1>2, <2>1, <2>2, <2>4, <3>1, MixedKept
  <2>5. CASE Leaving(w)
    <3>1. pc \notin Clearing /\ pc \notin {"unprotect", "push", "finish"} BY <1>1 DEF Clearing
    <3>2. OfInsert(w) BY <1>1, <2>5, <3>1, RestLeaving DEF OfPlace
    <3>3. r.changed /\ w = valu[v] BY <1>4, <3>2 DEF OfInsert
    <3>4. refcnt(w) <= 1 BY <1>1, <2>5, RestLeaving
    <3>5. Store(heap, v, x) BY <1>1, <1>4, <1>6, <3>3
    <3>6. heap' = Incr(heap, x) /\ todo' = <<Drop(w)>> BY <3>3, <3>5 DEF Store
    <3>7. w # x
      <4> SUFFICES ASSUME w = x PROVE FALSE OBVIOUS
      <4>1. NS(stk, w) > 0 /\ NV(valu, w) > 0 BY <1>5, <1>6, <3>3, CoreCounts
      <4>2. /\ heap[w].refcnt = One(w = no_value) + NS(stk, w) + NV(valu, w) + NS(<<>>, Drop(w)) + NL(heap, <<>>, w)
            /\ NS(stk, w) \in Nat /\ NV(valu, w) \in Nat /\ NS(<<>>, Drop(w)) \in Nat /\ NL(heap, <<>>, w) \in Nat
        BY <1>5, CoreCounts
      <4>3. One(w = no_value) \in Nat BY DEF One
      <4> QED BY <3>4, <4>1, <4>2, <4>3 DEF refcnt
    <3>8. refcnt(w)' = refcnt(w)
      <4>1. heap \in [All -> Blocks] BY DEF Now, Core, HeapOK
      <4> QED BY <3>6, <3>7, <4>1 DEF Incr, refcnt
    <3>9. \E k \in DOMAIN todo' : todo'[k] = Drop(w) BY <3>6
    <3> QED BY <3>4, <3>8, <3>9 DEF Leaving
  <2> QED BY <2>3, <2>4, <2>5
<1>10. ListsPacked' BY <1>9 DEF ListsPacked
<1> QED BY <1>1, <1>10, PlainPacked DEF Updating

LEMMA FinishPacks ==
  ASSUME Now, Control, PackedOK, Finish
  PROVE  PackedOK'
<1>1. /\ Ready /\ pc = "finish" /\ pc' = "idle"
      /\ UNCHANGED <<heap, valu, frames, unseen>>
      /\ ~r.protect => todo' = r.outer
  BY DEF Finish
<1>2. todo = <<>> /\ frames = <<>> /\ Registers BY <1>1, Resting
<1>3. InEnding BY <1>1 DEF Control, Ending
<1>4. \A y \in All : AsBefore(y) /\ refcnt(y)' = refcnt(y) BY <1>1 DEF AsBefore, kind, items, refcnt
<1>5. ASSUME NEW p \in All, refcnt(p) = 0, OfPlace(p) PROVE Doomed(p)'
  <2>1. p \in Outer BY <1>5 DEF OfPlace
  <2>2. OuterOK /\ (r.protect => r.outer = <<>>) BY <1>3 DEF InEnding
  <2>3. ~r.protect BY <2>1, <2>2 DEF Outer
  <2>4. \A y \in All : kind(y)' = kind(y) /\ items(y)' = items(y) /\ refcnt(y)' = refcnt(y)
    BY <1>1 DEF kind, items, refcnt
  <2>5. \A y \in Outer : \E k \in DOMAIN todo' : todo'[k] = Free(y)
    BY <1>1, <1>2, <2>2, <2>3, <2>4, OuterTodo
  <2>6. \E k \in DOMAIN todo' : todo'[k] = Free(p) BY <2>1, <2>5
  <2> QED BY <1>4, <1>5, <2>6 DEF Doomed
<1>6. ASSUME NEW w \in All, kind(w)' = "atype" PROVE Mixed(w)' \/ Leaving(w)'
  <2>1. kind(w) = "atype" /\ AsBefore(w) BY <1>4, <1>6 DEF AsBefore
  <2>2. Mixed(w) \/ Leaving(w) BY <1>1, <2>1 DEF PackedOK, ListsPacked, Updating
  <2>3. CASE Mixed(w)
    <3>1. \A y \in All : InUse(y) => kind(y)' = kind(y) BY <1>4 DEF AsBefore
    <3> QED BY <1>2, <2>1, <2>3, <3>1, MixedKept
  <2>4. CASE Leaving(w)
    <3>1. refcnt(w)' <= 1 BY <1>1, <1>4, <2>4, RestLeaving
    <3>2. pc \notin Clearing /\ ~OfInsert(w) BY <1>1 DEF Clearing, OfInsert
    <3>3. CASE refcnt(w) = 0 /\ OfPlace(w) BY <1>5, <3>1, <3>3 DEF Leaving
    <3>4. ASSUME NEW p \in All, RefersTo(p, w), refcnt(p) = 0, OfPlace(p) PROVE Leaving(w)'
      <4>1. frames' = <<>> /\ AsBefore(p) BY <1>1, <1>2, <1>4
      <4>2. RefersTo(p, w)' BY <1>2, <3>4, <4>1, RefersKept
      <4> QED BY <1>5, <3>1, <3>4, <4>2 DEF Leaving
    <3> QED BY <1>1, <2>4, <3>2, <3>3, <3>4, RestLeaving
  <2> QED BY <2>2, <2>3, <2>4
<1>7. ListsPacked' BY <1>6 DEF ListsPacked
<1> QED BY <1>1, <1>7, PlainPacked DEF Updating

(* The cleanup.                                                              *)
LEMMA CleaningPacks ==
  ASSUME Now, Control, PackedOK, Cleaning
  PROVE  PackedOK'
<1>1. /\ Ready /\ pc \in Clearing /\ pc' \in Clearing \cup {"idle"} /\ UNCHANGED <<heap, valu, frames, r>>
      /\ pc' = "idle" => pc = "clearheap" /\ Unreferenced = {}
  BY DEF Cleaning, ClearStack, ClearHeap, Clearing
<1>2. todo = <<>> /\ frames = <<>> /\ Registers BY <1>1, Resting
<1>3. \A y \in All : AsBefore(y) /\ refcnt(y)' = refcnt(y) BY <1>1 DEF AsBefore, kind, items, refcnt
<1>4. pc' = "idle" => \A w \in All : InUse(w) => refcnt(w) # 0
  <2> SUFFICES ASSUME pc' = "idle", NEW w \in All, InUse(w), refcnt(w) = 0 PROVE FALSE OBVIOUS
  <2>1. pc = "clearheap" /\ Unreferenced = {} BY <1>1
  <2>2. Framed(frames) = {} /\ ~ \E k \in DOMAIN todo : todo[k] = Free(w) BY <1>2 DEF Framed
  <2>3. r = NoLocals /\ ZeroOK BY <1>1 DEF Control
  <2>4. Locals = {} BY <2>1, <2>3, NoLocalsIs DEF Locals, Outer, Working
  <2>5. w \in unseen BY <2>1, <2>2, <2>3, <2>4 DEF ZeroOK
  <2> QED BY <2>1, <2>5 DEF Unreferenced
<1>5. ASSUME NEW w \in All, kind(w)' = "atype" PROVE Mixed(w)' \/ Leaving(w)'
  <2>1. kind(w) = "atype" /\ AsBefore(w) BY <1>3, <1>5 DEF AsBefore
  <2>2. Mixed(w) \/ Leaving(w) BY <1>1, <2>1 DEF PackedOK, ListsPacked, Updating, Clearing
  <2>3. CASE Mixed(w)
    <3>1. \A y \in All : InUse(y) => kind(y)' = kind(y) BY <1>3 DEF AsBefore
    <3> QED BY <1>2, <2>1, <2>3, <3>1, MixedKept
  <2>4. CASE Leaving(w)
    <3>1. \A p : ~OfPlace(p) /\ ~OfInsert(p) BY <1>1 DEF Clearing, OfPlace, OfInsert
    <3>2. refcnt(w) = 0 BY <1>1, <2>4, <3>1, RestLeaving
    <3>3. InUse(w) BY <2>1 DEF InUse
    <3>4. pc' \in Clearing BY <1>1, <1>4, <3>2, <3>3
    <3>5. refcnt(w)' = 0 BY <1>3, <3>2
    <3> QED BY <3>4, <3>5 DEF Leaving
  <2> QED BY <2>2, <2>3, <2>4
<1>6. ListsPacked' BY <1>5 DEF ListsPacked
<1>7. pc' \notin Updating /\ pc' # "place" BY <1>1 DEF Clearing, Updating
<1> QED BY <1>6, <1>7, PlainPacked

(* The freeing.                                                              *)
LEMMA TailHas ==
  ASSUME NEW S, NEW s \in Seq(S), s # <<>>, NEW k \in DOMAIN s, k # 1
  PROVE  \E l \in DOMAIN Tail(s) : Tail(s)[l] = s[k]
<1>1. Len(s) \in Nat /\ DOMAIN s = 1 .. Len(s) OBVIOUS
<1>2. k - 1 \in 1 .. Len(s) - 1 /\ k - 1 + 1 = k BY <1>1
<1>3. Tail(s) \in Seq(S) /\ Len(Tail(s)) = Len(s) - 1 OBVIOUS
<1>4. DOMAIN Tail(s) = 1 .. Len(s) - 1 BY <1>3
<1>5. Tail(s)[k - 1] = s[k] BY <1>1, <1>2
<1> QED BY <1>2, <1>4, <1>5

(* What is not the first of the freeups to do stays one of them.             *)
LEMMA StillToDo ==
  ASSUME Now, GivesUp, NEW f, NEW k \in DOMAIN todo, todo[k] = f, todo' = todo \/ f # todo[1]
  PROVE  \E l \in DOMAIN todo' : todo'[l] = f
<1>1. todo' = todo \/ (todo # <<>> /\ todo' = Tail(todo)) BY DEF GivesUp
<1>2. CASE todo' = todo BY <1>2
<1>3. CASE todo' # todo
  <2>1. todo \in Seq(Frees) BY DEF Now, Core
  <2>2. todo # <<>> /\ todo' = Tail(todo) /\ k # 1 BY <1>1, <1>3
  <2> QED BY <2>1, <2>2, TailHas
<1> QED BY <1>2, <1>3

LEMMA DoomedKept ==
  ASSUME Now, GivesUp, NEW p \in All, Doomed(p), kind(p)' # "free"
  PROVE  Doomed(p)'
<1>1. refcnt(p) = 0 BY DEF Doomed
<1>2. refcnt(p)' = 0
  <2>1. refcnt(p)' \in Nat /\ refcnt(p)' <= refcnt(p) BY DEF GivesUp
  <2> QED BY <1>1, <2>1
<1>3. \/ p \in Framed(frames)'
      \/ p \notin Framed(frames) /\ (todo' = todo \/ p # todo[1].arr)
  BY <1>2 DEF GivesUp
<1>4. CASE p \in Framed(frames)' BY <1>2, <1>4 DEF Doomed
<1>5. CASE p \notin Framed(frames) /\ (todo' = todo \/ p # todo[1].arr)
  <2>1. (\E k \in DOMAIN todo : todo[k] = Free(p)) \/ OfPlace(p) BY <1>5 DEF Doomed
  <2>2. CASE OfPlace(p)
    <3>1. OfPlace(p)' BY <2>2 DEF OfPlace, Outer, GivesUp
    <3> QED BY <1>2, <3>1 DEF Doomed
  <2>3. CASE \E k \in DOMAIN todo : todo[k] = Free(p)
    <3>1. PICK f : f = Free(p) OBVIOUS
    <3>2. f.arr = p BY <3>1 DEF Free
    <3>3. todo' = todo \/ f # todo[1] BY <1>5, <3>2
    <3>4. PICK k \in DOMAIN todo : todo[k] = f BY <2>3, <3>1
    <3>5. \E l \in DOMAIN todo' : todo'[l] = f BY <3>3, <3>4, StillToDo
    <3> QED BY <1>2, <3>1, <3>5 DEF Doomed
  <2> QED BY <2>1, <2>2, <2>3
<1> QED BY <1>3, <1>4, <1>5

(* A reference is given up, a count dropped.                                 *)
LEMMA ReferenceLost ==
  ASSUME Now, TodoOK, Freeing, NEW p \in All, NEW y \in All, RefersTo(p, y)
  PROVE  RefersTo(p, y)' \/ (refcnt(y)' = refcnt(y) - 1)
<1>1. PICK j \in DOMAIN items(p) : Has1(heap, frames, p, j) /\ items(p)[j] = y BY DEF RefersTo
<1>2. y # gone BY NoGone
<1>3. ASSUME \A u \in All : \A i : Has1(heap, frames, u, i)' <=> Has1(heap, frames, u, i), items(p)' = items(p)
      PROVE  RefersTo(p, y)'
  <2>1. Has1(heap, frames, p, j)' BY <1>1, <1>3
  <2> QED BY <1>1, <1>3, <2>1 DEF RefersTo
<1>4. CASE Freeup
  <2>1. /\ \A u \in All : \A i : Has1(heap, frames, u, i)' <=> Has1(heap, frames, u, i)
        /\ \A u \in All : AsBefore(u)
    BY <1>4, FreeupIs
  <2> QED BY <1>3, <2>1 DEF AsBefore
<1>5. CASE FreeItem
  <2>1. PICK w, k, it : w = Frame.arr /\ k = Frame.next /\ it = items(w)[k] OBVIOUS
  <2>2. /\ \A u \in All : AsBefore(u)
        /\ it # gone => it \in All /\ \A u \in All : refcnt(u)' = refcnt(u) - One(u = it)
        /\ \A u \in All : \A i : Has1(heap, frames, u, i)' <=> Has1(heap, frames, u, i) /\ ~(u = w /\ i = k)
    BY <1>5, <2>1, FreeItemIs
  <2>3. CASE p = w /\ j = k
    <3>1. it = y BY <1>1, <2>1, <2>3
    <3> QED BY <1>2, <2>2, <3>1 DEF One
  <2>4. CASE ~(p = w /\ j = k)
    <3>1. Has1(heap, frames, p, j)' /\ items(p)' = items(p) BY <1>1, <2>2, <2>4 DEF AsBefore
    <3> QED BY <1>1, <3>1 DEF RefersTo
  <2> QED BY <2>3, <2>4
<1>6. CASE Release
  <2>1. PICK w : w = Frame.arr OBVIOUS
  <2>2. /\ kind(w)' = "free" /\ \A u \in All : u # w => heap'[u] = heap[u]
        /\ \A u \in All : \A i : Has1(heap, frames, u, i)' <=> Has1(heap, frames, u, i)
    BY <1>6, <2>1, ReleaseIs
  <2>3. Has1(heap, frames, p, j)' BY <1>1, <2>2
  <2>4. kind(p)' = "atype" BY <2>3 DEF Has1, kind
  <2>5. p # w BY <2>2, <2>4
  <2> QED BY <1>3, <2>2, <2>5 DEF items
<1> QED BY <1>4, <1>5, <1>6 DEF Freeing

LEMMA DropDone ==
  ASSUME Now, TodoOK, Freeing, todo' # todo, NEW w \in All, todo[1] = Drop(w)
  PROVE  refcnt(w)' = refcnt(w) - 1
<1>1. Freeup BY DEF Freeing, FreeItem, Release
<1>2. LET t == todo[1] IN heap'[t.arr].refcnt = refcnt(t.arr) - One(t.drop) BY <1>1, FreeupIs
<1>3. PICK t : t = todo[1] OBVIOUS
<1>4. t.arr = w /\ t.drop = TRUE BY <1>3 DEF Drop
<1>5. heap'[w].refcnt = refcnt(w) - One(TRUE) BY <1>2, <1>3, <1>4
<1> QED BY <1>5 DEF One, refcnt

LEMMA FreeingPacks ==
  ASSUME Now, Control, PackedOK, Freeing
  PROVE  PackedOK'
<1>1. TodoOK /\ Registers /\ GivesUp BY FreeingGives DEF Control
<1>2. /\ UNCHANGED <<stk, valu, pc, r, unseen>>
      /\ \A y \in All : AsBefore(y) \/ kind(y)' = "free"
      /\ \A y \in All : refcnt(y)' \in Nat /\ refcnt(y)' <= refcnt(y) /\ refcnt(y) \in Nat
  BY <1>1, NowCounts DEF GivesUp
<1>3. pc # "place"
  <2>1. ~Ready BY DEF Freeing, Freeup, FreeItem, Release, Ready
  <2> QED BY <2>1 DEF Control, InPlace
<1>4. ASSUME NEW w \in All, kind(w)' = "atype", Mixed(w) PROVE Mixed(w)'
  <2>1. items(w)' = items(w) BY <1>2, <1>4 DEF AsBefore
  <2>2. PICK q : q = items(w) OBVIOUS
  <2>3. PICK j \in DOMAIN q : q[j] \in All /\ kind(q[j]) # "int" BY <1>4, <2>2 DEF Mixed
  <2>4. PICK y \in All : y = q[j] BY <2>3
  <2>5. kind(y)' # "int" BY <1>2, <2>3, <2>4 DEF AsBefore
  <2> QED BY <2>1, <2>2, <2>3, <2>4, <2>5 DEF Mixed
<1>5. ASSUME NEW w \in All, kind(w)' = "atype", Leaving(w) PROVE Leaving(w)'
  <2>1. refcnt(w) <= 1 /\ refcnt(w)' <= 1 BY <1>2, <1>5 DEF Leaving
  <2>2. Core(heap, stk, valu, todo, frames) BY DEF Now
  <2>3. OfInsert(w) => OfInsert(w)' BY <1>2 DEF OfInsert, ByInsert
  <2>4. pc \in Clearing /\ refcnt(w) = 0 => pc' \in Clearing /\ refcnt(w)' = 0 BY <1>2
  <2>5. Doomed(w) => Doomed(w)' BY <1>1, <1>5, DoomedKept
  <2>6. (\E k \in DOMAIN todo : todo[k] = Drop(w)) => refcnt(w) > 0 BY <2>2, Referred DEF refcnt
  <2>7. (\E p \in All : RefersTo(p, w)) => refcnt(w) > 0
    <3>1. (\E p \in All : RefersTo(p, w)) =>
             \E u \in All : \E j \in DOMAIN heap[u].items : Has1(heap, frames, u, j) /\ heap[u].items[j] = w
      BY DEF RefersTo, items
    <3> QED BY <2>2, <3>1, Referred DEF refcnt
  <2>8. CASE OfInsert(w) \/ Doomed(w) \/ (pc \in Clearing /\ refcnt(w) = 0)
    BY <2>1, <2>3, <2>4, <2>5, <2>8 DEF Leaving
  <2>9. CASE refcnt(w) > 0 /\ refcnt(w)' = refcnt(w) - 1
    <3>1. refcnt(w)' = 0 /\ refcnt(w) # 0 BY <1>2, <2>1, <2>9
    <3>2. w \in Framed(frames)' BY <1>1, <1>5, <3>1 DEF GivesUp
    <3> QED BY <3>1, <3>2 DEF Leaving, Doomed
  <2>10. ASSUME NEW k \in DOMAIN todo, todo[k] = Drop(w) PROVE Leaving(w)'
    <3>1. PICK f : f = Drop(w) OBVIOUS
    <3>2. CASE todo' = todo \/ f # todo[1]
      <4>1. \E l \in DOMAIN todo' : todo'[l] = f BY <1>1, <2>10, <3>1, <3>2, StillToDo
      <4> QED BY <2>1, <3>1, <4>1 DEF Leaving
    <3>3. CASE todo' # todo /\ f = todo[1]
      <4>1. refcnt(w)' = refcnt(w) - 1 BY <1>1, <3>1, <3>3, DropDone
      <4> QED BY <2>6, <2>9, <2>10, <4>1
    <3> QED BY <3>2, <3>3
  <2>11. ASSUME NEW p \in All, RefersTo(p, w), Doomed(p) PROVE Leaving(w)'
    <3>1. CASE RefersTo(p, w)'
      <4>1. kind(p)' # "free" BY <3>1 DEF RefersTo, Has1, kind
      <4>2. Doomed(p)' BY <1>1, <2>11, <4>1, DoomedKept
      <4> QED BY <2>1, <3>1, <4>2 DEF Leaving
    <3>2. CASE ~RefersTo(p, w)'
      <4>1. refcnt(w)' = refcnt(w) - 1 BY <1>1, <2>11, <3>2, ReferenceLost
      <4> QED BY <2>7, <2>9, <2>11, <4>1
    <3> QED BY <3>1, <3>2
  <2> QED BY <1>5, <2>8, <2>10, <2>11 DEF Leaving
<1>6. ListsPacked'
  <2> SUFFICES ASSUME NEW w \in All, kind(w)' = "atype"
               PROVE  Mixed(w)' \/ Leaving(w)' \/ (pc' \in Updating /\ w = r'.a)
    BY DEF ListsPacked
  <2>1. kind(w) = "atype" BY <1>2 DEF AsBefore
  <2>2. Mixed(w) \/ Leaving(w) \/ (pc \in Updating /\ w = r.a) BY <2>1 DEF PackedOK, ListsPacked
  <2> QED BY <1>2, <1>4, <1>5, <2>2
<1>7. pc \in Updating /\ ~r.changed => refcnt(r.a)' <= 1 /\ r.a # r.x
  <2> SUFFICES ASSUME pc \in Updating, ~r.changed PROVE refcnt(r.a)' <= 1 /\ r.a # r.x OBVIOUS
  <2>1. refcnt(r.a) <= 1 /\ r.a # r.x BY DEF PackedOK
  <2>2. pc \in Working BY DEF Updating, Working
  <2>3. PICK a \in All : a = r.a BY <2>2 DEF Control, InWorking
  <2> QED BY <1>2, <2>1, <2>3
<1> QED BY <1>2, <1>3, <1>6, <1>7 DEF PackedOK, refcnt

LEMMA PackedStep ==
  ASSUME Plain, "implode_jump" \notin Uses, IInv, PackedOK, [Next]_vars PROVE PackedOK'
<1>1. Now /\ Control BY DEF IInv, Now
<1>2. CASE UNCHANGED vars
  <2>1. UNCHANGED <<heap, stk, valu, todo, frames, pc, r, unseen>> BY <1>2 DEF vars
  <2> QED BY <2>1 DEF PackedOK, ListsPacked, Mixed, Leaving, Doomed, OfPlace, OfInsert, ByInsert, Outer,
                      RefersTo, Framed, kind, items, refcnt
<1>3. CASE \E n \in Nums : PushNum(n) BY <1>1, <1>3, EvaluatingPacks
<1>4. CASE \E t \in Texts : PushLiteral(t) BY <1>1, <1>4, EvaluatingPacks
<1>5. CASE \E v \in Vars : PushVar(v) \/ Assign(v) \/ Pick(v) \/ Insert(v) BY <1>1, <1>5, EvaluatingPacks
<1>6. CASE \E n \in 1 .. MaxItems : MkList(n) BY <1>1, <1>6, MkListPacks
<1>7. CASE Discard BY <1>1, <1>7, EvaluatingPacks
<1>8. CASE IPlace BY <1>1, <1>8, IPlacePacks
<1>9. CASE Inserting
  <2>1. CASE IndexDone BY <1>1, <2>1, IndexDonePacks
  <2>2. CASE PlaceFails \/ PushFault BY <1>1, <2>2, RestingPacks
  <2>3. CASE Unshare BY <1>1, <2>3, UnsharePacks
  <2>4. CASE Replace BY <1>1, <2>4, ReplacePacks
  <2>5. CASE TestItems BY <1>1, <2>5, TestItemsPacks
  <2>6. CASE Implode BY <1>1, <2>6, ImplodePacks
  <2>7. CASE Unprotect BY <1>1, <2>7, UnprotectPacks
  <2>8. CASE PushResult BY <1>1, <2>8, PushResultPacks
  <2>9. CASE StoreResult BY <1>1, <2>9, StoreResultPacks
  <2>10. CASE Finish BY <1>1, <2>10, FinishPacks
  <2> QED BY <1>9, <2>1, <2>2, <2>3, <2>4, <2>5, <2>6, <2>7, <2>8, <2>9, <2>10 DEF Inserting
<1>10. CASE Freeing BY <1>1, <1>10, FreeingPacks
<1>11. CASE Cleaning BY <1>1, <1>11, CleaningPacks
<1>12. CASE Jump BY <1>1, <1>12, RestingPacks
<1>13. CASE ExplodeJump BY <1>1, <1>13, ExplodeJumpPacks
<1> QED BY <1>2, <1>3, <1>4, <1>5, <1>6, <1>7, <1>8, <1>9, <1>10, <1>11, <1>12, <1>13 DEF Next

LEMMA PackedAtFirst == Init => PackedOK
<1> SUFFICES ASSUME Init PROVE PackedOK OBVIOUS
<1>1. pc = "idle" BY DEF Init
<1>2. \A w \in All : kind(w) # "atype" BY DEF Init, kind, free
<1> QED BY <1>1, <1>2 DEF PackedOK, ListsPacked, Updating
-----------------------------------------------------------------------------
(***************************************************************************)
(* The properties.                                                         *)
(***************************************************************************)
LEMMA CountsFollow == IInv => CountsAreReferences
<1> SUFFICES ASSUME IInv PROVE CountsAreReferences OBVIOUS
<1>1. Core(heap, stk, valu, todo, frames) BY DEF IInv
<1>2. HeapOK(heap) /\ todo \in Seq(Frees) BY <1>1 DEF Core
<1>3. ASSUME NEW w \in All PROVE \A j : j \in Holds(w) <=> Has1(heap, frames, w, j)
  BY DEF Holds, NotDone, Has1, kind, items
<1>4. PICK held : held = UNION {{w} \X Holds(w) : w \in Used} OBVIOUS
<1>5. \A w, j : <<w, j>> \in held <=> w \in All /\ Has1(heap, frames, w, j)
  <2> TAKE w, j
  <2>1. <<w, j>> \in held <=> w \in Used /\ j \in Holds(w) BY <1>4
  <2>2. Used \subseteq All BY DEF Used
  <2>3. w \in All /\ Has1(heap, frames, w, j) => w \in Used BY DEF Has1, Used, InUse, kind
  <2> QED BY <1>3, <2>1, <2>2, <2>3
<1>6. \A p \in held : p = <<p[1], p[2]>> BY <1>4
<1>7. SUFFICES ASSUME NEW x \in Used PROVE refcnt(x) = References(x, held) BY <1>4 DEF CountsAreReferences
<1>8. x \in All BY DEF Used
<1>9. {p \in held : items(p[1])[p[2]] = x} = InLists(heap, frames, x)
  <2>1. ASSUME NEW p \in held, items(p[1])[p[2]] = x PROVE p \in InLists(heap, frames, x)
    <3>1. PICK w, j : p = <<w, j>> BY <1>6
    <3>2. w \in All /\ Has1(heap, frames, w, j) BY <1>5, <3>1
    <3>3. j \in DOMAIN heap[w].items BY <3>2 DEF Has1
    <3>4. j \in 1 .. MaxItems BY <1>2, <3>2, <3>3, HeapFacts
    <3>5. heap[w].items[j] = x BY <2>1, <3>1 DEF items
    <3> QED BY <3>1, <3>2, <3>4, <3>5 DEF InLists
  <2>2. ASSUME NEW p \in InLists(heap, frames, x) PROVE p \in held /\ items(p[1])[p[2]] = x
    <3>1. PICK w \in All, j \in 1 .. MaxItems : p = <<w, j>> BY DEF InLists
    <3>2. Has1(heap, frames, w, j) /\ heap[w].items[j] = x BY <3>1 DEF InLists
    <3> QED BY <1>5, <3>1, <3>2 DEF items
  <2> QED BY <2>1, <2>2
<1>10. {j \in DOMAIN todo : todo[j].arr = x /\ todo[j].drop} = Places(todo, Drop(x))
  <2>1. \A j \in DOMAIN todo : todo[j] \in Frees BY <1>2, ElementOfSeq
  <2>2. \A j \in DOMAIN todo : todo[j] = Drop(x) <=> todo[j].arr = x /\ todo[j].drop
    BY <2>1, DropIs DEF Drop
  <2> QED BY <2>2 DEF Places
<1>11. /\ Cardinality({p \in held : items(p[1])[p[2]] = x}) = NL(heap, frames, x)
       /\ Cardinality({j \in DOMAIN todo : todo[j].arr = x /\ todo[j].drop}) = NS(todo, Drop(x))
       /\ Cardinality({j \in DOMAIN stk : stk[j] = x}) = NS(stk, x)
       /\ Cardinality({v \in Vars : valu[v] = x}) = NV(valu, x)
       /\ (IF x = no_value THEN 1 ELSE 0) = One(x = no_value)
  BY <1>9, <1>10 DEF NL, NS, NV, Places, InVars, One
<1>12. refcnt(x) = Total(heap, stk, valu, todo, frames, x) BY <1>1, <1>8 DEF Core, refcnt
<1> QED BY <1>11, <1>12 DEF References, Total

LEMMA AllocatedFollows == IInv => AllocatedIsReferenced
<1> SUFFICES ASSUME IInv PROVE AllocatedIsReferenced OBVIOUS
<1>1. Now /\ Control BY DEF IInv, Now
<1>2. Core(heap, stk, valu, todo, frames) BY <1>1 DEF Now
<1>3. HeapOK(heap) /\ stk \in Seq(All) /\ valu \in [Vars -> All] /\ todo \in Seq(Frees) BY <1>2 DEF Core
<1>4. \A j \in DOMAIN stk : InUse(stk[j])
  <2> TAKE j \in DOMAIN stk
  <2>1. stk[j] \in All BY <1>3, ElementOfSeq
  <2> QED BY <1>2, <2>1, Referred DEF InUse, kind
<1>5. \A v \in Vars : InUse(valu[v])
  <2> TAKE v \in Vars
  <2>1. valu[v] \in All BY <1>3
  <2> QED BY <1>2, <2>1, Referred DEF InUse, kind
<1>6. \A x \in Used : \A j \in Holds(x) : InUse(items(x)[j])
  <2> TAKE x \in Used
  <2> TAKE j \in Holds(x)
  <2>1. x \in All BY DEF Used
  <2>2. Has1(heap, frames, x, j) BY DEF Holds, NotDone, Has1, kind, items
  <2>3. PICK q : q = heap[x].items OBVIOUS
  <2>4. q \in Seq(All \cup {gone}) /\ j \in DOMAIN q /\ q[j] # gone BY <1>3, <2>1, <2>2, <2>3 DEF Has1, HeapOK
  <2>5. PICK y : y = q[j] OBVIOUS
  <2>6. y \in All BY <2>4, <2>5, ElementOfSeq
  <2>7. \E w \in All : \E i \in DOMAIN heap[w].items : Has1(heap, frames, w, i) /\ heap[w].items[i] = y
    BY <2>1, <2>2, <2>3, <2>4, <2>5
  <2>8. heap[y].kind # "free" BY <1>2, <2>6, <2>7, Referred
  <2> QED BY <2>3, <2>5, <2>8 DEF InUse, kind, items
<1>7. \A j \in DOMAIN todo : InUse(todo[j].arr)
  <2> TAKE j \in DOMAIN todo
  <2>1. PICK t : t = todo[j] OBVIOUS
  <2>2. t \in Frees BY <1>3, <2>1, ElementOfSeq
  <2>3. PICK y \in All : y = t.arr BY <2>2 DEF Frees
  <2>4. CASE t.drop
    <3>1. todo[j] = Drop(y) BY <2>1, <2>2, <2>3, <2>4, DropIs
    <3>2. \E i \in DOMAIN todo : todo[i] = Drop(y) BY <3>1
    <3> QED BY <1>2, <2>1, <2>3, <3>2, Referred DEF InUse, kind
  <2>5. CASE ~t.drop
    <3>1. todo[j] = Free(y) BY <2>1, <2>2, <2>3, <2>5, DropIs
    <3>2. TodoOK BY <1>1 DEF Control
    <3> QED BY <2>1, <2>3, <3>1, <3>2 DEF TodoOK
  <2> QED BY <2>4, <2>5
<1>8. pc = "index" => InUse(r.x) BY <1>1 DEF Control, InIndex, Used
<1>9. pc = "place" => InUse(r.a) /\ InUse(r.x) /\ InUse(r.addr)
  <2> HAVE pc = "place"
  <2>1. InPlace BY <1>1 DEF Control
  <2>2. PICK a, x, d \in All : At(a, x, d) BY <2>1 DEF InPlace, At
  <2> QED BY <2>1, <2>2 DEF InPlace, At, Begins
<1>10. pc \in Working => InUse(r.a) /\ InUse(r.x) /\ InUse(r.addr)
  <2> HAVE pc \in Working
  <2>1. PICK a, x, d \in All : a = r.a /\ x = r.x /\ d = r.addr /\ Works(a, x, d) BY <1>1, WorkingNow
  <2> QED BY <2>1 DEF Works
<1>11. Ready /\ pc = "idle" => \A x \in Used : refcnt(x) > 0 BY <1>1, IdleNow DEF Used
<1> QED BY <1>4, <1>5, <1>6, <1>7, <1>8, <1>9, <1>10, <1>11 DEF AllocatedIsReferenced, Working

LEMMA PackedFollows == IInv /\ PackedOK => HomogeneousAreImploded
<1> SUFFICES ASSUME IInv, PackedOK, Ready, pc = "idle", NEW x \in Used, kind(x) = "atype"
             PROVE  \E j \in DOMAIN items(x) : kind(items(x)[j]) # "int"
  BY DEF HomogeneousAreImploded
<1>1. Now /\ Control BY DEF IInv, Now
<1>2. x \in All BY DEF Used
<1>3. Mixed(x) BY <1>1, <1>2, RestMixed DEF PackedOK
<1> QED BY <1>3 DEF Mixed

(* The count of an array is the number of its references, at every step of   *)
(* every operation, of freeit and of the cleanup after a jump, wherever      *)
(* jumps happen and whatever the program does within the uses assumed.       *)
THEOREM CountsRight == ASSUME Plain PROVE Spec => []CountsAreReferences
BY Invariance, CountsFollow, PTL

(* What the stack, a variable, a list, a local or a freeup to do refers to   *)
(* is in use, and what is in use between operations is referred to.          *)
THEOREM AllocatedRight == ASSUME Plain PROVE Spec => []AllocatedIsReferenced
BY Invariance, AllocatedFollows, PTL

(* Where nothing of the uses ruled out by Plain happens and implode does not *)
(* jump, no list of integers is left a list of arrays: a container that is   *)
(* packed is freed, or is held by nothing but what is freed with it.         *)
THEOREM PackedRight ==
  ASSUME Plain, "implode_jump" \notin Uses
  PROVE  Spec => []HomogeneousAreImploded
<1>1. Init => IInv /\ PackedOK BY InitIs, PackedAtFirst
<1>2. (IInv /\ PackedOK) /\ [Next]_vars => (IInv /\ PackedOK)' BY StepKeeps, PackedStep
<1>3. IInv /\ PackedOK => HomogeneousAreImploded BY PackedFollows
<1> QED BY <1>1, <1>2, <1>3, PTL DEF Spec
=============================================================================
