------------------------------ MODULE RefCount ------------------------------
(***************************************************************************)
(* Reference counts of arrays, the evaluation stack and the cleanup after  *)
(* a jump (absmach.c, insel.c, eval.c).                                    *)
(*                                                                         *)
(* An array counts its references from the stack, from variables, from the *)
(* items of other arrays and from C globals.  A reference in a C local is  *)
(* not counted: an array just made or just popped may have count zero, and *)
(* freeup frees it if it still has when the local is done with it.  An     *)
(* array whose count is at most one is updated in place.  Any allocation   *)
(* may jump to the top level, which empties the stack and then frees every *)
(* array with count zero.                                                  *)
(*                                                                         *)
(* The space of the arrays is module Heap; here an array is a name.        *)
(***************************************************************************)
EXTENDS Integers, Sequences, SequencesExt, FiniteSets

CONSTANTS
  Arrays,       (* The arrays the heap has room for.                       *)
  Vars,         (* The global variables.                                   *)
  Texts,        (* The texts of phrases and faults; fault is one of them.  *)
  Nums,         (* The integers.                                           *)
  MaxItems,     (* Bound: the items of a list.                             *)
  MaxStack,     (* Bound: the depth of the stack as far as pushes go.      *)
  Spare,        (* Bound: the arrays atoms leave to containers. *)
  no_value,     (* The fault every variable holds at first, and its text.  *)
  fault,        (* The text of every other fault.                          *)
  gone,         (* invalidptr, a place of a list not filled yet.           *)
  none,
  Uses          (* The uses of these operations that the instance has, of  *)
                (* those below.                                            *)

AllUses ==
  { "side_effect",    \* an index expression assigns to variables
    "item_address",   \* the address in v@addr := x is the item replaced
    "self_update",    \* v@addr := v, with a bad address
    "same_atom",      \* an index expression makes the atom being assigned
    "held_pair",      \* place is applied to a pair that something holds
    "implode_jump" }  \* the allocation in implode jumps

ASSUME RefCountConstants ==
  /\ MaxItems \in Nat \ {0} /\ MaxStack \in Nat /\ Spare \in Nat
  /\ Nums \subseteq Nat /\ fault \in Texts /\ no_value \notin Texts
  /\ IsFiniteSet(Arrays) /\ IsFiniteSet(Vars)
  /\ no_value \notin Arrays /\ none \notin Arrays /\ gone \notin Arrays \cup {no_value}
  /\ Uses \subseteq AllUses

VARIABLES
  heap,    (* kind, items and count of each array; free if not allocated.  *)
  stk,     (* stkarea[0 .. topstack].                                      *)
  valu,    (* The array of each variable.                                  *)
  todo,    (* The freeups still to do, each maybe dropping a count first.  *)
  frames,  (* The calls of freeit under way: the array and its next item.  *)
  pc,      (* Where the operation under way is.                            *)
  r,       (* Its C locals.                                                *)
  unseen   (* The arrays clearheap has not come to yet.                    *)

vars == <<heap, stk, valu, todo, frames, pc, r, unseen>>

All  == Arrays \cup {no_value}
free == [kind |-> "free", items |-> <<>>, refcnt |-> 0]

(* The locals of insert, iplace, splace and place.  due is not in the code:*)
(* it is the value the operation has to give.                              *)
NoLocals == [op |-> none, var |-> none, base |-> 0, a |-> none, i |-> 0,
             x |-> none, addr |-> none, outer |-> <<>>, changed |-> FALSE,
             protect |-> FALSE, due |-> none]

kind(x)    == heap[x].kind
items(x)   == heap[x].items
refcnt(x)  == heap[x].refcnt
tally(x)   == Len(items(x))
atomic(x)  == kind(x) \in {"int", "phrase"}
InUse(x)   == kind(x) # "free"

(* n arrays that are not in use.  Where they lie is for module Heap, and   *)
(* nothing here depends on it: any choice will do.                         *)
Unused      == {x \in Arrays : ~InUse(x)}
HasRoom(n)  == Cardinality(Unused) >= n
Fresh(n)    == CHOOSE s \in [1 .. n -> Unused] : IsInjective(s)

Made(h, x, k, its) == [h EXCEPT ![x] = [kind |-> k, items |-> its, refcnt |-> 0]]
Incr(h, x)         == [h EXCEPT ![x].refcnt = @ + 1]
Decr(h, x)         == [h EXCEPT ![x].refcnt = @ - 1]
IncrAll(h, s)      ==
  [x \in All |-> [h[x] EXCEPT !.refcnt = @ + Cardinality({j \in DOMAIN s : s[j] = x})]]

Drop(x) == [arr |-> x, drop |-> TRUE]     \* decrrefcnt(x); freeup(x)
Free(x) == [arr |-> x, drop |-> FALSE]    \* freeup(x)

top     == stk[Len(stk)]
Below(n) == SubSeq(stk, 1, Len(stk) - n)
TopN(n)  == SubSeq(stk, Len(stk) - n + 1, Len(stk))

(* apush of x on the stack s in the heap h.                                *)
Push(h, s, x) ==
  /\ heap' = Incr(h, x)
  /\ stk' = Append(s, x)

(* The phrase or fault with text t: the one there is, or a new one.  The   *)
(* one there is may be one that insert has in a local, with count zero.    *)
HasText(h, x, t) == h[x].kind = "phrase" /\ h[x].items = <<t>>
OnlyLocal(h, x)  == pc = "index" /\ x = r.x /\ h[x].refcnt = 0

PushText(h, s, t) ==
  IF \E x \in All : HasText(h, x, t)
  THEN \E x \in All : /\ HasText(h, x, t) /\ Push(h, s, x)
                      /\ OnlyLocal(h, x) => "same_atom" \in Uses
  ELSE HasRoom(1) /\ Push(Made(h, Fresh(1)[1], "phrase", <<t>>), s, Fresh(1)[1])

Init ==
  /\ heap = [x \in All |-> IF x = no_value
                           THEN [kind |-> "phrase", items |-> <<no_value>>,
                                 refcnt |-> 1 + Cardinality(Vars)]
                           ELSE free]
  /\ stk = <<>>
  /\ valu = [v \in Vars |-> no_value]
  /\ todo = <<>> /\ frames = <<>>
  /\ pc = "idle" /\ r = NoLocals /\ unseen = {}

Ready == todo = <<>> /\ frames = <<>>
-----------------------------------------------------------------------------
(***************************************************************************)
(* freeup and freeit, the recursion of freeit being a stack of frames.     *)
(***************************************************************************)
Freeup ==
  /\ frames = <<>> /\ todo # <<>>
  /\ LET t == Head(todo)
         n == IF t.drop THEN refcnt(t.arr) - 1 ELSE refcnt(t.arr)
     IN  /\ heap' = [heap EXCEPT ![t.arr].refcnt = n]
         /\ frames' = IF n = 0 THEN <<[arr |-> t.arr, next |-> 1]>> ELSE <<>>
  /\ todo' = Tail(todo)
  /\ UNCHANGED <<stk, valu, pc, r, unseen>>

Frame == Last(frames)
\* Mutant: the loop over the items does not advance.
AdvanceNot(f) == f

Advance(f) == [f EXCEPT ![Len(f)].next = @ + 1]
ItemsLeft  == kind(Frame.arr) = "atype" /\ Frame.next <= tally(Frame.arr)

(* An item may be missing, and its count may be zero after an earlier jump.*)
FreeItem ==
  /\ frames # <<>> /\ ItemsLeft
  /\ LET it   == items(Frame.arr)[Frame.next]
         rest == Advance(frames)
     IN  IF it # gone /\ refcnt(it) > 0
         THEN /\ heap' = Decr(heap, it)
              /\ frames' = IF refcnt(it) = 1 THEN Append(rest, [arr |-> it, next |-> 1]) ELSE rest
         ELSE heap' = heap /\ frames' = rest
  /\ UNCHANGED <<stk, valu, todo, pc, r, unseen>>

Release ==
  /\ frames # <<>> /\ ~ItemsLeft
  /\ heap' = [heap EXCEPT ![Frame.arr] = free]
  /\ frames' = Front(frames)
  /\ UNCHANGED <<stk, valu, todo, pc, r, unseen>>
-----------------------------------------------------------------------------
(***************************************************************************)
(* Evaluation: at the top level or of the index expression of insert, when *)
(* the stack below r.base belongs to the expression around it.             *)
(***************************************************************************)
Evaluating == Ready /\ pc \in {"idle", "index"}
Has(n)     == Len(stk) >= r.base + n
(* An index expression may be a constant, a variable or v@addr; anything   *)
(* else only where side effects are among the uses.                        *)
Statement  == Evaluating /\ (pc = "idle" \/ "side_effect" \in Uses)

Same == UNCHANGED <<valu, frames, pc, r, unseen>>

Pushing == Evaluating /\ Len(stk) < MaxStack
Leaves  == HasRoom(1 + Spare)

PushNum(n) ==
  /\ Pushing /\ Leaves
  /\ Push(Made(heap, Fresh(1)[1], "int", <<n>>), stk, Fresh(1)[1])
  /\ Same /\ UNCHANGED todo

PushLiteral(t) ==
  /\ Pushing /\ Leaves
  /\ PushText(heap, stk, t)
  /\ Same /\ UNCHANGED todo

PushVar(v) ==
  /\ Pushing
  /\ Push(heap, stk, valu[v])
  /\ Same /\ UNCHANGED todo

Discard ==
  /\ Statement /\ Has(1)
  /\ stk' = Below(1)
  /\ todo' = <<Drop(top)>>
  /\ Same /\ UNCHANGED heap

(* n items of one homogeneous type become one array that holds their data, *)
(* and are freed one by one; others are held by the list, count unchanged. *)
MkList(n) ==
  /\ Statement /\ Has(n) /\ HasRoom(1)
  /\ LET z == Fresh(1)[1] IN
       IF \A j \in 1 .. n : kind(TopN(n)[j]) = "int"
       THEN /\ Push(Made(heap, z, "ints", [j \in 1 .. n |-> items(TopN(n)[j])[1]]), Below(n), z)
            /\ todo' = [j \in 1 .. n |-> Drop(TopN(n)[n + 1 - j])]
       ELSE Push(Made(heap, z, "atype", TopN(n)), Below(n), z) /\ UNCHANGED todo
  /\ Same

(* replace_array and store_var of a global: the new value is counted       *)
(* before the old one is freed.                                            *)
Store(h, v, x) ==
  /\ heap' = Incr(h, x)
  /\ valu' = [valu EXCEPT ![v] = x]
  /\ todo' = <<Drop(valu[v])>>

Assign(v) ==
  /\ Statement /\ Has(1)
  /\ Store(heap, v, top)
  /\ UNCHANGED <<stk, frames, pc, r, unseen>>

\* Mutant: addresses are counted from one.
ItemAtFromOne(h, a, addr) ==
  IF /\ h[a].kind \in {"ints", "atype"} /\ h[addr].kind \in {"int", "ints"}
     /\ Len(h[addr].items) = 1 /\ h[addr].items[1] <= Len(h[a].items)
  THEN h[addr].items[1] ELSE 0

(* The item of a at addr, counted from one; 0 if the address is not valid. *)
ItemAt(h, a, addr) ==
  IF /\ h[a].kind \in {"ints", "atype"} /\ h[addr].kind \in {"int", "ints"}
     /\ Len(h[addr].items) = 1 /\ h[addr].items[1] < Len(h[a].items)
  THEN h[addr].items[1] + 1 ELSE 0

(* v@addr, the address on the stack: select1 and pick.                     *)
Pick(v) ==
  /\ Evaluating /\ Has(1)
  /\ LET a == valu[v]
         h == Decr(heap, top)
         i == ItemAt(heap, a, top)
     IN  /\ IF i # 0
            THEN IF kind(a) = "atype" THEN Push(h, Below(1), items(a)[i])
                 ELSE Leaves /\ Push(Made(h, Fresh(1)[1], "int", <<items(a)[i]>>), Below(1), Fresh(1)[1])
            ELSE Leaves /\ PushText(h, Below(1), fault)
         /\ todo' = <<Free(a), Free(top)>>
  /\ Same
-----------------------------------------------------------------------------
(***************************************************************************)
(* Insertion: v@addr := x (insert, splace) and place (iplace), both by the *)
(* C routine place, which puts x at item i of a.                           *)
(***************************************************************************)
\* What each array stands for.
Value ==
  LET W[x \in All] ==
        CASE atomic(x)         -> <<"atom", items(x)[1]>>
          [] kind(x) = "ints"  -> <<"list", [j \in DOMAIN items(x) |-> <<"atom", items(x)[j]>>]>>
          [] kind(x) = "atype" -> <<"list", [j \in DOMAIN items(x) |->
                                     IF items(x)[j] = gone THEN none ELSE W[items(x)[j]]]>>
          [] OTHER             -> none
  IN  W

\* The abstract evaluator: below, an operation under way has taken its arguments.
V == INSTANCE Values WITH
       stack  <- IF pc \in {"clearstack", "clearheap"} THEN <<>>
                 ELSE LET s == IF r.due = none THEN stk ELSE SubSeq(stk, 1, r.base)
                      IN  [j \in DOMAIN s |-> Value[s[j]]],
       val    <- [v \in Vars |-> Value[valu[v]]],
       held   <- IF pc = "index" THEN Value[r.x] ELSE none,
       target <- r.var,
       due    <- r.due

(* v@... := the top of the stack, which is popped into the local x.        *)
Insert(v) ==
  /\ Ready /\ pc = "idle" /\ Has(1)
  /\ heap' = Decr(heap, top)
  /\ stk' = Below(1)
  /\ r' = [NoLocals EXCEPT !.op = "insert", !.var = v, !.base = Len(stk) - 1, !.x = top]
  /\ pc' = "index"
  /\ UNCHANGED <<valu, todo, frames, unseen>>

(* x is a, an item of a, an item of one of these and so on.                *)
ClosedUnderItems(S) == \A y \in S : kind(y) = "atype" => \A j \in DOMAIN items(y) : items(y)[j] \in S
IsPartOf(x, a)      == \A S \in SUBSET All : a \in S /\ ClosedUnderItems(S) => x \in S

Protects(a) == r.x = a

(* The index expression has been evaluated.  The array of the variable is  *)
(* fetched now, and protected if it is about to be made an item of itself. *)
IndexDone ==
  /\ Ready /\ pc = "index" /\ Len(stk) = r.base + 1
  /\ LET a    == valu[r.var]
         self == Protects(a)
         i    == ItemAt(heap, a, top)
     IN  /\ self /\ i = 0 => "self_update" \in Uses
         /\ i # 0 /\ IsPartOf(top, a) => "item_address" \in Uses
         /\ IF self THEN Push(Decr(heap, top), Below(1), a)
            ELSE heap' = Decr(heap, top) /\ stk' = Below(1)
         /\ r' = [r EXCEPT !.a = a, !.addr = top, !.protect = self,
                           !.i = i,
                           !.due = V!Placed(Value[a], Value[top], Value[r.x])]
         /\ pc' = "place"
  /\ UNCHANGED <<valu, todo, frames, unseen>>

(* splitfb: the items of a pair, made for the occasion if it holds data.   *)
CanSplit(h, z) == h[z].kind = "atype" \/ HasRoom(2)
Split(h, z) ==
  IF h[z].kind = "atype" THEN [heap |-> h, first |-> h[z].items[1], second |-> h[z].items[2]]
  ELSE LET s == Fresh(2)
           Item(g, j) == Made(g, s[j], "int", <<h[z].items[j]>>)
       IN  [heap |-> Item(Item(h, 1), 2), first |-> s[1], second |-> s[2]]

(* place of a pair z of a pair (the new item and the address) and an array.*)
IPlace ==
  /\ Ready /\ pc = "idle" /\ Has(1)
  /\ refcnt(top) > 1 => "held_pair" \in Uses
  /\ LET z      == top
         locals == [NoLocals EXCEPT !.op = "place", !.base = Len(stk) - 1, !.due = V!PlaceOf(Value[z])]
         h      == Decr(heap, z)
         outer  == Split(h, z)
         inner  == Split(outer.heap, outer.first)
         Refuse(g, frees) ==
           heap' = g /\ r' = [locals EXCEPT !.outer = frees] /\ pc' = "fault"
     IN  IF tally(z) # 2 THEN Refuse(h, <<Free(z)>>)
         ELSE /\ CanSplit(h, z)
              /\ IF Len(outer.heap[outer.first].items) # 2
                 THEN Refuse(outer.heap, <<Free(outer.first), Free(outer.second), Free(z)>>)
                 ELSE /\ CanSplit(outer.heap, outer.first)
                      /\ heap' = inner.heap
                      /\ r' = [locals EXCEPT !.a = outer.second, !.x = inner.first, !.addr = inner.second,
                                 !.i = ItemAt(inner.heap, outer.second, inner.second),
                                 !.outer = <<Free(outer.first), Free(z)>>]
                      /\ pc' = "place"
  /\ stk' = Below(1)
  /\ UNCHANGED <<valu, todo, frames, unseen>>

(* A bad address.  The arguments are freed, then the fault is pushed; the  *)
(* protected array is under it when splace pops what it takes for it.      *)
PlaceFails ==
  /\ Ready /\ pc = "place" /\ r.i = 0
  /\ todo' = <<Free(r.addr), Free(r.x)>>
  /\ pc' = "fault"
  /\ UNCHANGED <<heap, stk, valu, frames, r, unseen>>

PushFault ==
  /\ Ready /\ pc = "fault"
  /\ IF r.protect THEN UNCHANGED <<heap, stk>> ELSE PushText(heap, stk, fault)
  /\ todo' = r.outer
  /\ pc' = "idle" /\ r' = NoLocals
  /\ UNCHANGED <<valu, frames, unseen>>

Placing  == Ready /\ pc = "place" /\ r.i # 0

Explodes == kind(r.a) = "ints" /\ kind(r.x) # "int"

Shared(a) == refcnt(a) > 1

(* copy_array of a into z.                                                 *)
Copy(a, z) == Made(IF kind(a) = "atype" THEN IncrAll(heap, items(a)) ELSE heap, z, kind(a), items(a))

(* explode, with only the first k items of a made: all, or up to a jump.   *)
Exploded(k, s) ==
  [x \in All |->
     IF x = s[1]
     THEN [kind |-> "atype", refcnt |-> 0,
           items |-> [j \in 1 .. tally(r.a) |-> IF j <= k THEN s[j + 1] ELSE gone]]
     ELSE IF \E j \in 1 .. k : x = s[j + 1]
     THEN [kind |-> "int", refcnt |-> 1,
           items |-> <<items(r.a)[CHOOSE j \in 1 .. k : x = s[j + 1]]>>]
     ELSE heap[x]]

(* A list of data that is to get another item becomes a list of arrays; an *)
(* array with two or more references is copied; else a itself is updated.  *)
Unshare ==
  /\ Placing
  /\ IF Explodes
     THEN /\ HasRoom(tally(r.a) + 1)
          /\ LET s == Fresh(tally(r.a) + 1)
             IN  heap' = Exploded(tally(r.a), s) /\ r' = [r EXCEPT !.a = s[1], !.changed = TRUE]
          /\ todo' = <<Free(r.a)>>
     ELSE IF Shared(r.a)
     THEN LET z == Fresh(1)[1]
          IN  /\ HasRoom(1)
              /\ heap' = Copy(r.a, z)
              /\ r' = [r EXCEPT !.a = z, !.changed = TRUE]
              /\ todo' = <<>>
     ELSE UNCHANGED <<heap, r, todo>>
  /\ pc' = "replace"
  /\ UNCHANGED <<stk, valu, frames, unseen>>

\* Mutant: the new item is not counted.
NewItemUncounted(h) == [h EXCEPT ![r.a].items[r.i] = r.x]

NewItem(h) == [Incr(h, r.x) EXCEPT ![r.a].items[r.i] = r.x]

(* replace_array, or copy1 of the data.                                    *)
Replace ==
  /\ Ready /\ pc = "replace"
  /\ IF kind(r.a) = "atype"
     THEN /\ heap' = NewItem(heap)
          /\ todo' = <<Drop(items(r.a)[r.i])>>
     ELSE heap' = [heap EXCEPT ![r.a].items[r.i] = items(r.x)[1]] /\ UNCHANGED todo
  /\ pc' = "implode"
  /\ UNCHANGED <<stk, valu, frames, r, unseen>>

\* Mutant: an off-by-one in the test for items.
HomotestOfTwo(a) == kind(a) = "atype" /\ tally(a) > 1 /\ \A j \in DOMAIN items(a) : kind(items(a)[j]) = "int"

homotest(a) == kind(a) = "atype" /\ \A j \in DOMAIN items(a) : kind(items(a)[j]) = "int"

(* A list of integers is packed by implode, which frees it; x may be one   *)
(* of its items, so it is on the stack meanwhile.                          *)
TestItems ==
  /\ Ready /\ pc = "implode"
  /\ IF homotest(r.a)
     THEN Push(heap, stk, r.x) /\ pc' = "pack"
     ELSE UNCHANGED <<heap, stk>> /\ pc' = "push"
  /\ UNCHANGED <<valu, todo, frames, r, unseen>>

Implode ==
  /\ Ready /\ pc = "pack" /\ HasRoom(1)
  /\ LET z == Fresh(1)[1] IN
       /\ heap' = Made(heap, z, "ints", [j \in DOMAIN items(r.a) |-> items(items(r.a)[j])[1]])
       /\ r' = [r EXCEPT !.a = z, !.changed = TRUE]
  /\ todo' = <<Free(r.a)>>
  /\ pc' = "unprotect"
  /\ UNCHANGED <<stk, valu, frames, unseen>>

Unprotect ==
  /\ Ready /\ pc = "unprotect"
  /\ heap' = Decr(heap, top) /\ stk' = Below(1)
  /\ pc' = "push"
  /\ UNCHANGED <<valu, todo, frames, r, unseen>>

PushResult ==
  /\ Ready /\ pc = "push"
  /\ Push(heap, stk, r.a)
  /\ todo' = <<Free(r.addr), Free(r.x)>>
  /\ pc' = IF r.op = "insert" THEN "store" ELSE "finish"
  /\ UNCHANGED <<valu, frames, r, unseen>>

(* The container has changed: store it in the variable.                    *)
StoreResult ==
  /\ Ready /\ pc = "store"
  /\ IF r.changed THEN Store(heap, r.var, top) ELSE UNCHANGED <<heap, valu, todo>>
  /\ pc' = "finish"
  /\ UNCHANGED <<stk, frames, r, unseen>>

(* The protected array is popped from under the result.                    *)
Finish ==
  /\ Ready /\ pc = "finish"
  /\ IF r.protect
     THEN stk' = Append(Below(2), top) /\ todo' = <<Drop(stk[Len(stk) - 1])>>
     ELSE stk' = stk /\ todo' = r.outer
  /\ pc' = "idle" /\ r' = NoLocals
  /\ UNCHANGED <<heap, valu, frames, unseen>>
-----------------------------------------------------------------------------
(***************************************************************************)
(* A jump to the top level and the cleanup there.                          *)
(***************************************************************************)
JumpTo(h) ==
  /\ heap' = h
  /\ pc' = "clearstack" /\ r' = NoLocals
  /\ UNCHANGED <<stk, valu, todo, frames, unseen>>

\* An allocation fails, or expands the heap while a user break is pending.
Jump ==
  /\ Ready
  /\ \/ pc \in {"idle", "index", "fault"}
     \/ Placing /\ (Explodes \/ refcnt(r.a) > 1)
     \/ "implode_jump" \in Uses /\ pc = "pack"
  /\ JumpTo(heap)

ExplodeJump ==
  /\ Placing /\ Explodes
  /\ \E k \in 0 .. tally(r.a) - 1 : HasRoom(k + 1) /\ JumpTo(Exploded(k, Fresh(k + 1)))

ClearStack ==
  /\ Ready /\ pc = "clearstack"
  /\ \/ /\ stk # <<>>
        /\ stk' = Below(1) /\ todo' = <<Drop(top)>>
        /\ UNCHANGED <<pc, unseen>>
     \/ /\ stk = <<>>
        /\ pc' = "clearheap" /\ unseen' = All
        /\ UNCHANGED <<stk, todo>>
  /\ UNCHANGED <<heap, valu, frames, r>>

(* clearheap walks the blocks once, in the order they lie in, which may be *)
(* any.  Only the blocks where it frees something are steps here.          *)

\* Mutant: the walk frees lists of arrays only.
UnreferencedLists == {x \in unseen : kind(x) = "atype" /\ refcnt(x) = 0}

Unreferenced == {x \in unseen : InUse(x) /\ refcnt(x) = 0}

ClearHeap ==
  /\ Ready /\ pc = "clearheap"
  /\ \/ \E x \in Unreferenced : unseen' = unseen \ {x} /\ todo' = <<Free(x)>> /\ UNCHANGED pc
     \/ Unreferenced = {} /\ unseen' = {} /\ pc' = "idle" /\ UNCHANGED todo
  /\ UNCHANGED <<heap, stk, valu, frames, r>>
-----------------------------------------------------------------------------
Freeing   == Freeup \/ FreeItem \/ Release
Inserting == IndexDone \/ PlaceFails \/ PushFault \/ Unshare \/ Replace \/ TestItems
               \/ Implode \/ Unprotect \/ PushResult \/ StoreResult \/ Finish
Cleaning  == ClearStack \/ ClearHeap

\* What runs on without a choice of the program: a jump may end an insertion.
Internal == Freeing \/ Cleaning \/ (pc \notin {"idle", "index"} /\ (Inserting \/ Jump \/ ExplodeJump))

Next ==
  \/ \E n \in Nums : PushNum(n)
  \/ \E t \in Texts : PushLiteral(t)
  \/ \E v \in Vars : PushVar(v) \/ Assign(v) \/ Pick(v) \/ Insert(v)
  \/ \E n \in 1 .. MaxItems : MkList(n)
  \/ Discard \/ IPlace \/ Inserting \/ Freeing \/ Cleaning
  \/ Jump \/ ExplodeJump

Spec == Init /\ [][Next]_vars /\ WF_vars(Internal)
-----------------------------------------------------------------------------
(***************************************************************************)
(* Properties.                                                             *)
(***************************************************************************)
Used == {x \in All : InUse(x)}

(* The items of x that freeit has not come to, and those that x holds.     *)
NotDone(x) == {j \in DOMAIN items(x) : \A k \in DOMAIN frames : frames[k].arr = x => j >= frames[k].next}
Holds(x)   == IF kind(x) = "atype" THEN {j \in NotDone(x) : items(x)[j] # gone} ELSE {}

(* The references to x that its count is for; held are those of items.     *)
References(x, held) ==
  (IF x = no_value THEN 1 ELSE 0)
  + Cardinality({j \in DOMAIN stk : stk[j] = x})
  + Cardinality({v \in Vars : valu[v] = x})
  + Cardinality({j \in DOMAIN todo : todo[j].arr = x /\ todo[j].drop})
  + Cardinality({h \in held : items(h[1])[h[2]] = x})

\* The registers of the C code hold arrays, and every kind has its items.
TypeOK ==
  /\ \A x \in All :
       /\ kind(x) \in {"free", "int", "ints", "phrase", "atype"}
       /\ refcnt(x) \in Nat
       /\ kind(x) \in {"int", "ints"} => items(x) \in UNION {[1 .. n -> Nums] : n \in 1 .. MaxItems}
       /\ kind(x) = "atype" => items(x) \in UNION {[1 .. n -> All \cup {gone}] : n \in 1 .. MaxItems}
       /\ kind(x) = "phrase" => items(x)[1] \in Texts \cup {no_value}
  /\ stk \in Seq(All)
  /\ valu \in [Vars -> All]
  /\ {r.a, r.x, r.addr} \subseteq All \cup {none}
  /\ unseen \subseteq All
  /\ pc \in {"idle", "index", "place", "fault", "replace", "implode", "pack", "unprotect",
             "push", "store", "finish", "clearstack", "clearheap"}

\* The count of an array is exactly the number of its references, at every
\* step of every operation, freeit and cleanup included: no apush, store or
\* decrrefcnt is missing or done twice.
CountsAreReferences ==
  LET held == UNION {{x} \X Holds(x) : x \in Used}
  IN  \A x \in Used : refcnt(x) = References(x, held)

\* Whatever the stack, a variable, an array, a local in use or a freeup still
\* to do refers to is allocated: nothing is freed while it can be reached, and
\* nothing is freed twice.  Between operations, what is allocated is referred
\* to: no operation leaves a temporary behind, and the cleanup after a jump finds
\* every one.
AllocatedIsReferenced ==
  /\ \A j \in DOMAIN stk : InUse(stk[j])
  /\ \A v \in Vars : InUse(valu[v])
  /\ \A x \in Used : \A j \in Holds(x) : InUse(items(x)[j])
  /\ \A j \in DOMAIN todo : InUse(todo[j].arr)
  /\ pc = "index" => InUse(r.x)
  /\ pc \in {"place", "replace", "implode", "pack", "unprotect", "push"} => InUse(r.a) /\ InUse(r.x) /\ InUse(r.addr)
  /\ Ready /\ pc = "idle" => \A x \in Used : refcnt(x) > 0

\* Between operations no list of integers is kept as a list of arrays: equal
\* values have equal kinds, which comparison relies on.
HomogeneousAreImploded ==
  Ready /\ pc = "idle" =>
    \A x \in Used : kind(x) = "atype" => \E j \in DOMAIN items(x) : kind(items(x)[j]) # "int"

\* The evaluator computes with values: the steps on containers implement the
\* operations on values, and an update in place changes nothing but the variable
\* assigned to.
ImplementsValues == V!Spec

\* Every insertion, freeing and cleanup ends: each of its steps comes to a later
\* stage, or leaves fewer references to give up and arrays to look at, so that
\* Internal being fair brings it to its end.  (A list that is to be packed waits
\* in vain when the arrays of the instance are used up.)
Stage == CASE pc = "index" -> 11 [] pc = "place" -> 10 [] pc = "replace" -> 9 [] pc = "implode" -> 8
           [] pc = "pack" -> 7 [] pc = "unprotect" -> 6 [] pc = "push" -> 5 [] pc = "store" -> 4
           [] pc \in {"fault", "finish"} -> 3
           [] pc = "clearstack" -> 2 [] pc = "clearheap" -> 1 [] OTHER -> 0
Left  == Len(todo) + 2 * (Len(stk) + Cardinality(unseen))
           + MapThenSumSet(LAMBDA x : 1 + Cardinality(NotDone(x)), Used)
StepsCountDown ==
  [][~Ready \/ pc \notin {"idle", "index"} => Stage' < Stage \/ (Stage' = Stage /\ Left' < Left)]_vars
=============================================================================
