----------------------------- MODULE HeapProofs -----------------------------
(***************************************************************************)
(* Proofs about module Heap, for every value of its constants.             *)
(***************************************************************************)
EXTENDS Heap, SetLemmas, TLAPS

(* The two blocks that setup_heap makes and that are never handed out.     *)
FixedBlocks ==
  /\ freelisthdr \in Blocks /\ endblock \in Blocks
  /\ tag[freelisthdr] = "free"
  /\ blksize[freelisthdr] = FlhSize /\ blksize[endblock] = FlhSize
  /\ \A b \in Blocks : tag[b] = "locked" <=> b = endblock
  /\ lastword[endblock] = 0

(* Every other block is large enough to be given back.                     *)
LargeBlocks ==
  \A b \in Blocks \ {freelisthdr, endblock} : blksize[b] >= MinSize

(* The cursors of a search follow the list.                                *)
SearchInv ==
  pc = "search" =>
     /\ caller = "reserve"
     /\ req >= MinSize
     /\ freeptr \in DOMAIN fwdlink
     /\ nextfree = fwdlink[freeptr]

(* Between expand_heap and its call of release the new words are the one   *)
(* block that is neither free nor in use.                                  *)
FreshInv ==
  \A b \in Blocks : tag[b] = "fresh" =>
     /\ pc = "release"
     /\ nextblk(b) = memsize
     /\ Expansion => blksize[b] >= req

CtlInv ==
  /\ pc \in {"mutator", "fatal"} => caller = "none" /\ req = 0
  /\ pc \in {"expand", "release", "expanded"} => caller # "none"
  /\ caller = "checkavailspace" => req >= MinSize
  /\ caller = "reserve" => req >= MinSize
  /\ pc # "search" => /\ freeptr \in {freelisthdr, endblock}
                      /\ nextfree \in {freelisthdr, TERMINATOR}

(* The free list has no cycle: its blocks can be numbered along fwdlink.    *)
ListOrdered ==
  \E pos \in [DOMAIN fwdlink -> Int] :
     \A b \in DOMAIN fwdlink \ {endblock} : pos[b] < pos[fwdlink[b]]

MemInv ==
  /\ MemType
  /\ Tiling
  /\ FixedBlocks
  /\ LargeBlocks
  /\ BoundaryTags
  /\ Coalesced
  /\ LinksAgree
  /\ ListOrdered

IInv ==
  /\ MemInv
  /\ CtlType
  /\ SearchInv
  /\ FreshInv
  /\ CtlInv
  /\ OneExpansionIsEnough

LEMMA InitIInv == Init => IInv
<1> SUFFICES ASSUME Init PROVE IInv
  OBVIOUS
<1> USE HeapConstants DEF freelisthdr, endblock, membase, TERMINATOR, Blocks, nextblk
<1>0. /\ FlhSize \in Nat /\ FlhSize > 0 /\ DfMemSize \in Nat
      /\ DfMemSize - membase \in Nat /\ DfMemSize - membase >= MinSize
      /\ MinSize \in Nat
  OBVIOUS
<1>1. /\ Blocks = {0, FlhSize, 2 * FlhSize}
      /\ blksize[0] = FlhSize /\ blksize[FlhSize] = FlhSize
      /\ blksize[2 * FlhSize] = DfMemSize - 2 * FlhSize
      /\ tag[0] = "free" /\ tag[FlhSize] = "locked" /\ tag[2 * FlhSize] = "free"
  BY <1>0 DEF Init
<1>2. MemType
  BY <1>0, <1>1 DEF Init, MemType, BlockType, LinkType
<1>3. Tiling
  BY <1>0, <1>1 DEF Init, Tiling
<1>4. FixedBlocks /\ LargeBlocks
  BY <1>0, <1>1 DEF Init, FixedBlocks, LargeBlocks
<1>5. BoundaryTags
  BY <1>0, <1>1 DEF Init, BoundaryTags
<1>6. Coalesced
  BY <1>0, <1>1 DEF Init, Coalesced, FollowingFree, isfree
<1>7. LinksAgree
  BY <1>0, <1>1 DEF Init, LinksAgree
<1>8. CtlType /\ SearchInv /\ FreshInv /\ CtlInv /\ OneExpansionIsEnough
  BY <1>0, <1>1 DEF Init, CtlType, SearchInv, FreshInv, CtlInv, OneExpansionIsEnough
<1>9. ListOrdered
  <2> DEFINE pos == [b \in DOMAIN fwdlink |->
                       IF b = 0 THEN 0 ELSE IF b = membase THEN 1 ELSE 2]
  <2>1. pos \in [DOMAIN fwdlink -> Int]
    OBVIOUS
  <2>2. \A b \in DOMAIN fwdlink \ {endblock} : pos[b] < pos[fwdlink[b]]
    BY <1>0, <1>1 DEF Init
  <2> QED
    BY <2>1, <2>2 DEF ListOrdered
<1> QED
  BY <1>2, <1>3, <1>4, <1>5, <1>6, <1>7, <1>8, <1>9 DEF IInv, MemInv

---------------------------------------------------------------------------
(* Doubly linked lists from the header block to the end block.             *)

IsList(f, b) ==
  /\ f = [i \in DOMAIN f |-> f[i]] /\ b = [i \in DOMAIN b |-> b[i]]
  /\ freelisthdr \in DOMAIN f /\ endblock \in DOMAIN f /\ TERMINATOR \notin DOMAIN f
  /\ \A i : i \in DOMAIN b <=> i \in DOMAIN f /\ i # freelisthdr
  /\ f[endblock] = TERMINATOR
  /\ \A i \in DOMAIN f \ {endblock} : f[i] \in DOMAIN b /\ b[f[i]] = i
  /\ \A i \in DOMAIN b : b[i] \in DOMAIN f /\ b[i] # endblock /\ f[b[i]] = i
  /\ \E pos \in [DOMAIN f -> Int] :
        \A i \in DOMAIN f \ {endblock} : pos[i] < pos[f[i]]

(* p is taken out; x takes the place of q; x is put behind the header.     *)
FwdRemoved(f, b, p) ==
  [i \in DOMAIN f \ {p} |-> IF i = b[p] THEN f[p] ELSE f[i]]
BckRemoved(f, b, p) ==
  [i \in DOMAIN b \ {p} |-> IF i = f[p] THEN b[p] ELSE b[i]]
FwdReplaced(f, b, q, x) ==
  [i \in (DOMAIN f \ {q}) \cup {x} |->
     IF i = x THEN f[q] ELSE IF i = b[q] THEN x ELSE f[i]]
BckReplaced(f, b, q, x) ==
  [i \in (DOMAIN b \ {q}) \cup {x} |->
     IF i = x THEN b[q] ELSE IF i = f[q] THEN x ELSE b[i]]
FwdInserted(f, x) ==
  [i \in DOMAIN f \cup {x} |->
     IF i = x THEN f[freelisthdr] ELSE IF i = freelisthdr THEN x ELSE f[i]]
BckInserted(f, b, x) ==
  [i \in DOMAIN b \cup {x} |->
     IF i = x THEN freelisthdr ELSE IF i = f[freelisthdr] THEN x ELSE b[i]]

LEMMA Around ==
  ASSUME NEW f, NEW b, IsList(f, b), NEW p \in DOMAIN b \ {endblock}
  PROVE  /\ p \in DOMAIN f /\ p # freelisthdr
         /\ b[p] \in DOMAIN f /\ b[p] # p /\ b[p] # endblock /\ f[b[p]] = p
         /\ f[p] \in DOMAIN b /\ f[p] # p /\ f[p] # freelisthdr /\ b[f[p]] = p
         /\ f[p] \in DOMAIN f /\ f[p] # TERMINATOR
<1>1. p \in DOMAIN f /\ p # freelisthdr /\ b[p] \in DOMAIN f /\ b[p] # endblock /\ f[b[p]] = p
      /\ f[p] \in DOMAIN b /\ b[f[p]] = p /\ f[p] # freelisthdr /\ f[p] \in DOMAIN f
      /\ f[p] # TERMINATOR
  BY DEF IsList
<1>2. PICK pos \in [DOMAIN f -> Int] :
        \A i \in DOMAIN f \ {endblock} : pos[i] < pos[f[i]]
  BY DEF IsList
<1>3. pos[p] < pos[f[p]] /\ pos[b[p]] < pos[p] /\ pos[p] \in Int
  BY <1>1, <1>2
<1> QED
  BY <1>1, <1>3

LEMMA RemoveFromList ==
  ASSUME NEW f, NEW b, IsList(f, b), NEW p \in DOMAIN b \ {endblock}
  PROVE  IsList(FwdRemoved(f, b, p), BckRemoved(f, b, p))
<1> DEFINE ff == FwdRemoved(f, b, p)
           bb == BckRemoved(f, b, p)
<1>1. /\ p \in DOMAIN f /\ p # freelisthdr
      /\ b[p] \in DOMAIN f /\ b[p] # p /\ b[p] # endblock /\ f[b[p]] = p
      /\ f[p] \in DOMAIN b /\ f[p] # p /\ f[p] # freelisthdr /\ b[f[p]] = p
      /\ f[p] \in DOMAIN f /\ f[p] # TERMINATOR
  BY Around
<1>2. /\ ff = [i \in DOMAIN ff |-> ff[i]] /\ DOMAIN ff = DOMAIN f \ {p}
      /\ ff[b[p]] = f[p]
      /\ \A i \in DOMAIN ff : i # b[p] => ff[i] = f[i]
  BY <1>1 DEF FwdRemoved
<1>3. /\ bb = [i \in DOMAIN bb |-> bb[i]] /\ DOMAIN bb = DOMAIN b \ {p}
      /\ bb[f[p]] = b[p]
      /\ \A i \in DOMAIN bb : i # f[p] => bb[i] = b[i]
  BY <1>1 DEF BckRemoved
<1> HIDE DEF ff, bb
<1>4. /\ freelisthdr \in DOMAIN ff /\ endblock \in DOMAIN ff /\ TERMINATOR \notin DOMAIN ff
      /\ \A i : i \in DOMAIN bb <=> i \in DOMAIN ff /\ i # freelisthdr
      /\ ff[endblock] = TERMINATOR
  BY <1>1, <1>2, <1>3 DEF IsList
<1>5. \A i \in DOMAIN ff \ {endblock} : ff[i] \in DOMAIN bb /\ bb[ff[i]] = i
  BY <1>1, <1>2, <1>3 DEF IsList
<1>6. \A i \in DOMAIN bb : bb[i] \in DOMAIN ff /\ bb[i] # endblock /\ ff[bb[i]] = i
  BY <1>1, <1>2, <1>3 DEF IsList
<1>7. PICK pos \in [DOMAIN f -> Int] :
        \A i \in DOMAIN f \ {endblock} : pos[i] < pos[f[i]]
  BY DEF IsList
<1> DEFINE pos1 == [i \in DOMAIN ff |-> pos[i]]
<1>8. pos1 \in [DOMAIN ff -> Int]
  BY <1>2, <1>7
<1>9. \A i \in DOMAIN ff \ {endblock} : pos1[i] < pos1[ff[i]]
  <2>1. \A i \in DOMAIN ff \ {endblock} : ff[i] \in DOMAIN ff
    BY <1>4, <1>5
  <2>2. pos[b[p]] < pos[p] /\ pos[p] < pos[f[p]] /\ pos[p] \in Int
        /\ pos[b[p]] \in Int /\ pos[f[p]] \in Int
    BY <1>1, <1>7
  <2> QED
    BY <1>2, <1>7, <2>1, <2>2
<1> QED
  BY <1>2, <1>3, <1>4, <1>5, <1>6, <1>8, <1>9 DEF IsList, ff, bb

LEMMA ReplaceInList ==
  ASSUME NEW f, NEW b, IsList(f, b), NEW q \in DOMAIN b \ {endblock},
         NEW x, x \notin DOMAIN f, x # TERMINATOR
  PROVE  IsList(FwdReplaced(f, b, q, x), BckReplaced(f, b, q, x))
<1> DEFINE ff == FwdReplaced(f, b, q, x)
           bb == BckReplaced(f, b, q, x)
<1>1. /\ q \in DOMAIN f /\ q # freelisthdr
      /\ b[q] \in DOMAIN f /\ b[q] # q /\ b[q] # endblock /\ f[b[q]] = q
      /\ f[q] \in DOMAIN b /\ f[q] # q /\ f[q] # freelisthdr /\ b[f[q]] = q
      /\ f[q] \in DOMAIN f /\ f[q] # TERMINATOR
  BY Around
<1>2. /\ ff = [i \in DOMAIN ff |-> ff[i]] /\ DOMAIN ff = (DOMAIN f \ {q}) \cup {x}
      /\ ff[b[q]] = x /\ ff[x] = f[q]
      /\ \A i \in DOMAIN ff : i # b[q] /\ i # x => ff[i] = f[i]
  BY <1>1 DEF FwdReplaced
<1>3. /\ bb = [i \in DOMAIN bb |-> bb[i]] /\ DOMAIN bb = (DOMAIN b \ {q}) \cup {x}
      /\ bb[f[q]] = x /\ bb[x] = b[q]
      /\ \A i \in DOMAIN bb : i # f[q] /\ i # x => bb[i] = b[i]
  BY <1>1 DEF BckReplaced, IsList
<1> HIDE DEF ff, bb
<1>4. /\ freelisthdr \in DOMAIN ff /\ endblock \in DOMAIN ff /\ TERMINATOR \notin DOMAIN ff
      /\ \A i : i \in DOMAIN bb <=> i \in DOMAIN ff /\ i # freelisthdr
      /\ ff[endblock] = TERMINATOR
  BY <1>1, <1>2, <1>3 DEF IsList
<1>5. \A i \in DOMAIN ff \ {endblock} : ff[i] \in DOMAIN bb /\ bb[ff[i]] = i
  BY <1>1, <1>2, <1>3 DEF IsList
<1>6. \A i \in DOMAIN bb : bb[i] \in DOMAIN ff /\ bb[i] # endblock /\ ff[bb[i]] = i
  BY <1>1, <1>2, <1>3 DEF IsList
<1>7. PICK pos \in [DOMAIN f -> Int] :
        \A i \in DOMAIN f \ {endblock} : pos[i] < pos[f[i]]
  BY DEF IsList
<1> DEFINE pos1 == [i \in DOMAIN ff |-> IF i = x THEN pos[q] ELSE pos[i]]
<1>8. pos1 \in [DOMAIN ff -> Int]
  BY <1>1, <1>2, <1>7
<1>9. \A i \in DOMAIN ff \ {endblock} : pos1[i] < pos1[ff[i]]
  <2>1. \A i \in DOMAIN ff \ {endblock} : ff[i] \in DOMAIN ff
    BY <1>4, <1>5
  <2>2. pos[b[q]] < pos[q] /\ pos[q] < pos[f[q]] /\ f[q] # x /\ b[q] # x
    BY <1>1, <1>7
  <2>3. pos1[x] < pos1[ff[x]] /\ pos1[b[q]] < pos1[ff[b[q]]]
    BY <1>1, <1>2, <2>2
  <2>4. \A i \in DOMAIN ff \ {endblock} : i # x /\ i # b[q] =>
           i \in DOMAIN f /\ ff[i] = f[i] /\ f[i] # x /\ f[i] \in DOMAIN ff
    <3>1. \A i \in DOMAIN f \ {endblock} : f[i] \in DOMAIN f
      BY DEF IsList
    <3> QED
      BY <1>2, <2>1, <3>1
  <2>5. \A i \in DOMAIN ff \ {endblock} : i # x /\ i # b[q] => pos1[i] < pos1[ff[i]]
    BY <1>7, <2>4
  <2> QED
    BY <2>3, <2>5
<1> QED
  BY <1>2, <1>3, <1>4, <1>5, <1>6, <1>8, <1>9 DEF IsList, ff, bb

LEMMA InsertInList ==
  ASSUME NEW f, NEW b, IsList(f, b), freelisthdr # endblock,
         NEW x, x \notin DOMAIN f, x # TERMINATOR
  PROVE  IsList(FwdInserted(f, x), BckInserted(f, b, x))
<1> DEFINE ff == FwdInserted(f, x)
           bb == BckInserted(f, b, x)
           n  == f[freelisthdr]
<1>1. n \in DOMAIN b /\ b[n] = freelisthdr /\ n \in DOMAIN f /\ n # freelisthdr /\ n # x
      /\ x # freelisthdr /\ x # endblock
  BY DEF IsList
<1>2. /\ ff = [i \in DOMAIN ff |-> ff[i]] /\ DOMAIN ff = DOMAIN f \cup {x}
      /\ ff[freelisthdr] = x /\ ff[x] = n
      /\ \A i \in DOMAIN ff : i # freelisthdr /\ i # x => ff[i] = f[i]
  BY <1>1 DEF FwdInserted, IsList
<1>3. /\ bb = [i \in DOMAIN bb |-> bb[i]] /\ DOMAIN bb = DOMAIN b \cup {x}
      /\ bb[n] = x /\ bb[x] = freelisthdr
      /\ \A i \in DOMAIN bb : i # n /\ i # x => bb[i] = b[i]
  BY <1>1 DEF BckInserted
<1> HIDE DEF ff, bb, n
<1>4. /\ freelisthdr \in DOMAIN ff /\ endblock \in DOMAIN ff /\ TERMINATOR \notin DOMAIN ff
      /\ \A i : i \in DOMAIN bb <=> i \in DOMAIN ff /\ i # freelisthdr
      /\ ff[endblock] = TERMINATOR
  BY <1>1, <1>2, <1>3 DEF IsList
<1>5. \A i \in DOMAIN ff \ {endblock} : ff[i] \in DOMAIN bb /\ bb[ff[i]] = i
  BY <1>1, <1>2, <1>3 DEF IsList, n
<1>6. \A i \in DOMAIN bb : bb[i] \in DOMAIN ff /\ bb[i] # endblock /\ ff[bb[i]] = i
  BY <1>1, <1>2, <1>3 DEF IsList, n
<1>7. PICK pos \in [DOMAIN f -> Int] :
        \A i \in DOMAIN f \ {endblock} : pos[i] < pos[f[i]]
  BY DEF IsList
<1> DEFINE pos1 == [i \in DOMAIN ff |->
                      IF i = x THEN pos[freelisthdr]
                      ELSE IF i = freelisthdr THEN pos[freelisthdr] - 1 ELSE pos[i]]
<1>8. pos1 \in [DOMAIN ff -> Int]
  BY <1>2, <1>7 DEF IsList
<1>9. \A i \in DOMAIN ff \ {endblock} : pos1[i] < pos1[ff[i]]
  <2>1. \A i \in DOMAIN ff \ {endblock} : ff[i] \in DOMAIN ff
    BY <1>4, <1>5
  <2>2. pos[freelisthdr] < pos[n] /\ pos[freelisthdr] \in Int
    BY <1>1, <1>7 DEF n, IsList
  <2>3. pos1[x] < pos1[ff[x]] /\ pos1[freelisthdr] < pos1[ff[freelisthdr]]
    <3>1. x \in DOMAIN ff /\ n \in DOMAIN ff /\ freelisthdr \in DOMAIN ff
      BY <1>1, <1>2, <1>4
    <3>2. pos1[x] = pos[freelisthdr] /\ pos1[n] = pos[n] /\ pos1[freelisthdr] = pos[freelisthdr] - 1
      BY <1>1, <3>1
    <3> QED
      BY <1>2, <2>2, <3>2
  <2>4. \A i \in DOMAIN ff \ {endblock} : i # x /\ i # freelisthdr =>
           i \in DOMAIN f /\ ff[i] = f[i] /\ f[i] # x /\ f[i] # freelisthdr /\ f[i] \in DOMAIN ff
    BY <1>2, <2>1 DEF IsList
  <2>5. \A i \in DOMAIN ff \ {endblock} : i # x /\ i # freelisthdr => pos1[i] < pos1[ff[i]]
    BY <1>7, <2>4
  <2> QED
    BY <2>3, <2>5
<1> QED
  BY <1>2, <1>3, <1>4, <1>5, <1>6, <1>8, <1>9 DEF IsList, ff, bb

(* What the invariants say of the list and of the blocks, field by field.  *)
LEMMA ListFacts ==
  ASSUME MemInv
  PROVE  /\ \A b : b \in DOMAIN fwdlink <=> b \in Blocks /\ (tag[b] = "free" \/ b = endblock)
         /\ \A b : b \in DOMAIN bcklink <=> b \in DOMAIN fwdlink /\ b # freelisthdr
         /\ \A b \in DOMAIN fwdlink : b # endblock =>
               fwdlink[b] \in DOMAIN bcklink /\ bcklink[fwdlink[b]] = b
         /\ \A b \in DOMAIN bcklink :
               /\ bcklink[b] \in DOMAIN fwdlink
               /\ fwdlink[bcklink[b]] = b
               /\ bcklink[b] # endblock
         /\ fwdlink[endblock] = TERMINATOR
         /\ freelisthdr \in DOMAIN fwdlink /\ endblock \in DOMAIN fwdlink
         /\ endblock # freelisthdr
         /\ TERMINATOR \notin Blocks
<1>1. \A b : b \in DOMAIN fwdlink <=> b \in Blocks /\ (tag[b] = "free" \/ b = endblock)
  BY DEF MemInv, MemType, BlockType, LinkType, FixedBlocks
<1>2. \A b : b \in DOMAIN bcklink <=> b \in DOMAIN fwdlink /\ b # freelisthdr
  BY DEF MemInv, MemType, BlockType, LinkType
<1>3. freelisthdr \in DOMAIN fwdlink /\ endblock \in DOMAIN fwdlink
  BY <1>1 DEF MemInv, FixedBlocks
<1>4. endblock # freelisthdr
  BY HeapConstants DEF endblock, freelisthdr
<1>5. TERMINATOR \notin Blocks
  BY DEF MemInv, MemType, BlockType, LinkType, TERMINATOR
<1>6. \A b \in DOMAIN fwdlink : b # endblock =>
               fwdlink[b] \in DOMAIN bcklink /\ bcklink[fwdlink[b]] = b
  BY DEF MemInv, LinksAgree
<1>7. fwdlink[endblock] = TERMINATOR
  BY DEF MemInv, LinksAgree
<1>8. \A b \in DOMAIN bcklink : /\ bcklink[b] \in DOMAIN fwdlink
                                /\ fwdlink[bcklink[b]] = b
  BY DEF MemInv, LinksAgree
<1>9. \A b \in DOMAIN bcklink : bcklink[b] # endblock
  BY <1>1, <1>2, <1>5, <1>7, <1>8
<1> QED
  BY <1>1, <1>2, <1>3, <1>4, <1>5, <1>6, <1>7, <1>8, <1>9

LEMMA BlockFacts ==
  ASSUME MemInv
  PROVE  /\ memsize \in Nat
         /\ \A b \in Blocks : /\ b \in Nat /\ b < memsize
                              /\ blksize[b] \in Nat /\ blksize[b] > 0
                              /\ nextblk(b) \in Nat /\ nextblk(b) <= memsize
                              /\ b < nextblk(b)
                              /\ nextblk(b) = memsize \/ nextblk(b) \in Blocks
         /\ \A b, c \in Blocks : b < c => nextblk(b) <= c
         /\ \A b, c \in Blocks : nextblk(b) = nextblk(c) => b = c
         /\ freelisthdr \in Blocks /\ endblock \in Blocks /\ freelisthdr # endblock
         /\ nextblk(freelisthdr) = endblock
         /\ 0 \in Blocks /\ freelisthdr = 0
         /\ MinSize \in Nat /\ FlhSize \in Nat /\ FlhSize > 0 /\ FlhSize < MinSize
<1>1. memsize \in Nat /\ \A b \in Blocks : b \in Nat /\ b < memsize
                                           /\ blksize[b] \in Nat /\ blksize[b] > 0
  BY DEF MemInv, MemType, BlockType, LinkType, Blocks
<1>2. \A b \in Blocks : nextblk(b) \in Nat /\ b < nextblk(b)
  BY <1>1 DEF nextblk
<1>3. \A b, c \in Blocks : b < c => nextblk(b) <= c
  BY DEF MemInv, Tiling
<1>4. \A b \in Blocks : nextblk(b) = memsize \/ nextblk(b) \in Blocks
  BY DEF MemInv, Tiling
<1>5. \A b \in Blocks : nextblk(b) <= memsize
  BY <1>1, <1>2, <1>4
<1>6. \A b, c \in Blocks : nextblk(b) = nextblk(c) => b = c
  <2> SUFFICES ASSUME NEW b \in Blocks, NEW c \in Blocks, nextblk(b) = nextblk(c)
               PROVE  ~(b < c) /\ ~(c < b)
    BY <1>1
  <2> QED
    BY <1>1, <1>2, <1>3
<1>7. /\ freelisthdr \in Blocks /\ endblock \in Blocks /\ freelisthdr # endblock
      /\ nextblk(freelisthdr) = endblock
      /\ 0 \in Blocks /\ freelisthdr = 0
      /\ MinSize \in Nat /\ FlhSize \in Nat /\ FlhSize > 0 /\ FlhSize < MinSize
  BY HeapConstants DEF MemInv, FixedBlocks, freelisthdr, endblock, nextblk
<1> QED
  BY <1>1, <1>2, <1>3, <1>4, <1>5, <1>6, <1>7

(* The steps that leave the memory alone.                                  *)
LEMMA MemStays == MemInv /\ UNCHANGED mem => MemInv'
<1> SUFFICES ASSUME MemInv, UNCHANGED mem PROVE MemInv'
  OBVIOUS
<1>1. /\ UNCHANGED <<memsize, blksize, tag, fwdlink, bcklink, lastword>>
      /\ Blocks' = Blocks
  BY DEF mem, Blocks
<1>2. MemType' /\ Tiling' /\ FixedBlocks' /\ LargeBlocks' /\ BoundaryTags'
  BY <1>1 DEF MemInv, MemType, BlockType, LinkType, Tiling, FixedBlocks, LargeBlocks, BoundaryTags, nextblk
<1>3. Coalesced' /\ LinksAgree'
  BY <1>1 DEF MemInv, Coalesced, LinksAgree, nextblk, FollowingFree, isfree
<1>4. ListOrdered'
  BY <1>1 DEF MemInv, ListOrdered
<1> QED
  BY <1>2, <1>3, <1>4 DEF MemInv

LEMMA FreeListIsList == MemInv => IsList(fwdlink, bcklink)
<1> SUFFICES ASSUME MemInv PROVE IsList(fwdlink, bcklink)
  OBVIOUS
<1>1. /\ fwdlink = [i \in DOMAIN fwdlink |-> fwdlink[i]]
      /\ bcklink = [i \in DOMAIN bcklink |-> bcklink[i]]
  BY DEF MemInv, MemType, LinkType
<1>2. \E pos \in [DOMAIN fwdlink -> Int] :
        \A i \in DOMAIN fwdlink \ {endblock} : pos[i] < pos[fwdlink[i]]
  BY DEF MemInv, ListOrdered
<1> QED
  BY <1>1, <1>2, ListFacts DEF IsList

LEMMA ListIsFreeList ==
  ASSUME NEW f, NEW b, IsList(f, b), fwdlink' = f, bcklink' = b,
         \A i : i \in DOMAIN f <=> i \in Blocks' /\ tag'[i] \in {"free", "locked"}
  PROVE  (LinkType /\ LinksAgree /\ ListOrdered)'
<1>1. LinkType'
  <2>1. DOMAIN f = {i \in Blocks : tag[i] \in {"free", "locked"}}'
    OBVIOUS
  <2>2. DOMAIN b = DOMAIN f \ {freelisthdr}
    BY DEF IsList
  <2>3. /\ \A i \in DOMAIN f : f[i] \in Blocks' \cup {TERMINATOR}
        /\ \A i \in DOMAIN b : b[i] \in Blocks'
    BY DEF IsList
  <2>4. f = [i \in DOMAIN f |-> f[i]] /\ b = [i \in DOMAIN b |-> b[i]]
    BY DEF IsList
  <2>5. f \in [DOMAIN f -> Blocks' \cup {TERMINATOR}]
    BY <2>3, <2>4
  <2>6. b \in [DOMAIN f \ {freelisthdr} -> Blocks']
    BY <2>2, <2>3, <2>4
  <2> QED
    BY <2>1, <2>5, <2>6 DEF LinkType
<1>2. LinksAgree'
  BY DEF IsList, LinksAgree
<1>3. ListOrdered'
  BY DEF IsList, ListOrdered
<1> QED
  BY <1>1, <1>2, <1>3

LEMMA ReserveIInv ==
  ASSUME IInv, NEW n \in Requests, Reserve(n) PROVE IInv'
<1>1. MemInv'
  BY MemStays DEF IInv, Reserve
<1>2. freelisthdr \in DOMAIN fwdlink /\ fwdlink[freelisthdr] \in Blocks
  BY HeapConstants DEF IInv, MemInv, MemType, BlockType, LinkType, FixedBlocks, LinksAgree, freelisthdr, endblock
<1>3. (CtlType /\ SearchInv /\ FreshInv /\ CtlInv /\ OneExpansionIsEnough)'
  BY <1>2, HeapConstants
  DEF IInv, MemInv, FixedBlocks, Reserve, StartSearch, mem, CtlType, SearchInv, FreshInv, CtlInv,
      OneExpansionIsEnough, Blocks, nextblk
<1> QED
  BY <1>1, <1>3 DEF IInv

LEMMA SearchOnIInv ==
  ASSUME IInv, SearchOn PROVE IInv'
<1>1. MemInv'
  BY MemStays DEF IInv, SearchOn
<1>2. nextfree \in DOMAIN fwdlink /\ fwdlink[nextfree] \in Blocks \cup {TERMINATOR}
  BY ListFacts DEF IInv, SearchInv, SearchOn
<1>3. (CtlType /\ SearchInv /\ FreshInv /\ CtlInv /\ OneExpansionIsEnough)'
  BY <1>2, HeapConstants
  DEF IInv, MemInv, MemType, BlockType, LinkType, SearchOn, mem, CtlType, SearchInv, FreshInv, CtlInv,
      OneExpansionIsEnough, Blocks, nextblk
<1> QED
  BY <1>1, <1>3 DEF IInv

LEMMA ExpandFailsIInv ==
  ASSUME IInv, ExpandFails PROVE IInv'
<1>1. MemInv'
  BY MemStays DEF IInv, ExpandFails
<1>2. (CtlType /\ SearchInv /\ FreshInv /\ CtlInv /\ OneExpansionIsEnough)'
  BY HeapConstants
  DEF IInv, MemInv, MemType, BlockType, LinkType, FixedBlocks, ExpandFails, WantsExpansion, Leave, mem, CtlType, SearchInv,
      FreshInv, CtlInv, OneExpansionIsEnough, Blocks, nextblk
<1> QED
  BY <1>1, <1>2 DEF IInv

LEMMA ExpandedIInv ==
  ASSUME IInv, Expanded PROVE IInv'
<1>1. MemInv'
  BY MemStays DEF IInv, Expanded
<1>2. freelisthdr \in DOMAIN fwdlink /\ fwdlink[freelisthdr] \in Blocks
  BY HeapConstants DEF IInv, MemInv, MemType, BlockType, LinkType, FixedBlocks, LinksAgree, freelisthdr, endblock
<1>0. freelisthdr \in Blocks /\ UNCHANGED <<Blocks, fwdlink>>
  BY DEF IInv, MemInv, FixedBlocks, Expanded, mem, Blocks
<1>3. (CtlType /\ SearchInv /\ CtlInv)'
  <2>1. CASE StartSearch /\ UNCHANGED <<firsttry, caller, req>> /\ caller = "reserve"
    BY <1>0, <1>2, <2>1 DEF IInv, StartSearch, CtlType, SearchInv, CtlInv
  <2>2. CASE Leave /\ firsttry' \in BOOLEAN
    BY <1>0, <2>2, HeapConstants DEF Leave, CtlType, SearchInv, CtlInv
  <2> QED
    BY <2>1, <2>2 DEF Expanded, IInv, CtlType
<1>4. (FreshInv /\ OneExpansionIsEnough)'
  BY DEF IInv, Expanded, StartSearch, Leave, mem, FreshInv, OneExpansionIsEnough, Blocks
<1> QED
  BY <1>1, <1>3, <1>4 DEF IInv

LEMMA CheckAvailSpaceIInv ==
  ASSUME IInv, CheckAvailSpace PROVE IInv'
<1>1. MemInv'
  BY MemStays DEF IInv, CheckAvailSpace
<1>2. (CtlType /\ SearchInv /\ FreshInv /\ CtlInv /\ OneExpansionIsEnough)'
  BY HeapConstants
  DEF IInv, MemInv, MemType, BlockType, LinkType, CheckAvailSpace, mem, CtlType, SearchInv,
      FreshInv, CtlInv, OneExpansionIsEnough, Blocks, nextblk
<1> QED
  BY <1>1, <1>2 DEF IInv

---------------------------------------------------------------------------
(* expand_heap: one block more, at the end.                                *)

LEMMA IncrementFacts ==
  ASSUME IInv
  PROVE  /\ Increment \in Nat
         /\ Increment >= MinSize
         /\ Expansion => Increment >= req
<1> DEFINE grow == IF memsize \div 5 > DfMemSize \div 2
                   THEN DfMemSize \div 2 ELSE memsize \div 5
<1>1. req \in Nat /\ memsize \in Nat
  BY DEF IInv, MemInv, MemType, BlockType, LinkType, CtlType
<1>2. grow \in Nat
  BY <1>1, HeapConstants
<1>3. Increment = IF ~Expansion THEN MinHeapSpace + CleanupExtra
                  ELSE IF grow < req + MinHeapSpace THEN req + MinHeapSpace ELSE grow
  BY DEF Increment
<1> HIDE DEF grow
<1> QED
  BY <1>1, <1>2, <1>3, HeapConstants

LEMMA ExpandHeapIInv ==
  ASSUME IInv, ExpandHeap PROVE IInv'
<1>2. MemInv
  BY DEF IInv
<1>0. PICK n \in Nat : n = memsize
  BY <1>2, BlockFacts
<1>i. PICK inc \in Nat : inc = Increment /\ inc >= MinSize /\ inc > 0 /\ (Expansion => inc >= req)
  BY IncrementFacts, HeapConstants
<1> DEFINE top == n + inc
<1>3. n \notin Blocks /\ top \in Nat /\ top > n
  BY <1>0, <1>i, <1>2, BlockFacts
<1>4. /\ memsize' = top
      /\ Blocks' = Blocks \cup {n}
      /\ blksize' = [b \in Blocks \cup {n} |-> IF b = n THEN inc ELSE blksize[b]]
      /\ tag' = [b \in Blocks \cup {n} |-> IF b = n THEN "fresh" ELSE tag[b]]
      /\ lastword' = [x \in DOMAIN lastword \cup {top} |-> IF x = top THEN 0 ELSE lastword[x]]
      /\ UNCHANGED <<fwdlink, bcklink, firsttry, caller, req, freeptr, nextfree>>
      /\ pc' = "release" /\ WantsExpansion
  BY <1>0, <1>i DEF ExpandHeap, Blocks
<1> HIDE DEF top
<1>t. top = n + inc
  BY DEF top
<1>51. blksize'[n] = inc /\ \A b \in Blocks : blksize'[b] = blksize[b]
  BY <1>3, <1>4
<1>52. tag'[n] = "fresh" /\ \A b \in Blocks : tag'[b] = tag[b]
  BY <1>3, <1>4
<1>53. nextblk(n)' = top /\ \A b \in Blocks : nextblk(b)' = nextblk(b)
  BY <1>51, <1>t DEF nextblk
<1>54. \A b \in Blocks : nextblk(b) \in DOMAIN lastword /\ nextblk(b) # top
  BY <1>0, <1>3, <1>2, BlockFacts DEF MemInv, MemType, BlockType, LinkType
<1>55. lastword'[top] = 0 /\ \A b \in Blocks : lastword'[nextblk(b)] = lastword[nextblk(b)]
  BY <1>4, <1>54
<1>6. MemType'
  <2>0. memsize' \in Nat
    BY <1>3, <1>4
  <2>1. (Blocks \subseteq 0 .. memsize - 1)'
    BY <1>0, <1>3, <1>4, <1>2, BlockFacts
  <2>2. (blksize \in [Blocks -> Nat \ {0}])'
    BY <1>i, <1>3, <1>4, <1>2 DEF MemInv, MemType, BlockType, LinkType
  <2>3. (tag \in [Blocks -> {"free", "alloc", "locked", "fresh"}])'
    BY <1>3, <1>4, <1>2 DEF MemInv, MemType, BlockType, LinkType
  <2>4. {b \in Blocks : tag[b] \in {"free", "locked"}}' = {b \in Blocks : tag[b] \in {"free", "locked"}}
    BY <1>3, <1>4, <1>52
  <2>5. {nextblk(b) : b \in Blocks}' = {nextblk(b) : b \in Blocks} \cup {top}
    BY <1>4, <1>53
  <2>6. (lastword \in [{nextblk(b) : b \in Blocks} -> Int])'
    <3>1. lastword \in [{nextblk(b) : b \in Blocks} -> Int]
      BY <1>2 DEF MemInv, MemType, BlockType, LinkType
    <3> DEFINE S == {nextblk(b) : b \in Blocks}
    <3>2. S' = S \cup {top}
      BY <2>5
    <3>3. lastword \in [S -> Int]
      BY <3>1
    <3>4. lastword' \in [S \cup {top} -> Int]
      <4> HIDE DEF S
      <4> QED BY <3>3, <1>4
    <3> QED
      BY <3>2, <3>4
  <2>7. (fwdlink \in [{b \in Blocks : tag[b] \in {"free", "locked"}} -> Blocks \cup {TERMINATOR}])'
    BY <2>4, <1>2, <1>4 DEF MemInv, MemType, BlockType, LinkType
  <2>8. (bcklink \in [DOMAIN fwdlink \ {freelisthdr} -> Blocks])'
    BY <1>2, <1>4 DEF MemInv, MemType, BlockType, LinkType
  <2> QED
    BY <2>0, <2>1, <2>2, <2>3, <2>6, <2>7, <2>8 DEF MemType, BlockType, LinkType
<1>7. Tiling'
  <2>1. (freelisthdr \in Blocks)'
    BY <1>2, <1>4, BlockFacts
  <2>2. \A b \in Blocks' : nextblk(b)' = memsize' \/ nextblk(b)' \in Blocks'
    BY <1>0, <1>4, <1>53, <1>2, BlockFacts
  <2>3. \A x \in (Blocks' \ {freelisthdr}) \cup {memsize'} : \E p \in Blocks' : nextblk(p)' = x
    <3>1. \A x \in (Blocks \ {freelisthdr}) \cup {n} : \E p \in Blocks : nextblk(p) = x
      BY <1>0, <1>2 DEF MemInv, Tiling
    <3>2. \A x \in (Blocks \ {freelisthdr}) \cup {n} : \E p \in Blocks' : nextblk(p)' = x
      BY <3>1, <1>4, <1>53
    <3> QED
      BY <3>2, <1>4, <1>53
  <2>4. \A b, c \in Blocks' : b < c => nextblk(b)' <= c
    BY <1>0, <1>3, <1>4, <1>53, <1>2, BlockFacts
  <2> QED
    BY <2>1, <2>2, <2>3, <2>4 DEF Tiling
<1>8. FixedBlocks' /\ LargeBlocks'
  <2>1. endblock \in DOMAIN lastword /\ endblock # top /\ lastword'[endblock] = 0
    BY <1>2, <1>54, <1>55, BlockFacts DEF MemInv, FixedBlocks
  <2>2. FixedBlocks'
    BY <1>2, <1>3, <1>4, <1>51, <1>52, <2>1 DEF MemInv, FixedBlocks
  <2>3. LargeBlocks'
    BY <1>i, <1>2, <1>3, <1>4, <1>51 DEF MemInv, LargeBlocks
  <2> QED
    BY <2>2, <2>3
<1>9. BoundaryTags'
  <2>1. \A b \in Blocks' \ {freelisthdr} :
          IF tag'[b] = "free" THEN lastword'[nextblk(b)'] = -b
                              ELSE lastword'[nextblk(b)'] >= 0
    BY <1>2, <1>3, <1>4, <1>52, <1>53, <1>55 DEF MemInv, BoundaryTags
  <2> QED
    BY <2>1 DEF BoundaryTags
<1>10. Coalesced'
  <2>1. \A b \in Blocks : tag[b] = "free" => nextblk(b) = n \/ tag[nextblk(b)] # "free"
    BY <1>0, <1>2, BlockFacts DEF MemInv, Coalesced, FollowingFree, isfree
  <2>2. \A b \in Blocks' : tag'[b] = "free" => b \in Blocks /\ tag'[nextblk(b)'] # "free"
    BY <2>1, <1>0, <1>2, <1>3, <1>4, <1>52, <1>53, BlockFacts
  <2> QED
    BY <2>2 DEF Coalesced, FollowingFree, isfree
<1>11. LinksAgree'
  BY <1>2, <1>4 DEF MemInv, LinksAgree
<1>16. ListOrdered'
  BY <1>2, <1>4 DEF MemInv, ListOrdered
<1>12. CtlType'
  BY <1>4 DEF IInv, CtlType
<1>13. FreshInv'
  <2>1. pc # "release"
    BY <1>4 DEF WantsExpansion
  <2>2. \A b \in Blocks : tag[b] # "fresh"
    BY <2>1 DEF IInv, FreshInv
  <2>3. \A b \in Blocks' : tag'[b] = "fresh" => b = n
    BY <2>2, <1>4, <1>52
  <2>4. req' = req /\ pc' = "release" /\ nextblk(n)' = memsize' /\ blksize'[n] = inc
    BY <1>4, <1>51, <1>53
  <2> QED
    BY <2>3, <2>4, <1>i DEF FreshInv
<1>14. (SearchInv /\ OneExpansionIsEnough)'
  BY <1>4 DEF SearchInv, OneExpansionIsEnough
<1>15. CtlInv'
  <2>1. caller # "none"
    BY <1>4 DEF IInv, CtlInv, SearchInv, WantsExpansion
  <2>2. freeptr \in {freelisthdr, endblock} /\ nextfree \in {freelisthdr, TERMINATOR}
    <3>1. CASE pc = "search" /\ nextfree = TERMINATOR
      <4>1. freeptr \in DOMAIN fwdlink /\ fwdlink[freeptr] = TERMINATOR
        BY <3>1 DEF IInv, SearchInv
      <4>2. freeptr = endblock
        BY <4>1, <1>2, ListFacts
      <4> QED
        BY <3>1, <4>2
    <3>2. CASE pc = "expand"
      BY <3>2 DEF IInv, CtlInv
    <3> QED
      BY <3>1, <3>2, <1>4 DEF WantsExpansion
  <2> QED
    BY <1>4, <2>1, <2>2 DEF IInv, CtlInv
<1> QED
  BY <1>6, <1>7, <1>8, <1>9, <1>10, <1>11, <1>12, <1>13, <1>14, <1>15, <1>16 DEF IInv, MemInv

---------------------------------------------------------------------------
(* reserve: the block found is taken out of the list, whole or in part.    *)

(* The block that a search has found, and its neighbours in the list.      *)
LEMMA FoundFacts ==
  ASSUME IInv, Found
  PROVE  /\ nextfree \in Blocks /\ tag[nextfree] = "free"
         /\ nextfree # endblock /\ nextfree # freelisthdr
         /\ nextfree \in DOMAIN bcklink /\ nextfree \in DOMAIN fwdlink
         /\ freeptr \in DOMAIN fwdlink /\ freeptr # nextfree /\ freeptr # endblock
         /\ fwdlink[freeptr] = nextfree /\ bcklink[nextfree] = freeptr
         /\ fwdlink[nextfree] \in DOMAIN bcklink
         /\ fwdlink[nextfree] # nextfree /\ fwdlink[nextfree] # TERMINATOR
         /\ bcklink[fwdlink[nextfree]] = nextfree
         /\ req \in Nat /\ req >= MinSize /\ blksize[nextfree] >= req
<1>1. MemInv /\ SearchInv /\ CtlType
  BY DEF IInv
<1>2. /\ freeptr \in DOMAIN fwdlink /\ nextfree = fwdlink[freeptr]
      /\ req >= MinSize /\ req \in Nat /\ blksize[nextfree] >= req
      /\ nextfree # TERMINATOR
  BY <1>1 DEF Found, SearchInv, CtlType
<1>3. freeptr # endblock
  BY <1>1, <1>2, ListFacts
<1>4. nextfree \in DOMAIN bcklink /\ bcklink[nextfree] = freeptr
  BY <1>1, <1>2, <1>3, ListFacts
<1>5. nextfree \in Blocks /\ nextfree # freelisthdr /\ nextfree \in DOMAIN fwdlink
  BY <1>1, <1>4, ListFacts
<1>6. blksize[nextfree] # FlhSize
  BY <1>1, <1>2, <1>5, BlockFacts
<1>7. nextfree # endblock
  BY <1>1, <1>6 DEF MemInv, FixedBlocks
<1>8. tag[nextfree] = "free"
  BY <1>1, <1>5, <1>7, ListFacts
<1>9. fwdlink[nextfree] \in DOMAIN bcklink /\ bcklink[fwdlink[nextfree]] = nextfree
  BY <1>1, <1>5, <1>7, ListFacts
<1>10. fwdlink[nextfree] # TERMINATOR
  BY <1>1, <1>9, ListFacts
<1>11. freeptr # nextfree /\ fwdlink[nextfree] # nextfree
  <2>1. PICK pos \in [DOMAIN fwdlink -> Int] :
          \A b \in DOMAIN fwdlink \ {endblock} : pos[b] < pos[fwdlink[b]]
    BY <1>1 DEF MemInv, ListOrdered
  <2>2. pos[freeptr] < pos[nextfree] /\ pos[nextfree] < pos[fwdlink[nextfree]]
    BY <2>1, <1>2, <1>3, <1>5, <1>7
  <2>3. pos[freeptr] \in Int /\ pos[nextfree] \in Int
    BY <2>1, <1>2, <1>5
  <2> QED
    BY <2>2, <2>3
<1> QED
  BY <1>2, <1>3, <1>4, <1>5, <1>7, <1>8, <1>9, <1>10, <1>11

(* The control state after reserve has returned.                           *)
LEMMA LeaveCtl ==
  ASSUME Leave, firsttry' \in BOOLEAN, freelisthdr \in Blocks'
  PROVE  (CtlType /\ SearchInv /\ CtlInv /\ OneExpansionIsEnough)'
BY HeapConstants DEF Leave, CtlType, SearchInv, CtlInv, OneExpansionIsEnough

LEMMA TakeWholeIInv ==
  ASSUME IInv, NEW w \in LastWords, TakeWhole(w) PROVE IInv'
<1>1. MemInv /\ Found /\ w \in Nat
  BY HeapConstants DEF IInv, TakeWhole
<1>2. PICK n \in Blocks, p \in DOMAIN fwdlink, q \in DOMAIN bcklink :
        n = nextfree /\ p = freeptr /\ q = fwdlink[n]
  BY <1>1, FoundFacts
<1>3. /\ tag[n] = "free" /\ n # endblock /\ n # freelisthdr
      /\ p # n /\ p # endblock /\ fwdlink[p] = n /\ bcklink[n] = p
      /\ q # n /\ q # TERMINATOR /\ bcklink[q] = n
      /\ n \in DOMAIN fwdlink /\ n \in DOMAIN bcklink
  BY <1>1, <1>2, FoundFacts
<1>4. /\ UNCHANGED <<memsize, blksize, firsttry>> /\ Blocks' = Blocks
      /\ fwdlink' = [Without(fwdlink, {n}) EXCEPT ![p] = q]
      /\ bcklink' = [Without(bcklink, {n}) EXCEPT ![q] = p]
      /\ tag' = [tag EXCEPT ![n] = "alloc"]
      /\ lastword' = [lastword EXCEPT ![nextblk(n)] = w]
      /\ Leave
  BY <1>2, <1>3 DEF TakeWhole, Blocks
<1>5. \A b : nextblk(b)' = nextblk(b)
  BY <1>4 DEF nextblk
<1>6. tag'[n] = "alloc" /\ \A b \in Blocks : b # n => tag'[b] = tag[b]
  BY <1>1, <1>4 DEF MemInv, MemType, BlockType, LinkType
<1>7. /\ lastword'[nextblk(n)] = w
      /\ \A b \in Blocks : b # n => lastword'[nextblk(b)] = lastword[nextblk(b)]
  <2>1. \A b \in Blocks : nextblk(b) \in DOMAIN lastword /\ (nextblk(b) = nextblk(n) => b = n)
    BY <1>1, BlockFacts DEF MemInv, MemType, BlockType, LinkType
  <2> QED
    BY <1>4, <2>1
<1>8. (LinkType /\ LinksAgree /\ ListOrdered)'
  <2>1. IsList(fwdlink, bcklink)
    BY <1>1, FreeListIsList
  <2>2. IsList(FwdRemoved(fwdlink, bcklink, n), BckRemoved(fwdlink, bcklink, n))
    BY <2>1, <1>3, RemoveFromList
  <2>3. fwdlink' = FwdRemoved(fwdlink, bcklink, n)
    BY <1>2, <1>3, <1>4 DEF FwdRemoved, Without
  <2>4. bcklink' = BckRemoved(fwdlink, bcklink, n)
    BY <1>2, <1>3, <1>4 DEF BckRemoved, Without
  <2>5. \A i : i \in DOMAIN FwdRemoved(fwdlink, bcklink, n)
               <=> i \in Blocks' /\ tag'[i] \in {"free", "locked"}
    BY <1>1, <1>2, <1>3, <1>4, <1>6, ListFacts DEF FwdRemoved, MemInv, FixedBlocks
  <2> QED
    BY <2>2, <2>3, <2>4, <2>5, ListIsFreeList
<1>10. MemType'
  <2>1. memsize' \in Nat /\ (Blocks \subseteq 0 .. memsize - 1)' /\ (blksize \in [Blocks -> Nat \ {0}])'
    BY <1>1, <1>4 DEF MemInv, MemType, BlockType, LinkType
  <2>2. (tag \in [Blocks -> {"free", "alloc", "locked", "fresh"}])'
    BY <1>1, <1>4 DEF MemInv, MemType, BlockType, LinkType
  <2>3. {nextblk(b) : b \in Blocks}' = {nextblk(b) : b \in Blocks}
    BY <1>4, <1>5
  <2>4. (lastword \in [{nextblk(b) : b \in Blocks} -> Int])'
    <3> DEFINE S == {nextblk(b) : b \in Blocks}
    <3>1. lastword \in [S -> Int] /\ w \in Int
      BY <1>1 DEF MemInv, MemType, BlockType, LinkType
    <3>2. S' = S
      BY <2>3
    <3>3. lastword' \in [S -> Int]
      <4> HIDE DEF S
      <4> QED BY <3>1, <1>4
    <3> QED
      BY <3>2, <3>3
  <2> QED
    BY <2>1, <2>2, <2>4, <1>8 DEF MemType, BlockType
<1>11. Tiling'
  BY <1>1, <1>4, <1>5 DEF MemInv, Tiling
<1>12. FixedBlocks' /\ LargeBlocks'
  <2>1. lastword'[endblock] = lastword[endblock]
    BY <1>1, <1>3, <1>7, BlockFacts
  <2> QED
    BY <1>1, <1>3, <1>4, <1>6, <2>1 DEF MemInv, FixedBlocks, LargeBlocks
<1>13. BoundaryTags'
  <2>1. \A b \in Blocks' \ {freelisthdr} :
          IF tag'[b] = "free" THEN lastword'[nextblk(b)'] = -b
                              ELSE lastword'[nextblk(b)'] >= 0
    BY <1>1, <1>4, <1>5, <1>6, <1>7 DEF MemInv, BoundaryTags
  <2> QED
    BY <2>1 DEF BoundaryTags
<1>14. Coalesced'
  <2>1. \A b \in Blocks' : nextblk(b)' = memsize' \/ nextblk(b)' \in Blocks'
    BY <1>1, <1>4, <1>5, BlockFacts
  <2>2. memsize \in Nat
    BY <1>1, BlockFacts
  <2> QED
    BY <1>1, <1>4, <1>5, <1>6, <2>1, <2>2 DEF MemInv, Coalesced, FollowingFree, isfree
<1>17. FreshInv'
  <2>1. \A b \in Blocks : tag[b] # "fresh"
    BY <1>1 DEF IInv, FreshInv, Found
  <2> QED
    BY <2>1, <1>4, <1>6 DEF FreshInv
<1>18. (CtlType /\ SearchInv /\ CtlInv /\ OneExpansionIsEnough)'
  BY <1>1, <1>4, LeaveCtl, BlockFacts DEF IInv, CtlType
<1> QED
  BY <1>8, <1>10, <1>11, <1>12, <1>13, <1>14, <1>17, <1>18 DEF IInv, MemInv

LEMMA SplitIInv ==
  ASSUME IInv, NEW w \in LastWords, Split(w) PROVE IInv'
<1>1. MemInv /\ Found /\ w \in Nat
  BY HeapConstants DEF IInv, Split
<1>2. PICK n \in Blocks, p \in DOMAIN fwdlink, q \in DOMAIN bcklink, r \in Nat :
        n = nextfree /\ p = freeptr /\ q = fwdlink[n] /\ r = n + req
  BY <1>1, FoundFacts, BlockFacts
<1>3. /\ tag[n] = "free" /\ n # endblock /\ n # freelisthdr
      /\ p # n /\ p # endblock /\ fwdlink[p] = n /\ bcklink[n] = p
      /\ q # n /\ q # TERMINATOR /\ bcklink[q] = n
      /\ n \in DOMAIN fwdlink /\ n \in DOMAIN bcklink
      /\ p \in Blocks /\ q \in Blocks
  BY <1>1, <1>2, FoundFacts, ListFacts
<1>4. /\ n < r /\ r + MinSize <= nextblk(n)
      /\ req \in Nat /\ req >= MinSize /\ blksize[n] - req \in Nat
      /\ r + (blksize[n] - req) = nextblk(n)
  BY <1>1, <1>2, FoundFacts, BlockFacts DEF Split, nextblk
<1>5. r \notin Blocks /\ \A b \in Blocks : nextblk(b) # r
  BY <1>1, <1>2, <1>4, BlockFacts
<1>6. /\ UNCHANGED <<memsize, firsttry>> /\ Leave
      /\ Blocks' = Blocks \cup {r}
      /\ blksize' = [b \in Blocks \cup {r} |->
                       IF b = r THEN blksize[n] - req
                       ELSE IF b = n THEN req ELSE blksize[b]]
      /\ tag' = [b \in Blocks \cup {r} |->
                   IF b = r THEN "free" ELSE IF b = n THEN "alloc" ELSE tag[b]]
      /\ lastword' = [x \in DOMAIN lastword \cup {r} |->
                        IF x = nextblk(n) THEN -r ELSE IF x = r THEN w ELSE lastword[x]]
  BY <1>2 DEF Split, Blocks
<1>7. /\ blksize'[r] = blksize[n] - req /\ blksize'[n] = req
      /\ \A b \in Blocks : b # n => blksize'[b] = blksize[b]
  BY <1>5, <1>6
<1>8. /\ nextblk(n)' = r /\ nextblk(r)' = nextblk(n)
      /\ \A b \in Blocks : b # n => nextblk(b)' = nextblk(b)
  BY <1>2, <1>4, <1>7 DEF nextblk
<1>9. /\ tag'[r] = "free" /\ tag'[n] = "alloc"
      /\ \A b \in Blocks : b # n => tag'[b] = tag[b]
  BY <1>5, <1>6
<1>10. /\ lastword'[nextblk(n)] = -r /\ lastword'[r] = w
       /\ \A b \in Blocks : b # n => lastword'[nextblk(b)] = lastword[nextblk(b)]
  <2>1. \A b \in Blocks : nextblk(b) \in DOMAIN lastword /\ (nextblk(b) = nextblk(n) => b = n)
    BY <1>1, BlockFacts DEF MemInv, MemType, BlockType, LinkType
  <2> QED
    BY <1>5, <1>6, <2>1
<1>11. r \notin DOMAIN fwdlink /\ r \notin DOMAIN bcklink
  BY <1>1, <1>5, ListFacts
<1>12. (LinkType /\ LinksAgree /\ ListOrdered)'
  <2> DEFINE f == FwdReplaced(fwdlink, bcklink, n, r)
             g == BckReplaced(fwdlink, bcklink, n, r)
  <2>1. IsList(fwdlink, bcklink) /\ r # TERMINATOR
    BY <1>1, <1>2, FreeListIsList DEF TERMINATOR
  <2>2. IsList(f, g)
    BY <2>1, <1>3, <1>11, ReplaceInList
  <2>3. fwdlink' = f
    BY <1>2, <1>3, <1>5, <1>11 DEF Split, FwdReplaced, Without
  <2>4. bcklink' = g
    BY <1>2, <1>3, <1>5, <1>11 DEF Split, BckReplaced, Without
  <2>5. \A i : i \in DOMAIN f <=> i \in Blocks' /\ tag'[i] \in {"free", "locked"}
    <3>1. \A i : i \in DOMAIN f <=> i = r \/ (i \in DOMAIN fwdlink /\ i # n)
      BY DEF FwdReplaced
    <3> QED
      BY <3>1, <1>1, <1>2, <1>3, <1>5, <1>6, <1>9, ListFacts DEF MemInv, FixedBlocks
  <2> QED
    BY <2>2, <2>3, <2>4, <2>5, ListIsFreeList
<1>14. MemType'
  <2>1. memsize' \in Nat /\ (Blocks \subseteq 0 .. memsize - 1)'
    BY <1>1, <1>4, <1>6, BlockFacts
  <2>2. (blksize \in [Blocks -> Nat \ {0}])'
    BY <1>1, <1>4, <1>6, BlockFacts
  <2>3. (tag \in [Blocks -> {"free", "alloc", "locked", "fresh"}])'
    BY <1>1, <1>6 DEF MemInv, MemType, BlockType, LinkType
  <2>4. (lastword \in [{nextblk(b) : b \in Blocks} -> Int])'
    <3> DEFINE S == {nextblk(b) : b \in Blocks}
    <3>1. lastword \in [S -> Int] /\ w \in Int
      BY <1>1 DEF MemInv, MemType, BlockType, LinkType
    <3>2. S' = S \cup {r}
      BY <1>2, <1>6, <1>8
    <3>3. lastword' \in [S \cup {r} -> Int]
      <4> HIDE DEF S
      <4> QED BY <3>1, <1>6
    <3> QED
      BY <3>2, <3>3
  <2> QED
    BY <2>1, <2>2, <2>3, <2>4, <1>12 DEF MemType, BlockType
<1>15. Tiling'
  <2>1. (freelisthdr \in Blocks)'
    BY <1>1, <1>6, BlockFacts
  <2>2. \A b \in Blocks' : nextblk(b)' = memsize' \/ nextblk(b)' \in Blocks'
    BY <1>1, <1>2, <1>6, <1>8, BlockFacts
  <2>3. \A x \in (Blocks' \ {freelisthdr}) \cup {memsize'} : \E c \in Blocks' : nextblk(c)' = x
    <3>1. \A x \in (Blocks \ {freelisthdr}) \cup {memsize} : \E c \in Blocks : nextblk(c) = x
      BY <1>1 DEF MemInv, Tiling
    <3>2. \A x \in (Blocks \ {freelisthdr}) \cup {memsize} : \E c \in Blocks' : nextblk(c)' = x
      BY <3>1, <1>6, <1>8
    <3> QED
      BY <3>2, <1>6, <1>8
  <2>4. \A b, c \in Blocks' : b < c => nextblk(b)' <= c
    <3>1. \A b, c \in Blocks : b < c => nextblk(b)' <= c
      BY <1>1, <1>2, <1>4, <1>8, BlockFacts
    <3>2. \A c \in Blocks : r < c => nextblk(r)' <= c
      BY <1>1, <1>2, <1>4, <1>8, BlockFacts
    <3>3. \A b \in Blocks : b < r => nextblk(b)' <= r
      BY <1>1, <1>2, <1>4, <1>8, BlockFacts
    <3> QED
      BY <3>1, <3>2, <3>3, <1>6
  <2> QED
    BY <2>1, <2>2, <2>3, <2>4 DEF Tiling
<1>16. FixedBlocks' /\ LargeBlocks'
  <2>1. lastword'[endblock] = lastword[endblock]
    BY <1>1, <1>3, <1>10, BlockFacts
  <2>2. FixedBlocks'
    BY <1>1, <1>3, <1>5, <1>6, <1>7, <1>9, <2>1 DEF MemInv, FixedBlocks
  <2>3. LargeBlocks'
    <3>1. blksize'[r] >= MinSize /\ blksize'[n] >= MinSize
      BY <1>1, <1>2, <1>4, <1>7, BlockFacts DEF Split
    <3> QED
      BY <1>1, <1>6, <1>7, <3>1 DEF MemInv, LargeBlocks
  <2> QED
    BY <2>2, <2>3
<1>17. BoundaryTags'
  <2>1. \A b \in Blocks' \ {freelisthdr} :
          IF tag'[b] = "free" THEN lastword'[nextblk(b)'] = -b
                              ELSE lastword'[nextblk(b)'] >= 0
    <3>1. \A b \in Blocks \ {freelisthdr} : b # n =>
            IF tag'[b] = "free" THEN lastword'[nextblk(b)'] = -b
                                ELSE lastword'[nextblk(b)'] >= 0
      BY <1>1, <1>8, <1>9, <1>10 DEF MemInv, BoundaryTags
    <3>2. lastword'[nextblk(r)'] = -r /\ lastword'[nextblk(n)'] >= 0
      BY <1>1, <1>8, <1>10
    <3> QED
      BY <3>1, <3>2, <1>6, <1>9
  <2> QED
    BY <2>1 DEF BoundaryTags
<1>18. Coalesced'
  <2>0. memsize' \in Nat
    BY <1>1, <1>6, BlockFacts
  <2>1. \A b \in Blocks : tag[b] = "free" =>
          nextblk(b) = memsize \/ (nextblk(b) \in Blocks /\ tag[nextblk(b)] # "free")
    BY <1>1, BlockFacts DEF MemInv, Coalesced, FollowingFree, isfree
  <2>2. \A b \in Blocks' : tag'[b] = "free" =>
          nextblk(b)' = memsize' \/ (nextblk(b)' \in Blocks' /\ tag'[nextblk(b)'] # "free")
    <3>1. \A b \in Blocks : b # n /\ tag[b] = "free" =>
            nextblk(b)' = memsize' \/ (nextblk(b)' \in Blocks' /\ tag'[nextblk(b)'] # "free")
      BY <2>1, <1>6, <1>8, <1>9
    <3>2. nextblk(n) # n
      BY <1>1, BlockFacts
    <3>3. nextblk(r)' = memsize' \/ (nextblk(r)' \in Blocks' /\ tag'[nextblk(r)'] # "free")
      BY <2>1, <3>2, <1>3, <1>6, <1>8, <1>9
    <3> QED
      BY <3>1, <3>3, <1>6, <1>9
  <2> QED
    BY <2>0, <2>2 DEF Coalesced, FollowingFree, isfree
<1>21. FreshInv'
  <2>1. \A b \in Blocks : tag[b] # "fresh"
    BY <1>1 DEF IInv, FreshInv, Found
  <2> QED
    BY <2>1, <1>6, <1>9 DEF FreshInv
<1>22. (CtlType /\ SearchInv /\ CtlInv /\ OneExpansionIsEnough)'
  BY <1>1, <1>6, LeaveCtl, BlockFacts DEF IInv, CtlType
<1> QED
  BY <1>12, <1>14, <1>15, <1>16, <1>17, <1>18, <1>21, <1>22 DEF IInv, MemInv

---------------------------------------------------------------------------
(* release: x and its free neighbours become one free block.               *)

(* What the tests of release on the neighbours of x mean.                  *)
LEMMA Neighbours ==
  ASSUME MemInv, NEW x \in Blocks, tag[x] \in {"alloc", "fresh"}
  PROVE  /\ x # freelisthdr /\ x # endblock /\ x \notin DOMAIN fwdlink
         /\ FollowingFree(x) => /\ nextblk(x) \in Blocks /\ tag[nextblk(x)] = "free"
                                /\ nextblk(x) # freelisthdr /\ nextblk(x) # endblock
         /\ ~FollowingFree(x) => nextblk(x) = memsize \/ tag[nextblk(x)] # "free"
         /\ PrecedingFree(x) => /\ prevblk(x) \in Blocks /\ tag[prevblk(x)] = "free"
                                /\ nextblk(prevblk(x)) = x
                                /\ prevblk(x) # freelisthdr /\ prevblk(x) # endblock
         /\ ~PrecedingFree(x) => \A c \in Blocks : nextblk(c) = x => tag[c] # "free"
<1>1. x # freelisthdr /\ x # endblock /\ x \notin DOMAIN fwdlink
  BY ListFacts DEF MemInv, FixedBlocks
<1>2. nextblk(x) # freelisthdr /\ nextblk(x) # endblock
  BY <1>1, BlockFacts
<1>3. FollowingFree(x) => nextblk(x) \in Blocks /\ tag[nextblk(x)] = "free"
  BY BlockFacts DEF FollowingFree, isfree
<1>4. ~FollowingFree(x) => nextblk(x) = memsize \/ tag[nextblk(x)] # "free"
  BY BlockFacts DEF FollowingFree, isfree
<1>5. PICK p \in Blocks : nextblk(p) = x
  BY <1>1 DEF MemInv, Tiling
<1>6. p # freelisthdr
  BY <1>1, <1>5, BlockFacts
<1>7. \A c \in Blocks : nextblk(c) = x => c = p
  BY <1>5, BlockFacts
<1>8. p \in Nat /\ p > 0 /\ p < memsize /\ lastword[x] \in Int
  BY <1>5, <1>6, BlockFacts DEF MemInv, MemType, BlockType
<1>9. CASE tag[p] = "free"
  <2>1. lastword[x] = -p
    BY <1>5, <1>6, <1>9 DEF MemInv, BoundaryTags
  <2>2. prevblk(x) = p /\ PrecedingFree(x)
    BY <2>1, <1>8, BlockFacts DEF prevblk, PrecedingFree, isprevfree
  <2>3. p # endblock
    BY <1>9 DEF MemInv, FixedBlocks
  <2> QED
    BY <1>1, <1>2, <1>3, <1>4, <1>5, <1>6, <1>9, <2>2, <2>3
<1>10. CASE tag[p] # "free"
  <2>1. lastword[x] >= 0
    BY <1>5, <1>6, <1>10 DEF MemInv, BoundaryTags
  <2>2. ~PrecedingFree(x)
    BY <2>1, <1>8 DEF PrecedingFree, isprevfree
  <2> QED
    BY <1>1, <1>2, <1>3, <1>4, <1>7, <1>10, <2>2
<1> QED
  BY <1>9, <1>10

(* The blocks from s to l become one free block, whose neighbours are not  *)
(* free.  Every other block stays as it is.                                *)
LEMMA MergeBlocks ==
  ASSUME MemInv, NEW s \in Blocks, NEW l \in Blocks, s <= l,
         s # freelisthdr, s # endblock,
         nextblk(l) = memsize \/ tag[nextblk(l)] # "free",
         \A c \in Blocks : nextblk(c) = s => tag[c] # "free",
         memsize' = memsize,
         \A b : b \in Blocks' <=> b \in Blocks /\ ~(s < b /\ b <= l),
         blksize' = [b \in Blocks' |-> IF b = s THEN nextblk(l) - s ELSE blksize[b]],
         tag' = [b \in Blocks' |-> IF b = s THEN "free" ELSE tag[b]],
         \A y : y \in DOMAIN lastword' <=> y \in DOMAIN lastword /\ ~(s < y /\ y <= l),
         lastword' = [y \in DOMAIN lastword' |->
                        IF y = nextblk(l) THEN -s ELSE lastword[y]]
  PROVE  (BlockType /\ Tiling /\ FixedBlocks /\ LargeBlocks /\ BoundaryTags /\ Coalesced)'
<1> USE BlockFacts
<1>1. /\ s \in Blocks' /\ Blocks' \subseteq Blocks
      /\ s \in Nat /\ l \in Nat /\ s < nextblk(l) /\ l < nextblk(l) /\ nextblk(l) \in Nat
      /\ freelisthdr \in Blocks' /\ endblock \in Blocks'
  <2>1. endblock < s
    OBVIOUS
  <2> QED
    BY <2>1
<1>2. /\ blksize'[s] = nextblk(l) - s
      /\ \A b \in Blocks' : b # s => blksize'[b] = blksize[b]
      /\ tag'[s] = "free"
      /\ \A b \in Blocks' : b # s => tag'[b] = tag[b]
  BY <1>1
<1>3. /\ nextblk(s)' = nextblk(l)
      /\ \A b \in Blocks' : b # s => nextblk(b)' = nextblk(b)
  BY <1>1, <1>2 DEF nextblk
(* The blocks on either side of the merged one.                            *)
<1>4. \A b \in Blocks' : \/ b < s /\ nextblk(b) <= s
                         \/ b = s
                         \/ b >= nextblk(l) /\ b > l
  BY <1>1
<1>5. \A b \in Blocks' : b # s => nextblk(b) # nextblk(l) /\ ~(s < nextblk(b) /\ nextblk(b) <= l)
  BY <1>1, <1>4
<1>6. /\ \A b \in Blocks : nextblk(b) \in DOMAIN lastword
      /\ \A y \in DOMAIN lastword : \E b \in Blocks : y = nextblk(b)
  BY DEF MemInv, MemType, BlockType
<1>7. /\ lastword'[nextblk(l)] = -s
      /\ \A b \in Blocks' : b # s => lastword'[nextblk(b)] = lastword[nextblk(b)]
  BY <1>1, <1>5, <1>6
<1>8. BlockType'
  <2>1. (memsize \in Nat /\ Blocks \subseteq 0 .. memsize - 1)'
    BY <1>1
  <2>2. (blksize \in [Blocks -> Nat \ {0}])'
    BY <1>1
  <2>3. (tag \in [Blocks -> {"free", "alloc", "locked", "fresh"}])'
    <3>1. tag \in [Blocks -> {"free", "alloc", "locked", "fresh"}]
      BY DEF MemInv, MemType, BlockType
    <3> QED
      BY <1>1, <3>1
  <2>4. (lastword \in [{nextblk(b) : b \in Blocks} -> Int])'
    <3>1. \A y : y \in DOMAIN lastword' <=> \E b \in Blocks' : y = nextblk(b)'
      <4>1. ASSUME NEW y \in DOMAIN lastword' PROVE \E b \in Blocks' : y = nextblk(b)'
        <5>1. PICK b \in Blocks : y = nextblk(b)
          BY <1>6
        <5>2. ~(s < nextblk(b) /\ nextblk(b) <= l)
          BY <5>1, <4>1
        <5>3. CASE b \in Blocks' /\ b # s
          BY <5>1, <5>3, <1>3
        <5>4. CASE b \notin Blocks' \/ b = s
          <6>1. s <= b /\ b <= l
            BY <5>4, <1>1
          <6>2. b = l
            BY <5>2, <6>1, <1>1
          <6> QED
            BY <5>1, <6>2, <1>1, <1>3
        <5> QED
          BY <5>3, <5>4
      <4>2. ASSUME NEW b \in Blocks' PROVE nextblk(b)' \in DOMAIN lastword'
        BY <1>1, <1>3, <1>5, <1>6
      <4> QED
        BY <4>1, <4>2
    <3>2. DOMAIN lastword' = {nextblk(b) : b \in Blocks}'
      <4> DEFINE S == {nextblk(b) : b \in Blocks}
      <4>1. \A y : y \in S' <=> \E b \in Blocks' : y = nextblk(b)'
        OBVIOUS
      <4>2. \A y : y \in S' <=> y \in DOMAIN lastword'
        BY <3>1, <4>1
      <4> HIDE DEF S
      <4>3. DOMAIN lastword' = S'
        BY <4>2
      <4> QED
        BY <4>3 DEF S
    <3>3. \A y \in DOMAIN lastword' : lastword'[y] \in Int
      <4>1. \A y \in DOMAIN lastword : lastword[y] \in Int
        BY DEF MemInv, MemType, BlockType
      <4> QED
        BY <4>1, <1>1
    <3> QED
      BY <3>2, <3>3
  <2> QED
    BY <2>1, <2>2, <2>3, <2>4 DEF BlockType
<1>9. Tiling'
  <2>1. \A b \in Blocks' : nextblk(b)' = memsize' \/ nextblk(b)' \in Blocks'
    BY <1>1, <1>3, <1>5
  <2>2. \A y \in (Blocks' \ {freelisthdr}) \cup {memsize'} : \E c \in Blocks' : nextblk(c)' = y
    <3> SUFFICES ASSUME NEW y \in (Blocks' \ {freelisthdr}) \cup {memsize}
                 PROVE  \E c \in Blocks' : nextblk(c)' = y
      OBVIOUS
    <3>1. PICK c \in Blocks : nextblk(c) = y
      BY <1>1 DEF MemInv, Tiling
    <3>2. CASE c \in Blocks' /\ c # s
      BY <3>1, <3>2, <1>3
    <3>3. CASE c \notin Blocks' \/ c = s
      <4>1. s <= c /\ c <= l
        BY <3>3, <1>1
      <4>2. c = l
        <5>1. ~(s < y /\ y <= l)
          BY <1>1
        <5> QED
          BY <3>1, <4>1, <5>1, <1>1
      <4> QED
        BY <3>1, <4>2, <1>1, <1>3
    <3> QED
      BY <3>2, <3>3
  <2>3. \A b, c \in Blocks' : b < c => nextblk(b)' <= c
    BY <1>1, <1>3, <1>4
  <2> QED
    BY <2>1, <2>2, <2>3, <1>1 DEF Tiling
<1>10. FixedBlocks' /\ LargeBlocks'
  <2>1. lastword'[endblock] = lastword[endblock]
    BY <1>1, <1>7
  <2>2. FixedBlocks'
    BY <1>1, <1>2, <2>1 DEF MemInv, FixedBlocks
  <2>3. blksize'[s] >= MinSize
    <3>1. blksize[s] >= MinSize /\ nextblk(s) <= nextblk(l)
      BY <1>1 DEF MemInv, LargeBlocks
    <3> QED
      BY <1>1, <1>2, <3>1 DEF nextblk
  <2>4. LargeBlocks'
    BY <1>1, <1>2, <2>3 DEF MemInv, LargeBlocks
  <2> QED
    BY <2>2, <2>4
<1>11. BoundaryTags'
  <2>1. \A b \in Blocks' \ {freelisthdr} :
          IF tag'[b] = "free" THEN lastword'[nextblk(b)'] = -b
                              ELSE lastword'[nextblk(b)'] >= 0
    <3>1. \A b \in Blocks' \ {freelisthdr} : b # s =>
            IF tag'[b] = "free" THEN lastword'[nextblk(b)'] = -b
                                ELSE lastword'[nextblk(b)'] >= 0
      BY <1>1, <1>2, <1>3, <1>7 DEF MemInv, BoundaryTags
    <3> QED
      BY <3>1, <1>2, <1>3, <1>7
  <2> QED
    BY <2>1 DEF BoundaryTags
<1>12. Coalesced'
  <2>1. \A b \in Blocks : tag[b] = "free" =>
          nextblk(b) = memsize \/ (nextblk(b) \in Blocks /\ tag[nextblk(b)] # "free")
    BY DEF MemInv, Coalesced, FollowingFree, isfree
  <2>2. \A b \in Blocks' : tag'[b] = "free" =>
          nextblk(b)' = memsize' \/ (nextblk(b)' \in Blocks' /\ tag'[nextblk(b)'] # "free")
    <3>1. \A b \in Blocks' : b # s /\ tag'[b] = "free" =>
            nextblk(b)' = memsize' \/ (nextblk(b)' \in Blocks' /\ tag'[nextblk(b)'] # "free")
      BY <2>1, <1>1, <1>2, <1>3, <1>5
    <3>2. nextblk(s)' = memsize' \/ (nextblk(s)' \in Blocks' /\ tag'[nextblk(s)'] # "free")
      BY <1>1, <1>2, <1>3
    <3> QED
      BY <3>1, <3>2
  <2>3. memsize' \in Nat
    OBVIOUS
  <2> QED
    BY <2>2, <2>3 DEF Coalesced, FollowingFree, isfree
<1> QED
  BY <1>8, <1>9, <1>10, <1>11, <1>12

(* What a release of x does: the blocks from s to l, x among them, become  *)
(* the free block s, and the list is again a list of the free blocks.      *)
Merged(x, s, l) ==
  /\ s \in Blocks /\ l \in Blocks /\ s <= x /\ x <= l
  /\ s # freelisthdr /\ s # endblock
  /\ nextblk(l) = memsize \/ tag[nextblk(l)] # "free"
  /\ \A c \in Blocks : nextblk(c) = s => tag[c] # "free"
  /\ \A b : b \in Blocks' <=> b \in Blocks /\ ~(s < b /\ b <= l)
  /\ blksize' = [b \in Blocks' |-> IF b = s THEN nextblk(l) - s ELSE blksize[b]]
  /\ tag' = [b \in Blocks' |-> IF b = s THEN "free" ELSE tag[b]]
  /\ \A y : y \in DOMAIN lastword' <=> y \in DOMAIN lastword /\ ~(s < y /\ y <= l)
  /\ lastword' = [y \in DOMAIN lastword' |-> IF y = nextblk(l) THEN -s ELSE lastword[y]]
  /\ IsList(fwdlink', bcklink')
  /\ \A i : i \in DOMAIN fwdlink' <=> i \in Blocks' /\ tag'[i] \in {"free", "locked"}

(* The blocks next to a free block are not free.                           *)
LEMMA AroundFree ==
  ASSUME MemInv
  PROVE  /\ \A b \in Blocks : tag[b] = "free" => nextblk(b) = memsize \/ tag[nextblk(b)] # "free"
         /\ \A b, c \in Blocks : tag[b] = "free" /\ nextblk(c) = b => tag[c] # "free"
         /\ \A y \in DOMAIN lastword : y = memsize \/ y \in Blocks
<1>1. \A b \in Blocks : tag[b] = "free" => nextblk(b) = memsize \/ tag[nextblk(b)] # "free"
  BY BlockFacts DEF MemInv, Coalesced, FollowingFree, isfree
<1>2. \A b, c \in Blocks : tag[b] = "free" /\ nextblk(c) = b => tag[c] # "free"
  BY <1>1, BlockFacts
<1>3. \A y \in DOMAIN lastword : \E b \in Blocks : y = nextblk(b)
  BY DEF MemInv, MemType, BlockType
<1> QED
  BY <1>1, <1>2, <1>3, BlockFacts

LEMMA MergeBothStep ==
  ASSUME MemInv, NEW x \in Blocks, tag[x] \in {"alloc", "fresh"}, MergeBoth(x)
  PROVE  \E s, l \in Blocks : Merged(x, s, l)
<1>1. FollowingFree(x) /\ PrecedingFree(x)
  BY DEF MergeBoth
<1>2. PICK p \in Blocks, q \in Blocks : p = prevblk(x) /\ q = nextblk(x)
  BY <1>1, Neighbours
<1>3. /\ tag[p] = "free" /\ nextblk(p) = x /\ p # freelisthdr /\ p # endblock
      /\ tag[q] = "free" /\ q # freelisthdr /\ q # endblock
  BY <1>1, <1>2, Neighbours
<1>4. p < x /\ x < q /\ p \in Nat /\ q \in Nat /\ x \in Nat
  BY <1>2, <1>3, BlockFacts
<1>5. /\ p \in DOMAIN bcklink /\ q \in DOMAIN bcklink /\ p # q
      /\ p \in DOMAIN fwdlink /\ q \in DOMAIN fwdlink
  BY <1>3, <1>4, ListFacts
<1> DEFINE np == fwdlink[p]
           bp == bcklink[p]
           f1 == [fwdlink EXCEPT ![bp] = np]
           b1 == [bcklink EXCEPT ![np] = bp]
           nq == f1[q]
           bq == b1[q]
           f2 == [[f1 EXCEPT ![p] = nq] EXCEPT ![bq] = p]
           b2 == [[b1 EXCEPT ![p] = bq] EXCEPT ![nq] = p]
           F  == FwdRemoved(fwdlink, bcklink, p)
           B  == BckRemoved(fwdlink, bcklink, p)
<1>6. IsList(fwdlink, bcklink) /\ IsList(F, B)
  BY <1>3, <1>5, FreeListIsList, RemoveFromList
<1>7. /\ np \in DOMAIN bcklink /\ np # p /\ np # TERMINATOR /\ np # freelisthdr
      /\ bp \in DOMAIN fwdlink /\ bp # p
  BY <1>3, <1>5, <1>6, Around
<1>8. DOMAIN F = DOMAIN fwdlink \ {p} /\ DOMAIN B = DOMAIN bcklink \ {p}
  BY DEF FwdRemoved, BckRemoved
<1>9. /\ nq = F[q] /\ bq = B[q]
      /\ \A i \in DOMAIN F : F[i] = f1[i]
      /\ \A i \in DOMAIN B : B[i] = b1[i]
  BY <1>5, <1>7 DEF FwdRemoved, BckRemoved
<1>10. /\ F[q] \in DOMAIN B /\ F[q] # q /\ F[q] # TERMINATOR /\ F[q] # freelisthdr
       /\ B[q] \in DOMAIN F /\ B[q] # q
  <2>1. q \in DOMAIN B \ {endblock}
    BY <1>3, <1>5, <1>8
  <2> HIDE DEF F, B
  <2> QED
    BY <1>6, <2>1, Around
<1>11. nq # p /\ nq # TERMINATOR /\ bq # p /\ bq # q /\ nq # q
  BY <1>8, <1>9, <1>10
<1>12. fwdlink' = Without(f2, {q}) /\ bcklink' = Without(b2, {q})
  BY <1>2, <1>7, <1>11 DEF MergeBoth
<1>13. fwdlink' = FwdReplaced(F, B, q, p)
  <2>1. /\ DOMAIN FwdReplaced(F, B, q, p) = DOMAIN fwdlink \ {q}
        /\ DOMAIN fwdlink' = DOMAIN fwdlink \ {q}
    BY <1>5, <1>8, <1>12 DEF FwdReplaced, Without
  <2>2. \A i \in DOMAIN fwdlink \ {q} : fwdlink'[i] = f2[i]
    BY <1>12 DEF Without
  <2>3. /\ f2[p] = nq /\ f2[bq] = p
        /\ \A i \in DOMAIN fwdlink : i # p /\ i # bq => f2[i] = f1[i]
    BY <1>5, <1>8, <1>9, <1>10, <1>11
  <2>4. \A i \in DOMAIN fwdlink \ {q} : FwdReplaced(F, B, q, p)[i] = f2[i]
    <3>1. \A i \in DOMAIN fwdlink \ {q} :
            FwdReplaced(F, B, q, p)[i] = IF i = p THEN F[q] ELSE IF i = B[q] THEN p ELSE F[i]
      BY <1>5, <1>8 DEF FwdReplaced
    <3> HIDE DEF f1, b1, f2, b2, nq, bq, F, B
    <3> QED
      BY <3>1, <2>3, <1>8, <1>9
  <2>5. fwdlink' = [i \in DOMAIN fwdlink \ {q} |-> f2[i]]
    BY <1>12 DEF Without
  <2>6. FwdReplaced(F, B, q, p) = [i \in DOMAIN fwdlink \ {q} |-> FwdReplaced(F, B, q, p)[i]]
    BY <2>1 DEF FwdReplaced
  <2> HIDE DEF f1, b1, f2, b2, nq, bq, F, B
  <2> QED
    BY <2>4, <2>5, <2>6
<1>14. bcklink' = BckReplaced(F, B, q, p)
  <2>1. DOMAIN BckReplaced(F, B, q, p) = DOMAIN bcklink \ {q}
    BY <1>5, <1>8 DEF BckReplaced
  <2>3. /\ b2[p] = bq /\ b2[nq] = p
        /\ \A i \in DOMAIN bcklink : i # p /\ i # nq => b2[i] = b1[i]
    BY <1>5, <1>8, <1>9, <1>10, <1>11
  <2>4. \A i \in DOMAIN bcklink \ {q} : BckReplaced(F, B, q, p)[i] = b2[i]
    <3>1. \A i \in DOMAIN bcklink \ {q} :
            BckReplaced(F, B, q, p)[i] = IF i = p THEN B[q] ELSE IF i = F[q] THEN p ELSE B[i]
      BY <1>5, <1>8 DEF BckReplaced
    <3> HIDE DEF f1, b1, f2, b2, nq, bq, F, B
    <3> QED
      BY <3>1, <2>3, <1>8, <1>9
  <2>5. bcklink' = [i \in DOMAIN bcklink \ {q} |-> b2[i]]
    BY <1>12 DEF Without
  <2>6. BckReplaced(F, B, q, p) = [i \in DOMAIN bcklink \ {q} |-> BckReplaced(F, B, q, p)[i]]
    BY <2>1 DEF BckReplaced
  <2> HIDE DEF f1, b1, f2, b2, nq, bq, F, B
  <2> QED
    BY <2>4, <2>5, <2>6
<1>15. IsList(fwdlink', bcklink')
  <2>1. q \in DOMAIN B \ {endblock} /\ p \notin DOMAIN F /\ p # TERMINATOR
    BY <1>3, <1>4, <1>5, <1>8 DEF TERMINATOR
  <2> HIDE DEF f1, b1, f2, b2, nq, bq, F, B
  <2> QED
    BY <1>6, <1>13, <1>14, <2>1, ReplaceInList
<1>16. \A i : i \in DOMAIN fwdlink' <=> i \in DOMAIN fwdlink /\ i # q
  BY <1>12 DEF Without
<1>17. /\ nextblk(q) = memsize \/ tag[nextblk(q)] # "free"
       /\ \A c \in Blocks : nextblk(c) = p => tag[c] # "free"
  BY <1>3, AroundFree
<1>18. nextblk(q) - p = blksize[p] + blksize[x] + blksize[q] /\ nextblk(q) # p
  <2>1. nextblk(q) = q + blksize[q] /\ q = x + blksize[x] /\ x = p + blksize[p]
    BY <1>2, <1>3 DEF nextblk
  <2> QED
    BY <2>1, <1>4, BlockFacts
<1>19. /\ blksize' = [b \in Blocks \ {x, q} |-> IF b = p THEN nextblk(q) - p ELSE blksize[b]]
       /\ tag' = [b \in Blocks \ {x, q} |-> IF b = p THEN "free" ELSE tag[b]]
       /\ lastword' = [y \in DOMAIN lastword \ {x, q} |->
                         IF y = nextblk(q) THEN -p ELSE lastword[y]]
  <2>1. /\ blksize' = [Without(blksize, {x, q}) EXCEPT
                         ![p] = blksize[p] + blksize[x] + blksize[q]]
        /\ tag' = Without(tag, {x, q})
        /\ lastword' = [Without(lastword, {x, q}) EXCEPT ![nextblk(q)] = -p]
    BY <1>2 DEF MergeBoth
  <2>2. DOMAIN tag = Blocks /\ DOMAIN blksize = Blocks
    BY DEF MemInv, MemType, BlockType, Blocks
  <2> QED
    BY <2>1, <2>2, <1>3, <1>18 DEF Without
<1>20. /\ \A b : b \in Blocks \ {x, q} <=> b \in Blocks /\ ~(p < b /\ b <= q)
       /\ \A y : y \in DOMAIN lastword \ {x, q} <=>
                    y \in DOMAIN lastword /\ ~(p < y /\ y <= q)
  <2>1. \A b \in Blocks : p < b /\ b <= q => b = x \/ b = q
    BY <1>2, <1>3, <1>4, BlockFacts
  <2>3. \A y \in DOMAIN lastword : p < y /\ y <= q => y = x \/ y = q
    BY <2>1, AroundFree, BlockFacts
  <2>4. p < x /\ x <= q /\ p < q /\ q <= q
    BY <1>4
  <2>5. \A b : b \in Blocks \ {x, q} <=> b \in Blocks /\ ~(p < b /\ b <= q)
    BY <2>1, <2>4
  <2>6. \A y : y \in DOMAIN lastword \ {x, q} <=>
                 y \in DOMAIN lastword /\ ~(p < y /\ y <= q)
    BY <2>3, <2>4
  <2> QED
    BY <2>5, <2>6
<1> HIDE DEF f1, b1, f2, b2, nq, bq, F, B
<1>21. Blocks' = Blocks \ {x, q} /\ DOMAIN lastword' = DOMAIN lastword \ {x, q}
  BY <1>19 DEF Blocks
<1>22. \A i : i \in DOMAIN fwdlink' <=> i \in Blocks' /\ tag'[i] \in {"free", "locked"}
  <2>1. \A i : i \in DOMAIN fwdlink <=> i \in Blocks /\ tag[i] \in {"free", "locked"}
    BY DEF MemInv, MemType, LinkType
  <2> QED
    BY <2>1, <1>3, <1>16, <1>19, <1>21
<1> QED
  BY <1>3, <1>4, <1>15, <1>17, <1>19, <1>20, <1>21, <1>22 DEF Merged

LEMMA MergeFollowingStep ==
  ASSUME MemInv, NEW x \in Blocks, tag[x] \in {"alloc", "fresh"}, MergeFollowing(x)
  PROVE  \E s, l \in Blocks : Merged(x, s, l)
<1>1. FollowingFree(x) /\ ~PrecedingFree(x)
  BY DEF MergeFollowing
<1>2. PICK q \in Blocks : q = nextblk(x)
  BY <1>1, Neighbours
<1>3. /\ tag[q] = "free" /\ q # freelisthdr /\ q # endblock
      /\ x # freelisthdr /\ x # endblock /\ x \notin DOMAIN fwdlink
      /\ \A c \in Blocks : nextblk(c) = x => tag[c] # "free"
  BY <1>1, <1>2, Neighbours
<1>4. x < q /\ q \in Nat /\ x \in Nat /\ x # TERMINATOR
  BY <1>2, BlockFacts DEF TERMINATOR
<1>5. q \in DOMAIN bcklink \ {endblock} /\ q \in DOMAIN fwdlink /\ x \notin DOMAIN bcklink
  BY <1>3, ListFacts
<1>6. IsList(fwdlink, bcklink)
  BY FreeListIsList
<1>7. /\ fwdlink[q] \in DOMAIN bcklink /\ fwdlink[q] # q /\ fwdlink[q] # TERMINATOR
      /\ bcklink[q] \in DOMAIN fwdlink /\ bcklink[q] # q
  BY <1>5, <1>6, Around
<1>8. fwdlink' = FwdReplaced(fwdlink, bcklink, q, x)
  BY <1>2, <1>3, <1>4, <1>5, <1>7 DEF MergeFollowing, FwdReplaced, Without
<1>9. bcklink' = BckReplaced(fwdlink, bcklink, q, x)
  BY <1>2, <1>3, <1>4, <1>5, <1>7 DEF MergeFollowing, BckReplaced, Without
<1>10. IsList(fwdlink', bcklink')
  BY <1>3, <1>4, <1>5, <1>6, <1>8, <1>9, ReplaceInList
<1>11. nextblk(q) - x = blksize[x] + blksize[q] /\ nextblk(q) # x
  <2>1. nextblk(q) = q + blksize[q] /\ q = x + blksize[x]
    BY <1>2 DEF nextblk
  <2> QED
    BY <2>1, <1>4, BlockFacts
<1>12. /\ blksize' = [b \in Blocks \ {q} |-> IF b = x THEN nextblk(q) - x ELSE blksize[b]]
       /\ tag' = [b \in Blocks \ {q} |-> IF b = x THEN "free" ELSE tag[b]]
       /\ lastword' = [y \in DOMAIN lastword \ {q} |->
                         IF y = nextblk(q) THEN -x ELSE lastword[y]]
  <2>1. /\ blksize' = [Without(blksize, {q}) EXCEPT ![x] = blksize[x] + blksize[q]]
        /\ tag' = [Without(tag, {q}) EXCEPT ![x] = "free"]
        /\ lastword' = [Without(lastword, {q}) EXCEPT ![nextblk(q)] = -x]
    BY <1>2 DEF MergeFollowing
  <2>2. DOMAIN tag = Blocks /\ DOMAIN blksize = Blocks
    BY DEF MemInv, MemType, BlockType, Blocks
  <2> QED
    BY <2>1, <2>2, <1>4, <1>11 DEF Without
<1>13. Blocks' = Blocks \ {q} /\ DOMAIN lastword' = DOMAIN lastword \ {q}
  BY <1>12 DEF Blocks
<1>14. /\ \A b : b \in Blocks \ {q} <=> b \in Blocks /\ ~(x < b /\ b <= q)
       /\ \A y : y \in DOMAIN lastword \ {q} <=>
                    y \in DOMAIN lastword /\ ~(x < y /\ y <= q)
  <2>1. \A b \in Blocks : x < b /\ b <= q => b = q
    BY <1>2, <1>4, BlockFacts
  <2>2. \A y \in DOMAIN lastword : x < y /\ y <= q => y = q
    BY <2>1, AroundFree, BlockFacts
  <2>3. x < q /\ q <= q
    BY <1>4
  <2> QED
    BY <2>1, <2>2, <2>3
<1>15. \A i : i \in DOMAIN fwdlink' <=> i \in Blocks' /\ tag'[i] \in {"free", "locked"}
  <2>1. \A i : i \in DOMAIN fwdlink <=> i \in Blocks /\ tag[i] \in {"free", "locked"}
    BY DEF MemInv, MemType, LinkType
  <2>2. \A i : i \in DOMAIN fwdlink' <=> i = x \/ (i \in DOMAIN fwdlink /\ i # q)
    BY <1>4, <1>8 DEF FwdReplaced
  <2> QED
    BY <2>1, <2>2, <1>4, <1>12, <1>13
<1>16. nextblk(q) = memsize \/ tag[nextblk(q)] # "free"
  BY <1>3, AroundFree
<1> QED
  BY <1>3, <1>4, <1>10, <1>12, <1>13, <1>14, <1>15, <1>16 DEF Merged

LEMMA MergePrecedingStep ==
  ASSUME MemInv, NEW x \in Blocks, tag[x] \in {"alloc", "fresh"}, MergePreceding(x)
  PROVE  \E s, l \in Blocks : Merged(x, s, l)
<1>1. ~FollowingFree(x) /\ PrecedingFree(x)
  BY DEF MergePreceding
<1>2. PICK p \in Blocks : p = prevblk(x)
  BY <1>1, Neighbours
<1>3. /\ tag[p] = "free" /\ nextblk(p) = x /\ p # freelisthdr /\ p # endblock
      /\ nextblk(x) = memsize \/ tag[nextblk(x)] # "free"
  BY <1>1, <1>2, Neighbours
<1>4. p < x /\ p \in Nat /\ x \in Nat
  BY <1>3, BlockFacts
<1>5. nextblk(x) - p = blksize[p] + blksize[x] /\ nextblk(x) # p /\ nextblk(x) # x
  <2>1. nextblk(x) = x + blksize[x] /\ x = p + blksize[p]
    BY <1>3 DEF nextblk
  <2> QED
    BY <2>1, <1>4, BlockFacts
<1>6. /\ blksize' = [b \in Blocks \ {x} |-> IF b = p THEN nextblk(x) - p ELSE blksize[b]]
      /\ tag' = [b \in Blocks \ {x} |-> IF b = p THEN "free" ELSE tag[b]]
      /\ lastword' = [y \in DOMAIN lastword \ {x} |->
                        IF y = nextblk(x) THEN -p ELSE lastword[y]]
      /\ UNCHANGED <<fwdlink, bcklink>>
  <2>1. /\ blksize' = [Without(blksize, {x}) EXCEPT ![p] = blksize[p] + blksize[x]]
        /\ tag' = Without(tag, {x})
        /\ lastword' = [Without(lastword, {x}) EXCEPT ![nextblk(x)] = -p]
        /\ UNCHANGED <<fwdlink, bcklink>>
    BY <1>2 DEF MergePreceding
  <2>2. DOMAIN tag = Blocks /\ DOMAIN blksize = Blocks
    BY DEF MemInv, MemType, BlockType, Blocks
  <2> QED
    BY <2>1, <2>2, <1>3, <1>4, <1>5 DEF Without
<1>7. Blocks' = Blocks \ {x} /\ DOMAIN lastword' = DOMAIN lastword \ {x}
  BY <1>6 DEF Blocks
<1>8. /\ \A b : b \in Blocks \ {x} <=> b \in Blocks /\ ~(p < b /\ b <= x)
      /\ \A y : y \in DOMAIN lastword \ {x} <=>
                   y \in DOMAIN lastword /\ ~(p < y /\ y <= x)
  <2>1. \A b \in Blocks : p < b /\ b <= x => b = x
    BY <1>3, <1>4, BlockFacts
  <2>2. \A y \in DOMAIN lastword : p < y /\ y <= x => y = x
    BY <2>1, AroundFree, BlockFacts
  <2>3. p < x /\ x <= x
    BY <1>4
  <2> QED
    BY <2>1, <2>2, <2>3
<1>9. \A i : i \in DOMAIN fwdlink' <=> i \in Blocks' /\ tag'[i] \in {"free", "locked"}
  <2>1. \A i : i \in DOMAIN fwdlink <=> i \in Blocks /\ tag[i] \in {"free", "locked"}
    BY DEF MemInv, MemType, LinkType
  <2> QED
    BY <2>1, <1>3, <1>6, <1>7
<1>10. \A c \in Blocks : nextblk(c) = p => tag[c] # "free"
  BY <1>3, AroundFree
<1>11. IsList(fwdlink', bcklink')
  BY <1>6, FreeListIsList
<1>12. p <= x /\ x <= x
  BY <1>4
<1> QED
  BY <1>3, <1>6, <1>7, <1>8, <1>9, <1>10, <1>11, <1>12 DEF Merged

LEMMA PushFrontStep ==
  ASSUME MemInv, NEW x \in Blocks, tag[x] \in {"alloc", "fresh"}, PushFront(x)
  PROVE  \E s, l \in Blocks : Merged(x, s, l)
<1>1. ~FollowingFree(x) /\ ~PrecedingFree(x)
  BY DEF PushFront
<1>2. /\ x # freelisthdr /\ x # endblock /\ x \notin DOMAIN fwdlink
      /\ nextblk(x) = memsize \/ tag[nextblk(x)] # "free"
      /\ \A c \in Blocks : nextblk(c) = x => tag[c] # "free"
  BY <1>1, Neighbours
<1>3. IsList(fwdlink, bcklink) /\ freelisthdr # endblock /\ x # TERMINATOR /\ x \notin DOMAIN bcklink
  BY <1>2, FreeListIsList, ListFacts
<1>4. fwdlink[freelisthdr] \in DOMAIN bcklink /\ fwdlink[freelisthdr] # TERMINATOR
  BY <1>3 DEF IsList
<1>5. fwdlink' = FwdInserted(fwdlink, x)
  BY <1>2, <1>3 DEF PushFront, FwdInserted, IsList
<1>6. bcklink' = BckInserted(fwdlink, bcklink, x)
  BY <1>3, <1>4 DEF PushFront, BckInserted
<1>7. IsList(fwdlink', bcklink')
  BY <1>2, <1>3, <1>5, <1>6, InsertInList
<1>8. x \in Nat /\ nextblk(x) - x = blksize[x] /\ nextblk(x) # x /\ x < nextblk(x)
  BY BlockFacts DEF nextblk
<1>9. /\ blksize' = [b \in Blocks |-> IF b = x THEN nextblk(x) - x ELSE blksize[b]]
      /\ tag' = [b \in Blocks |-> IF b = x THEN "free" ELSE tag[b]]
      /\ lastword' = [y \in DOMAIN lastword |->
                        IF y = nextblk(x) THEN -x ELSE lastword[y]]
  <2>1. /\ blksize' = blksize
        /\ tag' = [tag EXCEPT ![x] = "free"]
        /\ lastword' = [lastword EXCEPT ![nextblk(x)] = -x]
    BY DEF PushFront
  <2>2. /\ tag = [b \in Blocks |-> tag[b]] /\ blksize = [b \in Blocks |-> blksize[b]]
        /\ lastword = [y \in DOMAIN lastword |-> lastword[y]]
    BY DEF MemInv, MemType, BlockType
  <2> QED
    BY <2>1, <2>2, <1>8
<1>10. Blocks' = Blocks /\ DOMAIN lastword' = DOMAIN lastword
  BY <1>9 DEF Blocks
<1>14. lastword' = [y \in DOMAIN lastword' |-> IF y = nextblk(x) THEN -x ELSE lastword[y]]
  BY <1>9, <1>10
<1>11. /\ \A b \in Blocks : ~(x < b /\ b <= x)
       /\ \A y \in DOMAIN lastword : ~(x < y /\ y <= x)
  <2>1. \A y : y \in Blocks \/ y = memsize => y \in Nat
    BY BlockFacts
  <2>2. \A y \in Nat : ~(x < y /\ y <= x)
    BY <1>8
  <2>3. \A y \in DOMAIN lastword : y = memsize \/ y \in Blocks
    BY AroundFree
  <2> QED
    BY <2>1, <2>2, <2>3
<1>15. /\ \A b : b \in Blocks' <=> b \in Blocks /\ ~(x < b /\ b <= x)
       /\ \A y : y \in DOMAIN lastword' <=> y \in DOMAIN lastword /\ ~(x < y /\ y <= x)
  BY <1>10, <1>11
<1>16. /\ blksize' = [b \in Blocks' |-> IF b = x THEN nextblk(x) - x ELSE blksize[b]]
       /\ tag' = [b \in Blocks' |-> IF b = x THEN "free" ELSE tag[b]]
  BY <1>9, <1>10
<1>12. \A i : i \in DOMAIN fwdlink' <=> i \in Blocks' /\ tag'[i] \in {"free", "locked"}
  <2>1. \A i : i \in DOMAIN fwdlink <=> i \in Blocks /\ tag[i] \in {"free", "locked"}
    BY DEF MemInv, MemType, LinkType
  <2>2. \A i : i \in DOMAIN fwdlink' <=> i \in DOMAIN fwdlink \/ i = x
    BY <1>5 DEF FwdInserted
  <2> QED
    BY <2>1, <2>2, <1>9, <1>10
<1>13. x <= x
  BY <1>8
<1> QED
  BY <1>2, <1>7, <1>12, <1>13, <1>14, <1>15, <1>16 DEF Merged

LEMMA ReleaseIInv ==
  ASSUME IInv, NEW x \in Blocks, Release(x) PROVE IInv'
<1>1. /\ MemInv /\ tag[x] \in {"alloc", "fresh"}
      /\ UNCHANGED <<memsize, firsttry, caller, req, freeptr, nextfree>>
      /\ Releasable(x)
  BY DEF IInv, Release, Releasable
<1>2. PICK s \in Blocks, l \in Blocks : Merged(x, s, l)
  <2>1. MergeBoth(x) \/ MergeFollowing(x) \/ MergePreceding(x) \/ PushFront(x)
    BY DEF Release
  <2> QED
    BY <1>1, <2>1, MergeBothStep, MergeFollowingStep, MergePrecedingStep, PushFrontStep
<1>3. /\ s <= x /\ x <= l /\ s # freelisthdr /\ s # endblock
      /\ \A b : b \in Blocks' <=> b \in Blocks /\ ~(s < b /\ b <= l)
      /\ blksize' = [b \in Blocks' |-> IF b = s THEN nextblk(l) - s ELSE blksize[b]]
      /\ tag' = [b \in Blocks' |-> IF b = s THEN "free" ELSE tag[b]]
  BY <1>2 DEF Merged
<1>4. /\ s \in Nat /\ l \in Nat /\ x \in Nat /\ s <= l /\ s \in Blocks'
      /\ freelisthdr \in Blocks' /\ endblock \in Blocks'
  <2>1. endblock < s
    BY <1>1, <1>3, BlockFacts
  <2> QED
    BY <2>1, <1>1, <1>3, BlockFacts
<1>5. (BlockType /\ Tiling /\ FixedBlocks /\ LargeBlocks /\ BoundaryTags /\ Coalesced)'
  BY <1>1, <1>2, <1>4, MergeBlocks DEF Merged
<1>6. (LinkType /\ LinksAgree /\ ListOrdered)'
  BY <1>2, ListIsFreeList DEF Merged
<1>7. CtlType'
  <2>1. pc # "search" /\ pc' \in {"mutator", "expanded"}
    BY <1>1 DEF Releasable
  <2>2. freeptr' \in {freelisthdr, endblock} /\ nextfree' \in {freelisthdr, TERMINATOR}
    BY <1>1, <2>1 DEF IInv, CtlInv
  <2> QED
    BY <1>1, <1>4, <2>1, <2>2 DEF IInv, CtlType
<1>8. SearchInv' /\ CtlInv'
  <2>1. \/ pc = "mutator" /\ pc' = "mutator"
        \/ pc = "release" /\ pc' = "expanded"
    BY <1>1 DEF Releasable
  <2> QED
    BY <2>1, <1>1 DEF IInv, CtlInv, SearchInv
(* Only x can have been the block that expand_heap made.                   *)
<1>9. FreshInv'
  <2>1. \A b \in Blocks : tag[b] = "fresh" => b = x
    <3>1. CASE pc = "mutator"
      BY <3>1 DEF IInv, FreshInv
    <3>2. CASE tag[x] = "fresh"
      BY <3>2, <1>1, BlockFacts DEF IInv, FreshInv
    <3> QED
      BY <3>1, <3>2, <1>1 DEF Releasable
  <2>2. x \in Blocks' => x = s
    BY <1>3, <1>4
  <2> QED
    BY <2>1, <2>2, <1>3 DEF FreshInv
<1>10. OneExpansionIsEnough'
  <2> SUFFICES ASSUME pc' = "expanded", Expansion
               PROVE  blksize'[s] >= req' /\ tag'[s] = "free"
    BY <1>3, <1>4 DEF OneExpansionIsEnough
  <2>1. tag[x] = "fresh" /\ blksize[x] >= req
    BY <1>1 DEF Releasable, IInv, FreshInv
  <2>2. nextblk(x) <= nextblk(l)
    BY <1>1, <1>3, <1>4, BlockFacts
  <2>3. nextblk(l) - s >= blksize[x]
    BY <2>2, <1>1, <1>3, <1>4, BlockFacts DEF nextblk
  <2> QED
    BY <2>1, <2>3, <1>1, <1>3, <1>4, BlockFacts DEF IInv, CtlType
<1> QED
  BY <1>5, <1>6, <1>7, <1>8, <1>9, <1>10 DEF IInv, MemInv, MemType

---------------------------------------------------------------------------
(* The invariant is inductive, and with it every property it contains.     *)

LEMMA Preserved == IInv /\ [Next]_vars => IInv'
<1> SUFFICES ASSUME IInv, [Next]_vars PROVE IInv'
  OBVIOUS
<1>1. CASE UNCHANGED vars
  <2>1. MemInv'
    BY <1>1, MemStays DEF IInv, vars, mem
  <2>2. (CtlType /\ SearchInv /\ FreshInv /\ CtlInv /\ OneExpansionIsEnough)'
    BY <1>1 DEF IInv, vars, CtlType, SearchInv, FreshInv, CtlInv, OneExpansionIsEnough,
                Blocks, nextblk
  <2> QED
    BY <2>1, <2>2 DEF IInv
<1>2. CASE \E n \in Requests : Reserve(n)
  BY <1>2, ReserveIInv
<1>3. CASE \E x \in Blocks : Release(x)
  BY <1>3, ReleaseIInv
<1>4. CASE CheckAvailSpace
  BY <1>4, CheckAvailSpaceIInv
<1>5. CASE SearchOn
  BY <1>5, SearchOnIInv
<1>6. CASE \E w \in LastWords : TakeWhole(w)
  BY <1>6, TakeWholeIInv
<1>7. CASE \E w \in LastWords : Split(w)
  BY <1>7, SplitIInv
<1>8. CASE ExpandHeap
  BY <1>8, ExpandHeapIInv
<1>9. CASE ExpandFails
  BY <1>9, ExpandFailsIInv
<1>10. CASE Expanded
  BY <1>10, ExpandedIInv
<1> QED
  BY <1>1, <1>2, <1>3, <1>4, <1>5, <1>6, <1>7, <1>8, <1>9, <1>10 DEF Next

(* The strengthened invariant holds of every workspace that setup_heap     *)
(* makes and that reserve, release and expand_heap change.                 *)
THEOREM Invariance == Spec => []IInv
BY InitIInv, Preserved, PTL DEF Spec

(* Every field of every block header has its type in every state.          *)
THEOREM TypeCorrect == Spec => []TypeOK
<1>1. IInv => TypeOK
  BY DEF IInv, MemInv, TypeOK
<1> QED
  BY <1>1, Invariance, PTL

(* clearheap and wsdump, which step from block to block by the size field, *)
(* see every block of the workspace once, whatever its history.            *)
THEOREM BlocksTile == Spec => []Tiling
<1>1. IInv => Tiling
  BY DEF IInv, MemInv
<1> QED
  BY <1>1, Invariance, PTL

(* The word in front of a block tells release the truth about the block    *)
(* before it.                                                              *)
THEOREM TagsAgree == Spec => []BoundaryTags
<1>1. IInv => BoundaryTags
  BY DEF IInv, MemInv
<1> QED
  BY <1>1, Invariance, PTL

(* Two blocks side by side are never both on the free list.                *)
THEOREM FreeBlocksApart == Spec => []Coalesced
<1>1. IInv => Coalesced
  BY DEF IInv, MemInv
<1> QED
  BY <1>1, Invariance, PTL

(* fwdlink and bcklink are inverse to each other on the free blocks.       *)
THEOREM ListLinked == Spec => []LinksAgree
<1>1. IInv => LinksAgree
  BY DEF IInv, MemInv
<1> QED
  BY <1>1, Invariance, PTL

(* All of it at once: what one call leaves, the next can rely on.          *)
THEOREM StructureKept == Spec => []Structure
<1>1. IInv => Structure
  BY DEF IInv, MemInv, Structure
<1> QED
  BY <1>1, Invariance, PTL

(* The assumption that reserve makes after its call of expand_heap.        *)
THEOREM ExpansionSuffices == Spec => []OneExpansionIsEnough
<1>1. IInv => OneExpansionIsEnough
  BY DEF IInv
<1> QED
  BY <1>1, Invariance, PTL

---------------------------------------------------------------------------
(* The free list is complete: what is reached backwards from the end block *)
(* is all of it, and so is what is reached forwards from the header.       *)

LEMMA ListClosed ==
  ASSUME NEW f, NEW b, IsList(f, b), IsFiniteSet(DOMAIN f),
         NEW S \in SUBSET DOMAIN f, endblock \in S, \A y \in S \ {freelisthdr} : b[y] \in S
  PROVE  S = DOMAIN f
<1>1. PICK pos \in [DOMAIN f -> Int] : \A i \in DOMAIN f \ {endblock} : pos[i] < pos[f[i]]
  BY DEF IsList
<1> DEFINE R == DOMAIN f \ S
           Above(x) == {y \in R : pos[x] < pos[y]}
           C == {Cardinality(Above(x)) : x \in R}
<1> SUFFICES ASSUME R # {} PROVE FALSE OBVIOUS
<1>2. ASSUME NEW x \in R PROVE f[x] \in R /\ pos[x] < pos[f[x]]
  <2>1. x # endblock /\ f[x] \in DOMAIN b /\ b[f[x]] = x BY DEF IsList
  <2>2. f[x] \in DOMAIN f /\ f[x] # freelisthdr BY <2>1 DEF IsList
  <2>3. f[x] \notin S BY <2>1, <2>2
  <2> QED BY <1>1, <2>1, <2>2, <2>3
<1>3. IsFiniteSet(R) BY FS_Subset
<1>4. \A x \in R : IsFiniteSet(Above(x)) /\ Cardinality(Above(x)) \in Nat
  <2> TAKE x \in R
  <2>1. Above(x) \in SUBSET R OBVIOUS
  <2> HIDE DEF Above
  <2> QED BY <1>3, <2>1, FS_Subset, FS_CardinalityType
<1>5. C \in SUBSET Nat /\ C # {}
  <2> HIDE DEF Above
  <2> QED BY <1>4
<1>6. PICK m \in C : \A k \in C : m <= k
  <2> HIDE DEF C
  <2> QED BY <1>5, LeastNatural
<1>7. PICK x \in R : m = Cardinality(Above(x)) OBVIOUS
<1>8. f[x] \in R /\ pos[x] < pos[f[x]] /\ pos[x] \in Int /\ pos[f[x]] \in Int BY <1>1, <1>2
<1>9. Above(f[x]) \subseteq Above(x) /\ f[x] \in Above(x) /\ f[x] \notin Above(f[x])
  <2>1. ASSUME NEW y \in R, pos[f[x]] < pos[y] PROVE pos[x] < pos[y]
    <3>1. pos[y] \in Int BY <1>1
    <3> QED BY <1>8, <2>1, <3>1
  <2>2. ~ (pos[f[x]] < pos[f[x]]) BY <1>8
  <2> QED BY <1>8, <2>1, <2>2
<1> HIDE DEF Above
<1>10. Cardinality(Above(f[x])) < Cardinality(Above(x))
  <2>1. Cardinality(Above(f[x])) <= Cardinality(Above(x)) BY <1>4, <1>9, FS_Subset
  <2>2. Cardinality(Above(f[x])) # Cardinality(Above(x)) BY <1>4, <1>9, FS_Subset
  <2> QED BY <1>4, <1>8, <2>1, <2>2
<1>11. Cardinality(Above(f[x])) \in C BY <1>8
<1>12. m <= Cardinality(Above(f[x])) BY <1>6, <1>11
<1> QED BY <1>4, <1>7, <1>8, <1>10, <1>12

(* The first k steps along the list, with the numbers that order it.       *)
Met(g, k) == {g[i] : i \in 0 .. k}
Walk(f, pos, g, k) ==
  /\ g \in [0 .. k -> DOMAIN f] /\ g[0] = freelisthdr
  /\ \A i \in 1 .. k : g[i] = f[g[i - 1]]
  /\ \A x \in Met(g, k) : pos[x] <= pos[g[k]]
  /\ IsFiniteSet(Met(g, k)) /\ Cardinality(Met(g, k)) = k + 1

LEMMA WalkBegins ==
  ASSUME NEW f, NEW b, IsList(f, b), NEW pos \in [DOMAIN f -> Int]
  PROVE  \E g : Walk(f, pos, g, 0)
<1> DEFINE g == [i \in 0 .. 0 |-> freelisthdr]
<1>1. freelisthdr \in DOMAIN f BY DEF IsList
<1>2. 0 .. 0 = {0} OBVIOUS
<1>3. g \in [0 .. 0 -> DOMAIN f] /\ g[0] = freelisthdr BY <1>1, <1>2
<1>4. Met(g, 0) = {freelisthdr} BY <1>2, <1>3 DEF Met
<1>5. \A i \in 1 .. 0 : g[i] = f[g[i - 1]] OBVIOUS
<1>6. IsFiniteSet(Met(g, 0)) /\ Cardinality(Met(g, 0)) = 1 BY <1>4, FS_Singleton
<1>7. pos[freelisthdr] <= pos[freelisthdr]
  <2>1. pos[freelisthdr] \in Int BY <1>1
  <2> QED BY <2>1
<1>8. \A x \in Met(g, 0) : pos[x] <= pos[g[0]] BY <1>3, <1>4, <1>7
<1> HIDE DEF g
<1> QED BY <1>3, <1>5, <1>6, <1>8 DEF Walk

LEMMA WalkGrows ==
  ASSUME NEW f, NEW b, IsList(f, b), NEW pos \in [DOMAIN f -> Int],
         \A i \in DOMAIN f \ {endblock} : pos[i] < pos[f[i]],
         NEW k \in Nat, NEW g, Walk(f, pos, g, k), g[k] # endblock
  PROVE  \E h : Walk(f, pos, h, k + 1)
<1>1. /\ g \in [0 .. k -> DOMAIN f] /\ g[0] = freelisthdr /\ \A i \in 1 .. k : g[i] = f[g[i - 1]]
      /\ \A x \in Met(g, k) : pos[x] <= pos[g[k]]
      /\ IsFiniteSet(Met(g, k)) /\ Cardinality(Met(g, k)) = k + 1
  BY DEF Walk
<1>2. PICK y : y = f[g[k]] OBVIOUS
<1>3. g[k] \in DOMAIN f BY <1>1
<1>4. y \in DOMAIN f BY <1>2, <1>3 DEF IsList
<1>5. pos[g[k]] < pos[y] /\ pos[g[k]] \in Int /\ pos[y] \in Int BY <1>2, <1>3, <1>4
<1>6. \A x \in Met(g, k) : x \in DOMAIN f BY <1>1 DEF Met
<1>7. ASSUME NEW x \in Met(g, k) PROVE pos[x] <= pos[y] /\ x # y
  <2>1. pos[x] <= pos[g[k]] /\ pos[x] \in Int BY <1>1, <1>6
  <2>2. pos[x] <= pos[y] /\ ~ (pos[y] <= pos[g[k]]) BY <1>5, <2>1
  <2> QED BY <2>1, <2>2
<1>8. PICK h : h = [i \in 0 .. k + 1 |-> IF i = k + 1 THEN y ELSE g[i]] OBVIOUS
<1>9. /\ h[k + 1] = y /\ \A i \in 0 .. k : h[i] = g[i]
      /\ h \in [0 .. k + 1 -> DOMAIN f]
  <2>1. k + 1 \in 0 .. k + 1 /\ \A i \in 0 .. k : i \in 0 .. k + 1 /\ i # k + 1 OBVIOUS
  <2>2. \A i \in 0 .. k + 1 : i = k + 1 \/ i \in 0 .. k OBVIOUS
  <2>3. h[k + 1] = y /\ \A i \in 0 .. k : h[i] = g[i] BY <1>8, <2>1
  <2>4. \A i \in 0 .. k + 1 : h[i] \in DOMAIN f BY <1>1, <1>4, <2>2, <2>3
  <2> QED BY <1>8, <2>3, <2>4
<1>10. Met(h, k + 1) = Met(g, k) \cup {y}
  <2>1. \A i : i \in 0 .. k + 1 <=> i \in 0 .. k \/ i = k + 1 OBVIOUS
  <2> QED BY <1>9, <2>1 DEF Met
<1>11. IsFiniteSet(Met(h, k + 1)) /\ Cardinality(Met(h, k + 1)) = (k + 1) + 1
  <2>1. y \notin Met(g, k) BY <1>7
  <2> QED BY <1>1, <1>10, <2>1, FS_AddElement
<1>12. \A i \in 1 .. k + 1 : h[i] = f[h[i - 1]]
  <2> TAKE i \in 1 .. k + 1
  <2>1. CASE i = k + 1
    <3>1. i - 1 = k /\ k \in 0 .. k BY <2>1
    <3> QED BY <1>2, <1>9, <2>1, <3>1
  <2>2. CASE i # k + 1
    <3>1. i \in 1 .. k /\ i \in 0 .. k /\ i - 1 \in 0 .. k BY <2>2
    <3> QED BY <1>1, <1>9, <3>1
  <2> QED BY <2>1, <2>2
<1>13. \A x \in Met(h, k + 1) : pos[x] <= pos[h[k + 1]]
  <2>1. pos[y] <= pos[y] BY <1>5
  <2> QED BY <1>7, <1>9, <1>10, <2>1
<1>14. h[0] = freelisthdr
  <2>1. 0 \in 0 .. k OBVIOUS
  <2> QED BY <1>1, <1>9, <2>1
<1> QED BY <1>9, <1>11, <1>12, <1>13, <1>14 DEF Walk

LEMMA WalkEnds ==
  ASSUME NEW f, NEW b, IsList(f, b), IsFiniteSet(DOMAIN f), NEW pos \in [DOMAIN f -> Int],
         NEW k \in Nat, NEW g, Walk(f, pos, g, k), g[k] = endblock
  PROVE  Met(g, k) = DOMAIN f
<1>1. /\ g \in [0 .. k -> DOMAIN f] /\ g[0] = freelisthdr /\ \A i \in 1 .. k : g[i] = f[g[i - 1]]
  BY DEF Walk
<1>2. Met(g, k) \in SUBSET DOMAIN f BY <1>1 DEF Met
<1>3. endblock \in Met(g, k)
  <2>1. k \in 0 .. k OBVIOUS
  <2> QED BY <2>1 DEF Met
<1>4. ASSUME NEW y \in Met(g, k) \ {freelisthdr} PROVE b[y] \in Met(g, k)
  <2>1. PICK i \in 0 .. k : y = g[i] BY DEF Met
  <2>2. i # 0 BY <1>1, <2>1
  <2>3. i \in 1 .. k /\ i - 1 \in 0 .. k BY <2>2
  <2>4. PICK x : x = g[i - 1] OBVIOUS
  <2>5. x \in DOMAIN f /\ y = f[x] /\ x \in Met(g, k) BY <1>1, <2>1, <2>3, <2>4 DEF Met
  <2>6. y \in DOMAIN f BY <1>2
  <2>7. x # endblock BY <2>5, <2>6 DEF IsList
  <2>8. b[y] = x BY <2>5, <2>7 DEF IsList
  <2> QED BY <2>5, <2>8
<1> QED BY <1>2, <1>3, <1>4, ListClosed

(* As many steps as there are blocks on the list, and they meet them all.  *)
LEMMA WalkOfAll ==
  ASSUME NEW f, NEW b, IsList(f, b), IsFiniteSet(DOMAIN f), NEW n \in Nat, n = Cardinality(DOMAIN f)
  PROVE  \E g : /\ n >= 1
                /\ g \in [0 .. n - 1 -> DOMAIN f] /\ g[0] = freelisthdr
                /\ \A i \in 1 .. n - 1 : g[i] = f[g[i - 1]]
                /\ Met(g, n - 1) = DOMAIN f /\ g[n - 1] = endblock
<1>1. PICK pos \in [DOMAIN f -> Int] : \A i \in DOMAIN f \ {endblock} : pos[i] < pos[f[i]]
  BY DEF IsList
<1>2. n >= 1
  <2>1. DOMAIN f # {} BY DEF IsList
  <2>2. n # 0 BY <2>1, FS_EmptySet
  <2> QED BY <2>2
<1> DEFINE B == {k \in Nat : k < n /\ ~ \E g : Walk(f, pos, g, k)}
<1>3. B = {}
  <2> SUFFICES ASSUME B # {} PROVE FALSE OBVIOUS
  <2>1. PICK m \in B : \A k \in B : m <= k
    <3>1. B \in SUBSET Nat OBVIOUS
    <3> HIDE DEF B
    <3> QED BY <3>1, LeastNatural
  <2>2. m \in Nat /\ m < n /\ ~ \E g : Walk(f, pos, g, m) OBVIOUS
  <2>3. m # 0 BY <2>2, WalkBegins
  <2>4. PICK k \in Nat : m = k + 1
    <3>1. m - 1 \in Nat /\ m = (m - 1) + 1 BY <2>2, <2>3
    <3> QED BY <3>1
  <2>5. k \notin B
    <3>1. ~ (m <= k) BY <2>4
    <3> HIDE DEF B
    <3> QED BY <2>1, <3>1
  <2>6. k < n BY <2>2, <2>4
  <2>7. PICK g : Walk(f, pos, g, k) BY <2>5, <2>6
  <2>8. CASE g[k] = endblock
    <3>1. Met(g, k) = DOMAIN f BY <2>7, <2>8, WalkEnds
    <3>2. n = k + 1 BY <2>7, <3>1 DEF Walk
    <3> QED BY <2>2, <2>4, <3>2
  <2>9. CASE g[k] # endblock
    <3>1. \E h : Walk(f, pos, h, k + 1) BY <1>1, <2>7, <2>9, WalkGrows
    <3> QED BY <2>2, <2>4, <3>1
  <2> QED BY <2>8, <2>9
<1>4. PICK l \in Nat : n = l + 1
  <2>1. n - 1 \in Nat /\ n = (n - 1) + 1 BY <1>2
  <2> QED BY <2>1
<1>5. PICK g : Walk(f, pos, g, l)
  <2>1. l < n BY <1>4
  <2> QED BY <1>3, <2>1
<1>6. /\ g \in [0 .. l -> DOMAIN f] /\ g[0] = freelisthdr /\ \A i \in 1 .. l : g[i] = f[g[i - 1]]
      /\ IsFiniteSet(Met(g, l)) /\ Cardinality(Met(g, l)) = n
  BY <1>4, <1>5 DEF Walk
<1>7. Met(g, l) = DOMAIN f
  <2>1. Met(g, l) \in SUBSET DOMAIN f BY <1>6 DEF Met
  <2> QED BY <1>6, <2>1, FS_Subset
<1>8. g[l] = endblock
  <2>1. endblock \in Met(g, l) BY <1>7 DEF IsList
  <2>2. PICK i \in 0 .. l : g[i] = endblock BY <2>1 DEF Met
  <2> SUFFICES ASSUME i # l PROVE FALSE BY <2>2
  <2>3. i + 1 \in 1 .. l /\ i + 1 \in 0 .. l /\ (i + 1) - 1 = i OBVIOUS
  <2>4. g[i + 1] = f[endblock] BY <1>6, <2>2, <2>3
  <2>5. g[i + 1] \in DOMAIN f BY <1>6, <2>3
  <2> QED BY <2>4, <2>5 DEF IsList
<1>9. n - 1 = l BY <1>4
<1> QED BY <1>2, <1>6, <1>7, <1>8, <1>9

LEMMA FreeListFinite == ASSUME MemInv PROVE IsFiniteSet(DOMAIN fwdlink)
<1>1. memsize \in Nat /\ Blocks \subseteq 0 .. memsize - 1 BY DEF MemInv, MemType, BlockType
<1>2. IsFiniteSet(0 .. memsize - 1) BY <1>1, FS_Interval
<1>3. DOMAIN fwdlink \subseteq Blocks BY ListFacts
<1> QED BY <1>1, <1>2, <1>3, FS_Subset

LEMMA CompleteHolds == ASSUME MemInv PROVE FreeListComplete
<1>1. IsList(fwdlink, bcklink) /\ IsFiniteSet(DOMAIN fwdlink) BY FreeListIsList, FreeListFinite
<1>2. PICK n \in Nat : n = Cardinality(DOMAIN fwdlink) BY <1>1, FS_CardinalityType
<1>3. PICK g : /\ n >= 1
               /\ g \in [0 .. n - 1 -> DOMAIN fwdlink] /\ g[0] = freelisthdr
               /\ \A i \in 1 .. n - 1 : g[i] = fwdlink[g[i - 1]]
               /\ Met(g, n - 1) = DOMAIN fwdlink /\ g[n - 1] = endblock
  BY <1>1, <1>2, WalkOfAll
<1>4. PICK list : list = CHOOSE l : l = [k \in 0 .. n - 1 |->
                                           IF k = 0 THEN freelisthdr ELSE fwdlink[l[k - 1]]]
  OBVIOUS
<1>5. g = [k \in 0 .. n - 1 |-> IF k = 0 THEN freelisthdr ELSE fwdlink[g[k - 1]]]
  <2>1. \A k \in 0 .. n - 1 : g[k] = IF k = 0 THEN freelisthdr ELSE fwdlink[g[k - 1]]
    <3> TAKE k \in 0 .. n - 1
    <3>1. k = 0 \/ k \in 1 .. n - 1 OBVIOUS
    <3> QED BY <1>3, <3>1
  <2> QED BY <1>3, <2>1
<1>6. list = [k \in 0 .. n - 1 |-> IF k = 0 THEN freelisthdr ELSE fwdlink[list[k - 1]]]
  <2>1. \E l : l = [k \in 0 .. n - 1 |-> IF k = 0 THEN freelisthdr ELSE fwdlink[l[k - 1]]] BY <1>5
  <2> QED BY <1>4, <2>1
<1>7. \A k \in 0 .. n - 1 : list[k] = g[k]
  <2> DEFINE B == {k \in 0 .. n - 1 : list[k] # g[k]}
  <2> SUFFICES ASSUME B # {} PROVE FALSE OBVIOUS
  <2>1. PICK m \in B : \A k \in B : m <= k
    <3>1. B \in SUBSET Nat OBVIOUS
    <3> HIDE DEF B
    <3> QED BY <3>1, LeastNatural
  <2>2. m \in 0 .. n - 1 /\ list[m] # g[m] OBVIOUS
  <2>3. m # 0 BY <1>3, <1>6, <2>2
  <2>4. m - 1 \in 0 .. n - 1 /\ ~ (m <= m - 1) /\ m \in 1 .. n - 1 BY <2>2, <2>3
  <2>5. m - 1 \notin B
    <3> HIDE DEF B
    <3> QED BY <2>1, <2>4
  <2>6. list[m - 1] = g[m - 1] BY <2>4, <2>5
  <2>7. list[m] = fwdlink[list[m - 1]] BY <1>6, <2>2, <2>3
  <2>8. g[m] = fwdlink[g[m - 1]] BY <1>3, <2>4
  <2> QED BY <2>2, <2>6, <2>7, <2>8
<1>8. {list[k] : k \in 0 .. n - 1} = DOMAIN fwdlink BY ZenonT(40), <1>3, <1>7 DEF Met
<1>9. fwdlink[list[n - 1]] = TERMINATOR
  <2>1. n - 1 \in 0 .. n - 1 BY <1>3
  <2>2. list[n - 1] = endblock BY <1>3, <1>7, <2>1
  <2> QED BY <1>1, <2>2 DEF IsList
<1> QED BY <1>2, <1>4, <1>8, <1>9 DEF FreeListComplete

(* Following fwdlink from the header, reserve comes to each free block     *)
(* once and to the end: release and reserve lose none and make no cycle.   *)
THEOREM FreeListWhole == Spec => []FreeListComplete
<1>1. IInv => FreeListComplete BY CompleteHolds DEF IInv
<1> QED BY <1>1, Invariance, PTL

---------------------------------------------------------------------------
(* The search of reserve: every block it has passed is too small.          *)
PassedBlocks(S) ==
  /\ freelisthdr \in S /\ freeptr \in S
  /\ \A y \in S \ {freelisthdr} : bcklink[y] \in S /\ blksize[y] < req
Searched == pc = "search" => \E S \in SUBSET DOMAIN fwdlink : PassedBlocks(S)

LEMMA SearchBegins == ASSUME IInv, StartSearch, UNCHANGED mem PROVE Searched'
<1>1. freelisthdr \in DOMAIN fwdlink BY ListFacts DEF IInv
<1>2. freeptr' = freelisthdr /\ UNCHANGED <<fwdlink, bcklink, blksize>> BY DEF StartSearch, mem
<1>3. {freelisthdr} \in SUBSET DOMAIN fwdlink BY <1>1
<1>4. freelisthdr \in {freelisthdr} /\ {freelisthdr} \ {freelisthdr} = {} OBVIOUS
<1> QED BY <1>2, <1>3, <1>4 DEF Searched, PassedBlocks

LEMMA SearchGoesOn == ASSUME IInv, Searched, SearchOn PROVE Searched'
<1>1. /\ pc = "search" /\ nextfree # TERMINATOR /\ blksize[nextfree] < req /\ freeptr' = nextfree
      /\ UNCHANGED <<fwdlink, bcklink, blksize, req>>
  BY DEF SearchOn, mem
<1>2. PICK S \in SUBSET DOMAIN fwdlink : PassedBlocks(S) BY <1>1 DEF Searched
<1>3. nextfree = fwdlink[freeptr] /\ freeptr \in DOMAIN fwdlink BY <1>1 DEF IInv, SearchInv
<1>4. freeptr # endblock BY <1>1, <1>3, ListFacts DEF IInv
<1>5. nextfree \in DOMAIN fwdlink /\ bcklink[nextfree] = freeptr BY <1>3, <1>4, ListFacts DEF IInv
<1>6. PICK T : T = S \cup {nextfree} OBVIOUS
<1>7. T \in SUBSET DOMAIN fwdlink' BY <1>1, <1>5, <1>6
<1>8. freelisthdr \in T /\ nextfree \in T BY <1>2, <1>6 DEF PassedBlocks
<1>9. \A y \in T \ {freelisthdr} : bcklink[y] \in T /\ blksize[y] < req
  BY <1>1, <1>2, <1>5, <1>6 DEF PassedBlocks
<1>10. PassedBlocks(T)' BY <1>1, <1>8, <1>9 DEF PassedBlocks
<1> QED BY <1>7, <1>10 DEF Searched

LEMMA SearchKept == ASSUME IInv, Searched, [Next]_vars PROVE Searched'
<1>1. CASE UNCHANGED vars BY <1>1 DEF vars, Searched, PassedBlocks
<1>2. CASE \E n \in Requests : Reserve(n) BY <1>2, SearchBegins DEF Reserve
<1>3. CASE \E x \in Blocks : Release(x) BY <1>3 DEF Release, Releasable, Searched
<1>4. CASE CheckAvailSpace BY <1>4 DEF CheckAvailSpace, Searched
<1>5. CASE SearchOn BY <1>5, SearchGoesOn
<1>6. CASE \E w \in LastWords : TakeWhole(w) BY <1>6 DEF TakeWhole, Leave, Searched
<1>7. CASE \E w \in LastWords : Split(w) BY <1>7 DEF Split, Leave, Searched
<1>8. CASE ExpandHeap BY <1>8 DEF ExpandHeap, Searched
<1>9. CASE ExpandFails BY <1>9 DEF ExpandFails, Leave, Searched
<1>10. CASE Expanded
  <2>1. CASE StartSearch /\ UNCHANGED mem BY <2>1, SearchBegins
  <2>2. CASE Leave BY <2>2 DEF Leave, Searched
  <2> QED BY <1>10, <2>1, <2>2 DEF Expanded
<1> QED BY <1>1, <1>2, <1>3, <1>4, <1>5, <1>6, <1>7, <1>8, <1>9, <1>10 DEF Next

LEMMA FullWhenSearched == ASSUME IInv, Searched PROVE ExpandsOnlyWhenFull
<1> SUFFICES ASSUME pc = "search", nextfree = TERMINATOR, NEW b \in Blocks \ {freelisthdr}, tag[b] = "free"
             PROVE  blksize[b] < req
  BY DEF ExpandsOnlyWhenFull
<1>1. MemInv BY DEF IInv
<1>2. IsList(fwdlink, bcklink) /\ IsFiniteSet(DOMAIN fwdlink) BY <1>1, FreeListIsList, FreeListFinite
<1>3. nextfree = fwdlink[freeptr] /\ freeptr \in DOMAIN fwdlink BY DEF IInv, SearchInv
<1>4. freeptr = endblock BY <1>2, <1>3 DEF IsList
<1>5. PICK S \in SUBSET DOMAIN fwdlink : PassedBlocks(S) BY DEF Searched
<1>6. S = DOMAIN fwdlink BY <1>2, <1>4, <1>5, ListClosed DEF PassedBlocks
<1>7. b \in S BY <1>1, <1>6, ListFacts
<1> QED BY <1>5, <1>7 DEF PassedBlocks

(* reserve calls expand_heap only when no block on the free list is large  *)
(* enough for the request.                                                 *)
THEOREM ExpandsWhenFull == Spec => []ExpandsOnlyWhenFull
<1>1. Init => Searched BY DEF Init, Searched
<1>2. IInv /\ Searched /\ [Next]_vars => Searched' BY SearchKept
<1>3. IInv /\ Searched => ExpandsOnlyWhenFull BY FullWhenSearched
<1> QED BY <1>1, <1>2, <1>3, Invariance, PTL DEF Spec

---------------------------------------------------------------------------
(* The blocks in use, and the abstract heap.                               *)

(* What each action does to the blocks in use.                             *)
LEMMA LiveUnchanged ==
  ASSUME UNCHANGED <<blksize, tag>> PROVE UNCHANGED LiveBlocks /\ Blocks' = Blocks
BY DEF LiveBlocks, Blocks

LEMMA LiveTaken ==
  ASSUME IInv, NEW w \in LastWords, TakeWhole(w) \/ Split(w)
  PROVE  /\ nextfree \in Blocks /\ tag[nextfree] = "free" /\ req <= blksize'[nextfree]
         /\ membase <= nextfree /\ nextfree + blksize'[nextfree] <= nextblk(nextfree)
         /\ nextfree \in Blocks' /\ Blocks \subseteq Blocks'
         /\ \A b \in Blocks : b # nextfree => tag'[b] = tag[b] /\ blksize'[b] = blksize[b]
         /\ LiveBlocks' = [c \in DOMAIN LiveBlocks \cup {nextfree} |->
                             IF c = nextfree THEN blksize'[nextfree] ELSE LiveBlocks[c]]
         /\ UNCHANGED memsize /\ Leave
<1> DEFINE n == nextfree
<1>1. MemInv /\ Found /\ UNCHANGED memsize /\ Leave
  BY DEF IInv, TakeWhole, Split
<1>2. /\ n \in Blocks /\ tag[n] = "free" /\ n # endblock /\ n # freelisthdr
      /\ req \in Nat /\ req <= blksize[n] /\ n \in Nat /\ blksize[n] \in Nat /\ req >= MinSize
  BY <1>1, FoundFacts, BlockFacts
<1>3. membase <= n
  <2>1. nextblk(freelisthdr) = endblock /\ nextblk(endblock) = membase
    BY <1>1, BlockFacts, HeapConstants DEF MemInv, FixedBlocks, nextblk, membase, endblock
  <2> QED
    BY <2>1, <1>1, <1>2, BlockFacts
<1>4. /\ n \in Blocks' /\ Blocks \subseteq Blocks'
      /\ \A b \in Blocks : b # n => tag'[b] = tag[b] /\ blksize'[b] = blksize[b]
      /\ tag'[n] = "alloc"
      /\ \A b \in Blocks' : b \notin Blocks => tag'[b] = "free"
      /\ req <= blksize'[n] /\ blksize'[n] <= blksize[n] /\ blksize'[n] \in Nat
  <2>1. DOMAIN tag = Blocks /\ DOMAIN blksize = Blocks
    BY <1>1 DEF MemInv, MemType, BlockType, Blocks
  <2>2. CASE TakeWhole(w)
    BY <2>1, <2>2, <1>2 DEF TakeWhole, Blocks
  <2>3. CASE Split(w)
    <3>1. n + req # n /\ n + req \notin Blocks
      <4>1. n < n + req /\ n + req < nextblk(n)
        BY <1>1, <1>2, <2>3, BlockFacts, HeapConstants DEF Split, nextblk
      <4> QED
        BY <4>1, <1>1, <1>2, BlockFacts
    <3> QED
      BY <2>1, <2>3, <1>2, <3>1 DEF Split, Blocks
  <2> QED
    BY <2>2, <2>3
<1>5. LiveBlocks' = [c \in DOMAIN LiveBlocks \cup {n} |->
                      IF c = n THEN blksize'[n] ELSE LiveBlocks[c]]
  <2>1. {c \in Blocks : tag[c] = "alloc"}' = {c \in Blocks : tag[c] = "alloc"} \cup {n}
    BY <1>4
  <2> QED
    BY <2>1, <1>2, <1>4 DEF LiveBlocks
<1>6. n + blksize'[n] <= nextblk(n)
  BY <1>2, <1>4 DEF nextblk
<1> QED
  BY <1>1, <1>2, <1>3, <1>4, <1>5, <1>6

LEMMA LiveExpanded ==
  ASSUME IInv, ExpandHeap
  PROVE  /\ UNCHANGED LiveBlocks /\ Blocks \subseteq Blocks'
         /\ \A b \in Blocks : tag'[b] = tag[b] /\ blksize'[b] = blksize[b]
         /\ memsize' > memsize /\ UNCHANGED <<caller, req>>
<1>1. PICK n \in Nat, i \in Nat : n = memsize /\ i = Increment /\ i > 0
  BY IncrementFacts, BlockFacts, HeapConstants DEF IInv
<1>2. n \notin Blocks
  BY <1>1, BlockFacts DEF IInv
<1>3. /\ Blocks' = Blocks \cup {n} /\ memsize' = n + i
      /\ blksize' = [b \in Blocks \cup {n} |-> IF b = n THEN i ELSE blksize[b]]
      /\ tag' = [b \in Blocks \cup {n} |-> IF b = n THEN "fresh" ELSE tag[b]]
      /\ UNCHANGED <<caller, req>>
  BY <1>1 DEF ExpandHeap, Blocks
<1>4. /\ \A b \in Blocks : tag'[b] = tag[b] /\ blksize'[b] = blksize[b]
      /\ tag'[n] = "fresh"
  BY <1>2, <1>3
<1>5. {c \in Blocks : tag[c] = "alloc"}' = {c \in Blocks : tag[c] = "alloc"}
  BY <1>3, <1>4
<1>6. UNCHANGED LiveBlocks
  BY <1>4, <1>5 DEF LiveBlocks
<1> QED
  BY <1>1, <1>3, <1>4, <1>6

LEMMA LiveReleased ==
  ASSUME IInv, NEW x \in Blocks, Release(x)
  PROVE  /\ \A b \in Blocks : b # x /\ tag[b] = "alloc" =>
               b \in Blocks' /\ tag'[b] = "alloc" /\ blksize'[b] = blksize[b]
         /\ LiveBlocks' = [c \in DOMAIN LiveBlocks \ {x} |-> LiveBlocks[c]]
         /\ UNCHANGED <<memsize, caller, req>>
         /\ tag[x] = "alloc" => x \in DOMAIN LiveBlocks
         /\ tag[x] # "alloc" => UNCHANGED LiveBlocks
<1>1. /\ MemInv /\ tag[x] \in {"alloc", "fresh"} /\ UNCHANGED <<memsize, caller, req>>
  BY DEF IInv, Release, Releasable
<1>2. /\ MergeBoth(x) \/ MergeFollowing(x) \/ MergePreceding(x) \/ PushFront(x)
  BY DEF Release
<1>3. /\ tag' = [b \in Blocks' |-> tag'[b]] /\ Blocks' \subseteq Blocks
      /\ \A b \in Blocks : b # x /\ tag[b] # "free" =>
            b \in Blocks' /\ tag'[b] = tag[b] /\ blksize'[b] = blksize[b]
      /\ \A b \in Blocks : b # x /\ tag[b] = "free" /\ b \in Blocks' => tag'[b] = "free"
      /\ x \in Blocks' => tag'[x] = "free"
  <2>1. DOMAIN tag = Blocks /\ DOMAIN blksize = Blocks
    BY <1>1 DEF MemInv, MemType, BlockType, Blocks
  <2>2. /\ FollowingFree(x) => nextblk(x) \in Blocks /\ tag[nextblk(x)] = "free" /\ nextblk(x) # x
        /\ PrecedingFree(x) => prevblk(x) \in Blocks /\ tag[prevblk(x)] = "free" /\ prevblk(x) # x
                               /\ (FollowingFree(x) => prevblk(x) # nextblk(x))
    <3>1. \A p \in Blocks : nextblk(p) = x => p # nextblk(x) /\ p # x
      BY <1>1, BlockFacts
    <3> QED
      BY <1>1, <3>1, Neighbours, BlockFacts
  <2>3. CASE MergeBoth(x)
    BY <2>1, <2>2, <2>3 DEF MergeBoth, Without, Blocks
  <2>4. CASE MergeFollowing(x)
    BY <2>1, <2>2, <2>4 DEF MergeFollowing, Without, Blocks
  <2>5. CASE MergePreceding(x)
    BY <2>1, <2>2, <2>5 DEF MergePreceding, Without, Blocks
  <2>6. CASE PushFront(x)
    BY <2>1, <2>2, <2>6 DEF PushFront, Blocks
  <2> QED
    BY <2>3, <2>4, <2>5, <2>6, <1>2
<1>4. {c \in Blocks : tag[c] = "alloc"}' = {c \in Blocks : tag[c] = "alloc"} \ {x}
  <2>1. \A c \in Blocks' : tag'[c] = "alloc" => c \in Blocks /\ tag[c] = "alloc" /\ c # x
    BY <1>3
  <2> QED
    BY <2>1, <1>3
<1>5. LiveBlocks' = [c \in DOMAIN LiveBlocks \ {x} |-> LiveBlocks[c]]
  BY <1>3, <1>4 DEF LiveBlocks
<1>6. tag[x] = "alloc" => x \in DOMAIN LiveBlocks
  BY DEF LiveBlocks
<1>7. tag[x] # "alloc" => UNCHANGED LiveBlocks
  BY <1>5 DEF LiveBlocks
<1> QED
  BY <1>1, <1>3, <1>5, <1>6, <1>7

Stays(b) ==
  \/ b \in DOMAIN blksize' /\ tag'[b] = "alloc" /\ blksize'[b] = blksize[b]
  \/ Release(b)

(* No call of reserve, release or expand_heap moves, resizes or frees a    *)
(* block in use, except the block that release is given.                   *)
THEOREM LiveStay == Spec => LiveBlocksStay
<1>1. IInv /\ [Next]_vars => [\A b \in Blocks : tag[b] = "alloc" => Stays(b)]_vars
  <2> SUFFICES ASSUME IInv, Next, NEW b \in Blocks, tag[b] = "alloc"
               PROVE  Stays(b)
    OBVIOUS
  <2>1. CASE UNCHANGED <<blksize, tag>>
    BY <2>1 DEF Stays, Blocks
  <2>2. CASE \E x \in Blocks : Release(x)
    BY <2>2, LiveReleased DEF Stays, Blocks
  <2>3. CASE \E w \in LastWords : TakeWhole(w) \/ Split(w)
    BY <2>3, LiveTaken DEF Stays, Blocks
  <2>4. CASE ExpandHeap
    BY <2>4, LiveExpanded DEF Stays, Blocks
  <2> QED
    BY <2>1, <2>2, <2>3, <2>4
    DEF Next, Reserve, SearchOn, CheckAvailSpace, ExpandFails, Expanded, mem
<1> QED
  BY <1>1, Invariance, PTL DEF Spec, LiveBlocksStay, Stays

(* Every step of the allocator is a step of the abstract heap, or none.    *)
LEMMA StepRefined == IInv /\ [Next]_vars => [Abs!Next]_(Abs!vars)
<1> SUFFICES ASSUME IInv, [Next]_vars PROVE Abs!Next \/ UNCHANGED Abs!vars
  OBVIOUS
<1> USE DEF Abs!Next, Abs!vars
<1>1. CASE UNCHANGED vars
  BY <1>1, LiveUnchanged DEF vars, Pending
<1>2. CASE \E n \in Requests : Reserve(n)
  <2>1. PICK n \in Requests : Reserve(n)
    BY <1>2
  <2>2. Pending = 0
    BY <2>1 DEF IInv, CtlInv, Pending, Reserve
  <2>3. Pending' = n /\ UNCHANGED <<memsize, LiveBlocks>>
    BY <2>1, LiveUnchanged DEF Reserve, mem, Pending
  <2>4. Abs!Ask(n)
    BY <2>2, <2>3 DEF Abs!Ask
  <2> QED
    BY <2>4
<1>3. CASE \E x \in Blocks : Release(x)
  <2>1. PICK x \in Blocks : Release(x)
    BY <1>3
  <2>2. UNCHANGED Pending
    BY <2>1, LiveReleased DEF Pending
  <2>3. CASE tag[x] = "alloc"
    <3>1. Abs!Free(x)
      BY <2>1, <2>2, <2>3, LiveReleased DEF Abs!Free
    <3> QED
      BY <2>1, <2>3, <3>1, LiveReleased
  <2>4. CASE tag[x] # "alloc"
    BY <2>1, <2>2, <2>4, LiveReleased
  <2> QED
    BY <2>3, <2>4
<1>4. CASE CheckAvailSpace
  <2>1. UNCHANGED <<memsize, LiveBlocks>>
    BY <1>4, LiveUnchanged DEF CheckAvailSpace, mem
  <2>2. UNCHANGED Pending
    BY <1>4 DEF CheckAvailSpace, Pending, IInv, CtlInv
  <2> QED
    BY <2>1, <2>2
<1>5. CASE SearchOn
  BY <1>5, LiveUnchanged DEF SearchOn, mem, Pending
<1>6. CASE \E w \in LastWords : TakeWhole(w) \/ Split(w)
  <2>1. PICK w \in LastWords : TakeWhole(w) \/ Split(w)
    BY <1>6
  <2> DEFINE n == nextfree
             s == blksize'[n]
  <2>2. Pending = req /\ Pending' = 0
    BY <2>1, LiveTaken DEF IInv, SearchInv, TakeWhole, Split, Found, Leave, Pending
  <2>3. req # 0 /\ req \in Nat
    BY <2>1, HeapConstants DEF IInv, SearchInv, CtlType, TakeWhole, Split, Found
  <2>4. Abs!Available(n, s)
    <3>1. membase <= n /\ n + s <= nextblk(n) /\ n \in Blocks /\ tag[n] = "free"
      BY <2>1, LiveTaken
    <3>2. n + s <= memsize
      <4>1. s \in Int /\ nextblk(n) <= memsize /\ n \in Nat /\ nextblk(n) \in Nat /\ memsize \in Nat
        <5>1. (BlockType)' /\ n \in Blocks'
          BY <2>1, TakeWholeIInv, SplitIInv, LiveTaken DEF IInv, MemInv, MemType
        <5>2. s \in Int
          BY <5>1 DEF BlockType
        <5> QED
          BY <5>2, <3>1, BlockFacts DEF IInv
      <4> QED
        BY <3>1, <4>1
    <3>3. ASSUME NEW c \in DOMAIN LiveBlocks
          PROVE  c + LiveBlocks[c] <= n \/ n + s <= c
      <4>1. c \in Blocks /\ c # n /\ c + LiveBlocks[c] = nextblk(c)
        BY <3>1 DEF LiveBlocks, nextblk
      <4>2. nextblk(c) <= n \/ nextblk(n) <= c
        BY <3>1, <4>1, BlockFacts DEF IInv
      <4>3. (BlockType)' /\ n \in Blocks'
        BY <2>1, TakeWholeIInv, SplitIInv, LiveTaken DEF IInv, MemInv, MemType
      <4>4. s \in Int /\ c \in Nat /\ n \in Nat /\ nextblk(n) \in Nat
        BY <3>1, <4>1, <4>3, BlockFacts DEF IInv, BlockType
      <4> QED
        BY <3>1, <4>1, <4>2, <4>4
    <3> QED
      BY <3>1, <3>2, <3>3 DEF Abs!Available
  <2>5. /\ LiveBlocks' = [c \in DOMAIN LiveBlocks \cup {n} |-> IF c = n THEN s ELSE LiveBlocks[c]]
        /\ req <= s /\ UNCHANGED memsize
    BY <2>1, LiveTaken
  <2>6. n \in DOMAIN LiveBlocks' /\ LiveBlocks'[n] = s
    BY <2>5
  <2>7. Abs!Grant
    <3> HIDE DEF n, s
    <3> QED
      BY <2>2, <2>3, <2>4, <2>5, <2>6 DEF Abs!Grant
  <2> QED
    BY <2>7
<1>7. CASE ExpandHeap
  <2>1. UNCHANGED <<LiveBlocks, Pending>> /\ memsize' > memsize
    BY <1>7, LiveExpanded DEF Pending
  <2> QED
    BY <2>1 DEF Abs!Grow
<1>8. CASE Leave /\ UNCHANGED <<mem>>
  <2>1. UNCHANGED <<memsize, LiveBlocks>> /\ Pending' = 0
    BY <1>8, LiveUnchanged DEF mem, Leave, Pending
  <2> QED
    BY <2>1 DEF Abs!Abandon
<1>9. CASE Expanded
  <2>1. CASE UNCHANGED <<caller, req>>
    BY <1>9, <2>1, LiveUnchanged DEF Expanded, mem, Pending
  <2> QED
    BY <1>8, <1>9, <2>1 DEF Expanded, mem
<1>10. ExpandFails => Leave /\ UNCHANGED mem
  BY DEF ExpandFails
<1> QED
  BY <1>1, <1>2, <1>3, <1>4, <1>5, <1>6, <1>7, <1>8, <1>9, <1>10 DEF Next

(* What new_create_array and freeit may rely on, whatever the constants:   *)
(* a block handed out overlaps no block in use and stays until released.   *)
THEOREM Refinement == Spec => ImplementsHeapAbs
<1>1. Init => Abs!Init
  <2> SUFFICES ASSUME Init PROVE Abs!Init
    OBVIOUS
  <2>1. \A b \in Blocks : tag[b] # "alloc"
    BY DEF Init, Blocks
  <2>2. {c \in Blocks : tag[c] = "alloc"} = {}
    BY <2>1
  <2>3. LiveBlocks = [b \in {} |-> 0]
    BY <2>2 DEF LiveBlocks
  <2> QED
    BY <2>3 DEF Init, Abs!Init, Pending
<1> QED
  BY <1>1, StepRefined, Invariance, PTL DEF Spec, Abs!Spec, ImplementsHeapAbs
=============================================================================
