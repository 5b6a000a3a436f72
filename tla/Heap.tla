------------------------------- MODULE Heap -------------------------------
(***************************************************************************)
(* The block allocator of the Nial abstract machine: setup_heap,           *)
(* expand_heap, reserve, release and checkavailspace of absmach.c.         *)
(*                                                                         *)
(* The workspace is an array of words mem[0 .. memsize-1] cut into blocks. *)
(* A block is named by the index of its first word.  The functions below   *)
(* hold the header fields of the blocks; the word just before index x,     *)
(* which the macros isprevfree and prevblk read, is lastword[x].  Stale    *)
(* header fields that lie inside a merged block are not kept: a reading    *)
(* of one would be an application outside a domain.                        *)
(*                                                                         *)
(* The program is sequential.  A request runs from new_create_array (or    *)
(* from checkavailspace) until control returns to its caller; pc says      *)
(* where it is, and the search of the free list is one step per iteration. *)
(***************************************************************************)
EXTENDS Integers, FiniteSetsExt

CONSTANTS
  FlhSize,       (* flhsize: words of the free list header block.          *)
  MinSize,       (* minsize: words of the smallest block.                  *)
  DfMemSize,     (* dfmemsize, which is also the initial memsize.          *)
  MinHeapSpace,  (* MINHEAPSPACE.                                          *)
  CleanupExtra,  (* The 100 words added when expansion is off.             *)
  Expansion,     (* expansion: FALSE under the +size option.               *)
  MaxMemSize,    (* Bound: a realloc beyond this many words always fails.  *)
  Requests,      (* The block sizes new_create_array computes.             *)
  LastWords      (* What new_create_array leaves in the last word: 0 or    *)
                 (* the last extent of the shape.                          *)

ASSUME HeapConstants ==
  /\ FlhSize \in Nat \ {0} /\ MinSize \in Nat /\ FlhSize < MinSize
  /\ DfMemSize \in Nat /\ DfMemSize >= 2 * FlhSize + MinSize
  /\ MinHeapSpace \in Nat /\ MinHeapSpace >= MinSize
  /\ CleanupExtra \in Nat
  /\ Expansion \in BOOLEAN
  /\ MaxMemSize \in Nat
  /\ Requests \subseteq Nat /\ \A n \in Requests : n >= MinSize
  /\ LastWords \subseteq Nat

TERMINATOR  == -3
freelisthdr == 0
endblock    == FlhSize
membase     == 2 * FlhSize

VARIABLES
  memsize,    (* Words of the workspace.                                   *)
  blksize,    (* blksize[b]: the size field of block b.                    *)
  tag,        (* tag[b]: what the ref_count field says of block b.         *)
  fwdlink,    (* The free list links, kept in the header of a free block.  *)
  bcklink,
  lastword,   (* lastword[x]: the word before x, x the end of a block.     *)
  firsttry,   (* checkavailspace: no expansion has failed half way.        *)
  pc,         (* Where the program is.                                     *)
  caller,     (* Who called expand_heap.                                   *)
  req,        (* The argument n of reserve or expand_heap.                 *)
  freeptr,    (* The two cursors of the search in reserve.                 *)
  nextfree

mem  == <<memsize, blksize, tag, fwdlink, bcklink, lastword>>
ctl  == <<pc, caller, req, freeptr, nextfree>>
vars == <<memsize, blksize, tag, fwdlink, bcklink, lastword, firsttry,
          pc, caller, req, freeptr, nextfree>>

Blocks == DOMAIN blksize

---------------------------------------------------------------------------
(* The macros of absmach.h.                                                *)

nextblk(b)    == b + blksize[b]
prevblk(b)    == -lastword[b]
isfree(b)     == b < memsize /\ tag[b] = "free"
isprevfree(b) == lastword[b] < 0

(* The tests of release on the neighbours of the block it is given.        *)
FollowingFree(x) == 0 < nextblk(x) /\ nextblk(x) < memsize /\ isfree(nextblk(x))
PrecedingFree(x) == 0 < prevblk(x) /\ prevblk(x) < memsize /\ isprevfree(x)

(* f without the entries at S.                                             *)
Without(f, S) == [a \in DOMAIN f \ S |-> f[a]]

---------------------------------------------------------------------------
(* setup_heap: the header block, the locked end block, and one free block. *)
Init ==
  /\ memsize  = DfMemSize
  /\ blksize  = [b \in {freelisthdr, endblock, membase} |->
                   IF b = membase THEN DfMemSize - membase ELSE FlhSize]
  /\ tag      = [b \in {freelisthdr, endblock, membase} |->
                   IF b = endblock THEN "locked" ELSE "free"]
  /\ fwdlink  = [b \in {freelisthdr, endblock, membase} |->
                   IF b = freelisthdr THEN membase
                   ELSE IF b = membase THEN endblock ELSE TERMINATOR]
  /\ bcklink  = [b \in {endblock, membase} |->
                   IF b = membase THEN freelisthdr ELSE membase]
  /\ lastword = [x \in {endblock, membase, DfMemSize} |->
                   IF x = DfMemSize THEN -membase ELSE 0]
  /\ firsttry = TRUE
  /\ pc = "mutator" /\ caller = "none" /\ req = 0
  /\ freeptr = freelisthdr /\ nextfree = freelisthdr

---------------------------------------------------------------------------
(* reserve                                                                 *)

StartSearch ==
  /\ freeptr'  = freelisthdr
  /\ nextfree' = fwdlink[freelisthdr]
  /\ pc' = "search"

(* Control is back with the caller, by a return or by a jump to the top    *)
(* level: the arguments and the cursors are dead.                          *)
Leave ==
  /\ pc' = "mutator" /\ caller' = "none" /\ req' = 0
  /\ freeptr' = freelisthdr /\ nextfree' = freelisthdr

(* new_create_array asks reserve for n words.                              *)
Reserve(n) ==
  /\ pc = "mutator"
  /\ req' = n
  /\ caller' = "reserve"
  /\ StartSearch
  /\ UNCHANGED <<mem, firsttry>>

(* Mutants: the search passes over an exact fit; the cursor that is        *)
(* advanced first is used to advance the other.                            *)
SearchOnPastExactFit ==
  /\ pc = "search"
  /\ nextfree # TERMINATOR
  /\ blksize[nextfree] <= req
  /\ freeptr'  = nextfree
  /\ nextfree' = fwdlink[nextfree]
  /\ UNCHANGED <<mem, firsttry, pc, caller, req>>

SearchOnStandingStill ==
  /\ pc = "search"
  /\ nextfree # TERMINATOR
  /\ blksize[nextfree] < req
  /\ freeptr'  = nextfree
  /\ nextfree' = nextfree
  /\ UNCHANGED <<mem, firsttry, pc, caller, req>>

(* One iteration of the first fit search.                                  *)
SearchOn ==
  /\ pc = "search"
  /\ nextfree # TERMINATOR
  /\ blksize[nextfree] < req
  /\ freeptr'  = nextfree
  /\ nextfree' = fwdlink[nextfree]
  /\ UNCHANGED <<mem, firsttry, pc, caller, req>>

(* Mutant: the size is not tested.                                         *)
FoundAnySize ==
  /\ pc = "search"
  /\ nextfree # TERMINATOR

Found ==
  /\ pc = "search"
  /\ nextfree # TERMINATOR
  /\ blksize[nextfree] >= req

(* What is left over is no block: the whole of nextfree is used.           *)
TakeWhole(w) ==
  /\ Found
  /\ blksize[nextfree] - req < MinSize
  /\ LET next == fwdlink[nextfree]
     IN  /\ fwdlink' = [Without(fwdlink, {nextfree}) EXCEPT ![freeptr] = next]
         /\ bcklink' = IF next # TERMINATOR
                       THEN [Without(bcklink, {nextfree}) EXCEPT ![next] = freeptr]
                       ELSE Without(bcklink, {nextfree})
  /\ tag' = [tag EXCEPT ![nextfree] = "alloc"]
  /\ lastword' = [lastword EXCEPT ![nextblk(nextfree)] = w]
  /\ Leave
  /\ UNCHANGED <<memsize, blksize, firsttry>>

(* The upper part of nextfree takes its place in the list.                 *)
Split(w) ==
  /\ Found
  /\ blksize[nextfree] - req >= MinSize
  /\ LET rest == nextfree + req
         next == fwdlink[nextfree]
         fwd1 == [b \in DOMAIN fwdlink \cup {rest} |->
                    IF b = rest THEN next ELSE fwdlink[b]]
         bck1 == [b \in DOMAIN bcklink \cup {rest} |->
                    IF b = rest THEN bcklink[nextfree] ELSE bcklink[b]]
     IN  /\ fwdlink' = [Without(fwd1, {nextfree}) EXCEPT ![freeptr] = rest]
         /\ bcklink' = IF next # TERMINATOR
                       THEN [Without(bck1, {nextfree}) EXCEPT ![next] = rest]
                       ELSE Without(bck1, {nextfree})
         /\ blksize' = [b \in Blocks \cup {rest} |->
                          IF b = rest THEN blksize[nextfree] - req
                          ELSE IF b = nextfree THEN req ELSE blksize[b]]
         /\ tag' = [b \in Blocks \cup {rest} |->
                      IF b = rest THEN "free"
                      ELSE IF b = nextfree THEN "alloc" ELSE tag[b]]
         /\ lastword' = [x \in DOMAIN lastword \cup {rest} |->
                           IF x = nextblk(nextfree) THEN -rest
                           ELSE IF x = rest THEN w ELSE lastword[x]]
  /\ Leave
  /\ UNCHANGED <<memsize, firsttry>>

---------------------------------------------------------------------------
(* expand_heap                                                             *)

(* dfmemsize / 2 caps the increment so that a large workspace does not     *)
(* grow by too large a chunk; the request and a reserve always fit.        *)
Increment ==
  IF ~Expansion
  THEN MinHeapSpace + CleanupExtra
  ELSE LET grow == IF memsize \div 5 > DfMemSize \div 2
                   THEN DfMemSize \div 2 ELSE memsize \div 5
       IN  IF grow < req + MinHeapSpace THEN req + MinHeapSpace ELSE grow

WantsExpansion ==
  \/ pc = "search" /\ nextfree = TERMINATOR
  \/ pc = "expand"

(* The block of new words begins at the old memsize; its tag and its last  *)
(* word are what realloc left there, and release reads neither.            *)
ExpandHeap ==
  /\ WantsExpansion
  /\ memsize + Increment <= MaxMemSize
  /\ LET newblk == memsize
         top    == memsize + Increment
     IN  /\ memsize'  = top
         /\ blksize'  = [b \in Blocks \cup {newblk} |->
                           IF b = newblk THEN Increment ELSE blksize[b]]
         /\ tag'      = [b \in Blocks \cup {newblk} |->
                           IF b = newblk THEN "fresh" ELSE tag[b]]
         /\ lastword' = [x \in DOMAIN lastword \cup {top} |->
                           IF x = top THEN 0 ELSE lastword[x]]
  /\ pc' = "release"
  /\ UNCHANGED <<fwdlink, bcklink, firsttry, caller, req, freeptr, nextfree>>

(* realloc fails: exit_cover1 jumps to the top level.                      *)
ExpandFails ==
  /\ WantsExpansion
  /\ Leave
  /\ UNCHANGED <<mem, firsttry>>

(* Back in reserve, checksignal either returns or jumps to the top level;  *)
(* back in checkavailspace, the flag is set again.                         *)
Expanded ==
  /\ pc = "expanded"
  /\ \/ caller = "reserve" /\ StartSearch /\ UNCHANGED <<firsttry, caller, req>>
     \/ caller = "reserve" /\ Leave /\ UNCHANGED firsttry
     \/ caller = "checkavailspace" /\ Leave /\ firsttry' = TRUE
  /\ UNCHANGED mem

---------------------------------------------------------------------------
(* release                                                                 *)

(* x is released by freeit, or is the block that expand_heap made.         *)
Releasable(x) ==
  \/ pc = "mutator" /\ tag[x] = "alloc" /\ pc' = "mutator"
  \/ pc = "release" /\ tag[x] = "fresh" /\ pc' = "expanded"

(* Mutant: p is not unlinked before it takes the place of q.               *)
MergeBothStillLinked(x) ==
  LET p  == prevblk(x)
      q  == nextblk(x)
      nq == fwdlink[q]
      bq == bcklink[q]
      f2 == [[fwdlink EXCEPT ![p] = nq] EXCEPT ![bq] = p]
      b2 == [[bcklink EXCEPT ![p] = bq] EXCEPT ![nq] = p]
  IN  /\ FollowingFree(x) /\ PrecedingFree(x)
      /\ fwdlink'  = Without(f2, {q})
      /\ bcklink'  = Without(b2, {q})
      /\ blksize'  = [Without(blksize, {x, q}) EXCEPT
                        ![p] = blksize[p] + blksize[x] + blksize[q]]
      /\ tag'      = Without(tag, {x, q})
      /\ lastword' = [Without(lastword, {x, q}) EXCEPT ![nextblk(q)] = -p]

(* Both neighbours are free: the block before x swallows x and the block   *)
(* after it, and takes the place of the latter in the list.                *)
MergeBoth(x) ==
  LET p  == prevblk(x)
      q  == nextblk(x)
      np == fwdlink[p]
      bp == bcklink[p]
      (* p is unlinked ...                                                 *)
      f1 == [fwdlink EXCEPT ![bp] = np]
      b1 == IF np # TERMINATOR THEN [bcklink EXCEPT ![np] = bp] ELSE bcklink
      (* ... and attached in q's place.                                    *)
      nq == f1[q]
      bq == b1[q]
      f2 == [[f1 EXCEPT ![p] = nq] EXCEPT ![bq] = p]
      b2 == IF nq # TERMINATOR
            THEN [[b1 EXCEPT ![p] = bq] EXCEPT ![nq] = p]
            ELSE [b1 EXCEPT ![p] = bq]
  IN  /\ FollowingFree(x) /\ PrecedingFree(x)
      /\ fwdlink'  = Without(f2, {q})
      /\ bcklink'  = Without(b2, {q})
      /\ blksize'  = [Without(blksize, {x, q}) EXCEPT
                        ![p] = blksize[p] + blksize[x] + blksize[q]]
      /\ tag'      = Without(tag, {x, q})
      /\ lastword' = [Without(lastword, {x, q}) EXCEPT ![nextblk(q)] = -p]

(* Only the following block is free: x takes its place in the list.        *)
MergeFollowing(x) ==
  LET q  == nextblk(x)
      nq == fwdlink[q]
      bq == bcklink[q]
      f1 == [b \in DOMAIN fwdlink \cup {x} |-> IF b = x THEN nq ELSE fwdlink[b]]
      b1 == [b \in DOMAIN bcklink \cup {x} |-> IF b = x THEN bq ELSE bcklink[b]]
  IN  /\ FollowingFree(x) /\ ~PrecedingFree(x)
      /\ fwdlink'  = Without([f1 EXCEPT ![bq] = x], {q})
      /\ bcklink'  = Without(IF nq # TERMINATOR THEN [b1 EXCEPT ![nq] = x] ELSE b1, {q})
      /\ blksize'  = [Without(blksize, {q}) EXCEPT ![x] = blksize[x] + blksize[q]]
      /\ tag'      = [Without(tag, {q}) EXCEPT ![x] = "free"]
      /\ lastword' = [Without(lastword, {q}) EXCEPT ![nextblk(q)] = -x]

(* Only the preceding block is free: it grows over x where it stands.      *)
MergePreceding(x) ==
  LET p == prevblk(x)
  IN  /\ ~FollowingFree(x) /\ PrecedingFree(x)
      /\ blksize'  = [Without(blksize, {x}) EXCEPT ![p] = blksize[p] + blksize[x]]
      /\ tag'      = Without(tag, {x})
      /\ lastword' = [Without(lastword, {x}) EXCEPT ![nextblk(x)] = -p]
      /\ UNCHANGED <<fwdlink, bcklink>>

(* Mutant: x is linked to the end of the list, not to its first block.     *)
PushFrontDropsList(x) ==
  LET f1 == [b \in DOMAIN fwdlink \cup {x} |-> IF b = x THEN endblock ELSE fwdlink[b]]
      b1 == [b \in DOMAIN bcklink \cup {x} |->
               IF b = x THEN freelisthdr ELSE bcklink[b]]
  IN  /\ ~FollowingFree(x) /\ ~PrecedingFree(x)
      /\ fwdlink'  = [f1 EXCEPT ![freelisthdr] = x]
      /\ bcklink'  = [b1 EXCEPT ![endblock] = x]
      /\ tag'      = [tag EXCEPT ![x] = "free"]
      /\ lastword' = [lastword EXCEPT ![nextblk(x)] = -x]
      /\ UNCHANGED blksize

(* No neighbour is free: x goes to the front of the list.                  *)
PushFront(x) ==
  LET next == fwdlink[freelisthdr]
      f1 == [b \in DOMAIN fwdlink \cup {x} |-> IF b = x THEN next ELSE fwdlink[b]]
      b1 == [b \in DOMAIN bcklink \cup {x} |->
               IF b = x THEN freelisthdr ELSE bcklink[b]]
  IN  /\ ~FollowingFree(x) /\ ~PrecedingFree(x)
      /\ fwdlink'  = [f1 EXCEPT ![freelisthdr] = x]
      /\ bcklink'  = IF next # TERMINATOR THEN [b1 EXCEPT ![next] = x] ELSE b1
      /\ tag'      = [tag EXCEPT ![x] = "free"]
      /\ lastword' = [lastword EXCEPT ![nextblk(x)] = -x]
      /\ UNCHANGED blksize

Release(x) ==
  /\ Releasable(x)
  /\ MergeBoth(x) \/ MergeFollowing(x) \/ MergePreceding(x) \/ PushFront(x)
  /\ UNCHANGED <<memsize, firsttry, caller, req, freeptr, nextfree>>

---------------------------------------------------------------------------
(* checkavailspace                                                         *)

(* The words on the free list, its header included.                        *)
Total == MapThenSumSet(LAMBDA b : blksize[b], DOMAIN fwdlink)

CheckAvailSpace ==
  /\ pc = "mutator"
  /\ Total < MinHeapSpace
  /\ IF firsttry /\ Expansion
     THEN /\ firsttry' = FALSE
          /\ caller' = "checkavailspace"
          /\ req' = MinHeapSpace
          /\ pc' = "expand"
     ELSE /\ pc' = "fatal"
          /\ UNCHANGED <<firsttry, caller, req>>
  /\ UNCHANGED <<mem, freeptr, nextfree>>

---------------------------------------------------------------------------
(* The steps of a call once it has begun, and the whole program.           *)
Running ==
  \/ SearchOn
  \/ \E w \in LastWords : TakeWhole(w) \/ Split(w)
  \/ ExpandHeap \/ ExpandFails \/ Expanded
  \/ \E x \in Blocks : pc = "release" /\ Release(x)

Next ==
  \/ \E n \in Requests : Reserve(n)
  \/ \E x \in Blocks : Release(x)
  \/ CheckAvailSpace
  \/ SearchOn
  \/ \E w \in LastWords : TakeWhole(w)
  \/ \E w \in LastWords : Split(w)
  \/ ExpandHeap
  \/ ExpandFails
  \/ Expanded

Spec == Init /\ [][Next]_vars
FairSpec == Spec /\ WF_vars(Running)

---------------------------------------------------------------------------
(* Properties                                                              *)

BlockType ==
  /\ memsize \in Nat
  /\ Blocks \subseteq 0 .. memsize - 1
  /\ blksize \in [Blocks -> Nat \ {0}]
  /\ tag \in [Blocks -> {"free", "alloc", "locked", "fresh"}]
  /\ lastword \in [{nextblk(b) : b \in Blocks} -> Int]

LinkType ==
  /\ fwdlink \in [{b \in Blocks : tag[b] \in {"free", "locked"}} ->
                      Blocks \cup {TERMINATOR}]
  /\ bcklink \in [DOMAIN fwdlink \ {freelisthdr} -> Blocks]

MemType == BlockType /\ LinkType

CtlType ==
  /\ firsttry \in BOOLEAN
  /\ pc \in {"mutator", "search", "expand", "release", "expanded", "fatal"}
  /\ caller \in {"none", "reserve", "checkavailspace"}
  /\ req \in Nat
  /\ freeptr \in Blocks
  /\ nextfree \in Blocks \cup {TERMINATOR}

TypeOK == MemType /\ CtlType

(* The blocks cut the workspace into pieces without gap or overlap: the    *)
(* walks block by block of clearheap and wsdump see every block once.      *)
Tiling ==
  /\ freelisthdr \in Blocks
  /\ \A b \in Blocks : nextblk(b) = memsize \/ nextblk(b) \in Blocks
  /\ \A x \in (Blocks \ {freelisthdr}) \cup {memsize} :
        \E p \in Blocks : nextblk(p) = x
  /\ \A b, c \in Blocks : b < c => nextblk(b) <= c

(* A block is seen to be free from its front exactly when it is seen to be *)
(* free from behind, by the word that precedes the next block.             *)
BoundaryTags ==
  \A b \in Blocks \ {freelisthdr} :
     IF tag[b] = "free" THEN lastword[nextblk(b)] = -b
                        ELSE lastword[nextblk(b)] >= 0

(* release leaves no two free blocks side by side.                         *)
Coalesced ==
  \A b \in Blocks : tag[b] = "free" => ~FollowingFree(b)

(* The free list is doubly linked, from the header block to the end block. *)
LinksAgree ==
  /\ fwdlink[endblock] = TERMINATOR
  /\ \A b \in DOMAIN fwdlink \ {endblock} :
        /\ fwdlink[b] \in DOMAIN bcklink
        /\ bcklink[fwdlink[b]] = b
  /\ \A b \in DOMAIN bcklink :
        /\ bcklink[b] \in DOMAIN fwdlink
        /\ fwdlink[bcklink[b]] = b

(* The structure on which reserve, release and the walks of the workspace  *)
(* rely, after any sequence of calls.                                      *)
Structure == Tiling /\ BoundaryTags /\ Coalesced /\ LinksAgree

(* No free block can be lost from the list, and the list has no cycle:     *)
(* following fwdlink from the header visits each free block once.          *)
FreeListComplete ==
  LET n == Cardinality(DOMAIN fwdlink)
      list[k \in 0 .. n - 1] ==
        IF k = 0 THEN freelisthdr ELSE fwdlink[list[k - 1]]
  IN  /\ {list[k] : k \in 0 .. n - 1} = DOMAIN fwdlink
      /\ fwdlink[list[n - 1]] = TERMINATOR

(* reserve asks for a larger workspace only when no free block would do.   *)
ExpandsOnlyWhenFull ==
  pc = "search" /\ nextfree = TERMINATOR =>
     \A b \in Blocks \ {freelisthdr} : tag[b] = "free" => blksize[b] < req

(* "we can assume that expand_heap has worked": when expansion is on, one  *)
(* expansion is enough for the request that caused it.                     *)
OneExpansionIsEnough ==
  pc = "expanded" /\ Expansion =>
     \E b \in Blocks \ {freelisthdr} : tag[b] = "free" /\ blksize[b] >= req

(* A block that is in use keeps its place, its size and its tag until it   *)
(* is released itself, whatever happens to the blocks around it.           *)
LiveBlocksStay ==
  [][\A b \in Blocks : tag[b] = "alloc" =>
        \/ b \in DOMAIN blksize' /\ tag'[b] = "alloc" /\ blksize'[b] = blksize[b]
        \/ Release(b)]_vars

(* A call to reserve or checkavailspace comes to an end: the search of the *)
(* list terminates, and so does the cycle of expansions and retries.       *)
CallsEnd == (pc \notin {"mutator", "fatal"}) ~> (pc \in {"mutator", "fatal"})

(* The heap as its users see it.                                           *)
LiveBlocks == [b \in {c \in Blocks : tag[c] = "alloc"} |-> blksize[b]]
Pending    == IF caller = "reserve" THEN req ELSE 0

Abs == INSTANCE HeapAbs WITH
         Base <- membase, InitSize <- DfMemSize, Requests <- Requests,
         size <- memsize, live <- LiveBlocks, want <- Pending

(* The allocator implements the abstract heap.                             *)
ImplementsHeapAbs == Abs!Spec
=============================================================================
