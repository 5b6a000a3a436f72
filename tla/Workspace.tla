------------------------------ MODULE Workspace ------------------------------
(***************************************************************************)
(* Saving and loading a workspace: wsdump and wsload of wsmanage.c.        *)
(*                                                                         *)
(* A file holds the global structure G and the runs of allocated blocks,   *)
(* each with its address and length; a length of zero ends it.  wsload     *)
(* reads all this over the workspace of the session, makes what lies       *)
(* between the runs the free blocks, and sets the C pointers that depend   *)
(* on it.  Arrays do not move, so that addresses in arrays stay right.     *)
(*                                                                         *)
(* Module Heap has shown that the free blocks are the gaps between the     *)
(* allocated ones; here they are taken to be so, until wsload makes them   *)
(* anew.  Which free block that fits comes first in the list is left open. *)
(***************************************************************************)
EXTENDS Integers, Sequences, FiniteSetsExt, Functions

CONSTANTS
  Names,         (* The names of workspace files.                          *)
  Data,          (* What the arrays of a user hold.                        *)
  DataSizes,     (* The sizes of their blocks.                             *)
  membase,       (* The address of the first block.                        *)
  DfMemSize,     (* The initial memsize.                                   *)
  MinSize,       (* minsize: words of the smallest block.                  *)
  MinHeapSpace,  (* MINHEAPSPACE.                                          *)
  DfStkLim,      (* dfstklim, as words of the block of the stack.          *)
  AtomTblSize,   (* Words of the block of the atom table.                  *)
  Expansions,    (* The settings of expansion; FALSE under +size.          *)
  MaxMemSize,    (* Bound: a realloc beyond this many words always fails.  *)
  MaxSaves,      (* Bound: the saves of all sessions.                      *)
  Uses,          (* What may happen that the properties do not survive:    *)
                 (*   "first block free"  at a save                        *)
                 (*   "stack elsewhere"   in the session than in the file  *)
  none

ASSUME WorkspaceConstants ==
  /\ MinSize \in Nat \ {0} /\ MinHeapSpace >= MinSize
  /\ DfStkLim >= MinSize /\ AtomTblSize >= MinSize
  /\ DataSizes \subseteq Nat /\ \A n \in DataSizes : n >= MinSize
  /\ membase \in Nat /\ DfMemSize >= membase + DfStkLim + AtomTblSize + MinSize
  /\ DfMemSize <= MaxMemSize /\ MaxSaves \in Nat /\ Expansions \subseteq BOOLEAN
  /\ {DfMemSize, MaxMemSize, MinHeapSpace, DfStkLim, AtomTblSize} \subseteq Nat
  /\ "stack" \notin Data /\ "atoms" \notin Data
  /\ none \notin [f : Names, n : Nat, nextaddr : Nat, free : Seq(Nat \X Nat)]

VARIABLES
  expansion,  (* Whether the heap of the session may grow.                 *)
  memsize,    (* Words of the workspace.                                   *)
  blk,        (* blk[b]: the size and the contents of the block at b, if   *)
              (* it is allocated, and the words that the contents need.    *)
  G,          (* stkareabase, atomtblbase and wssize.                      *)
  stkarea,    (* Where the stack is taken to be, and                       *)
  stklim,     (* how many words it is taken to have, -1 if that is garbage.*)
  atomtbl,    (* Where the atom table is taken to be.                      *)
  file,       (* The files that have been written.                         *)
  mode,       (* "run", "load", or "lost": a load has failed half way.     *)
  ld,         (* What is being loaded, and how far it is read.             *)
  saves       (* The saves so far.                                         *)

heap == <<memsize, blk, G, stkarea, stklim, atomtbl>>
vars == <<expansion, memsize, blk, G, stkarea, stklim, atomtbl, file, mode, ld, saves>>

Block(n, c) == [size |-> n, words |-> n, holds |-> c]
EndOf(b)    == b + blk[b].size

NewBlocks == [b \in {membase, membase + DfStkLim} |->
                IF b = membase THEN Block(DfStkLim, "stack") ELSE Block(AtomTblSize, "atoms")]
NewG == [stkareabase |-> membase, atomtblbase |-> membase + DfStkLim, wssize |-> 0]

Init ==
  /\ expansion \in Expansions
  /\ memsize = DfMemSize /\ blk = NewBlocks /\ G = NewG
  /\ stkarea = membase /\ stklim = DfStkLim /\ atomtbl = membase + DfStkLim
  /\ file = [f \in Names |-> none] /\ mode = "run" /\ ld = none /\ saves = 0

(* The free blocks, <<address, size>>: from the end of a block or the      *)
(* beginning of the workspace to the next block or the end of it.          *)
NextUsed(a) == Min({b \in DOMAIN blk : b > a} \cup {memsize})
FreeAddrs   == {a \in {membase} \cup {EndOf(b) : b \in DOMAIN blk} :
                  a < memsize /\ a \notin DOMAIN blk}
Gaps        == {<<a, NextUsed(a) - a>> : a \in FreeAddrs}
-----------------------------------------------------------------------------
(* What a session does to its workspace.                                   *)

Running == mode = "run"
Session == Running /\ UNCHANGED <<expansion, file, mode, ld, saves>>

Fits(n)    == {g \in Gaps : g[2] >= n}
Taken(g, n, c) == [Block(n, c) EXCEPT !.size = IF g[2] - n < MinSize THEN g[2] ELSE n]
With(g, n, c)  == [b \in DOMAIN blk \cup {g[1]} |-> IF b = g[1] THEN Taken(g, n, c) ELSE blk[b]]
Less(f, b)     == Restrict(f, DOMAIN f \ {b})

NewArray(d, n) ==
  /\ Session
  /\ \E g \in Fits(n) : blk' = With(g, n, d)
  /\ UNCHANGED <<memsize, G, stkarea, stklim, atomtbl>>

FreeArray(b) ==
  /\ Session
  /\ blk[b].holds \in Data
  /\ blk' = Less(blk, b)
  /\ UNCHANGED <<memsize, G, stkarea, stklim, atomtbl>>

(* The new stack is allocated before the old one is released.              *)
growstack ==
  /\ Session
  /\ \E g \in Fits(stklim + DfStkLim) :
       /\ blk' = Less(With(g, stklim + DfStkLim, "stack"), G.stkareabase)
       /\ G' = [G EXCEPT !.stkareabase = g[1]]
       /\ stkarea' = g[1]
  /\ stklim' = stklim + DfStkLim
  /\ UNCHANGED <<memsize, atomtbl>>

(* The table is made longer.                                               *)
rehash ==
  /\ Session
  /\ LET n == blk[G.atomtblbase].words + AtomTblSize IN
       \E g \in Fits(n) :
         /\ blk' = Less(With(g, n, "atoms"), G.atomtblbase)
         /\ G' = [G EXCEPT !.atomtblbase = g[1]]
         /\ atomtbl' = g[1]
  /\ UNCHANGED <<memsize, stkarea, stklim>>

(* expand_heap: the increment for a request of n words; what reset_absmach *)
(* reads when realloc has moved the heap.                                  *)
Increment(n) ==
  IF ~expansion THEN MinHeapSpace ELSE Max({Min({memsize \div 5, DfMemSize \div 2}), n + MinHeapSpace})

Tally(b) == IF b \in DOMAIN blk THEN blk[b].words ELSE -1

Expand(n) ==
  /\ memsize + Increment(n) <= MaxMemSize
  /\ memsize' = memsize + Increment(n)

Moves(g) == stkarea' = g.stkareabase /\ stklim' = Tally(g.stkareabase) /\ atomtbl' = g.atomtblbase
Stays    == UNCHANGED <<stkarea, stklim, atomtbl>>

expand_heap ==
  /\ Session
  /\ \E n \in DataSizes \cup {stklim + DfStkLim} : Fits(n) = {} /\ Expand(n)
  /\ Moves(G) \/ Stays
  /\ UNCHANGED <<blk, G>>

(* The session ends, or is killed, and another begins.                     *)
Restart ==
  /\ expansion' \in Expansions
  /\ memsize' = DfMemSize /\ blk' = NewBlocks /\ G' = NewG
  /\ stkarea' = membase /\ stklim' = DfStkLim /\ atomtbl' = membase + DfStkLim
  /\ mode' = "run" /\ ld' = none
  /\ UNCHANGED <<file, saves>>
-----------------------------------------------------------------------------
(* wsdump                                                                  *)

(* The runs of allocated blocks in the order of their addresses: as many   *)
(* begin before a run as there are runs before it.  When the first block is *)
(* free, an empty one comes before them.                                   *)
RunStart(a) == a \in DOMAIN blk /\ \A b \in DOMAIN blk : EndOf(b) # a
Starts      == {a \in DOMAIN blk : RunStart(a)} \cup {membase}
Nth(S, i)   == CHOOSE a \in S : Cardinality({b \in S : b < a}) = i - 1

RunEnd(a) == Min({e \in FreeAddrs : e >= a} \cup {memsize})
RunAt(a)  == [cnt   |-> RunEnd(a) - a, addr |-> a,
              words |-> Restrict(blk, {b \in DOMAIN blk : a <= b /\ b < RunEnd(a)})]

(* Mutant: the run that reaches the end of the workspace is not written.   *)
RunsBeforeEnd ==
  LET S == {a \in Starts : RunEnd(a) < memsize}
  IN  [i \in 1 .. Cardinality(S) |-> RunAt(Nth(S, i))]

Runs == [i \in 1 .. Cardinality(Starts) |-> RunAt(Nth(Starts, i))]

(* wssize: where the free block at the end of the workspace begins.        *)
highest == Max({g[1] : g \in Gaps} \cup {0})
WsSize  == IF \E g \in Gaps : g[1] = highest /\ g[1] + g[2] = memsize THEN highest ELSE memsize

(* The file as it is when n writes have succeeded: G, the runs, the zero.  *)
(* A run of which only a part was written counts as absent: reading it meets *)
(* the end of the file.  The field of is not in the file: it is the         *)
(* workspace that was saved.                                               *)
Dumped(n) ==
  [G     |-> IF n = 0 THEN none ELSE [G EXCEPT !.wssize = WsSize],
   runs  |-> SubSeq(Runs, 1, IF n - 1 < Len(Runs) THEN n - 1 ELSE Len(Runs)),
   whole |-> n = Len(Runs) + 2,
   of    |-> [blk |-> blk, stkareabase |-> G.stkareabase, atomtblbase |-> G.atomtblbase]]

wsdump(f) ==
  /\ Running /\ saves < MaxSaves
  /\ \/ membase \in DOMAIN blk
     \/ "first block free" \in Uses
  /\ \E n \in 0 .. Len(Runs) + 2 : file' = [file EXCEPT ![f] = Dumped(n)]
  /\ G' = [G EXCEPT !.wssize = WsSize]
  /\ saves' = saves + 1
  /\ UNCHANGED <<expansion, memsize, blk, stkarea, stklim, atomtbl, mode, ld>>
-----------------------------------------------------------------------------
(* wsload                                                                  *)

Lost == mode' = "lost" /\ ld' = none

(* G is read; then there must be room for the workspace and MINHEAPSPACE.  *)
LoadGlobals(f) ==
  /\ Running /\ file[f] # none /\ file[f].G # none
  /\ \/ file[f].G.stkareabase = stkarea /\ file[f].of.blk[stkarea].words = stklim
     \/ "stack elsewhere" \in Uses
  /\ G' = file[f].G
  /\ LET short == file[f].G.wssize - memsize IN
       IF short + MinHeapSpace <= 0
       THEN /\ mode' = "load" /\ UNCHANGED memsize /\ Stays
       ELSE \/ /\ expansion /\ Expand(short)
               /\ mode' = "load" /\ (Moves(file[f].G) \/ Stays)
            \/ mode' = "lost" /\ UNCHANGED memsize /\ Stays
  /\ ld' = IF mode' = "load" THEN [f |-> f, n |-> 0, nextaddr |-> membase, free |-> <<>>] ELSE none
  /\ UNCHANGED <<expansion, blk, file, saves>>

(* A file that has no G in full: it is read over the globals in part.      *)
LoadFails(f) ==
  /\ Running /\ file[f] # none /\ file[f].G = none
  /\ UNCHANGED <<ld, mode>> \/ Lost
  /\ UNCHANGED <<expansion, heap, file, saves>>

(* The next run is read over the workspace, and the words between it and   *)
(* the run before it are a free block.  The blocks of the session are no   *)
(* more.                                                                   *)
Loading  == mode = "load"
Loaded   == file[ld.f]
MoreRuns == ld.n < Len(Loaded.runs) /\ Loaded.runs[ld.n + 1].cnt # 0

Merged(f, g) == [x \in DOMAIN f \cup DOMAIN g |-> IF x \in DOMAIN f THEN f[x] ELSE g[x]]

LoadRun ==
  /\ Loading /\ MoreRuns
  /\ LET run == Loaded.runs[ld.n + 1] IN
       /\ blk' = IF ld.n = 0 THEN run.words ELSE Merged(run.words, blk)
       /\ ld' = [ld EXCEPT !.n = @ + 1, !.nextaddr = run.addr + run.cnt,
                           !.free = IF ld.n = 0 THEN @
                                    ELSE Append(@, <<ld.nextaddr, run.addr - ld.nextaddr>>)]
  /\ UNCHANGED <<expansion, memsize, G, stkarea, stklim, atomtbl, file, mode, saves>>

(* A zero ends the file; the rest of the workspace is the last free block. *)

(* Mutant: the end of the file is taken for a zero.                        *)
AtZeroOrEnd == ld.n = Len(Loaded.runs) \/ Loaded.runs[ld.n + 1].cnt = 0

AtZero == \/ ld.n < Len(Loaded.runs) /\ Loaded.runs[ld.n + 1].cnt = 0
          \/ ld.n = Len(Loaded.runs) /\ Loaded.whole

FreeBlocks ==
  IF ld.nextaddr < memsize THEN Append(ld.free, <<ld.nextaddr, memsize - ld.nextaddr>>) ELSE ld.free

(* Mutant: the pointer to the atom table is not set.                       *)
LoadEndsKeepsTable ==
  /\ Loading /\ AtZero
  /\ blk' = IF ld.n = 0 THEN Restrict(blk, {}) ELSE blk
  /\ mode' = "run" /\ ld' = none
  /\ UNCHANGED <<expansion, memsize, G, stkarea, stklim, atomtbl, file, saves>>

LoadEnds ==
  /\ Loading /\ AtZero
  /\ blk' = IF ld.n = 0 THEN Restrict(blk, {}) ELSE blk
  /\ atomtbl' = G.atomtblbase
  /\ mode' = "run" /\ ld' = none
  /\ UNCHANGED <<expansion, memsize, G, stkarea, stklim, file, saves>>

(* The file is cut short: the end of it is reached before a zero is.       *)
LoadCut ==
  /\ Loading /\ ~MoreRuns /\ ~AtZero
  /\ Lost
  /\ UNCHANGED <<expansion, heap, file, saves>>

Next ==
  \/ \E d \in Data, n \in DataSizes : NewArray(d, n)
  \/ \E b \in DOMAIN blk : FreeArray(b)
  \/ growstack \/ rehash \/ expand_heap \/ Restart
  \/ \E f \in Names : wsdump(f) \/ LoadGlobals(f) \/ LoadFails(f)
  \/ LoadRun \/ LoadEnds \/ LoadCut

Spec == Init /\ [][Next]_vars
-----------------------------------------------------------------------------
(***************************************************************************)
(* Properties.                                                             *)
(***************************************************************************)
TypeOK ==
  /\ memsize \in DfMemSize .. MaxMemSize
  /\ DOMAIN blk \subseteq membase .. memsize
  /\ \A b \in DOMAIN blk : blk[b].holds \in Data \cup {"stack", "atoms"}
  /\ stkarea \in Nat /\ stklim \in Nat \cup {-1} /\ atomtbl \in Nat
  /\ mode \in {"run", "load", "lost"} /\ (mode = "load" <=> ld # none)
  /\ saves \in 0 .. MaxSaves

(* The C pointers into the workspace agree with it: the stack is in the    *)
(* block that is the stack and has room there, and so for the atom table.  *)
PointersAgree ==
  Running =>
    /\ stkarea = G.stkareabase /\ stkarea \in DOMAIN blk
    /\ blk[stkarea].holds = "stack" /\ blk[stkarea].words = stklim
    /\ atomtbl = G.atomtblbase /\ atomtbl \in DOMAIN blk /\ blk[atomtbl].holds = "atoms"

LoadDone == Loading /\ mode' = "run" /\ ~Restart

(* "The effect of loading a workspace is to replace the current workspace  *)
(* with the saved one": what is loaded, when wsload returns, is each block *)
(* that was allocated at the save, and the globals of then.  The free list *)
(* that wsload makes has the gaps in it, all of them and in their order,   *)
(* and the last one has room for the cleanup that follows.                 *)
LoadRestores ==
  [][LoadDone => /\ blk' = Loaded.of.blk
                 /\ G'.stkareabase = Loaded.of.stkareabase
                 /\ G'.atomtblbase = Loaded.of.atomtblbase
                 /\ Range(FreeBlocks) = Gaps'
                 /\ \A i \in DOMAIN FreeBlocks : i > 1 => FreeBlocks[i - 1][1] < FreeBlocks[i][1]
                 /\ \E g \in Gaps' : g[1] + g[2] = memsize' /\ g[2] >= MinHeapSpace]_vars

(* A file that a failed save has left is never taken for a workspace.      *)
CutFileNoticed == [][LoadDone => Loaded.whole]_vars
=============================================================================
