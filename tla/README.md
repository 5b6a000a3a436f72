# A verification development of Q'Nial

This directory models parts of the Q'Nial V7 interpreter (`src/BuildCore/src`)
in TLA+.  TLC checks the models on small instances; TLAPS proves theorems about
seven of them for all values of the constants.  Line numbers below are of the
files in `src/BuildCore/src` unless a path says otherwise.

Contents: 1 the system, 2 the models, 3 the runs, 4 fairness, 5 the proofs,
6 where the code does something else than it seems to, 7 what is only
model-checked and what is not modelled, 8 the plan.

## 1. The system

Q'Nial is a sequential interpreter for Nial.  One C program reads a line,
scans and parses it into a parse tree (an array like any other), and evaluates
it; every value is a nested array in one heap.  Deep C code leaves with
`longjmp` to the top level when something fails; whatever it was in the middle
of stays as it was.  The main parts:

| part | files | state | operations | what makes it right |
|---|---|---|---|---|
| heap allocator | absmach.c | `mem[]`, `memsize`, the free list | `reserve`, `release`, `expand_heap`, `checkavailspace` | blocks tile the workspace; front tags, end words and links agree; arrays in use never move |
| reference counts, evaluation stack | absmach.c | block headers, item pointers, `stkarea`, `topstack` | `new_create_array`, `store_array`, `freeit`, `copy`, `explode`, `implode`, `apush`, `apop`, `mklist`, `clearstack`, `clearheap` | a count equals the references; nothing in use is freed, nothing is left over |
| insertion in place | insel.c | the arrays of variables | `insert`, `splace`, `place`, `iplace` | an update is seen by the variable alone |
| atom table | absmach.c | `atomtbl`, `atomcnt`, `inrehash` | `createatom`, `remove_atom`, `rehash` | equal phrases are one atom; probing finds each |
| evaluator: calls | eval.c, eval_fun.c | `current_env`, stack pointers of symbol tables, catch buffers | `apply`, `prologue`, `epilogue`, closures, catch and throw | a name means what the text says, also when control jumps |
| evaluator: loops, debugger | eval.c | debugger flags, the call stack kept for it | control constructs, break, watch, trace | - |
| symbol table | symtab.c | trees of entries with roles and values | lookup, enter, erase | a name is found in the scope the rules say |
| scanner and parser | scan.c, parse.c | the token list, the tree under construction | `scan`, `parse` | backtracking leaves nothing behind; names get the right entries |
| top level | main_stu.c, lib_main.c | `recoverycnt`, `lastval`, `doinglatent` | the prompt loop, recovery, Latent | an error leaves a usable session |
| workspaces | wsmanage.c | the file, `G` | `wsdump`, `wsload`, `loaddefs` | what is loaded is what was saved |
| array operations | atops.c, insel.c, trs.c | the stack; the flag that an array is sorted | some 150 primitives | each computes its definition and packs its result |
| scalar operations | arith.c, compare.c, logicops.c, trig.c, linalg.c | the stack | pervasive operations, comparison | results are in range or faults |
| packed booleans | absmach.c, logicops.c, bitops.c | words of bits | copies, and, or, not, parity | bits past the last item do not matter |
| transformers | trs.c | the stack | EACH, REDUCE, RANK, DOWN and the others | the loops do what the recursive definitions say |
| pictures, builders | picture.c, blders.c | the stack | layout of text, parse tree nodes | - |
| files | fileio.c, unixif.c | ports; index and records of direct access files | read, write, erase, compress | records stay apart and read as written |
| streams, child processes | SPROCESS (nstreams.c, sprocess.c), PROCESS | stream buffers, child table | read, write, spawn, `handle_sigchld` | bytes in order; every end is reported |
| sockets | SOCKETS | streams on sockets | connect, accept, poll | as for streams |
| shared memory, hash tables | MEMSPACES, NTABLES | the tables of spaces and of keys | create, attach, get, set, remove | a key finds its last value |
| other features | NFILES, NDYNLOAD, REGEXP, NCOMPLEX, NIALDSP, NIAL_FFTW, NSFML_AUDIO, WINPROCESS | little | calls of libraries | - |
| profiler, system, terminal | profile.c, systemops.c, userops.c, utils.c, unixif.c, windowsif.c, linenoise.c | the call tree; terminal modes, the break flag | - | the tree follows the calls |

The features are in `src/BuildNial/pkgblder/all_features`; `src_nialcore` beside
it is a copy of the core, and `basics.c` and `defstbl.h` are generated.

How they interact: everything calls the allocator through `new_create_array`
and gives back through `freeup`.  The atom table, the stack and the symbol
tables are arrays in the heap themselves, so a growing stack or table allocates
while it is being used.  Any allocation may jump to the top level, either
because the heap cannot grow or because the user's break is noticed there.  The
top level then empties the stack (`clearstack`), frees every array whose count
is zero (`clearheap`) and goes on; nothing else is undone.  Saving and loading
work on the heap as raw words.

Hard behaviours, in this program without threads: jumps out of the middle of
any operation; references held in C locals that nothing counts; a structure
that is reallocated while it is being read; long sequences of calls over a
free list or a hash table with deletions; recursion through symbol tables that
hold one stack pointer each; results that must be packed, or unflagged, in
every path of some hundred operations; files that a kill may leave between two
writes.  Only SPROCESS has real concurrency (a signal handler and processes).
The list in `PROJECT.json` ("hazards") names the lines.

## 2. The models

### Heap, HeapAbs (absmach.c 292-849, 2578-2614)

`Heap` is the allocator at the level of blocks: size, tag, links and end word
of each.  `reserve` is `Reserve`, one `SearchOn` per iteration of its search,
then `TakeWhole` or `Split`, or `ExpandHeap` and `Expanded`; `release` is
`Release`, with `MergeBoth`, `MergeFollowing`, `MergePreceding` and `PushFront`
for its branches; `checkavailspace` is `CheckAvailSpace`.  `pc` is where the C
program is.  The words of a block are abstracted to what headers and the macro
`isprevfree` read of them: the last word of an array in use may look like
anything a shape can hold there (`LastWords`).  `realloc` may fail at any time
and does beyond `MaxMemSize`.  `HeapAbs` is what callers rely on: a block given
out overlaps no other and stays until it is released.

### AtomTable, AtomTableAbs (absmach.c 1293-1539)

The open-addressing table of phrases and faults, with deleted cells marked
`held`.  Every iteration of the loops of `createatom`, `rehash` and
`remove_atom` is a step.  A text is a model value; `HashSum` gives the word
`hash` folds it into.  The allocations in `createatom` and `rehash` may jump
instead (`RecordJumps`, `ExtendJumps`).  `AtomTableAbs` is interning: a request
gives the array that exists or a new one, or fails.

### RefCount, Values (absmach.c, absmach.h, insel.c, eval.c)

`RefCount` keeps, for each array, kind, items and count; the stack; the
variables; and the C locals of the operation under way (`r`).  `freeup` is
worked off a list `todo` and `freeit`'s recursion is the stack `frames`, so
that the state in the middle of freeing is visible.  The operations: literals,
variables, assignment, `mklist`, indexed selection, indexed assignment
(`insert`/`splace`/`place`, ten steps with the evaluation of the index
expression in between), and `place` as an operation.  Any allocation may jump,
`explode` in the middle of its loop; `ClearStack` and `ClearHeap` are the
cleanup.  `Values` is the evaluator without containers: values on a stack, an
update changes one variable.

Names of unused arrays are interchangeable, so a new array is any one unused
name (`Fresh`, by CHOOSE); where arrays lie is the business of `Heap`.  For the
same reason TLC may use the permutations of the names as symmetry.  CHOOSE
picks among equals: the state it leads to from a permuted state is a
permutation of the one it leads to from the other, as the properties and every
action look at the names for equality only.

The constant `Uses` switches on uses of these operations after which the
properties do not hold, because the code does not survive them; the run leaves
them out:

| use | what then happens |
|---|---|
| `side_effect` | the index expression assigns a variable whose old value is the right side, which is freed while held in a local |
| `same_atom` | the index expression makes the phrase or fault that is the right side, and drops it: it is freed while held in a local |
| `item_address` | in `v@(v@i) := x` the address is the item replaced; it is freed twice |
| `self_update` | `v@i := v` with a bad address yields the old value |
| `held_pair` | `place` on a pair that something holds changes the pair |
| `implode_jump` | the allocation in `implode` jumps after the update |

### Calls (eval.c 342-599, 826-989, 1175-1322, 2902-2981)

The symbol table of a body holds the stack pointer of its newest activation
record, and this is the only way to its variables.  `Calls` has the stack with
records and saved pointers (`stk`), the pointers (`sp`), `current_env` (`env`),
the C frames of `apply` and `icatch` (`ctl`) and `ct_current_jmp_buf`
(`catchbuf`).  Actions: reading and setting a variable, the cases of `apply`
(a name, an operation parameter, a transformer with an operand, a closure,
CATCH), the three returns, `throw`, the next line and a jump to the top level.
The field `lex` of a frame is not in the code: it is the record each name of
the text means, so that the properties can say what is right.

### Workspace (wsmanage.c, absmach.c 479-539, 1723-1748)

A session allocates, frees, grows its stack, atom table and heap, saves, loads
and starts again.  `wsdump` writes `G`, a run for each maximal sequence of
allocated blocks, and a zero; a failed write cuts the file anywhere.  `wsload`
is `LoadGlobals`, one `LoadRun` per run and `LoadEnds`, or `LoadFails` and
`LoadCut`.  A block is its size and what it holds (the stack, the atom table,
or data).  That the free blocks are the gaps is taken from `Heap` and is what
the load has to establish again.  After a load that failed half way the mode is
`lost`: the code goes on with a mixture of two workspaces of which nothing can
be said.  `Uses` leaves out the two situations a load does not survive: a first
block that is free at the save (run `workspace_first_free`), and a stack that
lies, or ends, elsewhere in the file than in the session (`wsload` does not set
`stkarea` and `stklim`).

### Streams, Channel; ChildProcs (SPROCESS)

`Streams` is two interpreters joined by a pipe: the child puts messages (lines,
characters, arrays) into the buffers of its writer and hands the bytes to the
system in pieces of any size; the parent polls, and takes lines, characters and
arrays out of its reader.  `unblock_array` is done a field at a time with its
recursion in `frames`, so that the end of the child or a signal can come in
the middle of any field.  A child that ends keeps in `writer` what it had not
handed over, so that the properties can tell a message that was lost with it
(`Lost`) from one that has to arrive; `signals` has, for each signal, the array
that was being read.  `Channel` is what the streams and the pipe promise
together.  `ChildProcs` is the table of children with the streams and
descriptors its entries own.  A spawn is several steps (`Assign`, `Pipes`,
`Fork` or `ForkPty`, `Entered`), each of which may fail, and the handler of
SIGCHLD may run between any two.

### Arrays, ArrayOps, Scalars, Selection, SortSearch, Transformers

The primitives as operators on arrays with kind, shape and items.  `Arrays`:
representation and `up`.  `ArrayOps`: atops.c, with each test for packed items
where the code has it and none where it has none.  `Scalars`: arith.c,
compare.c and logicops.c on words of `w` bits, with (`TestsKept`) or without
the tests of sums that a C compiler may drop.  `Selection`: insel.c.
`SortSearch`: the list merge of trs.c and the searches by halves.
`Transformers`: trs.c, with its loops.  `ArrayVariable` is a program that
computes from a variable A, sorts, searches and updates it; `gap` remembers
which operation without a packed result came since the last assignment, so that
the properties except exactly that.  `TransformedVariable` adds transformers.

### BitLists, PackedBits (absmach.c, logicops.c, bitops.c)

Truth values in words of `boolsPW` bits with garbage after the last item;
`BitLists` is the same operations on lists of truth values.

### DirectFile, RecordFile (fileio.c)

A direct access file is an index (header and pairs) and the bytes of the
records.  A write goes through `writerec`, `FillGap`, `WritePair` and
`WriteHeader`; a compression copies both files and replaces them in seven
steps.  stdio keeps the last write to each file until the next seek (`buf`);
a kill between any two steps loses what is kept.  `RecordFile` is what a user
relies on: a call settles when it begins what its record is to become
(`wanted`: these contents, or none), the record has that when the call ends and
keeps it, whatever is done to others, and a kill spoils only the records
written last.  `Uses` names the two moments of a kill that the code
does not survive (section 6).

### SetLemmas, and the modules of proofs

`HeapProofs`, `AtomTableProofs`, `RefCountProofs`, `CallsProofs`,
`WorkspaceProofs`, `ChildProcsProofs` and `DirectFileProofs` extend the modules
they are named for.  `SetLemmas` has what they share: least elements,
cardinalities, sums over intervals, remainders.

## 3. The runs

The bounds are chosen so that every branch of the code is taken, in every
combination that matters; that every action and disjunct fires was checked.

| run | states | shows | bounds and why they are enough |
|---|---|---|---|
| heap | 165 492 | the allocator keeps its structure, loses no free block, never moves a block, expands only when nothing fits, and each call ends | 42 words that grow to 77 at most, room for four blocks at first and eight in the end, of two sizes: release meets each case of its neighbours, blocks are split with and without a remainder, and the heap expands up to twice |
| atoms | 629 413 | atoms are unique, reachable and counted; calls end | a table of 5 cells that grows to 10, step 3, three arrays: collisions, chains around the end, held cells, a rehash with entries on both sides, and the full table |
| refcount | 1 430 942 | counts equal references in every state; nothing dangles or leaks; the steps implement operations on values; every operation comes nearer its end with each step | one variable, one integer, one text, lists of two, stack of two, five arrays, two of them left to the operations (`Spare`): a pair of a pair and an array, as `place` takes, and an insertion into a shared list that holds the list, its two arguments, the copy and the packed copy at once.  With four arrays the last never happens, and it does not show that `place` must protect the new item while `implode` frees the list.  Two variables would be two references more to the same arrays, which the stack supplies as well |
| calls | 1 421 051 | names mean what the text says; records and catchers nest; no call writes into another's record | an operation F with a local transformer T with a local operation B: variables and parameters of two enclosing bodies; five C frames: recursion through a closure; one jump or throw |
| workspace | 778 801 | what is loaded is what was saved; the free list is made anew; pointers agree; a cut file is noticed | 9 words that grow to 13, data of two sizes, one save and any number of loads and restarts: files larger and smaller than the session, with and without expansion, stack and table grown before and after |
| workspace_first_free | violated | section 6 | the same with the first block free |
| streams | 52 634 | messages come whole and in order; the bytes are a channel; all arrive | buffers of 3 bytes, words of 2, a pipe of 4, so that every field crosses the end of a buffer and of the pipe; four scripts with each kind of message and two arrays of arrays, one followed by characters; one signal, a child killed anywhere |
| children | 143 772 | each descriptor has one owner; each end is seen and reported once; no zombies | two entries, three processes, so that entries are used again while others live; four streams and six descriptors, so that pipes fail |
| bits | 186 690 | words implement lists of truth values | words of 4 bits and up to 5 items: a full word, a word and a bit |
| arrays | 4 857 | packing, the sorted flag, searches, sorts, selection, arithmetic | words of 3 bits, so that every overflow occurs, with the tests of sums kept (without them the same properties hold); arrays of up to three items and one level of nesting, tables of both orders |
| transformers | 298 | the loops give what the recursions define | the same arrays; five operations of different arity and result |
| direct_file | 1 540 231 | records stay apart, space is accounted, ends are known, a record reads as the last write of it said, or as nothing once erased | two records, files of up to 5 bytes, compressed above 1, one kill and one refused temporary file: a record that grows, shrinks, moves or leaves a gap before another, and a kill at every step but while a record moves or the files are compressed (`Uses` is empty) |

`CHECK_DEADLOCK FALSE` is set where a model may stop: the atom table and the
heap end the program when they are exhausted (`fatal`), `RefCount` when its
arrays are used up, `ChildProcs` when process numbers are, the array runs when
an array has reached the bound on items, and `Calls` and
`Workspace` when a bound is reached, control has gone astray, or a load has
failed half way.

Each property has a mutant, an operator beside the definition it changes, under
which TLC finds it violated; they are listed in `PROJECT.json`.

## 4. Fairness

The interpreter is sequential: when a C function is under way nothing else can
happen, and it runs on.  `FairSpec` of `Heap` and of `AtomTable`, and `Spec` of
`RefCount`, state weak fairness of the steps of the operation under way, and of
nothing a user chooses.  In `RefCount` no temporal property is checked; that
operations end is `StepsCountDown`, a measure every internal step makes
smaller.  Nothing is assumed about `realloc`, which may fail each time.

In `Streams` the two processes are scheduled by the system, hence weak fairness
of each; strong fairness of `inio_begin` says that the parent's program, which
is free to call other primitives, comes back to ask for a message again and
again; and the child ends when it has sent everything.  A signal or a kill need
never come.  In `ChildProcs` a pending SIGCHLD is delivered (weak fairness of
the handler), a spawn that has begun runs on, and the program asks again and
again for the status of its children (strong fairness, since it may be doing
something else each time).

## 5. The proofs

`tlapm` checks every theorem and lemma to the last leaf.  No bound of the runs
is in them: they hold for every size of the workspace, of the tables and of
the files, and for every order of calls.

| theorem | module | states | what it says |
|---|---|---|---|
| `StructureKept` | HeapProofs | `Structure` | blocks tile the workspace, tags agree, no two free blocks touch, the list is linked |
| `FreeListWhole` | HeapProofs | `FreeListComplete` | the free list has every free block, once |
| `ExpandsWhenFull` | HeapProofs | `ExpandsOnlyWhenFull` | the workspace grows only when no free block is large enough |
| `Refinement` | HeapProofs | `ImplementsHeapAbs` | the allocator gives out what is free and nothing else |
| `AtomsFound` | AtomTableProofs | `AtomsReachable` | between calls every atom is found by its search |
| `CountBounds` | AtomTableProofs | `CountCovers` | the count bounds the cells not vacant |
| `InternRefinement` | AtomTableProofs | `ImplementsAtomTableAbs` | the table interns |
| `CountsRight` | RefCountProofs | `CountsAreReferences` | every count is the number of the references, in the middle of freeing and cleaning up too |
| `AllocatedRight` | RefCountProofs | `AllocatedIsReferenced` | nothing in reach is freed, nothing is freed twice, and no operation or cleanup leaves a temporary |
| `PackedRight` | RefCountProofs | `HomogeneousAreImploded` | no operation leaves a list of integers as a list of arrays |
| `ScopesAreRight` | CallsProofs | `ScopesAgree` | names mean what the text says, unless a throw was caught |
| `ControlIsWhole` | CallsProofs | `ControlWhole` | records and catch buffers nest, throws included |
| `VariablesAreKept` | CallsProofs | `VariablesKept` | no call writes into the record of another |
| `PointersAreRight` | WorkspaceProofs | `PointersAgree` | the C pointers agree with the blocks of stack and atom table |
| `LoadDoesRestore` | WorkspaceProofs | `LoadRestores` | what is loaded is what was saved, and the free list is its gaps |
| `CutFileIsNoticed` | WorkspaceProofs | `CutFileNoticed` | a load that returns has read a whole file |
| `DescriptorsAreOwned` | ChildProcsProofs | `DescriptorsOwned` | an open descriptor has one owner |
| `EndsAreSeen` | ChildProcsProofs | `EndsSeen` | the table says a child has ended when it has, and it is reported once |
| `EntriesAreAccounted` | ChildProcsProofs | `EntriesAccounted` | an entry is lost only to a spawn that failed |
| `RecordsStayApart` | DirectFileProofs | `RecordsApart` | records do not overlap |
| `SpaceIsAccounted` | DirectFileProofs | `SpaceAccounted` | every byte is in a record or counted as free |
| `EndsAreKnown` | DirectFileProofs | `EndIsKnown` | a number past the last reads as the end |
| `RecordFileImplemented` | DirectFileProofs | `ImplementsRecordFile` | what a call asks for when it begins is what its record has when it ends and until the next; a kill spoils only the records written last |

Type correctness, the inductive invariants and the parts of `Structure` are
theorems too (`PROJECT.json` lists them).

### What is assumed

Only the `ASSUME`s of the modules, which TLC evaluates in the runs.  Heap: a
block is larger than its header, and the first workspace has room for one.
AtomTable: the step is at least 2, less than the size and does not divide it
(the constants of the code satisfy it, and `rehash` keeps it by adding cells),
and marks are no arrays.  Calls: the chains of enclosing bodies are consistent
(what encloses the body that encloses f encloses f).  ChildProcs: process
numbers are numbers.  DirectFile: a record is a sequence of its bytes.
Workspace: sizes are at least that of a smallest block, and the first workspace
has room for the stack, the atom table and one block.

The theorems of WorkspaceProofs have two hypotheses more, `FirstUsed` and
`StackStays`: the uses `first block free` and `stack elsewhere`, after which
the code does not do what they say, are not in `Uses`.  They are hypotheses on a
constant and the run `workspace` satisfies them.  Those of RefCountProofs have
the hypothesis `Plain`: the uses `side_effect`, `item_address`, `same_atom` and
`held_pair`, after each of which the code frees or changes an array in use, are
not in `Uses`.  The run `refcount` satisfies it; `self_update` and
`implode_jump` are allowed, but for `PackedRight`, which has the hypothesis
that `implode_jump` is not in `Uses` besides: the jump leaves the list behind
unpacked.  `RecordsStayApart` and
`SpaceIsAccounted` speak, as the properties do, of files that no kill has met
while a record moved or the files were compressed, unless `Uses` has such kills.
`RecordFileImplemented` has the hypothesis that `Uses` does not have them: after
such a kill the code does lose records that were written long before (section
6), so that the theorem would be false; the run `direct_file` satisfies it.

### The arguments

Heap.  The invariant `IInv` adds to `Structure` that header and end block stay
where they are, that no block but these is too small to be given back, and
where the search or the release under way is.  That the list is a list is said
by a numbering of the free blocks (`ListOrdered`): along the forward link the
number grows.  Then a free block never linked would be one number too many: a
walk of as many steps as there are free blocks meets them all, by cardinality.
`ExpandsOnlyWhenFull` needs that the blocks the search has passed are closed
backwards along the list; at the end block they are all of them.

AtomTable.  An atom is found because of its chain, the cells a search that
starts at its hash meets on the way, none of them vacant (`Linked`).
`remove_atom` leaves a cell vacant only where the next is vacant, so it lies
on no chain (`HeldFollowed`, `Vacating`).  A chain longer than the table repeats
itself.  While `rehash` runs an atom is in the new table or waits in the old.
The bound on `atomcnt` has an invariant of its own.

RefCount.  The invariant `IInv` has two parts.  `Core` says that a count is the
sum of the sizes of five sets of places: the stack, the variables, the freeups
to do that drop a count, the items freeit has not come to, and the one
reference to `no_value` from C.  Each step adds a place to one of the sets,
takes one away, or moves one.  So whatever refers to an array keeps it in use.
`Control` is about what nothing counts, the locals.  What the freeing under way
may give back is bounded by a set P of arrays (`Within`): an item of a member
of P is in P too, or has a reference from the stack, a variable or a list
outside of P (`Strong`).  The locals of an operation are outside of some such P
(`Apart`).  What insert holds while the index is evaluated, and an address it
found there, need references that the evaluation leaves alone (`InIndex`,
`Lasting`).  An update makes one reference to the old item disappear; that it is
not the address, nor an array the address is part of, is `Avoids`, and where it
holds no more the use `item_address` begins.  `ByPlace` says how the arguments of
`place` lie in its pair, which `OuterOK` needs for freeing them in the end.  After
a jump only `Core` and the walk of clearheap are left: an array with count zero
is not yet seen or is to be freed (`ZeroOK`).  One that explode had not filled
has count zero until then (`GoneOK`).

That lists of integers are packed has an invariant of its own, `PackedOK`, on
top of `IInv`.  A list of arrays has an item that is no integer (`Mixed`), or it
is the container being updated, or it is on its way out (`Leaving`): it has been
packed, the packed copy takes its place, and its one reference at most is the
variable's, a freeup's, or that of a pair which itself has none and is to be
freed (`Doomed`).  The last is why the counts are needed.  A container updated
in place has at most one reference, so that nobody sees it while its items are
not tested yet; and where the new item is the container itself it has two, by
the protection in insert and by the two lists that hold it in place, and is
copied.  A freeing only turns kinds to free, and what it takes a reference from
comes to zero and is on the stack of freeit, so a list on its way out stays
there until it is gone.

Calls.  The stack is cut into the parts of the calls under way.  A call keeps
in its part the stack pointers it replaced, so the value a table had for a call
further down is in the first part above that saved this table, or is still in
the table.  This value is the record that the text of the call means
(`Lexical`), and returning puts it back.  After a throw this is lost, since the
code does not restore the pointers; that records and catch buffers nest is kept.

Workspace.  A run begins where a block does and ends at the next free address;
the runs of a workspace are apart, in order, and have every block.  A file has
the first k runs of a workspace of some size, all of them if it is whole
(`FileOK`).  While it is read, the blocks are those below the end of the last
run, and the free list is the gaps so far (`Reading`).  The saved size is above
all blocks, so the room at the end is free and the load is what was saved.

ChildProcs.  A process number is unused, of the spawn under way, in one entry,
or past; a descriptor is free, of the spawn under way, of one entry, or lost.
A step moves one from one place to the next (`PidsApart`, `FdsApart`,
`StreamsApart`, `SpawnHolds`, `EndsNoted`).

DirectFile.  An index is looked at as a header and a length and a start for each
number.  It is whole when the records are apart, below the total length, and
lengths and free space add up to no more.  The index a call works on is whole
with the header the call has; what is on the disk, and what it would be after
the write held back, is whole with its own, except while a record moves or
files are replaced.  Sums over an index are a recursive function; that one
change of a length changes the sum by as much is proved by least numbers.

That it implements `RecordFile` needs more than sums: the invariant `K` says, of
each number, what the index and the bytes say.  What the disk has agrees with
what the program sees, but for the record in flux and the bytes written last
(`OnDisk`); a write about to write its header has written the bytes it was given
and their pair, and an erasure a pair of length 0, and the records before that
are new are empty (`WrittenNow`, `ErasedNow`);
the copies of a compression say the same of the numbers copied so far
(`Copied`), so that putting one file in place of the other is a step no user
sees.  A write leaves what other records have because they are apart
(`RecordsApart`, part of `IInv`).  Each step is then a step of `RecordFile` or
none: the first write of a call is `Begin`, with the contents the call was given
as what is wanted, the header is `Written` or `Erased`, which have to leave just
that, and reading a file, which lets the held write through, is `Sync`.

SetLemmas.  Finite sets of numbers: maxima, cardinality, ranks of members, and
`LeastNatural`, that a set of naturals which is not empty has a least element.
It stands for induction in all of the proofs, since the induction theorems of
the library take an operator, which these provers cannot instantiate.  A property
of a recursive function or of a fold is proved by looking at the least number
for which it fails.

## 6. Where the code does something else than it seems to

Each of these was met while modelling and read in the code; those with a Nial
expression were seen in the interpreter.  One contradicts a document and is the
finding of a run (`workspace_first_free`); the others are in the models, as
`Uses`, as exceptions in a property, or as hazards.

Workspaces and memory.  A workspace whose first block is free, as it is after
the stack has grown, is written as a run of length zero and loads as empty
(wsmanage.c:132).  `donottry` is declared and never set, so that a workspace of
fixed size grows all the same (absmach.c:485).  `growstack` may jump with
`topstack` raised (absmach.c:1736).

Updates in place.  `P := [[5,0],[1,2,3]]; place P` changes P.  `A@99 := A`
gives A and no fault.  An index expression that assigns the variable frees the
right side, and so does one that makes the same atom again: after
`X := 1 2 3; X@(first [0,X@(phrase 'ab')]) := phrase 'ab'` an item of X is a
freed array, since `insert` holds the phrase without counting it
(insel.c:1341) and the selection from X frees it.  `v@(v@i) := x` frees an item twice (insel.c:680).  A refused
insertion of several items has happened in part: after `W := 3 4 5` the faulty
`W#[0,9] := 8 9` leaves W as 8 4 5; `V := [1,"a]; V#[1,9] := 2 3` leaves V
unpacked.  Slice insertion does not check lengths, and stores a column of
arrays without regard to its kind.

Calls.  A throw through a recursive call leaves the variables of the operation
that catches it at a record that is gone.

Packing and order.  Row and column insertion does not clear the sorted flag
(insel.c 1363-1449).  Slices of mixed tables (`T := 2 2 reshape [1,"a,2,"b];
T|[,0] = [1,2]` is false), fuse with grouped axes, cut, OUTER of two atoms and
RANK over all axes give unpacked results.  A parenthesis in fuse is misplaced
(atops.c:3907).  Sort keeps an array in an `int` (trs.c:1181, 1265).
BYKEY ignores the result of choose when lengths differ.

Numbers.  The tests of `safeintadd` and `safeintsub` ask for the sign of a sum
that wraps, which C leaves undefined: compiled with the flags of the repository
(`-O2 -ffast-math`, src/BuildCore/src/CMakeLists.txt:22, gcc 12) they are gone,
and 9223372036854775807 + 1 is -9223372036854775808; with `-fwrapv` added it is
`?Integer overflow`.  `TestsKept` is whether the tests are there.  Either way an
overflow of times goes undetected when the product wraps to 0, or to what is no
less than its factors: 4294967296 * 4294967296 is 0, and in the model 2 * -4 on
words of 3 bits.  The comment above these routines says that "They return true
if the operation fails" (arith.c:97).  `NumbersRight` claims of products only
that those are right that are integers of the machine, the least one apart.
`abs` of a list with the least integer does not end (arith.c 1304-1307).
`?O < ?O` is true (compare.c:1289).  The bit operations take the raw word of a
one-item operand for a mask; exclusive or of a one-item list gives the atom.

Streams and processes.  A signal, or the end of a killed child, while an item
of an array is awaited stores an invalid pointer as the item (nstreams.c:1244),
and the array is returned, though the comment at `unblock_array` (1151) leaves it
to the caller that the array is there whole; `MessagesInOrder` says which items
a kill leaves invalid (`Truncated`).  A child that ends before its number is
stored is never reported (sprocess.c:329).

Direct access files.  A kill between the pair and the header of a write that
moves a record lets a later append overlap it; a kill between the unlinking and
the renaming of a compression leaves an empty index, and copies left over are
appended to (both `Uses`).  The result of writing the header is ignored.
`compressfile` closes streams that are not open.  A number far past the end
may read as a record (readrec repeats the pair past the last), and an error
there pushes two faults.

Top level and parser (not modelled).  `recoverycnt` is changed between `setjmp`
and `longjmp` (main_stu.c:365); `doinglatent` stays set (471); `lastval` and
names of files are leaked (410, 550, 797).  A definition that parses resets the
old one before the rest is parsed (parse.c 798-812); ACTION looks at a fixed
token for IS inside quotes (363); a refused `Foo := (` leaves the role of a
variable; `rec_form` is exponential in nesting; the comment of CASE_EXPR puts
END before ELSE.  NTABLES compares integer keys by address.

Comments that do not describe the code: absmach.c:1316 says the first held cell
on a chain is used for a new atom, but the vacant cell that ends the search
always is; absmach.c:1284 says `atomcnt` counts the cells in use or held, but
`rehash` drops the held ones and leaves the count as it was, so that it is only
an upper bound (`CountCovers`); absmach.c:1337 says that no held location was
found where the program is ended (1356), which does not look at `posn_to_use`.

## 7. Only model-checked, or not modelled

Only model-checked.  Liveness under fairness, and anything with ENABLED, is out
of the provers' reach: `CallsEnd`, `EverythingArrives`, `NoZombies`,
`EndsReported`.  `Streams`, the array modules and `PackedBits` compute with
RECURSIVE operators, in whose modules the SMT prover is not available; what a
recursive operation on arrays gives for every array would be an induction over
data besides.  Of `RefCount`,
`ImplementsValues` maps arrays to values by recursion over their items, and
`StepsCountDown` has a sum over a fold; both would be inductions over data.

Not modelled in the parts above: the at-path, slice and table cases of
insertion in `RefCount` (`Selection` has their values); blocks, dynamic scope,
compositions and the primitive transformers in `Calls`; tracing and the
debugger; `loaddefs`; the table of ports, text files and the encoding of
records; real numbers and characters; timers and errors of system calls; what
the depth of the C stack allows.

The parts not modelled are listed in `PROJECT.json` with the reason.  Floating
point, the terminal, calls of libraries and the grammar of Nial are left out
for good.

## 8. The plan

Done: `Heap`, `AtomTable`, `RefCount`, `Calls`, `Workspace`, `Streams`,
`ChildProcs`, `PackedBits`, the array operations and transformers, `DirectFile`,
and the proofs of section 5.

Left, in this order:

1. The top level: jumps, recovery, latent definitions, saving at the end.
2. The symbol table and the parser's use of it: roles and definitions that fail.
3. Ports and the encoding of records; NTABLES; shared memory.
