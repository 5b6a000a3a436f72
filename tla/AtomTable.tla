----------------------------- MODULE AtomTable -----------------------------
(***************************************************************************)
(* The table of phrases and faults: createatom, remove_atom and rehash of  *)
(* absmach.c.                                                              *)
(*                                                                         *)
(* Every phrase and fault is one array, found through a hash table with    *)
(* open addressing: a collision is resolved by stepping linadj cells       *)
(* forward, cyclically.  Each iteration of a loop of the code is a step    *)
(* here.  An array is allocated by new_create_array, which may jump to the *)
(* top level instead; the array is known by a name from Arrays, and        *)
(* atom[z] is the kind and the text that it holds.                         *)
(***************************************************************************)
EXTENDS Integers, FiniteSets

CONSTANTS
  Kinds,       (* phrasetype and faulttype.                                *)
  Texts,       (* The texts of the atoms.                                  *)
  HashSum,     (* HashSum[s]: the word that hash folds the text s into.    *)
  Arrays,      (* Names for the arrays.                                    *)
  LinAdj,      (* linadj.                                                  *)
  DfSize,      (* dfatomtblsize, no multiple of linadj.                    *)
  MaxSize      (* Bound: a larger table never fits the heap.               *)

ASSUME AtomTableConstants ==
  /\ HashSum \in [Texts -> Nat]
  /\ LinAdj \in Nat \ {0, 1} /\ DfSize \in Nat /\ MaxSize \in Nat
  /\ LinAdj < DfSize /\ DfSize % LinAdj # 0

CONSTANTS vacant, held, none
ASSUME AtomTableMarks ==
  /\ vacant \notin Arrays /\ held \notin Arrays /\ vacant # held
  /\ none \notin Arrays /\ none \notin Kinds \X Texts

VARIABLES
  atomtblsize, (* The number of cells.                                     *)
  atomtbl,     (* The cells: an array, vacant or held.                     *)
  atomcnt,     (* The cells taken to be in use or held.                    *)
  inrehash,    (* Set while rehash asks for space.                         *)
  atom,        (* The kind and the text of each phrase and fault in use.   *)
  pc,          (* Where the program is.                                    *)
  k, s,        (* The arguments of createatom.                             *)
  x,           (* The argument of remove_atom, the atom to be placed by    *)
               (* rehash, or the array that createatom has made.           *)
  posn,        (* The cell that is looked at.                              *)
  posn_to_use, (* The last cell seen that could take the atom.             *)
  oldtbl,      (* The old table and the cell of it that rehash is at.      *)
  i,
  result       (* What the last call of createatom has returned.           *)

table == <<atomtblsize, atomtbl, atomcnt, inrehash, atom>>
vars  == <<atomtblsize, atomtbl, atomcnt, inrehash, atom, pc, k, s, x, posn,
           posn_to_use, oldtbl, i, result>>

Cells    == 0 .. atomtblsize - 1
hash(t)  == HashSum[t] % atomtblsize
Succ(c)  == (c + LinAdj) % atomtblsize
Pred(c)  == ((c + atomtblsize) - LinAdj) % atomtblsize
InUse    == DOMAIN atom

(* The control state between two calls; r is what the call returns.        *)
Return(r) ==
  /\ pc' = "idle" /\ result' = r
  /\ k' = none /\ s' = none /\ x' = none /\ posn' = 0 /\ posn_to_use' = 0
  /\ oldtbl' = <<>> /\ i' = 0

(* allocate_atomtbl                                                        *)
Init ==
  /\ atomtblsize = DfSize
  /\ atomtbl = [c \in 0 .. DfSize - 1 |-> vacant]
  /\ atomcnt = 0 /\ inrehash = FALSE
  /\ atom = [z \in {} |-> none]
  /\ pc = "idle" /\ result = none
  /\ k = none /\ s = none /\ x = none /\ posn = 0 /\ posn_to_use = 0
  /\ oldtbl = <<>> /\ i = 0

---------------------------------------------------------------------------
(* createatom                                                              *)

CreateAtom(kk, t) ==
  /\ pc = "idle"
  /\ pc' = "probe"
  /\ k' = kk /\ s' = t
  /\ posn' = hash(t) /\ posn_to_use' = 0
  /\ result' = none
  /\ UNCHANGED <<table, x, oldtbl, i>>

(* Mutant: only the texts are compared.                                    *)
MatchesAnyKind(z) == z \in InUse /\ atom[z][2] = s

Matches(z) == z \in InUse /\ atom[z] = <<k, s>>

ProbeFindsVacant ==
  /\ pc = "probe"
  /\ atomtbl[posn] = vacant
  /\ posn_to_use' = posn
  /\ pc' = "record"
  /\ UNCHANGED <<table, k, s, x, posn, oldtbl, i, result>>

ProbeFindsAtom ==
  /\ pc = "probe"
  /\ Matches(atomtbl[posn])
  /\ Return(atomtbl[posn])
  /\ UNCHANGED table

(* The cell is held or holds another atom.  If the cell where the search   *)
(* began is next, the table has been searched and the program ends.        *)
ProbeOn ==
  /\ pc = "probe"
  /\ atomtbl[posn] # vacant /\ ~Matches(atomtbl[posn])
  /\ posn_to_use' = IF atomtbl[posn] = held THEN posn ELSE posn_to_use
  /\ posn' = Succ(posn)
  /\ pc' = IF Succ(posn) = hash(s) THEN "fatal" ELSE "probe"
  /\ UNCHANGED <<table, k, s, x, oldtbl, i, result>>

(* The new atom is put into the table, which may make the table too full.  *)
Record(z) ==
  /\ pc = "record"
  /\ z \in Arrays \ InUse
  /\ atom' = [y \in InUse \cup {z} |-> IF y = z THEN <<k, s>> ELSE atom[y]]
  /\ atomcnt' = IF atomtbl[posn_to_use] = vacant THEN atomcnt + 1 ELSE atomcnt
  /\ atomtbl' = [atomtbl EXCEPT ![posn_to_use] = z]
  /\ IF atomcnt' > atomtblsize \div 2 /\ ~inrehash
     THEN /\ pc' = "extend" /\ x' = z
          /\ UNCHANGED <<k, s, posn, posn_to_use, oldtbl, i, result>>
     ELSE Return(z)
  /\ UNCHANGED <<atomtblsize, inrehash>>

(* new_create_array jumps to the top level.                                *)
RecordJumps ==
  /\ pc = "record"
  /\ Return(none)
  /\ UNCHANGED table

---------------------------------------------------------------------------
(* rehash                                                                  *)

NewSize == LET n == atomtblsize + DfSize
           IN  IF n % LinAdj = 0 THEN n + 1 ELSE n

Extend ==
  /\ pc = "extend"
  /\ NewSize <= MaxSize
  /\ atomtblsize' = NewSize
  /\ atomtbl' = [c \in 0 .. NewSize - 1 |-> vacant]
  /\ oldtbl' = atomtbl
  /\ i' = 0
  /\ pc' = "move"
  /\ result' = x /\ x' = none
  /\ UNCHANGED <<atomcnt, inrehash, atom, k, s, posn, posn_to_use>>

(* The allocation of the new table jumps to the top level: inrehash stays. *)
ExtendJumps ==
  /\ pc = "extend"
  /\ inrehash' = TRUE
  /\ Return(none)
  /\ UNCHANGED <<atomtblsize, atomtbl, atomcnt, atom>>

(* Mutant: the loop does not advance over an empty cell.                   *)
MoveNextStandingStill ==
  /\ pc = "move" /\ i \in DOMAIN oldtbl
  /\ oldtbl[i] \notin {held, vacant}
  /\ i' = i + 1
  /\ x' = oldtbl[i]
  /\ posn' = hash(atom[oldtbl[i]][2])
  /\ pc' = "place"
  /\ UNCHANGED <<table, k, s, posn_to_use, oldtbl, result>>

(* The next cell of the old table.                                         *)
MoveNext ==
  /\ pc = "move" /\ i \in DOMAIN oldtbl
  /\ i' = i + 1
  /\ IF oldtbl[i] \in {held, vacant}
     THEN UNCHANGED <<pc, x, posn>>
     ELSE /\ x' = oldtbl[i]
          /\ posn' = hash(atom[oldtbl[i]][2])
          /\ pc' = "place"
  /\ UNCHANGED <<table, k, s, posn_to_use, oldtbl, result>>

(* Mutant: the next cell is tried instead of the one linadj further.       *)
PlaceOnByOne ==
  /\ pc = "place" /\ atomtbl[posn] # vacant
  /\ posn' = (posn + 1) % atomtblsize
  /\ UNCHANGED <<table, pc, k, s, x, posn_to_use, oldtbl, i, result>>

PlaceOn ==
  /\ pc = "place" /\ atomtbl[posn] # vacant
  /\ posn' = Succ(posn)
  /\ UNCHANGED <<table, pc, k, s, x, posn_to_use, oldtbl, i, result>>

Place ==
  /\ pc = "place" /\ atomtbl[posn] = vacant
  /\ atomtbl' = [atomtbl EXCEPT ![posn] = x]
  /\ pc' = "move" /\ x' = none
  /\ UNCHANGED <<atomtblsize, atomcnt, inrehash, atom, k, s, posn, posn_to_use,
                 oldtbl, i, result>>

MoveEnds ==
  /\ pc = "move" /\ i \notin DOMAIN oldtbl
  /\ Return(result)
  /\ UNCHANGED table

---------------------------------------------------------------------------
(* remove_atom, called by freeit for an atom to which nothing refers       *)

RemoveAtom(z) ==
  /\ pc = "idle" /\ z \in InUse
  /\ pc' = "find"
  /\ x' = z
  /\ posn' = hash(atom[z][2])
  /\ result' = none
  /\ UNCHANGED <<table, k, s, posn_to_use, oldtbl, i>>

FindOn ==
  /\ pc = "find" /\ atomtbl[posn] # x
  /\ posn' = Succ(posn)
  /\ UNCHANGED <<table, pc, k, s, x, posn_to_use, oldtbl, i, result>>

(* Mutant: the count goes down for a cell that stays held, too.            *)
UnlinkAlwaysCounts ==
  /\ pc = "find" /\ atomtbl[posn] = x
  /\ atom' = [y \in InUse \ {x} |-> atom[y]]
  /\ atomcnt' = atomcnt - 1
  /\ IF atomtbl[Succ(posn)] = vacant
     THEN /\ atomtbl' = [atomtbl EXCEPT ![posn] = vacant]
          /\ posn' = Pred(posn)
          /\ pc' = "vacate" /\ x' = none
          /\ UNCHANGED <<k, s, posn_to_use, oldtbl, i, result>>
     ELSE /\ atomtbl' = [atomtbl EXCEPT ![posn] = held]
          /\ Return(none)
  /\ UNCHANGED <<atomtblsize, inrehash>>

(* The cell stays held if the next one is not vacant: a chain may go on.   *)
Unlink ==
  /\ pc = "find" /\ atomtbl[posn] = x
  /\ atom' = [y \in InUse \ {x} |-> atom[y]]
  /\ IF atomtbl[Succ(posn)] = vacant
     THEN /\ atomtbl' = [atomtbl EXCEPT ![posn] = vacant]
          /\ atomcnt' = atomcnt - 1
          /\ posn' = Pred(posn)
          /\ pc' = "vacate" /\ x' = none
          /\ UNCHANGED <<k, s, posn_to_use, oldtbl, i, result>>
     ELSE /\ atomtbl' = [atomtbl EXCEPT ![posn] = held]
          /\ Return(none)
          /\ UNCHANGED atomcnt
  /\ UNCHANGED <<atomtblsize, inrehash>>

(* The held cells in front of a cell that has become vacant.               *)
VacateOn ==
  /\ pc = "vacate" /\ atomtbl[posn] = held
  /\ atomtbl' = [atomtbl EXCEPT ![posn] = vacant]
  /\ atomcnt' = atomcnt - 1
  /\ posn' = Pred(posn)
  /\ UNCHANGED <<atomtblsize, inrehash, atom, pc, k, s, x, posn_to_use, oldtbl,
                 i, result>>

VacateEnds ==
  /\ pc = "vacate" /\ atomtbl[posn] # held
  /\ Return(none)
  /\ UNCHANGED table

---------------------------------------------------------------------------
Running ==
  \/ ProbeFindsVacant \/ ProbeFindsAtom \/ ProbeOn
  \/ \E z \in Arrays : Record(z)
  \/ RecordJumps
  \/ Extend \/ ExtendJumps \/ MoveNext \/ PlaceOn \/ Place \/ MoveEnds
  \/ FindOn \/ Unlink \/ VacateOn \/ VacateEnds

Next ==
  \/ \E kk \in Kinds, t \in Texts : CreateAtom(kk, t)
  \/ \E z \in InUse : RemoveAtom(z)
  \/ Running

Spec == Init /\ [][Next]_vars
FairSpec == Spec /\ WF_vars(Running)

---------------------------------------------------------------------------
(* Properties                                                              *)

Marks  == {vacant, held}

(* The variables keep their types; in particular the table always has      *)
(* atomtblsize cells, before, during and after rehash.                     *)
TypeOK ==
  /\ atomtblsize \in Nat
  /\ atomtbl \in [Cells -> Arrays \cup Marks]
  /\ atomcnt \in Int
  /\ inrehash \in BOOLEAN
  /\ DOMAIN atom \subseteq Arrays /\ atom \in [DOMAIN atom -> Kinds \X Texts]
  /\ pc \in {"idle", "probe", "record", "extend", "move", "place", "find",
             "vacate", "fatal"}
  /\ k \in Kinds \cup {none} /\ s \in Texts \cup {none}
  /\ x \in Arrays \cup {none} /\ result \in Arrays \cup {none}
  /\ posn \in Cells /\ posn_to_use \in Cells
  /\ i \in Nat

(* createatom never makes a second array for a kind and text that an array *)
(* in use has: equal atoms are compared by reference everywhere else.      *)
OneArrayPerAtom == \A y, z \in InUse : atom[y] = atom[z] => y = z

(* Path(h, c): the cells a search that starts in h looks at before it      *)
(* comes to c for the first time.                                          *)
Path(h, c) ==
  LET At(n) == (h + n * LinAdj) % atomtblsize
      d     == CHOOSE d \in Cells : At(d) = c /\ \A e \in 0 .. d - 1 : At(e) # c
  IN  {At(n) : n \in 0 .. d - 1}

(* Between two calls the table refers to exactly the arrays in use, each   *)
(* once, and a search that starts at the hash of an array's text comes to  *)
(* its cell without meeting a vacant one, whatever was removed or rehashed *)
(* before.                                                                 *)
AtomsReachable ==
  pc = "idle" =>
    /\ \A c \in Cells : atomtbl[c] \in InUse \cup Marks
    /\ \A z \in InUse : \E c \in Cells :
         /\ \A d \in Cells : atomtbl[d] = z <=> d = c
         /\ \A d \in Path(hash(atom[z][2]), c) : atomtbl[d] # vacant

(* remove_atom leaves no held cell in front of a vacant one: held cells    *)
(* are given back as soon as no chain needs them.                          *)
NoIdleHeld ==
  pc = "idle" => \A c \in Cells : atomtbl[c] = held => atomtbl[Succ(c)] # vacant

Occupied == {c \in Cells : atomtbl[c] # vacant}

(* atomcnt never falls below the number of cells that are not vacant, and  *)
(* unless an attempt to rehash has failed the table is at most half full   *)
(* between calls, so that every search meets a vacant cell.                *)
CountCovers ==
  pc = "idle" =>
    /\ Cardinality(Occupied) <= atomcnt
    /\ ~inrehash => atomcnt <= atomtblsize \div 2

(* Every call of createatom and remove_atom ends: no search of the table   *)
(* goes round for ever.                                                    *)
CallsEnd == pc # "idle" ~> pc \in {"idle", "fatal"}

(* The table implements the abstract interning of atoms.  A call that has  *)
(* come to the moving of the atoms has its answer already.                 *)
Intern == INSTANCE AtomTableAbs
            WITH Keys <- Kinds \X Texts,
                 call <- IF pc \in {"probe", "record", "extend", "fatal"}
                         THEN <<k, s>> ELSE none
ImplementsAtomTableAbs == Intern!Spec

=============================================================================
