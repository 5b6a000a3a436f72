-------------------------- MODULE AtomTableProofs --------------------------
(***************************************************************************)
(* Proofs about AtomTable for every size, text and order of calls.         *)
(*                                                                         *)
(* The idea: an atom is found because of its chain, the cells that a       *)
(* search which starts at its hash meets on the way: none of them is       *)
(* vacant.  A cell that becomes vacant is followed by a vacant cell, so it *)
(* lies on no chain.                                                       *)
(***************************************************************************)
EXTENDS AtomTable, SetLemmas, FiniteSetTheorems, TLAPS

At(n, h, m) == (h + m * LinAdj) % n

Linked(T, n, h, c) ==
  /\ n \in Nat \ {0} /\ h \in 0 .. n - 1
  /\ \E m \in Nat : At(n, h, m) = c /\ \A j \in 0 .. m - 1 : T[At(n, h, j)] # vacant

(* Atom z waits to be moved to the new table.                              *)
Waits(z) ==
  \/ pc = "place" /\ z = x
  \/ pc \in {"move", "place"} /\ \E j \in DOMAIN oldtbl : j >= i /\ oldtbl[j] = z

Sizes == atomtblsize \in Nat /\ DfSize <= atomtblsize

Control ==
  /\ pc \in {"probe", "record", "extend", "fatal"} => k \in Kinds /\ s \in Texts
  /\ pc \in {"extend", "place", "find"} => x \in InUse
  /\ pc = "extend" => atom[x] = <<k, s>>
  /\ pc \notin {"idle", "move", "place"} => result = none

Entries ==
  /\ \A c \in Cells : atomtbl[c] \in InUse \cup Marks
  /\ \A c, d \in Cells : atomtbl[c] = atomtbl[d] /\ atomtbl[c] \notin Marks => c = d

OldEntries ==
  pc \in {"move", "place"} =>
    /\ \E n \in Nat : DOMAIN oldtbl = 0 .. n - 1
    /\ \A j \in DOMAIN oldtbl : oldtbl[j] \in InUse \cup Marks
    /\ \A j, l \in DOMAIN oldtbl :
         oldtbl[j] = oldtbl[l] /\ oldtbl[j] \notin Marks => j = l
    /\ \A j \in DOMAIN oldtbl : j >= i /\ oldtbl[j] \notin Marks =>
         /\ \A c \in Cells : atomtbl[c] # oldtbl[j]
         /\ pc = "place" => oldtbl[j] # x

ToPlace == pc = "place" => \A c \in Cells : atomtbl[c] # x

AllPlaced ==
  \A z \in InUse :
    \/ Waits(z)
    \/ \E c \in Cells :
         atomtbl[c] = z /\ Linked(atomtbl, atomtblsize, hash(atom[z][2]), c)

Visiting ==
  /\ pc \in {"probe", "record"} => Linked(atomtbl, atomtblsize, hash(s), posn)
  /\ pc = "place" => Linked(atomtbl, atomtblsize, hash(atom[x][2]), posn)

(* While createatom searches, the atom is still ahead if there is one.     *)
Searching ==
  pc \in {"probe", "record"} =>
    \A z \in InUse : atom[z] = <<k, s>> =>
      /\ pc = "probe"
      /\ \E c \in Cells : atomtbl[c] = z /\ Linked(atomtbl, atomtblsize, posn, c)

Recording == pc = "record" => posn_to_use = posn /\ atomtbl[posn] = vacant

Finding ==
  pc = "find" =>
    \E c \in Cells : atomtbl[c] = x /\ Linked(atomtbl, atomtblsize, posn, c)

Vacating == pc = "vacate" => atomtbl[Succ(posn)] = vacant

HeldFollowed ==
  \A c \in Cells : atomtbl[c] = held =>
    atomtbl[Succ(c)] # vacant \/ (pc = "vacate" /\ c = posn)

IInv ==
  /\ TypeOK /\ Sizes /\ Control
  /\ Entries /\ OldEntries /\ ToPlace
  /\ AllPlaced /\ OneArrayPerAtom
  /\ Visiting /\ Searching /\ Recording /\ Finding
  /\ Vacating /\ HeldFollowed

---------------------------------------------------------------------------
(* Arithmetic of the cells                                                 *)

LEMMA ModRange == ASSUME NEW a \in Int, NEW n \in Nat \ {0} PROVE a % n \in 0 .. n - 1
BY Z3

LEMMA ModSmall == ASSUME NEW a \in Nat, NEW n \in Nat, a < n PROVE a % n = a
BY Z3

LEMMA ModOnce ==
  ASSUME NEW a \in Nat, NEW n \in Nat, n <= a, a < 2 * n PROVE a % n = a - n
BY Z3

LEMMA Wrap ==
  ASSUME NEW n \in Nat, NEW a \in Nat, a < 2 * n
  PROVE  a % n = IF a < n THEN a ELSE a - n
<1>1. CASE a < n BY <1>1, ModSmall
<1>2. CASE ~(a < n)
  <2>1. n <= a BY <1>2
  <2>2. a % n = a - n BY <2>1, ModOnce
  <2> QED BY <1>2, <2>2
<1> QED BY <1>1, <1>2

(* The next and the previous cell are cells, and each undoes the other.    *)
LEMMA Around ==
  ASSUME Sizes, NEW c \in Cells
  PROVE  /\ Succ(c) \in Cells /\ Pred(c) \in Cells
         /\ Succ(Pred(c)) = c /\ Pred(Succ(c)) = c
         /\ Succ(c) # c
<1> DEFINE n == atomtblsize
<1>1. n \in Nat /\ LinAdj \in Nat /\ 0 < LinAdj /\ LinAdj < n /\ c \in 0 .. n - 1
  BY AtomTableConstants DEF Sizes, Cells
<1>2. \A d \in 0 .. n - 1 : Succ(d) = (d + LinAdj) % n /\ Pred(d) = ((d + n) - LinAdj) % n
  BY DEF Succ, Pred
<1> HIDE DEF n
<1>3. ASSUME NEW d \in 0 .. n - 1
      PROVE  Succ(d) = IF d + LinAdj < n THEN d + LinAdj ELSE d + LinAdj - n
  <2> DEFINE a == d + LinAdj
  <2>1. a \in Nat /\ a < 2 * n BY <1>1
  <2>2. Succ(d) = a % n BY <1>2
  <2> HIDE DEF a
  <2>3. a % n = IF a < n THEN a ELSE a - n BY <1>1, <2>1, Wrap
  <2>4. Succ(d) = IF a < n THEN a ELSE a - n BY <2>2, <2>3
  <2> QED BY <1>1, <2>4 DEF a
<1>4. ASSUME NEW d \in 0 .. n - 1
      PROVE  Pred(d) = IF d < LinAdj THEN d + n - LinAdj ELSE d - LinAdj
  <2>1. (d + n) - LinAdj \in Nat /\ (d + n) - LinAdj < 2 * n BY <1>1
  <2>2. Pred(d) = IF (d + n) - LinAdj < n THEN (d + n) - LinAdj ELSE (d + n) - LinAdj - n
    BY <1>1, <1>2, <2>1, Wrap
  <2> QED BY <1>1, <2>2
<1>5. Succ(c) \in 0 .. n - 1 /\ Succ(c) # c BY <1>1, <1>3
<1>6. Pred(c) \in 0 .. n - 1 BY <1>1, <1>4
<1>7. Pred(Succ(c)) = c BY <1>1, <1>3, <1>4, <1>5
<1>8. Succ(Pred(c)) = c BY <1>1, <1>3, <1>4, <1>6
<1> QED BY <1>5, <1>6, <1>7, <1>8 DEF Cells, n

LEMMA HashInTable == ASSUME Sizes, NEW t \in Texts PROVE hash(t) \in Cells
<1>1. HashSum[t] \in Int /\ atomtblsize \in Nat \ {0}
  BY AtomTableConstants DEF Sizes
<1> QED BY <1>1, ModRange DEF hash, Cells

---------------------------------------------------------------------------
(* Chains                                                                  *)

(* The steps of a search.                                                  *)
LEMMA AtSteps ==
  ASSUME NEW n \in Nat \ {0}, NEW h \in 0 .. n - 1, NEW m \in Nat
  PROVE  /\ At(n, h, m) \in 0 .. n - 1
         /\ At(n, h, 0) = h
         /\ At(n, h, m + 1) = (At(n, h, m) + LinAdj) % n
         /\ At(n, h, m + 1) = At(n, (h + LinAdj) % n, m)
         /\ At(n, h, m + n) = At(n, h, m)
<1>1. LinAdj \in Nat BY AtomTableConstants
<1>2. PICK p \in Nat : p = m * LinAdj BY <1>1
<1>3. (m + 1) * LinAdj = p + LinAdj
  <2>1. (m + 1) * LinAdj = m * LinAdj + LinAdj BY <1>1
  <2> QED BY <1>2, <2>1
<1>4. h \in Nat /\ h + p \in Nat /\ h + LinAdj \in Nat BY <1>1
<1>5. ((h + p) % n) \in 0 .. n - 1 /\ (((h + p) % n) + LinAdj) % n = ((h + p) + LinAdj) % n
  BY <1>1, <1>4, ModSum
<1>6. (((h + LinAdj) % n) + p) % n = ((h + LinAdj) + p) % n BY <1>2, <1>4, ModSum
<1>7. (h + p) + LinAdj = h + (p + LinAdj) /\ (h + LinAdj) + p = h + (p + LinAdj) BY <1>1, <1>2, <1>4
<1>8. At(n, h, 0) = h
  <2>1. h + 0 * LinAdj = h BY <1>1, <1>4
  <2>2. h % n = h BY <1>4, ModSmall
  <2> QED BY <2>1, <2>2 DEF At
<1>9. At(n, h, m + n) = At(n, h, m)
  <2>1. (m + n) * LinAdj = m * LinAdj + n * LinAdj BY <1>1
  <2>2. PICK q \in Nat : q = n * LinAdj BY <1>1
  <2>3. h + (m + n) * LinAdj = (h + p) + n * LinAdj BY <1>2, <1>4, <2>1, <2>2
  <2>4. ((h + p) + n * LinAdj) % n = (h + p) % n BY <1>1, <1>4, ModRound
  <2> QED BY <1>2, <2>3, <2>4 DEF At
<1> QED BY <1>2, <1>3, <1>5, <1>6, <1>7, <1>8, <1>9 DEF At

LEMMA LinkedSelf ==
  ASSUME NEW T, NEW n \in Nat, NEW c \in 0 .. n - 1 PROVE Linked(T, n, c, c)
<1>1. n \in Nat \ {0} OBVIOUS
<1>2. At(n, c, 0) = c BY <1>1, AtSteps
<1>3. \A j \in 0 .. 0 - 1 : T[At(n, c, j)] # vacant OBVIOUS
<1> QED BY <1>1, <1>2, <1>3 DEF Linked

(* A search that goes on from a cell that is not vacant.                   *)
LEMMA LinkedOn ==
  ASSUME NEW T, NEW n, NEW h, NEW c, Linked(T, n, h, c), T[c] # vacant,
         NEW e \in 0 .. n - 1, e = (c + LinAdj) % n
  PROVE  Linked(T, n, h, e)
<1>1. n \in Nat \ {0} /\ h \in 0 .. n - 1 BY DEF Linked
<1>2. PICK m \in Nat : At(n, h, m) = c /\ \A j \in 0 .. m - 1 : T[At(n, h, j)] # vacant BY DEF Linked
<1>3. m + 1 \in Nat /\ At(n, h, m + 1) = e BY <1>1, <1>2, AtSteps
<1>4. ASSUME NEW j \in 0 .. (m + 1) - 1 PROVE T[At(n, h, j)] # vacant
  <2>1. j = m \/ j \in 0 .. m - 1 OBVIOUS
  <2> QED BY <1>2, <2>1
<1> QED BY <1>1, <1>3, <1>4 DEF Linked

LEMMA LinkedNext ==
  ASSUME NEW T, NEW n, NEW h, NEW c, Linked(T, n, h, c), h # c
  PROVE  T[h] # vacant /\ Linked(T, n, (h + LinAdj) % n, c)
<1>1. n \in Nat \ {0} /\ h \in 0 .. n - 1 BY DEF Linked
<1>2. PICK m \in Nat : At(n, h, m) = c /\ \A j \in 0 .. m - 1 : T[At(n, h, j)] # vacant BY DEF Linked
<1>3. At(n, h, 0) = h BY <1>1, AtSteps
<1>4. m # 0 BY <1>2, <1>3
<1>5. PICK l \in Nat : m = l + 1
  <2>1. m - 1 \in Nat /\ m = (m - 1) + 1 BY <1>4
  <2> QED BY <2>1
<1>6. T[h] # vacant
  <2>1. 0 \in 0 .. m - 1 BY <1>4
  <2> QED BY <1>2, <1>3, <2>1
<1>7. PICK g : g = (h + LinAdj) % n OBVIOUS
<1>8. g \in 0 .. n - 1 BY <1>1, <1>3, <1>7, AtSteps
<1>9. \A j \in Nat : At(n, h, j + 1) = At(n, g, j) BY <1>1, <1>7, AtSteps
<1>10. At(n, g, l) = c BY <1>2, <1>5, <1>9
<1>11. ASSUME NEW j \in 0 .. l - 1 PROVE T[At(n, g, j)] # vacant
  <2>1. j \in Nat /\ j + 1 \in 0 .. m - 1 BY <1>5
  <2> QED BY <1>2, <1>9, <2>1
<1> QED BY <1>1, <1>6, <1>7, <1>8, <1>10, <1>11 DEF Linked

(* A chain stays one when cells of the table come into use.                *)
LEMMA LinkedGrow ==
  ASSUME NEW T, NEW U, NEW n, NEW h, NEW c, Linked(T, n, h, c),
         \A d \in 0 .. n - 1 : T[d] # vacant => U[d] # vacant
  PROVE  Linked(U, n, h, c)
<1>1. n \in Nat \ {0} /\ h \in 0 .. n - 1 BY DEF Linked
<1>2. PICK m \in Nat : At(n, h, m) = c /\ \A j \in 0 .. m - 1 : T[At(n, h, j)] # vacant BY DEF Linked
<1>3. ASSUME NEW j \in 0 .. m - 1 PROVE U[At(n, h, j)] # vacant
  <2>1. j \in Nat OBVIOUS
  <2>2. At(n, h, j) \in 0 .. n - 1 BY <1>1, <2>1, AtSteps
  <2> QED BY <1>2, <2>2
<1> QED BY <1>1, <1>2, <1>3 DEF Linked

(* It stays one when a cell in front of a vacant cell is vacated.          *)
LEMMA LinkedVacate ==
  ASSUME NEW T, NEW U, NEW n, NEW h, NEW c, Linked(T, n, h, c), T[c] # vacant,
         NEW v, v # c, NEW w, w = (v + LinAdj) % n, T[w] = vacant,
         \A d \in 0 .. n - 1 : d # v => U[d] = T[d]
  PROVE  Linked(U, n, h, c)
<1>1. n \in Nat \ {0} /\ h \in 0 .. n - 1 BY DEF Linked
<1>2. PICK m \in Nat : At(n, h, m) = c /\ \A j \in 0 .. m - 1 : T[At(n, h, j)] # vacant BY DEF Linked
<1>3. ASSUME NEW j \in 0 .. m - 1 PROVE U[At(n, h, j)] # vacant
  <2>1. j \in Nat /\ (j + 1 = m \/ j + 1 \in 0 .. m - 1) OBVIOUS
  <2>2. At(n, h, j) \in 0 .. n - 1 /\ At(n, h, j + 1) = (At(n, h, j) + LinAdj) % n BY <1>1, <2>1, AtSteps
  <2>3. T[At(n, h, j + 1)] # vacant BY <1>2, <2>1
  <2>4. At(n, h, j) # v BY <2>2, <2>3
  <2> QED BY <1>2, <2>2, <2>4
<1> QED BY <1>1, <1>2, <1>3 DEF Linked

(* Putting an array into a vacant cell changes no other cell.              *)
LEMMA PutFacts ==
  ASSUME IInv, NEW c \in Cells, NEW v \in Arrays \cup Marks,
         atomtbl' = [atomtbl EXCEPT ![c] = v], atomtblsize' = atomtblsize
  PROVE  /\ Cells' = Cells
         /\ atomtbl' \in [Cells -> Arrays \cup Marks]
         /\ atomtbl'[c] = v
         /\ \A d \in Cells : d # c => atomtbl'[d] = atomtbl[d]
BY DEF IInv, TypeOK, Cells

---------------------------------------------------------------------------
(* The calls that leave the table as it is                                 *)

LEMMA InitIInv == Init => IInv
<1> SUFFICES ASSUME Init PROVE IInv OBVIOUS
<1> USE AtomTableConstants DEF Init
<1>1. TypeOK BY AtomTableMarks DEF TypeOK, Cells, Marks
<1>2. Sizes /\ Control BY DEF Sizes, Control
<1>3. Entries /\ OldEntries /\ ToPlace
  BY DEF Entries, OldEntries, ToPlace, Cells, Marks
<1>4. AllPlaced /\ OneArrayPerAtom BY DEF AllPlaced, OneArrayPerAtom, InUse
<1>5. Visiting /\ Searching /\ Recording /\ Finding /\ Vacating
  BY DEF Visiting, Searching, Recording, Finding, Vacating
<1>6. HeldFollowed
  <2>1. \A c \in Cells : atomtbl[c] = vacant BY DEF Cells
  <2> QED BY <2>1, AtomTableMarks DEF HeldFollowed
<1> QED BY <1>1, <1>2, <1>3, <1>4, <1>5, <1>6 DEF IInv

(* A call returns without having changed the table.                        *)
LEMMA Returns ==
  ASSUME IInv, NEW r \in Arrays \cup {none}, Return(r),
         UNCHANGED <<atomtblsize, atomtbl, atom>>,
         inrehash' \in BOOLEAN, atomcnt' \in Int,
         \A z \in InUse : ~Waits(z),
         \A c \in Cells : atomtbl[c] = held => atomtbl[Succ(c)] # vacant
  PROVE  IInv'
<1> USE DEF Return
<1>1. TypeOK'
  BY AtomTableConstants DEF IInv, TypeOK, Sizes, Cells
<1>2. Sizes' /\ Control' /\ Entries' /\ OldEntries' /\ ToPlace' /\ OneArrayPerAtom'
  BY DEF IInv, Sizes, Control, Entries, OldEntries, ToPlace, OneArrayPerAtom, InUse, Cells
<1>3. AllPlaced'
  BY DEF IInv, AllPlaced, InUse, Cells, hash
<1>4. Visiting' /\ Searching' /\ Recording' /\ Finding' /\ Vacating'
  BY DEF Visiting, Searching, Recording, Finding, Vacating
<1>5. HeldFollowed'
  BY DEF HeldFollowed, Cells, Succ
<1> QED BY <1>1, <1>2, <1>3, <1>4, <1>5 DEF IInv

(* Outside rehash nothing waits; outside remove_atom every held cell is    *)
(* followed by a cell that is not vacant.                                  *)
LEMMA Settled ==
  ASSUME IInv
  PROVE  /\ pc \notin {"move", "place"} => \A z \in InUse : ~Waits(z)
         /\ pc # "vacate" => \A c \in Cells : atomtbl[c] = held => atomtbl[Succ(c)] # vacant
BY DEF IInv, Waits, HeldFollowed

LEMMA ProbeFindsAtomStep == ASSUME IInv, ProbeFindsAtom PROVE IInv'
<1>1. atomtbl[posn] \in Arrays BY DEF IInv, TypeOK, ProbeFindsAtom, Matches, InUse
<1> QED BY <1>1, Settled, Returns DEF IInv, TypeOK, ProbeFindsAtom, table

LEMMA RecordJumpsStep == ASSUME IInv, RecordJumps PROVE IInv'
BY Settled, Returns DEF IInv, TypeOK, RecordJumps, table

LEMMA ExtendJumpsStep == ASSUME IInv, ExtendJumps PROVE IInv'
BY Settled, Returns DEF IInv, TypeOK, ExtendJumps

LEMMA MoveEndsStep == ASSUME IInv, MoveEnds PROVE IInv'
<1>1. \A z \in InUse : ~Waits(z)
  <2>1. PICK n \in Nat : DOMAIN oldtbl = 0 .. n - 1 BY DEF IInv, OldEntries, MoveEnds
  <2>2. \A j \in DOMAIN oldtbl : ~(j >= i) BY <2>1 DEF IInv, TypeOK, MoveEnds
  <2> QED BY <2>2 DEF Waits, MoveEnds
<1> QED BY <1>1, Settled, Returns DEF IInv, TypeOK, MoveEnds, table

LEMMA VacateEndsStep == ASSUME IInv, VacateEnds PROVE IInv'
<1>1. \A c \in Cells : atomtbl[c] = held => atomtbl[Succ(c)] # vacant
  BY DEF IInv, HeldFollowed, VacateEnds
<1> QED BY <1>1, Settled, Returns DEF IInv, TypeOK, VacateEnds, table

(* A step inside a call that leaves the table as it is: what is to be      *)
(* shown for the new control state.                                        *)
LEMMA Quiet ==
  ASSUME IInv, UNCHANGED table, TypeOK', Control', OldEntries', ToPlace',
         \A z \in InUse : Waits(z) => Waits(z)', pc # "vacate",
         Visiting', Searching', Recording', Finding', Vacating'
  PROVE  IInv'
<1>1. Sizes' /\ Entries' /\ OneArrayPerAtom'
  BY DEF IInv, Sizes, Entries, OneArrayPerAtom, InUse, Cells, table
<1>2. AllPlaced'
  BY DEF IInv, AllPlaced, InUse, Cells, hash, table
<1>3. HeldFollowed'
  BY DEF IInv, HeldFollowed, Cells, Succ, table
<1> QED BY <1>1, <1>2, <1>3 DEF IInv

LEMMA CreateAtomStep ==
  ASSUME IInv, NEW kk \in Kinds, NEW t \in Texts, CreateAtom(kk, t)
  PROVE  IInv'
<1> USE DEF CreateAtom, table
<1>1. hash(t) \in Cells BY HashInTable DEF IInv
<1>2. TypeOK' BY <1>1, AtomTableConstants DEF IInv, TypeOK, Sizes, Cells
<1>3. Control' /\ OldEntries' /\ ToPlace' BY DEF Control, OldEntries, ToPlace
<1>4. Visiting'
  <2>1. Linked(atomtbl, atomtblsize, hash(t), hash(t)) BY <1>1, LinkedSelf DEF IInv, Sizes, Cells
  <2> QED BY <2>1 DEF Visiting, hash
<1>5. Searching'
  <2> SUFFICES ASSUME NEW z \in InUse, atom[z] = <<kk, t>>
               PROVE  \E c \in Cells :
                        atomtbl[c] = z /\ Linked(atomtbl, atomtblsize, hash(t), c)
    BY DEF Searching, InUse, Cells
  <2> QED BY Settled DEF IInv, AllPlaced
<1>6. Recording' /\ Finding' /\ Vacating' BY DEF Recording, Finding, Vacating
<1>7. \A z \in InUse : Waits(z) => Waits(z)' BY Settled
<1> QED BY <1>2, <1>3, <1>4, <1>5, <1>6, <1>7, Quiet

LEMMA ProbeFindsVacantStep == ASSUME IInv, ProbeFindsVacant PROVE IInv'
<1> USE DEF ProbeFindsVacant, table
<1>1. TypeOK' BY DEF IInv, TypeOK, Cells
<1>2. Control' /\ OldEntries' /\ ToPlace' BY DEF IInv, Control, OldEntries, ToPlace, InUse
<1>3. Visiting' BY DEF IInv, Visiting, hash
<1>4. \A z \in InUse : atom[z] # <<k, s>>
  <2> SUFFICES ASSUME NEW z \in InUse, atom[z] = <<k, s>> PROVE FALSE OBVIOUS
  <2>1. PICK c \in Cells : atomtbl[c] = z /\ Linked(atomtbl, atomtblsize, posn, c)
    BY DEF IInv, Searching
  <2>2. z # vacant BY AtomTableMarks DEF IInv, TypeOK, InUse
  <2> QED BY <2>1, <2>2, LinkedNext
<1>5. Searching' BY <1>4 DEF Searching, InUse
<1>6. Recording' /\ Finding' /\ Vacating' BY DEF Recording, Finding, Vacating
<1>7. \A z \in InUse : Waits(z) => Waits(z)' BY Settled
<1> QED BY <1>1, <1>2, <1>3, <1>5, <1>6, <1>7, Quiet

LEMMA ProbeOnStep == ASSUME IInv, ProbeOn PROVE IInv'
<1> USE DEF ProbeOn, table
<1>1. Succ(posn) \in Cells BY Around DEF IInv, TypeOK
<1>2. TypeOK' BY <1>1 DEF IInv, TypeOK, Cells
<1>3. Control' /\ OldEntries' /\ ToPlace' BY DEF IInv, Control, OldEntries, ToPlace, InUse
<1>4. Visiting'
  <2>1. Linked(atomtbl, atomtblsize, hash(s), Succ(posn))
    BY <1>1, LinkedOn DEF IInv, Visiting, Succ, Cells
  <2> QED BY <2>1 DEF Visiting, hash
<1>5. Searching'
  <2> SUFFICES ASSUME NEW z \in InUse, atom[z] = <<k, s>>
               PROVE  \E c \in Cells :
                        atomtbl[c] = z /\ Linked(atomtbl, atomtblsize, Succ(posn), c)
    BY DEF Searching, InUse, Cells
  <2>1. PICK c \in Cells : atomtbl[c] = z /\ Linked(atomtbl, atomtblsize, posn, c)
    BY DEF IInv, Searching
  <2>2. posn # c BY <2>1 DEF Matches
  <2> QED BY <2>1, <2>2, LinkedNext DEF Succ
<1>6. Recording' /\ Finding' /\ Vacating' BY DEF Recording, Finding, Vacating
<1>7. \A z \in InUse : Waits(z) => Waits(z)' BY Settled
<1> QED BY <1>2, <1>3, <1>4, <1>5, <1>6, <1>7, Quiet

LEMMA MoveNextStep == ASSUME IInv, MoveNext PROVE IInv'
<1> USE DEF MoveNext, table
<1>1. PICK n \in Nat : DOMAIN oldtbl = 0 .. n - 1 BY DEF IInv, OldEntries
<1>2. oldtbl[i] \in InUse \cup Marks BY DEF IInv, OldEntries
<1>3. CASE oldtbl[i] \in Marks
  <2>1. TypeOK' BY <1>3 DEF IInv, TypeOK, Cells, Marks
  <2>2. Control' /\ ToPlace' /\ OldEntries'
    BY <1>1, <1>3 DEF IInv, TypeOK, Control, ToPlace, OldEntries, InUse, Marks, Cells
  <2>3. \A z \in InUse : Waits(z) => Waits(z)'
    <3>1. InUse \cap Marks = {} BY AtomTableMarks DEF IInv, TypeOK, InUse, Marks
    <3> QED BY <1>1, <1>3, <3>1 DEF IInv, TypeOK, Waits, Marks
  <2>4. Visiting' /\ Searching' /\ Recording' /\ Finding' /\ Vacating'
    BY <1>3 DEF Visiting, Searching, Recording, Finding, Vacating, Marks
  <2> QED BY <2>1, <2>2, <2>3, <2>4, Quiet
<1>4. CASE oldtbl[i] \notin Marks
  <2>1. /\ oldtbl[i] \in InUse /\ x' = oldtbl[i] /\ pc' = "place"
        /\ posn' = hash(atom[oldtbl[i]][2])
    BY <1>2, <1>4 DEF Marks
  <2>2. atom[oldtbl[i]][2] \in Texts BY <2>1 DEF IInv, TypeOK, InUse
  <2>3. posn' \in Cells BY <2>1, <2>2, HashInTable DEF IInv
  <2>4. TypeOK' BY <2>1, <2>3 DEF IInv, TypeOK, Cells, InUse
  <2>5. Control' BY <2>1 DEF Control, InUse
  <2>6. ToPlace' BY <1>1, <1>4, <2>1 DEF IInv, TypeOK, ToPlace, OldEntries, Cells
  <2>7. OldEntries'
    BY <1>1, <1>4, <2>1 DEF IInv, TypeOK, OldEntries, InUse, Marks, Cells
  <2>8. \A z \in InUse : Waits(z) => Waits(z)'
    BY <1>1, <2>1 DEF IInv, TypeOK, Waits
  <2>9. Visiting'
    <3>1. Linked(atomtbl, atomtblsize, posn', posn') BY <2>3, LinkedSelf DEF IInv, Sizes, Cells
    <3> QED BY <2>1, <3>1 DEF Visiting, hash
  <2>10. Searching' /\ Recording' /\ Finding' /\ Vacating'
    BY <2>1 DEF Searching, Recording, Finding, Vacating
  <2> QED BY <2>4, <2>5, <2>6, <2>7, <2>8, <2>9, <2>10, Quiet
<1> QED BY <1>3, <1>4

LEMMA PlaceOnStep == ASSUME IInv, PlaceOn PROVE IInv'
<1> USE DEF PlaceOn, table
<1>1. Succ(posn) \in Cells BY Around DEF IInv, TypeOK
<1>2. TypeOK' BY <1>1 DEF IInv, TypeOK, Cells
<1>3. Control' /\ OldEntries' /\ ToPlace'
  BY DEF IInv, Control, OldEntries, ToPlace, InUse, Cells, Marks
<1>4. Visiting'
  <2>1. Linked(atomtbl, atomtblsize, hash(atom[x][2]), Succ(posn))
    BY <1>1, LinkedOn DEF IInv, Visiting, Succ, Cells
  <2> QED BY <2>1 DEF Visiting, hash
<1>5. Searching' /\ Recording' /\ Finding' /\ Vacating'
  BY DEF Searching, Recording, Finding, Vacating
<1>6. \A z \in InUse : Waits(z) => Waits(z)' BY DEF Waits
<1> QED BY <1>2, <1>3, <1>4, <1>5, <1>6, Quiet

LEMMA RemoveAtomStep ==
  ASSUME IInv, NEW z \in InUse, RemoveAtom(z)
  PROVE  IInv'
<1> USE DEF RemoveAtom, table
<1>1. z \in Arrays /\ atom[z][2] \in Texts BY DEF IInv, TypeOK, InUse
<1>2. hash(atom[z][2]) \in Cells BY <1>1, HashInTable DEF IInv
<1>3. TypeOK' BY <1>1, <1>2 DEF IInv, TypeOK, Cells
<1>4. Control' /\ OldEntries' /\ ToPlace' BY DEF Control, OldEntries, ToPlace, InUse
<1>5. Finding'
  <2>1. \E c \in Cells :
          atomtbl[c] = z /\ Linked(atomtbl, atomtblsize, hash(atom[z][2]), c)
    BY Settled DEF IInv, AllPlaced
  <2> QED BY <2>1 DEF Finding, Cells
<1>6. Visiting' /\ Searching' /\ Recording' /\ Vacating'
  BY DEF Visiting, Searching, Recording, Vacating
<1>7. \A y \in InUse : Waits(y) => Waits(y)' BY Settled
<1> QED BY <1>3, <1>4, <1>5, <1>6, <1>7, Quiet

LEMMA FindOnStep == ASSUME IInv, FindOn PROVE IInv'
<1> USE DEF FindOn, table
<1>1. Succ(posn) \in Cells BY Around DEF IInv, TypeOK
<1>2. TypeOK' BY <1>1 DEF IInv, TypeOK, Cells
<1>3. Control' /\ OldEntries' /\ ToPlace'
  BY DEF IInv, Control, OldEntries, ToPlace, InUse
<1>4. Finding'
  <2>1. PICK c \in Cells : atomtbl[c] = x /\ Linked(atomtbl, atomtblsize, posn, c)
    BY DEF IInv, Finding
  <2>2. Linked(atomtbl, atomtblsize, Succ(posn), c) BY <2>1, LinkedNext DEF Succ
  <2> QED BY <2>1, <2>2 DEF Finding, Cells
<1>5. Visiting' /\ Searching' /\ Recording' /\ Vacating'
  BY DEF Visiting, Searching, Recording, Vacating
<1>6. \A z \in InUse : Waits(z) => Waits(z)' BY DEF Waits
<1> QED BY <1>2, <1>3, <1>4, <1>5, <1>6, Quiet

---------------------------------------------------------------------------
(* The steps that change the table                                         *)

(* An array that is not in the table is put into a vacant cell, the end of *)
(* the chain that starts at its hash.                                      *)
LEMMA Puts ==
  ASSUME IInv, NEW c \in Cells, atomtbl[c] = vacant,
         NEW z \in Arrays, \A d \in Cells : atomtbl[d] # z,
         atomtbl' = [atomtbl EXCEPT ![c] = z], atomtblsize' = atomtblsize,
         InUse \subseteq InUse', z \in InUse', InUse' \subseteq InUse \cup {z},
         \A y \in InUse : atom'[y] = atom[y],
         Linked(atomtbl, atomtblsize, hash(atom'[z][2]), c),
         \A y \in InUse \ {z} : Waits(y) => Waits(y)', pc # "vacate"
  PROVE  Sizes' /\ Entries' /\ AllPlaced' /\ HeldFollowed'
<1>1. /\ Cells' = Cells
      /\ atomtbl'[c] = z
      /\ \A d \in Cells : d # c => atomtbl'[d] = atomtbl[d]
  BY PutFacts
<1>2. Sizes' BY DEF IInv, Sizes
<1>3. z \notin Marks BY AtomTableMarks DEF Marks
<1>4. Entries' BY <1>1, <1>3 DEF IInv, Entries
<1>5. ASSUME NEW h, NEW e, Linked(atomtbl, atomtblsize, h, e)
      PROVE  Linked(atomtbl', atomtblsize, h, e)
  <2>1. \A d \in 0 .. atomtblsize - 1 : atomtbl[d] # vacant => atomtbl'[d] # vacant
    BY <1>1, AtomTableMarks DEF Cells
  <2> QED BY <1>5, <2>1, LinkedGrow
<1>6. AllPlaced'
  <2> SUFFICES ASSUME NEW y \in InUse', ~Waits(y)'
               PROVE  \E d \in Cells : /\ atomtbl'[d] = y
                                       /\ Linked(atomtbl', atomtblsize, hash(atom'[y][2]), d)
    BY <1>1 DEF AllPlaced, hash
  <2>1. CASE y = z BY <1>1, <1>5, <2>1
  <2>2. CASE y # z
    <3>1. y \in InUse /\ ~Waits(y) BY <2>2
    <3>2. PICK d \in Cells :
            atomtbl[d] = y /\ Linked(atomtbl, atomtblsize, hash(atom[y][2]), d)
      BY <3>1 DEF IInv, AllPlaced
    <3>3. d # c BY <3>1, <3>2, AtomTableMarks DEF IInv, TypeOK, InUse
    <3> QED BY <1>1, <1>5, <3>1, <3>2, <3>3
  <2> QED BY <2>1, <2>2
<1>7. HeldFollowed'
  <2> SUFFICES ASSUME NEW d \in Cells, atomtbl'[d] = held
               PROVE  atomtbl'[Succ(d)] # vacant
    BY <1>1 DEF HeldFollowed, Succ
  <2>1. d # c BY <1>1, AtomTableMarks
  <2>2. atomtbl[Succ(d)] # vacant BY <1>1, <2>1 DEF IInv, HeldFollowed
  <2>3. Succ(d) \in Cells BY Around DEF IInv
  <2> QED BY <1>1, <2>2, <2>3, AtomTableMarks
<1> QED BY <1>2, <1>4, <1>6, <1>7

LEMMA RecordStep == ASSUME IInv, NEW z \in Arrays, Record(z) PROVE IInv'
<1> USE DEF Record
<1>1. /\ posn_to_use = posn /\ atomtbl[posn] = vacant /\ posn \in Cells
      /\ k \in Kinds /\ s \in Texts
  BY DEF IInv, TypeOK, Recording, Control
<1>2. /\ InUse' = InUse \cup {z} /\ atom'[z] = <<k, s>>
      /\ \A y \in InUse : atom'[y] = atom[y]
  BY DEF InUse
<1>3. \A d \in Cells : atomtbl[d] # z
  BY AtomTableMarks DEF IInv, Entries, Marks
<1>4. \A y \in InUse : ~Waits(y) BY Settled
<1>5. Linked(atomtbl, atomtblsize, hash(atom'[z][2]), posn)
  BY <1>2 DEF IInv, Visiting
<1>6. atomtbl' = [atomtbl EXCEPT ![posn] = z] /\ atomtblsize' = atomtblsize
  BY <1>1
<1>7. Sizes' /\ Entries' /\ AllPlaced' /\ HeldFollowed'
  BY <1>1, <1>2, <1>3, <1>4, <1>5, <1>6, Puts
<1>8. OneArrayPerAtom'
  <2>1. \A y \in InUse : atom[y] # <<k, s>> BY DEF IInv, Searching
  <2> QED BY <1>2, <2>1 DEF IInv, OneArrayPerAtom
<1>9. TypeOK'
  <2>1. atomtbl' \in [Cells' -> Arrays \cup Marks] BY <1>1, <1>6, PutFacts
  <2>2. DOMAIN atom' \subseteq Arrays /\ atom' \in [DOMAIN atom' -> Kinds \X Texts]
    BY <1>1 DEF IInv, TypeOK, InUse
  <2>3. atomcnt' \in Int BY DEF IInv, TypeOK
  <2>4. CASE pc' = "extend"
    BY <2>1, <2>2, <2>3, <2>4 DEF IInv, TypeOK, Cells, Return
  <2>5. CASE pc' # "extend"
    <3>1. Return(z) BY <2>5
    <3>2. 0 \in Cells' BY <1>7, AtomTableConstants DEF Sizes, Cells
    <3> QED BY <2>1, <2>2, <2>3, <3>1, <3>2 DEF IInv, TypeOK, Return
  <2> QED BY <2>4, <2>5
<1>10. pc' \in {"extend", "idle"} BY DEF Return
<1>11. Control'
  <2>1. CASE pc' = "extend"
    BY <1>1, <1>2, <2>1 DEF IInv, Control, InUse, Return
  <2>2. CASE pc' # "extend" BY <1>10, <2>2 DEF Control
  <2> QED BY <2>1, <2>2
<1>12. /\ OldEntries' /\ ToPlace' /\ Visiting' /\ Searching' /\ Recording'
       /\ Finding' /\ Vacating'
  BY <1>10 DEF OldEntries, ToPlace, Visiting, Searching, Recording, Finding, Vacating
<1> QED BY <1>7, <1>8, <1>9, <1>11, <1>12 DEF IInv

LEMMA PlaceStep == ASSUME IInv, Place PROVE IInv'
<1> USE DEF Place
<1>1. x \in InUse /\ x \in Arrays /\ posn \in Cells
  BY DEF IInv, TypeOK, Control, InUse
<1>2. \A d \in Cells : atomtbl[d] # x BY DEF IInv, ToPlace
<1>3. InUse' = InUse BY DEF InUse
<1>4. Linked(atomtbl, atomtblsize, hash(atom'[x][2]), posn) BY DEF IInv, Visiting
<1>5. \A y \in InUse \ {x} : Waits(y) => Waits(y)' BY DEF Waits
<1>6. Sizes' /\ Entries' /\ AllPlaced' /\ HeldFollowed'
  BY <1>1, <1>2, <1>3, <1>4, <1>5, Puts
<1>7. /\ Cells' = Cells /\ atomtbl' \in [Cells -> Arrays \cup Marks]
      /\ atomtbl'[posn] = x
      /\ \A d \in Cells : d # posn => atomtbl'[d] = atomtbl[d]
  BY <1>1, PutFacts
<1>8. TypeOK' BY <1>7 DEF IInv, TypeOK, InUse
<1>9. Control' BY DEF Control
<1>10. OldEntries'
  BY <1>3, <1>7 DEF IInv, OldEntries
<1>11. ToPlace' /\ Visiting' /\ Searching' /\ Recording' /\ Finding' /\ Vacating'
  BY DEF ToPlace, Visiting, Searching, Recording, Finding, Vacating
<1>12. OneArrayPerAtom' BY <1>3 DEF IInv, OneArrayPerAtom
<1> QED BY <1>6, <1>8, <1>9, <1>10, <1>11, <1>12 DEF IInv

LEMMA ExtendStep == ASSUME IInv, Extend PROVE IInv'
<1> USE DEF Extend
<1>1. NewSize \in Nat /\ atomtblsize <= NewSize
  BY AtomTableConstants DEF IInv, Sizes, NewSize
<1>2. /\ Cells \subseteq Cells' /\ Cells' = 0 .. NewSize - 1
      /\ \A c \in Cells' : atomtbl'[c] = vacant
  BY <1>1 DEF IInv, Sizes, Cells
<1>3. InUse' = InUse BY DEF InUse
<1>4. x \in InUse BY DEF IInv, Control
<1>5. DOMAIN oldtbl' = 0 .. atomtblsize - 1 /\ \A j \in Cells : oldtbl'[j] = atomtbl[j]
  BY DEF IInv, TypeOK, Cells
<1>6. TypeOK'
  BY <1>1, <1>2, <1>4 DEF IInv, TypeOK, Marks, InUse
<1>7. Sizes' /\ Control' BY <1>1, AtomTableConstants DEF IInv, Sizes, Control
<1>8. Entries' /\ ToPlace' BY <1>2, <1>3 DEF Entries, ToPlace, Marks
<1>9. OldEntries'
  <2>1. \E n \in Nat : DOMAIN oldtbl' = 0 .. n - 1 BY <1>5 DEF IInv, Sizes
  <2>2. \A j \in DOMAIN oldtbl' : oldtbl'[j] \in InUse' \cup Marks
    BY <1>3, <1>5 DEF IInv, Entries, Cells
  <2>3. \A j, l \in DOMAIN oldtbl' :
          oldtbl'[j] = oldtbl'[l] /\ oldtbl'[j] \notin Marks => j = l
    BY <1>5 DEF IInv, Entries, Cells
  <2>4. \A j \in DOMAIN oldtbl' : oldtbl'[j] \notin Marks =>
           \A c \in Cells' : atomtbl'[c] # oldtbl'[j]
    BY <1>2 DEF Marks
  <2> QED BY <2>1, <2>2, <2>3, <2>4 DEF OldEntries
<1>10. AllPlaced'
  <2> SUFFICES ASSUME NEW z \in InUse PROVE Waits(z)' BY <1>3 DEF AllPlaced
  <2>1. PICK c \in Cells : atomtbl[c] = z BY Settled DEF IInv, AllPlaced
  <2> QED BY <1>5, <2>1 DEF Waits, Cells
<1>11. OneArrayPerAtom' BY <1>3 DEF IInv, OneArrayPerAtom
<1>12. Visiting' /\ Searching' /\ Recording' /\ Finding' /\ Vacating'
  BY DEF Visiting, Searching, Recording, Finding, Vacating
<1>13. HeldFollowed' BY <1>2, AtomTableMarks DEF HeldFollowed
<1> QED BY <1>6, <1>7, <1>8, <1>9, <1>10, <1>11, <1>12, <1>13 DEF IInv

(* A cell of no array in use is vacated in front of a vacant cell.         *)
LEMMA Vacates ==
  ASSUME IInv, NEW c \in Cells, atomtbl[Succ(c)] = vacant,
         atomtbl' = [atomtbl EXCEPT ![c] = vacant], atomtblsize' = atomtblsize,
         InUse' \subseteq InUse, \A y \in InUse' : atom'[y] = atom[y],
         atomtbl[c] \notin InUse', pc \notin {"move", "place"},
         pc' = "vacate", posn' = Pred(c), pc = "vacate" => posn = c
  PROVE  Sizes' /\ AllPlaced' /\ HeldFollowed' /\ Vacating'
<1>1. /\ Cells' = Cells
      /\ atomtbl'[c] = vacant
      /\ \A d \in Cells : d # c => atomtbl'[d] = atomtbl[d]
  BY PutFacts DEF Marks
<1>2. Sizes' BY DEF IInv, Sizes
<1>3. AllPlaced'
  <2> SUFFICES ASSUME NEW y \in InUse'
               PROVE  \E d \in Cells : /\ atomtbl'[d] = y
                                       /\ Linked(atomtbl', atomtblsize, hash(atom'[y][2]), d)
    BY <1>1 DEF AllPlaced, hash
  <2>1. PICK d \in Cells :
          atomtbl[d] = y /\ Linked(atomtbl, atomtblsize, hash(atom[y][2]), d)
    BY Settled DEF IInv, AllPlaced
  <2>2. d # c /\ atomtbl[d] # vacant
    BY <2>1, AtomTableMarks DEF IInv, TypeOK, InUse
  <2>3. Linked(atomtbl', atomtblsize, hash(atom[y][2]), d)
    <3>1. \A e \in 0 .. atomtblsize - 1 : e # c => atomtbl'[e] = atomtbl[e]
      BY <1>1 DEF Cells
    <3>2. Succ(c) = (c + LinAdj) % atomtblsize BY DEF Succ
    <3> QED BY <2>1, <2>2, <3>1, <3>2, LinkedVacate
  <2> QED BY <1>1, <2>1, <2>2, <2>3
<1>4. HeldFollowed'
  <2> SUFFICES ASSUME NEW d \in Cells, atomtbl'[d] = held, d # Pred(c)
               PROVE  atomtbl'[Succ(d)] # vacant
    BY <1>1 DEF HeldFollowed, Succ
  <2>1. d # c BY <1>1, AtomTableMarks
  <2>2. atomtbl[Succ(d)] # vacant BY <1>1, <2>1 DEF IInv, HeldFollowed
  <2>3. Succ(d) \in Cells /\ Succ(d) # c BY Around DEF IInv
  <2> QED BY <1>1, <2>2, <2>3
<1>5. Vacating'
  <2>1. Succ(Pred(c)) = c BY Around DEF IInv
  <2> QED BY <1>1, <2>1 DEF Vacating, Succ
<1> QED BY <1>2, <1>3, <1>4, <1>5

LEMMA VacateOnStep == ASSUME IInv, VacateOn PROVE IInv'
<1> USE DEF VacateOn
<1>1. posn \in Cells /\ Pred(posn) \in Cells BY Around DEF IInv, TypeOK
<1>2. atomtbl[Succ(posn)] = vacant BY DEF IInv, Vacating
<1>3. InUse' = InUse /\ held \notin InUse
  BY AtomTableMarks DEF IInv, TypeOK, InUse
<1>4. Sizes' /\ AllPlaced' /\ HeldFollowed' /\ Vacating'
  BY <1>1, <1>2, <1>3, Vacates
<1>5. /\ Cells' = Cells /\ atomtbl' \in [Cells -> Arrays \cup Marks]
      /\ atomtbl'[posn] = vacant
      /\ \A d \in Cells : d # posn => atomtbl'[d] = atomtbl[d]
  BY <1>1, PutFacts DEF Marks
<1>6. TypeOK' BY <1>1, <1>5 DEF IInv, TypeOK, InUse
<1>7. Entries' /\ OneArrayPerAtom'
  BY <1>3, <1>5 DEF IInv, Entries, OneArrayPerAtom, Marks
<1>8. Control' BY DEF IInv, Control
<1>9. OldEntries' /\ ToPlace' /\ Visiting' /\ Searching' /\ Recording' /\ Finding'
  BY DEF OldEntries, ToPlace, Visiting, Searching, Recording, Finding
<1> QED BY <1>4, <1>6, <1>7, <1>8, <1>9 DEF IInv

LEMMA UnlinkStep == ASSUME IInv, Unlink PROVE IInv'
<1> USE DEF Unlink
<1>1. posn \in Cells /\ Pred(posn) \in Cells BY Around DEF IInv, TypeOK
<1>2. x \in InUse /\ x \in Arrays BY DEF IInv, TypeOK, Control, InUse
<1>3. /\ InUse' = InUse \ {x}
      /\ \A y \in InUse' : atom'[y] = atom[y]
  BY DEF InUse
<1>4. DOMAIN atom' \subseteq Arrays /\ atom' \in [DOMAIN atom' -> Kinds \X Texts]
  BY DEF IInv, TypeOK, InUse
<1>5. OneArrayPerAtom' BY <1>3 DEF IInv, OneArrayPerAtom
<1>6. ASSUME NEW v \in Marks, atomtbl' = [atomtbl EXCEPT ![posn] = v]
      PROVE  /\ Entries' /\ Cells' = Cells
             /\ atomtbl' \in [Cells -> Arrays \cup Marks]
  <2>1. /\ Cells' = Cells /\ atomtbl' \in [Cells -> Arrays \cup Marks]
        /\ atomtbl'[posn] = v
        /\ \A d \in Cells : d # posn => atomtbl'[d] = atomtbl[d]
    BY <1>1, <1>6, PutFacts
  <2>2. x \notin Marks BY <1>2, AtomTableMarks DEF Marks
  <2>3. \A d \in Cells : d # posn => atomtbl[d] # x BY <1>1, <2>2 DEF IInv, Entries
  <2>4. Entries' BY <1>3, <2>1, <2>3 DEF IInv, Entries
  <2> QED BY <2>1, <2>4
<1>7. CASE atomtbl[Succ(posn)] = vacant
  <2>1. /\ atomtbl' = [atomtbl EXCEPT ![posn] = vacant]
        /\ pc' = "vacate" /\ posn' = Pred(posn) /\ x' = none
    BY <1>7
  <2>2. Sizes' /\ AllPlaced' /\ HeldFollowed' /\ Vacating'
    BY <1>1, <1>3, <1>7, <2>1, Vacates
  <2>3. /\ Entries' /\ Cells' = Cells
        /\ atomtbl' \in [Cells -> Arrays \cup Marks]
    BY <1>6, <2>1 DEF Marks
  <2>4. TypeOK' BY <1>1, <1>4, <1>7, <2>1, <2>3 DEF IInv, TypeOK
  <2>5. Control' BY <1>7, <2>1 DEF IInv, Control
  <2>6. OldEntries' /\ ToPlace' /\ Visiting' /\ Searching' /\ Recording' /\ Finding'
    BY <2>1 DEF OldEntries, ToPlace, Visiting, Searching, Recording, Finding
  <2> QED BY <1>5, <2>2, <2>3, <2>4, <2>5, <2>6 DEF IInv
<1>8. CASE atomtbl[Succ(posn)] # vacant
  <2>1. atomtbl' = [atomtbl EXCEPT ![posn] = held] /\ Return(none) /\ atomcnt' = atomcnt
    BY <1>8
  <2>2. /\ Entries' /\ Cells' = Cells
        /\ atomtbl' \in [Cells -> Arrays \cup Marks]
    BY <1>6, <2>1 DEF Marks
  <2>3. Sizes' BY DEF IInv, Sizes
  <2>4. 0 \in Cells' BY <2>3, AtomTableConstants DEF Sizes, Cells
  <2>5. TypeOK' BY <1>4, <2>1, <2>2, <2>4 DEF IInv, TypeOK, Return
  <2>6. /\ atomtbl'[posn] = held
        /\ \A d \in Cells : d # posn => atomtbl'[d] = atomtbl[d]
    BY <1>1, <2>1, PutFacts DEF Marks
  <2>7. AllPlaced'
    <3> SUFFICES ASSUME NEW y \in InUse'
                 PROVE  \E d \in Cells : /\ atomtbl'[d] = y
                                         /\ Linked(atomtbl', atomtblsize, hash(atom'[y][2]), d)
      BY <2>2 DEF AllPlaced, hash
    <3>1. PICK d \in Cells :
            atomtbl[d] = y /\ Linked(atomtbl, atomtblsize, hash(atom[y][2]), d)
      BY <1>3, Settled DEF IInv, AllPlaced
    <3>2. d # posn BY <1>3, <3>1
    <3>3. \A e \in 0 .. atomtblsize - 1 : atomtbl[e] # vacant => atomtbl'[e] # vacant
      BY <2>6, AtomTableMarks DEF Cells
    <3> QED BY <1>3, <2>6, <3>1, <3>2, <3>3, LinkedGrow
  <2>8. HeldFollowed'
    <3> SUFFICES ASSUME NEW d \in Cells, atomtbl'[d] = held
                 PROVE  atomtbl'[Succ(d)] # vacant
      BY <2>2 DEF HeldFollowed, Succ
    <3>1. atomtbl[Succ(d)] # vacant BY <1>8, <2>6 DEF IInv, HeldFollowed
    <3>2. Succ(d) \in Cells BY Around DEF IInv
    <3> QED BY <2>6, <3>1, <3>2, AtomTableMarks
  <2>9. /\ Control' /\ OldEntries' /\ ToPlace' /\ Visiting' /\ Searching'
        /\ Recording' /\ Finding' /\ Vacating'
    BY <2>1 DEF Return, Control, OldEntries, ToPlace, Visiting, Searching, Recording,
                Finding, Vacating
  <2> QED BY <1>5, <2>2, <2>3, <2>5, <2>7, <2>8, <2>9 DEF IInv
<1> QED BY <1>7, <1>8

---------------------------------------------------------------------------
(* Theorems                                                                *)

LEMMA NextIInv == ASSUME IInv, [Next]_vars PROVE IInv'
<1>1. CASE \E kk \in Kinds, t \in Texts : CreateAtom(kk, t) BY <1>1, CreateAtomStep
<1>2. CASE \E z \in InUse : RemoveAtom(z) BY <1>2, RemoveAtomStep
<1>3. CASE ProbeFindsVacant \/ ProbeFindsAtom \/ ProbeOn
  BY <1>3, ProbeFindsVacantStep, ProbeFindsAtomStep, ProbeOnStep
<1>4. CASE (\E z \in Arrays : Record(z)) \/ RecordJumps
  BY <1>4, RecordStep, RecordJumpsStep
<1>5. CASE Extend \/ ExtendJumps \/ MoveNext \/ MoveEnds
  BY <1>5, ExtendStep, ExtendJumpsStep, MoveNextStep, MoveEndsStep
<1>6. CASE PlaceOn \/ Place BY <1>6, PlaceOnStep, PlaceStep
<1>7. CASE FindOn \/ Unlink \/ VacateOn \/ VacateEnds
  BY <1>7, FindOnStep, UnlinkStep, VacateOnStep, VacateEndsStep
<1>8. CASE UNCHANGED vars
  BY <1>8 DEF vars, table, IInv, TypeOK, Sizes, Control, Entries, OldEntries, ToPlace,
     AllPlaced, Waits, OneArrayPerAtom, Visiting, Searching, Recording, Finding,
     Vacating, HeldFollowed, InUse, Cells, Succ, hash
<1> QED
  BY <1>1, <1>2, <1>3, <1>4, <1>5, <1>6, <1>7, <1>8 DEF Next, Running

(* The inductive invariant: chains, held cells, the search of createatom   *)
(* and the two tables of rehash, for every size of the table and every     *)
(* sequence of calls.                                                      *)
THEOREM AtomInvariance == Spec => []IInv
<1>1. Init => IInv BY InitIInv
<1>2. IInv /\ [Next]_vars => IInv' BY NextIInv
<1> QED BY <1>1, <1>2, PTL DEF Spec

(* The variables of the atom table keep their types through every call.    *)
THEOREM AtomTypeCorrect == Spec => []TypeOK
<1>1. IInv => TypeOK BY DEF IInv
<1> QED BY <1>1, AtomInvariance, PTL

(* createatom never makes a second array for the same kind and text.       *)
THEOREM AtomsUnique == Spec => []OneArrayPerAtom
<1>1. IInv => OneArrayPerAtom BY DEF IInv
<1> QED BY <1>1, AtomInvariance, PTL

(* remove_atom leaves no held cell in front of a vacant one.               *)
THEOREM HeldCellsNeeded == Spec => []NoIdleHeld
<1>1. IInv => NoIdleHeld BY DEF IInv, HeldFollowed, NoIdleHeld
<1> QED BY <1>1, AtomInvariance, PTL

(* A chain is no longer than the table: where it meets a cell again it has *)
(* gone round.                                                             *)
LEMMA ChainIsPath ==
  ASSUME Sizes, NEW h \in Cells, NEW c \in Cells, Linked(atomtbl, atomtblsize, h, c)
  PROVE  \A d \in Path(h, c) : atomtbl[d] # vacant
<1>1. PICK n \in Nat \ {0} : n = atomtblsize BY DEF Linked
<1>2. h \in 0 .. n - 1 /\ Cells = 0 .. n - 1 BY <1>1 DEF Cells
<1>3. PICK m \in Nat : At(n, h, m) = c /\ \A j \in 0 .. m - 1 : atomtbl[At(n, h, j)] # vacant
  BY <1>1 DEF Linked
<1> DEFINE S == {j \in Nat : At(n, h, j) = c}
<1>4. PICK l \in S : \A j \in S : l <= j
  <2>1. S \in SUBSET Nat /\ S # {} BY <1>3
  <2> HIDE DEF S
  <2> QED BY <2>1, LeastNatural
<1>5. l \in Nat /\ At(n, h, l) = c /\ l <= m BY <1>3, <1>4
<1>6. \A j \in 0 .. l - 1 : At(n, h, j) # c
  <2> SUFFICES ASSUME NEW j \in 0 .. l - 1, At(n, h, j) = c PROVE FALSE OBVIOUS
  <2>1. j \in S /\ ~ (l <= j) BY <1>5
  <2> HIDE DEF S
  <2> QED BY <1>4, <2>1
<1>7. l \in Cells
  <2> SUFFICES ASSUME l >= n PROVE FALSE BY <1>2, <1>5
  <2>1. PICK j \in Nat : l = j + n
    <3>1. l - n \in Nat /\ l = (l - n) + n BY <1>5
    <3> QED BY <3>1
  <2>2. At(n, h, j) = c BY <1>2, <1>5, <2>1, AtSteps
  <2>3. j \in 0 .. l - 1 BY <2>1
  <2> QED BY <1>6, <2>2, <2>3
<1>8. PICK d : d = CHOOSE e \in Cells : /\ (h + e * LinAdj) % atomtblsize = c
                                        /\ \A j \in 0 .. e - 1 : (h + j * LinAdj) % atomtblsize # c
  OBVIOUS
<1>9. d \in Cells /\ At(n, h, d) = c /\ \A j \in 0 .. d - 1 : At(n, h, j) # c
  <2>1. \E e \in Cells : /\ (h + e * LinAdj) % atomtblsize = c
                         /\ \A j \in 0 .. e - 1 : (h + j * LinAdj) % atomtblsize # c
    BY <1>1, <1>5, <1>6, <1>7 DEF At
  <2> QED BY <1>1, <1>8, <2>1 DEF At
<1>10. d <= m
  <2> SUFFICES ASSUME ~ (d <= m) PROVE FALSE OBVIOUS
  <2>1. m \in 0 .. d - 1 BY <1>2, <1>9
  <2> QED BY <1>3, <1>9, <2>1
<1>11. Path(h, c) = {At(n, h, j) : j \in 0 .. d - 1} BY <1>1, <1>8 DEF Path, At
<1>12. \A j \in 0 .. d - 1 : j \in 0 .. m - 1 BY <1>2, <1>9, <1>10
<1> QED BY <1>3, <1>11, <1>12

(* Between two calls the table has every atom in use once, and a search    *)
(* that starts at the hash of its text comes to it without meeting a       *)
(* vacant cell, whatever createatom, remove_atom and rehash have done.     *)
THEOREM AtomsFound == Spec => []AtomsReachable
<1>1. IInv => AtomsReachable
  <2> SUFFICES ASSUME IInv, pc = "idle" PROVE AtomsReachable BY DEF AtomsReachable
  <2>1. \A c \in Cells : atomtbl[c] \in InUse \cup Marks BY DEF IInv, Entries
  <2>2. ASSUME NEW z \in InUse
        PROVE  \E c \in Cells : /\ \A d \in Cells : atomtbl[d] = z <=> d = c
                                /\ \A d \in Path(hash(atom[z][2]), c) : atomtbl[d] # vacant
    <3>1. PICK c \in Cells : atomtbl[c] = z /\ Linked(atomtbl, atomtblsize, hash(atom[z][2]), c)
      BY Settled DEF IInv, AllPlaced
    <3>2. z \notin Marks BY AtomTableMarks DEF IInv, TypeOK, InUse, Marks
    <3>3. \A d \in Cells : atomtbl[d] = z <=> d = c BY <3>1, <3>2 DEF IInv, Entries
    <3>4. hash(atom[z][2]) \in Cells BY <3>1 DEF Linked, Cells
    <3>5. \A d \in Path(hash(atom[z][2]), c) : atomtbl[d] # vacant BY <3>1, <3>4, ChainIsPath DEF IInv
    <3> QED BY <3>3, <3>5
  <2> QED BY <2>1, <2>2 DEF AtomsReachable
<1> QED BY <1>1, AtomInvariance, PTL

---------------------------------------------------------------------------
(* The count of cells                                                      *)

(* The entries of the old table that are still to be moved.                *)
Rest == {j \in DOMAIN oldtbl : j >= i /\ oldtbl[j] \notin Marks}

CountInv ==
  /\ pc \notin {"move", "place"} => Cardinality(Occupied) <= atomcnt
  /\ pc = "move"  => Cardinality(Occupied) + Cardinality(Rest) <= atomcnt
  /\ pc = "place" => Cardinality(Occupied) + Cardinality(Rest) + 1 <= atomcnt
  /\ ~inrehash /\ pc # "extend" => atomcnt <= atomtblsize \div 2
  /\ ~inrehash /\ pc = "extend" => atomcnt <= atomtblsize \div 2 + 1

LEMMA OccupiedFinite ==
  ASSUME IInv
  PROVE  IsFiniteSet(Occupied) /\ Cardinality(Occupied) \in Nat
<1>1. IsFiniteSet(Cells) BY FS_Interval DEF IInv, Sizes, Cells
<1>2. Occupied \in SUBSET Cells BY DEF Occupied
<1> QED BY <1>1, <1>2, FS_Subset, FS_CardinalityType

LEMMA RestFinite ==
  ASSUME IInv, pc \in {"move", "place"}
  PROVE  IsFiniteSet(Rest) /\ Cardinality(Rest) \in Nat
<1>1. PICK n \in Nat : DOMAIN oldtbl = 0 .. n - 1 BY DEF IInv, OldEntries
<1>2. IsFiniteSet(DOMAIN oldtbl) BY <1>1, FS_Interval
<1>3. Rest \in SUBSET DOMAIN oldtbl BY DEF Rest
<1> QED BY <1>2, <1>3, FS_Subset, FS_CardinalityType

(* Putting an array in a vacant cell adds one to the cells not vacant.     *)
LEMMA PutCounts ==
  ASSUME IInv, NEW c \in Cells, atomtbl[c] = vacant, NEW z \in Arrays,
         atomtbl' = [atomtbl EXCEPT ![c] = z], atomtblsize' = atomtblsize
  PROVE  Cardinality(Occupied') = Cardinality(Occupied) + 1
<1>1. /\ Cells' = Cells /\ atomtbl'[c] = z
      /\ \A d \in Cells : d # c => atomtbl'[d] = atomtbl[d]
  BY PutFacts
<1>2. Occupied' = Occupied \cup {c} /\ c \notin Occupied
  BY <1>1, AtomTableMarks DEF Occupied
<1> QED BY <1>2, OccupiedFinite, FS_AddElement

LEMMA VacateCounts ==
  ASSUME IInv, NEW c \in Cells, atomtbl[c] # vacant,
         atomtbl' = [atomtbl EXCEPT ![c] = vacant], atomtblsize' = atomtblsize
  PROVE  Cardinality(Occupied') = Cardinality(Occupied) - 1
<1>1. /\ Cells' = Cells /\ atomtbl'[c] = vacant
      /\ \A d \in Cells : d # c => atomtbl'[d] = atomtbl[d]
  BY PutFacts DEF Marks
<1>2. Occupied' = Occupied \ {c} /\ c \in Occupied
  BY <1>1 DEF Occupied
<1> QED BY <1>2, OccupiedFinite, FS_RemoveElement

LEMMA SameCounts ==
  ASSUME CountInv, atomtbl' = atomtbl, atomtblsize' = atomtblsize, atomcnt' = atomcnt,
         pc \notin {"move", "place", "extend"}, pc' \notin {"move", "place", "extend"},
         inrehash' = inrehash
  PROVE  CountInv'
<1>1. Occupied' = Occupied BY DEF Occupied, Cells
<1> QED BY <1>1 DEF CountInv

LEMMA InitCount == Init => CountInv
<1> SUFFICES ASSUME Init PROVE CountInv OBVIOUS
<1>1. Occupied = {} BY DEF Init, Occupied, Cells
<1>2. Cardinality(Occupied) = 0 BY <1>1, FS_EmptySet
<1>3. 0 <= atomtblsize \div 2 BY AtomTableConstants DEF Init
<1> QED BY <1>2, <1>3 DEF Init, CountInv

LEMMA RecordCount == ASSUME IInv, CountInv, NEW z \in Arrays, Record(z) PROVE CountInv'
<1> USE DEF Record
<1>1. posn_to_use \in Cells /\ atomtbl[posn_to_use] = vacant
  BY DEF IInv, TypeOK, Recording
<1>2. Cardinality(Occupied') = Cardinality(Occupied) + 1 BY <1>1, PutCounts
<1>3. Cardinality(Occupied) <= atomcnt /\ atomcnt' = atomcnt + 1 /\ atomcnt \in Int
  BY <1>1 DEF CountInv, IInv, TypeOK
<1>4. Cardinality(Occupied) \in Nat BY OccupiedFinite
<1>5. ~inrehash => atomcnt <= atomtblsize \div 2 BY DEF CountInv
<1>6. atomtblsize \div 2 \in Int BY DEF IInv, Sizes
<1>7. CASE atomcnt' > atomtblsize \div 2 /\ ~inrehash
  BY <1>2, <1>3, <1>4, <1>5, <1>6, <1>7 DEF CountInv
<1>8. CASE ~(atomcnt' > atomtblsize \div 2 /\ ~inrehash)
  BY <1>2, <1>3, <1>4, <1>5, <1>6, <1>8 DEF CountInv, Return
<1> QED BY <1>7, <1>8

LEMMA ExtendCount == ASSUME IInv, CountInv, Extend PROVE CountInv'
<1> USE DEF Extend
<1>1. atomtblsize + DfSize <= NewSize /\ NewSize \in Nat /\ atomtblsize \in Nat
  BY AtomTableConstants DEF IInv, Sizes, NewSize
<1>2. ~inrehash => atomcnt <= NewSize \div 2
  <2>1. ~inrehash => atomcnt <= atomtblsize \div 2 + 1 BY DEF CountInv
  <2>2. atomtblsize \div 2 + 1 <= NewSize \div 2 BY <1>1, AtomTableConstants
  <2> QED BY <1>1, <2>1, <2>2 DEF IInv, TypeOK
<1>3. Occupied' = {} BY DEF Occupied, Cells
<1>4. Rest' \subseteq Occupied
  BY DEF Rest, Occupied, IInv, TypeOK, Marks
<1>5. Cardinality(Rest') <= Cardinality(Occupied) /\ Cardinality(Rest') \in Nat
  BY <1>4, OccupiedFinite, FS_Subset, FS_CardinalityType
<1>6. Cardinality(Occupied') = 0 BY <1>3, FS_EmptySet
<1>7. Cardinality(Occupied) <= atomcnt /\ atomcnt \in Int BY DEF CountInv, IInv, TypeOK
<1>8. Cardinality(Occupied') + Cardinality(Rest') <= atomcnt'
  BY <1>5, <1>6, <1>7, OccupiedFinite
<1> QED BY <1>2, <1>8 DEF CountInv

LEMMA MoveNextCount == ASSUME IInv, CountInv, MoveNext PROVE CountInv'
<1> USE DEF MoveNext, table
<1>1. Occupied' = Occupied BY DEF Occupied, Cells
<1>2. PICK n \in Nat : DOMAIN oldtbl = 0 .. n - 1 BY DEF IInv, OldEntries
<1>3. i \in Nat BY DEF IInv, TypeOK
<1>4. Rest' = Rest \ {i} BY <1>2, <1>3 DEF Rest
<1>5. CASE oldtbl[i] \in Marks
  <2>1. Rest' = Rest BY <1>4, <1>5 DEF Rest
  <2> QED BY <1>1, <1>5, <2>1 DEF CountInv, Marks
<1>6. CASE oldtbl[i] \notin Marks
  <2>1. i \in Rest BY <1>2, <1>3, <1>6 DEF Rest
  <2>2. Cardinality(Rest') = Cardinality(Rest) - 1
    BY <1>4, <2>1, RestFinite, FS_RemoveElement
  <2>3. pc' = "place" BY <1>6 DEF Marks
  <2>4. Cardinality(Occupied) + (Cardinality(Rest) - 1) + 1 <= atomcnt
    BY OccupiedFinite, RestFinite DEF CountInv
  <2> QED BY <1>1, <2>2, <2>3, <2>4 DEF CountInv
<1> QED BY <1>5, <1>6

LEMMA PlaceCount == ASSUME IInv, CountInv, Place PROVE CountInv'
<1> USE DEF Place
<1>1. x \in Arrays /\ posn \in Cells BY DEF IInv, TypeOK, Control, InUse
<1>2. Cardinality(Occupied') = Cardinality(Occupied) + 1 BY <1>1, PutCounts
<1>3. Rest' = Rest BY DEF Rest
<1>4. Cardinality(Occupied) + 1 + Cardinality(Rest) <= atomcnt
  BY OccupiedFinite, RestFinite DEF CountInv
<1> QED BY <1>2, <1>3, <1>4 DEF CountInv

LEMMA UnlinkCount == ASSUME IInv, CountInv, Unlink PROVE CountInv'
<1> USE DEF Unlink
<1>1. posn \in Cells /\ atomtbl[posn] # vacant /\ atomcnt \in Int
  BY AtomTableMarks DEF IInv, TypeOK, Control, InUse
<1>2. Cardinality(Occupied) \in Nat /\ Cardinality(Occupied) <= atomcnt
  BY OccupiedFinite DEF CountInv
<1>3. atomtblsize \div 2 \in Int BY DEF IInv, Sizes
<1>4. ~inrehash => atomcnt <= atomtblsize \div 2 BY DEF CountInv
<1>5. CASE atomtbl[Succ(posn)] = vacant
  <2>1. Cardinality(Occupied') = Cardinality(Occupied) - 1 BY <1>1, <1>5, VacateCounts
  <2>2. pc' = "vacate" /\ atomcnt' = atomcnt - 1 BY <1>5
  <2> QED BY <1>1, <1>2, <1>3, <1>4, <2>1, <2>2 DEF CountInv
<1>6. CASE atomtbl[Succ(posn)] # vacant
  <2>1. Occupied' = Occupied
    <3>1. /\ Cells' = Cells /\ atomtbl'[posn] = held
          /\ \A d \in Cells : d # posn => atomtbl'[d] = atomtbl[d]
      BY <1>1, <1>6, PutFacts DEF Marks
    <3> QED BY <1>1, <3>1, AtomTableMarks DEF Occupied
  <2>2. pc' = "idle" /\ atomcnt' = atomcnt BY <1>6 DEF Return
  <2> QED BY <1>2, <1>4, <2>1, <2>2 DEF CountInv
<1> QED BY <1>5, <1>6

LEMMA VacateOnCount == ASSUME IInv, CountInv, VacateOn PROVE CountInv'
<1> USE DEF VacateOn
<1>1. posn \in Cells /\ atomtbl[posn] # vacant /\ atomcnt \in Int
  BY AtomTableMarks DEF IInv, TypeOK
<1>2. Cardinality(Occupied') = Cardinality(Occupied) - 1 BY <1>1, VacateCounts
<1>3. atomtblsize \div 2 \in Int BY DEF IInv, Sizes
<1> QED BY <1>1, <1>2, <1>3, OccupiedFinite DEF CountInv

LEMMA NextCount == ASSUME IInv, CountInv, [Next]_vars PROVE CountInv'
<1>1. CASE \E kk \in Kinds, t \in Texts : CreateAtom(kk, t)
  BY <1>1, SameCounts DEF CreateAtom, table
<1>2. CASE \E z \in InUse : RemoveAtom(z) BY <1>2, SameCounts DEF RemoveAtom, table
<1>3. CASE ProbeFindsVacant \/ ProbeFindsAtom \/ ProbeOn \/ RecordJumps \/ FindOn \/ VacateEnds
  BY <1>3, SameCounts DEF ProbeFindsVacant, ProbeFindsAtom, ProbeOn, RecordJumps,
     FindOn, VacateEnds, Return, table
<1>4. CASE \E z \in Arrays : Record(z) BY <1>4, RecordCount
<1>5. CASE Extend BY <1>5, ExtendCount
<1>6. CASE ExtendJumps
  <2>1. Occupied' = Occupied BY <1>6 DEF ExtendJumps, Occupied, Cells
  <2> QED BY <1>6, <2>1 DEF ExtendJumps, Return, CountInv
<1>7. CASE MoveNext BY <1>7, MoveNextCount
<1>8. CASE PlaceOn
  <2>1. Occupied' = Occupied /\ Rest' = Rest
    BY <1>8 DEF PlaceOn, table, Occupied, Cells, Rest
  <2> QED BY <1>8, <2>1 DEF PlaceOn, table, CountInv
<1>9. CASE Place BY <1>9, PlaceCount
<1>10. CASE MoveEnds
  <2>1. Occupied' = Occupied BY <1>10 DEF MoveEnds, table, Occupied, Cells
  <2>2. Cardinality(Occupied) <= atomcnt
    BY <1>10, OccupiedFinite, RestFinite DEF MoveEnds, CountInv, IInv, TypeOK
  <2> QED BY <1>10, <2>1, <2>2 DEF MoveEnds, Return, table, CountInv
<1>11. CASE Unlink BY <1>11, UnlinkCount
<1>12. CASE VacateOn BY <1>12, VacateOnCount
<1>13. CASE UNCHANGED vars
  <2>1. Occupied' = Occupied /\ Rest' = Rest
    BY <1>13 DEF vars, table, Occupied, Cells, Rest
  <2> QED BY <1>13, <2>1 DEF vars, table, CountInv
<1> QED
  BY <1>1, <1>2, <1>3, <1>4, <1>5, <1>6, <1>7, <1>8, <1>9, <1>10, <1>11, <1>12, <1>13
     DEF Next, Running

(* atomcnt bounds the cells that are not vacant and, unless an attempt to  *)
(* rehash has failed, stays within half the table between calls.           *)
THEOREM CountBounds == Spec => []CountCovers
<1>1. Init => CountInv BY InitCount
<1>2. IInv /\ CountInv /\ [Next]_vars => CountInv' BY NextCount
<1>3. CountInv => CountCovers BY DEF CountInv, CountCovers
<1> QED BY <1>1, <1>2, <1>3, AtomInvariance, PTL DEF Spec

---------------------------------------------------------------------------
(* Refinement                                                              *)

LEMMA InitRefines == Init => Intern!Init
BY DEF Init, Intern!Init

LEMMA NextRefines == ASSUME IInv, [Next]_vars PROVE [Intern!Next]_(Intern!vars)
<1> USE DEF Intern!vars, Intern!InUse
<1>0. k \in Kinds /\ s \in Texts => <<k, s>> \in Kinds \X Texts /\ <<k, s>> # none
  BY AtomTableMarks
<1>1. ASSUME NEW kk \in Kinds, NEW t \in Texts, CreateAtom(kk, t)
      PROVE  Intern!Next
  <2>1. Intern!Ask(<<kk, t>>) BY <1>1 DEF CreateAtom, table, Intern!Ask
  <2>2. <<kk, t>> \in Kinds \X Texts OBVIOUS
  <2> QED BY <2>1, <2>2 DEF Intern!Next
<1>2. ASSUME NEW z \in InUse, RemoveAtom(z) PROVE Intern!Next
  BY <1>2 DEF RemoveAtom, table, Intern!Forget, Intern!Next
<1>3. CASE ProbeFindsVacant \/ ProbeOn
  BY <1>3 DEF ProbeFindsVacant, ProbeOn, table
<1>4. CASE ProbeFindsAtom
  <2>1. Intern!Answer(atomtbl[posn])
    BY <1>0, <1>4 DEF ProbeFindsAtom, Matches, InUse, Return, table, IInv, Control,
       Intern!Answer
  <2>2. atomtbl[posn] \in Arrays
    BY <1>4 DEF ProbeFindsAtom, Matches, InUse, IInv, TypeOK
  <2> QED BY <2>1, <2>2 DEF Intern!Next
<1>5. ASSUME NEW z \in Arrays, Record(z) PROVE Intern!Next
  <2>1. \A y \in InUse : atom[y] # <<k, s>> BY <1>5 DEF Record, IInv, Searching
  <2>2. <<k, s>> # none BY <1>0, <1>5 DEF Record, IInv, Control
  <2>3. Intern!Make(z)
    BY <1>5, <2>1, <2>2 DEF Record, InUse, Return, Intern!Make
  <2> QED BY <2>3 DEF Intern!Next
<1>6. CASE RecordJumps \/ ExtendJumps
  <2>1. Intern!Fail
    BY <1>0, <1>6 DEF RecordJumps, ExtendJumps, Return, table, IInv, Control, Intern!Fail
  <2> QED BY <2>1 DEF Intern!Next
<1>7. CASE Extend
  <2>1. Intern!Answer(x)
    BY <1>0, <1>7 DEF Extend, InUse, IInv, Control, Intern!Answer
  <2>2. x \in Arrays BY <1>7 DEF Extend, InUse, IInv, Control, TypeOK
  <2> QED BY <2>1, <2>2 DEF Intern!Next
<1>8. CASE MoveNext \/ PlaceOn \/ Place \/ MoveEnds \/ FindOn
  BY <1>8 DEF MoveNext, PlaceOn, Place, MoveEnds, FindOn, Return, table
<1>9. CASE Unlink
  <2>1. x \in Arrays BY <1>9 DEF Unlink, IInv, Control, TypeOK, InUse
  <2>2. Intern!Drop(x)
    BY <1>9 DEF Unlink, InUse, Return, IInv, Control, Intern!Drop
  <2> QED BY <2>1, <2>2 DEF Intern!Next
<1>10. CASE VacateOn \/ VacateEnds
  BY <1>10 DEF VacateOn, VacateEnds, Return, table, IInv, Control
<1>11. CASE UNCHANGED vars BY <1>11 DEF vars, table
<1> QED
  BY <1>1, <1>2, <1>3, <1>4, <1>5, <1>6, <1>7, <1>8, <1>9, <1>10, <1>11
     DEF Next, Running

(* The table implements the abstract interning of atoms.                   *)
THEOREM InternRefinement == Spec => ImplementsAtomTableAbs
<1>1. Init => Intern!Init BY InitRefines
<1>2. IInv /\ [Next]_vars => [Intern!Next]_(Intern!vars) BY NextRefines
<1> QED
  BY <1>1, <1>2, AtomInvariance, PTL DEF Spec, ImplementsAtomTableAbs, Intern!Spec

=============================================================================
