--------------------------- MODULE WorkspaceProofs ---------------------------
(* Proofs about Workspace for workspaces, blocks and files of any size.      *)
(*                                                                           *)
(* The idea: the runs that wsdump writes are intervals of addresses, in      *)
(* order, with a free block between any two; together they have every block, *)
(* and each begins and ends where a block does.  Whatever part of them       *)
(* wsload has read, what it has made is the blocks below the end of the last *)
(* run, and the free blocks are what lies between the runs.                  *)
EXTENDS Workspace, SetLemmas, TLAPS

Holdings  == Data \cup {"stack", "atoms"}
BlockType == [size : Nat \ {0}, words : Nat, holds : Holdings]
GType     == [stkareabase : Nat, atomtblbase : Nat, wssize : Nat]

(* Blocks B, none of which reaches into another.                             *)
End(B, b) == b + B[b].size
Laid(B) ==
  /\ B \in [DOMAIN B -> BlockType] /\ DOMAIN B \subseteq Nat
  /\ \A b \in DOMAIN B : membase <= b
  /\ \A b \in DOMAIN B : \A c \in DOMAIN B : b < c => End(B, b) <= c
Below(B, m) == \A b \in DOMAIN B : End(B, b) <= m

(* The free blocks of a workspace that reaches to m.                         *)
Free(B, m)    == {a \in {membase} \cup {End(B, b) : b \in DOMAIN B} : a < m /\ a \notin DOMAIN B}
After(B, m, a) == Min({b \in DOMAIN B : b > a} \cup {m})

(* Where a run that begins at a ends.                                        *)
Stop(B, m, a) == Min({e \in Free(B, m) : e >= a} \cup {m})
Heads(B)      == {a \in DOMAIN B : \A b \in DOMAIN B : End(B, b) # a} \cup {membase}

-----------------------------------------------------------------------------
(* The blocks and the gaps.                                                  *)
LEMMA Constants ==
  /\ membase \in Nat /\ {DfMemSize, MaxMemSize, MinHeapSpace, DfStkLim, AtomTblSize, MinSize} \subseteq Nat
  /\ MinSize > 0 /\ MinHeapSpace >= MinSize /\ DfStkLim >= MinSize /\ AtomTblSize >= MinSize
  /\ DataSizes \subseteq Nat /\ \A n \in DataSizes : n >= MinSize
  /\ DfMemSize >= membase + DfStkLim + AtomTblSize + MinSize /\ DfMemSize <= MaxMemSize
  /\ "stack" \notin Data /\ "atoms" \notin Data
BY WorkspaceConstants

LEMMA EndType ==
  ASSUME NEW B, Laid(B), NEW b \in DOMAIN B
  PROVE  /\ b \in Nat /\ B[b].size \in Nat /\ B[b].size > 0 /\ End(B, b) \in Nat /\ b < End(B, b)
         /\ membase <= b
<1>1. B[b] \in BlockType /\ b \in Nat /\ membase <= b BY DEF Laid
<1>2. PICK n \in Nat : n = B[b].size /\ n > 0 BY <1>1 DEF BlockType
<1>3. End(B, b) = b + n BY <1>2 DEF End
<1> QED BY <1>1, <1>2, <1>3

LEMMA FreeType ==
  ASSUME NEW B, Laid(B), NEW m \in Nat
  PROVE  Free(B, m) \in SUBSET Nat /\ \A a \in Free(B, m) : a < m /\ a \notin DOMAIN B /\ membase <= a
<1>1. \A b \in DOMAIN B : End(B, b) \in Nat /\ membase <= End(B, b) BY EndType, Constants
<1> QED BY <1>1, Constants DEF Free

(* A free block does not begin inside a block.                               *)
LEMMA NotInside ==
  ASSUME NEW B, Laid(B), NEW m \in Nat, NEW a \in Free(B, m), NEW b \in DOMAIN B, b < a
  PROVE  End(B, b) <= a
<1>1. a \in Nat /\ a \notin DOMAIN B BY FreeType
<1>2. b \in Nat /\ End(B, b) \in Nat /\ membase <= b BY EndType
<1>3. a # membase BY <1>1, <1>2, Constants
<1>4. PICK c \in DOMAIN B : a = End(B, c) BY <1>3 DEF Free
<1>5. c \in Nat /\ c < End(B, c) BY EndType
<1>6. CASE b < c
  <2>1. End(B, b) <= c BY <1>6 DEF Laid
  <2> QED BY <1>1, <1>2, <1>4, <1>5, <2>1
<1>7. CASE c < b
  <2>1. End(B, c) <= b BY <1>7 DEF Laid
  <2> QED BY <1>1, <1>2, <1>4, <2>1
<1>8. CASE b = c BY <1>1, <1>4, <1>8
<1> QED BY <1>2, <1>5, <1>6, <1>7, <1>8

LEMMA AfterIs ==
  ASSUME NEW B, Laid(B), NEW m \in Nat, NEW a \in Nat, a < m
  PROVE  /\ After(B, m, a) \in Nat /\ a < After(B, m, a) /\ After(B, m, a) <= m
         /\ \A b \in DOMAIN B : a < b => After(B, m, a) <= b
         /\ After(B, m, a) = m \/ After(B, m, a) \in DOMAIN B
<1>1. PICK S : S = {b \in DOMAIN B : b > a} \cup {m} OBVIOUS
<1>2. S \in SUBSET Nat /\ S # {} /\ m \in S BY <1>1 DEF Laid
<1>3. Min(S) \in S /\ \A k \in S : Min(S) <= k BY <1>2, MinOfNaturals
<1>4. PICK x \in Nat : x = Min(S) /\ x = After(B, m, a) BY <1>1, <1>2, <1>3 DEF After
<1> QED BY <1>1, <1>2, <1>3, <1>4

(* A block put in a free one.                                                *)
LEMMA PutLaid ==
  ASSUME NEW B, Laid(B), NEW m \in Nat, Below(B, m), NEW a \in Free(B, m),
         NEW x \in BlockType, a + x.size <= After(B, m, a),
         NEW C, C = [b \in DOMAIN B \cup {a} |-> IF b = a THEN x ELSE B[b]]
  PROVE  Laid(C) /\ Below(C, m)
<1>1. a \in Nat /\ a < m /\ a \notin DOMAIN B /\ membase <= a BY FreeType
<1>2. /\ After(B, m, a) \in Nat /\ After(B, m, a) <= m
      /\ \A b \in DOMAIN B : a < b => After(B, m, a) <= b
  BY <1>1, AfterIs
<1>3. PICK n \in Nat : n = x.size BY DEF BlockType
<1>4. DOMAIN C = DOMAIN B \cup {a} /\ C[a] = x /\ \A b \in DOMAIN B : C[b] = B[b] BY <1>1
<1>5. End(C, a) = a + n /\ a + n <= m BY <1>1, <1>2, <1>3, <1>4 DEF End
<1>6. \A b \in DOMAIN B : End(C, b) = End(B, b) BY <1>4 DEF End
<1>7. \A b \in DOMAIN C : C[b] \in BlockType BY <1>4 DEF Laid
<1>8. C \in [DOMAIN C -> BlockType] BY <1>7
<1>9. DOMAIN C \subseteq Nat /\ \A b \in DOMAIN C : membase <= b BY <1>1, <1>4 DEF Laid
<1>10. ASSUME NEW b \in DOMAIN C, NEW c \in DOMAIN C, b < c PROVE End(C, b) <= c
  <2>1. CASE b = a
    <3>1. c \in DOMAIN B /\ c \in Nat BY <1>1, <1>4, <1>9, <1>10, <2>1
    <3>2. After(B, m, a) <= c BY <1>2, <1>10, <2>1, <3>1
    <3> QED BY <1>1, <1>2, <1>3, <1>5, <2>1, <3>1, <3>2
  <2>2. CASE b # a /\ c = a
    <3>1. b \in DOMAIN B BY <1>4, <2>2
    <3>2. End(B, b) <= a BY <1>10, <2>2, <3>1, NotInside
    <3> QED BY <1>6, <2>2, <3>1, <3>2
  <2>3. CASE b # a /\ c # a
    <3>1. b \in DOMAIN B /\ c \in DOMAIN B BY <1>4, <2>3
    <3> QED BY <1>6, <1>10, <3>1 DEF Laid
  <2> QED BY <2>1, <2>2, <2>3
<1>11. Below(C, m) BY <1>4, <1>5, <1>6 DEF Below
<1> QED BY <1>8, <1>9, <1>10, <1>11 DEF Laid

LEMMA LessLaid ==
  ASSUME NEW B, Laid(B), NEW m \in Nat, Below(B, m), NEW S, NEW C, C = Restrict(B, DOMAIN B \cap S)
  PROVE  /\ Laid(C) /\ Below(C, m) /\ DOMAIN C = DOMAIN B \cap S
         /\ \A b \in DOMAIN C : C[b] = B[b] /\ End(C, b) = End(B, b)
<1>1. DOMAIN C = DOMAIN B \cap S /\ \A b \in DOMAIN C : C[b] = B[b] BY DEF Restrict
<1>2. \A b \in DOMAIN C : b \in DOMAIN B /\ End(C, b) = End(B, b) BY <1>1 DEF End
<1>3. C = [b \in DOMAIN C |-> B[b]] BY <1>1 DEF Restrict
<1>4. C \in [DOMAIN C -> BlockType] BY <1>1, <1>2, <1>3 DEF Laid
<1> QED BY <1>1, <1>2, <1>4 DEF Laid, Below

-----------------------------------------------------------------------------
(* The runs of a workspace whose first block is not free.                    *)
Ready(B, m) == Laid(B) /\ m \in Nat /\ Below(B, m) /\ membase \in DOMAIN B

LEMMA StopIs ==
  ASSUME NEW B, NEW m, Ready(B, m), NEW a \in Nat, a <= m
  PROVE  /\ Stop(B, m, a) \in Nat /\ a <= Stop(B, m, a) /\ Stop(B, m, a) <= m
         /\ Stop(B, m, a) = m \/ Stop(B, m, a) \in Free(B, m)
         /\ \A e \in Free(B, m) : a <= e => Stop(B, m, a) <= e
         /\ Stop(B, m, a) \notin DOMAIN B
<1>1. Free(B, m) \in SUBSET Nat /\ \A e \in Free(B, m) : e < m /\ e \notin DOMAIN B
  BY FreeType DEF Ready
<1>2. m \in Nat /\ m \notin DOMAIN B
  <2>1. \A b \in DOMAIN B : b < End(B, b) /\ End(B, b) <= m /\ b \in Nat /\ End(B, b) \in Nat
    BY EndType DEF Ready, Below
  <2> QED BY <2>1 DEF Ready
<1>3. PICK S : S = {e \in Free(B, m) : e >= a} \cup {m} OBVIOUS
<1>4. S \in SUBSET Nat /\ S # {} /\ m \in S BY <1>1, <1>2, <1>3
<1>5. Min(S) \in S /\ \A k \in S : Min(S) <= k BY <1>4, MinOfNaturals
<1>6. PICK x \in Nat : x = Min(S) /\ x = Stop(B, m, a) BY <1>3, <1>4, <1>5 DEF Stop
<1> QED BY <1>1, <1>2, <1>3, <1>4, <1>5, <1>6

LEMMA StopAfterBlock ==
  ASSUME NEW B, NEW m, Ready(B, m), NEW a \in DOMAIN B
  PROVE  a \in Nat /\ a < m /\ a < Stop(B, m, a)
<1>1. a \in Nat /\ a < End(B, a) /\ End(B, a) \in Nat /\ End(B, a) <= m /\ m \in Nat
  BY EndType DEF Ready, Below
<1>2. a < m BY <1>1
<1>3. Stop(B, m, a) \in Nat /\ a <= Stop(B, m, a) /\ Stop(B, m, a) \notin DOMAIN B BY <1>1, <1>2, StopIs
<1> QED BY <1>1, <1>2, <1>3

(* A block that begins in a run ends in it, and there the next one begins    *)
(* or the run ends.                                                          *)
LEMMA InRun ==
  ASSUME NEW B, NEW m, Ready(B, m), NEW a \in Nat, a <= m,
         NEW b \in DOMAIN B, b < Stop(B, m, a)
  PROVE  /\ End(B, b) <= Stop(B, m, a)
         /\ a <= b => End(B, b) \in DOMAIN B \/ End(B, b) = Stop(B, m, a)
<1>1. /\ Stop(B, m, a) \in Nat /\ Stop(B, m, a) <= m /\ m \in Nat
      /\ Stop(B, m, a) = m \/ Stop(B, m, a) \in Free(B, m)
      /\ \A e \in Free(B, m) : a <= e => Stop(B, m, a) <= e
  BY StopIs DEF Ready
<1>2. b \in Nat /\ b < End(B, b) /\ End(B, b) \in Nat /\ End(B, b) <= m BY EndType DEF Ready, Below
<1>3. End(B, b) <= Stop(B, m, a)
  <2>1. CASE Stop(B, m, a) = m BY <1>2, <2>1
  <2>2. CASE Stop(B, m, a) \in Free(B, m) BY <2>2, NotInside DEF Ready
  <2> QED BY <1>1, <2>1, <2>2
<1>4. ASSUME a <= b, End(B, b) \notin DOMAIN B, End(B, b) # Stop(B, m, a) PROVE FALSE
  <2>1. End(B, b) < Stop(B, m, a) BY <1>1, <1>2, <1>3, <1>4
  <2>2. End(B, b) < m BY <1>1, <1>2, <2>1
  <2>3. End(B, b) \in Free(B, m) BY <1>4, <2>2 DEF Free
  <2>4. Stop(B, m, a) <= End(B, b) BY <1>1, <1>2, <1>4, <2>3
  <2> QED BY <1>1, <1>2, <2>1, <2>4
<1> QED BY <1>3, <1>4

(* Among the blocks from a up to e there is one that begins last.            *)
LEMMA LastBlock ==
  ASSUME NEW B, Laid(B), NEW a \in DOMAIN B, NEW e \in Nat, a < e
  PROVE  \E b \in DOMAIN B : a <= b /\ b < e /\ \A c \in DOMAIN B : c < e => c <= b
<1>1. PICK S : S = {k \in Nat : \E b \in DOMAIN B : a <= b /\ b < e /\ k = e - b} OBVIOUS
<1>2. a \in Nat /\ DOMAIN B \subseteq Nat BY DEF Laid
<1>3. e - a \in S BY <1>1, <1>2
<1>4. PICK k \in S : \A j \in S : k <= j BY <1>1, <1>3, LeastNatural
<1>5. PICK b \in DOMAIN B : a <= b /\ b < e /\ k = e - b BY <1>1, <1>4
<1>6. ASSUME NEW c \in DOMAIN B, c < e PROVE c <= b
  <2>1. CASE c < a BY <1>2, <1>5, <2>1
  <2>2. CASE a <= c
    <3>1. e - c \in S BY <1>1, <1>2, <1>6, <2>2
    <3>2. k <= e - c BY <1>4, <3>1
    <3> QED BY <1>2, <1>5, <3>2
  <2> QED BY <1>2, <2>1, <2>2
<1> QED BY <1>5, <1>6

LEMMA StopIsEnd ==
  ASSUME NEW B, NEW m, Ready(B, m), NEW a \in DOMAIN B
  PROVE  \E b \in DOMAIN B : End(B, b) = Stop(B, m, a)
<1>1. a \in Nat /\ a < m /\ a < Stop(B, m, a) BY StopAfterBlock
<1>2. Stop(B, m, a) \in Nat /\ m \in Nat /\ Stop(B, m, a) \notin DOMAIN B BY <1>1, StopIs DEF Ready
<1>3. PICK b \in DOMAIN B : a <= b /\ b < Stop(B, m, a)
                            /\ \A c \in DOMAIN B : c < Stop(B, m, a) => c <= b
  BY <1>1, <1>2, LastBlock DEF Ready
<1>4. /\ End(B, b) <= Stop(B, m, a)
      /\ End(B, b) \in DOMAIN B \/ End(B, b) = Stop(B, m, a)
  BY <1>1, <1>2, <1>3, InRun
<1>5. b \in Nat /\ b < End(B, b) /\ End(B, b) \in Nat BY EndType DEF Ready
<1>6. ASSUME End(B, b) \in DOMAIN B PROVE FALSE
  <2>1. End(B, b) < Stop(B, m, a) BY <1>2, <1>4, <1>5, <1>6
  <2>2. End(B, b) <= b BY <1>3, <1>6, <2>1
  <2> QED BY <1>5, <2>2
<1> QED BY <1>4, <1>6

(* A run ends before the next one begins: a free block is between them.      *)
LEMMA RunsApart ==
  ASSUME NEW B, NEW m, Ready(B, m), NEW a \in Heads(B), NEW h \in Heads(B), a < h
  PROVE  Stop(B, m, a) < h
<1>1. a \in DOMAIN B /\ h \in DOMAIN B BY DEF Heads, Ready
<1>2. a \in Nat /\ h \in Nat /\ a < m /\ h < m /\ m \in Nat /\ membase \in Nat /\ membase <= a
  BY <1>1, StopAfterBlock, EndType, Constants DEF Ready
<1>3. Stop(B, m, a) \in Nat /\ Stop(B, m, a) \notin DOMAIN B BY <1>2, StopIs
<1>4. \A b \in DOMAIN B : End(B, b) # h BY <1>2 DEF Heads
<1>5. SUFFICES ASSUME h < Stop(B, m, a) PROVE FALSE BY <1>1, <1>2, <1>3
<1>6. PICK b \in DOMAIN B : a <= b /\ b < h /\ \A c \in DOMAIN B : c < h => c <= b
  BY <1>1, <1>2, LastBlock DEF Ready
<1>7. b \in Nat /\ b < End(B, b) /\ End(B, b) \in Nat BY EndType DEF Ready
<1>8. End(B, b) <= h BY <1>1, <1>6 DEF Ready, Laid
<1>9. b < Stop(B, m, a) BY <1>2, <1>3, <1>5, <1>6, <1>7
<1>10. End(B, b) \in DOMAIN B \/ End(B, b) = Stop(B, m, a) BY <1>2, <1>6, <1>9, InRun
<1>11. End(B, b) < h BY <1>2, <1>4, <1>7, <1>8
<1>12. End(B, b) \in DOMAIN B BY <1>2, <1>3, <1>5, <1>7, <1>10, <1>11
<1>13. End(B, b) <= b BY <1>6, <1>11, <1>12
<1> QED BY <1>7, <1>13

(* Every block is in a run.                                                  *)
LEMMA InSomeRun ==
  ASSUME NEW B, NEW m, Ready(B, m), NEW b \in DOMAIN B
  PROVE  \E a \in Heads(B) : a <= b /\ b < Stop(B, m, a)
<1>1. b \in Nat /\ membase \in Nat /\ membase <= b /\ DOMAIN B \subseteq Nat /\ Heads(B) \subseteq DOMAIN B
  BY EndType, Constants DEF Ready, Laid, Heads
<1>2. PICK S : S = {k \in Nat : \E a \in Heads(B) : a <= b /\ k = b - a} OBVIOUS
<1>3. b - membase \in S BY <1>1, <1>2 DEF Heads
<1>4. PICK k \in S : \A j \in S : k <= j BY <1>2, <1>3, LeastNatural
<1>5. PICK a \in Heads(B) : a <= b /\ k = b - a BY <1>2, <1>4
<1>6. \A h \in Heads(B) : h <= b => h <= a
  <2>1. ASSUME NEW h \in Heads(B), h <= b PROVE h <= a
    <3>1. b - h \in S BY <1>1, <1>2, <2>1
    <3>2. b - a <= b - h BY <1>4, <1>5, <3>1
    <3> QED BY <1>1, <3>2
  <2> QED BY <2>1
<1>7. a \in DOMAIN B /\ a \in Nat /\ a < m /\ m \in Nat BY <1>1, StopAfterBlock DEF Ready
<1>8. /\ Stop(B, m, a) \in Nat /\ a < Stop(B, m, a) /\ Stop(B, m, a) \notin DOMAIN B
      /\ Stop(B, m, a) = m \/ Stop(B, m, a) \in Free(B, m)
  BY <1>7, StopIs, StopAfterBlock
<1>9. ASSUME ~(b < Stop(B, m, a)) PROVE FALSE
  <2>1. PICK s \in Nat : s = Stop(B, m, a) BY <1>8
  <2>2. PICK T : T = {c \in DOMAIN B : s <= c} OBVIOUS
  <2>3. b \in T /\ T \in SUBSET Nat BY <1>1, <1>9, <2>1, <2>2
  <2>4. PICK c \in T : \A d \in T : c <= d BY <2>3, LeastNatural
  <2>5. c \in DOMAIN B /\ s <= c /\ c <= b /\ c \in Nat BY <1>1, <2>2, <2>3, <2>4
  <2>6. c # s BY <1>8, <2>1, <2>5
  <2>7. ASSUME NEW d \in DOMAIN B, End(B, d) = c PROVE FALSE
    <3>1. d \in Nat /\ d < End(B, d) BY EndType DEF Ready
    <3>2. d \notin T BY <2>4, <2>5, <2>7, <3>1
    <3>3. d < s BY <2>1, <2>2, <3>1, <3>2
    <3>4. End(B, d) <= s BY <1>7, <2>1, <3>3, InRun
    <3> QED BY <2>1, <2>5, <2>6, <2>7, <3>4
  <2>8. c \in Heads(B) BY <2>5, <2>7 DEF Heads
  <2>9. c <= a BY <1>6, <2>5, <2>8
  <2> QED BY <1>7, <1>8, <2>1, <2>5, <2>9
<1> QED BY <1>5, <1>9

-----------------------------------------------------------------------------
(* The members of a finite set of naturals in their order.  The number of    *)
(* members below one is 0, ..., n - 1, each once: the numbers rise with the  *)
(* members, so that they are n, and there are no more.                       *)
Rank(S, a) == Cardinality({b \in S : b < a})

LEMMA RankRises ==
  ASSUME NEW S \in SUBSET Nat, IsFiniteSet(S)
  PROVE  /\ \A a \in S : Rank(S, a) \in 0 .. Cardinality(S) - 1
         /\ \A a \in S : \A h \in S : a < h => Rank(S, a) < Rank(S, h)
<1>1. ASSUME NEW a \in S PROVE Rank(S, a) \in 0 .. Cardinality(S) - 1
  <2>1. PICK T : T = {b \in S : b < a} OBVIOUS
  <2>2. T \subseteq S \ {a} BY <2>1
  <2>3. /\ IsFiniteSet(S \ {a}) /\ Cardinality(S \ {a}) = Cardinality(S) - 1
        /\ Cardinality(S) \in Nat
    BY FS_RemoveElement, FS_CardinalityType
  <2>4. IsFiniteSet(T) /\ Cardinality(T) <= Cardinality(S \ {a}) BY <2>2, <2>3, FS_Subset
  <2>5. Cardinality(T) \in Nat BY <2>4, FS_CardinalityType
  <2> QED BY <2>1, <2>3, <2>4, <2>5 DEF Rank
<1>2. ASSUME NEW a \in S, NEW h \in S, a < h PROVE Rank(S, a) < Rank(S, h)
  <2>1. PICK T : T = {b \in S : b < a} OBVIOUS
  <2>2. PICK U : U = {b \in S : b < h} OBVIOUS
  <2>3. a \in U /\ T \subseteq U \ {a}
    <3>1. a \in Nat /\ h \in Nat OBVIOUS
    <3>2. ASSUME NEW b \in T PROVE b \in U \ {a}
      <4>1. b \in S /\ b < a BY <2>1, <3>2
      <4>2. b \in Nat BY <4>1
      <4>3. b < h /\ b # a BY <1>2, <3>1, <4>1, <4>2
      <4> QED BY <2>2, <4>1, <4>3
    <3> QED BY <1>2, <2>2, <3>2
  <2>4. U \in SUBSET S BY <2>2
  <2>5. IsFiniteSet(U) BY <2>4, FS_Subset
  <2>6. IsFiniteSet(U \ {a}) /\ Cardinality(U \ {a}) = Cardinality(U) - 1 /\ Cardinality(U) \in Nat
    BY <2>3, <2>5, FS_RemoveElement, FS_CardinalityType
  <2>7. IsFiniteSet(T) /\ Cardinality(T) <= Cardinality(U \ {a}) BY <2>3, <2>6, FS_Subset
  <2>8. Cardinality(T) \in Nat BY <2>7, FS_CardinalityType
  <2> QED BY <2>1, <2>2, <2>6, <2>7, <2>8 DEF Rank
<1> QED BY <1>1, <1>2

LEMMA NthIs ==
  ASSUME NEW S \in SUBSET Nat, IsFiniteSet(S)
  PROVE  /\ \A i \in 1 .. Cardinality(S) : Nth(S, i) \in S
         /\ \A i \in 1 .. Cardinality(S) : \A j \in 1 .. Cardinality(S) : i < j => Nth(S, i) < Nth(S, j)
         /\ \A a \in S : \E i \in 1 .. Cardinality(S) : a = Nth(S, i)
<1>1. PICK n \in Nat : n = Cardinality(S) BY FS_CardinalityType
<1>2. /\ \A a \in S : Rank(S, a) \in 0 .. n - 1
      /\ \A a \in S : \A h \in S : a < h => Rank(S, a) < Rank(S, h)
  BY <1>1, RankRises
<1>3. \A a \in S : \A h \in S : Rank(S, a) = Rank(S, h) => a = h
  <2>1. ASSUME NEW a \in S, NEW h \in S, Rank(S, a) = Rank(S, h) PROVE a = h
    <3>1. Rank(S, a) \in 0 .. n - 1 /\ Rank(S, h) \in 0 .. n - 1 BY <1>2
    <3>2. ~(a < h) BY <1>2, <2>1, <3>1
    <3>3. ~(h < a) BY <1>2, <2>1, <3>1
    <3> QED BY <3>2, <3>3
  <2> QED BY <2>1
<1>4. PICK r : r = [a \in S |-> Rank(S, a)] OBVIOUS
<1>5. r \in [S -> 0 .. n - 1] BY <1>2, <1>4
<1>6. r \in Injection(S, 0 .. n - 1) BY <1>3, <1>4, <1>5 DEF Injection, IsInjective
<1>7. IsFiniteSet(0 .. n - 1) /\ Cardinality(0 .. n - 1) = n
  <2>1. 0 \in Int /\ n - 1 \in Int OBVIOUS
  <2>2. /\ IsFiniteSet(0 .. n - 1)
        /\ Cardinality(0 .. n - 1) = IF 0 > n - 1 THEN 0 ELSE (n - 1) - 0 + 1
    BY <2>1, FS_Interval
  <2> QED BY <2>2
<1>8. r \in Surjection(S, 0 .. n - 1) BY <1>1, <1>6, <1>7, FS_Injection
<1>9. \A k \in 0 .. n - 1 : \E a \in S : Rank(S, a) = k BY <1>4, <1>8 DEF Surjection
<1>10. ASSUME NEW i \in 1 .. n PROVE Nth(S, i) \in S /\ Rank(S, Nth(S, i)) = i - 1
  <2>1. i - 1 \in 0 .. n - 1 BY <1>1
  <2>2. PICK a \in S : Rank(S, a) = i - 1 BY <1>9, <2>1
  <2>3. Nth(S, i) = CHOOSE x \in S : Rank(S, x) = i - 1 BY DEF Nth, Rank
  <2> QED BY <2>2, <2>3
<1>11. ASSUME NEW i \in 1 .. n, NEW j \in 1 .. n, i < j PROVE Nth(S, i) < Nth(S, j)
  <2>1. PICK a \in S : a = Nth(S, i) /\ Rank(S, a) = i - 1 BY <1>10
  <2>2. PICK h \in S : h = Nth(S, j) /\ Rank(S, h) = j - 1 BY <1>10
  <2>3. ~(h < a)
    <3>1. SUFFICES ASSUME h < a PROVE FALSE OBVIOUS
    <3>2. Rank(S, h) < Rank(S, a) BY <1>2, <3>1
    <3> QED BY <1>11, <2>1, <2>2, <3>2
  <2>4. h # a BY <1>11, <2>1, <2>2
  <2> QED BY <2>1, <2>2, <2>3, <2>4
<1>12. ASSUME NEW a \in S PROVE \E i \in 1 .. n : a = Nth(S, i)
  <2>1. PICK k \in 0 .. n - 1 : k = Rank(S, a) BY <1>2
  <2>2. k + 1 \in 1 .. n BY <1>1
  <2>3. Nth(S, k + 1) \in S /\ Rank(S, Nth(S, k + 1)) = k BY <1>10, <2>2
  <2>4. a = Nth(S, k + 1) BY <1>3, <2>1, <2>3
  <2> QED BY <2>2, <2>4
<1> QED BY <1>1, <1>10, <1>11, <1>12

-----------------------------------------------------------------------------
(* The runs that wsdump writes.                                              *)
RunsOf(B, m) ==
  [i \in 1 .. Cardinality(Heads(B)) |->
     LET a == Nth(Heads(B), i)
     IN  [cnt   |-> Stop(B, m, a) - a, addr |-> a,
          words |-> Restrict(B, {b \in DOMAIN B : a <= b /\ b < Stop(B, m, a)})]]
Ends(R, i) == R[i].addr + R[i].cnt

(* Runs R have all the blocks of B: they begin with the first block, each    *)
(* ends before the next, and where a block in one ends the next block begins *)
(* or the run ends.                                                          *)
Spans(R, B) ==
  /\ R[1].addr = membase
  /\ \A i \in DOMAIN R : /\ R[i].addr \in DOMAIN B /\ R[i].cnt # 0 /\ Ends(R, i) \in Nat
                         /\ Ends(R, i) \notin DOMAIN B /\ R[i].addr < Ends(R, i)
                         /\ \E b \in DOMAIN B : End(B, b) = Ends(R, i)
                         /\ R[i].words = Restrict(B, {b \in DOMAIN B : R[i].addr <= b /\ b < Ends(R, i)})
  /\ \A i \in DOMAIN R : \A j \in DOMAIN R : i < j => Ends(R, i) < R[j].addr
  /\ \A b \in DOMAIN B : \E i \in DOMAIN R :
       /\ R[i].addr <= b /\ b < Ends(R, i)
       /\ End(B, b) \in DOMAIN B \/ End(B, b) = Ends(R, i)

LEMMA RunsSpan ==
  ASSUME NEW B, NEW m, Ready(B, m), NEW R, R = RunsOf(B, m)
  PROVE  /\ \E n \in Nat : n > 0 /\ DOMAIN R = 1 .. n /\ Len(R) = n /\ R \in Seq(Range(R))
         /\ Spans(R, B)
<1>1. PICK H : H = Heads(B) OBVIOUS
<1>2. H \subseteq DOMAIN B /\ membase \in H /\ DOMAIN B \subseteq Nat /\ m \in Nat
  BY <1>1 DEF Heads, Ready, Laid
<1>3. \A h \in H : h \in Nat /\ h < m /\ h < Stop(B, m, h) /\ membase <= h
  BY <1>2, StopAfterBlock, EndType DEF Ready
<1>4. H \in SUBSET Nat /\ \A h \in H : h <= m BY <1>2, <1>3
<1>5. IsFiniteSet(H) BY <1>2, <1>4, FS_BoundedSetOfNaturals
<1>6. PICK n \in Nat : n = Cardinality(H) BY <1>5, FS_CardinalityType
<1>7. /\ \A i \in 1 .. n : Nth(H, i) \in H
      /\ \A i \in 1 .. n : \A j \in 1 .. n : i < j => Nth(H, i) < Nth(H, j)
      /\ \A a \in H : \E i \in 1 .. n : a = Nth(H, i)
  BY <1>4, <1>5, <1>6, NthIs
<1>8. DOMAIN R = 1 .. n BY <1>1, <1>6 DEF RunsOf
<1>9. ASSUME NEW i \in 1 .. n
      PROVE  /\ R[i].addr = Nth(H, i) /\ R[i].cnt = Stop(B, m, Nth(H, i)) - Nth(H, i)
             /\ R[i].words = Restrict(B, {b \in DOMAIN B : Nth(H, i) <= b /\ b < Stop(B, m, Nth(H, i))})
  BY <1>1, <1>6 DEF RunsOf
<1>10. \A h \in H : Stop(B, m, h) \in Nat BY <1>3, <1>4, StopIs
<1>11. \A i \in 1 .. n : Ends(R, i) = Stop(B, m, Nth(H, i))
  <2>1. ASSUME NEW i \in 1 .. n PROVE Ends(R, i) = Stop(B, m, Nth(H, i))
    <3>1. PICK h \in H : h = Nth(H, i) BY <1>7
    <3>2. PICK s \in Nat : s = Stop(B, m, h) BY <1>10
    <3>3. h \in Nat BY <1>3
    <3>4. R[i].addr = h /\ R[i].cnt = s - h BY <1>9, <3>1, <3>2
    <3>5. h + (s - h) = s BY <3>2, <3>3
    <3> QED BY <3>1, <3>2, <3>4, <3>5 DEF Ends
  <2> QED BY <2>1
<1>12. n > 0 /\ R[1].addr = membase
  <2>1. PICK i \in 1 .. n : membase = Nth(H, i) BY <1>2, <1>7
  <2>2. 1 \in 1 .. n BY <2>1
  <2>3. Nth(H, 1) \in H BY <1>7, <2>2
  <2>4. ~(1 < i)
    <3>1. SUFFICES ASSUME 1 < i PROVE FALSE OBVIOUS
    <3>2. Nth(H, 1) < membase BY <1>7, <2>1, <2>2, <3>1
    <3> QED BY <1>3, <2>3, <3>2, Constants
  <2>5. i = 1 BY <2>1, <2>4
  <2>6. R[1].addr = Nth(H, 1) BY <1>9, <2>2
  <2>7. n > 0 BY <1>6, <2>2
  <2> QED BY <2>1, <2>5, <2>6, <2>7
<1>13. ASSUME NEW i \in 1 .. n
       PROVE  /\ R[i].addr \in DOMAIN B /\ R[i].cnt # 0 /\ Ends(R, i) \in Nat
              /\ Ends(R, i) \notin DOMAIN B /\ R[i].addr < Ends(R, i)
              /\ \E b \in DOMAIN B : End(B, b) = Ends(R, i)
              /\ R[i].words = Restrict(B, {b \in DOMAIN B : R[i].addr <= b /\ b < Ends(R, i)})
  <2>1. PICK h \in H : h = Nth(H, i) BY <1>7
  <2>2. PICK s \in Nat : s = Stop(B, m, h) BY <1>10
  <2>3. h \in DOMAIN B /\ h \in Nat /\ h < s /\ h <= m BY <1>2, <1>3, <1>4, <2>2
  <2>4. R[i].addr = h /\ R[i].cnt = s - h /\ Ends(R, i) = s BY <1>9, <1>11, <2>1, <2>2
  <2>5. s \notin DOMAIN B BY <2>2, <2>3, StopIs
  <2>6. \E b \in DOMAIN B : End(B, b) = s BY <2>2, <2>3, StopIsEnd
  <2>7. R[i].words = Restrict(B, {b \in DOMAIN B : R[i].addr <= b /\ b < Ends(R, i)})
    BY <1>9, <2>1, <2>2, <2>4
  <2>8. s - h # 0 BY <2>3
  <2> QED BY <2>3, <2>4, <2>5, <2>6, <2>7, <2>8
<1>14. ASSUME NEW i \in 1 .. n, NEW j \in 1 .. n, i < j PROVE Ends(R, i) < R[j].addr
  <2>1. Nth(H, i) \in H /\ Nth(H, j) \in H /\ Nth(H, i) < Nth(H, j) BY <1>7, <1>14
  <2>2. Stop(B, m, Nth(H, i)) < Nth(H, j) BY <1>1, <2>1, RunsApart
  <2> QED BY <1>9, <1>11, <2>2
<1>15. ASSUME NEW b \in DOMAIN B
       PROVE  \E i \in DOMAIN R : /\ R[i].addr <= b /\ b < Ends(R, i)
                                  /\ End(B, b) \in DOMAIN B \/ End(B, b) = Ends(R, i)
  <2>1. PICK h \in H : h <= b /\ b < Stop(B, m, h) BY <1>1, InSomeRun
  <2>2. PICK i \in 1 .. n : h = Nth(H, i) BY <1>7
  <2>3. h \in Nat /\ h <= m BY <1>3, <1>4
  <2>4. End(B, b) \in DOMAIN B \/ End(B, b) = Stop(B, m, h) BY <2>1, <2>3, InRun
  <2> QED BY <1>8, <1>9, <1>11, <2>1, <2>2, <2>4
<1>16. R \in Seq(Range(R)) /\ Len(R) = n
  <2>1. R = [i \in 1 .. n |-> R[i]] BY <1>1, <1>6 DEF RunsOf
  <2>2. \A i \in 1 .. n : R[i] \in Range(R) BY <1>8 DEF Range
  <2>3. R \in [1 .. n -> Range(R)] BY <2>1, <2>2
  <2> QED BY <1>8, <2>3
<1>17. Spans(R, B) BY <1>8, <1>12, <1>13, <1>14, <1>15 DEF Spans
<1> QED BY <1>8, <1>12, <1>16, <1>17

-----------------------------------------------------------------------------
(* Reading the runs.  What wsload has when it has read the runs that end     *)
(* before e.                                                                 *)
Upto(B, e) == Restrict(B, {b \in DOMAIN B : b < e})

LEMMA SpansType ==
  ASSUME NEW B, Laid(B), NEW R, Spans(R, B), NEW i \in DOMAIN R
  PROVE  R[i].addr \in Nat /\ Ends(R, i) \in Nat /\ R[i].addr < Ends(R, i) /\ R[i].addr \in DOMAIN B
BY EndType DEF Spans

(* A block before a run is in an earlier one, and one after a run in a later *)
(* one.                                                                      *)
LEMMA BlockBetween ==
  ASSUME NEW B, Laid(B), NEW R, Spans(R, B), NEW n \in Nat, DOMAIN R = 1 .. n,
         NEW i \in 1 .. n, NEW b \in DOMAIN B
  PROVE  /\ Ends(R, i) <= b => i < n /\ R[i + 1].addr <= b
         /\ b < R[1].addr => FALSE
<1>1. b \in Nat /\ membase <= b /\ membase \in Nat BY EndType, Constants
<1>2. PICK j \in 1 .. n : R[j].addr <= b /\ b < Ends(R, j) BY DEF Spans
<1>3. /\ R[j].addr \in Nat /\ Ends(R, j) \in Nat /\ R[j].addr < Ends(R, j)
      /\ R[i].addr \in Nat /\ Ends(R, i) \in Nat /\ R[i].addr < Ends(R, i)
  BY SpansType
<1>4. ASSUME Ends(R, i) <= b PROVE i < n /\ R[i + 1].addr <= b
  <2>1. j # i BY <1>1, <1>2, <1>3, <1>4
  <2>2. ~(j < i)
    <3>1. SUFFICES ASSUME j < i PROVE FALSE OBVIOUS
    <3>2. Ends(R, j) < R[i].addr BY <3>1 DEF Spans
    <3> QED BY <1>1, <1>2, <1>3, <1>4, <3>2
  <2>3. i < j BY <2>1, <2>2
  <2>4. i + 1 \in 1 .. n /\ i < n BY <2>3
  <2>5. CASE j = i + 1 BY <1>2, <2>4, <2>5
  <2>6. CASE i + 1 < j
    <3>1. Ends(R, i + 1) < R[j].addr BY <2>4, <2>6 DEF Spans
    <3>2. R[i + 1].addr \in Nat /\ Ends(R, i + 1) \in Nat /\ R[i + 1].addr < Ends(R, i + 1)
      BY <2>4, SpansType
    <3> QED BY <1>1, <1>2, <1>3, <2>4, <3>1, <3>2
  <2> QED BY <2>3, <2>5, <2>6
<1>5. R[1].addr = membase BY DEF Spans
<1> QED BY <1>1, <1>4, <1>5

LEMMA ReadRun ==
  ASSUME NEW B, Laid(B), NEW R, Spans(R, B), NEW n \in Nat, DOMAIN R = 1 .. n, NEW i \in 1 .. n
  PROVE  /\ i = 1 => R[i].words = Upto(B, Ends(R, i))
         /\ i > 1 => Merged(R[i].words, Upto(B, Ends(R, i - 1))) = Upto(B, Ends(R, i))
         /\ i > 1 => Ends(R, i - 1) < R[i].addr
<1>1. PICK D : D = {b \in DOMAIN B : R[i].addr <= b /\ b < Ends(R, i)} OBVIOUS
<1>2. R[i].words = Restrict(B, D) BY <1>1 DEF Spans
<1>3. R[i].addr \in Nat /\ Ends(R, i) \in Nat /\ R[i].addr < Ends(R, i) BY SpansType
<1>4. PICK U : U = {b \in DOMAIN B : b < Ends(R, i)} OBVIOUS
<1>5. Upto(B, Ends(R, i)) = Restrict(B, U) BY <1>4 DEF Upto
<1>6. ASSUME i = 1 PROVE R[i].words = Upto(B, Ends(R, i))
  <2>1. \A b \in DOMAIN B : b \in Nat /\ ~(b < R[i].addr) BY <1>6, BlockBetween DEF Laid
  <2>2. D = U BY <1>1, <1>3, <1>4, <2>1
  <2> QED BY <1>2, <1>5, <2>2
<1>7. ASSUME i > 1
      PROVE  /\ Merged(R[i].words, Upto(B, Ends(R, i - 1))) = Upto(B, Ends(R, i))
             /\ Ends(R, i - 1) < R[i].addr
  <2>1. i - 1 \in 1 .. n /\ i - 1 < i /\ (i - 1) + 1 = i BY <1>7
  <2>2. PICK e \in Nat : e = Ends(R, i - 1) BY <2>1, SpansType
  <2>3. e < R[i].addr BY <2>1, <2>2 DEF Spans
  <2>4. PICK V : V = {b \in DOMAIN B : b < e} OBVIOUS
  <2>5. Upto(B, Ends(R, i - 1)) = Restrict(B, V) BY <2>2, <2>4 DEF Upto
  <2>6. \A b \in DOMAIN B : b \in Nat /\ (e <= b => R[i].addr <= b) BY <2>1, <2>2, BlockBetween DEF Laid
  <2>7. D \cup V = U
    <3>1. ASSUME NEW b \in DOMAIN B PROVE b \in D \cup V <=> b \in U
      <4>1. b \in Nat /\ (e <= b => R[i].addr <= b) BY <2>6
      <4>2. b \in D <=> R[i].addr <= b /\ b < Ends(R, i) BY <1>1
      <4>3. b \in V <=> b < e BY <2>4
      <4>4. b \in U <=> b < Ends(R, i) BY <1>4
      <4> QED BY <1>3, <2>2, <2>3, <4>1, <4>2, <4>3, <4>4
    <3>2. D \subseteq DOMAIN B /\ V \subseteq DOMAIN B /\ U \subseteq DOMAIN B BY <1>1, <1>4, <2>4
    <3> QED BY <3>1, <3>2
  <2>8. DOMAIN Restrict(B, D) = D /\ DOMAIN Restrict(B, V) = V BY DEF Restrict
  <2>9. Merged(Restrict(B, D), Restrict(B, V)) = [x \in U |-> B[x]]
    <3>1. Merged(Restrict(B, D), Restrict(B, V))
            = [x \in D \cup V |-> IF x \in D THEN Restrict(B, D)[x] ELSE Restrict(B, V)[x]]
      BY <2>8 DEF Merged
    <3>2. \A x \in D \cup V : (IF x \in D THEN Restrict(B, D)[x] ELSE Restrict(B, V)[x]) = B[x]
      BY DEF Restrict
    <3> QED BY <2>7, <3>1, <3>2
  <2>10. Restrict(B, U) = [x \in U |-> B[x]] BY DEF Restrict
  <2> QED BY <1>2, <1>5, <2>2, <2>3, <2>5, <2>9, <2>10
<1> QED BY <1>6, <1>7

(* When all runs are read all blocks are there, and the free blocks are what *)
(* is between the runs and after the last one.                               *)
LEMMA ReadAll ==
  ASSUME NEW B, Laid(B), NEW R, Spans(R, B), NEW n \in Nat, DOMAIN R = 1 .. n, n > 0
  PROVE  Upto(B, Ends(R, n)) = B
<1>1. n \in 1 .. n OBVIOUS
<1>2. Ends(R, n) \in Nat BY <1>1, SpansType
<1>3. ASSUME NEW b \in DOMAIN B PROVE b < Ends(R, n)
  <2>1. b \in Nat BY DEF Laid
  <2>2. ~(Ends(R, n) <= b) BY <1>1, BlockBetween
  <2> QED BY <1>2, <2>1, <2>2
<1>4. {b \in DOMAIN B : b < Ends(R, n)} = DOMAIN B BY <1>3
<1>5. B = [b \in DOMAIN B |-> B[b]] BY DEF Laid
<1> QED BY <1>4, <1>5 DEF Upto, Restrict

NextRun(R, n, M, i) == IF i < n THEN R[i + 1].addr ELSE M

LEMMA FreeIsBetween ==
  ASSUME NEW B, Laid(B), NEW R, Spans(R, B), NEW n \in Nat, DOMAIN R = 1 .. n, n > 0,
         NEW w \in Nat, Below(B, w), NEW M \in Nat, w < M
  PROVE  /\ Free(B, M) = {Ends(R, i) : i \in 1 .. n}
         /\ \A i \in 1 .. n : /\ After(B, M, Ends(R, i)) = NextRun(R, n, M, i)
                              /\ Ends(R, i) <= w
<1>1. \A i \in 1 .. n : Ends(R, i) \in Nat /\ Ends(R, i) <= w /\ Ends(R, i) \notin DOMAIN B
  <2>1. ASSUME NEW i \in 1 .. n PROVE Ends(R, i) \in Nat /\ Ends(R, i) <= w /\ Ends(R, i) \notin DOMAIN B
    <3>1. PICK b \in DOMAIN B : End(B, b) = Ends(R, i) BY DEF Spans
    <3>2. End(B, b) <= w BY DEF Below
    <3> QED BY <3>1, <3>2 DEF Spans
  <2> QED BY <2>1
<1>2. ASSUME NEW a \in Free(B, M) PROVE \E i \in 1 .. n : a = Ends(R, i)
  <2>1. a \notin DOMAIN B BY <1>2, FreeType
  <2>2. 1 \in 1 .. n OBVIOUS
  <2>3. membase \in DOMAIN B BY <2>2 DEF Spans
  <2>4. PICK b \in DOMAIN B : a = End(B, b) BY <2>1, <2>3 DEF Free
  <2> QED BY <2>1, <2>4 DEF Spans
<1>3. ASSUME NEW i \in 1 .. n PROVE Ends(R, i) \in Free(B, M)
  <2>1. PICK b \in DOMAIN B : End(B, b) = Ends(R, i) BY DEF Spans
  <2>2. Ends(R, i) < M BY <1>1
  <2> QED BY <1>1, <2>1, <2>2 DEF Free
<1>4. ASSUME NEW i \in 1 .. n PROVE After(B, M, Ends(R, i)) = NextRun(R, n, M, i)
  <2>1. PICK e \in Nat : e = Ends(R, i) /\ e < M BY <1>1
  <2>2. PICK S : S = {b \in DOMAIN B : b > e} \cup {M} OBVIOUS
  <2>3. S \in SUBSET Nat BY <2>2 DEF Laid
  <2>4. PICK x : x = NextRun(R, n, M, i) OBVIOUS
  <2>5. x \in S /\ x \in Nat
    <3>1. CASE i < n
      <4>1. i + 1 \in 1 .. n /\ x = R[i + 1].addr BY <2>4, <3>1 DEF NextRun
      <4>2. R[i + 1].addr \in DOMAIN B /\ R[i + 1].addr \in Nat BY <4>1, SpansType
      <4>3. e < R[i + 1].addr BY <2>1, <3>1, <4>1 DEF Spans
      <4> QED BY <2>2, <4>1, <4>2, <4>3
    <3>2. CASE ~(i < n) BY <2>2, <2>4, <3>2 DEF NextRun
    <3> QED BY <3>1, <3>2
  <2>6. ASSUME NEW k \in S PROVE x <= k
    <3>1. CASE k = M
      <4>1. CASE x = M BY <2>5, <3>1, <4>1
      <4>2. CASE x # M
        <5>1. x \in DOMAIN B BY <2>2, <2>5, <4>2
        <5>2. End(B, x) <= w /\ x < End(B, x) /\ End(B, x) \in Nat BY <5>1, EndType DEF Below
        <5> QED BY <2>5, <3>1, <5>2
      <4> QED BY <4>1, <4>2
    <3>2. CASE k # M
      <4>1. k \in DOMAIN B /\ k \in Nat /\ e <= k BY <2>1, <2>2, <2>3, <3>2
      <4>2. i < n /\ R[i + 1].addr <= k BY <2>1, <4>1, BlockBetween
      <4> QED BY <2>4, <4>2 DEF NextRun
    <3> QED BY <3>1, <3>2
  <2>7. Min(S) = x BY <2>3, <2>5, <2>6, MinIs
  <2> QED BY <2>1, <2>2, <2>4, <2>7 DEF After
<1> QED BY <1>1, <1>2, <1>3, <1>4

-----------------------------------------------------------------------------
(* The invariant.  What is true of the files: a file whose G is written was  *)
(* made from a workspace of some size m, and has the first of its runs, all  *)
(* of them if it is whole.                                                   *)
Has(B, b, c)   == b \in DOMAIN B /\ B[b].holds = c
PrefixOf(F, R) == \E k \in 0 .. Len(R) : F.runs = [i \in 1 .. k |-> R[i]] /\ (F.whole => k = Len(R))
SavedFrom(F, m) == Ready(F.of.blk, m) /\ PrefixOf(F, RunsOf(F.of.blk, m))

FileOK(F) ==
  F.G # none =>
    /\ F.G \in GType
    /\ F.G.stkareabase = F.of.stkareabase /\ Has(F.of.blk, F.of.stkareabase, "stack")
    /\ F.G.atomtblbase = F.of.atomtblbase /\ Has(F.of.blk, F.of.atomtblbase, "atoms")
    /\ Below(F.of.blk, F.G.wssize)
    /\ \E m \in 0 .. MaxMemSize : SavedFrom(F, m)

(* The free blocks between the first k + 1 runs.                             *)
Between(R, k) == [i \in 1 .. k |-> <<Ends(R, i), R[i + 1].addr - Ends(R, i)>>]

ReadFrom(F, m) ==
  /\ SavedFrom(F, m)
  /\ ld.n \in 0 .. Len(F.runs)
  /\ ld.n = 0 => ld.nextaddr = membase /\ ld.free = <<>>
  /\ ld.n > 0 => /\ ld.nextaddr = Ends(RunsOf(F.of.blk, m), ld.n)
                 /\ blk = Upto(F.of.blk, ld.nextaddr)
                 /\ ld.free = Between(RunsOf(F.of.blk, m), ld.n - 1)

Sizes ==
  /\ memsize \in DfMemSize .. MaxMemSize /\ Laid(blk) /\ Below(blk, memsize) /\ G \in GType
  /\ stkarea \in Nat /\ stklim \in Nat \cup {-1} /\ atomtbl \in Nat
  /\ mode \in {"run", "load", "lost"}
Pointed ==
  /\ stkarea = G.stkareabase /\ Has(blk, stkarea, "stack") /\ blk[stkarea].words = stklim
  /\ atomtbl = G.atomtblbase /\ Has(blk, atomtbl, "atoms")
FilesOK ==
  /\ file = [f \in Names |-> file[f]]
  /\ \A f \in Names : file[f] # none => FileOK(file[f])
Reading ==
  /\ ld = [f |-> ld.f, n |-> ld.n, nextaddr |-> ld.nextaddr, free |-> ld.free]
  /\ ld.f \in Names /\ file[ld.f] # none /\ file[ld.f].G # none /\ G = file[ld.f].G
  /\ stkarea = G.stkareabase /\ file[ld.f].of.blk[stkarea].words = stklim
  /\ G.wssize + MinHeapSpace <= memsize
  /\ \E m \in 0 .. MaxMemSize : ReadFrom(file[ld.f], m)

IInv ==
  /\ Sizes
  /\ Running => Pointed
  /\ FilesOK
  /\ Loading => Reading

-----------------------------------------------------------------------------
(* The operators of Workspace in these terms.                                *)
GapsOf(B, m) == {<<a, After(B, m, a) - a>> : a \in Free(B, m)}

LEMMA InTheseTerms ==
  /\ \A b : EndOf(b) = End(blk, b)
  /\ FreeAddrs = Free(blk, memsize)
  /\ \A a : NextUsed(a) = After(blk, memsize, a)
  /\ Gaps = GapsOf(blk, memsize)
  /\ Starts = Heads(blk)
  /\ \A a : RunEnd(a) = Stop(blk, memsize, a)
  /\ Runs = RunsOf(blk, memsize)
<1>1. \A b : EndOf(b) = End(blk, b) BY DEF EndOf, End
<1>2. FreeAddrs = Free(blk, memsize) BY <1>1 DEF FreeAddrs, Free
<1>3. \A a : NextUsed(a) = After(blk, memsize, a) BY DEF NextUsed, After
<1>4. Gaps = GapsOf(blk, memsize) BY <1>2, <1>3 DEF Gaps, GapsOf
<1>5. Starts = Heads(blk) BY <1>1 DEF Starts, RunStart, Heads
<1>6. \A a : RunEnd(a) = Stop(blk, memsize, a) BY <1>2 DEF RunEnd, Stop
<1>7. Runs = RunsOf(blk, memsize) BY <1>5, <1>6 DEF Runs, RunsOf, RunAt
<1> QED BY <1>1, <1>2, <1>3, <1>4, <1>5, <1>6, <1>7

LEMMA NewLaid ==
  /\ Laid(NewBlocks) /\ Below(NewBlocks, DfMemSize) /\ NewG \in GType
  /\ Has(NewBlocks, membase, "stack") /\ NewBlocks[membase].words = DfStkLim
  /\ Has(NewBlocks, membase + DfStkLim, "atoms")
<1>1. PICK h \in Nat : h = membase + DfStkLim BY Constants
<1>2. membase \in Nat /\ membase < h /\ DfStkLim \in Nat \ {0} /\ AtomTblSize \in Nat \ {0} BY <1>1, Constants
<1>3. NewBlocks = [b \in {membase, h} |->
                     IF b = membase THEN Block(DfStkLim, "stack") ELSE Block(AtomTblSize, "atoms")]
  BY <1>1 DEF NewBlocks
<1>4. DOMAIN NewBlocks = {membase, h} BY <1>3
<1>5. NewBlocks[membase] = Block(DfStkLim, "stack") /\ NewBlocks[h] = Block(AtomTblSize, "atoms")
  BY <1>2, <1>3
<1>6. /\ NewBlocks[membase].size = DfStkLim /\ NewBlocks[membase].words = DfStkLim
      /\ NewBlocks[membase].holds = "stack"
      /\ NewBlocks[h].size = AtomTblSize /\ NewBlocks[h].holds = "atoms"
  BY <1>5 DEF Block
<1>7. NewBlocks[membase] \in BlockType /\ NewBlocks[h] \in BlockType
  BY <1>2, <1>5 DEF Block, BlockType, Holdings
<1>8. NewBlocks \in [DOMAIN NewBlocks -> BlockType] BY <1>3, <1>4, <1>7
<1>9. End(NewBlocks, membase) = h /\ End(NewBlocks, h) = h + AtomTblSize BY <1>1, <1>6 DEF End
<1>10. h + AtomTblSize <= DfMemSize /\ h <= DfMemSize
  BY <1>1, <1>2, Constants
<1>11. \A b \in DOMAIN NewBlocks : \A c \in DOMAIN NewBlocks : b < c => End(NewBlocks, b) <= c
  BY <1>2, <1>4, <1>9
<1>12. Laid(NewBlocks) BY <1>2, <1>4, <1>8, <1>11 DEF Laid
<1>13. Below(NewBlocks, DfMemSize) BY <1>4, <1>9, <1>10 DEF Below
<1>14. NewG \in GType BY <1>1, <1>2 DEF NewG, GType
<1> QED BY <1>1, <1>4, <1>6, <1>12, <1>13, <1>14 DEF Has

(* What malloc does to the blocks, and what freeing one does.                *)
Puts(C, a, n, c) ==
  /\ Laid(C) /\ Below(C, memsize) /\ a \in Nat /\ a \notin DOMAIN blk
  /\ DOMAIN C = DOMAIN blk \cup {a} /\ \A b \in DOMAIN blk : C[b] = blk[b]
  /\ Has(C, a, c) /\ C[a].words = n

LEMMA MallocPuts ==
  ASSUME Sizes, NEW n \in Nat, n >= MinSize, NEW c \in Holdings, NEW g \in Fits(n)
  PROVE  Puts(With(g, n, c), g[1], n, c)
<1>1. memsize \in Nat /\ Laid(blk) /\ Below(blk, memsize) BY Constants DEF Sizes
<1>2. g \in GapsOf(blk, memsize) /\ g[2] >= n BY InTheseTerms DEF Fits
<1>3. PICK a \in Free(blk, memsize) : g = <<a, After(blk, memsize, a) - a>> BY <1>2 DEF GapsOf
<1>4. a \in Nat /\ a < memsize /\ a \notin DOMAIN blk BY <1>1, <1>3, FreeType
<1>5. PICK x \in Nat : x = After(blk, memsize, a) /\ a < x BY <1>1, <1>4, AfterIs
<1>6. PICK k \in Nat : k = x - a /\ g[2] = k /\ g[1] = a BY <1>3, <1>4, <1>5
<1>7. PICK t : t = Taken(g, n, c) OBVIOUS
<1>8. MinSize \in Nat /\ MinSize > 0 BY Constants
<1>9. t = [size |-> IF k - n < MinSize THEN k ELSE n, words |-> n, holds |-> c]
  BY <1>6, <1>7 DEF Taken, Block
<1>10. t \in BlockType /\ t.words = n /\ t.holds = c /\ t.size \in Nat /\ t.size <= k
  <2>1. k >= n /\ n > 0 BY <1>2, <1>6, <1>8
  <2>2. PICK s \in Nat : s = (IF k - n < MinSize THEN k ELSE n) /\ s > 0 /\ s <= k BY <2>1
  <2>3. t = [size |-> s, words |-> n, holds |-> c] BY <1>9, <2>2
  <2> QED BY <2>2, <2>3 DEF BlockType
<1>11. a + t.size <= After(blk, memsize, a) BY <1>4, <1>5, <1>6, <1>10
<1>12. PICK C : C = With(g, n, c) OBVIOUS
<1>13. C = [b \in DOMAIN blk \cup {a} |-> IF b = a THEN t ELSE blk[b]] BY <1>6, <1>7, <1>12 DEF With
<1>14. Laid(C) /\ Below(C, memsize) BY <1>1, <1>3, <1>10, <1>11, <1>13, PutLaid
<1>15. DOMAIN C = DOMAIN blk \cup {a} /\ C[a] = t /\ \A b \in DOMAIN blk : C[b] = blk[b]
  BY <1>4, <1>13
<1> QED BY <1>4, <1>6, <1>10, <1>12, <1>14, <1>15 DEF Puts, Has

LEMMA FreeLess ==
  ASSUME NEW B, Laid(B), NEW m \in Nat, Below(B, m), NEW b
  PROVE  /\ Laid(Less(B, b)) /\ Below(Less(B, b), m) /\ DOMAIN Less(B, b) = DOMAIN B \ {b}
         /\ \A a \in DOMAIN Less(B, b) : Less(B, b)[a] = B[a]
<1>1. PICK S : S = DOMAIN B \ {b} OBVIOUS
<1>2. DOMAIN B \cap S = S BY <1>1
<1>3. PICK C : C = Less(B, b) OBVIOUS
<1>4. C = Restrict(B, DOMAIN B \cap S) BY <1>1, <1>2, <1>3 DEF Less
<1>5. /\ Laid(C) /\ Below(C, m) /\ DOMAIN C = DOMAIN B \cap S
      /\ \A a \in DOMAIN C : C[a] = B[a]
  BY <1>4, LessLaid
<1> QED BY <1>1, <1>2, <1>3, <1>5

LEMMA IncrementType ==
  ASSUME memsize \in Nat, NEW n \in Int, n + MinHeapSpace >= 0
  PROVE  Increment(n) \in Nat /\ (expansion => Increment(n) >= n + MinHeapSpace)
<1>1. PICK y \in Nat : y = n + MinHeapSpace BY Constants
<1>2. PICK p \in Nat : p = memsize \div 5 OBVIOUS
<1>3. PICK q \in Nat : q = DfMemSize \div 2 BY Constants
<1>4. Min({p, q}) \in {p, q} BY MinOfNaturals
<1>5. PICK x \in Nat : x = Min({p, q}) BY <1>4
<1>6. Max({x, y}) = IF x >= y THEN x ELSE y BY MaxOfTwo
<1>7. Max({x, y}) \in Nat /\ Max({x, y}) >= y BY <1>6
<1>8. Increment(n) = IF ~expansion THEN MinHeapSpace ELSE Max({x, y})
  BY <1>1, <1>2, <1>3, <1>5 DEF Increment
<1> QED BY <1>1, <1>7, <1>8, Constants

-----------------------------------------------------------------------------
(* The steps of a session.                                                   *)
AllKept == UNCHANGED <<file, mode, ld>>

LEMMA KeptAre ==
  ASSUME FilesOK, AllKept
  PROVE  FilesOK'
BY DEF FilesOK, AllKept

LEMMA InitIInv == Init => IInv
<1> SUFFICES ASSUME Init PROVE IInv OBVIOUS
<1>1. Sizes
  <2>1. DfMemSize \in DfMemSize .. MaxMemSize /\ membase + DfStkLim \in Nat BY Constants
  <2> QED BY <2>1, NewLaid, Constants DEF Init, Sizes
<1>2. Pointed BY NewLaid DEF Init, Pointed, NewG
<1>3. FilesOK BY DEF Init, FilesOK
<1>4. ~Loading BY DEF Init, Loading
<1> QED BY <1>1, <1>2, <1>3, <1>4 DEF IInv

LEMMA NewArrayStep ==
  ASSUME IInv, NEW d \in Data, NEW n \in DataSizes, NewArray(d, n)
  PROVE  IInv'
<1>1. Running /\ Sizes /\ Pointed /\ FilesOK /\ AllKept BY DEF NewArray, Session, IInv, AllKept
<1>2. n \in Nat /\ n >= MinSize /\ d \in Holdings BY Constants DEF Holdings
<1>3. PICK g \in Fits(n) : blk' = With(g, n, d) BY DEF NewArray
<1>4. PICK a : a = g[1] OBVIOUS
<1>5. Puts(blk', a, n, d) BY <1>1, <1>2, <1>3, <1>4, MallocPuts
<1>6. UNCHANGED <<memsize, G, stkarea, stklim, atomtbl, mode>> BY <1>1 DEF NewArray, AllKept
<1>7. Sizes' BY <1>1, <1>5, <1>6 DEF Sizes, Puts
<1>8. Pointed' BY <1>1, <1>5, <1>6 DEF Pointed, Puts, Has
<1>9. FilesOK' BY <1>1, KeptAre
<1>10. ~Loading' BY <1>1, <1>6 DEF Running, Loading
<1> QED BY <1>7, <1>8, <1>9, <1>10 DEF IInv

LEMMA FreeArrayStep ==
  ASSUME IInv, NEW b \in DOMAIN blk, FreeArray(b)
  PROVE  IInv'
<1>1. Running /\ Sizes /\ Pointed /\ FilesOK /\ AllKept BY DEF FreeArray, Session, IInv, AllKept
<1>2. blk' = Less(blk, b) /\ blk[b].holds \in Data BY DEF FreeArray
<1>3. memsize \in Nat BY <1>1, Constants DEF Sizes
<1>4. /\ Laid(blk') /\ Below(blk', memsize) /\ DOMAIN blk' = DOMAIN blk \ {b}
      /\ \A a \in DOMAIN blk' : blk'[a] = blk[a]
  BY <1>1, <1>2, <1>3, FreeLess DEF Sizes
<1>5. UNCHANGED <<memsize, G, stkarea, stklim, atomtbl, mode>> BY <1>1 DEF FreeArray, AllKept
<1>6. Sizes' BY <1>1, <1>4, <1>5 DEF Sizes
<1>7. stkarea # b /\ atomtbl # b BY <1>1, <1>2, Constants DEF Pointed, Has
<1>8. Pointed' BY <1>1, <1>4, <1>5, <1>7 DEF Pointed, Has
<1>9. FilesOK' BY <1>1, KeptAre
<1>10. ~Loading' BY <1>1, <1>5 DEF Running, Loading
<1> QED BY <1>6, <1>8, <1>9, <1>10 DEF IInv

LEMMA PointedType ==
  ASSUME Sizes, Pointed
  PROVE  /\ memsize \in Nat /\ stklim \in Nat /\ blk[atomtbl].words \in Nat
         /\ stkarea \in DOMAIN blk /\ atomtbl \in DOMAIN blk
<1>1. \A b \in DOMAIN blk : blk[b].words \in Nat BY DEF Sizes, Laid, BlockType
<1> QED BY <1>1, Constants DEF Sizes, Pointed, Has

(* A block is taken for what another one holds, which is then freed.         *)
LEMMA MovePuts ==
  ASSUME Sizes, NEW n \in Nat, NEW c \in Holdings, NEW C, NEW a, Puts(C, a, n, c),
         NEW b \in DOMAIN blk, NEW E, E = Less(C, b)
  PROVE  /\ Laid(E) /\ Below(E, memsize) /\ a \in Nat /\ a \in DOMAIN E
         /\ Has(E, a, c) /\ E[a].words = n
         /\ \A x \in DOMAIN blk : x # b => x \in DOMAIN E /\ E[x] = blk[x]
<1>1. PICK m \in Nat : m = memsize BY Constants DEF Sizes
<1>2. /\ Laid(E) /\ Below(E, memsize) /\ DOMAIN E = DOMAIN C \ {b}
      /\ \A x \in DOMAIN E : E[x] = C[x]
  <2>1. Laid(C) /\ Below(C, m) BY <1>1 DEF Puts
  <2>2. /\ Laid(Less(C, b)) /\ Below(Less(C, b), m) /\ DOMAIN Less(C, b) = DOMAIN C \ {b}
        /\ \A x \in DOMAIN Less(C, b) : Less(C, b)[x] = C[x]
    BY <2>1, FreeLess
  <2> QED BY <1>1, <2>2
<1>3. a # b /\ a \in DOMAIN E BY <1>2 DEF Puts
<1> QED BY <1>2, <1>3 DEF Puts, Has

LEMMA growstackStep ==
  ASSUME IInv, growstack
  PROVE  IInv'
<1>1. Running /\ Sizes /\ Pointed /\ FilesOK /\ AllKept BY DEF growstack, Session, IInv, AllKept
<1>2. stklim \in Nat /\ memsize \in Nat BY <1>1, PointedType
<1>3. PICK n \in Nat : n = stklim + DfStkLim /\ n >= MinSize BY <1>2, Constants
<1>4. PICK g \in Fits(n) : /\ blk' = Less(With(g, n, "stack"), G.stkareabase)
                           /\ G' = [G EXCEPT !.stkareabase = g[1]] /\ stkarea' = g[1]
  BY <1>3 DEF growstack
<1>5. stklim' = n /\ memsize' = memsize /\ atomtbl' = atomtbl /\ mode' = mode
  BY <1>1, <1>3 DEF growstack, AllKept
<1>6. PICK a : a = g[1] OBVIOUS
<1>7. PICK C : C = With(g, n, "stack") OBVIOUS
<1>8. Puts(C, a, n, "stack") BY <1>1, <1>3, <1>6, <1>7, MallocPuts DEF Holdings
<1>9. G.stkareabase = stkarea /\ stkarea \in DOMAIN blk BY <1>1 DEF Pointed, Has
<1>10. /\ Laid(blk') /\ Below(blk', memsize) /\ a \in Nat /\ a \in DOMAIN blk'
       /\ Has(blk', a, "stack") /\ blk'[a].words = n
       /\ \A x \in DOMAIN blk : x # stkarea => x \in DOMAIN blk' /\ blk'[x] = blk[x]
  BY <1>1, <1>4, <1>7, <1>8, <1>9, MovePuts DEF Holdings
<1>11. G' \in GType /\ G'.stkareabase = a /\ G'.atomtblbase = G.atomtblbase
  BY <1>1, <1>4, <1>6, <1>10 DEF Sizes, GType
<1>12. Sizes' BY <1>1, <1>4, <1>5, <1>6, <1>10, <1>11 DEF Sizes
<1>13. atomtbl # stkarea BY <1>1 DEF Pointed, Has
<1>14. Pointed' BY <1>1, <1>4, <1>5, <1>6, <1>10, <1>11, <1>13 DEF Pointed, Has
<1>15. FilesOK' BY <1>1, KeptAre
<1>16. ~Loading' BY <1>1, <1>5 DEF Running, Loading
<1> QED BY <1>12, <1>14, <1>15, <1>16 DEF IInv

LEMMA rehashStep ==
  ASSUME IInv, rehash
  PROVE  IInv'
<1>1. Running /\ Sizes /\ Pointed /\ FilesOK /\ AllKept BY DEF rehash, Session, IInv, AllKept
<1>2. G.atomtblbase = atomtbl /\ atomtbl \in DOMAIN blk BY <1>1 DEF Pointed, Has
<1>3. blk[atomtbl].words \in Nat /\ memsize \in Nat BY <1>1, PointedType
<1>4. PICK n \in Nat : n = blk[G.atomtblbase].words + AtomTblSize /\ n >= MinSize
  BY <1>2, <1>3, Constants
<1>5. PICK g \in Fits(n) : /\ blk' = Less(With(g, n, "atoms"), G.atomtblbase)
                           /\ G' = [G EXCEPT !.atomtblbase = g[1]] /\ atomtbl' = g[1]
  BY <1>4 DEF rehash
<1>6. stklim' = stklim /\ memsize' = memsize /\ stkarea' = stkarea /\ mode' = mode
  BY <1>1 DEF rehash, AllKept
<1>7. PICK a : a = g[1] OBVIOUS
<1>8. PICK C : C = With(g, n, "atoms") OBVIOUS
<1>9. Puts(C, a, n, "atoms") BY <1>1, <1>4, <1>7, <1>8, MallocPuts DEF Holdings
<1>10. /\ Laid(blk') /\ Below(blk', memsize) /\ a \in Nat /\ a \in DOMAIN blk'
       /\ Has(blk', a, "atoms") /\ blk'[a].words = n
       /\ \A x \in DOMAIN blk : x # atomtbl => x \in DOMAIN blk' /\ blk'[x] = blk[x]
  BY <1>1, <1>2, <1>5, <1>8, <1>9, MovePuts DEF Holdings
<1>11. G' \in GType /\ G'.atomtblbase = a /\ G'.stkareabase = G.stkareabase
  BY <1>1, <1>5, <1>7, <1>10 DEF Sizes, GType
<1>12. Sizes' BY <1>1, <1>5, <1>6, <1>7, <1>10, <1>11 DEF Sizes
<1>13. atomtbl # stkarea BY <1>1 DEF Pointed, Has
<1>14. Pointed' BY <1>1, <1>5, <1>6, <1>7, <1>10, <1>11, <1>13 DEF Pointed, Has
<1>15. FilesOK' BY <1>1, KeptAre
<1>16. ~Loading' BY <1>1, <1>6 DEF Running, Loading
<1> QED BY <1>12, <1>14, <1>15, <1>16 DEF IInv

LEMMA GrowSizes ==
  ASSUME Sizes, NEW n \in Int, n + MinHeapSpace >= 0, Expand(n)
  PROVE  /\ memsize' \in DfMemSize .. MaxMemSize /\ memsize <= memsize' /\ Below(blk, memsize')
         /\ expansion => memsize' >= memsize + n + MinHeapSpace
<1>1. memsize \in Nat /\ DfMemSize \in Nat /\ MaxMemSize \in Nat /\ DfMemSize <= memsize
  BY Constants DEF Sizes
<1>2. Increment(n) \in Nat /\ (expansion => Increment(n) >= n + MinHeapSpace) BY <1>1, IncrementType
<1>3. PICK k \in Nat : k = Increment(n) BY <1>2
<1>4. memsize' = memsize + k /\ memsize + k <= MaxMemSize BY <1>3 DEF Expand
<1>5. memsize' \in DfMemSize .. MaxMemSize /\ memsize <= memsize' BY <1>1, <1>4
<1>6. Below(blk, memsize')
  <2>1. ASSUME NEW b \in DOMAIN blk PROVE End(blk, b) <= memsize'
    <3>1. End(blk, b) \in Nat /\ End(blk, b) <= memsize BY EndType DEF Sizes, Below
    <3> QED BY <1>1, <1>4, <3>1
  <2> QED BY <2>1 DEF Below
<1>7. expansion => memsize' >= memsize + n + MinHeapSpace
  <2>1. SUFFICES ASSUME expansion PROVE memsize' >= memsize + n + MinHeapSpace OBVIOUS
  <2>2. k >= n + MinHeapSpace BY <1>2, <1>3, <2>1
  <2> QED BY <1>1, <1>3, <1>4, <2>2, Constants
<1> QED BY <1>5, <1>6, <1>7

LEMMA expand_heapStep ==
  ASSUME IInv, expand_heap
  PROVE  IInv'
<1>1. Running /\ Sizes /\ Pointed /\ FilesOK /\ AllKept BY DEF expand_heap, Session, IInv, AllKept
<1>2. stklim \in Nat /\ stkarea \in DOMAIN blk BY <1>1, PointedType
<1>3. PICK n \in DataSizes \cup {stklim + DfStkLim} : Expand(n) BY DEF expand_heap
<1>4. n \in Nat /\ n + MinHeapSpace >= 0 BY <1>2, Constants
<1>5. memsize' \in DfMemSize .. MaxMemSize /\ Below(blk, memsize') BY <1>1, <1>3, <1>4, GrowSizes
<1>6. blk' = blk /\ G' = G /\ mode' = mode BY <1>1 DEF expand_heap, AllKept
<1>7. stkarea' = stkarea /\ stklim' = stklim /\ atomtbl' = atomtbl
  <2>1. CASE Moves(G) BY <1>1, <2>1 DEF Moves, Tally, Pointed, Has
  <2>2. CASE Stays BY <2>2 DEF Stays
  <2> QED BY <2>1, <2>2 DEF expand_heap
<1>8. Sizes' BY <1>1, <1>5, <1>6, <1>7 DEF Sizes
<1>9. Pointed' BY <1>1, <1>6, <1>7 DEF Pointed, Has
<1>10. FilesOK' BY <1>1, KeptAre
<1>11. ~Loading' BY <1>1, <1>6 DEF Running, Loading
<1> QED BY <1>8, <1>9, <1>10, <1>11 DEF IInv

LEMMA RestartStep ==
  ASSUME IInv, Restart
  PROVE  IInv'
<1>1. Sizes'
  <2>1. DfMemSize \in DfMemSize .. MaxMemSize /\ membase + DfStkLim \in Nat BY Constants
  <2> QED BY <2>1, NewLaid, Constants DEF Restart, Sizes
<1>2. Pointed' BY NewLaid DEF Restart, Pointed, NewG
<1>3. FilesOK' BY DEF IInv, Restart, FilesOK
<1>4. ~Loading' BY DEF Restart, Loading
<1> QED BY <1>1, <1>2, <1>3, <1>4 DEF IInv

-----------------------------------------------------------------------------
(* What the theorems suppose of the sessions: no save is made while the first *)
(* block is free, and a load finds the stack where the file has it.          *)
FirstUsed  == "first block free" \notin Uses
StackStays == "stack elsewhere" \notin Uses

(* A save.  Nothing is allocated from wssize on.                             *)
LEMMA SizeWritten ==
  ASSUME Sizes
  PROVE  WsSize \in Nat /\ Below(blk, WsSize)
<1>1. memsize \in Nat /\ Laid(blk) /\ Below(blk, memsize) BY Constants DEF Sizes
<1>2. CASE ~\E g \in Gaps : g[1] = highest /\ g[1] + g[2] = memsize BY <1>1, <1>2 DEF WsSize
<1>3. CASE \E g \in Gaps : g[1] = highest /\ g[1] + g[2] = memsize
  <2>1. PICK g \in Gaps : g[1] = highest /\ g[1] + g[2] = memsize BY <1>3
  <2>2. WsSize = g[1] BY <1>3, <2>1 DEF WsSize
  <2>3. g \in GapsOf(blk, memsize) BY InTheseTerms
  <2>4. PICK a \in Free(blk, memsize) : g = <<a, After(blk, memsize, a) - a>> BY <2>3 DEF GapsOf
  <2>5. a \in Nat /\ a < memsize /\ a \notin DOMAIN blk BY <1>1, <2>4, FreeType
  <2>6. PICK x \in Nat : x = After(blk, memsize, a) /\ \A b \in DOMAIN blk : a < b => x <= b
    BY <1>1, <2>5, AfterIs
  <2>7. x = memsize BY <1>1, <2>1, <2>4, <2>5, <2>6
  <2>8. ASSUME NEW b \in DOMAIN blk PROVE End(blk, b) <= a
    <3>1. b \in Nat /\ End(blk, b) \in Nat /\ b < End(blk, b) /\ End(blk, b) <= memsize
      BY <1>1, EndType DEF Below
    <3>2. ~(a < b) BY <1>1, <2>6, <2>7, <3>1
    <3>3. b < a BY <2>5, <3>1, <3>2
    <3> QED BY <1>1, <2>4, <3>3, NotInside
  <2> QED BY <2>2, <2>4, <2>5, <2>8 DEF Below
<1> QED BY <1>2, <1>3

LEMMA DumpedOK ==
  ASSUME Sizes, Pointed, membase \in DOMAIN blk, NEW n \in 0 .. Len(Runs) + 2
  PROVE  FileOK(Dumped(n))
<1>1. SUFFICES ASSUME n # 0 PROVE FileOK(Dumped(n)) BY DEF FileOK, Dumped
<1>2. memsize \in 0 .. MaxMemSize BY Constants DEF Sizes
<1>3. Ready(blk, memsize) BY <1>2 DEF Sizes, Ready
<1>4. PICK R : R = Runs OBVIOUS
<1>5. R = RunsOf(blk, memsize) BY <1>4, InTheseTerms
<1>6. PICK N \in Nat : N > 0 /\ DOMAIN R = 1 .. N /\ Len(R) = N /\ R \in Seq(Range(R))
  BY <1>3, <1>5, RunsSpan
<1>7. PICK F : F = Dumped(n) OBVIOUS
<1>8. /\ F.G = [G EXCEPT !.wssize = WsSize]
      /\ F.runs = SubSeq(R, 1, IF n - 1 < N THEN n - 1 ELSE N)
      /\ F.whole = (n = N + 2)
      /\ F.of = [blk |-> blk, stkareabase |-> G.stkareabase, atomtblbase |-> G.atomtblbase]
  BY <1>1, <1>4, <1>6, <1>7 DEF Dumped
<1>9. /\ F.G \in GType /\ F.G.wssize = WsSize /\ F.G.stkareabase = G.stkareabase
      /\ F.G.atomtblbase = G.atomtblbase
  BY <1>8, SizeWritten DEF Sizes, GType
<1>10. Below(F.of.blk, F.G.wssize) BY <1>8, <1>9, SizeWritten
<1>11. PICK k \in 0 .. N : k = (IF n - 1 < N THEN n - 1 ELSE N) /\ (n = N + 2 => k = N)
  BY <1>1, <1>4, <1>6
<1>12. F.runs = [i \in 1 .. k |-> R[i]]
  <2>1. F.runs = SubSeq(R, 1, k) BY <1>8, <1>11
  <2>2. SubSeq(R, 1, k) = [i \in 1 .. k |-> R[i]]
    <3>1. SubSeq(R, 1, k) \in Seq(Range(R)) /\ Len(SubSeq(R, 1, k)) = k BY <1>6, <1>11
    <3>2. \A i \in 1 .. k : SubSeq(R, 1, k)[i] = R[i] BY <1>6, <1>11
    <3>3. SubSeq(R, 1, k) = [i \in 1 .. k |-> SubSeq(R, 1, k)[i]] BY <3>1
    <3> QED BY <3>2, <3>3
  <2> QED BY <2>1, <2>2
<1>13. PrefixOf(F, R) BY <1>6, <1>8, <1>11, <1>12 DEF PrefixOf
<1>14. SavedFrom(F, memsize) BY <1>3, <1>5, <1>8, <1>13 DEF SavedFrom
<1>15. /\ Has(F.of.blk, F.of.stkareabase, "stack") /\ Has(F.of.blk, F.of.atomtblbase, "atoms")
       /\ F.of.stkareabase = G.stkareabase /\ F.of.atomtblbase = G.atomtblbase
  BY <1>8 DEF Pointed
<1> QED BY <1>2, <1>7, <1>9, <1>10, <1>14, <1>15 DEF FileOK

LEMMA wsdumpStep ==
  ASSUME IInv, FirstUsed, NEW f \in Names, wsdump(f)
  PROVE  IInv'
<1>1. Running /\ Sizes /\ Pointed /\ FilesOK BY DEF wsdump, IInv
<1>2. membase \in DOMAIN blk BY DEF wsdump, FirstUsed
<1>3. PICK n \in 0 .. Len(Runs) + 2 : file' = [file EXCEPT ![f] = Dumped(n)] BY DEF wsdump
<1>4. G' = [G EXCEPT !.wssize = WsSize] /\ UNCHANGED <<memsize, blk, stkarea, stklim, atomtbl, mode>>
  BY DEF wsdump
<1>5. G' \in GType /\ G'.stkareabase = G.stkareabase /\ G'.atomtblbase = G.atomtblbase
  BY <1>1, <1>4, SizeWritten DEF Sizes, GType
<1>6. Sizes' BY <1>1, <1>4, <1>5 DEF Sizes
<1>7. Pointed' BY <1>1, <1>4, <1>5 DEF Pointed, Has
<1>8. FileOK(Dumped(n)) BY <1>1, <1>2, DumpedOK
<1>9. PICK d : d = Dumped(n) OBVIOUS
<1>10. file' = [h \in Names |-> IF h = f THEN d ELSE file[h]] BY <1>1, <1>3, <1>9 DEF FilesOK
<1>11. FilesOK'
  <2>1. file' = [h \in Names |-> file'[h]] BY <1>10
  <2>2. ASSUME NEW h \in Names, file'[h] # none PROVE FileOK(file'[h])
    BY <1>1, <1>8, <1>9, <1>10, <2>2 DEF FilesOK
  <2> QED BY <2>1, <2>2 DEF FilesOK
<1>12. ~Loading' BY <1>1, <1>4 DEF Running, Loading
<1> QED BY <1>6, <1>7, <1>11, <1>12 DEF IInv

-----------------------------------------------------------------------------
(* A load.                                                                   *)
(* The runs of a file: the first k of N.                                     *)
LEMMA RunsRead ==
  ASSUME NEW F, NEW m, SavedFrom(F, m)
  PROVE  \E R, N, k :
           /\ R = RunsOf(F.of.blk, m) /\ N \in Nat /\ N > 0 /\ k \in 0 .. N /\ k \in Nat
           /\ DOMAIN R = 1 .. N /\ Spans(R, F.of.blk) /\ Laid(F.of.blk)
           /\ Len(F.runs) = k /\ (\A i \in 1 .. k : F.runs[i] = R[i]) /\ (F.whole => k = N)
<1>1. PICK B : B = F.of.blk OBVIOUS
<1>2. PICK R : R = RunsOf(B, m) OBVIOUS
<1>3. Ready(B, m) /\ PrefixOf(F, R) BY <1>1, <1>2 DEF SavedFrom
<1>4. PICK N \in Nat : N > 0 /\ DOMAIN R = 1 .. N /\ Len(R) = N BY <1>2, <1>3, RunsSpan
<1>5. Spans(R, B) BY <1>2, <1>3, RunsSpan
<1>6. PICK k \in 0 .. N : F.runs = [i \in 1 .. k |-> R[i]] /\ (F.whole => k = N)
  BY <1>3, <1>4 DEF PrefixOf
<1>7. k \in Nat BY <1>4, <1>6
<1>8. Len(F.runs) = k /\ \A i \in 1 .. k : F.runs[i] = R[i] BY <1>6, <1>7
<1> QED BY <1>1, <1>2, <1>3, <1>4, <1>5, <1>6, <1>7, <1>8 DEF Ready

LEMMA LoadGlobalsStep ==
  ASSUME IInv, StackStays, NEW f \in Names, LoadGlobals(f)
  PROVE  IInv'
<1>1. Running /\ Sizes /\ Pointed /\ FilesOK BY DEF LoadGlobals, IInv
<1>2. PICK F : F = file[f] OBVIOUS
<1>3. F # none /\ F.G # none /\ FileOK(F) BY <1>1, <1>2 DEF LoadGlobals, FilesOK
<1>4. F.G.stkareabase = stkarea /\ F.of.blk[stkarea].words = stklim BY <1>2 DEF LoadGlobals, StackStays
<1>5. G' = F.G /\ UNCHANGED <<blk, file>> BY <1>2 DEF LoadGlobals
<1>6. G' \in GType BY <1>3, <1>5 DEF FileOK
<1>7. PICK w \in Nat : w = F.G.wssize BY <1>3 DEF FileOK, GType
<1>8. memsize \in Nat /\ MinHeapSpace \in Nat BY <1>1, Constants DEF Sizes
<1>9. PICK k \in Int : k = w - memsize BY <1>8
<1>10. \/ k + MinHeapSpace <= 0 /\ mode' = "load" /\ memsize' = memsize /\ Stays
       \/ k + MinHeapSpace > 0 /\ expansion /\ Expand(k) /\ mode' = "load" /\ (Moves(F.G) \/ Stays)
       \/ mode' = "lost" /\ memsize' = memsize /\ Stays
  <2>1. k = file[f].G.wssize - memsize BY <1>2, <1>7, <1>9
  <2>2. IF k + MinHeapSpace <= 0
        THEN mode' = "load" /\ memsize' = memsize /\ Stays
        ELSE \/ expansion /\ Expand(k) /\ mode' = "load" /\ (Moves(F.G) \/ Stays)
             \/ mode' = "lost" /\ memsize' = memsize /\ Stays
    BY <1>2, <2>1, Zenon DEF LoadGlobals
  <2>3. k + MinHeapSpace <= 0 \/ k + MinHeapSpace > 0 BY <1>8
  <2> QED BY <2>2, <2>3, Zenon
<1>11. memsize' \in DfMemSize .. MaxMemSize /\ Below(blk, memsize')
       /\ (mode' = "load" => w + MinHeapSpace <= memsize')
  <2>1. CASE k + MinHeapSpace <= 0 /\ mode' = "load" /\ memsize' = memsize /\ Stays
    BY <1>1, <1>8, <1>9, <2>1 DEF Sizes
  <2>2. CASE k + MinHeapSpace > 0 /\ expansion /\ Expand(k) /\ mode' = "load" /\ (Moves(F.G) \/ Stays)
    <3>1. k + MinHeapSpace >= 0 BY <1>8, <2>2
    <3>2. /\ memsize' \in DfMemSize .. MaxMemSize /\ Below(blk, memsize')
          /\ memsize' >= memsize + k + MinHeapSpace
      BY <1>1, <2>2, <3>1, GrowSizes
    <3>3. memsize' \in Int BY <3>2, Constants
    <3> QED BY <1>8, <1>9, <3>2, <3>3
  <2>3. CASE mode' = "lost" /\ memsize' = memsize /\ Stays BY <1>1, <2>3 DEF Sizes
  <2> QED BY <1>10, <2>1, <2>2, <2>3
<1>12. stkarea' = stkarea /\ stklim' = stklim /\ atomtbl' \in Nat
  <2>1. CASE Moves(F.G)
    <3>1. stkarea' = stkarea /\ stklim' = Tally(stkarea) /\ atomtbl' = F.G.atomtblbase
      BY <1>4, <2>1 DEF Moves
    <3>2. Tally(stkarea) = stklim BY <1>1 DEF Tally, Pointed, Has
    <3> QED BY <1>3, <3>1, <3>2 DEF FileOK, GType
  <2>2. CASE Stays BY <1>1, <2>2 DEF Stays, Sizes
  <2> QED BY <1>10, <2>1, <2>2
<1>13. mode' \in {"load", "lost"} BY <1>10
<1>14. Sizes' BY <1>1, <1>5, <1>6, <1>11, <1>12, <1>13 DEF Sizes
<1>15. FilesOK' BY <1>1, <1>5 DEF FilesOK
<1>16. ~Running' BY <1>13 DEF Running
<1>17. ASSUME mode' = "load" PROVE Reading'
  <2>1. ld' = [f |-> f, n |-> 0, nextaddr |-> membase, free |-> <<>>] BY <1>17 DEF LoadGlobals
  <2>2. PICK m \in 0 .. MaxMemSize : SavedFrom(F, m) BY <1>3 DEF FileOK
  <2>3. ld'.f = f /\ ld'.n = 0 /\ ld'.nextaddr = membase /\ ld'.free = <<>> BY <2>1
  <2>4. file'[f] = F BY <1>2, <1>5
  <2>5. 0 \in 0 .. Len(F.runs) BY <2>2, RunsRead
  <2>6. ReadFrom(file[ld.f], m)' BY <2>2, <2>3, <2>4, <2>5 DEF ReadFrom
  <2>7. /\ stkarea' = G'.stkareabase /\ file'[ld'.f].of.blk[stkarea'].words = stklim'
        /\ G'.wssize + MinHeapSpace <= memsize'
    BY <1>4, <1>5, <1>7, <1>11, <1>12, <1>17, <2>3, <2>4
  <2>8. file'[ld'.f] # none /\ file'[ld'.f].G # none /\ G' = file'[ld'.f].G /\ ld'.f \in Names
    BY <1>3, <1>5, <2>3, <2>4
  <2>9. ld' = [f |-> ld'.f, n |-> ld'.n, nextaddr |-> ld'.nextaddr, free |-> ld'.free] BY <2>1, <2>3
  <2> QED BY <2>6, <2>7, <2>8, <2>9 DEF Reading
<1> QED BY <1>14, <1>15, <1>16, <1>17 DEF IInv, Loading

LEMMA LoadFailsStep ==
  ASSUME IInv, NEW f \in Names, LoadFails(f)
  PROVE  IInv'
<1>1. Running /\ Sizes /\ Pointed /\ FilesOK BY DEF LoadFails, IInv
<1>2. UNCHANGED <<heap, file>> /\ (mode' = mode \/ mode' = "lost") BY DEF LoadFails, Lost
<1>3. UNCHANGED <<memsize, blk, G, stkarea, stklim, atomtbl>> BY <1>2 DEF heap
<1>4. Sizes' BY <1>1, <1>2, <1>3 DEF Sizes
<1>5. Pointed' BY <1>1, <1>3 DEF Pointed, Has
<1>6. FilesOK' BY <1>1, <1>2 DEF FilesOK
<1>7. ~Loading' BY <1>1, <1>2 DEF Running, Loading
<1> QED BY <1>4, <1>5, <1>6, <1>7 DEF IInv

LEMMA UptoLaid ==
  ASSUME NEW B, Laid(B), NEW m \in Nat, Below(B, m), NEW e
  PROVE  Laid(Upto(B, e)) /\ Below(Upto(B, e), m)
<1>1. PICK S : S = {b \in DOMAIN B : b < e} OBVIOUS
<1>2. DOMAIN B \cap S = S BY <1>1
<1>3. PICK C : C = Upto(B, e) OBVIOUS
<1>4. C = Restrict(B, DOMAIN B \cap S) BY <1>1, <1>2, <1>3 DEF Upto
<1>5. Laid(C) /\ Below(C, m) BY <1>4, LessLaid
<1> QED BY <1>3, <1>5

LEMMA BelowMore ==
  ASSUME NEW B, Laid(B), NEW w \in Nat, Below(B, w), NEW m \in Nat, w <= m
  PROVE  Below(B, m)
<1>1. ASSUME NEW b \in DOMAIN B PROVE End(B, b) <= m
  <2>1. End(B, b) \in Nat /\ End(B, b) <= w BY EndType DEF Below
  <2> QED BY <2>1
<1> QED BY <1>1 DEF Below

LEMMA BetweenMore ==
  ASSUME NEW R, NEW n \in Nat, n > 0
  PROVE  Append(Between(R, n - 1), <<Ends(R, n), R[n + 1].addr - Ends(R, n)>>) = Between(R, n)
<1>1. PICK p : p = [i \in 1 .. n |-> <<Ends(R, i), R[i + 1].addr - Ends(R, i)>>] OBVIOUS
<1>2. PICK k \in Nat : k = n - 1 /\ n = k + 1 OBVIOUS
<1>3. PICK q : q = [i \in 1 .. k |-> p[i]] OBVIOUS
<1>4. Between(R, k) = q
  <2>1. Between(R, k) = [i \in 1 .. k |-> <<Ends(R, i), R[i + 1].addr - Ends(R, i)>>] BY DEF Between
  <2>2. \A i \in 1 .. k : p[i] = <<Ends(R, i), R[i + 1].addr - Ends(R, i)>> BY <1>1, <1>2
  <2> QED BY <1>3, <2>1, <2>2
<1>5. p[n] = <<Ends(R, n), R[n + 1].addr - Ends(R, n)>> BY <1>1
<1>6. Append(q, p[n]) = p
  <2>1. PICK T : T = {p[i] : i \in 1 .. n} OBVIOUS
  <2>2. p \in Seq(T) /\ Len(p) = n BY <1>1, <2>1
  <2>3. q \in Seq(T) /\ Len(q) = k BY <1>2, <1>3, <2>1
  <2>4. p[n] \in T BY <2>1
  <2>5. Append(q, p[n]) \in Seq(T) /\ Len(Append(q, p[n])) = n BY <1>2, <2>3, <2>4
  <2>6. \A i \in 1 .. n : Append(q, p[n])[i] = p[i] BY <1>2, <1>3, <2>3, <2>4
  <2> QED BY <2>2, <2>5, <2>6
<1> QED BY <1>1, <1>2, <1>4, <1>5, <1>6 DEF Between

LEMMA LoadRunStep ==
  ASSUME IInv, LoadRun
  PROVE  IInv'
<1>1. Loading /\ Sizes /\ FilesOK /\ Reading BY DEF LoadRun, IInv
<1>2. PICK F : F = file[ld.f] /\ F = Loaded BY DEF Loaded
<1>3. PICK m \in 0 .. MaxMemSize : ReadFrom(F, m) BY <1>1, <1>2 DEF Reading
<1>4. SavedFrom(F, m) BY <1>3 DEF ReadFrom
<1>5. PICK B : B = F.of.blk OBVIOUS
<1>6. PICK R, N, k :
        /\ R = RunsOf(B, m) /\ N \in Nat /\ N > 0 /\ k \in 0 .. N /\ k \in Nat
        /\ DOMAIN R = 1 .. N /\ Spans(R, B) /\ Laid(B)
        /\ Len(F.runs) = k /\ \A i \in 1 .. k : F.runs[i] = R[i]
  BY <1>4, <1>5, RunsRead
<1>7. PICK n \in Nat : n = ld.n /\ n < k
  BY <1>2, <1>3, <1>6 DEF ReadFrom, LoadRun, MoreRuns
<1>8. PICK i \in 1 .. N : i = n + 1 /\ i \in 1 .. k BY <1>6, <1>7
<1>9. F.runs[ld.n + 1] = R[i] BY <1>6, <1>7, <1>8
<1>10. /\ blk' = IF n = 0 THEN R[i].words ELSE Merged(R[i].words, blk)
       /\ ld' = [ld EXCEPT !.n = @ + 1, !.nextaddr = R[i].addr + R[i].cnt,
                           !.free = IF n = 0 THEN @
                                    ELSE Append(@, <<ld.nextaddr, R[i].addr - ld.nextaddr>>)]
       /\ UNCHANGED <<memsize, G, stkarea, stklim, atomtbl, file, mode>>
  BY <1>2, <1>7, <1>9 DEF LoadRun
<1>11. ld = [f |-> ld.f, n |-> ld.n, nextaddr |-> ld.nextaddr, free |-> ld.free] BY <1>1 DEF Reading
<1>12. PICK fr : fr = (IF n = 0 THEN ld.free
                       ELSE Append(ld.free, <<ld.nextaddr, R[i].addr - ld.nextaddr>>))
  OBVIOUS
<1>13. ld' = [f |-> ld.f, n |-> i, nextaddr |-> Ends(R, i), free |-> fr]
  BY <1>7, <1>8, <1>10, <1>11, <1>12 DEF Ends
<1>14. ld'.f = ld.f /\ ld'.n = i /\ ld'.nextaddr = Ends(R, i) /\ ld'.free = fr BY <1>13
<1>15. ASSUME n > 0
       PROVE  ld.nextaddr = Ends(R, n) /\ blk = Upto(B, Ends(R, n)) /\ ld.free = Between(R, n - 1)
  BY <1>3, <1>5, <1>6, <1>7, <1>15 DEF ReadFrom
<1>16. blk' = Upto(B, Ends(R, i))
  <2>1. CASE n = 0
    <3>1. i = 1 BY <1>8, <2>1
    <3>2. R[i].words = Upto(B, Ends(R, i)) BY <1>6, <3>1, ReadRun
    <3> QED BY <1>10, <2>1, <3>2
  <2>2. CASE n # 0
    <3>1. n > 0 /\ i > 1 /\ i - 1 = n BY <1>8, <2>2
    <3>2. Merged(R[i].words, Upto(B, Ends(R, i - 1))) = Upto(B, Ends(R, i)) BY <1>6, <3>1, ReadRun
    <3>3. blk = Upto(B, Ends(R, i - 1)) BY <1>15, <3>1
    <3> QED BY <1>10, <2>2, <3>2, <3>3
  <2> QED BY <2>1, <2>2
<1>17. fr = Between(R, i - 1)
  <2>1. CASE n = 0
    <3>1. fr = <<>> BY <1>3, <1>7, <1>12, <2>1 DEF ReadFrom
    <3>2. 1 .. 0 = {} OBVIOUS
    <3>3. Between(R, 0) = <<>> BY <3>2 DEF Between
    <3>4. i - 1 = 0 BY <1>8, <2>1
    <3> QED BY <3>1, <3>3, <3>4
  <2>2. CASE n # 0
    <3>1. n > 0 /\ i - 1 = n BY <1>8, <2>2
    <3>2. fr = Append(Between(R, n - 1), <<Ends(R, n), R[n + 1].addr - Ends(R, n)>>)
      BY <1>8, <1>12, <1>15, <2>2, <3>1
    <3> QED BY <3>1, <3>2, BetweenMore
  <2> QED BY <2>1, <2>2
<1>18. F.G # none /\ FileOK(F) /\ G = F.G BY <1>1, <1>2 DEF Reading, FilesOK
<1>19. G.wssize \in Nat /\ Below(B, G.wssize) /\ G.wssize <= memsize /\ memsize \in Nat
  <2>1. G.wssize \in Nat /\ Below(B, G.wssize) BY <1>5, <1>18 DEF FileOK, GType
  <2>2. memsize \in Nat BY <1>1, Constants DEF Sizes
  <2>3. G.wssize + MinHeapSpace <= memsize BY <1>1 DEF Reading
  <2> QED BY <2>1, <2>2, <2>3, Constants
<1>20. Below(B, memsize) BY <1>6, <1>19, BelowMore
<1>21. Laid(blk') /\ Below(blk', memsize) BY <1>6, <1>16, <1>19, <1>20, UptoLaid
<1>22. Sizes' BY <1>1, <1>10, <1>21 DEF Sizes
<1>23. FilesOK' BY <1>1, <1>10 DEF FilesOK
<1>24. ~Running' BY <1>1, <1>10 DEF Running, Loading
<1>25. file'[ld'.f] = F BY <1>2, <1>10, <1>14
<1>26. ReadFrom(file[ld.f], m)'
  <2>1. i \in 0 .. Len(F.runs) /\ i # 0 BY <1>6, <1>8
  <2>2. ld'.nextaddr = Ends(RunsOf(F.of.blk, m), i) BY <1>5, <1>6, <1>14
  <2>3. blk' = Upto(F.of.blk, ld'.nextaddr) BY <1>5, <1>14, <1>16
  <2>4. ld'.free = Between(RunsOf(F.of.blk, m), i - 1) BY <1>5, <1>6, <1>14, <1>17
  <2> QED BY <1>4, <1>14, <1>25, <2>1, <2>2, <2>3, <2>4 DEF ReadFrom
<1>27. Reading'
  <2>1. ld' = [f |-> ld'.f, n |-> ld'.n, nextaddr |-> ld'.nextaddr, free |-> ld'.free] BY <1>13, <1>14
  <2>2. /\ ld'.f \in Names /\ file'[ld'.f] # none /\ file'[ld'.f].G # none /\ G' = file'[ld'.f].G
        /\ stkarea' = G'.stkareabase /\ file'[ld'.f].of.blk[stkarea'].words = stklim'
        /\ G'.wssize + MinHeapSpace <= memsize'
    BY <1>1, <1>2, <1>10, <1>14, <1>25 DEF Reading
  <2> QED BY <1>26, <2>1, <2>2 DEF Reading
<1> QED BY <1>22, <1>23, <1>24, <1>27 DEF IInv

(* When wsload returns all runs are read: no run is empty, so that the zero  *)
(* is the one that a whole file ends with.                                   *)
LEMMA AllRead ==
  ASSUME IInv, Loading, AtZero
  PROVE  \E B, R, N, m :
           /\ B = Loaded.of.blk /\ m \in 0 .. MaxMemSize /\ R = RunsOf(B, m)
           /\ N \in Nat /\ N > 0 /\ DOMAIN R = 1 .. N /\ Spans(R, B) /\ Laid(B)
           /\ Loaded.whole /\ ld.n = N /\ blk = B
           /\ ld.nextaddr = Ends(R, N) /\ ld.free = Between(R, N - 1)
<1>1. Reading BY DEF IInv
<1>2. PICK F : F = file[ld.f] /\ F = Loaded BY DEF Loaded
<1>3. PICK m \in 0 .. MaxMemSize : ReadFrom(F, m) BY <1>1, <1>2 DEF Reading
<1>4. SavedFrom(F, m) BY <1>3 DEF ReadFrom
<1>5. PICK B : B = F.of.blk OBVIOUS
<1>6. PICK R, N, k :
        /\ R = RunsOf(B, m) /\ N \in Nat /\ N > 0 /\ k \in 0 .. N /\ k \in Nat
        /\ DOMAIN R = 1 .. N /\ Spans(R, B) /\ Laid(B)
        /\ Len(F.runs) = k /\ (\A i \in 1 .. k : F.runs[i] = R[i]) /\ (F.whole => k = N)
  BY <1>4, <1>5, RunsRead
<1>7. ld.n \in 0 .. k BY <1>3, <1>6 DEF ReadFrom
<1>8. ~(ld.n < Len(F.runs) /\ F.runs[ld.n + 1].cnt = 0)
  <2>1. SUFFICES ASSUME ld.n < Len(F.runs), F.runs[ld.n + 1].cnt = 0 PROVE FALSE OBVIOUS
  <2>2. PICK i \in 1 .. k : i = ld.n + 1 BY <1>6, <1>7, <2>1
  <2>3. i \in 1 .. N BY <1>6
  <2>4. R[i].cnt = 0 BY <1>6, <2>1, <2>2
  <2> QED BY <1>6, <2>3, <2>4 DEF Spans
<1>9. ld.n = k /\ F.whole BY <1>2, <1>6, <1>8 DEF AtZero
<1>10. ld.n = N /\ N # 0 BY <1>6, <1>9
<1>11. ld.n > 0 BY <1>6, <1>10
<1>12. /\ ld.nextaddr = Ends(R, N) /\ blk = Upto(B, Ends(R, N)) /\ ld.free = Between(R, N - 1)
  BY <1>3, <1>5, <1>6, <1>10, <1>11 DEF ReadFrom
<1>13. blk = B BY <1>6, <1>12, ReadAll
<1> QED BY <1>2, <1>5, <1>6, <1>9, <1>10, <1>12, <1>13

LEMMA LoadEndsStep ==
  ASSUME IInv, LoadEnds
  PROVE  IInv'
<1>1. Loading /\ AtZero /\ Sizes /\ FilesOK /\ Reading BY DEF LoadEnds, IInv
<1>2. Loaded.of.blk = blk /\ ld.n # 0 BY <1>1, AllRead
<1>3. UNCHANGED <<blk, memsize, G, stkarea, stklim, file>> /\ atomtbl' = G.atomtblbase /\ mode' = "run"
  BY <1>2 DEF LoadEnds
<1>4. G \in GType BY <1>1 DEF Sizes
<1>5. G.atomtblbase \in Nat BY <1>4 DEF GType
<1>6. Sizes' BY <1>1, <1>3, <1>5 DEF Sizes
<1>7. FileOK(Loaded) /\ Loaded.G # none /\ G = Loaded.G BY <1>1 DEF Reading, FilesOK, Loaded
<1>8. Has(blk, G.stkareabase, "stack") /\ Has(blk, G.atomtblbase, "atoms") BY <1>2, <1>7 DEF FileOK
<1>9. stkarea = G.stkareabase /\ blk[stkarea].words = stklim BY <1>1, <1>2 DEF Reading, Loaded
<1>10. Pointed' BY <1>3, <1>8, <1>9 DEF Pointed, Has
<1>11. FilesOK' BY <1>1, <1>3 DEF FilesOK
<1>12. ~Loading' BY <1>3 DEF Loading
<1> QED BY <1>6, <1>10, <1>11, <1>12 DEF IInv

LEMMA LoadCutStep ==
  ASSUME IInv, LoadCut
  PROVE  IInv'
<1>1. Sizes /\ FilesOK BY DEF IInv
<1>2. UNCHANGED <<memsize, blk, G, stkarea, stklim, atomtbl, file>> /\ mode' = "lost"
  BY DEF LoadCut, Lost, heap
<1>3. Sizes' BY <1>1, <1>2 DEF Sizes
<1>4. FilesOK' BY <1>1, <1>2 DEF FilesOK
<1> QED BY <1>2, <1>3, <1>4 DEF IInv, Running, Loading

-----------------------------------------------------------------------------
(* The theorems.                                                             *)
LEMMA StepIInv ==
  ASSUME FirstUsed, StackStays, IInv, [Next]_vars
  PROVE  IInv'
<1>1. CASE UNCHANGED vars
  <2>1. UNCHANGED <<memsize, blk, G, stkarea, stklim, atomtbl, file, mode, ld>> BY <1>1 DEF vars
  <2>2. Sizes' BY <2>1 DEF IInv, Sizes
  <2>3. Running' => Pointed' BY <2>1 DEF IInv, Running, Pointed, Has
  <2>4. FilesOK' BY <2>1 DEF IInv, FilesOK
  <2>5. Loading' => Reading' BY <2>1 DEF IInv, Loading, Reading, ReadFrom
  <2> QED BY <2>2, <2>3, <2>4, <2>5 DEF IInv
<1>2. ASSUME NEW d \in Data, NEW n \in DataSizes, NewArray(d, n) PROVE IInv' BY <1>2, NewArrayStep
<1>3. ASSUME NEW b \in DOMAIN blk, FreeArray(b) PROVE IInv' BY <1>3, FreeArrayStep
<1>4. CASE growstack BY <1>4, growstackStep
<1>5. CASE rehash BY <1>5, rehashStep
<1>6. CASE expand_heap BY <1>6, expand_heapStep
<1>7. CASE Restart BY <1>7, RestartStep
<1>8. ASSUME NEW f \in Names, wsdump(f) PROVE IInv' BY <1>8, wsdumpStep
<1>9. ASSUME NEW f \in Names, LoadGlobals(f) PROVE IInv' BY <1>9, LoadGlobalsStep
<1>10. ASSUME NEW f \in Names, LoadFails(f) PROVE IInv' BY <1>10, LoadFailsStep
<1>11. CASE LoadRun BY <1>11, LoadRunStep
<1>12. CASE LoadEnds BY <1>12, LoadEndsStep
<1>13. CASE LoadCut BY <1>13, LoadCutStep
<1> QED BY <1>1, <1>2, <1>3, <1>4, <1>5, <1>6, <1>7, <1>8, <1>9, <1>10, <1>11, <1>12, <1>13 DEF Next

LEMMA IInvHolds ==
  ASSUME FirstUsed, StackStays
  PROVE  Spec => []IInv
<1>1. Init => IInv BY InitIInv
<1>2. IInv /\ [Next]_vars => IInv' BY StepIInv
<1> QED BY <1>1, <1>2, PTL DEF Spec

(* The stack and the atom table are where the C pointers have them, and the  *)
(* stack has the room that it is taken to have, after any save, load,        *)
(* expansion of the heap, growth of the stack or of the table (setup_globals *)
(* and reset_absmach of absmach.c, wsload of wsmanage.c).                    *)
THEOREM PointersAreRight ==
  ASSUME FirstUsed, StackStays
  PROVE  Spec => []PointersAgree
<1>1. IInv => PointersAgree BY DEF IInv, PointersAgree, Pointed, Has
<1> QED BY <1>1, IInvHolds, PTL

LEMMA OnlyLoadEnds ==
  ASSUME LoadDone, [Next]_vars
  PROVE  LoadEnds
<1>1. Loading /\ mode' = "run" /\ ~Restart BY DEF LoadDone
<1>2. mode = "load" /\ mode # "run" BY <1>1 DEF Loading
<1>3. CASE UNCHANGED vars BY <1>1, <1>2, <1>3 DEF vars
<1>4. CASE Next
  <2>1. ~\E d \in Data, n \in DataSizes : NewArray(d, n) BY <1>2 DEF NewArray, Session, Running
  <2>2. ~\E b \in DOMAIN blk : FreeArray(b) BY <1>2 DEF FreeArray, Session, Running
  <2>3. ~(growstack \/ rehash \/ expand_heap)
    BY <1>2 DEF growstack, rehash, expand_heap, Session, Running
  <2>4. ~\E f \in Names : wsdump(f) \/ LoadGlobals(f) \/ LoadFails(f)
    BY <1>2 DEF wsdump, LoadGlobals, LoadFails, Running
  <2>5. ~LoadRun BY <1>1, <1>2 DEF LoadRun
  <2>6. ~LoadCut BY <1>1 DEF LoadCut, Lost
  <2> QED BY <1>1, <1>4, <2>1, <2>2, <2>3, <2>4, <2>5, <2>6 DEF Next
<1> QED BY <1>3, <1>4

(* When wsload returns, the file that it has read was written to its end:    *)
(* what a save that failed or was killed has left is not taken for one.      *)
THEOREM CutFileIsNoticed ==
  ASSUME FirstUsed, StackStays
  PROVE  Spec => CutFileNoticed
<1>1. ASSUME IInv, [Next]_vars PROVE LoadDone => Loaded.whole
  <2>1. SUFFICES ASSUME LoadDone PROVE Loaded.whole OBVIOUS
  <2>2. LoadEnds BY <1>1, <2>1, OnlyLoadEnds
  <2> QED BY <1>1, <2>2, AllRead DEF LoadEnds
<1>2. IInv /\ [Next]_vars => [LoadDone => Loaded.whole]_vars BY <1>1
<1> QED BY <1>2, IInvHolds, PTL DEF Spec, CutFileNoticed

(* The free list that wsload makes.                                          *)
Listed(R, N, M) == [i \in 1 .. N |-> <<Ends(R, i), NextRun(R, N, M, i) - Ends(R, i)>>]

LEMMA FreeBlocksAre ==
  ASSUME NEW B, Laid(B), NEW R, Spans(R, B), NEW N \in Nat, N > 0, DOMAIN R = 1 .. N,
         NEW M \in Nat, memsize = M, Ends(R, N) < M,
         ld.nextaddr = Ends(R, N), ld.free = Between(R, N - 1)
  PROVE  FreeBlocks = Listed(R, N, M)
<1>1. FreeBlocks = Append(Between(R, N - 1), <<Ends(R, N), M - Ends(R, N)>>) BY DEF FreeBlocks
<1>2. PICK Q : Q = [i \in 1 .. N + 1 |-> IF i = N + 1 THEN [addr |-> M, cnt |-> 0] ELSE R[i]] OBVIOUS
<1>3. Q[N + 1].addr = M /\ \A i \in 1 .. N : Q[i] = R[i] BY <1>2
<1>4. \A i \in 1 .. N : Ends(Q, i) = Ends(R, i) BY <1>3 DEF Ends
<1>5. \A i \in 1 .. N : Q[i + 1].addr = NextRun(R, N, M, i)
  <2>1. ASSUME NEW i \in 1 .. N PROVE Q[i + 1].addr = NextRun(R, N, M, i)
    <3>1. CASE i = N BY <1>3, <3>1 DEF NextRun
    <3>2. CASE i # N
      <4>1. i < N /\ i + 1 \in 1 .. N BY <3>2
      <4> QED BY <1>3, <4>1 DEF NextRun
    <3> QED BY <3>1, <3>2
  <2> QED BY <2>1
<1>6. Between(R, N - 1) = Between(Q, N - 1)
  <2>1. \A i \in 1 .. N - 1 : i \in 1 .. N /\ i + 1 \in 1 .. N OBVIOUS
  <2>2. \A i \in 1 .. N - 1 : Ends(R, i) = Ends(Q, i) /\ R[i + 1] = Q[i + 1] BY <1>3, <1>4, <2>1
  <2> QED BY <2>2 DEF Between
<1>7. N \in 1 .. N OBVIOUS
<1>8. Append(Between(Q, N - 1), <<Ends(Q, N), Q[N + 1].addr - Ends(Q, N)>>) = Between(Q, N)
  BY BetweenMore
<1>9. FreeBlocks = Between(Q, N) BY <1>1, <1>3, <1>4, <1>6, <1>7, <1>8
<1>10. Between(Q, N) = Listed(R, N, M) BY <1>4, <1>5 DEF Between, Listed
<1> QED BY <1>9, <1>10

LEMMA GapsAreListed ==
  ASSUME NEW B, Laid(B), NEW R, Spans(R, B), NEW N \in Nat, N > 0, DOMAIN R = 1 .. N,
         NEW w \in Nat, Below(B, w), NEW M \in Nat, w + MinHeapSpace <= M
  PROVE  /\ Range(Listed(R, N, M)) = GapsOf(B, M)
         /\ \A i \in DOMAIN Listed(R, N, M) : i > 1 => Listed(R, N, M)[i - 1][1] < Listed(R, N, M)[i][1]
         /\ \E g \in GapsOf(B, M) : g[1] + g[2] = M /\ g[2] >= MinHeapSpace
         /\ Ends(R, N) < M
<1>1. w < M /\ MinHeapSpace \in Nat BY Constants
<1>2. /\ Free(B, M) = {Ends(R, i) : i \in 1 .. N}
      /\ \A i \in 1 .. N : After(B, M, Ends(R, i)) = NextRun(R, N, M, i) /\ Ends(R, i) <= w
  BY <1>1, FreeIsBetween
<1>3. PICK L : L = Listed(R, N, M) OBVIOUS
<1>4. DOMAIN L = 1 .. N /\ \A i \in 1 .. N : L[i] = <<Ends(R, i), NextRun(R, N, M, i) - Ends(R, i)>>
  BY <1>3 DEF Listed
<1>5. Range(L) = {L[i] : i \in 1 .. N} BY <1>4 DEF Range
<1>6. GapsOf(B, M) = {L[i] : i \in 1 .. N}
  <2>1. \A i \in 1 .. N : L[i] = <<Ends(R, i), After(B, M, Ends(R, i)) - Ends(R, i)>> BY <1>2, <1>4
  <2>2. ASSUME NEW g \in GapsOf(B, M) PROVE \E i \in 1 .. N : g = L[i]
    <3>1. PICK a \in Free(B, M) : g = <<a, After(B, M, a) - a>> BY DEF GapsOf
    <3>2. PICK i \in 1 .. N : a = Ends(R, i) BY <1>2
    <3> QED BY <2>1, <3>1, <3>2
  <2>3. ASSUME NEW i \in 1 .. N PROVE L[i] \in GapsOf(B, M)
    <3>1. Ends(R, i) \in Free(B, M) BY <1>2
    <3> QED BY <2>1, <3>1 DEF GapsOf
  <2> QED BY <2>2, <2>3
<1>7. ASSUME NEW i \in 1 .. N, i > 1 PROVE L[i - 1][1] < L[i][1]
  <2>1. i - 1 \in 1 .. N /\ i - 1 < i BY <1>7
  <2>2. Ends(R, i - 1) < R[i].addr BY <2>1 DEF Spans
  <2>3. /\ R[i].addr \in Nat /\ Ends(R, i) \in Nat /\ R[i].addr < Ends(R, i) /\ Ends(R, i - 1) \in Nat
    BY <2>1, SpansType
  <2>4. Ends(R, i - 1) < Ends(R, i) BY <2>2, <2>3
  <2> QED BY <1>4, <2>1, <2>4
<1>8. N \in 1 .. N OBVIOUS
<1>9. PICK e \in Nat : e = Ends(R, N) /\ e <= w BY <1>2, <1>8, SpansType
<1>10. L[N] = <<e, M - e>> BY <1>4, <1>8, <1>9 DEF NextRun
<1>11. e + (M - e) = M /\ M - e >= MinHeapSpace BY <1>1, <1>9
<1>12. \E g \in GapsOf(B, M) : g[1] + g[2] = M /\ g[2] >= MinHeapSpace
  <2>1. L[N] \in GapsOf(B, M) BY <1>6, <1>8
  <2>2. PICK g \in GapsOf(B, M) : g = <<e, M - e>> BY <1>10, <2>1
  <2>3. g[1] = e /\ g[2] = M - e BY <2>2
  <2> QED BY <1>11, <2>3
<1>13. e < M BY <1>1, <1>9
<1> QED BY <1>3, <1>4, <1>5, <1>6, <1>7, <1>9, <1>12, <1>13

(* What LoadRestores says of the step.                                       *)
Restored ==
  /\ blk' = Loaded.of.blk
  /\ G'.stkareabase = Loaded.of.stkareabase
  /\ G'.atomtblbase = Loaded.of.atomtblbase
  /\ Range(FreeBlocks) = Gaps'
  /\ \A i \in DOMAIN FreeBlocks : i > 1 => FreeBlocks[i - 1][1] < FreeBlocks[i][1]
  /\ \E g \in Gaps' : g[1] + g[2] = memsize' /\ g[2] >= MinHeapSpace

LEMMA LoadEndsRestores ==
  ASSUME IInv, LoadEnds
  PROVE  Restored
<1>1. Loading /\ AtZero /\ Sizes /\ FilesOK /\ Reading BY DEF LoadEnds, IInv
<1>2. PICK B, R, N, m :
        /\ B = Loaded.of.blk /\ m \in 0 .. MaxMemSize /\ R = RunsOf(B, m)
        /\ N \in Nat /\ N > 0 /\ DOMAIN R = 1 .. N /\ Spans(R, B) /\ Laid(B)
        /\ Loaded.whole /\ ld.n = N /\ blk = B
        /\ ld.nextaddr = Ends(R, N) /\ ld.free = Between(R, N - 1)
  BY <1>1, AllRead
<1>3. blk' = B /\ G' = G /\ memsize' = memsize
  <2>1. ld.n # 0 BY <1>2
  <2> QED BY <1>2, <2>1 DEF LoadEnds
<1>4. FileOK(Loaded) /\ Loaded.G # none /\ G = Loaded.G BY <1>1 DEF Reading, FilesOK, Loaded
<1>5. /\ G'.stkareabase = Loaded.of.stkareabase /\ G'.atomtblbase = Loaded.of.atomtblbase
  BY <1>3, <1>4 DEF FileOK
<1>6. PICK w \in Nat : w = G.wssize /\ Below(B, w)
  BY <1>2, <1>4 DEF FileOK, GType
<1>7. PICK M \in Nat : M = memsize /\ w + MinHeapSpace <= M
  BY <1>1, <1>6, Constants DEF Sizes, Reading
<1>8. /\ Range(Listed(R, N, M)) = GapsOf(B, M)
      /\ \A i \in DOMAIN Listed(R, N, M) : i > 1 => Listed(R, N, M)[i - 1][1] < Listed(R, N, M)[i][1]
      /\ \E g \in GapsOf(B, M) : g[1] + g[2] = M /\ g[2] >= MinHeapSpace
      /\ Ends(R, N) < M
  BY <1>2, <1>6, <1>7, GapsAreListed
<1>9. FreeBlocks = Listed(R, N, M) BY <1>2, <1>7, <1>8, FreeBlocksAre
<1>10. Gaps' = GapsOf(B, M)
  <2>1. Gaps = GapsOf(blk, memsize) BY InTheseTerms
  <2>2. Gaps' = Gaps
    BY <1>2, <1>3 DEF Gaps, FreeAddrs, NextUsed, EndOf
  <2> QED BY <1>2, <1>7, <2>1, <2>2
<1> QED BY <1>2, <1>3, <1>5, <1>7, <1>8, <1>9, <1>10 DEF Restored

(* When wsload returns, the blocks are those of the workspace that was       *)
(* saved, the stack and the table are where they were, the free list that    *)
(* wsload has made has every gap between the blocks in the order of their    *)
(* addresses, and MINHEAPSPACE words are free at the end.                    *)
THEOREM LoadDoesRestore ==
  ASSUME FirstUsed, StackStays
  PROVE  Spec => LoadRestores
<1>1. ASSUME IInv, [Next]_vars PROVE LoadDone => Restored
  BY <1>1, OnlyLoadEnds, LoadEndsRestores
<1>2. IInv /\ [Next]_vars => [LoadDone => Restored]_vars BY <1>1
<1>3. Spec => [][LoadDone => Restored]_vars BY <1>2, IInvHolds, PTL DEF Spec
<1> QED BY <1>3 DEF LoadRestores, Restored

-----------------------------------------------------------------------------
(* Types.                                                                    *)
LoadType == [f : Names, n : Nat, nextaddr : Nat, free : Seq(Nat \X Nat)]

LEMMA ReadingType ==
  ASSUME Sizes, Reading
  PROVE  ld \in LoadType
<1>1. PICK F : F = file[ld.f] OBVIOUS
<1>2. PICK m \in 0 .. MaxMemSize : ReadFrom(F, m) BY <1>1 DEF Reading
<1>3. PICK B : B = F.of.blk OBVIOUS
<1>4. SavedFrom(F, m) BY <1>2 DEF ReadFrom
<1>5. PICK R, N, k :
        /\ R = RunsOf(B, m) /\ N \in Nat /\ N > 0 /\ k \in 0 .. N /\ k \in Nat
        /\ DOMAIN R = 1 .. N /\ Spans(R, B) /\ Laid(B) /\ Len(F.runs) = k
  BY <1>3, <1>4, RunsRead
<1>6. PICK n \in 0 .. k : n = ld.n BY <1>2, <1>5 DEF ReadFrom
<1>7. n \in Nat BY <1>5, <1>6
<1>8. ld.nextaddr \in Nat /\ ld.free \in Seq(Nat \X Nat)
  <2>1. CASE n = 0
    <3>1. ld.nextaddr = membase /\ ld.free = <<>> BY <1>2, <1>6, <2>1 DEF ReadFrom
    <3> QED BY <3>1, Constants
  <2>2. CASE n # 0
    <3>1. n > 0 /\ n \in 1 .. N /\ n - 1 \in Nat BY <1>5, <1>7, <2>2
    <3>2. ld.nextaddr = Ends(R, n) /\ ld.free = Between(R, n - 1)
      BY <1>2, <1>3, <1>5, <1>6, <3>1 DEF ReadFrom
    <3>3. Ends(R, n) \in Nat BY <1>5, <3>1, SpansType
    <3>4. ASSUME NEW i \in 1 .. n - 1 PROVE <<Ends(R, i), R[i + 1].addr - Ends(R, i)>> \in Nat \X Nat
      <4>1. i \in 1 .. N /\ i + 1 \in 1 .. N /\ i < i + 1 BY <1>5, <3>1
      <4>2. Ends(R, i) \in Nat /\ R[i + 1].addr \in Nat BY <1>5, <4>1, SpansType
      <4>3. Ends(R, i) < R[i + 1].addr BY <1>5, <4>1 DEF Spans
      <4>4. R[i + 1].addr - Ends(R, i) \in Nat BY <4>2, <4>3
      <4> QED BY <4>2, <4>4
    <3>5. Between(R, n - 1) \in [1 .. n - 1 -> Nat \X Nat] BY <3>4 DEF Between
    <3>6. Between(R, n - 1) \in Seq(Nat \X Nat) BY <3>1, <3>5
    <3> QED BY <3>2, <3>3, <3>6
  <2> QED BY <2>1, <2>2
<1>9. ld.f \in Names /\ ld = [f |-> ld.f, n |-> ld.n, nextaddr |-> ld.nextaddr, free |-> ld.free]
  BY DEF Reading
<1> QED BY <1>6, <1>7, <1>8, <1>9 DEF LoadType

TypeInv == saves \in 0 .. MaxSaves /\ (~Loading => ld = none)

(* Every variable has its type, and ld is in use while a file is read.       *)
THEOREM TypeCorrect ==
  ASSUME FirstUsed, StackStays
  PROVE  Spec => []TypeOK
<1>1. Init => TypeInv BY WorkspaceConstants DEF Init, TypeInv
<1>2. TypeInv /\ [Next]_vars => TypeInv'
  <2> SUFFICES ASSUME TypeInv, [Next]_vars PROVE TypeInv' OBVIOUS
  <2>1. saves' \in 0 .. MaxSaves
    <3>1. saves' = saves \/ (saves < MaxSaves /\ saves' = saves + 1)
      BY DEF Next, vars, NewArray, FreeArray, growstack, rehash, expand_heap, Restart, Session,
             wsdump, LoadGlobals, LoadFails, LoadRun, LoadEnds, LoadCut
    <3> QED BY <3>1, WorkspaceConstants DEF TypeInv
  <2>2. ~Loading' => ld' = none
    BY DEF Next, vars, TypeInv, Loading, Running, Lost, NewArray, FreeArray, growstack, rehash,
           expand_heap, Restart, Session, wsdump, LoadGlobals, LoadFails, LoadRun, LoadEnds, LoadCut
  <2> QED BY <2>1, <2>2 DEF TypeInv
<1>3. IInv /\ TypeInv => TypeOK
  <2> SUFFICES ASSUME IInv, TypeInv PROVE TypeOK OBVIOUS
  <2>1. Sizes BY DEF IInv
  <2>2. memsize \in Nat BY <2>1, Constants DEF Sizes
  <2>3. ASSUME NEW b \in DOMAIN blk PROVE b \in membase .. memsize /\ blk[b].holds \in Holdings
    <3>1. b \in Nat /\ membase <= b /\ b < End(blk, b) /\ End(blk, b) \in Nat /\ End(blk, b) <= memsize
      BY <2>1, EndType DEF Sizes, Below
    <3>2. blk[b] \in BlockType BY <2>1 DEF Sizes, Laid
    <3> QED BY <2>2, <3>1, <3>2, Constants DEF BlockType
  <2>4. mode = "load" <=> ld # none
    <3>1. ASSUME Loading PROVE ld # none
      <4>1. ld \in LoadType BY <2>1, <3>1, ReadingType DEF IInv
      <4> QED BY <4>1, WorkspaceConstants DEF LoadType
    <3> QED BY <3>1 DEF TypeInv, Loading
  <2> QED BY <2>1, <2>3, <2>4 DEF TypeOK, TypeInv, Sizes, Holdings
<1>4. Spec => []TypeInv BY <1>1, <1>2, PTL DEF Spec
<1> QED BY <1>3, <1>4, IInvHolds, PTL
=============================================================================
