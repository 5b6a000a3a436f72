SPECIFICATION FairSpec
CONSTANTS
  Kinds = {phrase, fault}
  Texts <- MCTexts
  HashSum <- MCHashSum
  Arrays = {a1, a2, a3}
  LinAdj = 3
  DfSize = 5
  MaxSize = 10
  vacant = vacant
  held = held
  none = none
INVARIANTS AtomsReachable CountCovers
PROPERTIES CallsEnd ImplementsAtomTableAbs
\* The program ends when the table is full.
CHECK_DEADLOCK FALSE
