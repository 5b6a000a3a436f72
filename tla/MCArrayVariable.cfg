SPECIFICATION Spec
CONSTANTS
  w = 3
  TestsKept = TRUE
  CROSSOVER = 2
  MaxTally = 3
  Atoms <- Items
  Leaves <- AllItems
  Pool <- Arrays1
INVARIANTS RepresentationKept FlagTruthful SearchesAgree SortIsRight
  SelectionLaws NumbersRight
CHECK_DEADLOCK FALSE
