SPECIFICATION SpecT
CONSTANTS
  w = 3
  TestsKept = TRUE
  CROSSOVER = 2
  MaxTally = 3
  do_apply <- Primitive
  Reductives <- BasicReductives
  Atoms <- Items
  Leaves <- AllItems
  Pool <- Arrays1
INVARIANT LoopsFollowRecursion
CHECK_DEADLOCK FALSE
