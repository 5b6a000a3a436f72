CONSTANTS
  a1 = a1  a2 = a2  a3 = a3  a4 = a4  a5 = a5
  p = p
  Arrays = {a1, a2, a3, a4, a5}
  Vars = {p}
  fault = fault
  Texts = {fault}
  Nums = {0}
  MaxItems = 2
  MaxStack = 2
  Spare = 2
  no_value = no_value
  gone = gone
  none = none
  Uses = {}
SPECIFICATION Spec
SYMMETRY PoolSymmetry
INVARIANTS
  CountsAreReferences AllocatedIsReferenced HomogeneousAreImploded
PROPERTIES ImplementsValues StepsCountDown
CHECK_DEADLOCK FALSE
