CONSTANTS
  Ops = {"F", "T", "B"}
  Trs = {"T"}
  Outer <- MCOuter
  Vals = {0}
  MaxFrames = 5
  MaxTemps = 1
  MaxCuts = 1
  none = none
SPECIFICATION Spec
INVARIANTS ScopesAgree ControlWhole
PROPERTY VariablesKept
CHECK_DEADLOCK FALSE
