CONSTANTS
  Names = {f1}
  Data = {a}
  DataSizes = {2, 3}
  membase = 1
  DfMemSize = 9
  MinSize = 2
  MinHeapSpace = 2
  DfStkLim = 2
  AtomTblSize = 2
  Expansions = {TRUE, FALSE}
  MaxMemSize = 13
  MaxSaves = 1
  Uses = {"first block free"}
  none = none
SPECIFICATION Spec
PROPERTY LoadRestores
CHECK_DEADLOCK FALSE
