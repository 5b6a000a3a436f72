\* A workspace that may grow: three block sizes, with and without remainder.
CONSTANTS
  FlhSize = 5
  MinSize = 8
  DfMemSize = 42
  MinHeapSpace = 12
  CleanupExtra = 2
  Expansion = TRUE
  MaxMemSize = 77
  Requests <- MCRequests
  LastWords <- MCLastWords
SPECIFICATION FairSpec
INVARIANTS Structure FreeListComplete ExpandsOnlyWhenFull
PROPERTIES ImplementsHeapAbs CallsEnd
CHECK_DEADLOCK FALSE
