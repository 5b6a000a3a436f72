CONSTANTS
  boolsPW = 4
  ByteSize = 2
  MaxBits = 5
SPECIFICATION Spec
PROPERTY ImplementsBitLists
