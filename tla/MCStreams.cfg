SPECIFICATION FairSpec
CONSTANTS
  BUFFSIZE = 3
  WORD = 2
  PIPESIZE = 4
  MaxSignals = 1
  MayBeKilled = TRUE
  Scripts <- MCScripts
INVARIANTS
  MessagesInOrder
PROPERTIES
  ImplementsChannel
  EverythingArrives
