SPECIFICATION FairSpec
CONSTANTS
  MAX_CHILDREN = 2
  MAX_STREAMS = 4
  MaxFds = 6
  Pids = {1, 2, 3}
  Statuses = {"exit"}
  MaxOpens = 1
  NoPid = 0
INVARIANTS
  EndsSeen DescriptorsOwned EntriesAccounted
PROPERTIES
  NoZombies EndsReported
CHECK_DEADLOCK FALSE
