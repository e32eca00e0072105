\* newSubtreeRoot splits, then increaseHeat and refreshHeat on both subtrees: is a NUMA node holding 60% of the heat always classified?
CONSTANTS
  NUMACOUNT = 2
  Threads = {"t1"}
  ThreadId <- MCThreadIdSplit
  Uninit = {0, 5}
  MaxSubtrees = 2
  MaxCalls = 1
SPECIFICATION Spec
INVARIANTS
  TypeOK
  NoMissedHotspot
