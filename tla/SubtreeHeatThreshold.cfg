\* Visits on NUMA node 1 only, then refreshHeat: does the node it classifies as hotspot hold 60% of the heat?
CONSTANTS
  NUMACOUNT = 2
  Threads = {"t2"}
  ThreadId <- MCThreadIdSplit
  Uninit = {0}
  MaxSubtrees = 1
  MaxCalls = 2
SPECIFICATION Spec
INVARIANTS
  HotspotHasShare
