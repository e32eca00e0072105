\* A crash may hit any step, including the create path of getInitial.
CONSTANTS
  NUMACOUNT = 2
  Frontend = "NFTree"
  HasValue = TRUE
  MaxBoots = 3
  CrashPoints <- MCAnyPoint
  LogSlots = 1
  MaxValues = 0
SPECIFICATION Spec
CHECK_DEADLOCK FALSE
INVARIANTS
  RecoverSound
