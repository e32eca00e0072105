\* Crashes anywhere but in the create path; clean restarts in between.
CONSTANTS
  NUMACOUNT = 2
  Frontend = "NVMBtree"
  HasValue = TRUE
  MaxBoots = 4
  CrashPoints <- MCAfterCreate
  LogSlots = 2
  MaxValues = 2
SPECIFICATION Spec
\* After the last permitted start the process stops for good.
CHECK_DEADLOCK FALSE
INVARIANTS
  TypeOK
  RecoverSound
  LogDurable
