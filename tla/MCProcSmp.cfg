SPECIFICATION Spec
CONSTANTS
  NPROC = 3
  NCPU = 2
  MaxPid = 3
  TickMod = 2
  KillArgs = {0, 2, 3}
  SleepArgs = {}
INVARIANTS RunningOnOneCpu StackOwned NoLostExit
PROPERTIES OnlyParentReaps
