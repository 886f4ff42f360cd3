SPECIFICATION MCSpec
CONSTANTS
  Cpus = {c1, c2}
  NoCPU = none
  Locks = {1, 2}
INVARIANTS MutualExclusion NoInterruptUnderLock NoLostWakeup
  ConsoleExact TypedAsMeant TimeWasShown
