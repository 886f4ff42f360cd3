SPECIFICATION FairSpec
CONSTANTS
  NPROC = 2
  NCPU = 1
  MaxPid = 3
  TickMod = 2
  KillArgs = {0, 1, 2, 3}
  SleepArgs = {1}
PROPERTIES RunnableRuns KilledExits
