SPECIFICATION Spec
CONSTANTS
  NPROC = 2
  MaxPages = 3
  NFRAME = 4
  NSLOT = 2
  SwapReady = FALSE
  Calls = {"fork","sbrk"}
  GrowArgs = {2}
  ShrinkArgs = {}
  ExecPages = 1
  Stored = {0, 1}
  MaxTries = 8
  Wild = FALSE
  Threshold0 = 1
  NPages0 = 1
  Alpha = 25
  Beta = 10
  Limit = 100
  RssMod = 8
INVARIANT OwnTable
CHECK_DEADLOCK FALSE
