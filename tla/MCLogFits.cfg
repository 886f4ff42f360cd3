SPECIFICATION Spec
CONSTANTS
  Procs = {p1, p2}
  Blocks = {b1, b2, b3}
  Vals = {0}
  MAXOPBLOCKS = 1
  LOGSIZE = 3
  NLOG = 3
  AfterLog = b1
INVARIANT LogFits
