SPECIFICATION Spec
CONSTANTS
  Procs = {p1, p2}
  NoProc = none
SYMMETRY Symmetry
INVARIANTS CountsExact InodesFreed NoLockCycle
