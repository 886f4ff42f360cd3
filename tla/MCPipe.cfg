SPECIFICATION Spec
CONSTANTS
  Procs = {w1, w2, r1}
  Writers = {w1, w2}
  Readers = {r1}
  Bytes = {0, 1}
  PIPESIZE = 2
  MaxCount = 3
  CountMod = 4
INVARIANTS NoLostPipeWakeup FreedWhenUnused
PROPERTIES ImplementsByteQueue
