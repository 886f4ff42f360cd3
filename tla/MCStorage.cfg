SPECIFICATION MCSpec
CONSTANTS
  Procs = {"p1", "p2"}
  NFILE = 3
  NOFILE = 2
  BPB = 2
  NDIRECT = 1
  BSIZE = 2
  MAXOPBLOCKS = 6
  WriteSizes = {1, 4}
INVARIANTS TransactionFits ReadsBack BlocksOwned FilesCounted
