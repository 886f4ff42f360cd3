SPECIFICATION Spec
CONSTANTS
  Threads = {"p1", "p2"}
  NBUF = 2
  Blocks = {"k1", "k2", "k3"}
  Vals = {0, 1}
  NoProc = "none"
  NoBlock = "none"
  MaxPinned = 1
  ReadErrors = FALSE
  GrowArgs = {2, 4, 6}
  Wild = FALSE
  NPages0 = 1
  Alpha = 25
  Beta = 10
  Limit = 100
  RssMod = 8
INVARIANTS Contents FramesOwned RssExact
PROPERTIES  ImplementsBlockStore
