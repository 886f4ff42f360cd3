SPECIFICATION Spec
CONSTANTS
  Ids = {"a", "b", "c", "d"}
  Nodes = {1, 2, 3, 4, 5, 6, 7, 8}
  Users = {"p1", "p2", "p3"}
  Writers = {"w1", "w2"}
INVARIANTS StartSafe
PROPERTIES ReadsEnd AllStarted IoCompletes CommandEnds AccessEnds
