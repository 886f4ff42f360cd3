SPECIFICATION MCSpec
CONSTANTS
  KERNBASE = 9
  MaxArg = 1
  BUF = 5
INVARIANTS AcceptedInside ParsesGrammar HeapSound StringsExact GrepExact
