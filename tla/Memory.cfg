CONSTANTS
  p1 = p1
  p2 = p2
  Procs <- TwoProcs
  FirstProc <- p1
  NPAGES = 23
  PGSIZE = 2
  FANOUT = 2
  Deltas <- SomeDeltas
  Programs <- SomePrograms
  MaxSz = 10
  MaxCalls = 5
SPECIFICATION Spec
CHECK_DEADLOCK FALSE
INVARIANTS NoPanic PagesAccounted
PROPERTIES FailureUndone
