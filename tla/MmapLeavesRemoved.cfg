SPECIFICATION Spec
CONSTANTS
  p1 = p1
  p2 = p2
  f1 = f1
  a = a
  b = b
  z = z
  Zero = Zero
  NoPage = NoPage
  Procs <- TwoProcs
  Files <- OneFile
  Contents <- TwoPages
  Val <- Stores
  VMA_MAX = 2
  UINT64 = 4
  MapTop = 3
  MaxLen = 2
  MAXFILE = 3
  Kinds <- AllKinds
  Offsets <- NoOffset
INVARIANTS LeavesRemoved
CHECK_DEADLOCK FALSE
