SPECIFICATION Spec
CONSTANTS
  p1 = p1
  p2 = p2
  f1 = f1
  a = a
  b = b
  z = z
  Zero = Zero
  NoPage = NoPage
  Procs <- TwoProcs
  Files <- OneFile
  Contents <- OnePage
  Val <- Stores
  VMA_MAX = 2
  UINT64 = 2
  MapTop = 2
  MaxLen = 2
  MAXFILE = 1
  Kinds <- TwoKinds
  Offsets <- NoOffset
SYMMETRY Symmetry
INVARIANTS RefsExact 
CHECK_DEADLOCK FALSE
