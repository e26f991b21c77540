CONSTANTS
  p1 = p1
  p2 = p2
  None = None
  Procs <- TwoProcs
  Inums <- ThreeInodes
  ROOTINO = 1
  Names <- TwoNames
  Calls <- TreeCalls
SYMMETRY Symmetry
SPECIFICATION Spec
CONSTRAINT NobodyStrays
INVARIANTS NoDeadlock  LinksCovered RefsExact
