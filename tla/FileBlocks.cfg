CONSTANTS
  p1 = p1
  p2 = p2
  i1 = i1
  i2 = i2
  b1 = b1
  b2 = b2
  b3 = b3
  b4 = b4
  b5 = b5
  None = None
  Junk = Junk
  Procs <- TwoProcs
  Inums <- TwoInums
  Blocks <- FiveBlocks
  Lens <- SomeLens
  Offs <- SomeOffs
  BSIZE = 2
  NDIRECT = 2
  MAXOPBLOCKS = 6
SPECIFICATION Spec
SYMMETRY Symmetry
INVARIANTS BlocksOwned BytesInPlace FitsTransaction
