SPECIFICATION Spec
SYMMETRY Symmetry
CONSTANTS
  None = None
  w = w
  r = r
  wr = wr
  a = a
  b = b
  Procs <- All
  Writers <- TwoWriters
  Readers <- TwoReaders
  Killable <- Mortal
  Byte <- Bytes
  PIPESIZE = 2
  UINT = 4
  MaxN = 3
INVARIANTS NoUseAfterFree SleepersNotForgotten
PROPERTIES FifoOrder
CHECK_DEADLOCK FALSE
