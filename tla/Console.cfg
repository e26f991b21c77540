CONSTANTS
  r1 = r1
  r2 = r2
  None = None
  Readers <- TwoReaders
  Counts <- TwoBytes
  INPUT_BUF_SIZE = 3
  UINT = 6
  c1 = c1
  c2 = c2
  NoCPU = NoCPU
  CPUs <- TwoCPUs
  UART_TX_BUF_SIZE = 2
  UINT64 = 4
  EchoCounts <- OneChar
  NOISE = 1
SPECIFICATION HalfSpec
INVARIANTS SleepersJustified TxInOrder LocksWithInterruptsOff
PROPERTIES LineDiscipline WritersResume
