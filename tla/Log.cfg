SPECIFICATION FairSpec
CONSTANTS
  Torn = Torn
  NotCached = NotCached
  NoBuf = NoBuf
  p1 = p1
  p2 = p2
  b1 = b1
  b2 = b2
  b3 = b3
  v0 = v0
  v1 = v1
  Procs <- TwoProcs
  Blocks <- ThreeBlocks
  Val <- TwoVals
  Image <- Zeroed
  Writes <- SomeWrites
  MAXOPBLOCKS = 2
  LOGSIZE = 4
  nlog = 4
  OpBlocks = 1
INVARIANTS NoPanic NeverTorn
PROPERTIES AtomicDurability SleepersWake
