CONSTANTS
  b1 = b1
  b2 = b2
  b3 = b3
  None = None
  Bufs <- ThreeBufs
  NUM = 8
  RING = 2
  UINT16 = 4
SPECIFICATION FairSpec
INVARIANTS DescriptorsOwned
PROPERTIES ReturnsWhenMoved RequestsFinish
