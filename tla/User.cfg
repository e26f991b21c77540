CONSTANTS
  MAXARGS = 3
  Lines <- SomeLines
  Pids <- SixPids
  NOFILE = 5
  HeapTop = 11
  CORE = 4
  Sizes <- SomeSizes
  Patterns <- AllPatterns
  Argvs <- SomeArgvs
  BUFSIZE = 5
  FSSIZE = 22
  BSIZE = 2
  NINODES = 4
  IPB = 2
  LOGSIZE = 1
  NDIRECT = 1
  NINDIRECT = 2
  BPB = 20
  Sources <- SomeSources
SPECIFICATION UserSpec
INVARIANTS ParseFaithful FdsWired ForegroundDone HeapSound GrepPrints ImageSound
PROPERTIES PromptReturns
CHECK_DEADLOCK FALSE
