SPECIFICATION FairSpec
CONSTANTS
  NPROC = 3
  MaxPid = 4
  KillPids <- NonInitPids
INVARIANTS StackOutlivesUse ZombiesAwaited
PROPERTIES OrphansReaped
