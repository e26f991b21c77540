SPECIFICATION FairSpec
CONSTANTS
  None = None
  p1 = p1
  p2 = p2
  p3 = p3
  c1 = c1
  c2 = c2
  Procs <- ThreeProcs
  CPUs <- TwoCPUs
INVARIANTS MutualExclusion NoLostWakeup
PROPERTIES SleepersWake
