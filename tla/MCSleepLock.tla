------------------------------ MODULE MCSleepLock ------------------------------
EXTENDS SleepLockInv, TLC

CONSTANTS p1, p2, p3, c1, c2

ThreeProcs == {p1, p2, p3}
TwoCPUs == {c1, c2}
================================================================================
