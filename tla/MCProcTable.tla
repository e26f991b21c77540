------------------------------ MODULE MCProcTable -------------------------------
EXTENDS ProcTableInv, TLC

NonInitPids == 2..MaxPid
================================================================================
