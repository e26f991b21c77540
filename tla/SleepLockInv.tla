------------------------------ MODULE SleepLockInv ------------------------------
(***************************************************************************)
(* The inductive invariant behind sleep and wakeup: who holds which spin   *)
(* lock at each step of a switch, a sleep and a wakeup.                    *)
(***************************************************************************)
EXTENDS SleepLock

\* CPU c executes p's kernel thread.
Executes(c, p) == cur[c] = p /\ ctx[c] = "proc"

\* A CPU has a process exactly while it is not scanning, and no two CPUs
\* have the same.
CurOK ==
  /\ \A c \in CPUs : cur[c] = None <=> ctx[c] = "scan"
  /\ \A c, d \in CPUs : cur[c] = cur[d] /\ cur[c] # None => c = d

\* p->lock is held while p is between its scheduler and its own code, and
\* in the second half of sleep.
PlockOK ==
  \A p \in Procs, c \in CPUs :
    plock[p] = c <=>
      /\ cur[c] = p
      /\ ctx[c] = "back" \/ p \in insched \/ pc[p] \in {"release", "asleep"}

\* p->state agrees with what the CPUs execute.
StateOK ==
  /\ \A p \in Procs : state[p] = "RUNNING" <=> \E c \in CPUs : Executes(c, p)
  /\ \A p \in Procs : p \notin insched => \E c \in CPUs : Executes(c, p)
  /\ \A c \in CPUs : ctx[c] = "back" => cur[c] \in insched
  /\ \A p \in insched : pc[p] \in {"out", "want", "crit", "leave", "asleep"}
  /\ \A p \in Procs : state[p] = "SLEEPING" => p \in chan
  /\ \A p \in Procs : p \in chan <=> (p \in insched /\ pc[p] = "asleep")

\* The spin lock inside the sleep lock is held from test to sleep's release
\* and during wakeup.
LkOK ==
  /\ \A p \in Procs :
       pc[p] \in {"test", "sleep", "release", "wakeup"} =>
         \E c \in CPUs : Executes(c, p) /\ lk = c
  /\ \A c \in CPUs : lk = c =>
       \E p \in Procs : Executes(c, p) /\ pc[p] \in {"test", "sleep", "release", "wakeup"}

\* lk->locked is set exactly while one process is inside, and it cannot
\* change between a process's test and its release of the spin lock.
LockedOK ==
  /\ locked <=> Holders # {}
  /\ \A p, q \in Holders : p = q
  /\ \A p \in Procs : pc[p] \in {"sleep", "release"} => locked

IInv ==
  /\ TypeOK /\ CurOK /\ PlockOK /\ StateOK /\ LkOK /\ LockedOK /\ NoLostWakeup
===============================================================================
