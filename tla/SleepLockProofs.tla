------------------------------ MODULE SleepLockProofs ------------------------------
(***************************************************************************)
(* Proofs about sleep and wakeup, for any number of processes and CPUs.    *)
(***************************************************************************)
EXTENDS SleepLockInv, TLAPS

\* The state in which every process is runnable and every CPU in its
\* scheduler satisfies the invariant.
LEMMA InitInv == Init => IInv
<1> SUFFICES ASSUME Init PROVE IInv
  OBVIOUS
<1> USE SleepLockAssumption DEF Init
<1>1. TypeOK
  BY Zenon DEF TypeOK, Pcs
<1>2. CurOK /\ PlockOK
  BY DEF CurOK, PlockOK
<1>3. StateOK /\ LkOK
  BY DEF StateOK, LkOK, Executes
<1>4. LockedOK /\ NoLostWakeup
  BY DEF LockedOK, NoLostWakeup, Dozing, Holders
<1> QED
  BY <1>1, <1>2, <1>3, <1>4 DEF IInv

\* scheduler's switch to a runnable process preserves the invariant.
LEMMA DispatchInv ==
  ASSUME IInv, NEW c \in CPUs, NEW p \in Procs, Dispatch(c, p)
  PROVE  IInv'
<1> USE SleepLockAssumption DEF IInv, TypeOK, Dispatch, Runs, Goto
<1>1. TypeOK'
  BY DEF Pcs
<1>2. CurOK'
  BY DEF CurOK, PlockOK, StateOK, Executes
<1>3. PlockOK'
  BY DEF CurOK, PlockOK, StateOK, Executes
<1>4. StateOK'
  BY DEF StateOK, CurOK, PlockOK, Executes
<1>5. LkOK'
  BY DEF LkOK, StateOK, CurOK, Executes
<1>6. LockedOK'
  BY DEF LockedOK, LkOK, CurOK, Executes, Holders
<1>7. NoLostWakeup'
  BY DEF NoLostWakeup, Dozing, LkOK, StateOK, CurOK, PlockOK, LockedOK, Executes
<1> QED
  BY <1>1, <1>2, <1>3, <1>4, <1>5, <1>6, <1>7

\* scheduler's return from swtch, which drops p->lock, preserves the
\* invariant.
LEMMA BackInv ==
  ASSUME IInv, NEW c \in CPUs, Back(c)
  PROVE  IInv'
<1> USE SleepLockAssumption DEF IInv, TypeOK, Back, Runs, Goto
<1>1. TypeOK'
  BY Zenon DEF Pcs
<1>2. CurOK'
  BY DEF CurOK
<1>3. PlockOK'
  BY DEF PlockOK, CurOK
<1>4. StateOK'
  BY DEF StateOK, CurOK, PlockOK, Executes
<1>5. LkOK'
  BY DEF LkOK, StateOK, CurOK, Executes
<1>6. LockedOK'
  BY DEF LockedOK, LkOK, CurOK, Executes, Holders
<1>7. NoLostWakeup'
  BY DEF NoLostWakeup, Dozing, LkOK, StateOK, CurOK, PlockOK, LockedOK, Executes
<1> QED
  BY <1>1, <1>2, <1>3, <1>4, <1>5, <1>6, <1>7

\* A process's return from sched, which drops its p->lock, preserves the
\* invariant.
LEMMA ResumeInv ==
  ASSUME IInv, NEW c \in CPUs, NEW p \in Procs, Resume(c, p)
  PROVE  IInv'
<1> USE SleepLockAssumption DEF IInv, TypeOK, Resume, Runs, Goto
<1>1. TypeOK'
  BY DEF Pcs
<1>2. CurOK'
  BY DEF CurOK
<1>3. PlockOK'
  BY DEF PlockOK, CurOK, StateOK
<1>4. StateOK'
  BY DEF StateOK, CurOK, PlockOK, Executes
<1>5. LkOK'
  BY DEF LkOK, StateOK, CurOK, Executes
<1>6. LockedOK'
  BY DEF LockedOK, LkOK, CurOK, Executes, Holders
<1>7. NoLostWakeup'
  BY DEF NoLostWakeup, Dozing, LkOK, StateOK, CurOK, PlockOK, LockedOK, Executes
<1> QED
  BY <1>1, <1>2, <1>3, <1>4, <1>5, <1>6, <1>7

\* yield, from taking p->lock to calling sched, preserves the invariant.
LEMMA YieldInv ==
  ASSUME IInv, NEW c \in CPUs, NEW p \in Procs, Yield(c, p)
  PROVE  IInv'
<1> USE SleepLockAssumption DEF IInv, TypeOK, Yield, Runs, Goto, Sched
<1>1. TypeOK'
  BY DEF Pcs
<1>2. CurOK'
  BY DEF CurOK
<1>3. PlockOK'
  BY DEF PlockOK, CurOK, StateOK
<1>4. StateOK'
  BY DEF StateOK, CurOK, PlockOK, Executes
<1>5. LkOK'
  BY DEF LkOK, StateOK, CurOK, Executes
<1>6. LockedOK'
  BY DEF LockedOK, LkOK, CurOK, Executes, Holders
<1>7. NoLostWakeup'
  BY DEF NoLostWakeup, Dozing, LkOK, StateOK, CurOK, PlockOK, LockedOK, Executes
<1> QED
  BY <1>1, <1>2, <1>3, <1>4, <1>5, <1>6, <1>7

\* The start of acquiresleep preserves the invariant.
LEMMA EnterInv ==
  ASSUME IInv, NEW c \in CPUs, NEW p \in Procs, Enter(c, p)
  PROVE  IInv'
<1> USE SleepLockAssumption DEF IInv, TypeOK, Enter, Runs, Goto
<1>1. TypeOK'
  BY DEF Pcs
<1>2. CurOK'
  BY DEF CurOK
<1>3. PlockOK'
  BY DEF PlockOK, CurOK
<1>4. StateOK'
  BY DEF StateOK, CurOK, PlockOK, Executes
<1>5. LkOK'
  BY DEF LkOK, StateOK, CurOK, Executes
<1>6. LockedOK'
  BY DEF LockedOK, LkOK, CurOK, Executes, Holders
<1>7. NoLostWakeup'
  BY DEF NoLostWakeup, Dozing, LkOK, StateOK, CurOK, PlockOK, LockedOK, Executes
<1> QED
  BY <1>1, <1>2, <1>3, <1>4, <1>5, <1>6, <1>7

\* Taking the spin lock inside the sleep lock preserves the invariant.
LEMMA AcquireLkInv ==
  ASSUME IInv, NEW c \in CPUs, NEW p \in Procs, AcquireLk(c, p)
  PROVE  IInv'
<1> USE SleepLockAssumption DEF IInv, TypeOK, AcquireLk, Runs, Goto
<1>1. TypeOK'
  BY DEF Pcs
<1>2. CurOK'
  BY DEF CurOK
<1>3. PlockOK'
  BY DEF PlockOK, CurOK
<1>4. StateOK'
  BY DEF StateOK, CurOK, PlockOK, Executes
<1>5. LkOK'
  BY DEF LkOK, StateOK, CurOK, Executes
<1>6. LockedOK'
  BY DEF LockedOK, LkOK, CurOK, Executes, Holders
<1>7. NoLostWakeup'
  BY DEF NoLostWakeup, Dozing, LkOK, StateOK, CurOK, PlockOK, LockedOK, Executes
<1> QED
  BY <1>1, <1>2, <1>3, <1>4, <1>5, <1>6, <1>7

\* acquiresleep's test of lk->locked, with the lock taken or sleep called,
\* preserves the invariant.
LEMMA TestLockedInv ==
  ASSUME IInv, NEW c \in CPUs, NEW p \in Procs, TestLocked(c, p)
  PROVE  IInv'
<1> USE SleepLockAssumption DEF IInv, TypeOK, TestLocked, Runs, Goto
<1>1. TypeOK'
  BY ZenonT(30) DEF Pcs
<1>2. CurOK'
  BY DEF CurOK
<1>3. PlockOK'
  BY DEF PlockOK, CurOK
<1>4. StateOK'
  BY DEF StateOK, CurOK, PlockOK, Executes
<1>5. LkOK'
  BY DEF LkOK, StateOK, CurOK, Executes
<1>6. LockedOK'
  BY DEF LockedOK, LkOK, CurOK, Executes, Holders
<1>7. NoLostWakeup'
  BY DEF NoLostWakeup, Dozing, LkOK, StateOK, CurOK, PlockOK, LockedOK, Executes
<1> QED
  BY <1>1, <1>2, <1>3, <1>4, <1>5, <1>6, <1>7

\* sleep's acquire of p->lock preserves the invariant.
LEMMA SleepLockProcInv ==
  ASSUME IInv, NEW c \in CPUs, NEW p \in Procs, SleepLockProc(c, p)
  PROVE  IInv'
<1> USE SleepLockAssumption DEF IInv, TypeOK, SleepLockProc, Runs, Goto
<1>1. TypeOK'
  BY DEF Pcs
<1>2. CurOK'
  BY DEF CurOK
<1>3. PlockOK'
  BY DEF PlockOK, CurOK
<1>4. StateOK'
  BY DEF StateOK, CurOK, PlockOK, Executes
<1>5. LkOK'
  BY DEF LkOK, StateOK, CurOK, Executes
<1>6. LockedOK'
  BY DEF LockedOK, LkOK, CurOK, Executes, Holders
<1>7. NoLostWakeup'
  BY DEF NoLostWakeup, Dozing, LkOK, StateOK, CurOK, PlockOK, LockedOK, Executes
<1> QED
  BY <1>1, <1>2, <1>3, <1>4, <1>5, <1>6, <1>7

\* sleep's release of the caller's lock preserves the invariant.
LEMMA SleepReleaseInv ==
  ASSUME IInv, NEW c \in CPUs, NEW p \in Procs, SleepRelease(c, p)
  PROVE  IInv'
<1> USE SleepLockAssumption DEF IInv, TypeOK, SleepRelease, Runs, Goto
<1>1. TypeOK'
  BY DEF Pcs
<1>2. CurOK'
  BY DEF CurOK
<1>3. PlockOK'
  BY DEF PlockOK, CurOK
<1>4. StateOK'
  BY DEF StateOK, CurOK, PlockOK, Executes
<1>5. LkOK'
  BY DEF LkOK, StateOK, CurOK, Executes
<1>6. LockedOK'
  BY DEF LockedOK, LkOK, CurOK, Executes, Holders
<1>7. NoLostWakeup'
  BY DEF NoLostWakeup, Dozing, LkOK, StateOK, CurOK, PlockOK, LockedOK, Executes
<1> QED
  BY <1>1, <1>2, <1>3, <1>4, <1>5, <1>6, <1>7

\* sleep's setting of p->chan and p->state and its call of sched preserve the
\* invariant.
LEMMA SleepSchedInv ==
  ASSUME IInv, NEW c \in CPUs, NEW p \in Procs, SleepSched(c, p)
  PROVE  IInv'
<1> USE SleepLockAssumption DEF IInv, TypeOK, SleepSched, Runs, Goto, Sched
<1>1. TypeOK'
  BY DEF Pcs
<1>2. CurOK'
  BY DEF CurOK
<1>3. PlockOK'
  BY DEF PlockOK, CurOK
<1>4. StateOK'
  BY DEF StateOK, CurOK, PlockOK, Executes
<1>5. LkOK'
  BY DEF LkOK, StateOK, CurOK, Executes
<1>6. LockedOK'
  BY DEF LockedOK, LkOK, CurOK, Executes, Holders
<1>7. NoLostWakeup'
  BY DEF NoLostWakeup, Dozing, LkOK, StateOK, CurOK, PlockOK, LockedOK, Executes
<1> QED
  BY <1>1, <1>2, <1>3, <1>4, <1>5, <1>6, <1>7

\* The end of the critical section, where releasesleep begins, preserves the
\* invariant.
LEMMA LeaveInv ==
  ASSUME IInv, NEW c \in CPUs, NEW p \in Procs, Leave(c, p)
  PROVE  IInv'
<1> USE SleepLockAssumption DEF IInv, TypeOK, Leave, Runs, Goto
<1>1. TypeOK'
  BY DEF Pcs
<1>2. CurOK'
  BY DEF CurOK
<1>3. PlockOK'
  BY DEF PlockOK, CurOK
<1>4. StateOK'
  BY DEF StateOK, CurOK, PlockOK, Executes
<1>5. LkOK'
  BY DEF LkOK, StateOK, CurOK, Executes
<1>6. LockedOK'
  BY DEF LockedOK, LkOK, CurOK, Executes, Holders
<1>7. NoLostWakeup'
  BY DEF NoLostWakeup, Dozing, LkOK, StateOK, CurOK, PlockOK, LockedOK, Executes
<1> QED
  BY <1>1, <1>2, <1>3, <1>4, <1>5, <1>6, <1>7

\* releasesleep's clearing of lk->locked preserves the invariant.
LEMMA ReleaseSleepInv ==
  ASSUME IInv, NEW c \in CPUs, NEW p \in Procs, ReleaseSleep(c, p)
  PROVE  IInv'
<1> USE SleepLockAssumption DEF IInv, TypeOK, ReleaseSleep, Runs, Goto
<1>1. TypeOK'
  BY Zenon DEF Pcs
<1>2. CurOK'
  BY DEF CurOK
<1>3. PlockOK'
  BY DEF PlockOK, CurOK
<1>4. StateOK'
  BY DEF StateOK, CurOK, PlockOK, Executes
<1>5. LkOK'
  BY DEF LkOK, StateOK, CurOK, Executes
<1>6. LockedOK'
  BY DEF LockedOK, LkOK, CurOK, Executes, Holders
<1>7. NoLostWakeup'
  BY DEF NoLostWakeup, Dozing, LkOK, StateOK, CurOK, PlockOK, LockedOK, Executes
<1> QED
  BY <1>1, <1>2, <1>3, <1>4, <1>5, <1>6, <1>7

\* One round of wakeup's loop over the processes preserves the invariant.
LEMMA WakeupOneInv ==
  ASSUME IInv, NEW c \in CPUs, NEW p \in Procs, NEW q \in Procs, WakeupOne(c, p, q)
  PROVE  IInv'
<1> USE SleepLockAssumption DEF IInv, TypeOK, WakeupOne, Runs, Goto, MakeRunnable
<1>1. TypeOK'
  BY DEF Pcs
<1>2. CurOK'
  BY DEF CurOK
<1>3. PlockOK'
  BY DEF PlockOK, CurOK
<1>4. StateOK'
  BY DEF StateOK, CurOK, PlockOK, Executes
<1>5. LkOK'
  BY DEF LkOK, StateOK, CurOK, Executes
<1>6. LockedOK'
  BY DEF LockedOK, LkOK, CurOK, Executes, Holders
<1>7. NoLostWakeup'
  BY DEF NoLostWakeup, Dozing, LkOK, StateOK, CurOK, PlockOK, LockedOK, Executes
<1> QED
  BY <1>1, <1>2, <1>3, <1>4, <1>5, <1>6, <1>7

\* The end of wakeup and the release of the spin lock preserve the invariant.
LEMMA WakeupDoneInv ==
  ASSUME IInv, NEW c \in CPUs, NEW p \in Procs, WakeupDone(c, p)
  PROVE  IInv'
<1> USE SleepLockAssumption DEF IInv, TypeOK, WakeupDone, Runs, Goto
<1>1. TypeOK'
  BY DEF Pcs
<1>2. CurOK'
  BY DEF CurOK
<1>3. PlockOK'
  BY DEF PlockOK, CurOK
<1>4. StateOK'
  BY DEF StateOK, CurOK, PlockOK, Executes
<1>5. LkOK'
  BY DEF LkOK, StateOK, CurOK, Executes
<1>6. LockedOK'
  BY DEF LockedOK, LkOK, CurOK, Executes, Holders
<1>7. NoLostWakeup'
  BY DEF NoLostWakeup, Dozing, LkOK, StateOK, CurOK, PlockOK, LockedOK, Executes
<1> QED
  BY <1>1, <1>2, <1>3, <1>4, <1>5, <1>6, <1>7

\* kill, which makes a sleeper runnable, preserves the invariant.
LEMMA KillInv ==
  ASSUME IInv, NEW c \in CPUs, NEW p \in Procs, NEW q \in Procs, Kill(c, p, q)
  PROVE  IInv'
<1> USE SleepLockAssumption DEF IInv, TypeOK, Kill, Runs, Goto
<1>1. TypeOK'
  BY DEF Pcs
<1>2. CurOK'
  BY DEF CurOK
<1>3. PlockOK'
  BY DEF PlockOK, CurOK
<1>4. StateOK'
  BY DEF StateOK, CurOK, PlockOK, Executes
<1>5. LkOK'
  BY DEF LkOK, StateOK, CurOK, Executes
<1>6. LockedOK'
  BY DEF LockedOK, LkOK, CurOK, Executes, Holders
<1>7. NoLostWakeup'
  BY DEF NoLostWakeup, Dozing, LkOK, StateOK, CurOK, PlockOK, LockedOK, Executes
<1> QED
  BY <1>1, <1>2, <1>3, <1>4, <1>5, <1>6, <1>7

\* Every step preserves the invariant.
LEMMA NextInv == IInv /\ [Next]_vars => IInv'
<1> SUFFICES ASSUME IInv, [Next]_vars PROVE IInv'
  OBVIOUS
<1>1. ASSUME NEW c \in CPUs, NEW p \in Procs, Advance(c, p) PROVE IInv'
  BY <1>1, AcquireLkInv, TestLockedInv, SleepLockProcInv, SleepReleaseInv, SleepSchedInv,
     LeaveInv, ReleaseSleepInv, WakeupDoneInv, WakeupOneInv DEF Advance
<1>2. CASE UNCHANGED vars
  BY <1>2 DEF vars, procVars, IInv, TypeOK, CurOK, PlockOK, StateOK, LkOK, LockedOK,
     NoLostWakeup, Dozing, Executes, Holders
<1> QED
  BY <1>1, <1>2, BackInv, DispatchInv, ResumeInv, YieldInv, EnterInv, KillInv DEF Next

\* Every reachable state of sleep, wakeup and the scheduler satisfies the
\* inductive invariant.
THEOREM SleepLockInvariant == Spec => []IInv
BY InitInv, NextInv, PTL DEF Spec

\* wakeup() in releasesleep never misses a process that is on its way to
\* sleep in acquiresleep, for any number of processes and CPUs.
THEOREM SleepNeverMissesWakeup == Spec => []NoLostWakeup
<1>1. IInv => NoLostWakeup
  BY DEF IInv
<1> QED
  BY <1>1, SleepLockInvariant, PTL

\* A process is executed by at most one CPU, and marked RUNNING meanwhile.
THEOREM SchedulerExcludes == Spec => []OneCPUPerProcess
<1>1. IInv => OneCPUPerProcess
  BY DEF IInv, CurOK, StateOK, Executes, OneCPUPerProcess
<1> QED
  BY <1>1, SleepLockInvariant, PTL

\* sched() is entered with p->lock and no other spin lock held.
THEOREM SchedNeverPanics == Spec => []SchedSafe
<1>1. IInv => SchedSafe
  BY SleepLockAssumption DEF IInv, TypeOK, CurOK, PlockOK, StateOK, LkOK, Executes, SchedSafe, Runs
<1> QED
  BY <1>1, SleepLockInvariant, PTL

\* No two processes are between acquiresleep and releasesleep, no process is
\* on two CPUs, and sched() meets none of its panics.
THEOREM SleepLockExcludes == Spec => []MutualExclusion
<1>1. IInv /\ OneCPUPerProcess /\ SchedSafe => MutualExclusion
  BY DEF IInv, LockedOK, MutualExclusion
<1> QED
  BY <1>1, SleepLockInvariant, SchedulerExcludes, SchedNeverPanics, PTL
===============================================================================
