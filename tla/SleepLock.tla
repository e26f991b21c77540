------------------------------- MODULE SleepLock -------------------------------
(***************************************************************************)
(* sleep, wakeup, sched, scheduler, yield and kill of kernel/proc.c, under *)
(* the sleep locks of kernel/sleeplock.c: processes on several CPUs take   *)
(* one sleep lock, and p->lock travels across swtch from the CPU's         *)
(* scheduler to the process and back.                                      *)
(*                                                                         *)
(* Spin locks are modelled by the CPU that holds them.  A section under a  *)
(* p->lock that ends before any other lock or swtch is one action; sleep   *)
(* is four, so that wakeups fall between its steps.                        *)
(***************************************************************************)
EXTENDS Naturals, FiniteSets

CONSTANTS Procs, CPUs, None

ASSUME SleepLockAssumption ==
  /\ None \notin Procs \cup CPUs
  /\ CPUs # {}

VARIABLES
  state,    \* p->state
  chan,     \* the processes whose p->chan is the sleep lock
  plock,    \* the CPU holding p->lock
  insched,  \* the processes whose context is inside sched, or at forkret
  pc,       \* where p's kernel thread is
  towake,   \* the processes p's wakeup loop has not looked at yet
  cur,      \* c->proc
  ctx,      \* what CPU c executes: its scheduler or cur[c]
  lk,       \* the CPU holding the spin lock inside the sleep lock
  locked    \* lk->locked of the sleep lock

procVars == <<state, chan, plock, insched, pc, towake>>
vars == <<procVars, cur, ctx, lk, locked>>

\* Processes start in forkret, runnable, outside the sleep lock.
Init ==
  /\ state = [p \in Procs |-> "RUNNABLE"]
  /\ chan = {}
  /\ plock = [p \in Procs |-> None]
  /\ insched = Procs
  /\ pc = [p \in Procs |-> "out"]
  /\ towake = [p \in Procs |-> {}]
  /\ cur = [c \in CPUs |-> None]
  /\ ctx = [c \in CPUs |-> "scan"]
  /\ lk = None
  /\ locked = FALSE

\* CPU c executes kernel code of p at label l.
Runs(c, p, l) == ctx[c] = "proc" /\ cur[c] = p /\ p \notin insched /\ pc[p] = l

Goto(p, l) == pc' = [pc EXCEPT ![p] = l]

-------------------------------------------------------------------------------
(* The scheduler of CPU c, and switching to it.                            *)

\* scheduler: take p->lock, find p runnable, swtch to it.
Dispatch(c, p) ==
  /\ ctx[c] = "scan"
  /\ plock[p] = None
  /\ state[p] = "RUNNABLE"
  /\ plock' = [plock EXCEPT ![p] = c]
  /\ state' = [state EXCEPT ![p] = "RUNNING"]
  /\ cur' = [cur EXCEPT ![c] = p]
  /\ ctx' = [ctx EXCEPT ![c] = "proc"]
  /\ UNCHANGED <<chan, insched, pc, towake, lk, locked>>

\* scheduler after swtch: c->proc = 0 and release p->lock.
Back(c) ==
  /\ ctx[c] = "back"
  /\ plock' = [plock EXCEPT ![cur[c]] = None]
  /\ cur' = [cur EXCEPT ![c] = None]
  /\ ctx' = [ctx EXCEPT ![c] = "scan"]
  /\ UNCHANGED <<state, chan, insched, pc, towake, lk, locked>>

\* sched: swtch away from p with p->lock held.
Sched(c, p) ==
  /\ insched' = insched \cup {p}
  /\ ctx' = [ctx EXCEPT ![c] = "back"]
  /\ UNCHANGED cur

ResumeTakesLock(c, p) ==
  /\ ctx[c] = "proc" /\ cur[c] = p /\ p \in insched
  /\ insched' = insched \ {p}
  /\ plock' = [plock EXCEPT ![p] = None]
  /\ IF pc[p] = "asleep"
     THEN chan' = chan \ {p} /\ Goto(p, "crit") /\ locked' = TRUE
     ELSE UNCHANGED <<chan, pc, locked>>
  /\ UNCHANGED <<state, towake, cur, ctx, lk>>

\* p runs again after sched (or first runs, in forkret): it releases p->lock;
\* sleep clears p->chan first and then competes for lk again.
Resume(c, p) ==
  /\ ctx[c] = "proc" /\ cur[c] = p /\ p \in insched
  /\ insched' = insched \ {p}
  /\ plock' = [plock EXCEPT ![p] = None]
  /\ IF pc[p] = "asleep"
     THEN chan' = chan \ {p} /\ Goto(p, "want")
     ELSE UNCHANGED <<chan, pc>>
  /\ UNCHANGED <<state, towake, cur, ctx, lk, locked>>

\* yield from a timer interrupt; interrupts are off while a spin lock is held.
Yield(c, p) ==
  /\ \E l \in {"out", "want", "crit", "leave"} : Runs(c, p, l)
  /\ plock[p] = None
  /\ plock' = [plock EXCEPT ![p] = c]
  /\ state' = [state EXCEPT ![p] = "RUNNABLE"]
  /\ Sched(c, p)
  /\ UNCHANGED <<chan, pc, towake, lk, locked>>

-------------------------------------------------------------------------------
(* acquiresleep.                                                           *)

Enter(c, p) ==
  /\ Runs(c, p, "out")
  /\ Goto(p, "want")
  /\ UNCHANGED <<state, chan, plock, insched, towake, cur, ctx, lk, locked>>

AcquireLk(c, p) ==
  /\ Runs(c, p, "want")
  /\ lk = None
  /\ lk' = c
  /\ Goto(p, "test")
  /\ UNCHANGED <<state, chan, plock, insched, towake, cur, ctx, locked>>

TestLockedReleasesFirst(c, p) ==
  /\ Runs(c, p, "test")
  /\ lk' = None
  /\ IF locked
     THEN Goto(p, "sleep") /\ UNCHANGED locked
     ELSE locked' = TRUE /\ Goto(p, "crit")
  /\ UNCHANGED <<state, chan, plock, insched, towake, cur, ctx>>

\* while (lk->locked) sleep(...), else take the lock.
TestLocked(c, p) ==
  /\ Runs(c, p, "test")
  /\ IF locked
     THEN Goto(p, "sleep") /\ UNCHANGED <<lk, locked>>
     ELSE locked' = TRUE /\ lk' = None /\ Goto(p, "crit")
  /\ UNCHANGED <<state, chan, plock, insched, towake, cur, ctx>>

\* sleep: acquire(&p->lock).
SleepLockProc(c, p) ==
  /\ Runs(c, p, "sleep")
  /\ plock[p] = None
  /\ plock' = [plock EXCEPT ![p] = c]
  /\ Goto(p, "release")
  /\ UNCHANGED <<state, chan, insched, towake, cur, ctx, lk, locked>>

\* sleep: release(lk).
SleepRelease(c, p) ==
  /\ Runs(c, p, "release")
  /\ lk' = None
  /\ Goto(p, "asleep")
  /\ UNCHANGED <<state, chan, plock, insched, towake, cur, ctx, locked>>

\* sleep: p->chan = chan; p->state = SLEEPING; sched().
SleepSched(c, p) ==
  /\ Runs(c, p, "asleep")
  /\ chan' = chan \cup {p}
  /\ state' = [state EXCEPT ![p] = "SLEEPING"]
  /\ Sched(c, p)
  /\ UNCHANGED <<plock, pc, towake, lk, locked>>

-------------------------------------------------------------------------------
(* releasesleep, wakeup and kill.                                          *)

Leave(c, p) ==
  /\ Runs(c, p, "crit")
  /\ Goto(p, "leave")
  /\ UNCHANGED <<state, chan, plock, insched, towake, cur, ctx, lk, locked>>

\* acquire(&lk->lk); lk->locked = 0; wakeup(lk) starts its loop.
ReleaseSleep(c, p) ==
  /\ Runs(c, p, "leave")
  /\ lk = None
  /\ lk' = c
  /\ locked' = FALSE
  /\ towake' = [towake EXCEPT ![p] = Procs \ {p}]
  /\ Goto(p, "wakeup")
  /\ UNCHANGED <<state, chan, plock, insched, cur, ctx>>

MakeRunnableNever(q) == UNCHANGED state

\* The test inside wakeup's loop, under q's lock.
MakeRunnable(q) ==
  IF state[q] = "SLEEPING" /\ q \in chan
  THEN state' = [state EXCEPT ![q] = "RUNNABLE"]
  ELSE UNCHANGED state

\* wakeup looks at process q.
WakeupOne(c, p, q) ==
  /\ Runs(c, p, "wakeup")
  /\ q \in towake[p]
  /\ plock[q] = None
  /\ MakeRunnable(q)
  /\ towake' = [towake EXCEPT ![p] = @ \ {q}]
  /\ UNCHANGED <<chan, plock, insched, pc, cur, ctx, lk, locked>>

\* The loop is over: release(&lk->lk).
WakeupDone(c, p) ==
  /\ Runs(c, p, "wakeup")
  /\ towake[p] = {}
  /\ lk' = None
  /\ Goto(p, "out")
  /\ UNCHANGED <<state, chan, plock, insched, towake, cur, ctx, locked>>

\* kill: whatever q sleeps on, it becomes runnable.
Kill(c, p, q) ==
  /\ Runs(c, p, "out")
  /\ plock[q] = None
  /\ state[q] = "SLEEPING"
  /\ state' = [state EXCEPT ![q] = "RUNNABLE"]
  /\ UNCHANGED <<chan, plock, insched, pc, towake, cur, ctx, lk, locked>>

-------------------------------------------------------------------------------
\* The steps that p's kernel thread takes unasked once it runs.
Advance(c, p) ==
  \/ AcquireLk(c, p) \/ TestLocked(c, p)
  \/ SleepLockProc(c, p) \/ SleepRelease(c, p) \/ SleepSched(c, p)
  \/ Leave(c, p) \/ ReleaseSleep(c, p) \/ WakeupDone(c, p)
  \/ \E q \in Procs : WakeupOne(c, p, q)

Next ==
  \E c \in CPUs :
    \/ Back(c)
    \/ \E p \in Procs :
         \/ Dispatch(c, p) \/ Resume(c, p) \/ Advance(c, p) \/ Yield(c, p) \/ Enter(c, p)
         \/ \E q \in Procs \ {p} : Kill(c, p, q)

Spec == Init /\ [][Next]_vars

\* A CPU keeps executing; the scheduler's scan reaches a runnable process
\* again and again; a timer interrupt ends every turn, but no turn is so
\* short that a process that could advance in it never does.
Fairness ==
  /\ \A c \in CPUs : WF_vars(Back(c))
  /\ \A p \in Procs :
       /\ SF_vars(\E c \in CPUs : Dispatch(c, p))
       /\ WF_vars(\E c \in CPUs : Resume(c, p))
       /\ SF_vars(\E c \in CPUs : Advance(c, p))
       /\ WF_vars(\E c \in CPUs : Yield(c, p))

FairSpec == Spec /\ Fairness

-------------------------------------------------------------------------------
Pcs == {"out", "want", "test", "sleep", "release", "asleep", "crit", "leave", "wakeup"}

TypeOK ==
  /\ state \in [Procs -> {"RUNNABLE", "RUNNING", "SLEEPING"}]
  /\ chan \subseteq Procs
  /\ plock \in [Procs -> CPUs \cup {None}]
  /\ insched \subseteq Procs
  /\ pc \in [Procs -> Pcs]
  /\ towake \in [Procs -> SUBSET Procs]
  /\ cur \in [CPUs -> Procs \cup {None}]
  /\ ctx \in [CPUs -> {"scan", "proc", "back"}]
  /\ lk \in CPUs \cup {None}
  /\ locked \in BOOLEAN

\* p->lock, handed across swtch, keeps a process on one CPU at a time, and
\* it is marked RUNNING exactly while a CPU executes it (scheduler, sched).
OneCPUPerProcess ==
  /\ \A c, d \in CPUs : cur[c] = cur[d] /\ cur[c] # None => c = d
  /\ \A p \in Procs :
       state[p] = "RUNNING" <=> \E c \in CPUs : cur[c] = p /\ ctx[c] = "proc"

\* sched's panics: whoever calls it holds p->lock and no other spin lock.
SchedSafe ==
  \A c \in CPUs, p \in Procs :
    (cur[c] = p /\ (ctx[c] = "back" \/ Runs(c, p, "asleep"))) =>
      /\ plock[p] = c
      /\ lk # c
      /\ \A q \in Procs : plock[q] = c => q = p

\* The processes between acquiresleep and releasesleep.
Holders == {p \in Procs : pc[p] \in {"crit", "leave"}}

\* The three exclusions one on top of the other: a process is on one CPU, who
\* calls sched holds p->lock alone, and at most one process is between
\* acquiresleep and releasesleep, with the lock marked taken meanwhile.
MutualExclusion ==
  /\ OneCPUPerProcess /\ SchedSafe
  /\ \A p, q \in Holders : p = q /\ locked

\* p is asleep on the sleep lock, or holds only p->lock and is about to be.
Dozing(p) == state[p] = "SLEEPING" \/ (pc[p] = "asleep" /\ p \notin insched)

\* sleep's promise "we won't miss any wakeup": a process that is asleep on a
\* free sleep lock, or about to be, is still ahead of somebody's wakeup loop.
NoLostWakeup ==
  \A p \in Procs :
    Dozing(p) /\ ~locked => \E q \in Procs : pc[q] = "wakeup" /\ p \in towake[q]

\* Under the scheduler's fairness every sleeper is woken.
SleepersWake == \A p \in Procs : state[p] = "SLEEPING" ~> state[p] # "SLEEPING"
===============================================================================
