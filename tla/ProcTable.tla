-------------------------------- MODULE ProcTable --------------------------------
(***************************************************************************)
(* The process table of kernel/proc.c: fork, exit, wait, reparent and kill *)
(* under wait_lock and the p->locks.  A process is named by its slot.  A   *)
(* critical section under a p->lock alone is one action; wait_lock is held *)
(* across several, so its holder is explicit.  The p->lock that exit hands *)
(* to the scheduler is explicit too: it is what keeps wait from freeing a  *)
(* process that is still on its kernel stack.                              *)
(***************************************************************************)
EXTENDS Naturals, FiniteSets

CONSTANTS
  NPROC,
  KillPids,   \* arguments kill is called with
  MaxPid      \* bound on the pids allocated

ASSUME ProcTableAssumption ==
  NPROC \in Nat \ {0} /\ MaxPid \in Nat /\ KillPids \subseteq Nat

Slots == 1..NPROC
None == 0
initproc == 1

VARIABLES
  state, pid, parent, killed,  \* struct proc; killed is a set of slots
  nextpid,
  waitlock,   \* holder of wait_lock
  swtching,   \* zombies still on their kernel stack, their p->lock held
  pc,         \* where each process is in the kernel
  np,         \* fork: the child's slot
  scan,       \* wait: the next slot to look at
  havekids    \* wait: a child was seen in this round (a set of slots)

table == <<state, pid, parent, killed>>
locals == <<np, scan, havekids>>
vars == <<table, nextpid, waitlock, swtching, pc, locals>>

\* userinit: the table holds one process.
Init ==
  /\ state = [s \in Slots |-> IF s = initproc THEN "RUNNABLE" ELSE "UNUSED"]
  /\ pid = [s \in Slots |-> IF s = initproc THEN 1 ELSE 0]
  /\ parent = [s \in Slots |-> None]
  /\ killed = {}
  /\ nextpid = 2
  /\ waitlock = None /\ swtching = {}
  /\ pc = [s \in Slots |-> "user"]
  /\ np = [s \in Slots |-> None]
  /\ scan = [s \in Slots |-> 1]
  /\ havekids = {}

At(p, l) == state[p] = "RUNNING" /\ pc[p] = l

Goto(p, l) == pc' = [pc EXCEPT ![p] = l]

\* A trap of a killed process goes to exit and not to its system call.
Syscall(p) == At(p, "user") /\ p \notin killed

\* st with the processes that sleep in wait on channel c made runnable.
WakeupOn(st, c) == [st EXCEPT ![c] = IF @ = "SLEEPING" THEN "RUNNABLE" ELSE @]

-------------------------------------------------------------------------------
Dispatch(p) ==
  /\ state[p] = "RUNNABLE"
  /\ state' = [state EXCEPT ![p] = "RUNNING"]
  /\ UNCHANGED <<pid, parent, killed, nextpid, waitlock, swtching, pc, locals>>

\* A timer interrupt.  Interrupts are off from acquire's first line to
\* release, so a process that spins for wait_lock or holds it does not yield.
Yield(p) ==
  /\ At(p, "user") \/ At(p, "forkrun")
  /\ state' = [state EXCEPT ![p] = "RUNNABLE"]
  /\ UNCHANGED <<pid, parent, killed, nextpid, waitlock, swtching, pc, locals>>

-------------------------------------------------------------------------------
(* fork.                                                                   *)

\* allocproc and the copying of the parent, under np->lock.
Fork(p, s) ==
  /\ Syscall(p) /\ state[s] = "UNUSED" /\ nextpid <= MaxPid
  /\ state' = [state EXCEPT ![s] = "USED"]
  /\ pid' = [pid EXCEPT ![s] = nextpid]
  /\ nextpid' = nextpid + 1
  /\ np' = [np EXCEPT ![p] = s]
  /\ Goto(p, "forkparent")
  /\ UNCHANGED <<parent, killed, waitlock, swtching, scan, havekids>>

\* Memory runs out in allocproc or uvmcopy: freeproc, with the pid spent.
ForkFail(p, s) ==
  /\ Syscall(p) /\ state[s] = "UNUSED" /\ nextpid <= MaxPid
  /\ nextpid' = nextpid + 1
  /\ killed' = killed \ {s}
  /\ UNCHANGED <<state, pid, parent, waitlock, swtching, pc, locals>>

ForkParent(p) ==
  /\ At(p, "forkparent") /\ waitlock = None
  /\ parent' = [parent EXCEPT ![np[p]] = p]
  /\ Goto(p, "forkrun")
  /\ UNCHANGED <<state, pid, killed, nextpid, waitlock, swtching, locals>>

ForkRun(p) ==
  /\ At(p, "forkrun")
  /\ state' = [state EXCEPT ![np[p]] = "RUNNABLE"]
  /\ pc' = [pc EXCEPT ![p] = "user", ![np[p]] = "user"]
  /\ np' = [np EXCEPT ![p] = None]
  /\ UNCHANGED <<pid, parent, killed, nextpid, waitlock, swtching, scan, havekids>>

-------------------------------------------------------------------------------
(* exit, called by the program or by usertrap for a killed process.        *)

ExitKeepsChildren(p) ==
  /\ At(p, "user") /\ p # initproc /\ waitlock = None
  /\ waitlock' = p
  /\ state' = WakeupOn(state, parent[p])
  /\ Goto(p, "exit")
  /\ UNCHANGED <<pid, parent, killed, nextpid, swtching, locals>>

\* acquire(&wait_lock); reparent(p), which wakes init when there are
\* children; wakeup(p->parent).
ExitReparent(p) ==
  /\ At(p, "user") /\ p # initproc /\ waitlock = None
  /\ waitlock' = p
  /\ parent' = [s \in Slots |-> IF parent[s] = p THEN initproc ELSE parent[s]]
  /\ state' = LET st == IF \E s \in Slots : parent[s] = p
                        THEN WakeupOn(state, initproc) ELSE state
              IN  WakeupOn(st, parent[p])
  /\ Goto(p, "exit")
  /\ UNCHANGED <<pid, killed, nextpid, swtching, locals>>

\* acquire(&p->lock); p->state = ZOMBIE; release(&wait_lock); sched().
ExitZombie(p) ==
  /\ At(p, "exit")
  /\ state' = [state EXCEPT ![p] = "ZOMBIE"]
  /\ swtching' = swtching \cup {p}
  /\ waitlock' = None
  /\ Goto(p, "user")
  /\ UNCHANGED <<pid, parent, killed, nextpid, locals>>

\* swtch is done: the scheduler releases p->lock.
SwitchedAway(p) ==
  /\ p \in swtching
  /\ swtching' = swtching \ {p}
  /\ UNCHANGED <<table, nextpid, waitlock, pc, locals>>

-------------------------------------------------------------------------------
(* wait.                                                                   *)

NewRoundKeepsPlace(p) == havekids' = havekids \ {p} /\ UNCHANGED scan

\* A new round begins, now or in the next wait: havekids = 0, pp = proc.
NewRound(p) == scan' = [scan EXCEPT ![p] = 1] /\ havekids' = havekids \ {p}

StartWait(p) ==
  /\ Syscall(p)
  /\ Goto(p, "waitlock")
  /\ UNCHANGED <<table, nextpid, waitlock, swtching, locals>>

\* acquire(&wait_lock), at the start of wait and when sleep returns.
WaitLock(p) ==
  /\ At(p, "waitlock") /\ waitlock = None
  /\ waitlock' = p
  /\ Goto(p, "scan")
  /\ UNCHANGED <<table, nextpid, swtching, locals>>

FreeProc(s) ==
  /\ state' = [state EXCEPT ![s] = "UNUSED"]
  /\ pid' = [pid EXCEPT ![s] = 0]
  /\ parent' = [parent EXCEPT ![s] = None]
  /\ killed' = killed \ {s}

AtChildUnlocked(p) ==
  At(p, "scan") /\ scan[p] \in Slots /\ parent[scan[p]] = p

\* wait has come to a child of p and acquired its lock.
AtChild(p) ==
  /\ At(p, "scan") /\ scan[p] \in Slots /\ parent[scan[p]] = p
  /\ scan[p] \notin swtching

\* The child is a zombie: free it and return.
WaitReap(p) ==
  /\ AtChild(p) /\ state[scan[p]] = "ZOMBIE"
  /\ FreeProc(scan[p])
  /\ waitlock' = None
  /\ Goto(p, "user")
  /\ NewRound(p)
  /\ UNCHANGED <<nextpid, swtching, np>>

\* The same, but copyout of the status fails: return -1 with the zombie left.
\* init passes no address.
WaitCopyoutFails(p) ==
  /\ AtChild(p) /\ state[scan[p]] = "ZOMBIE" /\ p # initproc
  /\ waitlock' = None
  /\ Goto(p, "user")
  /\ NewRound(p)
  /\ UNCHANGED <<table, nextpid, swtching, np>>

\* Not a zombie: note that p has a child, and go on.
WaitChild(p) ==
  /\ AtChild(p) /\ state[scan[p]] # "ZOMBIE"
  /\ havekids' = havekids \cup {p}
  /\ scan' = [scan EXCEPT ![p] = @ + 1]
  /\ UNCHANGED <<table, nextpid, waitlock, swtching, pc, np>>

\* Not a child of p.
WaitSkip(p) ==
  /\ At(p, "scan") /\ scan[p] \in Slots /\ parent[scan[p]] # p
  /\ scan' = [scan EXCEPT ![p] = @ + 1]
  /\ UNCHANGED <<table, nextpid, waitlock, swtching, pc, np, havekids>>

WaitScan(p) == WaitReap(p) \/ WaitCopyoutFails(p) \/ WaitChild(p) \/ WaitSkip(p)

\* if(!havekids || killed(p)) return -1, else on to sleep.
WaitCheck(p) ==
  /\ At(p, "scan") /\ scan[p] > NPROC
  /\ IF p \notin havekids \/ p \in killed
     THEN waitlock' = None /\ Goto(p, "user")
     ELSE Goto(p, "sleep") /\ UNCHANGED waitlock
  /\ NewRound(p)
  /\ UNCHANGED <<table, nextpid, swtching, np>>

\* sleep(p, &wait_lock).
WaitSleep(p) ==
  /\ At(p, "sleep")
  /\ state' = [state EXCEPT ![p] = "SLEEPING"]
  /\ waitlock' = None
  /\ Goto(p, "waitlock")
  /\ UNCHANGED <<pid, parent, killed, nextpid, swtching, locals>>

-------------------------------------------------------------------------------
\* kill: the slot with that pid, whatever its state, is marked and woken.
\* The code would kill init too; s # initproc is an assumption on the callers,
\* as an init that exits is a panic.
Kill(n, s) ==
  /\ pid[s] = n /\ s # initproc /\ s \notin killed \cup swtching
  /\ killed' = killed \cup {s}
  /\ state' = WakeupOn(state, s)
  /\ UNCHANGED <<pid, parent, nextpid, waitlock, swtching, pc, locals>>

-------------------------------------------------------------------------------
Next ==
  \E p \in Slots :
    \/ Dispatch(p) \/ Yield(p)
    \/ \E s \in Slots : Fork(p, s) \/ ForkFail(p, s)
    \/ ForkParent(p) \/ ForkRun(p)
    \/ ExitReparent(p) \/ ExitZombie(p) \/ SwitchedAway(p)
    \/ StartWait(p) \/ WaitLock(p) \/ WaitScan(p) \/ WaitCheck(p) \/ WaitSleep(p)
    \/ \E n \in KillPids : Kill(n, p)

Spec == Init /\ [][Next]_vars

\* The steps of a process inside fork, exit and wait.
KernelStep(p) ==
  \/ ForkParent(p) \/ ForkRun(p) \/ ExitZombie(p)
  \/ WaitLock(p) \/ WaitScan(p) \/ WaitCheck(p) \/ WaitSleep(p)

\* The scheduler runs every runnable process again and again and finishes a
\* switch, spinlocks are handed over fairly, a process in the kernel goes on,
\* and init waits again (user/init.c).
Fairness ==
  /\ \A p \in Slots :
       SF_vars(Dispatch(p)) /\ WF_vars(SwitchedAway(p)) /\ SF_vars(KernelStep(p))
  /\ SF_vars(StartWait(initproc))

FairSpec == Spec /\ Fairness

-------------------------------------------------------------------------------
States == {"UNUSED", "USED", "SLEEPING", "RUNNABLE", "RUNNING", "ZOMBIE"}

TypeOK ==
  /\ state \in [Slots -> States]
  /\ pid \in [Slots -> Nat] /\ parent \in [Slots -> Slots \cup {None}]
  /\ killed \subseteq Slots /\ nextpid \in Nat \ {0}
  /\ waitlock \in Slots \cup {None} /\ swtching \subseteq Slots
  /\ pc \in [Slots -> {"user", "forkparent", "forkrun", "exit", "waitlock", "scan", "sleep"}]
  /\ np \in [Slots -> Slots \cup {None}]
  /\ scan \in [Slots -> 1..NPROC+1] /\ havekids \subseteq Slots

Alive(p) == state[p] \in {"SLEEPING", "RUNNABLE", "RUNNING"}

\* A process is freed only once the CPU has left its kernel stack: wait takes
\* the child's lock, which exit holds until the scheduler has switched away.
StackOutlivesUse == \A p \in swtching : state[p] = "ZOMBIE"

\* Every process that runs, sleeps or is a zombie has a parent that is alive
\* and can wait for it: exit and fork never leave an orphan behind.
ParentLives ==
  \A p \in Slots \ {initproc} :
    Alive(p) \/ state[p] = "ZOMBIE" => parent[p] # None /\ Alive(parent[p])

\* A process asleep in wait has children and none of them is a zombie: exit's
\* wakeup, and the wakeup of init when it inherits a zombie, are not missed.
NoZombieForgotten ==
  \A p \in Slots : state[p] = "SLEEPING" =>
    /\ \E s \in Slots : parent[s] = p
    /\ \A s \in Slots : parent[s] = p => state[s] # "ZOMBIE"

\* No zombie is lost: whoever must be waited for has a parent that can wait,
\* and that parent does not sleep past it.
ZombiesAwaited == ParentLives /\ NoZombieForgotten

\* kill marks the process with the given pid and no other: a free slot is
\* never marked, so no process is born killed.
KillHitsItsPid == \A s \in killed : state[s] # "UNUSED"

\* init reaps every zombie that it inherits or has.
OrphansReaped ==
  \A s \in Slots :
    (state[s] = "ZOMBIE" /\ parent[s] = initproc) ~> (state[s] = "UNUSED")
===============================================================================
