------------------------------ MODULE ProcTableInv ------------------------------
(***************************************************************************)
(* The inductive invariant of ProcTable.                                   *)
(***************************************************************************)
EXTENDS ProcTable

\* wait_lock is held exactly in exit, the scan and the way to sleep.
LockOK ==
  \A p \in Slots : waitlock = p <=> pc[p] \in {"exit", "scan", "sleep"}

\* Where a process can be in each state.
StateOK ==
  \A p \in Slots :
    /\ pc[p] \in {"exit", "scan", "sleep", "forkparent"} => state[p] = "RUNNING"
    /\ pc[p] = "forkrun" => state[p] \in {"RUNNING", "RUNNABLE"}
    /\ pc[p] = "waitlock" => Alive(p)
    /\ state[p] = "SLEEPING" => pc[p] = "waitlock"

Forking(p) == pc[p] \in {"forkparent", "forkrun"}

\* fork works on a slot of its own, in state USED.
ForkUsed == \A p \in Slots : Forking(p) => np[p] \in Slots /\ state[np[p]] = "USED"
ForkOwn == \A p, q \in Slots : Forking(p) /\ Forking(q) /\ np[p] = np[q] => p = q
ForkChild ==
  \A p \in Slots : Forking(p) =>
    parent[np[p]] = IF pc[p] = "forkrun" THEN p ELSE None

\* Parents are alive, and free slots have none; nor has init.
ParentOK == \A s \in Slots : parent[s] # None => Alive(parent[s]) /\ parent[s] # s
HasParent ==
  \A s \in Slots \ {initproc} : Alive(s) \/ state[s] = "ZOMBIE" => parent[s] # None
FreeOK == \A s \in Slots : state[s] = "UNUSED" => parent[s] = None
InitOK == parent[initproc] = None /\ Alive(initproc)

\* An exiting process has given its children away and woken its parent.
ExitOK ==
  \A p \in Slots : pc[p] = "exit" =>
    /\ p # initproc
    /\ \A s \in Slots : parent[s] # p
    /\ state[parent[p]] # "SLEEPING"

\* What a scan has seen stays true until it ends: only the holder of
\* wait_lock makes a zombie or gives a process a parent.
KidsOK == \A p \in havekids : \E s \in Slots : parent[s] = p
SeenOK ==
  \A p, s \in Slots :
    pc[p] = "scan" /\ s < scan[p] /\ parent[s] = p => state[s] # "ZOMBIE"
ScanStart == \A p \in Slots : pc[p] # "scan" => scan[p] = 1 /\ p \notin havekids
SleepOK ==
  \A p \in Slots : pc[p] = "sleep" =>
    /\ \E s \in Slots : parent[s] = p
    /\ \A s \in Slots : parent[s] = p => state[s] # "ZOMBIE"

\* The inductive invariant: exit, wait and fork agree on who holds wait_lock,
\* who is whose child, and what a scan of the table has seen.
IInv ==
  /\ TypeOK /\ LockOK /\ StateOK
  /\ ForkUsed /\ ForkOwn /\ ForkChild
  /\ ParentOK /\ HasParent /\ FreeOK /\ InitOK /\ ExitOK
  /\ KidsOK /\ ScanStart /\ SeenOK /\ SleepOK
  /\ StackOutlivesUse /\ NoZombieForgotten
===============================================================================
