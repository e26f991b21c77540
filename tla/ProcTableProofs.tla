----------------------------- MODULE ProcTableProofs -----------------------------
(***************************************************************************)
(* Proofs about the process table, for any number of slots.                *)
(***************************************************************************)
EXTENDS ProcTableInv, TLAPS

\* init has a slot, and slots are positive numbers, so that None and pid 0
\* are none of them.
LEMMA SlotFacts == initproc \in Slots /\ None \notin Slots /\ Slots \subseteq Nat \ {0}
BY ProcTableAssumption DEF Slots, initproc, None

\* wait's scan of the table, which stops one past the last slot, stays within
\* bounds.
LEMMA ScanFacts ==
  /\ NPROC \in Nat /\ 1 \in 1..NPROC+1
  /\ \A s \in Slots : s <= NPROC /\ s + 1 \in 1..NPROC+1
BY ProcTableAssumption DEF Slots

\* The table userinit leaves, with init alone in it, satisfies the invariant.
LEMMA InitInv == Init => IInv
<1> SUFFICES ASSUME Init PROVE IInv
  OBVIOUS
<1> USE SlotFacts DEF Init, Forking, Alive
<1>1. TypeOK
  BY ProcTableAssumption DEF TypeOK, States, Slots, initproc, None
<1>2. LockOK /\ StateOK /\ ForkUsed /\ ForkOwn /\ ForkChild
  BY DEF LockOK, StateOK, ForkUsed, ForkOwn, ForkChild
<1>3. ParentOK /\ HasParent /\ FreeOK /\ InitOK /\ ExitOK
  BY DEF ParentOK, HasParent, FreeOK, InitOK, ExitOK
<1>4. KidsOK /\ SeenOK /\ ScanStart /\ SleepOK /\ StackOutlivesUse /\ NoZombieForgotten
  BY DEF KidsOK, SeenOK, ScanStart, SleepOK, StackOutlivesUse, NoZombieForgotten
<1> QED
  BY <1>1, <1>2, <1>3, <1>4 DEF IInv

\* scheduler's choice of a runnable process preserves the invariant.
LEMMA DispatchInv ==
  ASSUME IInv, NEW p \in Slots, Dispatch(p)
  PROVE  IInv'
<1> USE SlotFacts DEF IInv, TypeOK, Dispatch,
        table, locals
<1>1. TypeOK'
  BY DEF States
<1>2. LockOK'
  BY DEF LockOK, StateOK
<1>3. StateOK'
  BY DEF StateOK, ForkUsed, Forking, InitOK, ParentOK, LockOK, Alive
<1>4. ForkUsed'
  BY DEF ForkUsed, Forking, StateOK
<1>5. ForkOwn'
  BY DEF ForkOwn, ForkUsed, Forking
<1>6. ForkChild'
  BY DEF ForkChild, ForkUsed, ForkOwn, Forking, FreeOK, StateOK, Alive
<1>7. ParentOK'
  BY DEF ParentOK, ForkUsed, Forking, StateOK, ExitOK, InitOK, Alive
<1>8. HasParent'
  BY DEF HasParent, ForkChild, ForkUsed, Forking, Alive
<1>9. FreeOK'
  BY DEF FreeOK, ForkUsed, Forking, ParentOK, InitOK, Alive
<1>10. InitOK'
  BY DEF InitOK, ForkUsed, ForkChild, Forking, ExitOK, Alive
<1>11. ExitOK'
  BY DEF ExitOK, StateOK, LockOK, ParentOK, HasParent, ForkUsed, Forking, Alive
<1>12. KidsOK'
  BY DEF KidsOK, ForkChild, ForkUsed, Forking
<1>13. SeenOK'
  BY DEF SeenOK, ScanStart, LockOK, StateOK, ForkUsed, Forking
<1>14. ScanStart'
  BY DEF ScanStart
<1>15. SleepOK'
  BY DEF SleepOK, KidsOK, SeenOK, LockOK
<1>16. StackOutlivesUse'
  BY DEF StackOutlivesUse, StateOK, ForkUsed, Forking
<1>17. NoZombieForgotten'
  BY DEF NoZombieForgotten, SleepOK, LockOK, StateOK, ExitOK
<1> QED
  BY <1>1, <1>2, <1>3, <1>4, <1>5, <1>6, <1>7, <1>8, <1>9, <1>10, <1>11, <1>12, <1>13, <1>14, <1>15, <1>16, <1>17

\* A process that gives up its CPU preserves the invariant.
LEMMA YieldInv ==
  ASSUME IInv, NEW p \in Slots, Yield(p)
  PROVE  IInv'
<1> USE SlotFacts DEF IInv, TypeOK, Yield, At,
        table, locals
<1>1. TypeOK'
  BY DEF States
<1>2. LockOK'
  BY DEF LockOK, StateOK
<1>3. StateOK'
  BY DEF StateOK, ForkUsed, Forking, InitOK, ParentOK, LockOK, Alive
<1>4. ForkUsed'
  BY DEF ForkUsed, Forking, StateOK
<1>5. ForkOwn'
  BY DEF ForkOwn, ForkUsed, Forking
<1>6. ForkChild'
  BY DEF ForkChild, ForkUsed, ForkOwn, Forking, FreeOK, StateOK, Alive
<1>7. ParentOK'
  BY DEF ParentOK, ForkUsed, Forking, StateOK, ExitOK, InitOK, Alive
<1>8. HasParent'
  BY DEF HasParent, ForkChild, ForkUsed, Forking, Alive
<1>9. FreeOK'
  BY DEF FreeOK, ForkUsed, Forking, ParentOK, InitOK, Alive
<1>10. InitOK'
  BY DEF InitOK, ForkUsed, ForkChild, Forking, ExitOK, Alive
<1>11. ExitOK'
  BY DEF ExitOK, StateOK, LockOK, ParentOK, HasParent, ForkUsed, Forking, Alive
<1>12. KidsOK'
  BY DEF KidsOK, ForkChild, ForkUsed, Forking
<1>13. SeenOK'
  BY DEF SeenOK, ScanStart, LockOK, StateOK, ForkUsed, Forking
<1>14. ScanStart'
  BY DEF ScanStart
<1>15. SleepOK'
  BY DEF SleepOK, KidsOK, SeenOK, LockOK
<1>16. StackOutlivesUse'
  BY DEF StackOutlivesUse, StateOK, ForkUsed, Forking
<1>17. NoZombieForgotten'
  BY DEF NoZombieForgotten, SleepOK, LockOK, StateOK, ExitOK
<1> QED
  BY <1>1, <1>2, <1>3, <1>4, <1>5, <1>6, <1>7, <1>8, <1>9, <1>10, <1>11, <1>12, <1>13, <1>14, <1>15, <1>16, <1>17

\* fork's allocation of a slot and of its pid preserves the invariant.
LEMMA ForkInv ==
  ASSUME IInv, NEW p \in Slots, NEW s \in Slots, Fork(p, s)
  PROVE  IInv'
<1> USE SlotFacts DEF IInv, TypeOK, Fork, At, Goto, Syscall,
        table, locals
<1>1. TypeOK'
  BY DEF States
<1>2. LockOK'
  BY DEF LockOK, StateOK
<1>3. StateOK'
  BY DEF StateOK, ForkUsed, Forking, InitOK, ParentOK, LockOK, Alive
<1>4. ForkUsed'
  BY DEF ForkUsed, Forking, StateOK
<1>5. ForkOwn'
  BY DEF ForkOwn, ForkUsed, Forking
<1>6. ForkChild'
  BY DEF ForkChild, ForkUsed, ForkOwn, Forking, FreeOK, StateOK, Alive
<1>7. ParentOK'
  BY DEF ParentOK, ForkUsed, Forking, StateOK, ExitOK, InitOK, Alive
<1>8. HasParent'
  BY DEF HasParent, ForkChild, ForkUsed, Forking, Alive
<1>9. FreeOK'
  BY DEF FreeOK, ForkUsed, Forking, ParentOK, InitOK, Alive
<1>10. InitOK'
  BY DEF InitOK, ForkUsed, ForkChild, Forking, ExitOK, Alive
<1>11. ExitOK'
  BY DEF ExitOK, StateOK, LockOK, ParentOK, HasParent, ForkUsed, Forking, Alive
<1>12. KidsOK'
  BY DEF KidsOK, ForkChild, ForkUsed, Forking
<1>13. SeenOK'
  BY DEF SeenOK, ScanStart, LockOK, StateOK, ForkUsed, Forking
<1>14. ScanStart'
  BY DEF ScanStart
<1>15. SleepOK'
  BY DEF SleepOK, KidsOK, SeenOK, LockOK
<1>16. StackOutlivesUse'
  BY DEF StackOutlivesUse, StateOK, ForkUsed, Forking
<1>17. NoZombieForgotten'
  BY DEF NoZombieForgotten, SleepOK, LockOK, StateOK, ExitOK
<1> QED
  BY <1>1, <1>2, <1>3, <1>4, <1>5, <1>6, <1>7, <1>8, <1>9, <1>10, <1>11, <1>12, <1>13, <1>14, <1>15, <1>16, <1>17

\* A fork that cannot copy the memory of its parent, and frees the slot,
\* preserves the invariant.
LEMMA ForkFailInv ==
  ASSUME IInv, NEW p \in Slots, NEW s \in Slots, ForkFail(p, s)
  PROVE  IInv'
<1> USE SlotFacts DEF IInv, TypeOK, ForkFail, At, Syscall,
        table, locals
<1>1. TypeOK'
  BY DEF States
<1>2. LockOK'
  BY DEF LockOK, StateOK
<1>3. StateOK'
  BY DEF StateOK, ForkUsed, Forking, InitOK, ParentOK, LockOK, Alive
<1>4. ForkUsed'
  BY DEF ForkUsed, Forking, StateOK
<1>5. ForkOwn'
  BY DEF ForkOwn, ForkUsed, Forking
<1>6. ForkChild'
  BY DEF ForkChild, ForkUsed, ForkOwn, Forking, FreeOK, StateOK, Alive
<1>7. ParentOK'
  BY DEF ParentOK, ForkUsed, Forking, StateOK, ExitOK, InitOK, Alive
<1>8. HasParent'
  BY DEF HasParent, ForkChild, ForkUsed, Forking, Alive
<1>9. FreeOK'
  BY DEF FreeOK, ForkUsed, Forking, ParentOK, InitOK, Alive
<1>10. InitOK'
  BY DEF InitOK, ForkUsed, ForkChild, Forking, ExitOK, Alive
<1>11. ExitOK'
  BY DEF ExitOK, StateOK, LockOK, ParentOK, HasParent, ForkUsed, Forking, Alive
<1>12. KidsOK'
  BY DEF KidsOK, ForkChild, ForkUsed, Forking
<1>13. SeenOK'
  BY DEF SeenOK, ScanStart, LockOK, StateOK, ForkUsed, Forking
<1>14. ScanStart'
  BY DEF ScanStart
<1>15. SleepOK'
  BY DEF SleepOK, KidsOK, SeenOK, LockOK
<1>16. StackOutlivesUse'
  BY DEF StackOutlivesUse, StateOK, ForkUsed, Forking
<1>17. NoZombieForgotten'
  BY DEF NoZombieForgotten, SleepOK, LockOK, StateOK, ExitOK
<1> QED
  BY <1>1, <1>2, <1>3, <1>4, <1>5, <1>6, <1>7, <1>8, <1>9, <1>10, <1>11, <1>12, <1>13, <1>14, <1>15, <1>16, <1>17

\* fork's setting of np->parent under wait_lock preserves the invariant.
LEMMA ForkParentInv ==
  ASSUME IInv, NEW p \in Slots, ForkParent(p)
  PROVE  IInv'
<1> USE SlotFacts DEF IInv, TypeOK, ForkParent, At, Goto,
        table, locals
<1>1. TypeOK'
  BY Zenon DEF States
<1>2. LockOK'
  BY DEF LockOK, StateOK
<1>3. StateOK'
  BY DEF StateOK, ForkUsed, Forking, InitOK, ParentOK, LockOK, Alive
<1>4. ForkUsed'
  BY DEF ForkUsed, Forking, StateOK
<1>5. ForkOwn'
  BY DEF ForkOwn, ForkUsed, Forking
<1>6. ForkChild'
  BY DEF ForkChild, ForkUsed, ForkOwn, Forking, FreeOK, StateOK, Alive
<1>7. ParentOK'
  BY DEF ParentOK, ForkUsed, Forking, StateOK, ExitOK, InitOK, Alive
<1>8. HasParent'
  BY DEF HasParent, ForkChild, ForkUsed, Forking, Alive
<1>9. FreeOK'
  BY DEF FreeOK, ForkUsed, Forking, ParentOK, InitOK, Alive
<1>10. InitOK'
  BY DEF InitOK, ForkUsed, ForkChild, Forking, ExitOK, Alive
<1>11. ExitOK'
  BY DEF ExitOK, StateOK, LockOK, ParentOK, HasParent, ForkUsed, Forking, Alive
<1>12. KidsOK'
  BY DEF KidsOK, ForkChild, ForkUsed, Forking
<1>13. SeenOK'
  BY DEF SeenOK, ScanStart, LockOK, StateOK, ForkUsed, Forking
<1>14. ScanStart'
  BY DEF ScanStart
<1>15. SleepOK'
  BY DEF SleepOK, KidsOK, SeenOK, LockOK
<1>16. StackOutlivesUse'
  BY DEF StackOutlivesUse, StateOK, ForkUsed, Forking
<1>17. NoZombieForgotten'
  BY DEF NoZombieForgotten, ForkUsed, ForkChild, Forking, StateOK
<1> QED
  BY <1>1, <1>2, <1>3, <1>4, <1>5, <1>6, <1>7, <1>8, <1>9, <1>10, <1>11, <1>12, <1>13, <1>14, <1>15, <1>16, <1>17

\* fork's making the child runnable preserves the invariant.
LEMMA ForkRunInv ==
  ASSUME IInv, NEW p \in Slots, ForkRun(p)
  PROVE  IInv'
<1> USE SlotFacts DEF IInv, TypeOK, ForkRun, At,
        table, locals
<1>1. TypeOK'
  BY Zenon DEF States
<1>2. LockOK'
  BY DEF LockOK, StateOK, ForkUsed, Forking
<1>3. StateOK'
  BY DEF StateOK, ForkUsed, Forking, InitOK, ParentOK, LockOK, Alive
<1>4. ForkUsed'
  BY DEF ForkUsed, ForkOwn, Forking, StateOK
<1>5. ForkOwn'
  BY DEF ForkOwn, ForkUsed, Forking
<1>6. ForkChild'
  BY DEF ForkChild, ForkUsed, ForkOwn, Forking, FreeOK, StateOK, Alive
<1>7. ParentOK'
  BY DEF ParentOK, ForkUsed, Forking, StateOK, ExitOK, InitOK, Alive
<1>8. HasParent'
  BY DEF HasParent, ForkChild, ForkUsed, Forking, Alive
<1>9. FreeOK'
  BY DEF FreeOK, ForkUsed, Forking, ParentOK, InitOK, Alive
<1>10. InitOK'
  BY DEF InitOK, ForkUsed, ForkChild, Forking, ExitOK, Alive
<1>11. ExitOK'
  BY DEF ExitOK, StateOK, LockOK, ParentOK, HasParent, ForkUsed, Forking, Alive
<1>12. KidsOK'
  BY DEF KidsOK, ForkChild, ForkUsed, Forking
<1>13. SeenOK'
  BY DEF SeenOK, ScanStart, LockOK, StateOK, ForkUsed, Forking
<1>14. ScanStart'
  BY DEF ScanStart, ForkUsed, Forking, StateOK
<1>15. SleepOK'
  BY DEF SleepOK, KidsOK, SeenOK, LockOK
<1>16. StackOutlivesUse'
  BY DEF StackOutlivesUse, StateOK, ForkUsed, Forking
<1>17. NoZombieForgotten'
  BY DEF NoZombieForgotten, SleepOK, LockOK, StateOK, ExitOK
<1> QED
  BY <1>1, <1>2, <1>3, <1>4, <1>5, <1>6, <1>7, <1>8, <1>9, <1>10, <1>11, <1>12, <1>13, <1>14, <1>15, <1>16, <1>17

\* exit's taking of wait_lock, reparent and the wakeup of the parent preserve
\* the invariant.
LEMMA ExitReparentInv ==
  ASSUME IInv, NEW p \in Slots, ExitReparent(p)
  PROVE  IInv'
<1> USE SlotFacts DEF IInv, TypeOK, ExitReparent, At, Goto, WakeupOn,
        table, locals
<1>0. \A s \in Slots :
        state'[s] = state[s] \/ (state[s] = "SLEEPING" /\ state'[s] = "RUNNABLE")
  OBVIOUS
<1>1. TypeOK'
  BY ZenonT(30) DEF States
<1>2. LockOK'
  BY DEF LockOK, StateOK
<1>3. StateOK'
  BY DEF StateOK, ForkUsed, Forking, InitOK, ParentOK, LockOK, Alive
<1>4. ForkUsed'
  <2>1. /\ pc' = [pc EXCEPT ![p] = "exit"] /\ np' = np
        /\ pc \in [Slots -> {"user", "forkparent", "forkrun", "exit", "waitlock", "scan", "sleep"}]
    OBVIOUS
  <2>2. ForkUsed
    OBVIOUS
  <2> HIDE DEF ExitReparent, IInv, TypeOK
  <2> SUFFICES ASSUME NEW q \in Slots, Forking(q)'
               PROVE  np[q] \in Slots /\ state'[np[q]] = "USED"
    BY <2>1 DEF ForkUsed
  <2>3. Forking(q)
    BY <2>1 DEF Forking
  <2>4. np[q] \in Slots /\ state[np[q]] = "USED"
    BY <2>2, <2>3 DEF ForkUsed
  <2> QED
    BY Zenon, <1>0, <2>4
<1>5. ForkOwn'
  BY DEF ForkOwn, ForkUsed, Forking
<1>6. ForkChild'
  BY DEF ForkChild, ForkUsed, ForkOwn, Forking, FreeOK, StateOK, Alive
<1>7. ParentOK'
  <2>1. /\ parent' = [s \in Slots |-> IF parent[s] = p THEN initproc ELSE parent[s]]
        /\ parent \in [Slots -> Slots \cup {None}]
    OBVIOUS
  <2>2. ParentOK /\ InitOK
    OBVIOUS
  <2> HIDE DEF ExitReparent, IInv, TypeOK
  <2>3. \A q \in Slots :
          state[q] \in {"SLEEPING", "RUNNABLE", "RUNNING"} =>
          state'[q] \in {"SLEEPING", "RUNNABLE", "RUNNING"}
    BY <1>0
  <2> SUFFICES ASSUME NEW s \in Slots, parent'[s] # None
               PROVE  /\ state'[parent'[s]] \in {"SLEEPING", "RUNNABLE", "RUNNING"}
                      /\ parent'[s] # s
    BY DEF ParentOK, Alive
  <2>5. CASE parent[s] = p
    BY <2>1, <2>2, <2>3, <2>5 DEF InitOK, Alive
  <2>6. CASE parent[s] # p
    BY Zenon, <2>1, <2>2, <2>3, <2>6 DEF ParentOK, Alive
  <2> QED
    BY <2>5, <2>6
<1>8. HasParent'
  BY DEF HasParent, ForkChild, ForkUsed, Forking, Alive
<1>9. FreeOK'
  BY DEF FreeOK, ForkUsed, Forking, ParentOK, InitOK, Alive
<1>10. InitOK'
  BY DEF InitOK, ForkUsed, ForkChild, Forking, ExitOK, Alive
<1>11. ExitOK'
  BY DEF ExitOK, StateOK, LockOK, ParentOK, HasParent, ForkUsed, Forking, Alive
<1>12. KidsOK'
  BY DEF KidsOK, ScanStart
<1>13. SeenOK'
  BY DEF SeenOK, ScanStart, LockOK, StateOK, ForkUsed, Forking
<1>14. ScanStart'
  BY DEF ScanStart
<1>15. SleepOK'
  BY DEF SleepOK, KidsOK, SeenOK, LockOK
<1>16. StackOutlivesUse'
  BY DEF StackOutlivesUse, StateOK, ForkUsed, Forking
<1>17. NoZombieForgotten'
  BY DEF NoZombieForgotten, SleepOK, LockOK, StateOK, ExitOK
<1> QED
  BY <1>1, <1>2, <1>3, <1>4, <1>5, <1>6, <1>7, <1>8, <1>9, <1>10, <1>11, <1>12, <1>13, <1>14, <1>15, <1>16, <1>17

\* exit's becoming a zombie and its release of wait_lock preserve the
\* invariant.
LEMMA ExitZombieInv ==
  ASSUME IInv, NEW p \in Slots, ExitZombie(p)
  PROVE  IInv'
<1> USE SlotFacts DEF IInv, TypeOK, ExitZombie, At, Goto,
        table, locals
<1>1. TypeOK'
  BY DEF States
<1>2. LockOK'
  BY DEF LockOK, StateOK
<1>3. StateOK'
  BY DEF StateOK, ForkUsed, Forking, InitOK, ParentOK, LockOK, Alive
<1>4. ForkUsed'
  BY DEF ForkUsed, Forking, StateOK
<1>5. ForkOwn'
  BY DEF ForkOwn, ForkUsed, Forking
<1>6. ForkChild'
  BY DEF ForkChild, ForkUsed, ForkOwn, Forking, FreeOK, StateOK, Alive
<1>7. ParentOK'
  BY DEF ParentOK, ForkUsed, Forking, StateOK, ExitOK, InitOK, Alive
<1>8. HasParent'
  BY DEF HasParent, ForkChild, ForkUsed, Forking, Alive
<1>9. FreeOK'
  BY DEF FreeOK, ForkUsed, Forking, ParentOK, InitOK, Alive
<1>10. InitOK'
  BY DEF InitOK, ForkUsed, ForkChild, Forking, ExitOK, Alive
<1>11. ExitOK'
  BY DEF ExitOK, StateOK, LockOK, ParentOK, HasParent, ForkUsed, Forking, Alive
<1>12. KidsOK'
  BY DEF KidsOK, ForkChild, ForkUsed, Forking
<1>13. SeenOK'
  BY DEF SeenOK, ScanStart, LockOK, StateOK, ForkUsed, Forking
<1>14. ScanStart'
  BY DEF ScanStart
<1>15. SleepOK'
  BY DEF SleepOK, KidsOK, SeenOK, LockOK
<1>16. StackOutlivesUse'
  BY DEF StackOutlivesUse, StateOK, ForkUsed, Forking
<1>17. NoZombieForgotten'
  BY DEF NoZombieForgotten, SleepOK, LockOK, StateOK, ExitOK
<1> QED
  BY <1>1, <1>2, <1>3, <1>4, <1>5, <1>6, <1>7, <1>8, <1>9, <1>10, <1>11, <1>12, <1>13, <1>14, <1>15, <1>16, <1>17

\* The scheduler's release of the lock of a process that has switched away
\* preserves the invariant.
LEMMA SwitchedAwayInv ==
  ASSUME IInv, NEW p \in Slots, SwitchedAway(p)
  PROVE  IInv'
<1> USE SlotFacts DEF IInv, TypeOK, SwitchedAway,
        table, locals
<1>1. TypeOK'
  BY DEF States
<1>2. LockOK'
  BY DEF LockOK, StateOK
<1>3. StateOK'
  BY DEF StateOK, ForkUsed, Forking, InitOK, ParentOK, LockOK, Alive
<1>4. ForkUsed'
  BY DEF ForkUsed, Forking, StateOK
<1>5. ForkOwn'
  BY DEF ForkOwn, ForkUsed, Forking
<1>6. ForkChild'
  BY DEF ForkChild, ForkUsed, ForkOwn, Forking, FreeOK, StateOK, Alive
<1>7. ParentOK'
  BY DEF ParentOK, ForkUsed, Forking, StateOK, ExitOK, InitOK, Alive
<1>8. HasParent'
  BY DEF HasParent, ForkChild, ForkUsed, Forking, Alive
<1>9. FreeOK'
  BY DEF FreeOK, ForkUsed, Forking, ParentOK, InitOK, Alive
<1>10. InitOK'
  BY DEF InitOK, ForkUsed, ForkChild, Forking, ExitOK, Alive
<1>11. ExitOK'
  BY DEF ExitOK, StateOK, LockOK, ParentOK, HasParent, ForkUsed, Forking, Alive
<1>12. KidsOK'
  BY DEF KidsOK, ForkChild, ForkUsed, Forking
<1>13. SeenOK'
  BY DEF SeenOK, ScanStart, LockOK, StateOK, ForkUsed, Forking
<1>14. ScanStart'
  BY DEF ScanStart
<1>15. SleepOK'
  BY DEF SleepOK, KidsOK, SeenOK, LockOK
<1>16. StackOutlivesUse'
  BY DEF StackOutlivesUse, StateOK, ForkUsed, Forking
<1>17. NoZombieForgotten'
  BY DEF NoZombieForgotten, SleepOK, LockOK, StateOK, ExitOK
<1> QED
  BY <1>1, <1>2, <1>3, <1>4, <1>5, <1>6, <1>7, <1>8, <1>9, <1>10, <1>11, <1>12, <1>13, <1>14, <1>15, <1>16, <1>17

\* A call of wait preserves the invariant.
LEMMA StartWaitInv ==
  ASSUME IInv, NEW p \in Slots, StartWait(p)
  PROVE  IInv'
<1> USE SlotFacts DEF IInv, TypeOK, StartWait, At, Goto, Syscall,
        table, locals
<1>1. TypeOK'
  BY ScanFacts DEF States
<1>2. LockOK'
  BY DEF LockOK, StateOK
<1>3. StateOK'
  BY DEF StateOK, ForkUsed, Forking, InitOK, ParentOK, LockOK, Alive
<1>4. ForkUsed'
  BY DEF ForkUsed, Forking, StateOK
<1>5. ForkOwn'
  BY DEF ForkOwn, ForkUsed, Forking
<1>6. ForkChild'
  BY DEF ForkChild, ForkUsed, ForkOwn, Forking, FreeOK, StateOK, Alive
<1>7. ParentOK'
  BY DEF ParentOK, ForkUsed, Forking, StateOK, ExitOK, InitOK, Alive
<1>8. HasParent'
  BY DEF HasParent, ForkChild, ForkUsed, Forking, Alive
<1>9. FreeOK'
  BY DEF FreeOK, ForkUsed, Forking, ParentOK, InitOK, Alive
<1>10. InitOK'
  BY DEF InitOK, ForkUsed, ForkChild, Forking, ExitOK, Alive
<1>11. ExitOK'
  BY DEF ExitOK, StateOK, LockOK, ParentOK, HasParent, ForkUsed, Forking, Alive
<1>12. KidsOK'
  BY DEF KidsOK, ForkChild, ForkUsed, Forking
<1>13. SeenOK'
  BY DEF SeenOK, ScanStart, LockOK, StateOK, ForkUsed, Forking
<1>14. ScanStart'
  BY DEF ScanStart
<1>15. SleepOK'
  BY DEF SleepOK, KidsOK, SeenOK, LockOK
<1>16. StackOutlivesUse'
  BY DEF StackOutlivesUse, StateOK, ForkUsed, Forking
<1>17. NoZombieForgotten'
  BY DEF NoZombieForgotten, SleepOK, LockOK, StateOK, ExitOK
<1> QED
  BY <1>1, <1>2, <1>3, <1>4, <1>5, <1>6, <1>7, <1>8, <1>9, <1>10, <1>11, <1>12, <1>13, <1>14, <1>15, <1>16, <1>17

\* wait's acquire of wait_lock preserves the invariant.
LEMMA WaitLockInv ==
  ASSUME IInv, NEW p \in Slots, WaitLock(p)
  PROVE  IInv'
<1> USE SlotFacts DEF IInv, TypeOK, WaitLock, At, Goto,
        table, locals
<1>1. TypeOK'
  BY ScanFacts DEF States
<1>2. LockOK'
  BY DEF LockOK, StateOK
<1>3. StateOK'
  BY DEF StateOK, ForkUsed, Forking, InitOK, ParentOK, LockOK, Alive
<1>4. ForkUsed'
  BY DEF ForkUsed, Forking, StateOK
<1>5. ForkOwn'
  BY DEF ForkOwn, ForkUsed, Forking
<1>6. ForkChild'
  BY DEF ForkChild, ForkUsed, ForkOwn, Forking, FreeOK, StateOK, Alive
<1>7. ParentOK'
  BY DEF ParentOK, ForkUsed, Forking, StateOK, ExitOK, InitOK, Alive
<1>8. HasParent'
  BY DEF HasParent, ForkChild, ForkUsed, Forking, Alive
<1>9. FreeOK'
  BY DEF FreeOK, ForkUsed, Forking, ParentOK, InitOK, Alive
<1>10. InitOK'
  BY DEF InitOK, ForkUsed, ForkChild, Forking, ExitOK, Alive
<1>11. ExitOK'
  BY DEF ExitOK, StateOK, LockOK, ParentOK, HasParent, ForkUsed, Forking, Alive
<1>12. KidsOK'
  BY DEF KidsOK, ForkChild, ForkUsed, Forking
<1>13. SeenOK'
  BY DEF SeenOK, ScanStart, LockOK, StateOK, ForkUsed, Forking
<1>14. ScanStart'
  BY DEF ScanStart
<1>15. SleepOK'
  BY DEF SleepOK, KidsOK, SeenOK, LockOK
<1>16. StackOutlivesUse'
  BY DEF StackOutlivesUse, StateOK, ForkUsed, Forking
<1>17. NoZombieForgotten'
  BY DEF NoZombieForgotten, SleepOK, LockOK, StateOK, ExitOK
<1> QED
  BY <1>1, <1>2, <1>3, <1>4, <1>5, <1>6, <1>7, <1>8, <1>9, <1>10, <1>11, <1>12, <1>13, <1>14, <1>15, <1>16, <1>17

\* wait's freeing of a zombie child preserves the invariant.
LEMMA WaitReapInv ==
  ASSUME IInv, NEW p \in Slots, WaitReap(p)
  PROVE  IInv'
<1> USE SlotFacts DEF IInv, TypeOK, WaitReap, At, Goto, NewRound, AtChild, FreeProc,
        table, locals
<1>1. TypeOK'
  BY Zenon, ScanFacts DEF States
<1>2. LockOK'
  BY DEF LockOK, StateOK
<1>3. StateOK'
  BY DEF StateOK, ForkUsed, Forking, InitOK, ParentOK, LockOK, Alive
<1>4. ForkUsed'
  BY DEF ForkUsed, Forking, StateOK
<1>5. ForkOwn'
  BY DEF ForkOwn, ForkUsed, Forking
<1>6. ForkChild'
  BY DEF ForkChild, ForkUsed, ForkOwn, Forking, FreeOK, StateOK, Alive
<1>7. ParentOK'
  BY DEF ParentOK, ForkUsed, Forking, StateOK, ExitOK, InitOK, Alive
<1>8. HasParent'
  BY DEF HasParent, ForkChild, ForkUsed, Forking, Alive
<1>9. FreeOK'
  BY DEF FreeOK, ForkUsed, Forking, ParentOK, InitOK, Alive
<1>10. InitOK'
  BY DEF InitOK, ForkUsed, ForkChild, Forking, ExitOK, Alive
<1>11. ExitOK'
  BY DEF ExitOK, StateOK, LockOK, ParentOK, HasParent, ForkUsed, Forking, Alive
<1>12. KidsOK'
  BY DEF KidsOK, ForkChild, ForkUsed, Forking
<1>13. SeenOK'
  BY DEF SeenOK, ScanStart, LockOK, StateOK, ForkUsed, Forking
<1>14. ScanStart'
  BY DEF ScanStart
<1>15. SleepOK'
  BY DEF SleepOK, KidsOK, SeenOK, LockOK
<1>16. StackOutlivesUse'
  BY DEF StackOutlivesUse, StateOK, ForkUsed, Forking
<1>17. NoZombieForgotten'
  BY DEF NoZombieForgotten, SleepOK, LockOK, StateOK, ExitOK
<1> QED
  BY <1>1, <1>2, <1>3, <1>4, <1>5, <1>6, <1>7, <1>8, <1>9, <1>10, <1>11, <1>12, <1>13, <1>14, <1>15, <1>16, <1>17

\* A wait that cannot copy the exit status out preserves the invariant.
LEMMA WaitCopyoutFailsInv ==
  ASSUME IInv, NEW p \in Slots, WaitCopyoutFails(p)
  PROVE  IInv'
<1> USE SlotFacts DEF IInv, TypeOK, WaitCopyoutFails, At, Goto, NewRound, AtChild,
        table, locals
<1>1. TypeOK'
  BY ScanFacts DEF States
<1>2. LockOK'
  BY DEF LockOK, StateOK
<1>3. StateOK'
  BY DEF StateOK, ForkUsed, Forking, InitOK, ParentOK, LockOK, Alive
<1>4. ForkUsed'
  BY DEF ForkUsed, Forking, StateOK
<1>5. ForkOwn'
  BY DEF ForkOwn, ForkUsed, Forking
<1>6. ForkChild'
  BY DEF ForkChild, ForkUsed, ForkOwn, Forking, FreeOK, StateOK, Alive
<1>7. ParentOK'
  BY DEF ParentOK, ForkUsed, Forking, StateOK, ExitOK, InitOK, Alive
<1>8. HasParent'
  BY DEF HasParent, ForkChild, ForkUsed, Forking, Alive
<1>9. FreeOK'
  BY DEF FreeOK, ForkUsed, Forking, ParentOK, InitOK, Alive
<1>10. InitOK'
  BY DEF InitOK, ForkUsed, ForkChild, Forking, ExitOK, Alive
<1>11. ExitOK'
  BY DEF ExitOK, StateOK, LockOK, ParentOK, HasParent, ForkUsed, Forking, Alive
<1>12. KidsOK'
  BY DEF KidsOK, ForkChild, ForkUsed, Forking
<1>13. SeenOK'
  BY DEF SeenOK, ScanStart, LockOK, StateOK, ForkUsed, Forking
<1>14. ScanStart'
  BY DEF ScanStart
<1>15. SleepOK'
  BY DEF SleepOK, KidsOK, SeenOK, LockOK
<1>16. StackOutlivesUse'
  BY DEF StackOutlivesUse, StateOK, ForkUsed, Forking
<1>17. NoZombieForgotten'
  BY DEF NoZombieForgotten, SleepOK, LockOK, StateOK, ExitOK
<1> QED
  BY <1>1, <1>2, <1>3, <1>4, <1>5, <1>6, <1>7, <1>8, <1>9, <1>10, <1>11, <1>12, <1>13, <1>14, <1>15, <1>16, <1>17

\* wait's passing of a child that is no zombie preserves the invariant.
LEMMA WaitChildInv ==
  ASSUME IInv, NEW p \in Slots, WaitChild(p)
  PROVE  IInv'
<1> USE SlotFacts DEF IInv, TypeOK, WaitChild, At, AtChild,
        table, locals
<1>1. TypeOK'
  BY ScanFacts DEF States
<1>2. LockOK'
  BY DEF LockOK, StateOK
<1>3. StateOK'
  BY DEF StateOK, ForkUsed, Forking, InitOK, ParentOK, LockOK, Alive
<1>4. ForkUsed'
  BY DEF ForkUsed, Forking, StateOK
<1>5. ForkOwn'
  BY DEF ForkOwn, ForkUsed, Forking
<1>6. ForkChild'
  BY DEF ForkChild, ForkUsed, ForkOwn, Forking, FreeOK, StateOK, Alive
<1>7. ParentOK'
  BY DEF ParentOK, ForkUsed, Forking, StateOK, ExitOK, InitOK, Alive
<1>8. HasParent'
  BY DEF HasParent, ForkChild, ForkUsed, Forking, Alive
<1>9. FreeOK'
  BY DEF FreeOK, ForkUsed, Forking, ParentOK, InitOK, Alive
<1>10. InitOK'
  BY DEF InitOK, ForkUsed, ForkChild, Forking, ExitOK, Alive
<1>11. ExitOK'
  BY DEF ExitOK, StateOK, LockOK, ParentOK, HasParent, ForkUsed, Forking, Alive
<1>12. KidsOK'
  BY DEF KidsOK, ForkChild, ForkUsed, Forking
<1>13. SeenOK'
  BY ScanFacts DEF SeenOK, ScanStart, LockOK, StateOK, ForkUsed, Forking
<1>14. ScanStart'
  BY DEF ScanStart
<1>15. SleepOK'
  BY ScanFacts DEF SleepOK, KidsOK, SeenOK, LockOK
<1>16. StackOutlivesUse'
  BY DEF StackOutlivesUse, StateOK, ForkUsed, Forking
<1>17. NoZombieForgotten'
  BY DEF NoZombieForgotten, SleepOK, LockOK, StateOK, ExitOK
<1> QED
  BY <1>1, <1>2, <1>3, <1>4, <1>5, <1>6, <1>7, <1>8, <1>9, <1>10, <1>11, <1>12, <1>13, <1>14, <1>15, <1>16, <1>17

\* wait's passing of a slot that is no child preserves the invariant.
LEMMA WaitSkipInv ==
  ASSUME IInv, NEW p \in Slots, WaitSkip(p)
  PROVE  IInv'
<1> USE SlotFacts DEF IInv, TypeOK, WaitSkip, At,
        table, locals
<1>1. TypeOK'
  BY ScanFacts DEF States
<1>2. LockOK'
  BY DEF LockOK, StateOK
<1>3. StateOK'
  BY DEF StateOK, ForkUsed, Forking, InitOK, ParentOK, LockOK, Alive
<1>4. ForkUsed'
  BY DEF ForkUsed, Forking, StateOK
<1>5. ForkOwn'
  BY DEF ForkOwn, ForkUsed, Forking
<1>6. ForkChild'
  BY DEF ForkChild, ForkUsed, ForkOwn, Forking, FreeOK, StateOK, Alive
<1>7. ParentOK'
  BY DEF ParentOK, ForkUsed, Forking, StateOK, ExitOK, InitOK, Alive
<1>8. HasParent'
  BY DEF HasParent, ForkChild, ForkUsed, Forking, Alive
<1>9. FreeOK'
  BY DEF FreeOK, ForkUsed, Forking, ParentOK, InitOK, Alive
<1>10. InitOK'
  BY DEF InitOK, ForkUsed, ForkChild, Forking, ExitOK, Alive
<1>11. ExitOK'
  BY DEF ExitOK, StateOK, LockOK, ParentOK, HasParent, ForkUsed, Forking, Alive
<1>12. KidsOK'
  BY DEF KidsOK, ForkChild, ForkUsed, Forking
<1>13. SeenOK'
  BY ScanFacts DEF SeenOK, ScanStart, LockOK, StateOK, ForkUsed, Forking
<1>14. ScanStart'
  BY DEF ScanStart
<1>15. SleepOK'
  BY ScanFacts DEF SleepOK, KidsOK, SeenOK, LockOK
<1>16. StackOutlivesUse'
  BY DEF StackOutlivesUse, StateOK, ForkUsed, Forking
<1>17. NoZombieForgotten'
  BY DEF NoZombieForgotten, SleepOK, LockOK, StateOK, ExitOK
<1> QED
  BY <1>1, <1>2, <1>3, <1>4, <1>5, <1>6, <1>7, <1>8, <1>9, <1>10, <1>11, <1>12, <1>13, <1>14, <1>15, <1>16, <1>17

\* wait's return for want of children, or because it was killed, preserves
\* the invariant.
LEMMA WaitCheckInv ==
  ASSUME IInv, NEW p \in Slots, WaitCheck(p)
  PROVE  IInv'
<1> USE SlotFacts DEF IInv, TypeOK, WaitCheck, At, Goto, NewRound,
        table, locals
<1>1. TypeOK'
  BY ScanFacts DEF States
<1>2. LockOK'
  BY DEF LockOK, StateOK
<1>3. StateOK'
  BY DEF StateOK, ForkUsed, Forking, InitOK, ParentOK, LockOK, Alive
<1>4. ForkUsed'
  BY DEF ForkUsed, Forking, StateOK
<1>5. ForkOwn'
  BY DEF ForkOwn, ForkUsed, Forking
<1>6. ForkChild'
  BY DEF ForkChild, ForkUsed, ForkOwn, Forking, FreeOK, StateOK, Alive
<1>7. ParentOK'
  BY DEF ParentOK, ForkUsed, Forking, StateOK, ExitOK, InitOK, Alive
<1>8. HasParent'
  BY DEF HasParent, ForkChild, ForkUsed, Forking, Alive
<1>9. FreeOK'
  BY DEF FreeOK, ForkUsed, Forking, ParentOK, InitOK, Alive
<1>10. InitOK'
  BY DEF InitOK, ForkUsed, ForkChild, Forking, ExitOK, Alive
<1>11. ExitOK'
  BY DEF ExitOK, StateOK, LockOK, ParentOK, HasParent, ForkUsed, Forking, Alive
<1>12. KidsOK'
  BY DEF KidsOK, ForkChild, ForkUsed, Forking
<1>13. SeenOK'
  BY ScanFacts DEF SeenOK, ScanStart, LockOK, StateOK, ForkUsed, Forking
<1>14. ScanStart'
  BY DEF ScanStart
<1>15. SleepOK'
  BY ScanFacts DEF SleepOK, KidsOK, SeenOK, LockOK, StateOK
<1>16. StackOutlivesUse'
  BY DEF StackOutlivesUse, StateOK, ForkUsed, Forking
<1>17. NoZombieForgotten'
  BY DEF NoZombieForgotten, SleepOK, LockOK, StateOK, ExitOK
<1> QED
  BY <1>1, <1>2, <1>3, <1>4, <1>5, <1>6, <1>7, <1>8, <1>9, <1>10, <1>11, <1>12, <1>13, <1>14, <1>15, <1>16, <1>17

\* wait's sleep for its children preserves the invariant.
LEMMA WaitSleepInv ==
  ASSUME IInv, NEW p \in Slots, WaitSleep(p)
  PROVE  IInv'
<1> USE SlotFacts DEF IInv, TypeOK, WaitSleep, At, Goto,
        table, locals
<1>1. TypeOK'
  BY ScanFacts DEF States
<1>2. LockOK'
  BY DEF LockOK, StateOK
<1>3. StateOK'
  BY DEF StateOK, ForkUsed, Forking, InitOK, ParentOK, LockOK, Alive
<1>4. ForkUsed'
  BY DEF ForkUsed, Forking, StateOK
<1>5. ForkOwn'
  BY DEF ForkOwn, ForkUsed, Forking
<1>6. ForkChild'
  BY DEF ForkChild, ForkUsed, ForkOwn, Forking, FreeOK, StateOK, Alive
<1>7. ParentOK'
  BY DEF ParentOK, ForkUsed, Forking, StateOK, ExitOK, InitOK, Alive
<1>8. HasParent'
  BY DEF HasParent, ForkChild, ForkUsed, Forking, Alive
<1>9. FreeOK'
  BY DEF FreeOK, ForkUsed, Forking, ParentOK, InitOK, Alive
<1>10. InitOK'
  BY DEF InitOK, ForkUsed, ForkChild, Forking, ExitOK, Alive
<1>11. ExitOK'
  BY DEF ExitOK, StateOK, LockOK, ParentOK, HasParent, ForkUsed, Forking, Alive
<1>12. KidsOK'
  BY DEF KidsOK, ForkChild, ForkUsed, Forking
<1>13. SeenOK'
  BY DEF SeenOK, ScanStart, LockOK, StateOK, ForkUsed, Forking
<1>14. ScanStart'
  BY DEF ScanStart
<1>15. SleepOK'
  BY DEF SleepOK, KidsOK, SeenOK, LockOK
<1>16. StackOutlivesUse'
  BY DEF StackOutlivesUse, StateOK, ForkUsed, Forking
<1>17. NoZombieForgotten'
  BY DEF NoZombieForgotten, SleepOK, LockOK, StateOK, ExitOK
<1> QED
  BY <1>1, <1>2, <1>3, <1>4, <1>5, <1>6, <1>7, <1>8, <1>9, <1>10, <1>11, <1>12, <1>13, <1>14, <1>15, <1>16, <1>17

\* kill, which marks a process and wakes it if asleep, preserves the
\* invariant.
LEMMA KillInv ==
  ASSUME IInv, NEW n, NEW p \in Slots, Kill(n, p)
  PROVE  IInv'
<1> USE SlotFacts DEF IInv, TypeOK, Kill, WakeupOn,
        table, locals
<1>1. TypeOK'
  BY DEF States
<1>2. LockOK'
  BY DEF LockOK, StateOK
<1>3. StateOK'
  BY DEF StateOK, ForkUsed, Forking, InitOK, ParentOK, LockOK, Alive
<1>4. ForkUsed'
  BY DEF ForkUsed, Forking, StateOK
<1>5. ForkOwn'
  BY DEF ForkOwn, ForkUsed, Forking
<1>6. ForkChild'
  BY DEF ForkChild, ForkUsed, ForkOwn, Forking, FreeOK, StateOK, Alive
<1>7. ParentOK'
  BY DEF ParentOK, ForkUsed, Forking, StateOK, ExitOK, InitOK, Alive
<1>8. HasParent'
  BY DEF HasParent, ForkChild, ForkUsed, Forking, Alive
<1>9. FreeOK'
  BY DEF FreeOK, ForkUsed, Forking, ParentOK, InitOK, Alive
<1>10. InitOK'
  BY DEF InitOK, ForkUsed, ForkChild, Forking, ExitOK, Alive
<1>11. ExitOK'
  BY DEF ExitOK, StateOK, LockOK, ParentOK, HasParent, ForkUsed, Forking, Alive
<1>12. KidsOK'
  BY DEF KidsOK, ForkChild, ForkUsed, Forking
<1>13. SeenOK'
  BY DEF SeenOK, ScanStart, LockOK, StateOK, ForkUsed, Forking
<1>14. ScanStart'
  BY DEF ScanStart
<1>15. SleepOK'
  BY DEF SleepOK, KidsOK, SeenOK, LockOK
<1>16. StackOutlivesUse'
  BY DEF StackOutlivesUse, StateOK, ForkUsed, Forking
<1>17. NoZombieForgotten'
  BY DEF NoZombieForgotten, SleepOK, LockOK, StateOK, ExitOK
<1> QED
  BY <1>1, <1>2, <1>3, <1>4, <1>5, <1>6, <1>7, <1>8, <1>9, <1>10, <1>11, <1>12, <1>13, <1>14, <1>15, <1>16, <1>17

\* Every step preserves the invariant.
LEMMA NextInv == IInv /\ [Next]_vars => IInv'
<1> SUFFICES ASSUME IInv, [Next]_vars PROVE IInv'
  OBVIOUS
<1>1. CASE UNCHANGED vars
  <2> USE DEF vars, table, locals, IInv
  <2>1. TypeOK' /\ LockOK' /\ StateOK' /\ FreeOK' /\ InitOK'
    BY Zenon, <1>1 DEF TypeOK, LockOK, StateOK, FreeOK, InitOK, Alive
  <2>2. ForkUsed' /\ ForkOwn' /\ ForkChild'
    BY Zenon, <1>1 DEF ForkUsed, ForkOwn, ForkChild, Forking
  <2>3. ParentOK' /\ HasParent' /\ ExitOK'
    BY Zenon, <1>1 DEF ParentOK, ExitOK, HasParent, Alive
  <2>4. KidsOK' /\ SeenOK' /\ ScanStart'
    BY Zenon, <1>1 DEF KidsOK, SeenOK, ScanStart
  <2>5. SleepOK' /\ StackOutlivesUse' /\ NoZombieForgotten'
    BY Zenon, <1>1 DEF SleepOK, StackOutlivesUse, NoZombieForgotten
  <2> QED
    BY Zenon, <2>1, <2>2, <2>3, <2>4, <2>5
<1>2. CASE Next
  <2> PICK p \in Slots :
        \/ Dispatch(p) \/ Yield(p)
        \/ \E s \in Slots : Fork(p, s) \/ ForkFail(p, s)
        \/ ForkParent(p) \/ ForkRun(p)
        \/ ExitReparent(p) \/ ExitZombie(p) \/ SwitchedAway(p)
        \/ StartWait(p) \/ WaitLock(p) \/ WaitScan(p) \/ WaitCheck(p) \/ WaitSleep(p)
        \/ \E n \in KillPids : Kill(n, p)
    BY <1>2 DEF Next
  <2>1. CASE Dispatch(p) \/ Yield(p)
    BY <2>1, DispatchInv, YieldInv
  <2>2. CASE \E s \in Slots : Fork(p, s) \/ ForkFail(p, s)
    BY <2>2, ForkInv, ForkFailInv
  <2>3. CASE ForkParent(p) \/ ForkRun(p)
    BY <2>3, ForkParentInv, ForkRunInv
  <2>4. CASE ExitReparent(p) \/ ExitZombie(p) \/ SwitchedAway(p)
    BY <2>4, ExitReparentInv, ExitZombieInv, SwitchedAwayInv
  <2>5. CASE StartWait(p) \/ WaitLock(p) \/ WaitCheck(p) \/ WaitSleep(p)
    BY <2>5, StartWaitInv, WaitLockInv, WaitCheckInv, WaitSleepInv
  <2>6. CASE WaitScan(p)
    BY <2>6, WaitReapInv, WaitCopyoutFailsInv, WaitChildInv, WaitSkipInv DEF WaitScan
  <2>7. CASE \E n \in KillPids : Kill(n, p)
    BY <2>7, KillInv
  <2> QED
    BY <2>1, <2>2, <2>3, <2>4, <2>5, <2>6, <2>7
<1> QED
  BY <1>1, <1>2

\* The inductive invariant holds of fork, exit, wait and kill for a process
\* table of any size.
THEOREM ProcTableInvariant == Spec => []IInv
BY InitInv, NextInv, PTL DEF Spec

\* wait never frees a process whose kernel stack a CPU still uses.
THEOREM StackSafe == Spec => []StackOutlivesUse
<1>1. IInv => StackOutlivesUse
  BY DEF IInv
<1> QED
  BY <1>1, ProcTableInvariant, PTL

\* Every process but init has a living parent, and no process sleeps in wait
\* past a child that is a zombie.
THEOREM ZombiesNoticed == Spec => []ZombiesAwaited
<1>1. IInv => NoZombieForgotten
  BY DEF IInv
<1>2. IInv => ParentLives
  BY DEF IInv, ParentOK, HasParent, ParentLives
<1> QED
  BY <1>1, <1>2, ProcTableInvariant, PTL DEF ZombiesAwaited

\* No slot is free and marked killed at once, if kill is not called with 0.
FreeUnmarked ==
  /\ \A s \in Slots : state[s] = "UNUSED" => pid[s] = 0
  /\ KillHitsItsPid

\* No free slot is marked killed in the initial table.
LEMMA FreeUnmarkedInit == Init => FreeUnmarked
BY SlotFacts DEF Init, FreeUnmarked, KillHitsItsPid

\* No step marks a free slot killed, unless kill is called with pid 0.
LEMMA FreeUnmarkedNext ==
  ASSUME 0 \notin KillPids, IInv, FreeUnmarked, [Next]_vars
  PROVE  FreeUnmarked'
<1> USE SlotFacts DEF IInv, TypeOK, FreeUnmarked, KillHitsItsPid, table, At, Goto, Syscall
<1>1. CASE UNCHANGED vars
  BY <1>1 DEF vars
<1>2. CASE Next
  <2> PICK p \in Slots :
        \/ Dispatch(p) \/ Yield(p)
        \/ \E s \in Slots : Fork(p, s) \/ ForkFail(p, s)
        \/ ForkParent(p) \/ ForkRun(p)
        \/ ExitReparent(p) \/ ExitZombie(p) \/ SwitchedAway(p)
        \/ StartWait(p) \/ WaitLock(p) \/ WaitScan(p) \/ WaitCheck(p) \/ WaitSleep(p)
        \/ \E n \in KillPids : Kill(n, p)
    BY <1>2 DEF Next
  <2>1. CASE Dispatch(p) \/ Yield(p)
    BY Zenon, <2>1 DEF Dispatch, Yield
  <2>2. CASE \E s \in Slots : Fork(p, s) \/ ForkFail(p, s)
    <3> PICK s \in Slots : Fork(p, s) \/ ForkFail(p, s)
      BY <2>2
    <3>1. CASE Fork(p, s)
      BY <3>1 DEF Fork
    <3>2. CASE ForkFail(p, s)
      BY <3>2 DEF ForkFail
    <3> QED
      BY <3>1, <3>2
  <2>3. CASE ForkParent(p) \/ ForkRun(p)
    BY ZenonT(30), <2>3 DEF ForkParent, ForkRun
  <2>4. CASE ExitReparent(p)
    BY <2>4 DEF ExitReparent, WakeupOn
  <2>5. CASE ExitZombie(p) \/ SwitchedAway(p)
    BY Zenon, <2>5 DEF ExitZombie, SwitchedAway
  <2>6. CASE StartWait(p) \/ WaitLock(p) \/ WaitCheck(p) \/ WaitSleep(p)
    BY Zenon, <2>6 DEF StartWait, WaitLock, WaitCheck, WaitSleep
  <2>7. CASE WaitScan(p)
    <3>1. CASE WaitReap(p)
      BY <3>1 DEF WaitReap, AtChild, FreeProc
    <3>2. CASE WaitCopyoutFails(p) \/ WaitChild(p) \/ WaitSkip(p)
      BY Zenon, <3>2 DEF WaitCopyoutFails, WaitChild, WaitSkip
    <3> QED
      BY <2>7, <3>1, <3>2 DEF WaitScan
  <2>8. CASE \E n \in KillPids : Kill(n, p)
    BY <2>8 DEF Kill, WakeupOn
  <2> QED
    BY <2>1, <2>2, <2>3, <2>4, <2>5, <2>6, <2>7, <2>8
<1> QED
  BY <1>1, <1>2

\* As long as kill is not called with pid 0, no free slot is ever marked, so
\* no process is born killed.
THEOREM KillPrecise == ASSUME 0 \notin KillPids PROVE Spec => []KillHitsItsPid
<1>1. IInv /\ FreeUnmarked /\ [Next]_vars => FreeUnmarked'
  BY FreeUnmarkedNext
<1>2. FreeUnmarked => KillHitsItsPid
  BY DEF FreeUnmarked
<1> QED
  BY <1>1, <1>2, FreeUnmarkedInit, ProcTableInvariant, PTL DEF Spec
===============================================================================
