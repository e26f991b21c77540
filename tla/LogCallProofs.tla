------------------------------ MODULE LogCallProofs ------------------------------
(***************************************************************************)
(* The file system calls preserve LogInv!IInv: begin_op, changing a block, *)
(* log_write and end_op, for any number of processes and blocks and any    *)
(* log size; and so does the buffer cache.                                 *)
(***************************************************************************)
EXTENDS LogInv, FiniteSetTheorems, TLAPS

\* What Range of a sequence is, in terms of its indices: how log_write's
\* search through log.lh.block reads.
LEMMA SeqRange ==
  ASSUME NEW S, NEW q \in Seq(S)
  PROVE  /\ DOMAIN q = 1..Len(q) /\ Len(q) \in Nat
         /\ \A c : c \in Range(q) <=> \E i \in 1..Len(q) : q[i] = c
BY DEF Range

\* The state initlog leaves on a fresh disk satisfies the invariant.
LEMMA InitInv == Init => IInv
<1> SUFFICES ASSUME Init PROVE IInv
  OBVIOUS
<1>1. TypeOK
  <2>1. home \in [Blocks -> Contents] /\ logblk \in [Slots -> Contents]
    BY LogAssumption DEF Init, Contents
  <2>2. cache \in [Blocks -> Contents \cup {NotCached}] /\ pins \in [Blocks -> Nat]
    BY DEF Init
  <2>3. pc \in [Procs -> Pcs]
    BY DEF Init, Pcs
  <2>4. buf \in [Procs -> Blocks \cup {NoBuf}] /\ written \in [Procs -> SUBSET Blocks]
    BY DEF Init
  <2>5. dhead \in Seq(Blocks) /\ lh \in Seq(Blocks)
    BY DEF Init
  <2> QED
    BY Zenon, <2>1, <2>2, <2>3, <2>4, <2>5 DEF Init, TypeOK
<1>2. BootQuiet /\ OneCommitter /\ HeldBuffers
  BY DEF Init, BootQuiet, OneCommitter, HeldBuffers, Commits
<1>3. OpsCounted
  <2>1. InOp = {}
    BY DEF Init, InOp
  <2> QED
    BY <2>1, FS_EmptySet DEF Init, OpsCounted
<1>4. HeaderMatches /\ LogDistinct /\ LoggedCopies /\ InstalledCopies
  BY LogAssumption DEF Init, HeaderMatches, LogDistinct, LoggedCopies, InstalledCopies, AfterHead, At, Range
<1>5. CleanCache /\ PinnedUntilInstalled /\ KeptInCache
  BY LogAssumption DEF Init, CleanCache, PinnedUntilInstalled, KeptInCache, At
<1> QED
  BY <1>1, <1>2, <1>3, <1>4, <1>5 DEF IInv

\* A subset of the processes is finite, so log.outstanding counts the calls
\* between begin_op and end_op.
LEMMA FiniteInOp == IsFiniteSet(InOp)
BY LogAssumption, FS_Subset DEF InOp

\* While a call is open, no commit is running and the header is empty.
LEMMA OpenCall ==
  ASSUME IInv, NEW p \in Procs, pc[p] \in {"op", "modified"}
  PROVE  /\ boot = "up" /\ ~committing /\ outstanding >= 1
         /\ \A q \in Procs : pc[q] \notin Commits
         /\ \A s \in Commits : ~At(s)
         /\ dhead = <<>> /\ Installed = 0 /\ ~AfterHead
<1>1. boot = "up"
  BY DEF IInv, BootQuiet
<1>2. p \in InOp
  BY DEF InOp
<1>3. outstanding # 0
  BY <1>2, FiniteInOp, FS_EmptySet DEF IInv, OpsCounted
<1>4. ~committing /\ outstanding >= 1
  BY <1>3 DEF IInv, OpsCounted, TypeOK
<1>5. \A q \in Procs : pc[q] \notin Commits
  BY <1>4 DEF IInv, OneCommitter
<1>6. \A s \in Commits : ~At(s)
  BY <1>5 DEF At
<1>7. ~AfterHead /\ Installed = 0
  BY <1>1, <1>6 DEF AfterHead, Installed, Commits
<1> QED
  BY <1>1, <1>4, <1>5, <1>6, <1>7 DEF IInv, HeaderMatches

\* While a commit is running, nobody else is in a call or in a commit.
LEMMA Committing ==
  ASSUME IInv, NEW p \in Procs, pc[p] \in Commits
  PROVE  /\ boot = "up" /\ committing /\ outstanding = 0 /\ InOp = {}
         /\ \A q \in Procs : q # p => pc[q] \notin Commits
         /\ \A q \in Procs : pc[q] \notin {"op", "modified"} /\ buf[q] = NoBuf
         /\ \A s \in Commits : At(s) <=> pc[p] = s
         /\ \A b \in Blocks : ~Held(b)
<1>1. boot = "up"
  BY DEF IInv, BootQuiet, Commits
<1>2. committing /\ \A q \in Procs : q # p => pc[q] \notin Commits
  BY DEF IInv, OneCommitter
<1>3. outstanding = 0 /\ InOp = {}
  BY <1>2, FiniteInOp, FS_EmptySet DEF IInv, OpsCounted
<1>4. \A q \in Procs : pc[q] \notin {"op", "modified"} /\ buf[q] = NoBuf
  BY <1>3 DEF IInv, InOp, HeldBuffers
<1>5. \A s \in Commits : At(s) <=> pc[p] = s
  BY <1>2 DEF At
<1>6. \A b \in Blocks : ~Held(b)
  BY <1>4, LogAssumption DEF Held
<1> QED
  BY <1>1, <1>2, <1>3, <1>4, <1>5, <1>6

-------------------------------------------------------------------------------
(* One lemma per action.                                                   *)

\* Steps that leave the commit, the log and the buffers alone: the process
\* moves between user, begin, sleep and op.
LEMMA PcOnly ==
  ASSUME IInv, UNCHANGED <<diskVars, lh, committing, tail, bufVars, boot, buf>>,
         pc' \in [Procs -> Pcs], boot = "up",
         \A q \in Procs : pc'[q] # pc[q] =>
           {pc[q], pc'[q]} \subseteq {"user", "begin", "sleep", "op"}
  PROVE  /\ BootQuiet' /\ OneCommitter' /\ HeldBuffers' /\ HeaderMatches' /\ LogDistinct'
         /\ LoggedCopies' /\ InstalledCopies' /\ CleanCache' /\ PinnedUntilInstalled'
         /\ KeptInCache'
<1> USE DEF IInv, diskVars, bufVars
<1>1. \A q \in Procs, s \in Commits \cup {"modified"} : pc'[q] = s <=> pc[q] = s
  BY DEF Commits
<1>2. \A s \in Commits : At(s)' <=> At(s)
  BY <1>1 DEF At
<1>3. BootQuiet' /\ HeldBuffers'
  BY <1>1 DEF BootQuiet, HeldBuffers
<1>4. OneCommitter'
  BY <1>1 DEF OneCommitter
<1>5. HeaderMatches' /\ LogDistinct' /\ LoggedCopies' /\ InstalledCopies'
  BY <1>2 DEF HeaderMatches, LogDistinct, LoggedCopies, InstalledCopies, AfterHead, Commits
<1>6. CleanCache' /\ KeptInCache'
  BY <1>2 DEF CleanCache, KeptInCache, Held, Commits
<1>7. PinnedUntilInstalled'
  BY <1>2 DEF PinnedUntilInstalled, Installed, Commits
<1> QED
  BY <1>3, <1>4, <1>5, <1>6, <1>7

\* begin_op, whether it enters the call or sleeps for room or for a commit,
\* preserves the invariant.
LEMMA BeginOpInv ==
  ASSUME IInv, NEW p \in Procs, BeginOp(p)
  PROVE  IInv'
<1> USE DEF IInv, BeginOp, diskVars, bufVars
<1>0. pc' \in [Procs -> Pcs]
  BY Zenon DEF TypeOK, Pcs
<1>1. outstanding' \in Nat
  BY DEF TypeOK
<1>2. TypeOK'
  BY <1>0, <1>1 DEF TypeOK
<1>3. OpsCounted'
  <2>1. CASE NoRoom
    <3>1. InOp' = InOp
      BY <2>1 DEF InOp, TypeOK
    <3> QED
      BY <2>1, <3>1 DEF OpsCounted
  <2>2. CASE ~NoRoom
    <3>1. InOp' = InOp \cup {p} /\ p \notin InOp
      BY <2>2 DEF InOp, TypeOK
    <3> QED
      BY Zenon, <2>2, <3>1, FiniteInOp, FS_AddElement DEF OpsCounted, NoRoom, TypeOK
  <2> QED
    BY <2>1, <2>2
<1>4. \A q \in Procs : pc'[q] # pc[q] => {pc[q], pc'[q]} \subseteq {"user", "begin", "sleep", "op"}
  BY DEF TypeOK
<1> QED
  BY <1>0, <1>2, <1>3, <1>4, PcOnly

\* kill() of a process asleep in begin_op, which only makes it test again,
\* preserves the invariant.
LEMMA KillSleeperInv ==
  ASSUME IInv, NEW p \in Procs, KillSleeper(p)
  PROVE  IInv'
<1> USE DEF IInv, KillSleeper, diskVars, logVars, bufVars
<1>1. pc' \in [Procs -> Pcs]
  BY DEF TypeOK, Pcs
<1>2. TypeOK'
  BY <1>1 DEF TypeOK
<1>3. InOp' = InOp
  BY DEF InOp, TypeOK
<1>4. OpsCounted'
  BY <1>3 DEF OpsCounted
<1>5. \A q \in Procs : pc'[q] # pc[q] => {pc[q], pc'[q]} \subseteq {"user", "begin", "sleep", "op"}
  BY DEF TypeOK
<1>6. boot = "up"
  BY DEF BootQuiet
<1> QED
  BY <1>1, <1>2, <1>4, <1>5, <1>6, PcOnly

\* Modify: the changed block is held, so it may differ from its home.
LEMMA ModifyInv ==
  ASSUME IInv, NEW p \in Procs, NEW b \in Blocks, NEW v \in Val, Modify(p, b, v)
  PROVE  IInv'
<1> USE DEF IInv, Modify, diskVars, logVars
<1>1. /\ boot = "up" /\ \A s \in Commits : ~At(s)
      /\ \A q \in Procs : pc[q] \notin Commits
      /\ dhead = <<>> /\ Installed = 0 /\ ~AfterHead
  BY OpenCall
<1>2. pc' \in [Procs -> Pcs] /\ buf' \in [Procs -> Blocks \cup {NoBuf}]
  BY DEF TypeOK, Pcs
<1>3. cache' \in [Blocks -> Contents \cup {NotCached}]
  BY DEF TypeOK, Contents
<1>4. TypeOK'
  BY <1>2, <1>3 DEF TypeOK
<1>5. /\ \A q \in Procs : pc'[q] \notin Commits
      /\ \A s \in Commits : ~At(s)'
  BY <1>1 DEF TypeOK, Commits, At
<1>6. BootQuiet' /\ OneCommitter'
  BY <1>1, <1>5 DEF BootQuiet, OneCommitter
<1>7. InOp' = InOp
  BY DEF InOp, TypeOK
<1>8. OpsCounted'
  BY <1>7 DEF OpsCounted
<1>9. HeldBuffers'
  BY LogAssumption DEF HeldBuffers, TypeOK, Held
<1>10. ~AfterHead' /\ Installed' = 0
  BY <1>1, <1>5 DEF AfterHead, Installed, Commits
<1>11. HeaderMatches' /\ LogDistinct' /\ LoggedCopies' /\ InstalledCopies'
  BY <1>1, <1>5, <1>10
     DEF HeaderMatches, LogDistinct, LoggedCopies, InstalledCopies, Commits, AfterHead
<1>12. \A c \in Blocks : Held(c)' <=> Held(c) \/ c = b
  BY Zenon, LogAssumption DEF Held, TypeOK, HeldBuffers
<1>13. CleanCache'
  BY <1>1, <1>5, <1>12, LogAssumption DEF CleanCache, TypeOK, Commits
<1>14. PinnedUntilInstalled'
  BY <1>1, <1>10 DEF PinnedUntilInstalled
<1>15. KeptInCache'
  BY LogAssumption DEF KeptInCache, TypeOK
<1> QED
  BY <1>4, <1>6, <1>8, <1>9, <1>11, <1>13, <1>14, <1>15

\* LogWrite: the block stops being held and becomes logged and pinned.
LEMMA LogWriteInv ==
  ASSUME IInv, NEW p \in Procs, LogWrite(p)
  PROVE  IInv'
<1> USE DEF IInv, LogWrite, diskVars
<1> DEFINE b == buf[p]
<1>1. /\ boot = "up" /\ \A s \in Commits : ~At(s)
      /\ \A q \in Procs : pc[q] \notin Commits
      /\ dhead = <<>> /\ Installed = 0 /\ ~AfterHead
  BY OpenCall
<1>2. b \in Blocks
  BY DEF TypeOK, HeldBuffers
<1>3. lh' \in Seq(Blocks) /\ pins' \in [Blocks -> Nat]
  <2>1. CASE Absorbed(b)
    BY <2>1 DEF TypeOK
  <2>2. CASE ~Absorbed(b)
    <3>1. lh' = Append(lh, b) /\ pins' = [pins EXCEPT ![b] = pins[b] + 1]
      BY <2>2
    <3>2. pins' \in [Blocks -> Nat]
      BY <3>1, <1>2 DEF TypeOK
    <3> HIDE DEF b
    <3> QED
      BY <3>1, <3>2, <1>2 DEF TypeOK
  <2> QED
    BY <2>1, <2>2
<1>4. pc' \in [Procs -> Pcs] /\ buf' \in [Procs -> Blocks \cup {NoBuf}]
  BY DEF TypeOK, Pcs
<1>5. written' \in [Procs -> SUBSET Blocks]
  BY <1>2 DEF TypeOK
<1>6. TypeOK'
  BY <1>3, <1>4, <1>5 DEF TypeOK
<1>7. /\ \A q \in Procs : pc'[q] \notin Commits
      /\ \A s \in Commits : ~At(s)'
  BY <1>1 DEF TypeOK, Commits, At
<1>8. BootQuiet' /\ OneCommitter'
  BY <1>1, <1>7 DEF BootQuiet, OneCommitter
<1>9. InOp' = InOp
  BY DEF InOp, TypeOK
<1>10. OpsCounted'
  BY <1>9 DEF OpsCounted
<1>11. HeldBuffers'
  BY LogAssumption DEF HeldBuffers, TypeOK
<1>12. ~AfterHead' /\ Installed' = 0
  BY <1>1, <1>7 DEF AfterHead, Installed, Commits
<1>13. \/ lh' = lh /\ b \in Range(lh) /\ pins' = pins
       \/ /\ b \notin Range(lh) /\ lh' = Append(lh, b)
          /\ pins' = [pins EXCEPT ![b] = pins[b] + 1]
  BY DEF Absorbed
<1>14. /\ Range(lh') = Range(lh) \cup {b}
       /\ LogDistinct'
  <2>1. Len(lh) < nlog - 1
    BY LogAssumption DEF LogWritePanics, TypeOK
  <2>2. CASE lh' = lh /\ b \in Range(lh)
    BY <2>2 DEF LogDistinct
  <2>3. CASE b \notin Range(lh) /\ lh' = Append(lh, b)
    <3>1. Len(lh') = Len(lh) + 1 /\ lh'[Len(lh) + 1] = b /\ \A i \in 1..Len(lh) : lh'[i] = lh[i]
      BY <2>3, <1>2 DEF TypeOK
    <3>2. \A i \in 1..Len(lh) : lh[i] # b
      BY <2>3 DEF Range, TypeOK
    <3>3. DOMAIN lh = 1..Len(lh) /\ DOMAIN lh' = 1..Len(lh') /\ Len(lh) \in Nat
      BY <1>3 DEF TypeOK
    <3> HIDE DEF b
    <3>4. Range(lh') = Range(lh) \cup {b}
      BY <3>1, <3>3 DEF Range
    <3>5. \A i, j \in 1..Len(lh') : lh'[i] = lh'[j] => i = j
      BY <3>1, <3>2, <3>3 DEF LogDistinct
    <3>6. Len(lh') < nlog
      BY <3>1, <2>1, <3>3, LogAssumption
    <3>7. LogDistinct'
      BY <3>5, <3>6 DEF LogDistinct
    <3> QED
      BY <3>4, <3>7
  <2> QED
    BY <1>13, <2>2, <2>3
<1>15. HeaderMatches' /\ LoggedCopies' /\ InstalledCopies'
  BY <1>1, <1>7, <1>12 DEF HeaderMatches, LoggedCopies, InstalledCopies, Commits, AfterHead
<1>16. \A c \in Blocks : ~Held(c)' => ~Held(c) \/ c = b
  BY DEF Held, TypeOK
<1>17. CleanCache'
  BY <1>1, <1>7, <1>14, <1>16 DEF CleanCache, TypeOK, Commits
<1>18. PinnedUntilInstalled'
  <2>1. \A c \in Blocks : (\E i \in (Installed + 1)..Len(lh) : lh[i] = c) <=> c \in Range(lh)
    <3>1. Installed + 1 = 1 /\ lh \in Seq(Blocks)
      BY <1>1 DEF TypeOK
    <3> HIDE DEF IInv, LogWrite
    <3> QED
      BY <3>1, SeqRange
  <2>2. \A c \in Blocks : (\E i \in (Installed' + 1)..Len(lh') : lh'[i] = c) <=> c \in Range(lh')
    <3> HIDE DEF IInv, LogWrite
    <3>1. Installed' + 1 = 1
      BY <1>12
    <3> QED
      BY <3>1, <1>3, SeqRange
  <2>3. \A c \in Blocks : pins[c] = IF c \in Range(lh) THEN 1 ELSE 0
    BY <2>1, <1>1 DEF PinnedUntilInstalled
  <2>4. \A c \in Blocks : pins'[c] = IF c \in Range(lh') THEN 1 ELSE 0
    BY <2>3, <1>13, <1>14, <1>2 DEF TypeOK
  <2> QED
    BY Zenon, <2>2, <2>4 DEF PinnedUntilInstalled
<1>19. KeptInCache'
  BY Zenon, <1>2, <1>13, LogAssumption DEF KeptInCache, TypeOK
<1> QED
  BY <1>6, <1>8, <1>10, <1>11, <1>14, <1>15, <1>17, <1>18, <1>19

\* EndOp: the last call out becomes the committer.
LEMMA EndOpInv ==
  ASSUME IInv, NEW p \in Procs, EndOp(p)
  PROVE  IInv'
<1> USE DEF IInv, EndOp, diskVars, bufVars
<1>1. /\ boot = "up" /\ ~committing /\ outstanding >= 1
      /\ \A s \in Commits : ~At(s)
      /\ \A q \in Procs : pc[q] \notin Commits
      /\ dhead = <<>> /\ Installed = 0 /\ ~AfterHead
  BY OpenCall
<1>2. outstanding' \in Nat /\ written' \in [Procs -> SUBSET Blocks]
  BY <1>1 DEF TypeOK
<1>3. InOp' = InOp \ {p} /\ p \in InOp
  BY DEF InOp, TypeOK, Wakeup, CommitBegins
<1>4. outstanding' = Cardinality(InOp')
  BY Zenon, <1>3, FiniteInOp, FS_RemoveElement DEF OpsCounted, TypeOK
<1>5. CASE outstanding' # 0
  <2>1. pc' = Wakeup([pc EXCEPT ![p] = "user"]) /\ committing' = committing /\ tail' = tail
    BY <1>5
  <2>2. pc' \in [Procs -> Pcs]
    BY <2>1 DEF TypeOK, Pcs, Wakeup
  <2>3. TypeOK'
    BY Zenon, <1>2, <2>1, <2>2 DEF TypeOK
  <2>4. OpsCounted'
    BY <1>1, <1>4, <2>1 DEF OpsCounted
  <2>5. \A q \in Procs : pc'[q] # pc[q] => {pc[q], pc'[q]} \subseteq {"user", "begin", "sleep", "op"}
    BY <2>1 DEF TypeOK, Wakeup
  <2> QED
    BY Zenon, <1>1, <2>1, <2>2, <2>3, <2>4, <2>5, PcOnly
<1>6. CASE outstanding' = 0
  <2>1. /\ committing' /\ tail' = 0 /\ pc' = [pc EXCEPT ![p] = CommitBegins]
        /\ CommitBegins \in {"write_log", "finish"}
    BY Zenon, <1>6 DEF CommitBegins
  <2>2. pc' \in [Procs -> Pcs]
    BY <2>1 DEF TypeOK, Pcs, Commits
  <2>3. TypeOK'
    BY <1>2, <2>1, <2>2, <1>6 DEF TypeOK
  <2>4. BootQuiet' /\ OneCommitter'
    BY <1>1, <2>1 DEF BootQuiet, OneCommitter, TypeOK, Commits
  <2>5. OpsCounted'
    BY <1>4, <1>6 DEF OpsCounted
  <2>6. HeldBuffers'
    BY <2>1 DEF HeldBuffers, TypeOK
  <2>7. \A s \in Commits : At(s)' <=> s = CommitBegins
    BY <1>1, <2>1 DEF At, TypeOK, Commits
  <2>8. ~AfterHead' /\ Installed' = 0
    BY <1>1, <2>1, <2>7 DEF AfterHead, Installed, Commits
  <2>9. At("finish")' => lh = <<>>
    BY <2>7 DEF CommitBegins, Commits, TypeOK
  <2>10. HeaderMatches' /\ LogDistinct'
    BY <1>1, <2>8, <2>9 DEF HeaderMatches, LogDistinct
  <2>11. LoggedCopies' /\ InstalledCopies'
    BY <1>1, <2>1, <2>7, <2>8 DEF LoggedCopies, InstalledCopies, Commits, AfterHead, TypeOK
  <2>12. CleanCache' /\ KeptInCache'
    BY Zenon, <1>1, <2>1, <2>7 DEF CleanCache, KeptInCache, Held, Commits
  <2>13. PinnedUntilInstalled'
    BY Zenon, <1>1, <2>8 DEF PinnedUntilInstalled
  <2> QED
    BY <2>3, <2>4, <2>5, <2>6, <2>10, <2>11, <2>12, <2>13
<1> QED
  BY <1>5, <1>6

\* A block of the transaction that is not home yet is pinned.
LEMMA UnpinnedNotPending ==
  ASSUME IInv, boot = "up", NEW b \in Blocks, pins[b] = 0
  PROVE  \A i \in 1..Len(lh) : i > Installed => lh[i] # b
<1>1. Installed \in Nat /\ Len(lh) \in Nat
  BY DEF Installed, IInv, TypeOK
<1>2. ~ \E i \in (Installed + 1)..Len(lh) : lh[i] = b
  BY DEF IInv, PinnedUntilInstalled
<1> QED
  BY <1>1, <1>2

\* bread of a block, from the cache or from its home, preserves the
\* invariant.
LEMMA ReadBlockInv ==
  ASSUME IInv, NEW b \in Blocks, ReadBlock(b)
  PROVE  IInv'
<1> USE DEF IInv, ReadBlock, diskVars, logVars, procVars
<1>1. cache' \in [Blocks -> Contents \cup {NotCached}]
  BY DEF TypeOK
<1>2. TypeOK'
  BY <1>1 DEF TypeOK
<1>3. \A s : At(s)' <=> At(s)
  BY DEF At
<1>4. (AfterHead' <=> AfterHead) /\ Installed' = Installed /\ InOp' = InOp
  BY <1>3 DEF AfterHead, Installed, InOp
<1>5. pins[b] = 0 /\ b \notin {buf[q] : q \in Procs}
  BY DEF KeptInCache, Held, TypeOK
<1>6. \A i \in 1..Len(lh) : i > Installed => lh[i] # b
  BY <1>5, UnpinnedNotPending
<1>7. BootQuiet' /\ OneCommitter' /\ OpsCounted' /\ HeldBuffers' /\ HeaderMatches' /\ LogDistinct'
  BY <1>3, <1>4
     DEF BootQuiet, OneCommitter, OpsCounted, HeldBuffers, HeaderMatches, LogDistinct
<1>8. \A i \in 1..Len(lh) : i > Installed => cache'[lh[i]] = cache[lh[i]]
  BY <1>6 DEF TypeOK
<1>9. LoggedCopies'
  <2>1. At("write_log") \/ At("write_head") => Installed = 0 /\ tail <= Len(lh)
    <3>1. ASSUME NEW q \in Procs, pc[q] \in {"write_log", "write_head"}
          PROVE  Installed = 0
      BY <3>1, Committing DEF Installed, Commits
    <3> QED
      BY <3>1 DEF LoggedCopies, At, TypeOK
  <2>2. At("write_log") \/ At("write_head") => \A i \in 1..tail : cache'[lh[i]] = cache[lh[i]]
    <3>1. tail <= Len(lh) => \A i \in 1..tail : i \in 1..Len(lh) /\ i > 0
      BY DEF TypeOK
    <3> QED
      BY <3>1, <2>1, <1>8
  <2>3. At("install") => \A i \in 1..Len(lh) : i > tail => cache'[lh[i]] = cache[lh[i]]
    BY <1>8 DEF Installed
  <2> QED
    BY Zenon, <2>2, <2>3, <1>3 DEF LoggedCopies
<1>10. InstalledCopies'
  BY Zenon, <1>3, <1>4 DEF InstalledCopies
<1>11. home[b] # Torn
  <2>1. CASE b \notin Range(dhead)
    BY <2>1, LogAssumption DEF InstalledCopies
  <2>2. CASE b \in Range(dhead)
    <3>1. PICK i \in 1..Len(dhead) : dhead[i] = b
      BY <2>2 DEF Range, TypeOK
    <3>2. AfterHead /\ dhead = lh
      BY <3>1 DEF HeaderMatches
    <3>3. i <= Installed
      BY <3>1, <3>2, <1>6 DEF TypeOK, Installed
    <3>4. i \in 1..tail
      BY <3>1, <3>2, <3>3 DEF TypeOK, Installed
    <3> QED
      BY <3>1, <3>2, <3>4, LogAssumption DEF InstalledCopies, LoggedCopies
  <2> QED
    BY <2>1, <2>2
<1>12. \A c \in Blocks : Held(c)' <=> Held(c)
  BY Zenon DEF Held
<1>13. CleanCache'
  <2>1. \A c \in Blocks : cache'[c] = cache[c] \/ (c = b /\ cache'[c] = home[c] /\ cache'[c] # Torn)
    <3>1. cache \in [Blocks -> Contents \cup {NotCached}]
      BY DEF TypeOK
    <3> HIDE DEF IInv
    <3> QED
      BY <1>11, <3>1
  <2>2. At("install") \/ At("erase") => \A i \in 1..tail : lh[i] \in Blocks
    BY DEF InstalledCopies, TypeOK
  <2> QED
    BY <1>3, <1>12, <2>1, <2>2 DEF CleanCache
<1>14. PinnedUntilInstalled'
  BY Zenon, <1>4 DEF PinnedUntilInstalled
<1>15. KeptInCache'
  BY <1>5 DEF KeptInCache, TypeOK
<1> QED
  BY <1>2, <1>7, <1>9, <1>10, <1>13, <1>14, <1>15

\* Recycle: a pinned or held buffer is never the victim.
LEMMA RecycleInv ==
  ASSUME IInv, NEW b \in Blocks, Recycle(b)
  PROVE  IInv'
<1> USE DEF IInv, Recycle, diskVars, logVars, procVars
<1>1. cache' \in [Blocks -> Contents \cup {NotCached}]
  BY DEF TypeOK
<1>2. TypeOK'
  BY <1>1 DEF TypeOK
<1>3. \A s : At(s)' <=> At(s)
  BY DEF At
<1>4. (AfterHead' <=> AfterHead) /\ Installed' = Installed /\ InOp' = InOp
  BY <1>3 DEF AfterHead, Installed, InOp
<1>5. pins[b] = 0 /\ ~Held(b)
  BY DEF Referenced, TypeOK
<1>6. boot = "up" => \A i \in 1..Len(lh) : i > Installed => lh[i] # b
  BY <1>5, UnpinnedNotPending
<1>7. BootQuiet' /\ OneCommitter' /\ OpsCounted' /\ HeldBuffers' /\ HeaderMatches' /\ LogDistinct'
  BY <1>3, <1>4
     DEF BootQuiet, OneCommitter, OpsCounted, HeldBuffers, HeaderMatches, LogDistinct
<1>8. boot = "up" => \A i \in 1..Len(lh) : i > Installed => cache'[lh[i]] = cache[lh[i]]
  BY <1>6 DEF TypeOK
<1>9. LoggedCopies'
  <2>1. At("write_log") \/ At("write_head") => boot = "up" /\ Installed = 0 /\ tail <= Len(lh)
    <3>1. ASSUME NEW q \in Procs, pc[q] \in {"write_log", "write_head"}
          PROVE  boot = "up" /\ Installed = 0
      BY Zenon, <3>1, Committing DEF Installed, Commits
    <3> QED
      BY <3>1 DEF LoggedCopies, At, TypeOK
  <2>2. At("write_log") \/ At("write_head") => \A i \in 1..tail : cache'[lh[i]] = cache[lh[i]]
    <3>1. tail <= Len(lh) => \A i \in 1..tail : i \in 1..Len(lh) /\ i > 0
      BY DEF TypeOK
    <3> QED
      BY Zenon, <3>1, <2>1, <1>8
  <2>3. At("install") => boot = "up"
    BY DEF At, BootQuiet
  <2>4. At("install") => \A i \in 1..Len(lh) : i > tail => cache'[lh[i]] = cache[lh[i]]
    BY <1>8, <2>3 DEF Installed
  <2> QED
    BY Zenon, <2>2, <2>4, <1>3 DEF LoggedCopies
<1>10. InstalledCopies'
  BY <1>3, <1>4 DEF InstalledCopies
<1>12. \A c \in Blocks : Held(c)' <=> Held(c)
  BY DEF Held
<1>13. CleanCache'
  <2>1. \A c \in Blocks : cache'[c] = cache[c] \/ (c = b /\ cache'[c] = NotCached)
    <3>1. cache \in [Blocks -> Contents \cup {NotCached}]
      BY DEF TypeOK
    <3> HIDE DEF IInv
    <3> QED
      BY <3>1
  <2>2. At("install") \/ At("erase") => \A i \in 1..tail : lh[i] \in Blocks
    BY DEF InstalledCopies, TypeOK
  <2> QED
    BY <1>3, <1>12, <2>1, <2>2, LogAssumption DEF CleanCache
<1>14. PinnedUntilInstalled'
  BY Zenon, <1>4 DEF PinnedUntilInstalled
<1>15. KeptInCache'
  BY <1>5 DEF KeptInCache, TypeOK, Held
<1> QED
  BY <1>2, <1>7, <1>9, <1>10, <1>13, <1>14, <1>15
===============================================================================
