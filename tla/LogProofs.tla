------------------------------ MODULE LogProofs ------------------------------
(***************************************************************************)
(* Power failures and recovery preserve LogInv!IInv too, so it is an       *)
(* invariant of the log. The log then implements the atomic disk: every    *)
(* step of log.c, of the cache and of a power failure is a step of         *)
(* AtomicDisk or changes nothing there.                                    *)
(***************************************************************************)
EXTENDS LogCommitProofs

\* Crash: a torn log block is not committed, a torn home block is in the log.
LEMMA CrashInv ==
  ASSUME IInv, Crash
  PROVE  IInv'
<1> USE DEF IInv, Crash
<1>1. logblk' \in [Slots -> Contents] /\ home' \in [Blocks -> Contents]
  BY Zenon DEF TypeOK, CrashLog, CrashHome, Contents
<1>2. TypeOK'
  <2>1. /\ cache' \in [Blocks -> Contents \cup {NotCached}] /\ pins' \in [Blocks -> Nat]
        /\ buf' \in [Procs -> Blocks \cup {NoBuf}] /\ written' \in [Procs -> SUBSET Blocks]
    OBVIOUS
  <2>2. pc' \in [Procs -> Pcs]
    BY DEF Pcs
  <2>3. lh' \in Seq(Blocks)
    OBVIOUS
  <2> QED
    BY Zenon, <1>1, <2>1, <2>2, <2>3 DEF TypeOK
<1>3. \A q \in Procs : pc'[q] = "user" /\ buf'[q] = NoBuf
  OBVIOUS
<1>4. \A s \in Commits : ~At(s)'
  BY <1>3 DEF At, Commits
<1>5. InOp' = {} /\ ~AfterHead'
  BY <1>3, <1>4 DEF InOp, AfterHead, Commits
<1>6. BootQuiet' /\ OneCommitter' /\ HeldBuffers'
  BY <1>3 DEF BootQuiet, OneCommitter, HeldBuffers, Commits
<1>7. OpsCounted'
  BY <1>5, FS_EmptySet DEF OpsCounted
<1>8. HeaderMatches' /\ LogDistinct'
  BY <1>4, <1>5, LogAssumption DEF HeaderMatches, LogDistinct, Commits
<1>9. LoggedCopies'
  <2>1. \A i \in 1..Len(dhead) : logblk'[i] \in Val
    <3>1. CASE logblk' = logblk
      BY <3>1 DEF LoggedCopies
    <3>2. CASE logblk' # logblk
      <4>1. PICK q \in Procs : pc[q] = "write_log"
        BY <3>2 DEF CrashLog, Logging
      <4>2. dhead = <<>>
        BY <4>1, Committing DEF HeaderMatches, AfterHead, Commits
      <4> QED
        BY <4>2
    <3> QED
      BY <3>1, <3>2
  <2> QED
    BY <2>1, <1>4 DEF LoggedCopies, Commits
<1>10. InstalledCopies'
  <2>1. \A b \in Blocks : b \notin Range(dhead) => home'[b] \in Val
    <3>1. CASE home' = home
      BY <3>1 DEF InstalledCopies
    <3>2. CASE home' # home
      <4>1. Installing /\ home' = [home EXCEPT ![lh[tail + 1]] = Torn]
        BY <3>2 DEF CrashHome
      <4>2. dhead = lh
        BY <4>1 DEF Installing, HeaderMatches, AfterHead, At
      <4>3. tail + 1 \in DOMAIN lh
        BY <4>1 DEF Installing, TypeOK
      <4>4. \A b \in Blocks : b \notin Range(dhead) => b # lh[tail + 1]
        BY <4>2, <4>3 DEF Range
      <4> QED
        BY <4>1, <4>4 DEF InstalledCopies, TypeOK
    <3> QED
      BY <3>1, <3>2
  <2> QED
    BY <2>1, <1>4, <1>5 DEF InstalledCopies, Commits
<1>11. CleanCache' /\ PinnedUntilInstalled' /\ KeptInCache'
  BY <1>3, <1>4, LogAssumption
     DEF CleanCache, PinnedUntilInstalled, KeptInCache, Commits
<1> QED
  BY <1>2, <1>6, <1>7, <1>8, <1>9, <1>10, <1>11

\* Before the boot is over nobody is in a call or in a commit.
LEMMA Booting ==
  ASSUME IInv, boot # "up"
  PROVE  /\ \A s \in Commits : ~At(s)
         /\ InOp = {} /\ \A b \in Blocks : ~Held(b)
         /\ \A b \in Blocks : pins[b] = 0
BY Zenon, LogAssumption DEF IInv, BootQuiet, At, InOp, Held, Commits

\* The facts every step of the recovery shares.
LEMMA BootFrame ==
  ASSUME IInv, boot # "up", UNCHANGED <<outstanding, committing, pins, procVars>>
  PROVE  /\ BootQuiet' /\ OneCommitter' /\ OpsCounted' /\ HeldBuffers' /\ KeptInCache'
         /\ \A s \in Commits : ~At(s)'
         /\ \A b \in Blocks : pins'[b] = 0
         /\ Installed' = 0
<1> USE DEF IInv, procVars
<1>1. /\ \A s \in Commits : ~At(s)
      /\ \A b \in Blocks : pins[b] = 0
  BY Booting
<1>2. InOp' = InOp /\ \A s : At(s)' <=> At(s)
  BY DEF InOp, At
<1>3. BootQuiet' /\ OneCommitter' /\ OpsCounted' /\ HeldBuffers'
  BY Zenon, <1>2 DEF BootQuiet, OneCommitter, OpsCounted, HeldBuffers
<1>4. KeptInCache'
  BY <1>1 DEF KeptInCache, BootQuiet
<1>5. Installed' = 0
  BY <1>1, <1>2 DEF Installed, Commits
<1> QED
  BY <1>1, <1>2, <1>3, <1>4, <1>5

\* read_head, the start of recovery, preserves the invariant.
LEMMA ReadHeadInv ==
  ASSUME IInv, ReadHead
  PROVE  IInv'
<1> USE DEF IInv, ReadHead, diskVars, bufVars
<1>1. /\ BootQuiet' /\ OneCommitter' /\ OpsCounted' /\ HeldBuffers' /\ KeptInCache'
      /\ \A s \in Commits : ~At(s)'
      /\ \A b \in Blocks : pins'[b] = 0
      /\ Installed' = 0
  BY BootFrame
<1>2. TypeOK'
  BY DEF TypeOK, procVars
<1>3. HeaderMatches' /\ LogDistinct'
  BY <1>1 DEF HeaderMatches, LogDistinct, AfterHead, Commits
<1>4. LoggedCopies' /\ InstalledCopies'
  BY <1>1 DEF LoggedCopies, InstalledCopies, Commits, TypeOK
<1>5. CleanCache' /\ PinnedUntilInstalled'
  BY Zenon, <1>1 DEF CleanCache, PinnedUntilInstalled, Commits
<1> QED
  BY <1>1, <1>2, <1>3, <1>4, <1>5

\* One block of install_trans(1) during recovery preserves the invariant.
LEMMA RecoverInstallInv ==
  ASSUME IInv, RecoverInstall
  PROVE  IInv'
<1> USE DEF IInv, RecoverInstall
<1>1. /\ BootQuiet' /\ OneCommitter' /\ OpsCounted' /\ HeldBuffers' /\ KeptInCache'
      /\ \A s \in Commits : ~At(s)'
      /\ \A b \in Blocks : pins'[b] = 0
      /\ Installed' = 0
  BY BootFrame
<1>2. AfterHead /\ dhead = lh /\ tail <= Len(lh)
  BY DEF AfterHead, HeaderMatches, InstalledCopies
<1>3. /\ tail \in Nat /\ lh \in Seq(Blocks) /\ Len(lh) \in Nat /\ DOMAIN lh = 1..Len(lh)
      /\ \A i \in 1..Len(lh) : lh[i] \in Blocks
      /\ \A i, j \in 1..Len(lh) : lh[i] = lh[j] => i = j
  BY DEF TypeOK, LogDistinct
<1>4. /\ \A i \in 1..Len(lh) : logblk[i] \in Val
      /\ \A i \in 1..tail : home[lh[i]] = logblk[i]
      /\ \A b \in Blocks : cache[b] \in {NotCached, home[b]}
  BY Zenon, <1>2 DEF LoggedCopies, InstalledCopies, CleanCache
<1>5. CASE tail < Len(lh)
  <2> DEFINE b == lh[tail + 1]
             v == logblk[tail + 1]
  <2>1. b \in Blocks /\ v \in Val /\ tail + 1 \in 1..Len(lh) /\ b \in Range(lh)
    BY <1>3, <1>4, <1>5 DEF Range
  <2>2. boot' = boot /\ InstallBlock
    BY <1>5
  <2>3. tail' = tail + 1 /\ home' = [home EXCEPT ![b] = v] /\ cache' = [cache EXCEPT ![b] = v]
    BY <2>2 DEF InstallBlock
  <2>4. home' \in [Blocks -> Contents] /\ cache' \in [Blocks -> Contents \cup {NotCached}]
    BY <2>1, <2>3 DEF TypeOK, Contents
  <2>5. TypeOK'
    BY <2>2, <2>3, <2>4, <1>3 DEF TypeOK, procVars
  <2>6. AfterHead' /\ HeaderMatches' /\ LogDistinct'
    BY <1>1, <1>2, <2>2 DEF HeaderMatches, LogDistinct, AfterHead, Commits
  <2>7. LoggedCopies'
    BY <1>1, <1>2, <1>4 DEF LoggedCopies, Commits
  <2>8. \A i \in 1..tail : i \in 1..Len(lh) /\ lh[i] # b
    BY <1>3, <1>5, <2>1
  <2>9. \A i \in 1..tail' : home'[lh[i]] = logblk[i]
    <3>1. \A i \in 1..tail' : i \in 1..tail \/ i = tail + 1
      BY <1>3, <2>3
    <3> QED
      BY <3>1, <1>3, <1>4, <2>1, <2>3, <2>8 DEF TypeOK
  <2>10. \A c \in Blocks : c \notin Range(lh) => home'[c] = home[c]
    BY <2>1, <2>3 DEF TypeOK
  <2>11. InstalledCopies'
    <3>1. tail' <= Len(lh)
      BY <1>3, <1>5, <2>3
    <3> QED
      BY <3>1, <1>1, <1>2, <2>2, <2>9, <2>10 DEF InstalledCopies, Commits
  <2>12. \A c \in Blocks : cache'[c] \in {NotCached, home'[c]} /\ cache'[c] # Torn
    BY ZenonT(30), <1>4, <2>1, <2>3, LogAssumption DEF TypeOK, CleanCache
  <2>13. CleanCache'
    BY Zenon, <1>1, <2>2, <2>12 DEF CleanCache, Commits
  <2>14. PinnedUntilInstalled'
    BY Zenon, <2>2 DEF PinnedUntilInstalled
  <2> QED
    BY <1>1, <2>5, <2>6, <2>7, <2>11, <2>13, <2>14
<1>6. CASE ~(tail < Len(lh))
  <2>1. tail = Len(lh)
    <3> HIDE DEF IInv, RecoverInstall
    <3>1. tail \in Nat /\ Len(lh) \in Nat /\ tail <= Len(lh)
      BY <1>2, <1>3
    <3> QED
      BY <3>1, <1>6
  <2>2. boot' = "erase" /\ UNCHANGED <<home, cache, tail>>
    BY <1>6
  <2>3. TypeOK'
    BY <2>2 DEF TypeOK, procVars
  <2>4. HeaderMatches' /\ LogDistinct' /\ LoggedCopies'
    BY <1>1, <1>2, <2>2 DEF HeaderMatches, LogDistinct, LoggedCopies, AfterHead, Commits
  <2>5. InstalledCopies'
    BY Zenon, <1>1, <1>2, <1>4, <2>1, <2>2 DEF InstalledCopies, Commits
  <2>6. CleanCache' /\ PinnedUntilInstalled'
    BY Zenon, <1>1, <1>4, <2>2 DEF CleanCache, PinnedUntilInstalled, Commits
  <2> QED
    BY <1>1, <2>3, <2>4, <2>5, <2>6
<1> QED
  BY <1>5, <1>6

\* The write_head that ends recovery preserves the invariant.
LEMMA RecoverEraseInv ==
  ASSUME IInv, RecoverErase
  PROVE  IInv'
<1> USE DEF IInv, RecoverErase, bufVars
<1>1. /\ BootQuiet' /\ OneCommitter' /\ OpsCounted' /\ HeldBuffers' /\ KeptInCache'
      /\ \A s \in Commits : ~At(s)'
      /\ \A b \in Blocks : pins'[b] = 0
      /\ Installed' = 0
  BY BootFrame
<1>2. AfterHead /\ dhead = lh /\ tail = Len(lh)
  BY DEF AfterHead, HeaderMatches, InstalledCopies
<1>3. TypeOK'
  BY DEF TypeOK, procVars
<1>4. HeaderMatches' /\ LogDistinct' /\ LoggedCopies'
  BY <1>1, LogAssumption
     DEF HeaderMatches, LogDistinct, LoggedCopies, AfterHead, Commits
<1>5. \A b \in Blocks : home[b] \in Val
  <2> SUFFICES ASSUME NEW b \in Blocks, b \in Range(lh) PROVE home[b] \in Val
    BY Zenon, <1>2 DEF InstalledCopies
  <2>1. PICK i \in 1..Len(lh) : lh[i] = b
    BY DEF Range, TypeOK
  <2> QED
    BY <2>1, <1>2 DEF InstalledCopies, LoggedCopies
<1>6. InstalledCopies'
  BY Zenon, <1>1, <1>5 DEF InstalledCopies, AfterHead, Commits
<1>7. CleanCache'
  BY Zenon, <1>1 DEF CleanCache, Commits
<1>8. PinnedUntilInstalled'
  BY <1>1 DEF PinnedUntilInstalled
<1> QED
  BY <1>1, <1>3, <1>4, <1>6, <1>7, <1>8

\* Every step of the log, of the cache, of recovery and every power failure
\* preserves the invariant.
LEMMA NextInv == IInv /\ [Next]_vars => IInv'
<1> SUFFICES ASSUME IInv, [Next]_vars PROVE IInv'
  OBVIOUS
<1>1. ASSUME NEW p \in Procs, BeginOp(p) \/ KillSleeper(p) \/ Op(p) \/ EndOp(p) \/ Commit(p)
      PROVE  IInv'
  BY Zenon, <1>1, BeginOpInv, KillSleeperInv, ModifyInv, LogWriteInv, EndOpInv, WriteLogInv,
     WriteHeadInv, InstallInv, EraseInv, FinishInv DEF Op, Commit
<1>2. ASSUME NEW b \in Blocks, ReadBlock(b) \/ Recycle(b) PROVE IInv'
  BY <1>2, ReadBlockInv, RecycleInv
<1>3. CASE Recover
  BY <1>3, ReadHeadInv, RecoverInstallInv, RecoverEraseInv DEF Recover
<1>4. CASE Crash
  BY <1>4, CrashInv
<1>5. CASE UNCHANGED vars
  <2> USE DEF IInv, vars, diskVars, logVars, bufVars, procVars
  <2>1. TypeOK' /\ BootQuiet' /\ OneCommitter' /\ OpsCounted' /\ HeldBuffers'
    BY Zenon, <1>5 DEF TypeOK, BootQuiet, OneCommitter, OpsCounted, InOp, HeldBuffers
  <2>2. HeaderMatches'
    BY Zenon, <1>5 DEF HeaderMatches, AfterHead, At
  <2>3. LogDistinct' /\ KeptInCache'
    BY Zenon, <1>5 DEF LogDistinct, KeptInCache
  <2>4. LoggedCopies'
    BY Zenon, <1>5 DEF LoggedCopies, At
  <2>5. InstalledCopies'
    BY Zenon, <1>5 DEF InstalledCopies, AfterHead, At
  <2>6. CleanCache' /\ PinnedUntilInstalled'
    BY ZenonT(60), <1>5 DEF CleanCache, PinnedUntilInstalled, At, Held, Installed
  <2> QED
    BY Zenon, <2>1, <2>2, <2>3, <2>4, <2>5, <2>6
<1> QED
  BY <1>1, <1>2, <1>3, <1>4, <1>5 DEF Next

\* Every reachable state of the log satisfies the inductive invariant.
THEOREM LogInvariant == Spec => []IInv
BY InitInv, NextInv, PTL DEF Spec

\* A logged block stays pinned exactly until install_trans has written it
\* home, so commit() never reads a stale copy (log_write, bpin, bunpin).
THEOREM LogPins == Spec => []PinnedUntilInstalled
<1>1. IInv => PinnedUntilInstalled
  BY DEF IInv
<1> QED
  BY <1>1, LogInvariant, PTL

-------------------------------------------------------------------------------
(***************************************************************************)
(* The refinement of AtomicDisk.                                           *)
(***************************************************************************)

\* A block the header does not name is durable in its home.
LEMMA OverlayHome ==
  ASSUME NEW h, NEW l, NEW d, NEW b \in Blocks, b \notin Range(d)
  PROVE  Overlay(h, l, d)[b] = h[b]
BY DEF Overlay

\* A block the header names is durable in its log slot.
LEMMA OverlayLog ==
  ASSUME NEW h, NEW l, NEW d \in Seq(Blocks), NEW i \in 1..Len(d),
         \A j, k \in 1..Len(d) : d[j] = d[k] => j = k
  PROVE  Overlay(h, l, d)[d[i]] = l[i]
<1>1. d[i] \in Range(d) /\ d[i] \in Blocks
  BY DEF Range
<1>2. (CHOOSE j \in 1..Len(d) : d[j] = d[i]) = i
  OBVIOUS
<1> QED
  BY <1>1, <1>2 DEF Overlay

\* Two images of the disk are the same when they agree on logged and on
\* other blocks.
LEMMA OverlaySame ==
  ASSUME NEW h1, NEW l1, NEW d \in Seq(Blocks), NEW h2, NEW l2,
         \A j, k \in 1..Len(d) : d[j] = d[k] => j = k,
         \A i \in 1..Len(d) : l1[i] = l2[i],
         \A b \in Blocks : b \notin Range(d) => h1[b] = h2[b]
  PROVE  Overlay(h1, l1, d) = Overlay(h2, l2, d)
<1>1. ASSUME NEW b \in Blocks PROVE Overlay(h1, l1, d)[b] = Overlay(h2, l2, d)[b]
  <2>1. CASE b \in Range(d)
    <3>1. PICK i \in 1..Len(d) : d[i] = b
      BY <2>1 DEF Range
    <3> QED
      BY <3>1, OverlayLog
  <2>2. CASE b \notin Range(d)
    BY <2>2, OverlayHome
  <2> QED
    BY <2>1, <2>2
<1> QED
  BY Zenon, <1>1 DEF Overlay

\* With an empty header on disk the durable blocks are the home blocks.
LEMMA OverlayEmpty ==
  ASSUME NEW h, NEW l
  PROVE  Overlay(h, l, <<>>) = [b \in Blocks |-> h[b]]
BY DEF Overlay, Range

\* Once everything is home, the header no longer matters.
LEMMA OverlayInstalled ==
  ASSUME NEW h, NEW l, NEW d \in Seq(Blocks),
         \A j, k \in 1..Len(d) : d[j] = d[k] => j = k,
         \A i \in 1..Len(d) : h[d[i]] = l[i]
  PROVE  Overlay(h, l, d) = [b \in Blocks |-> h[b]]
<1>1. ASSUME NEW b \in Blocks PROVE Overlay(h, l, d)[b] = h[b]
  <2>1. CASE b \in Range(d)
    <3>1. PICK i \in 1..Len(d) : d[i] = b
      BY <2>1 DEF Range
    <3> QED
      BY <3>1, OverlayLog
  <2>2. CASE b \notin Range(d)
    BY <2>2, OverlayHome
  <2> QED
    BY <2>1, <2>2
<1> QED
  BY <1>1 DEF Overlay

\* The log's initial states are initial states of the atomic disk.
LEMMA RefInit == Init => Disk!Init
<1> SUFFICES ASSUME Init PROVE Disk!Init
  OBVIOUS
<1>1. Recovered = [b \in Blocks |-> home[b]]
  BY OverlayEmpty DEF Recovered, Init
<1>2. Recovered \in [Blocks -> Val]
  BY <1>1, LogAssumption DEF Init
<1>3. View = Recovered
  BY DEF View, Init
<1>4. InOp = {}
  BY DEF InOp, Init
<1> QED
  BY <1>2, <1>3, <1>4 DEF Disk!Init

\* The system's view is unchanged when cache, home and boot are.
LEMMA ViewSame ==
  ASSUME boot = "up", boot' = "up", \A b \in Blocks : Bread(b)' = Bread(b)
  PROVE  View' = View
BY DEF View

\* begin_op is the atomic disk's Begin when the call is let in, and changes
\* nothing there when it sleeps.
LEMMA BeginOpRef ==
  ASSUME IInv, NEW p \in Procs, BeginOp(p)
  PROVE  [Disk!Next]_(Disk!vars)
<1>1. Recovered' = Recovered
  BY DEF BeginOp, diskVars, Recovered
<1>2. View' = View
  BY ViewSame DEF BeginOp, bufVars, diskVars, Bread
<1>3. CASE NoRoom
  <2>1. InOp' = InOp
    BY <1>3 DEF BeginOp, InOp, IInv, TypeOK
  <2> QED
    BY <1>1, <1>2, <2>1 DEF Disk!vars
<1>4. CASE ~NoRoom
  <2>1. InOp' = InOp \cup {p} /\ p \notin InOp
    BY <1>4 DEF BeginOp, InOp, IInv, TypeOK
  <2>2. Disk!Begin(p)
    BY <1>1, <1>2, <2>1 DEF Disk!Begin
  <2> QED
    BY <2>2 DEF Disk!Next
<1> QED
  BY <1>3, <1>4

\* Changing a block in the cache is the atomic disk's Write.
LEMMA ModifyRef ==
  ASSUME IInv, NEW p \in Procs, NEW b \in Blocks, NEW v \in Val, Modify(p, b, v)
  PROVE  [Disk!Next]_(Disk!vars)
<1>1. Recovered' = Recovered
  BY DEF Modify, diskVars, Recovered
<1>2. boot = "up" /\ boot' = "up"
  BY OpenCall DEF Modify
<1>3. \A c \in Blocks : Bread(c)' = IF c = b THEN v ELSE Bread(c)
  BY LogAssumption DEF Modify, Bread, IInv, TypeOK, diskVars
<1>4. View' = [View EXCEPT ![b] = v]
  BY Zenon, <1>2, <1>3 DEF View
<1>5. InOp' = InOp /\ p \in InOp
  BY DEF Modify, InOp, IInv, TypeOK
<1>6. Disk!Write(p, b, v)
  BY <1>1, <1>4, <1>5 DEF Disk!Write
<1> QED
  BY <1>6 DEF Disk!Next

\* log_write changes nothing of the atomic disk.
LEMMA LogWriteRef ==
  ASSUME IInv, NEW p \in Procs, LogWrite(p)
  PROVE  [Disk!Next]_(Disk!vars)
<1>1. Recovered' = Recovered
  BY DEF LogWrite, diskVars, Recovered
<1>2. boot = "up" /\ boot' = "up"
  BY OpenCall DEF LogWrite
<1>3. View' = View
  BY <1>2, ViewSame DEF LogWrite, Bread, diskVars
<1>4. InOp' = InOp
  BY DEF LogWrite, InOp, IInv, TypeOK
<1> QED
  BY <1>1, <1>3, <1>4 DEF Disk!vars

\* end_op is the atomic disk's End, whether or not it goes on to commit.
LEMMA EndOpRef ==
  ASSUME IInv, NEW p \in Procs, EndOp(p)
  PROVE  [Disk!Next]_(Disk!vars)
<1>1. Recovered' = Recovered
  BY DEF EndOp, diskVars, Recovered
<1>2. boot = "up" /\ boot' = "up"
  BY OpenCall DEF EndOp
<1>3. View' = View
  BY <1>2, ViewSame DEF EndOp, Bread, diskVars, bufVars
<1>4. InOp' = InOp \ {p} /\ p \in InOp
  BY DEF EndOp, InOp, IInv, TypeOK, Wakeup, CommitBegins
<1>5. Disk!End(p)
  BY <1>1, <1>3, <1>4 DEF Disk!End
<1> QED
  BY <1>5 DEF Disk!Next

\* Steps of the committer leave the set of open calls empty.
LEMMA CommitInOp ==
  ASSUME IInv, NEW p \in Procs, Commit(p)
  PROVE  InOp = {} /\ InOp' = {} /\ boot = "up" /\ boot' = "up"
<1>1. pc[p] \in Commits
  BY DEF Commit, WriteLog, WriteHead, Install, Erase, Finish, Commits
<1>2. InOp = {} /\ boot = "up"
  BY <1>1, Committing
<1>3. \A q \in Procs : pc'[q] \in {"op", "modified"} => pc[q] \in {"op", "modified"}
  BY Zenon DEF Commit, WriteLog, WriteHead, Install, Erase, Finish, Wakeup, IInv, TypeOK
<1>4. boot' = boot
  BY DEF Commit, WriteLog, WriteHead, Install, Erase, Finish
<1> QED
  BY <1>2, <1>3, <1>4 DEF InOp

\* Copying a block to the log changes nothing of the atomic disk.
LEMMA WriteLogRef ==
  ASSUME IInv, NEW p \in Procs, WriteLog(p)
  PROVE  [Disk!Next]_(Disk!vars)
<1>1. InOp = {} /\ InOp' = {} /\ boot = "up" /\ boot' = "up"
  BY SMTT(30), CommitInOp DEF Commit
<1>2. dhead = <<>> /\ dhead' = <<>> /\ home' = home
  BY Zenon, Committing DEF WriteLog, Commits, IInv, HeaderMatches, AfterHead
<1>3. Recovered' = Recovered
  BY <1>2, OverlayEmpty DEF Recovered
<1>4. \A b \in Blocks : Bread(b)' = Bread(b)
  <2>1. cache' = cache \/ \E c \in Blocks : cache' = [cache EXCEPT ![c] = Bread(c)]
    <3>1. CASE tail < Len(lh)
      <4>1. lh[tail + 1] \in Blocks
        BY <3>1 DEF IInv, TypeOK
      <4> QED
        BY <3>1, <4>1 DEF WriteLog
    <3> QED
      BY <3>1 DEF WriteLog
  <2> QED
    BY SMTT(30), <1>2, <2>1, LogAssumption DEF Bread, IInv, TypeOK, Contents
<1> QED
  BY <1>1, <1>3, <1>4, ViewSame DEF Disk!vars

\* The one step that moves the durable state.
LEMMA WriteHeadRef ==
  ASSUME IInv, NEW p \in Procs, WriteHead(p)
  PROVE  [Disk!Next]_(Disk!vars)
<1>1. InOp = {} /\ InOp' = {} /\ boot = "up" /\ boot' = "up"
  BY CommitInOp DEF Commit
<1>2. View' = View
  BY <1>1, ViewSame DEF WriteHead, Bread, bufVars
<1>3. /\ \A s \in Commits : At(s) <=> s = "write_head"
      /\ \A b \in Blocks : ~Held(b)
  BY Committing DEF WriteHead, Commits
<1>4. tail = Len(lh) /\ Installed = 0
  BY <1>3 DEF IInv, LoggedCopies, Installed, Commits
<1>5. \A i \in 1..Len(lh) : lh[i] \in Blocks /\ logblk[i] = cache[lh[i]]
  BY <1>3, <1>4 DEF IInv, LoggedCopies, TypeOK, Commits
<1>6. \A i \in 1..Len(lh) : Bread(lh[i]) = logblk[i]
  <2>1. \A i \in 1..Len(lh) : pins[lh[i]] = 1
    BY <1>1, <1>4, <1>5 DEF IInv, PinnedUntilInstalled
  <2> QED
    BY SMTT(30), <1>5, <2>1 DEF IInv, KeptInCache, Bread
<1>7. \A b \in Blocks : b \notin Range(lh) => Bread(b) = home[b]
  BY <1>1, <1>3 DEF IInv, CleanCache, Bread
<1>8. Recovered' = Overlay(home, logblk, lh)
  BY DEF Recovered, WriteHead
<1>9. \A b \in Blocks : Overlay(home, logblk, lh)[b] = Bread(b)
  <2> SUFFICES ASSUME NEW b \in Blocks PROVE Overlay(home, logblk, lh)[b] = Bread(b)
    OBVIOUS
  <2>1. CASE b \in Range(lh)
    <3>1. PICK i \in 1..Len(lh) : lh[i] = b
      BY <2>1 DEF Range, IInv, TypeOK
    <3>2. lh \in Seq(Blocks) /\ \A j, k \in 1..Len(lh) : lh[j] = lh[k] => j = k
      BY DEF IInv, TypeOK, LogDistinct
    <3>3. Overlay(home, logblk, lh)[lh[i]] = logblk[i]
      BY <3>2, OverlayLog
    <3> QED
      BY <3>1, <3>3, <1>6
  <2>2. CASE b \notin Range(lh)
    BY <2>2, <1>7, OverlayHome
  <2> QED
    BY <2>1, <2>2
<1>10. Recovered' = View
  BY Zenon, <1>1, <1>8, <1>9 DEF View, Overlay
<1>11. Disk!Commit
  BY <1>1, <1>2, <1>10 DEF Disk!Commit
<1> QED
  BY <1>11 DEF Disk!Next

\* Installing a block in its home changes nothing of the atomic disk, which
\* has it already.
LEMMA InstallRef ==
  ASSUME IInv, NEW p \in Procs, Install(p)
  PROVE  [Disk!Next]_(Disk!vars)
<1>1. InOp = {} /\ InOp' = {} /\ boot = "up" /\ boot' = "up"
  BY CommitInOp DEF Commit
<1>2. At("install")
  BY DEF At, Install
<1>3. dhead = lh /\ dhead' = dhead /\ logblk' = logblk
  BY <1>2 DEF IInv, HeaderMatches, AfterHead, Install
<1>4. CASE tail < Len(lh)
  <2> DEFINE b == lh[tail + 1]
             v == logblk[tail + 1]
  <2>1. tail + 1 \in 1..Len(lh) /\ b \in Blocks /\ b \in Range(dhead)
    BY SMTT(30), <1>3, <1>4 DEF IInv, TypeOK, Range
  <2>2. cache[b] = v /\ v \in Val
    <3>1. tail + 1 > tail /\ tail + 1 \in 1..Len(dhead)
      BY <1>3, <2>1 DEF IInv, TypeOK
    <3> QED
      BY <1>2, <1>3, <2>1, <3>1 DEF IInv, LoggedCopies
  <2>3. InstallBlock
    BY <1>4 DEF Install
  <2>4. home' = [home EXCEPT ![b] = v] /\ cache' = [cache EXCEPT ![b] = v]
    BY <2>3 DEF InstallBlock
  <2>5. \A c \in Blocks : Bread(c)' = Bread(c)
    BY <2>1, <2>2, <2>4, LogAssumption DEF Bread, IInv, TypeOK
  <2>6. \A c \in Blocks : c \notin Range(dhead) => home[c] = home'[c]
    BY <2>1, <2>4 DEF IInv, TypeOK
  <2>7. dhead \in Seq(Blocks) /\ \A j, k \in 1..Len(dhead) : dhead[j] = dhead[k] => j = k
    BY DEF IInv, TypeOK, LogDistinct
  <2>8. Overlay(home, logblk, dhead) = Overlay(home', logblk, dhead)
    BY <2>6, <2>7, OverlaySame
  <2>9. Recovered' = Recovered
    BY <1>3, <2>8 DEF Recovered
  <2> QED
    BY <1>1, <2>5, <2>9, ViewSame DEF Disk!vars
<1>5. CASE ~(tail < Len(lh))
  <2>1. home' = home /\ cache' = cache
    BY <1>5 DEF Install
  <2>2. Recovered' = Recovered
    BY <1>3, <2>1 DEF Recovered
  <2>3. View' = View
    BY <1>1, <2>1, ViewSame DEF Bread
  <2> QED
    BY <1>1, <2>2, <2>3 DEF Disk!vars
<1> QED
  BY <1>4, <1>5

\* Erasing the header changes nothing of the atomic disk: every block is
\* home.
LEMMA EraseRef ==
  ASSUME IInv, NEW p \in Procs, Erase(p)
  PROVE  [Disk!Next]_(Disk!vars)
<1>1. InOp = {} /\ InOp' = {} /\ boot = "up" /\ boot' = "up"
  BY CommitInOp DEF Commit
<1>2. At("erase")
  BY DEF At, Erase
<1>3. dhead = lh /\ tail = Len(lh) /\ \A i \in 1..tail : home[lh[i]] = logblk[i]
  BY <1>2 DEF IInv, HeaderMatches, AfterHead, InstalledCopies
<1>4. Recovered = [b \in Blocks |-> home[b]]
  <2>1. /\ dhead \in Seq(Blocks) /\ \A i \in 1..Len(dhead) : home[dhead[i]] = logblk[i]
        /\ \A j, k \in 1..Len(dhead) : dhead[j] = dhead[k] => j = k
    BY <1>3 DEF IInv, TypeOK, LogDistinct
  <2> QED
    BY <2>1, OverlayInstalled DEF Recovered
<1>5. Recovered' = [b \in Blocks |-> home[b]]
  BY OverlayEmpty DEF Recovered, Erase
<1>6. View' = View
  BY <1>1, ViewSame DEF Erase, Bread, bufVars
<1> QED
  BY <1>1, <1>4, <1>5, <1>6 DEF Disk!vars

\* The end of commit, when begin_op is let go on, changes nothing of the
\* atomic disk.
LEMMA FinishRef ==
  ASSUME IInv, NEW p \in Procs, Finish(p)
  PROVE  [Disk!Next]_(Disk!vars)
<1>1. InOp = {} /\ InOp' = {} /\ boot = "up" /\ boot' = "up"
  BY CommitInOp DEF Commit
<1>2. Recovered' = Recovered
  BY DEF Recovered, Finish, diskVars
<1>3. View' = View
  BY <1>1, ViewSame DEF Finish, Bread, bufVars, diskVars
<1> QED
  BY <1>1, <1>2, <1>3 DEF Disk!vars

\* bread changes nothing of the atomic disk: a block read from its home is
\* the one it holds.
LEMMA ReadBlockRef ==
  ASSUME IInv, NEW b \in Blocks, ReadBlock(b)
  PROVE  [Disk!Next]_(Disk!vars)
<1>1. Recovered' = Recovered /\ InOp' = InOp
  BY DEF Recovered, InOp, ReadBlock, diskVars, procVars
<1>2. \A c \in Blocks : Bread(c)' = Bread(c)
  BY LogAssumption DEF ReadBlock, Bread, IInv, TypeOK, Contents, diskVars
<1>3. View' = View
  BY <1>2, ViewSame DEF ReadBlock
<1> QED
  BY <1>1, <1>3 DEF Disk!vars

\* Reusing an unpinned buffer changes nothing of the atomic disk.
LEMMA RecycleRef ==
  ASSUME IInv, NEW b \in Blocks, Recycle(b)
  PROVE  [Disk!Next]_(Disk!vars)
<1>1. Recovered' = Recovered /\ InOp' = InOp /\ boot' = boot
  BY DEF Recovered, InOp, Recycle, diskVars, procVars
<1>2. CASE boot # "up"
  BY <1>1, <1>2 DEF View, Disk!vars
<1>3. CASE boot = "up"
  <2>1. pins[b] = 0 /\ ~Held(b)
    BY DEF Recycle, Referenced, IInv, TypeOK
  <2>2. cache[b] = home[b]
    <3>1. CASE b \notin Range(lh)
      BY <1>3, <2>1, <3>1 DEF IInv, CleanCache, Recycle
    <3>2. CASE b \in Range(lh)
      <4>0. DOMAIN lh = 1..Len(lh)
        BY DEF IInv, TypeOK
      <4>1. PICK i \in 1..Len(lh) : lh[i] = b
        BY SMTT(30), <3>2, <4>0 DEF Range
      <4>2. ~(i > Installed)
        BY <1>3, <2>1, <4>1, UnpinnedNotPending
      <4>3. (At("install") \/ At("erase")) /\ i \in 1..tail
        BY <4>2 DEF Installed, IInv, TypeOK
      <4> QED
        BY <4>1, <4>3 DEF IInv, CleanCache, Recycle
    <3> QED
      BY <3>1, <3>2
  <2>3. \A c \in Blocks : Bread(c)' = Bread(c)
    BY <2>2 DEF Recycle, Bread, IInv, TypeOK, diskVars
  <2>4. View' = View
    BY <1>1, <1>3, <2>3, ViewSame
  <2> QED
    BY <1>1, <2>4 DEF Disk!vars
<1> QED
  BY <1>2, <1>3

\* A power failure is the atomic disk's: what was not durable is forgotten.
LEMMA CrashRef ==
  ASSUME IInv, Crash
  PROVE  [Disk!Next]_(Disk!vars)
<1>1. InOp' = {}
  BY DEF InOp, Crash
<1>2. View' = Recovered'
  BY DEF View, Crash
<1>3. dhead \in Seq(Blocks) /\ \A j, k \in 1..Len(dhead) : dhead[j] = dhead[k] => j = k
  BY DEF IInv, TypeOK, LogDistinct
<1>4. \A i \in 1..Len(dhead) : logblk'[i] = logblk[i]
  <2>1. CASE logblk' # logblk
    <3>1. PICK q \in Procs : pc[q] = "write_log"
      BY <2>1 DEF Crash, CrashLog, Logging
    <3>2. dhead = <<>>
      BY <3>1, Committing DEF IInv, HeaderMatches, AfterHead, Commits
    <3> QED
      BY <3>2
  <2> QED
    BY <2>1
<1>5. \A b \in Blocks : b \notin Range(dhead) => home'[b] = home[b]
  <2>1. CASE home' # home
    <3>1. Installing /\ home' = [home EXCEPT ![lh[tail + 1]] = Torn]
      BY <2>1 DEF Crash, CrashHome
    <3>2. dhead = lh
      BY <3>1 DEF Installing, IInv, HeaderMatches, AfterHead, At
    <3>3. tail + 1 \in DOMAIN lh
      BY <3>1 DEF Installing, IInv, TypeOK
    <3>4. \A b \in Blocks : b \notin Range(dhead) => b # lh[tail + 1]
      BY <3>2, <3>3 DEF Range
    <3> QED
      BY <3>1, <3>4 DEF IInv, TypeOK
  <2> QED
    BY <2>1
<1>6. Overlay(home', logblk', dhead) = Overlay(home, logblk, dhead)
  BY <1>3, <1>4, <1>5, OverlaySame
<1>7. Recovered' = Recovered
  BY <1>6 DEF Recovered, Crash
<1>8. Disk!Crash
  BY <1>1, <1>2, <1>7 DEF Disk!Crash
<1> QED
  BY <1>8 DEF Disk!Next

\* Every step of recovery changes nothing of the atomic disk.
LEMMA RecoverRef ==
  ASSUME IInv, Recover
  PROVE  [Disk!Next]_(Disk!vars)
<1>1. boot # "up"
  BY DEF Recover, ReadHead, RecoverInstall, RecoverErase
<1>2. InOp' = InOp
  BY DEF InOp, Recover, ReadHead, RecoverInstall, RecoverErase, procVars
<1>3. dhead \in Seq(Blocks) /\ \A j, k \in 1..Len(dhead) : dhead[j] = dhead[k] => j = k
  BY DEF IInv, TypeOK, LogDistinct
<1>4. Recovered' = Recovered /\ View' = View
  <2>1. CASE ReadHead
    BY <2>1 DEF ReadHead, Recovered, View, diskVars
  <2>2. CASE RecoverInstall
    <3>1. dhead = lh /\ dhead' = dhead /\ logblk' = logblk /\ boot' # "up"
      BY <2>2 DEF RecoverInstall, IInv, HeaderMatches, AfterHead
    <3>2. \A b \in Blocks : b \notin Range(dhead) => home'[b] = home[b]
      <4>1. CASE tail < Len(lh)
        <5>1. lh[tail + 1] \in Range(dhead)
          BY <3>1, <4>1 DEF Range, IInv, TypeOK
        <5>2. home' = [home EXCEPT ![lh[tail + 1]] = logblk[tail + 1]]
          BY <2>2, <4>1 DEF RecoverInstall, InstallBlock
        <5> QED
          BY <5>1, <5>2 DEF IInv, TypeOK
      <4> QED
        BY <2>2, <4>1 DEF RecoverInstall
    <3>3. Overlay(home', logblk, dhead) = Overlay(home, logblk, dhead)
      BY <1>3, <3>2, OverlaySame
    <3> QED
      BY <1>1, <3>1, <3>3 DEF Recovered, View
  <2>3. CASE RecoverErase
    <3>1. dhead = lh /\ tail = Len(lh) /\ \A i \in 1..tail : home[lh[i]] = logblk[i]
      BY <2>3 DEF RecoverErase, IInv, HeaderMatches, AfterHead, InstalledCopies
    <3>2. Recovered = [b \in Blocks |-> home[b]]
      BY <1>3, <3>1, OverlayInstalled DEF Recovered
    <3>3. Recovered' = [b \in Blocks |-> home[b]]
      BY <2>3, OverlayEmpty DEF Recovered, RecoverErase
    <3>4. \A b \in Blocks : Bread(b)' = home[b]
      BY <1>1, <2>3 DEF RecoverErase, Bread, bufVars, IInv, CleanCache
    <3> QED
      BY <1>1, <2>3, <3>2, <3>3, <3>4 DEF View, RecoverErase
  <2> QED
    BY <2>1, <2>2, <2>3 DEF Recover
<1> QED
  BY <1>2, <1>4 DEF Disk!vars

\* kill() of a process asleep in begin_op changes nothing of the atomic disk.
LEMMA KillSleeperRef ==
  ASSUME IInv, NEW p \in Procs, KillSleeper(p)
  PROVE  [Disk!Next]_(Disk!vars)
<1>1. Recovered' = Recovered /\ View' = View
  BY DEF Recovered, View, Bread, KillSleeper, diskVars, bufVars
<1>2. InOp' = InOp
  BY DEF InOp, KillSleeper, IInv, TypeOK
<1> QED
  BY <1>1, <1>2 DEF Disk!vars

\* Every step of the log is a step of the atomic disk or leaves it unchanged.
LEMMA RefNext == IInv /\ [Next]_vars => [Disk!Next]_(Disk!vars)
<1> SUFFICES ASSUME IInv, [Next]_vars PROVE [Disk!Next]_(Disk!vars)
  OBVIOUS
<1>1. ASSUME NEW p \in Procs, BeginOp(p) \/ KillSleeper(p) \/ Op(p) \/ EndOp(p) \/ Commit(p)
      PROVE  [Disk!Next]_(Disk!vars)
  BY Zenon, <1>1, BeginOpRef, KillSleeperRef, ModifyRef, LogWriteRef, EndOpRef, WriteLogRef,
     WriteHeadRef, InstallRef, EraseRef, FinishRef DEF Op, Commit
<1>2. ASSUME NEW b \in Blocks, ReadBlock(b) \/ Recycle(b) PROVE [Disk!Next]_(Disk!vars)
  BY <1>2, ReadBlockRef, RecycleRef
<1>3. CASE UNCHANGED vars
  BY <1>3
     DEF vars, diskVars, logVars, bufVars, procVars, Disk!vars, Recovered, View, Bread,
         InOp
<1> QED
  BY <1>1, <1>2, <1>3, RecoverRef, CrashRef DEF Next

\* Crash atomicity for any number of processes and blocks: log.c implements
\* a disk on which file system calls become durable all at once, whatever
\* write of commit or of recovery a power failure interrupts.
THEOREM LogImplementsAtomicDisk == Spec => AtomicDurability
BY RefInit, RefNext, LogInvariant, PTL DEF Spec, AtomicDurability, Disk!Spec

\* Neither a reader nor a reboot ever sees a block that a power failure
\* left half written.
THEOREM LogNeverTorn == Spec => []NeverTorn
<1>1. IInv => NeverTorn
  <2> SUFFICES ASSUME IInv, NEW b \in Blocks PROVE Recovered[b] # Torn /\ View[b] # Torn
    BY DEF NeverTorn
  <2>1. Recovered[b] \in Val
    <3>1. CASE b \in Range(dhead)
      <4>1. PICK i \in 1..Len(dhead) : dhead[i] = b
        BY <3>1 DEF Range, IInv, TypeOK
      <4>2. dhead \in Seq(Blocks) /\ \A j, k \in 1..Len(dhead) : dhead[j] = dhead[k] => j = k
        BY DEF IInv, TypeOK, LogDistinct
      <4>3. Recovered[b] = logblk[i]
        BY <4>1, <4>2, OverlayLog DEF Recovered
      <4> QED
        BY <4>3 DEF IInv, LoggedCopies
    <3>2. CASE b \notin Range(dhead)
      BY <3>2, OverlayHome DEF Recovered, IInv, InstalledCopies
    <3> QED
      BY <3>1, <3>2
  <2>2. boot = "up" => Bread(b) # Torn
    <3>1. CASE cache[b] # NotCached
      BY <3>1 DEF Bread, IInv, CleanCache
    <3>2. CASE cache[b] = NotCached /\ boot = "up"
      <4>1. CASE b \in Range(dhead)
        <5>1. PICK i \in 1..Len(dhead) : dhead[i] = b
          BY <4>1 DEF Range, IInv, TypeOK
        <5>2. AfterHead /\ dhead = lh
          BY <5>1, <3>2 DEF IInv, HeaderMatches
        <5>3. pins[b] = 0
          BY SMTT(30), <3>2 DEF IInv, KeptInCache, TypeOK
        <5>4. ~(i > Installed)
          BY Zenon, <3>2, <5>1, <5>2, <5>3, UnpinnedNotPending
        <5>5. i \in 1..tail
          BY <5>4 DEF Installed, IInv, TypeOK
        <5> QED
          BY SMTT(30), <3>2, <5>1, <5>2, <5>5, LogAssumption
             DEF Bread, IInv, InstalledCopies, LoggedCopies
      <4>2. CASE b \notin Range(dhead)
        BY <3>2, <4>2, LogAssumption DEF Bread, IInv, InstalledCopies
      <4> QED
        BY <4>1, <4>2
    <3> QED
      BY <3>1, <3>2
  <2> QED
    BY <2>1, <2>2, LogAssumption DEF View
<1> QED
  BY <1>1, LogInvariant, PTL
===============================================================================
