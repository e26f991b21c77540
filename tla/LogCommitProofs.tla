------------------------------ MODULE LogCommitProofs ------------------------------
(***************************************************************************)
(* Every disk write of commit() preserves LogInv!IInv.                     *)
(***************************************************************************)
EXTENDS LogCallProofs

\* The facts every step of the committer shares.
LEMMA CommitFrame ==
  ASSUME IInv, NEW p \in Procs, pc[p] \in Commits, NEW s \in Commits,
         pc' = [pc EXCEPT ![p] = s], UNCHANGED <<outstanding, committing, boot, buf, written>>
  PROVE  /\ pc' \in [Procs -> Pcs] /\ boot' = "up"
         /\ BootQuiet' /\ OneCommitter' /\ OpsCounted' /\ HeldBuffers'
         /\ \A t \in Commits : At(t)' <=> t = s
         /\ \A b \in Blocks : ~Held(b)'
         /\ \A q \in Procs : buf'[q] = NoBuf
<1>1. /\ boot = "up" /\ committing /\ outstanding = 0 /\ InOp = {}
      /\ \A q \in Procs : q # p => pc[q] \notin Commits
      /\ \A q \in Procs : pc[q] \notin {"op", "modified"} /\ buf[q] = NoBuf
      /\ \A b \in Blocks : ~Held(b)
  BY Committing
<1>2. pc' \in [Procs -> Pcs]
  BY DEF IInv, TypeOK, Pcs
<1>3. BootQuiet' /\ OneCommitter'
  BY <1>1 DEF BootQuiet, OneCommitter, IInv, TypeOK
<1>4. InOp' = {}
  BY <1>1 DEF InOp, IInv, TypeOK, Commits
<1>5. OpsCounted'
  BY <1>1, <1>4, FS_EmptySet DEF OpsCounted
<1>6. HeldBuffers'
  BY <1>1 DEF HeldBuffers, IInv, TypeOK, Commits
<1>7. \A t \in Commits : At(t)' <=> t = s
  BY <1>1 DEF At, IInv, TypeOK
<1>8. \A b \in Blocks : ~Held(b)'
  BY <1>1 DEF Held
<1> QED
  BY <1>1, <1>2, <1>3, <1>5, <1>6, <1>7, <1>8

\* WriteLog: a logged block is pinned, so the cache still has it.
LEMMA WriteLogInv ==
  ASSUME IInv, NEW p \in Procs, WriteLog(p)
  PROVE  IInv'
<1> USE DEF IInv, WriteLog
<1>1. pc[p] = "write_log" /\ "write_log" \in Commits /\ "write_head" \in Commits
  BY DEF Commits
<1>2. /\ boot = "up" /\ \A s \in Commits : At(s) <=> s = "write_log"
      /\ \A b \in Blocks : ~Held(b)
  BY <1>1, Committing
<1>3. ~AfterHead /\ Installed = 0 /\ dhead = <<>> /\ tail <= Len(lh)
  BY <1>2 DEF AfterHead, Installed, Commits, HeaderMatches, LoggedCopies
<1>4. tail \in Nat /\ lh \in Seq(Blocks) /\ Len(lh) \in Nat /\ Len(lh) < nlog /\ nlog \in Nat
  BY LogAssumption DEF TypeOK, LogDistinct
<1>5. \A i \in 1..Len(lh) : lh[i] \in Blocks /\ pins[lh[i]] = 1 /\ cache[lh[i]] # NotCached
  <2>1. \A i \in 1..Len(lh) : lh[i] \in Blocks
    BY <1>4
  <2>2. \A i \in 1..Len(lh) : pins[lh[i]] = 1
    BY <1>2, <1>3, <1>4, <2>1 DEF PinnedUntilInstalled
  <2> QED
    BY <2>1, <2>2 DEF KeptInCache
<1>6. CASE tail < Len(lh)
  <2> DEFINE b == lh[tail + 1]
  <2>1. b \in Blocks /\ Bread(b) = cache[b] /\ tail + 1 \in 1..Len(lh) /\ tail + 1 \in Slots
    BY <1>4, <1>5, <1>6 DEF Bread, Slots
  <2>2. /\ pc' = [pc EXCEPT ![p] = "write_log"] /\ cache' = cache /\ tail' = tail + 1
        /\ logblk' = [logblk EXCEPT ![tail + 1] = cache[b]]
    BY <1>1, <1>6, <2>1 DEF TypeOK
  <2>3. /\ pc' \in [Procs -> Pcs] /\ boot' = "up"
        /\ BootQuiet' /\ OneCommitter' /\ OpsCounted' /\ HeldBuffers'
        /\ \A t \in Commits : At(t)' <=> t = "write_log"
        /\ \A c \in Blocks : ~Held(c)'
        /\ \A q \in Procs : buf'[q] = NoBuf
    BY Zenon, <1>1, <2>2, CommitFrame
  <2>4. logblk' \in [Slots -> Contents]
    BY <1>5, <2>1, <2>2, LogAssumption DEF TypeOK
  <2>5. TypeOK'
    BY <2>2, <2>3, <2>4, <1>4 DEF TypeOK
  <2>6. ~AfterHead' /\ Installed' = 0
    BY <2>3 DEF AfterHead, Installed, Commits
  <2>7. HeaderMatches' /\ LogDistinct' /\ InstalledCopies'
    BY <1>3, <2>3, <2>6 DEF HeaderMatches, LogDistinct, InstalledCopies, AfterHead, Commits
  <2>8. \A i \in 1..tail' : logblk'[i] = cache'[lh'[i]]
    <3>1. \A i \in 1..tail : logblk[i] = cache[lh[i]]
      BY <1>2 DEF LoggedCopies, Commits
    <3>2. \A i \in 1..tail' : i \in Slots /\ (i = tail + 1 \/ i \in 1..tail)
      BY <1>4, <2>1, <2>2 DEF Slots
    <3> QED
      BY <3>1, <3>2, <2>2, <2>1 DEF TypeOK
  <2>9. LoggedCopies'
    BY <1>3, <1>4, <1>6, <2>2, <2>3, <2>8 DEF LoggedCopies, Commits
  <2>10. CleanCache' /\ PinnedUntilInstalled' /\ KeptInCache'
    BY <1>2, <1>3, <2>2, <2>3, <2>6 DEF CleanCache, PinnedUntilInstalled, KeptInCache, Commits
  <2> QED
    BY <2>3, <2>5, <2>7, <2>9, <2>10
<1>7. CASE ~(tail < Len(lh))
  <2>1. pc' = [pc EXCEPT ![p] = "write_head"] /\ UNCHANGED <<logblk, cache, tail>>
    BY <1>7
  <2>2. /\ pc' \in [Procs -> Pcs] /\ boot' = "up"
        /\ BootQuiet' /\ OneCommitter' /\ OpsCounted' /\ HeldBuffers'
        /\ \A t \in Commits : At(t)' <=> t = "write_head"
        /\ \A c \in Blocks : ~Held(c)'
        /\ \A q \in Procs : buf'[q] = NoBuf
    BY Zenon, <1>1, <2>1, CommitFrame
  <2>3. TypeOK'
    BY <2>1, <2>2 DEF TypeOK
  <2>4. ~AfterHead' /\ Installed' = 0
    BY <2>2 DEF AfterHead, Installed, Commits
  <2>5. HeaderMatches' /\ LogDistinct' /\ InstalledCopies'
    BY <1>3, <2>1, <2>2, <2>4 DEF HeaderMatches, LogDistinct, InstalledCopies, AfterHead, Commits
  <2>6. LoggedCopies'
    BY <1>2, <1>3, <1>4, <1>7, <2>1, <2>2 DEF LoggedCopies, Commits
  <2>7. CleanCache' /\ PinnedUntilInstalled' /\ KeptInCache'
    BY <1>2, <1>3, <2>1, <2>2, <2>4 DEF CleanCache, PinnedUntilInstalled, KeptInCache, Commits
  <2> QED
    BY Zenon, <2>2, <2>3, <2>5, <2>6, <2>7
<1> QED
  BY <1>6, <1>7

\* WriteHead: every logged block has its copy in the log; it is committed.
LEMMA WriteHeadInv ==
  ASSUME IInv, NEW p \in Procs, WriteHead(p)
  PROVE  IInv'
<1> USE DEF IInv, WriteHead, bufVars
<1>1. pc[p] = "write_head" /\ "write_head" \in Commits /\ "install" \in Commits
  BY DEF Commits
<1>2. /\ boot = "up" /\ \A s \in Commits : At(s) <=> s = "write_head"
      /\ \A b \in Blocks : ~Held(b)
  BY <1>1, Committing
<1>3. ~AfterHead /\ Installed = 0 /\ dhead = <<>> /\ tail = Len(lh)
  BY <1>2 DEF AfterHead, Installed, Commits, HeaderMatches, LoggedCopies
<1>4. lh \in Seq(Blocks) /\ Len(lh) \in Nat /\ DOMAIN lh = 1..Len(lh)
  BY DEF TypeOK
<1>5. /\ pc' \in [Procs -> Pcs] /\ boot' = "up"
      /\ BootQuiet' /\ OneCommitter' /\ OpsCounted' /\ HeldBuffers'
      /\ \A t \in Commits : At(t)' <=> t = "install"
      /\ \A c \in Blocks : ~Held(c)'
      /\ \A q \in Procs : buf'[q] = NoBuf
  BY Zenon, <1>1, CommitFrame
<1>6. TypeOK'
  BY <1>5 DEF TypeOK
<1>7. AfterHead' /\ Installed' = 0
  BY <1>5 DEF AfterHead, Installed, Commits
<1>8. HeaderMatches' /\ LogDistinct'
  BY <1>3, <1>5, <1>7 DEF HeaderMatches, LogDistinct, AfterHead, Commits
<1>9. \A i \in 1..Len(lh) : logblk[i] = cache[lh[i]] /\ lh[i] \in Blocks /\ cache[lh[i]] # NotCached
  <2>1. \A i \in 1..Len(lh) : logblk[i] = cache[lh[i]] /\ lh[i] \in Blocks
    BY <1>2, <1>3, <1>4 DEF LoggedCopies, Commits
  <2>2. \A i \in 1..Len(lh) : pins[lh[i]] = 1
    BY <1>2, <1>3, <1>4, <2>1 DEF PinnedUntilInstalled
  <2> QED
    BY <2>1, <2>2 DEF KeptInCache
<1>10. LoggedCopies'
  <2>1. \A c \in Blocks : cache[c] \in Val \cup {Torn, NotCached} /\ cache[c] # Torn
    <3>1. cache \in [Blocks -> Contents \cup {NotCached}] /\ \A c \in Blocks : cache[c] # Torn
      BY DEF CleanCache, TypeOK
    <3> QED
      BY Zenon, <3>1 DEF Contents
  <2>2. \A i \in 1..Len(lh) : logblk[i] \in Val
    BY Zenon, <1>9, <2>1
  <2> QED
    BY <1>5, <1>9, <2>2 DEF LoggedCopies, Commits
<1>11. InstalledCopies'
  <2>1. \A b \in Blocks : home[b] \in Val
    BY <1>3 DEF InstalledCopies, Range
  <2> QED
    BY <1>4, <1>5, <1>7, <2>1 DEF InstalledCopies, Commits
<1>12. CleanCache' /\ KeptInCache'
  BY <1>2, <1>5 DEF CleanCache, KeptInCache, Commits
<1>13. PinnedUntilInstalled'
  BY <1>2, <1>3, <1>7 DEF PinnedUntilInstalled
<1> QED
  BY <1>5, <1>6, <1>8, <1>10, <1>11, <1>12, <1>13

\* Install: one more home block agrees with the log; its pin goes.
LEMMA InstallInv ==
  ASSUME IInv, NEW p \in Procs, Install(p)
  PROVE  IInv'
<1> USE DEF IInv, Install
<1>1. pc[p] = "install" /\ "install" \in Commits /\ "erase" \in Commits
  BY DEF Commits
<1>2. /\ boot = "up" /\ \A s \in Commits : At(s) <=> s = "install"
      /\ \A b \in Blocks : ~Held(b)
  BY <1>1, Committing
<1>3. AfterHead /\ Installed = tail /\ dhead = lh /\ tail <= Len(lh)
  BY <1>2 DEF AfterHead, Installed, Commits, HeaderMatches, InstalledCopies
<1>4. /\ tail \in Nat /\ lh \in Seq(Blocks) /\ Len(lh) \in Nat /\ DOMAIN lh = 1..Len(lh)
      /\ \A i \in 1..Len(lh) : lh[i] \in Blocks
      /\ \A i, j \in 1..Len(lh) : lh[i] = lh[j] => i = j
  BY DEF TypeOK, LogDistinct
<1>5. /\ \A i \in 1..Len(lh) : i > tail => cache[lh[i]] = logblk[i]
      /\ \A i \in 1..Len(lh) : logblk[i] \in Val
      /\ \A i \in 1..tail : home[lh[i]] = logblk[i]
      /\ \A i \in 1..tail : cache[lh[i]] \in {NotCached, home[lh[i]]}
  BY <1>2, <1>3 DEF LoggedCopies, InstalledCopies, CleanCache, Commits
<1>6. CASE tail < Len(lh)
  <2> DEFINE b == lh[tail + 1]
             v == logblk[tail + 1]
  <2>1. b \in Blocks /\ v \in Val /\ cache[b] = v /\ tail + 1 \in 1..Len(lh) /\ b \in Range(lh)
    <3> HIDE DEF IInv, Install
    <3>1. tail + 1 \in 1..Len(lh) /\ tail + 1 > tail
      BY <1>4, <1>6
    <3> QED
      BY Zenon, <3>1, <1>4, <1>5, SeqRange
  <2>2. /\ pc' = [pc EXCEPT ![p] = "install"] /\ cache' = cache /\ tail' = tail + 1
        /\ home' = [home EXCEPT ![b] = v]
        /\ pins' = [pins EXCEPT ![b] = pins[b] - 1]
    <3>1. InstallBlock /\ pc' = pc /\ pins' = [pins EXCEPT ![b] = pins[b] - 1]
      BY <1>6
    <3>2. tail' = tail + 1 /\ home' = [home EXCEPT ![b] = v] /\ cache' = [cache EXCEPT ![b] = v]
      BY <3>1 DEF InstallBlock
    <3>3. cache' = cache
      BY <3>2, <2>1 DEF TypeOK
    <3>4. pc' = [pc EXCEPT ![p] = "install"]
      BY <3>1, <1>1 DEF TypeOK
    <3> QED
      BY Zenon, <3>1, <3>2, <3>3, <3>4
  <2>3. /\ pc' \in [Procs -> Pcs] /\ boot' = "up"
        /\ BootQuiet' /\ OneCommitter' /\ OpsCounted' /\ HeldBuffers'
        /\ \A t \in Commits : At(t)' <=> t = "install"
        /\ \A c \in Blocks : ~Held(c)'
        /\ \A q \in Procs : buf'[q] = NoBuf
    BY Zenon, <1>1, <2>2, CommitFrame
  <2>4. \A c \in Blocks : pins[c] = IF \E i \in (tail + 1)..Len(lh) : lh[i] = c THEN 1 ELSE 0
    BY <1>2, <1>3 DEF PinnedUntilInstalled
  <2>5. pins[b] = 1
    BY <2>1, <2>4, <1>4
  <2>6. home' \in [Blocks -> Contents] /\ pins' \in [Blocks -> Nat]
    BY <2>1, <2>2, <2>5 DEF TypeOK, Contents
  <2>7. TypeOK'
    <3>1. TypeOK /\ tail' \in Nat
      BY <1>4, <2>2
    <3>2. UNCHANGED <<logblk, dhead, lh, outstanding, committing, boot, buf, written>>
      OBVIOUS
    <3> HIDE DEF IInv, Install
    <3> QED
      BY Zenon, <3>1, <3>2, <2>2, <2>3, <2>6 DEF TypeOK
  <2>8. AfterHead' /\ Installed' = tail + 1
    BY <2>2, <2>3 DEF AfterHead, Installed, Commits
  <2>9. HeaderMatches' /\ LogDistinct'
    BY <1>3, <2>3, <2>8 DEF HeaderMatches, LogDistinct, AfterHead, Commits
  <2>10. LoggedCopies'
    <3>1. \A i \in 1..Len(lh) : i > tail' => cache[lh[i]] = logblk[i]
      BY <1>4, <1>5, <2>2
    <3> QED
      BY <3>1, <1>3, <1>5, <2>2, <2>3 DEF LoggedCopies, Commits
  <2>11. \A i \in 1..tail : i \in 1..Len(lh) /\ lh[i] # b
    BY <1>4, <1>6, <2>1
  <2>12. \A i \in 1..tail' : home'[lh[i]] = logblk[i] /\ cache[lh[i]] \in {NotCached, home'[lh[i]]}
    <3>1. \A i \in 1..tail' : i \in 1..tail \/ i = tail + 1
      BY <1>4, <2>2
    <3> QED
      BY Zenon, <3>1, <1>4, <1>5, <2>1, <2>2, <2>11 DEF TypeOK
  <2>13. \A c \in Blocks : c \notin Range(lh) => home'[c] = home[c]
    BY <2>1, <2>2 DEF TypeOK
  <2>14. InstalledCopies'
    <3>1. tail' <= Len(lh)
      BY <1>4, <1>6, <2>2
    <3>2. \A c \in Blocks : c \notin Range(lh) => home'[c] \in Val
      BY Zenon, <1>3, <2>13 DEF InstalledCopies
    <3>3. /\ lh' = lh /\ dhead' = lh /\ logblk' = logblk
          /\ boot' = "up" /\ ~At("erase")'
      BY <1>3, <2>3 DEF Commits
    <3> QED
      BY <3>1, <3>2, <3>3, <2>12 DEF InstalledCopies
  <2>15. CleanCache'
    <3>1. CleanCache /\ lh' = lh
      OBVIOUS
    <3> HIDE DEF IInv, Install
    <3> QED
      BY <3>1, <1>2, <2>2, <2>3, <2>12, <2>13 DEF CleanCache, Commits
  <2>16. \A c \in Blocks : pins'[c] = IF \E i \in (tail + 2)..Len(lh) : lh[i] = c THEN 1 ELSE 0
    <3> SUFFICES ASSUME NEW c \in Blocks
                 PROVE  pins'[c] = IF \E i \in (tail + 2)..Len(lh) : lh[i] = c THEN 1 ELSE 0
      OBVIOUS
    <3>1. CASE c = b
      <4>1. \A i \in (tail + 2)..Len(lh) : lh[i] # b
        BY <1>4, <2>1
      <4> QED
        BY <3>1, <4>1, <2>1, <2>2, <2>5 DEF TypeOK
    <3>2. CASE c # b
      <4>1. (\E i \in (tail + 2)..Len(lh) : lh[i] = c) <=> \E i \in (tail + 1)..Len(lh) : lh[i] = c
        BY <1>4, <3>2
      <4> QED
        BY <3>2, <4>1, <2>2, <2>4 DEF TypeOK
    <3> QED
      BY <3>1, <3>2
  <2>17. PinnedUntilInstalled'
    BY <1>4, <2>8, <2>16 DEF PinnedUntilInstalled
  <2>18. KeptInCache'
    BY <2>1, <2>2, <2>3, <2>5 DEF KeptInCache, TypeOK
  <2> QED
    BY Zenon, <2>3, <2>7, <2>9, <2>10, <2>14, <2>15, <2>17, <2>18
<1>7. CASE ~(tail < Len(lh))
  <2>0. tail = Len(lh)
    <3> HIDE DEF IInv, Install
    <3>1. tail \in Nat /\ Len(lh) \in Nat /\ tail <= Len(lh)
      BY <1>3, <1>4
    <3> QED
      BY <3>1, <1>7
  <2>1. pc' = [pc EXCEPT ![p] = "erase"] /\ UNCHANGED <<home, cache, tail, pins>>
    BY <1>7
  <2>2. /\ pc' \in [Procs -> Pcs] /\ boot' = "up"
        /\ BootQuiet' /\ OneCommitter' /\ OpsCounted' /\ HeldBuffers'
        /\ \A t \in Commits : At(t)' <=> t = "erase"
        /\ \A c \in Blocks : ~Held(c)'
        /\ \A q \in Procs : buf'[q] = NoBuf
    BY Zenon, <1>1, <2>1, CommitFrame
  <2>3. TypeOK'
    BY <2>1, <2>2 DEF TypeOK
  <2>4. AfterHead' /\ Installed' = tail
    BY <2>1, <2>2 DEF AfterHead, Installed, Commits
  <2>5. HeaderMatches' /\ LogDistinct' /\ LoggedCopies'
    BY <1>3, <2>1, <2>2, <2>4 DEF HeaderMatches, LogDistinct, LoggedCopies, AfterHead, Commits
  <2>6. InstalledCopies'
    <3>1. /\ InstalledCopies /\ lh' = lh /\ dhead' = dhead /\ logblk' = logblk
          /\ boot' = "up" /\ ~At("install")'
      BY <2>2 DEF Commits
    <3> HIDE DEF IInv, Install
    <3> QED
      BY <3>1, <1>3, <1>5, <2>0, <2>1 DEF InstalledCopies
  <2>7. CleanCache' /\ KeptInCache'
    BY Zenon, <1>2, <1>5, <2>1, <2>2 DEF CleanCache, KeptInCache, Commits
  <2>8. PinnedUntilInstalled'
    BY <1>2, <1>3, <2>1, <2>4 DEF PinnedUntilInstalled
  <2> QED
    BY Zenon, <2>2, <2>3, <2>5, <2>6, <2>7, <2>8
<1> QED
  BY <1>6, <1>7

\* Erase: every committed block is home, so the header may go.
LEMMA EraseInv ==
  ASSUME IInv, NEW p \in Procs, Erase(p)
  PROVE  IInv'
<1> USE DEF IInv, Erase, bufVars
<1>1. pc[p] = "erase" /\ "erase" \in Commits /\ "finish" \in Commits
  BY DEF Commits
<1>2. /\ boot = "up" /\ \A s \in Commits : At(s) <=> s = "erase"
      /\ \A b \in Blocks : ~Held(b)
  BY Zenon, <1>1, Committing
<1>3. AfterHead /\ Installed = tail /\ dhead = lh /\ tail = Len(lh)
  BY <1>2 DEF AfterHead, Installed, Commits, HeaderMatches, InstalledCopies
<1>4. lh \in Seq(Blocks) /\ Len(lh) \in Nat /\ DOMAIN lh = 1..Len(lh)
  BY DEF TypeOK
<1>5. /\ pc' \in [Procs -> Pcs] /\ boot' = "up"
      /\ BootQuiet' /\ OneCommitter' /\ OpsCounted' /\ HeldBuffers'
      /\ \A t \in Commits : At(t)' <=> t = "finish"
      /\ \A c \in Blocks : ~Held(c)'
      /\ \A q \in Procs : buf'[q] = NoBuf
  BY Zenon, <1>1, CommitFrame
<1>6. TypeOK'
  BY <1>5 DEF TypeOK
<1>7. ~AfterHead' /\ Installed' = 0
  BY <1>5 DEF AfterHead, Installed, Commits
<1>8. HeaderMatches' /\ LogDistinct' /\ LoggedCopies'
  <2>1. HeaderMatches'
    BY <1>5, <1>7 DEF HeaderMatches
  <2>2. LogDistinct'
    BY LogAssumption DEF LogDistinct
  <2>3. LoggedCopies'
    BY <1>5 DEF LoggedCopies, Commits
  <2> QED
    BY Zenon, <2>1, <2>2, <2>3
<1>9. \A b \in Blocks : home[b] \in Val /\ cache[b] \in {NotCached, home[b]}
  <2>0. LoggedCopies /\ InstalledCopies /\ CleanCache /\ At("erase") /\ ~At("install")
    BY <1>2 DEF Commits
  <2> HIDE DEF IInv, Erase, bufVars
  <2> SUFFICES ASSUME NEW b \in Blocks PROVE home[b] \in Val /\ cache[b] \in {NotCached, home[b]}
    OBVIOUS
  <2>1. CASE b \in Range(lh)
    <3>1. PICK i \in 1..Len(lh) : lh[i] = b
      BY Zenon, <2>1, <1>4, SeqRange
    <3> QED
      BY <3>1, <2>0, <1>3 DEF LoggedCopies, InstalledCopies, CleanCache
  <2>2. CASE b \notin Range(lh)
    BY <2>2, <2>0, <1>2, <1>3 DEF InstalledCopies, CleanCache
  <2> QED
    BY <2>1, <2>2
<1>10. InstalledCopies' /\ CleanCache'
  <2>1. /\ home' = home /\ cache' = cache /\ ~At("install")' /\ ~At("erase")'
        /\ \A b \in Blocks : cache[b] # Torn
    BY <1>5 DEF Commits, CleanCache
  <2> HIDE DEF IInv, Erase, bufVars
  <2> QED
    BY <2>1, <1>5, <1>7, <1>9 DEF InstalledCopies, CleanCache
<1>11. \A b \in Blocks : pins[b] = 0
  <2>1. PinnedUntilInstalled
    OBVIOUS
  <2> HIDE DEF IInv, Erase, bufVars
  <2> QED
    BY <2>1, <1>2, <1>3, <1>4 DEF PinnedUntilInstalled
<1>12. PinnedUntilInstalled'
  BY <1>7, <1>11 DEF PinnedUntilInstalled
<1>13. KeptInCache'
  BY Zenon, <1>5 DEF KeptInCache
<1> QED
  BY Zenon, <1>5, <1>6, <1>8, <1>10, <1>12, <1>13

\* Finish: the log is empty again and open to calls.
LEMMA FinishInv ==
  ASSUME IInv, NEW p \in Procs, Finish(p)
  PROVE  IInv'
<1> USE DEF IInv, Finish, diskVars, bufVars
<1>1. pc[p] = "finish" /\ "finish" \in Commits
  BY DEF Commits
<1>2. /\ boot = "up" /\ outstanding = 0
      /\ \A q \in Procs : q # p => pc[q] \notin Commits
      /\ \A q \in Procs : pc[q] \notin {"op", "modified"} /\ buf[q] = NoBuf
      /\ \A s \in Commits : At(s) <=> s = "finish"
      /\ \A b \in Blocks : ~Held(b)
  BY <1>1, Committing
<1>3. ~AfterHead /\ Installed = 0 /\ dhead = <<>> /\ lh = <<>>
  BY <1>2 DEF AfterHead, Installed, Commits, HeaderMatches
<1>4. /\ pc' \in [Procs -> Pcs]
      /\ \A q \in Procs : pc'[q] \notin Commits \cup {"op", "modified"}
  BY <1>2 DEF TypeOK, Pcs, Wakeup, Commits
<1>5. TypeOK'
  BY Zenon, <1>4 DEF TypeOK
<1>6. BootQuiet' /\ OneCommitter' /\ HeldBuffers'
  BY Zenon, <1>2, <1>4 DEF BootQuiet, OneCommitter, HeldBuffers
<1>7. InOp' = {}
  BY Zenon, <1>4 DEF InOp
<1>8. OpsCounted'
  BY <1>2, <1>7, FS_EmptySet DEF OpsCounted
<1>9. \A s \in Commits : ~At(s)'
  BY Zenon, <1>4 DEF At
<1>10. ~AfterHead' /\ Installed' = 0
  BY <1>2, <1>9 DEF AfterHead, Installed, Commits
<1>11. HeaderMatches' /\ LogDistinct' /\ LoggedCopies' /\ InstalledCopies'
  <2>1. HeaderMatches' /\ LogDistinct'
    BY <1>3, <1>10 DEF HeaderMatches, LogDistinct
  <2>2. LoggedCopies'
    BY Zenon, <1>3, <1>9 DEF LoggedCopies, Commits
  <2>3. InstalledCopies'
    BY Zenon, <1>2, <1>9, <1>10 DEF InstalledCopies, Commits
  <2> QED
    BY Zenon, <2>1, <2>2, <2>3
<1>12. CleanCache' /\ KeptInCache'
  BY Zenon, <1>2, <1>9 DEF CleanCache, KeptInCache, Held, Commits
<1>13. PinnedUntilInstalled'
  BY Zenon, <1>2, <1>3, <1>10 DEF PinnedUntilInstalled
<1> QED
  BY <1>5, <1>6, <1>8, <1>11, <1>12, <1>13
===============================================================================
