--------------------------------- MODULE LogInv ---------------------------------
(***************************************************************************)
(* The inductive invariant behind the log's crash atomicity: which of the  *)
(* four copies of a block (cache, log, home, and what the on-disk header   *)
(* selects) agree at each stage of a commit and of a recovery.             *)
(***************************************************************************)
EXTENDS Log

\* install_trans is running or done, in a commit or in a recovery.
AfterHead == boot \in {"install", "erase"} \/ At("install") \/ At("erase")

\* Nobody makes file system calls before fsinit is over.
BootQuiet ==
  boot # "up" => /\ \A p \in Procs : pc[p] = "user" /\ buf[p] = NoBuf
                 /\ outstanding = 0 /\ ~committing
                 /\ \A b \in Blocks : pins[b] = 0

\* log.committing is set exactly while one process is inside commit.
OneCommitter ==
  /\ committing <=> \E p \in Procs : pc[p] \in Commits
  /\ \A p, q \in Procs : pc[p] \in Commits /\ pc[q] \in Commits => p = q

\* log.outstanding counts the open calls, and a commit excludes them.
OpsCounted ==
  /\ outstanding = Cardinality(InOp)
  /\ committing => outstanding = 0

\* A process holds a buffer between changing and logging it, alone.
HeldBuffers ==
  /\ \A p \in Procs : buf[p] # NoBuf <=> pc[p] = "modified"
  /\ \A p, q \in Procs : buf[p] = buf[q] /\ buf[p] # NoBuf => p = q

\* The on-disk header is empty, or it is the committed transaction.
HeaderMatches ==
  /\ AfterHead => dhead = lh
  /\ boot = "up" /\ ~AfterHead => dhead = <<>>
  /\ boot = "read_head" \/ At("finish") => lh = <<>>

\* A block appears once in a transaction, and the log area can hold it.
LogDistinct ==
  /\ Len(lh) < nlog /\ Len(dhead) < nlog
  /\ \A i, j \in 1..Len(lh) : lh[i] = lh[j] => i = j
  /\ \A i, j \in 1..Len(dhead) : dhead[i] = dhead[j] => i = j

\* The log blocks hold what the cache holds, and keep it once committed.
LoggedCopies ==
  /\ At("write_log") => tail <= Len(lh)
  /\ At("write_head") => tail = Len(lh)
  /\ At("write_log") \/ At("write_head") => \A i \in 1..tail : logblk[i] = cache[lh[i]]
  /\ At("install") => \A i \in 1..Len(lh) : i > tail => cache[lh[i]] = logblk[i]
  /\ \A i \in 1..Len(dhead) : logblk[i] \in Val

\* The home blocks hold the log blocks installed so far.
InstalledCopies ==
  /\ boot = "install" \/ At("install") => tail <= Len(lh)
  /\ boot = "erase" \/ At("erase") => tail = Len(lh)
  /\ AfterHead => \A i \in 1..tail : home[lh[i]] = logblk[i]
  /\ \A b \in Blocks : b \notin Range(dhead) => home[b] \in Val

\* A cached block that is neither held nor logged equals its home block.
CleanCache ==
  /\ \A b \in Blocks : cache[b] # Torn
  /\ boot # "up" => \A b \in Blocks : cache[b] \in {NotCached, home[b]}
  /\ boot = "up" =>
       \A b \in Blocks : ~Held(b) /\ b \notin Range(lh) => cache[b] \in {NotCached, home[b]}
  /\ At("install") \/ At("erase") =>
       \A i \in 1..tail : cache[lh[i]] \in {NotCached, home[lh[i]]}

\* Buffers that are held or pinned stay in the cache.
KeptInCache ==
  /\ \A p \in Procs : buf[p] # NoBuf => cache[buf[p]] # NotCached
  /\ \A b \in Blocks : pins[b] > 0 => cache[b] # NotCached

\* The strengthening that is preserved by every step of log.c, of the
\* buffer cache and of a power failure; the theorems rest on it.
IInv ==
  /\ TypeOK
  /\ BootQuiet
  /\ OneCommitter
  /\ OpsCounted
  /\ HeldBuffers
  /\ HeaderMatches
  /\ LogDistinct
  /\ LoggedCopies
  /\ InstalledCopies
  /\ CleanCache
  /\ PinnedUntilInstalled
  /\ KeptInCache
===============================================================================
