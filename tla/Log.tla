---------------------------------- MODULE Log ----------------------------------
(***************************************************************************)
(* The write-ahead log of kernel/log.c with the part of the buffer cache   *)
(* it relies on: file system calls open and close transactions, change     *)
(* cached blocks, the last one to leave commits; the machine may lose      *)
(* power at any step and recovers from the on-disk log when it boots.      *)
(*                                                                         *)
(* log.lock is a spin lock held for the whole of begin_op's test, of       *)
(* end_op's bookkeeping and of log_write, so each of these is one action.  *)
(* commit() runs without it: every disk write of it is an action.          *)
(***************************************************************************)
EXTENDS Naturals, Sequences, FiniteSets, Functions

CONSTANTS
  Procs,        \* processes making file system calls
  Blocks,       \* home locations on the disk
  Val,          \* contents of a block
  Image,        \* the blocks as mkfs wrote them
  Writes,       \* what the calls write: pairs of a block and its contents
  Torn,         \* contents of a block whose write a crash interrupted
  NotCached,    \* no buffer holds the block
  NoBuf,        \* the process holds no buffer
  MAXOPBLOCKS,  \* param.h: blocks an operation may write
  LOGSIZE,      \* param.h: blocks the log is meant to hold
  nlog,         \* log.size: blocks of the log area, the header included
  OpBlocks      \* blocks an operation really writes

ASSUME LogAssumption ==
  /\ IsFiniteSet(Procs)
  /\ MAXOPBLOCKS \in Nat \ {0}
  /\ LOGSIZE \in Nat
  /\ nlog \in Nat \ {0}
  /\ OpBlocks \in Nat
  /\ Image \in [Blocks -> Val]
  /\ Torn \notin Val
  /\ NotCached \notin Val \cup {Torn}
  /\ NoBuf \notin Blocks

VARIABLES
  \* on the disk
  home,         \* the blocks at their home locations
  logblk,       \* the data blocks of the log area
  dhead,        \* the block numbers in the on-disk header
  \* in memory
  lh,           \* log.lh: block numbers logged so far
  outstanding,  \* log.outstanding
  committing,   \* log.committing
  cache,        \* contents of the cached blocks
  pins,         \* references bpin holds on the buffer of a block
  tail,         \* loop index of write_log and install_trans
  boot,         \* how far fsinit has come
  pc,           \* where each process is
  buf,          \* the buffer a process has changed and still holds
  written       \* the blocks its operation has logged

diskVars == <<home, logblk, dhead>>
logVars  == <<lh, outstanding, committing, tail>>
bufVars  == <<cache, pins>>
procVars == <<pc, buf, written>>
vars     == <<diskVars, logVars, bufVars, boot, procVars>>

Slots == 1..(nlog - 1)          \* the log blocks after the header
Commits == {"write_log", "write_head", "install", "erase", "finish"}
Contents == Val \cup {Torn}
Pcs == {"user", "begin", "sleep", "op", "modified"} \cup Commits

\* mkfs wrote the blocks and an empty log header; the first process runs fsinit.
Init ==
  /\ home = Image
  /\ logblk \in [Slots -> {Torn}]
  /\ dhead = <<>>
  /\ lh = <<>> /\ outstanding = 0 /\ committing = FALSE /\ tail = 0
  /\ cache = [b \in Blocks |-> NotCached]
  /\ pins = [b \in Blocks |-> 0]
  /\ boot = "read_head"
  /\ pc = [p \in Procs |-> "user"]
  /\ buf = [p \in Procs |-> NoBuf]
  /\ written = [p \in Procs |-> {}]

-------------------------------------------------------------------------------
(* The buffer cache, as far as the log depends on it.                      *)

\* What bread(b) returns: the cached copy, or else the disk's.
Bread(b) == IF cache[b] = NotCached THEN home[b] ELSE cache[b]

Held(b) == \E p \in Procs : buf[p] = b

\* Any process reads a block, in or out of a transaction.
ReadBlock(b) ==
  /\ boot = "up"
  /\ ~Held(b)
  /\ cache[b] = NotCached
  /\ cache' = [cache EXCEPT ![b] = home[b]]
  /\ UNCHANGED <<diskVars, logVars, pins, boot, procVars>>

ReferencedIgnoringPins(b) == Held(b)

\* b->refcnt > 0: the buffer is locked by a process or pinned by the log.
Referenced(b) == Held(b) \/ pins[b] > 0

\* bget recycles a buffer nobody references.
Recycle(b) ==
  /\ cache[b] # NotCached
  /\ ~Referenced(b)
  /\ cache' = [cache EXCEPT ![b] = NotCached]
  /\ UNCHANGED <<diskVars, logVars, pins, boot, procVars>>

-------------------------------------------------------------------------------
(* Transactions.                                                           *)

WakeupMissing(f) == f

\* pc with every process sleeping on &log made runnable.
Wakeup(f) == [p \in Procs |-> IF f[p] = "sleep" THEN "begin" ELSE f[p]]

NoRoomForgetsLogged == committing \/ (outstanding + 1) * MAXOPBLOCKS > LOGSIZE

\* A commit runs, or this operation might exhaust the log space.
NoRoom == committing \/ Len(lh) + (outstanding + 1) * MAXOPBLOCKS > LOGSIZE

\* begin_op: one pass of its loop, entered by a call or after a wakeup.
BeginOp(p) ==
  /\ boot = "up"
  /\ pc[p] \in {"user", "begin"}
  /\ IF NoRoom
     THEN /\ pc' = [pc EXCEPT ![p] = "sleep"]
          /\ UNCHANGED outstanding
     ELSE /\ outstanding' = outstanding + 1
          /\ pc' = [pc EXCEPT ![p] = "op"]
  /\ UNCHANGED <<diskVars, lh, committing, tail, bufVars, boot, buf, written>>

\* kill() makes a sleeping process runnable; begin_op looks again.
KillSleeper(p) ==
  /\ pc[p] = "sleep"
  /\ pc' = [pc EXCEPT ![p] = "begin"]
  /\ UNCHANGED <<diskVars, logVars, bufVars, boot, buf, written>>

\* The call breads a block and changes it, staying within its OpBlocks.
Modify(p, b, v) ==
  /\ pc[p] = "op"
  /\ ~Held(b)
  /\ b \in written[p] \/ Cardinality(written[p]) < OpBlocks
  /\ cache' = [cache EXCEPT ![b] = v]
  /\ buf' = [buf EXCEPT ![p] = b]
  /\ pc' = [pc EXCEPT ![p] = "modified"]
  /\ UNCHANGED <<diskVars, logVars, pins, boot, written>>

\* The conditions under which log_write panics.
LogWritePanics ==
  \/ Len(lh) >= LOGSIZE
  \/ Len(lh) >= nlog - 1
  \/ outstanding < 1

\* Log absorption: the block is already part of the transaction.
Absorbed(b) == b \in Range(lh)

\* log_write, then brelse: record the block once and pin its buffer.
LogWrite(p) ==
  LET b == buf[p] IN
  /\ pc[p] = "modified"
  /\ ~LogWritePanics
  /\ IF Absorbed(b)
     THEN UNCHANGED <<lh, pins>>
     ELSE /\ lh' = Append(lh, b)
          /\ pins' = [pins EXCEPT ![b] = @ + 1]
  /\ written' = [written EXCEPT ![p] = @ \cup {b}]
  /\ buf' = [buf EXCEPT ![p] = NoBuf]
  /\ pc' = [pc EXCEPT ![p] = "op"]
  /\ UNCHANGED <<diskVars, outstanding, committing, tail, cache, boot>>

CommitBeginsHeadFirst == IF Len(lh) > 0 THEN "write_head" ELSE "finish"

\* Where commit() starts: an empty transaction writes nothing.
CommitBegins == IF Len(lh) > 0 THEN "write_log" ELSE "finish"

\* end_op up to the release of log.lock: the last one out commits.
EndOp(p) ==
  /\ pc[p] = "op"
  /\ ~committing
  /\ outstanding' = outstanding - 1
  /\ written' = [written EXCEPT ![p] = {}]
  /\ IF outstanding' = 0
     THEN /\ committing' = TRUE
          /\ tail' = 0
          /\ pc' = [pc EXCEPT ![p] = CommitBegins]
     ELSE /\ pc' = Wakeup([pc EXCEPT ![p] = "user"])
          /\ UNCHANGED <<committing, tail>>
  /\ UNCHANGED <<diskVars, lh, bufVars, boot, buf>>

-------------------------------------------------------------------------------
(* commit(): one action per disk write.                                    *)

\* write_log: copy the next modified block from the cache to the log.
WriteLog(p) ==
  /\ pc[p] = "write_log"
  /\ IF tail < Len(lh)
     THEN LET b == lh[tail + 1] IN
          /\ logblk' = [logblk EXCEPT ![tail + 1] = Bread(b)]
          /\ cache' = [cache EXCEPT ![b] = Bread(b)]
          /\ tail' = tail + 1
          /\ UNCHANGED pc
     ELSE /\ pc' = [pc EXCEPT ![p] = "write_head"]
          /\ UNCHANGED <<logblk, cache, tail>>
  /\ UNCHANGED <<home, dhead, lh, outstanding, committing, pins, boot, buf, written>>

\* write_head: the header block fits one sector; this write commits.
WriteHead(p) ==
  /\ pc[p] = "write_head"
  /\ dhead' = lh
  /\ tail' = 0
  /\ pc' = [pc EXCEPT ![p] = "install"]
  /\ UNCHANGED <<home, logblk, lh, outstanding, committing, bufVars, boot, buf, written>>

\* The effect of one round of install_trans on disk and cache.
InstallBlock ==
  LET b == lh[tail + 1]
      v == logblk[tail + 1]
  IN /\ home' = [home EXCEPT ![b] = v]
     /\ cache' = [cache EXCEPT ![b] = v]
     /\ tail' = tail + 1

\* install_trans(0): copy the next block from the log to its home, unpin it.
Install(p) ==
  /\ pc[p] = "install"
  /\ IF tail < Len(lh)
     THEN /\ InstallBlock
          /\ pins' = [pins EXCEPT ![lh[tail + 1]] = @ - 1]
          /\ UNCHANGED pc
     ELSE /\ pc' = [pc EXCEPT ![p] = "erase"]
          /\ UNCHANGED <<home, cache, tail, pins>>
  /\ UNCHANGED <<logblk, dhead, lh, outstanding, committing, boot, buf, written>>

\* log.lh.n = 0; write_head(): erase the transaction from the log.
Erase(p) ==
  /\ pc[p] = "erase"
  /\ lh' = <<>>
  /\ dhead' = <<>>
  /\ pc' = [pc EXCEPT ![p] = "finish"]
  /\ UNCHANGED <<home, logblk, outstanding, committing, tail, bufVars, boot, buf, written>>

\* The rest of end_op: committing = 0 and wakeup(&log).
Finish(p) ==
  /\ pc[p] = "finish"
  /\ committing' = FALSE
  /\ pc' = Wakeup([pc EXCEPT ![p] = "user"])
  /\ UNCHANGED <<diskVars, lh, outstanding, tail, bufVars, boot, buf, written>>

-------------------------------------------------------------------------------
(* Power failure and recovery.                                             *)

\* What a power failure can leave in the log area and at home: a block is
\* two sectors, so the block being written may be left half written.
Logging == tail < Len(lh) /\ \E p \in Procs : pc[p] = "write_log"

CrashLog == {logblk} \cup IF Logging THEN {[logblk EXCEPT ![tail + 1] = Torn]} ELSE {}

Installing == tail < Len(lh) /\ (boot = "install" \/ \E p \in Procs : pc[p] = "install")

CrashHome == {home} \cup IF Installing THEN {[home EXCEPT ![lh[tail + 1]] = Torn]} ELSE {}

Crash ==
  /\ logblk' \in CrashLog
  /\ home' \in CrashHome
  /\ lh' = <<>> /\ outstanding' = 0 /\ committing' = FALSE /\ tail' = 0
  /\ cache' = [b \in Blocks |-> NotCached]
  /\ pins' = [b \in Blocks |-> 0]
  /\ boot' = "read_head"
  /\ pc' = [p \in Procs |-> "user"]
  /\ buf' = [p \in Procs |-> NoBuf]
  /\ written' = [p \in Procs |-> {}]
  /\ UNCHANGED dhead

\* initlog, recover_from_log: read_head.
ReadHead ==
  /\ boot = "read_head"
  /\ lh' = dhead
  /\ tail' = 0
  /\ boot' = "install"
  /\ UNCHANGED <<diskVars, outstanding, committing, bufVars, procVars>>

\* install_trans(1): as Install, but the buffers are not pinned.
RecoverInstall ==
  /\ boot = "install"
  /\ IF tail < Len(lh)
     THEN InstallBlock /\ UNCHANGED boot
     ELSE boot' = "erase" /\ UNCHANGED <<home, cache, tail>>
  /\ UNCHANGED <<logblk, dhead, lh, outstanding, committing, pins, procVars>>

\* log.lh.n = 0; write_head(): clear the log.
RecoverErase ==
  /\ boot = "erase"
  /\ lh' = <<>>
  /\ dhead' = <<>>
  /\ boot' = "up"
  /\ UNCHANGED <<home, logblk, outstanding, committing, tail, bufVars, procVars>>

Recover == ReadHead \/ RecoverInstall \/ RecoverErase

-------------------------------------------------------------------------------
Commit(p) == WriteLog(p) \/ WriteHead(p) \/ Install(p) \/ Erase(p) \/ Finish(p)

Op(p) ==
  \/ LogWrite(p)
  \/ \E b \in Blocks, v \in Val : <<b, v>> \in Writes /\ Modify(p, b, v)

Next ==
  \/ \E p \in Procs : BeginOp(p) \/ KillSleeper(p) \/ Op(p) \/ EndOp(p) \/ Commit(p)
  \/ \E b \in Blocks : ReadBlock(b) \/ Recycle(b)
  \/ Recover
  \/ Crash

Spec == Init /\ [][Next]_vars

\* The steps a process takes once it runs.
Runs(p) == (pc[p] = "begin" /\ BeginOp(p)) \/ LogWrite(p) \/ Commit(p)

\* A running process takes its next step; a call writes finitely many
\* blocks, so it reaches its end_op; booting goes on.
Fairness ==
  /\ \A p \in Procs : WF_vars(Runs(p)) /\ SF_vars(EndOp(p))
  /\ WF_vars(Recover)

FairSpec == Spec /\ Fairness

-------------------------------------------------------------------------------
(* Properties.                                                             *)

TypeOK ==
  /\ home \in [Blocks -> Contents]
  /\ logblk \in [Slots -> Contents]
  /\ dhead \in Seq(Blocks)
  /\ lh \in Seq(Blocks)
  /\ outstanding \in Nat
  /\ committing \in BOOLEAN
  /\ tail \in Nat
  /\ cache \in [Blocks -> Contents \cup {NotCached}]
  /\ pins \in [Blocks -> Nat]
  /\ boot \in {"read_head", "install", "erase", "up"}
  /\ pc \in [Procs -> Pcs]
  /\ buf \in [Procs -> Blocks \cup {NoBuf}]
  /\ written \in [Procs -> SUBSET Blocks]

At(s) == \E p \in Procs : pc[p] = s

InOp == {p \in Procs : pc[p] \in {"op", "modified"}}

\* Home blocks h overlaid with the log blocks l that the header d names.
Overlay(h, l, d) ==
  [b \in Blocks |->
     IF b \in Range(d) THEN l[CHOOSE i \in 1..Len(d) : d[i] = b] ELSE h[b]]

\* The disk a reboot would come up with.
Recovered == Overlay(home, logblk, dhead)

\* The blocks as the system sees them; before the boot is over, the image
\* recovery is about to produce.
View == IF boot = "up" THEN [b \in Blocks |-> Bread(b)] ELSE Recovered

Disk == INSTANCE AtomicDisk WITH durable <- Recovered, mem <- View, active <- InOp

\* Crash atomicity (log.c:10-31): the log implements the atomic disk, so
\* whatever step a power failure hits, and however often recovery is itself
\* interrupted, a reboot sees all or nothing of each file system call.
AtomicDurability == Disk!Spec

\* A reader never sees a half-written block, and neither would a reboot.
NeverTorn == \A b \in Blocks : Recovered[b] # Torn /\ View[b] # Torn

\* log_write's and end_op's panics cannot be reached: the space begin_op
\* reserves is enough, and nobody is in a call while a commit runs.
NoPanic ==
  /\ \A p \in Procs : pc[p] = "modified" => ~LogWritePanics
  /\ InOp # {} => ~committing

\* A logged block is pinned exactly once, whoever logged it and however often,
\* until install_trans has put it home; no other block is: the commit finds
\* every block it must write in the cache and no buffer is lost to the pool.
Installed == IF At("install") \/ At("erase") THEN tail ELSE 0

PinnedUntilInstalled ==
  boot = "up" =>
    \A b \in Blocks :
      pins[b] = IF \E i \in (Installed + 1)..Len(lh) : lh[i] = b THEN 1 ELSE 0

\* Nobody sleeps in begin_op for ever: space or the end of the commit is
\* announced to every sleeper.
SleepersWake == \A p \in Procs : pc[p] = "sleep" ~> pc[p] # "sleep"
===============================================================================
