---------------------------------- MODULE Pipe ----------------------------------
(***************************************************************************)
(* kernel/pipe.c: processes share a pipe through descriptors of its two    *)
(* ends.  pi->lock is held from a call's acquire to its sleep or return;   *)
(* one action is one round of a loop under it, because a kill, which does  *)
(* not need pi->lock, may fall between two rounds.                         *)
(***************************************************************************)
EXTENDS Naturals, Sequences, FiniteSets

CONSTANTS
  Procs, Writers, Readers,   \* processes, and who has which end at first
  Killable,                  \* processes that others may kill
  Byte,
  None,
  PIPESIZE,
  UINT,                      \* 2^w for the width of nread and nwrite
  MaxN                       \* bound: bytes of one read or write call

ASSUME PipeAssumption ==
  /\ Writers \subseteq Procs /\ Readers \subseteq Procs
  /\ None \notin Procs
  /\ PIPESIZE \in Nat \ {0} /\ UINT \in Nat
  /\ PIPESIZE < UINT /\ UINT % PIPESIZE = 0

VARIABLES
  data, nread, nwrite, readopen, writeopen,  \* struct pipe
  lock,      \* the process holding pi->lock
  freed,     \* times kfree was called on the pipe
  wends,     \* processes with an open descriptor of the write end
  rends,     \* processes with an open descriptor of the read end
  killed,    \* processes with p->killed set
  pc,        \* where each process is
  left       \* bytes its call has yet to transfer

pipe == <<data, nread, nwrite, readopen, writeopen, freed>>
vars == <<pipe, lock, wends, rends, killed, pc, left>>

Init ==
  /\ data \in [0..PIPESIZE-1 -> Byte]     \* kalloc'ed memory is not cleared
  /\ nread = 0 /\ nwrite = 0
  /\ readopen = TRUE /\ writeopen = TRUE
  /\ lock = None /\ freed = 0
  /\ wends = Writers /\ rends = Readers
  /\ killed = {}
  /\ pc = [p \in Procs |-> "idle"]
  /\ left = [p \in Procs |-> 0]

EmptyPipe == nread = nwrite

FullWithoutWrap == nwrite = nread + PIPESIZE

\* pi->nwrite == pi->nread + PIPESIZE, in unsigned arithmetic.
FullPipe == nwrite = (nread + PIPESIZE) % UINT

\* f with the processes sleeping at s made runnable, competing for pi->lock.
Wake(f, s) ==
  [p \in Procs |->
     IF f[p] # s THEN f[p] ELSE IF s = "wsleep" THEN "wwoken" ELSE "rwoken"]

-------------------------------------------------------------------------------
(* pipewrite.                                                              *)

StartWrite(p, n) ==
  /\ pc[p] = "idle" /\ p \in wends \ killed
  /\ left' = [left EXCEPT ![p] = n]
  /\ pc' = [pc EXCEPT ![p] = "wwoken"]
  /\ UNCHANGED <<pipe, lock, wends, rends, killed>>

\* acquire(&pi->lock), at the start of a call or when sleep returns.
Acquire(p) ==
  /\ pc[p] \in {"wwoken", "rwoken"}
  /\ lock = None
  /\ lock' = p
  /\ pc' = [pc EXCEPT ![p] = IF @ = "wwoken" THEN "write" ELSE "readwait"]
  /\ UNCHANGED <<pipe, wends, rends, killed, left>>

\* A round begins: with readopen == 0 || killed(pr) the writer gives up,
\* without a wakeup.
WriteCheck(p) ==
  /\ pc[p] = "write" /\ left[p] > 0
  /\ IF ~readopen \/ p \in killed
     THEN lock' = None /\ pc' = [pc EXCEPT ![p] = "idle"]
     ELSE pc' = [pc EXCEPT ![p] = "store"] /\ UNCHANGED lock
  /\ UNCHANGED <<pipe, wends, rends, killed, left>>

WriteSleepSilently(p) ==
  /\ pc[p] = "store" /\ FullPipe
  /\ pc' = [pc EXCEPT ![p] = "wsleep"]
  /\ lock' = None
  /\ UNCHANGED <<pipe, wends, rends, killed, left>>

\* Full: wakeup(&pi->nread); sleep(&pi->nwrite, &pi->lock).
WriteSleep(p) ==
  /\ pc[p] = "store" /\ FullPipe
  /\ pc' = Wake([pc EXCEPT ![p] = "wsleep"], "rsleep")
  /\ lock' = None
  /\ UNCHANGED <<pipe, wends, rends, killed, left>>

WriteByte(p, b) ==
  /\ pc[p] = "store" /\ ~FullPipe
  /\ data' = [data EXCEPT ![nwrite % PIPESIZE] = b]
  /\ nwrite' = (nwrite + 1) % UINT
  /\ left' = [left EXCEPT ![p] = @ - 1]
  /\ pc' = [pc EXCEPT ![p] = "write"]
  /\ UNCHANGED <<nread, readopen, writeopen, freed, lock, wends, rends, killed>>

\* All written, or copyin failed: wakeup(&pi->nread) and return.
WriteReturn(p) ==
  /\ (pc[p] = "write" /\ left[p] = 0) \/ (pc[p] = "store" /\ ~FullPipe)
  /\ pc' = Wake([pc EXCEPT ![p] = "idle"], "rsleep")
  /\ lock' = None
  /\ UNCHANGED <<pipe, wends, rends, killed, left>>

-------------------------------------------------------------------------------
(* piperead.                                                               *)

StartRead(p, n) ==
  /\ pc[p] = "idle" /\ p \in rends \ killed
  /\ left' = [left EXCEPT ![p] = n]
  /\ pc' = [pc EXCEPT ![p] = "rwoken"]
  /\ UNCHANGED <<pipe, lock, wends, rends, killed>>

\* A round of the waiting loop, while the pipe is empty and may still be
\* written: give up when killed, else on to sleep; or out of the loop.
ReadWait(p) ==
  /\ pc[p] = "readwait"
  /\ IF EmptyPipe /\ writeopen
     THEN IF p \in killed
          THEN lock' = None /\ pc' = [pc EXCEPT ![p] = "idle"]
          ELSE pc' = [pc EXCEPT ![p] = "readsleep"] /\ UNCHANGED lock
     ELSE pc' = [pc EXCEPT ![p] = "read"] /\ UNCHANGED lock
  /\ UNCHANGED <<pipe, wends, rends, killed, left>>

\* sleep(&pi->nread, &pi->lock).
ReadSleep(p) ==
  /\ pc[p] = "readsleep"
  /\ pc' = [pc EXCEPT ![p] = "rsleep"]
  /\ lock' = None
  /\ UNCHANGED <<pipe, wends, rends, killed, left>>

\* Take a byte and copy it out; if copyout fails the loop ends with the
\* byte gone.
ReadByte(p, ok) ==
  /\ pc[p] = "read" /\ left[p] > 0 /\ ~EmptyPipe
  /\ nread' = (nread + 1) % UINT
  /\ left' = [left EXCEPT ![p] = IF ok THEN @ - 1 ELSE 0]
  /\ UNCHANGED <<data, nwrite, readopen, writeopen, freed, lock, wends, rends, killed, pc>>

\* Done, or nothing left: wakeup(&pi->nwrite) and return.
ReadReturn(p) ==
  /\ pc[p] = "read" /\ (left[p] = 0 \/ EmptyPipe)
  /\ pc' = Wake([pc EXCEPT ![p] = "idle"], "wsleep")
  /\ lock' = None
  /\ UNCHANGED <<pipe, wends, rends, killed, left>>

-------------------------------------------------------------------------------
(* Closing and killing.                                                    *)

\* fileclose: f->ref drops; the last descriptor of an end goes on to pipeclose.
CloseWriteEnd(p) ==
  /\ pc[p] = "idle" /\ p \in wends
  /\ wends' = wends \ {p}
  /\ pc' = IF wends' = {} THEN [pc EXCEPT ![p] = "closew"] ELSE pc
  /\ UNCHANGED <<pipe, lock, rends, killed, left>>

CloseReadEnd(p) ==
  /\ pc[p] = "idle" /\ p \in rends
  /\ rends' = rends \ {p}
  /\ pc' = IF rends' = {} THEN [pc EXCEPT ![p] = "closer"] ELSE pc
  /\ UNCHANGED <<pipe, lock, wends, killed, left>>

PipeCloseFreesFirst(p) ==
  /\ pc[p] \in {"closew", "closer"} /\ lock = None
  /\ writeopen' = (writeopen /\ pc[p] # "closew")
  /\ readopen' = (readopen /\ pc[p] # "closer")
  /\ pc' = Wake([pc EXCEPT ![p] = "idle"], IF pc[p] = "closew" THEN "rsleep" ELSE "wsleep")
  /\ freed' = IF readopen' /\ writeopen' THEN freed ELSE freed + 1
  /\ UNCHANGED <<data, nread, nwrite, lock, wends, rends, killed, left>>

\* pipeclose: close one end and wake the other; kfree when both are closed.
PipeClose(p) ==
  /\ pc[p] \in {"closew", "closer"} /\ lock = None
  /\ writeopen' = (writeopen /\ pc[p] # "closew")
  /\ readopen' = (readopen /\ pc[p] # "closer")
  /\ pc' = Wake([pc EXCEPT ![p] = "idle"], IF pc[p] = "closew" THEN "rsleep" ELSE "wsleep")
  /\ freed' = IF readopen' \/ writeopen' THEN freed ELSE freed + 1
  /\ UNCHANGED <<data, nread, nwrite, lock, wends, rends, killed, left>>

\* kill: set p->killed and end a sleep.
Kill(p) ==
  /\ p \in Killable \ killed
  /\ killed' = killed \cup {p}
  /\ pc' = [pc EXCEPT ![p] = CASE @ = "wsleep" -> "wwoken" [] @ = "rsleep" -> "rwoken" [] OTHER -> @]
  /\ UNCHANGED <<pipe, lock, wends, rends, left>>

-------------------------------------------------------------------------------
Next ==
  \E p \in Procs :
    \/ \E n \in 0..MaxN : StartWrite(p, n) \/ StartRead(p, n)
    \/ Acquire(p)
    \/ WriteCheck(p) \/ WriteSleep(p) \/ WriteReturn(p)
    \/ \E b \in Byte : WriteByte(p, b)
    \/ ReadWait(p) \/ ReadSleep(p) \/ ReadReturn(p)
    \/ \E ok \in BOOLEAN : ReadByte(p, ok)
    \/ CloseWriteEnd(p) \/ CloseReadEnd(p) \/ PipeClose(p)
    \/ Kill(p)

Spec == Init /\ [][Next]_vars

-------------------------------------------------------------------------------
Pcs == {"idle", "wwoken", "write", "store", "wsleep",
        "rwoken", "readwait", "readsleep", "rsleep", "read",
        "closew", "closer"}

\* The types of the variables, checked together with NoUseAfterFree.
TypeOK ==
  /\ data \in [0..PIPESIZE-1 -> Byte]
  /\ nread \in 0..UINT-1 /\ nwrite \in 0..UINT-1
  /\ readopen \in BOOLEAN /\ writeopen \in BOOLEAN
  /\ lock \in Procs \cup {None}
  /\ freed \in 0..1
  /\ wends \subseteq Procs /\ rends \subseteq Procs /\ killed \subseteq Procs
  /\ pc \in [Procs -> Pcs]
  /\ left \in [Procs -> Nat]

\* The bytes in the pipe, oldest first.
Used == (UINT + nwrite - nread) % UINT
Queue == [k \in 1..Used |-> data[((nread + k - 1) % UINT) % PIPESIZE]]

Fifo == INSTANCE ByteFifo WITH queue <- Queue, Capacity <- PIPESIZE

\* The ring buffer is a bounded first-in first-out queue, also when nread and
\* nwrite wrap around: no byte is overwritten, reordered or read twice.
FifoOrder == Fifo!Spec

\* A process uses the pipe only while it is allocated, and it is freed once:
\* neither a sleeper nor a process about to take pi->lock outlives kfree.
NoUseAfterFree ==
  /\ TypeOK
  /\ freed <= 1
  /\ freed = 1 => \A p \in Procs : pc[p] = "idle"

\* A writer killed between two bytes has left its call without a wakeup.
GaveUp(q) ==
  q \in killed \cap Writers /\ left[q] > 0 /\ pc[q] \in {"idle", "closew", "closer"}

\* A writer sleeps only while the pipe is full and read, and a reader only
\* while it is empty ("DOC: pipe-empty"), or else somebody who will wake the
\* sleeper holds pi->lock; and no reader sleeps once the write end is closed.
\* The exception is a killed writer, which wakes nobody (pipe.c:84): while
\* others hold the write end, a reader may sleep on the bytes it stored until
\* the next write, or the last close.
SleepersNotForgotten ==
  \A p \in Procs :
    /\ pc[p] = "wsleep" =>
         (FullPipe /\ readopen) \/ \E q \in Procs : pc[q] = "read"
    /\ pc[p] = "rsleep" =>
         /\ writeopen
         /\ \/ EmptyPipe
            \/ \E q \in Procs : pc[q] \in {"write", "store"} \/ GaveUp(q)
===============================================================================
