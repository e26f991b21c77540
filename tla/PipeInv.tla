-------------------------------- MODULE PipeInv ---------------------------------
(***************************************************************************)
(* The inductive invariant behind the properties of Pipe.                  *)
(***************************************************************************)
EXTENDS Pipe

\* Where a process is in pipewrite, in piperead, and under pi->lock.
WritePcs == {"wwoken", "write", "store", "wsleep"}
ReadPcs  == {"rwoken", "readwait", "readsleep", "rsleep", "read"}
LockPcs  == {"write", "store", "readwait", "readsleep", "read"}

\* pi->lock is held exactly by the process between acquire and sleep or return.
LockHeld == \A p \in Procs : pc[p] \in LockPcs <=> lock = p

\* A call on an end is made through an open descriptor of that end.
CallsOnOpenEnds ==
  \A p \in Procs : /\ pc[p] \in WritePcs => p \in wends
                   /\ pc[p] \in ReadPcs => p \in rends

\* An end is open while it has a descriptor, or until the process that closed
\* its last one has run pipeclose; there is one such process.
EndsOpen ==
  /\ wends # {} => writeopen
  /\ rends # {} => readopen
  /\ \A p \in Procs : /\ pc[p] = "closew" => wends = {} /\ writeopen
                      /\ pc[p] = "closer" => rends = {} /\ readopen
  /\ \A p, q \in Procs : /\ pc[p] = "closew" /\ pc[q] = "closew" => p = q
                         /\ pc[p] = "closer" /\ pc[q] = "closer" => p = q

\* Only writers ever have the write end.
OnlyWriters == wends \subseteq Writers

\* What a process tested under pi->lock still holds when it acts on it: the read
\* end is open when a byte is stored, and the pipe is empty and its write end
\* open when a reader goes to sleep.
ChecksHold ==
  \A p \in Procs :
    /\ pc[p] = "store" => readopen /\ left[p] > 0
    /\ pc[p] = "readsleep" => EmptyPipe /\ writeopen

\* The pipe is freed when both ends are closed.
FreedClosed == freed = 1 => ~readopen /\ ~writeopen

\* The ring never holds more than PIPESIZE bytes.
RingBound == Used <= PIPESIZE

\* The invariant that every step preserves; the theorems rest on it.
IInv ==
  /\ TypeOK
  /\ LockHeld
  /\ CallsOnOpenEnds
  /\ EndsOpen
  /\ OnlyWriters
  /\ ChecksHold
  /\ FreedClosed
  /\ RingBound
  /\ SleepersNotForgotten
===============================================================================
