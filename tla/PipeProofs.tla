------------------------------- MODULE PipeProofs -------------------------------
(***************************************************************************)
(* Proofs about Pipe, for any processes, any size of the pipe and of uint. *)
(***************************************************************************)
EXTENDS PipeInv, Integers, TLAPS

\* data with nread and nwrite, two uint that wrap around, is a ring.
R == INSTANCE RingLemmas WITH U <- UINT, S <- PIPESIZE, T <- Byte

\* What the code's constants satisfy: PIPESIZE is positive and smaller than
\* the range of uint.
LEMMA Sizes == PIPESIZE \in Nat \ {0} /\ UINT \in Nat \ {0} /\ PIPESIZE < UINT
BY PipeAssumption

\* PIPESIZE divides the range of uint, so the ring lemmas apply.
LEMMA PipeRing == R!Ring
BY Sizes, PipeAssumption DEF R!Ring

\* nwrite - nread is the number of bytes in the pipe, and the tests for empty
\* and full in piperead and pipewrite are tests on that number.
LEMMA UsedValue ==
  ASSUME nread \in 0..UINT-1, nwrite \in 0..UINT-1
  PROVE  /\ Used = R!Distance(nwrite, nread)
         /\ Used \in 0..UINT-1
         /\ EmptyPipe <=> Used = 0
         /\ FullPipe <=> Used = PIPESIZE
<1>1. Used = R!Distance(nwrite, nread) /\ Used \in 0..UINT-1
  BY PipeRing, R!DistanceMod DEF Used
<1>2. PIPESIZE \in 0..UINT
  BY Sizes
<1>3. (nread + PIPESIZE) % UINT = R!Along(nread, PIPESIZE)
  BY Zenon, <1>2, PipeRing, R!AlongMod
<1>4. FullPipe <=> nwrite = R!Along(nread, PIPESIZE)
  BY <1>3 DEF FullPipe
<1> QED
  BY <1>1, <1>2, <1>4, Sizes DEF R!Distance, R!Along, EmptyPipe

\* The bytes between nread and nwrite are the queue that Fifo sees.
LEMMA QueueWindow ==
  ASSUME TypeOK
  PROVE  /\ Used \in Nat
         /\ R!Buffer(data)
         /\ Queue = R!Window(data, nread, Used)
         /\ Queue \in Seq(Byte) /\ Len(Queue) = Used
<1>0. nread \in 0..UINT-1 /\ nwrite \in 0..UINT-1 /\ R!Buffer(data)
  BY DEF TypeOK, R!Buffer
<1>1. Used \in 0..UINT /\ Used \in Nat
  BY <1>0, UsedValue, Sizes
<1>2. Queue = R!Window(data, nread, Used)
  <2>1. R!Window(data, nread, Used) = R!ModWindow(data, nread, Used)
    BY Zenon, <1>0, <1>1, PipeRing, R!WindowMod
  <2> QED
    BY Zenon, <2>1 DEF Queue, R!ModWindow
<1>3. R!Window(data, nread, Used) \in Seq(Byte) /\ Len(R!Window(data, nread, Used)) = Used
  BY <1>0, <1>1, PipeRing, R!WindowSeq
<1> QED
  BY <1>0, <1>1, <1>2, <1>3

\* When the test for a full pipe fails there is room for a byte.
LEMMA RoomLeft ==
  ASSUME TypeOK, RingBound, ~FullPipe
  PROVE  Used < PIPESIZE
BY UsedValue, Sizes DEF TypeOK, RingBound

\* nread++ and nwrite++ go one place further along the ring.
LEMMA NextCounter ==
  ASSUME NEW n \in 0..UINT-1
  PROVE  (n + 1) % UINT = R!Along(n, 1) /\ R!Along(n, 1) \in 0..UINT-1
<1>1. 1 \in 0..UINT
  BY Sizes
<1> QED
  BY Zenon, <1>1, PipeRing, R!AlongMod

\* Storing a byte in pipewrite appends it to the queue and overwrites
\* nothing.
LEMMA PutQueue ==
  ASSUME TypeOK, TypeOK', RingBound, NEW p, NEW b \in Byte, WriteByte(p, b)
  PROVE  Used' = Used + 1 /\ Used < PIPESIZE /\ Queue' = Append(Queue, b)
<1>1. nread \in 0..UINT-1 /\ nwrite \in 0..UINT-1 /\ nwrite' \in 0..UINT-1
  BY DEF TypeOK
<1>2. Used = R!Distance(nwrite, nread) /\ Used \in 0..PIPESIZE-1
  BY <1>1, RoomLeft, UsedValue, Sizes DEF WriteByte
<1>3. Used' = Used + 1
  <2>1. Used' = R!Distance(nwrite', nread)
    BY <1>1, PipeRing, R!DistanceMod DEF Used, WriteByte
  <2>2. nwrite' = R!Along(nwrite, 1)
    BY <1>1, NextCounter DEF WriteByte
  <2> QED
    BY <1>1, <1>2, <2>1, <2>2, Sizes DEF R!Distance, R!Along
<1>4. R!Put(data', data, nread, Used, b)
  <2>1. nwrite = R!Along(nread, Used)
    BY Zenon, <1>1, <1>2, PipeRing, R!AlongDistance
  <2> QED
    BY Zenon, <2>1 DEF R!Put, WriteByte
<1>5. R!Window(data', nread, Used + 1) = Append(R!Window(data, nread, Used), b)
  <2>1. R!Buffer(data)
    BY QueueWindow
  <2> QED
    BY <1>1, <1>2, <1>4, <2>1, PipeRing, R!WindowAppend
<1>6. Queue' = R!Window(data', nread, Used + 1)
  <2>1. Used + 1 \in 0..UINT
    BY <1>2, Sizes
  <2>2. R!Window(data', nread, Used + 1) = R!ModWindow(data', nread, Used + 1)
    BY Zenon, <1>1, <2>1, PipeRing, R!WindowMod
  <2> QED
    BY Zenon, <1>3, <2>2 DEF Queue, R!ModWindow, WriteByte
<1>7. Used < PIPESIZE
  BY <1>2, Sizes
<1>8. Queue = R!Window(data, nread, Used)
  BY QueueWindow
<1> QED
  BY Zenon, <1>3, <1>5, <1>6, <1>7, <1>8

\* Reading a byte in piperead, also one that copyout then fails on, takes the
\* first byte of the queue.
LEMMA GetQueue ==
  ASSUME TypeOK, TypeOK', NEW p, NEW ok, ReadByte(p, ok)
  PROVE  Used' = Used - 1 /\ Queue' = Tail(Queue) /\ Queue # <<>>
<1>1. nread \in 0..UINT-1 /\ nwrite \in 0..UINT-1 /\ nread' \in 0..UINT-1
  BY DEF TypeOK
<1>2. Used = R!Distance(nwrite, nread) /\ Used \in 1..UINT
  BY <1>1, UsedValue, Sizes DEF ReadByte
<1>3. nread' = R!Along(nread, 1)
  BY <1>1, NextCounter DEF ReadByte
<1>4. Used' = Used - 1
  <2>1. Used' = R!Distance(nwrite, nread')
    BY <1>1, PipeRing, R!DistanceMod DEF Used, ReadByte
  <2> QED
    BY <1>1, <1>2, <1>3, <2>1, Sizes DEF R!Distance, R!Along
<1>5. R!Window(data, nread', Used - 1) = Tail(R!Window(data, nread, Used))
  BY <1>1, <1>2, <1>3, QueueWindow, PipeRing, R!WindowTail
<1>6. Queue' = R!Window(data, nread', Used - 1)
  <2>1. Used - 1 \in 0..UINT
    BY <1>2, Sizes
  <2>2. R!Window(data, nread', Used - 1) = R!ModWindow(data, nread', Used - 1)
    BY Zenon, <1>1, <2>1, PipeRing, R!WindowMod
  <2> QED
    BY Zenon, <1>4, <2>2 DEF Queue, R!ModWindow, ReadByte
<1> QED
  BY <1>2, <1>4, <1>5, <1>6, QueueWindow

\* pipealloc establishes the invariant.
LEMMA InitInv == Init => IInv
<1> SUFFICES ASSUME Init PROVE IInv
  OBVIOUS
<1>1. TypeOK
  BY Sizes, PipeAssumption DEF Init, TypeOK, Pcs
<1>2. RingBound
  BY <1>1, UsedValue, Sizes DEF RingBound, Init, TypeOK, EmptyPipe
<1> QED
  BY <1>1, <1>2, PipeAssumption
     DEF Init, IInv, LockHeld, CallsOnOpenEnds, EndsOpen, OnlyWriters, ChecksHold,
         FreedClosed, SleepersNotForgotten, GaveUp, WritePcs, ReadPcs, LockPcs

\* The part of the invariant that does not look into the ring.
Control ==
  /\ LockHeld
  /\ CallsOnOpenEnds
  /\ EndsOpen
  /\ OnlyWriters
  /\ ChecksHold
  /\ FreedClosed

\* A step that leaves the counters alone leaves the ring as full as it was.
LEMMA SameRing ==
  ASSUME RingBound, UNCHANGED <<nread, nwrite>>
  PROVE  RingBound' /\ (FullPipe' <=> FullPipe) /\ (EmptyPipe' <=> EmptyPipe)
BY SMTT(30) DEF RingBound, Used, FullPipe, EmptyPipe

\* Every step of pipewrite, piperead, pipeclose, kill and the closing of
\* descriptors preserves the invariant.
LEMMA NextInv == IInv /\ [Next]_vars => IInv'
<1> SUFFICES ASSUME IInv, [Next]_vars PROVE IInv'
  OBVIOUS
<1> USE DEF IInv
<1>1. CASE UNCHANGED vars
  <2>1. TypeOK'
    BY <1>1 DEF vars, pipe, TypeOK
  <2>2. Control'
    BY <1>1, SameRing
       DEF vars, pipe, Control, LockHeld, CallsOnOpenEnds, EndsOpen, OnlyWriters,
           ChecksHold, FreedClosed
  <2>3. RingBound' /\ SleepersNotForgotten'
    BY <1>1, SameRing DEF vars, pipe, SleepersNotForgotten, GaveUp
  <2> QED
    BY <2>1, <2>2, <2>3 DEF Control
<1>2. ASSUME NEW p \in Procs, NEW n \in 0..MaxN, StartWrite(p, n)
      PROVE  IInv'
  <2>0. /\ pc' \in [Procs -> Pcs]
        /\ \A q \in Procs : pc'[q] =
             IF q = p THEN "wwoken" ELSE pc[q]
    BY <1>2 DEF StartWrite, TypeOK, Wake, Pcs
  <2>1. TypeOK'
    BY <1>2, <2>0 DEF StartWrite, pipe, TypeOK, Pcs
  <2>2. Control'
    BY <1>2, <2>0, SameRing, PipeAssumption
       DEF StartWrite, pipe, TypeOK, Control, LockHeld, CallsOnOpenEnds, EndsOpen,
           OnlyWriters, ChecksHold, FreedClosed, WritePcs, ReadPcs, LockPcs
  <2>3. RingBound' /\ SleepersNotForgotten'
    BY <1>2, <2>0, <2>1, SameRing
       DEF StartWrite, pipe, SleepersNotForgotten, GaveUp, TypeOK, LockHeld, CallsOnOpenEnds,
           EndsOpen, OnlyWriters, ChecksHold, LockPcs, ReadPcs, WritePcs
  <2> QED
    BY <2>1, <2>2, <2>3 DEF Control
<1>3. ASSUME NEW p \in Procs, NEW n \in 0..MaxN, StartRead(p, n)
      PROVE  IInv'
  <2>0. /\ pc' \in [Procs -> Pcs]
        /\ \A q \in Procs : pc'[q] =
             IF q = p THEN "rwoken" ELSE pc[q]
    BY <1>3 DEF StartRead, TypeOK, Wake, Pcs
  <2>1. TypeOK'
    BY <1>3, <2>0 DEF StartRead, pipe, TypeOK, Pcs
  <2>2. Control'
    BY <1>3, <2>0, SameRing, PipeAssumption
       DEF StartRead, pipe, TypeOK, Control, LockHeld, CallsOnOpenEnds, EndsOpen,
           OnlyWriters, ChecksHold, FreedClosed, WritePcs, ReadPcs, LockPcs
  <2>3. RingBound' /\ SleepersNotForgotten'
    BY <1>3, <2>0, <2>1, SameRing
       DEF StartRead, pipe, SleepersNotForgotten, GaveUp, TypeOK, LockHeld, CallsOnOpenEnds,
           EndsOpen, OnlyWriters, ChecksHold, LockPcs, ReadPcs, WritePcs
  <2> QED
    BY <2>1, <2>2, <2>3 DEF Control
<1>4. ASSUME NEW p \in Procs, Acquire(p)
      PROVE  IInv'
  <2>0. /\ pc' \in [Procs -> Pcs]
        /\ \A q \in Procs : pc'[q] =
             IF q = p THEN (IF pc[p] = "wwoken" THEN "write" ELSE "readwait") ELSE pc[q]
    BY <1>4 DEF Acquire, TypeOK, Wake, Pcs
  <2>1. TypeOK'
    BY <1>4, <2>0 DEF Acquire, pipe, TypeOK, Pcs
  <2>2. Control'
    BY <1>4, <2>0, SameRing, PipeAssumption
       DEF Acquire, pipe, TypeOK, Control, LockHeld, CallsOnOpenEnds, EndsOpen,
           OnlyWriters, ChecksHold, FreedClosed, WritePcs, ReadPcs, LockPcs
  <2>3. RingBound' /\ SleepersNotForgotten'
    BY <1>4, <2>0, <2>1, SameRing
       DEF Acquire, pipe, SleepersNotForgotten, GaveUp, TypeOK, LockHeld, CallsOnOpenEnds,
           EndsOpen, OnlyWriters, ChecksHold, LockPcs, ReadPcs, WritePcs
  <2> QED
    BY <2>1, <2>2, <2>3 DEF Control
<1>5. ASSUME NEW p \in Procs, WriteCheck(p)
      PROVE  IInv'
  <2>0. /\ pc' \in [Procs -> Pcs]
        /\ \A q \in Procs : pc'[q] =
             IF q = p THEN (IF ~readopen \/ p \in killed THEN "idle" ELSE "store")
             ELSE pc[q]
    BY <1>5 DEF WriteCheck, TypeOK, Wake, Pcs
  <2>1. TypeOK'
    BY <1>5, <2>0 DEF WriteCheck, pipe, TypeOK, Pcs
  <2>2. Control'
    BY SMTT(30), <1>5, <2>0, SameRing, PipeAssumption
       DEF WriteCheck, pipe, TypeOK, Control, LockHeld, CallsOnOpenEnds, EndsOpen,
           OnlyWriters, ChecksHold, FreedClosed, WritePcs, ReadPcs, LockPcs
  <2>3. RingBound' /\ SleepersNotForgotten'
    BY <1>5, <2>0, <2>1, SameRing
       DEF WriteCheck, pipe, SleepersNotForgotten, GaveUp, TypeOK, LockHeld, CallsOnOpenEnds,
           EndsOpen, OnlyWriters, ChecksHold, LockPcs, ReadPcs, WritePcs
  <2> QED
    BY <2>1, <2>2, <2>3 DEF Control
<1>6. ASSUME NEW p \in Procs, WriteSleep(p)
      PROVE  IInv'
  <2>0. /\ pc' \in [Procs -> Pcs]
        /\ \A q \in Procs : pc'[q] =
             IF q = p THEN "wsleep" ELSE IF pc[q] = "rsleep" THEN "rwoken" ELSE pc[q]
    BY <1>6 DEF WriteSleep, TypeOK, Wake, Pcs
  <2>1. TypeOK'
    BY Zenon, <1>6, <2>0 DEF WriteSleep, pipe, TypeOK, Pcs
  <2>2. Control'
    BY ZenonT(30), <1>6, <2>0, SameRing, PipeAssumption
       DEF WriteSleep, pipe, TypeOK, Control, LockHeld, CallsOnOpenEnds, EndsOpen,
           OnlyWriters, ChecksHold, FreedClosed, WritePcs, ReadPcs, LockPcs
  <2>3. RingBound' /\ SleepersNotForgotten'
    BY ZenonT(30), <1>6, <2>0, <2>1, SameRing
       DEF WriteSleep, pipe, SleepersNotForgotten, GaveUp, TypeOK, LockHeld, CallsOnOpenEnds,
           EndsOpen, OnlyWriters, ChecksHold, LockPcs, ReadPcs, WritePcs
  <2> QED
    BY <2>1, <2>2, <2>3 DEF Control
<1>7. ASSUME NEW p \in Procs, WriteReturn(p)
      PROVE  IInv'
  <2>0. /\ pc' \in [Procs -> Pcs]
        /\ \A q \in Procs : pc'[q] =
             IF q = p THEN "idle" ELSE IF pc[q] = "rsleep" THEN "rwoken" ELSE pc[q]
    BY <1>7 DEF WriteReturn, TypeOK, Wake, Pcs
  <2>1. TypeOK'
    BY Zenon, <1>7, <2>0 DEF WriteReturn, pipe, TypeOK, Pcs
  <2>2. Control'
    <3>1. lock = p /\ lock' = None /\ \A q \in Procs : pc[q] \in LockPcs => q = p
      BY <1>7 DEF WriteReturn, LockHeld, LockPcs
    <3>2. /\ pc[p] \in {"write", "store"}
          /\ nread' = nread /\ nwrite' = nwrite
          /\ readopen' = readopen /\ writeopen' = writeopen
          /\ freed' = freed /\ wends' = wends /\ rends' = rends /\ left' = left
      BY <1>7 DEF WriteReturn, pipe
    <3>3. LockHeld' /\ CallsOnOpenEnds'
      BY <2>0, <3>1, <3>2, PipeAssumption
         DEF LockHeld, CallsOnOpenEnds, LockPcs, WritePcs, ReadPcs
    <3>4. EndsOpen' /\ OnlyWriters' /\ FreedClosed'
      BY <2>0, <3>2 DEF EndsOpen, OnlyWriters, FreedClosed
    <3>5. ChecksHold'
      BY <2>0, <3>2, SameRing DEF ChecksHold
    <3> QED
      BY <3>3, <3>4, <3>5 DEF Control
  <2>3. RingBound' /\ SleepersNotForgotten'
    BY ZenonT(30), <1>7, <2>0, <2>1, SameRing
       DEF WriteReturn, pipe, SleepersNotForgotten, GaveUp, TypeOK, LockHeld, CallsOnOpenEnds,
           EndsOpen, OnlyWriters, ChecksHold, LockPcs, ReadPcs, WritePcs
  <2> QED
    BY <2>1, <2>2, <2>3 DEF Control
<1>8. ASSUME NEW p \in Procs, NEW b \in Byte, WriteByte(p, b)
      PROVE  IInv'
  <2>0. /\ pc' \in [Procs -> Pcs]
        /\ \A q \in Procs : pc'[q] =
             IF q = p THEN "write" ELSE pc[q]
    BY <1>8 DEF WriteByte, TypeOK, Pcs
  <2>1. TypeOK'
    <3>1. nwrite' \in 0..UINT-1
      BY <1>8, NextCounter DEF WriteByte, TypeOK
    <3>2. data' \in [0..PIPESIZE-1 -> Byte]
      BY Zenon, <1>8 DEF WriteByte, TypeOK
    <3>3. left' \in [Procs -> Nat]
      BY <1>8 DEF WriteByte, TypeOK, ChecksHold
    <3> QED
      BY <1>8, <2>0, <3>1, <3>2, <3>3 DEF WriteByte, TypeOK
  <2>2. \A q \in Procs : pc[q] # "readsleep"
    BY <1>8 DEF WriteByte, LockHeld, LockPcs
  <2>3. Control'
    BY <1>8, <2>0, <2>2
       DEF WriteByte, TypeOK, Control, LockHeld, CallsOnOpenEnds, EndsOpen, OnlyWriters,
           ChecksHold, FreedClosed, WritePcs, ReadPcs, LockPcs
  <2>5. Used' = Used + 1 /\ Used < PIPESIZE
    BY <1>8, <2>1, PutQueue
  <2>6. RingBound'
    BY <2>5, Sizes, QueueWindow DEF RingBound
  <2>7. ~FullPipe /\ \A q \in Procs : pc[q] # "read"
    BY <1>8 DEF WriteByte, LockHeld, LockPcs
  <2>8. SleepersNotForgotten'
    BY <1>8, <2>0, <2>7 DEF WriteByte, SleepersNotForgotten, GaveUp, TypeOK
  <2> QED
    BY <2>1, <2>3, <2>6, <2>8 DEF Control
<1>9. ASSUME NEW p \in Procs, ReadWait(p)
      PROVE  IInv'
  <2>0. /\ pc' \in [Procs -> Pcs]
        /\ \A q \in Procs : pc'[q] =
             IF q = p
             THEN (IF EmptyPipe /\ writeopen
                   THEN IF p \in killed THEN "idle" ELSE "readsleep" ELSE "read")
             ELSE pc[q]
    BY <1>9 DEF ReadWait, TypeOK, Wake, Pcs
  <2>1. TypeOK'
    BY <1>9, <2>0 DEF ReadWait, pipe, TypeOK, Pcs
  <2>2. Control'
    BY <1>9, <2>0, SameRing, PipeAssumption
       DEF ReadWait, pipe, TypeOK, Control, LockHeld, CallsOnOpenEnds, EndsOpen,
           OnlyWriters, ChecksHold, FreedClosed, WritePcs, ReadPcs, LockPcs
  <2>3. RingBound' /\ SleepersNotForgotten'
    BY <1>9, <2>0, <2>1, SameRing
       DEF ReadWait, pipe, SleepersNotForgotten, GaveUp, TypeOK, LockHeld, CallsOnOpenEnds,
           EndsOpen, OnlyWriters, ChecksHold, LockPcs, ReadPcs, WritePcs
  <2> QED
    BY <2>1, <2>2, <2>3 DEF Control
<1>10. ASSUME NEW p \in Procs, ReadSleep(p)
      PROVE  IInv'
  <2>0. /\ pc' \in [Procs -> Pcs]
        /\ \A q \in Procs : pc'[q] =
             IF q = p THEN "rsleep" ELSE pc[q]
    BY <1>10 DEF ReadSleep, TypeOK, Wake, Pcs
  <2>1. TypeOK'
    BY <1>10, <2>0 DEF ReadSleep, pipe, TypeOK, Pcs
  <2>2. Control'
    BY SMTT(30), <1>10, <2>0, SameRing, PipeAssumption
       DEF ReadSleep, pipe, TypeOK, Control, LockHeld, CallsOnOpenEnds, EndsOpen,
           OnlyWriters, ChecksHold, FreedClosed, WritePcs, ReadPcs, LockPcs
  <2>3. RingBound' /\ SleepersNotForgotten'
    BY <1>10, <2>0, <2>1, SameRing
       DEF ReadSleep, pipe, SleepersNotForgotten, GaveUp, TypeOK, LockHeld, CallsOnOpenEnds,
           EndsOpen, OnlyWriters, ChecksHold, LockPcs, ReadPcs, WritePcs
  <2> QED
    BY <2>1, <2>2, <2>3 DEF Control
<1>11. ASSUME NEW p \in Procs, ReadReturn(p)
      PROVE  IInv'
  <2>0. /\ pc' \in [Procs -> Pcs]
        /\ \A q \in Procs : pc'[q] =
             IF q = p THEN "idle" ELSE IF pc[q] = "wsleep" THEN "wwoken" ELSE pc[q]
    BY <1>11 DEF ReadReturn, TypeOK, Wake, Pcs
  <2>1. TypeOK'
    BY Zenon, <1>11, <2>0 DEF ReadReturn, pipe, TypeOK, Pcs
  <2>2. Control'
    BY ZenonT(30), <1>11, <2>0, SameRing, PipeAssumption
       DEF ReadReturn, pipe, TypeOK, Control, LockHeld, CallsOnOpenEnds, EndsOpen,
           OnlyWriters, ChecksHold, FreedClosed, WritePcs, ReadPcs, LockPcs
  <2>3. RingBound' /\ SleepersNotForgotten'
    BY Zenon, <1>11, <2>0, <2>1, SameRing
       DEF ReadReturn, pipe, SleepersNotForgotten, GaveUp, TypeOK, LockHeld, CallsOnOpenEnds,
           EndsOpen, OnlyWriters, ChecksHold, LockPcs, ReadPcs, WritePcs
  <2> QED
    BY <2>1, <2>2, <2>3 DEF Control
<1>12. ASSUME NEW p \in Procs, NEW ok \in BOOLEAN, ReadByte(p, ok)
      PROVE  IInv'
  <2>1. TypeOK'
    <3>1. nread' \in 0..UINT-1
      BY <1>12, NextCounter DEF ReadByte, TypeOK
    <3>3. left' \in [Procs -> Nat]
      <4>1. left[p] \in Nat /\ left[p] > 0
        BY <1>12 DEF ReadByte, TypeOK
      <4>2. (IF ok THEN left[p] - 1 ELSE 0) \in Nat
        BY <4>1
      <4> QED
        BY <1>12, <4>2 DEF ReadByte, TypeOK
    <3> QED
      BY <1>12, <3>1, <3>3 DEF ReadByte, TypeOK
  <2>2. \A q \in Procs : pc[q] \in LockPcs => pc[q] = "read"
    BY <1>12 DEF ReadByte, LockHeld, LockPcs
  <2>3. Control'
    BY <1>12, <2>2
       DEF ReadByte, TypeOK, Control, LockHeld, CallsOnOpenEnds, EndsOpen, OnlyWriters,
           ChecksHold, FreedClosed, WritePcs, ReadPcs, LockPcs
  <2>5. Used' = Used - 1
    BY <1>12, <2>1, GetQueue
  <2>6. RingBound'
    BY <2>5, Sizes, QueueWindow DEF RingBound
  <2>8. SleepersNotForgotten'
    BY <1>12, <2>2 DEF ReadByte, SleepersNotForgotten, GaveUp, TypeOK, LockPcs
  <2> QED
    BY <2>1, <2>3, <2>6, <2>8 DEF Control
<1>13. ASSUME NEW p \in Procs, CloseWriteEnd(p)
      PROVE  IInv'
  <2>0. /\ pc' \in [Procs -> Pcs]
        /\ \A q \in Procs : pc'[q] =
             IF q = p THEN (IF wends \ {p} = {} THEN "closew" ELSE "idle") ELSE pc[q]
    BY <1>13 DEF CloseWriteEnd, TypeOK, Wake, Pcs
  <2>1. TypeOK'
    BY <1>13, <2>0 DEF CloseWriteEnd, pipe, TypeOK, Pcs
  <2>2. Control'
    BY SMTT(30), <1>13, <2>0, SameRing, PipeAssumption
       DEF CloseWriteEnd, pipe, TypeOK, Control, LockHeld, CallsOnOpenEnds, EndsOpen,
           OnlyWriters, ChecksHold, FreedClosed, WritePcs, ReadPcs, LockPcs
  <2>3. RingBound' /\ SleepersNotForgotten'
    BY SMTT(30), <1>13, <2>0, <2>1, SameRing
       DEF CloseWriteEnd, pipe, SleepersNotForgotten, GaveUp, TypeOK, LockHeld, CallsOnOpenEnds,
           EndsOpen, OnlyWriters, ChecksHold, LockPcs, ReadPcs, WritePcs
  <2> QED
    BY <2>1, <2>2, <2>3 DEF Control
<1>14. ASSUME NEW p \in Procs, CloseReadEnd(p)
      PROVE  IInv'
  <2>0. /\ pc' \in [Procs -> Pcs]
        /\ \A q \in Procs : pc'[q] =
             IF q = p THEN (IF rends \ {p} = {} THEN "closer" ELSE "idle") ELSE pc[q]
    BY <1>14 DEF CloseReadEnd, TypeOK, Wake, Pcs
  <2>1. TypeOK'
    BY <1>14, <2>0 DEF CloseReadEnd, pipe, TypeOK, Pcs
  <2>2. Control'
    BY SMTT(30), <1>14, <2>0, SameRing, PipeAssumption
       DEF CloseReadEnd, pipe, TypeOK, Control, LockHeld, CallsOnOpenEnds, EndsOpen,
           OnlyWriters, ChecksHold, FreedClosed, WritePcs, ReadPcs, LockPcs
  <2>3. RingBound' /\ SleepersNotForgotten'
    BY SMTT(30), <1>14, <2>0, <2>1, SameRing
       DEF CloseReadEnd, pipe, SleepersNotForgotten, GaveUp, TypeOK, LockHeld, CallsOnOpenEnds,
           EndsOpen, OnlyWriters, ChecksHold, LockPcs, ReadPcs, WritePcs
  <2> QED
    BY <2>1, <2>2, <2>3 DEF Control
<1>15. ASSUME NEW p \in Procs, PipeClose(p)
      PROVE  IInv'
  <2>0. CASE pc[p] = "closew"
    <3>1. /\ pc' \in [Procs -> Pcs]
          /\ \A q \in Procs : pc'[q] =
               IF q = p THEN "idle" ELSE IF pc[q] = "rsleep" THEN "rwoken" ELSE pc[q]
          /\ writeopen' = FALSE /\ readopen' = readopen
          /\ writeopen = TRUE /\ wends = {}
      BY Zenon, <1>15, <2>0 DEF PipeClose, TypeOK, Wake, Pcs, EndsOpen
    <3>2. freed = 0 /\ freed' = IF readopen THEN 0 ELSE 1
      BY <1>15, <3>1 DEF PipeClose, TypeOK, FreedClosed
    <3>3. TypeOK'
      <4>1. freed' \in 0..1
        BY <3>2
      <4>2. readopen' \in BOOLEAN /\ writeopen' \in BOOLEAN
        BY Zenon, <3>1 DEF TypeOK
      <4> QED
        BY Zenon, <1>15, <3>1, <4>1, <4>2 DEF PipeClose, TypeOK
    <3>4. \A q \in Procs : pc[q] \notin LockPcs
      BY <1>15, PipeAssumption DEF PipeClose, LockHeld
    <3>5. Control'
      BY ZenonT(30), <1>15, <3>1, <3>2, <3>4, SameRing
         DEF PipeClose, TypeOK, Control, LockHeld, CallsOnOpenEnds, EndsOpen,
             OnlyWriters, ChecksHold, FreedClosed, WritePcs, ReadPcs, LockPcs
    <3>6. RingBound' /\ SleepersNotForgotten'
      BY Zenon, <1>15, <3>1, <3>4, SameRing
         DEF PipeClose, SleepersNotForgotten, GaveUp, TypeOK, LockPcs
    <3> QED
      BY <3>3, <3>5, <3>6 DEF Control
  <2>1. CASE pc[p] = "closer"
    <3>1. /\ pc' \in [Procs -> Pcs]
          /\ \A q \in Procs : pc'[q] =
               IF q = p THEN "idle" ELSE IF pc[q] = "wsleep" THEN "wwoken" ELSE pc[q]
          /\ readopen' = FALSE /\ writeopen' = writeopen
          /\ readopen = TRUE /\ rends = {}
      BY ZenonT(30), <1>15, <2>1 DEF PipeClose, TypeOK, Wake, Pcs, EndsOpen
    <3>2. freed = 0 /\ freed' = IF writeopen THEN 0 ELSE 1
      BY <1>15, <3>1 DEF PipeClose, TypeOK, FreedClosed
    <3>3. TypeOK'
      <4>1. freed' \in 0..1
        BY <3>2
      <4>2. readopen' \in BOOLEAN /\ writeopen' \in BOOLEAN
        BY Zenon, <3>1 DEF TypeOK
      <4> QED
        BY Zenon, <1>15, <3>1, <4>1, <4>2 DEF PipeClose, TypeOK
    <3>4. \A q \in Procs : pc[q] \notin LockPcs
      BY <1>15, PipeAssumption DEF PipeClose, LockHeld
    <3>5. Control'
      BY ZenonT(30), <1>15, <3>1, <3>2, <3>4, SameRing
         DEF PipeClose, TypeOK, Control, LockHeld, CallsOnOpenEnds, EndsOpen,
             OnlyWriters, ChecksHold, FreedClosed, WritePcs, ReadPcs, LockPcs
    <3>6. RingBound' /\ SleepersNotForgotten'
      BY Zenon, <1>15, <3>1, <3>4, SameRing
         DEF PipeClose, SleepersNotForgotten, GaveUp, TypeOK, LockPcs, CallsOnOpenEnds, ReadPcs
    <3> QED
      BY <3>3, <3>5, <3>6 DEF Control
  <2> QED
    BY <1>15, <2>0, <2>1 DEF PipeClose
<1>16. ASSUME NEW p \in Procs, Kill(p)
      PROVE  IInv'
  <2>0. /\ pc' \in [Procs -> Pcs]
        /\ \A q \in Procs : pc'[q] =
             IF q = p
             THEN (IF pc[p] = "wsleep" THEN "wwoken"
                   ELSE IF pc[p] = "rsleep" THEN "rwoken" ELSE pc[p])
             ELSE pc[q]
    BY <1>16 DEF Kill, TypeOK, Wake, Pcs
  <2>1. TypeOK'
    BY <1>16, <2>0 DEF Kill, pipe, TypeOK, Pcs
  <2>2. Control'
    BY SMTT(30), <1>16, <2>0, SameRing, PipeAssumption
       DEF Kill, pipe, TypeOK, Control, LockHeld, CallsOnOpenEnds, EndsOpen,
           OnlyWriters, ChecksHold, FreedClosed, WritePcs, ReadPcs, LockPcs
  <2>3. RingBound' /\ SleepersNotForgotten'
    BY <1>16, <2>0, <2>1, SameRing
       DEF Kill, pipe, SleepersNotForgotten, GaveUp, TypeOK, LockHeld, CallsOnOpenEnds,
           EndsOpen, OnlyWriters, ChecksHold, LockPcs, ReadPcs, WritePcs
  <2> QED
    BY <2>1, <2>2, <2>3 DEF Control
<1> QED
  BY <1>1, <1>2, <1>3, <1>4, <1>5, <1>6, <1>7, <1>8, <1>9, <1>10, <1>11, <1>12, <1>13,
     <1>14, <1>15, <1>16
     DEF Next

\* The invariant holds in every state of every run of the pipe, for any
\* processes, bytes and sizes.
THEOREM PipeInvariant == Spec => []IInv
<1>1. Init => IInv
  BY InitInv
<1>2. IInv /\ [Next]_vars => IInv'
  BY NextInv
<1> QED
  BY <1>1, <1>2, PTL DEF Spec

\* kfree is called at most once, after both ends are closed, and no call
\* touches the pipe afterwards.
THEOREM PipeFreedOnce == Spec => []NoUseAfterFree
<1>1. IInv => NoUseAfterFree
  BY
     DEF IInv, NoUseAfterFree, TypeOK, FreedClosed, EndsOpen, CallsOnOpenEnds, Pcs,
         WritePcs, ReadPcs
<1> QED
  BY <1>1, PipeInvariant, PTL

\* No process sleeps in pipewrite or piperead without someone left to wake
\* it, however many readers and writers there are.
THEOREM PipeSleepers == Spec => []SleepersNotForgotten
<1>1. IInv => SleepersNotForgotten
  BY DEF IInv
<1> QED
  BY <1>1, PipeInvariant, PTL

\* A step that leaves the ring alone leaves the queue alone.
LEMMA SameQueue ==
  ASSUME UNCHANGED <<data, nread, nwrite>>
  PROVE  Queue' = Queue
BY DEF Queue, Used

\* A new pipe is an empty queue with both ends open.
LEMMA FifoInit == Init => Fifo!Init
<1> SUFFICES ASSUME Init PROVE Fifo!Init
  OBVIOUS
<1>1. TypeOK /\ Used = 0
  BY InitInv, UsedValue, Sizes DEF IInv, Init, TypeOK, EmptyPipe
<1>2. Queue = <<>>
  BY <1>1, QueueWindow
<1> QED
  BY <1>2 DEF Init, Fifo!Init

\* Every step of the pipe is a step of Fifo or changes nothing it sees.
LEMMA FifoStep == IInv /\ IInv' /\ [Next]_vars => [Fifo!Next]_(Fifo!vars)
<1> SUFFICES ASSUME IInv, IInv', [Next]_vars PROVE [Fifo!Next]_(Fifo!vars)
  OBVIOUS
<1>1. ASSUME UNCHANGED <<data, nread, nwrite>>, UNCHANGED <<readopen, writeopen>>
      PROVE  UNCHANGED Fifo!vars
  BY <1>1, SameQueue DEF Fifo!vars
<1>2. ASSUME NEW p \in Procs, NEW b \in Byte, WriteByte(p, b)
      PROVE  Fifo!Put(b)
  <2>1. TypeOK /\ TypeOK'
    BY DEF IInv
  <2>2. RingBound
    BY DEF IInv
  <2>3. Used < PIPESIZE /\ Queue' = Append(Queue, b)
    BY <1>2, <2>1, <2>2, PutQueue
  <2>4. Len(Queue) < PIPESIZE
    BY <2>1, <2>3, QueueWindow
  <2>5. readopen /\ writeopen
    BY <1>2 DEF WriteByte, IInv, ChecksHold, CallsOnOpenEnds, WritePcs, EndsOpen
  <2> QED
    BY <1>2, <2>3, <2>4, <2>5 DEF WriteByte, Fifo!Put
<1>3. ASSUME NEW p \in Procs, NEW ok \in BOOLEAN, ReadByte(p, ok)
      PROVE  Fifo!Get
  <2>1. TypeOK /\ TypeOK'
    BY DEF IInv
  <2>3. Queue' = Tail(Queue) /\ Queue # <<>>
    BY <1>3, <2>1, GetQueue
  <2>4. readopen
    BY <1>3 DEF ReadByte, IInv, CallsOnOpenEnds, ReadPcs, EndsOpen
  <2> QED
    BY <1>3, <2>3, <2>4 DEF ReadByte, Fifo!Get
<1>4. ASSUME NEW p \in Procs, PipeClose(p)
      PROVE  Fifo!CloseRead \/ Fifo!CloseWrite
  <2>1. Queue' = Queue
    BY <1>4, SameQueue DEF PipeClose
  <2>2. CASE pc[p] = "closew"
    BY Zenon, <1>4, <2>1, <2>2 DEF PipeClose, Fifo!CloseWrite, IInv, EndsOpen, TypeOK
  <2>3. CASE pc[p] = "closer"
    BY Zenon, <1>4, <2>1, <2>3 DEF PipeClose, Fifo!CloseRead, IInv, EndsOpen, TypeOK
  <2> QED
    BY <1>4, <2>2, <2>3 DEF PipeClose
<1>5. CASE UNCHANGED vars
  BY <1>1, <1>5 DEF vars, pipe
<1>6. ASSUME NEW p \in Procs,
             \/ \E n \in 0..MaxN : StartWrite(p, n) \/ StartRead(p, n)
             \/ Acquire(p)
             \/ WriteCheck(p) \/ WriteSleep(p) \/ WriteReturn(p)
             \/ ReadWait(p) \/ ReadSleep(p) \/ ReadReturn(p)
             \/ CloseWriteEnd(p) \/ CloseReadEnd(p)
             \/ Kill(p)
      PROVE  UNCHANGED Fifo!vars
  BY <1>1, <1>6
     DEF StartWrite, StartRead, Acquire, WriteCheck, WriteSleep, WriteReturn, ReadWait,
         ReadSleep, ReadReturn, CloseWriteEnd, CloseReadEnd, Kill, pipe
<1> QED
  BY <1>2, <1>3, <1>4, <1>5, <1>6 DEF Next, Fifo!Next

\* The pipe implements Fifo: bytes come out once and in the order they went
\* in, also when the counters wrap around.
THEOREM PipeIsFifo == Spec => FifoOrder
<1>1. Init => Fifo!Init
  BY FifoInit
<1>2. IInv /\ IInv' /\ [Next]_vars => [Fifo!Next]_(Fifo!vars)
  BY FifoStep
<1> QED
  BY <1>1, <1>2, PipeInvariant, PTL DEF Spec, FifoOrder, Fifo!Spec
===============================================================================
