------------------------------- MODULE UartProofs -------------------------------
(***************************************************************************)
(* Proofs about spin locks and interrupts, for any number of CPUs, any     *)
(* size of the ring and any amount of output.                              *)
(***************************************************************************)
EXTENDS UartInv, SequenceTheorems, TLAPS

\* push_off and pop_off keep struct cpu in step with the nesting of locks.
LEMMA PushAgrees ==
  ASSUME NEW k, NEW v, NEW f, NEW g, Agrees(k, v, f),
         Depth(f) \in Nat, Depth(g) = Depth(f) + 1
  PROVE  Agrees(push_off(k), v, g)
<1> DEFINE r == push_off(k)
<1>1. k.noff \in Nat /\ k.intr \in BOOLEAN /\ k.intena \in BOOLEAN
  BY DEF Agrees, CpuRecs
<1>2. r.intr = FALSE /\ r.noff = k.noff + 1 /\ r.intena = (IF k.noff = 0 THEN k.intr ELSE k.intena)
  BY DEF push_off
<1>3. r \in CpuRecs
  BY <1>1 DEF push_off, CpuRecs
<1>4. r.noff = Depth(g) /\ Depth(g) # 0
  BY <1>2 DEF Agrees
<1>5. r.intena <=> v # 2
  <2>1. CASE k.noff = 0
    BY <1>2, <2>1 DEF Agrees
  <2>2. CASE k.noff # 0
    BY <1>1, <1>2, <2>2 DEF Agrees
  <2> QED
    BY <2>1, <2>2
<1> HIDE DEF r
<1>6. Agrees(r, v, g)
  BY Zenon, <1>2, <1>3, <1>4, <1>5 DEF Agrees
<1> QED
  BY Zenon, <1>6 DEF r

\* pop_off does not panic and undoes push_off.
LEMMA PopAgrees ==
  ASSUME NEW k, NEW v, NEW f, NEW g, Agrees(k, v, f),
         Depth(g) \in Nat, Depth(f) = Depth(g) + 1
  PROVE  Agrees(pop_off(k), v, g) /\ ~PopOffPanics(k)
<1> DEFINE r == pop_off(k)
<1>1. k.noff = Depth(g) + 1 /\ k.intr = FALSE /\ k.intena \in BOOLEAN /\ (k.intena <=> v # 2)
  BY DEF Agrees, CpuRecs
<1>2. r.noff = k.noff - 1 /\ r.intena = k.intena /\ r.intr = (k.noff = 1 /\ k.intena)
  BY DEF pop_off, Agrees, CpuRecs
<1>3. r \in CpuRecs
  <2> DEFINE x == k.noff = 1 /\ k.intena
  <2>1. x \in BOOLEAN
    BY Zenon
  <2>2. k \in CpuRecs /\ k.noff - 1 \in Nat
    BY <1>1 DEF Agrees
  <2>3. r = [k EXCEPT !.noff = k.noff - 1, !.intr = x]
    BY DEF pop_off
  <2> HIDE DEF x, r
  <2> QED
    BY <2>1, <2>2, <2>3 DEF CpuRecs
<1>4. r.noff = Depth(g) /\ (k.noff = 1 <=> Depth(g) = 0)
  BY <1>1, <1>2
<1>5. r.intr <=> Depth(g) = 0 /\ v # 2
  BY Zenon, <1>1, <1>2, <1>4
<1> HIDE DEF r
<1>6. Agrees(r, v, g)
  BY Zenon, <1>1, <1>2, <1>3, <1>4, <1>5 DEF Agrees
<1>7. ~PopOffPanics(k)
  BY <1>1 DEF PopOffPanics
<1> QED
  BY Zenon, <1>6, <1>7 DEF r

\* Depth is at most 2.
LEMMA DepthNat == \A f : Depth(f) \in Nat
BY DEF Depth

\* A stack with another frame on top.
LEMMA TopReplaced ==
  ASSUME NEW k, NEW s, LocalOK(k, s), NEW k2, NEW g, FrameOK(Len(s), g),
         Agrees(k2, Len(s), g)
  PROVE  /\ LocalOK(k2, [s EXCEPT ![Len(s)] = g])
         /\ Len([s EXCEPT ![Len(s)] = g]) = Len(s)
         /\ [s EXCEPT ![Len(s)] = g][Len(s)] = g
<1> DEFINE t == [s EXCEPT ![Len(s)] = g]
<1> USE DEF LocalOK
<1>1. s \in Seq(Frames) /\ Len(s) \in 1..Len(s) /\ g \in Frames
  <2>1. g \in Frames
    BY Zenon DEF FrameOK
  <2> QED
    BY <2>1
<1>2. /\ t \in Seq(Frames) /\ Len(t) = Len(s)
      /\ \A j \in 1..Len(s) : t[j] = IF j = Len(s) THEN g ELSE s[j]
  BY <1>1, ExceptSeq
<1>3. t[Len(t)] = g /\ (Len(s) = 2 => t[1] = s[1])
  BY <1>1, <1>2
<1> QED
  BY <1>2, <1>3

\* What the invariant says of one CPU.
LEMMA AtTop ==
  ASSUME IInv, NEW c \in CPUs
  PROVE  /\ Level(c) \in {1, 2} /\ LocalOK(cpu[c], stack[c])
         /\ FrameOK(Level(c), Top(c)) /\ Top(c) \in Frames
         /\ Agrees(cpu[c], Level(c), Top(c))
         /\ \A l \in Locks : holder[l] = c <=> l \in HeldAt(Level(c), Top(c))
BY DEF IInv, LocalOK, Level, Top, HeldOK, FrameOK

\* A step of CPU c alone.
LEMMA OneCPU ==
  ASSUME IInv, NEW c \in CPUs, NEW s, LocalOK(cpu'[c], s),
         DOMAIN cpu' = CPUs, \A d \in CPUs \ {c} : cpu'[d] = cpu[d],
         stack' = [stack EXCEPT ![c] = s],
         DOMAIN holder' = Locks,
         \A l \in Locks : holder'[l] = c <=> l \in HeldAt(Len(s), s[Len(s)]),
         \A d \in CPUs \ {c}, l \in Locks : holder'[l] = d <=> holder[l] = d,
         paniced' = FALSE
  PROVE  IInv'
<1>1. /\ DOMAIN stack' = CPUs /\ stack'[c] = s
      /\ \A d \in CPUs \ {c} : stack'[d] = stack[d]
  BY DEF IInv
<1>2. \A d \in CPUs : LocalOK(cpu'[d], stack'[d])
  BY Zenon, <1>1 DEF IInv
<1>3. HeldOK'
  <2> SUFFICES ASSUME NEW d \in CPUs, NEW l \in Locks
               PROVE  holder'[l] = d <=> l \in HeldAt(Len(stack'[d]), stack'[d][Len(stack'[d])])
    BY Zenon DEF HeldOK, Level, Top
  <2>1. CASE d = c
    BY Zenon, <2>1, <1>1
  <2>2. CASE d # c
    <3>1. holder[l] = d <=> l \in HeldAt(Len(stack[d]), stack[d][Len(stack[d])])
      BY Zenon DEF IInv, HeldOK, Level, Top
    <3>2. stack'[d] = stack[d] /\ (holder'[l] = d <=> holder[l] = d)
      BY <2>2, <1>1
    <3> QED
      BY Zenon, <3>1, <3>2
  <2> QED
    BY <2>1, <2>2
<1> QED
  BY Zenon, <1>1, <1>2, <1>3 DEF IInv

\* A step of c that only replaces its top frame.
LEMMA Replaced ==
  ASSUME IInv, NEW c \in CPUs, NEW g, FrameOK(Level(c), g),
         Agrees(cpu'[c], Level(c), g), stack' = With(c, g),
         DOMAIN cpu' = CPUs, \A d \in CPUs \ {c} : cpu'[d] = cpu[d],
         DOMAIN holder' = Locks,
         \A l \in Locks : holder'[l] = c <=> l \in HeldAt(Level(c), g),
         \A d \in CPUs \ {c}, l \in Locks : holder'[l] = d <=> holder[l] = d,
         paniced' = FALSE
  PROVE  IInv'
<1> DEFINE s == stack[c]
           t == [s EXCEPT ![Len(s)] = g]
<1>1. LocalOK(cpu[c], s)
  BY AtTop
<1>2. LocalOK(cpu'[c], t) /\ Len(t) = Len(s) /\ t[Len(t)] = g
  <2>1. FrameOK(Len(s), g) /\ Agrees(cpu'[c], Len(s), g)
    BY Zenon DEF Level
  <2>2. LocalOK(cpu'[c], t) /\ Len(t) = Len(s) /\ t[Len(s)] = g
    BY <1>1, <2>1, TopReplaced
  <2> QED
    BY Zenon, <2>2
<1>3. stack' = [stack EXCEPT ![c] = t]
  BY Zenon DEF With
<1>4. \A l \in Locks : holder'[l] = c <=> l \in HeldAt(Len(t), t[Len(t)])
  BY Zenon, <1>2 DEF Level
<1> HIDE DEF t
<1> QED
  BY Zenon, <1>2, <1>3, <1>4, OneCPU

\* A move that takes and releases nothing.
LEMMA MoveInv ==
  ASSUME IInv, NEW c \in CPUs, NEW g, FrameOK(Level(c), g),
         Depth(g) = Depth(Top(c)), HeldAt(Level(c), g) = HeldAt(Level(c), Top(c)),
         stack' = With(c, g), UNCHANGED <<cpu, holder, paniced>>
  PROVE  IInv'
<1>1. Agrees(cpu'[c], Level(c), g)
  BY Zenon, AtTop DEF Agrees
<1>2. \A l \in Locks : holder'[l] = c <=> l \in HeldAt(Level(c), g)
  BY Zenon, AtTop
<1> QED
  BY Zenon, <1>1, <1>2, Replaced DEF IInv

\* push_off.
LEMMA PushInv ==
  ASSUME IInv, NEW c \in CPUs, NEW g, FrameOK(Level(c), g),
         Depth(g) = Depth(Top(c)) + 1, HeldAt(Level(c), g) = HeldAt(Level(c), Top(c)),
         stack' = With(c, g), cpu' = [cpu EXCEPT ![c] = push_off(cpu[c])],
         holder' = holder, paniced' = FALSE
  PROVE  IInv'
<1>1. /\ DOMAIN cpu' = CPUs /\ cpu'[c] = push_off(cpu[c])
      /\ \A d \in CPUs \ {c} : cpu'[d] = cpu[d]
  BY DEF IInv
<1>2. Agrees(cpu'[c], Level(c), g)
  <2>1. Agrees(cpu[c], Level(c), Top(c)) /\ Depth(Top(c)) \in Nat
    BY Zenon, AtTop, DepthNat
  <2>2. Agrees(push_off(cpu[c]), Level(c), g)
    BY Zenon, <2>1, PushAgrees
  <2> QED
    BY Zenon, <1>1, <2>2
<1>3. \A l \in Locks : holder'[l] = c <=> l \in HeldAt(Level(c), g)
  BY Zenon, AtTop
<1> QED
  BY Zenon, <1>1, <1>2, <1>3, Replaced DEF IInv

\* pop_off.
LEMMA PopInv ==
  ASSUME IInv, NEW c \in CPUs, NEW g, FrameOK(Level(c), g),
         Depth(Top(c)) = Depth(g) + 1, HeldAt(Level(c), g) = HeldAt(Level(c), Top(c)),
         stack' = With(c, g), cpu' = [cpu EXCEPT ![c] = pop_off(cpu[c])],
         holder' = holder, paniced' = (paniced \/ PopOffPanics(cpu[c]))
  PROVE  IInv'
<1>1. /\ DOMAIN cpu' = CPUs /\ cpu'[c] = pop_off(cpu[c])
      /\ \A d \in CPUs \ {c} : cpu'[d] = cpu[d]
  BY DEF IInv
<1>2. Agrees(cpu'[c], Level(c), g) /\ ~PopOffPanics(cpu[c])
  <2>1. Agrees(cpu[c], Level(c), Top(c)) /\ Depth(g) \in Nat
    BY Zenon, AtTop, DepthNat
  <2>2. Agrees(pop_off(cpu[c]), Level(c), g) /\ ~PopOffPanics(cpu[c])
    BY Zenon, <2>1, PopAgrees
  <2> QED
    BY Zenon, <1>1, <2>2
<1>3. \A l \in Locks : holder'[l] = c <=> l \in HeldAt(Level(c), g)
  BY Zenon, AtTop
<1>4. paniced' = FALSE
  BY Zenon, <1>2 DEF IInv
<1> QED
  BY Zenon, <1>1, <1>2, <1>3, <1>4, Replaced DEF IInv

\* release of the one lock that is held.
LEMMA ReleaseInv ==
  ASSUME IInv, NEW c \in CPUs, NEW g, NEW l \in Locks, FrameOK(Level(c), g),
         Depth(Top(c)) = Depth(g) + 1, HeldAt(Level(c), Top(c)) = {l},
         HeldAt(Level(c), g) = {}, stack' = With(c, g), Release(c, l)
  PROVE  IInv'
<1> USE DEF Release
<1>1. /\ DOMAIN cpu' = CPUs /\ cpu'[c] = pop_off(cpu[c])
      /\ \A d \in CPUs \ {c} : cpu'[d] = cpu[d]
  BY DEF IInv
<1>2. Agrees(cpu'[c], Level(c), g) /\ ~PopOffPanics(cpu[c])
  <2>1. Agrees(cpu[c], Level(c), Top(c)) /\ Depth(g) \in Nat
    BY Zenon, AtTop, DepthNat
  <2>2. Agrees(pop_off(cpu[c]), Level(c), g) /\ ~PopOffPanics(cpu[c])
    BY Zenon, <2>1, PopAgrees
  <2> QED
    BY Zenon, <1>1, <2>2
<1>3. holder[l] = c /\ \A m \in Locks : m # l => holder[m] # c
  BY Zenon, AtTop
<1>4. /\ DOMAIN holder' = Locks /\ holder'[l] = NoCPU
      /\ \A m \in Locks : m # l => holder'[m] = holder[m]
  BY DEF IInv
<1>5. \A m \in Locks : holder'[m] = c <=> m \in HeldAt(Level(c), g)
  BY Zenon, <1>3, <1>4, UartAssumption
<1>6. \A d \in CPUs \ {c}, m \in Locks : holder'[m] = d <=> holder[m] = d
  BY Zenon, <1>3, <1>4, UartAssumption
<1>7. paniced' = FALSE
  BY Zenon, <1>2, <1>3 DEF IInv
<1> QED
  BY Zenon, <1>1, <1>2, <1>4, <1>5, <1>6, <1>7, Replaced

-------------------------------------------------------------------------------
(* The actions.                                                            *)

\* After booting no lock is held and interrupts are as push_off left them.
LEMMA InitInv == UartInit => IInv
<1> SUFFICES ASSUME UartInit PROVE IInv
  OBVIOUS
<1> USE DEF UartInit
<1>1. Frame("thread") \in Frames /\ Frame("thread").pc = "thread" /\ Frame("thread").spin = FALSE
  BY DEF Frame, Frames, ThreadPcs
<1>2. \A c \in CPUs : /\ stack[c] \in Seq(Frames) /\ Len(stack[c]) = 1
                      /\ stack[c][1] = Frame("thread")
  BY <1>1
<1>3. Depth(Frame("thread")) = 0 /\ \A h : HeldAt(h, Frame("thread")) = {}
  BY <1>1 DEF Depth, HeldAt
<1>4. \A c \in CPUs : Agrees(cpu[c], 1, Frame("thread"))
  BY <1>3 DEF Agrees, CpuRecs
<1>5. FrameOK(1, Frame("thread"))
  BY <1>1 DEF FrameOK, ThreadPcs
<1>6. \A c \in CPUs : LocalOK(cpu[c], stack[c])
  BY <1>2, <1>4, <1>5 DEF LocalOK
<1>7. HeldOK
  BY <1>2, <1>3, UartAssumption DEF HeldOK, Level, Top
<1> QED
  BY <1>6, <1>7 DEF IInv

\* acquire before the loop: no lock is held there.
LEMMA AcquireInv ==
  ASSUME IInv, NEW c \in CPUs, Acquire(c)
  PROVE  IInv'
<1> DEFINE f == Top(c)
           g == [f EXCEPT !.spin = TRUE]
<1>1. f \in Frames /\ FrameOK(Level(c), f) /\ f.pc \in Acquires /\ ~f.spin
  BY AtTop DEF Acquire
<1>2. g \in Frames /\ g.pc = f.pc /\ g.spin = TRUE
  BY <1>1 DEF Frames
<1>3. FrameOK(Level(c), g)
  BY <1>1, <1>2 DEF FrameOK
<1>4. Depth(f) = 0 /\ Depth(g) = 1 /\ HeldAt(Level(c), f) = {} /\ HeldAt(Level(c), g) = {}
  BY <1>1, <1>2 DEF Depth, HeldAt, Acquires
<1>5. Wants(f.pc) \in Locks
  BY <1>1 DEF Wants, Locks, Acquires
<1>6. paniced' = FALSE
  <2>1. holder[Wants(f.pc)] # c
    BY <1>4, <1>5, AtTop
  <2> QED
    BY Zenon, <2>1 DEF Acquire, IInv
<1>7. stack' = With(c, g) /\ cpu' = [cpu EXCEPT ![c] = push_off(cpu[c])] /\ holder' = holder
  BY DEF Acquire
<1> HIDE DEF g
<1>8. Depth(g) = Depth(Top(c)) + 1 /\ HeldAt(Level(c), g) = HeldAt(Level(c), Top(c))
  BY <1>4
<1> QED
  BY Zenon, <1>3, <1>6, <1>7, <1>8, PushInv

\* The atomic swap of acquire: it spins, or takes a free lock.
LEMMA SwapInv ==
  ASSUME IInv, NEW c \in CPUs, Swap(c)
  PROVE  IInv'
<1> DEFINE f == Top(c)
           g == [f EXCEPT !.pc = Inside(f.pc), !.spin = FALSE]
           l == Wants(f.pc)
<1>1. f \in Frames /\ FrameOK(Level(c), f) /\ f.spin /\ f.pc \in Acquires
  BY AtTop DEF Swap, FrameOK
<1>2. Inside(f.pc) \in {"full", "start", "chars"} /\ l \in Locks
  BY <1>1 DEF Inside, Wants, Acquires, Locks
<1>3. g \in Frames /\ g.pc = Inside(f.pc) /\ g.spin = FALSE
  BY <1>1, <1>2 DEF Frames, ThreadPcs
<1>4. FrameOK(Level(c), g)
  BY <1>1, <1>2, <1>3 DEF FrameOK, Inside, ThreadPcs, HandlerPcs, Acquires
<1>5. Depth(f) = 1 /\ Depth(g) = 1 /\ HeldAt(Level(c), f) = {}
  BY <1>1, <1>2, <1>3 DEF Depth, HeldAt, Acquires
<1>6. HeldAt(Level(c), g) = {l}
  BY <1>1, <1>2, <1>3 DEF HeldAt, Acquires, Inside, Wants, FrameOK, ThreadPcs, HandlerPcs
<1>7. Agrees(cpu'[c], Level(c), g) /\ DOMAIN cpu' = CPUs /\ \A d \in CPUs \ {c} : cpu'[d] = cpu[d]
  BY <1>5, AtTop DEF Agrees, Swap, IInv
<1>8. /\ DOMAIN holder' = Locks /\ holder[l] = NoCPU /\ holder'[l] = c
      /\ \A m \in Locks : m # l => holder'[m] = holder[m]
  BY <1>2 DEF Swap, IInv
<1>9. \A m \in Locks : holder[m] # c
  BY <1>5, AtTop
<1>10. \A m \in Locks : holder'[m] = c <=> m \in HeldAt(Level(c), g)
  BY Zenon, <1>6, <1>8, <1>9
<1>11. \A d \in CPUs \ {c}, m \in Locks : holder'[m] = d <=> holder[m] = d
  BY Zenon, <1>8, UartAssumption
<1>12. stack' = With(c, g) /\ paniced' = FALSE
  BY DEF Swap, IInv
<1> HIDE DEF g, l
<1> QED
  BY Zenon, <1>4, <1>7, <1>8, <1>10, <1>11, <1>12, Replaced

\* The moves of threads: consolewrite, printf and uartputc.
LEMMA ThreadMovesInv ==
  ASSUME IInv, NEW c \in CPUs,
         Write(c) \/ (\E n \in EchoCounts : Printf(c, n)) \/ Put(c)
  PROVE  IInv'
<1> DEFINE f == Top(c)
<1>0. f \in Frames /\ FrameOK(Level(c), f) /\ Level(c) \in {1, 2}
  BY AtTop
<1>1. CASE Write(c)
  <2> DEFINE g == [f EXCEPT !.pc = "uartputc"]
  <2>1. f.pc = "thread" /\ ~f.spin /\ Level(c) # 2
    BY <1>0, <1>1 DEF Write, Here, FrameOK, HandlerPcs
  <2>2. g \in Frames /\ g.pc = "uartputc" /\ g.spin = f.spin
    BY <1>0 DEF Frames, ThreadPcs
  <2>3. FrameOK(Level(c), g) /\ Depth(g) = Depth(f) /\ HeldAt(Level(c), g) = HeldAt(Level(c), f)
    BY <2>1, <2>2 DEF FrameOK, ThreadPcs, Acquires, Depth, HeldAt
  <2>4. stack' = With(c, g) /\ UNCHANGED <<cpu, holder, paniced>>
    BY <1>1 DEF Write, Goto
  <2> HIDE DEF g
  <2> QED
    BY Zenon, <2>3, <2>4, MoveInv
<1>2. CASE \E n \in EchoCounts : Printf(c, n)
  <2>0. PICK n \in EchoCounts : Printf(c, n)
    BY <1>2
  <2> DEFINE g == [Frame("printf") EXCEPT !.n = n]
  <2>1. f.pc = "thread" /\ ~f.spin /\ Level(c) # 2 /\ n \in Int
    BY <1>0, <2>0, UartAssumption DEF Printf, Here, FrameOK, HandlerPcs
  <2>2. g \in Frames /\ g.pc = "printf" /\ g.spin = FALSE
    BY <2>1 DEF Frames, Frame, ThreadPcs
  <2>3. FrameOK(Level(c), g) /\ Depth(g) = Depth(f) /\ HeldAt(Level(c), g) = HeldAt(Level(c), f)
    BY <2>1, <2>2 DEF FrameOK, ThreadPcs, Acquires, Depth, HeldAt
  <2>4. stack' = With(c, g) /\ UNCHANGED <<cpu, holder, paniced>>
    BY <2>0 DEF Printf
  <2> HIDE DEF g
  <2> QED
    BY Zenon, <2>3, <2>4, MoveInv
<1>3. CASE Put(c)
  <2> DEFINE g == [f EXCEPT !.pc = "start"]
  <2>1. f.pc = "full" /\ ~f.spin
    BY <1>3 DEF Put, Here
  <2>2. g \in Frames /\ g.pc = "start" /\ g.spin = f.spin
    BY <1>0 DEF Frames, ThreadPcs
  <2>3. FrameOK(Level(c), g) /\ Depth(g) = Depth(f) /\ HeldAt(Level(c), g) = HeldAt(Level(c), f)
    BY <1>0, <2>1, <2>2 DEF FrameOK, ThreadPcs, HandlerPcs, Acquires, Depth, HeldAt
  <2>4. stack' = With(c, g) /\ UNCHANGED <<cpu, holder, paniced>>
    BY <1>3 DEF Put, Goto
  <2> HIDE DEF g
  <2> QED
    BY Zenon, <2>3, <2>4, MoveInv
<1> QED
  BY <1>1, <1>2, <1>3

\* The moves under a lock, and those of the handler.
LEMMA OtherMovesInv ==
  ASSUME IInv, NEW c \in CPUs,
         StartWrite(c) \/ SyncIdle(c) \/ (\E n \in EchoCounts : Getc(c, n)) \/ GetcNone(c)
  PROVE  IInv'
<1> DEFINE f == Top(c)
<1>0. f \in Frames /\ FrameOK(Level(c), f) /\ Level(c) \in {1, 2}
  BY AtTop
<1>1. CASE StartWrite(c)
  <2> DEFINE g == [f EXCEPT !.pc = "start"]
  <2>1. f.pc = "thr" /\ ~f.spin
    BY <1>1 DEF StartWrite, Here
  <2>2. g \in Frames /\ g.pc = "start" /\ g.spin = f.spin
    BY <1>0 DEF Frames, ThreadPcs
  <2>3. FrameOK(Level(c), g) /\ Depth(g) = Depth(f) /\ HeldAt(Level(c), g) = HeldAt(Level(c), f)
    BY <1>0, <2>1, <2>2 DEF FrameOK, ThreadPcs, HandlerPcs, Acquires, Depth, HeldAt
  <2>4. stack' = With(c, g) /\ UNCHANGED <<cpu, holder, paniced>>
    BY <1>1 DEF StartWrite, Goto
  <2> HIDE DEF g
  <2> QED
    BY Zenon, <2>3, <2>4, MoveInv
<1>2. CASE SyncIdle(c)
  <2> DEFINE g == [f EXCEPT !.pc = "sync"]
  <2>1. f.pc = "lsr" /\ ~f.spin
    BY <1>2 DEF SyncIdle, Here
  <2>2. g \in Frames /\ g.pc = "sync" /\ g.spin = f.spin
    BY <1>0 DEF Frames, ThreadPcs
  <2>3. FrameOK(Level(c), g) /\ Depth(g) = Depth(f) /\ HeldAt(Level(c), g) = HeldAt(Level(c), f)
    BY <1>0, <2>1, <2>2 DEF FrameOK, ThreadPcs, HandlerPcs, Acquires, Depth, HeldAt
  <2>4. stack' = With(c, g) /\ UNCHANGED <<cpu, holder, paniced>>
    BY <1>2 DEF SyncIdle, Goto
  <2> HIDE DEF g
  <2> QED
    BY Zenon, <2>3, <2>4, MoveInv
<1>3. CASE \E n \in EchoCounts : Getc(c, n)
  <2>0. PICK n \in EchoCounts : Getc(c, n)
    BY <1>3
  <2> DEFINE g == [Frame("consoleintr") EXCEPT !.n = n]
  <2>1. f.pc = "getc" /\ ~f.spin /\ Level(c) = 2 /\ n \in Int
    BY <1>0, <2>0, UartAssumption DEF Getc, Here, FrameOK, ThreadPcs
  <2>2. g \in Frames /\ g.pc = "consoleintr" /\ g.spin = FALSE
    BY <2>1 DEF Frames, Frame, HandlerPcs
  <2>3. FrameOK(Level(c), g) /\ Depth(g) = Depth(f) /\ HeldAt(Level(c), g) = HeldAt(Level(c), f)
    BY <2>1, <2>2 DEF FrameOK, HandlerPcs, Acquires, Depth, HeldAt
  <2>4. stack' = With(c, g) /\ UNCHANGED <<cpu, holder, paniced>>
    BY <2>0 DEF Getc
  <2> HIDE DEF g
  <2> QED
    BY Zenon, <2>3, <2>4, MoveInv
<1>4. CASE GetcNone(c)
  <2> DEFINE g == [f EXCEPT !.pc = "hstart"]
  <2>1. f.pc = "getc" /\ ~f.spin /\ Level(c) = 2
    BY <1>0, <1>4 DEF GetcNone, Here, FrameOK, ThreadPcs
  <2>2. g \in Frames /\ g.pc = "hstart" /\ g.spin = f.spin
    BY <1>0 DEF Frames, HandlerPcs
  <2>3. FrameOK(Level(c), g) /\ Depth(g) = Depth(f) /\ HeldAt(Level(c), g) = HeldAt(Level(c), f)
    BY <2>1, <2>2 DEF FrameOK, HandlerPcs, Acquires, Depth, HeldAt
  <2>4. stack' = With(c, g) /\ UNCHANGED <<cpu, holder, paniced>>
    BY <1>4 DEF GetcNone, Goto
  <2> HIDE DEF g
  <2> QED
    BY Zenon, <2>3, <2>4, MoveInv
<1> QED
  BY <1>1, <1>2, <1>3, <1>4

\* uartputc_sync nests push_off in the lock of its caller.
LEMMA SyncInv ==
  ASSUME IInv, NEW c \in CPUs, SyncOff(c) \/ SyncWrite(c)
  PROVE  IInv'
<1> DEFINE f == Top(c)
<1>0. f \in Frames /\ FrameOK(Level(c), f) /\ Level(c) \in {1, 2}
  BY AtTop
<1>1. CASE SyncOff(c)
  <2> DEFINE g == [f EXCEPT !.pc = "lsr"]
  <2>1. f.pc = "chars" /\ ~f.spin
    BY <1>1 DEF SyncOff, Here
  <2>2. g \in Frames /\ g.pc = "lsr" /\ g.spin = f.spin
    BY <1>0 DEF Frames, ThreadPcs
  <2>3. /\ FrameOK(Level(c), g) /\ Depth(g) = Depth(f) + 1
        /\ HeldAt(Level(c), g) = HeldAt(Level(c), f)
    BY <1>0, <2>1, <2>2 DEF FrameOK, ThreadPcs, HandlerPcs, Acquires, Depth, HeldAt
  <2>4. /\ stack' = With(c, g) /\ cpu' = [cpu EXCEPT ![c] = push_off(cpu[c])]
        /\ holder' = holder /\ paniced' = FALSE
    BY <1>1 DEF SyncOff, Goto, IInv
  <2> HIDE DEF g
  <2> QED
    BY Zenon, <2>3, <2>4, PushInv
<1>2. CASE SyncWrite(c)
  <2> DEFINE g == [f EXCEPT !.pc = "chars", !.n = f.n - 1]
  <2>1. f.pc = "sync" /\ ~f.spin /\ f.n \in Int
    BY <1>0, <1>2 DEF SyncWrite, Here, Frames
  <2>2. g.pc = "chars" /\ g.spin = f.spin /\ g \in Frames
    <3> DEFINE m == f.n - 1
    <3>1. m \in Int
      BY <2>1
    <3> HIDE DEF m, f
    <3>2. [f EXCEPT !.pc = "chars", !.n = m] \in Frames
      BY <1>0, <3>1 DEF Frames, ThreadPcs
    <3>3. g.pc = "chars" /\ g.spin = f.spin
      BY <1>0 DEF Frames
    <3> QED
      BY Zenon, <3>2, <3>3 DEF m
  <2>3. /\ FrameOK(Level(c), g) /\ Depth(f) = Depth(g) + 1
        /\ HeldAt(Level(c), g) = HeldAt(Level(c), f)
    BY <1>0, <2>1, <2>2 DEF FrameOK, ThreadPcs, HandlerPcs, Acquires, Depth, HeldAt
  <2>4. /\ stack' = With(c, g) /\ cpu' = [cpu EXCEPT ![c] = pop_off(cpu[c])]
        /\ holder' = holder /\ paniced' = (paniced \/ PopOffPanics(cpu[c]))
    BY <1>2 DEF SyncWrite
  <2> HIDE DEF g
  <2> QED
    BY Zenon, <2>3, <2>4, PopInv
<1> QED
  BY <1>1, <1>2

\* sleep in uartputc, the end of uartstart, and the end of printf and of
\* consoleintr release the lock they hold.
LEMMA ReleasesInv ==
  ASSUME IInv, NEW c \in CPUs, PutFull(c) \/ StartEnds(c) \/ CharsEnd(c)
  PROVE  IInv'
<1> DEFINE f == Top(c)
           h == Level(c)
<1>0. f \in Frames /\ FrameOK(h, f) /\ h \in {1, 2}
  BY AtTop
<1>1. CASE PutFull(c)
  <2> DEFINE g == [f EXCEPT !.pc = "asleep"]
  <2>1. f.pc = "full" /\ ~f.spin /\ h # 2
    BY <1>0, <1>1 DEF PutFull, Here, FrameOK, HandlerPcs
  <2>2. g \in Frames /\ g.pc = "asleep" /\ g.spin = f.spin
    BY <1>0 DEF Frames, ThreadPcs
  <2>3. /\ FrameOK(h, g) /\ Depth(f) = Depth(g) + 1
        /\ HeldAt(h, f) = {"tx"} /\ HeldAt(h, g) = {} /\ "tx" \in Locks
    BY <2>1, <2>2 DEF FrameOK, ThreadPcs, Depth, HeldAt, Locks
  <2>4. stack' = With(c, g) /\ Release(c, "tx")
    BY <1>1 DEF PutFull, Goto
  <2> HIDE DEF g
  <2> QED
    BY Zenon, <2>3, <2>4, ReleaseInv
<1>2. CASE StartEnds(c)
  <2> DEFINE x == IF h = 2 THEN "complete" ELSE "thread"
             g == [f EXCEPT !.pc = x]
  <2>1. f.pc = "start" /\ ~f.spin
    BY <1>2 DEF StartEnds, Here
  <2>2. g \in Frames /\ g.pc = x /\ g.spin = f.spin
    BY <1>0 DEF Frames, ThreadPcs, HandlerPcs
  <2>3. /\ FrameOK(h, g) /\ Depth(f) = Depth(g) + 1
        /\ HeldAt(h, f) = {"tx"} /\ HeldAt(h, g) = {} /\ "tx" \in Locks
    BY <1>0, <2>1, <2>2 DEF FrameOK, ThreadPcs, HandlerPcs, Depth, HeldAt, Locks
  <2>4. stack' = With(c, g) /\ Release(c, "tx")
    BY <1>2 DEF StartEnds, Goto, Handler, Level
  <2> HIDE DEF g
  <2> QED
    BY Zenon, <2>3, <2>4, ReleaseInv
<1>3. CASE CharsEnd(c)
  <2> DEFINE x == IF h = 2 THEN "getc" ELSE "thread"
             l == IF h = 2 THEN "cons" ELSE "pr"
             g == [f EXCEPT !.pc = x]
  <2>1. f.pc = "chars" /\ ~f.spin
    BY <1>3 DEF CharsEnd, Here
  <2>2. g \in Frames /\ g.pc = x /\ g.spin = f.spin
    BY <1>0 DEF Frames, ThreadPcs, HandlerPcs
  <2>3. /\ FrameOK(h, g) /\ Depth(f) = Depth(g) + 1
        /\ HeldAt(h, f) = {l} /\ HeldAt(h, g) = {} /\ l \in Locks
    BY <1>0, <2>1, <2>2 DEF FrameOK, ThreadPcs, HandlerPcs, Depth, HeldAt, Locks
  <2>4. stack' = With(c, g) /\ Release(c, l)
    BY <1>3 DEF CharsEnd, Goto, Handler, Level
  <2> HIDE DEF g, l
  <2> QED
    BY Zenon, <2>3, <2>4, ReleaseInv
<1> QED
  BY <1>1, <1>2, <1>3

\* A stack of one frame, and another on top.
LEMMA Pushed ==
  ASSUME NEW S, NEW s \in Seq(S), NEW g \in S, Len(s) = 1
  PROVE  /\ Append(s, g) \in Seq(S) /\ Len(Append(s, g)) = 2
         /\ Append(s, g)[1] = s[1] /\ Append(s, g)[2] = g
<1>1. Append(s, g)[Len(s) + 1] = g
  BY AppendProperties
<1>2. Len(s) + 1 = 2
  OBVIOUS
<1>3. Append(s, g)[2] = g
  BY Zenon, <1>1, <1>2
<1>4. Append(s, g) \in Seq(S) /\ Len(Append(s, g)) = Len(s) + 1
  BY AppendProperties
<1>5. Append(s, g)[1] = s[1]
  OBVIOUS
<1> QED
  BY Zenon, <1>2, <1>3, <1>4, <1>5

\* An interrupt finds its CPU with no lock held; its return finds it so again.
LEMMA InterruptInv ==
  ASSUME IInv, NEW c \in CPUs, DevIntr(c) \/ Complete(c)
  PROVE  IInv'
<1> DEFINE s == stack[c]
           f == Top(c)
           h == Level(c)
<1>0. /\ f \in Frames /\ FrameOK(h, f) /\ h \in {1, 2} /\ Agrees(cpu[c], h, f)
      /\ s \in Seq(Frames) /\ Len(s) \in {1, 2} /\ (Len(s) = 2 => Outside(s[1]))
      /\ f = s[Len(s)] /\ h = Len(s)
      /\ \A l \in Locks : holder[l] = c <=> l \in HeldAt(h, f)
  BY AtTop DEF LocalOK, Level, Top
<1>1. CASE DevIntr(c)
  <2> DEFINE g == Frame("getc")
             t == Append(s, g)
  <2>1. cpu[c].intr = TRUE
    BY <1>0, <1>1 DEF DevIntr, Agrees, CpuRecs
  <2>2. Depth(f) = 0 /\ Len(s) = 1
    BY <1>0, <2>1 DEF Agrees
  <2>3. Outside(f) /\ HeldAt(h, f) = {}
    <3>1. f.pc \in ThreadPcs /\ ~f.spin
      BY <1>0, <2>2 DEF Depth, FrameOK
    <3>2. f.pc \notin {"lsr", "sync", "full", "start", "thr", "chars"}
      BY <2>2 DEF Depth
    <3> HIDE DEF f, h
    <3> QED
      BY <3>1, <3>2 DEF Outside, ThreadPcs, HeldAt
  <2>4. g \in Frames /\ g.pc = "getc" /\ g.spin = FALSE
    BY DEF Frame, Frames, HandlerPcs
  <2>5. FrameOK(2, g) /\ Depth(g) = 0 /\ HeldAt(2, g) = {}
    BY <2>4 DEF FrameOK, HandlerPcs, Depth, HeldAt
  <2>6. t \in Seq(Frames) /\ Len(t) = 2 /\ t[1] = f /\ t[2] = g
    <3>1. s \in Seq(Frames) /\ g \in Frames /\ Len(s) = 1 /\ f = s[1]
      BY <1>0, <2>2, <2>4
    <3> HIDE DEF s, f, g
    <3>2. /\ Append(s, g) \in Seq(Frames) /\ Len(Append(s, g)) = 2
          /\ Append(s, g)[1] = s[1] /\ Append(s, g)[2] = g
      BY <3>1, Pushed
    <3> QED
      BY Zenon, <3>1, <3>2
  <2>7. /\ DOMAIN cpu' = CPUs /\ cpu'[c] = [cpu[c] EXCEPT !.intr = FALSE]
        /\ \A d \in CPUs \ {c} : cpu'[d] = cpu[d]
    BY <1>1 DEF DevIntr, IInv
  <2>8. Agrees(cpu'[c], 2, g)
    <3>1. cpu[c] \in CpuRecs /\ cpu[c].noff = 0
      BY Zenon, <1>0, <2>2 DEF Agrees
    <3>2. cpu'[c] \in CpuRecs /\ cpu'[c].noff = 0 /\ cpu'[c].intr = FALSE
      BY <2>7, <3>1 DEF CpuRecs
    <3> QED
      BY <2>5, <3>2 DEF Agrees
  <2>9. LocalOK(cpu'[c], t)
    BY <2>3, <2>5, <2>6, <2>8 DEF LocalOK
  <2>10. \A l \in Locks : holder'[l] = c <=> l \in HeldAt(Len(t), t[Len(t)])
    BY <1>0, <1>1, <2>3, <2>5, <2>6 DEF DevIntr
  <2>11. stack' = [stack EXCEPT ![c] = t] /\ UNCHANGED holder /\ paniced' = FALSE
    BY <1>1 DEF DevIntr, IInv
  <2> HIDE DEF t
  <2> QED
    BY Zenon, <2>7, <2>9, <2>10, <2>11, OneCPU DEF IInv
<1>2. CASE Complete(c)
  <2> DEFINE t == <<s[1]>>
  <2>1. f.pc = "complete" /\ ~f.spin
    BY <1>2 DEF Complete, Here
  <2>2. h = 2 /\ Depth(f) = 0 /\ HeldAt(h, f) = {}
    BY <1>0, <2>1 DEF FrameOK, ThreadPcs, Depth, HeldAt
  <2>3. s[1] \in Frames /\ Outside(s[1])
    <3>1. s \in Seq(Frames) /\ Len(s) = 2 /\ Outside(s[1])
      BY <1>0, <2>2
    <3> HIDE DEF s
    <3>2. 1 \in 1..Len(s)
      BY <3>1
    <3> QED
      BY Zenon, <3>1, <3>2, ElementOfSeq
  <2>4. FrameOK(1, s[1]) /\ Depth(s[1]) = 0 /\ HeldAt(1, s[1]) = {}
    BY <2>3 DEF FrameOK, Outside, ThreadPcs, Depth, HeldAt
  <2>5. t \in Seq(Frames) /\ Len(t) = 1 /\ t[1] = s[1]
    BY <2>3
  <2>6. /\ DOMAIN cpu' = CPUs /\ cpu'[c] = [cpu[c] EXCEPT !.intr = TRUE]
        /\ \A d \in CPUs \ {c} : cpu'[d] = cpu[d]
    BY <1>2 DEF Complete, IInv
  <2>7. Agrees(cpu'[c], 1, s[1])
    <3>1. cpu[c] \in CpuRecs /\ cpu[c].noff = 0
      BY Zenon, <1>0, <2>2 DEF Agrees
    <3>2. cpu'[c] \in CpuRecs /\ cpu'[c].noff = 0 /\ cpu'[c].intr = TRUE
      BY <2>6, <3>1 DEF CpuRecs
    <3> QED
      BY <2>4, <3>2 DEF Agrees
  <2>8. LocalOK(cpu'[c], t)
    BY <2>4, <2>5, <2>7 DEF LocalOK
  <2>9. \A l \in Locks : holder'[l] = c <=> l \in HeldAt(Len(t), t[Len(t)])
    BY <1>0, <1>2, <2>2, <2>4, <2>5 DEF Complete
  <2>10. stack' = [stack EXCEPT ![c] = t] /\ UNCHANGED holder /\ paniced' = FALSE
    BY <1>2 DEF Complete, IInv
  <2> HIDE DEF t
  <2> QED
    BY Zenon, <2>6, <2>8, <2>9, <2>10, OneCPU DEF IInv
<1> QED
  BY <1>1, <1>2

\* A stack whose sleeping frame has been woken.
Awake(s) == [i \in DOMAIN s |-> IF s[i].pc = "asleep" THEN Frame("uartputc") ELSE s[i]]

\* It is as good as the one before.
LEMMA Woken ==
  ASSUME NEW k, NEW s, LocalOK(k, s)
  PROVE  /\ LocalOK(k, Awake(s)) /\ Len(Awake(s)) = Len(s)
         /\ HeldAt(Len(Awake(s)), Awake(s)[Len(Awake(s))]) = HeldAt(Len(s), s[Len(s)])
         /\ s[Len(s)].pc # "asleep" => Awake(s)[Len(Awake(s))] = s[Len(s)]
<1> DEFINE G(f) == IF f.pc = "asleep" THEN Frame("uartputc") ELSE f
           w == [i \in DOMAIN s |-> G(s[i])]
<1>1. s \in Seq(Frames) /\ Len(s) \in {1, 2} /\ DOMAIN s = 1..Len(s)
  BY DEF LocalOK
<1>2. Frame("uartputc") \in Frames /\ Frame("uartputc").pc = "uartputc" /\ Frame("uartputc").spin = FALSE
  BY DEF Frame, Frames, ThreadPcs
<1>3. \A f \in Frames : G(f) \in Frames
  BY <1>2
<1>4. w \in [1..Len(s) -> Frames]
  BY <1>1, <1>3
<1>5. w \in Seq(Frames) /\ Len(w) = Len(s)
  <2>1. w \in Seq(Frames)
    BY <1>1, <1>4, SeqDef
  <2>2. DOMAIN w = 1..Len(w) /\ DOMAIN w = 1..Len(s) /\ Len(w) \in Nat /\ Len(s) \in Nat
    BY <1>1, <1>4, <2>1, LenProperties
  <2> QED
    BY <1>1, <2>1, <2>2
<1>6. w[Len(w)] = G(s[Len(s)]) /\ w[1] = G(s[1])
  BY <1>1, <1>5
<1> DEFINE f == s[Len(s)]
<1>7. FrameOK(Len(s), f) /\ Agrees(k, Len(s), f) /\ (Len(s) = 2 => Outside(s[1]))
  BY DEF LocalOK
<1>8. /\ FrameOK(Len(s), G(f)) /\ Depth(G(f)) = Depth(f)
      /\ HeldAt(Len(s), G(f)) = HeldAt(Len(s), f)
  <2>1. CASE f.pc # "asleep"
    BY <1>7, <2>1
  <2>2. CASE f.pc = "asleep"
    <3>1. G(f) = Frame("uartputc") /\ ~f.spin /\ Len(s) # 2
      BY <1>7, <2>2 DEF FrameOK, HandlerPcs, Acquires
    <3> QED
      BY <1>2, <2>2, <3>1 DEF FrameOK, ThreadPcs, Depth, HeldAt
  <2> QED
    BY <2>1, <2>2
<1>9. Len(s) = 2 => Outside(G(s[1]))
  BY <1>2, <1>7 DEF Outside
<1>10. Agrees(k, Len(s), G(f))
  BY <1>7, <1>8 DEF Agrees
<1>11. LocalOK(k, w)
  BY <1>1, <1>5, <1>6, <1>8, <1>9, <1>10 DEF LocalOK
<1>12. w = Awake(s)
  BY Zenon DEF Awake
<1> HIDE DEF w, f
<1>13. HeldAt(Len(w), w[Len(w)]) = HeldAt(Len(s), f)
  BY Zenon, <1>5, <1>6, <1>8 DEF f
<1>14. f.pc # "asleep" => w[Len(w)] = f
  BY Zenon, <1>6 DEF f
<1> QED
  BY Zenon, <1>5, <1>11, <1>12, <1>13, <1>14 DEF f

\* uartstart wakes the sleepers and goes on.
LEMMA StartInv ==
  ASSUME IInv, NEW c \in CPUs, Start(c)
  PROVE  IInv'
<1> DEFINE w == Awake(stack[c])
           g == [Top(c) EXCEPT !.pc = "thr"]
           t == [w EXCEPT ![Len(w)] = g]
<1>1. \A d \in CPUs : /\ LocalOK(cpu[d], Awake(stack[d])) /\ Len(Awake(stack[d])) = Len(stack[d])
                      /\ HeldAt(Len(Awake(stack[d])), Awake(stack[d])[Len(Awake(stack[d]))])
                           = HeldAt(Level(d), Top(d))
                      /\ Top(d).pc # "asleep" => Awake(stack[d])[Len(Awake(stack[d]))] = Top(d)
  BY Zenon, Woken DEF IInv, Level, Top
<1>2. Top(c) \in Frames /\ Top(c).pc = "start" /\ ~Top(c).spin /\ FrameOK(Level(c), Top(c))
  BY AtTop DEF Start, Here
<1>3. g \in Frames /\ g.pc = "thr" /\ g.spin = Top(c).spin
  BY <1>2 DEF Frames, ThreadPcs
<1>4. /\ FrameOK(Level(c), g) /\ Depth(g) = Depth(Top(c))
      /\ HeldAt(Level(c), g) = HeldAt(Level(c), Top(c))
  BY <1>2, <1>3 DEF FrameOK, ThreadPcs, HandlerPcs, Depth, HeldAt
<1>5. Agrees(cpu[c], Level(c), g)
  BY <1>4, AtTop DEF Agrees
<1>6. Len(w) = Len(stack[c]) /\ w[Len(w)] = Top(c) /\ LocalOK(cpu[c], w)
  BY <1>1, <1>2
<1>7. LocalOK(cpu[c], t) /\ Len(t) = Len(w) /\ t[Len(t)] = g
  <2>1. FrameOK(Len(w), g) /\ Agrees(cpu[c], Len(w), g)
    BY Zenon, <1>4, <1>5, <1>6 DEF Level
  <2> HIDE DEF w, g
  <2> QED
    <3>1. LocalOK(cpu[c], t) /\ Len(t) = Len(w) /\ t[Len(w)] = g
      BY Zenon, <1>6, <2>1, TopReplaced
    <3> QED
      BY Zenon, <3>1
<1>8. /\ DOMAIN stack' = CPUs /\ stack'[c] = t
      /\ \A d \in CPUs \ {c} : stack'[d] = Awake(stack[d])
  <2>1. Wakeup = [d \in CPUs |-> Awake(stack[d])]
    BY Zenon DEF Wakeup, Awake
  <2>2. stack' = [Wakeup EXCEPT ![c] = [w EXCEPT ![Len(stack[c])] = [w[Len(stack[c])] EXCEPT !.pc = "thr"]]]
    BY <2>1 DEF Start
  <2>3. stack' = [Wakeup EXCEPT ![c] = t]
    BY Zenon, <1>6, <2>2
  <2> HIDE DEF t
  <2> QED
    BY <2>1, <2>3
<1>9. UNCHANGED <<cpu, holder, paniced>>
  BY DEF Start
<1> HIDE DEF w, t, g
<1>10. \A d \in CPUs : LocalOK(cpu'[d], stack'[d])
  BY Zenon, <1>1, <1>7, <1>8, <1>9
<1>11. HeldOK'
  <2> SUFFICES ASSUME NEW d \in CPUs, NEW l \in Locks
               PROVE  holder'[l] = d <=> l \in HeldAt(Len(stack'[d]), stack'[d][Len(stack'[d])])
    BY Zenon DEF HeldOK, Level, Top
  <2>1. holder'[l] = d <=> l \in HeldAt(Level(d), Top(d))
    BY Zenon, <1>9, AtTop
  <2>2. CASE d = c
    <3>1. HeldAt(Len(stack'[c]), stack'[c][Len(stack'[c])]) = HeldAt(Level(c), g)
      BY Zenon, <1>6, <1>7, <1>8 DEF Level
    <3> QED
      BY Zenon, <1>4, <2>1, <2>2, <3>1
  <2>3. CASE d # c
    BY Zenon, <1>1, <1>8, <2>1, <2>3
  <2> QED
    BY <2>2, <2>3
<1> QED
  BY Zenon, <1>8, <1>9, <1>10, <1>11 DEF IInv

-------------------------------------------------------------------------------
\* Every step of a thread, of an interrupt and of the device preserves it.
LEMMA NextInv == IInv /\ [UartNext]_uartVars => IInv'
<1> SUFFICES ASSUME IInv, [UartNext]_uartVars PROVE IInv'
  OBVIOUS
<1>1. CASE UNCHANGED uartVars
  BY Zenon, <1>1 DEF uartVars, IInv, HeldOK, Level, Top
<1>2. ASSUME NEW c \in CPUs, Code(c) PROVE IInv'
  BY Zenon, <1>2, AcquireInv, SwapInv, ThreadMovesInv, OtherMovesInv, SyncInv, ReleasesInv,
     StartInv, InterruptInv DEF Code
<1>3. ASSUME NEW c \in CPUs, Write(c) \/ \E n \in EchoCounts : Printf(c, n) PROVE IInv'
  BY Zenon, <1>3, ThreadMovesInv
<1>4. ASSUME NEW c \in CPUs, DevIntr(c) PROVE IInv'
  BY Zenon, <1>4, InterruptInv
<1>5. CASE Emit \/ Arrives
  <2>1. UNCHANGED <<cpu, stack, holder, paniced>>
    BY <1>5 DEF Emit, Arrives
  <2> QED
    BY Zenon, <2>1 DEF IInv, HeldOK, Level, Top
<1> QED
  BY Zenon, <1>1, <1>2, <1>3, <1>4, <1>5 DEF UartNext

\* The nesting of push_off and the locks held follow from where each CPU is.
THEOREM UartInvariant == UartSpec => []IInv
<1>1. UartInit => IInv
  BY InitInv
<1>2. IInv /\ [UartNext]_uartVars => IInv'
  BY NextInv
<1> QED
  BY <1>1, <1>2, PTL DEF UartSpec

\* acquire, release and pop_off never panic, an interrupt never needs a lock
\* of the code it interrupted, and a thread outside its locks has interrupts
\* on, whatever the number of CPUs and of characters.
THEOREM InterruptsNest == UartSpec => []LocksWithInterruptsOff
<1>1. IInv => LocksWithInterruptsOff
  <2> SUFFICES ASSUME IInv PROVE LocksWithInterruptsOff
    OBVIOUS
  <2>1. \A c \in CPUs : Top(c).pc \in {"thread", "asleep"} => cpu[c].intr
    <3> SUFFICES ASSUME NEW c \in CPUs, Top(c).pc \in {"thread", "asleep"} PROVE cpu[c].intr
      OBVIOUS
    <3>1. FrameOK(Level(c), Top(c)) /\ Agrees(cpu[c], Level(c), Top(c)) /\ Level(c) \in {1, 2}
      BY AtTop
    <3>2. Depth(Top(c)) = 0 /\ Level(c) # 2
      BY <3>1 DEF FrameOK, HandlerPcs, Acquires, Depth
    <3> QED
      BY <3>1, <3>2 DEF Agrees
  <2>2. \A c \in CPUs : cpu[c].intr => cpu[c].noff = 0 /\ \A l \in Locks : holder[l] # c
    <3> SUFFICES ASSUME NEW c \in CPUs, cpu[c].intr
                 PROVE  cpu[c].noff = 0 /\ \A l \in Locks : holder[l] # c
      OBVIOUS
    <3>1. /\ Agrees(cpu[c], Level(c), Top(c)) /\ Top(c) \in Frames
          /\ \A l \in Locks : holder[l] = c <=> l \in HeldAt(Level(c), Top(c))
      BY AtTop
    <3>2. Depth(Top(c)) = 0
      BY <3>1 DEF Agrees, CpuRecs
    <3>3. HeldAt(Level(c), Top(c)) = {}
      BY <3>2 DEF Depth, HeldAt
    <3> QED
      BY <3>1, <3>2, <3>3 DEF Agrees
  <2> QED
    BY <2>1, <2>2 DEF LocksWithInterruptsOff, IInv
<1> QED
  BY <1>1, UartInvariant, PTL
===============================================================================
