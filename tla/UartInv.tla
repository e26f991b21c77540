-------------------------------- MODULE UartInv --------------------------------
(***************************************************************************)
(* The inductive invariant behind the spin locks and interrupts of console *)
(* output: how deep push_off is nested, and which lock is held, follows    *)
(* from where a CPU is.                                                    *)
(***************************************************************************)
EXTENDS Uart, Integers

ThreadPcs ==
  {"thread", "printf", "uartputc", "full", "asleep", "start", "thr", "chars", "lsr", "sync"}
HandlerPcs ==
  {"getc", "consoleintr", "hstart", "start", "thr", "chars", "lsr", "sync", "complete"}

Frames == [pc : ThreadPcs \cup HandlerPcs, spin : BOOLEAN, n : Int]
CpuRecs == [intr : BOOLEAN, noff : Nat, intena : BOOLEAN]

\* Level 2 of a stack is the handler, level 1 the thread.
Level(c) == Len(stack[c])

\* Frame f can be at level v.
FrameOK(v, f) ==
  /\ f \in Frames
  /\ IF v = 2 THEN f.pc \in HandlerPcs ELSE f.pc \in ThreadPcs
  /\ f.spin => f.pc \in Acquires

\* The calls of push_off not yet undone at f.
Depth(f) ==
  IF f.pc \in {"lsr", "sync"} THEN 2
  ELSE IF f.spin \/ f.pc \in {"full", "start", "thr", "chars"} THEN 1 ELSE 0

\* The locks held at f.
HeldAt(v, f) ==
  IF f.pc \in {"full", "start", "thr"} THEN {"tx"}
  ELSE IF f.pc \notin {"chars", "lsr", "sync"} THEN {}
  ELSE IF v = 2 THEN {"cons"} ELSE {"pr"}

\* A place where a thread can be interrupted.
Outside(f) == ~f.spin /\ f.pc \in {"thread", "asleep", "uartputc", "printf"}

\* struct cpu and the interrupt flag of a CPU at f.
Agrees(k, v, f) ==
  /\ k \in CpuRecs
  /\ k.noff = Depth(f)
  /\ k.intr <=> Depth(f) = 0 /\ v # 2
  /\ Depth(f) > 0 => (k.intena <=> v # 2)

\* What one CPU's stack s and record k look like.
LocalOK(k, s) ==
  /\ s \in Seq(Frames) /\ Len(s) \in {1, 2}
  /\ FrameOK(Len(s), s[Len(s)])
  /\ Len(s) = 2 => Outside(s[1])
  /\ Agrees(k, Len(s), s[Len(s)])

\* A lock is held by the CPU that is at a place under it.
HeldOK ==
  \A c \in CPUs, l \in Locks : holder[l] = c <=> l \in HeldAt(Level(c), Top(c))

IInv ==
  /\ DOMAIN cpu = CPUs /\ DOMAIN stack = CPUs /\ DOMAIN holder = Locks
  /\ \A c \in CPUs : LocalOK(cpu[c], stack[c])
  /\ HeldOK
  /\ paniced = FALSE
===============================================================================
