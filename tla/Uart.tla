---------------------------------- MODULE Uart ----------------------------------
(***************************************************************************)
(* Console output and interrupts: the transmit ring of kernel/uart.c, its  *)
(* interrupt handler, printf, and the spin locks and push_off/pop_off of   *)
(* kernel/spinlock.c under them.  Each CPU has a stack of frames: the      *)
(* kernel thread it runs and, on top, the interrupt that it has taken.     *)
(*                                                                         *)
(* The UART and the PLIC are external.  The UART is idle when its FIFO is  *)
(* empty; it interrupts when it becomes so and when a character arrives.   *)
(* Characters written by processes are numbered, modulo more than can be   *)
(* under way: the ring and one in the UART.  All others are Echo.          *)
(*                                                                         *)
(* A CPU holds one of these locks at a time, so that push_off nests only   *)
(* where uartputc_sync is called under one.  ^P is left out: procdump's    *)
(* printf would take pr.lock under cons.lock.                              *)
(***************************************************************************)
EXTENDS Naturals, Sequences, FiniteSets

CONSTANTS
  CPUs, NoCPU,
  UART_TX_BUF_SIZE,
  UINT64,     \* uart_tx_w and uart_tx_r wrap around
  EchoCounts, \* characters that consoleintr echoes, or printf prints
  NOISE       \* bound: how many characters are typed and printfs called

ASSUME UartAssumption ==
  /\ NoCPU \notin CPUs
  /\ UART_TX_BUF_SIZE \in Nat \ {0}
  /\ UINT64 % UART_TX_BUF_SIZE = 0 /\ UINT64 > UART_TX_BUF_SIZE + 1
  /\ EchoCounts \subseteq Nat /\ NOISE \in Nat

VARIABLES
  cpu,        \* struct cpu: noff, intena; and SIE of sstatus
  stack,      \* what each CPU executes, the innermost last
  holder,     \* the CPU that holds each lock
  txbuf, txw, txr,  \* uart_tx_buf and its indices
  txc,        \* uartstart's c, or NoChar
  fifo,       \* the UART: what is being sent
  rx,         \* and what has arrived
  irq,        \* the PLIC: "none", "pending" or "claimed", or claimed and again pending
  sent, due,  \* numbers of the next character to be written, and sent out
  noise,
  paniced     \* acquire or pop_off has called panic

ring == <<txbuf, txw, txr, txc>>
device == <<fifo, rx, irq, due, noise>>
uartVars == <<cpu, stack, holder, ring, device, sent, paniced>>

Locks == {"tx", "cons", "pr"}
NUMBERS == UINT64
NoChar == NUMBERS
Echo == NUMBERS + 1

Frame(pc) == [pc |-> pc, spin |-> FALSE, n |-> 0]

UartInit ==
  /\ cpu = [c \in CPUs |-> [intr |-> TRUE, noff |-> 0, intena |-> FALSE]]
  /\ stack = [c \in CPUs |-> <<Frame("thread")>>]
  /\ holder = [l \in Locks |-> NoCPU]
  /\ txbuf = [i \in 0..(UART_TX_BUF_SIZE - 1) |-> 0] /\ txw = 0 /\ txr = 0 /\ txc = NoChar
  /\ fifo = <<>> /\ rx = 0 /\ irq = "none" /\ sent = 0 /\ due = 0
  /\ noise = NOISE /\ paniced = FALSE

Top(c) == stack[c][Len(stack[c])]
Here(c, pc) == Top(c).pc = pc /\ ~Top(c).spin
Handler(c) == Len(stack[c]) = 2
With(c, f) == [stack EXCEPT ![c][Len(stack[c])] = f]
Goto(c, pc) == With(c, [Top(c) EXCEPT !.pc = pc])

-------------------------------------------------------------------------------
(* kernel/spinlock.c.                                                      *)

PushOffForgets(k) == [intr |-> FALSE, noff |-> k.noff + 1, intena |-> k.intr]

push_off(k) == [intr |-> FALSE, noff |-> k.noff + 1, intena |-> IF k.noff = 0 THEN k.intr ELSE k.intena]

pop_off(k) == [k EXCEPT !.noff = @ - 1, !.intr = k.noff = 1 /\ k.intena]
PopOffPanics(k) == k.intr \/ k.noff < 1

\* The lock a place in the code takes, and where it goes on.
Wants(pc) ==
  CASE pc \in {"uartputc", "hstart"} -> "tx" [] pc = "consoleintr" -> "cons" [] OTHER -> "pr"
Inside(pc) ==
  CASE pc = "uartputc" -> "full" [] pc = "hstart" -> "start" [] OTHER -> "chars"
Acquires == {"uartputc", "hstart", "consoleintr", "printf"}

\* acquire: push_off, a panic if this CPU has the lock, and then the loop.
Acquire(c) ==
  /\ Top(c).pc \in Acquires /\ ~Top(c).spin
  /\ cpu' = [cpu EXCEPT ![c] = push_off(@)]
  /\ stack' = With(c, [Top(c) EXCEPT !.spin = TRUE])
  /\ paniced' = (paniced \/ holder[Wants(Top(c).pc)] = c)
  /\ UNCHANGED <<holder, ring, device, sent>>

\* The atomic swap finds the lock free.
Swap(c) ==
  /\ Top(c).spin /\ holder[Wants(Top(c).pc)] = NoCPU
  /\ holder' = [holder EXCEPT ![Wants(Top(c).pc)] = c]
  /\ stack' = With(c, [Top(c) EXCEPT !.pc = Inside(@), !.spin = FALSE])
  /\ UNCHANGED <<cpu, ring, device, sent, paniced>>

\* release: the lock is free before interrupts come on again.
Release(c, l) ==
  /\ holder' = [holder EXCEPT ![l] = NoCPU]
  /\ cpu' = [cpu EXCEPT ![c] = pop_off(@)]
  /\ paniced' = (paniced \/ holder[l] # c \/ PopOffPanics(cpu[c]))

-------------------------------------------------------------------------------
(* consolewrite and printf, called by the thread on c.                     *)

Write(c) ==
  /\ Here(c, "thread")
  /\ stack' = Goto(c, "uartputc")
  /\ UNCHANGED <<cpu, holder, ring, device, sent, paniced>>

\* printf of n characters.
Printf(c, n) ==
  /\ Here(c, "thread") /\ noise > 0
  /\ stack' = With(c, [Frame("printf") EXCEPT !.n = n])
  /\ noise' = noise - 1
  /\ UNCHANGED <<cpu, holder, ring, fifo, rx, irq, due, sent, paniced>>

Inc64(x) == (x + 1) % UINT64
FullNever == FALSE

Full == txw = (txr + UART_TX_BUF_SIZE) % UINT64

\* uartputc with the lock: sleep, which lets the scheduler run with
\* interrupts on, or store the character.
PutFull(c) ==
  /\ Here(c, "full") /\ Full
  /\ stack' = Goto(c, "asleep")
  /\ Release(c, "tx")
  /\ UNCHANGED <<ring, device, sent>>

Put(c) ==
  /\ Here(c, "full") /\ ~Full
  /\ txbuf' = [txbuf EXCEPT ![txw % UART_TX_BUF_SIZE] = sent]
  /\ txw' = Inc64(txw)
  /\ sent' = (sent + 1) % NUMBERS
  /\ stack' = Goto(c, "start")
  /\ UNCHANGED <<cpu, holder, txr, txc, device, paniced>>

-------------------------------------------------------------------------------
(* uartstart, with uart_tx_lock.                                           *)

LSR_TX_IDLE == fifo = <<>>

WakeOne ==
  LET asleep == {c \in CPUs : stack[c][1].pc = "asleep"}
  IN IF asleep = {} THEN stack
     ELSE [stack EXCEPT ![CHOOSE c \in asleep : TRUE][1] = Frame("uartputc")]

\* wakeup(&uart_tx_r): the sleepers go for the lock again.
Wakeup ==
  [c \in CPUs |-> [i \in DOMAIN stack[c] |->
     IF stack[c][i].pc = "asleep" THEN Frame("uartputc") ELSE stack[c][i]]]

\* The UART is idle: take a character, and then write it to THR.
Start(c) ==
  /\ Here(c, "start") /\ txw # txr /\ LSR_TX_IDLE
  /\ txc' = txbuf[txr % UART_TX_BUF_SIZE]
  /\ txr' = Inc64(txr)
  /\ stack' = [Wakeup EXCEPT ![c][Len(stack[c])].pc = "thr"]
  /\ UNCHANGED <<cpu, holder, txbuf, txw, device, sent, paniced>>

StartWrite(c) ==
  /\ Here(c, "thr")
  /\ fifo' = Append(fifo, txc)
  /\ txc' = NoChar
  /\ stack' = Goto(c, "start")
  /\ UNCHANGED <<cpu, holder, txbuf, txw, txr, rx, irq, due, noise, sent, paniced>>

\* Nothing to send, or the UART is busy: return, and release the lock.
StartEnds(c) ==
  /\ Here(c, "start") /\ (txw = txr \/ ~LSR_TX_IDLE)
  /\ stack' = Goto(c, IF Handler(c) THEN "complete" ELSE "thread")
  /\ Release(c, "tx")
  /\ UNCHANGED <<ring, device, sent>>

-------------------------------------------------------------------------------
(* The characters of printf and of an echo: consputc, uartputc_sync.       *)

SyncOff(c) ==
  /\ Here(c, "chars") /\ Top(c).n > 0
  /\ cpu' = [cpu EXCEPT ![c] = push_off(@)]
  /\ stack' = Goto(c, "lsr")
  /\ UNCHANGED <<holder, ring, device, sent, paniced>>

SyncIdle(c) ==
  /\ Here(c, "lsr") /\ LSR_TX_IDLE
  /\ stack' = Goto(c, "sync")
  /\ UNCHANGED <<cpu, holder, ring, device, sent, paniced>>

SyncWrite(c) ==
  /\ Here(c, "sync")
  /\ fifo' = Append(fifo, Echo)
  /\ cpu' = [cpu EXCEPT ![c] = pop_off(@)]
  /\ paniced' = (paniced \/ PopOffPanics(cpu[c]))
  /\ stack' = With(c, [Top(c) EXCEPT !.pc = "chars", !.n = @ - 1])
  /\ UNCHANGED <<holder, ring, rx, irq, due, noise, sent>>

CharsEnd(c) ==
  /\ Here(c, "chars") /\ Top(c).n = 0
  /\ stack' = Goto(c, IF Handler(c) THEN "getc" ELSE "thread")
  /\ Release(c, IF Handler(c) THEN "cons" ELSE "pr")
  /\ UNCHANGED <<ring, device, sent>>

-------------------------------------------------------------------------------
(* Interrupts: devintr and uartintr.                                       *)

\* The hart takes the trap, with interrupts off, and plic_claim.
DevIntr(c) ==
  /\ cpu[c].intr /\ irq = "pending"
  /\ irq' = "claimed"
  /\ cpu' = [cpu EXCEPT ![c].intr = FALSE]
  /\ stack' = [stack EXCEPT ![c] = Append(@, Frame("getc"))]
  /\ UNCHANGED <<holder, ring, fifo, rx, due, noise, sent, paniced>>

\* uartgetc returns a character other than ^P, and consoleintr echoes n.
Getc(c, n) ==
  /\ Here(c, "getc") /\ rx > 0
  /\ rx' = rx - 1
  /\ stack' = With(c, [Frame("consoleintr") EXCEPT !.n = n])
  /\ UNCHANGED <<cpu, holder, ring, fifo, irq, due, noise, sent, paniced>>

\* It returns -1: send buffered characters.
GetcNone(c) ==
  /\ Here(c, "getc") /\ rx = 0
  /\ stack' = Goto(c, "hstart")
  /\ UNCHANGED <<cpu, holder, ring, device, sent, paniced>>

\* plic_complete, and sret restores SIE.
Complete(c) ==
  /\ Here(c, "complete")
  /\ irq' = IF irq = "again" THEN "pending" ELSE "none"
  /\ cpu' = [cpu EXCEPT ![c].intr = TRUE]
  /\ stack' = [stack EXCEPT ![c] = <<stack[c][1]>>]
  /\ UNCHANGED <<holder, ring, fifo, rx, due, noise, sent, paniced>>

-------------------------------------------------------------------------------
(* The UART and the PLIC.                                                  *)

Raised == IF irq \in {"claimed", "again"} THEN "again" ELSE "pending"

\* A character goes out; the UART interrupts when there is no other.
Emit ==
  /\ fifo # <<>>
  /\ fifo' = Tail(fifo)
  /\ due' = IF Head(fifo) = Echo THEN due ELSE (due + 1) % NUMBERS
  /\ irq' = IF fifo' = <<>> THEN Raised ELSE irq
  /\ UNCHANGED <<cpu, stack, holder, ring, rx, noise, sent, paniced>>

\* A character is typed.
Arrives ==
  /\ noise > 0
  /\ noise' = noise - 1 /\ rx' = rx + 1 /\ irq' = Raised
  /\ UNCHANGED <<cpu, stack, holder, ring, fifo, due, sent, paniced>>

-------------------------------------------------------------------------------
Code(c) ==
  \/ Acquire(c) \/ Swap(c)
  \/ PutFull(c) \/ Put(c) \/ Start(c) \/ StartWrite(c) \/ StartEnds(c)
  \/ SyncOff(c) \/ SyncIdle(c) \/ SyncWrite(c) \/ CharsEnd(c)
  \/ (\E n \in EchoCounts : Getc(c, n)) \/ GetcNone(c) \/ Complete(c)

UartNext ==
  \/ \E c \in CPUs : Code(c) \/ Write(c) \/ (\E n \in EchoCounts : Printf(c, n)) \/ DevIntr(c)
  \/ Emit \/ Arrives

UartSpec == UartInit /\ [][UartNext]_uartVars

-------------------------------------------------------------------------------
(* Properties.                                                             *)

Ring == [i \in 1..((txw + UINT64 - txr) % UINT64) |-> txbuf[((txr + i - 1) % UINT64) % UART_TX_BUF_SIZE]]
IsNumber(x) == x # Echo

\* The characters that were written and have not been sent out yet are those
\* in the UART, in uartstart's hands and in the ring, in the order in which
\* they were written: none is lost, repeated or overtaken, although echoes
\* and printf write to the UART without the lock.
TxInOrder ==
  /\ Len(Ring) <= UART_TX_BUF_SIZE
  /\ SelectSeq(fifo, IsNumber) \o (IF txc = NoChar THEN <<>> ELSE <<txc>>) \o Ring
       = [i \in 1..((sent + NUMBERS - due) % NUMBERS) |-> (due + i - 1) % NUMBERS]
  /\ Len(fifo) <= Cardinality(CPUs)

\* acquire, release and pop_off never panic; a CPU with interrupts on holds
\* no lock, so an interrupt never needs a lock of the code it interrupted; and
\* a thread that is back outside its locks has interrupts on again.
LocksWithInterruptsOff ==
  /\ ~paniced
  /\ \A c \in CPUs : Top(c).pc \in {"thread", "asleep"} => cpu[c].intr
  /\ \A c \in CPUs : cpu[c].intr => cpu[c].noff = 0 /\ \A l \in Locks : holder[l] # c

\* A process that waits for room in the ring goes on.
WritersResume == \A c \in CPUs : Top(c).pc = "asleep" ~> stack[c][1].pc # "asleep"
===============================================================================
