--------------------------------- MODULE Console ---------------------------------
(***************************************************************************)
(* Console input, kernel/console.c: the UART's interrupt handler hands     *)
(* typed characters to consoleintr, which edits the current line in a ring *)
(* buffer; processes read finished lines.  cons.lock is held for all of    *)
(* consoleintr and from one sleep of consoleread to the next.  Echoing is  *)
(* left out: it writes to the UART and changes nothing here.               *)
(***************************************************************************)
EXTENDS Naturals, Sequences

CONSTANTS
  Readers,          \* processes that read the console
  Counts,           \* lengths of the reads
  INPUT_BUF_SIZE,
  UINT,             \* cons.r, w and e are uint: they wrap around
  None

\* Typed characters that are stored: a plain one, the end of a line, ^D.
Stored == {"a", "nl", "D"}

ASSUME ConsoleAssumption ==
  /\ INPUT_BUF_SIZE \in Nat \ {0}
  /\ UINT \in Nat /\ UINT % INPUT_BUF_SIZE = 0 /\ UINT > INPUT_BUF_SIZE
  /\ Counts \subseteq Nat \ {0}
  /\ None \notin Readers

VARIABLES
  buf, r, w, e,     \* cons: the ring, read, write and edit indices
  lock,             \* cons.lock: the reader in its loop
  pc, left, target, \* consoleread: n and target
  killed

input == <<buf, r, w, e>>
reads == <<lock, pc, left, target, killed>>
vars  == <<input, reads>>

Init ==
  /\ buf = [i \in 0..(INPUT_BUF_SIZE - 1) |-> "a"] /\ r = 0 /\ w = 0 /\ e = 0
  /\ lock = None /\ pc = [p \in Readers |-> "idle"]
  /\ left = [p \in Readers |-> 0] /\ target = [p \in Readers |-> 0]
  /\ killed = [p \in Readers |-> FALSE]

Inc(x) == (x + 1) % UINT
Dec(x) == (x + UINT - 1) % UINT
Diff(x, y) == (x + UINT - y) % UINT
At(x) == buf[x % INPUT_BUF_SIZE]

-------------------------------------------------------------------------------
(* consoleread.                                                            *)

Read(p, n) ==
  /\ pc[p] = "idle" /\ lock = None
  /\ lock' = p /\ pc' = [pc EXCEPT ![p] = "reading"]
  /\ left' = [left EXCEPT ![p] = n] /\ target' = [target EXCEPT ![p] = n]
  /\ UNCHANGED <<input, killed>>

\* sleep returned: cons.lock again.
ReadAgain(p) ==
  /\ pc[p] = "woken" /\ lock = None
  /\ lock' = p /\ pc' = [pc EXCEPT ![p] = "reading"]
  /\ UNCHANGED <<input, left, target, killed>>

\* Back to the caller; a killed process exits, and another may read.
Returns(p) ==
  /\ lock' = None /\ pc' = [pc EXCEPT ![p] = "idle"]
  /\ left' = [left EXCEPT ![p] = 0] /\ target' = [target EXCEPT ![p] = 0]
  /\ killed' = [killed EXCEPT ![p] = FALSE]

\* Nothing to read: return if killed, and sleep otherwise.
ReadWaits(p) ==
  /\ pc[p] = "reading" /\ r = w
  /\ IF killed[p]
     THEN Returns(p)
     ELSE /\ lock' = None /\ pc' = [pc EXCEPT ![p] = "asleep"]
          /\ UNCHANGED <<left, target, killed>>
  /\ UNCHANGED input

\* n < target: this read has got something, and a ^D is kept for the next.
Saved(p) == left[p] < target[p]

ReadEof(p) ==
  /\ pc[p] = "reading" /\ r # w /\ At(r) = "D"
  /\ r' = IF Saved(p) THEN r ELSE Inc(r)
  /\ Returns(p)
  /\ UNCHANGED <<buf, w, e>>

\* A byte; either_copyout may fail.
ReadByte(p) ==
  /\ pc[p] = "reading" /\ r # w /\ At(r) # "D"
  /\ r' = Inc(r)
  /\ \/ Returns(p)                    \* the copy failed, or the last byte
     \/ /\ At(r) # "nl" /\ left[p] > 1
        /\ left' = [left EXCEPT ![p] = @ - 1]
        /\ UNCHANGED <<lock, pc, target, killed>>
  /\ UNCHANGED <<buf, w, e>>

Kill(p) ==
  /\ pc[p] # "idle" /\ ~killed[p]
  /\ killed' = [killed EXCEPT ![p] = TRUE]
  /\ pc' = [pc EXCEPT ![p] = IF @ = "asleep" THEN "woken" ELSE @]
  /\ UNCHANGED <<input, lock, left, target>>

-------------------------------------------------------------------------------
(* consoleintr.                                                            *)

Room == Diff(e, r) < INPUT_BUF_SIZE

WakeNoReader(f) == f

\* wakeup(&cons.r).
WakeReaders(f) == [p \in Readers |-> IF f[p] = "asleep" THEN "woken" ELSE f[p]]

\* default: store the character; wake readers if it ends the line.
IntrStore(c) ==
  /\ lock = None /\ c \in Stored
  /\ Room
  /\ buf' = [buf EXCEPT ![e % INPUT_BUF_SIZE] = c]
  /\ e' = Inc(e)
  /\ IF c \in {"nl", "D"} \/ Diff(Inc(e), r) = INPUT_BUF_SIZE
     THEN w' = Inc(e) /\ pc' = WakeReaders(pc)
     ELSE UNCHANGED <<w, pc>>
  /\ UNCHANGED <<r, lock, left, target, killed>>

\* ^H: erase one character of the line.
IntrErase ==
  /\ lock = None /\ e # w
  /\ e' = Dec(e)
  /\ UNCHANGED <<buf, r, w, reads>>

EraseAll == Diff(e, r)

\* How many characters ^U erases: back to w, or to the end of a line.
ToErase ==
  LET stops == {i \in 0..Diff(e, w) : i = Diff(e, w) \/ At((e + UINT - 1 - i) % UINT) = "nl"}
  IN CHOOSE i \in stops : \A j \in stops : i <= j

IntrKillLine ==
  /\ lock = None
  /\ e' = (e + UINT - ToErase) % UINT
  /\ UNCHANGED <<buf, r, w, reads>>

Intr == (\E c \in Stored : IntrStore(c)) \/ IntrErase \/ IntrKillLine

-------------------------------------------------------------------------------
Reader(p) ==
  \/ \E n \in Counts : Read(p, n)
  \/ ReadAgain(p) \/ ReadWaits(p) \/ ReadEof(p) \/ ReadByte(p)

Next == (\E p \in Readers : Reader(p) \/ Kill(p)) \/ Intr

Spec == Init /\ [][Next]_vars

-------------------------------------------------------------------------------
(* Properties.                                                             *)

\* The types of the variables, checked together with SleepersJustified.
TypeOK ==
  /\ buf \in [0..(INPUT_BUF_SIZE - 1) -> Stored]
  /\ {r, w, e} \subseteq 0..(UINT - 1) /\ Diff(e, r) <= INPUT_BUF_SIZE
  /\ \A p \in Readers : left[p] <= target[p] /\ (lock = p <=> pc[p] = "reading")

\* The contents of the ring from x up to y.
Between(x, y) == [i \in 1..Diff(y, x) |-> At((x + i - 1) % UINT)]

Lines == INSTANCE LineQueue WITH
  line <- Between(w, e), ready <- Between(r, w), partial <- {p \in Readers : Saved(p)},
  Char <- Stored, Ends <- {"nl", "D"}, Eof <- "D", Capacity <- INPUT_BUF_SIZE

\* The three indices make the buffer a queue of edited lines, also when they
\* wrap around, when the buffer fills in the middle of a line, and when lines
\* are read while the next one is edited: only an unfinished line changes.
\* And a ^D that ends a read which has got something stays for the next one.
LineDiscipline == Lines!Spec

\* No reader sleeps while there is something to read, whichever of several
\* sleepers consumed the line that woke them.
SleepersJustified == TypeOK /\ \A p \in Readers : pc[p] = "asleep" => r = w
===============================================================================
