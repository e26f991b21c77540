-------------------------------- MODULE LineQueue --------------------------------
(***************************************************************************)
(* What the console promises of its input: the user edits a line, which    *)
(* becomes readable as a whole when it is ended or the buffer is full, and *)
(* what is readable is read once and in order.  An end-of-file mark is     *)
(* taken only by a read that has got nothing, which so returns 0 bytes.    *)
(***************************************************************************)
EXTENDS Naturals, Sequences

CONSTANTS Readers, Char, Ends, Eof, Capacity

VARIABLES
  line, ready,
  partial     \* readers that have got something in their current read

vars == <<line, ready, partial>>

Init == line = <<>> /\ ready = <<>> /\ partial = {}

Type(c) ==
  LET l == Append(line, c)
      n == Len(ready) + Len(l)
  IN /\ n <= Capacity
     /\ IF c \in Ends \/ n = Capacity
        THEN ready' = ready \o l /\ line' = <<>>
        ELSE line' = l /\ UNCHANGED ready
     /\ UNCHANGED partial

Erase ==
  /\ line # <<>> /\ line' = SubSeq(line, 1, Len(line) - 1)
  /\ UNCHANGED <<ready, partial>>

Discard == line' = <<>> /\ UNCHANGED <<ready, partial>>

\* A reader gets a character, and goes on or returns.
Take(p) ==
  /\ ready # <<>> /\ Head(ready) # Eof /\ ready' = Tail(ready)
  /\ partial' \in {partial \cup {p}, partial \ {p}}
  /\ UNCHANGED line

TakeEof(p) ==
  /\ ready # <<>> /\ Head(ready) = Eof /\ p \notin partial /\ ready' = Tail(ready)
  /\ UNCHANGED <<line, partial>>

\* A read returns with what it has.
Return(p) == partial' = partial \ {p} /\ UNCHANGED <<line, ready>>

Next ==
  \/ \E c \in Char : Type(c)
  \/ Erase \/ Discard
  \/ \E p \in Readers : Take(p) \/ TakeEof(p) \/ Return(p)

Spec == Init /\ [][Next]_vars
===============================================================================
