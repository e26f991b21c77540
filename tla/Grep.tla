---------------------------------- MODULE Grep ----------------------------------
(***************************************************************************)
(* user/grep.c: the matcher, and the loop that reads its input piece by    *)
(* piece into a buffer and prints the lines that match.  Texts and         *)
(* patterns are sequences of characters; "nl" ends a line.  No text has a  *)
(* NUL, at which strchr and the matcher would stop.                        *)
(***************************************************************************)
EXTENDS Naturals, Sequences, SequencesExt

CONSTANTS
  Patterns,
  Argvs,      \* sequences of what the named files hold
  BUFSIZE     \* sizeof(buf)

ASSUME GrepAssumption == BUFSIZE \in Nat /\ BUFSIZE > 1

VARIABLES
  pattern, argv,    \* what grep is called with
  argi,       \* the file being read
  rest,       \* what of it is not yet read
  buf,        \* buf[0..m-1]: the start of a line
  printed,    \* the lines that have been written
  greppc

\* A named file that is not there.
Missing == <<"missing">>

grepVars == <<pattern, argv, argi, rest, buf, printed, greppc>>

GrepInit ==
  /\ pattern = <<>> /\ argv = <<>> /\ argi = 0 /\ rest = <<>>
  /\ buf = <<>> /\ printed = <<>> /\ greppc = "main"

-------------------------------------------------------------------------------
(* The matcher, on the pattern from re on and the text from i on.          *)

Char(s, i) == IF i <= Len(s) THEN s[i] ELSE "nul"

RECURSIVE Matchhere(_, _, _, _), Matchstar(_, _, _, _, _)

Matchhere(p, re, t, i) ==
  IF Char(p, re) = "nul" THEN TRUE
  ELSE IF Char(p, re + 1) = "*" THEN Matchstar(p[re], p, re + 2, t, i)
  ELSE IF p[re] = "$" /\ Char(p, re + 1) = "nul" THEN Char(t, i) = "nul"
  ELSE /\ Char(t, i) # "nul" /\ p[re] \in {".", t[i]}
       /\ Matchhere(p, re + 1, t, i + 1)

\* c* followed by the rest of the pattern.
Matchstar(c, p, re, t, i) ==
  \/ Matchhere(p, re, t, i)
  \/ Char(t, i) # "nul" /\ c \in {t[i], "."} /\ Matchstar(c, p, re, t, i + 1)

\* Anywhere in the text, its end included.
Match(p, t) ==
  IF Char(p, 1) = "^" THEN Matchhere(p, 2, t, 1)
  ELSE \E i \in 1..(Len(t) + 1) : Matchhere(p, 1, t, i)

-------------------------------------------------------------------------------
(* grep.                                                                   *)

Newlines(s) == {i \in DOMAIN s : s[i] = "nl"}

RECURSIVE Scan(_, _, _), ScanForgets(_, _, _)

ScanForgets(b, p, out) ==
  IF Newlines(b) = {} THEN [buf |-> <<>>, printed |-> out]
  ELSE LET q == CHOOSE i \in Newlines(b) : \A j \in Newlines(b) : i <= j
           l == SubSeq(b, 1, q - 1)
       IN ScanForgets(SubSeq(b, q + 1, Len(b)), p, IF Match(p, l) THEN Append(out, l) ELSE out)

\* The lines in b that match, added to out, and what follows the last line.
Scan(b, p, out) ==
  IF Newlines(b) = {} THEN [buf |-> b, printed |-> out]
  ELSE LET q == CHOOSE i \in Newlines(b) : \A j \in Newlines(b) : i <= j
           l == SubSeq(b, 1, q - 1)
       IN Scan(SubSeq(b, q + 1, Len(b)), p, IF Match(p, l) THEN Append(out, l) ELSE out)

\* main: the pattern and the files (or the standard input, as one file).
GrepMain ==
  /\ greppc = "main"
  /\ pattern' \in Patterns
  /\ argv' \in Argvs
  /\ argi' = 1
  /\ greppc' = "open"
  /\ UNCHANGED <<rest, buf, printed>>

\* The next file is opened; a missing one ends grep, and so does the last.
GrepOpen ==
  /\ greppc = "open"
  /\ IF argi > Len(argv) \/ argv[argi] = Missing
     THEN greppc' = "exit" /\ UNCHANGED <<rest, buf>>
     ELSE greppc' = "read" /\ rest' = argv[argi] /\ buf' = <<>>
  /\ UNCHANGED <<pattern, argv, argi, printed>>

Room == BUFSIZE - Len(buf) - 1

\* read returns from 1 up to as many characters as fit.
GrepRead(n) ==
  /\ greppc = "read" /\ n \in 1..Room /\ n <= Len(rest)
  /\ LET res == Scan(buf \o SubSeq(rest, 1, n), pattern, printed)
     IN buf' = res.buf /\ printed' = res.printed
  /\ rest' = SubSeq(rest, n + 1, Len(rest))
  /\ UNCHANGED <<pattern, argv, argi, greppc>>

\* read returns 0: the end of the file, or there is no room for more.
GrepEnd ==
  /\ greppc = "read" /\ (rest = <<>> \/ Room = 0)
  /\ greppc' = "open" /\ argi' = argi + 1
  /\ UNCHANGED <<pattern, argv, rest, buf, printed>>

GrepNext == GrepMain \/ GrepOpen \/ (\E n \in 1..BUFSIZE : GrepRead(n)) \/ GrepEnd

-------------------------------------------------------------------------------
(* Properties.                                                             *)

\* A pattern as a list of items: a character or ".", repeated or not.
RECURSIVE Items(_, _)
Items(p, re) ==
  IF re > Len(p) THEN <<>>
  ELSE IF Char(p, re + 1) = "*" THEN <<[c |-> p[re], star |-> TRUE]>> \o Items(p, re + 2)
  ELSE <<[c |-> p[re], star |-> FALSE]>> \o Items(p, re + 1)

\* The item matches the characters of t after i up to j.
Covers(it, t, i, j) ==
  /\ i <= j /\ (~it.star => j = i + 1)
  /\ \A k \in (i + 1)..j : it.c \in {".", t[k]}

\* Some division of a part of t gives every item the characters it covers;
\* "^" ties the part to the start of the text, "$" to its end.
Matches(p, t) ==
  LET left == Char(p, 1) = "^"
      all == Items(p, IF left THEN 2 ELSE 1)
      right == all # <<>> /\ all[Len(all)] = [c |-> "$", star |-> FALSE]
      items == IF right THEN Front(all) ELSE all
  IN \E cut \in [0..Len(items) -> 0..Len(t)] :
       /\ \A k \in DOMAIN items : Covers(items[k], t, cut[k - 1], cut[k])
       /\ left => cut[0] = 0
       /\ right => cut[Len(items)] = Len(t)

RECURSIVE LinesOf(_)

\* The lines of s, up to one that does not fit in the buffer.
LinesOf(s) ==
  LET ends == {i \in Newlines(s) : \A j \in Newlines(s) : i <= j}
  IN IF ends = {} \/ \A i \in ends : i > BUFSIZE - 1 THEN <<>>
     ELSE LET q == CHOOSE i \in ends : TRUE
          IN <<SubSeq(s, 1, q - 1)>> \o LinesOf(SubSeq(s, q + 1, Len(s)))

\* The files before one that is missing.
Opened == SubSeq(argv, 1, CHOOSE k \in 0..Len(argv) :
                            /\ \A i \in 1..k : argv[i] # Missing
                            /\ k < Len(argv) => argv[k + 1] = Missing)

\* However a file arrives in pieces, grep prints exactly its lines that
\* match, in order, up to a line that fills the buffer.
GrepPrints ==
  greppc = "exit" =>
    printed = SelectSeq(FlattenSeq([i \in DOMAIN Opened |-> LinesOf(Opened[i])]),
                        LAMBDA l : Matches(pattern, l))
===============================================================================
