------------------------------ MODULE ShellGrammar ------------------------------
(***************************************************************************)
(* The shell's command language, read from the operators instead of from   *)
(* left to right: ";" binds least, then "&", then "|", then words and      *)
(* redirections.  IsLine says which lines are commands, LineOf which.      *)
(***************************************************************************)
EXTENDS ShellParser

Count(ts, t, lo, hi) == Cardinality({i \in lo..hi : ts[i] = t})

\* The parentheses in lo..hi match.
Balanced(ts, lo, hi) ==
  /\ Count(ts, "(", lo, hi) = Count(ts, ")", lo, hi)
  /\ \A i \in lo..hi : Count(ts, ")", lo, i) <= Count(ts, "(", lo, i)

\* Where t stands in lo..hi outside parentheses.
Top(ts, t, lo, hi) == {i \in lo..hi : ts[i] = t /\ Count(ts, "(", lo, i) = Count(ts, ")", lo, i)}

RECURSIVE IsLine(_, _, _), LineOf(_, _, _), IsBack(_, _, _), BackOf(_, _, _), IsPipe(_, _, _), PipeOf(_, _, _)

\* lo..hi consists of redirections, and of words if some are allowed.
Files(ts, lo, hi) == {i \in lo..hi : ts[i] = "a" /\ i > lo /\ ts[i - 1] \in Redirs}
Words(ts, lo, hi) == {i \in lo..hi : ts[i] = "a"} \ Files(ts, lo, hi)
IsSimple(ts, lo, hi, words) ==
  /\ \A i \in lo..hi : ts[i] \in Redirs \cup {"a"}
  /\ \A i \in lo..hi : ts[i] \in Redirs => i < hi /\ ts[i + 1] = "a"
  /\ Cardinality(Words(ts, lo, hi)) <= words

RedirsOf(ts, lo, hi) ==
  LET fs == Files(ts, lo, hi)
      nth(n) == CHOOSE i \in fs : Cardinality({j \in fs : j <= i}) = n
  IN [n \in 1..Cardinality(fs) |-> <<ts[nth(n) - 1], nth(n)>>]
ArgvOf(ts, lo, hi) ==
  LET ws == Words(ts, lo, hi)
  IN [n \in 1..Cardinality(ws) |-> CHOOSE i \in ws : Cardinality({j \in ws : j <= i}) = n]

\* The last token of a block that begins at lo.
Closes(ts, lo, hi) == {i \in Top(ts, ")", lo, hi) : Balanced(ts, lo, i)}

IsExec(ts, lo, hi) ==
  IF lo <= hi /\ ts[lo] = "("
  THEN /\ Closes(ts, lo, hi) # {}
       /\ IsLine(ts, lo + 1, Min(Closes(ts, lo, hi)) - 1)
       /\ IsSimple(ts, Min(Closes(ts, lo, hi)) + 1, hi, 0)
  ELSE IsSimple(ts, lo, hi, MAXARGS - 1)

ExecOf(ts, lo, hi) ==
  IF lo <= hi /\ ts[lo] = "("
  THEN LET m == Min(Closes(ts, lo, hi))
       IN Wrap(LineOf(ts, lo + 1, m - 1), RedirsOf(ts, m + 1, hi))
  ELSE Wrap(EXEC(ArgvOf(ts, lo, hi)), RedirsOf(ts, lo, hi))

IsPipe(ts, lo, hi) ==
  LET bars == Top(ts, "|", lo, hi)
  IN IF bars = {} THEN IsExec(ts, lo, hi)
     ELSE IsExec(ts, lo, Min(bars) - 1) /\ IsPipe(ts, Min(bars) + 1, hi)

PipeOf(ts, lo, hi) ==
  LET bars == Top(ts, "|", lo, hi)
  IN IF bars = {} THEN ExecOf(ts, lo, hi)
     ELSE PIPE(ExecOf(ts, lo, Min(bars) - 1), PipeOf(ts, Min(bars) + 1, hi), Min(bars))

EndsInBack(ts, lo, hi) == lo <= hi /\ ts[hi] = "&"
IsBack(ts, lo, hi) ==
  IF EndsInBack(ts, lo, hi) THEN IsBack(ts, lo, hi - 1) ELSE IsPipe(ts, lo, hi)
BackOf(ts, lo, hi) ==
  IF EndsInBack(ts, lo, hi) THEN BACK(BackOf(ts, lo, hi - 1)) ELSE PipeOf(ts, lo, hi)

IsLine(ts, lo, hi) ==
  LET semis == Top(ts, ";", lo, hi)
  IN /\ Balanced(ts, lo, hi)
     /\ IF semis = {} THEN IsBack(ts, lo, hi)
        ELSE IsBack(ts, lo, Min(semis) - 1) /\ IsLine(ts, Min(semis) + 1, hi)

LineOf(ts, lo, hi) ==
  LET semis == Top(ts, ";", lo, hi)
  IN IF semis = {} THEN BackOf(ts, lo, hi)
     ELSE LIST(BackOf(ts, lo, Min(semis) - 1), LineOf(ts, Min(semis) + 1, hi))
===============================================================================
