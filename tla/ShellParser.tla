------------------------------ MODULE ShellParser ------------------------------
(***************************************************************************)
(* The command parser of user/sh.c, on the tokens gettoken returns: "a" is *)
(* a word, and a command names its words and operators by their positions  *)
(* in the line.  A parse function returns the command and the position it  *)
(* stopped at; a failure is the call of panic.                             *)
(***************************************************************************)
EXTENDS Naturals, Sequences, FiniteSets, FiniteSetsExt

CONSTANT MAXARGS

Redirs == {"<", ">", ">>"}

EXEC(argv) == [type |-> "EXEC", argv |-> argv]
REDIR(cmd, tok, file) ==
  [type |-> "REDIR", cmd |-> cmd, file |-> file, mode |-> tok, fd |-> IF tok = "<" THEN 0 ELSE 1]
PIPE(left, right, at) == [type |-> "PIPE", left |-> left, right |-> right, at |-> at]
LIST(left, right) == [type |-> "LIST", left |-> left, right |-> right]
BACK(cmd) == [type |-> "BACK", cmd |-> cmd]
NoCmd == [type |-> "none"]

Parsed(cmd, i) == [ok |-> TRUE, cmd |-> cmd, at |-> i]
Panic == [ok |-> FALSE, cmd |-> NoCmd, at |-> 0]
AndThen(res, Cont(_, _)) ==
  CHOOSE x \in {IF r.ok THEN Cont(r.cmd, r.at) ELSE r : r \in {res}} : TRUE

\* gettoken at position i; 0 at the end of the line.
Token(ts, i) == IF i <= Len(ts) THEN ts[i] ELSE "end"

RECURSIVE ParseRedirs(_, _, _), ParseArgs(_, _, _, _), Wrap(_, _), ParseLine(_, _), ParsePipe(_, _)

\* parseredirs: the redirections from i on, appended to rs.
ParseRedirs(ts, i, rs) ==
  IF Token(ts, i) \notin Redirs THEN Parsed(rs, i)
  ELSE IF Token(ts, i + 1) # "a" THEN Panic
  ELSE ParseRedirs(ts, i + 2, Append(rs, <<ts[i], i + 1>>))

\* redircmd: the command behind its redirections, the last one outermost.
Wrap(cmd, rs) ==
  IF rs = <<>> THEN cmd
  ELSE Wrap(REDIR(cmd, Head(rs)[1], Head(rs)[2]), Tail(rs))

\* The loop of parseexec: argv and the redirections met so far.  cmd->argv
\* grows behind the redirections that already refer to cmd.
ParseArgs(ts, i, argv, rs) ==
  IF Token(ts, i) \in {"|", ")", "&", ";", "end"} THEN Parsed(Wrap(EXEC(argv), rs), i)
  ELSE IF ts[i] # "a" \/ Len(argv) + 1 >= MAXARGS THEN Panic
  ELSE AndThen(ParseRedirs(ts, i + 1, rs), LAMBDA all, j : ParseArgs(ts, j, Append(argv, i), all))

\* parseblock: a line in parentheses, then redirections.
ParseBlock(ts, i) ==
  AndThen(ParseLine(ts, i + 1), LAMBDA cmd, j :
    IF Token(ts, j) # ")" THEN Panic
    ELSE AndThen(ParseRedirs(ts, j + 1, <<>>), LAMBDA rs, k : Parsed(Wrap(cmd, rs), k)))

ParseExec(ts, i) ==
  IF Token(ts, i) = "(" THEN ParseBlock(ts, i)
  ELSE AndThen(ParseRedirs(ts, i, <<>>), LAMBDA rs, j : ParseArgs(ts, j, <<>>, rs))

ParsePipe(ts, i) ==
  AndThen(ParseExec(ts, i), LAMBDA cmd, j :
    IF Token(ts, j) # "|" THEN Parsed(cmd, j)
    ELSE AndThen(ParsePipe(ts, j + 1), LAMBDA right, k : Parsed(PIPE(cmd, right, j), k)))

RECURSIVE Backs(_, _, _)

\* while(peek(ps, es, "&")): backcmd.
Backs(ts, cmd, i) ==
  IF Token(ts, i) = "&" THEN Backs(ts, BACK(cmd), i + 1) ELSE Parsed(cmd, i)

ParseLine(ts, i) ==
  AndThen(ParsePipe(ts, i), LAMBDA pipe, j :
    AndThen(Backs(ts, pipe, j), LAMBDA cmd, k :
      IF Token(ts, k) # ";" THEN Parsed(cmd, k)
      ELSE AndThen(ParseLine(ts, k + 1), LAMBDA right, l : Parsed(LIST(cmd, right), l))))

\* parsecmd: nothing may be left over.
ParseCmd(ts) ==
  AndThen(ParseLine(ts, 1), LAMBDA cmd, i : IF i <= Len(ts) THEN Panic ELSE Parsed(cmd, i))

RECURSIVE Nulterminate(_)

NulterminateOuter(cmd) == IF cmd.type = "REDIR" THEN {cmd.file} ELSE {}

\* The words that nulterminate makes strings.
Nulterminate(cmd) ==
  CASE cmd.type = "EXEC"  -> {cmd.argv[i] : i \in DOMAIN cmd.argv}
    [] cmd.type = "REDIR" -> Nulterminate(cmd.cmd) \cup {cmd.file}
    [] cmd.type \in {"PIPE", "LIST"} -> Nulterminate(cmd.left) \cup Nulterminate(cmd.right)
    [] cmd.type = "BACK"  -> Nulterminate(cmd.cmd)

===============================================================================
