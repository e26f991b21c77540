--------------------------------- MODULE Shell ---------------------------------
(***************************************************************************)
(* user/sh.c: main, runcmd and the processes they start.  One action per   *)
(* system call, calls in a row that only the process itself can notice     *)
(* taken together.  The kernel is reduced to what the shell sees of it:    *)
(* fork, pipe, open and exec may fail, and init reaps an orphan as soon as *)
(* it exits.  The programs are external: one that was started exits once   *)
(* its standard input is at its end.                                       *)
(***************************************************************************)
EXTENDS ShellGrammar

CONSTANTS
  Lines,      \* the command lines a user may type
  Pids,       \* slots of the process table
  NOFILE      \* descriptors of a process

ASSUME ShellAssumption ==
  /\ Pids \subseteq Nat \ {0} /\ 1 \in Pids
  /\ NOFILE \in Nat /\ NOFILE >= 3
  /\ MAXARGS \in Nat \ {0}

VARIABLES
  line,       \* the line typed, or <<>> before
  proc,       \* the processes
  broken      \* a fork has failed

shVars == <<line, proc, broken>>

sh == 1

Closed == [kind |-> "closed"]
Console == [kind |-> "console"]
File(word) == [kind |-> "file", word |-> word]
PipeEnd(at, e) == [kind |-> "pipe", at |-> at, end |-> e]

Fds == 0..(NOFILE - 1)
NoFds == [d \in Fds |-> Closed]

\* parent 0 is init; back: started by a command with "&".
NoProc == [st |-> "unused", parent |-> 0, pc |-> "none", cmd |-> NoCmd, fd |-> NoFds,
           p |-> <<0, 0>>, back |-> FALSE]

StdFds == [d \in Fds |-> IF d < 3 THEN Console ELSE Closed]

\* init starts the shell with the console open.
ShInit ==
  /\ line = <<>>
  /\ proc = [q \in Pids |-> IF q = sh THEN [NoProc EXCEPT !.st = "live", !.pc = "main", !.fd = StdFds]
                                      ELSE NoProc]
  /\ broken = FALSE

At(q, s) == proc[q].st = "live" /\ proc[q].pc = s
Type(q) == proc[q].cmd.type
Runs(q, t) == At(q, "runcmd") /\ Type(q) = t

-------------------------------------------------------------------------------
(* System calls.                                                           *)

\* A new descriptor is the lowest that is closed.
Lowest(fd) == Min({d \in Fds : fd[d] = Closed})
Full(fd) == \A d \in Fds : fd[d] # Closed
Open(fd, f) == [fd EXCEPT ![Lowest(fd)] = f]
Close(fd, d) == [fd EXCEPT ![d] = Closed]

FreeSlots == {q \in Pids : proc[q].st = "unused"}

\* exit: descriptors are closed, children go to init; init reaps its own.
Exit(ps, q) ==
  [c \in Pids |->
     IF c = q THEN IF ps[q].parent = 0 THEN NoProc
                   ELSE [NoProc EXCEPT !.st = "zombie", !.parent = ps[q].parent]
     ELSE IF ps[c].parent # q \/ ps[c].st = "unused" THEN ps[c]
     ELSE IF ps[c].st = "zombie" THEN NoProc
     ELSE [ps[c] EXCEPT !.parent = 0]]

Exits(q) == proc' = Exit(proc, q) /\ UNCHANGED <<line, broken>>

\* fork1: the child runs cmd from pc on, the parent goes on at next; a
\* failure is a panic.
Fork1(q, pc, cmd, next) ==
  \/ /\ FreeSlots # {}
     /\ proc' = [proc EXCEPT ![q].pc = next,
                   ![Min(FreeSlots)] = [proc[q] EXCEPT !.parent = q, !.pc = pc, !.cmd = cmd,
                                                  !.back = @ \/ Type(q) = "BACK"]]
     /\ UNCHANGED <<line, broken>>
  \/ /\ proc' = Exit(proc, q)
     /\ broken' = TRUE
     /\ UNCHANGED line

\* wait(0): any child that has exited; without children it returns at once.
Wait(q, next) ==
  LET children == {c \in Pids : proc[c].st # "unused" /\ proc[c].parent = q} IN
  /\ \/ \E c \in children : /\ proc[c].st = "zombie"
                            /\ proc' = [proc EXCEPT ![c] = NoProc, ![q].pc = next]
     \/ children = {} /\ proc' = [proc EXCEPT ![q].pc = next]
  /\ UNCHANGED <<line, broken>>

-------------------------------------------------------------------------------
(* main.                                                                   *)

\* Ensure that three file descriptors are open.
Main ==
  /\ At(sh, "main")
  /\ proc' = [proc EXCEPT ![sh].fd = [d \in Fds |-> IF d < 3 THEN Console ELSE @[d]],
                          ![sh].pc = "prompt"]
  /\ UNCHANGED <<line, broken>>

\* getcmd returns a line, or -1 at the end of the input.  Bound: one line, as
\* nothing of a line is left in the shell when it prompts again.
GetCmd ==
  /\ At(sh, "prompt")
  /\ \/ /\ line = <<>>
        /\ line' \in Lines
        /\ proc' = [proc EXCEPT ![sh].pc = "line"]
        /\ UNCHANGED broken
     \/ Exits(sh)

\* cd is for the shell itself, every other line for a child.
RunLine ==
  /\ At(sh, "line")
  /\ IF line = <<"cd">>
     THEN proc' = [proc EXCEPT ![sh].pc = "prompt"] /\ UNCHANGED <<line, broken>>
     ELSE Fork1(sh, "parsecmd", NoCmd, "wait")

MainWait == At(sh, "wait") /\ Wait(sh, "prompt")

\* The child parses the line.
Parse(q) ==
  LET res == ParseCmd(line) IN
  /\ At(q, "parsecmd")
  /\ IF res.ok
     THEN /\ proc' = [proc EXCEPT ![q].pc = "runcmd", ![q].cmd = res.cmd]
          /\ UNCHANGED <<line, broken>>
     ELSE Exits(q)

-------------------------------------------------------------------------------
(* runcmd.                                                                 *)

\* exec replaces the program, or fails and the process exits.
Exec(q) ==
  /\ Runs(q, "EXEC")
  /\ \/ /\ proc[q].cmd.argv # <<>>
        /\ proc' = [proc EXCEPT ![q].pc = "program"]
        /\ UNCHANGED <<line, broken>>
     \/ Exits(q)

RedirOpenOnly(q) == Open(proc[q].fd, File(proc[q].cmd.file))

\* close(rcmd->fd), open(rcmd->file, rcmd->mode).
RedirOpen(q) == Open(Close(proc[q].fd, proc[q].cmd.fd), File(proc[q].cmd.file))

Redir(q) ==
  /\ Runs(q, "REDIR")
  /\ \/ /\ proc' = [proc EXCEPT ![q].fd = RedirOpen(q), ![q].cmd = @.cmd]
        /\ UNCHANGED <<line, broken>>
     \/ Exits(q)

ListFork(q) == Runs(q, "LIST") /\ Fork1(q, "runcmd", proc[q].cmd.left, "listwait")
ListWait(q) == At(q, "listwait") /\ Wait(q, "listright")
ListRight(q) ==
  /\ At(q, "listright")
  /\ proc' = [proc EXCEPT ![q].pc = "runcmd", ![q].cmd = @.right]
  /\ UNCHANGED <<line, broken>>

\* pipe(p): two descriptors, or none and the command panics.
PipeOpen(q) ==
  LET fd == proc[q].fd
      fd0 == Open(fd, PipeEnd(proc[q].cmd.at, "read"))
  IN /\ Runs(q, "PIPE")
     /\ \/ /\ ~Full(fd) /\ ~Full(fd0)
           /\ proc' = [proc EXCEPT ![q].fd = Open(fd0, PipeEnd(proc[q].cmd.at, "write")),
                                   ![q].p = <<Lowest(fd), Lowest(fd0)>>, ![q].pc = "pipeleft"]
           /\ UNCHANGED <<line, broken>>
        \/ Exits(q)

PipeForkLeft(q) == At(q, "pipeleft") /\ Fork1(q, "left", proc[q].cmd.left, "piperight")
PipeForkRight(q) == At(q, "piperight") /\ Fork1(q, "right", proc[q].cmd.right, "pipeclose")

\* close(to), dup(from), close(p[0]), close(p[1]).
Wired(q, to, from) ==
  LET fd == Open(Close(proc[q].fd, to), proc[q].fd[from])
  IN Close(Close(fd, proc[q].p[1]), proc[q].p[2])
Wire(q) ==
  /\ At(q, "left") \/ At(q, "right")
  /\ proc' = [proc EXCEPT ![q].pc = "runcmd", ![q].p = <<0, 0>>,
                ![q].fd = IF At(q, "left") THEN Wired(q, 1, proc[q].p[2]) ELSE Wired(q, 0, proc[q].p[1])]
  /\ UNCHANGED <<line, broken>>

ParentKeepsWriteEnd(q) == Close(proc[q].fd, proc[q].p[1])

\* The parent closes both ends, so that the reader can see an end of file.
ParentCloses(q) == Close(Close(proc[q].fd, proc[q].p[1]), proc[q].p[2])
PipeClose(q) ==
  /\ At(q, "pipeclose")
  /\ proc' = [proc EXCEPT ![q].fd = ParentCloses(q), ![q].p = <<0, 0>>, ![q].pc = "pipewait"]
  /\ UNCHANGED <<line, broken>>

WaitOnce == "exit"
PipeWaitAgain == "pipewait2"
PipeWait(q) ==
  \/ At(q, "pipewait") /\ Wait(q, PipeWaitAgain)
  \/ At(q, "pipewait2") /\ Wait(q, "exit")

BackFork(q) == Runs(q, "BACK") /\ Fork1(q, "runcmd", proc[q].cmd.cmd, "exit")

ExitZero(q) == At(q, "exit") /\ Exits(q)

\* read returns 0: nobody has the write end of the pipe open.
AtEof(f) ==
  f.kind = "pipe" =>
    \A c \in Pids, d \in Fds : proc[c].fd[d] # PipeEnd(f.at, "write")

\* External: a program that reads its input up to the end and exits.
Program(q) == At(q, "program") /\ AtEof(proc[q].fd[0]) /\ Exits(q)

-------------------------------------------------------------------------------
Runcmd(q) ==
  \/ Exec(q) \/ Redir(q)
  \/ ListFork(q) \/ ListWait(q) \/ ListRight(q)
  \/ PipeOpen(q) \/ PipeForkLeft(q) \/ PipeForkRight(q) \/ Wire(q) \/ PipeClose(q) \/ PipeWait(q)
  \/ BackFork(q) \/ ExitZero(q)

Step(q) ==
  \/ q = sh /\ (Main \/ GetCmd \/ RunLine \/ MainWait)
  \/ Parse(q) \/ Runcmd(q) \/ Program(q)

ShNext == \E q \in Pids : Step(q)

-------------------------------------------------------------------------------
(* Properties.                                                             *)

\* parsecmd accepts exactly the lines of the language, gives each operator
\* the operands its precedence and the parentheses give it, and nulterminate
\* ends every word of the line.
ParseFaithful ==
  (\E q \in Pids : At(q, "parsecmd")) =>
    LET res == ParseCmd(line)
    IN /\ res.ok <=> IsLine(line, 1, Len(line))
       /\ res.ok => /\ res.cmd = LineOf(line, 1, Len(line))
                    /\ Nulterminate(res.cmd) = {i \in DOMAIN line : line[i] = "a"}

RECURSIVE Wiring(_, _, _)

\* The programs of a command, each with the input and output it is to have.
Wiring(cmd, in, out) ==
  CASE cmd.type = "EXEC"  -> {<<cmd.argv, in, out>>}
    [] cmd.type = "REDIR" -> IF cmd.fd = 0 THEN Wiring(cmd.cmd, File(cmd.file), out)
                                           ELSE Wiring(cmd.cmd, in, File(cmd.file))
    [] cmd.type = "LIST"  -> Wiring(cmd.left, in, out) \cup Wiring(cmd.right, in, out)
    [] cmd.type = "PIPE"  -> Wiring(cmd.left, in, PipeEnd(cmd.at, "write"))
                               \cup Wiring(cmd.right, PipeEnd(cmd.at, "read"), out)
    [] cmd.type = "BACK"  -> Wiring(cmd.cmd, in, out)

\* However redirections, pipes, lists and background commands are nested,
\* close, dup and open leave each program with the descriptors 0 and 1 its
\* place in the line calls for, and with no other end of any pipe.
FdsWired ==
  \A q \in Pids : At(q, "program") =>
    /\ <<proc[q].cmd.argv, proc[q].fd[0], proc[q].fd[1]>>
         \in Wiring(LineOf(line, 1, Len(line)), Console, Console)
    /\ proc[q].fd[2] = Console /\ \A d \in Fds : d > 2 => proc[q].fd[d] = Closed

\* Unless a fork fails, the shell prompts again only when every process of
\* the command is gone, those started with "&" excepted.
ForegroundDone ==
  At(sh, "prompt") /\ ~broken =>
    \A q \in Pids \ {sh} : proc[q].st = "live" => proc[q].back

\* The shell always comes back from a command: every reader of a pipe sees
\* the end of its input, whatever fails on the way.
PromptReturns == At(sh, "wait") ~> At(sh, "prompt")
===============================================================================
