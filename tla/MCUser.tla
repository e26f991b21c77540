--------------------------------- MODULE MCUser ---------------------------------
(***************************************************************************)
(* The programs outside the kernel: the shell, the memory allocator, grep  *)
(* and mkfs.  A behaviour is one of one of them; the others stay in their  *)
(* initial state.                                                          *)
(***************************************************************************)
EXTENDS Shell, Umalloc, Grep, Mkfs, TLC

VARIABLE program

userVars == <<shVars, heapVars, grepVars, mkfsVars, program>>

UserInit ==
  /\ ShInit /\ HeapInit /\ GrepInit /\ MkfsInit
  /\ program \in {"sh", "malloc", "grep", "mkfs"}

RunsSh(A) ==
  program = "sh" /\ A /\ UNCHANGED <<heapVars, grepVars, mkfsVars, program>>
RunsMalloc ==
  program = "malloc" /\ HeapNext /\ UNCHANGED <<shVars, grepVars, mkfsVars, program>>
RunsGrep ==
  program = "grep" /\ GrepNext /\ UNCHANGED <<shVars, heapVars, mkfsVars, program>>
RunsMkfs ==
  program = "mkfs" /\ MkfsNext /\ UNCHANGED <<shVars, heapVars, grepVars, program>>

UserNext == RunsSh(ShNext) \/ RunsMalloc \/ RunsGrep \/ RunsMkfs

\* The kernel's scheduler lets every process of the command go on.
UserSpec ==
  /\ UserInit /\ [][UserNext]_userVars
  /\ \A q \in Pids : WF_userVars(RunsSh(Step(q)))

-------------------------------------------------------------------------------
Strings(S, n) == UNION {[1..k -> S] : k \in 0..n}

\* Every line of up to three tokens, and longer ones with nested commands.
SomeLines ==
  (Strings({"a", "|", "&", ";", "<", ">", ">>", "(", ")"}, 3) \ {<<>>})
  \cup {<<"cd">>,
        <<"a", "|", "a", "|", "a">>,
        <<"a", "|", "a", "&", ";", "a">>,
        <<"(", "a", ";", "a", ")", "|", "a", ">", "a">>,
        <<"a", ">", "a", "|", "(", "a", "|", "a", ")">>}
SixPids == 1..6

SomeSizes == {1, 3, 5}

\* Every pattern of up to three characters; two lines of up to two, a line
\* that just fits and one that does not, and files one of which is missing.
AllPatterns == Strings({"a", ".", "*", "^", "$"}, 3)
SomeArgvs ==
  {<<a \o <<"nl">> \o b \o <<"nl">>>> : a \in Strings({"a", "b"}, 2), b \in Strings({"a", "b"}, 2)}
  \cup {<<<<"b", "a", "b", "nl", "a", "nl">>>>,
        <<<<"a", "b", "a", "b", "nl", "a", "nl">>>>,
        <<<<"a", "nl", "a">>, <<"a", "nl">>, Missing, <<"a", "nl">>>>}

\* Up to three files of every length up to one more than fits in an inode.
SomeSources == UNION {{[i \in 1..n |-> [o \in 1..len[i] |-> o]] : len \in [1..n -> 0..7]} : n \in 0..3}
===============================================================================
