-------------------------------- MODULE MCFsTree --------------------------------
EXTENDS FsTree, TLC

CONSTANTS p1, p2

TwoProcs == {p1, p2}
ThreeInodes == 1..3
TwoNames == {"a", "b"}

Path(elems) == [abs |-> FALSE, elems |-> elems]

\* The shapes of interest: a name in the working directory, a name one level
\* below another, the working directory by its name ".", and the root, which
\* has no parent.
Root == [abs |-> TRUE, elems |-> <<>>]

CreateCalls ==
  [op : {"create"}, type : {"dir", "file"}, path : {Path(<<"a">>)}]
    \cup [op : {"create"}, type : {"file"}, path : {Path(<<"a", "a">>)}]
UnlinkCalls == [op : {"unlink"}, path : {Path(<<"a">>), Path(<<"a", "a">>), Path(<<".">>), Root}]
LinkCalls == {[op |-> "link", path |-> Path(<<"a">>), new |-> Path(<<"b">>)]}
OtherCalls == {[op |-> "open", rdonly |-> FALSE, path |-> Path(<<"a">>)],
               [op |-> "chdir", path |-> Path(<<"a">>)],
               [op |-> "chdir", path |-> Path(<<"..">>)]}
TreeCalls == CreateCalls \cup UnlinkCalls \cup LinkCalls \cup OtherCalls

\* Bound: a behaviour ends when a process walks ".." out of a removed directory.
NobodyStrays == \A p \in Procs : ~Strays(p)

Symmetry == Permutations(TwoProcs)
===============================================================================
