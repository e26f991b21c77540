--------------------------------- MODULE MCPipe ---------------------------------
EXTENDS Pipe, TLC

CONSTANTS w, r, wr, a, b

\* wr has both ends, as the process that called pipe().
All == {w, r, wr}
TwoWriters == {w, wr}
TwoReaders == {r, wr}
Mortal == {w, r}
Bytes == {a, b}

Symmetry == Permutations(Bytes)
================================================================================
