------------------------------ MODULE MCFileBlocks ------------------------------
EXTENDS FileBlocks, TLC

CONSTANTS p1, p2, i1, i2, b1, b2, b3, b4, b5

TwoProcs == {p1, p2}
TwoInums == {i1, i2}
FiveBlocks == {b1, b2, b3, b4, b5}
SomeLens == {3, 8}
SomeOffs == {0, 3, 5}

Symmetry == Permutations(TwoProcs) \cup Permutations(TwoInums) \cup Permutations(FiveBlocks)
===============================================================================
