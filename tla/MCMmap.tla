--------------------------------- MODULE MCMmap ---------------------------------
EXTENDS Mmap, TLC

CONSTANTS p1, p2, f1, a, b, z

TwoProcs == {p1, p2}
OneFile == {f1}
TwoPages == [f \in OneFile |-> <<a, b>>]
OnePage == [f \in OneFile |-> <<a>>]
Stores == {z}
AllKinds == [write : BOOLEAN, shared : BOOLEAN]
TwoKinds == {[write |-> TRUE, shared |-> FALSE], [write |-> FALSE, shared |-> TRUE]}
NoOffset == {0}

Symmetry == Permutations(TwoProcs)
================================================================================
