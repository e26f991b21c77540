-------------------------------- MODULE MCMemory --------------------------------
EXTENDS Memory

CONSTANTS p1, p2

TwoProcs == {p1, p2}
SomeDeltas == {-3, 1, 2}

\* Two segments with a gap, a second segment below the first, an empty one.
SomePrograms == {
  <<[vaddr |-> 0, memsz |-> 2], [vaddr |-> 4, memsz |-> 1]>>,
  <<[vaddr |-> 2, memsz |-> 2], [vaddr |-> 0, memsz |-> 2]>>,
  <<[vaddr |-> 0, memsz |-> 0]>>}
===============================================================================
