--------------------------------- MODULE MCLog ---------------------------------
(* A finite instance of the log.                                           *)
EXTENDS LogInv, TLC

CONSTANTS p1, p2, b1, b2, b3, v0, v1

TwoProcs == {p1, p2}
ThreeBlocks == {b1, b2, b3}
TwoVals == {v0, v1}
Zeroed == [b \in ThreeBlocks |-> v0]

\* Two blocks change; the third only takes up room in the log.
SomeWrites == ({b1, b2} \X TwoVals) \cup {<<b3, v0>>}
================================================================================
