------------------------------ MODULE AtomicDisk ------------------------------
(***************************************************************************)
(* What the log promises to the file system calls: between begin_op and    *)
(* end_op a call writes blocks of an in-memory image; at instants when no  *)
(* call is open the whole image becomes durable at once; a crash puts the  *)
(* image back to the durable one.  No crash can leave part of a call on    *)
(* the disk.                                                               *)
(***************************************************************************)
CONSTANTS Procs, Blocks, Val

VARIABLES durable,  \* the disk a reboot would come up with
          mem,      \* the blocks as the running system sees them
          active    \* the calls between begin_op and end_op

vars == <<durable, mem, active>>

Init ==
  /\ durable \in [Blocks -> Val]
  /\ mem = durable
  /\ active = {}

Begin(p) ==
  /\ p \notin active
  /\ active' = active \cup {p}
  /\ UNCHANGED <<durable, mem>>

Write(p, b, v) ==
  /\ p \in active
  /\ mem' = [mem EXCEPT ![b] = v]
  /\ UNCHANGED <<durable, active>>

End(p) ==
  /\ p \in active
  /\ active' = active \ {p}
  /\ UNCHANGED <<durable, mem>>

Commit ==
  /\ active = {}
  /\ durable' = mem
  /\ UNCHANGED <<mem, active>>

Crash ==
  /\ mem' = durable
  /\ active' = {}
  /\ UNCHANGED durable

Next ==
  \/ \E p \in Procs : Begin(p) \/ End(p)
  \/ \E p \in Procs, b \in Blocks, v \in Val : Write(p, b, v)
  \/ Commit
  \/ Crash

Spec == Init /\ [][Next]_vars
===============================================================================
