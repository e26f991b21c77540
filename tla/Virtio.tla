--------------------------------- MODULE Virtio ---------------------------------
(***************************************************************************)
(* The disk driver, kernel/virtio_disk.c, and the device it talks to.      *)
(* Processes, each holding a locked buffer, queue requests of three        *)
(* descriptors; the device takes them from the available ring, serves them *)
(* in any order and reports them in the used ring; the interrupt handler   *)
(* wakes their owners.  A buffer stands for the process that holds it.     *)
(*                                                                         *)
(* vdisk_lock serialises the driver, but the device does not take it: what *)
(* the device reads or writes between two steps of the driver is shown.    *)
(***************************************************************************)
EXTENDS Naturals, FiniteSets, FiniteSetsExt

CONSTANTS
  Bufs,       \* the locked buffers, one per process
  NUM,        \* virtio.h: the descriptors
  RING,       \* the entries of each ring: NUM too in the code, at least the
              \* NUM \div 3 requests that can be out is all the driver needs
  UINT16,     \* the ring indices are uint16: they wrap around
  None

ASSUME VirtioAssumption ==
  /\ IsFiniteSet(Bufs) /\ None \notin Bufs
  /\ NUM \in Nat \ {0} /\ RING \in Nat \ {0} /\ RING >= NUM \div 3
  /\ UINT16 \in Nat /\ UINT16 % RING = 0 /\ UINT16 > RING

VARIABLES
  \* shared with the device
  desc,       \* the descriptors: what they point to and the next of the chain
  ring,       \* avail->ring
  availIdx,   \* avail->idx
  used,       \* used->ring
  usedIdx,    \* used->idx, counted by the device
  irq,        \* VIRTIO_MMIO_INTERRUPT_STATUS
  \* the driver
  free,       \* the free descriptors
  seenUsed,   \* disk.used_idx: how far the handler has looked
  info,       \* per head: the buffer and the status of the request
  busy,       \* the buffers whose b->disk is 1
  lock,       \* who holds vdisk_lock: a buffer's process or the handler
  pc,
  head,       \* idx[0] of the request
  handler,    \* the interrupt handler
  \* the device
  seenAvail,  \* how far it has looked in the available ring
  serving,    \* the chains it works on
  unsignalled,\* it has completed requests it has not interrupted for
  moved       \* the buffers whose data it has moved

rings  == <<desc, ring, availIdx, used, usedIdx>>
driver == <<free, seenUsed, info, busy>>
device == <<seenAvail, serving, unsignalled, moved>>
vars   == <<rings, irq, driver, lock, pc, head, handler, device>>

Descs == 0..(NUM - 1)
Slots == 0..(RING - 1)
NoDesc == [addr |-> None, next |-> 0, more |-> FALSE]
NoInfo == [b |-> None, ok |-> FALSE]

\* virtio_disk_init.
Init ==
  /\ desc = [i \in Descs |-> NoDesc] /\ ring = [i \in Slots |-> 0] /\ availIdx = 0
  /\ used = [i \in Slots |-> 0] /\ usedIdx = 0 /\ irq = FALSE
  /\ free = Descs /\ seenUsed = 0 /\ info = [i \in Descs |-> NoInfo] /\ busy = {}
  /\ lock = None /\ pc = [b \in Bufs |-> "idle"] /\ head = [b \in Bufs |-> 0]
  /\ handler = "idle"
  /\ seenAvail = 0 /\ serving = {} /\ unsignalled = FALSE /\ moved = {}

Inc(x) == (x + 1) % UINT16

\* wakeup(&disk.free[0]).
WakeDescWaiters(f) == [b \in Bufs |-> IF f[b] = "need_desc" THEN "retry" ELSE f[b]]

-------------------------------------------------------------------------------
(* virtio_disk_rw.                                                         *)

\* alloc_desc takes the lowest free descriptor, three times.
Lowest(S, n) == CHOOSE T \in SUBSET S : Cardinality(T) = n /\ \A x \in T, y \in S \ T : x < y

EnoughTwo == Cardinality(free) >= 2

\* alloc3_desc can succeed.
Enough == Cardinality(free) >= 3

\* alloc3_desc fails and gives back what it got, which wakes other waiters;
\* then the process sleeps on the descriptors.
RwWaits(b) ==
  /\ pc[b] \in {"idle", "retry"} /\ lock = None
  /\ ~Enough
  /\ pc' = [(IF free # {} THEN WakeDescWaiters(pc) ELSE pc) EXCEPT ![b] = "need_desc"]
  /\ UNCHANGED <<rings, irq, driver, lock, head, handler, device>>

\* Three descriptors, formatted; the head goes into the available ring.
RwFormats(b) ==
  LET T == Lowest(free, Min({3, Cardinality(free)}))
      i0 == Min(T)
      i2 == Max(T)
      i1 == Min((T \ {i0}))
  IN /\ pc[b] \in {"idle", "retry"} /\ lock = None
     /\ Enough
     /\ free' = free \ T
     /\ desc' = [desc EXCEPT ![i0] = [addr |-> i0, next |-> i1, more |-> TRUE],
                             ![i1] = [addr |-> b, next |-> i2, more |-> TRUE],
                             ![i2] = [addr |-> i0, next |-> 0, more |-> FALSE]]
     /\ info' = [info EXCEPT ![i0] = [b |-> b, ok |-> FALSE]]
     /\ busy' = busy \cup {b}
     /\ ring' = [ring EXCEPT ![availIdx % RING] = i0]
     /\ head' = [head EXCEPT ![b] = i0]
     /\ lock' = b /\ pc' = [pc EXCEPT ![b] = "publish"]
     /\ UNCHANGED <<availIdx, used, usedIdx, irq, seenUsed, handler, device>>

\* avail->idx += 1, notify, and sleep on b with vdisk_lock released.
RwPublishes(b) ==
  /\ pc[b] = "publish"
  /\ availIdx' = Inc(availIdx)
  /\ lock' = None /\ pc' = [pc EXCEPT ![b] = "asleep"]
  /\ UNCHANGED <<desc, ring, used, usedIdx, irq, driver, head, handler, device>>

\* The descriptors free_chain(i) walks through.
Chain(i) ==
  LET j == desc[i].next
  IN {i} \cup (IF desc[i].more THEN {j} \cup (IF desc[j].more THEN {desc[j].next} ELSE {}) ELSE {})

DoneOnceWoken(b) == TRUE

\* while(b->disk == 1): the test that ends the wait.
Done(b) == b \notin busy

\* The loop on b->disk is over: free the chain and return.
RwReturns(b) ==
  /\ pc[b] = "woken" /\ lock = None
  /\ Done(b)
  /\ info' = [info EXCEPT ![head[b]].b = None]
  /\ free' = free \cup Chain(head[b])
  /\ desc' = [i \in Descs |-> IF i \in Chain(head[b]) THEN NoDesc ELSE desc[i]]
  /\ pc' = [WakeDescWaiters(pc) EXCEPT ![b] = "idle"]
  /\ head' = [head EXCEPT ![b] = 0]
  /\ moved' = moved \ {b}
  /\ UNCHANGED <<ring, availIdx, used, usedIdx, irq, seenUsed, busy, lock, handler,
                 seenAvail, serving, unsignalled>>

\* b->disk is still 1 after a wakeup meant for the process, not for b.
RwSleepsAgain(b) ==
  /\ pc[b] = "woken" /\ lock = None
  /\ ~Done(b)
  /\ pc' = [pc EXCEPT ![b] = "asleep"]
  /\ UNCHANGED <<rings, irq, driver, lock, head, handler, device>>

\* kill() makes a sleeping process runnable, whatever it sleeps on.
Kill(b) ==
  /\ pc[b] \in {"asleep", "need_desc"}
  /\ pc' = [pc EXCEPT ![b] = IF pc[b] = "asleep" THEN "woken" ELSE "retry"]
  /\ UNCHANGED <<rings, irq, driver, lock, head, handler, device>>

Rw(b) == RwWaits(b) \/ RwFormats(b) \/ RwPublishes(b) \/ RwReturns(b) \/ RwSleepsAgain(b)

-------------------------------------------------------------------------------
(* virtio_disk_intr, run by devintr on some CPU while the device interrupts.*)

\* Acknowledge before looking.
IntrAcks ==
  /\ irq /\ handler = "idle" /\ lock = None
  /\ lock' = "handler" /\ handler' = "looking"
  /\ irq' = FALSE
  /\ UNCHANGED <<rings, driver, pc, head, device>>

\* The request the handler looks at next.
Reported == used[seenUsed % RING]

\* One completed request: b->disk = 0, wakeup(b).
IntrCompletes ==
  LET b == info[Reported].b IN
  /\ handler = "looking" /\ seenUsed # usedIdx
  /\ info[Reported].ok /\ b # None
  /\ busy' = busy \ {b}
  /\ pc' = [pc EXCEPT ![b] = IF @ = "asleep" THEN "woken" ELSE @]
  /\ seenUsed' = Inc(seenUsed)
  /\ UNCHANGED <<rings, irq, free, info, lock, head, handler, device>>

IntrReturnsAnyTime ==
  /\ handler = "looking"
  /\ handler' = "idle" /\ lock' = None
  /\ UNCHANGED <<rings, irq, driver, pc, head, device>>

\* The loop ends when there is nothing left in the used ring.
IntrReturns ==
  /\ handler = "looking" /\ seenUsed = usedIdx
  /\ handler' = "idle" /\ lock' = None
  /\ UNCHANGED <<rings, irq, driver, pc, head, device>>

Intr == IntrAcks \/ IntrCompletes \/ IntrReturns

-------------------------------------------------------------------------------
(* The device, as the driver relies on it.                                 *)

DeviceTakes ==
  /\ seenAvail # availIdx
  /\ serving' = serving \cup {ring[seenAvail % RING]}
  /\ seenAvail' = Inc(seenAvail)
  /\ UNCHANGED <<rings, irq, driver, lock, pc, head, handler, unsignalled, moved>>

\* Move the data the chain at h points to, write its status, report it.
DeviceServes(h) ==
  LET data == desc[h].next
      status == desc[data].next
  IN /\ h \in serving
     /\ serving' = serving \ {h}
     /\ moved' = moved \cup {desc[data].addr}
     /\ info' = [info EXCEPT ![desc[status].addr].ok = TRUE]
     /\ used' = [used EXCEPT ![usedIdx % RING] = h]
     /\ usedIdx' = Inc(usedIdx)
     /\ unsignalled' = TRUE
     /\ UNCHANGED <<desc, ring, availIdx, irq, free, seenUsed, busy, lock, pc, head, handler, seenAvail>>

DeviceInterrupts ==
  /\ unsignalled
  /\ unsignalled' = FALSE /\ irq' = TRUE
  /\ UNCHANGED <<rings, driver, lock, pc, head, handler, seenAvail, serving, moved>>

Device == DeviceTakes \/ (\E h \in Descs : DeviceServes(h)) \/ DeviceInterrupts

-------------------------------------------------------------------------------
Next == (\E b \in Bufs : Rw(b) \/ Kill(b)) \/ Intr \/ Device

Spec == Init /\ [][Next]_vars

\* The device serves what it took, the PLIC delivers a pending interrupt
\* until the handler has run, and a runnable process runs.
Fairness ==
  /\ WF_vars(DeviceTakes) /\ WF_vars(DeviceInterrupts)
  /\ \A h \in Descs : WF_vars(DeviceServes(h))
  /\ SF_vars(IntrAcks) /\ WF_vars(IntrCompletes) /\ WF_vars(IntrReturns)
  /\ \A b \in Bufs : WF_vars(RwPublishes(b)) /\ SF_vars(RwReturns(b))

FairSpec == Spec /\ Fairness

-------------------------------------------------------------------------------
(* Properties.                                                             *)

\* The types of the variables, checked together with DescriptorsOwned.
TypeOK ==
  /\ desc \in [Descs -> [addr : Bufs \cup Descs \cup {None}, next : Descs, more : BOOLEAN]]
  /\ ring \in [Slots -> Descs] /\ used \in [Slots -> Descs]
  /\ {availIdx, usedIdx, seenUsed, seenAvail} \subseteq 0..(UINT16 - 1)
  /\ free \subseteq Descs /\ busy \subseteq Bufs /\ moved \subseteq Bufs
  /\ info \in [Descs -> [b : Bufs \cup {None}, ok : BOOLEAN]]
  /\ head \in [Bufs -> Descs]

\* The processes with a request out.
Waiting == {b \in Bufs : pc[b] \in {"publish", "asleep", "woken"}}

\* Every request owns three descriptors that are not free and that no other
\* request owns, and none is lost: nothing the device still reads is reused,
\* and free_desc never finds a descriptor free already.  A process sleeps for
\* descriptors only while there are fewer than three.
DescriptorsOwned ==
  /\ TypeOK
  /\ \A b \in Waiting : Cardinality(Chain(head[b])) = 3 /\ Chain(head[b]) \cap free = {}
  /\ \A b, c \in Waiting : b # c => Chain(head[b]) \cap Chain(head[c]) = {}
  /\ free \cup UNION {Chain(head[b]) : b \in Waiting} = Descs
  /\ (\E b \in Bufs : pc[b] = "need_desc") => Cardinality(free) < 3

\* virtio_disk_rw returns only after the device has moved the data of that
\* very buffer, whatever wakes the process up.
ReturnsWhenMoved ==
  [][\A b \in Bufs : b \in Waiting /\ b \notin Waiting' => b \in moved]_vars

\* The specification treats all buffers alike: one stands for every other.
AnyBuf == CHOOSE b \in Bufs : TRUE

\* A request that was published finishes: no completion is lost between the
\* acknowledgement and the loop of the handler, or to a process a kill woke.
RequestsFinish == pc[AnyBuf] = "asleep" ~> pc[AnyBuf] = "idle"
===============================================================================
