--------------------------------- MODULE Memory ---------------------------------
(***************************************************************************)
(* Physical pages and address spaces: kernel/kalloc.c, the user half of    *)
(* kernel/vm.c, and fork, exec, sbrk, exit and wait as far as they build   *)
(* and tear down page tables.  Any kalloc may find the free list empty.    *)
(*                                                                         *)
(* An address space belongs to one process, and the free list is the only  *)
(* thing calls share, so a call is one action: how many of its kallocs     *)
(* succeed is chosen when it starts, which stands for what the calls it    *)
(* runs beside take and give back.  Page tables have the three levels of   *)
(* walk(); a leaf is a page number and not an address.                     *)
(***************************************************************************)
EXTENDS Integers, FiniteSets, FiniteSetsExt, Sequences, SequencesExt, TLC

CONSTANTS
  Procs,
  FirstProc,   \* the process userinit makes
  NPAGES,      \* physical pages, numbered from 1
  PGSIZE,      \* bytes of a page
  FANOUT,      \* entries of a page-table page: 512
  Deltas,      \* arguments of sbrk
  Programs,    \* what exec loads: sequences of [vaddr, memsz]
  MaxSz,       \* bound: a process grows no further
  MaxCalls     \* bound: length of a history of calls

ASSUME MemoryAssumption ==
  /\ FirstProc \in Procs /\ PGSIZE \in Nat \ {0} /\ FANOUT \in Nat \ {0}
  /\ NPAGES \in Nat /\ MaxCalls \in Nat /\ Deltas \subseteq Int
  /\ MaxSz <= (FANOUT * FANOUT * FANOUT - 2) * PGSIZE

TRAMPOLINE == FANOUT * FANOUT * FANOUT - 1
TRAPFRAME == TRAMPOLINE - 1
TrampolineText == 0      \* the kernel's page that TRAMPOLINE maps

VARIABLES
  free,        \* kmem.freelist
  table,       \* p->pagetable
  trapframe,   \* p->trapframe
  sz,          \* p->sz
  broken,      \* a panic was reached or a free page was freed
  ret          \* the last call, whether it succeeded, how many there were

vars == <<free, table, trapframe, sz, broken, ret>>

\* A page table: its root page, the pages of the levels below by what they
\* cover, and the leaves.  0 stands for no page.
NoTable == [root |-> 0, nodes |-> <<>>, leaf |-> <<>>]

Without(f, x) == [y \in DOMAIN f \ {x} |-> f[y]]

-------------------------------------------------------------------------------
(* A call works on a record: the free pages, the kallocs it has left, the  *)
(* page table at hand, whether it goes well, the page it got last, and,    *)
(* for a process or program being made, its trapframe and size.            *)

Machine(pages, n, t) ==
  [free |-> pages, left |-> n, pt |-> t, ok |-> TRUE, got |-> 0, tf |-> 0, sz |-> 0, broken |-> FALSE]

Panic(m) == [m EXCEPT !.broken = TRUE]

Kalloc(m) ==
  IF m.left = 0 THEN [m EXCEPT !.ok = FALSE, !.got = 0]
  ELSE [m EXCEPT !.got = Min(m.free), !.free = @ \ {Min(m.free)}, !.left = @ - 1]

Kfree(m, pg) ==
  IF pg \in m.free \/ pg \notin 1..NPAGES THEN Panic(m) ELSE [m EXCEPT !.free = @ \cup {pg}]

\* The next step of a call that goes well, and what one that fails undoes.
AndThen(m, Op(_)) == IF m.ok THEN Op(m) ELSE m
OrUndo(m, Undo(_)) == IF m.ok THEN m ELSE Undo(m)

\* One level of walk(pagetable, va, 1).
Descend(m, key) ==
  IF key \in DOMAIN m.pt.nodes THEN m
  ELSE AndThen(Kalloc(m), LAMBDA k : [k EXCEPT !.pt.nodes = @ @@ (key :> k.got)])

Walk(m, va) ==
  AndThen(Descend(m, <<1, va \div (FANOUT * FANOUT)>>), LAMBDA x : Descend(x, <<0, va \div FANOUT>>))

MapLeaf(m, va, pg) ==
  IF va \in DOMAIN m.pt.leaf THEN Panic(m) ELSE [m EXCEPT !.pt.leaf = @ @@ (va :> pg)]

Mappages(m, va, pg) == AndThen(Walk(m, va), LAMBDA w : MapLeaf(w, va, pg))

Unmap(m, va, do_free) ==
  IF va \notin DOMAIN m.pt.leaf THEN Panic(m)
  ELSE [(IF do_free THEN Kfree(m, m.pt.leaf[va]) ELSE m)
          EXCEPT !.pt.leaf = Without(m.pt.leaf, va)]

Uvmunmap(m, va, npages, do_free) ==
  FoldLeft(LAMBDA x, i : Unmap(x, va + i - 1, do_free), m, [i \in 1..npages |-> i])

\* PGROUNDUP(s) / PGSIZE.
PgUp(s) == (s + PGSIZE - 1) \div PGSIZE

Uvmdealloc(m, oldsz, newsz) ==
  IF newsz >= oldsz THEN m
  ELSE Uvmunmap(m, PgUp(newsz), PgUp(oldsz) - PgUp(newsz), TRUE)

AllocPageLeaking(m, va) == AndThen(Kalloc(m), LAMBDA k : Mappages(k, va, k.got))

\* kalloc a page and map it at va; the page is freed if it cannot be mapped.
AllocPage(m, va) ==
  AndThen(Kalloc(m), LAMBDA k :
    OrUndo(Mappages(k, va, k.got), LAMBDA w : Kfree(w, k.got)))

\* The loop of uvmalloc goes on while a < newsz.
UvmallocEnd(newsz) == PgUp(newsz)

Uvmalloc(m, oldsz, newsz) ==
  LET first == PgUp(oldsz)
      Step(x, va) ==
        AndThen(x, LAMBDA y :
          OrUndo(AllocPage(y, va), LAMBDA z : Uvmdealloc(z, va * PGSIZE, first * PGSIZE)))
  IN IF newsz < oldsz THEN m
     ELSE FoldLeft(Step, m, [i \in 1..(UvmallocEnd(newsz) - first) |-> first + i - 1])

Freewalk(m) ==
  LET Free(x, pg) == Kfree(x, pg)
      pages == SetToSeq({m.pt.nodes[k] : k \in DOMAIN m.pt.nodes}) \o <<m.pt.root>>
  IN [(IF DOMAIN m.pt.leaf # {} THEN Panic(m) ELSE FoldLeft(Free, m, pages))
        EXCEPT !.pt = NoTable]

Uvmfree(m, s) == Freewalk(Uvmunmap(m, 0, PgUp(s), TRUE))

Uvmcreate(m) == AndThen(Kalloc(m), LAMBDA k : [k EXCEPT !.pt.root = k.got])

\* proc_pagetable: an empty table with trampoline and trapframe tf.
ProcPagetable(m, tf) ==
  AndThen(Uvmcreate(m), LAMBDA a :
    AndThen(OrUndo(Mappages(a, TRAMPOLINE, TrampolineText), LAMBDA b : Uvmfree(b, 0)), LAMBDA b :
      OrUndo(Mappages(b, TRAPFRAME, tf), LAMBDA c :
        Uvmfree(Uvmunmap(c, TRAMPOLINE, 1, FALSE), 0))))

ProcFreepagetable(m, s) ==
  Uvmfree(Uvmunmap(Uvmunmap(m, TRAMPOLINE, 1, FALSE), TRAPFRAME, 1, FALSE), s)

UvmcopyUndoShort(m, va) == Uvmunmap(m, 0, va - 1, TRUE)

\* err: unmap and free the pages below va, which are copied already.
UvmcopyUndo(m, va) == Uvmunmap(m, 0, va, TRUE)

\* uvmcopy of the pages of old below s; m's table is the child's.
Uvmcopy(m, old, s) ==
  LET Step(x, va) ==
        AndThen(x, LAMBDA y :
          IF va \notin DOMAIN old.leaf THEN Panic(y)
          ELSE OrUndo(AllocPage(y, va), LAMBDA z : UvmcopyUndo(z, va)))
  IN FoldLeft(Step, m, [i \in 1..PgUp(s) |-> i - 1])

-------------------------------------------------------------------------------
(* The calls.                                                              *)

Used == {p \in Procs : trapframe[p] # 0}

\* allocproc: tf is the trapframe.  On failure freeproc frees it.
Allocproc(m) ==
  AndThen(Kalloc(m), LAMBDA k :
    OrUndo(ProcPagetable([k EXCEPT !.tf = k.got], k.got), LAMBDA t : Kfree(t, t.tf)))

Freeproc(m, tf, s) == ProcFreepagetable(Kfree(m, tf), s)

\* userinit: one page of code.
Init ==
  LET m == AllocPage(Allocproc(Machine(1..NPAGES, NPAGES, NoTable)), 0)
  IN /\ free = m.free
     /\ table = [p \in Procs |-> IF p = FirstProc THEN m.pt ELSE NoTable]
     /\ trapframe = [p \in Procs |-> IF p = FirstProc THEN m.tf ELSE 0]
     /\ sz = [p \in Procs |-> IF p = FirstProc THEN PGSIZE ELSE 0]
     /\ broken = FALSE
     /\ ret = [op |-> "userinit", ok |-> TRUE, calls |-> 0]

Return(op, m) ==
  /\ ret.calls < MaxCalls
  /\ free' = m.free /\ broken' = (broken \/ m.broken)
  /\ ret' = [op |-> op, ok |-> m.ok, calls |-> ret.calls + 1]

SzKeptRounded(p) == PgUp(sz[p]) * PGSIZE

\* growproc returns -1 before it assigns p->sz.
SzKept(p) == sz[p]

\* growproc(n), n > 0.
SbrkGrow(p, d, n) ==
  /\ p \in Used /\ d > 0 /\ sz[p] + d <= MaxSz
  /\ \E m \in {Uvmalloc(Machine(free, n, table[p]), sz[p], sz[p] + d)} :
       /\ Return("sbrk", m)
       /\ table' = [table EXCEPT ![p] = m.pt]
       /\ sz' = [sz EXCEPT ![p] = IF m.ok THEN @ + d ELSE SzKept(p)]
  /\ UNCHANGED trapframe

\* sz + n is unsigned: below 0 it wraps to a number above sz, which
\* uvmdealloc refuses.
Shrunk(p, d) == IF sz[p] + d < 0 THEN sz[p] ELSE sz[p] + d

\* growproc(n), n < 0.
SbrkShrink(p, d) ==
  /\ p \in Used /\ d < 0
  /\ \E m \in {Uvmdealloc(Machine(free, 0, table[p]), sz[p], Shrunk(p, d))} :
       /\ Return("sbrk", m)
       /\ table' = [table EXCEPT ![p] = m.pt]
  /\ sz' = [sz EXCEPT ![p] = Shrunk(p, d)]
  /\ UNCHANGED trapframe

\* fork, the child taking the free slot c.
Forked(p, n) ==
  AndThen(Allocproc(Machine(free, n, NoTable)), LAMBDA a :
    OrUndo(Uvmcopy(a, table[p], sz[p]), LAMBDA m : Freeproc(m, m.tf, 0)))

Fork(p, c, n) ==
  /\ p \in Used /\ c \notin Used
  /\ \E m \in {Forked(p, n)} :
       /\ Return("fork", m)
       /\ table' = [table EXCEPT ![c] = m.pt]
       /\ trapframe' = [trapframe EXCEPT ![c] = IF m.ok THEN m.tf ELSE 0]
       /\ sz' = [sz EXCEPT ![c] = IF m.ok THEN sz[p] ELSE 0]

Fail(m) == [m EXCEPT !.ok = FALSE]

\* One PT_LOAD segment.  uvmalloc returning 0 ends the loading with the size
\* reached so far, readi failing (bad) in loadseg with the new size.
LoadSegment(m, seg, bad) ==
  LET newsz == Max({m.sz, seg.vaddr + seg.memsz})
      Grown(x) == IF newsz = 0 THEN Fail(x)
                  ELSE IF bad THEN Fail([x EXCEPT !.sz = newsz]) ELSE [x EXCEPT !.sz = newsz]
  IN AndThen(m, LAMBDA x : AndThen(Uvmalloc(x, x.sz, seg.vaddr + seg.memsz), Grown))

Load(m, prog, fails) ==
  FoldLeft(LAMBDA x, i : LoadSegment(x, prog[i], fails = "segment" /\ i = Len(prog)),
           m, [i \in DOMAIN prog |-> i])

\* Two pages of stack above the program, then the arguments.
AddStack(m, fails) ==
  LET base == PgUp(m.sz) * PGSIZE
      Args(x) == [x EXCEPT !.sz = base + 2 * PGSIZE, !.ok = fails # "args"]
  IN AndThen(Uvmalloc([m EXCEPT !.sz = base], base, base + 2 * PGSIZE), Args)

\* bad: free what was built, with the size reached.
Bad(m) == IF m.pt.root = 0 THEN m ELSE ProcFreepagetable(m, m.sz)

\* The new image of p; fails names the check that fails, if any.
Image(p, prog, fails, n) ==
  OrUndo(AndThen(ProcPagetable(Machine(free, n, NoTable), trapframe[p]), LAMBDA t :
           AndThen(Load(t, prog, fails), LAMBDA x : AddStack(x, fails))), Bad)

Exec(p, prog, fails, n) ==
  /\ p \in Used
  /\ \E m \in {Image(p, prog, fails, n)} :
       IF m.ok
       THEN /\ Return("exec", ProcFreepagetable([m EXCEPT !.pt = table[p]], sz[p]))
            /\ table' = [table EXCEPT ![p] = m.pt]
            /\ sz' = [sz EXCEPT ![p] = m.sz]
       ELSE Return("exec", m) /\ UNCHANGED <<table, sz>>
  /\ UNCHANGED trapframe

\* wait, or exit's part of it: the parent frees a zombie.
Reap(p) ==
  /\ p \in Used \ {FirstProc}
  /\ \E m \in {Freeproc(Machine(free, 0, table[p]), trapframe[p], sz[p])} :
       /\ Return("wait", m)
       /\ table' = [table EXCEPT ![p] = m.pt]
  /\ trapframe' = [trapframe EXCEPT ![p] = 0]
  /\ sz' = [sz EXCEPT ![p] = 0]

Next ==
  \E p \in Procs :
    \/ \E n \in 0..Cardinality(free) :
         \/ \E d \in Deltas : SbrkGrow(p, d, n)
         \/ \E c \in Procs : Fork(p, c, n)
         \/ \E prog \in Programs, fails \in {"none", "segment", "args"} : Exec(p, prog, fails, n)
    \/ \E d \in Deltas : SbrkShrink(p, d)
    \/ Reap(p)

Spec == Init /\ [][Next]_vars

-------------------------------------------------------------------------------
(* Properties.                                                             *)

\* The types of the variables, checked together with PagesAccounted.
TypeOK ==
  /\ free \subseteq 1..NPAGES
  /\ sz \in [Procs -> 0..MaxSz] /\ trapframe \in [Procs -> 0..NPAGES]
  /\ \A p \in Procs :
       /\ DOMAIN table[p].leaf \subseteq 0..TRAMPOLINE
       /\ DOMAIN table[p].nodes \subseteq {0, 1} \X (0..TRAMPOLINE)

\* No call panics or frees a page twice, wherever its memory runs out:
\* uvmunmap always finds its pages mapped, mappages finds them unmapped,
\* freewalk finds no leaf and uvmcopy finds the parent's pages.
NoPanic == ~broken

\* The uses of a page.
Uses ==
  {<<p, "trapframe">> : p \in Used} \cup {<<p, "root">> : p \in Used}
    \cup UNION {{<<p, "node", k>> : k \in DOMAIN table[p].nodes} : p \in Procs}
    \cup UNION {{<<p, "leaf", va>> : va \in DOMAIN table[p].leaf \ {TRAMPOLINE, TRAPFRAME}} : p \in Procs}

PageOf(u) ==
  CASE u[2] = "trapframe" -> trapframe[u[1]]
    [] u[2] = "root" -> table[u[1]].root
    [] u[2] = "node" -> table[u[1]].nodes[u[3]]
    [] OTHER -> table[u[1]].leaf[u[3]]

\* Every page is free or has exactly one use: no call leaks a page on any
\* of its error paths, and no two uses share one.  A process maps exactly the
\* pages below its size, its trapframe and the trampoline, as uvmfree, uvmcopy
\* and the copy routines rely on.
PagesAccounted ==
  /\ TypeOK
  /\ {PageOf(u) : u \in Uses} = 1..NPAGES \ free
  /\ \A u, v \in Uses : PageOf(u) = PageOf(v) => u = v
  /\ \A p \in Used :
       /\ DOMAIN table[p].leaf = (0..(PgUp(sz[p]) - 1)) \cup {TRAMPOLINE, TRAPFRAME}
       /\ table[p].leaf[TRAPFRAME] = trapframe[p]

\* A call that fails leaves every process its memory, and fork and exec give
\* back every page they took (sbrk may leave page-table pages behind).
FailureUndone ==
  [][~ret'.ok =>
       /\ sz' = sz /\ trapframe' = trapframe
       /\ \A p \in Procs : table'[p].leaf = table[p].leaf
       /\ ret'.op # "sbrk" => free' = free]_vars
===============================================================================
