---------------------------------- MODULE Mmap ----------------------------------
(***************************************************************************)
(* Memory-mapped files: sys_mmap, sys_munmap, the page-fault branch of     *)
(* usertrap, and what fork, exec, exit and wait do to mappings.  The unit  *)
(* of addresses, lengths, offsets and file contents is the page; a fault   *)
(* address may also lie inside its page.  Mappings are readable.           *)
(***************************************************************************)
EXTENDS Naturals, Sequences, FiniteSets, SequencesExt

CONSTANTS
  Procs,
  Files,          \* open files
  Contents,       \* [Files -> Seq(Val)]: what the files hold at first
  Val,            \* what users write into mapped pages
  Zero, NoPage,
  VMA_MAX,
  UINT64,         \* 2^w for the width of vma.refcnt
  MapTop,         \* pages available for mappings (vma_top_addr at first)
  MaxLen,         \* bound: pages of one mmap or munmap
  Offsets, Kinds, \* offsets, and prot and flags, that mmap is called with
  MAXFILE         \* most pages in a file

ASSUME MmapAssumption ==
  /\ Kinds \subseteq [write : BOOLEAN, shared : BOOLEAN]
  /\ {VMA_MAX, UINT64, MapTop, MaxLen, MAXFILE} \subseteq Nat \ {0}

VARIABLES
  state,   \* "unused", "live" or "zombie"
  vma,     \* vma_array of each process
  top,     \* vma_top_addr of each process
  pages,   \* the mapped-file part of each page table
  fds,     \* open descriptors of each process
  file,    \* struct file and its inode's contents
  panic    \* the kernel's last words, or "none"

vars == <<state, vma, top, pages, fds, file, panic>>

\* A slot that is not valid; of its other fields only refcnt is read again.
NoVMA == [valid |-> FALSE, addr |-> 0, len |-> 0, write |-> FALSE,
          shared |-> FALSE, off |-> 0, f |-> CHOOSE f \in Files : TRUE, refcnt |-> 0]

Slots == 1..VMA_MAX
Addrs == 0..MapTop-1

\* One process runs, with the files open.
Init ==
  /\ \E p \in Procs :
       /\ state = [q \in Procs |-> IF q = p THEN "live" ELSE "unused"]
       /\ fds = [q \in Procs |-> IF q = p THEN Files ELSE {}]
  /\ vma = [p \in Procs |-> [i \in Slots |-> NoVMA]]
  /\ top = [p \in Procs |-> MapTop]
  /\ pages = [p \in Procs |-> [a \in Addrs |-> NoPage]]
  /\ \E w \in SUBSET Files :
       file = [f \in Files |-> [ref |-> 1, writable |-> f \in w, off |-> 0, data |-> Contents[f]]]
  /\ panic = "none"

Live(p) == state[p] = "live" /\ panic = "none"

Panic(msg) == panic' = msg /\ UNCHANGED <<state, vma, top, pages, fds, file>>

\* filedup and fileclose.
Dup(fl, f) == [fl EXCEPT ![f].ref = @ + 1]
Close(fl, f) == [fl EXCEPT ![f].ref = @ - 1]

\* Slots whose valid VMA contains address a; the code takes the first.
Matching(p, a) ==
  {i \in Slots : /\ vma[p][i].valid /\ vma[p][i].addr <= a
                 /\ a < vma[p][i].addr + vma[p][i].len}

First1(S) == CHOOSE i \in S : \A j \in S : i <= j

-------------------------------------------------------------------------------
(* Reading and writing the file.                                           *)

\* readi of one page; past the end of the file the page stays zero.
PageOf(f, k) == IF k < Len(file[f].data) THEN file[f].data[k + 1] ELSE Zero

\* The file after its pages from f->off on are overwritten by s.
WriteAt(fl, f, s) ==
  LET off == fl[f].off
      end == off + Len(s)
      old == fl[f].data
  IN  [fl EXCEPT ![f].off = end,
                 ![f].data = [k \in 1..(IF Len(old) > end THEN Len(old) ELSE end) |->
                                IF off < k /\ k <= end THEN s[k - off] ELSE old[k]]]

\* What fits in the largest file.
Fitting(fl, f, s) == SubSeq(s, 1, IF Len(s) <= MAXFILE - fl[f].off THEN Len(s) ELSE MAXFILE - fl[f].off)

\* filewrite of the pages s: to f->off, not to where they were mapped from.
FileWrite(fl, f, s) == IF fl[f].writable THEN WriteAt(fl, f, Fitting(fl, f, s)) ELSE fl

\* The mapped pages among n pages from a, in order; filewrite stops at the
\* first page that copyin cannot read.
Present(p, a, n) == SelectSeq([k \in 1..n |-> pages[p][a + k - 1]], LAMBDA c : c # NoPage)
Prefix(p, a, n) ==
  LET m == CHOOSE m \in 0..n :
             /\ \A k \in 0..m-1 : pages[p][a + k] # NoPage
             /\ m < n => pages[p][a + m] = NoPage
  IN  [k \in 1..m |-> pages[p][a + k - 1]]

\* read(2) of a page moves f->off.
Read(p, f) ==
  /\ Live(p) /\ f \in fds[p] /\ file[f].off < Len(file[f].data)
  /\ file' = [file EXCEPT ![f].off = @ + 1]
  /\ UNCHANGED <<state, vma, top, pages, fds, panic>>

CloseFd(p, f) ==
  /\ Live(p) /\ f \in fds[p]
  /\ fds' = [fds EXCEPT ![p] = @ \ {f}]
  /\ file' = Close(file, f)
  /\ UNCHANGED <<state, vma, top, pages, panic>>

-------------------------------------------------------------------------------
(* The system calls and the fault handler.                                 *)

Free(p) == {i \in Slots : ~vma[p][i].valid}

\* A shared writable mapping of a read-only file is refused.
Refused(f, kind) == kind.shared /\ kind.write /\ ~file[f].writable

\* refcnt keeps what the slot's last user left in it.
Mmap(p, f, len, kind, off) ==
  /\ Live(p) /\ f \in fds[p] /\ ~Refused(f, kind)
  /\ top[p] >= len
  /\ IF Free(p) = {} THEN Panic("vma full") ELSE
     /\ vma' = [vma EXCEPT ![p][First1(Free(p))] =
                  [valid |-> TRUE, addr |-> top[p] - len, len |-> len, write |-> kind.write,
                   shared |-> kind.shared, off |-> off, f |-> f, refcnt |-> @.refcnt]]
     /\ top' = [top EXCEPT ![p] = @ - len]
     /\ file' = Dup(file, f)
     /\ UNCHANGED <<state, pages, fds, panic>>

\* A load fault at an address in page a: kalloc, mappages, readi.  kalloc's
\* result is not tested, so without memory (mem) the kernel faults clearing
\* the page.  A fault outside every mapping, like a store fault anywhere,
\* kills the process, and is one of the reasons for Exit.
PageFault(p, a, mem, aligned) ==
  /\ Live(p) /\ pages[p][a] = NoPage /\ Matching(p, a) # {}
  /\ IF ~mem THEN Panic("kerneltrap") ELSE
     IF ~aligned THEN Panic("va not aligned") ELSE
     LET i == First1(Matching(p, a)) IN
     /\ pages' = [pages EXCEPT ![p][a] = PageOf(vma[p][i].f, a - vma[p][i].addr)]
     /\ vma' = [vma EXCEPT ![p][i].refcnt = (@ + 1) % UINT64]
     /\ UNCHANGED <<state, top, fds, file, panic>>

\* The program stores into a page it has mapped.
Store(p, a, v) ==
  /\ Live(p) /\ pages[p][a] # NoPage
  /\ \E i \in Matching(p, a) : vma[p][i].write
  /\ pages' = [pages EXCEPT ![p][a] = v]
  /\ UNCHANGED <<state, vma, top, fds, file, panic>>

\* munmap where the first page is mapped: write back, unmap, and return.
\* Both go as far as the first page that is not mapped; there uvmunmap panics.
MunmapMapped(p, i, a, n) ==
  LET s == Prefix(p, a, n) IN
  /\ file' = IF vma[p][i].shared THEN FileWrite(file, vma[p][i].f, s) ELSE file
  /\ pages' = [pages EXCEPT ![p] =
                 [b \in Addrs |-> IF a <= b /\ b < a + Len(s) THEN NoPage ELSE @[b]]]
  /\ panic' = IF Len(s) < n THEN "not mapped" ELSE panic
  /\ UNCHANGED <<state, vma, top, fds>>

MunmapUntouchedKeepsFile(p, i) ==
  LET r == (vma[p][i].refcnt + UINT64 - 1) % UINT64 IN
  /\ vma' = [vma EXCEPT ![p][i] = [(IF r = 0 THEN @ ELSE NoVMA) EXCEPT !.refcnt = r]]
  /\ UNCHANGED <<file, state, top, pages, fds, panic>>

\* munmap where it is not: --refcnt, and release the file if that leaves a
\* nonzero count.
MunmapUntouched(p, i) ==
  LET r == (vma[p][i].refcnt + UINT64 - 1) % UINT64 IN
  /\ vma' = [vma EXCEPT ![p][i] = [(IF r = 0 THEN @ ELSE NoVMA) EXCEPT !.refcnt = r]]
  /\ file' = IF r = 0 THEN file ELSE Close(file, vma[p][i].f)
  /\ UNCHANGED <<state, top, pages, fds, panic>>

\* The n pages may run into the next mappings, but not past MapTop, where
\* the trapframe is.
Munmap(p, a, n) ==
  /\ Live(p) /\ a + n <= MapTop
  /\ IF Matching(p, a) = {} THEN Panic("no vma") ELSE
     LET i == First1(Matching(p, a)) IN
     IF pages[p][a] # NoPage THEN MunmapMapped(p, i, a, n) ELSE MunmapUntouched(p, i)

-------------------------------------------------------------------------------
(* Process life.                                                           *)


\* fork: the child gets the mappings but none of their pages.
Fork(p, c) ==
  /\ Live(p) /\ state[c] = "unused"
  /\ state' = [state EXCEPT ![c] = "live"]
  /\ vma' = [vma EXCEPT ![c] = [i \in Slots |-> IF vma[p][i].valid THEN vma[p][i] ELSE NoVMA]]
  /\ top' = [top EXCEPT ![c] = top[p]]
  /\ fds' = [fds EXCEPT ![c] = fds[p]]
  /\ file' = [f \in Files |->
                [file[f] EXCEPT !.ref =
                   @ + Cardinality({i \in Slots : vma[p][i].valid /\ vma[p][i].f = f})
                     + IF f \in fds[p] THEN 1 ELSE 0]]
  /\ UNCHANGED <<pages, panic>>

\* exec: a new page table; the old one is freed, which panics at a page
\* that is still mapped above p->sz.  The VMAs stay.
Exec(p) ==
  /\ Live(p)
  /\ \E a \in Addrs : pages[p][a] # NoPage
  /\ Panic("freewalk: leaf")

\* Write back and release VMA i of an exiting process.
ReleaseVMA(p, fl, i) ==
  LET v == vma[p][i]
      back == IF v.shared THEN FileWrite(fl, v.f, Present(p, v.addr, v.len)) ELSE fl
  IN  IF v.valid THEN Close(back, v.f) ELSE fl

\* The VMAs and vma_top_addr are also set as the next allocproc will.
Exit(p) ==
  /\ Live(p)
  /\ state' = [state EXCEPT ![p] = "zombie"]
  /\ LET released == FoldLeft(LAMBDA fl, i : ReleaseVMA(p, fl, i), file,
                              [i \in Slots |-> i])
     IN  file' = [f \in Files |->
                    IF f \in fds[p] THEN [released[f] EXCEPT !.ref = @ - 1] ELSE released[f]]
  /\ pages' = [pages EXCEPT ![p] =
                 [a \in Addrs |-> IF Matching(p, a) # {} THEN NoPage ELSE @[a]]]
  /\ vma' = [vma EXCEPT ![p] = [i \in Slots |-> NoVMA]]
  /\ top' = [top EXCEPT ![p] = MapTop]
  /\ fds' = [fds EXCEPT ![p] = {}]
  /\ UNCHANGED panic

\* wait: freeproc frees the zombie's page table.
Reap(p) ==
  /\ state[p] = "zombie" /\ panic = "none"
  /\ IF \E a \in Addrs : pages[p][a] # NoPage THEN Panic("freewalk: leaf") ELSE
     /\ state' = [state EXCEPT ![p] = "unused"]
     /\ UNCHANGED <<vma, top, pages, fds, file, panic>>

-------------------------------------------------------------------------------
Next ==
  \E p \in Procs :
    \/ \E f \in Files :
         \/ Read(p, f) \/ CloseFd(p, f)
         \/ \E len \in 1..MaxLen, kind \in Kinds, off \in Offsets :
              Mmap(p, f, len, kind, off)
    \/ \E a \in Addrs :
         \/ \E mem, aligned \in BOOLEAN : PageFault(p, a, mem, aligned)
         \/ \E v \in Val : Store(p, a, v)
         \/ \E n \in 1..MaxLen : Munmap(p, a, n)
    \/ \E c \in Procs : Fork(p, c)
    \/ Exec(p) \/ Exit(p) \/ Reap(p)

Spec == Init /\ [][Next]_vars

-------------------------------------------------------------------------------
Pages == Val \cup {Zero} \cup UNION {Range(Contents[f]) : f \in Files}

\* The types of the variables, checked together with RefsExact.
TypeOK ==
  /\ state \in [Procs -> {"unused", "live", "zombie"}]
  /\ \A p \in Procs, i \in Slots :
       vma[p][i] \in [valid : BOOLEAN, addr : 0..MapTop, len : 0..MaxLen, write : BOOLEAN,
                      shared : BOOLEAN, off : Offsets \cup {0}, f : Files, refcnt : 0..UINT64-1]
  /\ top \in [Procs -> 0..MapTop]
  /\ pages \in [Procs -> [Addrs -> Pages \cup {NoPage}]]
  /\ fds \in [Procs -> SUBSET Files]
  /\ \A f \in Files : /\ file[f].ref \in Nat /\ file[f].off \in 0..MAXFILE
                      /\ file[f].data \in Seq(Pages) /\ Len(file[f].data) <= MAXFILE

\* A file's reference count is the number of descriptors and of valid
\* mappings of it, so it is not freed while mapped nor kept when it is not.
RefsExact ==
  /\ TypeOK
  /\ \A f \in Files :
       file[f].ref = Cardinality({p \in Procs : f \in fds[p]})
                   + Cardinality({<<p, i>> \in Procs \X Slots :
                                    vma[p][i].valid /\ vma[p][i].f = f})


\* When a page table is freed its leaf mappings have been removed (freewalk).
LeavesRemoved == panic # "freewalk: leaf"
===============================================================================
