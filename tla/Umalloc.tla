-------------------------------- MODULE Umalloc --------------------------------
(***************************************************************************)
(* user/umalloc.c: malloc and free over a circular list of free blocks.    *)
(* The unit of addresses and sizes is sizeof(Header); a block is its       *)
(* header and what follows, and a header that free has merged into its     *)
(* neighbour is forgotten.  base lies below the heap.                      *)
(***************************************************************************)
EXTENDS Naturals, FiniteSets

CONSTANTS
  HeapTop,    \* bound: sbrk fails beyond it
  CORE,       \* the least number of units morecore asks for: 4096
  Sizes       \* units of the blocks a program asks for, the header included;
              \* malloc(0) is 1

ASSUME UmallocAssumption ==
  /\ HeapTop \in Nat /\ CORE \in Nat \ {0}
  /\ Sizes \subseteq Nat \ {0}

VARIABLES
  heap,       \* the headers, freep and the end of the process's memory
  held,       \* the blocks the program holds: address -> units asked for
  arena,      \* the units that morecore has got
  failed      \* the units of the last malloc if it returned 0, or 0

heapVars == <<heap, held, arena, failed>>

base == 0
Addrs == 0..HeapTop
NoHeader == [ptr |-> 0, size |-> 0]

HeapInit ==
  /\ heap = [hdr |-> [a \in Addrs |-> NoHeader], freep |-> HeapTop + 1, brk |-> 1]
  /\ held = <<>>
  /\ arena = {}
  /\ failed = 0

Ptr(h, p) == h.hdr[p].ptr
Size(h, p) == h.hdr[p].size

\* The first malloc makes base the list.
ListMade(h) ==
  IF h.freep # HeapTop + 1 THEN h
  ELSE [h EXCEPT !.freep = base, !.hdr[base] = [ptr |-> base, size |-> 0]]

\* bp belongs between p and p->s.ptr, or at one end of the arena.
Between(h, bp, p) ==
  \/ p < bp /\ bp < Ptr(h, p)
  \/ p >= Ptr(h, p) /\ (bp > p \/ bp < Ptr(h, p))

RECURSIVE Place(_, _, _)

\* The block after which free puts bp.
Place(h, bp, p) == IF Between(h, bp, p) THEN p ELSE Place(h, bp, Ptr(h, p))

\* Link bp to the free block above it, and join them if they touch.
JoinUpper(h, bp, p) ==
  LET up == Ptr(h, p)
  IN IF bp + Size(h, bp) = up
     THEN [h EXCEPT !.hdr[bp] = [ptr |-> Ptr(h, up), size |-> @.size + Size(h, up)],
                    !.hdr[up] = NoHeader]
     ELSE [h EXCEPT !.hdr[bp].ptr = up]

\* Link the free block p below to bp, and join them if they touch.
JoinLower(h, bp, p) ==
  IF p + Size(h, p) = bp
  THEN [h EXCEPT !.hdr[p] = [ptr |-> Ptr(h, bp), size |-> @.size + Size(h, bp)],
                 !.hdr[bp] = NoHeader]
  ELSE [h EXCEPT !.hdr[p].ptr = bp]

FreedAt(h, bp, p) == [JoinLower(JoinUpper(h, bp, p), bp, p) EXCEPT !.freep = p]

Freed(h, bp) == FreedAt(h, bp, Place(h, bp, h.freep))

Asked(nu) == IF nu < CORE THEN CORE ELSE nu

\* morecore, when sbrk succeeds.
Morecore(h, nu) ==
  Freed([h EXCEPT !.hdr[h.brk].size = Asked(nu), !.brk = @ + Asked(nu)], h.brk)

CanGrow(h, nu) == h.brk + Asked(nu) - 1 <= HeapTop

RECURSIVE Fit(_, _, _, _), FitToBase(_, _, _, _)

FitToBase(h, prevp, p, n) ==
  IF Size(h, p) >= n THEN prevp
  ELSE IF p = base THEN HeapTop + 1
  ELSE FitToBase(h, p, Ptr(h, p), n)

\* malloc's loop without morecore: the predecessor of the first block that
\* is large enough, or HeapTop + 1.
Fit(h, prevp, p, n) ==
  IF Size(h, p) >= n THEN prevp
  ELSE IF p = h.freep THEN HeapTop + 1
  ELSE Fit(h, p, Ptr(h, p), n)

Found(h, n) == Fit(h, h.freep, Ptr(h, h.freep), n)

\* The block malloc returns, and the list without it: the tail of the free
\* block, or all of it.
TakenAt(h, prevp, n) == LET p == Ptr(h, prevp) IN p + Size(h, p) - n
Take(h, prevp, n) ==
  LET p == Ptr(h, prevp)
  IN IF Size(h, p) = n
     THEN [h EXCEPT !.hdr[prevp].ptr = Ptr(h, p), !.hdr[p].ptr = 0, !.freep = prevp]
     ELSE [h EXCEPT !.hdr[p].size = @ - n, !.hdr[p + Size(h, p) - n] = [ptr |-> 0, size |-> n],
                    !.freep = prevp]

Returned(h, n) ==
  /\ heap' = Take(h, Found(h, n), n)
  /\ held' = [a \in DOMAIN held \cup {TakenAt(h, Found(h, n), n)} |->
                IF a \in DOMAIN held THEN held[a] ELSE n]
  /\ failed' = 0

Malloc(n) ==
  LET h == ListMade(heap) IN
  IF Found(h, n) # HeapTop + 1
  THEN Returned(h, n) /\ UNCHANGED arena
  ELSE \/ /\ CanGrow(h, n)
          /\ Returned(Morecore(h, n), n)
          /\ arena' = arena \cup h.brk..(h.brk + Asked(n) - 1)
       \/ heap' = h /\ failed' = n /\ UNCHANGED <<held, arena>>

Free(a) ==
  /\ a \in DOMAIN held
  /\ heap' = Freed(heap, a)
  /\ held' = [b \in DOMAIN held \ {a} |-> held[b]]
  /\ failed' = 0
  /\ UNCHANGED arena

\* The program moves the end of its memory itself: the arena gets a gap.
Sbrk ==
  /\ heap.brk < HeapTop
  /\ heap' = [heap EXCEPT !.brk = @ + 1]
  /\ failed' = 0
  /\ UNCHANGED <<held, arena>>

HeapNext ==
  \/ \E n \in Sizes : Malloc(n)
  \/ \E a \in DOMAIN held : Free(a)
  \/ Sbrk

-------------------------------------------------------------------------------
(* Properties.                                                             *)

RECURSIVE ListFrom(_, _)

\* The blocks of the free list, found by following the pointers.
ListFrom(p, seen) == IF p \in seen THEN seen ELSE ListFrom(Ptr(heap, p), seen \cup {p})
FreeList == IF heap.freep = HeapTop + 1 THEN {} ELSE ListFrom(heap.freep, {})
FreeBlocks == FreeList \ {base}

Units(p) == p..(p + Size(heap, p) - 1)

\* Whatever is allocated and freed in whatever order: the list is one cycle
\* through base in ascending order, every unit morecore got is in exactly one
\* block, free or held, a held block has the size that was asked for, no two
\* free blocks touch, and malloc gives up only when no free block is large
\* enough, wherever freep stands.
HeapSound ==
  LET blocks == FreeBlocks \cup DOMAIN held IN
  /\ FreeList # {} => base \in FreeList
  /\ \A p \in FreeList : Ptr(heap, p) <= p =>
       Ptr(heap, p) = base /\ \A q \in FreeList : q <= p
  /\ FreeBlocks \cap DOMAIN held = {}
  /\ \A p, q \in blocks : p # q => Units(p) \cap Units(q) = {}
  /\ UNION {Units(p) : p \in blocks} = arena
  /\ \A a \in DOMAIN held : Size(heap, a) = held[a]
  /\ \A p, q \in FreeBlocks : p + Size(heap, p) # q
  /\ failed # 0 => \A p \in FreeBlocks : Size(heap, p) < failed
===============================================================================
