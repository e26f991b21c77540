------------------------------- MODULE FileBlocks -------------------------------
(***************************************************************************)
(* The contents of files, kernel/fs.c and file.c: balloc and bfree on the  *)
(* bitmap, bmap, itrunc, readi and writei on an inode, fileread and        *)
(* filewrite above them.  Calls on different inodes interleave at every    *)
(* access to the bitmap; the inode's sleep lock is held in between.        *)
(*                                                                         *)
(* A cell of a block is a byte of a file or an entry of an indirect block. *)
(* The byte written at offset o of inode ip is <<ip, o>>, so that a byte   *)
(* out of place, of another file or of a previous use shows.               *)
(***************************************************************************)
EXTENDS Naturals, FiniteSets, FiniteSetsExt

CONSTANTS
  Procs, Inums,
  Blocks,       \* the data blocks of the disk
  BSIZE,        \* cells of a block, and so entries of an indirect block
  NDIRECT,      \* fs.h: direct blocks of an inode
  MAXOPBLOCKS,  \* param.h: blocks one transaction may write
  Offs, Lens,   \* offsets and lengths of the reads and writes
  None,         \* block number 0, a zeroed cell, nobody
  Junk          \* what the cells of a free block hold: nothing tells apart
                \* the bytes it was freed with

ASSUME BlocksAssumption ==
  /\ IsFiniteSet(Blocks) /\ BSIZE \in Nat \ {0} /\ NDIRECT \in Nat \ {0}
  /\ MAXOPBLOCKS \in Nat /\ MAXOPBLOCKS >= 6
  /\ Lens \subseteq Nat \ {0} /\ Offs \subseteq 0..(NDIRECT + BSIZE) * BSIZE
  /\ None \notin Blocks \cup Procs /\ Junk \notin Blocks \cup {None}

NINDIRECT == BSIZE
MAXFILE == NDIRECT + NINDIRECT
Cells == 0..(BSIZE - 1)

VARIABLES
  bitmap,       \* the blocks marked in use
  data,         \* the contents of the blocks
  addrs, size,  \* ip->addrs and ip->size in memory
  dinode,       \* the same on the disk
  lock,         \* ip->lock
  pc,
  call,         \* the call a process is in
  logged        \* the blocks its transaction has log_written

disk  == <<bitmap, data>>
inode == <<addrs, size>>
vars  == <<disk, inode, dinode, lock, pc, call, logged>>

Zeroed == [c \in Cells |-> None]
Empty == [i \in 0..NDIRECT |-> None]

\* op: what is called; off, todo: of the readi or writei; rest: what filewrite
\* has left after this writei; j: loop variable of itrunc.
NoCall == [op |-> "none", ip |-> None, off |-> 0, todo |-> 0, rest |-> 0, j |-> 0]

\* A file system of empty files.
Init ==
  /\ bitmap = {} /\ data = [b \in Blocks |-> [c \in Cells |-> Junk]]
  /\ addrs = [ip \in Inums |-> Empty] /\ size = [ip \in Inums |-> 0]
  /\ dinode = [ip \in Inums |-> [addrs |-> Empty, size |-> 0]]
  /\ lock = [ip \in Inums |-> None]
  /\ pc = [p \in Procs |-> "idle"] /\ call = [p \in Procs |-> NoCall]
  /\ logged = [p \in Procs |-> {}]

-------------------------------------------------------------------------------
(* Entering and leaving a call.                                            *)

MaxChunkWhole == MAXFILE * BSIZE

\* filewrite: what one transaction may write, with room for the inode, the
\* indirect block, the bitmap and an unaligned end.
MaxChunk == ((MAXOPBLOCKS - 1 - 1 - 2) \div 2) * BSIZE

\* The early returns of writei.
Outside(ip, off, n) == off > size[ip] \/ off + n > MAXFILE * BSIZE

\* ilock, and the range readi or writei will work on.
Enter(p, c) ==
  /\ lock[c.ip] = None
  /\ lock' = [lock EXCEPT ![c.ip] = p]
  /\ call' = [call EXCEPT ![p] = c]

\* A call, or one more round of filewrite's loop, enters writei.
WriteChunk(p, ip, off, n) ==
  LET n1 == Min({n, MaxChunk})
  IN /\ lock[ip] = None
     /\ IF Outside(ip, off, n1)
        THEN /\ pc' = [pc EXCEPT ![p] = "idle"]
             /\ call' = [call EXCEPT ![p] = NoCall]
             /\ UNCHANGED lock
        ELSE /\ Enter(p, [NoCall EXCEPT !.op = "write", !.ip = ip, !.off = off,
                                        !.todo = n1, !.rest = n - n1])
             /\ pc' = [pc EXCEPT ![p] = "loop"]
     /\ UNCHANGED <<disk, inode, dinode, logged>>

Filewrite(p, ip, off, n) == pc[p] = "idle" /\ WriteChunk(p, ip, off, n)

FilewriteNext(p) ==
  /\ pc[p] = "next"
  /\ WriteChunk(p, call[p].ip, call[p].off, call[p].rest)

\* readi cuts n to the size of the file.
Available(ip, off, n) == Min({n, size[ip] - off})

\* fileread.
Fileread(p, ip, off, n) ==
  /\ pc[p] = "idle"
  /\ off <= size[ip]
  /\ Enter(p, [NoCall EXCEPT !.op = "read", !.ip = ip, !.off = off,
                             !.todo = Available(ip, off, n)])
  /\ pc' = [pc EXCEPT ![p] = "loop"]
  /\ UNCHANGED <<disk, inode, dinode, logged>>

\* open with O_TRUNC, or the last iput of an unlinked file.
Truncate(p, ip) ==
  /\ pc[p] = "idle"
  /\ Enter(p, [NoCall EXCEPT !.op = "trunc", !.ip = ip])
  /\ pc' = [pc EXCEPT ![p] = "trunc"]
  /\ UNCHANGED <<disk, inode, dinode, logged>>

\* iunlock, and end_op unless the call was a read.
Leave(p, ip) ==
  /\ lock' = [lock EXCEPT ![ip] = None]
  /\ logged' = [logged EXCEPT ![p] = {}]

-------------------------------------------------------------------------------
(* readi and writei.                                                       *)

\* What bmap finds for block bn of ip.
Found(ip, bn) ==
  IF bn < NDIRECT THEN addrs[ip][bn]
  ELSE IF addrs[ip][NDIRECT] = None THEN None
  ELSE data[addrs[ip][NDIRECT]][bn - NDIRECT]

Bn(p) == call[p].off \div BSIZE

InLoop(p) == pc[p] = "loop" /\ call[p].todo > 0

\* bzero.
Cleared(b) == Zeroed

Log(p, S) == logged' = [logged EXCEPT ![p] = @ \cup S]

\* bmap: balloc a block b and enter it: for the block itself, or first for
\* the indirect block.  The mark, bzero and the store are one action: the
\* bitmap's buffer lock orders the marks, and until it is stored the block is
\* known to this call alone.
Bmap(p, b) ==
  LET ip == call[p].ip
      bn == Bn(p)
      ind == addrs[ip][NDIRECT]
      top == IF bn < NDIRECT THEN bn ELSE NDIRECT
  IN /\ InLoop(p) /\ Found(ip, bn) = None
     /\ b \notin bitmap
     /\ bitmap' = bitmap \cup {b}
     /\ IF bn < NDIRECT \/ ind = None
        THEN /\ addrs' = [addrs EXCEPT ![ip][top] = b]
             /\ data' = [data EXCEPT ![b] = Cleared(b)]
             /\ Log(p, {"bitmap", b})
        ELSE /\ data' = [data EXCEPT ![b] = Cleared(b), ![ind][bn - NDIRECT] = b]
             /\ Log(p, {"bitmap", b, ind})
             /\ UNCHANGED addrs
     /\ UNCHANGED <<size, dinode, lock, pc, call>>

\* balloc returns 0: the loop ends early.
OutOfBlocks(p) ==
  /\ InLoop(p) /\ Found(call[p].ip, Bn(p)) = None
  /\ bitmap = Blocks
  /\ pc' = [pc EXCEPT ![p] = "short"]
  /\ UNCHANGED <<disk, inode, dinode, lock, call, logged>>

\* What is copied of the current block.
Piece(p) ==
  LET c == call[p].off % BSIZE IN c..(c + Min({call[p].todo, BSIZE - c}) - 1)

\* The block b with the cells S of its bn-th block written.
Written(ip, bn, b, S) ==
  [c \in Cells |-> IF c \in S THEN <<ip, bn * BSIZE + c>> ELSE data[b][c]]

\* either_copyin or either_copyout succeeds.
Copy(p) ==
  LET ip == call[p].ip
      b == Found(ip, Bn(p))
      m == Cardinality(Piece(p))
  IN /\ InLoop(p) /\ b # None
     /\ call' = [call EXCEPT ![p].off = @ + m, ![p].todo = @ - m]
     /\ IF call[p].op = "write"
        THEN /\ data' = [data EXCEPT ![b] = Written(ip, Bn(p), b, Piece(p))]
             /\ Log(p, {b})
        ELSE UNCHANGED <<data, logged>>
     /\ UNCHANGED <<bitmap, inode, dinode, lock, pc>>

\* It fails, some cells copied: the user's memory ends there.
CopyFails(p) ==
  LET ip == call[p].ip
      b == Found(ip, Bn(p))
  IN /\ InLoop(p) /\ b # None
     /\ pc' = [pc EXCEPT ![p] = "short"]
     /\ \E S \in {{}, {Min(Piece(p))}} :
          IF call[p].op = "write" /\ S # Piece(p)
          THEN data' = [data EXCEPT ![b] = Written(ip, Bn(p), b, S)]
          ELSE UNCHANGED data
     /\ UNCHANGED <<bitmap, inode, dinode, lock, call, logged>>

Finished(p) == pc[p] = "short" \/ (pc[p] = "loop" /\ call[p].todo = 0)

ReadEnds(p) ==
  /\ Finished(p) /\ call[p].op = "read"
  /\ Leave(p, call[p].ip)
  /\ pc' = [pc EXCEPT ![p] = "idle"]
  /\ call' = [call EXCEPT ![p] = NoCall]
  /\ UNCHANGED <<disk, inode, dinode>>

IupdateIfGrown(ip, s) ==
  dinode' = IF s > dinode[ip].size
            THEN [dinode EXCEPT ![ip] = [addrs |-> addrs[ip], size |-> s]] ELSE dinode

\* iupdate after writei's loop, whether the size changed or not.
Iupdate(ip, s) == dinode' = [dinode EXCEPT ![ip] = [addrs |-> addrs[ip], size |-> s]]

\* The end of writei; filewrite goes on if all was written.
WriteEnds(p) ==
  LET ip == call[p].ip
      s == Max({size[ip], call[p].off})
  IN /\ Finished(p) /\ call[p].op = "write"
     /\ size' = [size EXCEPT ![ip] = s]
     /\ Iupdate(ip, s)
     /\ Leave(p, ip)
     /\ IF pc[p] = "loop" /\ call[p].rest > 0
        THEN pc' = [pc EXCEPT ![p] = "next"] /\ UNCHANGED call
        ELSE pc' = [pc EXCEPT ![p] = "idle"] /\ call' = [call EXCEPT ![p] = NoCall]
     /\ UNCHANGED <<disk, addrs>>

-------------------------------------------------------------------------------
(* itrunc, one bfree at a time.                                            *)

Directs(ip) == {i \in 0..(NDIRECT - 1) : addrs[ip][i] # None}

Bfree(p, b) ==
  /\ bitmap' = bitmap \ {b}
  /\ data' = [data EXCEPT ![b] = [c \in Cells |-> Junk]]
  /\ Log(p, {"bitmap"})

TruncDirect(p) ==
  LET ip == call[p].ip
      i == Min(Directs(ip))
  IN /\ pc[p] = "trunc" /\ Directs(ip) # {}
     /\ Bfree(p, addrs[ip][i])
     /\ addrs' = [addrs EXCEPT ![ip][i] = None]
     /\ UNCHANGED <<size, dinode, lock, pc, call>>

\* An entry of the indirect block, which is left as it is.
TruncEntry(p) ==
  LET ip == call[p].ip
      b == data[addrs[ip][NDIRECT]][call[p].j]
  IN /\ pc[p] = "trunc" /\ Directs(ip) = {}
     /\ addrs[ip][NDIRECT] # None /\ call[p].j < NINDIRECT
     /\ IF b # None THEN Bfree(p, b) ELSE UNCHANGED <<disk, logged>>
     /\ call' = [call EXCEPT ![p].j = @ + 1]
     /\ UNCHANGED <<inode, dinode, lock, pc>>

TruncIndirect(p) ==
  LET ip == call[p].ip
  IN /\ pc[p] = "trunc" /\ Directs(ip) = {}
     /\ addrs[ip][NDIRECT] # None /\ call[p].j = NINDIRECT
     /\ Bfree(p, addrs[ip][NDIRECT])
     /\ addrs' = [addrs EXCEPT ![ip][NDIRECT] = None]
     /\ UNCHANGED <<size, dinode, lock, pc, call>>

SizeKept(ip) == size[ip]

\* ip->size = 0.
SizeAfterTrunc(ip) == 0

TruncEnds(p) ==
  LET ip == call[p].ip
  IN /\ pc[p] = "trunc" /\ addrs[ip] = Empty
     /\ size' = [size EXCEPT ![ip] = SizeAfterTrunc(ip)]
     /\ Iupdate(ip, SizeAfterTrunc(ip))
     /\ Leave(p, ip)
     /\ pc' = [pc EXCEPT ![p] = "idle"]
     /\ call' = [call EXCEPT ![p] = NoCall]
     /\ UNCHANGED <<disk, addrs>>

-------------------------------------------------------------------------------
Calls(p) ==
  \E ip \in Inums :
    \/ \E off \in Offs, n \in Lens : Filewrite(p, ip, off, n) \/ Fileread(p, ip, off, n)
    \/ Truncate(p, ip)

Rw(p) ==
  \/ FilewriteNext(p)
  \/ \E b \in Blocks : Bmap(p, b)
  \/ OutOfBlocks(p) \/ Copy(p) \/ CopyFails(p) \/ ReadEnds(p) \/ WriteEnds(p)

Trunc(p) == TruncDirect(p) \/ TruncEntry(p) \/ TruncIndirect(p) \/ TruncEnds(p)

Next == \E p \in Procs : Calls(p) \/ Rw(p) \/ Trunc(p)

Spec == Init /\ [][Next]_vars

-------------------------------------------------------------------------------
(* Properties.                                                             *)

\* The types of the variables, checked together with BlocksOwned.
TypeOK ==
  /\ bitmap \subseteq Blocks
  /\ addrs \in [Inums -> [0..NDIRECT -> Blocks \cup {None}]]
  /\ size \in [Inums -> 0..(MAXFILE * BSIZE)]
  /\ \A p \in Procs : call[p].off + call[p].todo <= MAXFILE * BSIZE /\ call[p].j <= NINDIRECT
  /\ lock \in [Inums -> Procs \cup {None}]

\* The entries of ip's indirect block that itrunc has not freed yet.
LiveEntries(ip) ==
  LET j == IF lock[ip] = None THEN 0 ELSE call[lock[ip]].j
  IN IF addrs[ip][NDIRECT] = None THEN {} ELSE j..(NINDIRECT - 1)

\* Where block numbers are stored: <<inode, index>>, entries after addrs.
Places ==
  {<<ip, i>> : ip \in Inums, i \in 0..NDIRECT}
    \cup UNION {{<<ip, NDIRECT + 1 + j>> : j \in LiveEntries(ip)} : ip \in Inums}

Stored(x) ==
  IF x[2] <= NDIRECT THEN addrs[x[1]][x[2]]
  ELSE data[addrs[x[1]][NDIRECT]][x[2] - NDIRECT - 1]

UsedPlaces == {x \in Places : Stored(x) # None}

\* A block is marked in use exactly when it is stored in one place: blocks
\* are neither shared nor lost, and bfree never finds its block free, while
\* calls on several inodes allocate and free.  An unlocked inode is the same on
\* the disk, also when a write failed after it had allocated: what a commit
\* then saves is consistent with the bitmap.
BlocksOwned ==
  /\ TypeOK
  /\ \A ip \in Inums : lock[ip] = None => dinode[ip] = [addrs |-> addrs[ip], size |-> size[ip]]
  /\ bitmap = {Stored(x) : x \in UsedPlaces}
  /\ \A x, y \in UsedPlaces : Stored(x) = Stored(y) => x = y

\* Every byte of a file below its size was written to this file at this
\* offset, after short writes, failed copies, truncation and reuse of its
\* blocks: no zeros of balloc and no byte of another place.  Two writes to one
\* offset are not told apart.
BytesInPlace ==
  \A ip \in Inums : lock[ip] = None =>
    \A o \in 0..(size[ip] - 1) :
      LET b == Found(ip, o \div BSIZE) IN b # None /\ data[b][o % BSIZE] = <<ip, o>>

\* A transaction of filewrite or itrunc never logs more than MAXOPBLOCKS
\* blocks, the inode's own block included: what begin_op reserved suffices.
\* And readi, which runs outside a transaction, where balloc's log_write would
\* panic, logs nothing: there are no holes below the size.
FitsTransaction ==
  \A p \in Procs :
    /\ Cardinality(logged[p]) + 1 <= MAXOPBLOCKS
    /\ call[p].op = "read" => logged[p] = {}
===============================================================================
