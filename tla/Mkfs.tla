---------------------------------- MODULE Mkfs ----------------------------------
(***************************************************************************)
(* mkfs/mkfs.c: the program that makes the file system image the kernel    *)
(* boots from.  The image is modelled block by block; a block is BSIZE     *)
(* cells.  A cell of a data block holds a character of a file or a         *)
(* directory entry, a cell of an inode block a dinode, a cell of the       *)
(* indirect block a block number, and a cell of the bitmap block one bit.  *)
(***************************************************************************)
EXTENDS Integers, Sequences, SequencesExt, FiniteSetsExt

CONSTANTS
  FSSIZE, BSIZE, NINODES, IPB, LOGSIZE, NDIRECT, NINDIRECT,
  BPB,        \* bits in a bitmap block
  Sources     \* what mkfs may be called with: sequences of files

ASSUME MkfsAssumption ==
  /\ {FSSIZE, BSIZE, NINODES, IPB, LOGSIZE, NDIRECT, NINDIRECT, BPB} \subseteq Nat \ {0}
  /\ IPB <= BSIZE /\ NINDIRECT <= BSIZE

ROOTINO == 1
MAXFILE == NDIRECT + NINDIRECT

nbitmap == FSSIZE \div BPB + 1
ninodeblocks == NINODES \div IPB + 1
nmeta == 2 + LOGSIZE + ninodeblocks + nbitmap
inodestart == 2 + LOGSIZE
bmapstart == inodestart + ninodeblocks

VARIABLES
  files,      \* the files to copy
  todo,       \* what of the current one is still to be read
  mk,         \* the image and the two counters, freeblock and freeinode
  mkpc

mkfsVars == <<files, todo, mk, mkpc>>

zeroes == [i \in 0..(BSIZE - 1) |-> 0]
NoImage == [img |-> [b \in 0..(FSSIZE - 1) |-> zeroes], freeblock |-> nmeta,
            freeinode |-> 1, err |-> "none"]

MkfsInit == files = <<>> /\ todo = <<>> /\ mk = NoImage /\ mkpc = "main"

-------------------------------------------------------------------------------
(* Operations on the image m.  The host's file takes a block written past  *)
(* its end, but mkfs reads every block before it writes it and dies there. *)

Wsect(m, b, content) == [m EXCEPT !.img[b] = content]

Rinode(m, inum) == m.img[inodestart + inum \div IPB][inum % IPB]
Winode(m, inum, din) == [m EXCEPT !.img[inodestart + inum \div IPB][inum % IPB] = din]

MkIalloc(m, type) ==
  [Winode(m, m.freeinode, [type |-> type, nlink |-> 1, size |-> 0,
                           addrs |-> [i \in 0..NDIRECT |-> 0]])
   EXCEPT !.freeinode = @ + 1]

\* A direct block for file block fbn, if there is none yet.
DirectBlock(m, inum, fbn) ==
  IF Rinode(m, inum).addrs[fbn] # 0 THEN m
  ELSE [Winode(m, inum, [Rinode(m, inum) EXCEPT !.addrs[fbn] = m.freeblock])
        EXCEPT !.freeblock = @ + 1]

IndirectEntryAnew(m, x, k) ==
  IF x >= FSSIZE THEN [m EXCEPT !.err = "die"]
  ELSE [m EXCEPT !.img[x][k] = m.freeblock, !.freeblock = @ + 1]

\* An entry k of the indirect block, if there is none yet.
IndirectEntry(m, x, k) ==
  IF x >= FSSIZE THEN [m EXCEPT !.err = "die"]
  ELSE IF m.img[x][k] # 0 THEN m
  ELSE [m EXCEPT !.img[x][k] = m.freeblock, !.freeblock = @ + 1]

\* The image with a block for fbn.
WithBlock(m, inum, fbn) ==
  IF fbn >= MAXFILE THEN [m EXCEPT !.err = "abort"]
  ELSE IF fbn < NDIRECT THEN DirectBlock(m, inum, fbn)
  ELSE LET m1 == DirectBlock(m, inum, NDIRECT)
       IN IndirectEntry(m1, Rinode(m1, inum).addrs[NDIRECT], fbn - NDIRECT)

BlockOf(m, inum, fbn) ==
  IF fbn < NDIRECT THEN Rinode(m, inum).addrs[fbn]
  ELSE m.img[Rinode(m, inum).addrs[NDIRECT]][fbn - NDIRECT]

RECURSIVE Iappend(_, _, _)

\* Cells p at the end of the file, block by block.
Iappend(m, inum, p) ==
  IF p = <<>> THEN m
  ELSE LET off == Rinode(m, inum).size
           fbn == off \div BSIZE
           n1 == Min({Len(p), (fbn + 1) * BSIZE - off})
           m1 == WithBlock(m, inum, fbn)
       IN IF m1.err # "none" THEN m1
          ELSE LET x == BlockOf(m1, inum, fbn)
                   at == off - fbn * BSIZE
               IN IF x >= FSSIZE THEN [m1 EXCEPT !.err = "die"]
                  ELSE Iappend(
                         Winode(Wsect(m1, x, [i \in DOMAIN m1.img[x] |->
                                                IF i \in at..(at + n1 - 1) THEN p[i - at + 1]
                                                ELSE m1.img[x][i]]),
                                inum, [Rinode(m1, inum) EXCEPT !.size = off + n1]),
                         inum, SubSeq(p, n1 + 1, Len(p)))

Dirent(name, inum) == [name |-> name, inum |-> inum]

\* The root directory's size becomes a whole number of blocks.
FixRoot(m) ==
  Winode(m, ROOTINO,
         [Rinode(m, ROOTINO) EXCEPT !.size = (@ \div BSIZE + 1) * BSIZE])

\* The bitmap: the first used blocks are allocated.
MkBalloc(m, used) ==
  IF used >= BPB THEN [m EXCEPT !.err = "abort"]
  ELSE Wsect(m, bmapstart, [i \in 0..(BPB - 1) |-> IF i < used THEN 1 ELSE 0])

-------------------------------------------------------------------------------
(* main.                                                                   *)

Goes(next) == mkpc' = IF mk'.err = "none" THEN next ELSE "failed"

Superblock ==
  [size |-> FSSIZE, nblocks |-> FSSIZE - nmeta, ninodes |-> NINODES, nlog |-> LOGSIZE,
   logstart |-> 2, inodestart |-> inodestart, bmapstart |-> bmapstart]

\* The blocks are zeroed, the superblock is written, and the root directory
\* made with its "." and "..".
Format ==
  /\ mkpc = "main"
  /\ files' \in Sources
  /\ LET m == MkIalloc(Wsect(NoImage, 1, Superblock), "dir")
     IN mk' = Iappend(Iappend(m, ROOTINO, <<Dirent(".", ROOTINO)>>),
                      ROOTINO, <<Dirent("..", ROOTINO)>>)
  /\ Goes("files")
  /\ UNCHANGED todo

\* The next file gets an inode and an entry in the root directory.
AddFile ==
  /\ mkpc = "files" /\ mk.freeinode - 1 <= Len(files)
  /\ todo' = files[mk.freeinode - 1]
  /\ mk' = Iappend(MkIalloc(mk, "file"), ROOTINO, <<Dirent(mk.freeinode - 1, mk.freeinode)>>)
  /\ Goes("copy")
  /\ UNCHANGED files

\* It cannot be opened: mkfs dies.
AddFileDies ==
  /\ mkpc = "files" /\ mk.freeinode - 1 <= Len(files)
  /\ mkpc' = "failed"
  /\ UNCHANGED <<files, todo, mk>>

\* One read of the file, appended; a read of nothing ends it.
Copy(cc) ==
  /\ mkpc = "copy" /\ todo # <<>> /\ cc \in 1..BSIZE /\ cc <= Len(todo)
  /\ mk' = Iappend(mk, mk.freeinode - 1, SubSeq(todo, 1, cc))
  /\ todo' = SubSeq(todo, cc + 1, Len(todo))
  /\ Goes("copy")
  /\ UNCHANGED files

CopyEnd ==
  /\ mkpc = "copy" /\ todo = <<>>
  /\ mkpc' = "files"
  /\ UNCHANGED <<files, todo, mk>>

Finish ==
  /\ mkpc = "files" /\ mk.freeinode - 1 > Len(files)
  /\ mk' = MkBalloc(FixRoot(mk), mk.freeblock)
  /\ Goes("exit")
  /\ UNCHANGED <<files, todo>>

MkfsNext == Format \/ AddFile \/ AddFileDies \/ (\E cc \in 1..BSIZE : Copy(cc)) \/ CopyEnd \/ Finish

-------------------------------------------------------------------------------
(* Properties.                                                             *)

\* The blocks of file block k of inum, its indirect block included.
Used(inum) ==
  LET din == Rinode(mk, inum)
  IN [k \in 0..(NDIRECT + NINDIRECT) |->
        IF k <= NDIRECT THEN din.addrs[k]
        ELSE IF din.addrs[NDIRECT] = 0 THEN 0
        ELSE mk.img[din.addrs[NDIRECT]][k - NDIRECT - 1]]

\* What the kernel reads at offset o of inum: the cell bmap leads to.
CellAt(inum, o) == mk.img[BlockOf(mk, inum, o \div BSIZE)][o % BSIZE]

\* The contents of the root directory.
RootEntries ==
  <<Dirent(".", ROOTINO), Dirent("..", ROOTINO)>>
    \o [i \in DOMAIN files |-> Dirent(i, i + 1)]

\* In a finished image the kernel reads back every file, and every entry of
\* the root directory followed only by empty ones; no block has two owners;
\* and the bitmap marks exactly the metadata and the blocks that have one.
\* Excused is what main's rounding of the root's size does when the entries end
\* at the end of a block: the last block within the size is then not mapped.
ImageSound ==
  mkpc = "exit" =>
    LET inums == 1..(Len(files) + 1)
        owned == {<<i, k>> \in inums \X (0..(NDIRECT + NINDIRECT)) : Used(i)[k] # 0}
        root == Rinode(mk, ROOTINO)
    IN /\ \A p, q \in owned : p # q => Used(p[1])[p[2]] # Used(q[1])[q[2]]
       /\ \A b \in 0..(FSSIZE - 1) :
            (b < BPB /\ mk.img[bmapstart][b] = 1)
              <=> (b < nmeta \/ \E p \in owned : Used(p[1])[p[2]] = b)
       /\ \A i \in DOMAIN files :
            /\ Rinode(mk, i + 1).size = Len(files[i])
            /\ \A o \in DOMAIN files[i] : CellAt(i + 1, o - 1) = files[i][o]
       /\ root.size > Len(RootEntries)
       /\ \A o \in 0..(root.size - 1) :
            IF o < Len(RootEntries) THEN CellAt(ROOTINO, o) = RootEntries[o + 1]
            ELSE \/ BlockOf(mk, ROOTINO, o \div BSIZE) = 0
                 \/ CellAt(ROOTINO, o) = 0
===============================================================================
