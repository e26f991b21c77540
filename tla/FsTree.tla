--------------------------------- MODULE FsTree ---------------------------------
(***************************************************************************)
(* Inodes, directories and the system calls that change the tree:          *)
(* kernel/fs.c from iget to namex and kernel/sysfile.c from sys_link to    *)
(* sys_chdir.  Processes walk paths, lock one or two inodes and move       *)
(* references; the model has one action per stretch of code between two    *)
(* points where another process can matter.                                *)
(*                                                                         *)
(* itable.lock covers each of iget, idup and the parts of iput; an inode's *)
(* sleep lock is held across actions.  The table is indexed by inode       *)
(* number: iget never gives an inode two entries, and an entry without     *)
(* references is blank, since iget sets all of its fields.  A transaction  *)
(* only delays these calls (module Log); no crash happens here.            *)
(***************************************************************************)
EXTENDS Naturals, Sequences, FiniteSets, Functions, FiniteSetsExt

CONSTANTS
  Procs,
  Inums,      \* inode numbers; 0 means none
  ROOTINO,
  Names,      \* names besides "." and ".."
  Calls,      \* the system calls the processes make, with their arguments
  None        \* nobody holds the lock

ASSUME TreeAssumption ==
  /\ Inums \subseteq Nat \ {0} /\ IsFiniteSet(Inums) /\ ROOTINO \in Inums
  /\ IsFiniteSet(Procs) /\ None \notin Procs
  /\ {".", ".."} \cap Names = {}

VARIABLES
  disk,       \* the dinodes: type and link count
  ents,       \* the contents of directories: name -> inode number or 0
  itable,     \* the in-memory inodes
  cwd,        \* p->cwd
  fd,         \* the inode of the one file a process keeps open, or 0
  pc,
  call,       \* the system call a process is in
  frame       \* the local variables of its kernel code

vars == <<disk, ents, itable, cwd, fd, pc, call, frame>>
tree == <<disk, ents>>

AllNames == Names \cup {".", ".."}
NoEntries == [n \in AllNames |-> 0]
Types == {"free", "dir", "file", "device"}

\* A frame: the inodes a call works on, the directory namex stands in and
\* the rest of the path, the inodes to iput next and what follows.
NoFrame == [ip |-> 0, dp |-> 0, rest |-> <<>>, puts |-> <<>>, next |-> "idle"]
NoCall == [op |-> "none"]
NoInode == [ref |-> 0, valid |-> FALSE, type |-> "free", nlink |-> 0, lock |-> None]

\* mkfs: a root directory that contains itself; every process starts there.
Init ==
  /\ disk = [i \in Inums |-> IF i = ROOTINO THEN [type |-> "dir", nlink |-> 1]
                                             ELSE [type |-> "free", nlink |-> 0]]
  /\ ents = [i \in Inums |-> IF i = ROOTINO
                             THEN [NoEntries EXCEPT !["."] = ROOTINO, ![".."] = ROOTINO]
                             ELSE NoEntries]
  /\ itable = [i \in Inums |-> [NoInode EXCEPT !.ref = IF i = ROOTINO THEN Cardinality(Procs) ELSE 0]]
  /\ cwd = [p \in Procs |-> ROOTINO]
  /\ fd = [p \in Procs |-> 0]
  /\ pc = [p \in Procs |-> "idle"]
  /\ call = [p \in Procs |-> NoCall]
  /\ frame = [p \in Procs |-> NoFrame]

-------------------------------------------------------------------------------
(* The inode table.                                                        *)

\* What the in-memory inode holds once ilock has read it if need be.
Loaded(i) == IF itable[i].valid THEN [type |-> itable[i].type, nlink |-> itable[i].nlink]
                                ELSE disk[i]

\* iget, idup, under itable.lock: one more reference; an entry iget has to
\* recycle is not valid.
Iget(t, i) == [t EXCEPT ![i].ref = @ + 1]

Unref(t, i) == [t EXCEPT ![i] = IF @.ref = 1 THEN NoInode ELSE [@ EXCEPT !.ref = @ - 1]]

\* ilock reads a dinode that is free and panics.
NoType(i) == ~itable[i].valid /\ disk[i].type = "free"

\* ilock can go on.
CanLock(i) == itable[i].lock = None /\ ~NoType(i)

Ilock(t, i, p) ==
  [t EXCEPT ![i] = [@ EXCEPT !.valid = TRUE, !.type = Loaded(i).type,
                             !.nlink = Loaded(i).nlink, !.lock = p]]

Iunlock(t, i) == [t EXCEPT ![i].lock = None]

\* ip->nlink = n in memory, and iupdate's copy of the inode to the disk.
SetNlink(t, i, n) == [t EXCEPT ![i].nlink = n]
Iupdate(d, t, i) == [d EXCEPT ![i] = [type |-> t[i].type, nlink |-> t[i].nlink]]

Goto(p, s, fr) ==
  /\ pc' = [pc EXCEPT ![p] = s]
  /\ frame' = [frame EXCEPT ![p] = IF s = "idle" THEN NoFrame ELSE fr]
  /\ call' = [call EXCEPT ![p] = IF s = "idle" THEN NoCall ELSE @]

\* Drop references to the inodes is, in order, then go on at s; a call that
\* only has to return has no use for its local variables.
PutThen(p, is, s, fr) ==
  Goto(p, "put", [(IF s = "idle" THEN NoFrame ELSE fr) EXCEPT !.puts = is, !.next = s])

LastPutAnyLinks(i) == itable[i].ref = 1 /\ itable[i].valid
\* The condition under which iput frees the inode.
LastPut(i) == itable[i].ref = 1 /\ itable[i].valid /\ itable[i].nlink = 0

PutDone(p) ==
  LET fr == frame[p]
  IN IF Len(fr.puts) > 1 THEN Goto(p, "put", [fr EXCEPT !.puts = Tail(@)])
                         ELSE Goto(p, fr.next, [fr EXCEPT !.puts = <<>>, !.next = "idle"])

\* iput up to its first release of itable.lock.
Iput(p) ==
  LET i == Head(frame[p].puts) IN
  /\ pc[p] = "put"
  /\ IF LastPut(i)
     THEN /\ itable[i].lock = None
          /\ itable' = [itable EXCEPT ![i].lock = p]
          /\ Goto(p, "free", frame[p])
     ELSE /\ itable' = Unref(itable, i)
          /\ PutDone(p)
  /\ UNCHANGED <<tree, cwd, fd>>

\* itrunc, ip->type = 0, iupdate: the inode number can be allocated again.
IputFree(p) ==
  LET i == Head(frame[p].puts) IN
  /\ pc[p] = "free"
  /\ ents' = [ents EXCEPT ![i] = NoEntries]
  /\ itable' = [itable EXCEPT ![i].type = "free"]
  /\ disk' = Iupdate(disk, itable', i)
  /\ Goto(p, "freed", frame[p])
  /\ UNCHANGED <<cwd, fd>>


\* ip->valid = 0, releasesleep.
IputInvalidate(p) ==
  LET i == Head(frame[p].puts) IN
  /\ pc[p] = "freed"
  /\ itable' = Iunlock([itable EXCEPT ![i].valid = FALSE], i)
  /\ Goto(p, "drop", frame[p])
  /\ UNCHANGED <<tree, cwd, fd>>

\* The rest of iput: ip->ref--.
IputDrop(p) ==
  LET i == Head(frame[p].puts) IN
  /\ pc[p] = "drop"
  /\ itable' = Unref(itable, i)
  /\ PutDone(p)
  /\ UNCHANGED <<tree, cwd, fd>>

-------------------------------------------------------------------------------
(* namex: at pc "namei" it moves frame.ip, at "nameiparent" frame.dp.      *)

Parent(p) == pc[p] = "nameiparent"
At(p) == IF Parent(p) THEN frame[p].dp ELSE frame[p].ip
Name(p) == Head(frame[p].rest)

\* The inode a path starts from, and the frame that walks it from there.
Origin(p, path) == IF path.abs THEN ROOTINO ELSE cwd[p]

\* Where a call goes on when namex returns 0.
WalkFailed(p) == IF Parent(p) /\ call[p].op = "link" THEN "link_bad" ELSE "idle"

\* ilock(ip) and, at the end of the action, iunlock(ip).
LockedOnce(p, i) == Iunlock(Ilock(itable, i, p), i)

\* namei goes on while there is an element left, and then has its inode.
Namei(rest) == IF rest = <<>> THEN "found" ELSE "namei"

\* One round of the loop: look the next element up, move on to it.
WalkStep(p) ==
  LET i == At(p)
      next == ents[i][Name(p)]
      fr == [frame[p] EXCEPT !.rest = Tail(@)]
  IN /\ pc[p] \in {"namei", "nameiparent"}
     /\ frame[p].rest # <<>> /\ CanLock(i)
     /\ Loaded(i).type = "dir" /\ ~(Parent(p) /\ Len(frame[p].rest) = 1)
     /\ next # 0
     /\ itable' = Iget(LockedOnce(p, i), next)
     /\ IF Parent(p) THEN PutThen(p, <<i>>, "nameiparent", [fr EXCEPT !.dp = next])
                     ELSE PutThen(p, <<i>>, Namei(fr.rest), [fr EXCEPT !.ip = next])
     /\ UNCHANGED <<tree, cwd, fd>>

\* The path leads through something that is not there or no directory.
WalkFails(p) ==
  LET i == At(p) IN
  /\ pc[p] \in {"namei", "nameiparent"}
  /\ frame[p].rest # <<>> /\ CanLock(i)
  /\ \/ Loaded(i).type # "dir"
     \/ ~(Parent(p) /\ Len(frame[p].rest) = 1) /\ ents[i][Name(p)] = 0
  /\ itable' = LockedOnce(p, i)
  /\ PutThen(p, <<i>>, WalkFailed(p), frame[p])
  /\ UNCHANGED <<tree, cwd, fd>>

\* nameiparent stops one level early.
WalkStops(p) ==
  /\ Parent(p) /\ Len(frame[p].rest) = 1
  /\ CanLock(At(p)) /\ Loaded(At(p)).type = "dir"
  /\ itable' = LockedOnce(p, At(p))
  /\ Goto(p, "parent", frame[p])
  /\ UNCHANGED <<tree, cwd, fd>>

\* The path was empty: there is no parent.
WalkEnds(p) ==
  /\ pc[p] = "nameiparent" /\ frame[p].rest = <<>>
  /\ PutThen(p, <<At(p)>>, WalkFailed(p), frame[p])
  /\ UNCHANGED <<tree, itable, cwd, fd>>

Walk(p) == WalkStep(p) \/ WalkFails(p) \/ WalkStops(p) \/ WalkEnds(p)

-------------------------------------------------------------------------------
(* System calls.                                                           *)

WithParent == {"unlink", "create"}

\* A process enters a system call; namex takes its first reference.
Start(p, c) ==
  LET o == Origin(p, c.path)
      fr == [NoFrame EXCEPT !.rest = c.path.elems]
  IN /\ pc[p] = "idle"
     /\ call' = [call EXCEPT ![p] = c]
     /\ pc' = [pc EXCEPT ![p] = IF c.op \in WithParent THEN "nameiparent" ELSE Namei(c.path.elems)]
     /\ frame' = [frame EXCEPT ![p] = IF c.op \in WithParent THEN [fr EXCEPT !.dp = o]
                                                             ELSE [fr EXCEPT !.ip = o]]
     /\ itable' = Iget(itable, o)
     /\ UNCHANGED <<tree, cwd, fd>>

\* close, or exit's fileclose: iput(ff.ip).
Close(p) ==
  /\ pc[p] = "idle" /\ fd[p] # 0
  /\ PutThen(p, <<fd[p]>>, "idle", NoFrame)
  /\ fd' = [fd EXCEPT ![p] = 0]
  /\ UNCHANGED <<tree, itable, cwd>>

\* sys_link: count the link first, then look for the new parent.
LinkCount(p) ==
  LET ip == frame[p].ip
      t == Ilock(itable, ip, p)
      o == Origin(p, call[p].new)
      t2 == SetNlink(t, ip, t[ip].nlink + 1)
  IN /\ pc[p] = "found" /\ call[p].op = "link" /\ CanLock(ip)
     /\ IF t[ip].type = "dir"
        THEN /\ itable' = Iunlock(t, ip)
             /\ PutThen(p, <<ip>>, "idle", frame[p])
             /\ UNCHANGED disk
        ELSE /\ itable' = Iget(Iunlock(t2, ip), o)
             /\ disk' = Iupdate(disk, t2, ip)
             /\ Goto(p, "nameiparent", [frame[p] EXCEPT !.dp = o, !.rest = call[p].new.elems])
     /\ UNCHANGED <<ents, cwd, fd>>

\* dirlink finds the name taken: it gets and puts that inode.
LinkExists(p) ==
  LET dp == frame[p].dp
      old == ents[dp][Name(p)]
  IN /\ pc[p] = "parent" /\ call[p].op = "link" /\ CanLock(dp)
     /\ old # 0
     /\ itable' = Iget(Ilock(itable, dp, p), old)
     /\ PutThen(p, <<old>>, "link_unlock", frame[p])
     /\ UNCHANGED <<tree, cwd, fd>>

LinkUnlock(p) ==
  LET dp == frame[p].dp IN
  /\ pc[p] = "link_unlock"
  /\ itable' = Iunlock(itable, dp)
  /\ PutThen(p, <<dp>>, "link_bad", frame[p])
  /\ UNCHANGED <<tree, cwd, fd>>

\* dirlink enters the name, or the disk has no block for it.
LinkEnter(p) ==
  LET dp == frame[p].dp
      ip == frame[p].ip
  IN /\ pc[p] = "parent" /\ call[p].op = "link" /\ CanLock(dp)
     /\ ents[dp][Name(p)] = 0
     /\ itable' = LockedOnce(p, dp)
     /\ \/ /\ ents' = [ents EXCEPT ![dp][Name(p)] = ip]
           /\ PutThen(p, <<dp, ip>>, "idle", frame[p])
        \/ /\ PutThen(p, <<dp>>, "link_bad", frame[p])
           /\ UNCHANGED ents
     /\ UNCHANGED <<disk, cwd, fd>>

\* bad: take the count back.
LinkBad(p) ==
  LET ip == frame[p].ip
      t == Ilock(itable, ip, p)
      t2 == SetNlink(t, ip, t[ip].nlink - 1)
  IN /\ pc[p] = "link_bad" /\ CanLock(ip)
     /\ itable' = Iunlock(t2, ip)
     /\ disk' = Iupdate(disk, t2, ip)
     /\ PutThen(p, <<ip>>, "idle", frame[p])
     /\ UNCHANGED <<ents, cwd, fd>>

Link(p) == LinkCount(p) \/ LinkExists(p) \/ LinkUnlock(p) \/ LinkEnter(p) \/ LinkBad(p)

IsDirEmpty(i) == \A n \in Names : ents[i][n] = 0

UnlinkableAny(p) == ents[frame[p].dp][Name(p)] # 0

\* The name is there, and is neither "." nor "..".
Unlinkable(p) == Name(p) \in Names /\ ents[frame[p].dp][Name(p)] # 0

\* sys_unlink: lock the parent, look the name up; the parent stays locked.
UnlinkLookup(p) ==
  LET dp == frame[p].dp
      ip == ents[dp][Name(p)]
  IN /\ pc[p] = "parent" /\ call[p].op = "unlink" /\ CanLock(dp)
     /\ IF Unlinkable(p)
        THEN /\ itable' = Iget(Ilock(itable, dp, p), ip)
             /\ Goto(p, "unlink", [frame[p] EXCEPT !.ip = ip])
        ELSE /\ itable' = LockedOnce(p, dp)
             /\ PutThen(p, <<dp>>, "idle", frame[p])
     /\ UNCHANGED <<tree, cwd, fd>>

\* The directory is not empty.
UnlinkRefused(p) ==
  LET ip == frame[p].ip IN
  /\ pc[p] = "unlink" /\ CanLock(ip) /\ Loaded(ip).nlink >= 1
  /\ Loaded(ip).type = "dir" /\ ~IsDirEmpty(ip)
  /\ itable' = LockedOnce(p, ip)
  /\ PutThen(p, <<ip>>, "unlock_dp", frame[p])
  /\ UNCHANGED <<tree, cwd, fd>>

\* A directory's ".." no longer counts as a link to its parent.
Uncount(t, ip, dp) == IF t[ip].type = "dir" THEN SetNlink(t, dp, t[dp].nlink - 1) ELSE t

\* Clear the entry, uncount a directory's "..", let go of the parent.
UnlinkEntry(p) ==
  LET dp == frame[p].dp
      ip == frame[p].ip
      t == Ilock(itable, ip, p)
      t2 == Uncount(t, ip, dp)
  IN /\ pc[p] = "unlink" /\ CanLock(ip) /\ Loaded(ip).nlink >= 1
     /\ ~(Loaded(ip).type = "dir" /\ ~IsDirEmpty(ip))
     /\ ents' = [ents EXCEPT ![dp][Name(p)] = 0]
     /\ itable' = Iunlock(t2, dp)
     /\ disk' = Iupdate(disk, t2, dp)
     /\ PutThen(p, <<dp>>, "unlinked", frame[p])
     /\ UNCHANGED <<cwd, fd>>

\* ip->nlink--, iupdate, iunlockput.
UnlinkCount(p) ==
  LET ip == frame[p].ip
      t == SetNlink(itable, ip, itable[ip].nlink - 1)
  IN /\ pc[p] = "unlinked"
     /\ itable' = Iunlock(t, ip)
     /\ disk' = Iupdate(disk, t, ip)
     /\ PutThen(p, <<ip>>, "idle", frame[p])
     /\ UNCHANGED <<ents, cwd, fd>>

UnlockParentKeepsRef(p) ==
  LET dp == frame[p].dp IN
  /\ pc[p] = "unlock_dp"
  /\ itable' = Iunlock(itable, dp)
  /\ Goto(p, "idle", frame[p])
  /\ UNCHANGED <<tree, cwd, fd>>

\* iunlockput(dp) on the way out of a failed call.
UnlockParent(p) ==
  LET dp == frame[p].dp IN
  /\ pc[p] = "unlock_dp"
  /\ itable' = Iunlock(itable, dp)
  /\ PutThen(p, <<dp>>, "idle", frame[p])
  /\ UNCHANGED <<tree, cwd, fd>>

Unlink(p) ==
  UnlinkLookup(p) \/ UnlinkRefused(p) \/ UnlinkEntry(p) \/ UnlinkCount(p) \/ UnlockParent(p)

\* create: the name exists, or the parent stays locked and ialloc follows.
CreateLookup(p) ==
  LET dp == frame[p].dp
      ip == ents[dp][Name(p)]
  IN /\ pc[p] = "parent" /\ call[p].op = "create" /\ CanLock(dp)
     /\ IF ip # 0
        THEN /\ itable' = Iget(LockedOnce(p, dp), ip)
             /\ PutThen(p, <<dp>>, "exists", [frame[p] EXCEPT !.ip = ip])
        ELSE /\ itable' = Ilock(itable, dp, p)
             /\ Goto(p, "ialloc", frame[p])
     /\ UNCHANGED <<tree, cwd, fd>>

CreateExists(p) ==
  LET ip == frame[p].ip IN
  /\ pc[p] = "exists" /\ CanLock(ip)
  /\ IF call[p].type = "file" /\ Loaded(ip).type \in {"file", "device"}
     THEN /\ itable' = Ilock(itable, ip, p)
          /\ Goto(p, "opened", frame[p])
     ELSE /\ itable' = LockedOnce(p, ip)
          /\ PutThen(p, <<ip>>, "idle", frame[p])
  /\ UNCHANGED <<tree, cwd, fd>>

FreeInums == {i \in Inums : disk[i].type = "free"}

\* ialloc: the first free inode gets its type and a reference.
Ialloc(p) ==
  LET ip == Min(FreeInums)
      dp == frame[p].dp
  IN /\ pc[p] = "ialloc"
     /\ IF FreeInums # {}
        THEN /\ disk' = [disk EXCEPT ![ip] = [type |-> call[p].type, nlink |-> 0]]
             /\ itable' = Iget(itable, ip)
             /\ Goto(p, "create", [frame[p] EXCEPT !.ip = ip])
        ELSE /\ itable' = Iunlock(itable, dp)
             /\ PutThen(p, <<dp>>, "idle", frame[p])
             /\ UNCHANGED disk
     /\ UNCHANGED <<ents, cwd, fd>>

\* nlink = 1, "." and "..", the entry in the parent, its count for "..".
CreateEnter(p) ==
  LET dp == frame[p].dp
      ip == frame[p].ip
      isdir == call[p].type = "dir"
      t == SetNlink(Ilock(itable, ip, p), ip, 1)
      t2 == IF isdir THEN SetNlink(t, dp, t[dp].nlink + 1) ELSE t
  IN /\ pc[p] = "create" /\ CanLock(ip)
     /\ ents' = [ents EXCEPT ![ip] = IF isdir THEN [@ EXCEPT !["."] = ip, ![".."] = dp] ELSE @,
                             ![dp][Name(p)] = ip]
     /\ itable' = Iunlock(t2, dp)
     /\ disk' = Iupdate(Iupdate(disk, t2, ip), t2, dp)
     /\ PutThen(p, <<dp>>, "opened", frame[p])
     /\ UNCHANGED <<cwd, fd>>

\* fail: a dirlink found no block; the inode goes again.
CreateFails(p) ==
  LET ip == frame[p].ip
      t == SetNlink(Ilock(itable, ip, p), ip, 0)
  IN /\ pc[p] = "create" /\ CanLock(ip)
     /\ itable' = Iunlock(t, ip)
     /\ disk' = Iupdate(disk, t, ip)
     /\ PutThen(p, <<ip>>, "unlock_dp", frame[p])
     /\ UNCHANGED <<ents, cwd, fd>>

\* sys_open without O_CREATE: a directory opens for reading only.
OpenLock(p) ==
  LET ip == frame[p].ip IN
  /\ pc[p] = "found" /\ call[p].op = "open" /\ CanLock(ip)
  /\ IF Loaded(ip).type = "dir" /\ ~call[p].rdonly
     THEN /\ itable' = LockedOnce(p, ip)
          /\ PutThen(p, <<ip>>, "idle", frame[p])
     ELSE /\ itable' = Ilock(itable, ip, p)
          /\ Goto(p, "opened", frame[p])
  /\ UNCHANGED <<tree, cwd, fd>>

\* A file and a descriptor are found: the file keeps the reference.
OpenDone(p) ==
  /\ pc[p] = "opened" /\ fd[p] = 0
  /\ call[p].op = "create" => call[p].type = "file"
  /\ fd' = [fd EXCEPT ![p] = frame[p].ip]
  /\ itable' = Iunlock(itable, frame[p].ip)
  /\ Goto(p, "idle", NoFrame)
  /\ UNCHANGED <<tree, cwd>>

\* sys_mkdir, sys_mknod; or sys_open finds no file, descriptor or device.
OpenDrop(p) ==
  /\ pc[p] = "opened"
  /\ itable' = Iunlock(itable, frame[p].ip)
  /\ PutThen(p, <<frame[p].ip>>, "idle", frame[p])
  /\ UNCHANGED <<tree, cwd, fd>>

Create(p) == CreateLookup(p) \/ CreateExists(p) \/ Ialloc(p) \/ CreateEnter(p) \/ CreateFails(p)
Open(p) == OpenLock(p) \/ OpenDone(p) \/ OpenDrop(p)

\* sys_chdir.
Chdir(p) ==
  LET ip == frame[p].ip IN
  /\ pc[p] = "found" /\ call[p].op = "chdir" /\ CanLock(ip)
  /\ itable' = LockedOnce(p, ip)
  /\ IF Loaded(ip).type = "dir"
     THEN /\ cwd' = [cwd EXCEPT ![p] = ip]
          /\ PutThen(p, <<cwd[p]>>, "idle", frame[p])
     ELSE PutThen(p, <<ip>>, "idle", frame[p]) /\ UNCHANGED cwd
  /\ UNCHANGED <<tree, fd>>

-------------------------------------------------------------------------------
Put(p) == Iput(p) \/ IputFree(p) \/ IputInvalidate(p) \/ IputDrop(p)

Next ==
  \E p \in Procs :
    \/ \E c \in Calls : Start(p, c)
    \/ Close(p) \/ Walk(p) \/ Put(p)
    \/ Link(p) \/ Unlink(p) \/ Create(p) \/ Open(p) \/ Chdir(p)

Spec == Init /\ [][Next]_vars

-------------------------------------------------------------------------------
(* Properties.                                                             *)

Inodes == [ref : Nat, valid : BOOLEAN, type : Types, nlink : Nat, lock : Procs \cup {None}]

\* The types of the variables, checked together with RefsExact.
TypeOK ==
  /\ disk \in [Inums -> [type : Types, nlink : Nat]]
  /\ ents \in [Inums -> [AllNames -> Inums \cup {0}]]
  /\ itable \in [Inums -> Inodes]
  /\ cwd \in [Procs -> Inums]
  /\ fd \in [Procs -> Inums \cup {0}]

\* The inode whose sleep lock a process is about to take, or 0.
Wants(p) ==
  CASE pc[p] \in {"namei", "nameiparent"} /\ frame[p].rest # <<>> -> At(p)
    [] pc[p] \in {"found", "unlink", "exists", "create", "link_bad"} -> frame[p].ip
    [] pc[p] = "parent" -> frame[p].dp
    [] pc[p] = "put" /\ LastPut(Head(frame[p].puts)) -> Head(frame[p].puts)
    [] OTHER -> 0

\* Lock order (fs.c, sysfile.c): no set of processes waits only for inode
\* locks its own members hold, one process for itself included.
NoDeadlock ==
  \A S \in SUBSET Procs \ {{}} :
    \E p \in S : Wants(p) = 0 \/ itable[Wants(p)].lock \notin S

\* The element namex has just walked is "..", out of a directory that was
\* removed: its parent may be gone, and the number be free or another inode's.
Strays(p) ==
  LET elems == IF Parent(p) /\ call[p].op = "link" THEN call[p].new.elems ELSE call[p].path.elems
      k == Len(elems) - Len(frame[p].rest)
  IN  /\ pc[p] = "put" /\ frame[p].next \in {"namei", "nameiparent", "found"}
      /\ k > 0 /\ elems[k] = ".." /\ Loaded(Head(frame[p].puts)).nlink = 0

\* While nobody walks ".." out of a removed directory, the panics of ilock,
\* dirlookup, sys_unlink and sched are not reached: whoever is about to lock
\* an inode holds a reference to one that is allocated, a parent is a
\* directory, a name that is found has a link to give up, iput's acquiresleep,
\* done with the spin lock itable.lock held, never has to wait (fs.c:344,
\* "ref == 1 means no other process can have ip locked"), and ".." of a
\* directory that has not been removed leads to a directory.
NoPanic ==
  /\ \A p \in Procs :
       /\ pc[p] = "put" /\ LastPut(Head(frame[p].puts)) => itable[Head(frame[p].puts)].lock = None
       /\ Wants(p) # 0 => itable[Wants(p)].ref >= 1 /\ ~NoType(Wants(p))
       /\ pc[p] = "parent" => Loaded(frame[p].dp).type = "dir"
       /\ pc[p] = "unlink" => Loaded(frame[p].ip).nlink >= 1
  /\ \A i \in Inums :
       itable[i].lock = None /\ disk[i].type = "dir" /\ disk[i].nlink >= 1
         => ents[i][".."] # 0 /\ disk[ents[i][".."]].type = "dir"

\* The names in all directories that refer to an inode.
Links(i) == Cardinality({x \in Inums \X Names : ents[x[1]][x[2]] = i})

\* No name dangles: at every moment of every call the link count of an inode
\* covers the names that refer to it, so what a name refers to is never freed;
\* and an unlocked inode in memory says what its dinode says, so that no call
\* sees what a former owner of the number left behind.
LinksCovered ==
  \A i \in Inums :
    /\ Links(i) > 0 => Loaded(i).type # "free" /\ Loaded(i).nlink >= Links(i)
    /\ itable[i].valid /\ itable[i].lock = None => disk[i] = Loaded(i)

\* Between calls the references are exactly the working directories and the
\* open files: every error path gives back what it took.
RefsExact ==
  /\ TypeOK
  /\ (\A p \in Procs : pc[p] = "idle") =>
       \A i \in Inums :
         itable[i].ref = Cardinality({p \in Procs : cwd[p] = i}) + Cardinality({p \in Procs : fd[p] = i})
===============================================================================
