------------------------------- MODULE Files --------------------------------
(***************************************************************************)
(* Open files over the simple file system (kern/fs/file.c, fs.c, vfs, sfs): *)
(* the processes' tables of descriptors, the inodes in memory with their    *)
(* two counts, the mounted file system, and the disk.                       *)
(*                                                                         *)
(* The kernel is not preemptive and the disk is polled, so a call is one    *)
(* step: no lock of the file system is ever found taken.  No directory ever *)
(* changes, since sfs has no operation that creates, links or removes.      *)
(***************************************************************************)
EXTENDS SfsBlocks, FiniteSets

CONSTANTS
    PROCS, INITPROC,       \* processes; the one that mounts, cleans up and never opens a file
    FILES, DIRS, ROOT,     \* inodes of the image; ROOT is the root directory
    NENTRY, KEEP,          \* descriptors of a process; those that exec leaves open (stdin, stdout)
    MAX_INODE_COUNT,
    FLAGS, BUFS, SEEKS,    \* flags that open is called with; what is written; positions sought
    NONE,                  \* a descriptor that is not open, in AbstractFiles
    CLEAN                  \* the machine is switched off only after fs_cleanup

NODES == FILES \cup DIRS
FDS == 0 .. (NENTRY - 1)

ASSUME FilesAssumption ==
    /\ INITPROC \in PROCS /\ ROOT \in DIRS /\ IsFiniteSet(PROCS) /\ IsFiniteSet(BLOCKS)
    /\ FILES \cap DIRS = {}
    /\ NENTRY \in Nat /\ KEEP \in Nat /\ MAX_INODE_COUNT \in Nat
    /\ \A f \in FLAGS : f.acc \in {"rdonly", "wronly", "rdwr"}
    /\ BUFS \subseteq Seq(Nat) /\ SEEKS \subseteq Nat
    /\ CLEAN \in BOOLEAN

VARIABLES
    files,                 \* of each process there is: its current directory and its open descriptors
    inode,                 \* the inodes in memory: counts, copy of the disk inode, dirty
    sfs,                   \* the mounted file system: bitmap and super block in memory
    disk,                  \* blocks, inodes, bitmap and super block on the disk
    synced,                \* fs_cleanup has run and nothing has happened since
    panicked,              \* the assertion the machine stopped at, "" if it runs
    lost                   \* references of each inode that open forgot (bookkeeping)

vars == <<files, inode, sfs, disk, synced, panicked, lost>>

\* A descriptor between two calls is FD_OPENED, with open_count 1, or FD_NONE: then
\* it is not in the domain of fd.
OpenFile == [node : NODES, pos : Nat, readable : BOOLEAN, writable : BOOLEAN]

Dinode == [size : Nat, blocks : Nat, direct : [Slots -> BLOCKS \cup {0}], indirect : BLOCKS \cup {0}]

Alive == DOMAIN files

Opened(p) == IF p \in Alive THEN DOMAIN files[p].fd ELSE {}

\* After mkfs, vfs_set_bootfs in initproc and the creation of a user process p:
\* ROOT is referred to by the boot file system and by both current directories.
BootFiles(p) == [q \in {p, INITPROC} |-> [pwd |-> ROOT, fd |-> <<>>]]

BootInodes == [n \in {ROOT} |-> [ref_count |-> 3, open_count |-> 0, dirty |-> FALSE, din |-> EmptyFile]]

\* sfs_do_mount reads the bitmap and the super block.
Mount(D) == [free |-> D.free, unused |-> D.unused, super_dirty |-> FALSE]

\* The image: files without blocks.
Image ==
    [block |-> [b \in BLOCKS |-> [c \in Cells |-> STALE]],
     din |-> [n \in NODES |-> EmptyFile],
     free |-> BLOCKS, unused |-> Cardinality(BLOCKS)]

Init ==
    /\ \E p \in PROCS \ {INITPROC} : files = BootFiles(p)
    /\ inode = BootInodes
    /\ sfs = Mount(Image)
    /\ disk = Image
    /\ synced = FALSE
    /\ panicked = ""
    /\ lost = [n \in NODES |-> 0]

-----------------------------------------------------------------------------
(* References and opens.  r and o say how many of each a call takes of an    *)
(* inode, or gives back.                                                     *)

Zero == [n \in NODES |-> 0]

One(n) == [m \in NODES |-> IF m = n THEN 1 ELSE 0]

\* The inodes that process p refers to through the descriptors S.
OpensOf(p, S) == [n \in NODES |-> Cardinality({fd \in S \cap Opened(p) : files[p].fd[fd].node = n})]

Plus(r, n) == [r EXCEPT ![n] = @ + 1]

\* sfs_load_inode when the inode is not in memory.
Loaded(n, r, o) == [ref_count |-> r[n], open_count |-> o[n], dirty |-> FALSE, din |-> disk.din[n]]

\* Fault: an inode in memory is opened without a reference to it.
AcquireOpensOnly(I, r, o) ==
    [n \in DOMAIN I \cup {m \in NODES : r[m] > 0} |->
        IF n \in DOMAIN I THEN [I[n] EXCEPT !.open_count = @ + o[n]] ELSE Loaded(n, r, o)]

\* vop_ref_inc and vop_open_inc.
Acquire(I, r, o) ==
    [n \in DOMAIN I \cup {m \in NODES : r[m] > 0} |->
        IF n \in DOMAIN I
        THEN [I[n] EXCEPT !.ref_count = @ + r[n], !.open_count = @ + o[n]]
        ELSE Loaded(n, r, o)]

\* The inodes whose open count or reference count reaches zero.
LastClose(I, o) == {n \in DOMAIN I : o[n] > 0 /\ I[n].open_count = o[n]}
LastRef(I, r) == {n \in DOMAIN I : r[n] > 0 /\ I[n].ref_count = r[n]}

\* Those written to the disk on the way: by sfs_fsync at the last close, or by
\* sfs_reclaim.
Written(I, D, r, o) == {n \in LastClose(I, o) \cup LastRef(I, r) : I[n].dirty}

\* vop_open_dec and vop_ref_dec, of inodes I and the inodes D on the disk.
Release(I, D, r, o) ==
    /\ inode' = [n \in DOMAIN I \ LastRef(I, r) |->
                    [I[n] EXCEPT !.ref_count = @ - r[n], !.open_count = @ - o[n],
                                 !.dirty = @ /\ n \notin Written(I, D, r, o)]]
    /\ disk' = [D EXCEPT !.din = [n \in NODES |-> IF n \in Written(I, D, r, o) THEN I[n].din ELSE @[n]]]

\* inode_check, before each operation of an inode.
Overflown(I, n) == I[n].ref_count >= MAX_INODE_COUNT

\* inode_check before vop_close, at the last of the closes o, when all references
\* in r but the one of the descriptor closed last have been given back.
CloseOverflown(I, r, o) ==
    \E n \in LastClose(I, o) : I[n].ref_count - (r[n] - 1) >= MAX_INODE_COUNT

Halt(where) == panicked' = where /\ UNCHANGED <<files, inode, sfs, disk, lost, synced>>

\* Descriptor fd of process p is now e; the descriptors S of p are no longer open.
Put(p, fd, e) ==
    files' = [files EXCEPT ![p].fd = [i \in Opened(p) \cup {fd} |-> IF i = fd THEN e ELSE files[p].fd[i]]]

Drop(p, S) == files' = [files EXCEPT ![p].fd = [i \in Opened(p) \ S |-> files[p].fd[i]]]

Up == panicked = "" /\ ~synced

-----------------------------------------------------------------------------
(* What a call sees of the file system and of one inode, and what it leaves. *)

Mounted(n, I) ==
    [free |-> sfs.free, unused |-> sfs.unused, super_dirty |-> sfs.super_dirty, block |-> disk.block,
     din |-> I[n].din, dirty |-> I[n].dirty, ino |-> 0, data |-> <<>>, ret |-> "ok"]

Leave(n, I, s) ==
    /\ sfs' = [free |-> s.free, unused |-> s.unused, super_dirty |-> s.super_dirty]
    /\ inode' = [I EXCEPT ![n].din = s.din, ![n].dirty = s.dirty]
    /\ disk' = [disk EXCEPT !.block = s.block]

\* file_open over vfs_open, of an inode that exists.
Free(p) == FDS \ Opened(p)

\* The file after open: empty if truncated or created.
Truncated(n, I, fl) ==
    IF fl.trunc \/ fl.creat THEN sfs_truncfile(Mounted(n, I), 0) ELSE Mounted(n, I)

Open(p, n, fl) ==
    LET fd == CHOOSE i \in Free(p) : \A j \in Free(p) : i <= j
        looked_up == Acquire(inode, One(n), Zero)
        opened    == Acquire(inode, One(n), One(n))
        s         == Truncated(n, opened, fl)
        e         == [node |-> n, pos |-> IF fl.append THEN s.din.size ELSE 0,
                      readable |-> fl.acc # "wronly", writable |-> fl.acc # "rdonly"]
    IN  /\ Up
        /\ p \in Alive \ {INITPROC} /\ Free(p) # {}
        /\ fl.trunc => fl.acc # "rdonly"
        /\ IF fl.creat /\ fl.excl
           THEN /\ inode' = looked_up                  \* -E_EXISTS
                /\ lost' = [lost EXCEPT ![n] = @ + 1]
                /\ UNCHANGED <<files, sfs, disk, panicked, synced>>
           ELSE IF Overflown(looked_up, n) THEN Halt("inode_check")
           ELSE IF n \in DIRS /\ (fl.acc # "rdonly" \/ fl.append)
           THEN /\ Release(looked_up, disk, One(n), Zero)   \* -E_ISDIR
                /\ UNCHANGED <<files, sfs, lost, panicked, synced>>
           ELSE IF n \in DIRS /\ fl.creat THEN Halt("no vop_truncate")
           ELSE IF s.ret \in PANICS THEN Halt(s.ret)
           ELSE /\ Leave(n, opened, s)
                /\ Put(p, fd, e)
                /\ UNCHANGED <<lost, panicked, synced>>

\* O_CREAT with a name that does not exist.
OpenNew(p) ==
    /\ Up
    /\ p \in Alive \ {INITPROC} /\ Free(p) # {}
    /\ Halt("no vop_create")

Close(p, fd) ==
    LET n == files[p].fd[fd].node
    IN  /\ Up /\ p \in Alive /\ fd \in Opened(p)
        /\ IF CloseOverflown(inode, One(n), One(n))
           THEN Halt("inode_check")
           ELSE /\ Release(inode, disk, One(n), One(n))
                /\ Drop(p, {fd})
                /\ UNCHANGED <<sfs, lost, panicked, synced>>

\* file_dup to a given free descriptor, or to the lowest (NO_FD).
Dup(p, from, to) ==
    LET n == files[p].fd[from].node
    IN  /\ Up /\ p \in Alive /\ from \in Opened(p) /\ to \in Free(p)
        /\ inode' = Acquire(inode, One(n), One(n))
        /\ Put(p, to, files[p].fd[from])
        /\ UNCHANGED <<sfs, disk, lost, panicked, synced>>

\* The operations of an open file go through inode_check, and need a file.
Call(p, fd, n) ==
    /\ Up
    /\ p \in Alive /\ fd \in Opened(p)
    /\ n = files[p].fd[fd].node

Refused(n) ==
    \/ n \in DIRS /\ Halt("no operation")
    \/ n \in FILES /\ Overflown(inode, n) /\ Halt("inode_check")

Usable(n) == n \in FILES /\ ~Overflown(inode, n)

\* The result s of a transfer through descriptor fd.
Moved(p, fd, n, s) ==
    IF s.ret \in PANICS THEN Halt(s.ret)
    ELSE /\ Leave(n, inode, s)
         /\ Put(p, fd, [files[p].fd[fd] EXCEPT !.pos = @ + Len(s.data)])
         /\ UNCHANGED <<lost, panicked, synced>>

Read(p, fd, len) == \E n \in NODES :
    /\ Call(p, fd, n) /\ files[p].fd[fd].readable
    /\ \/ Refused(n)
       \/ Usable(n) /\ Moved(p, fd, n, sfs_io(Mounted(n, inode), <<>>, files[p].fd[fd].pos, len, FALSE))

Write(p, fd, buf) == \E n \in NODES :
    /\ Call(p, fd, n) /\ files[p].fd[fd].writable
    /\ \/ Refused(n)
       \/ Usable(n) /\ Moved(p, fd, n, sfs_io(Mounted(n, inode), buf, files[p].fd[fd].pos, Len(buf), TRUE))

\* sfs_tryseek: the file grows to a position behind its end.
TrySeek(n, pos) ==
    LET s == Mounted(n, inode) IN IF pos > s.din.size THEN sfs_truncfile(s, pos) ELSE s

\* file_seek; whence only says what pos is counted from.
Seek(p, fd, pos) == \E n \in NODES :
    /\ Call(p, fd, n)
    /\ pos < SFS_MAX_FILE_SIZE
    /\ \/ Refused(n)
       \/ /\ Usable(n)
          /\ LET s == TrySeek(n, pos)
             IN  IF s.ret \in PANICS THEN Halt(s.ret)
                 ELSE /\ Leave(n, inode, s)
                      /\ Put(p, fd, [files[p].fd[fd] EXCEPT !.pos = IF s.ret = "ok" THEN pos ELSE @])
                      /\ UNCHANGED <<lost, panicked, synced>>

\* sfs_fsync: the inode, not the bitmap.
Fsync(p, fd) == \E n \in NODES :
    /\ Call(p, fd, n) /\ ~Overflown(inode, n) /\ inode[n].dirty
    /\ disk' = [disk EXCEPT !.din[n] = inode[n].din]
    /\ inode' = [inode EXCEPT ![n].dirty = FALSE]
    /\ UNCHANGED <<files, sfs, lost, panicked, synced>>

\* vfs_chdir.  The inode is looked up, and let go if it is no directory.
Chdir(p, n) ==
    LET old == files[p].pwd
        looked_up == Acquire(inode, One(n), Zero)
    IN  /\ Up /\ p \in Alive \ {INITPROC}
        /\ IF Overflown(looked_up, n) THEN Halt("inode_check")
           ELSE IF n \in FILES \/ n = old
           THEN /\ Release(looked_up, disk, One(n), Zero)
                /\ UNCHANGED <<files, sfs, lost, panicked, synced>>
           ELSE /\ Release(looked_up, disk, One(old), Zero)
                /\ files' = [files EXCEPT ![p].pwd = n]
                /\ UNCHANGED <<sfs, lost, panicked, synced>>

-----------------------------------------------------------------------------
\* copy_fs in do_fork: the child gets descriptors of its own.
Fork(p, q) ==
    /\ Up /\ p \in Alive \ {INITPROC} /\ q \in PROCS \ Alive
    /\ inode' = Acquire(inode, Plus(OpensOf(p, FDS), files[p].pwd), OpensOf(p, FDS))
    /\ files' = [r \in Alive \cup {q} |-> IF r = q THEN files[p] ELSE files[r]]
    /\ UNCHANGED <<sfs, disk, lost, panicked, synced>>

\* do_execve of a file that is a program: files_closeall, then the file is
\* opened, read and closed again, which leaves no trace.
Exec(p) ==
    LET S == Opened(p) \ (0 .. (KEEP - 1))
        o == OpensOf(p, S)
    IN  /\ Up /\ p \in Alive \ {INITPROC} /\ S # {}
        /\ IF CloseOverflown(inode, o, o)
           THEN Halt("inode_check")
           ELSE /\ Release(inode, disk, o, o)
                /\ Drop(p, S)
                /\ UNCHANGED <<sfs, lost, panicked, synced>>

\* put_fs in do_exit, of do_execve that fails, too.
Exit(p) ==
    LET o == OpensOf(p, FDS)
        r == Plus(o, files[p].pwd)
    IN  /\ Up /\ p \in Alive \ {INITPROC}
        /\ IF CloseOverflown(inode, r, o)
           THEN Halt("inode_check")
           ELSE /\ Release(inode, disk, r, o)
                /\ files' = [q \in Alive \ {p} |-> files[q]]
                /\ UNCHANGED <<sfs, lost, panicked, synced>>

-----------------------------------------------------------------------------
\* The super block and the bitmap, if a block was got or freed.
SyncSuper(D) ==
    IF sfs.super_dirty THEN [D EXCEPT !.unused = sfs.unused, !.free = sfs.free] ELSE D

\* fs_cleanup: sfs_sync, when init_main finds that all user processes have quit.
Cleanup_fs ==
    LET dirty == {n \in DOMAIN inode : inode[n].dirty}
        D == [disk EXCEPT !.din = [n \in NODES |-> IF n \in dirty THEN inode[n].din ELSE @[n]]]
    IN  /\ Up /\ Alive = {INITPROC}
        /\ disk' = SyncSuper(D)
        /\ sfs' = [sfs EXCEPT !.super_dirty = FALSE]
        /\ inode' = [n \in DOMAIN inode |-> [inode[n] EXCEPT !.dirty = FALSE]]
        /\ synced' = TRUE
        /\ UNCHANGED <<files, panicked, lost>>

\* The machine is switched off, and the disk mounted again: sfs_do_mount.
Reset ==
    /\ CLEAN => synced
    /\ panicked = ""
    /\ IF Cardinality(disk.free) = disk.unused
       THEN /\ \E p \in PROCS \ {INITPROC} : files' = BootFiles(p)
            /\ inode' = BootInodes
            /\ sfs' = Mount(disk)
            /\ panicked' = ""
       ELSE panicked' = "mount" /\ UNCHANGED <<files, inode, sfs>>
    /\ UNCHANGED disk
    /\ synced' = FALSE
    /\ lost' = [n \in NODES |-> 0]

Panicked == panicked # "" /\ UNCHANGED vars

ProcNext(p) ==
    \/ \E n \in NODES, fl \in FLAGS : Open(p, n, fl)
    \/ OpenNew(p)
    \/ \E fd \in FDS :
         \/ Close(p, fd) \/ Fsync(p, fd)
         \/ \E to \in FDS : Dup(p, fd, to)
         \/ \E buf \in BUFS : Write(p, fd, buf) \/ Read(p, fd, Len(buf))
         \/ \E pos \in SEEKS : Seek(p, fd, pos)
    \/ \E n \in NODES : Chdir(p, n)
    \/ \E q \in PROCS : Fork(p, q)
    \/ Exec(p) \/ Exit(p)

Next ==
    \/ \E p \in PROCS : ProcNext(p)
    \/ Cleanup_fs \/ Reset \/ Panicked

Spec == Init /\ [][Next]_vars

-----------------------------------------------------------------------------
(* Properties.                                                              *)

FilesTypeOK ==
    /\ Alive \subseteq PROCS
    /\ \A p \in Alive : files[p] \in [pwd : DIRS, fd : UNION {[S -> OpenFile] : S \in SUBSET FDS}]
    /\ DOMAIN inode \subseteq NODES
    /\ \A n \in DOMAIN inode :
         inode[n] \in [ref_count : Nat, open_count : Nat, dirty : BOOLEAN, din : Dinode]
    /\ sfs \in [free : SUBSET BLOCKS, unused : Nat, super_dirty : BOOLEAN]
    /\ disk \in [block : [BLOCKS -> [Cells -> Nat \cup {STALE}]], din : [NODES -> Dinode],
                 free : SUBSET BLOCKS, unused : Nat]
    /\ synced \in BOOLEAN
    /\ panicked \in PANICS \cup {"", "mount", "inode_check", "no operation", "no vop_create", "no vop_truncate"}
    /\ lost \in [NODES -> Nat]

\* The inode of a file as the system now sees it.
Din(n) == IF n \in DOMAIN inode THEN inode[n].din ELSE disk.din[n]

\* The descriptors on an inode, of all processes, and the references there are: of
\* current directories, descriptors, the boot file system, and what open forgot.
Holders(n) == {d \in Alive \X FDS : d[2] \in Opened(d[1]) /\ files[d[1]].fd[d[2]].node = n}

Opens(n) == Cardinality(Holders(n))

Refs(n) ==
    Cardinality({p \in Alive : files[p].pwd = n}) + Opens(n) + (IF n = ROOT THEN 1 ELSE 0) + lost[n]

\* An inode is in memory exactly as long as somebody refers to it, and its two
\* counts are the number of those who do, through fork, dup, exec, exit and the
\* failing branches of open.
CountsExact ==
    panicked = "" =>
    \A n \in NODES :
        IF Refs(n) = 0 THEN n \notin DOMAIN inode
        ELSE n \in DOMAIN inode /\ inode[n].ref_count = Refs(n) /\ inode[n].open_count = Opens(n)

\* The places of all files that name block b.
Owners(b) == {o \in FILES \X Places : Names(disk.block, Din(o[1]), o[2]) = b}

\* Each block is free and named nowhere, or in use and named at one place of one
\* file: none has two owners and none is lost, whichever call fails half way.
OneOwner ==
    panicked = "" =>
    /\ \A b \in BLOCKS : Cardinality(Owners(b)) = IF b \in sfs.free THEN 0 ELSE 1
    /\ sfs.unused = Cardinality(sfs.free)

\* What read hands out is what the file holds, however the transfer is cut into
\* blocks.
ReadReturns ==
    panicked = "" =>
    \A f \in FILES \cap DOMAIN inode, offset \in 0 .. (SFS_MAX_FILE_SIZE - 1), len \in {Len(buf) : buf \in BUFS} :
        LET s == sfs_io(Mounted(f, inode), <<>>, offset, len, FALSE)
            c == Contents(disk.block, inode[f].din)
        IN  s.ret = "ok" => s.data = SubSeq(c, offset + 1, Least(offset + len, Len(c)))

\* The file system implements files as sequences of bytes: nothing of another
\* file, of an earlier content or of an unwritten block is ever seen, and nothing
\* written is lost when inodes leave memory or the machine is switched off after
\* fs_cleanup.
AbstractFiles == INSTANCE FileContents WITH
    content <- [f \in FILES |-> Contents(disk.block, Din(f))],
    desc <- [p \in PROCS |-> [fd \in FDS |->
                IF fd \in Opened(p) THEN [node |-> files[p].fd[fd].node, pos |-> files[p].fd[fd].pos]
                ELSE NONE]],
    stopped <- panicked # ""

ImplementsFiles == AbstractFiles!Spec

\* The assertions "index <= din->blocks" of sfs_bmap_load_nolock and
\* "tblks == din->blocks" of sfs_truncfile, whoever has truncated the file since a
\* descriptor got its position, and however full the disk was.
FileAssertsHold == panicked \notin {"bmap_load", "truncfile"}

\* The assertions "sfs_block_inuse(sfs, ino)" of sfs_bmap_get_nolock and
\* sfs_block_free, also after the machine was switched off at any moment.
InUseAssertHolds == panicked \notin {"inuse", "block_free"}
=============================================================================
