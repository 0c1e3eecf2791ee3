------------------------------ MODULE MCFiles -------------------------------
(***************************************************************************)
(* Model checking of Files in three parts, each with all the calls that     *)
(* bear on one question.  part is fixed in the initial state.               *)
(*    io      one descriptor per process: two files and the disk's blocks   *)
(*    share   two processes with two descriptors each of one file           *)
(*    fds     descriptors, references and opens, with few transfers         *)
(***************************************************************************)
EXTENDS Files, TLC

CONSTANTS p0, p1, p2, f1, f2, d1, d2

VARIABLE part

MCInit == Init /\ part \in {"io", "share", "fds"}

Flag(acc, t, c, e, a) == [acc |-> acc, trunc |-> t, creat |-> c, excl |-> e, append |-> a]
RDONLY == Flag("rdonly", FALSE, FALSE, FALSE, FALSE)
RDWR   == Flag("rdwr", FALSE, FALSE, FALSE, FALSE)
TRUNC  == Flag("rdwr", TRUE, FALSE, FALSE, FALSE)
CREAT  == Flag("rdonly", FALSE, TRUE, FALSE, FALSE)
EXCL   == Flag("wronly", FALSE, TRUE, TRUE, FALSE)
APPEND == Flag("wronly", FALSE, FALSE, FALSE, TRUE)
MCFLAGS == {RDONLY, RDWR, TRUNC, CREAT, EXCL, APPEND}

\* Part of a block, and more than a block.
Short == <<1>>
Long  == <<1, 2, 1>>
MCBUFS == {Short, Long}

\* No other file than n is in memory.
Only(n) == \A m \in FILES \cap DOMAIN inode : m = n

IoNext == \E x \in PROCS :
    \/ /\ Opened(x) = {}
       /\ \E n \in FILES, fl \in {RDWR, CREAT, APPEND} : Open(x, n, fl)
    \/ Close(x, 0) \/ Fsync(x, 0) \/ Write(x, 0, Long) \/ Read(x, 0, Len(Long))
    \/ \E pos \in SEEKS : Seek(x, 0, pos)
    \/ Exit(x)

ShareNext == \E x \in PROCS :
    \/ \E n \in FILES, fl \in {RDWR, TRUNC} : Only(n) /\ Open(x, n, fl)
    \/ \E fd \in FDS :
         \/ Close(x, fd) \/ Write(x, fd, Long) \/ Read(x, fd, Len(Short))
         \/ \E pos \in SEEKS : Seek(x, fd, pos)

\* At most one lost reference of each file, and one short write.
FdsNext == \E x \in PROCS :
    \/ \E n \in FILES : Only(n) /\ (Open(x, n, RDWR) \/ (lost[n] = 0 /\ Open(x, n, EXCL)))
    \/ \E n \in DIRS \ {ROOT} : Open(x, n, RDONLY) \/ Open(x, n, TRUNC)
    \/ OpenNew(x)
    \/ \E fd \in FDS :
         \/ Close(x, fd)
         \/ \E to \in FDS : Dup(x, fd, to)
    \/ 0 \in Opened(x) /\ files[x].fd[0].pos = 0 /\ Write(x, 0, Short)
    \/ \E n \in NODES : (n \in FILES => Only(n)) /\ Chdir(x, n)
    \/ \E y \in PROCS : Fork(x, y)
    \/ Exec(x) \/ Exit(x)

MCNext ==
    /\ \/ part = "io" /\ IoNext
       \/ part = "share" /\ ShareNext
       \/ part = "fds" /\ FdsNext
       \/ Cleanup_fs \/ Reset \/ Panicked
    /\ UNCHANGED part

Symm == Permutations({p1, p2}) \cup Permutations({f1, f2})

MCSpec == MCInit /\ [][MCNext]_<<vars, part>>
=============================================================================
