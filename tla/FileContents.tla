---------------------------- MODULE FileContents -----------------------------
(***************************************************************************)
(* What the file system promises to its users: a file is a sequence of      *)
(* bytes.  Only writing, seeking behind its end and opening with truncation *)
(* change it; every descriptor has its own position, which a copy of it     *)
(* (dup, fork) takes along once and does not share.  Files outlive          *)
(* processes and boots.                                                     *)
(***************************************************************************)
EXTENDS Naturals, Sequences

CONSTANTS PROCS, FDS, NODES, FILES, BUFS, NONE, SEEKS

VARIABLES
    content,               \* the bytes of each file
    desc,                  \* the open descriptors of each process: inode and position
    stopped                \* the machine has panicked

contents_vars == <<content, desc, stopped>>

NoneOpen == [fd \in FDS |-> NONE]

Init ==
    /\ content = [f \in FILES |-> <<>>]
    /\ desc = [p \in PROCS |-> NoneOpen]
    /\ stopped = FALSE

\* c with bytes from position pos on, filled up with zeros.
Overwrite(c, pos, bytes) ==
    [i \in 1 .. (IF pos + Len(bytes) > Len(c) THEN pos + Len(bytes) ELSE Len(c)) |->
        IF i - pos \in DOMAIN bytes THEN bytes[i - pos]
        ELSE IF i <= Len(c) THEN c[i] ELSE 0]

Open(p, fd, n) ==
    /\ desc[p][fd] = NONE
    /\ content' \in {content} \cup {[content EXCEPT ![f] = <<>>] : f \in {n} \cap FILES}
    /\ \E pos \in {0} \cup (IF n \in FILES THEN {Len(content'[n])} ELSE {}) :
         desc' = [desc EXCEPT ![p][fd] = [node |-> n, pos |-> pos]]

Close(p, S) ==
    /\ desc' = [desc EXCEPT ![p] = [fd \in FDS |-> IF fd \in S THEN NONE ELSE @[fd]]]
    /\ UNCHANGED content

Dup(p, from, to) ==
    /\ desc[p][to] = NONE
    /\ desc' = [desc EXCEPT ![p][to] = desc[p][from]]
    /\ UNCHANGED content

Fork(p, q) ==
    /\ desc[q] = NoneOpen
    /\ desc' = [desc EXCEPT ![q] = desc[p]]
    /\ UNCHANGED content

\* At most up to the end.
Read(p, fd) ==
    /\ desc[p][fd] # NONE /\ desc[p][fd].node \in FILES
    /\ \E pos \in desc[p][fd].pos .. Len(content[desc[p][fd].node]) :
         desc' = [desc EXCEPT ![p][fd].pos = pos]
    /\ UNCHANGED content

\* A full disk may leave the rest of buf unwritten.
Write(p, fd, buf) ==
    /\ desc[p][fd] # NONE /\ desc[p][fd].node \in FILES
    /\ \E n \in 0 .. Len(buf) :
         /\ content' = [content EXCEPT ![desc[p][fd].node] =
                           Overwrite(@, desc[p][fd].pos, SubSeq(buf, 1, n))]
         /\ desc' = [desc EXCEPT ![p][fd].pos = @ + n]

Seek(p, fd, pos) ==
    /\ desc[p][fd] # NONE /\ desc[p][fd].node \in FILES
    /\ content' = [content EXCEPT ![desc[p][fd].node] = Overwrite(@, pos, <<>>)]
    /\ desc' = [desc EXCEPT ![p][fd].pos = pos]

Boot == desc' = [p \in PROCS |-> NoneOpen] /\ UNCHANGED content

Stop == stopped' = TRUE /\ UNCHANGED <<content, desc>>

Next ==
    \/ /\ \/ \E p \in PROCS :
               \/ \E S \in SUBSET FDS : Close(p, S)
               \/ \E q \in PROCS : Fork(p, q)
               \/ \E fd \in FDS :
                    \/ \E n \in NODES : Open(p, fd, n)
                    \/ \E to \in FDS : Dup(p, fd, to)
                    \/ Read(p, fd)
                    \/ \E buf \in BUFS : Write(p, fd, buf)
                    \/ \E pos \in SEEKS : Seek(p, fd, pos)
          \/ Boot
       /\ UNCHANGED stopped
    \/ Stop

Spec == Init /\ [][Next]_contents_vars
=============================================================================
