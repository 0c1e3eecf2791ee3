---------------------------- MODULE PrivateMemory ----------------------------
(***************************************************************************)
(* What processes may rely on: each has a memory of its own.  A page that   *)
(* has not been touched is ABSENT and appears with any contents; from then  *)
(* on only its own process changes it.  fork copies all that is there.      *)
(* exec lays out a program, and exit takes everything away.                 *)
(***************************************************************************)
EXTENDS Naturals, Sequences

CONSTANTS USERS, Pages, VALUES, IMAGES, NONE,
    Laid(_, _, _)          \* may exec leave this memory with these rights, for this program?

VARIABLES
    mem,                   \* of each process: contents of its pages, or NONE
    rights,                \* what it may do with them
    halted                 \* the machine has stopped

memory_state == <<mem, rights, halted>>

Absent == [v \in Pages |-> NONE]

MemInit ==
    /\ mem = [p \in USERS |-> Absent]
    /\ rights = [p \in USERS |-> [v \in Pages |-> {}]]
    /\ halted = FALSE

\* Only the memory of p changes.
Alone(p) == \A q \in USERS \ {p} : mem'[q] = mem[q] /\ rights'[q] = rights[q]

Exec(p) == \E image \in IMAGES : Laid(image, mem'[p], rights'[p])

Gone(p) == mem'[p] = Absent /\ \A v \in Pages : rights'[p][v] = {}

Forked(p, parent) == mem[p] = Absent /\ mem'[p] = mem[parent] /\ rights'[p] = rights[parent]

\* x is stored to the pages lo .. hi, untouched ones among them or not.
Write(p, lo, hi, x) ==
    /\ \A v \in lo .. hi : "W" \in rights[p][v]
    /\ \A v \in Pages : mem'[p][v] = IF v \in lo .. hi THEN x ELSE mem[p][v]

\* An untouched page appears.
Read(p, v) ==
    /\ mem[p][v] = NONE /\ rights[p][v] \cap {"R", "X"} # {}
    /\ mem'[p][v] \in VALUES
    /\ \A w \in Pages \ {v} : mem'[p][w] = mem[p][w]

MemNext ==
    \/ \E p \in USERS :
         /\ Alone(p) /\ UNCHANGED halted
         /\ \/ Exec(p) \/ Gone(p)
            \/ \E parent \in USERS : Forked(p, parent)
            \/ /\ rights'[p] = rights[p]
               /\ \/ \E v \in Pages : Read(p, v)
                  \/ \E lo, hi \in Pages, x \in VALUES : lo <= hi /\ Write(p, lo, hi, x)
    \/ halted' = TRUE /\ UNCHANGED <<mem, rights>>

MemSpec == MemInit /\ [][MemNext]_memory_state
=============================================================================
