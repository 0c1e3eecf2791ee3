----------------------------- MODULE PageMemory ------------------------------
(***************************************************************************)
(* What a physical memory manager promises: it hands out runs of free pages *)
(* (pmm.h, struct pmm_manager) and, being first fit, the lowest run there   *)
(* is; it refuses only when there is none.                                  *)
(***************************************************************************)
EXTENDS Integers

CONSTANT NPAGE             \* pages 0 .. NPAGE - 1

VARIABLES
    free,                  \* the free pages
    result                 \* the base the last alloc_pages returned, -1 for NULL

vars == <<free, result>>

Pages == 0 .. (NPAGE - 1)

Run(base, n) == base .. (base + n - 1)

\* The bases of the runs of n pages in F.
Fits(F, n) == {b \in Pages : Run(b, n) \subseteq F}

Init == free = {} /\ result = -1

\* page_init gives the manager pages it did not have.
InitMemmap(base, n) ==
    /\ Run(base, n) \cap free = {}
    /\ free' = free \cup Run(base, n)
    /\ UNCHANGED result

Alloc(n) ==
    IF Fits(free, n) = {}
    THEN result' = -1 /\ UNCHANGED free
    ELSE /\ result' \in Fits(free, n)
         /\ \A b \in Fits(free, n) : result' <= b
         /\ free' = free \ Run(result', n)

Free(base, n) ==
    /\ Run(base, n) \cap free = {}
    /\ free' = free \cup Run(base, n)
    /\ UNCHANGED result

\* More pages than there are may be asked for.
Next == \E n \in 1 .. (NPAGE + 1) :
    \/ Alloc(n)
    \/ \E base \in Pages : Run(base, n) \subseteq Pages /\ (InitMemmap(base, n) \/ Free(base, n))

Spec == Init /\ [][Next]_vars
=============================================================================
