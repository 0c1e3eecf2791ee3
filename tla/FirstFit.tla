------------------------------ MODULE FirstFit -------------------------------
(***************************************************************************)
(* The physical page allocator (kern/mm/default_pmm.c): a list of free      *)
(* blocks in address order, split by alloc_pages and merged by free_pages.  *)
(* A caller may give a block back in parts, as default_check does.          *)
(***************************************************************************)
EXTENDS Integers, SequencesExt

CONSTANTS
    NPAGE,                 \* page frames
    Regions                \* usable regions (base and length) page_init finds, in order

ASSUME FirstFitAssumption ==
    /\ NPAGE \in Nat
    /\ Regions \in Seq([base : Nat, n : Nat \ {0}])
    /\ \A i \in DOMAIN Regions :
         /\ Regions[i].base + Regions[i].n <= NPAGE
         /\ i > 1 => Regions[i - 1].base + Regions[i - 1].n < Regions[i].base

VARIABLES
    free_list,             \* the bases of the free blocks, in list order
    property,              \* page->property, the pages of the block it heads
    PG_property,           \* the pages with that flag set
    reserved,              \* the pages with PG_reserved set
    nr_free,
    result,                \* what the last alloc_pages returned, -1 for NULL
    booted                 \* regions given to init_memmap so far

memory_vars == <<free_list, property, PG_property, reserved, nr_free, result, booted>>

Pages == 0 .. (NPAGE - 1)

Run(base, n) == base .. (base + n - 1)

MemoryTypeOK ==
    /\ free_list \in Seq(Pages)
    /\ property \in [Pages -> 0 .. NPAGE]
    /\ PG_property \subseteq Pages
    /\ reserved \subseteq Pages
    /\ nr_free \in 0 .. NPAGE
    /\ result \in Pages \cup {-1}
    /\ booted \in 0 .. Len(Regions)

\* default_init; page_init has reserved every page.
MemoryInit ==
    /\ free_list = <<>>
    /\ property = [p \in Pages |-> 0]
    /\ PG_property = {}
    /\ reserved = Pages
    /\ nr_free = 0
    /\ result = -1
    /\ booted = 0

-----------------------------------------------------------------------------
\* default_init_memmap of the next region.
default_init_memmap ==
    /\ booted < Len(Regions)
    /\ LET base == Regions[booted + 1].base
           n    == Regions[booted + 1].n
       IN  /\ Run(base, n) \subseteq reserved
           /\ reserved' = reserved \ Run(base, n)
           /\ property' = [p \in Pages |-> IF p = base THEN n
                                           ELSE IF p \in Run(base, n) THEN 0 ELSE property[p]]
           /\ PG_property' = (PG_property \ Run(base, n)) \cup {base}
           /\ nr_free' = nr_free + n
           /\ free_list' = Append(free_list, base)
    /\ booted' = booted + 1
    /\ UNCHANGED result

\* Fault: a block must be larger than what is asked for.
LargerBlocks(n) == {i \in DOMAIN free_list : property[free_list[i]] > n}

\* The positions in free_list of the blocks that are large enough.
LargeEnough(n) == {i \in DOMAIN free_list : property[free_list[i]] >= n}

\* The list without block i, of which all but the first n pages stay free.
Split(i, n) ==
    LET page == free_list[i]
    IN  IF property[page] > n THEN ReplaceAt(free_list, i, page + n)
                              ELSE RemoveAt(free_list, i)

\* The page that heads the rest of a split block, if there is a rest.
Rest(page, n) == IF property[page] > n THEN {page + n} ELSE {}

default_alloc_pages(n) ==
    /\ booted = Len(Regions)
    /\ IF n > nr_free \/ LargeEnough(n) = {}
       THEN result' = -1 /\ UNCHANGED <<free_list, property, PG_property, nr_free>>
       ELSE LET i    == CHOOSE j \in LargeEnough(n) : \A k \in LargeEnough(n) : j <= k
                page == free_list[i]
            IN  /\ result' = page
                /\ free_list' = Split(i, n)
                /\ property' = [p \in Pages |-> IF p \in Rest(page, n) THEN property[page] - n ELSE property[p]]
                /\ PG_property' = (PG_property \cup Rest(page, n)) \ {page}
                /\ nr_free' = nr_free - n
    /\ UNCHANGED <<reserved, booted>>

-----------------------------------------------------------------------------
(* free_pages.  The block being freed is b, a record with its base, the list *)
(* and the two page attributes it changes on the way.                        *)

\* The list without p.
list_del(list, p) == RemoveAt(list, CHOOSE i \in DOMAIN list : list[i] = p)

\* Fault: only the block that follows is merged.
MergeForward(b, p) ==
    IF b.base + b.property[b.base] = p
    THEN [b EXCEPT !.property[b.base] = @ + b.property[p],
                   !.flags = @ \ {p},
                   !.list = list_del(@, p)]
    ELSE b

\* One turn of the first loop: block p of the list is merged if it begins
\* where b ends or ends where b begins.
Merge(b, p) ==
    IF b.base + b.property[b.base] = p
    THEN [b EXCEPT !.property[b.base] = @ + b.property[p],
                   !.flags = @ \ {p},
                   !.list = list_del(@, p)]
    ELSE IF p + b.property[p] = b.base
    THEN [b EXCEPT !.property[p] = @ + b.property[b.base],
                   !.flags = @ \ {b.base},
                   !.base = p,
                   !.list = list_del(@, p)]
    ELSE b

\* The first loop: the blocks that are in the list when it begins, in order.
MergeAll(b) ==
    LET turn[i \in 0 .. Len(free_list)] ==
            IF i = 0 THEN b ELSE Merge(turn[i - 1], free_list[i])
    IN  turn[Len(free_list)]

\* The second loop: in front of the first block that begins after b ends.
Insert(b) ==
    LET after == {i \in DOMAIN b.list : b.base + b.property[b.base] <= b.list[i]}
        at    == IF after = {} THEN Len(b.list) + 1
                 ELSE CHOOSE i \in after : \A j \in after : i <= j
    IN  InsertAt(b.list, at, b.base)

\* No page of the run is free or reserved (the assert only looks at block
\* heads; a caller that frees what it holds passes more than the assert).
Held(base, n) ==
    /\ Run(base, n) \subseteq Pages \ reserved
    /\ \A q \in ToSet(free_list) : Run(base, n) \cap Run(q, property[q]) = {}

default_free_pages(base, n) ==
    /\ booted = Len(Regions)
    /\ Held(base, n)
    /\ LET b0 == [base |-> base,
                  property |-> [property EXCEPT ![base] = n],
                  flags |-> (PG_property \ Run(base, n)) \cup {base},
                  list |-> free_list]
           b  == MergeAll(b0)
       IN  /\ property' = b.property
           /\ PG_property' = b.flags
           /\ free_list' = Insert(b)
    /\ nr_free' = nr_free + n
    /\ UNCHANGED <<reserved, result, booted>>

MemoryNext ==
    \/ default_init_memmap
    \/ \E n \in 1 .. (NPAGE + 1) : default_alloc_pages(n)
    \/ \E base \in Pages, n \in 1 .. NPAGE : default_free_pages(base, n)

MemorySpec == MemoryInit /\ [][MemoryNext]_memory_vars

-----------------------------------------------------------------------------
Blocks == ToSet(free_list)

FreePages == UNION {Run(b, property[b]) : b \in Blocks}

\* The blocks are in address order, none overlaps or touches the next: a
\* sequence of splits and merges never leaves two neighbours apart.
Coalesced ==
    \A i \in 1 .. (Len(free_list) - 1) :
        free_list[i] + property[free_list[i]] < free_list[i + 1]

\* The allocator implements the abstract one: pages handed out were free, the
\* lowest run is chosen, and a request fails only when no run would do.
AbstractMemory == INSTANCE PageMemory WITH free <- FreePages

ImplementsPageMemory == AbstractMemory!Spec
=============================================================================
