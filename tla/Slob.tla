--------------------------------- MODULE Slob --------------------------------
(***************************************************************************)
(* The kernel heap (kern/mm/kmalloc.c): small blocks come from a circular,  *)
(* address-ordered list of free blocks that grows by pages, large ones are  *)
(* pages of their own with a descriptor in the bigblocks list.              *)
(*                                                                          *)
(* Memory is addressed in units of sizeof(slob_t); kmalloc keeps the size   *)
(* of a small block in the unit in front of it.  Page k is the units        *)
(* PAGE * k .. PAGE * k + PAGE - 1; the list head arena lies before page 0. *)
(* The addresses of the page allocator are those of module FirstFit.        *)
(***************************************************************************)
EXTENDS Integers, FiniteSets

CONSTANTS
    SLOB_UNIT,       \* bytes in a unit (8)
    PAGE,            \* units in a page (512)
    SLOB_PAGES,           \* pages the page allocator can give
    BIGBLOCK,        \* units of a bigblock_t (2)
    Sizes            \* the sizes callers ask for, in bytes

PAGE_SIZE == SLOB_UNIT * PAGE

ASSUME SlobAssumption ==
    /\ SLOB_UNIT \in Nat \ {0} /\ PAGE \in Nat /\ SLOB_PAGES \in Nat
    /\ BIGBLOCK \in 2 .. (PAGE - 1)
    /\ Sizes \subseteq Nat \ {0}

VARIABLES
    units,           \* block->units
    next,            \* block->next in the free list
    slobfree,        \* where the next search begins
    bigblocks,       \* the bigblock_t in the list: their address, page and order
    inuse,           \* what callers hold: address and bytes asked for
    free_pages,      \* the pages the page allocator has left
    panicked         \* the assert of slob_alloc has failed

slob_vars == <<units, next, slobfree, bigblocks, inuse, free_pages, panicked>>

arena == -2                              \* apart from every page
Units == 0 .. (PAGE * SLOB_PAGES - 1)
Addrs == {arena} \cup Units
PageAddr(k) == PAGE * k

SlobInit ==
    /\ units = [a \in Addrs |-> IF a = arena THEN 1 ELSE 0]
    /\ next = [a \in Addrs |-> arena]
    /\ slobfree = arena
    /\ bigblocks = {}
    /\ inuse = {}
    /\ free_pages = 0 .. (SLOB_PAGES - 1)
    /\ panicked = FALSE

-----------------------------------------------------------------------------
(* The heap is h = [units, next, slobfree].  The two words of a unit that no *)
(* longer heads a block are never read; they are cleared here.               *)

Heap == [units |-> units, next |-> next, slobfree |-> slobfree]

\* The blocks of the free list, from slobfree->next on, in list order.
Search(h) ==
    LET s[i \in Nat] == IF i = 0 THEN h.next[h.slobfree] ELSE h.next[s[i - 1]]
        last == CHOOSE i \in 0 .. Cardinality(Addrs) :
                    /\ s[i] = h.slobfree
                    /\ \A j \in 0 .. (i - 1) : s[j] # h.slobfree
    IN  [i \in 0 .. last |-> s[i]]

\* Where slob_free puts block b in: the first block cur of the list, from
\* slobfree on, between which and whose successor b lies, or at which the
\* list wraps around.
Insertion(h, b) ==
    LET s    == Search(h)
        n    == Cardinality(DOMAIN s)
        c[i \in 0 .. n] == IF i = 0 THEN h.slobfree ELSE s[i - 1]
        Here(cur) == \/ b > cur /\ b < h.next[cur]
                     \/ cur >= h.next[cur] /\ (b > cur \/ b < h.next[cur])
        i    == CHOOSE j \in 0 .. n : Here(c[j]) /\ \A k \in 0 .. (j - 1) : ~Here(c[k])
    IN  c[i]

Clear(h, a) == [h EXCEPT !.units[a] = 0, !.next[a] = arena]

\* b absorbs the free block behind it.
JoinNext(h, b) ==
    LET nx == h.next[b]
    IN  IF b + h.units[b] = nx
        THEN Clear([h EXCEPT !.units[b] = @ + h.units[nx], !.next[b] = h.next[nx]], nx)
        ELSE h

\* The free block cur in front absorbs b.
JoinPrev(h, cur, b) ==
    IF cur + h.units[cur] = b
    THEN Clear([h EXCEPT !.units[cur] = @ + h.units[b], !.next[cur] = h.next[b]], b)
    ELSE h

\* slob_free(b) of n units.
slob_free(h, b, n) ==
    LET cur == Insertion(h, b)
        in  == [h EXCEPT !.units[b] = n, !.next[b] = h.next[cur], !.next[cur] = b, !.slobfree = cur]
    IN  JoinPrev(JoinNext(in, b), cur, b)

\* The blocks in which slob_alloc finds room.
Room(h, n) == {i \in DOMAIN Search(h) : h.units[Search(h)[i]] >= n}

\* slob_alloc of n units from the first of them: the front of the block is
\* handed out, the rest stays.  (The arena, of one unit, has never room: two
\* units is the least that is asked for.)
Carve(h, n) ==
    LET s    == Search(h)
        i    == CHOOSE j \in Room(h, n) : \A k \in Room(h, n) : j <= k
        cur  == s[i]
        prev == IF i = 0 THEN h.slobfree ELSE s[i - 1]
        rest == cur + n
    IN  [block |-> cur,
         heap  |-> IF h.units[cur] = n
                   THEN [h EXCEPT !.next[prev] = h.next[cur], !.next[cur] = arena, !.slobfree = prev]
                   ELSE [units |-> [h.units EXCEPT ![rest] = h.units[cur] - n, ![cur] = n],
                         next  |-> [h.next EXCEPT ![prev] = rest, ![rest] = h.next[cur], ![cur] = arena],
                         slobfree |-> prev]]

\* slob_alloc(n units), with the pages F left: the possible results.  Without
\* room the heap grows by a page; without a page the result is NULL (-1).
slob_alloc(n, F) ==
    IF Room(Heap, n) # {}
    THEN {[heap |-> Carve(Heap, n).heap, block |-> Carve(Heap, n).block, pages |-> F]}
    ELSE IF F = {} THEN {[heap |-> Heap, block |-> -1, pages |-> F]}
    ELSE LET k == CHOOSE p \in F : \A q \in F : p <= q
             c == Carve(slob_free(Heap, PageAddr(k), PAGE), n)
         IN  {[heap |-> c.heap, block |-> c.block, pages |-> F \ {k}]}

SetHeap(h) == units' = h.units /\ next' = h.next /\ slobfree' = h.slobfree

-----------------------------------------------------------------------------
SLOB_UNITS(size) == (size + SLOB_UNIT - 1) \div SLOB_UNIT

\* find_order: halve the size, rounding down, until it fits a page.
find_order(size) ==
    LET half[i \in Nat] == IF i = 0 THEN size ELSE half[i - 1] \div 2
    IN  CHOOSE o \in 0 .. size : /\ half[o] <= PAGE_SIZE
                                 /\ \A i \in 0 .. (o - 1) : half[i] > PAGE_SIZE

\* 1 << order.
RunPages(order) ==
    LET shifted[i \in Nat] == IF i = 0 THEN 1 ELSE 2 * shifted[i - 1]
    IN  shifted[order]

\* Objects __kmalloc takes from the heap.
Small(size) == size < PAGE_SIZE - SLOB_UNIT

\* The assert of slob_alloc.
SlobAllocAsserts(size) == size + SLOB_UNIT < PAGE_SIZE

KmallocSmall(size) ==
    /\ Small(size)
    /\ IF ~SlobAllocAsserts(size + SLOB_UNIT)
       THEN panicked' = TRUE /\ UNCHANGED <<units, next, slobfree, bigblocks, inuse, free_pages>>
       ELSE \E r \in slob_alloc(SLOB_UNITS(size + SLOB_UNIT), free_pages) :
              /\ SetHeap(r.heap)
              /\ free_pages' = r.pages
              /\ inuse' = IF r.block = -1 THEN inuse
                          ELSE inuse \cup {[ptr |-> r.block + 1, size |-> size]}
              /\ UNCHANGED <<bigblocks, panicked>>

\* The runs of 1 << order pages the page allocator can give from F.
PageRuns(order, F) == {k \in F : k .. (k + RunPages(order) - 1) \subseteq F}

\* Fault: the descriptor is not given back when there are no pages.
big_fails_leaks(r) == SetHeap(r.heap)

\* A large object for which there is no run of pages: its descriptor goes back.
big_fails(r) == SetHeap(slob_free(r.heap, r.block, BIGBLOCK))

KmallocBig(size) ==
    /\ ~Small(size)
    /\ \E r \in slob_alloc(BIGBLOCK, free_pages) :
         LET order == find_order(size)
             runs  == PageRuns(order, r.pages)
         IN  IF r.block = -1 THEN UNCHANGED <<units, next, slobfree, bigblocks, inuse, free_pages>>
             ELSE IF runs = {}
             THEN /\ big_fails(r)
                  /\ free_pages' = r.pages
                  /\ UNCHANGED <<bigblocks, inuse>>
             ELSE LET k == CHOOSE p \in runs : \A q \in runs : p <= q
                  IN  /\ SetHeap(r.heap)
                      /\ free_pages' = r.pages \ (k .. (k + RunPages(order) - 1))
                      /\ bigblocks' = bigblocks \cup {[bb |-> r.block, page |-> k, order |-> order]}
                      /\ inuse' = inuse \cup {[ptr |-> PageAddr(k), size |-> size]}
    /\ UNCHANGED panicked

kmalloc(size) == ~panicked /\ (KmallocSmall(size) \/ KmallocBig(size))

\* The header of a small object.
Header(ptr) == ptr - 1

\* kfree(o.ptr): the page-aligned objects are looked for in bigblocks.
kfree(o) ==
    LET big == {b \in bigblocks : PageAddr(b.page) = o.ptr}
    IN  /\ ~panicked
        /\ inuse' = inuse \ {o}
        /\ IF big # {}
           THEN \E b \in big :
                  /\ bigblocks' = bigblocks \ {b}
                  /\ free_pages' = free_pages \cup (b.page .. (b.page + RunPages(b.order) - 1))
                  /\ SetHeap(slob_free(Heap, b.bb, BIGBLOCK))
           ELSE /\ SetHeap(slob_free(Heap, Header(o.ptr), units[Header(o.ptr)]))
                /\ UNCHANGED <<bigblocks, free_pages>>
        /\ UNCHANGED panicked

SlobNext ==
    \/ \E size \in Sizes : kmalloc(size)
    \/ \E o \in inuse : kfree(o)

SlobSpec == SlobInit /\ [][SlobNext]_slob_vars

-----------------------------------------------------------------------------
SlobTypeOK ==
    /\ units \in [Addrs -> 0 .. (PAGE * SLOB_PAGES)]
    /\ next \in [Addrs -> Addrs]
    /\ slobfree \in Addrs
    /\ \A b \in bigblocks : b.bb \in Units /\ b.page \in 0 .. (SLOB_PAGES - 1)
    /\ \A o \in inuse : o.ptr \in Units /\ o.size \in Sizes
    /\ free_pages \subseteq 0 .. (SLOB_PAGES - 1)
    /\ panicked \in BOOLEAN

FreeBlocks == {Search(Heap)[i] : i \in DOMAIN Search(Heap)}

SmallInUse == {o \in inuse : \A b \in bigblocks : PageAddr(b.page) # o.ptr}

\* Everything that occupies memory, as address and length.
Extents ==
    {<<b, units[b]>> : b \in FreeBlocks \ {arena}}
    \cup {<<Header(o.ptr), SLOB_UNITS(o.size + SLOB_UNIT)>> : o \in SmallInUse}
    \cup {<<b.bb, BIGBLOCK>> : b \in bigblocks}
    \cup {<<PageAddr(b.page), PAGE * RunPages(b.order)>> : b \in bigblocks}
    \cup {<<PageAddr(k), PAGE>> : k \in free_pages}

\* Each unit of memory belongs to exactly one of them: no two objects overlap,
\* no free block covers an object, and nothing is leaked, whatever was split,
\* merged and given back in whatever order.
Partition ==
    \A u \in Units : Cardinality({e \in Extents : u \in e[1] .. (e[1] + e[2] - 1)}) = 1

\* The free list is a circle in address order that wraps around once and has
\* no two adjacent blocks in it: the search of slob_free for a place to insert
\* ends, and freed memory can be used for larger objects again.
CircleInOrder ==
    /\ arena \in FreeBlocks
    /\ \A a \in FreeBlocks :
         /\ next[a] \in FreeBlocks
         /\ a < next[a] \/ (next[a] = arena /\ \A b \in FreeBlocks : b <= a)
         /\ a < next[a] => a + units[a] < next[a]

\* The heap is sound: memory is partitioned, and the free list is a circle in order.
HeapSound == Partition /\ CircleInOrder
=============================================================================
