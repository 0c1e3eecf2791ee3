---------------------------- MODULE AddressSpace -----------------------------
(***************************************************************************)
(* Address spaces of user processes (kern/mm/vmm.c), their page tables      *)
(* (kern/mm/pmm.c) and what fork, exec and exit do with them                *)
(* (kern/process/proc.c).  Addresses are counted in pages.                  *)
(*                                                                         *)
(* Pages are never swapped out: check_mm_struct is NULL after the checks at *)
(* boot, so that no page becomes swappable.  An allocation of one page that *)
(* finds none calls swap_out(NULL) and stops the machine; one of more pages *)
(* returns NULL.  Objects from kmalloc do not come from these pages.        *)
(***************************************************************************)
EXTENDS Naturals, Sequences, FiniteSets

CONSTANTS
    USERS, FIRST,          \* slots for processes; that of user_main
    NPHYS,                 \* physical pages, 1 .. NPHYS
    NVIRT, PTENTRIES,      \* pages of an address space; pages that one page table maps
    KSTACKPAGE, USTACKPAGE, ARGPAGES,   \* of the kernel stack, of the user stack, mapped by exec
    IMAGES,                \* programs: [elf, segments]
    VALUES, STORES,        \* what a page can hold; what processes store
    ARGV, STALE,           \* what exec leaves on the stack; what nobody chose
    NOMM                   \* no address space: a kernel thread, or a zombie

ASSUME AddressSpaceAssumption ==
    /\ {NPHYS, NVIRT, PTENTRIES, KSTACKPAGE, USTACKPAGE, ARGPAGES} \subseteq Nat \ {0}
    /\ ARGPAGES <= USTACKPAGE /\ USTACKPAGE <= NVIRT
    /\ {ARGV, STALE, 0} \cup STORES \subseteq VALUES
    /\ FIRST \in USERS

Frames == 1 .. NPHYS
Virt == 0 .. (NVIRT - 1)
PDX(v) == v \div PTENTRIES
Tables == {PDX(v) : v \in Virt}

Area == [start : Virt, end : 1 .. NVIRT, flags : SUBSET {"R", "W", "X", "S"}]

\* An address space: its areas in order, directory, tables and entries.
Space == [areas : Seq(Area), pgdir : Frames, pt : [Tables -> Frames \cup {0}],
          pte : [Virt -> [page : Frames \cup {0}, w : BOOLEAN]]]

\* A program header: data is what the file holds for it, page by page, torn if the
\* file ends behind the first page.
ProgHeader == [start : Virt, end : 1 .. NVIRT, flags : SUBSET {"R", "W", "X"}, data : Seq(VALUES), torn : BOOLEAN]

ASSUME ImagesAssumption ==
    /\ \A image \in IMAGES :
         /\ image.elf \in BOOLEAN
         /\ image.segments \in Seq(ProgHeader)
         /\ \A i \in DOMAIN image.segments : image.segments[i].start < image.segments[i].end
    /\ NOMM \notin Space

VARIABLES
    mm,                    \* address space of each process
    kstack,                \* first page of its kernel stack, 0 if the slot is free
    zombie,                \* those that have exited and not been waited for
    frame,                 \* physical memory: free pages, references, contents
    stopped                \* why the machine stopped, "" if it runs

space_vars == <<mm, kstack, zombie, frame, stopped>>

Unmapped == [page |-> 0, w |-> FALSE]

\* mm_create.
NewSpace == [areas |-> <<>>, pgdir |-> 0, pt |-> [g \in Tables |-> 0], pte |-> [v \in Virt |-> Unmapped]]

-----------------------------------------------------------------------------
(* The operators below take and return a state s of physical memory with the *)
(* address space at hand: free, ref, data, mm, the page found and ret.  Once *)
(* ret is not "ok", nothing more is done.                                    *)

\* Op on the state after a call that went well.
Then(t, Op(_)) == IF t.ret = "ok" THEN Op(t) ELSE t

\* Op on lo, lo + 1, ... hi - 1, as long as all goes well.
Each(s, lo, hi, Op(_, _)) ==
    LET after[i \in lo .. hi] ==
            IF i = lo THEN s
            ELSE LET next(t) == Op(t, i - 1) IN Then(after[i - 1], next)
    IN  after[hi]

\* alloc_pages, first fit.
alloc_pages(s, n) ==
    LET runs    == {f \in s.free : f .. (f + n - 1) \subseteq s.free}
        take(f) == [s EXCEPT !.free = @ \ (f .. (f + n - 1)), !.page = f]
    IN  IF runs = {}
        THEN [s EXCEPT !.ret = IF n = 1 THEN "swap_out" ELSE "nomem"]
        ELSE take(CHOOSE f \in runs : \A h \in runs : f <= h)

\* Nobody relies on what a free page holds.
free_frames(s, page, n) ==
    LET run == page .. (page + n - 1)
    IN  [s EXCEPT !.free = @ \cup run,
                  !.ref = [f \in Frames |-> IF f \in run THEN 0 ELSE @[f]],
                  !.data = [f \in Frames |-> IF f \in run THEN STALE ELSE @[f]]]

\* get_pte that may create the table.
get_pte(s, v) ==
    LET enter(a) == [a EXCEPT !.ref[a.page] = 1, !.mm.pt[PDX(v)] = a.page]
    IN  IF s.mm.pt[PDX(v)] # 0 THEN s ELSE Then(alloc_pages(s, 1), enter)

page_remove_pte(s, v) ==
    LET page == s.mm.pte[v].page
        t    == [s EXCEPT !.mm.pte[v] = Unmapped]
    IN  IF page = 0 THEN s
        ELSE IF s.ref[page] = 1 THEN free_frames(t, page, 1)
        ELSE [t EXCEPT !.ref[page] = @ - 1]

page_insert(s, page, v, w) ==
    LET enter(t) == [t EXCEPT !.mm.pte[v] = [page |-> page, w |-> w]]
        refer(t) == IF t.mm.pte[v].page = page THEN t
                    ELSE [page_remove_pte(t, v) EXCEPT !.ref[page] = @ + 1]
        put(t)   == enter(refer(t))
    IN  Then(get_pte(s, v), put)

\* The page is not cleared: it holds what it held.
pgdir_alloc_page(s, v, w) ==
    LET insert(a) == page_insert(a, a.page, v, w) IN Then(alloc_pages(s, 1), insert)

unmap_range(s, area) == Each(s, area.start, area.end, page_remove_pte)

\* The tables that reach into an area are freed, with what they still map.
exit_range(s, area) ==
    LET drop(t, g) ==
            IF t.mm.pt[g] = 0 THEN t
            ELSE [free_frames(t, t.mm.pt[g], 1) EXCEPT
                     !.mm.pt[g] = 0,
                     !.mm.pte = [v \in Virt |-> IF PDX(v) = g THEN Unmapped ELSE @[v]]]
    IN  Each(s, PDX(area.start), PDX(area.end - 1) + 1, drop)

\* Fault: one loop for both.
exit_mmap_at_once(s) ==
    LET leave(t, i) == exit_range(unmap_range(t, s.mm.areas[i]), s.mm.areas[i])
    IN  Each(s, 1, Len(s.mm.areas) + 1, leave)

\* All areas are unmapped before any table goes: areas may share a table.
exit_mmap(s) ==
    LET unmap(t, i) == unmap_range(t, s.mm.areas[i])
        leave(t, i) == exit_range(t, s.mm.areas[i])
        last        == Len(s.mm.areas) + 1
    IN  Each(Each(s, 1, last, unmap), 1, last, leave)

\* exit_mmap, put_pgdir and mm_destroy.
Destroy(s) == [free_frames(exit_mmap(s), s.mm.pgdir, 1) EXCEPT !.mm = NOMM]

\* mm_create and setup_pgdir.
Create(s) ==
    LET space(a) == [a EXCEPT !.mm = [NewSpace EXCEPT !.pgdir = a.page]]
    IN  Then(alloc_pages(s, 1), space)

-----------------------------------------------------------------------------
(* Areas.                                                                   *)

\* find_vma: the areas of m that hold page v, at most one.
find_vma(m, v) == {i \in DOMAIN m.areas : m.areas[i].start <= v /\ v < m.areas[i].end}

\* The new area goes behind those that do not start after it; an assertion
\* compares it with its neighbours.
insert_vma_struct(s, area) ==
    LET areas == s.mm.areas
        n     == Cardinality({i \in DOMAIN areas : areas[i].start <= area.start})
        clear == /\ n = 0 \/ areas[n].end <= area.start
                 /\ n = Len(areas) \/ area.end <= areas[n + 1].start
    IN  IF clear
        THEN [s EXCEPT !.mm.areas = SubSeq(@, 1, n) \o <<area>> \o SubSeq(@, n + 1, Len(@))]
        ELSE [s EXCEPT !.ret = "overlap"]

mm_map(s, start, end, flags) ==
    IF find_vma(s.mm, start) # {}
    THEN [s EXCEPT !.ret = "inval"]
    ELSE insert_vma_struct(s, [start |-> start, end |-> end, flags |-> flags])

\* Fault: the child is given the parent's page.
SharePage(s, from, v) == page_insert(s, from.pte[v].page, v, from.pte[v].w)

\* What get_pte, alloc_page and page_insert do for one page of a copy.
CopyPage(s, from, v) ==
    LET alloc(t) == alloc_pages(t, 1)
        fill(t)  == page_insert([t EXCEPT !.data[t.page] = t.data[from.pte[v].page]],
                                t.page, v, from.pte[v].w)
    IN  Then(Then(get_pte(s, v), alloc), fill)

copy_range(s, from, area) ==
    LET copy(t, v) == IF from.pte[v].page = 0 THEN t ELSE CopyPage(t, from, v)
    IN  Each(s, area.start, area.end, copy)

\* The areas are copied from the last to the first.
dup_mmap(s, from) ==
    LET n         == Len(from.areas)
        dup(t, i) == LET area == from.areas[n - i] IN copy_range(insert_vma_struct(t, area), from, area)
    IN  Each(s, 0, n, dup)

\* Its test for bad_dup_cleanup_mmap never succeeds: what would make dup_mmap
\* fail stops the machine before.
copy_mm(s, from) == LET dup(t) == dup_mmap(t, from) IN Then(Create(s), dup)

-----------------------------------------------------------------------------
(* exec: load_icode.                                                        *)

\* pgdir_alloc_page and the contents of the page.
Load(s, v, w, x) ==
    LET fill(t) == [t EXCEPT !.data[t.mm.pte[v].page] = x] IN Then(pgdir_alloc_page(s, v, w), fill)

\* One program header: file contents, then zeros.  A header without file contents
\* is passed over; a torn file ends behind the first page.
LoadSegment(s, seg) ==
    LET load(t, v) == Load(t, v, "W" \in seg.flags,
                           IF v - seg.start < Len(seg.data) THEN seg.data[v - seg.start + 1] ELSE 0)
        tear(t) == [t EXCEPT !.ret = "inval"]
        fill(t) == IF seg.torn THEN Then(load(t, seg.start), tear) ELSE Each(t, seg.start, seg.end, load)
    IN  IF Len(seg.data) > seg.end - seg.start THEN [s EXCEPT !.ret = "inval"]
        ELSE IF seg.data = <<>> THEN s
        ELSE Then(mm_map(s, seg.start, seg.end, seg.flags), fill)

\* The stack area, the pages at its top from the last on, and the arguments.
LoadStack(s) ==
    LET page(t, i) == pgdir_alloc_page(t, NVIRT - 1 - i, TRUE)
        pages(t)   == Each(t, 0, ARGPAGES, page)
        argv(t)    == [t EXCEPT !.data[t.mm.pte[NVIRT - 1].page] = ARGV]
    IN  Then(Then(mm_map(s, NVIRT - USTACKPAGE, NVIRT, {"R", "W", "S"}), pages), argv)

load_icode(s, image) ==
    LET seg(t, i)  == LoadSegment(t, image.segments[i])
        load(t)    == IF image.elf THEN Then(Each(t, 1, Len(image.segments) + 1, seg), LoadStack)
                      ELSE [t EXCEPT !.ret = "inval"]
        cleanup(t) == IF t.ret # "inval" THEN t
                      ELSE [Destroy([t EXCEPT !.ret = "ok"]) EXCEPT !.ret = "inval"]
    IN  cleanup(Then(Create(s), load))

-----------------------------------------------------------------------------
(* Page faults and copies between kernel and user memory.                   *)

\* do_pgfault on page v, which is not mapped, or not writable.
do_pgfault(s, v, write) ==
    LET hit      == find_vma(s.mm, v)
        flags    == UNION {s.mm.areas[i].flags : i \in hit}
        serve(t) == IF s.mm.pte[v].page # 0 THEN [t EXCEPT !.ret = "readonly"]
                    ELSE pgdir_alloc_page(t, v, "W" \in flags)
    IN  IF hit = {} \/ (write /\ "W" \notin flags) \/ (~write /\ {"R", "X"} \cap flags = {})
        THEN [s EXCEPT !.ret = "fault"]
        ELSE Then(get_pte(s, v), serve)

\* The processor's access to page v: the fault, if there is one, and the access.
Access(s, v, write) ==
    LET e == s.mm.pte[v] IN IF e.page # 0 /\ (write => e.w) THEN s ELSE do_pgfault(s, v, write)

Store(s, v, x) ==
    LET fill(t) == [t EXCEPT !.data[t.mm.pte[v].page] = x] IN Then(Access(s, v, TRUE), fill)

\* Fault: only the first page is looked at.
user_mem_check_first(m, lo, hi, write) == find_vma(m, lo) # {}

\* From area to area without a gap; the lowest page of the stack is not written.
user_mem_check(m, lo, hi, write) ==
    \A v \in lo .. (hi - 1) : \E i \in find_vma(m, v) :
        /\ (IF write THEN "W" ELSE "R") \in m.areas[i].flags
        /\ (write /\ "S" \in m.areas[i].flags) => lo > m.areas[i].start

-----------------------------------------------------------------------------
(* The actions.                                                             *)

Now(m) == [free |-> frame.free, ref |-> frame.ref, data |-> frame.data, mm |-> m, page |-> 0, ret |-> "ok"]

Memory(s) == frame' = [free |-> s.free, ref |-> s.ref, data |-> s.data]

StopsAt(s) == s.ret \in {"swap_out", "overlap", "fault", "readonly"}

Stop(why) == stopped' = why /\ UNCHANGED <<mm, kstack, zombie, frame>>

Runs(p) == stopped = "" /\ kstack[p] # 0 /\ p \notin zombie
HasSpace(p) == Runs(p) /\ mm[p] # NOMM

\* user_main: a kernel thread, which will exec.
SpaceInit ==
    LET s == alloc_pages([free |-> Frames, ref |-> [f \in Frames |-> 0], data |-> [f \in Frames |-> STALE],
                          mm |-> NOMM, page |-> 0, ret |-> "ok"], KSTACKPAGE)
    IN  /\ mm = [p \in USERS |-> NOMM]
        /\ kstack = [p \in USERS |-> IF p = FIRST THEN s.page ELSE 0]
        /\ zombie = {}
        /\ frame = [free |-> s.free, ref |-> s.ref, data |-> s.data]
        /\ stopped = ""

\* do_fork: the kernel stack, which may be refused, then the address space.
SpaceFork(p, q) ==
    LET a == alloc_pages(Now(NOMM), KSTACKPAGE)
        s == copy_mm(a, mm[p])
    IN  /\ HasSpace(p) /\ kstack[q] = 0
        /\ a.ret = "ok"
        /\ IF StopsAt(s) THEN Stop(s.ret)
           ELSE /\ mm' = [mm EXCEPT ![q] = s.mm]
                /\ kstack' = [kstack EXCEPT ![q] = a.page]
                /\ Memory(s)
                /\ UNCHANGED <<zombie, stopped>>

\* do_execve: the old address space goes first; a program that cannot be loaded
\* ends the process.
SpaceExec(p, image) ==
    LET a == IF mm[p] = NOMM THEN Now(NOMM) ELSE Destroy(Now(mm[p]))
        s == load_icode(a, image)
    IN  /\ Runs(p)
        /\ IF StopsAt(s) THEN Stop(s.ret)
           ELSE /\ mm' = [mm EXCEPT ![p] = s.mm]
                /\ zombie' = IF s.ret = "ok" THEN zombie ELSE zombie \cup {p}
                /\ Memory(s)
                /\ UNCHANGED <<kstack, stopped>>

\* do_exit.
SpaceExit(p) ==
    LET s == Destroy(Now(mm[p]))
    IN  /\ HasSpace(p)
        /\ mm' = [mm EXCEPT ![p] = NOMM]
        /\ zombie' = zombie \cup {p}
        /\ Memory(s)
        /\ UNCHANGED <<kstack, stopped>>

\* put_kstack in do_wait.
SpaceReap(p) ==
    /\ stopped = "" /\ p \in zombie
    /\ Memory(free_frames(Now(NOMM), kstack[p], KSTACKPAGE))
    /\ kstack' = [kstack EXCEPT ![p] = 0]
    /\ zombie' = zombie \ {p}
    /\ UNCHANGED <<mm, stopped>>

\* What an access leaves.
Accessed(p, s) ==
    IF StopsAt(s) THEN Stop(s.ret)
    ELSE mm' = [mm EXCEPT ![p] = s.mm] /\ Memory(s) /\ UNCHANGED <<kstack, zombie, stopped>>

UserRead(p, v) == HasSpace(p) /\ Accessed(p, Access(Now(mm[p]), v, FALSE))

UserWrite(p, v, x) == HasSpace(p) /\ Accessed(p, Store(Now(mm[p]), v, x))

\* copy_to_user of x to the pages lo .. hi - 1.
CopyToUser(p, lo, hi, x) ==
    LET store(t, v) == Store(t, v, x)
        s == Each(Now(mm[p]), lo, hi, store)
    IN  /\ HasSpace(p)
        /\ lo < hi /\ user_mem_check(mm[p], lo, hi, TRUE)
        /\ IF s.ret = "fault" THEN Stop("kernel") ELSE Accessed(p, s)

\* After a panic, or when all have quit.
SpaceStopped ==
    /\ stopped # "" \/ \A p \in USERS : kstack[p] = 0
    /\ UNCHANGED space_vars

SpaceNext ==
    \/ \E p \in USERS :
         \/ \E q \in USERS : SpaceFork(p, q)
         \/ \E image \in IMAGES : SpaceExec(p, image)
         \/ SpaceExit(p) \/ SpaceReap(p)
         \/ \E v \in Virt : UserRead(p, v)
         \/ \E v \in Virt, x \in STORES : UserWrite(p, v, x)
         \/ \E lo, hi \in 0 .. NVIRT, x \in STORES : CopyToUser(p, lo, hi, x)
    \/ SpaceStopped

SpaceSpec == SpaceInit /\ [][SpaceNext]_space_vars
-----------------------------------------------------------------------------
(* Properties.                                                              *)

SpaceTypeOK ==
    /\ mm \in [USERS -> Space \cup {NOMM}]
    /\ kstack \in [USERS -> Frames \cup {0}]
    /\ zombie \subseteq USERS
    /\ frame \in [free : SUBSET Frames, ref : [Frames -> Nat], data : [Frames -> VALUES]]
    /\ stopped \in {"", "swap_out", "overlap", "fault", "readonly", "kernel"}

Spaces == {p \in USERS : mm[p] # NOMM}

\* Who holds physical page f.
Holders(f) ==
    {<<"stack", p>> : p \in {q \in USERS : kstack[q] # 0 /\ f \in kstack[q] .. (kstack[q] + KSTACKPAGE - 1)}}
    \cup {<<"dir", p>> : p \in {q \in Spaces : mm[q].pgdir = f}}
    \cup {<<"table", d>> : d \in {c \in Spaces \X Tables : mm[c[1]].pt[c[2]] = f}}
    \cup {<<"page", d>> : d \in {c \in Spaces \X Virt : mm[c[1]].pte[c[2]].page = f}}

\* Each physical page is free, or held at exactly one place, with the reference
\* count that place calls for: none is freed too early, shared or lost, by fork,
\* by exec that fails half way, or by exit.  When all processes are gone, all
\* pages are free, which init_main asserts (nr_free_pages_store).
PagesExact ==
    \A f \in Frames :
        /\ Cardinality(Holders(f)) = IF f \in frame.free THEN 0 ELSE 1
        /\ frame.ref[f] = Cardinality({h \in Holders(f) : h[1] \in {"table", "page"}})

\* What the areas of m let page v be used for.
Rights(m, v) == UNION {m.areas[i].flags : i \in find_vma(m, v)}

\* Areas are in order and apart; every mapped page lies in one, is writable exactly
\* if that is, and has its table.  So a fault never meets a page that is mapped,
\* and the kernel no fault that it cannot serve on pages user_mem_check let pass.
AreasHold ==
    /\ \A p \in Spaces :
         LET m == mm[p]
         IN  /\ \A i \in DOMAIN m.areas : m.areas[i].start < m.areas[i].end
             /\ \A i \in 1 .. (Len(m.areas) - 1) : m.areas[i].end <= m.areas[i + 1].start
             /\ \A v \in Virt : m.pte[v].page # 0 =>
                  find_vma(m, v) # {} /\ m.pt[PDX(v)] # 0 /\ (m.pte[v].w <=> "W" \in Rights(m, v))
    /\ stopped \notin {"readonly", "kernel"}

\* What exec may leave, page by page: the file, zeros behind it, and on the stack
\* anything but for the arguments on top.
LaidOut(image, contents, rights) ==
    \A v \in Virt :
        LET segs == {image.segments[i] : i \in DOMAIN image.segments}
            here == {seg \in segs : seg.data # <<>> /\ seg.start <= v /\ v < seg.end}
        IN  IF v >= NVIRT - USTACKPAGE
            THEN /\ rights[v] = {"R", "W", "S"}
                 /\ v = NVIRT - 1 => contents[v] = ARGV
            ELSE /\ here = {} => rights[v] = {} /\ contents[v] = NOMM
                 /\ \A seg \in here :
                      /\ rights[v] = seg.flags
                      /\ contents[v] = IF v - seg.start < Len(seg.data) THEN seg.data[v - seg.start + 1] ELSE 0

\* What is seen through address space m, and what may be done with it.
Contents(m, data) ==
    [v \in Virt |-> IF m = NOMM THEN NOMM ELSE IF m.pte[v].page = 0 THEN NOMM ELSE data[m.pte[v].page]]

RightsOf(m) == [v \in Virt |-> IF m = NOMM THEN {} ELSE Rights(m, v)]

\* Address spaces implement private memories: a store is seen in one process
\* only, fork copies what is there and nothing else, and a page that has contents
\* keeps them until its process stores to it.
Private == INSTANCE PrivateMemory WITH
    Pages <- Virt, NONE <- NOMM, Laid <- LaidOut,
    mem <- [p \in USERS |-> Contents(mm[p], frame.data)],
    rights <- [p \in USERS |-> RightsOf(mm[p])],
    halted <- stopped # ""

ImplementsPrivateMemory == Private!MemSpec
=============================================================================
