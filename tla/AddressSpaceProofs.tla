------------------------- MODULE AddressSpaceProofs --------------------------
(***************************************************************************)
(* Proofs about address spaces, for any number of processes and pages and   *)
(* any programs: every physical page has one holder, what is mapped lies in  *)
(* its area, and address spaces implement private memories.                 *)
(*                                                                         *)
(* Each operation on a state s of memory has a contract: within the pages U  *)
(* that are free or held by the address space at hand it leaves a state that *)
(* is sound again (Sound), or memory without the address space (Bare), and   *)
(* outside of them nothing changes (Apart).  What Each repeats keeps an      *)
(* invariant I of the turns.  The contracts are then put together: one       *)
(* process works on its pages and the free ones, and whatever it does there  *)
(* leaves the others what they hold (Held).                                 *)
(***************************************************************************)
EXTENDS AddressSpace, FiniteSetTheorems, SequenceTheorems, WellFoundedInduction, TLAPS

-----------------------------------------------------------------------------
(* Where the pages of an address space are held.                            *)

Entry == [page : Frames \cup {0}, w : BOOLEAN]

Place == {<<"dir", 0>>} \cup ({"table"} \X Tables) \cup ({"page"} \X Virt)

PageAt(m) ==
    [d \in Place |-> IF d[1] = "dir" THEN m.pgdir ELSE IF d[1] = "table" THEN m.pt[d[2]] ELSE m.pte[d[2]].page]

\* The reference count a place calls for.
Refs(d) == IF d[1] = "dir" THEN 0 ELSE 1

\* The pages U are free or held at one place each of A, with the right count.
Exact(free, ref, A, U) ==
    /\ A \in [Place -> Frames \cup {0}] /\ U \subseteq Frames /\ free \subseteq U
    /\ \A d \in Place : A[d] # 0 =>
         /\ A[d] \in U \ free /\ ref[A[d]] = Refs(d)
         /\ \A e \in Place : A[e] = A[d] => e = d
    /\ \A f \in U : f \in free \/ \E d \in Place : A[d] = f
    /\ \A f \in free : ref[f] = 0

LEMMA FrameProps ==
    /\ NPHYS \in Nat /\ NVIRT \in Nat /\ PTENTRIES \in Nat \ {0}
    /\ \A f : f \in Frames <=> f \in Nat /\ 1 <= f /\ f <= NPHYS
    /\ \A v : v \in Virt <=> v \in Nat /\ v < NVIRT
    /\ 0 \notin Frames
  BY AddressSpaceAssumption DEF Frames, Virt

LEMMA PlaceProps ==
    /\ <<"dir", 0>> \in Place
    /\ \A g \in Tables : <<"table", g>> \in Place
    /\ \A v \in Virt : <<"page", v>> \in Place
    /\ \A d \in Place : \/ d = <<"dir", 0>>
                        \/ \E g \in Tables : d = <<"table", g>>
                        \/ \E v \in Virt : d = <<"page", v>>
  BY DEF Place

\* A function, a space with one value replaced.
Put(A, d, f) == [A EXCEPT ![d] = f]

WithTable(m, g, f) == [areas |-> m.areas, pgdir |-> m.pgdir, pt |-> Put(m.pt, g, f), pte |-> m.pte]

WithEntry(m, v, e) == [areas |-> m.areas, pgdir |-> m.pgdir, pt |-> m.pt, pte |-> Put(m.pte, v, e)]

\* A page in hand is entered at a place that is empty.
LEMMA EnterExact ==
    ASSUME NEW free, NEW ref \in [Frames -> Nat], NEW A, NEW U, Exact(free, ref, A, U),
           NEW f \in Frames, f \notin U, NEW d \in Place, A[d] = 0
    PROVE  Exact(free, Put(ref, f, Refs(d)), Put(A, d, f), U \cup {f})
  <1> DEFINE B == [A EXCEPT ![d] = f]
             r == [ref EXCEPT ![f] = Refs(d)]
  <1>1. A \in [Place -> Frames \cup {0}] /\ free \subseteq U /\ U \subseteq Frames
    BY DEF Exact
  <1>2. B \in [Place -> Frames \cup {0}] /\ B[d] = f /\ \A e \in Place : e # d => B[e] = A[e]
    BY <1>1
  <1>3. \A g \in U : r[g] = ref[g]
    BY <1>1
  <1>4. r[f] = Refs(d)
    BY DEF Refs
  <1>. HIDE DEF B, r
  <1>5. ASSUME NEW e \in Place, B[e] # 0
        PROVE  B[e] \in (U \cup {f}) \ free /\ r[B[e]] = Refs(e) /\ \A c \in Place : B[c] = B[e] => c = e
    <2>1. CASE e = d
      <3>1. \A c \in Place : A[c] # f
        BY FrameProps DEF Exact
      <3>. QED
        BY <1>1, <1>2, <1>4, <2>1, <3>1
    <2>2. CASE e # d
      <3>1. B[e] = A[e] /\ A[e] \in U \ free /\ ref[A[e]] = Refs(e) /\ \A c \in Place : A[c] = A[e] => c = e
        BY <1>2, <1>5, <2>2 DEF Exact
      <3>. QED
        BY <1>2, <1>3, <3>1
    <2>. QED
      BY <2>1, <2>2
  <1>6. \A g \in U \cup {f} : g \in free \/ \E e \in Place : B[e] = g
    <2>1. ASSUME NEW g \in U, g \notin free PROVE \E e \in Place : B[e] = g
      <3>1. PICK e \in Place : A[e] = g
        BY <2>1 DEF Exact
      <3>2. e # d
        BY <1>1, <2>1, <3>1, FrameProps
      <3>. QED
        BY <1>2, <3>1, <3>2
    <2>. QED
      BY <1>2, <2>1
  <1>7. \A g \in free : r[g] = 0
    BY <1>1, <1>3 DEF Exact
  <1>8. U \cup {f} \subseteq Frames /\ free \subseteq U \cup {f}
    BY <1>1
  <1>. QED
    BY <1>2, <1>5, <1>6, <1>7, <1>8 DEF Exact, B, r, Put

\* A place is cleared and its page freed.
LEMMA DropExact ==
    ASSUME NEW free, NEW ref \in [Frames -> Nat], NEW A, NEW U, Exact(free, ref, A, U),
           NEW d \in Place, A[d] # 0, NEW r \in [Frames -> Nat], r[A[d]] = 0, \A g \in Frames : g # A[d] => r[g] = ref[g]
    PROVE  Exact(free \cup {A[d]}, r, Put(A, d, 0), U)
  <1> DEFINE B == [A EXCEPT ![d] = 0]
             f == A[d]
  <1>1. A \in [Place -> Frames \cup {0}] /\ free \subseteq U /\ U \subseteq Frames /\ f \in U
    BY DEF Exact
  <1>2. B \in [Place -> Frames \cup {0}] /\ B[d] = 0 /\ \A e \in Place : e # d => B[e] = A[e]
    BY <1>1
  <1>3. \A e \in Place : e # d => A[e] # f
    BY DEF Exact
  <1>. HIDE DEF B
  <1>5. ASSUME NEW e \in Place, B[e] # 0
        PROVE  B[e] \in U \ (free \cup {f}) /\ r[B[e]] = Refs(e) /\ \A c \in Place : B[c] = B[e] => c = e
    <2>1. e # d
      BY <1>2, <1>5
    <2>2. B[e] = A[e] /\ A[e] \in U \ free /\ ref[A[e]] = Refs(e) /\ \A c \in Place : A[c] = A[e] => c = e
      BY <1>2, <1>5, <2>1 DEF Exact
    <2>3. A[e] # f /\ A[e] \in Frames
      BY <1>1, <1>3, <2>1, <2>2
    <2>. QED
      BY <1>2, <1>5, <2>2, <2>3
  <1>6. \A g \in U : g \in free \cup {f} \/ \E e \in Place : B[e] = g
    <2>1. ASSUME NEW g \in U, g \notin free, g # f PROVE \E e \in Place : B[e] = g
      <3>1. PICK e \in Place : A[e] = g
        BY <2>1 DEF Exact
      <3>. QED
        BY <1>2, <2>1, <3>1
    <2>. QED
      BY <2>1
  <1>7. \A g \in free \cup {f} : r[g] = 0
    <2>1. f \notin free /\ \A g \in free : ref[g] = 0 /\ g \in Frames
      BY <1>1 DEF Exact
    <2>. QED
      BY <2>1
  <1>. QED
    BY <1>1, <1>2, <1>5, <1>6, <1>7 DEF Exact, B, Put

\* A free page is taken in hand.
LEMMA TakeExact ==
    ASSUME NEW free, NEW ref, NEW A, NEW U, Exact(free, ref, A, U), NEW f \in free
    PROVE  Exact(free \ {f}, ref, A, U \ {f}) /\ f \in Frames /\ ref[f] = 0
  <1>1. \A d \in Place : A[d] # 0 => A[d] # f
    BY DEF Exact
  <1>2. \A g \in U \ {f} : g \in free \ {f} \/ \E d \in Place : A[d] = g
    BY DEF Exact
  <1>. QED
    BY <1>1, <1>2 DEF Exact

LEMMA PageAtProps ==
    ASSUME NEW m \in Space
    PROVE  /\ PageAt(m) \in [Place -> Frames \cup {0}]
           /\ PageAt(m)[<<"dir", 0>>] = m.pgdir
           /\ \A g \in Tables : PageAt(m)[<<"table", g>>] = m.pt[g]
           /\ \A v \in Virt : PageAt(m)[<<"page", v>>] = m.pte[v].page
           /\ m.pgdir \in Frames
           /\ \A g \in Tables : m.pt[g] \in Frames \cup {0}
           /\ \A v \in Virt : m.pte[v] \in Entry /\ m.pte[v].page \in Frames \cup {0} /\ m.pte[v].w \in BOOLEAN
  <1>1. /\ m.pgdir \in Frames
        /\ \A g \in Tables : m.pt[g] \in Frames \cup {0}
        /\ \A v \in Virt : m.pte[v] \in Entry /\ m.pte[v].page \in Frames \cup {0} /\ m.pte[v].w \in BOOLEAN
    BY DEF Space, Entry
  <1>2. /\ PageAt(m)[<<"dir", 0>>] = m.pgdir
        /\ \A g \in Tables : PageAt(m)[<<"table", g>>] = m.pt[g]
        /\ \A v \in Virt : PageAt(m)[<<"page", v>>] = m.pte[v].page
    BY PlaceProps DEF PageAt
  <1>3. ASSUME NEW d \in Place PROVE PageAt(m)[d] \in Frames \cup {0}
    BY <1>1, <1>2, PlaceProps
  <1>4. PageAt(m) \in [Place -> Frames \cup {0}]
    <2>1. PageAt(m) = [d \in Place |-> PageAt(m)[d]]
      BY DEF PageAt
    <2>. QED
      BY <1>3, <2>1
  <1>. QED
    BY <1>1, <1>2, <1>4

\* Two spaces that differ in one place.
LEMMA PageAtTable ==
    ASSUME NEW m \in Space, NEW k \in Space, NEW g \in Tables, NEW f, k.pgdir = m.pgdir,
           k.pt = Put(m.pt, g, f), \A v \in Virt : k.pte[v].page = m.pte[v].page
    PROVE  PageAt(k) = Put(PageAt(m), <<"table", g>>, f)
  <1>1. m.pt \in [Tables -> Frames \cup {0}]
    BY DEF Space
  <1>2. ASSUME NEW d \in Place PROVE PageAt(k)[d] = IF d = <<"table", g>> THEN f ELSE PageAt(m)[d]
    BY <1>1, PageAtProps, PlaceProps DEF Put
  <1>. QED
    BY <1>2, PageAtProps DEF Put

LEMMA PageAtPage ==
    ASSUME NEW m \in Space, NEW k \in Space, NEW v \in Virt, NEW e, k.pgdir = m.pgdir,
           k.pt = m.pt, k.pte = Put(m.pte, v, e)
    PROVE  PageAt(k) = Put(PageAt(m), <<"page", v>>, e.page)
  <1>1. m.pte \in [Virt -> Entry]
    BY DEF Space, Entry
  <1>2. ASSUME NEW d \in Place PROVE PageAt(k)[d] = IF d = <<"page", v>> THEN e.page ELSE PageAt(m)[d]
    BY <1>1, PageAtProps, PlaceProps DEF Put
  <1>. QED
    BY <1>2, PageAtProps DEF Put

-----------------------------------------------------------------------------
(* The areas of an address space, and what is mapped in them.               *)

Sorted(areas) ==
    /\ \A i \in DOMAIN areas : areas[i].start < areas[i].end
    /\ \A i, j \in DOMAIN areas : i < j => areas[i].end <= areas[j].start

AreasOf(m) == {m.areas[i] : i \in DOMAIN m.areas}

\* Page v lies in area a.
Lies(v, a) == a.start <= v /\ v < a.end

Covered(m, v) == \E a \in AreasOf(m) : Lies(v, a)

\* The entry is none, or of a page in an area and writable if that is.
EntryFits(m, v) ==
    m.pte[v].page # 0 =>
        /\ \E a \in AreasOf(m) : Lies(v, a) /\ (m.pte[v].w <=> "W" \in a.flags)
        /\ m.pt[PDX(v)] # 0

Maps(m) ==
    /\ Sorted(m.areas)
    /\ \A v \in Virt : EntryFits(m, v)
    /\ \A g \in Tables : m.pt[g] # 0 => \E v \in Virt : PDX(v) = g /\ Covered(m, v)

-----------------------------------------------------------------------------
(* The states that the operators take and return.                           *)

Outcome == {"ok", "swap_out", "nomem", "overlap", "inval", "fault", "readonly"}

State == [free : SUBSET Frames, ref : [Frames -> Nat], data : [Frames -> VALUES],
          mm : Space \cup {NOMM}, page : Nat, ret : Outcome]

\* The pages U are those that are free and those of the address space at hand.
Sound(s, U) ==
    /\ s \in State /\ s.mm \in Space
    /\ Exact(s.free, s.ref, PageAt(s.mm), U)
    /\ Maps(s.mm)

\* From s to t nothing changes outside U.
Apart(s, t, U) == \A f \in Frames \ U : t.ref[f] = s.ref[f] /\ t.data[f] = s.data[f]

\* From s to t only the pages S of the address space change.
Keeps(s, t, S) ==
    \A v \in Virt \ S :
        /\ t.mm.pte[v] = s.mm.pte[v]
        /\ s.mm.pte[v].page # 0 => t.data[s.mm.pte[v].page] = s.data[s.mm.pte[v].page]

Step(s, t, U, S) == t.mm.areas = s.mm.areas /\ t.mm.pgdir = s.mm.pgdir /\ Keeps(s, t, S) /\ Apart(s, t, U)

LEMMA StateProps ==
    ASSUME NEW s \in State
    PROVE  /\ s = [free |-> s.free, ref |-> s.ref, data |-> s.data, mm |-> s.mm, page |-> s.page, ret |-> s.ret]
           /\ s.free \subseteq Frames /\ s.ref \in [Frames -> Nat] /\ s.data \in [Frames -> VALUES]
           /\ s.mm \in Space \cup {NOMM} /\ s.page \in Nat /\ s.ret \in Outcome
  BY DEF State

LEMMA SpaceProps ==
    ASSUME NEW m \in Space
    PROVE  /\ m = [areas |-> m.areas, pgdir |-> m.pgdir, pt |-> m.pt, pte |-> m.pte]
           /\ m.areas \in Seq(Area) /\ m.pgdir \in Frames /\ m.pt \in [Tables -> Frames \cup {0}]
           /\ m.pte \in [Virt -> Entry]
  BY DEF Space, Entry

LEMMA MakeState ==
    ASSUME NEW free \in SUBSET Frames, NEW ref \in [Frames -> Nat], NEW data \in [Frames -> VALUES],
           NEW m \in Space \cup {NOMM}, NEW page \in Nat, NEW ret \in Outcome
    PROVE  [free |-> free, ref |-> ref, data |-> data, mm |-> m, page |-> page, ret |-> ret] \in State
  BY DEF State

LEMMA MakeSpace ==
    ASSUME NEW areas \in Seq(Area), NEW pgdir \in Frames, NEW pt \in [Tables -> Frames \cup {0}],
           NEW pte \in [Virt -> Entry]
    PROVE  [areas |-> areas, pgdir |-> pgdir, pt |-> pt, pte |-> pte] \in Space
  BY DEF Space, Entry

LEMMA ApartSame == ASSUME NEW s, NEW U PROVE Apart(s, s, U)
  BY DEF Apart

LEMMA ApartThen ==
    ASSUME NEW s, NEW t, NEW u, NEW U, NEW V, U \subseteq V, Apart(s, t, U), Apart(t, u, V)
    PROVE  Apart(s, u, V)
  <1>1. \A f \in Frames \ V : f \in Frames \ U
    OBVIOUS
  <1>. QED
    BY <1>1 DEF Apart

LEMMA StepSame == ASSUME NEW s, NEW U, NEW S PROVE Step(s, s, U, S)
  BY ApartSame DEF Step, Keeps

LEMMA StepThen ==
    ASSUME NEW s, NEW t, NEW u, NEW U, NEW S, NEW V, NEW T, U \subseteq V, S \subseteq T,
           Step(s, t, U, S), Step(t, u, V, T)
    PROVE  Step(s, u, V, T)
  <1>1. \A v \in Virt \ T : v \in Virt \ S
    OBVIOUS
  <1>2. Keeps(s, u, T)
    BY <1>1 DEF Step, Keeps
  <1>. QED
    BY <1>2, ApartThen DEF Step

\* A set of natural numbers has a least member.
LEMMA NatMin ==
    ASSUME NEW T \in SUBSET Nat, T # {}
    PROVE  \E m \in T : \A k \in T : m <= k
  <1> DEFINE R == OpToRel(<, Nat)
  <1>1. IsWellFoundedOn(R, Nat)
    BY NatLessThanWellFounded
  <1>2. \A x, y \in Nat : x < y => <<x, y>> \in R
    BY DEF OpToRel
  <1>3. PICK m \in T : \A k \in T : ~(<<k, m>> \in R)
    BY <1>1, WFMin
  <1> HIDE DEF R
  <1>4. ASSUME NEW k \in T PROVE m <= k
    <2>1. k \in Nat /\ m \in Nat /\ ~(k < m)
      BY <1>2, <1>3
    <2>. QED
      BY <2>1
  <1>. QED
    BY <1>4

\* What alloc_pages returns.
Took(s, t, n) ==
    /\ t \in State
    /\ IF t.ret = "ok"
       THEN
         /\ t.page \in s.free /\ t.page .. (t.page + n - 1) \subseteq s.free
         /\ t.free = s.free \ (t.page .. (t.page + n - 1))
         /\ t.ref = s.ref /\ t.data = s.data /\ t.mm = s.mm
       ELSE t.ret = IF n = 1 THEN "swap_out" ELSE "nomem"

LEMMA AllocPages ==
    ASSUME NEW s \in State, s.ret = "ok", NEW n \in Nat \ {0}
    PROVE  Took(s, alloc_pages(s, n), n)
  <1> DEFINE runs == {f \in s.free : f .. (f + n - 1) \subseteq s.free}
             t == alloc_pages(s, n)
  <1>1. CASE runs = {}
    <2> DEFINE r == IF n = 1 THEN "swap_out" ELSE "nomem"
    <2>1. t = [s EXCEPT !.ret = r]
      BY <1>1 DEF alloc_pages
    <2>2. t = [free |-> s.free, ref |-> s.ref, data |-> s.data, mm |-> s.mm, page |-> s.page, ret |-> r]
      BY <2>1, StateProps
    <2>3. r \in Outcome /\ r # "ok"
      BY DEF Outcome
    <2>4. t \in State
      BY <2>2, <2>3, StateProps, MakeState
    <2>. QED
      BY <2>2, <2>3, <2>4 DEF Took
  <1>2. CASE runs # {}
    <2> DEFINE f == CHOOSE f \in runs : \A h \in runs : f <= h
    <2>1. runs \subseteq Nat
      BY StateProps, FrameProps
    <2>2. \E g \in runs : \A h \in runs : g <= h
      BY <1>2, <2>1, NatMin
    <2>3. f \in runs
      BY <2>2
    <2>4. t = [s EXCEPT !.free = @ \ (f .. (f + n - 1)), !.page = f]
      BY <1>2 DEF alloc_pages
    <2>5. f \in s.free /\ f .. (f + n - 1) \subseteq s.free /\ f \in Nat
      BY <2>1, <2>3
    <2>. HIDE DEF f
    <2>6. t = [free |-> s.free \ (f .. (f + n - 1)), ref |-> s.ref, data |-> s.data, mm |-> s.mm, page |-> f, ret |-> "ok"]
      BY <2>4, StateProps
    <2>7. s.free \ (f .. (f + n - 1)) \in SUBSET Frames /\ "ok" \in Outcome
      BY StateProps DEF Outcome
    <2>8. t \in State
      BY <2>5, <2>6, <2>7, StateProps, MakeState
    <2>. QED
      BY <2>5, <2>6, <2>8 DEF Took
  <1>. QED
    BY <1>1, <1>2

LEMMA AllocPage ==
    ASSUME NEW s \in State, s.ret = "ok"
    PROVE  LET t == alloc_pages(s, 1)
           IN  /\ t \in State
               /\ IF t.ret = "ok"
                  THEN /\ t.page \in s.free /\ t.free = s.free \ {t.page}
                       /\ t.ref = s.ref /\ t.data = s.data /\ t.mm = s.mm
                  ELSE t.ret = "swap_out"
  <1> DEFINE t == alloc_pages(s, 1)
  <1>1. Took(s, t, 1)
    BY AllocPages
  <1>. HIDE DEF t
  <1>2. CASE t.ret = "ok"
    <2>1. t \in State /\ t.page \in s.free /\ t.free = s.free \ (t.page .. (t.page + 1 - 1))
          /\ t.ref = s.ref /\ t.data = s.data /\ t.mm = s.mm
      BY <1>1, <1>2 DEF Took
    <2>2. t.page \in Nat
      BY <2>1, StateProps
    <2>3. t.page .. (t.page + 1 - 1) = {t.page}
      BY <2>2
    <2>. QED
      BY <1>2, <2>1, <2>3 DEF t
  <1>3. CASE t.ret # "ok"
    BY <1>1, <1>3 DEF Took, t
  <1>. QED
    BY <1>2, <1>3 DEF t

\* One page is freed.
LEMMA FreePage ==
    ASSUME NEW s \in State, NEW f \in Frames
    PROVE  LET t == free_frames(s, f, 1)
           IN  /\ t \in State
               /\ t.free = s.free \cup {f} /\ t.mm = s.mm /\ t.page = s.page /\ t.ret = s.ret
               /\ t.ref[f] = 0 /\ t.data[f] = STALE
               /\ \A g \in Frames : g # f => t.ref[g] = s.ref[g] /\ t.data[g] = s.data[g]
  <1> DEFINE t == free_frames(s, f, 1)
             r == [g \in Frames |-> IF g \in {f} THEN 0 ELSE s.ref[g]]
             d == [g \in Frames |-> IF g \in {f} THEN STALE ELSE s.data[g]]
  <1>1. f .. (f + 1 - 1) = {f}
    BY FrameProps
  <1>2. t = [s EXCEPT !.free = @ \cup {f}, !.ref = [g \in Frames |-> IF g \in {f} THEN 0 ELSE @[g]],
                      !.data = [g \in Frames |-> IF g \in {f} THEN STALE ELSE @[g]]]
    BY <1>1 DEF free_frames
  <1>3. t = [free |-> s.free \cup {f}, ref |-> r, data |-> d, mm |-> s.mm, page |-> s.page, ret |-> s.ret]
    BY <1>2, StateProps
  <1>4. r \in [Frames -> Nat] /\ d \in [Frames -> VALUES]
    BY StateProps, AddressSpaceAssumption
  <1>5. s.free \cup {f} \in SUBSET Frames
    BY StateProps
  <1>6. /\ r[f] = 0 /\ d[f] = STALE
        /\ \A g \in Frames : g # f => r[g] = s.ref[g] /\ d[g] = s.data[g]
    OBVIOUS
  <1>. HIDE DEF r, d
  <1>7. t \in State
    BY <1>3, <1>4, <1>5, StateProps, MakeState
  <1>. QED
    BY <1>3, <1>6, <1>7
-----------------------------------------------------------------------------
(* Loops.                                                                   *)

LEMMA NatInd ==
    ASSUME NEW T, 0 \in T, \A n \in Nat : n \in T => n + 1 \in T
    PROVE  \A n \in Nat : n \in T
  <1> SUFFICES ASSUME NEW n \in Nat, n \notin T PROVE FALSE
    OBVIOUS
  <1> DEFINE U == {k \in Nat : k \notin T}
  <1>1. PICK m \in U : \A k \in U : m <= k
    <2>1. U \in SUBSET Nat /\ U # {}
      OBVIOUS
    <2>. QED
      BY <2>1, NatMin
  <1>2. m \in Nat /\ m \notin T /\ m # 0
    BY <1>1, Zenon
  <1>3. m - 1 \in Nat /\ m = (m - 1) + 1
    BY <1>2, SMT
  <1>4. m - 1 \notin T
    BY <1>2, <1>3
  <1>5. ~(m <= m - 1)
    BY <1>2, SMT
  <1>. QED
    BY <1>1, <1>3, <1>4, <1>5

\* What holds at first and from turn to turn holds at last.
LEMMA LoopInv ==
    ASSUME NEW lo \in Nat, NEW hi \in Nat, lo <= hi, NEW I, NEW c, <<c[lo], lo>> \in I,
           \A i \in lo .. (hi - 1) : <<c[i], i>> \in I => <<c[i + 1], i + 1>> \in I
    PROVE  <<c[hi], hi>> \in I
  <1> DEFINE T == {k \in Nat : lo + k <= hi => <<c[lo + k], lo + k>> \in I}
  <1>1. 0 \in T
    <2>1. lo + 0 = lo
      OBVIOUS
    <2>. QED
      BY <2>1
  <1>2. ASSUME NEW k \in Nat, k \in T PROVE k + 1 \in T
    <2>1. CASE lo + (k + 1) <= hi
      <3>1. lo + k \in lo .. (hi - 1) /\ lo + k <= hi /\ (lo + k) + 1 = lo + (k + 1)
        BY <2>1
      <3>2. <<c[lo + k], lo + k>> \in I
        BY <1>2, <3>1
      <3>. QED
        BY <3>1, <3>2
    <2>. QED
      BY <2>1
  <1>. HIDE DEF T
  <1>3. \A k \in Nat : k \in T
    BY <1>1, <1>2, NatInd
  <1>4. hi - lo \in Nat /\ lo + (hi - lo) = hi
    OBVIOUS
  <1>5. hi - lo \in T
    BY <1>3, <1>4
  <1>. QED
    BY <1>4, <1>5 DEF T

\* The states that the turns F of a loop pass through.
IsRun(g, lo, hi, s, F) == g = [i \in lo .. hi |-> IF i = lo THEN s ELSE F[<<g[i - 1], i - 1>>]]

\* A loop whose turns F keep I has a run.
LEMMA LoopRuns ==
    ASSUME NEW lo \in Nat, NEW hi \in Nat, lo <= hi, NEW I, NEW F, NEW s, <<s, lo>> \in I,
           \A i \in lo .. (hi - 1) : \A t : <<t, i>> \in I => <<F[<<t, i>>], i + 1>> \in I
    PROVE  \E g : IsRun(g, lo, hi, s, F) /\ \A i \in lo .. hi : <<g[i], i>> \in I
  <1> DEFINE Run(g, k) == /\ g = [i \in lo .. k |-> IF i = lo THEN s ELSE F[<<g[i - 1], i - 1>>]]
                          /\ \A i \in lo .. k : <<g[i], i>> \in I
             T == {k \in Nat : lo + k <= hi => \E g : Run(g, lo + k)}
  <1>1. 0 \in T
    <2> DEFINE g == [i \in lo .. lo |-> s]
    <2>1. lo + 0 = lo /\ lo .. lo = {lo}
      OBVIOUS
    <2>2. g = [i \in lo .. lo |-> IF i = lo THEN s ELSE F[<<g[i - 1], i - 1>>]]
      BY <2>1
    <2>3. Run(g, lo)
      BY <2>1, <2>2
    <2>. QED
      BY <2>1, <2>3
  <1>2. ASSUME NEW k \in Nat, k \in T PROVE k + 1 \in T
    <2> SUFFICES ASSUME lo + (k + 1) <= hi PROVE \E g : Run(g, lo + (k + 1))
      OBVIOUS
    <2> DEFINE n == lo + k
    <2>1. n \in Nat /\ n + 1 = lo + (k + 1) /\ n \in lo .. (hi - 1) /\ lo + k <= hi
      OBVIOUS
    <2>2. PICK h : Run(h, n)
      BY <1>2, <2>1
    <2>. HIDE DEF n
    <2> DEFINE g == [i \in lo .. (n + 1) |-> IF i = n + 1 THEN F[<<h[n], n>>] ELSE h[i]]
    <2>3. \A i \in lo .. (n + 1) : i = n + 1 \/ i \in lo .. n
      BY <2>1
    <2>4. \A i \in lo .. n : i # n + 1 /\ i \in lo .. (n + 1) /\ (i # lo => i - 1 \in lo .. n)
      BY <2>1
    <2>5. n + 1 \in lo .. (n + 1) /\ n + 1 # lo /\ (n + 1) - 1 = n /\ n \in lo .. n
      BY <2>1
    <2>6. g[n + 1] = F[<<h[n], n>>] /\ \A i \in lo .. n : g[i] = h[i]
      BY <2>4, <2>5
    <2>. HIDE DEF g
    <2>7. ASSUME NEW i \in lo .. (n + 1) PROVE g[i] = IF i = lo THEN s ELSE F[<<g[i - 1], i - 1>>]
      <3>1. CASE i = n + 1
        BY <2>5, <2>6, <3>1
      <3>2. CASE i \in lo .. n
        <4>1. h[i] = IF i = lo THEN s ELSE F[<<h[i - 1], i - 1>>]
          BY <2>2, <3>2
        <4>2. i # lo => g[i - 1] = h[i - 1]
          BY <2>4, <2>6, <3>2
        <4>. QED
          BY <2>6, <3>2, <4>1, <4>2
      <3>. QED
        BY <2>3, <3>1, <3>2
    <2>8. g = [i \in lo .. (n + 1) |-> IF i = lo THEN s ELSE F[<<g[i - 1], i - 1>>]]
      BY <2>7 DEF g
    <2>9. \A i \in lo .. n : <<g[i], i>> \in I
      BY <2>2, <2>6
    <2>10. <<g[n + 1], n + 1>> \in I
      BY <2>1, <2>2, <2>5, <2>6
    <2>. QED
      BY <2>1, <2>3, <2>8, <2>9, <2>10
  <1>. HIDE DEF T
  <1>3. \A k \in Nat : k \in T
    BY <1>1, <1>2, NatInd
  <1>4. hi - lo \in Nat /\ lo + (hi - lo) = hi
    OBVIOUS
  <1>5. hi - lo \in T
    BY <1>3, <1>4
  <1>. QED
    BY <1>4, <1>5 DEF T, IsRun
-----------------------------------------------------------------------------
(* A state with one part replaced.                                          *)

SetRef(a, f, x) == [a EXCEPT !.ref[f] = x]
SetData(a, f, x) == [a EXCEPT !.data[f] = x]
SetTable(a, g, x) == [a EXCEPT !.mm.pt[g] = x]
SetEntry(a, v, e) == [a EXCEPT !.mm.pte[v] = e]
SetRet(a, x) == [a EXCEPT !.ret = x]
SetSpace(a, x) == [a EXCEPT !.mm = x]
SetAreas(a, x) == [a EXCEPT !.mm.areas = x]

LEMMA PutRef ==
    ASSUME NEW a \in State, NEW f, NEW x
    PROVE  SetRef(a, f, x) =
           [free |-> a.free, ref |-> Put(a.ref, f, x), data |-> a.data, mm |-> a.mm, page |-> a.page, ret |-> a.ret]
  BY StateProps DEF SetRef, Put

LEMMA PutData ==
    ASSUME NEW a \in State, NEW f, NEW x
    PROVE  SetData(a, f, x) =
           [free |-> a.free, ref |-> a.ref, data |-> Put(a.data, f, x), mm |-> a.mm, page |-> a.page, ret |-> a.ret]
  BY StateProps DEF SetData, Put

LEMMA PutTable ==
    ASSUME NEW a \in State, a.mm \in Space, NEW g, NEW x
    PROVE  SetTable(a, g, x) =
           [free |-> a.free, ref |-> a.ref, data |-> a.data, page |-> a.page, ret |-> a.ret,
            mm |-> WithTable(a.mm, g, x)]
  <1>1. a = [free |-> a.free, ref |-> a.ref, data |-> a.data, mm |-> a.mm, page |-> a.page, ret |-> a.ret]
    BY StateProps
  <1>2. a.mm = [areas |-> a.mm.areas, pgdir |-> a.mm.pgdir, pt |-> a.mm.pt, pte |-> a.mm.pte]
    BY SpaceProps
  <1>. QED
    BY <1>1, <1>2 DEF SetTable, WithTable, Put

LEMMA PutEntry ==
    ASSUME NEW a \in State, a.mm \in Space, NEW v, NEW e
    PROVE  SetEntry(a, v, e) =
           [free |-> a.free, ref |-> a.ref, data |-> a.data, page |-> a.page, ret |-> a.ret,
            mm |-> WithEntry(a.mm, v, e)]
  <1>1. a = [free |-> a.free, ref |-> a.ref, data |-> a.data, mm |-> a.mm, page |-> a.page, ret |-> a.ret]
    BY StateProps
  <1>2. a.mm = [areas |-> a.mm.areas, pgdir |-> a.mm.pgdir, pt |-> a.mm.pt, pte |-> a.mm.pte]
    BY SpaceProps
  <1>. QED
    BY <1>1, <1>2 DEF SetEntry, WithEntry, Put

LEMMA PutRet ==
    ASSUME NEW a \in State, NEW x
    PROVE  SetRet(a, x) =
           [free |-> a.free, ref |-> a.ref, data |-> a.data, mm |-> a.mm, page |-> a.page, ret |-> x]
  BY StateProps DEF SetRet

LEMMA PutSpace ==
    ASSUME NEW a \in State, NEW x
    PROVE  SetSpace(a, x) =
           [free |-> a.free, ref |-> a.ref, data |-> a.data, mm |-> x, page |-> a.page, ret |-> a.ret]
  BY StateProps DEF SetSpace

LEMMA PutAreas ==
    ASSUME NEW a \in State, a.mm \in Space, NEW x
    PROVE  SetAreas(a, x) =
           [free |-> a.free, ref |-> a.ref, data |-> a.data, page |-> a.page, ret |-> a.ret,
            mm |-> [areas |-> x, pgdir |-> a.mm.pgdir, pt |-> a.mm.pt, pte |-> a.mm.pte]]
  <1>1. a = [free |-> a.free, ref |-> a.ref, data |-> a.data, mm |-> a.mm, page |-> a.page, ret |-> a.ret]
    BY StateProps
  <1>2. a.mm = [areas |-> a.mm.areas, pgdir |-> a.mm.pgdir, pt |-> a.mm.pt, pte |-> a.mm.pte]
    BY SpaceProps
  <1>. QED
    BY <1>1, <1>2 DEF SetAreas
-----------------------------------------------------------------------------
(* The operations on pages and tables.                                      *)

LEMMA SoundProps ==
    ASSUME NEW s, NEW U, Sound(s, U)
    PROVE  /\ s \in State /\ s.mm \in Space /\ Exact(s.free, s.ref, PageAt(s.mm), U) /\ Maps(s.mm)
           /\ U \subseteq Frames /\ s.free \subseteq U /\ s.ref \in [Frames -> Nat]
  BY StateProps DEF Sound, Exact

NewTable(a, v, f) == SetTable(SetRef(a, f, 1), PDX(v), f)

LEMMA TableEntered ==
    ASSUME NEW m \in Space, Maps(m), NEW v \in Virt, Covered(m, v), NEW f \in Frames, NEW k,
           k = WithTable(m, PDX(v), f)
    PROVE  /\ k \in Space /\ Maps(k) /\ k.areas = m.areas /\ k.pgdir = m.pgdir /\ k.pte = m.pte /\ k.pt[PDX(v)] = f
           /\ PageAt(k) = Put(PageAt(m), <<"table", PDX(v)>>, f)
  <1> DEFINE g == PDX(v)
  <1>1. g \in Tables /\ f # 0
    BY FrameProps DEF Tables
  <1>2. k.areas = m.areas /\ k.pgdir = m.pgdir /\ k.pt = Put(m.pt, g, f) /\ k.pte = m.pte
    BY DEF WithTable
  <1>. HIDE DEF g
  <1>3. k.pt \in [Tables -> Frames \cup {0}]
    BY <1>1, <1>2, SpaceProps DEF Put
  <1>4. k \in Space
    BY <1>2, <1>3, SpaceProps, MakeSpace DEF WithTable, g
  <1>5. k.pt[g] = f /\ \A h \in Tables : h # g => k.pt[h] = m.pt[h]
    BY <1>1, <1>2, SpaceProps DEF Put
  <1>6. Sorted(k.areas) /\ AreasOf(k) = AreasOf(m)
    BY <1>2 DEF Maps, AreasOf
  <1>7. \A u \in Virt : PDX(u) \in Tables
    BY DEF Tables
  <1>8. \A u \in Virt : EntryFits(k, u)
    BY <1>1, <1>2, <1>5, <1>6, <1>7 DEF Maps, EntryFits
  <1>9. \A h \in Tables : k.pt[h] # 0 => \E u \in Virt : PDX(u) = h /\ Covered(k, u)
    BY <1>5, <1>6 DEF Maps, Covered, g
  <1>10. PageAt(k) = Put(PageAt(m), <<"table", g>>, f)
    BY <1>1, <1>2, <1>4, PageAtTable
  <1>. QED
    BY <1>2, <1>4, <1>5, <1>6, <1>8, <1>9, <1>10 DEF Maps, g

\* Space m with page f, or none, at v.
LEMMA PageEntered ==
    ASSUME NEW m \in Space, Maps(m), NEW v \in Virt, NEW e \in Entry, NEW k, m.pt[PDX(v)] # 0,
           e.page # 0 => \E a \in AreasOf(m) : Lies(v, a) /\ (e.w <=> "W" \in a.flags),
           k = WithEntry(m, v, e)
    PROVE  /\ k \in Space /\ Maps(k) /\ k.areas = m.areas /\ k.pgdir = m.pgdir /\ k.pt = m.pt /\ k.pte = Put(m.pte, v, e)
           /\ PageAt(k) = Put(PageAt(m), <<"page", v>>, e.page)
  <1>1. k.areas = m.areas /\ k.pgdir = m.pgdir /\ k.pt = m.pt /\ k.pte = Put(m.pte, v, e)
    BY DEF WithEntry
  <1>2. k.pte \in [Virt -> Entry]
    BY <1>1, SpaceProps DEF Put
  <1>3. k \in Space
    BY <1>1, <1>2, SpaceProps, MakeSpace DEF WithEntry
  <1>4. k.pte[v] = e /\ \A u \in Virt : u # v => k.pte[u] = m.pte[u]
    BY <1>1, SpaceProps DEF Put
  <1>5. Sorted(k.areas) /\ AreasOf(k) = AreasOf(m)
    BY <1>1 DEF Maps, AreasOf
  <1>6. ASSUME NEW u \in Virt PROVE EntryFits(k, u)
    <2>1. CASE u = v
      BY <1>1, <1>4, <1>5, <2>1 DEF EntryFits
    <2>2. CASE u # v
      BY <1>1, <1>4, <1>5, <2>2 DEF Maps, EntryFits
    <2>. QED
      BY <2>1, <2>2
  <1>7. \A h \in Tables : k.pt[h] # 0 => \E u \in Virt : PDX(u) = h /\ Covered(k, u)
    BY <1>1, <1>5 DEF Maps, Covered
  <1>8. PageAt(k) = Put(PageAt(m), <<"page", v>>, e.page)
    BY <1>1, <1>3, PageAtPage
  <1>. QED
    BY <1>1, <1>3, <1>5, <1>6, <1>7, <1>8 DEF Maps

\* A page is taken in hand: f is no longer among the pages U.
InHand(s, t, U) ==
    /\ Sound(t, U \ {t.page}) /\ t.page \in U /\ t.ref[t.page] = 0
    /\ t.mm = s.mm /\ t.ref = s.ref /\ t.data = s.data /\ t.ret = "ok"

LEMMA TakePage ==
    ASSUME NEW U, NEW s, Sound(s, U), s.ret = "ok"
    PROVE  LET t == alloc_pages(s, 1) IN t \in State /\ (t.ret = "swap_out" \/ InHand(s, t, U))
  <1> DEFINE t == alloc_pages(s, 1)
  <1>1. /\ t \in State
        /\ \/ t.ret = "swap_out"
           \/ /\ t.ret = "ok" /\ t.page \in s.free /\ t.free = s.free \ {t.page}
              /\ t.ref = s.ref /\ t.data = s.data /\ t.mm = s.mm
    BY SoundProps, AllocPage
  <1>. HIDE DEF t
  <1>2. CASE t.ret = "swap_out"
    BY <1>1, <1>2 DEF t
  <1>3. CASE t.ret # "swap_out"
    <2>1. /\ t \in State /\ t.ret = "ok" /\ t.page \in s.free /\ t.free = s.free \ {t.page}
          /\ t.ref = s.ref /\ t.data = s.data /\ t.mm = s.mm
      BY <1>1, <1>3
    <2>4. Exact(s.free, s.ref, PageAt(s.mm), U)
      BY SoundProps
    <2>5. Exact(s.free \ {t.page}, s.ref, PageAt(s.mm), U \ {t.page}) /\ s.ref[t.page] = 0
      BY <2>1, <2>4, TakeExact
    <2>2. Exact(t.free, t.ref, PageAt(t.mm), U \ {t.page}) /\ s.ref[t.page] = 0
      BY <2>1, <2>5
    <2>3. t.page \in U /\ t.mm \in Space /\ Maps(t.mm)
      BY <2>1, SoundProps
    <2>. QED
      BY <2>1, <2>2, <2>3 DEF InHand, Sound, t
  <1>. QED
    BY <1>2, <1>3

\* The page in hand becomes a table.
LEMMA HandTable ==
    ASSUME NEW U, NEW a, Sound(a, U), NEW f \in Frames, f \notin U, NEW v \in Virt, Covered(a.mm, v),
           a.mm.pt[PDX(v)] = 0, a.ret = "ok"
    PROVE  LET t == NewTable(a, v, f)
           IN  /\ Sound(t, U \cup {f}) /\ Step(a, t, U \cup {f}, {}) /\ t.ret = "ok"
               /\ t.mm.pte = a.mm.pte /\ t.data = a.data /\ t.mm.pt[PDX(v)] # 0
  <1> DEFINE t == NewTable(a, v, f)
             b == SetRef(a, f, 1)
             r == Put(a.ref, f, 1)
  <1>0. PICK k : k = WithTable(a.mm, PDX(v), f)
    OBVIOUS
  <1>1. a \in State /\ a.mm \in Space /\ Exact(a.free, a.ref, PageAt(a.mm), U) /\ Maps(a.mm)
        /\ U \subseteq Frames /\ a.free \subseteq Frames /\ a.ref \in [Frames -> Nat] /\ f # 0
    BY SoundProps, FrameProps
  <1>2. b = [free |-> a.free, ref |-> r, data |-> a.data, mm |-> a.mm, page |-> a.page, ret |-> "ok"]
    BY <1>1, PutRef
  <1>3. r \in [Frames -> Nat] /\ r[f] = 1 /\ \A h \in Frames : h # f => r[h] = a.ref[h]
    BY <1>1 DEF Put
  <1>4. k \in Space /\ Maps(k) /\ k.areas = a.mm.areas /\ k.pgdir = a.mm.pgdir /\ k.pte = a.mm.pte /\ k.pt[PDX(v)] = f
        /\ PageAt(k) = Put(PageAt(a.mm), <<"table", PDX(v)>>, f)
    BY <1>0, <1>1, TableEntered
  <1>5. t = SetTable(b, PDX(v), f)
    BY DEF NewTable
  <1>6. b \in State /\ b.mm = a.mm /\ b.free = a.free /\ b.ref = r /\ b.data = a.data /\ b.page = a.page /\ b.ret = "ok"
    <2>. HIDE DEF b, r
    <2>1. a.free \in SUBSET Frames /\ a.data \in [Frames -> VALUES] /\ a.page \in Nat /\ "ok" \in Outcome
      BY <1>1, StateProps DEF Outcome
    <2>. QED
      BY <1>1, <1>2, <1>3, <2>1, MakeState
  <1>7. t = [free |-> a.free, ref |-> r, data |-> a.data, mm |-> k, page |-> a.page, ret |-> "ok"]
    <2>. HIDE DEF b, r, t
    <2>. QED
      BY <1>0, <1>1, <1>5, <1>6, PutTable
  <1>8. t.free = a.free /\ t.ref = r /\ t.data = a.data /\ t.mm = k /\ t.ret = "ok"
    BY <1>7
  <1>9. t \in State
    <2>. HIDE DEF r, t
    <2>1. a.free \in SUBSET Frames /\ a.data \in [Frames -> VALUES] /\ a.page \in Nat /\ "ok" \in Outcome
      BY <1>1, StateProps DEF Outcome
    <2>. QED
      BY <1>3, <1>4, <1>7, <2>1, MakeState
  <1>10. Exact(a.free, r, PageAt(k), U \cup {f})
    <2>1. <<"table", PDX(v)>> \in Place /\ PageAt(a.mm)[<<"table", PDX(v)>>] = 0 /\ Refs(<<"table", PDX(v)>>) = 1
      BY <1>1, PlaceProps, PageAtProps DEF Refs, Tables
    <2>2. Exact(a.free, Put(a.ref, f, Refs(<<"table", PDX(v)>>)), Put(PageAt(a.mm), <<"table", PDX(v)>>, f), U \cup {f})
      BY <1>1, <2>1, EnterExact
    <2>. QED
      BY <1>4, <2>1, <2>2
  <1>. HIDE DEF t, r
  <1>11. Sound(t, U \cup {f})
    BY <1>4, <1>8, <1>9, <1>10 DEF Sound
  <1>12. Step(a, t, U \cup {f}, {})
    BY <1>3, <1>4, <1>8 DEF Step, Keeps, Apart
  <1>. QED
    BY <1>1, <1>4, <1>8, <1>11, <1>12 DEF t

\* What get_pte returns.
Tabled(s, t, U, v) ==
    /\ t \in State
    /\ \/ t.ret = "swap_out"
       \/ /\ t.ret = "ok" /\ Sound(t, U) /\ Step(s, t, U, {})
          /\ t.mm.pte = s.mm.pte /\ t.data = s.data /\ t.mm.pt[PDX(v)] # 0

LEMMA GetPte ==
    ASSUME NEW U, NEW s, Sound(s, U), s.ret = "ok", NEW v \in Virt, Covered(s.mm, v)
    PROVE  Tabled(s, get_pte(s, v), U, v)
  <1> DEFINE t == get_pte(s, v)
             a == alloc_pages(s, 1)
  <1>1. CASE s.mm.pt[PDX(v)] # 0
    <2>1. t = s
      BY <1>1 DEF get_pte
    <2>. QED
      BY <1>1, <2>1, StepSame, SoundProps DEF Tabled
  <1>2. CASE s.mm.pt[PDX(v)] = 0 /\ a.ret # "ok"
    <2>1. t = a
      BY <1>2 DEF get_pte, Then
    <2>2. a \in State /\ a.ret = "swap_out"
      BY <1>2, TakePage DEF InHand
    <2>. QED
      BY <2>1, <2>2 DEF Tabled
  <1>3. CASE s.mm.pt[PDX(v)] = 0 /\ a.ret = "ok"
    <2>1. InHand(s, a, U)
      BY <1>3, TakePage
    <2>2. t = NewTable(a, v, a.page)
      BY <1>3 DEF get_pte, Then, NewTable, SetTable, SetRef
    <2>. HIDE DEF a, t
    <2>3. a.page \in Frames /\ (U \ {a.page}) \cup {a.page} = U /\ a.page \notin U \ {a.page}
      BY <2>1, SoundProps DEF InHand
    <2>6. /\ Sound(a, U \ {a.page}) /\ Covered(a.mm, v) /\ a.mm.pt[PDX(v)] = 0 /\ a.ret = "ok"
      BY <1>3, <2>1 DEF InHand
    <2>7. /\ Sound(t, (U \ {a.page}) \cup {a.page}) /\ Step(a, t, (U \ {a.page}) \cup {a.page}, {}) /\ t.ret = "ok"
          /\ t.mm.pte = a.mm.pte /\ t.data = a.data /\ t.mm.pt[PDX(v)] # 0
      BY <2>2, <2>3, <2>6, HandTable
    <2>4. /\ Sound(t, U) /\ Step(a, t, U, {}) /\ t.ret = "ok"
          /\ t.mm.pte = a.mm.pte /\ t.data = a.data /\ t.mm.pt[PDX(v)] # 0
      BY <2>3, <2>7
    <2>5. Step(s, t, U, {})
      BY <2>1, <2>4 DEF InHand, Step, Keeps, Apart
    <2>. QED
      BY <2>1, <2>4, <2>5, SoundProps DEF Tabled, InHand, t
  <1>. QED
    BY <1>1, <1>2, <1>3

\* What is mapped is held where the table says.
LEMMA EntryHeld ==
    ASSUME NEW U, NEW s, Sound(s, U), NEW v \in Virt, s.mm.pte[v].page # 0
    PROVE  LET f == s.mm.pte[v].page
           IN  /\ f \in Frames /\ f \in U \ s.free /\ s.ref[f] = 1 /\ s.mm.pt[PDX(v)] # 0
               /\ PageAt(s.mm)[<<"page", v>>] = f
               /\ \A u \in Virt : u # v => s.mm.pte[u].page # f
  <1>1. s.mm \in Space /\ Exact(s.free, s.ref, PageAt(s.mm), U) /\ Maps(s.mm)
    BY SoundProps
  <1>2. PageAt(s.mm)[<<"page", v>>] = s.mm.pte[v].page /\ s.mm.pte[v].page \in Frames
    BY <1>1, PageAtProps
  <1>3. <<"page", v>> \in Place /\ Refs(<<"page", v>>) = 1
    BY PlaceProps DEF Refs
  <1>4. /\ s.mm.pte[v].page \in U \ s.free /\ s.ref[s.mm.pte[v].page] = 1
        /\ \A e \in Place : PageAt(s.mm)[e] = s.mm.pte[v].page => e = <<"page", v>>
    BY <1>1, <1>2, <1>3 DEF Exact
  <1>5. \A u \in Virt : <<"page", u>> \in Place /\ PageAt(s.mm)[<<"page", u>>] = s.mm.pte[u].page
                        /\ (<<"page", u>> = <<"page", v>> => u = v)
    BY <1>1, PlaceProps, PageAtProps
  <1>6. s.mm.pt[PDX(v)] # 0
    BY <1>1 DEF Maps, EntryFits
  <1>. QED
    BY <1>2, <1>4, <1>5, <1>6

\* Page v is no longer mapped.
Cleared(s, t, U, v) ==
    /\ Sound(t, U) /\ Step(s, t, U, {v}) /\ t.ret = s.ret /\ t.mm.pte[v].page = 0 /\ t.mm.pt = s.mm.pt

LEMMA RemovePte ==
    ASSUME NEW U, NEW s, Sound(s, U), NEW v \in Virt
    PROVE  Cleared(s, page_remove_pte(s, v), U, v)
  <1> DEFINE t == page_remove_pte(s, v)
             f == s.mm.pte[v].page
             b == SetEntry(s, v, Unmapped)
  <1>1. CASE f = 0
    <2>1. t = s
      BY <1>1 DEF page_remove_pte
    <2>. QED
      BY <1>1, <2>1, StepSame DEF Cleared
  <1>2. CASE f # 0
    <2>1. /\ f \in Frames /\ f \in U \ s.free /\ s.ref[f] = 1 /\ s.mm.pt[PDX(v)] # 0
          /\ PageAt(s.mm)[<<"page", v>>] = f
          /\ \A u \in Virt : u # v => s.mm.pte[u].page # f
      BY <1>2, EntryHeld
    <2>2. t = free_frames(b, f, 1)
      BY <1>2, <2>1 DEF page_remove_pte, SetEntry
    <2>3. PICK k : k = WithEntry(s.mm, v, Unmapped)
      OBVIOUS
    <2>4. s \in State /\ s.mm \in Space /\ Exact(s.free, s.ref, PageAt(s.mm), U) /\ Maps(s.mm)
          /\ U \subseteq Frames /\ s.free \subseteq U /\ s.ref \in [Frames -> Nat]
      BY SoundProps
    <2>5. Unmapped \in Entry /\ Unmapped.page = 0
      BY DEF Unmapped, Entry
    <2>6. /\ k \in Space /\ Maps(k) /\ k.areas = s.mm.areas /\ k.pgdir = s.mm.pgdir /\ k.pt = s.mm.pt /\ k.pte = Put(s.mm.pte, v, Unmapped)
          /\ PageAt(k) = Put(PageAt(s.mm), <<"page", v>>, 0)
      BY <2>1, <2>3, <2>4, <2>5, PageEntered
    <2>. HIDE DEF f, t
    <2>7. b = [free |-> s.free, ref |-> s.ref, data |-> s.data, mm |-> k, page |-> s.page, ret |-> s.ret]
      BY <2>3, <2>4, PutEntry
    <2>. HIDE DEF b
    <2>8. b \in State /\ b.free = s.free /\ b.ref = s.ref /\ b.data = s.data /\ b.mm = k /\ b.ret = s.ret
      BY <2>4, <2>6, <2>7, StateProps, MakeState
    <2>9. /\ t \in State /\ t.free = s.free \cup {f} /\ t.mm = k /\ t.ret = s.ret /\ t.ref[f] = 0
          /\ \A g \in Frames : g # f => t.ref[g] = s.ref[g] /\ t.data[g] = s.data[g]
      BY <2>1, <2>2, <2>8, FreePage
    <2>10. t.ref \in [Frames -> Nat]
      BY <2>9, StateProps
    <2>11. Exact(t.free, t.ref, PageAt(k), U)
      <3>1. f # 0 /\ <<"page", v>> \in Place
        BY <1>2, PlaceProps DEF f
      <3>2. Exact(s.free \cup {f}, t.ref, Put(PageAt(s.mm), <<"page", v>>, 0), U)
        BY <2>1, <2>4, <2>9, <2>10, <3>1, DropExact
      <3>. QED
        BY <2>6, <2>9, <3>2
    <2>12. Sound(t, U)
      BY <2>6, <2>9, <2>11 DEF Sound
    <2>13. k.pte[v] = Unmapped /\ \A u \in Virt : u # v => k.pte[u] = s.mm.pte[u]
      BY <2>4, <2>6, SpaceProps DEF Put
    <2>14. Step(s, t, U, {v})
      <3>1. Apart(s, t, U)
        BY <2>1, <2>9 DEF Apart
      <3>2. Keeps(s, t, {v})
        BY <2>1, <2>4, <2>9, <2>13, PageAtProps DEF Keeps
      <3>. QED
        BY <2>6, <2>9, <3>1, <3>2 DEF Step
    <2>. QED
      BY <2>5, <2>6, <2>9, <2>12, <2>13, <2>14 DEF Cleared, t
  <1>. QED
    BY <1>1, <1>2

\* Page f is entered at v.
Entered(s, t, U, v, f, w) ==
    /\ Sound(t, U) /\ Step(s, t, U, {v}) /\ t.ret = "ok"
    /\ t.mm.pte = Put(s.mm.pte, v, [page |-> f, w |-> w]) /\ t.data = s.data

\* Rights of an area that holds v.
Allowed(m, v, w) == \E a \in AreasOf(m) : Lies(v, a) /\ (w <=> "W" \in a.flags)

NewEntry(t, v, f, w) == SetEntry(SetRef(t, f, 1), v, [page |-> f, w |-> w])

LEMMA HandEntry ==
    ASSUME NEW U, NEW a, Sound(a, U), NEW f \in Frames, f \notin U, a.ref[f] = 0, a.ret = "ok",
           NEW v \in Virt, NEW w \in BOOLEAN, a.mm.pt[PDX(v)] # 0, a.mm.pte[v].page = 0, Allowed(a.mm, v, w)
    PROVE  Entered(a, NewEntry(a, v, f, w), U \cup {f}, v, f, w)
  <1> DEFINE t == NewEntry(a, v, f, w)
             b == SetRef(a, f, 1)
             r == Put(a.ref, f, 1)
             e == [page |-> f, w |-> w]
  <1>0. PICK k : k = WithEntry(a.mm, v, e)
    OBVIOUS
  <1>1. a \in State /\ a.mm \in Space /\ Exact(a.free, a.ref, PageAt(a.mm), U) /\ Maps(a.mm)
        /\ U \subseteq Frames /\ a.free \subseteq Frames /\ a.ref \in [Frames -> Nat]
    BY SoundProps
  <1>2. b = [free |-> a.free, ref |-> r, data |-> a.data, mm |-> a.mm, page |-> a.page, ret |-> "ok"]
    BY <1>1, PutRef
  <1>3. r \in [Frames -> Nat] /\ r[f] = 1 /\ \A h \in Frames : h # f => r[h] = a.ref[h]
    BY <1>1 DEF Put
  <1>4. e \in Entry /\ e.page = f /\ e.w = w
    BY DEF Entry
  <1>. HIDE DEF e
  <1>5. k \in Space /\ Maps(k) /\ k.areas = a.mm.areas /\ k.pgdir = a.mm.pgdir /\ k.pt = a.mm.pt /\ k.pte = Put(a.mm.pte, v, e)
        /\ PageAt(k) = Put(PageAt(a.mm), <<"page", v>>, f)
    BY <1>0, <1>1, <1>4, PageEntered DEF Allowed
  <1>6. t = SetEntry(b, v, e)
    BY DEF NewEntry, e
  <1>. HIDE DEF b, r, t
  <1>7. a.free \in SUBSET Frames /\ a.data \in [Frames -> VALUES] /\ a.page \in Nat /\ "ok" \in Outcome
    BY <1>1, StateProps DEF Outcome
  <1>8. b \in State /\ b.mm = a.mm /\ b.free = a.free /\ b.ref = r /\ b.data = a.data /\ b.page = a.page /\ b.ret = "ok"
    BY <1>1, <1>2, <1>3, <1>7, MakeState
  <1>9. t = [free |-> a.free, ref |-> r, data |-> a.data, mm |-> k, page |-> a.page, ret |-> "ok"]
    BY <1>0, <1>1, <1>6, <1>8, PutEntry
  <1>10. t.free = a.free /\ t.ref = r /\ t.data = a.data /\ t.mm = k /\ t.ret = "ok"
    BY <1>9
  <1>11. t \in State
    BY <1>3, <1>5, <1>7, <1>9, MakeState
  <1>12. Exact(a.free, r, PageAt(k), U \cup {f})
    <2>1. <<"page", v>> \in Place /\ PageAt(a.mm)[<<"page", v>>] = 0 /\ Refs(<<"page", v>>) = 1
      BY <1>1, PlaceProps, PageAtProps DEF Refs
    <2>2. Exact(a.free, Put(a.ref, f, Refs(<<"page", v>>)), Put(PageAt(a.mm), <<"page", v>>, f), U \cup {f})
      BY <1>1, <2>1, EnterExact
    <2>. QED
      BY <1>5, <2>1, <2>2 DEF r
  <1>13. Sound(t, U \cup {f})
    BY <1>5, <1>10, <1>11, <1>12 DEF Sound
  <1>14. Step(a, t, U \cup {f}, {v})
    <2>1. \A u \in Virt : u # v => k.pte[u] = a.mm.pte[u]
      BY <1>1, <1>5, SpaceProps DEF Put
    <2>. QED
      BY <1>3, <1>5, <1>10, <2>1 DEF Step, Keeps, Apart
  <1>. QED
    BY <1>5, <1>10, <1>13, <1>14 DEF Entered, t, e

\* page_insert of a page in hand, where nothing is mapped.
LEMMA Insert ==
    ASSUME NEW U, NEW s, Sound(s, U), NEW f \in Frames, f \notin U, s.ref[f] = 0, s.ret = "ok",
           NEW v \in Virt, NEW w \in BOOLEAN, s.mm.pte[v].page = 0, Allowed(s.mm, v, w)
    PROVE  LET t == page_insert(s, f, v, w)
           IN  t \in State /\ (t.ret = "swap_out" \/ Entered(s, t, U \cup {f}, v, f, w))
  <1> DEFINE t == page_insert(s, f, v, w)
             a == get_pte(s, v)
  <1>1. Covered(s.mm, v)
    BY DEF Allowed, Covered
  <1>2. Tabled(s, a, U, v)
    BY <1>1, GetPte
  <1>3. CASE a.ret # "ok"
    <2>1. t = a
      BY <1>3 DEF page_insert, Then
    <2>. QED
      BY <1>2, <1>3, <2>1 DEF Tabled
  <1>4. CASE a.ret = "ok"
    <2>1. /\ Sound(a, U) /\ Step(s, a, U, {}) /\ a.mm.pte = s.mm.pte /\ a.data = s.data /\ a.mm.pt[PDX(v)] # 0
      BY <1>2, <1>4 DEF Tabled
    <2>2. a.mm.pte[v].page = 0 /\ f # 0
      BY <2>1, FrameProps
    <2>3. page_remove_pte(a, v) = a
      BY <2>2 DEF page_remove_pte
    <2>5. a.ref[f] = 0 /\ a.mm.areas = s.mm.areas
      BY <2>1 DEF Step, Apart
    <2>4. t = NewEntry(a, v, f, w)
      <3>1. t = [[a EXCEPT !.ref[f] = @ + 1] EXCEPT !.mm.pte[v] = [page |-> f, w |-> w]]
        BY <1>4, <2>2, <2>3 DEF page_insert, Then
      <3>2. [a EXCEPT !.ref[f] = @ + 1] = SetRef(a, f, 1)
        BY <2>5 DEF SetRef
      <3>. QED
        BY <3>1, <3>2 DEF NewEntry, SetEntry
    <2>. HIDE DEF a, t
    <2>6. Allowed(a.mm, v, w)
      BY <2>5 DEF Allowed, AreasOf
    <2>7. Entered(a, t, U \cup {f}, v, f, w)
      BY <1>4, <2>1, <2>2, <2>4, <2>5, <2>6, HandEntry
    <2>8. Step(a, t, U \cup {f}, {v})
      BY <2>7 DEF Entered
    <2>9. Step(s, t, U \cup {f}, {v})
      BY <2>1, <2>8, StepThen
    <2>. QED
      BY <2>1, <2>7, <2>9, SoundProps DEF Entered, t
  <1>. QED
    BY <1>3, <1>4

\* What pgdir_alloc_page returns: v is mapped to a page that was free.
Filled(s, t, U, v, w) == \E f \in Frames : Entered(s, t, U, v, f, w)

LEMMA AllocInsert ==
    ASSUME NEW U, NEW s, Sound(s, U), s.ret = "ok",
           NEW v \in Virt, NEW w \in BOOLEAN, s.mm.pte[v].page = 0, Allowed(s.mm, v, w)
    PROVE  LET t == pgdir_alloc_page(s, v, w)
           IN  t \in State /\ (t.ret = "swap_out" \/ Filled(s, t, U, v, w))
  <1> DEFINE t == pgdir_alloc_page(s, v, w)
             a == alloc_pages(s, 1)
  <1>1. a \in State /\ (a.ret = "swap_out" \/ InHand(s, a, U))
    BY TakePage
  <1>2. CASE a.ret = "swap_out"
    <2>1. t = a
      BY <1>2 DEF pgdir_alloc_page, Then
    <2>. QED
      BY <1>1, <1>2, <2>1
  <1>3. CASE a.ret # "swap_out"
    <2>1. InHand(s, a, U)
      BY <1>1, <1>3
    <2>2. t = page_insert(a, a.page, v, w)
      BY <2>1 DEF pgdir_alloc_page, Then, InHand
    <2>. HIDE DEF a, t
    <2>3. /\ Sound(a, U \ {a.page}) /\ a.page \in Frames /\ a.page \notin U \ {a.page} /\ a.ref[a.page] = 0
          /\ a.mm = s.mm /\ a.ref = s.ref /\ a.data = s.data /\ a.ret = "ok"
          /\ (U \ {a.page}) \cup {a.page} = U
      BY <2>1, SoundProps DEF InHand
    <2>4. t \in State /\ (t.ret = "swap_out" \/ Entered(a, t, (U \ {a.page}) \cup {a.page}, v, a.page, w))
      BY <2>2, <2>3, Insert
    <2>5. Entered(a, t, U, v, a.page, w) => Entered(s, t, U, v, a.page, w)
      BY <2>3 DEF Entered, Step, Keeps, Apart
    <2>. QED
      BY <2>3, <2>4, <2>5 DEF Filled, t
  <1>. QED
    BY <1>2, <1>3
-----------------------------------------------------------------------------
(* Address spaces that are taken down.                                      *)

LEMMA PDXProps ==
    /\ \A v \in Virt : PDX(v) \in Nat /\ PDX(v) \in Tables
    /\ \A g \in Tables : g \in Nat
    /\ \A u, v \in Virt : u <= v => PDX(u) <= PDX(v)
    /\ \A u, v \in Virt : \A g \in PDX(u) .. PDX(v) : g \in Tables
  <1>1. \A v \in Virt : PDX(v) \in Nat /\ PDX(v) \in Tables
    <2>1. \A v \in Virt : v \div PTENTRIES \in Nat
      BY FrameProps
    <2>. QED
      BY <2>1 DEF PDX, Tables
  <1>2. \A g \in Tables : g \in Nat
    BY <1>1 DEF Tables
  <1>3. \A u, v \in Virt : u <= v => PDX(u) <= PDX(v)
    <2>1. \A u, v \in Nat, P \in Nat \ {0} : u <= v => u \div P <= v \div P
      OBVIOUS
    <2>. QED
      BY <2>1, FrameProps DEF PDX
  <1>4. ASSUME NEW u \in Virt, NEW v \in Virt, NEW g \in PDX(u) .. PDX(v) PROVE g \in Tables
    <2>1. PDX(u) \in Nat /\ PDX(v) \in Nat /\ g \in Nat /\ g <= PDX(v)
      BY <1>1
    <2>2. PTENTRIES \in Nat \ {0} /\ v \in Nat /\ v < NVIRT /\ NVIRT \in Nat
      BY FrameProps
    <2>3. PTENTRIES * (v \div PTENTRIES) <= v
      BY <2>2
    <2>4. PTENTRIES * g \in Nat /\ PTENTRIES * g <= PTENTRIES * (v \div PTENTRIES)
      BY <2>1, <2>2 DEF PDX
    <2>5. PTENTRIES * g \in Virt
      BY <2>2, <2>3, <2>4, FrameProps
    <2>6. (PTENTRIES * g) \div PTENTRIES = g
      BY <2>1, <2>2
    <2>. QED
      BY <2>5, <2>6 DEF Tables, PDX
  <1>. QED
    BY <1>1, <1>2, <1>3, <1>4

LEMMA AreaProps ==
    /\ \A a \in Area : /\ a.start \in Virt /\ a.start \in Nat /\ a.end \in Nat /\ 1 <= a.end /\ a.end <= NVIRT
                       /\ a.end - 1 \in Virt /\ a.flags \subseteq {"R", "W", "X", "S"}
    /\ \A m \in Space : \A i \in DOMAIN m.areas : m.areas[i] \in Area /\ m.areas[i] \in AreasOf(m)
    /\ \A m \in Space : Len(m.areas) \in Nat /\ DOMAIN m.areas = 1 .. Len(m.areas)
    /\ \A m \in Space : Maps(m) => \A a \in AreasOf(m) : a \in Area /\ a.start < a.end
  <1>1. ASSUME NEW a \in Area
        PROVE  /\ a.start \in Virt /\ a.start \in Nat /\ a.end \in Nat /\ 1 <= a.end /\ a.end <= NVIRT
               /\ a.end - 1 \in Virt /\ a.flags \subseteq {"R", "W", "X", "S"}
    <2>1. a.start \in Virt /\ a.end \in 1 .. NVIRT /\ a.flags \subseteq {"R", "W", "X", "S"}
      BY DEF Area
    <2>. QED
      BY <2>1, FrameProps
  <1>2. ASSUME NEW m \in Space
        PROVE  /\ Len(m.areas) \in Nat /\ DOMAIN m.areas = 1 .. Len(m.areas)
               /\ \A i \in DOMAIN m.areas : m.areas[i] \in Area /\ m.areas[i] \in AreasOf(m)
    <2>1. m.areas \in Seq(Area)
      BY SpaceProps
    <2>. QED
      BY <2>1 DEF AreasOf
  <1>3. ASSUME NEW m \in Space, Maps(m), NEW a \in AreasOf(m) PROVE a \in Area /\ a.start < a.end
    <2>1. PICK i \in DOMAIN m.areas : a = m.areas[i]
      BY DEF AreasOf
    <2>. QED
      BY <1>2, <1>3, <2>1 DEF Maps, Sorted
  <1>. QED
    BY <1>1, <1>2, <1>3

\* The pages S are no longer mapped, and nothing else changes.
Emptied(s, t, U, S) ==
    /\ Sound(t, U) /\ Step(s, t, U, S) /\ t.ret = "ok" /\ t.mm.pt = s.mm.pt
    /\ \A v \in S : t.mm.pte[v].page = 0

LEMMA EmptiedThen ==
    ASSUME NEW s, NEW t, NEW u, NEW U, NEW S \in SUBSET Virt, NEW T \in SUBSET Virt,
           Emptied(s, t, U, S), Emptied(t, u, U, T)
    PROVE  Emptied(s, u, U, S \cup T)
  <1>1. Step(s, u, U, S \cup T)
    <2>1. \A v \in Virt \ (S \cup T) : v \in Virt \ S /\ v \in Virt \ T
      OBVIOUS
    <2>2. Keeps(s, u, S \cup T)
      BY <2>1 DEF Emptied, Step, Keeps
    <2>. QED
      BY <2>2 DEF Emptied, Step, Apart
  <1>2. ASSUME NEW v \in S \cup T PROVE u.mm.pte[v].page = 0
    <2>1. CASE v \in T
      BY <2>1 DEF Emptied
    <2>2. CASE v \notin T
      BY <1>2, <2>2 DEF Emptied, Step, Keeps
    <2>. QED
      BY <2>1, <2>2
  <1>. QED
    BY <1>1, <1>2 DEF Emptied

LEMMA EmptiedSame ==
    ASSUME NEW s, NEW U, Sound(s, U), s.ret = "ok"
    PROVE  Emptied(s, s, U, {})
  BY StepSame DEF Emptied

LEMMA UnmapRange ==
    ASSUME NEW U, NEW s, Sound(s, U), s.ret = "ok", NEW a \in Area, a.start <= a.end
    PROVE  Emptied(s, unmap_range(s, a), U, {v \in Virt : Lies(v, a)})
  <1> DEFINE lo == a.start
             hi == a.end
             S(i) == {v \in Virt : lo <= v /\ v < i}
             I == {x \in State \X (lo .. hi) : Emptied(s, x[1], U, S(x[2]))}
             Op(t, i) == IF t.ret = "ok" THEN page_remove_pte(t, i) ELSE t
             F == [x \in I |-> Op(x[1], x[2])]
             c == CHOOSE g : g = [i \in lo .. hi |-> IF i = lo THEN s ELSE Op(g[i - 1], i - 1)]
  <1>1. lo \in Nat /\ hi \in Nat /\ lo <= hi /\ \A i \in lo .. (hi - 1) : i \in Virt /\ i \in Nat /\ i \in lo .. hi /\ i + 1 \in lo .. hi
    BY AreaProps, FrameProps
  <1>2. unmap_range(s, a) = c[hi]
    BY DEF unmap_range, Each, Then
  <1>. HIDE DEF lo, hi
  <1>3. <<s, lo>> \in I
    <2>1. S(lo) = {}
      BY <1>1, FrameProps
    <2>2. Emptied(s, s, U, S(lo))
      BY <2>1, EmptiedSame
    <2>3. lo \in lo .. hi /\ s \in State
      BY <1>1, SoundProps
    <2>. HIDE DEF S
    <2>. QED
      BY <2>2, <2>3
  <1>4. ASSUME NEW i \in lo .. (hi - 1), NEW t, <<t, i>> \in I PROVE <<Op(t, i), i + 1>> \in I
    <2>1. Emptied(s, t, U, S(i))
      BY <1>4
    <2>2. i \in Virt /\ Sound(t, U) /\ t.ret = "ok"
      BY <1>1, <2>1 DEF Emptied
    <2>3. Cleared(t, Op(t, i), U, i)
      BY <2>2, RemovePte
    <2>4. Emptied(t, Op(t, i), U, {i})
      BY <2>2, <2>3 DEF Emptied, Cleared
    <2>5. S(i) \cup {i} = S(i + 1)
      BY <1>1, <2>2, FrameProps
    <2>6. S(i) \in SUBSET Virt /\ {i} \in SUBSET Virt
      BY <2>2
    <2>7. Emptied(s, Op(t, i), U, S(i) \cup {i})
      <3>. HIDE DEF S, Op
      <3>. QED
        BY <2>1, <2>4, <2>6, EmptiedThen
    <2>8. Op(t, i) \in State /\ i + 1 \in lo .. hi
      BY <1>1, <2>4, SoundProps DEF Emptied
    <2>. HIDE DEF S, Op
    <2>. QED
      BY <2>5, <2>7, <2>8
  <1>. HIDE DEF I
  <1>5. \A i \in lo .. (hi - 1) : \A t : <<t, i>> \in I => F[<<t, i>>] = Op(t, i)
    <2>. HIDE DEF Op
    <2>. QED
      OBVIOUS
  <1>. HIDE DEF F, Op
  <1>6. \E g : g = [i \in lo .. hi |-> IF i = lo THEN s ELSE Op(g[i - 1], i - 1)]
    <2>1. \A i \in lo .. (hi - 1) : \A t : <<t, i>> \in I => <<F[<<t, i>>], i + 1>> \in I
      BY <1>4, <1>5
    <2>2. PICK g : IsRun(g, lo, hi, s, F) /\ \A i \in lo .. hi : <<g[i], i>> \in I
      BY <1>1, <1>3, <2>1, LoopRuns
    <2>3. \A i \in lo .. hi : i # lo => i - 1 \in lo .. (hi - 1) /\ i - 1 \in lo .. hi
      BY <1>1
    <2>4. \A i \in lo .. hi : i # lo => F[<<g[i - 1], i - 1>>] = Op(g[i - 1], i - 1)
      BY <1>5, <2>2, <2>3
    <2>. QED
      BY <2>2, <2>4 DEF IsRun
  <1>7. c = [i \in lo .. hi |-> IF i = lo THEN s ELSE Op(c[i - 1], i - 1)]
    BY <1>6
  <1>. HIDE DEF c
  <1>8. c[lo] = s /\ \A i \in lo .. (hi - 1) : c[i + 1] = Op(c[i], i)
    <2>1. lo \in lo .. hi /\ \A i \in lo .. (hi - 1) : i + 1 \in lo .. hi /\ i + 1 # lo /\ (i + 1) - 1 = i
      BY <1>1
    <2>. QED
      BY <1>7, <2>1
  <1>9. <<c[hi], hi>> \in I
    <2>1. <<c[lo], lo>> \in I
      BY <1>3, <1>8
    <2>2. \A i \in lo .. (hi - 1) : <<c[i], i>> \in I => <<c[i + 1], i + 1>> \in I
      BY <1>4, <1>8
    <2>. QED
      BY <1>1, <2>1, <2>2, LoopInv
  <1>10. Emptied(s, c[hi], U, S(hi))
    BY <1>9 DEF I
  <1>. QED
    BY <1>2, <1>10 DEF lo, hi, Lies

\* Table g is freed, and entries that map nothing with it.
NoEntries(m, g) == [v \in Virt |-> IF PDX(v) = g THEN Unmapped ELSE m.pte[v]]

DropTable(t, g) ==
    IF t.mm.pt[g] = 0 THEN t
    ELSE [free_frames(t, t.mm.pt[g], 1) EXCEPT
             !.mm.pt[g] = 0,
             !.mm.pte = [v \in Virt |-> IF PDX(v) = g THEN Unmapped ELSE @[v]]]

\* Nothing is mapped and the tables G are gone.
Tableless(s, t, U, G) ==
    /\ Sound(t, U) /\ t.ret = "ok" /\ t.mm.areas = s.mm.areas /\ t.mm.pgdir = s.mm.pgdir /\ Apart(s, t, U)
    /\ \A v \in Virt : t.mm.pte[v].page = 0
    /\ \A g \in Tables : t.mm.pt[g] = IF g \in G THEN 0 ELSE s.mm.pt[g]

LEMMA Drop ==
    ASSUME NEW U, NEW s, Sound(s, U), s.ret = "ok", \A v \in Virt : s.mm.pte[v].page = 0, NEW g \in Tables
    PROVE  Tableless(s, DropTable(s, g), U, {g})
  <1> DEFINE t == DropTable(s, g)
             f == s.mm.pt[g]
             b == free_frames(s, f, 1)
             p == NoEntries(s.mm, g)
  <1>1. s \in State /\ s.mm \in Space /\ Exact(s.free, s.ref, PageAt(s.mm), U) /\ Maps(s.mm)
        /\ U \subseteq Frames /\ s.free \subseteq U /\ s.ref \in [Frames -> Nat]
    BY SoundProps
  <1>2. CASE f = 0
    <2>1. t = s
      BY <1>2 DEF DropTable
    <2>. QED
      BY <1>2, <2>1, ApartSame DEF Tableless
  <1>3. CASE f # 0
    <2>1. PageAt(s.mm)[<<"table", g>>] = f /\ f \in Frames /\ <<"table", g>> \in Place
      BY <1>1, <1>3, PageAtProps, PlaceProps
    <2>2. f \in U
      BY <1>1, <1>3, <2>1 DEF Exact
    <2>. HIDE DEF f
    <2>3. /\ b \in State /\ b.free = s.free \cup {f} /\ b.mm = s.mm /\ b.page = s.page /\ b.ret = "ok" /\ b.ref[f] = 0
          /\ \A h \in Frames : h # f => b.ref[h] = s.ref[h] /\ b.data[h] = s.data[h]
      BY <1>1, <2>1, FreePage
    <2>4. t = [b EXCEPT !.mm.pt[g] = 0, !.mm.pte = [v \in Virt |-> IF PDX(v) = g THEN Unmapped ELSE @[v]]]
      BY <1>3 DEF DropTable, f
    <2>. HIDE DEF b
    <2>5. PICK k : k = [areas |-> s.mm.areas, pgdir |-> s.mm.pgdir, pt |-> Put(s.mm.pt, g, 0), pte |-> p]
      OBVIOUS
    <2>6. t = [free |-> b.free, ref |-> b.ref, data |-> b.data, mm |-> k, page |-> b.page, ret |-> "ok"]
      <3>1. b = [free |-> b.free, ref |-> b.ref, data |-> b.data, mm |-> s.mm, page |-> b.page, ret |-> "ok"]
        BY <2>3, StateProps
      <3>2. s.mm = [areas |-> s.mm.areas, pgdir |-> s.mm.pgdir, pt |-> s.mm.pt, pte |-> s.mm.pte]
        BY <1>1, SpaceProps
      <3> DEFINE d == SetTable(b, g, 0)
      <3>3. d = [free |-> b.free, ref |-> b.ref, data |-> b.data, page |-> b.page, ret |-> "ok", mm |-> WithTable(s.mm, g, 0)]
        BY <1>1, <2>3, PutTable
      <3>4. t = [b EXCEPT !.mm.pt[g] = 0, !.mm.pte = [v \in Virt |-> IF PDX(v) = g THEN Unmapped ELSE b.mm.pte[v]]]
        BY <2>4
      <3>5. t = [b EXCEPT !.mm.pt[g] = 0, !.mm.pte = NoEntries(b.mm, g)]
        BY <3>4 DEF NoEntries
      <3>6. t = [d EXCEPT !.mm.pte = p]
        BY <2>3, <3>5 DEF SetTable
      <3>. HIDE DEF d, t
      <3>. HIDE DEF p
      <3>. QED
        BY <2>5, <3>3, <3>6 DEF WithTable
    <2>7. k.areas = s.mm.areas /\ k.pgdir = s.mm.pgdir /\ k.pt = Put(s.mm.pt, g, 0) /\ k.pte = p
      BY <2>5
    <2>8. p \in [Virt -> Entry] /\ \A v \in Virt : p[v].page = 0
      <3>1. Unmapped \in Entry /\ Unmapped.page = 0
        BY DEF Unmapped, Entry
      <3>2. \A v \in Virt : s.mm.pte[v] \in Entry
        BY <1>1, PageAtProps
      <3>3. \A v \in Virt : p[v] = IF PDX(v) = g THEN Unmapped ELSE s.mm.pte[v]
        BY DEF NoEntries
      <3>4. \A v \in Virt : p[v] \in Entry /\ p[v].page = 0
        BY <3>1, <3>2, <3>3
      <3>5. p = [v \in Virt |-> p[v]]
        BY DEF NoEntries
      <3>. HIDE DEF p
      <3>. QED
        BY <3>4, <3>5
    <2>. HIDE DEF p
    <2>9. k.pt \in [Tables -> Frames \cup {0}] /\ \A h \in Tables : k.pt[h] = IF h = g THEN 0 ELSE s.mm.pt[h]
      BY <1>1, <2>7, SpaceProps DEF Put
    <2>10. k \in Space
      BY <1>1, <2>5, <2>7, <2>8, <2>9, SpaceProps, MakeSpace
    <2>11. PageAt(k) = Put(PageAt(s.mm), <<"table", g>>, 0)
      BY <1>1, <2>7, <2>8, <2>10, PageAtTable
    <2>12. t.free = b.free /\ t.ref = b.ref /\ t.data = b.data /\ t.mm = k /\ t.ret = "ok"
      BY <2>6
    <2>13. t \in State
      <3>. HIDE DEF t
      <3>1. "ok" \in Outcome
        BY DEF Outcome
      <3>. QED
        BY <2>3, <2>6, <2>10, <3>1, StateProps, MakeState
    <2>14. Exact(b.free, b.ref, PageAt(k), U)
      <3>1. b.ref \in [Frames -> Nat]
        BY <2>3, StateProps
      <3>2. Exact(s.free \cup {f}, b.ref, Put(PageAt(s.mm), <<"table", g>>, 0), U)
        BY <1>1, <1>3, <2>1, <2>3, <3>1, DropExact DEF f
      <3>. QED
        BY <2>3, <2>11, <3>2
    <2>15. Maps(k)
      <3>1. Sorted(k.areas) /\ AreasOf(k) = AreasOf(s.mm)
        BY <1>1, <2>7 DEF Maps, AreasOf
      <3>2. \A v \in Virt : EntryFits(k, v)
        BY <2>7, <2>8 DEF EntryFits
      <3>3. \A h \in Tables : k.pt[h] # 0 => \E u \in Virt : PDX(u) = h /\ Covered(k, u)
        BY <1>1, <2>9, <3>1 DEF Maps, Covered
      <3>. QED
        BY <3>1, <3>2, <3>3 DEF Maps
    <2>. HIDE DEF t
    <2>16. Sound(t, U)
      BY <2>10, <2>12, <2>13, <2>14, <2>15 DEF Sound
    <2>17. Apart(s, t, U)
      BY <2>2, <2>3, <2>12 DEF Apart
    <2>. QED
      BY <2>7, <2>8, <2>9, <2>12, <2>16, <2>17 DEF Tableless, t
  <1>. QED
    BY <1>2, <1>3

LEMMA TablelessThen ==
    ASSUME NEW s, NEW t, NEW u, NEW U, NEW G, NEW H, Tableless(s, t, U, G), Tableless(t, u, U, H)
    PROVE  Tableless(s, u, U, G \cup H)
  BY DEF Tableless, Apart

LEMMA TablelessSame ==
    ASSUME NEW s, NEW U, Sound(s, U), s.ret = "ok", \A v \in Virt : s.mm.pte[v].page = 0
    PROVE  Tableless(s, s, U, {})
  BY ApartSame DEF Tableless

LEMMA ExitRange ==
    ASSUME NEW U, NEW s, Sound(s, U), s.ret = "ok", \A v \in Virt : s.mm.pte[v].page = 0,
           NEW a \in Area, a.start < a.end
    PROVE  Tableless(s, exit_range(s, a), U, PDX(a.start) .. PDX(a.end - 1))
  <1> DEFINE lo == PDX(a.start)
             hi == PDX(a.end - 1) + 1
             S(i) == lo .. (i - 1)
             I == {x \in State \X (lo .. hi) : Tableless(s, x[1], U, S(x[2]))}
             Op(t, i) == IF t.ret = "ok" THEN DropTable(t, i) ELSE t
             F == [x \in I |-> Op(x[1], x[2])]
             c == CHOOSE g : g = [i \in lo .. hi |-> IF i = lo THEN s ELSE Op(g[i - 1], i - 1)]
  <1>1. lo \in Nat /\ hi \in Nat /\ lo <= hi /\ \A i \in lo .. (hi - 1) : i \in Tables /\ i \in Nat /\ i \in lo .. hi /\ i + 1 \in lo .. hi
    <2>1. a.start \in Virt /\ a.end - 1 \in Virt /\ a.start <= a.end - 1
      BY AreaProps
    <2>2. PDX(a.start) \in Nat /\ PDX(a.end - 1) \in Nat /\ PDX(a.start) <= PDX(a.end - 1)
          /\ \A g \in PDX(a.start) .. PDX(a.end - 1) : g \in Tables
      BY <2>1, PDXProps
    <2>3. hi - 1 = PDX(a.end - 1)
      BY <2>2
    <2>. QED
      BY <2>2, <2>3
  <1>2. exit_range(s, a) = c[hi]
    BY DEF exit_range, Each, Then, DropTable
  <1>10. S(hi) = PDX(a.start) .. PDX(a.end - 1)
    <2>1. PDX(a.end - 1) \in Nat
      BY AreaProps, PDXProps
    <2>. QED
      BY <2>1
  <1>. HIDE DEF lo, hi
  <1>3. <<s, lo>> \in I
    <2>1. S(lo) = {}
      BY <1>1
    <2>2. Tableless(s, s, U, S(lo))
      BY <2>1, TablelessSame
    <2>3. lo \in lo .. hi /\ s \in State
      BY <1>1, SoundProps
    <2>. HIDE DEF S
    <2>. QED
      BY <2>2, <2>3
  <1>4. ASSUME NEW i \in lo .. (hi - 1), NEW t, <<t, i>> \in I PROVE <<Op(t, i), i + 1>> \in I
    <2>1. Tableless(s, t, U, S(i))
      BY <1>4
    <2>2. i \in Tables /\ Sound(t, U) /\ t.ret = "ok" /\ \A v \in Virt : t.mm.pte[v].page = 0
      BY <1>1, <2>1 DEF Tableless
    <2>3. Tableless(t, Op(t, i), U, {i})
      BY <2>2, Drop
    <2>4. S(i) \cup {i} = S(i + 1)
      BY <1>1
    <2>5. Tableless(s, Op(t, i), U, S(i) \cup {i})
      <3>. HIDE DEF S, Op
      <3>. QED
        BY <2>1, <2>3, TablelessThen
    <2>6. Op(t, i) \in State /\ i + 1 \in lo .. hi
      BY <1>1, <2>3, SoundProps DEF Tableless
    <2>. HIDE DEF S, Op
    <2>. QED
      BY <2>4, <2>5, <2>6
  <1>. HIDE DEF I
  <1>5. \A i \in lo .. (hi - 1) : \A t : <<t, i>> \in I => F[<<t, i>>] = Op(t, i)
    <2>. HIDE DEF Op
    <2>. QED
      OBVIOUS
  <1>. HIDE DEF F, Op
  <1>6. \E g : g = [i \in lo .. hi |-> IF i = lo THEN s ELSE Op(g[i - 1], i - 1)]
    <2>1. \A i \in lo .. (hi - 1) : \A t : <<t, i>> \in I => <<F[<<t, i>>], i + 1>> \in I
      BY <1>4, <1>5
    <2>2. PICK g : IsRun(g, lo, hi, s, F) /\ \A i \in lo .. hi : <<g[i], i>> \in I
      BY <1>1, <1>3, <2>1, LoopRuns
    <2>3. \A i \in lo .. hi : i # lo => i - 1 \in lo .. (hi - 1) /\ i - 1 \in lo .. hi
      BY <1>1
    <2>4. \A i \in lo .. hi : i # lo => F[<<g[i - 1], i - 1>>] = Op(g[i - 1], i - 1)
      BY <1>5, <2>2, <2>3
    <2>. QED
      BY <2>2, <2>4 DEF IsRun
  <1>7. c = [i \in lo .. hi |-> IF i = lo THEN s ELSE Op(c[i - 1], i - 1)]
    BY <1>6
  <1>. HIDE DEF c
  <1>8. c[lo] = s /\ \A i \in lo .. (hi - 1) : c[i + 1] = Op(c[i], i)
    <2>1. lo \in lo .. hi /\ \A i \in lo .. (hi - 1) : i + 1 \in lo .. hi /\ i + 1 # lo /\ (i + 1) - 1 = i
      BY <1>1
    <2>. QED
      BY <1>7, <2>1
  <1>9. <<c[hi], hi>> \in I
    <2>1. <<c[lo], lo>> \in I
      BY <1>3, <1>8
    <2>2. \A i \in lo .. (hi - 1) : <<c[i], i>> \in I => <<c[i + 1], i + 1>> \in I
      BY <1>4, <1>8
    <2>. QED
      BY <1>1, <2>1, <2>2, LoopInv
  <1>11. Tableless(s, c[hi], U, S(hi))
    BY <1>9 DEF I
  <1>. QED
    BY <1>2, <1>10, <1>11

\* The two loops of exit_mmap.
UnmapAreas(s) ==
    LET unmap(t, i) == unmap_range(t, s.mm.areas[i]) IN Each(s, 1, Len(s.mm.areas) + 1, unmap)

LeaveAreas(s, areas) ==
    LET leave(t, i) == exit_range(t, areas[i]) IN Each(s, 1, Len(areas) + 1, leave)

LEMMA UnmapAll ==
    ASSUME NEW U, NEW s, Sound(s, U), s.ret = "ok"
    PROVE  Tableless(s, UnmapAreas(s), U, {})
  <1> DEFINE areas == s.mm.areas
             lo == 1
             hi == Len(areas) + 1
             S(i) == {v \in Virt : \E j \in 1 .. (i - 1) : Lies(v, areas[j])}
             I == {x \in State \X (lo .. hi) : Emptied(s, x[1], U, S(x[2]))}
             Op(t, i) == IF t.ret = "ok" THEN unmap_range(t, areas[i]) ELSE t
             F == [x \in I |-> Op(x[1], x[2])]
             c == CHOOSE g : g = [i \in lo .. hi |-> IF i = lo THEN s ELSE Op(g[i - 1], i - 1)]
  <1>0. s \in State /\ s.mm \in Space /\ Maps(s.mm)
    BY SoundProps
  <1>1. lo \in Nat /\ hi \in Nat /\ lo <= hi /\ \A i \in lo .. (hi - 1) : i \in DOMAIN areas /\ i \in Nat /\ i \in lo .. hi /\ i + 1 \in lo .. hi
    BY <1>0, AreaProps
  <1>2. UnmapAreas(s) = c[hi]
    BY DEF UnmapAreas, Each, Then
  <1>10. hi = Len(areas) + 1 /\ lo = 1
    OBVIOUS
  <1>. HIDE DEF lo, hi
  <1>3. <<s, lo>> \in I
    <2>1. S(lo) = {}
      BY <1>10
    <2>2. Emptied(s, s, U, S(lo))
      BY <2>1, EmptiedSame
    <2>3. lo \in lo .. hi /\ s \in State
      BY <1>1, SoundProps
    <2>. HIDE DEF S
    <2>. QED
      BY <2>2, <2>3
  <1>4. ASSUME NEW i \in lo .. (hi - 1), NEW t, <<t, i>> \in I PROVE <<Op(t, i), i + 1>> \in I
    <2> DEFINE L == {v \in Virt : Lies(v, areas[i])}
    <2>1. Emptied(s, t, U, S(i))
      BY <1>4
    <2>2. Sound(t, U) /\ t.ret = "ok"
      BY <2>1 DEF Emptied
    <2>3. areas[i] \in Area /\ areas[i].start <= areas[i].end
      <3>1. areas[i] \in Area /\ areas[i].start < areas[i].end
        BY <1>0, <1>1, AreaProps
      <3>. QED
        BY <3>1, AreaProps
    <2>4. Emptied(t, Op(t, i), U, L)
      BY <2>2, <2>3, UnmapRange
    <2>5. S(i) \cup L = S(i + 1)
      <3>1. \A j : j \in 1 .. ((i + 1) - 1) <=> j \in 1 .. (i - 1) \/ j = i
        BY <1>1, <1>10
      <3>. QED
        BY <3>1
    <2>6. S(i) \in SUBSET Virt /\ L \in SUBSET Virt
      OBVIOUS
    <2>7. Emptied(s, Op(t, i), U, S(i) \cup L)
      <3>. HIDE DEF S, Op, L
      <3>. QED
        BY <2>1, <2>4, <2>6, EmptiedThen
    <2>8. Op(t, i) \in State /\ i + 1 \in lo .. hi
      BY <1>1, <2>4, SoundProps DEF Emptied
    <2>. HIDE DEF S, Op
    <2>. QED
      BY <2>5, <2>7, <2>8
  <1>. HIDE DEF I
  <1>5. \A i \in lo .. (hi - 1) : \A t : <<t, i>> \in I => F[<<t, i>>] = Op(t, i)
    <2>. HIDE DEF Op
    <2>. QED
      OBVIOUS
  <1>. HIDE DEF F, Op
  <1>6. \E g : g = [i \in lo .. hi |-> IF i = lo THEN s ELSE Op(g[i - 1], i - 1)]
    <2>1. \A i \in lo .. (hi - 1) : \A t : <<t, i>> \in I => <<F[<<t, i>>], i + 1>> \in I
      BY <1>4, <1>5
    <2>2. PICK g : IsRun(g, lo, hi, s, F) /\ \A i \in lo .. hi : <<g[i], i>> \in I
      BY <1>1, <1>3, <2>1, LoopRuns
    <2>3. \A i \in lo .. hi : i # lo => i - 1 \in lo .. (hi - 1) /\ i - 1 \in lo .. hi
      BY <1>1
    <2>4. \A i \in lo .. hi : i # lo => F[<<g[i - 1], i - 1>>] = Op(g[i - 1], i - 1)
      BY <1>5, <2>2, <2>3
    <2>. QED
      BY <2>2, <2>4 DEF IsRun
  <1>7. c = [i \in lo .. hi |-> IF i = lo THEN s ELSE Op(c[i - 1], i - 1)]
    BY <1>6
  <1>. HIDE DEF c
  <1>8. c[lo] = s /\ \A i \in lo .. (hi - 1) : c[i + 1] = Op(c[i], i)
    <2>1. lo \in lo .. hi /\ \A i \in lo .. (hi - 1) : i + 1 \in lo .. hi /\ i + 1 # lo /\ (i + 1) - 1 = i
      BY <1>1
    <2>. QED
      BY <1>7, <2>1
  <1>9. <<c[hi], hi>> \in I
    <2>1. <<c[lo], lo>> \in I
      BY <1>3, <1>8
    <2>2. \A i \in lo .. (hi - 1) : <<c[i], i>> \in I => <<c[i + 1], i + 1>> \in I
      BY <1>4, <1>8
    <2>. QED
      BY <1>1, <2>1, <2>2, LoopInv
  <1>11. Emptied(s, c[hi], U, S(hi))
    BY <1>9 DEF I
  <1>12. \A v \in Virt : c[hi].mm.pte[v].page = 0
    <2>1. \A v \in Virt : v \notin S(hi) => s.mm.pte[v].page = 0
      <3>1. DOMAIN areas = 1 .. (hi - 1)
        BY <1>0, <1>10, AreaProps
      <3>2. \A v \in Virt : Covered(s.mm, v) => v \in S(hi)
        BY <3>1 DEF Covered, AreasOf
      <3>3. \A v \in Virt : s.mm.pte[v].page # 0 => Covered(s.mm, v)
        BY <1>0 DEF Maps, EntryFits, Covered
      <3>. QED
        BY <3>2, <3>3
    <2>. HIDE DEF S
    <2>. QED
      BY <1>11, <2>1 DEF Emptied, Step, Keeps
  <1>. HIDE DEF S
  <1>. QED
    BY <1>2, <1>11, <1>12 DEF Emptied, Step, Tableless

LEMMA LeaveAll ==
    ASSUME NEW U, NEW s, Sound(s, U), s.ret = "ok", \A v \in Virt : s.mm.pte[v].page = 0
    PROVE  LET t == LeaveAreas(s, s.mm.areas) IN Tableless(s, t, U, Tables)
  <1> DEFINE areas == s.mm.areas
             lo == 1
             hi == Len(areas) + 1
             Reach(a) == PDX(a.start) .. PDX(a.end - 1)
             S(i) == UNION {Reach(areas[j]) : j \in 1 .. (i - 1)}
             I == {x \in State \X (lo .. hi) : Tableless(s, x[1], U, S(x[2]))}
             Op(t, i) == IF t.ret = "ok" THEN exit_range(t, areas[i]) ELSE t
             F == [x \in I |-> Op(x[1], x[2])]
             c == CHOOSE g : g = [i \in lo .. hi |-> IF i = lo THEN s ELSE Op(g[i - 1], i - 1)]
  <1>0. s \in State /\ s.mm \in Space /\ Maps(s.mm)
    BY SoundProps
  <1>1. lo \in Nat /\ hi \in Nat /\ lo <= hi /\ \A i \in lo .. (hi - 1) : i \in DOMAIN areas /\ i \in Nat /\ i \in lo .. hi /\ i + 1 \in lo .. hi
    BY <1>0, AreaProps
  <1>2. LeaveAreas(s, areas) = c[hi]
    BY DEF LeaveAreas, Each, Then
  <1>10. hi = Len(areas) + 1 /\ lo = 1
    OBVIOUS
  <1>. HIDE DEF lo, hi
  <1>3. <<s, lo>> \in I
    <2>1. S(lo) = {}
      BY <1>10
    <2>2. Tableless(s, s, U, S(lo))
      BY <2>1, TablelessSame
    <2>3. lo \in lo .. hi /\ s \in State
      BY <1>1, SoundProps
    <2>. HIDE DEF S
    <2>. QED
      BY <2>2, <2>3
  <1>4. ASSUME NEW i \in lo .. (hi - 1), NEW t, <<t, i>> \in I PROVE <<Op(t, i), i + 1>> \in I
    <2> DEFINE L == Reach(areas[i])
    <2>1. Tableless(s, t, U, S(i))
      BY <1>4
    <2>2. Sound(t, U) /\ t.ret = "ok" /\ \A v \in Virt : t.mm.pte[v].page = 0
      BY <2>1 DEF Tableless
    <2>3. areas[i] \in Area /\ areas[i].start < areas[i].end
      BY <1>0, <1>1, AreaProps
    <2>4. Tableless(t, Op(t, i), U, L)
      BY <2>2, <2>3, ExitRange
    <2>5. S(i) \cup L = S(i + 1)
      <3>1. \A j : j \in 1 .. ((i + 1) - 1) <=> j \in 1 .. (i - 1) \/ j = i
        BY <1>1, <1>10
      <3>. HIDE DEF Reach
      <3>. QED
        BY <3>1
    <2>7. Tableless(s, Op(t, i), U, S(i) \cup L)
      <3>. HIDE DEF S, Op, L
      <3>. QED
        BY <2>1, <2>4, TablelessThen
    <2>8. Op(t, i) \in State /\ i + 1 \in lo .. hi
      BY <1>1, <2>4, SoundProps DEF Tableless
    <2>. HIDE DEF S, Op
    <2>. QED
      BY <2>5, <2>7, <2>8
  <1>. HIDE DEF I
  <1>5. \A i \in lo .. (hi - 1) : \A t : <<t, i>> \in I => F[<<t, i>>] = Op(t, i)
    <2>. HIDE DEF Op
    <2>. QED
      OBVIOUS
  <1>. HIDE DEF F, Op
  <1>6. \E g : g = [i \in lo .. hi |-> IF i = lo THEN s ELSE Op(g[i - 1], i - 1)]
    <2>1. \A i \in lo .. (hi - 1) : \A t : <<t, i>> \in I => <<F[<<t, i>>], i + 1>> \in I
      BY <1>4, <1>5
    <2>2. PICK g : IsRun(g, lo, hi, s, F) /\ \A i \in lo .. hi : <<g[i], i>> \in I
      BY <1>1, <1>3, <2>1, LoopRuns
    <2>3. \A i \in lo .. hi : i # lo => i - 1 \in lo .. (hi - 1) /\ i - 1 \in lo .. hi
      BY <1>1
    <2>4. \A i \in lo .. hi : i # lo => F[<<g[i - 1], i - 1>>] = Op(g[i - 1], i - 1)
      BY <1>5, <2>2, <2>3
    <2>. QED
      BY <2>2, <2>4 DEF IsRun
  <1>7. c = [i \in lo .. hi |-> IF i = lo THEN s ELSE Op(c[i - 1], i - 1)]
    BY <1>6
  <1>. HIDE DEF c
  <1>8. c[lo] = s /\ \A i \in lo .. (hi - 1) : c[i + 1] = Op(c[i], i)
    <2>1. lo \in lo .. hi /\ \A i \in lo .. (hi - 1) : i + 1 \in lo .. hi /\ i + 1 # lo /\ (i + 1) - 1 = i
      BY <1>1
    <2>. QED
      BY <1>7, <2>1
  <1>9. <<c[hi], hi>> \in I
    <2>1. <<c[lo], lo>> \in I
      BY <1>3, <1>8
    <2>2. \A i \in lo .. (hi - 1) : <<c[i], i>> \in I => <<c[i + 1], i + 1>> \in I
      BY <1>4, <1>8
    <2>. QED
      BY <1>1, <2>1, <2>2, LoopInv
  <1>11. Tableless(s, c[hi], U, S(hi))
    BY <1>9 DEF I
  <1>12. \A g \in Tables : g \notin S(hi) => s.mm.pt[g] = 0
    <2>1. SUFFICES ASSUME NEW g \in Tables, s.mm.pt[g] # 0 PROVE g \in S(hi)
      OBVIOUS
    <2>2. PICK v \in Virt : PDX(v) = g /\ Covered(s.mm, v)
      BY <1>0, <2>1 DEF Maps
    <2>3. PICK j \in DOMAIN areas : Lies(v, areas[j])
      BY <2>2 DEF Covered, AreasOf
    <2>4. j \in 1 .. (hi - 1) /\ areas[j] \in Area
      BY <1>0, <1>10, <2>3, AreaProps
    <2>5. areas[j].start \in Virt /\ areas[j].end - 1 \in Virt /\ areas[j].start <= v /\ v <= areas[j].end - 1
      BY <2>3, <2>4, AreaProps, FrameProps DEF Lies
    <2>6. g \in Reach(areas[j])
      BY <2>2, <2>5, PDXProps
    <2>. HIDE DEF Reach
    <2>. QED
      BY <2>4, <2>6
  <1>. HIDE DEF S
  <1>. QED
    BY <1>2, <1>11, <1>12 DEF Tableless

\* No address space: the pages U are free.
Bare(s, U) == s \in State /\ s.mm = NOMM /\ s.free = U /\ U \subseteq Frames /\ \A f \in U : s.ref[f] = 0

\* What Destroy leaves.
LEMMA Destroyed ==
    ASSUME NEW U, NEW s, Sound(s, U), s.ret = "ok"
    PROVE  LET t == Destroy(s) IN Bare(t, U) /\ t.ret = "ok" /\ Apart(s, t, U)
  <1> DEFINE t == Destroy(s)
             e == UnmapAreas(s)
             h == LeaveAreas(e, s.mm.areas)
             f == s.mm.pgdir
             b == free_frames(h, f, 1)
  <1>1. Tableless(s, e, U, {})
    BY UnmapAll
  <1>2. Sound(e, U) /\ e.ret = "ok" /\ (\A v \in Virt : e.mm.pte[v].page = 0) /\ e.mm.areas = s.mm.areas
    BY <1>1 DEF Tableless
  <1>3. Tableless(e, h, U, Tables)
    <2>. HIDE DEF e
    <2>. QED
      BY <1>2, LeaveAll
  <1>4. exit_mmap(s) = h
    BY DEF exit_mmap, UnmapAreas, LeaveAreas
  <1>5. t = SetSpace(b, NOMM)
    BY <1>4 DEF Destroy, SetSpace
  <1>. HIDE DEF e, h, t
  <1>6. Tableless(s, h, U, {} \cup Tables)
    BY <1>1, <1>3, TablelessThen
  <1>7. /\ Sound(h, U) /\ h.ret = "ok" /\ h.mm.pgdir = f /\ Apart(s, h, U)
        /\ \A v \in Virt : h.mm.pte[v].page = 0
        /\ \A g \in Tables : h.mm.pt[g] = 0
    BY <1>6 DEF Tableless
  <1>8. h \in State /\ h.mm \in Space /\ Exact(h.free, h.ref, PageAt(h.mm), U) /\ U \subseteq Frames
    BY <1>7, SoundProps
  <1>9. f \in Frames /\ PageAt(h.mm)[<<"dir", 0>>] = f /\ f # 0 /\ \A d \in Place : d # <<"dir", 0>> => PageAt(h.mm)[d] = 0
    BY <1>7, <1>8, PageAtProps, PlaceProps, FrameProps
  <1>10. f \in U /\ U = h.free \cup {f} /\ \A g \in h.free : h.ref[g] = 0
    <2>1. f \in U
      BY <1>8, <1>9, PlaceProps DEF Exact
    <2>2. \A g \in U : g \in h.free \/ g = f
      BY <1>8, <1>9, FrameProps DEF Exact
    <2>. QED
      BY <1>8, <2>1, <2>2 DEF Exact
  <1>. HIDE DEF f
  <1>11. /\ b \in State /\ b.free = h.free \cup {f} /\ b.ret = "ok" /\ b.ref[f] = 0
         /\ \A g \in Frames : g # f => b.ref[g] = h.ref[g] /\ b.data[g] = h.data[g]
    BY <1>7, <1>8, <1>9, FreePage
  <1>. HIDE DEF b
  <1>12. t = [free |-> b.free, ref |-> b.ref, data |-> b.data, mm |-> NOMM, page |-> b.page, ret |-> b.ret]
    BY <1>5, <1>11, PutSpace
  <1>13. t \in State
    BY <1>11, <1>12, StateProps, MakeState
  <1>14. t.mm = NOMM /\ t.free = U /\ t.ret = "ok" /\ t.ref = b.ref /\ t.data = b.data
    BY <1>10, <1>11, <1>12
  <1>15. \A g \in U : t.ref[g] = 0
    BY <1>8, <1>10, <1>11, <1>14
  <1>16. Apart(s, t, U)
    BY <1>7, <1>10, <1>11, <1>14 DEF Apart
  <1>. QED
    BY <1>8, <1>13, <1>14, <1>15, <1>16 DEF Bare, t

\* What Create returns: a space with a directory and nothing else.
LEMMA Created ==
    ASSUME NEW U, NEW s, Bare(s, U), s.ret = "ok"
    PROVE  LET t == Create(s)
           IN  /\ t \in State
               /\ \/ t.ret = "swap_out"
                  \/ /\ t.ret = "ok" /\ Sound(t, U) /\ Apart(s, t, U) /\ t.mm.areas = <<>>
                     /\ \A v \in Virt : t.mm.pte[v].page = 0
  <1> DEFINE t == Create(s)
             a == alloc_pages(s, 1)
  <1>1. /\ a \in State
        /\ \/ a.ret = "swap_out"
           \/ /\ a.ret = "ok" /\ a.page \in s.free /\ a.free = s.free \ {a.page}
              /\ a.ref = s.ref /\ a.data = s.data /\ a.mm = s.mm
    BY AllocPage DEF Bare
  <1>2. CASE a.ret = "swap_out"
    <2>1. t = a
      BY <1>2 DEF Create, Then
    <2>. QED
      BY <1>1, <1>2, <2>1
  <1>3. CASE a.ret = "ok"
    <2> DEFINE f == a.page
    <2>1. /\ a \in State /\ f \in s.free /\ a.free = s.free \ {f} /\ a.ref = s.ref /\ a.data = s.data
      BY <1>1, <1>3
    <2>2. t = SetSpace(a, [NewSpace EXCEPT !.pgdir = f])
      BY <1>3 DEF Create, Then, SetSpace
    <2>. HIDE DEF a, t
    <2>3. PICK k : k = [areas |-> <<>>, pgdir |-> f, pt |-> [g \in Tables |-> 0], pte |-> [v \in Virt |-> Unmapped]]
      OBVIOUS
    <2>4. t = [free |-> a.free, ref |-> a.ref, data |-> a.data, mm |-> k, page |-> a.page, ret |-> "ok"]
      <3>1. [NewSpace EXCEPT !.pgdir = f] = k
        BY <2>3 DEF NewSpace
      <3>2. t = SetSpace(a, k)
        BY <2>2, <3>1
      <3>. QED
        BY <1>3, <2>1, <3>2, PutSpace
    <2>5. k.areas = <<>> /\ k.pgdir = f /\ k.pt = [g \in Tables |-> 0] /\ k.pte = [v \in Virt |-> Unmapped]
      BY <2>3
    <2>6. f \in Frames /\ f \in U /\ f # 0 /\ s.free = U /\ U \subseteq Frames /\ s.ref[f] = 0
      BY <2>1, FrameProps DEF Bare
    <2>. HIDE DEF f
    <2>7. k \in Space
      <3>1. <<>> \in Seq(Area)
        OBVIOUS
      <3>2. Unmapped \in Entry
        BY DEF Unmapped, Entry
      <3>3. k.pt \in [Tables -> Frames \cup {0}] /\ k.pte \in [Virt -> Entry]
        BY <2>5, <3>2
      <3>. QED
        BY <2>3, <2>5, <2>6, <3>1, <3>3, MakeSpace
    <2>8. t \in State
      <3>1. "ok" \in Outcome
        BY DEF Outcome
      <3>. QED
        BY <2>1, <2>4, <2>7, <3>1, StateProps, MakeState
    <2>9. t.free = U \ {f} /\ t.ref = s.ref /\ t.data = s.data /\ t.mm = k /\ t.ret = "ok"
      BY <2>1, <2>4, <2>6
    <2>10. \A v \in Virt : k.pte[v].page = 0
      BY <2>5 DEF Unmapped
    <2>11. Maps(k)
      <3>1. Sorted(k.areas)
        BY <2>5 DEF Sorted
      <3>. QED
        BY <2>5, <2>10, <3>1 DEF Maps, EntryFits
    <2>12. Exact(t.free, t.ref, PageAt(k), U)
      <3>1. PageAt(k) \in [Place -> Frames \cup {0}]
        BY <2>7, PageAtProps
      <3>2. \A d \in Place : PageAt(k)[d] = IF d = <<"dir", 0>> THEN f ELSE 0
        BY <2>5, <2>7, <2>10, PageAtProps, PlaceProps
      <3>3. <<"dir", 0>> \in Place /\ Refs(<<"dir", 0>>) = 0
        BY PlaceProps DEF Refs
      <3>4. \A g \in U : s.ref[g] = 0
        BY DEF Bare
      <3>. QED
        BY <2>6, <2>9, <3>1, <3>2, <3>3, <3>4 DEF Exact
    <2>13. Apart(s, t, U)
      BY <2>9 DEF Apart
    <2>. QED
      BY <2>5, <2>7, <2>8, <2>9, <2>10, <2>11, <2>12, <2>13 DEF Sound, t
  <1>. QED
    BY <1>1, <1>2, <1>3
-----------------------------------------------------------------------------
(* Areas that are added.                                                    *)

Spliced(s, n, e) == SubSeq(s, 1, n) \o <<e>> \o SubSeq(s, n + 1, Len(s))

IsSpliced(r, s, n, e) ==
    /\ Len(r) = Len(s) + 1
    /\ \A j \in 1 .. (Len(s) + 1) : r[j] = IF j <= n THEN s[j] ELSE IF j = n + 1 THEN e ELSE s[j - 1]

LEMMA SplicedProps ==
    ASSUME NEW S, NEW s \in Seq(S), NEW n \in 0 .. Len(s), NEW e \in S
    PROVE  Spliced(s, n, e) \in Seq(S) /\ IsSpliced(Spliced(s, n, e), s, n, e)
  <1> DEFINE a == SubSeq(s, 1, n)
             b == SubSeq(s, n + 1, Len(s))
             m == <<e>>
  <1>1. Len(s) \in Nat /\ n \in Nat /\ n + 1 \in Int /\ n <= Len(s)
    BY LenProperties
  <1>2. (\A k \in 1 .. n : s[k] \in S) /\ (\A k \in (n + 1) .. Len(s) : s[k] \in S)
    BY <1>1, ElementOfSeq
  <1>3. a \in Seq(S) /\ Len(a) = n /\ \A k \in 1 .. n : a[k] = s[k]
    <2>1. /\ a \in Seq(S) /\ Len(a) = (IF 1 <= n THEN n - 1 + 1 ELSE 0)
          /\ \A k \in 1 .. (n - 1 + 1) : a[k] = s[1 + k - 1]
      BY <1>1, <1>2, SubSeqProperties
    <2>. QED
      BY <1>1, <2>1
  <1>4. b \in Seq(S) /\ Len(b) = Len(s) - n /\ \A k \in 1 .. (Len(s) - n) : b[k] = s[n + k]
    <2>1. /\ b \in Seq(S) /\ Len(b) = (IF n + 1 <= Len(s) THEN Len(s) - (n + 1) + 1 ELSE 0)
          /\ \A k \in 1 .. (Len(s) - (n + 1) + 1) : b[k] = s[(n + 1) + k - 1]
      BY <1>1, <1>2, SubSeqProperties
    <2>. QED
      BY <1>1, <2>1
  <1>5. Spliced(s, n, e) = (a \o m) \o b
    BY DEF Spliced
  <1>6. m \in Seq(S) /\ Len(m) = 1 /\ m[1] = e
    OBVIOUS
  <1>. HIDE DEF a, b, m
  <1>7. /\ a \o m \in Seq(S) /\ Len(a \o m) = Len(a) + Len(m)
        /\ \A k \in 1 .. Len(a) + Len(m) : (a \o m)[k] = IF k <= Len(a) THEN a[k] ELSE m[k - Len(a)]
    BY <1>3, <1>6, ConcatProperties
  <1> DEFINE c == a \o m
  <1>8. c \in Seq(S) /\ Len(c) = n + 1 /\ \A k \in 1 .. (n + 1) : c[k] = IF k <= n THEN s[k] ELSE e
    BY <1>1, <1>3, <1>6, <1>7
  <1>. HIDE DEF c
  <1>9. /\ c \o b \in Seq(S) /\ Len(c \o b) = Len(c) + Len(b)
        /\ \A k \in 1 .. Len(c) + Len(b) : (c \o b)[k] = IF k <= Len(c) THEN c[k] ELSE b[k - Len(c)]
    BY <1>4, <1>8, ConcatProperties
  <1>10. Spliced(s, n, e) = c \o b
    BY <1>5 DEF c
  <1>11. ASSUME NEW j \in 1 .. (Len(s) + 1)
         PROVE  (c \o b)[j] = IF j <= n THEN s[j] ELSE IF j = n + 1 THEN e ELSE s[j - 1]
    <2>1. j \in 1 .. Len(c) + Len(b)
      BY <1>1, <1>4, <1>8
    <2>2. CASE j <= n + 1
      <3>1. j \in 1 .. (n + 1) /\ j <= Len(c)
        BY <1>1, <1>8, <2>2
      <3>2. (c \o b)[j] = c[j]
        BY <1>9, <2>1, <3>1
      <3>. QED
        BY <1>1, <1>8, <3>1, <3>2
    <2>3. CASE n + 1 < j
      <3>1. ~(j <= Len(c)) /\ j - Len(c) \in 1 .. (Len(s) - n) /\ n + (j - Len(c)) = j - 1
        BY <1>1, <1>8, <2>3
      <3>2. (c \o b)[j] = b[j - Len(c)]
        BY <1>9, <2>1, <3>1
      <3>3. b[j - Len(c)] = s[j - 1]
        BY <1>4, <3>1
      <3>. QED
        BY <1>1, <2>3, <3>2, <3>3
    <2>4. j <= n + 1 \/ n + 1 < j
      BY <1>1
    <2>. QED
      BY <2>2, <2>3, <2>4
  <1>12. c \o b \in Seq(S) /\ Len(c \o b) = Len(s) + 1
    BY <1>1, <1>4, <1>8, <1>9
  <1>. QED
    BY <1>10, <1>11, <1>12 DEF IsSpliced

\* A set of numbers 1, 2, ... without a gap counts as many as its greatest.
LEMMA DownClosed ==
    ASSUME NEW L \in Nat, NEW T \in SUBSET (1 .. L), \A i \in T : \A j \in 1 .. L : j < i => j \in T
    PROVE  Cardinality(T) \in 0 .. L /\ T = 1 .. Cardinality(T)
  <1> DEFINE R == (1 .. (L + 1)) \ T
  <1>1. PICK k \in R : \A h \in R : k <= h
    <2>1. R \in SUBSET Nat /\ L + 1 \in R
      OBVIOUS
    <2>. QED
      BY <2>1, NatMin
  <1>2. T = 1 .. (k - 1)
    <2>1. \A i \in T : i < k
      BY <1>1
    <2>2. \A i \in 1 .. (k - 1) : i \in T
      BY <1>1
    <2>3. k \in Nat /\ k >= 1 /\ \A i \in T : i \in Nat /\ i >= 1
      BY <1>1
    <2>4. \A i \in T : i \in 1 .. (k - 1)
      BY <2>1, <2>3
    <2>. QED
      BY <2>2, <2>4
  <1>3. k - 1 \in 0 .. L
    BY <1>1
  <1>4. Cardinality(1 .. (k - 1)) = k - 1
    BY <1>3, FS_Interval
  <1>. QED
    BY <1>2, <1>3, <1>4

\* Where an area goes, if it fits.
LEMMA SplicedSorted ==
    ASSUME NEW areas \in Seq(Area), Sorted(areas), NEW a \in Area, a.start < a.end, NEW n \in 0 .. Len(areas),
           n = 0 \/ areas[n].end <= a.start, n = Len(areas) \/ a.end <= areas[n + 1].start
    PROVE  LET r == Spliced(areas, n, a)
           IN  /\ r \in Seq(Area) /\ Sorted(r)
               /\ {r[i] : i \in DOMAIN r} = {areas[i] : i \in DOMAIN areas} \cup {a}
               /\ \A i \in DOMAIN areas : areas[i].end <= a.start \/ a.end <= areas[i].start
  <1> DEFINE r == Spliced(areas, n, a)
             L == Len(areas)
  <1>1. L \in Nat /\ DOMAIN areas = 1 .. L /\ n \in Nat /\ n <= L
    BY LenProperties
  <1>2. /\ r \in Seq(Area) /\ Len(r) = L + 1
        /\ \A j \in 1 .. (L + 1) : r[j] = IF j <= n THEN areas[j] ELSE IF j = n + 1 THEN a ELSE areas[j - 1]
    <2>1. Spliced(areas, n, a) \in Seq(Area) /\ IsSpliced(Spliced(areas, n, a), areas, n, a)
      BY SplicedProps
    <2>. QED
      BY <2>1 DEF IsSpliced
  <1>3. DOMAIN r = 1 .. (L + 1)
    BY <1>2, LenProperties
  <1>. HIDE DEF r
  <1>4. \A i \in 1 .. L : areas[i].start \in Nat /\ areas[i].end \in Nat /\ areas[i].start < areas[i].end
    <2>1. \A i \in 1 .. L : areas[i] \in Area
      BY ElementOfSeq
    <2>. QED
      BY <1>1, <2>1, AreaProps DEF Sorted
  <1>5. \A i, j \in 1 .. L : i < j => areas[i].end <= areas[j].start
    BY <1>1 DEF Sorted
  <1>6. a.start \in Nat /\ a.end \in Nat
    BY AreaProps
  <1>. HIDE DEF L
  <1>7. ASSUME NEW i \in 1 .. L, i <= n PROVE areas[i].end <= a.start
    <2>1. n \in 1 .. L /\ areas[n].end <= a.start
      BY <1>1, <1>7
    <2>2. CASE i = n
      BY <2>1, <2>2
    <2>3. CASE i < n
      <3>1. areas[i].end <= areas[n].start /\ areas[n].start < areas[n].end
        BY <1>4, <1>5, <2>1, <2>3
      <3>. QED
        BY <1>4, <1>6, <2>1, <3>1
    <2>. QED
      BY <1>1, <1>7, <2>2, <2>3
  <1>8. ASSUME NEW i \in 1 .. L, n < i PROVE a.end <= areas[i].start
    <2>1. n # L /\ n + 1 \in 1 .. L
      BY <1>1, <1>8
    <2>2. a.end <= areas[n + 1].start
      BY <2>1 DEF L
    <2>3. CASE i = n + 1
      BY <2>2, <2>3
    <2>4. CASE n + 1 < i
      <3>1. areas[n + 1].end <= areas[i].start /\ areas[n + 1].start < areas[n + 1].end
        BY <1>4, <1>5, <2>1, <2>4
      <3>. QED
        BY <1>4, <1>6, <2>1, <2>2, <3>1
    <2>. QED
      BY <1>1, <1>8, <2>3, <2>4
  <1>9. ASSUME NEW i \in 1 .. (L + 1) PROVE r[i].start < r[i].end
    <2>1. i \in 1 .. L \/ i - 1 \in 1 .. L \/ i = n + 1
      BY <1>1
    <2>2. CASE i <= n
      <3>1. i \in 1 .. L
        BY <1>1, <2>2
      <3>. QED
        BY <1>2, <1>4, <2>2, <3>1
    <2>3. CASE i = n + 1
      BY <1>1, <1>2, <2>3
    <2>4. CASE n + 1 < i
      <3>1. i - 1 \in 1 .. L /\ ~(i <= n) /\ i # n + 1
        BY <1>1, <2>4
      <3>. QED
        BY <1>2, <1>4, <3>1
    <2>. QED
      BY <1>1, <2>2, <2>3, <2>4
  <1>10. ASSUME NEW i \in 1 .. (L + 1), NEW j \in 1 .. (L + 1), i < j PROVE r[i].end <= r[j].start
    <2>1. CASE j <= n
      <3>1. i \in 1 .. L /\ j \in 1 .. L /\ i <= n
        BY <1>1, <1>10, <2>1
      <3>2. r[i] = areas[i] /\ r[j] = areas[j]
        BY <1>2, <2>1, <3>1
      <3>. QED
        BY <1>5, <1>10, <3>1, <3>2
    <2>2. CASE j = n + 1
      <3>1. i \in 1 .. L /\ i <= n /\ ~(j <= n)
        BY <1>1, <1>10, <2>2
      <3>2. r[i] = areas[i] /\ r[j] = a
        BY <1>2, <2>2, <3>1
      <3>. QED
        BY <1>7, <3>1, <3>2
    <2>3. CASE n + 1 < j
      <3>1. j - 1 \in 1 .. L /\ ~(j <= n) /\ j # n + 1 /\ n < j - 1
        BY <1>1, <2>3
      <3>2. r[j] = areas[j - 1]
        BY <1>2, <3>1
      <3>3. CASE i <= n
        <4>1. i \in 1 .. L /\ i < j - 1
          BY <1>1, <2>3, <3>3
        <4>2. r[i] = areas[i]
          BY <1>2, <3>3
        <4>. QED
          BY <1>5, <3>1, <3>2, <4>1, <4>2
      <3>4. CASE i = n + 1
        <4>1. r[i] = a
          BY <1>1, <1>2, <3>4
        <4>. QED
          BY <1>8, <3>1, <3>2, <4>1
      <3>5. CASE n + 1 < i
        <4>1. i - 1 \in 1 .. L /\ i - 1 < j - 1 /\ ~(i <= n) /\ i # n + 1
          BY <1>1, <1>10, <3>5
        <4>2. r[i] = areas[i - 1]
          BY <1>2, <4>1
        <4>. QED
          BY <1>5, <3>1, <3>2, <4>1, <4>2
      <3>. QED
        BY <1>1, <3>3, <3>4, <3>5
    <2>. QED
      BY <1>1, <2>1, <2>2, <2>3
  <1>11. \A i \in 1 .. (L + 1) : r[i] \in {areas[k] : k \in 1 .. L} \cup {a}
    <2>1. ASSUME NEW i \in 1 .. (L + 1) PROVE r[i] \in {areas[k] : k \in 1 .. L} \cup {a}
      <3>1. CASE i <= n
        <4>1. i \in 1 .. L /\ r[i] = areas[i]
          BY <1>1, <1>2, <3>1
        <4>. QED
          BY <4>1
      <3>2. CASE i = n + 1
        BY <1>1, <1>2, <3>2
      <3>3. CASE n + 1 < i
        <4>1. i - 1 \in 1 .. L /\ r[i] = areas[i - 1]
          BY <1>1, <1>2, <3>3
        <4>. QED
          BY <4>1
      <3>. QED
        BY <1>1, <3>1, <3>2, <3>3
    <2>. QED
      BY <2>1
  <1>12. \A k \in 1 .. L : \E i \in 1 .. (L + 1) : r[i] = areas[k]
    <2>1. ASSUME NEW k \in 1 .. L PROVE \E i \in 1 .. (L + 1) : r[i] = areas[k]
      <3>1. CASE k <= n
        <4>1. k \in 1 .. (L + 1) /\ r[k] = areas[k]
          BY <1>1, <1>2, <3>1
        <4>. QED
          BY <4>1
      <3>2. CASE ~(k <= n)
        <4>1. k + 1 \in 1 .. (L + 1) /\ ~(k + 1 <= n) /\ k + 1 # n + 1 /\ (k + 1) - 1 = k
          BY <1>1, <3>2
        <4>2. r[k + 1] = areas[k]
          BY <1>2, <4>1
        <4>. QED
          BY <4>1, <4>2
      <3>. QED
        BY <3>1, <3>2
    <2>. QED
      BY <2>1
  <1>13. n + 1 \in 1 .. (L + 1) /\ r[n + 1] = a
    BY <1>1, <1>2
  <1>14. {r[i] : i \in 1 .. (L + 1)} = {areas[k] : k \in 1 .. L} \cup {a}
    BY <1>11, <1>12, <1>13
  <1>15. \A i \in 1 .. L : areas[i].end <= a.start \/ a.end <= areas[i].start
    BY <1>1, <1>7, <1>8
  <1>. QED
    BY <1>1, <1>2, <1>3, <1>9, <1>10, <1>14, <1>15 DEF Sorted, r

\* A call is refused: what the address space holds is still accounted for.
Refused(s, t, U) == t.ret = "inval" /\ Sound(t, U) /\ Apart(s, t, U)

\* The area a is added.
Added(s, t, U, a) ==
    /\ Sound(t, U) /\ t.ret = "ok"
    /\ AreasOf(t.mm) = AreasOf(s.mm) \cup {a}
    /\ t.mm.pte = s.mm.pte /\ t.data = s.data /\ t.ref = s.ref
    /\ \A v \in Virt : Lies(v, a) => ~Covered(s.mm, v)

LEMMA SetRetProps ==
    ASSUME NEW s \in State, NEW x \in Outcome
    PROVE  /\ SetRet(s, x) \in State /\ SetRet(s, x).ret = x
           /\ SetRet(s, x).free = s.free /\ SetRet(s, x).ref = s.ref /\ SetRet(s, x).data = s.data /\ SetRet(s, x).mm = s.mm
           /\ \A U : Sound(s, U) => Sound(SetRet(s, x), U)
           /\ \A U : Bare(s, U) => Bare(SetRet(s, x), U)
  <1> DEFINE t == SetRet(s, x)
  <1>1. t = [free |-> s.free, ref |-> s.ref, data |-> s.data, mm |-> s.mm, page |-> s.page, ret |-> x]
    BY PutRet
  <1>. HIDE DEF t
  <1>2. t \in State
    BY <1>1, StateProps, MakeState
  <1>3. t.free = s.free /\ t.ref = s.ref /\ t.data = s.data /\ t.mm = s.mm /\ t.ret = x
    BY <1>1
  <1>. QED
    BY <1>2, <1>3 DEF Sound, Bare, t

LEMMA InsertVma ==
    ASSUME NEW U, NEW s, Sound(s, U), s.ret = "ok", NEW a \in Area, a.start < a.end
    PROVE  LET t == insert_vma_struct(s, a) IN t \in State /\ (t.ret = "overlap" \/ Added(s, t, U, a))
  <1> DEFINE t == insert_vma_struct(s, a)
             areas == s.mm.areas
             T == {i \in DOMAIN areas : areas[i].start <= a.start}
             n == Cardinality(T)
             clear == /\ n = 0 \/ areas[n].end <= a.start
                      /\ n = Len(areas) \/ a.end <= areas[n + 1].start
  <1>1. s \in State /\ s.mm \in Space /\ Exact(s.free, s.ref, PageAt(s.mm), U) /\ Maps(s.mm)
    BY SoundProps
  <1>2. CASE ~clear
    <2>1. t = SetRet(s, "overlap")
      BY <1>2 DEF insert_vma_struct, SetRet
    <2>2. "overlap" \in Outcome
      BY DEF Outcome
    <2>. QED
      BY <1>1, <2>1, <2>2, SetRetProps
  <1>3. CASE clear
    <2>1. t = SetAreas(s, Spliced(areas, n, a))
      BY <1>3 DEF insert_vma_struct, SetAreas, Spliced
    <2>2. areas \in Seq(Area) /\ Sorted(areas) /\ Len(areas) \in Nat /\ DOMAIN areas = 1 .. Len(areas)
      BY <1>1, SpaceProps, AreaProps DEF Maps
    <2>3. n \in 0 .. Len(areas)
      <3>1. ASSUME NEW i \in T, NEW j \in 1 .. Len(areas), j < i PROVE j \in T
        <4>1. i \in DOMAIN areas /\ j \in DOMAIN areas /\ areas[i] \in Area /\ areas[j] \in Area
          BY <1>1, <2>2, AreaProps
        <4>2. areas[j].end <= areas[i].start /\ areas[j].start < areas[j].end /\ areas[i].start <= a.start
          BY <2>2, <3>1, <4>1 DEF Sorted
        <4>3. areas[j].start <= a.start
          BY <4>1, <4>2, AreaProps
        <4>. QED
          BY <4>1, <4>3
      <3>2. T \in SUBSET (1 .. Len(areas))
        BY <2>2
      <3>. HIDE DEF T
      <3>. QED
        BY <2>2, <3>1, <3>2, DownClosed
    <2> DEFINE r == Spliced(areas, n, a)
    <2>4. /\ r \in Seq(Area) /\ Sorted(r)
          /\ {r[i] : i \in DOMAIN r} = {areas[i] : i \in DOMAIN areas} \cup {a}
          /\ \A i \in DOMAIN areas : areas[i].end <= a.start \/ a.end <= areas[i].start
      <3>. HIDE DEF n
      <3>. QED
        BY <1>3, <2>2, <2>3, SplicedSorted
    <2>. HIDE DEF r, t
    <2>5. PICK k : k = [areas |-> r, pgdir |-> s.mm.pgdir, pt |-> s.mm.pt, pte |-> s.mm.pte]
      OBVIOUS
    <2>6. t = [free |-> s.free, ref |-> s.ref, data |-> s.data, page |-> s.page, ret |-> s.ret, mm |-> k]
      BY <1>1, <2>1, <2>5, PutAreas DEF r
    <2>7. k.areas = r /\ k.pgdir = s.mm.pgdir /\ k.pt = s.mm.pt /\ k.pte = s.mm.pte
      BY <2>5
    <2>8. k \in Space
      BY <1>1, <2>4, <2>5, SpaceProps, MakeSpace
    <2>9. t \in State
      BY <1>1, <2>6, <2>8, StateProps, MakeState
    <2>10. t.free = s.free /\ t.ref = s.ref /\ t.data = s.data /\ t.mm = k /\ t.ret = "ok"
      BY <2>6
    <2>11. AreasOf(k) = AreasOf(s.mm) \cup {a}
      BY <2>4, <2>7 DEF AreasOf
    <2>12. PageAt(k) = PageAt(s.mm)
      BY <2>7 DEF PageAt
    <2>13. Maps(k)
      <3>1. \A v \in Virt : EntryFits(k, v)
        BY <1>1, <2>7, <2>11 DEF Maps, EntryFits
      <3>2. \A g \in Tables : k.pt[g] # 0 => \E v \in Virt : PDX(v) = g /\ Covered(k, v)
        BY <1>1, <2>7, <2>11 DEF Maps, Covered
      <3>. QED
        BY <2>4, <2>7, <3>1, <3>2 DEF Maps
    <2>14. Sound(t, U)
      BY <1>1, <2>8, <2>9, <2>10, <2>12, <2>13 DEF Sound
    <2>15. ASSUME NEW v \in Virt, Lies(v, a), Covered(s.mm, v) PROVE FALSE
      <3>1. PICK i \in DOMAIN areas : Lies(v, areas[i])
        BY <2>15 DEF Covered, AreasOf
      <3>2. areas[i].start <= v /\ v < areas[i].end /\ a.start <= v /\ v < a.end /\ v \in Nat
        BY <2>15, <3>1, FrameProps DEF Lies
      <3>3. areas[i] \in Area
        BY <1>1, AreaProps
      <3>4. areas[i].start \in Nat /\ areas[i].end \in Nat /\ a.start \in Nat /\ a.end \in Nat
        BY <3>3, AreaProps
      <3>5. areas[i].end <= a.start \/ a.end <= areas[i].start
        BY <2>4
      <3>. QED
        BY <3>2, <3>4, <3>5
    <2>. QED
      BY <2>7, <2>9, <2>10, <2>11, <2>14, <2>15 DEF Added, t
  <1>. QED
    BY <1>2, <1>3

\* What mm_map returns.
LEMMA MmMap ==
    ASSUME NEW U, NEW s, Sound(s, U), s.ret = "ok", NEW start \in Virt, NEW end \in 1 .. NVIRT, start < end,
           NEW flags \in SUBSET {"R", "W", "X", "S"}
    PROVE  LET t == mm_map(s, start, end, flags)
               a == [start |-> start, end |-> end, flags |-> flags]
           IN  /\ a \in Area /\ a.start = start /\ a.end = end /\ a.flags = flags
               /\ t \in State /\ (t.ret = "overlap" \/ Refused(s, t, U) \/ Added(s, t, U, a))
  <1> DEFINE t == mm_map(s, start, end, flags)
             a == [start |-> start, end |-> end, flags |-> flags]
  <1>1. a \in Area /\ a.start = start /\ a.end = end /\ a.flags = flags
    BY DEF Area
  <1>2. CASE find_vma(s.mm, start) # {}
    <2>1. t = SetRet(s, "inval")
      BY <1>2 DEF mm_map, SetRet
    <2>2. "inval" \in Outcome
      BY DEF Outcome
    <2>. HIDE DEF t
    <2>3. t \in State /\ Refused(s, t, U)
      BY <2>1, <2>2, SetRetProps, SoundProps DEF Refused, Apart
    <2>. QED
      BY <1>1, <2>3 DEF t
  <1>3. CASE find_vma(s.mm, start) = {}
    <2>1. t = insert_vma_struct(s, a)
      BY <1>3 DEF mm_map
    <2>. HIDE DEF a, t
    <2>2. t \in State /\ (t.ret = "overlap" \/ Added(s, t, U, a))
      BY <1>1, <2>1, InsertVma
    <2>. QED
      BY <1>1, <2>2 DEF a, t
  <1>. QED
    BY <1>2, <1>3
-----------------------------------------------------------------------------
(* Contents, and copies of them.                                            *)

\* Only the pages S of an address space may be mapped to f.
OnlyAt(a, f, S) == \A u \in Virt \ S : a.mm.pte[u].page # f

\* The value x is stored in page f of a space, or in hand.
Stored(a, t, U, V, S, f, x) ==
    /\ Sound(t, V) /\ Step(a, t, U, S) /\ t.ret = a.ret /\ t.mm = a.mm /\ t.ref = a.ref /\ t.page = a.page
    /\ t.data[f] = x /\ \A g \in Frames : g # f => t.data[g] = a.data[g]

LEMMA DataSet ==
    ASSUME NEW U, NEW V, NEW a, Sound(a, V), V \subseteq U, U \subseteq Frames, NEW f \in U, NEW x \in VALUES,
           NEW S, OnlyAt(a, f, S)
    PROVE  Stored(a, SetData(a, f, x), U, V, S, f, x)
  <1> DEFINE t == SetData(a, f, x)
             d == Put(a.data, f, x)
  <1>1. a \in State /\ a.mm \in Space /\ f \in Frames
    BY SoundProps
  <1>2. t = [free |-> a.free, ref |-> a.ref, data |-> d, mm |-> a.mm, page |-> a.page, ret |-> a.ret]
    BY <1>1, PutData
  <1>3. d \in [Frames -> VALUES] /\ d[f] = x /\ \A g \in Frames : g # f => d[g] = a.data[g]
    BY <1>1, StateProps DEF Put
  <1>. HIDE DEF t, d
  <1>4. t \in State
    BY <1>1, <1>2, <1>3, StateProps, MakeState
  <1>5. t.free = a.free /\ t.ref = a.ref /\ t.data = d /\ t.mm = a.mm /\ t.ret = a.ret /\ t.page = a.page
    BY <1>2
  <1>6. Sound(t, V)
    BY <1>4, <1>5 DEF Sound
  <1>7. Step(a, t, U, S)
    <2>1. \A u \in Virt : a.mm.pte[u].page \in Frames \cup {0}
      BY <1>1, PageAtProps
    <2>. QED
      BY <1>3, <1>5, <2>1 DEF Step, Keeps, Apart, OnlyAt
  <1>. QED
    BY <1>3, <1>5, <1>6, <1>7 DEF Stored, t

\* A page holds what that of another space holds, whose pages stay as they are.
SameAt(t, from, v) ==
    /\ t.mm.pte[v].page = 0 <=> from.pte[v].page = 0
    /\ from.pte[v].page # 0 => t.data[t.mm.pte[v].page] = t.data[from.pte[v].page]

Elsewhere(from, U) ==
    from \in Space /\ Maps(from) /\ \A v \in Virt : from.pte[v].page # 0 => from.pte[v].page \in Frames \ U

CopiedPage(s, t, U, from, v) == Sound(t, U) /\ Step(s, t, U, {v}) /\ t.ret = "ok" /\ SameAt(t, from, v)

LEMMA CopyOne ==
    ASSUME NEW U, NEW s, Sound(s, U), s.ret = "ok", NEW from, Elsewhere(from, U), NEW v \in Virt,
           from.pte[v].page # 0, s.mm.pte[v].page = 0, Allowed(s.mm, v, from.pte[v].w)
    PROVE  LET t == CopyPage(s, from, v) IN t \in State /\ (t.ret = "swap_out" \/ CopiedPage(s, t, U, from, v))
  <1> DEFINE t == CopyPage(s, from, v)
             b == get_pte(s, v)
             a == alloc_pages(b, 1)
             src == from.pte[v].page
             w == from.pte[v].w
  <1>1. Tabled(s, b, U, v)
    BY GetPte DEF Allowed, Covered
  <1>2. CASE b.ret = "swap_out"
    <2>1. t = b
      BY <1>2 DEF CopyPage, Then
    <2>. QED
      BY <1>1, <1>2, <2>1 DEF Tabled
  <1>3. CASE b.ret # "swap_out"
    <2>1. b.ret = "ok" /\ Sound(b, U) /\ Step(s, b, U, {}) /\ b.mm.pte = s.mm.pte /\ b.data = s.data
      BY <1>1, <1>3 DEF Tabled
    <2>2. a \in State /\ (a.ret = "swap_out" \/ InHand(b, a, U))
      BY <2>1, TakePage
    <2>3. CASE a.ret = "swap_out"
      <3>1. t = a
        BY <2>1, <2>3 DEF CopyPage, Then
      <3>. QED
        BY <2>2, <2>3, <3>1
    <2>4. CASE a.ret # "swap_out"
      <3> DEFINE f == a.page
                 d == SetData(a, f, a.data[src])
      <3>1. InHand(b, a, U)
        BY <2>2, <2>4
      <3>2. t = page_insert(d, f, v, w)
        BY <2>1, <3>1 DEF CopyPage, Then, InHand, SetData
      <3>. HIDE DEF a, b, t, w, src
      <3>3. /\ Sound(a, U \ {f}) /\ f \in U /\ f \in Frames /\ f \notin U \ {f} /\ a.ref[f] = 0
            /\ a.mm = b.mm /\ a.ref = b.ref /\ a.data = b.data /\ a.ret = "ok"
            /\ (U \ {f}) \cup {f} = U /\ U \ {f} \subseteq U /\ U \subseteq Frames
        BY <2>1, <3>1, SoundProps DEF InHand
      <3>4. src \in Frames \ U /\ src # f /\ w \in BOOLEAN
        BY <3>3, PageAtProps DEF Elsewhere, src, w
      <3>5. a.data[src] \in VALUES
        BY <3>3, <3>4, SoundProps, StateProps
      <3>6. OnlyAt(a, f, {})
        <4>1. \A u \in Virt : a.mm.pte[u].page # 0 => a.mm.pte[u].page \in U \ {f}
          BY <3>3, EntryHeld
        <4>. QED
          BY <3>3, <4>1, FrameProps DEF OnlyAt
      <3>7. /\ Sound(d, U \ {f}) /\ Step(a, d, U, {}) /\ d.ret = "ok" /\ d.mm = a.mm /\ d.ref = a.ref
            /\ d.data[f] = a.data[src] /\ \A g \in Frames : g # f => d.data[g] = a.data[g]
        <4>1. PICK V, x : V = U \ {f} /\ x = a.data[src]
          OBVIOUS
        <4>2. V \subseteq U /\ Sound(a, V) /\ x \in VALUES /\ d = SetData(a, f, x)
          BY <3>3, <3>5, <4>1
        <4>. HIDE DEF f, d
        <4>3. Stored(a, d, U, V, {}, f, x)
          BY <3>3, <3>6, <4>2, DataSet
        <4>. QED
          BY <3>3, <4>1, <4>3 DEF Stored
      <3>. HIDE DEF d
      <3>8. d.mm.pte[v].page = 0 /\ d.ref[f] = 0
        BY <2>1, <3>3, <3>7
      <3>9. Allowed(d.mm, v, w)
        BY <2>1, <3>3, <3>7 DEF Allowed, Step, AreasOf, w
      <3>. HIDE DEF f
      <3>10. t \in State /\ (t.ret = "swap_out" \/ Entered(d, t, (U \ {f}) \cup {f}, v, f, w))
        BY <3>2, <3>3, <3>4, <3>7, <3>8, <3>9, Insert
      <3>11. CASE t.ret = "swap_out"
        BY <3>10, <3>11 DEF t
      <3>12. CASE t.ret # "swap_out"
        <4>1. /\ Sound(t, U) /\ Step(d, t, U, {v}) /\ t.ret = "ok"
              /\ t.mm.pte = Put(d.mm.pte, v, [page |-> f, w |-> w]) /\ t.data = d.data
          BY <3>3, <3>10, <3>12 DEF Entered
        <4>2. t.mm.pte[v].page = f /\ f # 0
          <5>1. d.mm.pte \in [Virt -> Entry]
            BY <3>7, SoundProps, SpaceProps
          <5>. QED
            BY <3>3, <4>1, <5>1, FrameProps DEF Put
        <4>3. SameAt(t, from, v)
          BY <3>4, <3>7, <4>1, <4>2 DEF SameAt, src
        <4>4. Step(b, a, U, {})
          BY <3>3 DEF Step, Keeps, Apart
        <4>5. Step(s, t, U, {v})
          <5>1. Step(s, a, U, {})
            BY <2>1, <4>4, StepThen
          <5>2. Step(s, d, U, {})
            BY <3>7, <5>1, StepThen
          <5>. QED
            BY <4>1, <5>2, StepThen
        <4>. QED
          BY <3>10, <4>1, <4>3, <4>5 DEF CopiedPage, t
      <3>. QED
        BY <3>11, <3>12
    <2>. QED
      BY <2>3, <2>4
  <1>. QED
    BY <1>2, <1>3

\* Page v lies in one area at most.
LEMMA OneArea ==
    ASSUME NEW m \in Space, Maps(m), NEW a \in AreasOf(m), NEW b \in AreasOf(m), NEW v \in Virt, Lies(v, a), Lies(v, b)
    PROVE  a = b
  <1>1. PICK i \in DOMAIN m.areas : a = m.areas[i]
    BY DEF AreasOf
  <1>2. PICK j \in DOMAIN m.areas : b = m.areas[j]
    BY DEF AreasOf
  <1>3. i \in Nat /\ j \in Nat /\ v \in Nat
    BY <1>1, <1>2, AreaProps, FrameProps
  <1>4. a.start \in Nat /\ a.end \in Nat /\ b.start \in Nat /\ b.end \in Nat
    BY AreaProps
  <1>5. (i < j => a.end <= b.start) /\ (j < i => b.end <= a.start)
    BY <1>1, <1>2 DEF Maps, Sorted
  <1>6. a.start <= v /\ v < a.end /\ b.start <= v /\ v < b.end
    BY DEF Lies
  <1>7. i = j
    BY <1>3, <1>4, <1>5, <1>6
  <1>. QED
    BY <1>1, <1>2, <1>7

\* The pages of an area, up to i, are copied.
CopiedTo(s, t, U, from, S) ==
    /\ Sound(t, U) /\ Step(s, t, U, S) /\ t.ret = "ok"
    /\ \A v \in S : SameAt(t, from, v)

LEMMA CopiedThen ==
    ASSUME NEW U, NEW s, NEW t, NEW u, NEW from, Elsewhere(from, U), NEW S \in SUBSET Virt, NEW v \in Virt, v \notin S,
           CopiedTo(s, t, U, from, S), Sound(u, U), Step(t, u, U, {v}), u.ret = "ok", SameAt(u, from, v)
    PROVE  CopiedTo(s, u, U, from, S \cup {v})
  <1>1. Step(s, u, U, S \cup {v})
    <2>1. Step(s, t, U, S)
      BY DEF CopiedTo
    <2>2. Step(t, u, U, S \cup {v})
      BY DEF Step, Keeps
    <2>. QED
      BY <2>1, <2>2, StepThen
  <1>2. ASSUME NEW h \in S PROVE SameAt(u, from, h)
    <2>1. SameAt(t, from, h) /\ h \in Virt \ {v}
      BY DEF CopiedTo
    <2>2. u.mm.pte[h] = t.mm.pte[h] /\ (t.mm.pte[h].page # 0 => u.data[t.mm.pte[h].page] = t.data[t.mm.pte[h].page])
      BY <2>1 DEF Step, Keeps
    <2>3. from.pte[h].page # 0 => u.data[from.pte[h].page] = t.data[from.pte[h].page]
      BY <2>1 DEF Elsewhere, Step, Apart
    <2>. QED
      BY <2>1, <2>2, <2>3 DEF SameAt
  <1>. QED
    BY <1>1, <1>2 DEF CopiedTo

LEMMA CopyRangeStops ==
    ASSUME NEW s, s.ret # "ok", NEW from, NEW a \in Area, a.start <= a.end
    PROVE  copy_range(s, from, a) = s
  <1> DEFINE lo == a.start
             hi == a.end
             I == {<<s, i>> : i \in lo .. hi}
             Copy(t, v) == IF from.pte[v].page = 0 THEN t ELSE CopyPage(t, from, v)
             Op(t, i) == IF t.ret = "ok" THEN Copy(t, i) ELSE t
             F == [x \in I |-> Op(x[1], x[2])]
             c == CHOOSE g : g = [i \in lo .. hi |-> IF i = lo THEN s ELSE Op(g[i - 1], i - 1)]
  <1>1. lo \in Nat /\ hi \in Nat /\ lo <= hi /\ \A i \in lo .. (hi - 1) : i \in lo .. hi /\ i + 1 \in lo .. hi
    BY AreaProps, FrameProps
  <1>2. copy_range(s, from, a) = c[hi]
    BY DEF copy_range, Each, Then
  <1>. HIDE DEF lo, hi
  <1>3. <<s, lo>> \in I
    BY <1>1
  <1>4. ASSUME NEW i \in lo .. (hi - 1), NEW t, <<t, i>> \in I PROVE <<Op(t, i), i + 1>> \in I
    <2>1. t = s
      BY <1>4
    <2>2. Op(t, i) = s
      BY <2>1
    <2>. HIDE DEF Op
    <2>. QED
      BY <1>1, <2>2
  <1>. HIDE DEF I
  <1>5. \A i \in lo .. (hi - 1) : \A t : <<t, i>> \in I => F[<<t, i>>] = Op(t, i)
    <2>. HIDE DEF Op
    <2>. QED
      OBVIOUS
  <1>. HIDE DEF F, Op
  <1>6. \E g : g = [i \in lo .. hi |-> IF i = lo THEN s ELSE Op(g[i - 1], i - 1)]
    <2>1. \A i \in lo .. (hi - 1) : \A t : <<t, i>> \in I => <<F[<<t, i>>], i + 1>> \in I
      BY <1>4, <1>5
    <2>2. PICK g : IsRun(g, lo, hi, s, F) /\ \A i \in lo .. hi : <<g[i], i>> \in I
      BY <1>1, <1>3, <2>1, LoopRuns
    <2>3. \A i \in lo .. hi : i # lo => i - 1 \in lo .. (hi - 1) /\ i - 1 \in lo .. hi
      BY <1>1
    <2>4. \A i \in lo .. hi : i # lo => F[<<g[i - 1], i - 1>>] = Op(g[i - 1], i - 1)
      BY <1>5, <2>2, <2>3
    <2>. QED
      BY <2>2, <2>4 DEF IsRun
  <1>7. c = [i \in lo .. hi |-> IF i = lo THEN s ELSE Op(c[i - 1], i - 1)]
    BY <1>6
  <1>. HIDE DEF c
  <1>8. c[lo] = s /\ \A i \in lo .. (hi - 1) : c[i + 1] = Op(c[i], i)
    <2>1. lo \in lo .. hi /\ \A i \in lo .. (hi - 1) : i + 1 \in lo .. hi /\ i + 1 # lo /\ (i + 1) - 1 = i
      BY <1>1
    <2>. QED
      BY <1>7, <2>1
  <1>9. <<c[hi], hi>> \in I
    <2>1. <<c[lo], lo>> \in I
      BY <1>3, <1>8
    <2>2. \A i \in lo .. (hi - 1) : <<c[i], i>> \in I => <<c[i + 1], i + 1>> \in I
      BY <1>4, <1>8
    <2>. QED
      BY <1>1, <2>1, <2>2, LoopInv
  <1>11. c[hi] = s
    BY <1>9 DEF I
  <1>. QED
    BY <1>2, <1>11

LEMMA CopyRange ==
    ASSUME NEW U, NEW s, Sound(s, U), s.ret = "ok", NEW from, Elsewhere(from, U),
           NEW a \in AreasOf(from), a \in AreasOf(s.mm), \A v \in Virt : Lies(v, a) => s.mm.pte[v].page = 0
    PROVE  LET t == copy_range(s, from, a)
           IN  t \in State /\ (t.ret = "swap_out" \/ CopiedTo(s, t, U, from, {v \in Virt : Lies(v, a)}))
  <1> DEFINE lo == a.start
             hi == a.end
             S(i) == {v \in Virt : lo <= v /\ v < i}
             I == {x \in State \X (lo .. hi) : x[1].ret = "swap_out" \/ CopiedTo(s, x[1], U, from, S(x[2]))}
             Copy(t, v) == IF from.pte[v].page = 0 THEN t ELSE CopyPage(t, from, v)
             Op(t, i) == IF t.ret = "ok" THEN Copy(t, i) ELSE t
             F == [x \in I |-> Op(x[1], x[2])]
             c == CHOOSE g : g = [i \in lo .. hi |-> IF i = lo THEN s ELSE Op(g[i - 1], i - 1)]
  <1>0. a \in Area /\ a.start < a.end
    BY AreaProps DEF Elsewhere
  <1>1. lo \in Nat /\ hi \in Nat /\ lo <= hi /\ \A i \in lo .. (hi - 1) : i \in Virt /\ i \in Nat /\ i \in lo .. hi /\ i + 1 \in lo .. hi
    BY <1>0, AreaProps, FrameProps
  <1>2. copy_range(s, from, a) = c[hi]
    BY DEF copy_range, Each, Then
  <1>10. \A i \in lo .. (hi - 1) : Lies(i, a)
    BY <1>0, AreaProps DEF Lies
  <1>11. S(hi) = {v \in Virt : Lies(v, a)}
    BY DEF Lies
  <1>. HIDE DEF lo, hi
  <1>3. <<s, lo>> \in I
    <2>1. S(lo) = {}
      BY <1>1, FrameProps
    <2>2. CopiedTo(s, s, U, from, S(lo))
      BY <2>1, StepSame DEF CopiedTo
    <2>3. lo \in lo .. hi /\ s \in State
      BY <1>1, SoundProps
    <2>. HIDE DEF S
    <2>. QED
      BY <2>2, <2>3
  <1>4. ASSUME NEW i \in lo .. (hi - 1), NEW t, <<t, i>> \in I PROVE <<Op(t, i), i + 1>> \in I
    <2>0. t \in State /\ i + 1 \in lo .. hi /\ i \in Virt /\ i \in Nat /\ Lies(i, a)
      BY <1>1, <1>4, <1>10
    <2>1. CASE t.ret = "swap_out"
      BY <2>0, <2>1
    <2>2. CASE t.ret # "swap_out"
      <3>1. CopiedTo(s, t, U, from, S(i)) /\ i \notin S(i) /\ S(i) \in SUBSET Virt
        <4>1. i \notin S(i) /\ S(i) \in SUBSET Virt
          BY <2>0
        <4>. HIDE DEF S
        <4>. QED
          BY <1>4, <2>2, <4>1
      <3>2. S(i + 1) = S(i) \cup {i}
        BY <1>1, <2>0, FrameProps
      <3>. HIDE DEF S
      <3>3. Sound(t, U) /\ t.ret = "ok" /\ Step(s, t, U, S(i))
        BY <3>1 DEF CopiedTo
      <3>4. t.mm.pte[i].page = 0 /\ t.mm.areas = s.mm.areas
        BY <2>0, <3>1, <3>3 DEF Step, Keeps
      <3>5. CASE from.pte[i].page = 0
        <4>1. Op(t, i) = t
          BY <3>5
        <4>2. SameAt(t, from, i)
          BY <3>4, <3>5 DEF SameAt
        <4>3. CopiedTo(s, t, U, from, S(i) \cup {i})
          BY <2>0, <3>1, <3>3, <4>2, StepSame, CopiedThen
        <4>. HIDE DEF Op
        <4>. QED
          BY <2>0, <3>2, <4>1, <4>3
      <3>6. CASE from.pte[i].page # 0
        <4>1. Op(t, i) = CopyPage(t, from, i)
          BY <3>3, <3>6
        <4>2. Allowed(t.mm, i, from.pte[i].w)
          <5>1. from \in Space /\ Maps(from)
            BY DEF Elsewhere
          <5>2. PICK b \in AreasOf(from) : Lies(i, b) /\ (from.pte[i].w <=> "W" \in b.flags)
            BY <2>0, <3>6, <5>1 DEF Maps, EntryFits
          <5>3. b = a
            BY <2>0, <5>1, <5>2, OneArea
          <5>4. a \in AreasOf(t.mm)
            BY <3>4 DEF AreasOf
          <5>. QED
            BY <2>0, <5>2, <5>3, <5>4 DEF Allowed
        <4>. HIDE DEF Op
        <4>3. Op(t, i) \in State /\ (Op(t, i).ret = "swap_out" \/ CopiedPage(t, Op(t, i), U, from, i))
          BY <2>0, <3>3, <3>4, <3>6, <4>1, <4>2, CopyOne
        <4>4. CASE Op(t, i).ret = "swap_out"
          BY <2>0, <4>3, <4>4
        <4>5. CASE CopiedPage(t, Op(t, i), U, from, i)
          <5>1. CopiedTo(s, Op(t, i), U, from, S(i) \cup {i})
            BY <2>0, <3>1, <4>5, CopiedThen DEF CopiedPage
          <5>. QED
            BY <2>0, <3>2, <4>3, <5>1
        <4>. QED
          BY <4>3, <4>4, <4>5
      <3>. QED
        BY <3>5, <3>6
    <2>. QED
      BY <2>1, <2>2
  <1>. HIDE DEF I
  <1>5. \A i \in lo .. (hi - 1) : \A t : <<t, i>> \in I => F[<<t, i>>] = Op(t, i)
    <2>. HIDE DEF Op
    <2>. QED
      OBVIOUS
  <1>. HIDE DEF F, Op
  <1>6. \E g : g = [i \in lo .. hi |-> IF i = lo THEN s ELSE Op(g[i - 1], i - 1)]
    <2>1. \A i \in lo .. (hi - 1) : \A t : <<t, i>> \in I => <<F[<<t, i>>], i + 1>> \in I
      BY <1>4, <1>5
    <2>2. PICK g : IsRun(g, lo, hi, s, F) /\ \A i \in lo .. hi : <<g[i], i>> \in I
      BY <1>1, <1>3, <2>1, LoopRuns
    <2>3. \A i \in lo .. hi : i # lo => i - 1 \in lo .. (hi - 1) /\ i - 1 \in lo .. hi
      BY <1>1
    <2>4. \A i \in lo .. hi : i # lo => F[<<g[i - 1], i - 1>>] = Op(g[i - 1], i - 1)
      BY <1>5, <2>2, <2>3
    <2>. QED
      BY <2>2, <2>4 DEF IsRun
  <1>7. c = [i \in lo .. hi |-> IF i = lo THEN s ELSE Op(c[i - 1], i - 1)]
    BY <1>6
  <1>. HIDE DEF c
  <1>8. c[lo] = s /\ \A i \in lo .. (hi - 1) : c[i + 1] = Op(c[i], i)
    <2>1. lo \in lo .. hi /\ \A i \in lo .. (hi - 1) : i + 1 \in lo .. hi /\ i + 1 # lo /\ (i + 1) - 1 = i
      BY <1>1
    <2>. QED
      BY <1>7, <2>1
  <1>9. <<c[hi], hi>> \in I
    <2>1. <<c[lo], lo>> \in I
      BY <1>3, <1>8
    <2>2. \A i \in lo .. (hi - 1) : <<c[i], i>> \in I => <<c[i + 1], i + 1>> \in I
      BY <1>4, <1>8
    <2>. QED
      BY <1>1, <2>1, <2>2, LoopInv
  <1>12. c[hi] \in State /\ (c[hi].ret = "swap_out" \/ CopiedTo(s, c[hi], U, from, S(hi)))
    BY <1>9 DEF I
  <1>. HIDE DEF S
  <1>. QED
    BY <1>2, <1>11, <1>12

\* The areas L are copied, and what is mapped in them.
CopiedAreas(s, t, U, from, L) ==
    /\ Sound(t, U) /\ t.ret = "ok" /\ Apart(s, t, U) /\ AreasOf(t.mm) = L
    /\ \A v \in Virt : IF \E a \in L : Lies(v, a) THEN SameAt(t, from, v) ELSE t.mm.pte[v].page = 0

LEMMA CopyArea ==
    ASSUME NEW U, NEW s, NEW t, NEW from, Elsewhere(from, U), NEW L, CopiedAreas(s, t, U, from, L), NEW a \in AreasOf(from)
    PROVE  LET r == copy_range(insert_vma_struct(t, a), from, a)
           IN  r \in State /\ (r.ret \in {"swap_out", "overlap"} \/ CopiedAreas(s, r, U, from, L \cup {a}))
  <1> DEFINE b == insert_vma_struct(t, a)
             r == copy_range(b, from, a)
  <1>1. a \in Area /\ a.start < a.end /\ a.start <= a.end /\ from \in Space
    <2>1. a \in Area /\ a.start < a.end /\ from \in Space
      BY AreaProps DEF Elsewhere
    <2>2. a.start \in Nat /\ a.end \in Nat
      BY <2>1, AreaProps
    <2>. QED
      BY <2>1, <2>2
  <1>2. Sound(t, U) /\ t.ret = "ok" /\ Apart(s, t, U) /\ AreasOf(t.mm) = L
    BY DEF CopiedAreas
  <1>3. b \in State /\ (b.ret = "overlap" \/ Added(t, b, U, a))
    BY <1>1, <1>2, InsertVma
  <1>. HIDE DEF b, r
  <1>4. CASE b.ret = "overlap"
    <2>1. r = b
      BY <1>1, <1>4, CopyRangeStops DEF r
    <2>. QED
      BY <1>3, <1>4, <2>1 DEF r, b
  <1>5. CASE Added(t, b, U, a)
    <2>1. /\ Sound(b, U) /\ b.ret = "ok" /\ AreasOf(b.mm) = L \cup {a} /\ a \in AreasOf(b.mm)
          /\ b.mm.pte = t.mm.pte /\ b.data = t.data /\ b.ref = t.ref
      BY <1>2, <1>5 DEF Added
    <2>2. ASSUME NEW v \in Virt, Lies(v, a) PROVE ~(\E c \in L : Lies(v, c)) /\ b.mm.pte[v].page = 0
      <3>1. ~(\E c \in L : Lies(v, c))
        BY <1>2, <1>5, <2>2 DEF Added, Covered
      <3>. QED
        BY <2>1, <3>1 DEF CopiedAreas
    <2>3. r \in State /\ (r.ret = "swap_out" \/ CopiedTo(b, r, U, from, {v \in Virt : Lies(v, a)}))
      BY <2>1, <2>2, CopyRange DEF r
    <2>4. CASE CopiedTo(b, r, U, from, {v \in Virt : Lies(v, a)})
      <3> DEFINE S == {v \in Virt : Lies(v, a)}
      <3>1. Sound(r, U) /\ Step(b, r, U, S) /\ r.ret = "ok" /\ \A v \in S : SameAt(r, from, v)
        BY <2>4 DEF CopiedTo
      <3>. HIDE DEF S
      <3>2. AreasOf(r.mm) = L \cup {a}
        BY <2>1, <3>1 DEF Step, AreasOf
      <3>3. Apart(s, r, U)
        BY <1>2, <2>1, <3>1 DEF Apart, Step
      <3>4. ASSUME NEW v \in Virt
            PROVE  IF \E c \in L \cup {a} : Lies(v, c) THEN SameAt(r, from, v) ELSE r.mm.pte[v].page = 0
        <4>1. CASE v \in S
          BY <3>1, <4>1 DEF S
        <4>2. CASE v \notin S
          <5>1. r.mm.pte[v] = t.mm.pte[v] /\ (t.mm.pte[v].page # 0 => r.data[t.mm.pte[v].page] = t.data[t.mm.pte[v].page])
            BY <2>1, <3>1, <4>2 DEF Step, Keeps
          <5>2. from.pte[v].page # 0 => r.data[from.pte[v].page] = t.data[from.pte[v].page]
            BY <2>1, <3>1 DEF Elsewhere, Step, Apart
          <5>3. (\E c \in L \cup {a} : Lies(v, c)) <=> (\E c \in L : Lies(v, c))
            BY <4>2 DEF S
          <5>4. IF \E c \in L : Lies(v, c) THEN SameAt(t, from, v) ELSE t.mm.pte[v].page = 0
            BY DEF CopiedAreas
          <5>5. SameAt(t, from, v) => SameAt(r, from, v)
            BY <5>1, <5>2 DEF SameAt
          <5>. QED
            BY <5>1, <5>3, <5>4, <5>5
        <4>. QED
          BY <4>1, <4>2
      <3>5. CopiedAreas(s, r, U, from, L \cup {a})
        BY <3>1, <3>2, <3>3, <3>4 DEF CopiedAreas
      <3>. QED
        BY <2>3, <3>5 DEF r, b
    <2>5. CASE r.ret = "swap_out"
      BY <2>3, <2>5 DEF r, b
    <2>. QED
      BY <2>3, <2>4, <2>5
  <1>. QED
    BY <1>3, <1>4, <1>5

\* The copy of an address space: the same areas, the same contents, other pages.
Duplicated(s, t, U, from) ==
    /\ Sound(t, U) /\ t.ret = "ok" /\ Apart(s, t, U) /\ AreasOf(t.mm) = AreasOf(from)
    /\ \A v \in Virt : SameAt(t, from, v)

LEMMA DupMmap ==
    ASSUME NEW U, NEW s, Sound(s, U), s.ret = "ok", s.mm.areas = <<>>, \A v \in Virt : s.mm.pte[v].page = 0,
           NEW from, Elsewhere(from, U)
    PROVE  LET t == dup_mmap(s, from)
           IN  t \in State /\ (t.ret \in {"swap_out", "overlap"} \/ Duplicated(s, t, U, from))
  <1> DEFINE n == Len(from.areas)
             lo == 0
             hi == n
             L(i) == {from.areas[j] : j \in (n - i + 1) .. n}
             I == {x \in State \X (lo .. hi) :
                     x[1].ret \in {"swap_out", "overlap"} \/ CopiedAreas(s, x[1], U, from, L(x[2]))}
             Dup(t, i) == copy_range(insert_vma_struct(t, from.areas[n - i]), from, from.areas[n - i])
             Op(t, i) == IF t.ret = "ok" THEN Dup(t, i) ELSE t
             F == [x \in I |-> Op(x[1], x[2])]
             c == CHOOSE g : g = [i \in lo .. hi |-> IF i = lo THEN s ELSE Op(g[i - 1], i - 1)]
  <1>0. from \in Space /\ n \in Nat /\ DOMAIN from.areas = 1 .. n
    BY AreaProps DEF Elsewhere
  <1>1. lo \in Nat /\ hi \in Nat /\ lo <= hi /\ \A i \in lo .. (hi - 1) : i \in lo .. hi /\ i + 1 \in lo .. hi /\ i \in Nat /\ n - i \in 1 .. n
    BY <1>0
  <1>2. dup_mmap(s, from) = c[hi]
    BY DEF dup_mmap, Each, Then
  <1>10. L(0) = {} /\ L(hi) = AreasOf(from)
    <2>1. (n - 0 + 1) .. n = {} /\ (n - n + 1) .. n = 1 .. n
      BY <1>0
    <2>. QED
      BY <1>0, <2>1 DEF AreasOf
  <1>11. \A i \in lo .. (hi - 1) : L(i + 1) = L(i) \cup {from.areas[n - i]} /\ from.areas[n - i] \in AreasOf(from)
    <2> TAKE i \in lo .. (hi - 1)
    <2>1. (n - (i + 1) + 1) .. n = ((n - i + 1) .. n) \cup {n - i} /\ n - i \in DOMAIN from.areas
      BY <1>0, <1>1
    <2>. QED
      BY <2>1 DEF AreasOf
  <1>. HIDE DEF L, n
  <1>3. <<s, lo>> \in I
    <2>1. AreasOf(s.mm) = {}
      <3>1. DOMAIN s.mm.areas = {}
        OBVIOUS
      <3>. QED
        BY <3>1 DEF AreasOf
    <2>2. CopiedAreas(s, s, U, from, L(lo))
      BY <1>10, <2>1, ApartSame DEF CopiedAreas
    <2>. QED
      BY <1>1, <2>2, SoundProps
  <1>4. ASSUME NEW i \in lo .. (hi - 1), NEW t, <<t, i>> \in I PROVE <<Op(t, i), i + 1>> \in I
    <2>1. t \in State /\ i + 1 \in lo .. hi
      BY <1>1, <1>4
    <2>2. CASE t.ret \in {"swap_out", "overlap"}
      BY <2>1, <2>2
    <2>3. CASE CopiedAreas(s, t, U, from, L(i))
      <3>1. Op(t, i) = Dup(t, i)
        BY <2>3 DEF CopiedAreas
      <3>2. Dup(t, i) \in State /\ (Dup(t, i).ret \in {"swap_out", "overlap"}
              \/ CopiedAreas(s, Dup(t, i), U, from, L(i) \cup {from.areas[n - i]}))
        BY <1>11, <2>3, CopyArea
      <3>. HIDE DEF Dup
      <3>3. L(i + 1) = L(i) \cup {from.areas[n - i]}
        BY <1>11
      <3>. QED
        BY <2>1, <3>1, <3>2, <3>3
    <2>. QED
      BY <1>4, <2>2, <2>3
  <1>. HIDE DEF lo, hi
  <1>. HIDE DEF I
  <1>5. \A i \in lo .. (hi - 1) : \A t : <<t, i>> \in I => F[<<t, i>>] = Op(t, i)
    <2>. HIDE DEF Op
    <2>. QED
      OBVIOUS
  <1>. HIDE DEF F, Op
  <1>6. \E g : g = [i \in lo .. hi |-> IF i = lo THEN s ELSE Op(g[i - 1], i - 1)]
    <2>1. \A i \in lo .. (hi - 1) : \A t : <<t, i>> \in I => <<F[<<t, i>>], i + 1>> \in I
      BY <1>4, <1>5
    <2>2. PICK g : IsRun(g, lo, hi, s, F) /\ \A i \in lo .. hi : <<g[i], i>> \in I
      BY <1>1, <1>3, <2>1, LoopRuns
    <2>3. \A i \in lo .. hi : i # lo => i - 1 \in lo .. (hi - 1) /\ i - 1 \in lo .. hi
      BY <1>1
    <2>4. \A i \in lo .. hi : i # lo => F[<<g[i - 1], i - 1>>] = Op(g[i - 1], i - 1)
      BY <1>5, <2>2, <2>3
    <2>. QED
      BY <2>2, <2>4 DEF IsRun
  <1>7. c = [i \in lo .. hi |-> IF i = lo THEN s ELSE Op(c[i - 1], i - 1)]
    BY <1>6
  <1>. HIDE DEF c
  <1>8. c[lo] = s /\ \A i \in lo .. (hi - 1) : c[i + 1] = Op(c[i], i)
    <2>1. lo \in lo .. hi /\ \A i \in lo .. (hi - 1) : i + 1 \in lo .. hi /\ i + 1 # lo /\ (i + 1) - 1 = i
      BY <1>1
    <2>. QED
      BY <1>7, <2>1
  <1>9. <<c[hi], hi>> \in I
    <2>1. <<c[lo], lo>> \in I
      BY <1>3, <1>8
    <2>2. \A i \in lo .. (hi - 1) : <<c[i], i>> \in I => <<c[i + 1], i + 1>> \in I
      BY <1>4, <1>8
    <2>. QED
      BY <1>1, <2>1, <2>2, LoopInv
  <1>12. c[hi] \in State /\ (c[hi].ret \in {"swap_out", "overlap"} \/ CopiedAreas(s, c[hi], U, from, L(hi)))
    BY <1>9 DEF I
  <1>13. CopiedAreas(s, c[hi], U, from, AreasOf(from)) => Duplicated(s, c[hi], U, from)
    <2>1. ASSUME NEW v \in Virt, c[hi].mm.pte[v].page = 0, ~\E a \in AreasOf(from) : Lies(v, a) PROVE SameAt(c[hi], from, v)
      BY <2>1 DEF SameAt, Elsewhere, Maps, EntryFits
    <2>. QED
      BY <2>1 DEF CopiedAreas, Duplicated
  <1>. QED
    BY <1>2, <1>10, <1>12, <1>13

LEMMA CopyMm ==
    ASSUME NEW U, NEW s, Bare(s, U), s.ret = "ok", NEW from, Elsewhere(from, U)
    PROVE  LET t == copy_mm(s, from)
           IN  t \in State /\ (t.ret \in {"swap_out", "overlap"} \/ Duplicated(s, t, U, from))
  <1> DEFINE b == Create(s)
             t == copy_mm(s, from)
  <1>1. /\ b \in State
        /\ \/ b.ret = "swap_out"
           \/ /\ b.ret = "ok" /\ Sound(b, U) /\ Apart(s, b, U) /\ b.mm.areas = <<>>
              /\ \A v \in Virt : b.mm.pte[v].page = 0
    BY Created
  <1>2. CASE b.ret = "swap_out"
    <2>1. t = b
      BY <1>2 DEF copy_mm, Then
    <2>. QED
      BY <1>1, <1>2, <2>1
  <1>3. CASE b.ret # "swap_out"
    <2>1. t = dup_mmap(b, from)
      BY <1>1, <1>3 DEF copy_mm, Then
    <2>2. b.ret = "ok" /\ Sound(b, U) /\ Apart(s, b, U) /\ b.mm.areas = <<>> /\ \A v \in Virt : b.mm.pte[v].page = 0
      BY <1>1, <1>3
    <2>. HIDE DEF b, t
    <2>3. t \in State /\ (t.ret \in {"swap_out", "overlap"} \/ Duplicated(b, t, U, from))
      BY <2>1, <2>2, DupMmap
    <2>4. Duplicated(b, t, U, from) => Duplicated(s, t, U, from)
      BY <2>2, ApartThen DEF Duplicated
    <2>. QED
      BY <2>3, <2>4 DEF t
  <1>. QED
    BY <1>2, <1>3
-----------------------------------------------------------------------------
(* Programs that are loaded.                                                *)

\* Page v holds x.
Holds(t, v, x) == t.mm.pte[v].page # 0 /\ t.data[t.mm.pte[v].page] = x

\* What Load returns.
Loaded(s, t, U, v, x) == Sound(t, U) /\ Step(s, t, U, {v}) /\ t.ret = "ok" /\ Holds(t, v, x)

\* A store to a page that is mapped.
LEMMA StoreMapped ==
    ASSUME NEW U, NEW s, Sound(s, U), s.ret = "ok", NEW v \in Virt, s.mm.pte[v].page # 0, NEW x \in VALUES
    PROVE  LET t == SetData(s, s.mm.pte[v].page, x)
           IN  Loaded(s, t, U, v, x) /\ t.mm = s.mm
  <1> DEFINE f == s.mm.pte[v].page
             t == SetData(s, f, x)
  <1>1. f \in U /\ U \subseteq Frames /\ U \subseteq U /\ f # 0 /\ \A u \in Virt : u # v => s.mm.pte[u].page # f
    <2>1. /\ f \in Frames /\ f \in U \ s.free /\ s.ref[f] = 1 /\ s.mm.pt[PDX(v)] # 0
          /\ PageAt(s.mm)[<<"page", v>>] = f
          /\ \A u \in Virt : u # v => s.mm.pte[u].page # f
      BY EntryHeld
    <2>. QED
      BY <2>1, SoundProps
  <1>. HIDE DEF f
  <1>2. OnlyAt(s, f, {v})
    BY <1>1 DEF OnlyAt
  <1>. HIDE DEF t
  <1>3. Stored(s, t, U, U, {v}, f, x)
    BY <1>1, <1>2, DataSet DEF t
  <1>4. Sound(t, U) /\ Step(s, t, U, {v}) /\ t.ret = "ok" /\ t.mm = s.mm /\ t.data[f] = x
    BY <1>3 DEF Stored
  <1>5. Holds(t, v, x)
    BY <1>1, <1>4 DEF Holds, f
  <1>. QED
    BY <1>4, <1>5 DEF Loaded, t, f

LEMMA LoadPage ==
    ASSUME NEW U, NEW s, Sound(s, U), s.ret = "ok", NEW v \in Virt, NEW w \in BOOLEAN, NEW x \in VALUES,
           s.mm.pte[v].page = 0, Allowed(s.mm, v, w)
    PROVE  LET t == Load(s, v, w, x) IN t \in State /\ (t.ret = "swap_out" \/ Loaded(s, t, U, v, x))
  <1> DEFINE a == pgdir_alloc_page(s, v, w)
             t == Load(s, v, w, x)
  <1>1. a \in State /\ (a.ret = "swap_out" \/ Filled(s, a, U, v, w))
    BY AllocInsert
  <1>2. CASE a.ret = "swap_out"
    <2>1. t = a
      BY <1>2 DEF Load, Then
    <2>. QED
      BY <1>1, <1>2, <2>1
  <1>3. CASE Filled(s, a, U, v, w)
    <2>1. PICK f \in Frames : Entered(s, a, U, v, f, w)
      BY <1>3 DEF Filled
    <2>2. Sound(a, U) /\ Step(s, a, U, {v}) /\ a.ret = "ok" /\ a.mm.pte = Put(s.mm.pte, v, [page |-> f, w |-> w])
      BY <2>1 DEF Entered
    <2>3. a.mm.pte[v].page # 0
      <3>1. s.mm.pte \in [Virt -> Entry]
        BY SoundProps, SpaceProps
      <3>. QED
        BY <2>2, <3>1, FrameProps DEF Put
    <2>4. t = SetData(a, a.mm.pte[v].page, x)
      BY <2>2 DEF Load, Then, SetData
    <2>. HIDE DEF a, t
    <2>5. Loaded(a, t, U, v, x)
      BY <2>2, <2>3, <2>4, StoreMapped
    <2>6. Sound(t, U) /\ Step(a, t, U, {v}) /\ t.ret = "ok" /\ Holds(t, v, x)
      BY <2>5 DEF Loaded
    <2>7. Step(s, t, U, {v})
      BY <2>2, <2>6, StepThen
    <2>. QED
      BY <2>6, <2>7, SoundProps DEF Loaded, t
  <1>. QED
    BY <1>1, <1>2, <1>3

SegArea(seg) == [start |-> seg.start, end |-> seg.end, flags |-> seg.flags]

\* What page v of a segment holds.
FileAt(seg, v) == IF v - seg.start < Len(seg.data) THEN seg.data[v - seg.start + 1] ELSE 0

LEMMA SegProps ==
    ASSUME NEW seg \in ProgHeader, seg.start < seg.end
    PROVE  /\ seg.start \in Virt /\ seg.end \in 1 .. NVIRT /\ seg.flags \in SUBSET {"R", "W", "X", "S"}
           /\ SegArea(seg) \in Area /\ SegArea(seg).start = seg.start /\ SegArea(seg).end = seg.end
           /\ SegArea(seg).flags = seg.flags
           /\ \A v : Lies(v, SegArea(seg)) <=> Lies(v, seg)
           /\ \A v \in Virt : Lies(v, seg) => FileAt(seg, v) \in VALUES
           /\ seg.torn \in BOOLEAN
  <1>1. seg.start \in Virt /\ seg.end \in 1 .. NVIRT /\ seg.flags \in SUBSET {"R", "W", "X"} /\ seg.data \in Seq(VALUES)
        /\ seg.torn \in BOOLEAN
    BY DEF ProgHeader
  <1>2. seg.flags \in SUBSET {"R", "W", "X", "S"}
    BY <1>1
  <1>3. SegArea(seg) \in Area
    BY <1>1, <1>2 DEF SegArea, Area
  <1>4. SegArea(seg).start = seg.start /\ SegArea(seg).end = seg.end /\ SegArea(seg).flags = seg.flags
    BY DEF SegArea
  <1>5. \A v : Lies(v, SegArea(seg)) <=> Lies(v, seg)
    BY <1>4 DEF Lies
  <1>6. ASSUME NEW v \in Virt, Lies(v, seg) PROVE FileAt(seg, v) \in VALUES
    <2>1. seg.start \in Nat /\ v \in Nat /\ seg.start <= v /\ Len(seg.data) \in Nat /\ DOMAIN seg.data = 1 .. Len(seg.data)
      BY <1>1, <1>6, FrameProps DEF Lies
    <2>2. 0 \in VALUES
      BY AddressSpaceAssumption
    <2>3. CASE v - seg.start < Len(seg.data)
      <3>1. v - seg.start + 1 \in DOMAIN seg.data
        BY <2>1, <2>3
      <3>. QED
        BY <1>1, <2>3, <3>1 DEF FileAt
    <2>4. CASE ~(v - seg.start < Len(seg.data))
      BY <2>2, <2>4 DEF FileAt
    <2>. QED
      BY <2>3, <2>4
  <1>. QED
    BY <1>1, <1>2, <1>3, <1>4, <1>5, <1>6

\* The pages S of a segment are loaded.
LoadedTo(s, t, U, seg, S) ==
    /\ Sound(t, U) /\ Step(s, t, U, S) /\ t.ret = "ok"
    /\ \A v \in S : Holds(t, v, FileAt(seg, v))

LEMMA LoadedThen ==
    ASSUME NEW U, NEW s, NEW t, NEW u, NEW seg, NEW S \in SUBSET Virt, NEW v \in Virt, v \notin S,
           LoadedTo(s, t, U, seg, S), Loaded(t, u, U, v, FileAt(seg, v))
    PROVE  LoadedTo(s, u, U, seg, S \cup {v})
  <1>1. Sound(u, U) /\ Step(t, u, U, {v}) /\ u.ret = "ok" /\ Holds(u, v, FileAt(seg, v))
    BY DEF Loaded
  <1>2. Step(s, u, U, S \cup {v})
    <2>1. Step(s, t, U, S)
      BY DEF LoadedTo
    <2>2. Step(t, u, U, S \cup {v})
      BY <1>1 DEF Step, Keeps
    <2>. QED
      BY <2>1, <2>2, StepThen
  <1>3. ASSUME NEW h \in S PROVE Holds(u, h, FileAt(seg, h))
    <2>1. Holds(t, h, FileAt(seg, h)) /\ h \in Virt \ {v}
      BY DEF LoadedTo
    <2>. QED
      BY <1>1, <2>1 DEF Step, Keeps, Holds
  <1>. QED
    BY <1>1, <1>2, <1>3 DEF LoadedTo

\* The loop of a segment that is not torn.
LoadPages(s, seg) ==
    LET load(t, v) == Load(t, v, "W" \in seg.flags,
                           IF v - seg.start < Len(seg.data) THEN seg.data[v - seg.start + 1] ELSE 0)
    IN  Each(s, seg.start, seg.end, load)

LEMMA LoadRange ==
    ASSUME NEW U, NEW s, Sound(s, U), s.ret = "ok", NEW seg \in ProgHeader, seg.start < seg.end,
           SegArea(seg) \in AreasOf(s.mm), \A v \in Virt : Lies(v, seg) => s.mm.pte[v].page = 0
    PROVE  LET t == LoadPages(s, seg)
           IN  t \in State /\ (t.ret = "swap_out" \/ LoadedTo(s, t, U, seg, {v \in Virt : Lies(v, seg)}))
  <1> DEFINE lo == seg.start
             hi == seg.end
             S(i) == {v \in Virt : lo <= v /\ v < i}
             I == {x \in State \X (lo .. hi) : x[1].ret = "swap_out" \/ LoadedTo(s, x[1], U, seg, S(x[2]))}
             Turn(t, v) == Load(t, v, "W" \in seg.flags, FileAt(seg, v))
             Op(t, i) == IF t.ret = "ok" THEN Turn(t, i) ELSE t
             F == [x \in I |-> Op(x[1], x[2])]
             c == CHOOSE g : g = [i \in lo .. hi |-> IF i = lo THEN s ELSE Op(g[i - 1], i - 1)]
  <1>1. lo \in Nat /\ hi \in Nat /\ lo <= hi /\ \A i \in lo .. (hi - 1) : i \in Virt /\ i \in Nat /\ i \in lo .. hi /\ i + 1 \in lo .. hi
    BY SegProps, FrameProps
  <1>2. LoadPages(s, seg) = c[hi]
    BY DEF LoadPages, Each, Then, FileAt
  <1>10. \A i \in lo .. (hi - 1) : Lies(i, seg)
    <2>1. seg.start \in Nat /\ seg.end \in Nat
      BY SegProps, FrameProps
    <2>. QED
      BY <2>1 DEF Lies
  <1>11. S(hi) = {v \in Virt : Lies(v, seg)}
    BY DEF Lies
  <1>. HIDE DEF lo, hi
  <1>3. <<s, lo>> \in I
    <2>1. S(lo) = {}
      BY <1>1, FrameProps
    <2>2. LoadedTo(s, s, U, seg, S(lo))
      BY <2>1, StepSame DEF LoadedTo
    <2>3. lo \in lo .. hi /\ s \in State
      BY <1>1, SoundProps
    <2>. HIDE DEF S
    <2>. QED
      BY <2>2, <2>3
  <1>4. ASSUME NEW i \in lo .. (hi - 1), NEW t, <<t, i>> \in I PROVE <<Op(t, i), i + 1>> \in I
    <2>0. t \in State /\ i + 1 \in lo .. hi /\ i \in Virt /\ i \in Nat /\ Lies(i, seg)
      BY <1>1, <1>4, <1>10
    <2>1. CASE t.ret = "swap_out"
      BY <2>0, <2>1
    <2>2. CASE t.ret # "swap_out"
      <3>1. LoadedTo(s, t, U, seg, S(i)) /\ i \notin S(i) /\ S(i) \in SUBSET Virt
        <4>1. i \notin S(i) /\ S(i) \in SUBSET Virt
          BY <2>0
        <4>. HIDE DEF S
        <4>. QED
          BY <1>4, <2>2, <4>1
      <3>2. S(i + 1) = S(i) \cup {i}
        BY <1>1, <2>0, FrameProps
      <3>. HIDE DEF S
      <3>3. Sound(t, U) /\ t.ret = "ok" /\ Step(s, t, U, S(i))
        BY <3>1 DEF LoadedTo
      <3>4. t.mm.pte[i].page = 0 /\ t.mm.areas = s.mm.areas
        BY <2>0, <3>1, <3>3 DEF Step, Keeps
      <3>5. Op(t, i) = Load(t, i, "W" \in seg.flags, FileAt(seg, i))
        BY <3>3
      <3>6. Allowed(t.mm, i, "W" \in seg.flags) /\ FileAt(seg, i) \in VALUES
        <4>1. SegArea(seg) \in AreasOf(t.mm)
          BY <3>4 DEF AreasOf
        <4>. QED
          BY <2>0, <4>1, SegProps DEF Allowed
      <3>. HIDE DEF Op
      <3>7. Op(t, i) \in State /\ (Op(t, i).ret = "swap_out" \/ Loaded(t, Op(t, i), U, i, FileAt(seg, i)))
        <4>1. PICK w, x : w = ("W" \in seg.flags) /\ x = FileAt(seg, i)
          OBVIOUS
        <4>2. w \in BOOLEAN /\ x \in VALUES /\ Allowed(t.mm, i, w) /\ Op(t, i) = Load(t, i, w, x)
          BY <3>5, <3>6, <4>1
        <4>3. Op(t, i) \in State /\ (Op(t, i).ret = "swap_out" \/ Loaded(t, Op(t, i), U, i, x))
          BY <2>0, <3>3, <3>4, <4>2, LoadPage
        <4>. QED
          BY <4>1, <4>3
      <3>8. CASE Op(t, i).ret = "swap_out"
        BY <2>0, <3>7, <3>8
      <3>9. CASE Loaded(t, Op(t, i), U, i, FileAt(seg, i))
        <4>1. LoadedTo(s, Op(t, i), U, seg, S(i) \cup {i})
          BY <2>0, <3>1, <3>9, LoadedThen
        <4>. QED
          BY <2>0, <3>2, <3>7, <4>1
      <3>. QED
        BY <3>7, <3>8, <3>9
    <2>. QED
      BY <2>1, <2>2
  <1>. HIDE DEF I
  <1>5. \A i \in lo .. (hi - 1) : \A t : <<t, i>> \in I => F[<<t, i>>] = Op(t, i)
    <2>. HIDE DEF Op
    <2>. QED
      OBVIOUS
  <1>. HIDE DEF F, Op
  <1>6. \E g : g = [i \in lo .. hi |-> IF i = lo THEN s ELSE Op(g[i - 1], i - 1)]
    <2>1. \A i \in lo .. (hi - 1) : \A t : <<t, i>> \in I => <<F[<<t, i>>], i + 1>> \in I
      BY <1>4, <1>5
    <2>2. PICK g : IsRun(g, lo, hi, s, F) /\ \A i \in lo .. hi : <<g[i], i>> \in I
      BY <1>1, <1>3, <2>1, LoopRuns
    <2>3. \A i \in lo .. hi : i # lo => i - 1 \in lo .. (hi - 1) /\ i - 1 \in lo .. hi
      BY <1>1
    <2>4. \A i \in lo .. hi : i # lo => F[<<g[i - 1], i - 1>>] = Op(g[i - 1], i - 1)
      BY <1>5, <2>2, <2>3
    <2>. QED
      BY <2>2, <2>4 DEF IsRun
  <1>7. c = [i \in lo .. hi |-> IF i = lo THEN s ELSE Op(c[i - 1], i - 1)]
    BY <1>6
  <1>. HIDE DEF c
  <1>8. c[lo] = s /\ \A i \in lo .. (hi - 1) : c[i + 1] = Op(c[i], i)
    <2>1. lo \in lo .. hi /\ \A i \in lo .. (hi - 1) : i + 1 \in lo .. hi /\ i + 1 # lo /\ (i + 1) - 1 = i
      BY <1>1
    <2>. QED
      BY <1>7, <2>1
  <1>9. <<c[hi], hi>> \in I
    <2>1. <<c[lo], lo>> \in I
      BY <1>3, <1>8
    <2>2. \A i \in lo .. (hi - 1) : <<c[i], i>> \in I => <<c[i + 1], i + 1>> \in I
      BY <1>4, <1>8
    <2>. QED
      BY <1>1, <2>1, <2>2, LoopInv
  <1>12. c[hi] \in State /\ (c[hi].ret = "swap_out" \/ LoadedTo(s, c[hi], U, seg, S(hi)))
    BY <1>9 DEF I
  <1>. HIDE DEF S
  <1>. QED
    BY <1>2, <1>11, <1>12

\* The area a is added, and nothing that was mapped changes.
Extended(s, t, U, A) ==
    /\ Sound(t, U) /\ t.ret = "ok" /\ Apart(s, t, U)
    /\ AreasOf(t.mm) = AreasOf(s.mm) \cup A
    /\ Keeps(s, t, {v \in Virt : ~Covered(s.mm, v)})

\* What an area leaves once its pages are loaded, up to the page v.
LEMMA ExtendedThen ==
    ASSUME NEW U, NEW s, NEW b, NEW t, NEW a, Sound(s, U), Added(s, b, U, a), NEW S, Sound(t, U), t.ret = "ok",
           Step(b, t, U, S), \A v \in S : Lies(v, a)
    PROVE  Extended(s, t, U, {a})
  <1>1. /\ AreasOf(b.mm) = AreasOf(s.mm) \cup {a} /\ b.mm.pte = s.mm.pte /\ b.data = s.data /\ b.ref = s.ref
        /\ \A v \in Virt : Lies(v, a) => ~Covered(s.mm, v)
    BY DEF Added
  <1>2. AreasOf(t.mm) = AreasOf(s.mm) \cup {a} /\ Apart(s, t, U)
    BY <1>1 DEF Step, AreasOf, Apart
  <1>3. Keeps(s, t, {v \in Virt : ~Covered(s.mm, v)})
    <2>1. \A v \in Virt : Covered(s.mm, v) => v \in Virt \ S
      BY <1>1
    <2>. QED
      BY <1>1, <2>1 DEF Step, Keeps
  <1>. QED
    BY <1>2, <1>3 DEF Extended

\* A segment is loaded.
Segmented(s, t, U, seg) ==
    /\ Extended(s, t, U, {SegArea(seg)})
    /\ \A v \in Virt : Lies(v, seg) => Holds(t, v, FileAt(seg, v))

LEMMA TornSegment ==
    ASSUME NEW U, NEW s, Sound(s, U), s.ret = "ok", NEW seg \in ProgHeader, seg.start < seg.end,
           SegArea(seg) \in AreasOf(s.mm), \A v \in Virt : Lies(v, seg) => s.mm.pte[v].page = 0
    PROVE  LET a == Load(s, seg.start, "W" \in seg.flags, FileAt(seg, seg.start))
               t == IF a.ret = "ok" THEN SetRet(a, "inval") ELSE a
           IN  t \in State /\ (t.ret = "swap_out" \/ Refused(s, t, U))
  <1>1. PICK w, x, v : w = ("W" \in seg.flags) /\ x = FileAt(seg, seg.start) /\ v = seg.start
    OBVIOUS
  <1>2. v \in Virt /\ Lies(v, seg) /\ w \in BOOLEAN /\ x \in VALUES /\ s.mm.pte[v].page = 0
    <2>1. seg.start \in Virt /\ seg.start \in Nat /\ seg.end \in Nat
      BY SegProps, FrameProps
    <2>2. Lies(v, seg)
      BY <1>1, <2>1 DEF Lies
    <2>. QED
      BY <1>1, <2>1, <2>2, SegProps
  <1>3. Allowed(s.mm, v, w)
    BY <1>1, <1>2, SegProps DEF Allowed
  <1> DEFINE a == Load(s, v, w, x)
             t == IF a.ret = "ok" THEN SetRet(a, "inval") ELSE a
  <1>4. a \in State /\ (a.ret = "swap_out" \/ Loaded(s, a, U, v, x))
    BY <1>2, <1>3, LoadPage
  <1>. HIDE DEF a
  <1>5. CASE a.ret = "swap_out"
    BY <1>1, <1>4, <1>5 DEF a
  <1>6. CASE Loaded(s, a, U, v, x)
    <2>1. a.ret = "ok" /\ Sound(a, U) /\ Step(s, a, U, {v})
      BY <1>6 DEF Loaded
    <2>2. t = SetRet(a, "inval") /\ "inval" \in Outcome
      BY <2>1 DEF Outcome
    <2>. HIDE DEF t
    <2>3. t \in State /\ t.ret = "inval" /\ t.ref = a.ref /\ t.data = a.data /\ Sound(t, U)
      BY <1>4, <2>1, <2>2, SetRetProps
    <2>4. Apart(s, t, U)
      BY <2>1, <2>3 DEF Step, Apart
    <2>5. t \in State /\ Refused(s, t, U)
      BY <2>3, <2>4 DEF Refused
    <2>. QED
      BY <1>1, <2>5 DEF t, a
  <1>. QED
    BY <1>4, <1>5, <1>6

LEMMA Segment ==
    ASSUME NEW U, NEW s, Sound(s, U), s.ret = "ok", NEW seg \in ProgHeader, seg.start < seg.end
    PROVE  LET t == LoadSegment(s, seg)
           IN  t \in State /\ \/ t.ret \in {"swap_out", "overlap"}
                              \/ Refused(s, t, U)
                              \/ IF seg.data = <<>> THEN t = s ELSE Segmented(s, t, U, seg)
  <1> DEFINE t == LoadSegment(s, seg)
             b == mm_map(s, seg.start, seg.end, seg.flags)
             x == Load(b, seg.start, "W" \in seg.flags, FileAt(seg, seg.start))
             torn == IF x.ret = "ok" THEN SetRet(x, "inval") ELSE x
  <1>0. s \in State /\ s.mm \in Space
    BY SoundProps
  <1>1. CASE Len(seg.data) > seg.end - seg.start
    <2>1. t = SetRet(s, "inval") /\ "inval" \in Outcome
      BY <1>1 DEF LoadSegment, SetRet, Outcome
    <2>. HIDE DEF t
    <2>2. t \in State /\ t.ret = "inval" /\ Sound(t, U) /\ t.ref = s.ref /\ t.data = s.data
      BY <1>0, <2>1, SetRetProps
    <2>3. Refused(s, t, U)
      BY <2>2 DEF Refused, Apart
    <2>. QED
      BY <2>2, <2>3 DEF t
  <1>2. CASE ~(Len(seg.data) > seg.end - seg.start) /\ seg.data = <<>>
    <2>1. t = s
      BY <1>2 DEF LoadSegment
    <2>. QED
      BY <1>0, <1>2, <2>1
  <1>3. CASE ~(Len(seg.data) > seg.end - seg.start) /\ seg.data # <<>>
    <2>1. t = IF b.ret = "ok" THEN (IF seg.torn THEN torn ELSE LoadPages(b, seg)) ELSE b
      BY <1>3 DEF LoadSegment, Then, SetRet, LoadPages, FileAt
    <2>2. b \in State /\ (b.ret = "overlap" \/ Refused(s, b, U) \/ Added(s, b, U, SegArea(seg)))
      BY SegProps, MmMap DEF SegArea
    <2>. HIDE DEF b, t, torn, x
    <2>3. CASE b.ret = "overlap"
      BY <2>1, <2>2, <2>3 DEF t
    <2>4. CASE Refused(s, b, U)
      <3>1. t = b
        BY <2>1, <2>4 DEF Refused
      <3>. QED
        BY <2>2, <2>4, <3>1 DEF t
    <2>5. CASE Added(s, b, U, SegArea(seg))
      <3>1. /\ Sound(b, U) /\ b.ret = "ok" /\ SegArea(seg) \in AreasOf(b.mm)
            /\ b.mm.pte = s.mm.pte /\ b.data = s.data /\ b.ref = s.ref
        BY <2>5 DEF Added
      <3>2. \A v \in Virt : Lies(v, seg) => b.mm.pte[v].page = 0
        <4>1. \A v \in Virt : Lies(v, seg) => ~Covered(s.mm, v)
          BY <2>5, SegProps DEF Added
        <4>2. \A v \in Virt : EntryFits(s.mm, v)
          BY SoundProps DEF Maps
        <4>. QED
          BY <3>1, <4>1, <4>2 DEF EntryFits, Covered
      <3>3. CASE seg.torn
        <4>1. torn \in State /\ (torn.ret = "swap_out" \/ Refused(b, torn, U))
          BY <3>1, <3>2, TornSegment DEF torn, x
        <4>2. t = torn
          BY <2>1, <3>1, <3>3
        <4>3. Refused(b, t, U) => Refused(s, t, U)
          BY <3>1 DEF Refused, Apart
        <4>. QED
          BY <4>1, <4>2, <4>3 DEF t
      <3>4. CASE ~seg.torn
        <4> DEFINE S == {v \in Virt : Lies(v, seg)}
        <4>1. t = LoadPages(b, seg)
          BY <2>1, <3>1, <3>4
        <4>2. t \in State /\ (t.ret = "swap_out" \/ LoadedTo(b, t, U, seg, S))
          BY <3>1, <3>2, <4>1, LoadRange
        <4>3. ASSUME LoadedTo(b, t, U, seg, S) PROVE Segmented(s, t, U, seg)
          <5>1. Sound(t, U) /\ Step(b, t, U, S) /\ t.ret = "ok" /\ \A v \in S : Holds(t, v, FileAt(seg, v))
            BY <4>3 DEF LoadedTo
          <5>2. \A v \in S : Lies(v, SegArea(seg))
            BY SegProps
          <5>3. \A v \in Virt : Lies(v, seg) => Holds(t, v, FileAt(seg, v))
            BY <5>1
          <5>. HIDE DEF S
          <5>4. Extended(s, t, U, {SegArea(seg)})
            BY <2>5, <5>1, <5>2, ExtendedThen
          <5>. QED
            BY <5>3, <5>4 DEF Segmented
        <4>. QED
          BY <1>3, <4>2, <4>3 DEF t
      <3>. QED
        BY <3>3, <3>4
    <2>. QED
      BY <2>2, <2>3, <2>4, <2>5
  <1>. QED
    BY <1>1, <1>2, <1>3

\* The headers before i that have contents are loaded.
Real(image, i) == {j \in 1 .. (i - 1) : image.segments[j].data # <<>>}

Segments(s, t, U, image, i) ==
    /\ Sound(t, U) /\ t.ret = "ok" /\ Apart(s, t, U)
    /\ AreasOf(t.mm) = {SegArea(image.segments[j]) : j \in Real(image, i)}
    /\ \A j \in Real(image, i) : \A v \in Virt :
         Lies(v, image.segments[j]) => Holds(t, v, FileAt(image.segments[j], v))

LoadSegments(s, image) ==
    LET seg(t, i) == LoadSegment(t, image.segments[i]) IN Each(s, 1, Len(image.segments) + 1, seg)

LEMMA ImageProps ==
    ASSUME NEW image \in IMAGES
    PROVE  /\ Len(image.segments) \in Nat /\ DOMAIN image.segments = 1 .. Len(image.segments)
           /\ \A i \in 1 .. Len(image.segments) :
                image.segments[i] \in ProgHeader /\ image.segments[i].start < image.segments[i].end
  BY ImagesAssumption

LEMMA SegmentsThen ==
    ASSUME NEW U, NEW s, NEW t, NEW r, NEW image \in IMAGES, NEW i \in 1 .. Len(image.segments),
           Segments(s, t, U, image, i), image.segments[i].data # <<>>, Segmented(t, r, U, image.segments[i])
    PROVE  Segments(s, r, U, image, i + 1)
  <1> DEFINE seg == image.segments[i]
  <1>1. Real(image, i + 1) = Real(image, i) \cup {i}
    <2>1. 1 .. (i + 1 - 1) = (1 .. (i - 1)) \cup {i}
      BY ImageProps
    <2>. QED
      BY <2>1 DEF Real
  <1>2. /\ Sound(t, U) /\ Apart(s, t, U)
        /\ AreasOf(t.mm) = {SegArea(image.segments[j]) : j \in Real(image, i)}
    BY DEF Segments
  <1>3. /\ Sound(r, U) /\ r.ret = "ok" /\ Apart(t, r, U) /\ AreasOf(r.mm) = AreasOf(t.mm) \cup {SegArea(seg)}
        /\ Keeps(t, r, {v \in Virt : ~Covered(t.mm, v)})
        /\ \A v \in Virt : Lies(v, seg) => Holds(r, v, FileAt(seg, v))
    BY DEF Segmented, Extended
  <1>4. AreasOf(r.mm) = {SegArea(image.segments[j]) : j \in Real(image, i + 1)}
    BY <1>1, <1>2, <1>3
  <1>5. ASSUME NEW j \in Real(image, i), NEW v \in Virt, Lies(v, image.segments[j])
        PROVE  Holds(r, v, FileAt(image.segments[j], v))
    <2>1. Holds(t, v, FileAt(image.segments[j], v))
      BY <1>5 DEF Segments
    <2>2. j \in 1 .. Len(image.segments)
      BY ImageProps DEF Real
    <2>3. Covered(t.mm, v)
      <3>1. Lies(v, SegArea(image.segments[j]))
        BY <1>5, <2>2, ImageProps, SegProps
      <3>. QED
        BY <1>2, <3>1 DEF Covered
    <2>4. v \in Virt \ {u \in Virt : ~Covered(t.mm, u)}
      BY <2>3
    <2>. QED
      BY <1>3, <2>1, <2>4 DEF Keeps, Holds
  <1>6. Apart(s, r, U)
    BY <1>2, <1>3, ApartThen
  <1>. QED
    BY <1>1, <1>3, <1>4, <1>5, <1>6 DEF Segments

LEMMA SegmentLoop ==
    ASSUME NEW U, NEW s, Sound(s, U), s.ret = "ok", s.mm.areas = <<>>, NEW image \in IMAGES
    PROVE  LET t == LoadSegments(s, image)
           IN  t \in State /\ \/ t.ret \in {"swap_out", "overlap"}
                              \/ Refused(s, t, U)
                              \/ Segments(s, t, U, image, Len(image.segments) + 1)
  <1> DEFINE lo == 1
             hi == Len(image.segments) + 1
             I == {x \in State \X (lo .. hi) :
                     \/ x[1].ret \in {"swap_out", "overlap"}
                     \/ Refused(s, x[1], U)
                     \/ Segments(s, x[1], U, image, x[2])}
             Turn(t, i) == LoadSegment(t, image.segments[i])
             Op(t, i) == IF t.ret = "ok" THEN Turn(t, i) ELSE t
             F == [x \in I |-> Op(x[1], x[2])]
             c == CHOOSE g : g = [i \in lo .. hi |-> IF i = lo THEN s ELSE Op(g[i - 1], i - 1)]
  <1>1. lo \in Nat /\ hi \in Nat /\ lo <= hi
        /\ \A i \in lo .. (hi - 1) : i \in lo .. hi /\ i + 1 \in lo .. hi /\ i \in 1 .. Len(image.segments) /\ i \in Nat
    BY ImageProps
  <1>2. LoadSegments(s, image) = c[hi]
    BY DEF LoadSegments, Each, Then
  <1>3. <<s, lo>> \in I
    <2>1. Real(image, lo) = {}
      BY DEF Real
    <2>2. AreasOf(s.mm) = {}
      <3>1. DOMAIN s.mm.areas = {}
        OBVIOUS
      <3>. QED
        BY <3>1 DEF AreasOf
    <2>3. Segments(s, s, U, image, lo)
      BY <2>1, <2>2, ApartSame DEF Segments
    <2>. HIDE DEF lo, hi
    <2>4. s \in State /\ lo \in lo .. hi
      BY <1>1, SoundProps
    <2>. QED
      BY <2>3, <2>4
  <1>. HIDE DEF lo, hi
  <1>4. ASSUME NEW i \in lo .. (hi - 1), NEW t, <<t, i>> \in I PROVE <<Op(t, i), i + 1>> \in I
    <2>0. t \in State /\ i + 1 \in lo .. hi /\ i \in 1 .. Len(image.segments) /\ i \in Nat
      BY <1>1, <1>4
    <2>1. CASE t.ret \in {"swap_out", "overlap"}
      BY <2>0, <2>1
    <2>2. CASE Refused(s, t, U)
      <3>1. Op(t, i) = t
        BY <2>2 DEF Refused
      <3>. HIDE DEF Op
      <3>. QED
        BY <2>0, <2>2, <3>1
    <2>3. CASE Segments(s, t, U, image, i)
      <3> DEFINE seg == image.segments[i]
                 r == LoadSegment(t, seg)
      <3>1. Sound(t, U) /\ t.ret = "ok" /\ Apart(s, t, U) /\ seg \in ProgHeader /\ seg.start < seg.end
        BY <2>0, <2>3, ImageProps DEF Segments
      <3>2. Op(t, i) = r
        BY <3>1
      <3>. HIDE DEF seg, Op
      <3>3. r \in State /\ \/ r.ret \in {"swap_out", "overlap"}
                           \/ Refused(t, r, U)
                           \/ IF seg.data = <<>> THEN r = t ELSE Segmented(t, r, U, seg)
        BY <3>1, Segment
      <3>. HIDE DEF r
      <3>4. Refused(t, r, U) => Refused(s, r, U)
        BY <3>1, ApartThen DEF Refused
      <3>5. ASSUME seg.data # <<>>, Segmented(t, r, U, seg) PROVE Segments(s, r, U, image, i + 1)
        BY <2>0, <2>3, <3>5, SegmentsThen DEF seg
      <3>6. ASSUME seg.data = <<>>, r = t PROVE Segments(s, r, U, image, i + 1)
        <4>1. Real(image, i + 1) = Real(image, i)
          <5>1. 1 .. (i + 1 - 1) = (1 .. (i - 1)) \cup {i}
            BY <2>0
          <5>. QED
            BY <3>6, <5>1 DEF Real, seg
        <4>. QED
          BY <2>3, <3>6, <4>1 DEF Segments
      <3>7. r.ret \in {"swap_out", "overlap"} \/ Refused(s, r, U) \/ Segments(s, r, U, image, i + 1)
        BY <3>3, <3>4, <3>5, <3>6
      <3>. QED
        BY <2>0, <3>2, <3>3, <3>7
    <2>. QED
      BY <1>4, <2>1, <2>2, <2>3
  <1>. HIDE DEF I
  <1>5. \A i \in lo .. (hi - 1) : \A t : <<t, i>> \in I => F[<<t, i>>] = Op(t, i)
    <2>. HIDE DEF Op
    <2>. QED
      OBVIOUS
  <1>. HIDE DEF F, Op
  <1>6. \E g : g = [i \in lo .. hi |-> IF i = lo THEN s ELSE Op(g[i - 1], i - 1)]
    <2>1. \A i \in lo .. (hi - 1) : \A t : <<t, i>> \in I => <<F[<<t, i>>], i + 1>> \in I
      BY <1>4, <1>5
    <2>2. PICK g : IsRun(g, lo, hi, s, F) /\ \A i \in lo .. hi : <<g[i], i>> \in I
      BY <1>1, <1>3, <2>1, LoopRuns
    <2>3. \A i \in lo .. hi : i # lo => i - 1 \in lo .. (hi - 1) /\ i - 1 \in lo .. hi
      BY <1>1
    <2>4. \A i \in lo .. hi : i # lo => F[<<g[i - 1], i - 1>>] = Op(g[i - 1], i - 1)
      BY <1>5, <2>2, <2>3
    <2>. QED
      BY <2>2, <2>4 DEF IsRun
  <1>7. c = [i \in lo .. hi |-> IF i = lo THEN s ELSE Op(c[i - 1], i - 1)]
    BY <1>6
  <1>. HIDE DEF c
  <1>8. c[lo] = s /\ \A i \in lo .. (hi - 1) : c[i + 1] = Op(c[i], i)
    <2>1. lo \in lo .. hi /\ \A i \in lo .. (hi - 1) : i + 1 \in lo .. hi /\ i + 1 # lo /\ (i + 1) - 1 = i
      BY <1>1
    <2>. QED
      BY <1>7, <2>1
  <1>9. <<c[hi], hi>> \in I
    <2>1. <<c[lo], lo>> \in I
      BY <1>3, <1>8
    <2>2. \A i \in lo .. (hi - 1) : <<c[i], i>> \in I => <<c[i + 1], i + 1>> \in I
      BY <1>4, <1>8
    <2>. QED
      BY <1>1, <2>1, <2>2, LoopInv
  <1>. QED
    BY <1>2, <1>9 DEF I, hi

StackArea == [start |-> NVIRT - USTACKPAGE, end |-> NVIRT, flags |-> {"R", "W", "S"}]

StackPages(s) ==
    LET page(t, i) == pgdir_alloc_page(t, NVIRT - 1 - i, TRUE) IN Each(s, 0, ARGPAGES, page)

LEMMA StackProps ==
    /\ StackArea \in Area /\ StackArea.start = NVIRT - USTACKPAGE /\ StackArea.end = NVIRT
    /\ StackArea.flags = {"R", "W", "S"} /\ StackArea.flags \in SUBSET {"R", "W", "X", "S"}
    /\ NVIRT - USTACKPAGE \in Virt /\ NVIRT \in 1 .. NVIRT /\ NVIRT - USTACKPAGE < NVIRT
    /\ NVIRT - 1 \in Virt /\ NVIRT \in Nat /\ ARGPAGES \in Nat \ {0} /\ USTACKPAGE \in Nat \ {0}
    /\ \A v \in Virt : Lies(v, StackArea) <=> NVIRT - USTACKPAGE <= v
    /\ \A v \in Virt : NVIRT - ARGPAGES <= v => Lies(v, StackArea)
  <1>1. NVIRT \in Nat \ {0} /\ ARGPAGES \in Nat \ {0} /\ USTACKPAGE \in Nat \ {0} /\ ARGPAGES <= USTACKPAGE /\ USTACKPAGE <= NVIRT
    BY AddressSpaceAssumption
  <1>2. NVIRT - USTACKPAGE \in Virt /\ NVIRT - 1 \in Virt /\ NVIRT \in 1 .. NVIRT
    BY <1>1, FrameProps
  <1>3. StackArea \in Area
    BY <1>2 DEF StackArea, Area
  <1>4. StackArea.start = NVIRT - USTACKPAGE /\ StackArea.end = NVIRT /\ StackArea.flags = {"R", "W", "S"}
    BY DEF StackArea
  <1>5. \A v \in Virt : Lies(v, StackArea) <=> NVIRT - USTACKPAGE <= v
    BY <1>1, <1>4, FrameProps DEF Lies
  <1>6. \A v \in Virt : NVIRT - ARGPAGES <= v => Lies(v, StackArea)
    BY <1>1, <1>5, FrameProps
  <1>. QED
    BY <1>1, <1>2, <1>3, <1>4, <1>5, <1>6

\* The pages S are mapped.
MappedTo(s, t, U, S) ==
    /\ Sound(t, U) /\ Step(s, t, U, S) /\ t.ret = "ok"
    /\ \A v \in S : t.mm.pte[v].page # 0

LEMMA MappedThen ==
    ASSUME NEW U, NEW s, NEW t, NEW u, NEW S \in SUBSET Virt, NEW v \in Virt, v \notin S, NEW w,
           MappedTo(s, t, U, S), Sound(t, U), Filled(t, u, U, v, w)
    PROVE  MappedTo(s, u, U, S \cup {v})
  <1>0. PICK f \in Frames : Entered(t, u, U, v, f, w)
    BY DEF Filled
  <1>1. Sound(u, U) /\ Step(t, u, U, {v}) /\ u.ret = "ok" /\ u.mm.pte = Put(t.mm.pte, v, [page |-> f, w |-> w])
    BY <1>0 DEF Entered
  <1>2. t.mm.pte \in [Virt -> Entry] /\ f # 0
    BY SoundProps, SpaceProps, FrameProps
  <1>3. \A h \in S \cup {v} : u.mm.pte[h].page # 0
    BY <1>1, <1>2 DEF MappedTo, Put
  <1>4. Step(s, u, U, S \cup {v})
    <2>1. Step(s, t, U, S)
      BY DEF MappedTo
    <2>2. Step(t, u, U, S \cup {v})
      BY <1>1 DEF Step, Keeps
    <2>. QED
      BY <2>1, <2>2, StepThen
  <1>. QED
    BY <1>1, <1>3, <1>4 DEF MappedTo

LEMMA StackLoop ==
    ASSUME NEW U, NEW s, Sound(s, U), s.ret = "ok", StackArea \in AreasOf(s.mm),
           \A v \in Virt : Lies(v, StackArea) => s.mm.pte[v].page = 0
    PROVE  LET t == StackPages(s)
           IN  t \in State /\ (t.ret = "swap_out" \/ MappedTo(s, t, U, {v \in Virt : NVIRT - ARGPAGES <= v}))
  <1> DEFINE lo == 0
             hi == ARGPAGES
             S(i) == {v \in Virt : NVIRT - i <= v}
             I == {x \in State \X (lo .. hi) : x[1].ret = "swap_out" \/ MappedTo(s, x[1], U, S(x[2]))}
             Turn(t, i) == pgdir_alloc_page(t, NVIRT - 1 - i, TRUE)
             Op(t, i) == IF t.ret = "ok" THEN Turn(t, i) ELSE t
             F == [x \in I |-> Op(x[1], x[2])]
             c == CHOOSE g : g = [i \in lo .. hi |-> IF i = lo THEN s ELSE Op(g[i - 1], i - 1)]
  <1>1. lo \in Nat /\ hi \in Nat /\ lo <= hi /\ \A i \in lo .. (hi - 1) : i \in lo .. hi /\ i + 1 \in lo .. hi /\ i \in Nat
    BY StackProps
  <1>2. StackPages(s) = c[hi]
    BY DEF StackPages, Each, Then
  <1>10. \A i \in lo .. (hi - 1) :
           /\ NVIRT - 1 - i \in Virt /\ Lies(NVIRT - 1 - i, StackArea) /\ NVIRT - 1 - i \notin S(i)
           /\ S(i + 1) = S(i) \cup {NVIRT - 1 - i} /\ S(i) \in SUBSET Virt
    <2> TAKE i \in lo .. (hi - 1)
    <2>1. i \in Nat /\ i < ARGPAGES /\ ARGPAGES <= NVIRT /\ ARGPAGES \in Nat /\ NVIRT \in Nat
      BY <1>1, StackProps, AddressSpaceAssumption
    <2>2. NVIRT - 1 - i \in Virt /\ NVIRT - ARGPAGES <= NVIRT - 1 - i
      BY <2>1, FrameProps
    <2>3. Lies(NVIRT - 1 - i, StackArea)
      BY <2>2, StackProps
    <2>4. NVIRT - 1 - i \notin S(i)
      BY <2>1
    <2>5. S(i + 1) = S(i) \cup {NVIRT - 1 - i}
      BY <2>1, <2>2, FrameProps
    <2>. QED
      BY <2>2, <2>3, <2>4, <2>5
  <1>3. <<s, lo>> \in I
    <2>1. S(lo) = {}
      BY FrameProps
    <2>2. MappedTo(s, s, U, S(lo))
      BY <2>1, StepSame DEF MappedTo
    <2>. HIDE DEF S, lo, hi
    <2>3. s \in State /\ lo \in lo .. hi
      BY <1>1, SoundProps
    <2>. QED
      BY <2>2, <2>3
  <1>11. S(hi) = {v \in Virt : NVIRT - ARGPAGES <= v}
    OBVIOUS
  <1>. HIDE DEF lo, hi, S
  <1>4. ASSUME NEW i \in lo .. (hi - 1), NEW t, <<t, i>> \in I PROVE <<Op(t, i), i + 1>> \in I
    <2>0. t \in State /\ i + 1 \in lo .. hi
      BY <1>1, <1>4
    <2>1. CASE t.ret = "swap_out"
      BY <2>0, <2>1
    <2>2. CASE MappedTo(s, t, U, S(i))
      <3>0. PICK v : v = NVIRT - 1 - i
        OBVIOUS
      <3>1. v \in Virt /\ Lies(v, StackArea) /\ v \notin S(i) /\ S(i + 1) = S(i) \cup {v} /\ S(i) \in SUBSET Virt
        BY <1>10, <3>0
      <3>2. Sound(t, U) /\ t.ret = "ok" /\ Step(s, t, U, S(i))
        BY <2>2 DEF MappedTo
      <3>3. t.mm.pte[v].page = 0 /\ StackArea \in AreasOf(t.mm)
        BY <3>1, <3>2 DEF Step, Keeps, AreasOf
      <3>4. Allowed(t.mm, v, TRUE)
        BY <3>1, <3>3, StackProps DEF Allowed
      <3>5. Op(t, i) = pgdir_alloc_page(t, v, TRUE)
        BY <3>0, <3>2
      <3>. HIDE DEF Op
      <3>6. Op(t, i) \in State /\ (Op(t, i).ret = "swap_out" \/ Filled(t, Op(t, i), U, v, TRUE))
        BY <3>1, <3>2, <3>3, <3>4, <3>5, AllocInsert
      <3>7. Filled(t, Op(t, i), U, v, TRUE) => MappedTo(s, Op(t, i), U, S(i) \cup {v})
        BY <2>2, <3>1, <3>2, MappedThen
      <3>. QED
        BY <2>0, <3>1, <3>6, <3>7
    <2>. QED
      BY <1>4, <2>1, <2>2
  <1>. HIDE DEF I
  <1>5. \A i \in lo .. (hi - 1) : \A t : <<t, i>> \in I => F[<<t, i>>] = Op(t, i)
    <2>. HIDE DEF Op
    <2>. QED
      OBVIOUS
  <1>. HIDE DEF F, Op
  <1>6. \E g : g = [i \in lo .. hi |-> IF i = lo THEN s ELSE Op(g[i - 1], i - 1)]
    <2>1. \A i \in lo .. (hi - 1) : \A t : <<t, i>> \in I => <<F[<<t, i>>], i + 1>> \in I
      BY <1>4, <1>5
    <2>2. PICK g : IsRun(g, lo, hi, s, F) /\ \A i \in lo .. hi : <<g[i], i>> \in I
      BY <1>1, <1>3, <2>1, LoopRuns
    <2>3. \A i \in lo .. hi : i # lo => i - 1 \in lo .. (hi - 1) /\ i - 1 \in lo .. hi
      BY <1>1
    <2>4. \A i \in lo .. hi : i # lo => F[<<g[i - 1], i - 1>>] = Op(g[i - 1], i - 1)
      BY <1>5, <2>2, <2>3
    <2>. QED
      BY <2>2, <2>4 DEF IsRun
  <1>7. c = [i \in lo .. hi |-> IF i = lo THEN s ELSE Op(c[i - 1], i - 1)]
    BY <1>6
  <1>. HIDE DEF c
  <1>8. c[lo] = s /\ \A i \in lo .. (hi - 1) : c[i + 1] = Op(c[i], i)
    <2>1. lo \in lo .. hi /\ \A i \in lo .. (hi - 1) : i + 1 \in lo .. hi /\ i + 1 # lo /\ (i + 1) - 1 = i
      BY <1>1
    <2>. QED
      BY <1>7, <2>1
  <1>9. <<c[hi], hi>> \in I
    <2>1. <<c[lo], lo>> \in I
      BY <1>3, <1>8
    <2>2. \A i \in lo .. (hi - 1) : <<c[i], i>> \in I => <<c[i + 1], i + 1>> \in I
      BY <1>4, <1>8
    <2>. QED
      BY <1>1, <2>1, <2>2, LoopInv
  <1>. QED
    BY <1>2, <1>9, <1>11 DEF I

\* The stack is there, with the arguments on top.
Stacked(s, t, U) == Extended(s, t, U, {StackArea}) /\ Holds(t, NVIRT - 1, ARGV)

LEMMA Stack ==
    ASSUME NEW U, NEW s, Sound(s, U), s.ret = "ok"
    PROVE  LET t == LoadStack(s)
           IN  t \in State /\ (t.ret \in {"swap_out", "overlap"} \/ Refused(s, t, U) \/ Stacked(s, t, U))
  <1> DEFINE b == mm_map(s, NVIRT - USTACKPAGE, NVIRT, {"R", "W", "S"})
             p == StackPages(b)
             r == IF b.ret = "ok" THEN p ELSE b
             t == LoadStack(s)
  <1>1. t = IF r.ret = "ok" THEN SetData(r, r.mm.pte[NVIRT - 1].page, ARGV) ELSE r
    BY DEF LoadStack, StackPages, Then, SetData
  <1>2. b \in State /\ (b.ret = "overlap" \/ Refused(s, b, U) \/ Added(s, b, U, StackArea))
    <2>1. PICK start, end, flags : start = NVIRT - USTACKPAGE /\ end = NVIRT /\ flags = {"R", "W", "S"}
      OBVIOUS
    <2>2. start \in Virt /\ end \in 1 .. NVIRT /\ start < end /\ flags \in SUBSET {"R", "W", "X", "S"}
      BY <2>1, StackProps
    <2>3. b = mm_map(s, start, end, flags) /\ StackArea = [start |-> start, end |-> end, flags |-> flags]
      BY <2>1 DEF StackArea
    <2>. HIDE DEF b
    <2>. QED
      BY <2>2, <2>3, MmMap
  <1>. HIDE DEF b, p, t
  <1>3. CASE b.ret = "overlap"
    <2>1. t = b
      BY <1>1, <1>3
    <2>. QED
      BY <1>2, <1>3, <2>1 DEF t
  <1>4. CASE Refused(s, b, U)
    <2>1. t = b
      BY <1>1, <1>4 DEF Refused
    <2>. QED
      BY <1>2, <1>4, <2>1 DEF t
  <1>5. CASE Added(s, b, U, StackArea)
    <2>1. /\ Sound(b, U) /\ b.ret = "ok" /\ StackArea \in AreasOf(b.mm)
          /\ b.mm.pte = s.mm.pte /\ b.data = s.data /\ b.ref = s.ref
      BY <1>5 DEF Added
    <2>2. \A v \in Virt : Lies(v, StackArea) => b.mm.pte[v].page = 0
      <3>1. \A v \in Virt : Lies(v, StackArea) => ~Covered(s.mm, v)
        BY <1>5 DEF Added
      <3>2. \A v \in Virt : EntryFits(s.mm, v)
        BY SoundProps DEF Maps
      <3>. QED
        BY <2>1, <3>1, <3>2 DEF EntryFits, Covered
    <2>3. p \in State /\ (p.ret = "swap_out" \/ MappedTo(b, p, U, {v \in Virt : NVIRT - ARGPAGES <= v}))
      BY <2>1, <2>2, StackLoop DEF p
    <2>4. r = p
      BY <2>1
    <2>. HIDE DEF r
    <2>5. CASE p.ret = "swap_out"
      BY <1>1, <2>3, <2>4, <2>5 DEF t
    <2>6. CASE MappedTo(b, p, U, {v \in Virt : NVIRT - ARGPAGES <= v})
      <3> DEFINE S == {v \in Virt : NVIRT - ARGPAGES <= v}
      <3>1. Sound(p, U) /\ Step(b, p, U, S) /\ p.ret = "ok" /\ \A v \in S : p.mm.pte[v].page # 0
        BY <2>6 DEF MappedTo
      <3>2. NVIRT - 1 \in S /\ NVIRT - 1 \in Virt /\ ARGV \in VALUES /\ \A v \in S : Lies(v, StackArea)
        <4>1. NVIRT - ARGPAGES <= NVIRT - 1
          BY StackProps
        <4>. QED
          BY <4>1, StackProps, AddressSpaceAssumption
      <3>. HIDE DEF S
      <3>3. PICK v : v = NVIRT - 1
        OBVIOUS
      <3>4. t = SetData(p, p.mm.pte[v].page, ARGV) /\ p.mm.pte[v].page # 0 /\ v \in Virt
        BY <1>1, <2>4, <3>1, <3>2, <3>3
      <3>5. Loaded(p, t, U, v, ARGV)
        BY <3>1, <3>2, <3>4, StoreMapped
      <3>6. Sound(t, U) /\ Step(p, t, U, {v}) /\ t.ret = "ok" /\ Holds(t, v, ARGV)
        BY <3>5 DEF Loaded
      <3>7. Step(b, t, U, S)
        <4>1. {v} \subseteq S
          BY <3>2, <3>3
        <4>2. Step(p, t, U, S)
          BY <3>6, <4>1 DEF Step, Keeps
        <4>. QED
          BY <3>1, <4>2, StepThen
      <3>8. Extended(s, t, U, {StackArea})
        BY <1>5, <3>2, <3>6, <3>7, ExtendedThen
      <3>. QED
        BY <3>3, <3>6, <3>8, SoundProps DEF Stacked, t
    <2>. QED
      BY <2>3, <2>5, <2>6
  <1>. QED
    BY <1>2, <1>3, <1>4, <1>5

\* The program is loaded: its areas, its contents, the stack and the arguments.
Launched(s, t, U, image) ==
    /\ Sound(t, U) /\ t.ret = "ok" /\ Apart(s, t, U)
    /\ AreasOf(t.mm) = {SegArea(image.segments[j]) : j \in Real(image, Len(image.segments) + 1)} \cup {StackArea}
    /\ \A j \in Real(image, Len(image.segments) + 1) : \A v \in Virt :
         Lies(v, image.segments[j]) => Holds(t, v, FileAt(image.segments[j], v))
    /\ Holds(t, NVIRT - 1, ARGV)

\* What is loaded before the stack stays.
LEMMA LaunchedThen ==
    ASSUME NEW U, NEW s, NEW l, NEW t, NEW image \in IMAGES, Segments(s, l, U, image, Len(image.segments) + 1),
           Stacked(l, t, U)
    PROVE  Launched(s, t, U, image)
  <1> DEFINE n == Len(image.segments) + 1
  <1>1. /\ Sound(t, U) /\ t.ret = "ok" /\ Apart(l, t, U) /\ AreasOf(t.mm) = AreasOf(l.mm) \cup {StackArea}
        /\ Keeps(l, t, {v \in Virt : ~Covered(l.mm, v)}) /\ Holds(t, NVIRT - 1, ARGV)
    BY DEF Stacked, Extended
  <1>2. Apart(s, l, U) /\ AreasOf(l.mm) = {SegArea(image.segments[j]) : j \in Real(image, n)}
    BY DEF Segments
  <1>3. ASSUME NEW j \in Real(image, n), NEW v \in Virt, Lies(v, image.segments[j])
        PROVE  Holds(t, v, FileAt(image.segments[j], v))
    <2>1. Holds(l, v, FileAt(image.segments[j], v))
      BY <1>3 DEF Segments
    <2>2. j \in 1 .. Len(image.segments)
      BY ImageProps DEF Real
    <2>3. Covered(l.mm, v)
      <3>1. Lies(v, SegArea(image.segments[j]))
        BY <1>3, <2>2, ImageProps, SegProps
      <3>. QED
        BY <1>2, <3>1 DEF Covered
    <2>4. v \in Virt \ {u \in Virt : ~Covered(l.mm, u)}
      BY <2>3
    <2>. QED
      BY <1>1, <2>1, <2>4 DEF Keeps, Holds
  <1>4. Apart(s, t, U)
    BY <1>1, <1>2, ApartThen
  <1>. QED
    BY <1>1, <1>2, <1>3, <1>4 DEF Launched

\* No program: what was loaded is gone.
Unloaded(s, t, U) == Bare(t, U) /\ t.ret = "inval" /\ Apart(s, t, U)

LEMMA Cleanup ==
    ASSUME NEW U, NEW s, NEW r, r \in State, Refused(s, r, U)
    PROVE  Unloaded(s, SetRet(Destroy(SetRet(r, "ok")), "inval"), U)
  <1> DEFINE a == SetRet(r, "ok")
             d == Destroy(a)
             t == SetRet(d, "inval")
  <1>1. "ok" \in Outcome /\ "inval" \in Outcome
    BY DEF Outcome
  <1>2. Sound(a, U) /\ a.ret = "ok" /\ a.ref = r.ref /\ a.data = r.data
    BY <1>1, SetRetProps DEF Refused
  <1>. HIDE DEF a
  <1>3. Bare(d, U) /\ d.ret = "ok" /\ Apart(a, d, U)
    BY <1>2, Destroyed
  <1>. HIDE DEF d
  <1>4. d \in State
    BY <1>3 DEF Bare
  <1>5. Bare(t, U) /\ t.ret = "inval" /\ t.ref = d.ref /\ t.data = d.data
    BY <1>1, <1>3, <1>4, SetRetProps
  <1>. HIDE DEF t
  <1>6. Apart(s, t, U)
    BY <1>2, <1>3, <1>5 DEF Refused, Apart
  <1>. QED
    BY <1>5, <1>6 DEF Unloaded, t, d, a

LEMMA LoadIcode ==
    ASSUME NEW U, NEW s, Bare(s, U), s.ret = "ok", NEW image \in IMAGES
    PROVE  LET t == load_icode(s, image)
           IN  t \in State /\ (t.ret \in {"swap_out", "overlap"} \/ Unloaded(s, t, U) \/ Launched(s, t, U, image))
  <1> DEFINE b == Create(s)
             l == LoadSegments(b, image)
             m == IF l.ret = "ok" THEN LoadStack(l) ELSE l
             r == IF b.ret = "ok" THEN (IF image.elf THEN m ELSE SetRet(b, "inval")) ELSE b
             t == load_icode(s, image)
  <1>1. t = IF r.ret # "inval" THEN r ELSE SetRet(Destroy(SetRet(r, "ok")), "inval")
    BY DEF load_icode, LoadSegments, Then, SetRet
  <1>2. /\ b \in State
        /\ \/ b.ret = "swap_out"
           \/ /\ b.ret = "ok" /\ Sound(b, U) /\ Apart(s, b, U) /\ b.mm.areas = <<>>
              /\ \A v \in Virt : b.mm.pte[v].page = 0
    BY Created
  <1>. HIDE DEF b, t
  <1>3. CASE b.ret = "swap_out"
    <2>1. r = b
      BY <1>3
    <2>. QED
      BY <1>1, <1>2, <1>3, <2>1 DEF t
  <1>4. CASE b.ret # "swap_out"
    <2>1. b.ret = "ok" /\ Sound(b, U) /\ Apart(s, b, U) /\ b.mm.areas = <<>> /\ b \in State
      BY <1>2, <1>4
    <2>2. r \in State /\ (r.ret \in {"swap_out", "overlap"} \/ Refused(b, r, U) \/ Launched(b, r, U, image))
      <3>1. CASE ~image.elf
        <4>1. r = SetRet(b, "inval") /\ "inval" \in Outcome
          BY <2>1, <3>1 DEF Outcome
        <4>. HIDE DEF r
        <4>2. r \in State /\ r.ret = "inval" /\ Sound(r, U) /\ r.ref = b.ref /\ r.data = b.data
          BY <2>1, <4>1, SetRetProps
        <4>3. Refused(b, r, U)
          BY <4>2 DEF Refused, Apart
        <4>. QED
          BY <4>2, <4>3
      <3>2. CASE image.elf
        <4>1. r = m
          BY <2>1, <3>2
        <4>2. l \in State /\ \/ l.ret \in {"swap_out", "overlap"}
                             \/ Refused(b, l, U)
                             \/ Segments(b, l, U, image, Len(image.segments) + 1)
          BY <2>1, SegmentLoop
        <4>. HIDE DEF l, r
        <4>3. CASE l.ret \in {"swap_out", "overlap"} \/ Refused(b, l, U)
          <5>1. m = l
            BY <4>3 DEF Refused
          <5>. QED
            BY <4>1, <4>2, <4>3, <5>1
        <4>4. CASE Segments(b, l, U, image, Len(image.segments) + 1)
          <5>1. Sound(l, U) /\ l.ret = "ok" /\ Apart(b, l, U)
            BY <4>4 DEF Segments
          <5>2. r = LoadStack(l)
            BY <4>1, <5>1
          <5>3. r \in State /\ (r.ret \in {"swap_out", "overlap"} \/ Refused(l, r, U) \/ Stacked(l, r, U))
            BY <5>1, <5>2, Stack
          <5>4. Refused(l, r, U) => Refused(b, r, U)
            BY <5>1, ApartThen DEF Refused
          <5>5. Stacked(l, r, U) => Launched(b, r, U, image)
            BY <4>4, LaunchedThen
          <5>. QED
            BY <5>3, <5>4, <5>5
        <4>. QED
          BY <4>2, <4>3, <4>4
      <3>. QED
        BY <3>1, <3>2, ImagesAssumption
    <2>. HIDE DEF r
    <2>3. CASE Refused(b, r, U)
      <3>1. t = SetRet(Destroy(SetRet(r, "ok")), "inval")
        BY <1>1, <2>3 DEF Refused
      <3>2. Unloaded(b, t, U)
        BY <2>2, <2>3, <3>1, Cleanup
      <3>3. Unloaded(s, t, U) /\ t \in State
        BY <2>1, <3>2, ApartThen DEF Unloaded, Bare
      <3>. QED
        BY <3>3 DEF t
    <2>4. CASE Launched(b, r, U, image)
      <3>1. t = r
        BY <1>1, <2>4 DEF Launched
      <3>2. Launched(s, r, U, image)
        BY <2>1, <2>4, ApartThen DEF Launched
      <3>. QED
        BY <2>2, <3>1, <3>2 DEF t
    <2>5. CASE r.ret \in {"swap_out", "overlap"}
      <3>1. t = r
        BY <1>1, <2>5
      <3>. QED
        BY <2>2, <2>5, <3>1 DEF t
    <2>. QED
      BY <2>2, <2>3, <2>4, <2>5
  <1>. QED
    BY <1>2, <1>3, <1>4
-----------------------------------------------------------------------------
(* Page faults, and copies to user memory.                                  *)

\* An area lets page v be read, be written.
Permits(m, v, write) ==
    \E a \in AreasOf(m) : Lies(v, a) /\ IF write THEN "W" \in a.flags ELSE {"R", "X"} \cap a.flags # {}

\* The page is mapped, to a new one if it was not.
Touched(s, t, U, v, write) ==
    /\ Sound(t, U) /\ Step(s, t, U, {v}) /\ t.ret = "ok"
    /\ t.mm.pte[v].page # 0 /\ (s.mm.pte[v].page # 0 => t = s)
    /\ Permits(t.mm, v, write) /\ Permits(s.mm, v, write)

\* Refused, which only happens to an access that no area permits.
Faults(s, t, v, write) == t.ret = "fault" /\ ~Permits(s.mm, v, write)

\* The rights on page v are those of its area.
LEMMA RightsOfArea ==
    ASSUME NEW m \in Space, Maps(m), NEW a \in AreasOf(m), NEW v \in Virt, Lies(v, a)
    PROVE  Rights(m, v) = a.flags /\ find_vma(m, v) # {}
  <1>1. PICK i \in DOMAIN m.areas : a = m.areas[i]
    BY DEF AreasOf
  <1>2. i \in find_vma(m, v)
    BY <1>1 DEF find_vma, Lies
  <1>3. ASSUME NEW j \in find_vma(m, v) PROVE m.areas[j] = a
    <2>1. j \in DOMAIN m.areas /\ m.areas[j] \in AreasOf(m) /\ Lies(v, m.areas[j])
      BY DEF find_vma, AreasOf, Lies
    <2>. QED
      BY <2>1, OneArea
  <1>. HIDE DEF find_vma
  <1>4. Rights(m, v) = a.flags
    BY <1>1, <1>2, <1>3 DEF Rights
  <1>. QED
    BY <1>2, <1>4

LEMMA RightsOfNone ==
    ASSUME NEW m \in Space, NEW v \in Virt, ~\E a \in AreasOf(m) : Lies(v, a)
    PROVE  find_vma(m, v) = {}
  BY DEF find_vma, AreasOf, Lies

LEMMA PageFault ==
    ASSUME NEW U, NEW s, Sound(s, U), s.ret = "ok", NEW v \in Virt, NEW write \in BOOLEAN,
           s.mm.pte[v].page # 0 => write /\ ~s.mm.pte[v].w
    PROVE  LET t == do_pgfault(s, v, write)
           IN  t \in State /\ (t.ret = "swap_out" \/ Faults(s, t, v, write) \/ Touched(s, t, U, v, write))
  <1> DEFINE flags == Rights(s.mm, v)
             bad == find_vma(s.mm, v) = {} \/ (write /\ "W" \notin flags) \/ (~write /\ {"R", "X"} \cap flags = {})
             g == get_pte(s, v)
             t == do_pgfault(s, v, write)
  <1>1. t = IF bad THEN SetRet(s, "fault")
            ELSE IF g.ret = "ok"
                 THEN (IF s.mm.pte[v].page # 0 THEN SetRet(g, "readonly") ELSE pgdir_alloc_page(g, v, "W" \in flags))
                 ELSE g
    BY DEF do_pgfault, Then, SetRet, Rights
  <1>. HIDE DEF t
  <1>2. s \in State /\ s.mm \in Space /\ Maps(s.mm)
    BY SoundProps
  <1>3. Permits(s.mm, v, write) <=> ~bad
    <2>1. CASE \E a \in AreasOf(s.mm) : Lies(v, a)
      <3>1. PICK a \in AreasOf(s.mm) : Lies(v, a)
        BY <2>1
      <3>2. flags = a.flags /\ find_vma(s.mm, v) # {}
        BY <1>2, <3>1, RightsOfArea
      <3>3. \A b \in AreasOf(s.mm) : Lies(v, b) => b = a
        BY <1>2, <3>1, OneArea
      <3>. HIDE DEF flags
      <3>. QED
        BY <3>1, <3>2, <3>3 DEF Permits
    <2>2. CASE ~\E a \in AreasOf(s.mm) : Lies(v, a)
      BY <1>2, <2>2, RightsOfNone DEF Permits
    <2>. QED
      BY <2>1, <2>2
  <1>4. CASE bad
    <2>1. t = SetRet(s, "fault") /\ "fault" \in Outcome
      BY <1>1, <1>4 DEF Outcome
    <2>2. t \in State /\ t.ret = "fault"
      BY <1>2, <2>1, SetRetProps
    <2>. HIDE DEF bad
    <2>. QED
      BY <1>3, <1>4, <2>2 DEF Faults, t
  <1>5. CASE ~bad
    <2>. HIDE DEF bad
    <2>1. PICK a \in AreasOf(s.mm) : Lies(v, a) /\ (write => "W" \in a.flags) /\ flags = a.flags
      <3>1. PICK a \in AreasOf(s.mm) : Lies(v, a) /\ IF write THEN "W" \in a.flags ELSE {"R", "X"} \cap a.flags # {}
        BY <1>3, <1>5 DEF Permits
      <3>. QED
        BY <1>2, <3>1, RightsOfArea
    <2>. HIDE DEF flags
    <2>2. s.mm.pte[v].page = 0
      <3>1. SUFFICES ASSUME s.mm.pte[v].page # 0 PROVE FALSE
        OBVIOUS
      <3>2. PICK b \in AreasOf(s.mm) : Lies(v, b) /\ (s.mm.pte[v].w <=> "W" \in b.flags)
        BY <1>2, <3>1 DEF Maps, EntryFits
      <3>3. b = a
        BY <1>2, <2>1, <3>2, OneArea
      <3>. QED
        BY <2>1, <3>1, <3>2, <3>3
    <2>3. Covered(s.mm, v)
      BY <2>1 DEF Covered
    <2>4. Tabled(s, g, U, v)
      BY <2>3, GetPte
    <2>. HIDE DEF g
    <2>5. CASE g.ret = "swap_out"
      BY <1>1, <1>5, <2>4, <2>5 DEF Tabled, t
    <2>6. CASE g.ret # "swap_out"
      <3>1. g.ret = "ok" /\ Sound(g, U) /\ Step(s, g, U, {}) /\ g.mm.pte = s.mm.pte
        BY <2>4, <2>6 DEF Tabled
      <3>2. PICK w : w = ("W" \in flags)
        OBVIOUS
      <3>3. t = pgdir_alloc_page(g, v, w)
        BY <1>1, <1>5, <2>2, <3>1, <3>2
      <3>4. w \in BOOLEAN /\ g.mm.pte[v].page = 0 /\ AreasOf(g.mm) = AreasOf(s.mm)
        BY <2>2, <3>1, <3>2 DEF Step, AreasOf
      <3>5. Allowed(g.mm, v, w)
        BY <2>1, <3>2, <3>4 DEF Allowed
      <3>6. t \in State /\ (t.ret = "swap_out" \/ Filled(g, t, U, v, w))
        BY <3>1, <3>3, <3>4, <3>5, AllocInsert
      <3>7. ASSUME Filled(g, t, U, v, w) PROVE Touched(s, t, U, v, write)
        <4>1. PICK f \in Frames : Entered(g, t, U, v, f, w)
          BY <3>7 DEF Filled
        <4>2. Sound(t, U) /\ Step(g, t, U, {v}) /\ t.ret = "ok" /\ t.mm.pte = Put(g.mm.pte, v, [page |-> f, w |-> w])
          BY <4>1 DEF Entered
        <4>3. t.mm.pte[v].page # 0
          <5>1. g.mm.pte \in [Virt -> Entry]
            BY <3>1, SoundProps, SpaceProps
          <5>. QED
            BY <4>2, <5>1, FrameProps DEF Put
        <4>4. Step(s, t, U, {v})
          BY <3>1, <4>2, StepThen
        <4>5. Permits(t.mm, v, write) /\ Permits(s.mm, v, write)
          <5>1. AreasOf(t.mm) = AreasOf(s.mm)
            BY <4>4 DEF Step, AreasOf
          <5>. QED
            BY <1>3, <1>5, <5>1 DEF Permits
        <4>. QED
          BY <2>2, <4>2, <4>3, <4>4, <4>5 DEF Touched
      <3>. QED
        BY <3>6, <3>7 DEF t
    <2>. QED
      BY <2>5, <2>6
  <1>. QED
    BY <1>4, <1>5

LEMMA AccessPage ==
    ASSUME NEW U, NEW s, Sound(s, U), s.ret = "ok", NEW v \in Virt, NEW write \in BOOLEAN
    PROVE  LET t == Access(s, v, write)
           IN  /\ t \in State
               /\ \/ t.ret = "swap_out"
                  \/ Faults(s, t, v, write)
                  \/ Touched(s, t, U, v, write)
                  \/ ~write /\ t = s /\ s.mm.pte[v].page # 0
  <1> DEFINE e == s.mm.pte[v]
             t == Access(s, v, write)
  <1>1. CASE e.page # 0 /\ (write => e.w)
    <2>1. t = s
      BY <1>1 DEF Access
    <2>2. CASE ~write
      BY <1>1, <2>1, <2>2, SoundProps
    <2>3. CASE write
      <3>1. PICK a \in AreasOf(s.mm) : Lies(v, a) /\ (e.w <=> "W" \in a.flags)
        BY <1>1, SoundProps DEF Maps, EntryFits
      <3>2. Permits(s.mm, v, write)
        BY <1>1, <2>3, <3>1 DEF Permits
      <3>3. Touched(s, s, U, v, write)
        BY <1>1, <3>2, StepSame DEF Touched
      <3>. QED
        BY <2>1, <3>3, SoundProps
    <2>. QED
      BY <2>2, <2>3
  <1>2. CASE ~(e.page # 0 /\ (write => e.w))
    <2>1. t = do_pgfault(s, v, write)
      BY <1>2 DEF Access
    <2>2. e.page # 0 => write /\ ~e.w
      BY <1>2
    <2>3. t \in State /\ (t.ret = "swap_out" \/ Faults(s, t, v, write) \/ Touched(s, t, U, v, write))
      BY <2>1, <2>2, PageFault
    <2>. QED
      BY <2>3
  <1>. QED
    BY <1>1, <1>2

\* x is stored to page v.
Written(s, t, U, v, x) == Loaded(s, t, U, v, x) /\ Permits(s.mm, v, TRUE)

LEMMA StorePage ==
    ASSUME NEW U, NEW s, Sound(s, U), s.ret = "ok", NEW v \in Virt, NEW x \in VALUES
    PROVE  LET t == Store(s, v, x)
           IN  t \in State /\ (t.ret = "swap_out" \/ Faults(s, t, v, TRUE) \/ Written(s, t, U, v, x))
  <1> DEFINE a == Access(s, v, TRUE)
             t == Store(s, v, x)
  <1>1. a \in State /\ (a.ret = "swap_out" \/ Faults(s, a, v, TRUE) \/ Touched(s, a, U, v, TRUE))
    BY AccessPage
  <1>2. t = IF a.ret = "ok" THEN SetData(a, a.mm.pte[v].page, x) ELSE a
    BY DEF Store, Then, SetData
  <1>. HIDE DEF a, t
  <1>3. CASE a.ret = "swap_out" \/ Faults(s, a, v, TRUE)
    <2>1. t = a
      BY <1>2, <1>3 DEF Faults
    <2>. QED
      BY <1>1, <1>3, <2>1 DEF t
  <1>4. CASE Touched(s, a, U, v, TRUE)
    <2>1. Sound(a, U) /\ Step(s, a, U, {v}) /\ a.ret = "ok" /\ a.mm.pte[v].page # 0 /\ Permits(s.mm, v, TRUE)
      BY <1>4 DEF Touched
    <2>2. t = SetData(a, a.mm.pte[v].page, x)
      BY <1>2, <2>1
    <2>3. Loaded(a, t, U, v, x)
      BY <2>1, <2>2, StoreMapped
    <2>4. Sound(t, U) /\ Step(a, t, U, {v}) /\ t.ret = "ok" /\ Holds(t, v, x)
      BY <2>3 DEF Loaded
    <2>5. Step(s, t, U, {v})
      BY <2>1, <2>4, StepThen
    <2>. QED
      BY <2>1, <2>4, <2>5, SoundProps DEF Written, Loaded, t
  <1>. QED
    BY <1>1, <1>3, <1>4

\* x is stored to the pages S.
WrittenTo(s, t, U, S, x) ==
    /\ Sound(t, U) /\ Step(s, t, U, S) /\ t.ret = "ok"
    /\ \A v \in S : Holds(t, v, x)

StoreAll(s, lo, hi, x) == LET store(t, v) == Store(t, v, x) IN Each(s, lo, hi, store)

LEMMA StoreRange ==
    ASSUME NEW U, NEW s, Sound(s, U), s.ret = "ok", NEW lo \in 0 .. NVIRT, NEW hi \in 0 .. NVIRT, lo <= hi,
           NEW k \in VALUES, \A v \in lo .. (hi - 1) : Permits(s.mm, v, TRUE)
    PROVE  LET t == StoreAll(s, lo, hi, k)
           IN  t \in State /\ (t.ret = "swap_out" \/ WrittenTo(s, t, U, lo .. (hi - 1), k))
  <1> DEFINE S(i) == lo .. (i - 1)
             I == {y \in State \X (lo .. hi) : y[1].ret = "swap_out" \/ WrittenTo(s, y[1], U, S(y[2]), k)}
             Turn(t, v) == Store(t, v, k)
             Op(t, i) == IF t.ret = "ok" THEN Turn(t, i) ELSE t
             F == [x \in I |-> Op(x[1], x[2])]
             c == CHOOSE g : g = [i \in lo .. hi |-> IF i = lo THEN s ELSE Op(g[i - 1], i - 1)]
  <1>1. lo \in Nat /\ hi \in Nat /\ lo <= hi /\ \A i \in lo .. (hi - 1) : i \in lo .. hi /\ i + 1 \in lo .. hi /\ i \in Nat /\ i \in Virt
    BY FrameProps
  <1>2. StoreAll(s, lo, hi, k) = c[hi]
    BY DEF StoreAll, Each, Then
  <1>3. <<s, lo>> \in I
    <2>1. S(lo) = {}
      BY <1>1
    <2>2. WrittenTo(s, s, U, S(lo), k)
      BY <2>1, StepSame DEF WrittenTo
    <2>. HIDE DEF S
    <2>3. s \in State /\ lo \in lo .. hi
      BY <1>1, SoundProps
    <2>. QED
      BY <2>2, <2>3
  <1>10. \A i \in lo .. (hi - 1) : S(i + 1) = S(i) \cup {i} /\ i \notin S(i) /\ S(i) \in SUBSET Virt
    BY <1>1, FrameProps
  <1>11. S(hi) = lo .. (hi - 1)
    OBVIOUS
  <1>. HIDE DEF S
  <1>4. ASSUME NEW i \in lo .. (hi - 1), NEW t, <<t, i>> \in I PROVE <<Op(t, i), i + 1>> \in I
    <2>0. t \in State /\ i + 1 \in lo .. hi
      BY <1>1, <1>4
    <2>1. CASE t.ret = "swap_out"
      BY <2>0, <2>1
    <2>2. CASE WrittenTo(s, t, U, S(i), k)
      <3>1. Sound(t, U) /\ t.ret = "ok" /\ Step(s, t, U, S(i))
        BY <2>2 DEF WrittenTo
      <3>2. i \in Virt /\ S(i + 1) = S(i) \cup {i} /\ S(i) \in SUBSET Virt
        BY <1>1, <1>10
      <3>3. Op(t, i) = Store(t, i, k)
        BY <3>1
      <3>. HIDE DEF Op
      <3>4. PICK r : r = Op(t, i)
        OBVIOUS
      <3>5. r \in State /\ (r.ret = "swap_out" \/ Faults(t, r, i, TRUE) \/ Written(t, r, U, i, k))
        BY <3>1, <3>2, <3>3, <3>4, StorePage
      <3>6. ~Faults(t, r, i, TRUE)
        <4>1. AreasOf(t.mm) = AreasOf(s.mm)
          BY <3>1 DEF Step, AreasOf
        <4>. QED
          BY <4>1 DEF Faults, Permits
      <3>7. ASSUME Written(t, r, U, i, k) PROVE WrittenTo(s, r, U, S(i) \cup {i}, k)
        <4>1. Sound(r, U) /\ Step(t, r, U, {i}) /\ r.ret = "ok" /\ Holds(r, i, k)
          BY <3>7 DEF Written, Loaded
        <4>2. Step(s, r, U, S(i) \cup {i})
          <5>1. Step(t, r, U, S(i) \cup {i})
            BY <4>1 DEF Step, Keeps
          <5>. QED
            BY <3>1, <5>1, StepThen
        <4>3. ASSUME NEW h \in S(i), h # i PROVE Holds(r, h, k)
          <5>1. Holds(t, h, k) /\ h \in Virt \ {i}
            BY <2>2, <3>2, <4>3 DEF WrittenTo
          <5>. QED
            BY <4>1, <5>1 DEF Step, Keeps, Holds
        <4>. QED
          BY <4>1, <4>2, <4>3 DEF WrittenTo
      <3>. QED
        BY <2>0, <3>2, <3>4, <3>5, <3>6, <3>7
    <2>. QED
      BY <1>4, <2>1, <2>2
  <1>. HIDE DEF I
  <1>5. \A i \in lo .. (hi - 1) : \A t : <<t, i>> \in I => F[<<t, i>>] = Op(t, i)
    <2>. HIDE DEF Op
    <2>. QED
      OBVIOUS
  <1>. HIDE DEF F, Op
  <1>6. \E g : g = [i \in lo .. hi |-> IF i = lo THEN s ELSE Op(g[i - 1], i - 1)]
    <2>1. \A i \in lo .. (hi - 1) : \A t : <<t, i>> \in I => <<F[<<t, i>>], i + 1>> \in I
      BY <1>4, <1>5
    <2>2. PICK g : IsRun(g, lo, hi, s, F) /\ \A i \in lo .. hi : <<g[i], i>> \in I
      BY <1>1, <1>3, <2>1, LoopRuns
    <2>3. \A i \in lo .. hi : i # lo => i - 1 \in lo .. (hi - 1) /\ i - 1 \in lo .. hi
      BY <1>1
    <2>4. \A i \in lo .. hi : i # lo => F[<<g[i - 1], i - 1>>] = Op(g[i - 1], i - 1)
      BY <1>5, <2>2, <2>3
    <2>. QED
      BY <2>2, <2>4 DEF IsRun
  <1>7. c = [i \in lo .. hi |-> IF i = lo THEN s ELSE Op(c[i - 1], i - 1)]
    BY <1>6
  <1>. HIDE DEF c
  <1>8. c[lo] = s /\ \A i \in lo .. (hi - 1) : c[i + 1] = Op(c[i], i)
    <2>1. lo \in lo .. hi /\ \A i \in lo .. (hi - 1) : i + 1 \in lo .. hi /\ i + 1 # lo /\ (i + 1) - 1 = i
      BY <1>1
    <2>. QED
      BY <1>7, <2>1
  <1>9. <<c[hi], hi>> \in I
    <2>1. <<c[lo], lo>> \in I
      BY <1>3, <1>8
    <2>2. \A i \in lo .. (hi - 1) : <<c[i], i>> \in I => <<c[i + 1], i + 1>> \in I
      BY <1>4, <1>8
    <2>. QED
      BY <1>1, <2>1, <2>2, LoopInv
  <1>. QED
    BY <1>2, <1>9, <1>11 DEF I
-----------------------------------------------------------------------------
(* Who holds which page, over all processes.                                *)

NoPages == [d \in Place |-> 0]

\* Each page is free, or in one kernel stack, or at one place of one address space.
Held(free, ref, A, K) ==
    /\ A \in [USERS -> [Place -> Frames \cup {0}]] /\ K \in [USERS -> SUBSET Frames] /\ free \subseteq Frames
    /\ \A p \in USERS : \A f \in K[p] : f \notin free /\ ref[f] = 0
    /\ \A p, q \in USERS : p # q => K[p] \cap K[q] = {}
    /\ \A p \in USERS, d \in Place : A[p][d] # 0 =>
         /\ A[p][d] \notin free /\ ref[A[p][d]] = Refs(d)
         /\ \A q \in USERS : A[p][d] \notin K[q]
         /\ \A q \in USERS, e \in Place : A[q][e] = A[p][d] => q = p /\ e = d
    /\ \A f \in Frames : \/ f \in free
                         \/ \E p \in USERS : f \in K[p]
                         \/ \E p \in USERS, d \in Place : A[p][d] = f
    /\ \A f \in free : ref[f] = 0

Own(a) == {a[d] : d \in Place} \ {0}

\* What a process may use: the free pages and its own.
LEMMA HeldExact ==
    ASSUME NEW free, NEW ref, NEW A, NEW K, Held(free, ref, A, K), NEW p \in USERS
    PROVE  Exact(free, ref, A[p], free \cup Own(A[p]))
  <1> DEFINE a == A[p]
             U == free \cup Own(a)
  <1>1. a \in [Place -> Frames \cup {0}] /\ free \subseteq U /\ U \subseteq Frames
    BY DEF Held, Own
  <1>2. ASSUME NEW d \in Place, a[d] # 0
        PROVE  a[d] \in U \ free /\ ref[a[d]] = Refs(d) /\ \A e \in Place : a[e] = a[d] => e = d
    BY <1>2 DEF Held, Own
  <1>3. \A f \in U : f \in free \/ \E d \in Place : a[d] = f
    BY DEF Own
  <1>4. \A f \in free : ref[f] = 0
    BY DEF Held
  <1>. HIDE DEF U
  <1>. QED
    BY <1>1, <1>2, <1>3, <1>4 DEF Exact, U

\* What one process does with these pages leaves the rest as it is.
LEMMA HeldStep ==
    ASSUME NEW free, NEW ref, NEW A, NEW K, Held(free, ref, A, K), NEW p \in USERS, NEW U, U = free \cup Own(A[p]),
           NEW free2, NEW ref2, NEW b, Exact(free2, ref2, b, U), \A f \in Frames \ U : ref2[f] = ref[f]
    PROVE  Held(free2, ref2, Put(A, p, b), K)
  <1> DEFINE B == Put(A, p, b)
  <1>1. /\ A \in [USERS -> [Place -> Frames \cup {0}]] /\ K \in [USERS -> SUBSET Frames] /\ free \subseteq Frames
        /\ b \in [Place -> Frames \cup {0}] /\ free2 \subseteq U /\ U \subseteq Frames
    BY DEF Held, Exact
  <1>2. B \in [USERS -> [Place -> Frames \cup {0}]] /\ B[p] = b /\ \A q \in USERS : q # p => B[q] = A[q]
    BY <1>1 DEF Put
  <1>. HIDE DEF B
  <1>3. \A q \in USERS : \A f \in K[q] : f \in Frames \ U /\ f \notin free2 /\ ref2[f] = 0
    <2> SUFFICES ASSUME NEW q \in USERS, NEW f \in K[q] PROVE f \in Frames \ U /\ f \notin free2 /\ ref2[f] = 0
      OBVIOUS
    <2>1. f \notin free /\ f \in Frames /\ ref[f] = 0
      BY <1>1 DEF Held
    <2>2. f \notin Own(A[p])
      BY DEF Held, Own
    <2>. QED
      BY <1>1, <2>1, <2>2
  <1>4. \A q \in USERS, d \in Place : q # p /\ A[q][d] # 0 => A[q][d] \in Frames \ U
    <2> SUFFICES ASSUME NEW q \in USERS, NEW d \in Place, q # p, A[q][d] # 0 PROVE A[q][d] \in Frames \ U
      OBVIOUS
    <2>1. A[q][d] \notin free /\ A[q][d] \in Frames
      BY <1>1 DEF Held
    <2>2. A[q][d] \notin Own(A[p])
      BY DEF Held, Own
    <2>. QED
      BY <2>1, <2>2
  <1>5. \A d \in Place : b[d] # 0 => b[d] \in U \ free2 /\ ref2[b[d]] = Refs(d) /\ \A e \in Place : b[e] = b[d] => e = d
    BY DEF Exact
  <1>6. ASSUME NEW q \in USERS, NEW d \in Place, B[q][d] # 0
        PROVE  /\ B[q][d] \notin free2 /\ ref2[B[q][d]] = Refs(d)
               /\ \A r \in USERS : B[q][d] \notin K[r]
               /\ \A r \in USERS, e \in Place : B[r][e] = B[q][d] => r = q /\ e = d
    <2>1. CASE q = p
      <3>1. B[q][d] = b[d] /\ b[d] \in U \ free2 /\ ref2[b[d]] = Refs(d)
        BY <1>2, <1>5, <1>6, <2>1
      <3>2. \A r \in USERS : b[d] \notin K[r]
        BY <1>3, <3>1
      <3>3. ASSUME NEW r \in USERS, NEW e \in Place, B[r][e] = b[d] PROVE r = q /\ e = d
        <4>1. r = p
          <5>1. SUFFICES ASSUME r # p PROVE FALSE
            OBVIOUS
          <5>2. A[r][e] = b[d] /\ A[r][e] # 0
            BY <1>2, <1>6, <3>1, <3>3, <5>1
          <5>. QED
            BY <1>4, <3>1, <5>1, <5>2
        <4>. QED
          BY <1>2, <1>5, <1>6, <2>1, <3>1, <3>3, <4>1
      <3>. QED
        BY <3>1, <3>2, <3>3
    <2>2. CASE q # p
      <3>1. B[q][d] = A[q][d] /\ A[q][d] # 0 /\ A[q][d] \in Frames \ U
        BY <1>2, <1>4, <1>6, <2>2
      <3>2. ref2[A[q][d]] = Refs(d) /\ \A r \in USERS : A[q][d] \notin K[r]
        BY <3>1 DEF Held
      <3>3. ASSUME NEW r \in USERS, NEW e \in Place, B[r][e] = A[q][d] PROVE r = q /\ e = d
        <4>1. CASE r = p
          <5>1. b[e] = A[q][d]
            BY <1>2, <3>3, <4>1
          <5>. QED
            BY <1>5, <3>1, <5>1
        <4>2. CASE r # p
          <5>1. A[r][e] = A[q][d]
            BY <1>2, <3>3, <4>2
          <5>. QED
            BY <3>1, <5>1 DEF Held
        <4>. QED
          BY <4>1, <4>2
      <3>4. A[q][d] \notin free2
        BY <1>1, <3>1
      <3>. QED
        BY <3>1, <3>2, <3>3, <3>4
    <2>. QED
      BY <2>1, <2>2
  <1>7. ASSUME NEW f \in Frames
        PROVE  f \in free2 \/ (\E q \in USERS : f \in K[q]) \/ \E q \in USERS, d \in Place : B[q][d] = f
    <2>1. CASE f \in U
      <3>1. f \in free2 \/ \E d \in Place : b[d] = f
        BY <2>1 DEF Exact
      <3>. QED
        BY <1>2, <3>1
    <2>2. CASE f \notin U
      <3>1. f \notin free
        BY <2>2
      <3>2. (\E q \in USERS : f \in K[q]) \/ \E q \in USERS, d \in Place : A[q][d] = f
        BY <3>1 DEF Held
      <3>3. ASSUME NEW q \in USERS, NEW d \in Place, A[q][d] = f PROVE B[q][d] = f
        <4>1. q # p
          <5>1. f # 0
            BY FrameProps
          <5>. QED
            BY <2>2, <3>3, <5>1 DEF Own
        <4>. QED
          BY <1>2, <3>3, <4>1
      <3>. QED
        BY <3>2, <3>3
    <2>. QED
      BY <2>1, <2>2
  <1>8. \A f \in free2 : ref2[f] = 0
    BY DEF Exact
  <1>9. free2 \subseteq Frames
    BY <1>1
  <1>10. \A q, r \in USERS : q # r => K[q] \cap K[r] = {}
    BY DEF Held
  <1>. QED
    BY <1>1, <1>2, <1>3, <1>6, <1>7, <1>8, <1>9, <1>10 DEF Held, B

\* A kernel stack is taken from the free pages.
LEMMA HeldTake ==
    ASSUME NEW free, NEW ref, NEW A, NEW K, Held(free, ref, A, K), NEW p \in USERS, K[p] = {}, NEW T, T \subseteq free
    PROVE  Held(free \ T, ref, A, Put(K, p, T))
  <1> DEFINE L == Put(K, p, T)
  <1>1. A \in [USERS -> [Place -> Frames \cup {0}]] /\ K \in [USERS -> SUBSET Frames] /\ free \subseteq Frames
    BY DEF Held
  <1>2. L \in [USERS -> SUBSET Frames] /\ L[p] = T /\ \A q \in USERS : q # p => L[q] = K[q]
    <2>1. T \in SUBSET Frames
      BY <1>1
    <2>. QED
      BY <1>1, <2>1 DEF Put
  <1>. HIDE DEF L
  <1>3. \A q \in USERS : \A f \in L[q] : f \notin free \ T /\ ref[f] = 0
    BY <1>2 DEF Held
  <1>4. \A q, r \in USERS : q # r => L[q] \cap L[r] = {}
    <2>1. \A q \in USERS : q # p => K[q] \cap T = {}
      BY DEF Held
    <2>. QED
      BY <1>2, <2>1 DEF Held
  <1>5. ASSUME NEW q \in USERS, NEW d \in Place, A[q][d] # 0
        PROVE  /\ A[q][d] \notin free \ T /\ ref[A[q][d]] = Refs(d)
               /\ \A r \in USERS : A[q][d] \notin L[r]
               /\ \A r \in USERS, e \in Place : A[r][e] = A[q][d] => r = q /\ e = d
    <2>1. /\ A[q][d] \notin free /\ ref[A[q][d]] = Refs(d)
          /\ \A r \in USERS : A[q][d] \notin K[r]
          /\ \A r \in USERS, e \in Place : A[r][e] = A[q][d] => r = q /\ e = d
      BY <1>5 DEF Held
    <2>. QED
      BY <1>2, <2>1
  <1>6. \A f \in Frames : f \in free \ T \/ (\E q \in USERS : f \in L[q]) \/ \E q \in USERS, d \in Place : A[q][d] = f
    <2> TAKE f \in Frames
    <2>1. f \in free \/ (\E q \in USERS : f \in K[q]) \/ \E q \in USERS, d \in Place : A[q][d] = f
      BY DEF Held
    <2>2. \A q \in USERS : f \in K[q] => f \in L[q]
      BY <1>2
    <2>3. f \in T => f \in L[p]
      BY <1>2
    <2>. QED
      BY <2>1, <2>2, <2>3
  <1>7. \A f \in free \ T : ref[f] = 0
    BY DEF Held
  <1>8. free \ T \subseteq Frames
    BY <1>1
  <1>. QED
    BY <1>1, <1>2, <1>3, <1>4, <1>5, <1>6, <1>7, <1>8 DEF Held, L

\* A kernel stack is freed.
LEMMA HeldDrop ==
    ASSUME NEW free, NEW ref, NEW A, NEW K, Held(free, ref, A, K), NEW p \in USERS,
           NEW ref2, \A f \in Frames : ref2[f] = IF f \in K[p] THEN 0 ELSE ref[f]
    PROVE  Held(free \cup K[p], ref2, A, Put(K, p, {}))
  <1> DEFINE L == Put(K, p, {})
  <1>1. A \in [USERS -> [Place -> Frames \cup {0}]] /\ K \in [USERS -> SUBSET Frames] /\ free \subseteq Frames
    BY DEF Held
  <1>2. L \in [USERS -> SUBSET Frames] /\ L[p] = {} /\ \A q \in USERS : q # p => L[q] = K[q]
    BY <1>1 DEF Put
  <1>. HIDE DEF L
  <1>3. \A q \in USERS : \A f \in L[q] : f \notin free \cup K[p] /\ ref2[f] = 0
    <2> SUFFICES ASSUME NEW q \in USERS, NEW f \in L[q] PROVE f \notin free \cup K[p] /\ ref2[f] = 0
      OBVIOUS
    <2>1. q # p /\ f \in K[q] /\ f \in Frames
      BY <1>1, <1>2
    <2>2. f \notin free /\ ref[f] = 0 /\ f \notin K[p]
      BY <2>1 DEF Held
    <2>. QED
      BY <2>1, <2>2
  <1>4. \A q, r \in USERS : q # r => L[q] \cap L[r] = {}
    BY <1>2 DEF Held
  <1>5. ASSUME NEW q \in USERS, NEW d \in Place, A[q][d] # 0
        PROVE  /\ A[q][d] \notin free \cup K[p] /\ ref2[A[q][d]] = Refs(d)
               /\ \A r \in USERS : A[q][d] \notin L[r]
               /\ \A r \in USERS, e \in Place : A[r][e] = A[q][d] => r = q /\ e = d
    <2>1. /\ A[q][d] \notin free /\ ref[A[q][d]] = Refs(d)
          /\ \A r \in USERS : A[q][d] \notin K[r]
          /\ \A r \in USERS, e \in Place : A[r][e] = A[q][d] => r = q /\ e = d
      BY <1>5 DEF Held
    <2>2. A[q][d] \in Frames
      BY <1>1, <1>5
    <2>3. \A r \in USERS : A[q][d] \notin L[r]
      BY <1>2, <2>1
    <2>. QED
      BY <2>1, <2>2, <2>3
  <1>6. \A f \in Frames : f \in free \cup K[p] \/ (\E q \in USERS : f \in L[q]) \/ \E q \in USERS, d \in Place : A[q][d] = f
    <2> TAKE f \in Frames
    <2>1. f \in free \/ (\E q \in USERS : f \in K[q]) \/ \E q \in USERS, d \in Place : A[q][d] = f
      BY DEF Held
    <2>2. \A q \in USERS : f \in K[q] => f \in K[p] \/ f \in L[q]
      BY <1>2
    <2>. QED
      BY <2>1, <2>2
  <1>7. \A f \in free \cup K[p] : ref2[f] = 0
    <2>1. \A f \in free : ref[f] = 0 /\ f \in Frames
      BY <1>1 DEF Held
    <2>. QED
      BY <1>1, <2>1
  <1>8. free \cup K[p] \subseteq Frames
    BY <1>1
  <1>. QED
    BY <1>1, <1>2, <1>3, <1>4, <1>5, <1>6, <1>7, <1>8 DEF Held, L
-----------------------------------------------------------------------------
(* The inductive invariant.                                                 *)

\* The pages of an address space, and of a kernel stack.
At(m) == IF m = NOMM THEN NoPages ELSE PageAt(m)

StackAt(k) == IF k = 0 THEN {} ELSE k .. (k + KSTACKPAGE - 1)

AllAt(m) == [p \in USERS |-> At(m[p])]

AllStacks(k) == [p \in USERS |-> StackAt(k[p])]

PagesHeld == Held(frame.free, frame.ref, AllAt(mm), AllStacks(kstack))

\* Only a process that runs has an address space, in which what is mapped fits.
SpacesFit ==
    /\ \A p \in USERS : mm[p] # NOMM => Maps(mm[p]) /\ kstack[p] # 0 /\ p \notin zombie
    /\ \A p \in zombie : kstack[p] # 0

IInv == SpaceTypeOK /\ PagesHeld /\ SpacesFit /\ stopped \notin {"readonly", "kernel"}

\* The pages that process p may use.
Usable(p) == frame.free \cup Own(At(mm[p]))

LEMMA TypeProps ==
    ASSUME SpaceTypeOK
    PROVE  /\ mm \in [USERS -> Space \cup {NOMM}] /\ kstack \in [USERS -> Frames \cup {0}] /\ zombie \subseteq USERS
           /\ frame = [free |-> frame.free, ref |-> frame.ref, data |-> frame.data]
           /\ frame.free \subseteq Frames /\ frame.ref \in [Frames -> Nat] /\ frame.data \in [Frames -> VALUES]
           /\ NOMM \notin Space
  BY ImagesAssumption DEF SpaceTypeOK

LEMMA NowProps ==
    ASSUME SpaceTypeOK, NEW m \in Space \cup {NOMM}
    PROVE  /\ Now(m) \in State /\ Now(m).free = frame.free /\ Now(m).ref = frame.ref /\ Now(m).data = frame.data
           /\ Now(m).mm = m /\ Now(m).ret = "ok"
  <1>1. Now(m) = [free |-> frame.free, ref |-> frame.ref, data |-> frame.data, mm |-> m, page |-> 0, ret |-> "ok"]
    BY DEF Now
  <1>2. frame.free \in SUBSET Frames /\ frame.ref \in [Frames -> Nat] /\ frame.data \in [Frames -> VALUES]
        /\ 0 \in Nat /\ "ok" \in Outcome
    BY TypeProps DEF Outcome
  <1>. QED
    BY <1>1, <1>2, MakeState

LEMMA NoneOwned == Own(NoPages) = {} /\ NoPages \in [Place -> Frames \cup {0}]
  <1>1. \A d \in Place : NoPages[d] = 0
    BY DEF NoPages
  <1>. QED
    BY <1>1 DEF Own, NoPages

LEMMA NowSound ==
    ASSUME IInv, NEW p \in USERS, mm[p] # NOMM
    PROVE  Sound(Now(mm[p]), Usable(p)) /\ Now(mm[p]).ret = "ok" /\ mm[p] \in Space
  <1>1. mm[p] \in Space /\ Maps(mm[p]) /\ SpaceTypeOK
    BY TypeProps DEF IInv, SpacesFit
  <1>2. Exact(frame.free, frame.ref, AllAt(mm)[p], frame.free \cup Own(AllAt(mm)[p]))
    BY HeldExact DEF IInv, PagesHeld
  <1>3. AllAt(mm)[p] = At(mm[p]) /\ At(mm[p]) = PageAt(mm[p])
    BY DEF AllAt, At
  <1>4. Exact(frame.free, frame.ref, PageAt(mm[p]), Usable(p))
    BY <1>2, <1>3 DEF Usable
  <1>. QED
    BY <1>1, <1>4, NowProps DEF Sound

LEMMA NowBare ==
    ASSUME IInv, NEW p \in USERS, mm[p] = NOMM
    PROVE  Bare(Now(NOMM), Usable(p)) /\ Now(NOMM).ret = "ok" /\ Usable(p) = frame.free
  <1>1. Usable(p) = frame.free
    BY NoneOwned DEF Usable, At
  <1>2. \A f \in frame.free : frame.ref[f] = 0
    BY DEF IInv, PagesHeld, Held
  <1>. QED
    BY <1>1, <1>2, NowProps, TypeProps DEF Bare, IInv

LEMMA BareExact ==
    ASSUME NEW U, NEW s, Bare(s, U)
    PROVE  Exact(s.free, s.ref, At(s.mm), U) /\ s \in State /\ s.mm = NOMM
  <1>1. At(s.mm) = NoPages /\ \A d \in Place : NoPages[d] = 0
    BY DEF At, NoPages, Bare
  <1>. QED
    BY <1>1, NoneOwned DEF Exact, Bare

LEMMA SoundExact ==
    ASSUME NEW U, NEW s, Sound(s, U)
    PROVE  Exact(s.free, s.ref, At(s.mm), U) /\ s \in State /\ s.mm \in Space /\ s.mm # NOMM /\ Maps(s.mm)
  <1>1. s.mm # NOMM
    BY SoundProps, ImagesAssumption
  <1>. QED
    BY <1>1, SoundProps DEF At

\* The state s of memory is what is left.
LEMMA NextTypes ==
    ASSUME SpaceTypeOK, NEW s \in State, Memory(s), NEW p \in USERS, mm' = [mm EXCEPT ![p] = s.mm],
           kstack' \in [USERS -> Frames \cup {0}], zombie' \subseteq USERS, stopped' = stopped
    PROVE  /\ SpaceTypeOK' /\ frame'.free = s.free /\ frame'.ref = s.ref /\ frame'.data = s.data
           /\ mm'[p] = s.mm /\ \A q \in USERS : q # p => mm'[q] = mm[q]
  <1>1. frame' = [free |-> s.free, ref |-> s.ref, data |-> s.data]
    BY DEF Memory
  <1>2. s.free \in SUBSET Frames /\ s.ref \in [Frames -> Nat] /\ s.data \in [Frames -> VALUES] /\ s.mm \in Space \cup {NOMM}
    BY StateProps
  <1>3. mm' \in [USERS -> Space \cup {NOMM}] /\ mm'[p] = s.mm /\ \A q \in USERS : q # p => mm'[q] = mm[q]
    BY <1>2, TypeProps
  <1>4. frame' \in [free : SUBSET Frames, ref : [Frames -> Nat], data : [Frames -> VALUES]]
    BY <1>1, <1>2
  <1>. QED
    BY <1>1, <1>3, <1>4 DEF SpaceTypeOK

LEMMA NextAt ==
    ASSUME mm \in [USERS -> Space \cup {NOMM}], NEW p \in USERS, NEW m, mm' = [mm EXCEPT ![p] = m]
    PROVE  AllAt(mm') = Put(AllAt(mm), p, At(m))
  <1>1. \A q \in USERS : mm'[q] = IF q = p THEN m ELSE mm[q]
    OBVIOUS
  <1>2. \A q \in USERS : At(mm'[q]) = IF q = p THEN At(m) ELSE At(mm[q])
    BY <1>1
  <1>. HIDE DEF At
  <1>. QED
    BY <1>2 DEF AllAt, Put, At

\* One process changes its address space, or loses or gains it, within its pages.
Left(p, s) ==
    /\ Apart(Now(mm[p]), s, Usable(p))
    /\ Sound(s, Usable(p)) \/ Bare(s, Usable(p))

LEMMA LeftHeld ==
    ASSUME IInv, NEW p \in USERS, NEW s, Left(p, s), Memory(s), mm' = [mm EXCEPT ![p] = s.mm],
           kstack' = kstack, zombie' \subseteq USERS, stopped' = stopped
    PROVE  SpaceTypeOK' /\ PagesHeld'
  <1>1. Exact(s.free, s.ref, At(s.mm), Usable(p)) /\ s \in State
    BY BareExact, SoundExact DEF Left
  <1>2. SpaceTypeOK /\ mm[p] \in Space \cup {NOMM} /\ kstack \in [USERS -> Frames \cup {0}]
    BY TypeProps DEF IInv
  <1>3. SpaceTypeOK' /\ frame'.free = s.free /\ frame'.ref = s.ref
    BY <1>1, <1>2, NextTypes
  <1>4. \A f \in Frames \ Usable(p) : s.ref[f] = frame.ref[f]
    BY <1>2, NowProps DEF Left, Apart
  <1>5. Usable(p) = frame.free \cup Own(AllAt(mm)[p])
    BY DEF Usable, AllAt
  <1>6. Held(s.free, s.ref, Put(AllAt(mm), p, At(s.mm)), AllStacks(kstack))
    BY <1>1, <1>4, <1>5, HeldStep DEF IInv, PagesHeld
  <1>7. AllAt(mm') = Put(AllAt(mm), p, At(s.mm))
    BY <1>2, NextAt, TypeProps
  <1>8. PagesHeld'
    BY <1>3, <1>6, <1>7 DEF PagesHeld
  <1>. QED
    BY <1>3, <1>8
-----------------------------------------------------------------------------
(* Steps.                                                                   *)

LEMMA StopHolds ==
    ASSUME IInv, NEW why \in {"swap_out", "overlap", "fault"}, Stop(why)
    PROVE  IInv'
  <1>1. mm' = mm /\ kstack' = kstack /\ zombie' = zombie /\ frame' = frame /\ stopped' = why
    BY DEF Stop
  <1>. QED
    BY <1>1 DEF IInv, SpaceTypeOK, PagesHeld, SpacesFit

\* The machine stops, or the process goes on with s, or it ends and s is left.
Stops == \E why \in {"swap_out", "overlap", "fault"} : Stop(why)

Lives(p, s) ==
    /\ kstack[p] # 0 /\ p \notin zombie /\ Sound(s, Usable(p)) /\ Apart(Now(mm[p]), s, Usable(p))
    /\ Memory(s) /\ mm' = [mm EXCEPT ![p] = s.mm] /\ UNCHANGED <<kstack, zombie, stopped>>

Dies(p, s) ==
    /\ kstack[p] # 0 /\ Bare(s, Usable(p)) /\ Apart(Now(mm[p]), s, Usable(p))
    /\ Memory(s) /\ mm' = [mm EXCEPT ![p] = NOMM] /\ zombie' = zombie \cup {p} /\ UNCHANGED <<kstack, stopped>>

LEMMA LivesHolds ==
    ASSUME IInv, NEW p \in USERS, NEW s, Lives(p, s)
    PROVE  IInv'
  <1>0. Sound(s, Usable(p)) /\ Apart(Now(mm[p]), s, Usable(p)) /\ Memory(s) /\ mm' = [mm EXCEPT ![p] = s.mm]
        /\ UNCHANGED <<kstack, zombie, stopped>> /\ kstack[p] # 0 /\ p \notin zombie
    BY DEF Lives
  <1>1. SpaceTypeOK' /\ PagesHeld'
    BY <1>0, LeftHeld, TypeProps DEF Left, IInv
  <1>2. Maps(s.mm)
    BY <1>0, SoundProps
  <1>3. \A q \in USERS : mm'[q] = IF q = p THEN s.mm ELSE mm[q]
    BY <1>0, TypeProps DEF IInv
  <1>4. SpacesFit'
    BY <1>0, <1>2, <1>3 DEF IInv, SpacesFit
  <1>. QED
    BY <1>0, <1>1, <1>4 DEF IInv

LEMMA DiesHolds ==
    ASSUME IInv, NEW p \in USERS, NEW s, Dies(p, s)
    PROVE  IInv'
  <1>0. Bare(s, Usable(p)) /\ Apart(Now(mm[p]), s, Usable(p)) /\ Memory(s) /\ mm' = [mm EXCEPT ![p] = NOMM]
        /\ zombie' = zombie \cup {p} /\ UNCHANGED <<kstack, stopped>> /\ kstack[p] # 0
    BY DEF Dies
  <1>1. s.mm = NOMM /\ zombie' \subseteq USERS
    BY <1>0, TypeProps DEF Bare, IInv
  <1>2. SpaceTypeOK' /\ PagesHeld'
    BY <1>0, <1>1, LeftHeld DEF Left
  <1>3. \A q \in USERS : mm'[q] = IF q = p THEN NOMM ELSE mm[q]
    BY <1>0, TypeProps DEF IInv
  <1>4. SpacesFit'
    BY <1>0, <1>3 DEF IInv, SpacesFit
  <1>. QED
    BY <1>0, <1>2, <1>4 DEF IInv

LEMMA ExitDies ==
    ASSUME IInv, NEW p \in USERS, SpaceExit(p)
    PROVE  \E s : Dies(p, s)
  <1> DEFINE s == Destroy(Now(mm[p]))
  <1>1. mm[p] # NOMM /\ kstack[p] # 0 /\ mm' = [mm EXCEPT ![p] = NOMM] /\ zombie' = zombie \cup {p}
        /\ Memory(s) /\ UNCHANGED <<kstack, stopped>>
    BY DEF SpaceExit, HasSpace, Runs
  <1>2. Bare(s, Usable(p)) /\ Apart(Now(mm[p]), s, Usable(p))
    BY <1>1, NowSound, Destroyed
  <1>. HIDE DEF s
  <1>. QED
    BY <1>1, <1>2 DEF Dies

LEMMA ExecLeads ==
    ASSUME IInv, NEW p \in USERS, NEW image \in IMAGES, SpaceExec(p, image)
    PROVE  \/ Stops
           \/ \E s : Dies(p, s)
           \/ \E s, a : Lives(p, s) /\ Launched(a, s, Usable(p), image)
  <1> DEFINE a == IF mm[p] = NOMM THEN Now(NOMM) ELSE Destroy(Now(mm[p]))
             s == load_icode(a, image)
  <1>1. kstack[p] # 0 /\ p \notin zombie
        /\ IF StopsAt(s) THEN Stop(s.ret)
           ELSE /\ mm' = [mm EXCEPT ![p] = s.mm] /\ zombie' = (IF s.ret = "ok" THEN zombie ELSE zombie \cup {p})
                /\ Memory(s) /\ UNCHANGED <<kstack, stopped>>
    BY DEF SpaceExec, Runs
  <1>2. Bare(a, Usable(p)) /\ a.ret = "ok" /\ Apart(Now(mm[p]), a, Usable(p))
    <2>1. CASE mm[p] = NOMM
      BY <2>1, NowBare, ApartSame
    <2>2. CASE mm[p] # NOMM
      BY <2>2, NowSound, Destroyed
    <2>. QED
      BY <2>1, <2>2
  <1>. HIDE DEF a
  <1>3. s \in State /\ (s.ret \in {"swap_out", "overlap"} \/ Unloaded(a, s, Usable(p)) \/ Launched(a, s, Usable(p), image))
    BY <1>2, LoadIcode
  <1>. HIDE DEF s
  <1>4. CASE s.ret \in {"swap_out", "overlap"}
    BY <1>1, <1>4 DEF StopsAt, Stops
  <1>5. CASE Unloaded(a, s, Usable(p))
    <2>1. Bare(s, Usable(p)) /\ s.ret = "inval" /\ s.mm = NOMM /\ Apart(Now(mm[p]), s, Usable(p))
      BY <1>2, <1>5, ApartThen DEF Unloaded, Bare
    <2>. QED
      BY <1>1, <2>1 DEF StopsAt, Dies
  <1>6. CASE Launched(a, s, Usable(p), image)
    <2>1. Sound(s, Usable(p)) /\ s.ret = "ok" /\ Apart(Now(mm[p]), s, Usable(p))
      BY <1>2, <1>6, ApartThen DEF Launched
    <2>2. Lives(p, s)
      BY <1>1, <2>1 DEF StopsAt, Lives
    <2>. QED
      BY <1>6, <2>2
  <1>. QED
    BY <1>3, <1>4, <1>5, <1>6

LEMMA AccessedLeads ==
    ASSUME NEW p \in USERS, HasSpace(p), NEW s, Accessed(p, s)
    PROVE  /\ s.ret \in {"swap_out", "fault"} => Stops
           /\ Sound(s, Usable(p)) /\ s.ret = "ok" /\ Apart(Now(mm[p]), s, Usable(p)) => Lives(p, s)
  <1>1. CASE s.ret \in {"swap_out", "fault"}
    BY <1>1 DEF Accessed, StopsAt, Stops
  <1>2. CASE s.ret = "ok"
    BY <1>2 DEF Accessed, StopsAt, HasSpace, Runs, Lives
  <1>. QED
    BY <1>1, <1>2

LEMMA ReadLeads ==
    ASSUME IInv, NEW p \in USERS, NEW v \in Virt, UserRead(p, v)
    PROVE  \/ Stops
           \/ \E s : Lives(p, s) /\ (s = Now(mm[p]) \/ Touched(Now(mm[p]), s, Usable(p), v, FALSE))
  <1> DEFINE n == Now(mm[p])
             s == Access(n, v, FALSE)
  <1>1. HasSpace(p) /\ Accessed(p, s)
    BY DEF UserRead
  <1>2. Sound(n, Usable(p)) /\ n.ret = "ok"
    BY <1>1, NowSound DEF HasSpace
  <1>. HIDE DEF n
  <1>3. s.ret = "swap_out" \/ Faults(n, s, v, FALSE) \/ Touched(n, s, Usable(p), v, FALSE) \/ s = n
    BY <1>2, AccessPage
  <1>. HIDE DEF s
  <1>4. CASE s.ret = "swap_out" \/ Faults(n, s, v, FALSE)
    BY <1>1, <1>4, AccessedLeads DEF Faults
  <1>5. CASE Touched(n, s, Usable(p), v, FALSE)
    <2>1. Sound(s, Usable(p)) /\ s.ret = "ok" /\ Apart(n, s, Usable(p))
      BY <1>5 DEF Touched, Step
    <2>2. Lives(p, s)
      BY <1>1, <2>1, AccessedLeads DEF n
    <2>. QED
      BY <1>5, <2>2 DEF n
  <1>6. CASE s = n
    <2>1. Sound(s, Usable(p)) /\ s.ret = "ok" /\ Apart(n, s, Usable(p))
      BY <1>2, <1>6, ApartSame
    <2>2. Lives(p, s)
      BY <1>1, <2>1, AccessedLeads DEF n
    <2>. QED
      BY <1>6, <2>2 DEF n
  <1>. QED
    BY <1>3, <1>4, <1>5, <1>6

LEMMA WriteLeads ==
    ASSUME IInv, NEW p \in USERS, NEW v \in Virt, NEW x \in STORES, UserWrite(p, v, x)
    PROVE  \/ Stops
           \/ \E s : Lives(p, s) /\ Written(Now(mm[p]), s, Usable(p), v, x)
  <1> DEFINE n == Now(mm[p])
             s == Store(n, v, x)
  <1>1. HasSpace(p) /\ Accessed(p, s) /\ x \in VALUES
    BY AddressSpaceAssumption DEF UserWrite
  <1>2. Sound(n, Usable(p)) /\ n.ret = "ok"
    BY <1>1, NowSound DEF HasSpace
  <1>. HIDE DEF n
  <1>3. s.ret = "swap_out" \/ Faults(n, s, v, TRUE) \/ Written(n, s, Usable(p), v, x)
    BY <1>1, <1>2, StorePage
  <1>. HIDE DEF s
  <1>4. CASE s.ret = "swap_out" \/ Faults(n, s, v, TRUE)
    BY <1>1, <1>4, AccessedLeads DEF Faults
  <1>5. CASE Written(n, s, Usable(p), v, x)
    <2>1. Sound(s, Usable(p)) /\ s.ret = "ok" /\ Apart(n, s, Usable(p))
      BY <1>5 DEF Written, Loaded, Step
    <2>2. Lives(p, s)
      BY <1>1, <2>1, AccessedLeads DEF n
    <2>. QED
      BY <1>5, <2>2 DEF n
  <1>. QED
    BY <1>3, <1>4, <1>5

\* What user_mem_check lets pass can be stored to.
LEMMA Checked ==
    ASSUME NEW m \in Space, NEW lo \in 0 .. NVIRT, NEW hi \in 0 .. NVIRT, user_mem_check(m, lo, hi, TRUE),
           NEW v \in lo .. (hi - 1)
    PROVE  Permits(m, v, TRUE)
  <1>1. PICK i \in find_vma(m, v) : "W" \in m.areas[i].flags
    BY DEF user_mem_check
  <1>2. m.areas[i] \in AreasOf(m) /\ Lies(v, m.areas[i])
    BY DEF find_vma, AreasOf, Lies
  <1>. QED
    BY <1>1, <1>2 DEF Permits

LEMMA CopyLeads ==
    ASSUME IInv, NEW p \in USERS, NEW lo \in 0 .. NVIRT, NEW hi \in 0 .. NVIRT, NEW x \in STORES, CopyToUser(p, lo, hi, x)
    PROVE  \/ Stops
           \/ /\ lo < hi /\ \A v \in lo .. (hi - 1) : Permits(mm[p], v, TRUE)
              /\ \E s : Lives(p, s) /\ WrittenTo(Now(mm[p]), s, Usable(p), lo .. (hi - 1), x)
  <1> DEFINE n == Now(mm[p])
             s == StoreAll(n, lo, hi, x)
  <1>1. /\ HasSpace(p) /\ lo < hi /\ user_mem_check(mm[p], lo, hi, TRUE) /\ x \in VALUES
        /\ IF s.ret = "fault" THEN Stop("kernel") ELSE Accessed(p, s)
    BY AddressSpaceAssumption DEF CopyToUser, StoreAll
  <1>2. Sound(n, Usable(p)) /\ n.ret = "ok" /\ mm[p] \in Space /\ n.mm = mm[p]
    BY <1>1, NowSound, NowProps DEF HasSpace, IInv
  <1>3. \A v \in lo .. (hi - 1) : Permits(n.mm, v, TRUE)
    BY <1>1, <1>2, Checked
  <1>4. lo <= hi
    BY <1>1
  <1>. HIDE DEF n
  <1>5. s.ret = "swap_out" \/ WrittenTo(n, s, Usable(p), lo .. (hi - 1), x)
    BY <1>1, <1>2, <1>3, <1>4, StoreRange
  <1>. HIDE DEF s
  <1>6. CASE s.ret = "swap_out"
    BY <1>1, <1>6, AccessedLeads
  <1>7. CASE WrittenTo(n, s, Usable(p), lo .. (hi - 1), x)
    <2>1. Sound(s, Usable(p)) /\ s.ret = "ok" /\ Apart(n, s, Usable(p))
      BY <1>7 DEF WrittenTo, Step
    <2>2. Lives(p, s)
      BY <1>1, <2>1, AccessedLeads DEF n
    <2>. QED
      BY <1>1, <1>2, <1>3, <1>7, <2>2 DEF n
  <1>. QED
    BY <1>5, <1>6, <1>7

\* The child gets a kernel stack T and a copy, from the pages that were free.
Forks(p, q, a, s, T) ==
    /\ a \in State /\ T \subseteq frame.free /\ a.free = frame.free \ T
    /\ a.ref = frame.ref /\ a.data = frame.data /\ a.page \in Frames /\ T = StackAt(a.page)
    /\ mm[p] \in Space /\ mm[q] = NOMM /\ kstack[q] = 0 /\ Duplicated(a, s, a.free, mm[p])
    /\ mm' = [mm EXCEPT ![q] = s.mm] /\ kstack' = [kstack EXCEPT ![q] = a.page]
    /\ Memory(s) /\ UNCHANGED <<zombie, stopped>>

LEMMA ForkLeads ==
    ASSUME IInv, NEW p \in USERS, NEW q \in USERS, SpaceFork(p, q)
    PROVE  Stops \/ \E a, s, T : Forks(p, q, a, s, T)
  <1> DEFINE n == Now(NOMM)
             a == alloc_pages(n, KSTACKPAGE)
             s == copy_mm(a, mm[p])
             T == a.page .. (a.page + KSTACKPAGE - 1)
  <1>1. /\ mm[p] # NOMM /\ kstack[p] # 0 /\ p \notin zombie /\ kstack[q] = 0 /\ a.ret = "ok"
        /\ IF StopsAt(s) THEN Stop(s.ret)
           ELSE /\ mm' = [mm EXCEPT ![q] = s.mm] /\ kstack' = [kstack EXCEPT ![q] = a.page]
                /\ Memory(s) /\ UNCHANGED <<zombie, stopped>>
    BY DEF SpaceFork, HasSpace, Runs
  <1>2. n \in State /\ n.free = frame.free /\ n.ref = frame.ref /\ n.data = frame.data /\ n.ret = "ok" /\ n.mm = NOMM
    BY NowProps DEF IInv
  <1>. HIDE DEF n
  <1>3. /\ a \in State /\ a.page \in frame.free /\ T \subseteq frame.free /\ a.free = frame.free \ T
        /\ a.ref = frame.ref /\ a.data = frame.data /\ a.mm = NOMM
    BY <1>1, <1>2, AllocPages, AddressSpaceAssumption DEF Took
  <1>. HIDE DEF a
  <1>4. mm[q] = NOMM /\ q \notin zombie /\ SpaceTypeOK /\ frame.free \subseteq Frames
    BY <1>1, TypeProps DEF IInv, SpacesFit
  <1>5. AllStacks(kstack)[q] = {} /\ AllAt(mm)[q] = NoPages
    BY <1>1, <1>4 DEF AllStacks, StackAt, AllAt, At
  <1>6. Held(a.free, a.ref, AllAt(mm), Put(AllStacks(kstack), q, T))
    <2>1. Held(frame.free, frame.ref, AllAt(mm), AllStacks(kstack))
      BY DEF IInv, PagesHeld
    <2>. HIDE DEF T
    <2>. QED
      BY <1>3, <1>5, <2>1, HeldTake
  <1>. HIDE DEF T
  <1>7. Bare(a, a.free)
    <2>1. \A f \in a.free : a.ref[f] = 0
      BY <1>6 DEF Held
    <2>. QED
      BY <1>3, <1>4, <2>1 DEF Bare
  <1>8. Elsewhere(mm[p], a.free)
    <2>1. mm[p] \in Space /\ Maps(mm[p])
      BY <1>1, <1>4, TypeProps DEF IInv, SpacesFit
    <2>2. ASSUME NEW v \in Virt, mm[p].pte[v].page # 0 PROVE mm[p].pte[v].page \in Frames \ a.free
      <3>1. AllAt(mm)[p] = PageAt(mm[p])
        BY <1>1 DEF AllAt, At
      <3>2. <<"page", v>> \in Place /\ AllAt(mm)[p][<<"page", v>>] = mm[p].pte[v].page
        BY <2>1, <3>1, PageAtProps, PlaceProps
      <3>3. mm[p].pte[v].page \notin a.free
        BY <1>6, <2>2, <3>2 DEF Held
      <3>. QED
        BY <2>1, <2>2, <3>3, PageAtProps
    <2>. QED
      BY <2>1, <2>2 DEF Elsewhere
  <1>9. s \in State /\ (s.ret \in {"swap_out", "overlap"} \/ Duplicated(a, s, a.free, mm[p]))
    BY <1>1, <1>7, <1>8, CopyMm
  <1>. HIDE DEF s
  <1>10. CASE s.ret \in {"swap_out", "overlap"}
    BY <1>1, <1>10 DEF StopsAt, Stops
  <1>11. CASE Duplicated(a, s, a.free, mm[p])
    <2>1. Sound(s, a.free) /\ s.ret = "ok" /\ Apart(a, s, a.free)
      BY <1>11 DEF Duplicated
    <2>2. mm' = [mm EXCEPT ![q] = s.mm] /\ kstack' = [kstack EXCEPT ![q] = a.page]
          /\ Memory(s) /\ UNCHANGED <<zombie, stopped>>
      BY <1>1, <2>1 DEF StopsAt
    <2>3. T = StackAt(a.page) /\ a.page \in Frames /\ mm[p] \in Space
      BY <1>1, <1>3, <1>4, FrameProps, TypeProps DEF T, StackAt
    <2>4. Forks(p, q, a, s, T)
      BY <1>1, <1>3, <1>4, <1>11, <2>2, <2>3 DEF Forks
    <2>. QED
      BY <2>4
  <1>. QED
    BY <1>9, <1>10, <1>11

LEMMA ForksHolds ==
    ASSUME IInv, NEW p \in USERS, NEW q \in USERS, NEW a, NEW s, NEW T, Forks(p, q, a, s, T)
    PROVE  IInv'
  <1>1. /\ a \in State /\ T \subseteq frame.free /\ a.free = frame.free \ T /\ a.ref = frame.ref
        /\ a.page \in Frames /\ T = StackAt(a.page) /\ mm[q] = NOMM /\ kstack[q] = 0
    BY DEF Forks
  <1>2. mm' = [mm EXCEPT ![q] = s.mm] /\ kstack' = [kstack EXCEPT ![q] = a.page]
        /\ Memory(s) /\ UNCHANGED <<zombie, stopped>>
    BY DEF Forks
  <1>3. Sound(s, a.free) /\ Apart(a, s, a.free)
    BY DEF Forks, Duplicated
  <1>4. q \notin zombie /\ SpaceTypeOK /\ frame.free \subseteq Frames
    BY <1>1, TypeProps DEF IInv, SpacesFit
  <1>5. AllStacks(kstack)[q] = {} /\ AllAt(mm)[q] = NoPages
    BY <1>1, <1>4 DEF AllStacks, StackAt, AllAt, At
  <1>6. Held(a.free, a.ref, AllAt(mm), Put(AllStacks(kstack), q, T))
    <2>1. Held(frame.free, frame.ref, AllAt(mm), AllStacks(kstack))
      BY DEF IInv, PagesHeld
    <2>. QED
      BY <1>1, <1>5, <2>1, HeldTake
  <1>7. a.page # 0 /\ kstack' \in [USERS -> Frames \cup {0}]
    BY <1>1, <1>4, <1>2, TypeProps, FrameProps
  <1>8. Exact(s.free, s.ref, At(s.mm), a.free) /\ s \in State /\ s.mm # NOMM /\ Maps(s.mm)
    BY <1>3, SoundExact
  <1>9. SpaceTypeOK' /\ frame'.free = s.free /\ frame'.ref = s.ref /\ frame'.data = s.data
        /\ mm'[q] = s.mm /\ \A r \in USERS : r # q => mm'[r] = mm[r]
    BY <1>2, <1>4, <1>7, <1>8, NextTypes, TypeProps
  <1>10. a.free = a.free \cup Own(AllAt(mm)[q])
    BY <1>5, NoneOwned
  <1>11. \A f \in Frames \ a.free : s.ref[f] = a.ref[f]
    BY <1>3 DEF Apart
  <1>12. Held(s.free, s.ref, Put(AllAt(mm), q, At(s.mm)), Put(AllStacks(kstack), q, T))
    BY <1>6, <1>8, <1>10, <1>11, HeldStep
  <1>13. AllAt(mm') = Put(AllAt(mm), q, At(s.mm))
    BY <1>2, <1>4, NextAt, TypeProps
  <1>14. AllStacks(kstack') = Put(AllStacks(kstack), q, T)
    <2>1. \A r \in USERS : kstack'[r] = IF r = q THEN a.page ELSE kstack[r]
      BY <1>2, <1>4, TypeProps
    <2>2. \A r \in USERS : StackAt(kstack'[r]) = IF r = q THEN T ELSE StackAt(kstack[r])
      BY <1>1, <2>1
    <2>. HIDE DEF StackAt
    <2>. QED
      BY <2>2 DEF AllStacks, Put
  <1>15. PagesHeld'
    BY <1>9, <1>12, <1>13, <1>14 DEF PagesHeld
  <1>16. \A r \in USERS : kstack'[r] # 0 <=> (kstack[r] # 0 \/ r = q)
    BY <1>2, <1>4, <1>7, TypeProps
  <1>17. SpacesFit'
    BY <1>2, <1>4, <1>8, <1>9, <1>16, TypeProps DEF IInv, SpacesFit
  <1>. QED
    BY <1>2, <1>9, <1>15, <1>17 DEF IInv

LEMMA FrameFacts ==
    ASSUME IInv, NEW p \in USERS, kstack[p] # 0
    PROVE  /\ kstack[p] \in Frames /\ kstack[p] .. (kstack[p] + KSTACKPAGE - 1) = AllStacks(kstack)[p]
           /\ AllStacks(kstack)[p] \subseteq Frames
  <1>1. AllStacks(kstack)[p] = kstack[p] .. (kstack[p] + KSTACKPAGE - 1)
    BY DEF AllStacks, StackAt
  <1>2. AllStacks(kstack)[p] \subseteq Frames
    BY DEF IInv, PagesHeld, Held
  <1>. QED
    BY <1>1, <1>2, TypeProps DEF IInv

\* A zombie holds its kernel stack and nothing else.
LEMMA ReapHolds ==
    ASSUME IInv, NEW p \in USERS, SpaceReap(p)
    PROVE  IInv'
  <1> DEFINE n == Now(NOMM)
             T == AllStacks(kstack)[p]
             r == [f \in Frames |-> IF f \in T THEN 0 ELSE n.ref[f]]
             d == [f \in Frames |-> IF f \in T THEN STALE ELSE n.data[f]]
  <1>1. /\ p \in zombie /\ Memory(free_frames(n, kstack[p], KSTACKPAGE)) /\ kstack' = [kstack EXCEPT ![p] = 0]
        /\ zombie' = zombie \ {p} /\ UNCHANGED <<mm, stopped>>
    BY DEF SpaceReap
  <1>2. SpaceTypeOK /\ kstack[p] # 0 /\ mm[p] = NOMM
    BY <1>1, TypeProps DEF IInv, SpacesFit
  <1>3. T = kstack[p] .. (kstack[p] + KSTACKPAGE - 1) /\ T \subseteq Frames
    BY <1>2, FrameFacts
  <1>4. n \in State /\ n.free = frame.free /\ n.ref = frame.ref /\ n.data = frame.data
    BY <1>2, NowProps
  <1>. HIDE DEF n, T
  <1>5. free_frames(n, kstack[p], KSTACKPAGE) =
          [n EXCEPT !.free = @ \cup T, !.ref = [f \in Frames |-> IF f \in T THEN 0 ELSE @[f]],
                    !.data = [f \in Frames |-> IF f \in T THEN STALE ELSE @[f]]]
    BY <1>3 DEF free_frames
  <1>6. free_frames(n, kstack[p], KSTACKPAGE) =
          [free |-> n.free \cup T, ref |-> r, data |-> d, mm |-> n.mm, page |-> n.page, ret |-> n.ret]
    BY <1>4, <1>5, StateProps
  <1>7. frame' = [free |-> frame.free \cup T, ref |-> r, data |-> d]
    BY <1>1, <1>4, <1>6 DEF Memory
  <1>8. r \in [Frames -> Nat] /\ d \in [Frames -> VALUES] /\ frame.free \cup T \in SUBSET Frames
        /\ \A f \in Frames : r[f] = IF f \in T THEN 0 ELSE frame.ref[f]
    BY <1>2, <1>3, <1>4, TypeProps, AddressSpaceAssumption
  <1>. HIDE DEF r, d
  <1>9. kstack' \in [USERS -> Frames \cup {0}] /\ zombie' \subseteq USERS
        /\ \A q \in USERS : kstack'[q] = IF q = p THEN 0 ELSE kstack[q]
    BY <1>1, <1>2, TypeProps
  <1>10. SpaceTypeOK'
    BY <1>1, <1>2, <1>7, <1>8, <1>9 DEF SpaceTypeOK
  <1>11. AllStacks(kstack') = Put(AllStacks(kstack), p, {})
    <2>1. \A q \in USERS : StackAt(kstack'[q]) = IF q = p THEN {} ELSE StackAt(kstack[q])
      BY <1>9 DEF StackAt
    <2>. HIDE DEF StackAt
    <2>. QED
      BY <2>1 DEF AllStacks, Put
  <1>12. Held(frame.free \cup T, r, AllAt(mm), Put(AllStacks(kstack), p, {}))
    BY <1>8, HeldDrop DEF IInv, PagesHeld, T
  <1>13. PagesHeld'
    BY <1>1, <1>7, <1>11, <1>12 DEF PagesHeld
  <1>14. SpacesFit'
    BY <1>1, <1>2, <1>9 DEF IInv, SpacesFit
  <1>. QED
    BY <1>1, <1>10, <1>13, <1>14 DEF IInv

LEMMA InitHolds == SpaceInit => IInv
  <1> SUFFICES ASSUME SpaceInit PROVE IInv
    OBVIOUS
  <1> DEFINE zero == [f \in Frames |-> 0]
             stale == [f \in Frames |-> STALE]
             b == [free |-> Frames, ref |-> zero, data |-> stale, mm |-> NOMM, page |-> 0, ret |-> "ok"]
             s == alloc_pages(b, KSTACKPAGE)
             T == s.page .. (s.page + KSTACKPAGE - 1)
  <1>1. /\ mm = [p \in USERS |-> NOMM] /\ kstack = [p \in USERS |-> IF p = FIRST THEN s.page ELSE 0]
        /\ zombie = {} /\ frame = [free |-> s.free, ref |-> s.ref, data |-> s.data] /\ stopped = ""
    BY DEF SpaceInit
  <1>2. zero \in [Frames -> Nat] /\ stale \in [Frames -> VALUES] /\ "ok" \in Outcome /\ 0 \in Nat
    BY AddressSpaceAssumption DEF Outcome
  <1>3. \A f \in Frames : zero[f] = 0
    OBVIOUS
  <1>. HIDE DEF zero, stale
  <1>4. b \in State
    BY <1>2, MakeState
  <1>5. b.free = Frames /\ b.ref = zero /\ b.data = stale /\ b.page = 0 /\ b.ret = "ok"
    OBVIOUS
  <1> DEFINE A == AllAt(mm)
             K == [p \in USERS |-> {}]
  <1>6. A = [p \in USERS |-> NoPages]
    BY <1>1 DEF AllAt, At
  <1>7. Held(Frames, zero, A, K)
    <2>1. \A p \in USERS, d \in Place : A[p][d] = 0
      BY <1>6 DEF NoPages
    <2>2. A \in [USERS -> [Place -> Frames \cup {0}]]
      BY <1>6, NoneOwned
    <2>. HIDE DEF A
    <2>. QED
      BY <1>3, <2>1, <2>2 DEF Held
  <1>. HIDE DEF b
  <1>8. /\ s.free \subseteq Frames /\ s.ref = zero /\ s.data = stale /\ s.page \in Frames \cup {0}
        /\ Held(s.free, zero, A, AllStacks(kstack))
    <2>1. CASE {f \in b.free : f .. (f + KSTACKPAGE - 1) \subseteq b.free} = {}
      <3>1. s = SetRet(b, IF KSTACKPAGE = 1 THEN "swap_out" ELSE "nomem")
        BY <2>1 DEF alloc_pages, SetRet
      <3>2. s.free = Frames /\ s.ref = zero /\ s.data = stale /\ s.page = 0
        BY <1>4, <1>5, <3>1, PutRet
      <3>3. AllStacks(kstack) = K
        <4>1. \A p \in USERS : kstack[p] = 0
          BY <1>1, <3>2
        <4>. QED
          BY <4>1 DEF AllStacks, StackAt
      <3>. QED
        BY <1>7, <3>2, <3>3
    <2>2. CASE {f \in b.free : f .. (f + KSTACKPAGE - 1) \subseteq b.free} # {}
      <3>1. s.ret = "ok"
        BY <1>5, <2>2 DEF alloc_pages
      <3>2. s.page \in Frames /\ T \subseteq Frames /\ s.free = Frames \ T /\ s.ref = zero /\ s.data = stale
        BY <1>4, <1>5, <3>1, AllocPages, AddressSpaceAssumption DEF Took
      <3>3. AllStacks(kstack) = Put(K, FIRST, T)
        <4>1. \A p \in USERS : kstack[p] = (IF p = FIRST THEN s.page ELSE 0) /\ s.page # 0
          BY <1>1, <3>2, FrameProps
        <4>2. \A p \in USERS : StackAt(kstack[p]) = IF p = FIRST THEN T ELSE {}
          BY <4>1 DEF StackAt
        <4>. HIDE DEF StackAt, T
        <4>. QED
          BY <4>2 DEF AllStacks, Put
      <3>4. Held(Frames \ T, zero, A, Put(K, FIRST, T))
        <4>1. K[FIRST] = {} /\ FIRST \in USERS
          BY AddressSpaceAssumption
        <4>. HIDE DEF T, K, A
        <4>. QED
          BY <1>7, <3>2, <4>1, HeldTake
      <3>. HIDE DEF T, K, A
      <3>. QED
        BY <3>2, <3>3, <3>4
    <2>. QED
      BY <2>1, <2>2
  <1>. HIDE DEF s, A
  <1>9. SpaceTypeOK
    <2>1. kstack \in [USERS -> Frames \cup {0}]
      BY <1>1, <1>8
    <2>. QED
      BY <1>1, <1>2, <1>8, <2>1 DEF SpaceTypeOK
  <1>10. PagesHeld
    BY <1>1, <1>8 DEF PagesHeld, A
  <1>11. SpacesFit
    BY <1>1 DEF SpacesFit
  <1>. QED
    BY <1>1, <1>9, <1>10, <1>11 DEF IInv

LEMMA NextHolds == IInv /\ [SpaceNext]_space_vars => IInv'
  <1> SUFFICES ASSUME IInv, [SpaceNext]_space_vars PROVE IInv'
    OBVIOUS
  <1>0. Stops => IInv'
    BY StopHolds DEF Stops
  <1>1. ASSUME NEW p \in USERS, NEW q \in USERS, SpaceFork(p, q) PROVE IInv'
    BY <1>0, <1>1, ForkLeads, ForksHolds
  <1>2. ASSUME NEW p \in USERS, NEW image \in IMAGES, SpaceExec(p, image) PROVE IInv'
    BY <1>0, <1>2, ExecLeads, LivesHolds, DiesHolds
  <1>3. ASSUME NEW p \in USERS, SpaceExit(p) PROVE IInv'
    BY <1>3, ExitDies, DiesHolds
  <1>4. ASSUME NEW p \in USERS, SpaceReap(p) PROVE IInv'
    BY <1>4, ReapHolds
  <1>5. ASSUME NEW p \in USERS, NEW v \in Virt, UserRead(p, v) PROVE IInv'
    BY <1>0, <1>5, ReadLeads, LivesHolds
  <1>6. ASSUME NEW p \in USERS, NEW v \in Virt, NEW x \in STORES, UserWrite(p, v, x) PROVE IInv'
    BY <1>0, <1>6, WriteLeads, LivesHolds
  <1>7. ASSUME NEW p \in USERS, NEW lo \in 0 .. NVIRT, NEW hi \in 0 .. NVIRT, NEW x \in STORES, CopyToUser(p, lo, hi, x)
        PROVE  IInv'
    BY <1>0, <1>7, CopyLeads, LivesHolds
  <1>8. CASE UNCHANGED space_vars
    BY <1>8 DEF space_vars, IInv, SpaceTypeOK, PagesHeld, SpacesFit
  <1>9. CASE SpaceStopped
    BY <1>8, <1>9 DEF SpaceStopped
  <1>. QED
    BY <1>1, <1>2, <1>3, <1>4, <1>5, <1>6, <1>7, <1>8, <1>9 DEF SpaceNext

LEMMA SpecHolds == SpaceSpec => []IInv
  <1>. QED
    BY InitHolds, NextHolds, PTL DEF SpaceSpec

-----------------------------------------------------------------------------
(* The theorems.                                                            *)

\* What the operations of vmm.c, pmm.c and proc.c leave is well formed at every moment: areas, directories,
\* tables and entries name physical pages that exist.
THEOREM SpaceTypesCorrect == SpaceSpec => []SpaceTypeOK
  <1>1. IInv => SpaceTypeOK
    BY DEF IInv
  <1>. QED
    BY <1>1, SpecHolds, PTL

\* The holders of a page, one by one.
LEMMA HoldersProps ==
    ASSUME IInv, NEW f \in Frames
    PROVE  /\ \A h \in Holders(f) :
                \/ \E p \in USERS : h = <<"stack", p>> /\ f \in AllStacks(kstack)[p]
                \/ \E p \in USERS : h = <<"dir", p>> /\ AllAt(mm)[p][<<"dir", 0>>] = f
                \/ \E p \in USERS, g \in Tables : h = <<"table", <<p, g>>>> /\ AllAt(mm)[p][<<"table", g>>] = f
                \/ \E p \in USERS, v \in Virt : h = <<"page", <<p, v>>>> /\ AllAt(mm)[p][<<"page", v>>] = f
           /\ \A p \in USERS : f \in AllStacks(kstack)[p] => <<"stack", p>> \in Holders(f)
           /\ \A p \in USERS : AllAt(mm)[p][<<"dir", 0>>] = f => <<"dir", p>> \in Holders(f)
           /\ \A p \in USERS, g \in Tables : AllAt(mm)[p][<<"table", g>>] = f => <<"table", <<p, g>>>> \in Holders(f)
           /\ \A p \in USERS, v \in Virt : AllAt(mm)[p][<<"page", v>>] = f => <<"page", <<p, v>>>> \in Holders(f)
  <1>1. f # 0
    BY FrameProps
  <1>2. \A p \in USERS : f \in AllStacks(kstack)[p] <=> kstack[p] # 0 /\ f \in kstack[p] .. (kstack[p] + KSTACKPAGE - 1)
    BY DEF AllStacks, StackAt
  <1>3. \A p \in USERS : p \notin Spaces => \A d \in Place : AllAt(mm)[p][d] # f
    BY <1>1 DEF Spaces, AllAt, At, NoPages
  <1>4. \A p \in Spaces : mm[p] \in Space /\ AllAt(mm)[p] = PageAt(mm[p]) /\ p \in USERS
    BY TypeProps DEF Spaces, AllAt, At, IInv
  <1>5. \A p \in USERS : AllAt(mm)[p][<<"dir", 0>>] = f <=> p \in Spaces /\ mm[p].pgdir = f
    BY <1>3, <1>4, PageAtProps, PlaceProps
  <1>6. \A p \in USERS, g \in Tables : AllAt(mm)[p][<<"table", g>>] = f <=> p \in Spaces /\ mm[p].pt[g] = f
    <2>1. \A p \in Spaces : \A g \in Tables : AllAt(mm)[p][<<"table", g>>] = mm[p].pt[g]
      BY <1>4, PageAtProps
    <2>2. \A p \in USERS : p \notin Spaces => \A g \in Tables : AllAt(mm)[p][<<"table", g>>] # f
      BY <1>3, PlaceProps
    <2>. QED
      BY <2>1, <2>2
  <1>7. \A p \in USERS, v \in Virt : AllAt(mm)[p][<<"page", v>>] = f <=> p \in Spaces /\ mm[p].pte[v].page = f
    <2>1. \A p \in Spaces : \A v \in Virt : AllAt(mm)[p][<<"page", v>>] = mm[p].pte[v].page
      BY <1>4, PageAtProps
    <2>2. \A p \in USERS : p \notin Spaces => \A v \in Virt : AllAt(mm)[p][<<"page", v>>] # f
      BY <1>3, PlaceProps
    <2>. QED
      BY <2>1, <2>2
  <1>8. Spaces \subseteq USERS
    BY DEF Spaces
  <1> DEFINE A == AllAt(mm)
             K == AllStacks(kstack)
  <1>. HIDE DEF A, K
  <1>9. \A h : h \in Holders(f) <=>
          \/ \E p \in USERS : h = <<"stack", p>> /\ f \in K[p]
          \/ \E p \in USERS : h = <<"dir", p>> /\ A[p][<<"dir", 0>>] = f
          \/ \E p \in USERS, g \in Tables : h = <<"table", <<p, g>>>> /\ A[p][<<"table", g>>] = f
          \/ \E p \in USERS, v \in Virt : h = <<"page", <<p, v>>>> /\ A[p][<<"page", v>>] = f
    <2> TAKE h
    <2>1. h \in {<<"stack", p>> : p \in {q \in USERS : kstack[q] # 0 /\ f \in kstack[q] .. (kstack[q] + KSTACKPAGE - 1)}}
            <=> \E p \in USERS : h = <<"stack", p>> /\ f \in K[p]
      BY <1>2 DEF K
    <2>2. h \in {<<"dir", p>> : p \in {q \in Spaces : mm[q].pgdir = f}}
            <=> \E p \in USERS : h = <<"dir", p>> /\ A[p][<<"dir", 0>>] = f
      BY <1>5, <1>8 DEF A
    <2>3. h \in {<<"table", d>> : d \in {c \in Spaces \X Tables : mm[c[1]].pt[c[2]] = f}}
            <=> \E p \in USERS, g \in Tables : h = <<"table", <<p, g>>>> /\ A[p][<<"table", g>>] = f
      <3> DEFINE C == {c \in Spaces \X Tables : mm[c[1]].pt[c[2]] = f}
      <3>1. ASSUME NEW c \in C PROVE \E p \in USERS, g \in Tables : c = <<p, g>> /\ A[p][<<"table", g>>] = f
        BY <1>6, <1>8 DEF A
      <3>2. ASSUME NEW p \in USERS, NEW g \in Tables, A[p][<<"table", g>>] = f PROVE <<p, g>> \in C
        BY <1>6, <3>2 DEF A
      <3>. HIDE DEF C
      <3>3. ASSUME h \in {<<"table", d>> : d \in C}
            PROVE  \E p \in USERS, g \in Tables : h = <<"table", <<p, g>>>> /\ A[p][<<"table", g>>] = f
        <4>1. PICK c \in C : h = <<"table", c>>
          BY <3>3
        <4>2. PICK p \in USERS, g \in Tables : c = <<p, g>> /\ A[p][<<"table", g>>] = f
          BY <3>1
        <4>. QED
          BY <4>1, <4>2
      <3>4. ASSUME NEW p \in USERS, NEW g \in Tables, h = <<"table", <<p, g>>>>, A[p][<<"table", g>>] = f
            PROVE  h \in {<<"table", d>> : d \in C}
        BY <3>2, <3>4
      <3>. QED
        BY <3>3, <3>4 DEF C
    <2>4. h \in {<<"page", d>> : d \in {c \in Spaces \X Virt : mm[c[1]].pte[c[2]].page = f}}
            <=> \E p \in USERS, v \in Virt : h = <<"page", <<p, v>>>> /\ A[p][<<"page", v>>] = f
      <3> DEFINE C == {c \in Spaces \X Virt : mm[c[1]].pte[c[2]].page = f}
      <3>1. ASSUME NEW c \in C PROVE \E p \in USERS, v \in Virt : c = <<p, v>> /\ A[p][<<"page", v>>] = f
        BY <1>7, <1>8 DEF A
      <3>2. ASSUME NEW p \in USERS, NEW v \in Virt, A[p][<<"page", v>>] = f PROVE <<p, v>> \in C
        BY <1>7, <3>2 DEF A
      <3>. HIDE DEF C
      <3>3. ASSUME h \in {<<"page", d>> : d \in C}
            PROVE  \E p \in USERS, v \in Virt : h = <<"page", <<p, v>>>> /\ A[p][<<"page", v>>] = f
        <4>1. PICK c \in C : h = <<"page", c>>
          BY <3>3
        <4>2. PICK p \in USERS, v \in Virt : c = <<p, v>> /\ A[p][<<"page", v>>] = f
          BY <3>1
        <4>. QED
          BY <4>1, <4>2
      <3>4. ASSUME NEW p \in USERS, NEW v \in Virt, h = <<"page", <<p, v>>>>, A[p][<<"page", v>>] = f
            PROVE  h \in {<<"page", d>> : d \in C}
        BY <3>2, <3>4
      <3>. QED
        BY <3>3, <3>4 DEF C
    <2>. QED
      BY <2>1, <2>2, <2>3, <2>4 DEF Holders
  <1>. QED
    BY <1>9 DEF A, K

\* A page has one holder, or none if it is free.
LEMMA OneHolder ==
    ASSUME IInv, NEW f \in Frames
    PROVE  IF f \in frame.free THEN Holders(f) = {} /\ frame.ref[f] = 0
           ELSE \E h : Holders(f) = {h} /\ frame.ref[f] = IF h[1] \in {"table", "page"} THEN 1 ELSE 0
  <1> DEFINE A == AllAt(mm)
             K == AllStacks(kstack)
  <1>1. Held(frame.free, frame.ref, A, K) /\ f # 0
    BY FrameProps DEF IInv, PagesHeld
  <1>2. \A h \in Holders(f) :
          \/ \E p \in USERS : h = <<"stack", p>> /\ f \in K[p]
          \/ \E p \in USERS : h = <<"dir", p>> /\ A[p][<<"dir", 0>>] = f
          \/ \E p \in USERS, g \in Tables : h = <<"table", <<p, g>>>> /\ A[p][<<"table", g>>] = f
          \/ \E p \in USERS, v \in Virt : h = <<"page", <<p, v>>>> /\ A[p][<<"page", v>>] = f
    BY HoldersProps
  <1>3. /\ \A p \in USERS : f \in K[p] => <<"stack", p>> \in Holders(f)
        /\ \A p \in USERS : A[p][<<"dir", 0>>] = f => <<"dir", p>> \in Holders(f)
        /\ \A p \in USERS, g \in Tables : A[p][<<"table", g>>] = f => <<"table", <<p, g>>>> \in Holders(f)
        /\ \A p \in USERS, v \in Virt : A[p][<<"page", v>>] = f => <<"page", <<p, v>>>> \in Holders(f)
    BY HoldersProps
  <1>. HIDE DEF A, K
  <1>4. CASE f \in frame.free
    <2>1. \A p \in USERS : f \notin K[p] /\ \A d \in Place : A[p][d] # f
      BY <1>1, <1>4 DEF Held
    <2>2. Holders(f) = {}
      BY <1>2, <2>1, PlaceProps
    <2>3. frame.ref[f] = 0
      BY <1>1, <1>4 DEF Held
    <2>. QED
      BY <1>4, <2>2, <2>3
  <1>5. CASE \E p \in USERS : f \in K[p]
    <2>1. PICK p \in USERS : f \in K[p]
      BY <1>5
    <2>2. f \notin frame.free /\ frame.ref[f] = 0 /\ \A q \in USERS : f \in K[q] => q = p
      BY <1>1, <2>1 DEF Held
    <2>3. \A q \in USERS, d \in Place : A[q][d] # f
      BY <1>1, <2>1 DEF Held
    <2>4. Holders(f) = {<<"stack", p>>}
      <3>1. \A h \in Holders(f) : h = <<"stack", p>>
        BY <1>2, <2>2, <2>3, PlaceProps
      <3>. QED
        BY <1>3, <2>1, <3>1
    <2>5. <<"stack", p>>[1] = "stack"
      OBVIOUS
    <2>6. \E h : Holders(f) = {h} /\ frame.ref[f] = IF h[1] \in {"table", "page"} THEN 1 ELSE 0
      BY <2>2, <2>4, <2>5
    <2>. QED
      BY <2>2, <2>6
  <1>6. CASE \E p \in USERS, d \in Place : A[p][d] = f
    <2>1. PICK p \in USERS, d \in Place : A[p][d] = f
      BY <1>6
    <2>2. f \notin frame.free /\ frame.ref[f] = Refs(d) /\ (\A q \in USERS : f \notin K[q])
          /\ \A q \in USERS, e \in Place : A[q][e] = f => q = p /\ e = d
      BY <1>1, <2>1 DEF Held
    <2>3. CASE d = <<"dir", 0>>
      <3>1. ASSUME NEW h \in Holders(f) PROVE h = <<"dir", p>>
        <4>1. ~\E q \in USERS : h = <<"stack", q>> /\ f \in K[q]
          BY <2>2
        <4>2. ~\E q \in USERS, g \in Tables : h = <<"table", <<q, g>>>> /\ A[q][<<"table", g>>] = f
          BY <2>2, <2>3, PlaceProps
        <4>3. ~\E q \in USERS, v \in Virt : h = <<"page", <<q, v>>>> /\ A[q][<<"page", v>>] = f
          BY <2>2, <2>3, PlaceProps
        <4>4. PICK q \in USERS : h = <<"dir", q>> /\ A[q][<<"dir", 0>>] = f
          BY <1>2, <4>1, <4>2, <4>3
        <4>. QED
          BY <2>2, <4>4, PlaceProps
      <3>2. Holders(f) = {<<"dir", p>>} /\ Refs(d) = 0
        BY <1>3, <2>1, <2>3, <3>1 DEF Refs
      <3>3. <<"dir", p>>[1] = "dir"
        OBVIOUS
      <3>. QED
        BY <2>2, <3>2, <3>3
    <2>4. ASSUME NEW g \in Tables, d = <<"table", g>>
          PROVE  Holders(f) = {<<"table", <<p, g>>>>} /\ Refs(d) = 1
      <3>1. ASSUME NEW h \in Holders(f) PROVE h = <<"table", <<p, g>>>>
        <4>1. ~\E q \in USERS : h = <<"stack", q>> /\ f \in K[q]
          BY <2>2
        <4>2. ~\E q \in USERS : h = <<"dir", q>> /\ A[q][<<"dir", 0>>] = f
          BY <2>2, <2>4, PlaceProps
        <4>3. ~\E q \in USERS, v \in Virt : h = <<"page", <<q, v>>>> /\ A[q][<<"page", v>>] = f
          BY <2>2, <2>4, PlaceProps
        <4>4. PICK q \in USERS, c \in Tables : h = <<"table", <<q, c>>>> /\ A[q][<<"table", c>>] = f
          BY <1>2, <4>1, <4>2, <4>3
        <4>5. q = p /\ <<"table", c>> = <<"table", g>>
          BY <2>2, <2>4, <4>4, PlaceProps
        <4>. QED
          BY <4>4, <4>5
      <3>. QED
        BY <1>3, <2>1, <2>4, <3>1 DEF Refs
    <2>5. ASSUME NEW v \in Virt, d = <<"page", v>>
          PROVE  Holders(f) = {<<"page", <<p, v>>>>} /\ Refs(d) = 1
      <3>1. ASSUME NEW h \in Holders(f) PROVE h = <<"page", <<p, v>>>>
        <4>1. ~\E q \in USERS : h = <<"stack", q>> /\ f \in K[q]
          BY <2>2
        <4>2. ~\E q \in USERS : h = <<"dir", q>> /\ A[q][<<"dir", 0>>] = f
          BY <2>2, <2>5, PlaceProps
        <4>3. ~\E q \in USERS, g \in Tables : h = <<"table", <<q, g>>>> /\ A[q][<<"table", g>>] = f
          BY <2>2, <2>5, PlaceProps
        <4>4. PICK q \in USERS, c \in Virt : h = <<"page", <<q, c>>>> /\ A[q][<<"page", c>>] = f
          BY <1>2, <4>1, <4>2, <4>3
        <4>5. q = p /\ <<"page", c>> = <<"page", v>>
          BY <2>2, <2>5, <4>4, PlaceProps
        <4>. QED
          BY <4>4, <4>5
      <3>. QED
        BY <1>3, <2>1, <2>5, <3>1 DEF Refs
    <2>6. CASE \E g \in Tables : d = <<"table", g>>
      <3>1. PICK g \in Tables : d = <<"table", g>>
        BY <2>6
      <3>2. Holders(f) = {<<"table", <<p, g>>>>} /\ Refs(d) = 1 /\ <<"table", <<p, g>>>>[1] = "table"
        BY <2>4, <3>1
      <3>. QED
        BY <2>2, <3>2
    <2>7. CASE \E v \in Virt : d = <<"page", v>>
      <3>1. PICK v \in Virt : d = <<"page", v>>
        BY <2>7
      <3>2. Holders(f) = {<<"page", <<p, v>>>>} /\ Refs(d) = 1 /\ <<"page", <<p, v>>>>[1] = "page"
        BY <2>5, <3>1
      <3>. QED
        BY <2>2, <3>2
    <2>. QED
      BY <2>3, <2>6, <2>7, PlaceProps
  <1>. QED
    BY <1>1, <1>4, <1>5, <1>6 DEF Held

\* Every physical page is free, or held at one place with the count that place calls for: fork, exec that fails
\* half way, page faults and exit neither lose a page nor free one that is still mapped.
THEOREM PagesExactCorrect == SpaceSpec => []PagesExact
  <1>1. ASSUME IInv, NEW f \in Frames
        PROVE  /\ Cardinality(Holders(f)) = IF f \in frame.free THEN 0 ELSE 1
               /\ frame.ref[f] = Cardinality({h \in Holders(f) : h[1] \in {"table", "page"}})
    <2>1. Cardinality({}) = 0 /\ \A h : Cardinality({h}) = 1
      BY FS_EmptySet, FS_Singleton
    <2>2. CASE f \in frame.free
      <3>1. Holders(f) = {} /\ frame.ref[f] = 0
        BY <1>1, <2>2, OneHolder
      <3>2. {h \in Holders(f) : h[1] \in {"table", "page"}} = {}
        BY <3>1
      <3>. QED
        BY <2>1, <2>2, <3>1, <3>2
    <2>3. CASE f \notin frame.free
      <3>1. PICK h : Holders(f) = {h} /\ frame.ref[f] = IF h[1] \in {"table", "page"} THEN 1 ELSE 0
        BY <1>1, <2>3, OneHolder
      <3>2. {k \in Holders(f) : k[1] \in {"table", "page"}} = IF h[1] \in {"table", "page"} THEN {h} ELSE {}
        BY <3>1
      <3>. QED
        BY <2>1, <2>3, <3>1, <3>2
    <2>. QED
      BY <2>2, <2>3
  <1>2. IInv => PagesExact
    BY <1>1 DEF PagesExact
  <1>. QED
    BY <1>2, SpecHolds, PTL

\* In every address space the areas are in order and apart, and what is mapped lies in an area, with its rights
\* and its table; the kernel never meets a fault that it cannot serve where user_mem_check has looked.
THEOREM AreasHoldCorrect == SpaceSpec => []AreasHold
  <1>1. ASSUME IInv, NEW p \in Spaces
        PROVE  LET m == mm[p]
               IN  /\ \A i \in DOMAIN m.areas : m.areas[i].start < m.areas[i].end
                   /\ \A i \in 1 .. (Len(m.areas) - 1) : m.areas[i].end <= m.areas[i + 1].start
                   /\ \A v \in Virt : m.pte[v].page # 0 =>
                        find_vma(m, v) # {} /\ m.pt[PDX(v)] # 0 /\ (m.pte[v].w <=> "W" \in Rights(m, v))
    <2> DEFINE m == mm[p]
    <2>1. m \in Space /\ Maps(m) /\ p \in USERS
      BY <1>1, TypeProps DEF IInv, SpacesFit, Spaces
    <2>2. Sorted(m.areas) /\ Len(m.areas) \in Nat /\ DOMAIN m.areas = 1 .. Len(m.areas)
      BY <2>1, AreaProps DEF Maps
    <2>. HIDE DEF m
    <2>4. \A i \in 1 .. (Len(m.areas) - 1) : m.areas[i].end <= m.areas[i + 1].start
      <3> TAKE i \in 1 .. (Len(m.areas) - 1)
      <3>1. i \in DOMAIN m.areas /\ i + 1 \in DOMAIN m.areas /\ i < i + 1
        BY <2>2
      <3>. QED
        BY <2>2, <3>1 DEF Sorted
    <2>5. ASSUME NEW v \in Virt, m.pte[v].page # 0
          PROVE  find_vma(m, v) # {} /\ m.pt[PDX(v)] # 0 /\ (m.pte[v].w <=> "W" \in Rights(m, v))
      <3>1. PICK a \in AreasOf(m) : Lies(v, a) /\ (m.pte[v].w <=> "W" \in a.flags)
        BY <2>1, <2>5 DEF Maps, EntryFits
      <3>2. Rights(m, v) = a.flags /\ find_vma(m, v) # {}
        BY <2>1, <3>1, RightsOfArea
      <3>3. m.pt[PDX(v)] # 0
        BY <2>1, <2>5 DEF Maps, EntryFits
      <3>. QED
        BY <3>1, <3>2, <3>3
    <2>. QED
      BY <2>2, <2>4, <2>5 DEF Sorted, m
  <1>2. IInv => AreasHold
    BY <1>1 DEF AreasHold, IInv
  <1>. QED
    BY <1>2, SpecHolds, PTL
-----------------------------------------------------------------------------
(* Private memories.                                                        *)

\* What a process sees, before and after a step.
Seen(p) == Contents(mm[p], frame.data)
SeenNext(p) == Contents(mm'[p], frame'.data)

\* Process p sees what it saw.
SeesSame(p) == SeenNext(p) = Seen(p) /\ RightsOf(mm'[p]) = RightsOf(mm[p])

Nothing == [v \in Virt |-> NOMM]

\* What PrivateMemory asks of a step, in these terms.
LEMMA PrivateIs ==
    ASSUME NEW p \in USERS
    PROVE  /\ Private!Alone(p) <=> \A q \in USERS \ {p} : SeesSame(q)
           /\ Private!Exec(p) <=> \E image \in IMAGES : LaidOut(image, SeenNext(p), RightsOf(mm'[p]))
           /\ Private!Gone(p) <=> SeenNext(p) = Nothing /\ \A v \in Virt : RightsOf(mm'[p])[v] = {}
           /\ \A q \in USERS : Private!Forked(p, q) <=>
                Seen(p) = Nothing /\ SeenNext(p) = Seen(q) /\ RightsOf(mm'[p]) = RightsOf(mm[q])
  <1>1. Private!Alone(p) <=> \A q \in USERS \ {p} : SeesSame(q)
    BY DEF Private!Alone, SeesSame, Seen, SeenNext, Contents, RightsOf
  <1>2. Private!Exec(p) <=> \E image \in IMAGES : LaidOut(image, SeenNext(p), RightsOf(mm'[p]))
    BY DEF Private!Exec, SeenNext, Contents, RightsOf, LaidOut
  <1>3. Private!Gone(p) <=> SeenNext(p) = Nothing /\ \A v \in Virt : RightsOf(mm'[p])[v] = {}
    BY DEF Private!Gone, Private!Absent, SeenNext, Contents, RightsOf, Nothing
  <1>4. ASSUME NEW q \in USERS
        PROVE  Private!Forked(p, q) <=>
                 Seen(p) = Nothing /\ SeenNext(p) = Seen(q) /\ RightsOf(mm'[p]) = RightsOf(mm[q])
    BY DEF Private!Forked, Private!Absent, Seen, SeenNext, Contents, RightsOf, Nothing
  <1>. QED
    BY <1>1, <1>2, <1>3, <1>4

LEMMA PrivateAccess ==
    ASSUME NEW p \in USERS
    PROVE  /\ \A v \in Virt : Private!Read(p, v) <=>
                /\ Seen(p)[v] = NOMM /\ RightsOf(mm[p])[v] \cap {"R", "X"} # {}
                /\ SeenNext(p)[v] \in VALUES /\ \A w \in Virt \ {v} : SeenNext(p)[w] = Seen(p)[w]
           /\ \A lo, hi \in Virt, x \in VALUES : Private!Write(p, lo, hi, x) <=>
                /\ \A v \in lo .. hi : "W" \in RightsOf(mm[p])[v]
                /\ \A v \in Virt : SeenNext(p)[v] = IF v \in lo .. hi THEN x ELSE Seen(p)[v]
  <1>1. ASSUME NEW v \in Virt
        PROVE  Private!Read(p, v) <=>
                /\ Seen(p)[v] = NOMM /\ RightsOf(mm[p])[v] \cap {"R", "X"} # {}
                /\ SeenNext(p)[v] \in VALUES /\ \A w \in Virt \ {v} : SeenNext(p)[w] = Seen(p)[w]
    BY DEF Private!Read, Seen, SeenNext, Contents, RightsOf
  <1>2. ASSUME NEW lo \in Virt, NEW hi \in Virt, NEW x \in VALUES
        PROVE  Private!Write(p, lo, hi, x) <=>
                /\ \A v \in lo .. hi : "W" \in RightsOf(mm[p])[v]
                /\ \A v \in Virt : SeenNext(p)[v] = IF v \in lo .. hi THEN x ELSE Seen(p)[v]
    BY DEF Private!Write, Seen, SeenNext, Contents, RightsOf
  <1>. QED
    BY <1>1, <1>2

\* The kinds of steps.
LEMMA PrivateNext ==
    ASSUME NEW p \in USERS, \A q \in USERS \ {p} : SeesSame(q), stopped' = stopped
    PROVE  /\ Private!Exec(p) \/ Private!Gone(p) => Private!MemNext
           /\ \A q \in USERS : Private!Forked(p, q) => Private!MemNext
           /\ RightsOf(mm'[p]) = RightsOf(mm[p]) =>
                /\ \A v \in Virt : Private!Read(p, v) => Private!MemNext
                /\ \A lo, hi \in Virt, x \in VALUES : lo <= hi /\ Private!Write(p, lo, hi, x) => Private!MemNext
  <1>1. Private!Alone(p) /\ (stopped # "")' = (stopped # "")
    BY PrivateIs
  <1>2. Private!Exec(p) \/ Private!Gone(p) => Private!MemNext
    BY <1>1 DEF Private!MemNext
  <1>3. ASSUME NEW q \in USERS, Private!Forked(p, q) PROVE Private!MemNext
    BY <1>1, <1>3 DEF Private!MemNext
  <1>4. ASSUME RightsOf(mm'[p]) = RightsOf(mm[p]), NEW v \in Virt, Private!Read(p, v) PROVE Private!MemNext
    BY <1>1, <1>4 DEF Private!MemNext, RightsOf
  <1>5. ASSUME RightsOf(mm'[p]) = RightsOf(mm[p]), NEW lo \in Virt, NEW hi \in Virt, NEW x \in VALUES,
               lo <= hi, Private!Write(p, lo, hi, x)
        PROVE  Private!MemNext
    BY <1>1, <1>5 DEF Private!MemNext, RightsOf
  <1>. QED
    BY <1>2, <1>3, <1>4, <1>5

LEMMA PrivateSame ==
    ASSUME \A q \in USERS : SeesSame(q)
    PROVE  /\ stopped' = stopped => UNCHANGED Private!memory_state
           /\ stopped' # "" => Private!MemNext
  <1>1. UNCHANGED [p \in USERS |-> Contents(mm[p], frame.data)]
    BY DEF SeesSame, Seen, SeenNext, Contents
  <1>2. UNCHANGED [p \in USERS |-> RightsOf(mm[p])]
    BY DEF SeesSame, RightsOf
  <1>3. stopped' = stopped => UNCHANGED Private!memory_state
    BY <1>1, <1>2 DEF Private!memory_state
  <1>4. stopped' # "" => (stopped # "")' = TRUE
    OBVIOUS
  <1>5. stopped' # "" => Private!MemNext
    BY <1>1, <1>2, <1>4 DEF Private!MemNext
  <1>. QED
    BY <1>3, <1>5

\* What is seen, page by page.
LEMMA ContentsProps ==
    /\ \A d : Contents(NOMM, d) = Nothing
    /\ \A v \in Virt : RightsOf(NOMM)[v] = {}
    /\ \A d : \A m \in Space, v \in Virt :
         /\ Contents(m, d)[v] = IF m.pte[v].page = 0 THEN NOMM ELSE d[m.pte[v].page]
         /\ RightsOf(m)[v] = Rights(m, v)
  BY ImagesAssumption DEF Contents, RightsOf, Nothing

LEMMA ContentsSame ==
    ASSUME NEW m \in Space, NEW n \in Space, NEW d, NEW e,
           \A v \in Virt : /\ n.pte[v].page = 0 <=> m.pte[v].page = 0
                           /\ m.pte[v].page # 0 => e[n.pte[v].page] = d[m.pte[v].page]
    PROVE  Contents(n, e) = Contents(m, d)
  <1>1. m # NOMM /\ n # NOMM
    BY ImagesAssumption
  <1>2. ASSUME NEW v \in Virt
        PROVE  (IF n.pte[v].page = 0 THEN NOMM ELSE e[n.pte[v].page]) = (IF m.pte[v].page = 0 THEN NOMM ELSE d[m.pte[v].page])
    OBVIOUS
  <1>. QED
    BY <1>1, <1>2 DEF Contents

LEMMA RightsSame ==
    ASSUME NEW m \in Space, NEW n \in Space, Maps(m), Maps(n), AreasOf(m) = AreasOf(n)
    PROVE  RightsOf(m) = RightsOf(n)
  <1>1. m # NOMM /\ n # NOMM
    BY ImagesAssumption
  <1>2. ASSUME NEW v \in Virt PROVE Rights(m, v) = Rights(n, v)
    <2>1. CASE \E a \in AreasOf(m) : Lies(v, a)
      BY <2>1, RightsOfArea
    <2>2. CASE ~\E a \in AreasOf(m) : Lies(v, a)
      <3>1. find_vma(m, v) = {} /\ find_vma(n, v) = {}
        BY <2>2, RightsOfNone
      <3>. QED
        BY <3>1 DEF Rights
    <2>. QED
      BY <2>1, <2>2
  <1>. QED
    BY <1>1, <1>2 DEF RightsOf

\* A process may use no page that another one has mapped.
LEMMA OthersPages ==
    ASSUME IInv, NEW p \in USERS, NEW q \in USERS, q # p, mm[q] # NOMM, NEW v \in Virt, mm[q].pte[v].page # 0
    PROVE  mm[q].pte[v].page \in Frames \ Usable(p)
  <1>1. mm[q] \in Space
    BY TypeProps DEF IInv
  <1>2. AllAt(mm)[q] = PageAt(mm[q]) /\ AllAt(mm)[p] = At(mm[p])
    BY DEF AllAt, At
  <1>3. <<"page", v>> \in Place /\ AllAt(mm)[q][<<"page", v>>] = mm[q].pte[v].page /\ mm[q].pte[v].page \in Frames
    BY <1>1, <1>2, PageAtProps, PlaceProps
  <1> DEFINE f == mm[q].pte[v].page
             A == AllAt(mm)
  <1>. HIDE DEF f, A
  <1>4. Held(frame.free, frame.ref, A, AllStacks(kstack)) /\ A[q][<<"page", v>>] = f /\ f # 0
    BY <1>3 DEF IInv, PagesHeld, A, f
  <1>5. f \notin frame.free /\ \A d \in Place : A[p][d] # f
    BY <1>3, <1>4 DEF Held
  <1>6. f \notin Own(A[p])
    BY <1>5 DEF Own
  <1>. QED
    BY <1>2, <1>3, <1>5, <1>6 DEF Usable, f, A

\* Who is not at work sees what it saw.
LEMMA OthersSame ==
    ASSUME IInv, NEW p \in USERS, \A f \in Frames \ Usable(p) : frame'.data[f] = frame.data[f],
           NEW q \in USERS, q # p, mm'[q] = mm[q]
    PROVE  SeesSame(q)
  <1>1. RightsOf(mm'[q]) = RightsOf(mm[q])
    OBVIOUS
  <1>2. SeenNext(q) = Seen(q)
    <2>1. CASE mm[q] = NOMM
      BY <2>1, ContentsProps DEF Seen, SeenNext
    <2>2. CASE mm[q] # NOMM
      <3>1. mm[q] \in Space
        BY <2>2, TypeProps DEF IInv
      <3>2. \A v \in Virt : mm[q].pte[v].page # 0 => frame'.data[mm[q].pte[v].page] = frame.data[mm[q].pte[v].page]
        BY <2>2, OthersPages
      <3>3. Contents(mm[q], frame'.data) = Contents(mm[q], frame.data)
        BY <3>1, <3>2, ContentsSame
      <3>. QED
        BY <3>3 DEF Seen, SeenNext
    <2>. QED
      BY <2>1, <2>2
  <1>. QED
    BY <1>1, <1>2 DEF SeesSame

LEMMA LeftAlone ==
    ASSUME IInv, NEW p \in USERS, NEW s \in State, Apart(Now(mm[p]), s, Usable(p)), Memory(s), mm' = [mm EXCEPT ![p] = s.mm]
    PROVE  /\ \A q \in USERS \ {p} : SeesSame(q)
           /\ mm'[p] = s.mm /\ SeenNext(p) = Contents(s.mm, s.data)
  <1>1. mm \in [USERS -> Space \cup {NOMM}] /\ SpaceTypeOK /\ mm[p] \in Space \cup {NOMM}
    BY TypeProps DEF IInv
  <1>2. mm'[p] = s.mm /\ \A q \in USERS : q # p => mm'[q] = mm[q]
    BY <1>1
  <1>3. frame'.data = s.data
    BY DEF Memory
  <1>4. \A f \in Frames \ Usable(p) : frame'.data[f] = frame.data[f]
    BY <1>1, <1>3, NowProps DEF Apart
  <1>. QED
    BY <1>2, <1>3, <1>4, OthersSame DEF SeenNext

\* The steps of address spaces are steps of private memories.
LEMMA DiesIs ==
    ASSUME IInv, NEW p \in USERS, NEW s, Dies(p, s)
    PROVE  Private!MemNext
  <1>1. Bare(s, Usable(p)) /\ Apart(Now(mm[p]), s, Usable(p)) /\ Memory(s) /\ mm' = [mm EXCEPT ![p] = NOMM] /\ stopped' = stopped
    BY DEF Dies
  <1>2. s \in State /\ s.mm = NOMM
    BY <1>1 DEF Bare
  <1>3. (\A q \in USERS \ {p} : SeesSame(q)) /\ mm'[p] = NOMM /\ SeenNext(p) = Nothing
    BY <1>1, <1>2, LeftAlone, ContentsProps
  <1>4. Private!Gone(p)
    BY <1>3, PrivateIs, ContentsProps
  <1>. QED
    BY <1>1, <1>3, <1>4, PrivateNext

LEMMA LivesIs ==
    ASSUME IInv, NEW p \in USERS, NEW s, Lives(p, s)
    PROVE  /\ \A q \in USERS \ {p} : SeesSame(q)
           /\ mm'[p] = s.mm /\ SeenNext(p) = Contents(s.mm, s.data) /\ stopped' = stopped
           /\ s.mm \in Space /\ Maps(s.mm) /\ s.data \in [Frames -> VALUES]
  <1>1. Sound(s, Usable(p)) /\ Apart(Now(mm[p]), s, Usable(p)) /\ Memory(s) /\ mm' = [mm EXCEPT ![p] = s.mm] /\ stopped' = stopped
    BY DEF Lives
  <1>2. s \in State /\ s.mm \in Space /\ Maps(s.mm)
    BY <1>1, SoundProps
  <1>. QED
    BY <1>1, <1>2, LeftAlone, StateProps

\* exec leaves what the program asks for.
LEMMA LaunchedLaid ==
    ASSUME NEW a, NEW s, NEW U, NEW image \in IMAGES, Launched(a, s, U, image)
    PROVE  LaidOut(image, Contents(s.mm, s.data), RightsOf(s.mm))
  <1> DEFINE n == Len(image.segments) + 1
             R == Real(image, n)
             C == Contents(s.mm, s.data)
             segs == {image.segments[i] : i \in DOMAIN image.segments}
             here(v) == {seg \in segs : seg.data # <<>> /\ seg.start <= v /\ v < seg.end}
  <1>1. /\ Sound(s, U) /\ AreasOf(s.mm) = {SegArea(image.segments[j]) : j \in R} \cup {StackArea}
        /\ Holds(s, NVIRT - 1, ARGV)
    BY DEF Launched
  <1>2. \A j \in R : \A v \in Virt : Lies(v, image.segments[j]) => Holds(s, v, FileAt(image.segments[j], v))
    BY DEF Launched
  <1>3. s.mm \in Space /\ Maps(s.mm)
    BY <1>1, SoundProps
  <1>4. \A v \in Virt : /\ C[v] = (IF s.mm.pte[v].page = 0 THEN NOMM ELSE s.data[s.mm.pte[v].page])
                        /\ RightsOf(s.mm)[v] = Rights(s.mm, v)
    BY <1>3, ContentsProps
  <1>5. \A j : j \in R <=> j \in DOMAIN image.segments /\ image.segments[j].data # <<>>
    BY ImageProps DEF Real
  <1>. HIDE DEF R, C
  <1>6. ASSUME NEW v \in Virt, NVIRT - USTACKPAGE <= v
        PROVE  RightsOf(s.mm)[v] = {"R", "W", "S"} /\ (v = NVIRT - 1 => C[v] = ARGV)
    <2>1. StackArea \in AreasOf(s.mm) /\ Lies(v, StackArea) /\ StackArea.flags = {"R", "W", "S"}
      BY <1>1, <1>6, StackProps
    <2>2. Rights(s.mm, v) = {"R", "W", "S"}
      BY <1>3, <2>1, RightsOfArea
    <2>. QED
      BY <1>1, <1>4, <2>2 DEF Holds
  <1>7. ASSUME NEW v \in Virt, ~(NVIRT - USTACKPAGE <= v), here(v) = {}
        PROVE  RightsOf(s.mm)[v] = {} /\ C[v] = NOMM
    <2>1. ~\E b \in AreasOf(s.mm) : Lies(v, b)
      <3>1. SUFFICES ASSUME NEW b \in AreasOf(s.mm), Lies(v, b) PROVE FALSE
        OBVIOUS
      <3>2. b # StackArea
        BY <1>7, <3>1, StackProps
      <3>3. PICK j \in R : b = SegArea(image.segments[j])
        BY <1>1, <3>2
      <3>4. j \in DOMAIN image.segments /\ image.segments[j].data # <<>> /\ Lies(v, image.segments[j])
        BY <1>5, <3>1, <3>3, ImageProps, SegProps
      <3>5. image.segments[j] \in here(v)
        BY <3>4 DEF Lies
      <3>. QED
        BY <1>7, <3>5
    <2>2. find_vma(s.mm, v) = {}
      BY <1>3, <2>1, RightsOfNone
    <2>3. s.mm.pte[v].page = 0
      BY <1>3, <2>1 DEF Maps, EntryFits
    <2>4. Rights(s.mm, v) = {}
      BY <2>2 DEF Rights
    <2>. QED
      BY <1>4, <2>3, <2>4
  <1>8. ASSUME NEW v \in Virt, NEW seg \in here(v)
        PROVE  RightsOf(s.mm)[v] = seg.flags /\ C[v] = FileAt(seg, v)
    <2>1. PICK j \in DOMAIN image.segments : seg = image.segments[j] /\ seg.data # <<>>
      OBVIOUS
    <2>2. Lies(v, seg)
      BY <1>8 DEF Lies
    <2>3. j \in R /\ seg \in ProgHeader /\ seg.start < seg.end
      BY <1>5, <2>1, ImageProps
    <2>4. SegArea(seg) \in AreasOf(s.mm) /\ Lies(v, SegArea(seg)) /\ SegArea(seg).flags = seg.flags
      BY <1>1, <2>1, <2>2, <2>3, SegProps
    <2>5. Rights(s.mm, v) = seg.flags
      BY <1>3, <2>4, RightsOfArea
    <2>6. Holds(s, v, FileAt(seg, v))
      BY <1>2, <2>1, <2>2, <2>3
    <2>. QED
      BY <1>4, <2>5, <2>6 DEF Holds
  <1>9. \A v \in Virt :
          IF v >= NVIRT - USTACKPAGE
          THEN RightsOf(s.mm)[v] = {"R", "W", "S"} /\ (v = NVIRT - 1 => C[v] = ARGV)
          ELSE /\ here(v) = {} => RightsOf(s.mm)[v] = {} /\ C[v] = NOMM
               /\ \A seg \in here(v) : RightsOf(s.mm)[v] = seg.flags /\ C[v] = FileAt(seg, v)
    <2> TAKE v \in Virt
    <2>1. v >= NVIRT - USTACKPAGE <=> NVIRT - USTACKPAGE <= v
      BY FrameProps, AddressSpaceAssumption
    <2>. HIDE DEF here
    <2>. QED
      BY <1>6, <1>7, <1>8, <2>1
  <1>. QED
    BY <1>9 DEF LaidOut, FileAt, C

LEMMA ExecIs ==
    ASSUME IInv, NEW p \in USERS, NEW s, NEW a, NEW image \in IMAGES, Lives(p, s), Launched(a, s, Usable(p), image)
    PROVE  Private!MemNext
  <1>1. (\A q \in USERS \ {p} : SeesSame(q)) /\ mm'[p] = s.mm /\ SeenNext(p) = Contents(s.mm, s.data) /\ stopped' = stopped
    BY LivesIs
  <1>2. LaidOut(image, SeenNext(p), RightsOf(mm'[p]))
    BY <1>1, LaunchedLaid
  <1>3. Private!Exec(p)
    BY <1>2, PrivateIs
  <1>. QED
    BY <1>1, <1>3, PrivateNext

LEMMA ForksIs ==
    ASSUME IInv, NEW p \in USERS, NEW q \in USERS, NEW a, NEW s, NEW T, Forks(p, q, a, s, T)
    PROVE  Private!MemNext
  <1>1. /\ a \in State /\ a.free \subseteq frame.free /\ a.data = frame.data
        /\ mm[p] \in Space /\ mm[q] = NOMM /\ Duplicated(a, s, a.free, mm[p])
        /\ mm' = [mm EXCEPT ![q] = s.mm] /\ Memory(s) /\ stopped' = stopped
    BY DEF Forks
  <1>2. /\ Sound(s, a.free) /\ Apart(a, s, a.free) /\ AreasOf(s.mm) = AreasOf(mm[p])
        /\ \A v \in Virt : SameAt(s, mm[p], v)
    BY <1>1 DEF Duplicated
  <1>3. s.mm \in Space /\ Maps(s.mm) /\ Maps(mm[p]) /\ frame'.data = s.data /\ p # q /\ mm[p] # NOMM
    BY <1>1, <1>2, SoundProps, ImagesAssumption DEF Memory, IInv, SpacesFit
  <1>4. Usable(q) = frame.free
    BY <1>1, NowBare
  <1>5. \A f \in Frames \ Usable(q) : frame'.data[f] = frame.data[f]
    BY <1>1, <1>2, <1>3, <1>4 DEF Apart
  <1>6. mm'[q] = s.mm /\ \A r \in USERS \ {q} : mm'[r] = mm[r]
    BY <1>1, TypeProps DEF IInv
  <1>7. \A r \in USERS \ {q} : SeesSame(r)
    BY <1>5, <1>6, OthersSame
  <1>8. Contents(s.mm, s.data) = Contents(mm[p], frame.data)
    <2>1. ASSUME NEW v \in Virt
          PROVE  /\ s.mm.pte[v].page = 0 <=> mm[p].pte[v].page = 0
                 /\ mm[p].pte[v].page # 0 => s.data[s.mm.pte[v].page] = frame.data[mm[p].pte[v].page]
      <3>1. s.mm.pte[v].page = 0 <=> mm[p].pte[v].page = 0
        BY <1>2 DEF SameAt
      <3>2. ASSUME mm[p].pte[v].page # 0 PROVE s.data[s.mm.pte[v].page] = frame.data[mm[p].pte[v].page]
        <4>1. s.data[s.mm.pte[v].page] = s.data[mm[p].pte[v].page]
          BY <1>2, <3>2 DEF SameAt
        <4>2. mm[p].pte[v].page \in Frames \ Usable(q)
          BY <1>3, <3>2, OthersPages
        <4>. QED
          BY <1>3, <1>5, <4>1, <4>2
      <3>. QED
        BY <3>1, <3>2
    <2>. QED
      BY <1>1, <1>3, <2>1, ContentsSame
  <1>9. RightsOf(s.mm) = RightsOf(mm[p])
    BY <1>1, <1>2, <1>3, RightsSame
  <1>10. Seen(q) = Nothing
    BY <1>1, ContentsProps DEF Seen
  <1>11. SeenNext(q) = Seen(p)
    BY <1>3, <1>6, <1>8 DEF Seen, SeenNext
  <1>12. Private!Forked(q, p)
    BY <1>6, <1>9, <1>10, <1>11, PrivateIs
  <1>. QED
    BY <1>1, <1>7, <1>12, PrivateNext

LEMMA PermitsIs ==
    ASSUME NEW m \in Space, Maps(m), NEW v \in Virt, NEW write \in BOOLEAN, Permits(m, v, write)
    PROVE  /\ write => "W" \in RightsOf(m)[v]
           /\ ~write => RightsOf(m)[v] \cap {"R", "X"} # {}
  <1>1. PICK a \in AreasOf(m) : Lies(v, a) /\ IF write THEN "W" \in a.flags ELSE {"R", "X"} \cap a.flags # {}
    BY DEF Permits
  <1>2. Rights(m, v) = a.flags /\ RightsOf(m)[v] = Rights(m, v)
    BY <1>1, RightsOfArea, ContentsProps
  <1>. QED
    BY <1>1, <1>2

\* What an access that goes well leaves of the rest.
LEMMA AccessIs ==
    ASSUME IInv, NEW p \in USERS, NEW s, Lives(p, s), mm[p] # NOMM, NEW S, Step(Now(mm[p]), s, Usable(p), S)
    PROVE  /\ mm[p] \in Space /\ Maps(mm[p]) /\ RightsOf(mm'[p]) = RightsOf(mm[p])
           /\ \A v \in Virt \ S : SeenNext(p)[v] = Seen(p)[v]
           /\ \A v \in Virt : Seen(p)[v] = IF mm[p].pte[v].page = 0 THEN NOMM ELSE frame.data[mm[p].pte[v].page]
           /\ \A v \in Virt : SeenNext(p)[v] = IF s.mm.pte[v].page = 0 THEN NOMM ELSE s.data[s.mm.pte[v].page]
  <1>1. mm'[p] = s.mm /\ SeenNext(p) = Contents(s.mm, s.data) /\ s.mm \in Space /\ Maps(s.mm)
    BY LivesIs
  <1>2. mm[p] \in Space /\ Maps(mm[p]) /\ SpaceTypeOK
    BY TypeProps DEF IInv, SpacesFit
  <1> DEFINE n == Now(mm[p])
  <1>3. n.mm = mm[p] /\ n.data = frame.data
    BY <1>2, NowProps
  <1>. HIDE DEF n
  <1>4. s.mm.areas = n.mm.areas /\ Keeps(n, s, S)
    BY DEF Step, n
  <1>5. RightsOf(mm'[p]) = RightsOf(mm[p])
    <2>1. AreasOf(s.mm) = AreasOf(mm[p])
      BY <1>3, <1>4 DEF AreasOf
    <2>. QED
      BY <1>1, <1>2, <2>1, RightsSame
  <1>6. \A v \in Virt : Seen(p)[v] = IF mm[p].pte[v].page = 0 THEN NOMM ELSE frame.data[mm[p].pte[v].page]
    BY <1>2, ContentsProps DEF Seen
  <1>7. \A v \in Virt : SeenNext(p)[v] = IF s.mm.pte[v].page = 0 THEN NOMM ELSE s.data[s.mm.pte[v].page]
    BY <1>1, ContentsProps
  <1>8. \A v \in Virt \ S : SeenNext(p)[v] = Seen(p)[v]
    <2> TAKE v \in Virt \ S
    <2>1. s.mm.pte[v] = n.mm.pte[v] /\ (n.mm.pte[v].page # 0 => s.data[n.mm.pte[v].page] = n.data[n.mm.pte[v].page])
      BY <1>4 DEF Keeps
    <2>. QED
      BY <1>3, <1>6, <1>7, <2>1
  <1>. QED
    BY <1>2, <1>5, <1>6, <1>7, <1>8

LEMMA TouchedIs ==
    ASSUME IInv, NEW p \in USERS, mm[p] # NOMM, NEW v \in Virt, NEW s, Lives(p, s),
           s = Now(mm[p]) \/ Touched(Now(mm[p]), s, Usable(p), v, FALSE)
    PROVE  [Private!MemNext]_(Private!memory_state)
  <1>1. (\A q \in USERS \ {p} : SeesSame(q)) /\ mm'[p] = s.mm /\ SeenNext(p) = Contents(s.mm, s.data)
        /\ stopped' = stopped /\ s.mm \in Space /\ s.data \in [Frames -> VALUES]
    BY LivesIs
  <1>2. mm[p] \in Space /\ Now(mm[p]).mm = mm[p] /\ Now(mm[p]).data = frame.data
    BY TypeProps, NowProps DEF IInv
  <1>3. CASE s = Now(mm[p])
    <2>1. SeesSame(p)
      BY <1>1, <1>2, <1>3 DEF SeesSame, Seen
    <2>. QED
      BY <1>1, <2>1, PrivateSame
  <1>4. CASE s # Now(mm[p])
    <2>1. Touched(Now(mm[p]), s, Usable(p), v, FALSE)
      BY <1>4
    <2>2. /\ Step(Now(mm[p]), s, Usable(p), {v}) /\ s.mm.pte[v].page # 0 /\ mm[p].pte[v].page = 0
          /\ Permits(mm[p], v, FALSE)
      BY <1>2, <1>4, <2>1 DEF Touched
    <2>3. /\ mm[p] \in Space /\ Maps(mm[p]) /\ RightsOf(mm'[p]) = RightsOf(mm[p])
          /\ \A w \in Virt \ {v} : SeenNext(p)[w] = Seen(p)[w]
          /\ \A w \in Virt : Seen(p)[w] = IF mm[p].pte[w].page = 0 THEN NOMM ELSE frame.data[mm[p].pte[w].page]
          /\ \A w \in Virt : SeenNext(p)[w] = IF s.mm.pte[w].page = 0 THEN NOMM ELSE s.data[s.mm.pte[w].page]
      BY <2>2, AccessIs
    <2>4. RightsOf(mm[p])[v] \cap {"R", "X"} # {}
      BY <2>2, <2>3, PermitsIs
    <2>5. SeenNext(p)[v] \in VALUES
      <3>1. s.mm.pte[v].page \in Frames
        BY <1>1, <2>2, PageAtProps
      <3>. QED
        BY <1>1, <2>2, <2>3, <3>1
    <2>6. Private!Read(p, v)
      BY <2>2, <2>3, <2>4, <2>5, PrivateAccess
    <2>. QED
      BY <1>1, <2>3, <2>6, PrivateNext
  <1>. QED
    BY <1>3, <1>4

LEMMA WrittenIs ==
    ASSUME IInv, NEW p \in USERS, mm[p] # NOMM, NEW lo \in Virt, NEW hi \in Virt, lo <= hi, NEW x \in VALUES, NEW s,
           Lives(p, s), Step(Now(mm[p]), s, Usable(p), lo .. hi), \A v \in lo .. hi : Holds(s, v, x) /\ Permits(mm[p], v, TRUE)
    PROVE  Private!MemNext
  <1>1. (\A q \in USERS \ {p} : SeesSame(q)) /\ stopped' = stopped
    BY LivesIs
  <1> DEFINE S == lo .. hi
  <1>2. S \subseteq Virt
    BY FrameProps
  <1>3. Step(Now(mm[p]), s, Usable(p), S) /\ \A v \in S : Holds(s, v, x) /\ Permits(mm[p], v, TRUE)
    OBVIOUS
  <1>. HIDE DEF S
  <1>4. /\ mm[p] \in Space /\ Maps(mm[p]) /\ RightsOf(mm'[p]) = RightsOf(mm[p])
        /\ \A v \in Virt \ S : SeenNext(p)[v] = Seen(p)[v]
        /\ \A v \in Virt : Seen(p)[v] = IF mm[p].pte[v].page = 0 THEN NOMM ELSE frame.data[mm[p].pte[v].page]
        /\ \A v \in Virt : SeenNext(p)[v] = IF s.mm.pte[v].page = 0 THEN NOMM ELSE s.data[s.mm.pte[v].page]
    BY <1>3, AccessIs
  <1>5. \A v \in S : "W" \in RightsOf(mm[p])[v]
    BY <1>2, <1>3, <1>4, PermitsIs
  <1>6. \A v \in Virt : SeenNext(p)[v] = IF v \in S THEN x ELSE Seen(p)[v]
    BY <1>3, <1>4 DEF Holds
  <1>7. Private!Write(p, lo, hi, x)
    BY <1>5, <1>6, PrivateAccess DEF S
  <1>. QED
    BY <1>1, <1>4, <1>7, PrivateNext

LEMMA StopsIs ==
    ASSUME Stops
    PROVE  Private!MemNext
  <1>1. mm' = mm /\ frame' = frame /\ stopped' # ""
    BY DEF Stops, Stop
  <1>2. \A q \in USERS : SeesSame(q)
    BY <1>1 DEF SeesSame, Seen, SeenNext
  <1>. QED
    BY <1>1, <1>2, PrivateSame

\* The pages of a kernel stack are in no address space.
LEMMA ReapIs ==
    ASSUME IInv, NEW p \in USERS, SpaceReap(p)
    PROVE  UNCHANGED Private!memory_state
  <1> DEFINE n == Now(NOMM)
             T == AllStacks(kstack)[p]
  <1>1. p \in zombie /\ Memory(free_frames(n, kstack[p], KSTACKPAGE)) /\ mm' = mm /\ stopped' = stopped
    BY DEF SpaceReap
  <1>2. SpaceTypeOK /\ kstack[p] # 0 /\ mm[p] = NOMM
    BY <1>1, TypeProps DEF IInv, SpacesFit
  <1>3. T = kstack[p] .. (kstack[p] + KSTACKPAGE - 1) /\ T \subseteq Frames
    BY <1>2, FrameFacts
  <1>4. n \in State /\ n.data = frame.data
    BY <1>2, NowProps
  <1>5. \A f \in T : \A q \in USERS, d \in Place : AllAt(mm)[q][d] # f
    <2> DEFINE A == AllAt(mm)
               K == AllStacks(kstack)
    <2>. HIDE DEF A, K
    <2>1. Held(frame.free, frame.ref, A, K)
      BY DEF IInv, PagesHeld, A, K
    <2>2. \A f \in K[p] : f # 0
      BY <1>3, FrameProps DEF K
    <2>3. \A f \in K[p] : \A q \in USERS, d \in Place : A[q][d] # f
      BY <2>1, <2>2 DEF Held
    <2>. QED
      BY <2>3 DEF A, K
  <1>. HIDE DEF n, T
  <1>6. \A f \in Frames \ T : frame'.data[f] = frame.data[f]
    <2>1. free_frames(n, kstack[p], KSTACKPAGE).data = [f \in Frames |-> IF f \in T THEN STALE ELSE n.data[f]]
      BY <1>3, <1>4, StateProps DEF free_frames
    <2>. QED
      BY <1>1, <1>4, <2>1 DEF Memory
  <1>7. ASSUME NEW q \in USERS PROVE SeesSame(q)
    <2>1. CASE mm[q] = NOMM
      BY <1>1, <2>1, ContentsProps DEF SeesSame, Seen, SeenNext
    <2>2. CASE mm[q] # NOMM
      <3>1. mm[q] \in Space /\ AllAt(mm)[q] = PageAt(mm[q])
        BY <1>2, <2>2, TypeProps DEF AllAt, At
      <3>2. ASSUME NEW v \in Virt, mm[q].pte[v].page # 0
            PROVE  frame'.data[mm[q].pte[v].page] = frame.data[mm[q].pte[v].page]
        <4>1. <<"page", v>> \in Place /\ AllAt(mm)[q][<<"page", v>>] = mm[q].pte[v].page /\ mm[q].pte[v].page \in Frames
          BY <3>1, <3>2, PageAtProps, PlaceProps
        <4>2. mm[q].pte[v].page \notin T
          BY <1>5, <4>1
        <4>. QED
          BY <1>6, <4>1, <4>2
      <3>3. Contents(mm[q], frame'.data) = Contents(mm[q], frame.data)
        BY <3>1, <3>2, ContentsSame
      <3>. QED
        BY <1>1, <3>3 DEF SeesSame, Seen, SeenNext
    <2>. QED
      BY <2>1, <2>2
  <1>. QED
    BY <1>1, <1>7, PrivateSame

\* Address spaces implement private memories: a store is seen by one process only, fork copies what is there and
\* nothing else, and a page that has contents keeps them until its process stores to it, whatever the others do.
THEOREM ImplementsPrivateMemoryCorrect == SpaceSpec => ImplementsPrivateMemory
  <1>1. SpaceInit => Private!MemInit
    <2> SUFFICES ASSUME SpaceInit PROVE Private!MemInit
      OBVIOUS
    <2>1. mm = [p \in USERS |-> NOMM] /\ stopped = ""
      BY DEF SpaceInit
    <2>2. \A p \in USERS : Contents(mm[p], frame.data) = Nothing /\ RightsOf(mm[p]) = [v \in Virt |-> {}]
      BY <2>1, ContentsProps DEF RightsOf
    <2>. QED
      BY <2>1, <2>2 DEF Private!MemInit, Private!Absent, Nothing
  <1>2. IInv /\ [SpaceNext]_space_vars => [Private!MemNext]_(Private!memory_state)
    <2> SUFFICES ASSUME IInv, [SpaceNext]_space_vars PROVE [Private!MemNext]_(Private!memory_state)
      OBVIOUS
    <2>1. ASSUME NEW p \in USERS, NEW q \in USERS, SpaceFork(p, q) PROVE Private!MemNext
      BY <2>1, ForkLeads, ForksIs, StopsIs
    <2>2. ASSUME NEW p \in USERS, NEW image \in IMAGES, SpaceExec(p, image) PROVE Private!MemNext
      BY <2>2, ExecLeads, ExecIs, DiesIs, StopsIs
    <2>3. ASSUME NEW p \in USERS, SpaceExit(p) PROVE Private!MemNext
      BY <2>3, ExitDies, DiesIs
    <2>4. ASSUME NEW p \in USERS, SpaceReap(p) PROVE UNCHANGED Private!memory_state
      BY <2>4, ReapIs
    <2>5. ASSUME NEW p \in USERS, NEW v \in Virt, UserRead(p, v) PROVE [Private!MemNext]_(Private!memory_state)
      <3>1. mm[p] # NOMM
        BY <2>5 DEF UserRead, HasSpace
      <3>. QED
        BY <2>5, <3>1, ReadLeads, TouchedIs, StopsIs
    <2>6. ASSUME NEW p \in USERS, NEW v \in Virt, NEW x \in STORES, UserWrite(p, v, x) PROVE Private!MemNext
      <3>1. mm[p] # NOMM /\ x \in VALUES /\ v .. v = {v} /\ v <= v
        BY <2>6, FrameProps, AddressSpaceAssumption DEF UserWrite, HasSpace
      <3>2. CASE \E s : Lives(p, s) /\ Written(Now(mm[p]), s, Usable(p), v, x)
        <4>1. PICK s : Lives(p, s) /\ Written(Now(mm[p]), s, Usable(p), v, x)
          BY <3>2
        <4>2. Now(mm[p]).mm = mm[p]
          BY TypeProps, NowProps DEF IInv
        <4>3. Step(Now(mm[p]), s, Usable(p), v .. v) /\ \A w \in v .. v : Holds(s, w, x) /\ Permits(mm[p], w, TRUE)
          BY <3>1, <4>1, <4>2 DEF Written, Loaded
        <4>. QED
          BY <3>1, <4>1, <4>3, WrittenIs
      <3>. QED
        BY <2>6, <3>2, WriteLeads, StopsIs
    <2>7. ASSUME NEW p \in USERS, NEW lo \in 0 .. NVIRT, NEW hi \in 0 .. NVIRT, NEW x \in STORES, CopyToUser(p, lo, hi, x)
          PROVE  Private!MemNext
      <3>1. mm[p] # NOMM /\ x \in VALUES
        BY <2>7, AddressSpaceAssumption DEF CopyToUser, HasSpace
      <3>2. CASE /\ lo < hi /\ \A v \in lo .. (hi - 1) : Permits(mm[p], v, TRUE)
                 /\ \E s : Lives(p, s) /\ WrittenTo(Now(mm[p]), s, Usable(p), lo .. (hi - 1), x)
        <4>1. PICK s : Lives(p, s) /\ WrittenTo(Now(mm[p]), s, Usable(p), lo .. (hi - 1), x)
          BY <3>2
        <4>2. lo \in Virt /\ hi - 1 \in Virt /\ lo <= hi - 1
          BY <3>2, FrameProps
        <4>3. /\ Step(Now(mm[p]), s, Usable(p), lo .. (hi - 1))
              /\ \A w \in lo .. (hi - 1) : Holds(s, w, x) /\ Permits(mm[p], w, TRUE)
          BY <3>2, <4>1 DEF WrittenTo
        <4>. QED
          BY <3>1, <4>1, <4>2, <4>3, WrittenIs
      <3>. QED
        BY <2>7, <3>2, CopyLeads, StopsIs
    <2>8. CASE UNCHANGED space_vars
      <3>1. stopped' = stopped /\ \A q \in USERS : SeesSame(q)
        BY <2>8 DEF space_vars, SeesSame, Seen, SeenNext
      <3>. QED
        BY <3>1, PrivateSame
    <2>9. CASE SpaceStopped
      BY <2>8, <2>9 DEF SpaceStopped
    <2>. QED
      BY <2>1, <2>2, <2>3, <2>4, <2>5, <2>6, <2>7, <2>8, <2>9 DEF SpaceNext
  <1>. QED
    BY <1>1, <1>2, SpecHolds, PTL DEF SpaceSpec, ImplementsPrivateMemory, Private!MemSpec
==============================================================================
