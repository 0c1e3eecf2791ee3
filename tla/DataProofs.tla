----------------------------- MODULE DataProofs ------------------------------
(***************************************************************************)
(* Proofs about four of the parts that MCData runs side by side: the page    *)
(* allocator (FirstFit), for any number of pages and regions, the allocation *)
(* of process ids (GetPid), for any process table and any MAX_PID, the timer *)
(* list (TimerList), for any processes and any times, and the kernel heap    *)
(* (Slob), for any memory and any sizes; and about the stride class with its *)
(* skew heap (MCStride), for any processes, widths and priorities.           *)
(*                                                                         *)
(* The list of free blocks is dealt with in two ways: as a list it only has  *)
(* to be in the order of addresses (IsList), and the blocks it links, as a  *)
(* set, have to be apart (AreBlocks).  What the loops of free_pages do to    *)
(* the blocks then does not depend on the order in which they come.         *)
(*                                                                         *)
(* The heap is dealt with as a value g, whose blocks are a set B that the    *)
(* list goes round in the order of addresses (IsCircle).  slob_free and      *)
(* slob_alloc are described by the units they put in and take out, and what  *)
(* callers hold tiles the rest of memory (Tiles, HeapOK).                    *)
(*                                                                         *)
(* The run pool is a skew heap h with the nodes S (HeapOf).  Merging has a   *)
(* contract (Merges) that is proved by induction over the number of nodes;   *)
(* inserting and removing follow from it.  Strides are remainders of numbers *)
(* that do not wrap (Lifts).                                                 *)
(***************************************************************************)
EXTENDS GetPid, TimerList, FirstFit, Slob, MCStride, SchedProofs, FiniteSetTheorems, SequenceTheorems, WellFoundedInduction, TLAPS

-----------------------------------------------------------------------------
(* Lists of pages in the order of addresses.                                *)

IsList(L) ==
    /\ L \in Seq(Pages)
    /\ \A i, j \in DOMAIN L : i < j => L[i] < L[j]

\* What RemoveAt and InsertAt do to each position.
LEMMA RemoveAtProps ==
    ASSUME NEW S, NEW s \in Seq(S), NEW i \in 1 .. Len(s)
    PROVE  /\ RemoveAt(s, i) \in Seq(S)
           /\ Len(RemoveAt(s, i)) = Len(s) - 1
           /\ \A j \in 1 .. (Len(s) - 1) : RemoveAt(s, i)[j] = IF j < i THEN s[j] ELSE s[j + 1]
  <1> DEFINE a == SubSeq(s, 1, i - 1)
             b == SubSeq(s, i + 1, Len(s))
  <1>1. Len(s) \in Nat /\ i \in Int /\ i - 1 \in Int /\ i + 1 \in Int
    BY LenProperties
  <1>2. (\A k \in 1 .. (i - 1) : s[k] \in S) /\ (\A k \in (i + 1) .. Len(s) : s[k] \in S)
    BY <1>1, ElementOfSeq
  <1>3. a \in Seq(S) /\ Len(a) = i - 1 /\ \A k \in 1 .. (i - 1) : a[k] = s[k]
    <2>1. /\ a \in Seq(S) /\ Len(a) = (IF 1 <= i - 1 THEN (i - 1) - 1 + 1 ELSE 0)
          /\ \A k \in 1 .. ((i - 1) - 1 + 1) : a[k] = s[1 + k - 1]
      BY <1>1, <1>2, SubSeqProperties
    <2>. QED
      BY <1>1, <2>1
  <1>4. b \in Seq(S) /\ Len(b) = Len(s) - i /\ \A k \in 1 .. (Len(s) - i) : b[k] = s[i + k]
    <2>1. /\ b \in Seq(S) /\ Len(b) = (IF i + 1 <= Len(s) THEN Len(s) - (i + 1) + 1 ELSE 0)
          /\ \A k \in 1 .. (Len(s) - (i + 1) + 1) : b[k] = s[(i + 1) + k - 1]
      BY <1>1, <1>2, SubSeqProperties
    <2>. QED
      BY <1>1, <2>1
  <1>5. RemoveAt(s, i) = a \o b
    BY DEF RemoveAt
  <1>. HIDE DEF a, b
  <1>6. /\ a \o b \in Seq(S) /\ Len(a \o b) = Len(a) + Len(b)
        /\ \A k \in 1 .. Len(a) + Len(b) : (a \o b)[k] = IF k <= Len(a) THEN a[k] ELSE b[k - Len(a)]
    BY <1>3, <1>4, ConcatProperties
  <1>. QED
    BY <1>1, <1>3, <1>4, <1>5, <1>6

LEMMA InsertAtProps ==
    ASSUME NEW S, NEW s \in Seq(S), NEW i \in 1 .. (Len(s) + 1), NEW e \in S
    PROVE  /\ InsertAt(s, i, e) \in Seq(S)
           /\ Len(InsertAt(s, i, e)) = Len(s) + 1
           /\ \A j \in 1 .. (Len(s) + 1) :
                InsertAt(s, i, e)[j] = IF j < i THEN s[j] ELSE IF j = i THEN e ELSE s[j - 1]
  <1> DEFINE a == SubSeq(s, 1, i - 1)
             b == SubSeq(s, i, Len(s))
             m == <<e>>
  <1>1. Len(s) \in Nat /\ i \in Int /\ i - 1 \in Int
    BY LenProperties
  <1>2. (\A k \in 1 .. (i - 1) : s[k] \in S) /\ (\A k \in i .. Len(s) : s[k] \in S)
    BY <1>1, ElementOfSeq
  <1>3. a \in Seq(S) /\ Len(a) = i - 1 /\ \A k \in 1 .. (i - 1) : a[k] = s[k]
    <2>1. /\ a \in Seq(S) /\ Len(a) = (IF 1 <= i - 1 THEN (i - 1) - 1 + 1 ELSE 0)
          /\ \A k \in 1 .. ((i - 1) - 1 + 1) : a[k] = s[1 + k - 1]
      BY <1>1, <1>2, SubSeqProperties
    <2>. QED
      BY <1>1, <2>1
  <1>4. b \in Seq(S) /\ Len(b) = Len(s) - i + 1 /\ \A k \in 1 .. (Len(s) - i + 1) : b[k] = s[i + k - 1]
    <2>1. /\ b \in Seq(S) /\ Len(b) = (IF i <= Len(s) THEN Len(s) - i + 1 ELSE 0)
          /\ \A k \in 1 .. (Len(s) - i + 1) : b[k] = s[i + k - 1]
      BY <1>1, <1>2, SubSeqProperties
    <2>. QED
      BY <1>1, <2>1
  <1>5. InsertAt(s, i, e) = (a \o m) \o b
    BY DEF InsertAt
  <1>6. m \in Seq(S) /\ Len(m) = 1 /\ m[1] = e
    OBVIOUS
  <1>. HIDE DEF a, b, m
  <1>7. /\ a \o m \in Seq(S) /\ Len(a \o m) = Len(a) + Len(m)
        /\ \A k \in 1 .. Len(a) + Len(m) : (a \o m)[k] = IF k <= Len(a) THEN a[k] ELSE m[k - Len(a)]
    BY <1>3, <1>6, ConcatProperties
  <1> DEFINE c == a \o m
  <1>8. c \in Seq(S) /\ Len(c) = i /\ \A k \in 1 .. i : c[k] = IF k < i THEN s[k] ELSE e
    BY <1>1, <1>3, <1>6, <1>7
  <1>. HIDE DEF c
  <1>9. /\ c \o b \in Seq(S) /\ Len(c \o b) = Len(c) + Len(b)
        /\ \A k \in 1 .. Len(c) + Len(b) : (c \o b)[k] = IF k <= Len(c) THEN c[k] ELSE b[k - Len(c)]
    BY <1>4, <1>8, ConcatProperties
  <1>10. InsertAt(s, i, e) = c \o b
    BY <1>5 DEF c
  <1>11. PICK d : d = c \o b
    OBVIOUS
  <1>12. d \in Seq(S) /\ Len(d) = Len(s) + 1
    BY <1>1, <1>4, <1>8, <1>9, <1>11
  <1>13. ASSUME NEW j \in 1 .. (Len(s) + 1)
         PROVE  d[j] = IF j < i THEN s[j] ELSE IF j = i THEN e ELSE s[j - 1]
    <2>1. d[j] = IF j <= i THEN c[j] ELSE b[j - i]
      BY <1>1, <1>4, <1>8, <1>9, <1>11
    <2>2. CASE j <= i
      BY <1>1, <1>8, <2>1, <2>2
    <2>3. CASE ~(j <= i)
      <3>1. j - i \in 1 .. (Len(s) - i + 1) /\ i + (j - i) - 1 = j - 1
        BY <1>1, <2>3
      <3>. QED
        BY <1>1, <1>4, <2>1, <2>3, <3>1
    <2>. QED
      BY <2>2, <2>3
  <1>. QED
    BY <1>10, <1>11, <1>12, <1>13

\* The elements of a list, and where they stand.
LEMMA ListProps ==
    ASSUME NEW L, IsList(L)
    PROVE  /\ L \in Seq(Pages) /\ Len(L) \in Nat /\ DOMAIN L = 1 .. Len(L)
           /\ \A i \in DOMAIN L : L[i] \in Pages /\ L[i] \in Int /\ L[i] \in ToSet(L)
           /\ \A p \in ToSet(L) : p \in Pages /\ \E i \in DOMAIN L : L[i] = p
           /\ \A i, j \in DOMAIN L : (i < j => L[i] < L[j]) /\ (L[i] < L[j] => i < j)
  <1>1. L \in Seq(Pages) /\ Len(L) \in Nat /\ DOMAIN L = 1 .. Len(L)
    BY LenProperties DEF IsList
  <1>2. \A i \in DOMAIN L : L[i] \in Pages /\ L[i] \in Int
    BY <1>1, ElementOfSeq, FirstFitAssumption DEF Pages
  <1>3. ASSUME NEW i \in DOMAIN L, NEW j \in DOMAIN L PROVE (i < j => L[i] < L[j]) /\ (L[i] < L[j] => i < j)
    <2>1. (i < j => L[i] < L[j]) /\ (j < i => L[j] < L[i])
      BY DEF IsList
    <2>2. L[i] \in Int /\ L[j] \in Int /\ i \in Int /\ j \in Int
      BY <1>1, <1>2
    <2>. QED
      BY <2>1, <2>2
  <1>. QED
    BY <1>1, <1>2, <1>3 DEF ToSet

\* A sequence is a list if its elements are those of one and in order.
LEMMA RemoveList ==
    ASSUME NEW L, IsList(L), NEW i \in DOMAIN L
    PROVE  IsList(RemoveAt(L, i)) /\ ToSet(RemoveAt(L, i)) = ToSet(L) \ {L[i]}
  <1> DEFINE R == RemoveAt(L, i)
             n == Len(L)
  <1>1. /\ L \in Seq(Pages) /\ n \in Nat /\ DOMAIN L = 1 .. n
        /\ \A k \in DOMAIN L : L[k] \in Int
        /\ \A k, j \in DOMAIN L : k < j => L[k] < L[j]
    BY ListProps
  <1>2. /\ R \in Seq(Pages) /\ Len(R) = Len(L) - 1
        /\ \A j \in 1 .. (Len(L) - 1) : R[j] = IF j < i THEN L[j] ELSE L[j + 1]
    <2>1. L \in Seq(Pages) /\ i \in 1 .. Len(L)
      BY <1>1
    <2>. QED
      BY ONLY <2>1, RemoveAtProps
  <1>3. DOMAIN R = 1 .. (n - 1)
    BY <1>2, LenProperties
  <1>. HIDE DEF R, n
  <1> DEFINE at(k) == IF k < i THEN k ELSE k + 1
  <1>4. i \in 1 .. n
    BY <1>1
  <1>5. \A k \in DOMAIN R : at(k) \in DOMAIN L /\ at(k) # i /\ R[k] = L[at(k)]
    BY <1>1, <1>2, <1>3, <1>4 DEF n
  <1>6. \A k, j \in DOMAIN R : k < j => at(k) < at(j)
    BY <1>1, <1>3, <1>4
  <1>. HIDE DEF at
  <1>7. ASSUME NEW k \in DOMAIN R, NEW j \in DOMAIN R, k < j PROVE R[k] < R[j]
    BY <1>1, <1>7, <1>5, <1>6
  <1>8. ASSUME NEW k \in DOMAIN R PROVE R[k] \in ToSet(L) \ {L[i]}
    <2>1. PICK m \in DOMAIN L : m # i /\ R[k] = L[m]
      BY <1>5
    <2>2. L[m] # L[i]
      BY <1>1, <2>1
    <2>. QED
      BY <2>1, <2>2 DEF ToSet
  <1>9. ASSUME NEW m \in DOMAIN L, L[m] # L[i] PROVE \E k \in DOMAIN R : R[k] = L[m]
    <2>1. CASE m < i
      <3>1. m \in DOMAIN R /\ R[m] = L[m]
        BY <1>1, <1>2, <1>3, <1>4, <2>1 DEF n
      <3>. QED
        BY <3>1
    <2>2. CASE i < m
      <3>1. m - 1 \in DOMAIN R /\ R[m - 1] = L[m]
        BY <1>1, <1>2, <1>3, <1>4, <2>2 DEF n
      <3>. QED
        BY <3>1
    <2>. QED
      BY <1>1, <1>9, <2>1, <2>2
  <1>10. IsList(R)
    BY <1>2, <1>7 DEF IsList
  <1>11. ToSet(R) = ToSet(L) \ {L[i]}
    BY <1>8, <1>9 DEF ToSet
  <1>. QED
    BY <1>10, <1>11 DEF R

LEMMA UnlinkList ==
    ASSUME NEW L, IsList(L), NEW p \in ToSet(L)
    PROVE  IsList(list_del(L, p)) /\ ToSet(list_del(L, p)) = ToSet(L) \ {p}
  <1> DEFINE i == CHOOSE k \in DOMAIN L : L[k] = p
  <1>1. \E k \in DOMAIN L : L[k] = p
    BY ListProps
  <1>2. i \in DOMAIN L /\ L[i] = p
    BY <1>1
  <1>3. list_del(L, p) = RemoveAt(L, i)
    BY DEF list_del
  <1>. HIDE DEF i
  <1>. QED
    BY <1>2, <1>3, RemoveList

\* A page goes between those below it and those above it.
LEMMA InsertList ==
    ASSUME NEW L, IsList(L), NEW x \in Pages, NEW i \in 1 .. (Len(L) + 1),
           \A j \in DOMAIN L : (j < i => L[j] < x) /\ (i <= j => x < L[j])
    PROVE  IsList(InsertAt(L, i, x)) /\ ToSet(InsertAt(L, i, x)) = ToSet(L) \cup {x}
  <1> DEFINE R == InsertAt(L, i, x)
             n == Len(L)
  <1>1. /\ L \in Seq(Pages) /\ n \in Nat /\ DOMAIN L = 1 .. n
        /\ \A k \in DOMAIN L : L[k] \in Int
        /\ \A k, j \in DOMAIN L : k < j => L[k] < L[j]
    BY ListProps
  <1>2. /\ R \in Seq(Pages) /\ Len(R) = n + 1
        /\ \A j \in 1 .. (n + 1) : R[j] = IF j < i THEN L[j] ELSE IF j = i THEN x ELSE L[j - 1]
    BY <1>1, InsertAtProps
  <1>3. DOMAIN R = 1 .. (n + 1)
    BY <1>2, LenProperties
  <1>. HIDE DEF R
  <1>4. x \in Int
    BY FirstFitAssumption DEF Pages
  <1> DEFINE at(k) == IF k < i THEN k ELSE k - 1
  <1>5. ASSUME NEW k \in DOMAIN R
        PROVE  (k = i /\ R[k] = x) \/ (k # i /\ at(k) \in DOMAIN L /\ R[k] = L[at(k)])
    <2>1. k \in 1 .. (n + 1) /\ R[k] = (IF k < i THEN L[k] ELSE IF k = i THEN x ELSE L[k - 1])
      BY <1>2, <1>3
    <2>2. CASE k = i
      BY <2>1, <2>2
    <2>3. CASE k # i
      <3>1. at(k) \in 1 .. n
        BY <1>1, <2>1, <2>3
      <3>2. R[k] = L[at(k)]
        BY <1>1, <2>1, <2>3
      <3>. QED
        BY <1>1, <2>3, <3>1, <3>2
    <2>. QED
      BY <2>2, <2>3
  <1>6. /\ \A k, j \in DOMAIN R : k < j /\ k # i /\ j # i => at(k) < at(j)
        /\ \A k \in DOMAIN R : (k < i => at(k) < i) /\ (i < k => i <= at(k))
    BY <1>1, <1>3
  <1>. HIDE DEF at
  <1>7. ASSUME NEW k \in DOMAIN R, NEW j \in DOMAIN R, k < j PROVE R[k] < R[j]
    <2>1. CASE k # i /\ j # i
      <3>1. at(k) \in DOMAIN L /\ at(j) \in DOMAIN L /\ R[k] = L[at(k)] /\ R[j] = L[at(j)] /\ at(k) < at(j)
        BY <1>5, <1>6, <1>7, <2>1
      <3>. QED
        BY <1>1, <3>1
    <2>2. CASE k = i
      <3>1. R[k] = x /\ R[j] = L[at(j)] /\ at(j) \in DOMAIN L /\ i <= at(j)
        BY <1>1, <1>3, <1>5, <1>6, <1>7, <2>2
      <3>. QED
        BY <3>1
    <2>3. CASE j = i
      <3>1. R[j] = x /\ R[k] = L[at(k)] /\ at(k) \in DOMAIN L /\ at(k) < i
        BY <1>1, <1>3, <1>5, <1>6, <1>7, <2>3
      <3>. QED
        BY <3>1
    <2>. QED
      BY <2>1, <2>2, <2>3
  <1>8. ASSUME NEW k \in DOMAIN R PROVE R[k] \in ToSet(L) \cup {x}
    BY <1>5 DEF ToSet
  <1>9. ASSUME NEW m \in DOMAIN L PROVE \E k \in DOMAIN R : R[k] = L[m]
    <2>1. CASE m < i
      <3>1. m \in DOMAIN R /\ R[m] = L[m]
        BY <1>1, <1>2, <1>3, <2>1
      <3>. QED
        BY <3>1
    <2>2. CASE i <= m
      <3>1. m + 1 \in DOMAIN R /\ R[m + 1] = L[m]
        BY <1>1, <1>2, <1>3, <2>2
      <3>. QED
        BY <3>1
    <2>. QED
      BY <1>1, <2>1, <2>2
  <1>10. i \in DOMAIN R /\ R[i] = x
    BY <1>1, <1>2, <1>3
  <1>11. IsList(R)
    BY <1>2, <1>7 DEF IsList
  <1>12. ToSet(R) = ToSet(L) \cup {x}
    BY <1>8, <1>9, <1>10 DEF ToSet
  <1>. QED
    BY <1>11, <1>12 DEF R

\* A page takes the place of another one, with none between them.
LEMMA ReplaceList ==
    ASSUME NEW L, IsList(L), NEW x \in Pages, NEW i \in DOMAIN L, L[i] < x,
           \A j \in DOMAIN L : i < j => x < L[j]
    PROVE  IsList(ReplaceAt(L, i, x)) /\ ToSet(ReplaceAt(L, i, x)) = (ToSet(L) \ {L[i]}) \cup {x}
  <1> DEFINE R == ReplaceAt(L, i, x)
             n == Len(L)
  <1>1. /\ L \in Seq(Pages) /\ n \in Nat /\ DOMAIN L = 1 .. n
        /\ \A k \in DOMAIN L : L[k] \in Int
        /\ \A k, j \in DOMAIN L : k < j => L[k] < L[j]
    BY ListProps
  <1>2. R \in Seq(Pages) /\ Len(R) = n /\ \A j \in 1 .. n : R[j] = IF j = i THEN x ELSE L[j]
    BY <1>1, ExceptSeq DEF ReplaceAt
  <1>3. DOMAIN R = 1 .. n
    BY <1>2, LenProperties
  <1>4. x \in Int
    BY FirstFitAssumption DEF Pages
  <1>. HIDE DEF R
  <1>5. ASSUME NEW k \in DOMAIN R, NEW j \in DOMAIN R, k < j PROVE R[k] < R[j]
    BY <1>4, <1>1, <1>2, <1>3, <1>5
  <1>6. IsList(R)
    BY <1>2, <1>5 DEF IsList
  <1>7. ASSUME NEW k \in DOMAIN L, k # i PROVE L[k] # L[i]
    BY <1>1, <1>7
  <1>8. ToSet(R) = (ToSet(L) \ {L[i]}) \cup {x}
    BY <1>1, <1>2, <1>3, <1>7, Zenon DEF ToSet
  <1>. QED
    BY <1>6, <1>8 DEF R

\* A page above all others goes to the end.
LEMMA AppendList ==
    ASSUME NEW L, IsList(L), NEW x \in Pages, \A p \in ToSet(L) : p < x
    PROVE  IsList(Append(L, x)) /\ ToSet(Append(L, x)) = ToSet(L) \cup {x}
  <1> DEFINE R == Append(L, x)
             n == Len(L)
  <1>1. /\ L \in Seq(Pages) /\ n \in Nat /\ DOMAIN L = 1 .. n
        /\ \A k \in DOMAIN L : L[k] \in Int /\ L[k] < x
        /\ \A k, j \in DOMAIN L : k < j => L[k] < L[j]
    BY ListProps
  <1>2. R \in Seq(Pages) /\ Len(R) = n + 1 /\ (\A j \in 1 .. n : R[j] = L[j]) /\ R[n + 1] = x
    BY <1>1, AppendProperties
  <1>3. DOMAIN R = 1 .. (n + 1)
    BY <1>2, LenProperties
  <1>. HIDE DEF R
  <1>4. ASSUME NEW k \in DOMAIN R, NEW j \in DOMAIN R, k < j PROVE R[k] < R[j]
    BY <1>1, <1>2, <1>3, <1>4
  <1>5. IsList(R)
    BY <1>2, <1>4 DEF IsList
  <1>6. \A k \in DOMAIN R : k = n + 1 \/ k \in 1 .. n
    BY <1>1, <1>3
  <1>7. n + 1 \in DOMAIN R /\ \A k \in 1 .. n : k \in DOMAIN R
    BY <1>1, <1>3
  <1>8. ToSet(R) = ToSet(L) \cup {x}
    BY <1>1, <1>2, <1>6, <1>7, Zenon DEF ToSet
  <1>. QED
    BY <1>5, <1>8 DEF R

-----------------------------------------------------------------------------
(* Blocks of free pages: a set B of pages that head them, of lengths P.     *)

\* x lies in the n pages from q on.
In(x, q, n) == q <= x /\ x < q + n

AreBlocks(B, P) ==
    /\ B \subseteq Pages
    /\ \A q \in B : P[q] \in Nat \ {0} /\ q + P[q] <= NPAGE
    /\ \A q, r \in B : q < r => q + P[q] < r

PagesOf(B, P) == UNION {Run(q, P[q]) : q \in B}

LEMMA PageProps ==
    /\ NPAGE \in Nat
    /\ \A x : x \in Pages <=> x \in Nat /\ x < NPAGE
    /\ Pages \subseteq Int
  BY FirstFitAssumption DEF Pages

LEMMA RunProps ==
    ASSUME NEW b \in Nat, NEW n \in Nat
    PROVE  /\ \A x : x \in Run(b, n) <=> x \in Nat /\ In(x, b, n)
           /\ IsFiniteSet(Run(b, n)) /\ Cardinality(Run(b, n)) = n
  <1>1. \A x : x \in Run(b, n) <=> x \in Nat /\ In(x, b, n)
    BY DEF Run, In
  <1>2. IsFiniteSet(Run(b, n)) /\ Cardinality(Run(b, n)) = n
    <2>1. b \in Int /\ b + n - 1 \in Int
      OBVIOUS
    <2>2. /\ IsFiniteSet(b .. (b + n - 1))
          /\ Cardinality(b .. (b + n - 1)) = IF b > b + n - 1 THEN 0 ELSE (b + n - 1) - b + 1
      BY <2>1, FS_Interval
    <2>. QED
      BY <2>2 DEF Run
  <1>. QED
    BY <1>1, <1>2

LEMMA PagesOfProps ==
    ASSUME NEW B, NEW P, AreBlocks(B, P)
    PROVE  /\ PagesOf(B, P) \subseteq Pages
           /\ \A x : x \in PagesOf(B, P) <=> x \in Nat /\ \E q \in B : In(x, q, P[q])
  <1>1. \A q \in B : q \in Nat /\ P[q] \in Nat /\ q + P[q] <= NPAGE
    BY PageProps DEF AreBlocks
  <1>2. ASSUME NEW x PROVE x \in PagesOf(B, P) <=> x \in Nat /\ \E q \in B : In(x, q, P[q])
    <2>1. x \in PagesOf(B, P) <=> \E q \in B : x \in Run(q, P[q])
      BY DEF PagesOf
    <2>2. \A q \in B : x \in Run(q, P[q]) <=> x \in Nat /\ In(x, q, P[q])
      BY <1>1, RunProps
    <2>. QED
      BY <2>1, <2>2
  <1>3. ASSUME NEW x \in PagesOf(B, P) PROVE x \in Pages
    <2>1. x \in Nat
      BY <1>2
    <2>2. PICK q \in B : In(x, q, P[q])
      BY <1>2
    <2>3. x < NPAGE
      BY <1>1, <2>1, <2>2, PageProps DEF In
    <2>. QED
      BY <2>1, <2>3, PageProps
  <1>. QED
    BY <1>2, <1>3

\* Free pages that follow one another are in one block.
LEMMA FitsInBlock ==
    ASSUME NEW B, NEW P, AreBlocks(B, P), NEW b \in Nat, NEW n \in Nat \ {0},
           Run(b, n) \subseteq PagesOf(B, P)
    PROVE  \E q \in B : q <= b /\ b + n <= q + P[q]
  <1>1. /\ \A q \in B : q \in Nat /\ P[q] \in Nat
        /\ \A q, r \in B : q < r => q + P[q] < r
    BY PageProps DEF AreBlocks
  <1>2. b \in Run(b, n)
    BY RunProps DEF In
  <1>3. PICK q \in B : In(b, q, P[q])
    BY <1>2, PagesOfProps
  <1>4. q \in Nat /\ P[q] \in Nat /\ q <= b /\ b < q + P[q]
    BY <1>1, <1>3 DEF In
  <1>5. ASSUME q + P[q] < b + n PROVE FALSE
    <2>1. q + P[q] \in Run(b, n)
      BY <1>4, <1>5, RunProps DEF In
    <2>2. PICK r \in B : In(q + P[q], r, P[r])
      BY <2>1, PagesOfProps
    <2>3. r \in Nat /\ P[r] \in Nat /\ r <= q + P[q] /\ q + P[q] < r + P[r]
      BY <1>1, <2>2 DEF In
    <2>4. (q < r => q + P[q] < r) /\ (r < q => r + P[r] < q)
      BY <1>1
    <2>5. r # q
      BY <1>4, <2>3
    <2>. QED
      BY <1>4, <2>3, <2>4, <2>5
  <1>. QED
    BY <1>4, <1>5

-----------------------------------------------------------------------------
(* The first loop of free_pages.                                            *)

\* After the blocks V of the list have been looked at, b is next to none of them
\* that is still in the list, and the pages are those there were and the n pages
\* from base on.
Covers(C, P, q, s, B, base, n) == \A x \in Nat :
    (\E r \in C : In(x, r, P[r])) \/ In(x, q, s) <=> (\E r \in B : In(x, r, P[r])) \/ In(x, base, n)

ClearOf(C, P, V, q, s) == \A r \in C :
    /\ r + P[r] <= q \/ q + s <= r
    /\ r \in V => r + P[r] < q \/ q + s < r

IsFreed(b) == b \in [base : Pages, property : [Pages -> 0 .. NPAGE], flags : SUBSET Pages, list : Seq(Pages)]

Loop(b, V, B, P, base, n) ==
    /\ IsFreed(b)
    /\ IsList(b.list)
    /\ ToSet(b.list) \subseteq B /\ B \ V \subseteq ToSet(b.list)
    /\ \A q \in ToSet(b.list) : b.property[q] = P[q]
    /\ b.property[b.base] > 0 /\ b.base + b.property[b.base] <= NPAGE
    /\ ClearOf(ToSet(b.list), P, V, b.base, b.property[b.base])
    /\ Covers(ToSet(b.list), P, b.base, b.property[b.base], B, base, n)
    /\ b.flags = ToSet(b.list) \cup {b.base}

\* Block p follows, or goes before, q of length s.
LEMMA JoinBlocks ==
    ASSUME NEW B, NEW P, AreBlocks(B, P), NEW V \in SUBSET B, NEW p \in B, NEW C \in SUBSET B, p \in C,
           NEW q \in Nat, NEW s \in Nat \ {0}, ClearOf(C, P, V, q, s), NEW base, NEW n, Covers(C, P, q, s, B, base, n),
           NEW t, NEW u \in Nat, t = IF q + s = p THEN q ELSE p, u = s + P[p], q + s = p \/ p + P[p] = q
    PROVE  /\ ClearOf(C \ {p}, P, V \cup {p}, t, u)
           /\ Covers(C \ {p}, P, t, u, B, base, n)
  <1>1. /\ \A r \in B : r \in Nat /\ P[r] \in Nat \ {0}
        /\ \A r \in B : (r < p => r + P[r] < p) /\ (p < r => p + P[p] < r)
    BY PageProps DEF AreBlocks
  <1>2. p \in Nat /\ P[p] \in Nat \ {0}
    BY <1>1
  <1>3. ASSUME NEW r \in C \ {p}
        PROVE  /\ r + P[r] <= t \/ t + u <= r
               /\ r \in V \cup {p} => r + P[r] < t \/ t + u < r
    <2>1. r \in Nat /\ P[r] \in Nat \ {0} /\ r # p /\ (r < p => r + P[r] < p) /\ (p < r => p + P[p] < r)
      BY <1>1
    <2>2. (r + P[r] <= q \/ q + s <= r) /\ (r \in V => r + P[r] < q \/ q + s < r)
      BY DEF ClearOf
    <2> DEFINE x == P[r]
               y == P[p]
               v == r \in V
    <2>3. /\ r \in Nat /\ x \in Nat \ {0} /\ y \in Nat \ {0} /\ r # p /\ (r < p => r + x < p) /\ (p < r => p + y < r)
          /\ (r + x <= q \/ q + s <= r) /\ (v => r + x < q \/ q + s < r) /\ u = s + y /\ (q + s = p \/ p + y = q)
          /\ r \in V \cup {p} => v
      BY <1>2, <2>1, <2>2
    <2>. HIDE DEF x, y, v
    <2>4. (r + x <= t \/ t + u <= r) /\ (v => r + x < t \/ t + u < r)
      BY <1>2, <2>3
    <2>. QED
      BY <2>3, <2>4 DEF x
  <1>4. \A x \in Nat : In(x, t, u) <=> In(x, q, s) \/ In(x, p, P[p])
    BY <1>2 DEF In
  <1>5. Covers(C \ {p}, P, t, u, B, base, n)
    <2>1. ASSUME NEW x \in Nat
          PROVE  (\E r \in C \ {p} : In(x, r, P[r])) \/ In(x, t, u) <=> (\E r \in B : In(x, r, P[r])) \/ In(x, base, n)
      <3>1. (\E r \in C : In(x, r, P[r])) \/ In(x, q, s) <=> (\E r \in B : In(x, r, P[r])) \/ In(x, base, n)
        BY DEF Covers
      <3>2. (\E r \in C : In(x, r, P[r])) <=> (\E r \in C \ {p} : In(x, r, P[r])) \/ In(x, p, P[p])
        BY Zenon
      <3>. QED
        BY <1>4, <3>1, <3>2
    <2>. QED
      BY <2>1 DEF Covers
  <1>. QED
    BY <1>3, <1>5 DEF ClearOf

\* A block that is merged, or not, has been looked at.
LEMMA MergeLoop ==
    ASSUME NEW B, NEW P, AreBlocks(B, P), NEW V \in SUBSET B, NEW p \in B \ V,
           NEW base, NEW n, NEW b, Loop(b, V, B, P, base, n)
    PROVE  Loop(Merge(b, p), V \cup {p}, B, P, base, n)
  <1> DEFINE L == b.list
             F == b.property
             q == b.base
             s == F[q]
             C == ToSet(L)
  <1>1. /\ b = [base |-> q, property |-> F, flags |-> b.flags, list |-> L]
        /\ q \in Pages /\ F \in [Pages -> 0 .. NPAGE] /\ b.flags \in SUBSET Pages
    BY DEF Loop, IsFreed
  <1>2. /\ IsList(L) /\ C \subseteq B /\ B \ V \subseteq C /\ s > 0 /\ q + s <= NPAGE
        /\ \A r \in C : F[r] = P[r]
        /\ ClearOf(C, P, V, q, s) /\ Covers(C, P, q, s, B, base, n) /\ b.flags = C \cup {q}
    BY DEF Loop
  <1>3. p \in C /\ p \in Pages /\ p \in Nat /\ q \in Nat /\ F[p] = P[p] /\ s \in Nat \ {0}
    BY <1>1, <1>2, PageProps DEF AreBlocks
  <1>4. P[p] \in Nat \ {0} /\ p + P[p] <= NPAGE
    BY DEF AreBlocks
  <1>5. p # q /\ q \notin C
    <2>1. ASSUME NEW r \in C, r = q PROVE FALSE
      <3>1. r + P[r] <= q \/ q + s <= r
        BY <1>2 DEF ClearOf
      <3>2. P[r] \in Nat \ {0}
        BY <1>2 DEF AreBlocks
      <3>. QED
        BY <1>3, <2>1, <3>1, <3>2
    <2>. QED
      BY <1>3, <2>1
  <1>6. IsList(list_del(L, p)) /\ ToSet(list_del(L, p)) = C \ {p} /\ list_del(L, p) \in Seq(Pages)
    BY <1>2, <1>3, UnlinkList DEF IsList
  <1> DEFINE K == list_del(L, p)
  <1>7. CASE q + s = p
    <2> DEFINE G == [F EXCEPT ![q] = s + P[p]]
    <2>1. Merge(b, p) = [base |-> q, property |-> G, flags |-> b.flags \ {p}, list |-> K]
      BY <1>1, <1>3, <1>7 DEF Merge
    <2>2. /\ G[q] = s + P[p] /\ \A r \in C : G[r] = P[r]
          /\ s + P[p] \in 0 .. NPAGE /\ s + P[p] > 0 /\ q + (s + P[p]) <= NPAGE /\ G \in [Pages -> 0 .. NPAGE]
      <3>1. s + P[p] \in 0 .. NPAGE /\ s + P[p] > 0 /\ q + (s + P[p]) <= NPAGE
        BY <1>3, <1>4, <1>7, PageProps
      <3>. HIDE DEF s
      <3>2. C \subseteq Pages
        BY <1>2 DEF AreBlocks
      <3>. QED
        BY <1>1, <1>2, <1>5, <3>1, <3>2
    <2>3. ClearOf(C \ {p}, P, V \cup {p}, q, s + P[p]) /\ Covers(C \ {p}, P, q, s + P[p], B, base, n)
      <3> DEFINE u == s + P[p]
      <3>1. u \in Nat /\ q = IF q + s = p THEN q ELSE p
        BY <1>3, <1>4, <1>7
      <3>. HIDE DEF q, s, C, u
      <3>2. u = s + P[p]
        BY DEF u
      <3>3. ClearOf(C \ {p}, P, V \cup {p}, q, u) /\ Covers(C \ {p}, P, q, u, B, base, n)
        BY <1>2, <1>3, <1>7, <3>1, <3>2, JoinBlocks
      <3>. QED
        BY <3>2, <3>3
    <2>4. b.flags \ {p} = (C \ {p}) \cup {q}
      BY <1>2, <1>5
    <2>5. b.flags \ {p} \in SUBSET Pages /\ C \ {p} \subseteq B /\ B \ (V \cup {p}) \subseteq C \ {p}
      BY <1>1, <1>2
    <2> DEFINE m == Merge(b, p)
    <2>6. m.base = q /\ m.property = G /\ m.flags = b.flags \ {p} /\ m.list = K /\ IsFreed(m)
      <3>1. q \in Pages /\ G \in [Pages -> 0 .. NPAGE] /\ K \in Seq(Pages)
        BY <1>1, <1>6, <2>2
      <3>. HIDE DEF G, K, q, s
      <3>. QED
        BY <2>1, <2>5, <3>1 DEF IsFreed
    <2>. HIDE DEF m, G, K, q, s, F, L, C
    <2>. QED
      BY <1>6, <2>2, <2>3, <2>4, <2>5, <2>6, Zenon DEF Loop, K, m
  <1>8. CASE q + s # p /\ p + P[p] = q
    <2> DEFINE G == [F EXCEPT ![p] = s + P[p]]
    <2>1. Merge(b, p) = [base |-> p, property |-> G, flags |-> b.flags \ {q}, list |-> K]
      <3>1. F[p] + s = s + P[p]
        BY <1>3, <1>4
      <3>. QED
        BY <1>1, <1>3, <1>8, <3>1 DEF Merge
    <2>2. /\ G[p] = s + P[p] /\ \A r \in C \ {p} : G[r] = P[r]
          /\ s + P[p] \in 0 .. NPAGE /\ s + P[p] > 0 /\ p + (s + P[p]) <= NPAGE /\ G \in [Pages -> 0 .. NPAGE]
      <3>1. s + P[p] \in 0 .. NPAGE /\ s + P[p] > 0 /\ p + (s + P[p]) <= NPAGE
        BY <1>2, <1>3, <1>4, <1>8, PageProps
      <3>. HIDE DEF s
      <3>2. C \subseteq Pages
        BY <1>2 DEF AreBlocks
      <3>. QED
        BY <1>1, <1>2, <1>3, <1>5, <3>1, <3>2
    <2>3. ClearOf(C \ {p}, P, V \cup {p}, p, s + P[p]) /\ Covers(C \ {p}, P, p, s + P[p], B, base, n)
      <3> DEFINE u == s + P[p]
      <3>1. u \in Nat /\ p = IF q + s = p THEN q ELSE p
        BY <1>3, <1>4, <1>8
      <3>. HIDE DEF q, s, C, u
      <3>2. u = s + P[p]
        BY DEF u
      <3>3. ClearOf(C \ {p}, P, V \cup {p}, p, u) /\ Covers(C \ {p}, P, p, u, B, base, n)
        BY <1>2, <1>3, <1>8, <3>1, <3>2, JoinBlocks
      <3>. QED
        BY <3>2, <3>3
    <2>4. b.flags \ {q} = (C \ {p}) \cup {p}
      BY <1>2, <1>3, <1>5
    <2>5. b.flags \ {q} \in SUBSET Pages /\ C \ {p} \subseteq B /\ B \ (V \cup {p}) \subseteq C \ {p}
      BY <1>1, <1>2
    <2> DEFINE m == Merge(b, p)
    <2>6. m.base = p /\ m.property = G /\ m.flags = b.flags \ {q} /\ m.list = K /\ IsFreed(m)
      <3>1. q \in Pages /\ G \in [Pages -> 0 .. NPAGE] /\ K \in Seq(Pages)
        BY <1>1, <1>6, <2>2
      <3>. HIDE DEF G, K, q, s
      <3>. QED
        BY <1>3, <2>1, <2>5, <3>1 DEF IsFreed
    <2>. HIDE DEF m, G, K, q, s, F, L, C
    <2>. QED
      BY <1>6, <2>2, <2>3, <2>4, <2>5, <2>6, Zenon DEF Loop, K, m
  <1>9. CASE q + s # p /\ p + P[p] # q
    <2>1. Merge(b, p) = b
      BY <1>3, <1>9 DEF Merge
    <2>2. ClearOf(C, P, V \cup {p}, q, s)
      <3>1. ASSUME NEW r \in C PROVE /\ r + P[r] <= q \/ q + s <= r
                                     /\ r \in V \cup {p} => r + P[r] < q \/ q + s < r
        <4>1. (r + P[r] <= q \/ q + s <= r) /\ (r \in V => r + P[r] < q \/ q + s < r)
          BY <1>2 DEF ClearOf
        <4>2. r \in Nat /\ P[r] \in Nat
          BY <1>2, PageProps DEF AreBlocks
        <4>3. CASE r = p
          BY <1>3, <1>9, <4>1, <4>2, <4>3
        <4>4. CASE r # p
          BY <4>1, <4>4
        <4>. QED
          BY <4>3, <4>4
      <3>. QED
        BY <3>1 DEF ClearOf
    <2>. QED
      BY <2>1, <2>2, <1>2, Zenon DEF Loop
  <1>. QED
    BY <1>7, <1>8, <1>9

-----------------------------------------------------------------------------
(* Least numbers and induction, for sets of natural numbers.                *)

LEMMA NatMin ==
    ASSUME NEW T \in SUBSET Nat, T # {}
    PROVE  \E m \in T : \A k \in T : m <= k
  <1> DEFINE R == OpToRel(<, Nat)
  <1>1. IsWellFoundedOn(R, Nat)
    BY NatLessThanWellFounded
  <1>2. \A x, y \in Nat : x < y => <<x, y>> \in R
    BY DEF OpToRel
  <1>3. PICK m \in T : \A k \in T : ~(<<k, m>> \in R)
    BY <1>1, WFMin
  <1> HIDE DEF R
  <1>4. ASSUME NEW k \in T PROVE m <= k
    <2>1. k \in Nat /\ m \in Nat /\ ~(k < m)
      BY <1>2, <1>3
    <2>. QED
      BY <2>1, SMT
  <1>. QED
    BY <1>4

LEMMA NatInd ==
    ASSUME NEW T, 0 \in T, \A n \in Nat : n \in T => n + 1 \in T
    PROVE  \A n \in Nat : n \in T
  <1> SUFFICES ASSUME NEW n \in Nat, n \notin T PROVE FALSE
    OBVIOUS
  <1> DEFINE U == {k \in Nat : k \notin T}
  <1>1. PICK m \in U : \A k \in U : m <= k
    <2>1. U \in SUBSET Nat /\ U # {}
      OBVIOUS
    <2>. QED
      BY <2>1, NatMin
  <1>2. m \in Nat /\ m \notin T /\ m # 0
    BY <1>1, Zenon
  <1>3. m - 1 \in Nat /\ m = (m - 1) + 1
    BY <1>2, SMT
  <1>4. m - 1 \notin T
    BY <1>2, <1>3
  <1>5. ~(m <= m - 1)
    BY <1>2, SMT
  <1>. QED
    BY <1>1, <1>3, <1>4, <1>5

\* The turns of the loop over the list are what its recursion says.
LEMMA TurnsExist ==
    ASSUME NEW b, NEW m \in Nat
    PROVE  \E g : g = [i \in 0 .. m |-> IF i = 0 THEN b ELSE Merge(g[i - 1], free_list[i])]
  <1> DEFINE T == {k \in Nat : \E g : g = [i \in 0 .. k |-> IF i = 0 THEN b ELSE Merge(g[i - 1], free_list[i])]}
  <1>1. 0 \in T
    <2> DEFINE g == [i \in 0 .. 0 |-> b]
    <2>1. g = [i \in 0 .. 0 |-> IF i = 0 THEN b ELSE Merge(g[i - 1], free_list[i])]
      OBVIOUS
    <2>. QED
      BY <2>1
  <1>2. ASSUME NEW k \in Nat, k \in T PROVE k + 1 \in T
    <2>1. PICK g : g = [i \in 0 .. k |-> IF i = 0 THEN b ELSE Merge(g[i - 1], free_list[i])]
      BY <1>2
    <2> DEFINE e == Merge(g[k], free_list[k + 1])
               h == [i \in 0 .. (k + 1) |-> IF i = k + 1 THEN e ELSE g[i]]
    <2>2. \A i \in 0 .. k : g[i] = IF i = 0 THEN b ELSE Merge(g[i - 1], free_list[i])
      BY <2>1
    <2>3. ASSUME NEW i \in 0 .. (k + 1) PROVE h[i] = IF i = 0 THEN b ELSE Merge(h[i - 1], free_list[i])
      <3>1. CASE i = k + 1
        <4>1. k \in 0 .. (k + 1) /\ k # k + 1 /\ i - 1 = k /\ i # 0
          BY <3>1
        <4>2. h[i] = e /\ h[k] = g[k]
          BY <3>1, <4>1
        <4>. QED
          BY <3>1, <4>1, <4>2
      <3>2. CASE i # k + 1 /\ i # 0
        <4>1. i \in 0 .. k /\ i - 1 \in 0 .. (k + 1) /\ i - 1 # k + 1
          BY <3>2
        <4>2. h[i] = g[i] /\ h[i - 1] = g[i - 1]
          BY <3>2, <4>1
        <4>. QED
          BY <2>2, <3>2, <4>1, <4>2
      <3>3. CASE i = 0
        <4>1. i \in 0 .. k /\ i # k + 1
          BY <3>3
        <4>. QED
          BY <2>2, <3>3, <4>1
      <3>. QED
        BY <3>1, <3>2, <3>3
    <2>4. h = [i \in 0 .. (k + 1) |-> h[i]]
      OBVIOUS
    <2>. HIDE DEF h
    <2>5. h = [i \in 0 .. (k + 1) |-> IF i = 0 THEN b ELSE Merge(h[i - 1], free_list[i])]
      BY <2>3, <2>4, Zenon
    <2>. QED
      BY <2>5
  <1>. HIDE DEF T
  <1>3. m \in T
    BY <1>1, <1>2, NatInd
  <1>. QED
    BY <1>3 DEF T

\* The loop looks at every block.
LEMMA MergeAllLoop ==
    ASSUME IsList(free_list), AreBlocks(Blocks, property), NEW b, NEW base, NEW n,
           Loop(b, {}, Blocks, property, base, n)
    PROVE  Loop(MergeAll(b), Blocks, Blocks, property, base, n)
  <1> DEFINE m == Len(free_list)
             turn == CHOOSE g : g = [i \in 0 .. m |-> IF i = 0 THEN b ELSE Merge(g[i - 1], free_list[i])]
             Seen(i) == {free_list[j] : j \in 1 .. i}
             T == {k \in Nat : k <= m => Loop(turn[k], Seen(k), Blocks, property, base, n)}
  <1>1. m \in Nat /\ DOMAIN free_list = 1 .. m /\ Blocks = Seen(m)
    BY ListProps DEF Blocks, ToSet
  <1>2. MergeAll(b) = turn[m]
    BY DEF MergeAll
  <1>3. turn = [i \in 0 .. m |-> IF i = 0 THEN b ELSE Merge(turn[i - 1], free_list[i])]
    <2>. HIDE DEF m
    <2>1. \E g : g = [i \in 0 .. m |-> IF i = 0 THEN b ELSE Merge(g[i - 1], free_list[i])]
      BY <1>1, TurnsExist
    <2>. QED
      BY <2>1
  <1>. HIDE DEF turn
  <1>4. turn[0] = b /\ \A k \in 1 .. m : turn[k] = Merge(turn[k - 1], free_list[k])
    BY <1>1, <1>3
  <1>5. 0 \in T
    <2>1. Seen(0) = {}
      OBVIOUS
    <2>. QED
      BY <1>4, <2>1
  <1>6. ASSUME NEW k \in Nat, k \in T PROVE k + 1 \in T
    <2> SUFFICES ASSUME k + 1 <= m PROVE Loop(turn[k + 1], Seen(k + 1), Blocks, property, base, n)
      OBVIOUS
    <2> DEFINE p == free_list[k + 1]
    <2>1. k + 1 \in 1 .. m /\ (k + 1) - 1 = k /\ k <= m
      BY <1>1
    <2>2. Loop(turn[k], Seen(k), Blocks, property, base, n)
      BY <1>6, <2>1
    <2>3. turn[k + 1] = Merge(turn[k], p)
      BY <1>4, <2>1
    <2>4. Seen(k + 1) = Seen(k) \cup {p}
      <3>1. 1 .. (k + 1) = (1 .. k) \cup {k + 1}
        OBVIOUS
      <3>. QED
        BY <3>1, Zenon
    <2>5. p \in Blocks /\ Seen(k) \in SUBSET Blocks
      <3>1. \A j \in 1 .. k : j \in 1 .. m
        BY <1>1, <2>1
      <3>. QED
        BY <1>1, <2>1, <3>1, Zenon DEF Blocks, ToSet
    <2>6. p \notin Seen(k)
      <3>1. \A j \in 1 .. k : j \in 1 .. m /\ j < k + 1
        BY <1>1, <2>1
      <3>2. \A j \in 1 .. m : free_list[j] \in Int /\ (j < k + 1 => free_list[j] < p)
        BY <1>1, <2>1, ListProps
      <3>3. \A j \in 1 .. k : free_list[j] # p
        BY <3>1, <3>2, <2>1
      <3>. QED
        BY <3>3
    <2>. HIDE DEF p, Seen
    <2>7. Loop(Merge(turn[k], p), Seen(k) \cup {p}, Blocks, property, base, n)
      BY <2>2, <2>5, <2>6, MergeLoop
    <2>. QED
      BY <2>3, <2>4, <2>7
  <1>. HIDE DEF T
  <1>7. m \in T
    BY <1>1, <1>5, <1>6, NatInd
  <1>. QED
    BY <1>1, <1>2, <1>7 DEF T

\* What the second loop leaves.
LEMMA InsertLast ==
    ASSUME NEW B, NEW P, AreBlocks(B, P), NEW base \in Nat, NEW n \in Nat, NEW b, Loop(b, B, B, P, base, n)
    PROVE  /\ IsList(Insert(b))
           /\ b.flags = ToSet(Insert(b))
           /\ AreBlocks(ToSet(Insert(b)), b.property)
           /\ PagesOf(ToSet(Insert(b)), b.property) = PagesOf(B, P) \cup Run(base, n)
           /\ b.property \in [Pages -> 0 .. NPAGE]
           /\ b.flags \subseteq Pages
  <1> DEFINE L == b.list
             F == b.property
             q == b.base
             s == F[q]
             C == ToSet(L)
             after == {i \in DOMAIN L : q + s <= L[i]}
             at == IF after = {} THEN Len(L) + 1 ELSE CHOOSE i \in after : \A j \in after : i <= j
  <1>1. q \in Pages /\ F \in [Pages -> 0 .. NPAGE] /\ b.flags \in SUBSET Pages
    BY DEF Loop, IsFreed
  <1>2. /\ IsList(L) /\ C \subseteq B /\ s > 0 /\ q + s <= NPAGE
        /\ \A r \in C : F[r] = P[r]
        /\ ClearOf(C, P, B, q, s) /\ Covers(C, P, q, s, B, base, n) /\ b.flags = C \cup {q}
    BY DEF Loop
  <1>3. q \in Nat /\ s \in Nat \ {0}
    BY <1>1, <1>2, PageProps
  <1>4. \A r \in C : /\ r \in Nat /\ P[r] \in Nat \ {0} /\ r + P[r] <= NPAGE
                     /\ r + P[r] < q \/ q + s < r
    BY <1>2, PageProps DEF AreBlocks, ClearOf
  <1>5. /\ Len(L) \in Nat /\ DOMAIN L = 1 .. Len(L)
        /\ \A i \in DOMAIN L : L[i] \in C
        /\ \A i, j \in DOMAIN L : i < j => L[i] < L[j]
    BY <1>2, ListProps
  <1>6. Insert(b) = InsertAt(L, at, q)
    BY DEF Insert
  <1>7. /\ at \in 1 .. (Len(L) + 1)
        /\ \A j \in DOMAIN L : (j < at => L[j] < q) /\ (at <= j => q < L[j])
    <2>1. \A j \in DOMAIN L : L[j] \in Nat /\ (j \in after => q < L[j]) /\ (j \notin after => L[j] < q)
      <3>1. ASSUME NEW j \in DOMAIN L PROVE L[j] \in Nat /\ (j \in after => q < L[j]) /\ (j \notin after => L[j] < q)
        <4> DEFINE x == L[j]
                   y == P[x]
        <4>1. x \in Nat /\ y \in Nat \ {0} /\ (x + y < q \/ q + s < x)
          BY <1>4, <1>5
        <4>2. j \in after <=> q + s <= x
          OBVIOUS
        <4>. HIDE DEF x, y, after, q, s
        <4>3. x \in Nat /\ (j \in after => q < x) /\ (j \notin after => x < q)
          BY <1>3, <4>1, <4>2
        <4>. QED
          BY <4>3 DEF x
      <3>. QED
        BY <3>1
    <2>2. CASE after = {}
      <3>1. at = Len(L) + 1
        BY <2>2
      <3>. HIDE DEF at, after
      <3>2. \A j \in DOMAIN L : j < Len(L) + 1 /\ ~(Len(L) + 1 <= j)
        BY <1>5
      <3>. QED
        BY <1>5, <2>1, <2>2, <3>1, <3>2
    <2>3. CASE after # {}
      <3>1. after \in SUBSET Nat /\ after \subseteq DOMAIN L
        BY <1>5
      <3>2. \E i \in after : \A j \in after : i <= j
        BY <2>3, <3>1, NatMin
      <3>3. at \in after /\ \A j \in after : at <= j
        BY <2>3, <3>2
      <3>4. \A j \in DOMAIN L : at <= j => j \in after
        <4> SUFFICES ASSUME NEW j \in DOMAIN L, at <= j PROVE q + s <= L[j]
          OBVIOUS
        <4>1. q + s <= L[at] /\ at \in DOMAIN L /\ L[at] \in Nat /\ L[j] \in Nat
          BY <2>1, <3>1, <3>3
        <4>. HIDE DEF at, q, s
        <4>2. at = j \/ L[at] < L[j]
          <5>1. at \in Nat /\ j \in Nat /\ (at = j \/ at < j)
            BY <1>5, <4>1
          <5>. QED
            BY <1>5, <4>1, <5>1
        <4>. QED
          BY <1>3, <4>1, <4>2
      <3>5. at \in 1 .. (Len(L) + 1)
        BY <1>5, <3>1, <3>3
      <3>. HIDE DEF at, after
      <3>6. \A j \in DOMAIN L : j < at => j \notin after
        BY <1>5, <3>3, <3>1
      <3>. QED
        BY <2>1, <3>4, <3>5, <3>6
    <2>. QED
      BY <2>2, <2>3
  <1>. HIDE DEF at, after
  <1>8. IsList(Insert(b)) /\ ToSet(Insert(b)) = C \cup {q}
    BY <1>1, <1>2, <1>6, <1>7, InsertList
  <1>9. AreBlocks(C \cup {q}, F)
    <2>1. C \cup {q} \subseteq Pages
      BY <1>1, <1>2
    <2>2. \A r \in C \cup {q} : F[r] \in Nat \ {0} /\ r + F[r] <= NPAGE
      BY <1>2, <1>3, <1>4
    <2>3. ASSUME NEW r \in C \cup {q}, NEW t \in C \cup {q}, r < t PROVE r + F[r] < t
      <3>1. CASE r \in C /\ t \in C
        BY <1>2, <2>3, <3>1 DEF AreBlocks
      <3>2. CASE r = q
        <4>1. t \in C /\ t \in Nat /\ P[t] \in Nat \ {0} /\ (t + P[t] < q \/ q + s < t)
          BY <1>3, <1>4, <2>3, <3>2
        <4>. HIDE DEF q, s
        <4>2. q + s < t
          BY <1>3, <2>3, <3>2, <4>1
        <4>. QED
          BY <3>2, <4>2 DEF s
      <3>3. CASE t = q /\ r \in C
        <4>1. r \in Nat /\ P[r] \in Nat \ {0} /\ (r + P[r] < q \/ q + s < r) /\ F[r] = P[r]
          BY <1>2, <1>4, <3>3
        <4>. HIDE DEF q, s
        <4>. QED
          BY <1>3, <2>3, <3>3, <4>1
      <3>. QED
        BY <3>1, <3>2, <3>3
    <2>. QED
      BY <2>1, <2>2, <2>3 DEF AreBlocks
  <1>10. PagesOf(C \cup {q}, F) = PagesOf(B, P) \cup Run(base, n)
    <2>1. ASSUME NEW x PROVE x \in PagesOf(C \cup {q}, F) <=> x \in PagesOf(B, P) \cup Run(base, n)
      <3>1. x \in PagesOf(C \cup {q}, F) <=> x \in Nat /\ \E r \in C \cup {q} : In(x, r, F[r])
        BY <1>9, PagesOfProps
      <3>2. x \in PagesOf(B, P) \cup Run(base, n) <=>
              x \in Nat /\ ((\E r \in B : In(x, r, P[r])) \/ In(x, base, n))
        BY PagesOfProps, RunProps
      <3>3. (\E r \in C \cup {q} : In(x, r, F[r])) <=> (\E r \in C : In(x, r, P[r])) \/ In(x, q, s)
        BY <1>2, Zenon
      <3>4. x \in Nat => ((\E r \in C : In(x, r, P[r])) \/ In(x, q, s) <=>
                          (\E r \in B : In(x, r, P[r])) \/ In(x, base, n))
        BY <1>2 DEF Covers
      <3>. QED
        BY <3>1, <3>2, <3>3, <3>4, Zenon
    <2>. QED
      BY <2>1
  <1>. QED
    BY <1>1, <1>2, <1>8, <1>9, <1>10

-----------------------------------------------------------------------------
(* The inductive invariant.                                                 *)

\* Regions still to come lie behind all blocks.
BlocksBelow == booted < Len(Regions) => \A q \in Blocks : q + property[q] < Regions[booted + 1].base

MemoryIInv ==
    /\ MemoryTypeOK
    /\ IsList(free_list)
    /\ AreBlocks(Blocks, property)
    /\ PG_property = Blocks
    /\ nr_free = Cardinality(FreePages)
    /\ BlocksBelow

LEMMA FreePagesOf == FreePages = PagesOf(Blocks, property)
  BY Zenon DEF FreePages, PagesOf

\* Free pages are counted.
LEMMA Counted ==
    ASSUME NEW B, NEW P, AreBlocks(B, P)
    PROVE  /\ IsFiniteSet(PagesOf(B, P))
           /\ Cardinality(PagesOf(B, P)) \in 0 .. NPAGE
           /\ \A base, n \in Nat :
                /\ Run(base, n) \cap PagesOf(B, P) = {} =>
                     Cardinality(PagesOf(B, P) \cup Run(base, n)) = Cardinality(PagesOf(B, P)) + n
                /\ Run(base, n) \subseteq PagesOf(B, P) =>
                     /\ n <= Cardinality(PagesOf(B, P))
                     /\ Cardinality(PagesOf(B, P) \ Run(base, n)) = Cardinality(PagesOf(B, P)) - n
  <1> DEFINE F == PagesOf(B, P)
  <1>1. F \subseteq Pages
    BY PagesOfProps
  <1>2. IsFiniteSet(Pages) /\ Cardinality(Pages) = NPAGE
    <2>1. Pages = Run(0, NPAGE)
      BY PageProps DEF Pages, Run
    <2>. QED
      BY <2>1, PageProps, RunProps
  <1>. HIDE DEF F
  <1>3. IsFiniteSet(F) /\ Cardinality(F) <= NPAGE /\ Cardinality(F) \in Nat
    BY <1>1, <1>2, FS_Subset, FS_CardinalityType
  <1>4. ASSUME NEW base \in Nat, NEW n \in Nat, Run(base, n) \cap F = {}
        PROVE  Cardinality(F \cup Run(base, n)) = Cardinality(F) + n
    <2>1. IsFiniteSet(Run(base, n)) /\ Cardinality(Run(base, n)) = n
      BY RunProps
    <2>2. Cardinality(F \cup Run(base, n)) = Cardinality(F) + n - Cardinality(F \cap Run(base, n))
      BY <1>3, <2>1, FS_Union
    <2>3. Cardinality(F \cap Run(base, n)) = 0
      <3>1. F \cap Run(base, n) = {}
        BY <1>4
      <3>. QED
        BY <3>1, FS_EmptySet
    <2>. QED
      BY <1>3, <2>2, <2>3
  <1>5. ASSUME NEW base \in Nat, NEW n \in Nat, Run(base, n) \subseteq F
        PROVE  n <= Cardinality(F) /\ Cardinality(F \ Run(base, n)) = Cardinality(F) - n
    <2>1. Cardinality(Run(base, n)) = n
      BY RunProps
    <2>2. Cardinality(F \ Run(base, n)) = Cardinality(F) - Cardinality(F \cap Run(base, n))
      BY <1>3, FS_Difference
    <2>3. F \cap Run(base, n) = Run(base, n)
      BY <1>5
    <2>4. Cardinality(Run(base, n)) <= Cardinality(F)
      BY <1>3, <1>5, FS_Subset
    <2>. QED
      BY <2>1, <2>2, <2>3, <2>4
  <1>6. Cardinality(F) \in 0 .. NPAGE
    BY <1>3, PageProps
  <1>. QED
    BY <1>3, <1>4, <1>5, <1>6, Zenon DEF F

LEMMA MemoryInitIInv == MemoryInit => MemoryIInv /\ FreePages = {}
  <1> SUFFICES ASSUME MemoryInit PROVE MemoryIInv /\ FreePages = {}
    OBVIOUS
  <1>1. free_list = <<>> /\ property = [p \in Pages |-> 0] /\ PG_property = {} /\ nr_free = 0 /\ booted = 0
    BY DEF MemoryInit
  <1>2. Blocks = {}
    BY <1>1 DEF Blocks, ToSet
  <1>3. FreePages = {}
    BY <1>2 DEF FreePages
  <1>4. MemoryTypeOK
    <2>1. Len(Regions) \in Nat
      BY FirstFitAssumption, LenProperties
    <2>2. 0 \in 0 .. NPAGE /\ 0 \in 0 .. Len(Regions)
      BY <2>1, PageProps
    <2>3. free_list \in Seq(Pages)
      BY <1>1, EmptySeq
    <2>. QED
      BY <1>1, <2>2, <2>3 DEF MemoryTypeOK, MemoryInit
  <1>5. IsList(free_list) /\ AreBlocks(Blocks, property) /\ BlocksBelow
    BY <1>1, <1>2, EmptySeq DEF IsList, AreBlocks, BlocksBelow
  <1>. QED
    BY <1>1, <1>2, <1>3, <1>4, <1>5, FS_EmptySet DEF MemoryIInv

-----------------------------------------------------------------------------
(* Each operation keeps the invariant and does what PageMemory promises.    *)

\* Pages are added.
Added(base, n) ==
    /\ base \in Pages /\ n \in 1 .. NPAGE
    /\ Run(base, n) \subseteq Pages
    /\ Run(base, n) \cap FreePages = {}
    /\ FreePages' = FreePages \cup Run(base, n)
    /\ UNCHANGED result

\* The invariant after a step, from what the step does to the blocks.
LEMMA AddedIInv ==
    ASSUME MemoryIInv, NEW base, NEW n, Added(base, n),
           IsList(free_list)', AreBlocks(Blocks, property)', PG_property' = Blocks', BlocksBelow',
           property' \in [Pages -> 0 .. NPAGE], reserved' \subseteq Pages, booted' \in 0 .. Len(Regions),
           nr_free' = nr_free + n
    PROVE  MemoryIInv'
  <1>1. base \in Nat /\ n \in Nat
    BY PageProps DEF Added
  <1>2. FreePages = PagesOf(Blocks, property) /\ FreePages' = PagesOf(Blocks', property')
    BY FreePagesOf, Zenon DEF FreePages, PagesOf
  <1>3. nr_free' = Cardinality(FreePages')
    <2>1. AreBlocks(Blocks, property) /\ nr_free = Cardinality(FreePages)
      BY DEF MemoryIInv
    <2>2. Run(base, n) \cap FreePages = {} /\ FreePages' = FreePages \cup Run(base, n)
      BY DEF Added
    <2>3. Cardinality(FreePages \cup Run(base, n)) = Cardinality(FreePages) + n
      BY <1>1, <1>2, <2>1, <2>2, Counted
    <2>. QED
      BY <2>1, <2>2, <2>3
  <1>4. nr_free' \in 0 .. NPAGE
    <2>1. AreBlocks(Blocks', property')
      BY DEF AreBlocks
    <2>. QED
      BY <1>2, <1>3, <2>1, Counted
  <1>5. MemoryTypeOK'
    <2>1. result' \in Pages \cup {-1}
      BY DEF Added, MemoryIInv, MemoryTypeOK
    <2>2. PG_property' \subseteq Pages /\ free_list' \in Seq(Pages)
      BY DEF AreBlocks, IsList
    <2>. QED
      BY <1>4, <2>1, <2>2 DEF MemoryTypeOK
  <1>. QED
    BY <1>3, <1>5 DEF MemoryIInv

LEMMA MemmapStep ==
    ASSUME MemoryIInv, default_init_memmap
    PROVE  MemoryIInv' /\ \E base \in Pages, n \in 1 .. NPAGE : Added(base, n)
  <1> DEFINE base == Regions[booted + 1].base
             n == Regions[booted + 1].n
             P == property
             Q == property'
  <1>1. /\ booted < Len(Regions) /\ Run(base, n) \subseteq reserved
        /\ reserved' = reserved \ Run(base, n)
        /\ Q = [p \in Pages |-> IF p = base THEN n ELSE IF p \in Run(base, n) THEN 0 ELSE P[p]]
        /\ PG_property' = (PG_property \ Run(base, n)) \cup {base}
        /\ nr_free' = nr_free + n
        /\ free_list' = Append(free_list, base)
        /\ booted' = booted + 1 /\ result' = result
    BY DEF default_init_memmap
  <1>2. /\ P \in [Pages -> 0 .. NPAGE] /\ reserved \subseteq Pages /\ booted \in 0 .. Len(Regions)
        /\ IsList(free_list) /\ AreBlocks(Blocks, P) /\ PG_property = Blocks
        /\ \A q \in Blocks : q + P[q] < base
    BY <1>1 DEF MemoryIInv, MemoryTypeOK, BlocksBelow
  <1>3. Len(Regions) \in Nat /\ DOMAIN Regions = 1 .. Len(Regions)
    BY FirstFitAssumption, LenProperties
  <1>4. booted + 1 \in DOMAIN Regions
    BY <1>1, <1>2, <1>3
  <1>5. base \in Nat /\ n \in Nat \ {0} /\ base + n <= NPAGE
    <2>1. Regions[booted + 1] \in [base : Nat, n : Nat \ {0}]
      BY <1>3, <1>4, FirstFitAssumption, ElementOfSeq
    <2>. QED
      BY <1>4, <2>1, FirstFitAssumption
  <1>6. booted' < Len(Regions) => base + n < Regions[booted' + 1].base /\ Regions[booted' + 1].base \in Nat
    <2> SUFFICES ASSUME booted' < Len(Regions)
                 PROVE  base + n < Regions[booted' + 1].base /\ Regions[booted' + 1].base \in Nat
      OBVIOUS
    <2>1. booted + 2 \in DOMAIN Regions /\ booted + 2 > 1 /\ (booted + 2) - 1 = booted + 1 /\ booted' + 1 = booted + 2
      BY <1>1, <1>2, <1>3
    <2>2. Regions[booted + 2] \in [base : Nat, n : Nat \ {0}]
      BY <1>3, <2>1, FirstFitAssumption, ElementOfSeq
    <2>3. Regions[(booted + 2) - 1].base + Regions[(booted + 2) - 1].n < Regions[booted + 2].base
      BY <2>1, FirstFitAssumption
    <2>. QED
      BY <2>1, <2>2, <2>3
  <1>. HIDE DEF base, n
  <1>7. base \in Pages /\ n \in 1 .. NPAGE
    BY <1>5, PageProps
  <1>8. \A x : x \in Run(base, n) <=> x \in Nat /\ base <= x /\ x < base + n
    BY <1>5, RunProps DEF In
  <1>9. \A q \in Blocks : q \in Nat /\ P[q] \in Nat \ {0} /\ q + P[q] < base /\ q < base /\ q \notin Run(base, n)
    <2>1. \A q \in Blocks : q \in Nat /\ P[q] \in Nat \ {0} /\ q + P[q] < base
      BY <1>2, PageProps DEF AreBlocks
    <2>. QED
      BY <1>5, <1>8, <2>1
  <1>10. IsList(free_list)' /\ Blocks' = Blocks \cup {base}
    BY <1>1, <1>2, <1>7, <1>9, AppendList DEF Blocks
  <1>11. PG_property' = Blocks'
    BY <1>1, <1>2, <1>9, <1>10
  <1>12. Q[base] = n /\ \A q \in Blocks : Q[q] = P[q]
    <2>1. \A q \in Blocks : q \in Pages /\ q # base
      BY <1>5, <1>9, <1>2 DEF AreBlocks
    <2>. QED
      BY <1>1, <1>7, <1>9, <2>1
  <1>13. Q \in [Pages -> 0 .. NPAGE]
    BY <1>1, <1>2, <1>7, PageProps
  <1>14. AreBlocks(Blocks \cup {base}, Q)
    <2>1. \A q \in Blocks \cup {base} : q \in Pages /\ Q[q] \in Nat \ {0} /\ q + Q[q] <= NPAGE
      BY <1>2, <1>5, <1>7, <1>12 DEF AreBlocks
    <2>2. ASSUME NEW q \in Blocks \cup {base}, NEW r \in Blocks \cup {base}, q < r PROVE q + Q[q] < r
      <3>1. CASE q \in Blocks /\ r \in Blocks
        BY <1>2, <1>12, <2>2, <3>1 DEF AreBlocks
      <3>2. CASE q \in Blocks /\ r = base
        BY <1>9, <1>12, <3>2
      <3>3. CASE q = base
        <4>1. r \in Blocks \/ r = base
          BY <2>2
        <4>2. r \in Blocks => r < base /\ r \in Nat
          BY <1>9
        <4>. QED
          BY <1>5, <2>2, <3>3, <4>1, <4>2
      <3>. QED
        BY <3>1, <3>2, <3>3
    <2>. QED
      BY <2>1, <2>2, Zenon DEF AreBlocks
  <1>15. AreBlocks(Blocks, property)'
    BY <1>10, <1>14 DEF AreBlocks
  <1>16. Run(base, n) \cap FreePages = {}
    <2>1. ASSUME NEW x \in Run(base, n), x \in FreePages PROVE FALSE
      <3>1. PICK q \in Blocks : In(x, q, P[q])
        BY <1>2, <2>1, FreePagesOf, PagesOfProps
      <3>. QED
        BY <1>5, <1>8, <1>9, <2>1, <3>1 DEF In
    <2>. QED
      BY <2>1
  <1>17. FreePages' = FreePages \cup Run(base, n)
    <2>1. FreePages = UNION {Run(q, P[q]) : q \in Blocks}
      BY DEF FreePages
    <2>2. FreePages' = UNION {Run(q, Q[q]) : q \in Blocks \cup {base}}
      BY <1>10 DEF FreePages
    <2>. QED
      BY <1>12, <2>1, <2>2
  <1>18. Added(base, n)
    <2>1. Run(base, n) \subseteq Pages
      BY <1>1, <1>2
    <2>. QED
      BY <1>1, <1>7, <1>16, <1>17, <2>1 DEF Added
  <1>19. BlocksBelow'
    <2> SUFFICES ASSUME booted' < Len(Regions), NEW q \in Blocks'
                 PROVE  q + Q[q] < Regions[booted' + 1].base
      BY DEF BlocksBelow
    <2>1. base + n < Regions[booted' + 1].base /\ Regions[booted' + 1].base \in Nat
      BY <1>6
    <2>2. CASE q = base
      BY <1>12, <2>1, <2>2
    <2>3. CASE q \in Blocks
      BY <1>5, <1>9, <1>12, <2>1, <2>3
    <2>. QED
      BY <1>10, <2>2, <2>3
  <1>20. booted' \in 0 .. Len(Regions) /\ reserved' \subseteq Pages
    BY <1>1, <1>2, <1>3
  <1>. QED
    BY <1>1, <1>7, <1>10, <1>11, <1>13, <1>15, <1>18, <1>19, <1>20, AddedIInv

\* Where the loops of free_pages begin.
LEMMA FreeLoop ==
    ASSUME MemoryIInv, NEW base \in Pages, NEW n \in 1 .. NPAGE, Held(base, n)
    PROVE  /\ Loop([base |-> base, property |-> [property EXCEPT ![base] = n],
                    flags |-> (PG_property \ Run(base, n)) \cup {base}, list |-> free_list],
                   {}, Blocks, property, base, n)
           /\ Run(base, n) \subseteq Pages
           /\ Run(base, n) \cap FreePages = {}
  <1> DEFINE P == property
             Q == [P EXCEPT ![base] = n]
             f == (PG_property \ Run(base, n)) \cup {base}
             b == [base |-> base, property |-> Q, flags |-> f, list |-> free_list]
  <1>1. /\ P \in [Pages -> 0 .. NPAGE] /\ IsList(free_list) /\ AreBlocks(Blocks, P) /\ PG_property = Blocks
        /\ free_list \in Seq(Pages) /\ Blocks = ToSet(free_list)
    BY DEF MemoryIInv, MemoryTypeOK, IsList, Blocks
  <1>2. base \in Nat /\ n \in Nat \ {0}
    BY PageProps
  <1>3. \A x : x \in Run(base, n) <=> x \in Nat /\ base <= x /\ x < base + n
    BY <1>2, RunProps DEF In
  <1>4. Run(base, n) \subseteq Pages /\ \A q \in Blocks : Run(base, n) \cap Run(q, P[q]) = {}
    BY <1>1 DEF Held
  <1>5. base + n <= NPAGE
    <2>1. base + n - 1 \in Run(base, n)
      BY <1>2, <1>3
    <2>. QED
      BY <1>2, <1>4, <2>1, PageProps
  <1>6. \A q \in Blocks : /\ q \in Pages /\ q \in Nat /\ P[q] \in Nat \ {0}
                          /\ \A x : x \in Run(q, P[q]) <=> x \in Nat /\ q <= x /\ x < q + P[q]
    <2>1. \A q \in Blocks : q \in Pages /\ q \in Nat /\ P[q] \in Nat \ {0}
      BY <1>1, PageProps DEF AreBlocks
    <2>. QED
      BY <2>1, RunProps DEF In
  <1>7. ASSUME NEW q \in Blocks PROVE (q + P[q] <= base \/ base + n <= q) /\ q # base /\ q \notin Run(base, n)
    <2>1. Run(base, n) \cap Run(q, P[q]) = {} /\ q \in Run(q, P[q]) /\ base \in Run(base, n)
      BY <1>2, <1>3, <1>4, <1>6
    <2>2. base \notin Run(q, P[q]) /\ q \notin Run(base, n)
      BY <2>1
    <2>3. ~(q <= base /\ base < q + P[q]) /\ ~(base <= q /\ q < base + n)
      BY <1>2, <1>3, <1>6, <2>2
    <2>. QED
      BY <1>2, <1>6, <2>2, <2>3
  <1>8. ClearOf(Blocks, P, {}, base, n)
    BY <1>7 DEF ClearOf
  <1>9. Covers(Blocks, P, base, n, Blocks, base, n)
    BY DEF Covers
  <1>10. Q \in [Pages -> 0 .. NPAGE] /\ Q[base] = n /\ \A q \in Blocks : Q[q] = P[q]
    BY <1>1, <1>2, <1>6, <1>7, PageProps
  <1>11. f = Blocks \cup {base} /\ f \in SUBSET Pages
    BY <1>1, <1>6, <1>7
  <1>12. Loop(b, {}, Blocks, P, base, n)
    <2>1. b.base = base /\ b.property = Q /\ b.flags = f /\ b.list = free_list
      OBVIOUS
    <2>2. IsFreed(b)
      <3>. HIDE DEF Q, f
      <3>. QED
        BY <1>1, <1>10, <1>11 DEF IsFreed
    <2>. HIDE DEF b, Q, f
    <2>. QED
      BY <1>1, <1>2, <1>5, <1>8, <1>9, <1>10, <1>11, <2>1, <2>2 DEF Loop
  <1>13. Run(base, n) \cap FreePages = {}
    <2>1. FreePages = UNION {Run(q, P[q]) : q \in Blocks}
      BY DEF FreePages
    <2>. QED
      BY <1>4, <2>1
  <1>. QED
    BY <1>4, <1>12, <1>13

LEMMA FreeStep ==
    ASSUME MemoryIInv, NEW base \in Pages, NEW n \in 1 .. NPAGE, default_free_pages(base, n)
    PROVE  MemoryIInv' /\ Added(base, n)
  <1> DEFINE b0 == [base |-> base, property |-> [property EXCEPT ![base] = n],
                    flags |-> (PG_property \ Run(base, n)) \cup {base}, list |-> free_list]
             b == MergeAll(b0)
  <1>1. /\ booted = Len(Regions) /\ Held(base, n)
        /\ property' = b.property /\ PG_property' = b.flags /\ free_list' = Insert(b)
        /\ nr_free' = nr_free + n
        /\ reserved' = reserved /\ result' = result /\ booted' = booted
    BY DEF default_free_pages
  <1>2. /\ IsList(free_list) /\ AreBlocks(Blocks, property)
        /\ reserved \subseteq Pages /\ booted \in 0 .. Len(Regions)
    BY DEF MemoryIInv, MemoryTypeOK
  <1>3. Loop(b0, {}, Blocks, property, base, n) /\ Run(base, n) \subseteq Pages /\ Run(base, n) \cap FreePages = {}
    BY <1>1, FreeLoop
  <1>. HIDE DEF b0
  <1>4. Loop(b, Blocks, Blocks, property, base, n)
    BY <1>2, <1>3, MergeAllLoop
  <1>. HIDE DEF b
  <1>5. base \in Nat /\ n \in Nat
    BY PageProps
  <1>6. /\ IsList(Insert(b)) /\ b.flags = ToSet(Insert(b)) /\ AreBlocks(ToSet(Insert(b)), b.property)
        /\ PagesOf(ToSet(Insert(b)), b.property) = PagesOf(Blocks, property) \cup Run(base, n)
        /\ b.property \in [Pages -> 0 .. NPAGE] /\ b.flags \subseteq Pages
    BY <1>2, <1>4, <1>5, InsertLast
  <1>7. Blocks' = ToSet(Insert(b))
    BY <1>1 DEF Blocks
  <1>8. IsList(free_list)' /\ PG_property' = Blocks' /\ property' \in [Pages -> 0 .. NPAGE]
    BY <1>1, <1>6, <1>7
  <1>9. AreBlocks(Blocks, property)'
    <2>1. AreBlocks(Blocks', property')
      BY <1>1, <1>6, <1>7
    <2>. QED
      BY <2>1 DEF AreBlocks
  <1>10. FreePages' = FreePages \cup Run(base, n)
    <2>1. FreePages' = PagesOf(Blocks', property')
      BY Zenon DEF FreePages, PagesOf
    <2>. QED
      BY <1>1, <1>6, <1>7, <2>1, FreePagesOf
  <1>11. Added(base, n)
    BY <1>1, <1>3, <1>10 DEF Added
  <1>12. BlocksBelow'
    <2>1. Len(Regions) \in Nat
      BY FirstFitAssumption, LenProperties
    <2>. QED
      BY <1>1, <2>1 DEF BlocksBelow
  <1>. QED
    BY <1>1, <1>2, <1>8, <1>9, <1>11, <1>12, AddedIInv

\* A request is met by the lowest pages that would do, and refused only if none
\* would.
AllocDone(n) ==
    IF \E x \in Pages : Run(x, n) \subseteq FreePages
    THEN /\ result' \in Pages /\ Run(result', n) \subseteq FreePages
         /\ \A x \in Pages : Run(x, n) \subseteq FreePages => result' <= x
         /\ FreePages' = FreePages \ Run(result', n)
    ELSE result' = -1 /\ FreePages' = FreePages

\* The first n pages of block q go, the rest stays a block.
RestOf(P, q, n) == IF P[q] > n THEN {q + n} ELSE {}

LeftOf(P, q, n) == [p \in Pages |-> IF p \in RestOf(P, q, n) THEN P[q] - n ELSE P[p]]

SplitOf(B, P, q, n) ==
    /\ RestOf(P, q, n) \subseteq Pages /\ RestOf(P, q, n) \cap B = {}
    /\ LeftOf(P, q, n) \in [Pages -> 0 .. NPAGE]
    /\ AreBlocks((B \ {q}) \cup RestOf(P, q, n), LeftOf(P, q, n))
    /\ PagesOf((B \ {q}) \cup RestOf(P, q, n), LeftOf(P, q, n)) = PagesOf(B, P) \ Run(q, n)
    /\ Run(q, n) \subseteq PagesOf(B, P)

LEMMA SplitBlocks ==
    ASSUME NEW B, NEW P, AreBlocks(B, P), NEW q \in B, NEW n \in Nat \ {0}, n <= P[q],
           P \in [Pages -> 0 .. NPAGE]
    PROVE  SplitOf(B, P, q, n)
  <1> DEFINE R == RestOf(P, q, n)
             Q == LeftOf(P, q, n)
  <1>1. R = (IF P[q] > n THEN {q + n} ELSE {}) /\ Q = [p \in Pages |-> IF p \in R THEN P[q] - n ELSE P[p]]
    BY DEF RestOf, LeftOf
  <1>. HIDE DEF R, Q
  <1>. USE <1>1
  <1>2. /\ B \subseteq Pages
        /\ \A r \in B : r \in Nat /\ P[r] \in Nat \ {0} /\ r + P[r] <= NPAGE
        /\ \A r, t \in B : r < t => r + P[r] < t
    BY PageProps DEF AreBlocks
  <1>3. q \in Nat /\ P[q] \in Nat \ {0} /\ q + P[q] <= NPAGE
    BY <1>2
  <1>4. \A r \in B : r # q => r + P[r] < q \/ q + P[q] < r
    BY <1>2
  <1>5. R \subseteq Pages /\ \A r \in R : r = q + n /\ P[q] > n /\ r \in Nat /\ r < NPAGE
    BY <1>3, PageProps
  <1>6. R \cap B = {}
    <2>1. ASSUME NEW r \in R, r \in B PROVE FALSE
      <3>1. r = q + n /\ P[q] > n
        BY <1>5
      <3>2. r # q
        BY <1>3, <3>1
      <3>3. r \in Nat /\ P[r] \in Nat /\ (r + P[r] < q \/ q + P[q] < r)
        BY <1>2, <1>4, <2>1, <3>2
      <3>. QED
        BY <1>3, <3>1, <3>3
    <2>. QED
      BY <2>1
  <1>7. Q \in [Pages -> 0 .. NPAGE]
    <2>1. P[q] \in 0 .. NPAGE /\ (P[q] > n => P[q] - n \in 0 .. NPAGE)
      BY <1>3, PageProps
    <2>2. \A p \in Pages : p \in R => P[q] > n
      BY <1>5
    <2>. QED
      BY <2>1, <2>2
  <1>8. (\A r \in R : Q[r] = P[q] - n) /\ \A r \in B : Q[r] = P[r]
    BY <1>2, <1>5, <1>6
  <1> DEFINE D == (B \ {q}) \cup R
  <1>9. AreBlocks(D, Q)
    <2>1. ASSUME NEW r \in D PROVE r \in Pages /\ Q[r] \in Nat \ {0} /\ r + Q[r] <= NPAGE
      <3>1. CASE r \in R
        BY <1>3, <1>5, <1>8, <3>1
      <3>2. CASE r \in B
        BY <1>2, <1>8, <3>2
      <3>. QED
        BY <3>1, <3>2
    <2>2. ASSUME NEW r \in D, NEW t \in D, r < t PROVE r + Q[r] < t
      <3>1. CASE r \in R
        <4>1. r = q + n /\ Q[r] = P[q] - n /\ P[q] > n /\ t \notin R
          BY <1>3, <1>5, <1>8, <2>2, <3>1
        <4>2. t \in B /\ t # q /\ t \in Nat /\ P[t] \in Nat
          BY <1>2, <4>1
        <4>3. t + P[t] < q \/ q + P[q] < t
          BY <1>4, <4>2
        <4>. QED
          BY <1>3, <2>2, <4>1, <4>2, <4>3
      <3>2. CASE r \in B /\ t \in B
        BY <1>2, <1>8, <2>2, <3>2
      <3>3. CASE r \in B /\ r # q /\ t \in R
        <4>1. t = q + n /\ P[q] > n /\ Q[r] = P[r] /\ r \in Nat /\ P[r] \in Nat
          BY <1>2, <1>5, <1>8, <3>3
        <4>2. r + P[r] < q \/ q + P[q] < r
          BY <1>4, <3>3
        <4>. QED
          BY <1>3, <2>2, <4>1, <4>2
      <3>. QED
        BY <1>6, <3>1, <3>2, <3>3
    <2>. QED
      BY <2>1, <2>2, Zenon DEF AreBlocks
  <1>10. \A x : x \in Run(q, n) <=> x \in Nat /\ q <= x /\ x < q + n
    BY <1>3, RunProps DEF In
  <1>11. ASSUME NEW x PROVE x \in PagesOf(D, Q) <=> x \in PagesOf(B, P) /\ x \notin Run(q, n)
    <2>1. x \in PagesOf(D, Q) <=> x \in Nat /\ \E r \in D : In(x, r, Q[r])
      BY <1>9, PagesOfProps
    <2>2. x \in PagesOf(B, P) <=> x \in Nat /\ \E r \in B : In(x, r, P[r])
      BY PagesOfProps
    <2>3. ASSUME x \in Nat, NEW r \in D, In(x, r, Q[r]) PROVE (\E t \in B : In(x, t, P[t])) /\ x \notin Run(q, n)
      <3>1. CASE r \in R
        <4>1. r = q + n /\ Q[r] = P[q] - n
          BY <1>5, <1>8, <3>1
        <4>2. In(x, q, P[q]) /\ ~(x < q + n)
          BY <1>3, <2>3, <4>1 DEF In
        <4>. QED
          BY <1>10, <4>2
      <3>2. CASE r \in B /\ r # q
        <4>1. r \in Nat /\ P[r] \in Nat /\ Q[r] = P[r] /\ (r + P[r] < q \/ q + P[q] < r)
          BY <1>2, <1>4, <1>8, <3>2
        <4>2. ~(q <= x /\ x < q + n)
          BY <1>3, <2>3, <4>1 DEF In
        <4>. QED
          BY <1>10, <2>3, <3>2, <4>1, <4>2
      <3>. QED
        BY <3>1, <3>2
    <2>4. ASSUME x \in Nat, NEW r \in B, In(x, r, P[r]), x \notin Run(q, n) PROVE \E t \in D : In(x, t, Q[t])
      <3>1. CASE r = q
        <4>1. q <= x /\ x < q + P[q] /\ q + n <= x
          BY <1>3, <1>10, <2>4, <3>1 DEF In
        <4>2. q + n \in R
          BY <1>3, <2>4, <4>1
        <4>3. In(x, q + n, P[q] - n)
          BY <1>3, <2>4, <4>1 DEF In
        <4>. QED
          BY <1>8, <4>2, <4>3
      <3>2. CASE r # q
        BY <1>8, <2>4, <3>2
      <3>. QED
        BY <3>1, <3>2
    <2>. QED
      BY <2>1, <2>2, <2>3, <2>4
  <1>12. Run(q, n) \subseteq PagesOf(B, P)
    <2>1. ASSUME NEW x \in Run(q, n) PROVE x \in PagesOf(B, P)
      <3>1. x \in Nat /\ In(x, q, P[q])
        BY <1>3, <1>10 DEF In
      <3>. QED
        BY <3>1, PagesOfProps
    <2>. QED
      BY <2>1
  <1>13. PagesOf(D, Q) = PagesOf(B, P) \ Run(q, n)
    BY <1>11
  <1>. QED
    BY <1>5, <1>6, <1>7, <1>9, <1>12, <1>13 DEF SplitOf, R, Q

\* The block that serves a request of n pages, and what it leaves in the list.
LEMMA SplitList ==
    ASSUME NEW L, IsList(L), NEW P, AreBlocks(ToSet(L), P), P \in [Pages -> 0 .. NPAGE],
           NEW i \in DOMAIN L, NEW n \in Nat \ {0}, P[L[i]] > n, L[i] + n \in Pages
    PROVE  IsList(ReplaceAt(L, i, L[i] + n)) /\ ToSet(ReplaceAt(L, i, L[i] + n)) = (ToSet(L) \ {L[i]}) \cup {L[i] + n}
  <1> DEFINE q == L[i]
             x == q + n
  <1>1. /\ DOMAIN L = 1 .. Len(L) /\ Len(L) \in Nat
        /\ \A j \in DOMAIN L : L[j] \in ToSet(L) /\ L[j] \in Nat
        /\ \A j, k \in DOMAIN L : j < k => L[j] < L[k]
    BY ListProps, PageProps
  <1>2. /\ \A r \in ToSet(L) : P[r] \in Nat \ {0}
        /\ \A r, t \in ToSet(L) : r < t => r + P[r] < t
    BY DEF AreBlocks
  <1>3. ASSUME NEW j \in DOMAIN L PROVE (j < i => L[j] < x) /\ (i < j => x < L[j])
    <2>1. q \in Nat /\ L[j] \in Nat /\ q \in ToSet(L) /\ L[j] \in ToSet(L)
      BY <1>1
    <2>2. (j < i => L[j] < q) /\ (i < j => q + P[q] < L[j])
      BY <1>1, <1>2, <2>1
    <2>3. P[q] \in Nat /\ P[q] > n
      BY <1>2, <2>1
    <2>. QED
      BY <2>1, <2>2, <2>3
  <1>4. q < x
    BY <1>1
  <1>. HIDE DEF x
  <1>5. x \in Pages
    BY DEF x
  <1>6. IsList(ReplaceAt(L, i, x)) /\ ToSet(ReplaceAt(L, i, x)) = (ToSet(L) \ {L[i]}) \cup {x}
    BY <1>3, <1>4, <1>5, ReplaceList
  <1>. QED
    BY <1>6 DEF x

LEMMA AllocStep ==
    ASSUME MemoryIInv, NEW n \in 1 .. (NPAGE + 1), default_alloc_pages(n)
    PROVE  MemoryIInv' /\ AllocDone(n)
  <1> DEFINE P == property
  <1>1. /\ MemoryTypeOK /\ IsList(free_list) /\ AreBlocks(Blocks, P) /\ PG_property = Blocks
        /\ nr_free = Cardinality(FreePages) /\ BlocksBelow
        /\ P \in [Pages -> 0 .. NPAGE] /\ reserved \subseteq Pages /\ booted \in 0 .. Len(Regions)
        /\ nr_free \in 0 .. NPAGE
    BY DEF MemoryIInv, MemoryTypeOK
  <1>2. n \in Nat \ {0}
    BY PageProps
  <1>3. booted = Len(Regions) /\ reserved' = reserved /\ booted' = booted
    BY DEF default_alloc_pages
  <1>4. \A x \in Pages : Run(x, n) \subseteq FreePages =>
          /\ n <= nr_free
          /\ \E q \in Blocks : q <= x /\ x + n <= q + P[q]
    <2>1. FreePages = PagesOf(Blocks, P)
      BY FreePagesOf
    <2> SUFFICES ASSUME NEW x \in Pages, Run(x, n) \subseteq FreePages
                 PROVE  n <= nr_free /\ \E q \in Blocks : q <= x /\ x + n <= q + P[q]
      OBVIOUS
    <2>2. x \in Nat /\ n \in Nat
      BY <1>2, PageProps
    <2>3. n <= nr_free
      BY <1>1, <2>1, <2>2, Counted
    <2>4. \E q \in Blocks : q <= x /\ x + n <= q + P[q]
      BY <1>1, <1>2, <2>1, <2>2, FitsInBlock
    <2>. QED
      BY <2>3, <2>4
  <1>5. /\ DOMAIN free_list \subseteq Nat /\ \A q \in Blocks : \E k \in DOMAIN free_list : free_list[k] = q
        /\ \A k \in DOMAIN free_list : free_list[k] \in Blocks
        /\ \A k, j \in DOMAIN free_list : k <= j => free_list[k] <= free_list[j]
    <2>1. /\ DOMAIN free_list = 1 .. Len(free_list) /\ Len(free_list) \in Nat
          /\ \A q \in ToSet(free_list) : \E k \in DOMAIN free_list : free_list[k] = q
          /\ \A k \in DOMAIN free_list : free_list[k] \in ToSet(free_list) /\ free_list[k] \in Int
          /\ \A k, j \in DOMAIN free_list : k < j => free_list[k] < free_list[j]
      BY <1>1, ListProps
    <2>. QED
      BY <2>1 DEF Blocks
  <1>6. \A q \in Blocks : q \in Pages /\ q \in Nat /\ P[q] \in Nat \ {0} /\ q + P[q] <= NPAGE
    BY <1>1, PageProps DEF AreBlocks
  <1>7. CASE n > nr_free \/ LargeEnough(n) = {}
    <2>1. result' = -1 /\ UNCHANGED <<free_list, property, PG_property, nr_free>>
      BY <1>7 DEF default_alloc_pages
    <2>2. ~ \E x \in Pages : Run(x, n) \subseteq FreePages
      <3> SUFFICES ASSUME NEW x \in Pages, Run(x, n) \subseteq FreePages PROVE FALSE
        OBVIOUS
      <3>1. n <= nr_free
        BY <1>4
      <3>2. PICK q \in Blocks : q <= x /\ x + n <= q + P[q]
        BY <1>4
      <3>3. PICK k \in DOMAIN free_list : free_list[k] = q
        BY <1>5
      <3>4. P[q] >= n
        BY <1>2, <1>6, <3>2, PageProps
      <3>5. k \in LargeEnough(n)
        BY <3>3, <3>4 DEF LargeEnough
      <3>. QED
        BY <1>1, <1>2, <1>7, <3>1, <3>5
    <2>3. Blocks' = Blocks /\ FreePages' = FreePages
      BY <2>1 DEF Blocks, FreePages
    <2>4. AllocDone(n)
      BY <2>1, <2>2, <2>3 DEF AllocDone
    <2>5. MemoryTypeOK'
      BY <1>1, <1>3, <2>1 DEF MemoryTypeOK
    <2>6. MemoryIInv'
      BY <1>1, <1>3, <2>1, <2>3, <2>5 DEF MemoryIInv, AreBlocks, BlocksBelow
    <2>. QED
      BY <2>4, <2>6
  <1>8. CASE n <= nr_free /\ LargeEnough(n) # {}
    <2> DEFINE i == CHOOSE j \in LargeEnough(n) : \A k \in LargeEnough(n) : j <= k
               page == free_list[i]
               R == Rest(page, n)
               Q == property'
    <2>1. /\ result' = page
          /\ free_list' = Split(i, n)
          /\ Q = [p \in Pages |-> IF p \in R THEN P[page] - n ELSE P[p]]
          /\ PG_property' = (PG_property \cup R) \ {page}
          /\ nr_free' = nr_free - n
      <3>1. ~(n > nr_free \/ LargeEnough(n) = {})
        BY <1>1, <1>2, <1>8
      <3>. QED
        BY <3>1 DEF default_alloc_pages
    <2>2. i \in LargeEnough(n) /\ \A k \in LargeEnough(n) : i <= k
      <3>1. LargeEnough(n) \in SUBSET Nat
        BY <1>5 DEF LargeEnough
      <3>2. \E j \in LargeEnough(n) : \A k \in LargeEnough(n) : j <= k
        BY <1>8, <3>1, NatMin
      <3>. QED
        BY <3>2
    <2>3. R = IF P[page] > n THEN {page + n} ELSE {}
      BY DEF Rest
    <2>. HIDE DEF i
    <2>4. i \in DOMAIN free_list /\ page \in Blocks /\ page \in Pages /\ page \in Nat /\ P[page] \in Nat /\ n <= P[page]
      <3>1. i \in DOMAIN free_list /\ P[page] >= n
        BY <2>2 DEF LargeEnough
      <3>. QED
        BY <1>2, <1>5, <1>6, <3>1
    <2>. HIDE DEF page, R, Q, P
    <2>5. /\ R \subseteq Pages /\ R \cap Blocks = {}
          /\ Q \in [Pages -> 0 .. NPAGE]
          /\ AreBlocks((Blocks \ {page}) \cup R, Q)
          /\ PagesOf((Blocks \ {page}) \cup R, Q) = PagesOf(Blocks, P) \ Run(page, n)
          /\ Run(page, n) \subseteq PagesOf(Blocks, P)
      <3>1. AreBlocks(Blocks, P) /\ P \in [Pages -> 0 .. NPAGE] /\ n \in Nat \ {0}
        BY <1>1, <1>2
      <3>2. R = RestOf(P, page, n) /\ Q = LeftOf(P, page, n)
        BY <2>1, <2>3 DEF RestOf, LeftOf
      <3>3. SplitOf(Blocks, P, page, n)
        BY <2>4, <3>1, SplitBlocks
      <3>. QED
        BY <3>2, <3>3 DEF SplitOf
    <2>6. IsList(free_list') /\ ToSet(free_list') = (Blocks \ {page}) \cup R
      <3>1. Split(i, n) = IF P[page] > n THEN ReplaceAt(free_list, i, page + n) ELSE RemoveAt(free_list, i)
        BY DEF Split, P, page
      <3>2. CASE P[page] > n
        <4>1. page + n \in Pages /\ R = {page + n}
          BY <2>3, <2>5, <3>2
        <4>. QED
          BY <1>1, <1>2, <2>1, <2>4, <3>1, <3>2, <4>1, SplitList DEF page, Blocks
      <3>3. CASE ~(P[page] > n)
        <4>1. R = {}
          BY <2>3, <3>3
        <4>. QED
          BY <1>1, <2>1, <2>4, <3>1, <3>3, <4>1, RemoveList DEF page, Blocks
      <3>. QED
        BY <3>2, <3>3
    <2>7. Blocks' = (Blocks \ {page}) \cup R
      BY <2>6 DEF Blocks
    <2>8. FreePages = PagesOf(Blocks, P) /\ FreePages' = PagesOf(Blocks', Q)
      BY FreePagesOf, Zenon DEF FreePages, PagesOf, P, Q
    <2>9. Run(page, n) \subseteq FreePages /\ FreePages' = FreePages \ Run(page, n)
      BY <2>5, <2>7, <2>8
    <2>10. ASSUME NEW x \in Pages, Run(x, n) \subseteq FreePages PROVE page <= x
      <3>1. PICK q \in Blocks : q <= x /\ x + n <= q + P[q]
        BY <1>4, <2>10 DEF P
      <3>2. PICK k \in DOMAIN free_list : free_list[k] = q
        BY <1>5
      <3>3. P[q] >= n
        BY <1>2, <1>6, <3>1, PageProps DEF P
      <3>4. k \in LargeEnough(n)
        BY <3>2, <3>3 DEF LargeEnough, P
      <3>5. page <= q
        BY <1>5, <2>2, <2>4, <3>2, <3>4 DEF page
      <3>. QED
        BY <1>6, <2>4, <3>1, <3>5, PageProps
    <2>11. AllocDone(n)
      BY <2>1, <2>4, <2>9, <2>10 DEF AllocDone
    <2>12. nr_free' = Cardinality(FreePages') /\ nr_free' \in 0 .. NPAGE
      <3>1. Cardinality(FreePages \ Run(page, n)) = Cardinality(FreePages) - n
        BY <1>1, <1>2, <2>4, <2>8, <2>9, Counted DEF P
      <3>2. Cardinality(PagesOf(Blocks', Q)) \in 0 .. NPAGE
        BY <2>5, <2>7, Counted
      <3>3. nr_free' = Cardinality(FreePages')
        BY <1>1, <2>1, <2>9, <3>1
      <3>. QED
        BY <2>8, <3>2, <3>3
    <2>13. PG_property' = Blocks'
      <3>1. page \notin R
        BY <2>4, <2>5
      <3>. QED
        BY <1>1, <2>1, <2>7, <3>1
    <2>14. AreBlocks(Blocks, property)'
      <3>1. AreBlocks(Blocks', property')
        BY <2>5, <2>7 DEF Q
      <3>. QED
        BY <3>1 DEF AreBlocks
    <2>15. MemoryTypeOK'
      <3>1. free_list' \in Seq(Pages)
        BY <2>6 DEF IsList
      <3>2. PG_property' \subseteq Pages /\ result' \in Pages \cup {-1}
        BY <2>1, <2>4, <2>13, <2>14 DEF AreBlocks
      <3>3. property' \in [Pages -> 0 .. NPAGE]
        BY <2>5 DEF Q
      <3>. QED
        BY <1>1, <1>3, <2>12, <3>1, <3>2, <3>3 DEF MemoryTypeOK
    <2>16. BlocksBelow'
      <3>1. Len(Regions) \in Nat
        BY FirstFitAssumption, LenProperties
      <3>. QED
        BY <1>3, <3>1 DEF BlocksBelow
    <2>17. IsList(free_list)'
      BY <2>6 DEF IsList
    <2>18. MemoryIInv'
      BY <2>12, <2>13, <2>14, <2>15, <2>16, <2>17 DEF MemoryIInv
    <2>. QED
      BY <2>11, <2>18
  <1>9. n \in Int /\ nr_free \in Int
    BY <1>1, <1>2
  <1>. QED
    BY <1>7, <1>8, <1>9

LEMMA MemoryNextIInv ==
    ASSUME MemoryIInv, [MemoryNext]_memory_vars
    PROVE  MemoryIInv'
  <1>1. CASE default_init_memmap
    BY <1>1, MemmapStep
  <1>2. CASE \E n \in 1 .. (NPAGE + 1) : default_alloc_pages(n)
    BY <1>2, AllocStep
  <1>3. CASE \E base \in Pages, n \in 1 .. NPAGE : default_free_pages(base, n)
    BY <1>3, FreeStep
  <1>4. CASE UNCHANGED memory_vars
    <2>1. /\ free_list' = free_list /\ property' = property /\ PG_property' = PG_property
          /\ reserved' = reserved /\ nr_free' = nr_free /\ result' = result /\ booted' = booted
      BY <1>4 DEF memory_vars
    <2>2. Blocks' = Blocks /\ FreePages' = FreePages
      BY <2>1 DEF Blocks, FreePages
    <2>. QED
      BY <2>1, <2>2 DEF MemoryIInv, MemoryTypeOK, IsList, AreBlocks, BlocksBelow
  <1>. QED
    BY <1>1, <1>2, <1>3, <1>4 DEF MemoryNext

-----------------------------------------------------------------------------
\* The free list is sound in every reachable state: its blocks are in the order
\* of addresses and apart, they are the pages with PG_property set, and nr_free
\* is the number of pages they hold, which never passes NPAGE.
THEOREM MemoryIInvCorrect == MemorySpec => []MemoryIInv
  <1>1. MemoryInit => MemoryIInv
    BY MemoryInitIInv
  <1>2. MemoryIInv /\ [MemoryNext]_memory_vars => MemoryIInv'
    BY MemoryNextIInv
  <1>. QED
    BY <1>1, <1>2, PTL DEF MemorySpec

\* No sequence of splits and merges leaves two neighbouring free blocks apart,
\* or brings blocks out of order or over each other.
THEOREM CoalescedCorrect == MemorySpec => []Coalesced
  <1>1. MemoryIInv => Coalesced
    <2> SUFFICES ASSUME MemoryIInv, NEW i \in 1 .. (Len(free_list) - 1)
                 PROVE  free_list[i] + property[free_list[i]] < free_list[i + 1]
      BY DEF Coalesced
    <2>1. IsList(free_list) /\ AreBlocks(Blocks, property)
      BY DEF MemoryIInv
    <2>2. /\ DOMAIN free_list = 1 .. Len(free_list) /\ Len(free_list) \in Nat
          /\ \A j \in DOMAIN free_list : free_list[j] \in ToSet(free_list)
          /\ \A j, k \in DOMAIN free_list : j < k => free_list[j] < free_list[k]
      BY <2>1, ListProps
    <2>3. i \in DOMAIN free_list /\ i + 1 \in DOMAIN free_list /\ i < i + 1
      BY <2>2
    <2>4. free_list[i] \in Blocks /\ free_list[i + 1] \in Blocks /\ free_list[i] < free_list[i + 1]
      BY <2>2, <2>3 DEF Blocks
    <2>. QED
      BY <2>1, <2>4 DEF AreBlocks
  <1>. QED
    BY <1>1, MemoryIInvCorrect, PTL

\* default_pmm implements PageMemory: pages handed out were free and are the
\* lowest that would do, a request is refused only when no run of free pages is
\* long enough, and what is freed or found at boot was not free before.
THEOREM ImplementsPageMemoryCorrect == MemorySpec => ImplementsPageMemory
  <1>1. MemoryInit => AbstractMemory!Init
    BY MemoryInitIInv DEF MemoryInit, AbstractMemory!Init
  <1>2. \A base, n : Run(base, n) = AbstractMemory!Run(base, n)
    BY DEF Run, AbstractMemory!Run
  <1>3. Pages = AbstractMemory!Pages
    BY DEF Pages, AbstractMemory!Pages
  <1>4. ASSUME NEW base, NEW n, Added(base, n) PROVE AbstractMemory!Next
    <2>1. base \in Pages /\ n \in 1 .. (NPAGE + 1) /\ Run(base, n) \subseteq Pages
      BY <1>4, PageProps DEF Added
    <2>2. AbstractMemory!Free(base, n)
      BY <1>2, <1>4 DEF Added, AbstractMemory!Free
    <2>. QED
      BY <1>2, <1>3, <2>1, <2>2 DEF AbstractMemory!Next
  <1>5. ASSUME NEW n \in 1 .. (NPAGE + 1), AllocDone(n) PROVE AbstractMemory!Next
    <2>1. AbstractMemory!Fits(FreePages, n) = {x \in Pages : Run(x, n) \subseteq FreePages}
      BY <1>2, <1>3 DEF AbstractMemory!Fits
    <2>2. AbstractMemory!Alloc(n)
      <3>1. CASE \E x \in Pages : Run(x, n) \subseteq FreePages
        BY <1>2, <1>5, <2>1, <3>1 DEF AllocDone, AbstractMemory!Alloc
      <3>2. CASE ~ \E x \in Pages : Run(x, n) \subseteq FreePages
        BY <1>5, <2>1, <3>2 DEF AllocDone, AbstractMemory!Alloc
      <3>. QED
        BY <3>1, <3>2
    <2>. QED
      BY <2>2 DEF AbstractMemory!Next
  <1>6. MemoryIInv /\ [MemoryNext]_memory_vars => [AbstractMemory!Next]_AbstractMemory!vars
    <2> SUFFICES ASSUME MemoryIInv, [MemoryNext]_memory_vars PROVE [AbstractMemory!Next]_AbstractMemory!vars
      OBVIOUS
    <2>1. CASE default_init_memmap
      BY <1>4, <2>1, MemmapStep
    <2>2. CASE \E n \in 1 .. (NPAGE + 1) : default_alloc_pages(n)
      BY <1>5, <2>2, AllocStep
    <2>3. CASE \E base \in Pages, n \in 1 .. NPAGE : default_free_pages(base, n)
      BY <1>4, <2>3, FreeStep
    <2>4. CASE UNCHANGED memory_vars
      <3>1. free_list' = free_list /\ property' = property /\ result' = result
        BY <2>4 DEF memory_vars
      <3>2. FreePages' = FreePages
        BY <3>1 DEF FreePages, Blocks
      <3>. QED
        BY <3>1, <3>2 DEF AbstractMemory!vars
    <2>. QED
      BY <2>1, <2>2, <2>3, <2>4 DEF MemoryNext
  <1>. QED
    BY <1>1, <1>6, MemoryIInvCorrect, PTL DEF MemorySpec, ImplementsPageMemory, AbstractMemory!Spec

-----------------------------------------------------------------------------
(* Process ids.                                                             *)

\* The process get_pid runs for is not in the list yet, and last_pid, which
\* is MAX_PID before the first call, is a pid while a call runs.
CallerWaits ==
    IF caller = nobody
    THEN seen = {}
    ELSE caller \in Slots /\ pid[caller] = 0 /\ last_pid < MAX_PID

\* The inductive invariant: GapFree makes the short way of get_pid safe, and
\* at the end of a scan it says that the candidate differs from every pid.
PidIInv == PidTypeOK /\ CallerWaits /\ GapFree /\ UniquePids

LEMMA PidInitIInv == PidInit => PidIInv
  BY GetPidAssumption DEF PidInit, PidIInv, PidTypeOK, CallerWaits, GapFree, UniquePids, Listed

\* A call that stays inside the gap.
LEMMA TakeNextStep ==
    ASSUME PidIInv, NEW s \in Slots, TakeNext(s)
    PROVE  PidIInv'
<1>1. PidTypeOK'
  BY GetPidAssumption DEF PidIInv, PidTypeOK, TakeNext, Listed
<1>2. CallerWaits'
  BY DEF PidIInv, CallerWaits, TakeNext
<1>3. GapFree'
  BY GetPidAssumption DEF PidIInv, PidTypeOK, GapFree, TakeNext, Listed
<1>4. UniquePids'
  BY GetPidAssumption DEF PidIInv, PidTypeOK, GapFree, UniquePids, TakeNext, Listed
<1> QED BY <1>1, <1>2, <1>3, <1>4 DEF PidIInv

LEMMA StartScanStep ==
    ASSUME PidIInv, NEW s \in Slots, StartScan(s)
    PROVE  PidIInv'
<1>1. PidTypeOK'
  BY GetPidAssumption DEF PidIInv, PidTypeOK, StartScan, Wrap, Listed
<1>2. CallerWaits'
  BY GetPidAssumption DEF PidIInv, PidTypeOK, StartScan, CallerWaits, Wrap
<1>3. GapFree' /\ UniquePids'
  BY GetPidAssumption DEF PidIInv, GapFree, UniquePids, StartScan, Listed
<1> QED BY <1>1, <1>2, <1>3 DEF PidIInv

\* A turn of the loop: pids do not change, so UniquePids is kept, and the gap
\* shrinks or moves behind what has been seen.
LEMMA ScanStep ==
    ASSUME PidIInv, NEW p \in Slots, Scan(p)
    PROVE  PidIInv'
<1> USE GetPidAssumption
<1>1. pid' = pid /\ caller' = caller /\ caller # nobody /\ p \in Listed \ seen
  BY DEF Scan
<1>2. UniquePids'
  BY <1>1 DEF PidIInv, UniquePids, Listed
<1>3. CASE Collide(p)
  <2>1. PidTypeOK'
    BY <1>1, <1>3 DEF PidIInv, PidTypeOK, Collide, Wrap, Listed
  <2>2. CallerWaits'
    BY <1>1, <1>3 DEF PidIInv, PidTypeOK, CallerWaits, Collide, Wrap
  <2>3. GapFree'
    BY <1>1, <1>3 DEF PidIInv, PidTypeOK, GapFree, Collide, Listed
  <2> QED BY <1>2, <2>1, <2>2, <2>3 DEF PidIInv
<1>4. CASE Pass(p)
  <2>1. PidTypeOK'
    BY <1>1, <1>4 DEF PidIInv, PidTypeOK, Pass, Listed
  <2>2. CallerWaits'
    BY <1>1, <1>4 DEF PidIInv, CallerWaits, Pass
  <2>3. GapFree'
    BY <1>1, <1>4 DEF PidIInv, PidTypeOK, GapFree, Pass, Listed
  <2> QED BY <1>2, <2>1, <2>2, <2>3 DEF PidIInv
<1> QED BY <1>3, <1>4 DEF Scan

\* The end of the scan: everybody has been seen, so the candidate is free.
LEMMA ReturnStep ==
    ASSUME PidIInv, Return
    PROVE  PidIInv'
<1> USE GetPidAssumption
<1>1. caller \in Slots /\ pid[caller] = 0 /\ last_pid \in 1 .. (MAX_PID - 1)
  BY DEF PidIInv, PidTypeOK, CallerWaits, Return
<1>2. Listed' = Listed \cup {caller}
  BY <1>1 DEF PidIInv, PidTypeOK, Return, Listed
<1>3. PidTypeOK'
  BY <1>1 DEF PidIInv, PidTypeOK, Return
<1>4. CallerWaits'
  BY DEF CallerWaits, Return
<1>5. GapFree'
  BY <1>1, <1>2 DEF PidIInv, PidTypeOK, GapFree, Return, Listed
<1>6. UniquePids'
  BY <1>1, <1>2 DEF PidIInv, PidTypeOK, GapFree, UniquePids, Return, Listed
<1> QED BY <1>3, <1>4, <1>5, <1>6 DEF PidIInv

LEMMA UnlinkStep ==
    ASSUME PidIInv, NEW s \in Slots, Unlink(s)
    PROVE  PidIInv'
<1> USE GetPidAssumption
<1>1. Listed' = Listed \ {s}
  BY DEF PidIInv, PidTypeOK, Unlink, Listed
<1>2. PidTypeOK'
  BY <1>1 DEF PidIInv, PidTypeOK, CallerWaits, Unlink
<1>3. GapFree' /\ UniquePids' /\ CallerWaits'
  BY <1>1 DEF PidIInv, PidTypeOK, GapFree, UniquePids, CallerWaits, Unlink, Listed
<1> QED BY <1>2, <1>3 DEF PidIInv

LEMMA PidNextIInv == PidIInv /\ [PidNext]_pid_vars => PidIInv'
<1> SUFFICES ASSUME PidIInv, [PidNext]_pid_vars
             PROVE  PidIInv'
  OBVIOUS
<1>1. CASE UNCHANGED pid_vars
  BY <1>1 DEF PidIInv, PidTypeOK, CallerWaits, GapFree, UniquePids, Listed, pid_vars
<1>2. ASSUME NEW s \in Slots, TakeNext(s) \/ StartScan(s) \/ Scan(s) \/ Unlink(s)
      PROVE  PidIInv'
  BY <1>2, TakeNextStep, StartScanStep, ScanStep, UnlinkStep
<1>3. CASE Return
  BY <1>3, ReturnStep
<1> QED BY <1>1, <1>2, <1>3 DEF PidNext

LEMMA PidIInvCorrect == PidSpec => []PidIInv
  BY PidInitIInv, PidNextIInv, PTL DEF PidSpec

\* Every variable keeps its type (get_pid).
THEOREM PidTypeCorrect == PidSpec => []PidTypeOK
<1>1. PidIInv => PidTypeOK
  BY DEF PidIInv
<1> QED BY <1>1, PidIInvCorrect, PTL

\* Between the calls no process has a pid inside the cached gap, whatever was
\* unlinked meanwhile; during a scan this holds of the processes seen.
THEOREM GapFreeCorrect == PidSpec => []GapFree
<1>1. PidIInv => GapFree
  BY DEF PidIInv
<1> QED BY <1>1, PidIInvCorrect, PTL

\* No two processes of the list ever have the same pid.
THEOREM UniquePidsCorrect == PidSpec => []UniquePids
<1>1. PidIInv => UniquePids
  BY DEF PidIInv
<1> QED BY <1>1, PidIInvCorrect, PTL

-----------------------------------------------------------------------------
(* The timer list.                                                          *)

\* A list of timers, each owner once, with ticks left before its head fires.
IsTimers(L, E) ==
    /\ L \in Seq(Owners)
    /\ \A i, j \in 1 .. Len(L) : L[i] = L[j] => i = j
    /\ E \in [Owners -> Nat]
    /\ L # <<>> => E[L[1]] > 0

\* The ticks before each timer fires, as the fields of the list add up.
IsDue(D, L, E) ==
    /\ D \in [0 .. Len(L) -> Nat]
    /\ D[0] = 0
    /\ \A n \in 1 .. Len(L) : D[n] = D[n - 1] + E[L[n]]

\* The ticks left of the timer of p.
Left(L, E, p) ==
    IF p \in {L[i] : i \in 1 .. Len(L)}
    THEN Due(L, E)[CHOOSE k \in 1 .. Len(L) : L[k] = p]
    ELSE 0

\* Exactly the owners in the list have ticks left: D of their places.
IsLeft(D, L, E) ==
    /\ \A k \in 1 .. Len(L) : Left(L, E, L[k]) = D[k]
    /\ \A p \in Owners : (\A k \in 1 .. Len(L) : L[k] # p) => Left(L, E, p) = 0

\* The recursion of Due has a solution on every prefix of the list.
LEMMA DueExists ==
    ASSUME NEW L, NEW E, NEW m \in Nat
    PROVE  \E g : g = [n \in 0 .. m |-> IF n = 0 THEN 0 ELSE g[n - 1] + E[L[n]]]
  <1> DEFINE T == {k \in Nat : \E g : g = [n \in 0 .. k |-> IF n = 0 THEN 0 ELSE g[n - 1] + E[L[n]]]}
  <1>1. 0 \in T
    <2> DEFINE g == [n \in 0 .. 0 |-> 0]
    <2>1. g = [n \in 0 .. 0 |-> IF n = 0 THEN 0 ELSE g[n - 1] + E[L[n]]]
      OBVIOUS
    <2>. QED
      BY <2>1
  <1>2. ASSUME NEW k \in Nat, k \in T PROVE k + 1 \in T
    <2>1. PICK g : g = [n \in 0 .. k |-> IF n = 0 THEN 0 ELSE g[n - 1] + E[L[n]]]
      BY <1>2
    <2> DEFINE e == g[k] + E[L[k + 1]]
               h == [n \in 0 .. (k + 1) |-> IF n = k + 1 THEN e ELSE g[n]]
    <2>2. \A n \in 0 .. k : g[n] = IF n = 0 THEN 0 ELSE g[n - 1] + E[L[n]]
      BY <2>1
    <2>3. ASSUME NEW n \in 0 .. (k + 1) PROVE h[n] = IF n = 0 THEN 0 ELSE h[n - 1] + E[L[n]]
      <3>1. CASE n = k + 1
        <4>1. k \in 0 .. (k + 1) /\ k # k + 1 /\ n - 1 = k /\ n # 0
          BY <3>1
        <4>2. h[n] = e /\ h[k] = g[k]
          BY <3>1, <4>1
        <4>. QED
          BY <3>1, <4>1, <4>2
      <3>2. CASE n # k + 1 /\ n # 0
        <4>1. n \in 0 .. k /\ n - 1 \in 0 .. (k + 1) /\ n - 1 # k + 1
          BY <3>2
        <4>2. h[n] = g[n] /\ h[n - 1] = g[n - 1]
          BY <3>2, <4>1
        <4>. QED
          BY <2>2, <3>2, <4>1, <4>2
      <3>3. CASE n = 0
        <4>1. n \in 0 .. k /\ n # k + 1
          BY <3>3
        <4>. QED
          BY <2>2, <3>3, <4>1
      <3>. QED
        BY <3>1, <3>2, <3>3
    <2>4. h = [n \in 0 .. (k + 1) |-> h[n]]
      OBVIOUS
    <2>. HIDE DEF h
    <2>5. h = [n \in 0 .. (k + 1) |-> IF n = 0 THEN 0 ELSE h[n - 1] + E[L[n]]]
      BY <2>3, <2>4, Zenon
    <2>. QED
      BY <2>5
  <1>. HIDE DEF T
  <1>3. m \in T
    BY <1>1, <1>2, NatInd
  <1>. QED
    BY <1>3 DEF T

LEMMA DueIs ==
    ASSUME NEW L, NEW E, IsTimers(L, E)
    PROVE  IsDue(Due(L, E), L, E)
  <1> DEFINE D == Due(L, E)
  <1>1. L \in Seq(Owners) /\ Len(L) \in Nat /\ DOMAIN L = 1 .. Len(L)
    BY LenProperties DEF IsTimers
  <1>2. \A n \in 1 .. Len(L) : E[L[n]] \in Nat
    BY <1>1, ElementOfSeq DEF IsTimers
  <1>3. D = [n \in 0 .. Len(L) |-> IF n = 0 THEN 0 ELSE D[n - 1] + E[L[n]]]
    <2>1. \E g : g = [n \in 0 .. Len(L) |-> IF n = 0 THEN 0 ELSE g[n - 1] + E[L[n]]]
      BY <1>1, DueExists
    <2>. QED
      BY <2>1, Zenon DEF Due
  <1>. HIDE DEF D
  <1>4. D[0] = 0 /\ \A n \in 1 .. Len(L) : D[n] = D[n - 1] + E[L[n]]
    BY <1>1, <1>3
  <1> DEFINE T == {n \in Nat : n <= Len(L) => D[n] \in Nat}
  <1>5. 0 \in T
    BY <1>4
  <1>6. ASSUME NEW n \in Nat, n \in T PROVE n + 1 \in T
    <2>1. CASE n + 1 <= Len(L)
      <3>1. n + 1 \in 1 .. Len(L) /\ (n + 1) - 1 = n /\ D[n] \in Nat
        BY <1>1, <1>6, <2>1
      <3>2. D[n + 1] = D[n] + E[L[n + 1]] /\ E[L[n + 1]] \in Nat
        BY <1>2, <1>4, <3>1
      <3>3. D[n + 1] \in Nat
        BY <3>1, <3>2
      <3>. QED
        BY <3>3
    <2>2. CASE ~(n + 1 <= Len(L))
      BY <2>2
    <2>. QED
      BY <2>1, <2>2
  <1>. HIDE DEF T
  <1>7. \A n \in Nat : n \in T
    BY <1>5, <1>6, NatInd
  <1>8. \A n \in 0 .. Len(L) : D[n] \in Nat
    BY <1>1, <1>7 DEF T
  <1>9. D \in [0 .. Len(L) -> Nat]
    BY <1>3, <1>8
  <1>. QED
    BY <1>4, <1>9 DEF IsDue, D

\* What the fields add up to is determined by them.
LEMMA DueUnique ==
    ASSUME NEW L, NEW E, IsTimers(L, E), NEW D, IsDue(D, L, E)
    PROVE  D = Due(L, E)
  <1> DEFINE F == Due(L, E)
  <1>1. IsDue(F, L, E) /\ Len(L) \in Nat
    BY DueIs, LenProperties DEF IsTimers
  <1>. HIDE DEF F
  <1> DEFINE T == {n \in Nat : n <= Len(L) => D[n] = F[n]}
  <1>2. 0 \in T
    BY <1>1 DEF IsDue
  <1>3. ASSUME NEW n \in Nat, n \in T PROVE n + 1 \in T
    <2>1. CASE n + 1 <= Len(L)
      <3>1. n + 1 \in 1 .. Len(L) /\ (n + 1) - 1 = n /\ D[n] = F[n]
        BY <1>1, <1>3, <2>1
      <3>2. D[n + 1] = D[n] + E[L[n + 1]] /\ F[n + 1] = F[n] + E[L[n + 1]]
        BY <1>1, <3>1 DEF IsDue
      <3>. QED
        BY <3>1, <3>2
    <2>2. CASE ~(n + 1 <= Len(L))
      BY <2>2
    <2>. QED
      BY <2>1, <2>2
  <1>. HIDE DEF T
  <1>4. \A n \in Nat : n \in T
    BY <1>2, <1>3, NatInd
  <1>5. \A n \in 0 .. Len(L) : D[n] = F[n]
    BY <1>1, <1>4 DEF T
  <1>6. D \in [0 .. Len(L) -> Nat] /\ F \in [0 .. Len(L) -> Nat]
    BY <1>1 DEF IsDue
  <1>7. D = F
    BY <1>5, <1>6
  <1>. QED
    BY <1>7 DEF F

LEMMA LeftIs ==
    ASSUME NEW L, NEW E, IsTimers(L, E), NEW D, IsDue(D, L, E)
    PROVE  IsLeft(D, L, E)
  <1>1. D = Due(L, E)
    BY DueUnique
  <1>2. \A i, j \in 1 .. Len(L) : L[i] = L[j] => i = j
    BY DEF IsTimers
  <1>3. ASSUME NEW k \in 1 .. Len(L) PROVE Left(L, E, L[k]) = D[k]
    <2>1. (CHOOSE i \in 1 .. Len(L) : L[i] = L[k]) = k
      BY <1>2
    <2>. QED
      BY <1>1, <2>1 DEF Left
  <1>4. ASSUME NEW p \in Owners, \A k \in 1 .. Len(L) : L[k] # p PROVE Left(L, E, p) = 0
    BY <1>4 DEF Left
  <1>. QED
    BY <1>3, <1>4 DEF IsLeft

\* Timers further back fire no earlier, and none before the next tick.
LEMMA DueGrows ==
    ASSUME NEW L, NEW E, IsTimers(L, E), NEW D, IsDue(D, L, E)
    PROVE  /\ \A i, j \in 0 .. Len(L) : i <= j => D[i] <= D[j]
           /\ \A i \in 1 .. Len(L) : D[i] > 0
  <1>1. L \in Seq(Owners) /\ Len(L) \in Nat
    BY LenProperties DEF IsTimers
  <1>2. \A n \in 1 .. Len(L) : E[L[n]] \in Nat
    BY <1>1, ElementOfSeq DEF IsTimers
  <1>3. /\ \A n \in 0 .. Len(L) : D[n] \in Nat
        /\ D[0] = 0
        /\ \A n \in 1 .. Len(L) : D[n] = D[n - 1] + E[L[n]]
    BY DEF IsDue
  <1>4. ASSUME NEW i \in 0 .. Len(L) PROVE \A j \in 0 .. Len(L) : i <= j => D[i] <= D[j]
    <2> DEFINE T == {d \in Nat : i + d <= Len(L) => D[i] <= D[i + d]}
    <2>1. 0 \in T
      <3>1. i + 0 = i /\ D[i] \in Nat
        BY <1>3
      <3>2. D[i] <= D[i]
        BY <3>1
      <3>. QED
        BY <3>1, <3>2
    <2>2. ASSUME NEW d \in Nat, d \in T PROVE d + 1 \in T
      <3>1. CASE i + (d + 1) <= Len(L)
        <4>1. /\ i + (d + 1) \in 1 .. Len(L) /\ (i + (d + 1)) - 1 = i + d
              /\ i + d \in 0 .. Len(L) /\ D[i] <= D[i + d]
          BY <1>1, <2>2, <3>1
        <4>2. D[i + (d + 1)] = D[i + d] + E[L[i + (d + 1)]]
          BY <1>3, <4>1
        <4>3. D[i] \in Nat /\ D[i + d] \in Nat /\ E[L[i + (d + 1)]] \in Nat
          BY <1>2, <1>3, <4>1
        <4>4. D[i] <= D[i + (d + 1)]
          BY <4>1, <4>2, <4>3
        <4>. QED
          BY <4>4
      <3>2. CASE ~(i + (d + 1) <= Len(L))
        BY <3>2
      <3>. QED
        BY <3>1, <3>2
    <2>. HIDE DEF T
    <2>3. \A d \in Nat : d \in T
      BY <2>1, <2>2, NatInd
    <2>4. ASSUME NEW j \in 0 .. Len(L), i <= j PROVE D[i] <= D[j]
      <3>1. j - i \in Nat /\ i + (j - i) = j /\ j <= Len(L)
        BY <1>1, <2>4
      <3>2. j - i \in T
        BY <2>3, <3>1
      <3>3. i + (j - i) <= Len(L) => D[i] <= D[i + (j - i)]
        BY <3>2 DEF T
      <3>. QED
        BY <3>1, <3>3
    <2>. QED
      BY <2>4
  <1>5. ASSUME NEW i \in 1 .. Len(L) PROVE D[i] > 0
    <2>1. 1 \in 1 .. Len(L) /\ 1 - 1 = 0 /\ L # <<>> /\ 1 <= i /\ 1 \in 0 .. Len(L) /\ i \in 0 .. Len(L)
      BY <1>1
    <2>2. D[1] = E[L[1]] /\ E[L[1]] > 0
      <3>1. D[1] = D[0] + E[L[1]] /\ E[L[1]] \in Nat
        BY <1>2, <1>3, <2>1
      <3>2. E[L[1]] > 0
        BY <2>1 DEF IsTimers
      <3>. QED
        BY <1>3, <3>1, <3>2
    <2>3. D[1] <= D[i]
      BY <1>4, <2>1
    <2>4. D[1] \in Nat /\ D[i] \in Nat
      BY <1>3, <2>1
    <2>. QED
      BY <2>2, <2>3, <2>4
  <1>. QED
    BY <1>4, <1>5

\* A set of numbers 1, 2, ... without a gap counts as many as its greatest.
LEMMA DownClosed ==
    ASSUME NEW m \in Nat, NEW T \in SUBSET (1 .. m), \A i \in T : \A j \in 1 .. m : j < i => j \in T
    PROVE  Cardinality(T) \in 0 .. m /\ T = 1 .. Cardinality(T)
  <1> DEFINE R == (1 .. (m + 1)) \ T
  <1>1. PICK k \in R : \A h \in R : k <= h
    <2>1. R \in SUBSET Nat /\ m + 1 \in R
      OBVIOUS
    <2>. QED
      BY <2>1, NatMin
  <1>2. T = 1 .. (k - 1)
    <2>1. \A i \in T : i < k
      BY <1>1
    <2>2. \A i \in 1 .. (k - 1) : i \in T
      BY <1>1
    <2>3. k \in Nat /\ k >= 1 /\ \A i \in T : i \in Nat /\ i >= 1
      BY <1>1
    <2>4. \A i \in T : i \in 1 .. (k - 1)
      BY <2>1, <2>3
    <2>. QED
      BY <2>2, <2>4
  <1>3. k - 1 \in 0 .. m
    BY <1>1
  <1>4. Cardinality(1 .. (k - 1)) = k - 1
    BY <1>3, FS_Interval
  <1>. QED
    BY <1>2, <1>3, <1>4

\* The timers that the walk of add_timer passes.
LEMMA WalkStops ==
    ASSUME NEW L, NEW E, IsTimers(L, E), NEW D, IsDue(D, L, E), NEW time \in Nat,
           NEW n, n = Cardinality({i \in 1 .. Len(L) : D[i] <= time})
    PROVE  /\ n \in 0 .. Len(L)
           /\ D[n] <= time
           /\ n < Len(L) => D[n + 1] > time
  <1> DEFINE T == {i \in 1 .. Len(L) : D[i] <= time}
  <1>1. Len(L) \in Nat /\ D[0] = 0 /\ \A i \in 0 .. Len(L) : D[i] \in Nat
    BY LenProperties DEF IsTimers, IsDue
  <1>2. \A i \in T : \A j \in 1 .. Len(L) : j < i => j \in T
    <2> SUFFICES ASSUME NEW i \in T, NEW j \in 1 .. Len(L), j < i PROVE j \in T
      OBVIOUS
    <2>1. D[j] <= D[i] /\ D[i] <= time /\ D[i] \in Nat /\ D[j] \in Nat
      <3>1. j \in 0 .. Len(L) /\ i \in 0 .. Len(L) /\ j <= i
        BY <1>1
      <3>. QED
        BY <1>1, <3>1, DueGrows
    <2>. QED
      BY <2>1
  <1>3. n \in 0 .. Len(L) /\ T = 1 .. n
    <2>1. T \in SUBSET (1 .. Len(L)) /\ n = Cardinality(T)
      OBVIOUS
    <2>. HIDE DEF T
    <2>. QED
      BY <1>1, <1>2, <2>1, DownClosed
  <1>4. D[n] <= time
    <2>1. CASE n = 0
      BY <1>1, <2>1
    <2>2. CASE n # 0
      <3>1. n \in T
        BY <1>3, <2>2
      <3>. QED
        BY <3>1
    <2>. QED
      BY <2>1, <2>2
  <1>5. ASSUME n < Len(L) PROVE D[n + 1] > time
    <2>1. n + 1 \in 1 .. Len(L) /\ n + 1 \in 0 .. Len(L) /\ n + 1 \notin 1 .. n
      <3>1. n \in Nat /\ n <= Len(L)
        BY <1>1, <1>3
      <3>. QED
        BY ONLY <1>1, <1>5, <3>1
    <2>2. n + 1 \notin T
      BY <1>3, <2>1, Zenon
    <2>3. D[n + 1] \in Nat /\ ~(D[n + 1] <= time)
      BY <1>1, <2>1, <2>2
    <2>. QED
      BY <2>3
  <1>. QED
    BY <1>3, <1>4, <1>5

\* The fields after a timer was put behind the first n.
AddedTicks(L, E, D, n, p, time) ==
    [q \in Owners |-> CASE q = p -> time - D[n]
                       [] n < Len(L) /\ q = L[n + 1] -> E[q] - (time - D[n])
                       [] OTHER -> E[q]]

LEMMA AddStep ==
    ASSUME NEW L, NEW E, IsTimers(L, E), NEW D, IsDue(D, L, E), NEW time \in Nat \ {0},
           NEW n, n = Cardinality({i \in 1 .. Len(L) : D[i] <= time}),
           NEW p \in Owners, p \notin {L[i] : i \in 1 .. Len(L)},
           NEW M, M = InsertAt(L, n + 1, p), NEW F, F = AddedTicks(L, E, D, n, p, time)
    PROVE  /\ IsTimers(M, F)
           /\ \A q \in Owners : Left(M, F, q) = IF q = p THEN time ELSE Left(L, E, q)
  <1>1. /\ L \in Seq(Owners) /\ Len(L) \in Nat /\ DOMAIN L = 1 .. Len(L)
        /\ \A i, j \in 1 .. Len(L) : L[i] = L[j] => i = j
        /\ \A i \in 1 .. Len(L) : L[i] \in Owners /\ L[i] # p /\ E[L[i]] \in Nat
        /\ E \in [Owners -> Nat]
    BY LenProperties, ElementOfSeq DEF IsTimers
  <1>2. /\ n \in 0 .. Len(L)
        /\ D[n] <= time
        /\ n < Len(L) => D[n + 1] > time
    BY WalkStops
  <1>3. /\ D[0] = 0
        /\ \A i \in 0 .. Len(L) : D[i] \in Nat
        /\ \A i \in 1 .. Len(L) : D[i] = D[i - 1] + E[L[i]]
    BY DEF IsDue
  <1>4. /\ M \in Seq(Owners) /\ Len(M) = Len(L) + 1
        /\ \A j \in 1 .. (Len(L) + 1) : M[j] = IF j < n + 1 THEN L[j] ELSE IF j = n + 1 THEN p ELSE L[j - 1]
    <2>1. n + 1 \in 1 .. (Len(L) + 1) /\ p \in Owners /\ L \in Seq(Owners)
      BY <1>1, <1>2
    <2>2. /\ InsertAt(L, n + 1, p) \in Seq(Owners) /\ Len(InsertAt(L, n + 1, p)) = Len(L) + 1
          /\ \A j \in 1 .. (Len(L) + 1) :
               InsertAt(L, n + 1, p)[j] = IF j < n + 1 THEN L[j] ELSE IF j = n + 1 THEN p ELSE L[j - 1]
      <3>1. \A i \in 1 .. (Len(L) + 1) :
              /\ InsertAt(L, i, p) \in Seq(Owners) /\ Len(InsertAt(L, i, p)) = Len(L) + 1
              /\ \A j \in 1 .. (Len(L) + 1) :
                   InsertAt(L, i, p)[j] = IF j < i THEN L[j] ELSE IF j = i THEN p ELSE L[j - 1]
        BY <2>1, InsertAtProps
      <3>. QED
        BY ONLY <2>1, <3>1, Zenon
    <2>3. M = InsertAt(L, n + 1, p)
      OBVIOUS
    <2>. QED
      BY ONLY <2>2, <2>3
  <1> DEFINE k == n + 1
  <1>5. k \in 1 .. (Len(L) + 1) /\ n = k - 1 /\ n \in Nat
    BY <1>1, <1>2
  <1>6. /\ \A j \in 1 .. (Len(L) + 1) : j < k => M[j] = L[j] /\ j \in 1 .. Len(L)
        /\ M[k] = p
        /\ \A j \in 1 .. (Len(L) + 1) : k < j => M[j] = L[j - 1] /\ j - 1 \in 1 .. Len(L) /\ k <= j - 1
    <2>1. \A j \in 1 .. (Len(L) + 1) : M[j] = IF j < k THEN L[j] ELSE IF j = k THEN p ELSE L[j - 1]
      BY <1>4
    <2>. HIDE DEF k
    <2>2. ASSUME NEW j \in 1 .. (Len(L) + 1), j < k PROVE M[j] = L[j] /\ j \in 1 .. Len(L)
      BY ONLY <1>1, <1>5, <2>1, <2>2, j \in 1 .. (Len(L) + 1)
    <2>3. M[k] = p
      <3>1. ~(k < k)
        BY <1>5
      <3>. QED
        BY ONLY <1>5, <2>1, <3>1
    <2>4. ASSUME NEW j \in 1 .. (Len(L) + 1), k < j PROVE M[j] = L[j - 1] /\ j - 1 \in 1 .. Len(L) /\ k <= j - 1
      <3>1. ~(j < k) /\ j # k /\ j - 1 \in 1 .. Len(L) /\ k <= j - 1
        BY ONLY <1>1, <1>5, <2>4, j \in 1 .. (Len(L) + 1)
      <3>. QED
        BY <2>1, <3>1
    <2>. QED
      BY <2>2, <2>3, <2>4
  <1>7. /\ F \in [Owners -> Nat]
        /\ F[p] = time - D[n]
        /\ n < Len(L) => F[L[k]] = E[L[k]] - (time - D[n]) /\ F[L[k]] > 0
        /\ \A j \in 1 .. Len(L) : j # k => F[L[j]] = E[L[j]]
    <2>1. D[n] \in Nat /\ time - D[n] \in Nat
      BY <1>2, <1>3
    <2>2. ASSUME n < Len(L) PROVE E[L[k]] - (time - D[n]) \in Nat /\ E[L[k]] - (time - D[n]) > 0
      <3>1. k \in 1 .. Len(L) /\ k - 1 = n /\ k \in 0 .. Len(L)
        BY <1>1, <1>5, <2>2
      <3>2. D[k] = D[n] + E[L[k]] /\ D[k] > time /\ D[k] \in Nat /\ E[L[k]] \in Nat
        BY <1>1, <1>2, <1>3, <2>2, <3>1
      <3>. QED
        BY <2>1, <3>2
    <2>3. F = [q \in Owners |-> IF q = p THEN time - D[n]
                               ELSE IF n < Len(L) /\ q = L[k] THEN E[q] - (time - D[n]) ELSE E[q]]
      <3>1. F = AddedTicks(L, E, D, n, p, time)
        OBVIOUS
      <3>2. ASSUME NEW q
            PROVE  (CASE q = p -> time - D[n]
                      [] n < Len(L) /\ q = L[n + 1] -> E[q] - (time - D[n])
                      [] OTHER -> E[q])
                   = IF q = p THEN time - D[n]
                     ELSE IF n < Len(L) /\ q = L[k] THEN E[q] - (time - D[n]) ELSE E[q]
        <4>1. ~(q = p /\ n < Len(L) /\ q = L[n + 1])
          <5>1. n < Len(L) => n + 1 \in 1 .. Len(L)
            BY <1>1, <1>2
          <5>. QED
            BY <1>1, <5>1
        <4>2. CASE q = p
          BY <4>1, <4>2
        <4>3. CASE q # p /\ n < Len(L) /\ q = L[n + 1]
          BY <4>3
        <4>4. CASE q # p /\ ~(n < Len(L) /\ q = L[n + 1])
          BY <4>4
        <4>. QED
          BY <4>2, <4>3, <4>4
      <3>. QED
        BY ONLY <3>1, <3>2 DEF AddedTicks
    <2>. HIDE DEF k
    <2>4. F \in [Owners -> Nat]
      <3>1. ASSUME NEW q \in Owners
            PROVE  (IF q = p THEN time - D[n]
                    ELSE IF n < Len(L) /\ q = L[k] THEN E[q] - (time - D[n]) ELSE E[q]) \in Nat
        <4>1. E[q] \in Nat
          BY <1>1
        <4>2. CASE q = p
          BY <2>1, <4>2
        <4>3. CASE q # p /\ n < Len(L) /\ q = L[k]
          BY <2>2, <4>3
        <4>4. CASE q # p /\ ~(n < Len(L) /\ q = L[k])
          BY <4>1, <4>4
        <4>. QED
          BY <4>2, <4>3, <4>4
      <3>. QED
        BY ONLY <2>3, <3>1
    <2>5. F[p] = time - D[n]
      BY <2>3
    <2>6. ASSUME n < Len(L) PROVE F[L[k]] = E[L[k]] - (time - D[n])
      <3>1. k \in 1 .. Len(L)
        BY <1>1, <1>5, <2>6 DEF k
      <3>. QED
        BY <1>1, <2>3, <2>6, <3>1
    <2>7. ASSUME NEW j \in 1 .. Len(L), j # k PROVE F[L[j]] = E[L[j]]
      <3>1. ~(n < Len(L) /\ L[j] = L[k])
        <4>1. n < Len(L) => k \in 1 .. Len(L)
          BY <1>1, <1>5 DEF k
        <4>. QED
          BY <1>1, <2>7, <4>1
      <3>. QED
        BY <1>1, <2>3, <3>1
    <2>. QED
      BY <2>2, <2>4, <2>5, <2>6, <2>7
  <1> DEFINE G == [i \in 0 .. (Len(L) + 1) |-> IF i < k THEN D[i] ELSE IF i = k THEN time ELSE D[i - 1]]
  <1>8. G \in [0 .. Len(M) -> Nat] /\ G[0] = 0
    <2>1. ASSUME NEW i \in 0 .. (Len(L) + 1)
          PROVE  (IF i < k THEN D[i] ELSE IF i = k THEN time ELSE D[i - 1]) \in Nat
      <3>1. CASE i < k
        <4>1. i \in 0 .. Len(L)
          BY <1>1, <1>5, <3>1
        <4>. QED
          BY <1>3, <3>1, <4>1
      <3>2. CASE i = k
        BY <3>2
      <3>3. CASE ~(i < k) /\ i # k
        <4>1. i - 1 \in 0 .. Len(L)
          BY <1>1, <1>5, <3>3
        <4>. QED
          BY <1>3, <3>3, <4>1
      <3>. QED
        BY <3>1, <3>2, <3>3
    <2>2. G \in [0 .. (Len(L) + 1) -> Nat]
      BY <2>1
    <2>3. 0 \in 0 .. (Len(L) + 1) /\ 0 < k
      BY <1>1, <1>5
    <2>4. G[0] = 0
      BY <1>3, <2>3
    <2>. HIDE DEF G
    <2>. QED
      BY <1>4, <2>2, <2>4
  <1>9. ASSUME NEW j \in 1 .. Len(M) PROVE G[j] = G[j - 1] + F[M[j]]
    <2>1. j \in 1 .. (Len(L) + 1) /\ j - 1 \in 0 .. (Len(L) + 1)
      BY <1>1, <1>4
    <2>2. CASE j < k
      <3>1. M[j] = L[j] /\ j \in 1 .. Len(L) /\ j # k /\ j - 1 < k
        BY <1>5, <1>6, <2>1, <2>2
      <3>2. G[j] = D[j] /\ G[j - 1] = D[j - 1]
        BY <2>1, <2>2, <3>1
      <3>. QED
        BY <1>3, <1>7, <3>1, <3>2
    <2>3. CASE j = k
      <3>1. G[j] = time /\ G[j - 1] = D[n] /\ M[j] = p
        BY <1>5, <1>6, <2>1, <2>3
      <3>2. D[n] \in Nat
        BY <1>2, <1>3
      <3>. QED
        BY <1>7, <3>1, <3>2
    <2>4. CASE j = k + 1
      <3>1. G[j] = D[k] /\ G[j - 1] = time /\ M[j] = L[k] /\ k \in 1 .. Len(L) /\ n < Len(L)
        <4>1. j - 1 = k /\ k < j /\ ~(j < k) /\ j # k
          BY <1>5, <2>4
        <4>2. M[j] = L[k] /\ k \in 1 .. Len(L)
          BY <1>6, <2>1, <4>1
        <4>3. n < Len(L)
          BY <1>1, <1>5, <4>2
        <4>4. G[j] = D[k] /\ G[j - 1] = time
          BY <2>1, <4>1
        <4>. QED
          BY <4>2, <4>3, <4>4
      <3>2. D[k] = D[n] + E[L[k]] /\ D[n] \in Nat /\ E[L[k]] \in Nat
        BY <1>1, <1>2, <1>3, <1>5, <3>1
      <3>3. F[M[j]] = E[L[k]] - (time - D[n])
        BY <1>7, <3>1
      <3>4. time + (E[L[k]] - (time - D[n])) = D[n] + E[L[k]]
        <4>1. time \in Nat
          OBVIOUS
        <4>. QED
          BY ONLY <3>2, <4>1
      <3>. QED
        BY ONLY <3>1, <3>2, <3>3, <3>4, Zenon
    <2>5. CASE k + 1 < j
      <3>1. M[j] = L[j - 1] /\ j - 1 \in 1 .. Len(L) /\ j - 1 # k /\ ~(j < k) /\ j # k /\ ~(j - 1 < k)
        <4>1. k < j /\ j - 1 # k /\ ~(j < k) /\ j # k /\ ~(j - 1 < k)
          BY <1>5, <2>1, <2>5
        <4>. HIDE DEF k
        <4>. QED
          BY <1>6, <2>1, <4>1
      <3>2. G[j] = D[j - 1] /\ G[j - 1] = D[(j - 1) - 1]
        BY <2>1, <3>1
      <3>. QED
        BY <1>3, <1>7, <3>1, <3>2
    <2>6. j < k \/ j = k \/ j = k + 1 \/ k + 1 < j
      BY <1>5, <2>1
    <2>. QED
      BY <2>2, <2>3, <2>4, <2>5, <2>6
  <1>10. IsDue(G, M, F)
    <2>. HIDE DEF G
    <2>. QED
      BY <1>8, <1>9 DEF IsDue
  <1>11. IsTimers(M, F)
    <2>1. ASSUME NEW i \in 1 .. Len(M), NEW j \in 1 .. Len(M), M[i] = M[j], i < j PROVE FALSE
      <3>1. i \in 1 .. (Len(L) + 1) /\ j \in 1 .. (Len(L) + 1) /\ i < j
        BY <1>4, <2>1
      <3>2. CASE j < k
        <4>1. M[i] = L[i] /\ M[j] = L[j] /\ i \in 1 .. Len(L) /\ j \in 1 .. Len(L) /\ i # j
          BY <1>5, <1>6, <3>1, <3>2
        <4>. QED
          BY <1>1, <2>1, <4>1
      <3>3. CASE j = k
        <4>1. M[i] = L[i] /\ i \in 1 .. Len(L) /\ M[j] = p
          BY <1>6, <3>1, <3>3
        <4>. QED
          BY <1>1, <2>1, <4>1
      <3>4. CASE k < j
        <4>1. M[j] = L[j - 1] /\ j - 1 \in 1 .. Len(L) /\ k <= j - 1
          BY <1>6, <3>1, <3>4
        <4>2. CASE i < k
          <5>1. M[i] = L[i] /\ i \in 1 .. Len(L) /\ i # j - 1
            BY <1>5, <1>6, <3>1, <4>1, <4>2
          <5>. QED
            BY <1>1, <2>1, <4>1, <5>1
        <4>3. CASE i = k
          BY <1>1, <1>6, <2>1, <4>1, <4>3
        <4>4. CASE k < i
          <5>1. M[i] = L[i - 1] /\ i - 1 \in 1 .. Len(L) /\ i - 1 # j - 1
            BY <1>6, <3>1, <4>4
          <5>. QED
            BY <1>1, <2>1, <4>1, <5>1
        <4>. QED
          BY <1>5, <3>1, <4>2, <4>3, <4>4
      <3>. QED
        BY <1>5, <3>1, <3>2, <3>3, <3>4
    <2>2. \A i, j \in 1 .. Len(M) : M[i] = M[j] => i = j
      <3> SUFFICES ASSUME NEW i \in 1 .. Len(M), NEW j \in 1 .. Len(M), M[i] = M[j], i # j PROVE FALSE
        OBVIOUS
      <3>1. i < j \/ j < i
        OBVIOUS
      <3>. QED
        BY <2>1, <3>1
    <2>3. F[M[1]] > 0
      <3>1. CASE k = 1
        <4>1. M[1] = p
          BY <1>6, <3>1
        <4>2. n = 0
          BY <1>5, <3>1
        <4>3. F[p] = time - 0
          BY <1>3, <1>7, <4>2
        <4>. QED
          BY <4>1, <4>3
      <3>2. CASE k # 1
        <4>1. M[1] = L[1] /\ 1 \in 1 .. Len(L) /\ L # <<>>
          <5>1. 1 \in 1 .. (Len(L) + 1) /\ 1 < k
            BY <1>1, <1>5, <3>2
          <5>. QED
            BY <1>6, <5>1
        <4>2. F[L[1]] = E[L[1]]
          BY <1>7, <3>2, <4>1
        <4>. QED
          BY <4>1, <4>2 DEF IsTimers
      <3>. QED
        BY <3>1, <3>2
    <2>. QED
      BY <1>4, <1>7, <2>2, <2>3 DEF IsTimers
  <1>12. IsLeft(D, L, E) /\ IsLeft(G, M, F)
    <2>. HIDE DEF G
    <2>. QED
      BY <1>10, <1>11, LeftIs
  <1>13. Left(M, F, p) = time
    <2>1. k \in 1 .. Len(M) /\ M[k] = p /\ G[k] = time
      BY <1>4, <1>5, <1>6
    <2>. HIDE DEF G
    <2>. QED
      BY <1>12, <2>1 DEF IsLeft
  <1>14. ASSUME NEW q \in Owners, q # p PROVE Left(M, F, q) = Left(L, E, q)
    <2>1. CASE \E j \in 1 .. Len(L) : L[j] = q
      <3>1. PICK j \in 1 .. Len(L) : L[j] = q
        BY <2>1
      <3>2. \E i \in 1 .. Len(M) : M[i] = q /\ G[i] = D[j]
        <4>1. CASE j < k
          <5>1. j \in 1 .. (Len(L) + 1) /\ j \in 0 .. (Len(L) + 1)
            BY <1>1
          <5>2. M[j] = q
            BY <1>6, <3>1, <4>1, <5>1
          <5>3. G[j] = D[j]
            BY <4>1, <5>1
          <5>. QED
            BY <1>4, <5>1, <5>2, <5>3
        <4>2. CASE ~(j < k)
          <5>1. j + 1 \in 1 .. (Len(L) + 1) /\ k < j + 1 /\ (j + 1) - 1 = j /\ j + 1 \in 0 .. (Len(L) + 1)
            BY <1>1, <1>5, <4>2
          <5>2. M[j + 1] = q
            BY <1>6, <3>1, <5>1
          <5>3. G[j + 1] = D[j]
            BY <1>5, <5>1
          <5>. QED
            BY <1>4, <5>1, <5>2, <5>3
        <4>. QED
          BY <4>1, <4>2
      <3>. HIDE DEF G
      <3>. QED
        BY <1>12, <3>1, <3>2 DEF IsLeft
    <2>2. CASE ~ \E j \in 1 .. Len(L) : L[j] = q
      <3>1. \A i \in 1 .. Len(M) : M[i] # q
        <4> SUFFICES ASSUME NEW i \in 1 .. Len(M) PROVE M[i] # q
          OBVIOUS
        <4>1. i \in 1 .. (Len(L) + 1)
          BY <1>4
        <4>2. i < k \/ i = k \/ k < i
          BY <1>5, <4>1
        <4>. QED
          BY <1>6, <1>14, <2>2, <4>1, <4>2
      <3>. HIDE DEF G
      <3>. QED
        BY <1>12, <2>2, <3>1 DEF IsLeft
    <2>. QED
      BY <2>1, <2>2
  <1>. QED
    BY <1>11, <1>13, <1>14

\* The fields after the i-th timer was taken out.
RemovedTicks(L, E, i) ==
    [q \in Owners |-> IF i < Len(L) /\ q = L[i + 1] THEN E[q] + E[L[i]] ELSE E[q]]

LEMMA DeleteStep ==
    ASSUME NEW L, NEW E, IsTimers(L, E), NEW D, IsDue(D, L, E), NEW i \in 1 .. Len(L),
           NEW M, M = RemoveAt(L, i), NEW F, F = RemovedTicks(L, E, i)
    PROVE  /\ IsTimers(M, F)
           /\ \A q \in Owners : Left(M, F, q) = IF q = L[i] THEN 0 ELSE Left(L, E, q)
  <1>1. /\ L \in Seq(Owners) /\ Len(L) \in Nat /\ DOMAIN L = 1 .. Len(L)
        /\ \A k, j \in 1 .. Len(L) : L[k] = L[j] => k = j
        /\ \A j \in 1 .. Len(L) : L[j] \in Owners /\ E[L[j]] \in Nat
        /\ E \in [Owners -> Nat]
    BY LenProperties, ElementOfSeq DEF IsTimers
  <1>2. i \in Nat /\ i >= 1 /\ i <= Len(L) /\ L # <<>> /\ Len(L) - 1 \in Nat
    BY <1>1
  <1>3. /\ D[0] = 0
        /\ \A j \in 0 .. Len(L) : D[j] \in Nat
        /\ \A j \in 1 .. Len(L) : D[j] = D[j - 1] + E[L[j]]
    BY DEF IsDue
  <1>4. /\ M \in Seq(Owners) /\ Len(M) = Len(L) - 1
        /\ \A j \in 1 .. (Len(L) - 1) : M[j] = IF j < i THEN L[j] ELSE L[j + 1]
    <2>1. L \in Seq(Owners) /\ i \in 1 .. Len(L) /\ M = RemoveAt(L, i)
      BY <1>1
    <2>. QED
      BY ONLY <2>1, RemoveAtProps
  <1>5. /\ F \in [Owners -> Nat]
        /\ i < Len(L) => F[L[i + 1]] = E[L[i + 1]] + E[L[i]]
        /\ \A j \in 1 .. Len(L) : j # i + 1 => F[L[j]] = E[L[j]]
    <2>1. F = [q \in Owners |-> IF i < Len(L) /\ q = L[i + 1] THEN E[q] + E[L[i]] ELSE E[q]]
      BY DEF RemovedTicks
    <2>2. E[L[i]] \in Nat
      BY <1>1
    <2>3. F \in [Owners -> Nat]
      BY <1>1, <2>1, <2>2
    <2>4. ASSUME i < Len(L) PROVE F[L[i + 1]] = E[L[i + 1]] + E[L[i]]
      <3>1. i + 1 \in 1 .. Len(L)
        BY <1>1, <1>2, <2>4
      <3>. QED
        BY <1>1, <2>1, <2>4, <3>1
    <2>5. ASSUME NEW j \in 1 .. Len(L), j # i + 1 PROVE F[L[j]] = E[L[j]]
      <3>1. ~(i < Len(L) /\ L[j] = L[i + 1])
        <4>1. i < Len(L) => i + 1 \in 1 .. Len(L)
          BY <1>1, <1>2
        <4>. QED
          BY <1>1, <2>5, <4>1
      <3>. QED
        BY <1>1, <2>1, <3>1
    <2>. QED
      BY <2>3, <2>4, <2>5
  <1> DEFINE G == [j \in 0 .. (Len(L) - 1) |-> IF j < i THEN D[j] ELSE D[j + 1]]
  <1>6. G \in [0 .. Len(M) -> Nat] /\ G[0] = 0
    <2>1. ASSUME NEW j \in 0 .. (Len(L) - 1) PROVE (IF j < i THEN D[j] ELSE D[j + 1]) \in Nat
      <3>1. j \in 0 .. Len(L) /\ j + 1 \in 0 .. Len(L)
        BY <1>1
      <3>. QED
        BY <1>3, <3>1
    <2>2. G \in [0 .. (Len(L) - 1) -> Nat]
      BY <2>1
    <2>3. 0 \in 0 .. (Len(L) - 1) /\ 0 < i
      BY <1>1, <1>2
    <2>4. G[0] = 0
      BY <1>3, <2>3
    <2>. HIDE DEF G
    <2>. QED
      BY <1>4, <2>2, <2>4
  <1>7. ASSUME NEW j \in 1 .. Len(M) PROVE G[j] = G[j - 1] + F[M[j]]
    <2>1. /\ j \in 1 .. (Len(L) - 1) /\ j - 1 \in 0 .. (Len(L) - 1) /\ j \in 0 .. (Len(L) - 1)
          /\ j \in 1 .. Len(L) /\ j + 1 \in 1 .. Len(L) /\ j - 1 \in 0 .. Len(L)
      <3>1. Len(L) \in Nat /\ j \in 1 .. (Len(L) - 1)
        BY <1>1, <1>4
      <3>. QED
        BY ONLY <3>1
    <2>2. CASE j < i
      <3>1. M[j] = L[j] /\ j # i + 1 /\ j - 1 < i
        BY <1>2, <1>4, <2>1, <2>2
      <3>2. G[j] = D[j] /\ G[j - 1] = D[j - 1]
        BY <2>1, <2>2, <3>1
      <3>. QED
        BY <1>3, <1>5, <2>1, <3>1, <3>2
    <2>3. CASE j = i
      <3>1. M[j] = L[i + 1] /\ i < Len(L) /\ i + 1 \in 1 .. Len(L) /\ j - 1 < i /\ ~(j < i)
        BY <1>1, <1>2, <1>4, <2>1, <2>3
      <3>2. G[j] = D[i + 1] /\ G[j - 1] = D[i - 1]
        BY <2>1, <2>3, <3>1
      <3>3. D[i + 1] = D[i] + E[L[i + 1]] /\ D[i] = D[i - 1] + E[L[i]]
        <4>1. (i + 1) - 1 = i
          BY <1>2
        <4>. QED
          BY <1>3, <3>1, <4>1
      <3>4. D[i - 1] \in Nat /\ E[L[i]] \in Nat /\ E[L[i + 1]] \in Nat
        BY <1>1, <1>3, <2>1, <2>3, <3>1
      <3>. QED
        BY <1>5, <3>1, <3>2, <3>3, <3>4
    <2>4. CASE i < j
      <3>1. M[j] = L[j + 1] /\ j + 1 # i + 1 /\ ~(j < i) /\ ~(j - 1 < i) /\ (j - 1) + 1 = j /\ (j + 1) - 1 = j
        BY <1>2, <1>4, <2>1, <2>4
      <3>2. G[j] = D[j + 1] /\ G[j - 1] = D[j]
        BY <2>1, <3>1
      <3>. QED
        BY <1>3, <1>5, <2>1, <3>1, <3>2
    <2>. QED
      BY <1>2, <2>1, <2>2, <2>3, <2>4
  <1>8. IsDue(G, M, F)
    <2>. HIDE DEF G
    <2>. QED
      BY <1>6, <1>7 DEF IsDue
  <1>9. IsTimers(M, F)
    <2>1. ASSUME NEW k \in 1 .. Len(M), NEW j \in 1 .. Len(M), M[k] = M[j], k < j PROVE FALSE
      <3>1. k \in 1 .. (Len(L) - 1) /\ j \in 1 .. (Len(L) - 1)
        BY <1>4
      <3>2. /\ k \in 1 .. Len(L) /\ k + 1 \in 1 .. Len(L) /\ j \in 1 .. Len(L) /\ j + 1 \in 1 .. Len(L)
            /\ k # j /\ k # j + 1 /\ k + 1 # j + 1
        BY <1>1, <2>1, <3>1
      <3>3. (M[k] = L[k] \/ (M[k] = L[k + 1] /\ ~(k < i))) /\ ((M[j] = L[j] /\ j < i) \/ M[j] = L[j + 1])
        BY <1>4, <3>1
      <3>4. ~(~(k < i) /\ j < i)
        BY <1>2, <2>1, <3>1
      <3>. QED
        BY <1>1, <2>1, <3>2, <3>3, <3>4
    <2>2. \A k, j \in 1 .. Len(M) : M[k] = M[j] => k = j
      <3> SUFFICES ASSUME NEW k \in 1 .. Len(M), NEW j \in 1 .. Len(M), M[k] = M[j], k # j PROVE FALSE
        OBVIOUS
      <3>1. k < j \/ j < k
        OBVIOUS
      <3>. QED
        BY <2>1, <3>1
    <2>3. ASSUME M # <<>> PROVE F[M[1]] > 0
      <3>1. 1 \in 1 .. (Len(L) - 1) /\ 1 \in 1 .. Len(L) /\ 1 + 1 = 2 /\ 2 \in 1 .. Len(L)
        <4>1. Len(M) # 0
          BY <1>4, <2>3, EmptySeq
        <4>. QED
          BY <1>2, <1>4, <4>1
      <3>2. E[L[1]] > 0
        BY <1>2 DEF IsTimers
      <3>3. CASE i = 1
        <4>1. M[1] = L[2] /\ i < Len(L)
          BY <1>1, <1>4, <3>1, <3>3
        <4>2. F[L[2]] = E[L[2]] + E[L[1]]
          BY <1>5, <3>1, <3>3, <4>1
        <4>3. E[L[2]] \in Nat /\ E[L[1]] \in Nat
          BY <1>1, <3>1
        <4>. QED
          BY <3>2, <4>1, <4>2, <4>3
      <3>4. CASE i # 1
        <4>1. 1 < i /\ 1 # i + 1
          BY <1>2, <3>4
        <4>2. M[1] = L[1]
          BY <1>4, <3>1, <4>1
        <4>. QED
          BY <1>5, <3>1, <3>2, <4>1, <4>2
      <3>. QED
        BY <3>3, <3>4
    <2>. QED
      BY <1>4, <1>5, <2>2, <2>3 DEF IsTimers
  <1>10. IsLeft(D, L, E) /\ IsLeft(G, M, F)
    <2>. HIDE DEF G
    <2>. QED
      BY <1>8, <1>9, LeftIs
  <1>11. ASSUME NEW q \in Owners, \A j \in 1 .. Len(L) : j # i => L[j] # q PROVE Left(M, F, q) = 0
    <2>1. ASSUME NEW j \in 1 .. Len(M) PROVE M[j] # q
      <3>1. j \in 1 .. (Len(L) - 1) /\ j \in 1 .. Len(L) /\ j + 1 \in 1 .. Len(L) /\ (~(j < i) => j + 1 # i)
        BY <1>1, <1>2, <1>4
      <3>2. j < i => j # i
        BY <1>2, <3>1
      <3>. QED
        BY <1>4, <1>11, <3>1, <3>2
    <2>. HIDE DEF G
    <2>. QED
      BY <1>10, <2>1 DEF IsLeft
  <1>12. Left(M, F, L[i]) = 0
    BY <1>1, <1>11
  <1>13. ASSUME NEW q \in Owners, q # L[i] PROVE Left(M, F, q) = Left(L, E, q)
    <2>1. CASE \E j \in 1 .. Len(L) : L[j] = q
      <3>1. PICK j \in 1 .. Len(L) : L[j] = q
        BY <2>1
      <3>2. \E k \in 1 .. Len(M) : M[k] = q /\ G[k] = D[j]
        <4>1. CASE j < i
          <5>1. j \in 1 .. (Len(L) - 1) /\ j \in 0 .. (Len(L) - 1)
            BY <1>1, <1>2, <4>1
          <5>2. M[j] = q
            BY <1>4, <3>1, <4>1, <5>1
          <5>3. G[j] = D[j]
            BY <4>1, <5>1
          <5>. QED
            BY <1>4, <5>1, <5>2, <5>3
        <4>2. CASE i < j
          <5>1. /\ j - 1 \in 1 .. (Len(L) - 1) /\ j - 1 \in 0 .. (Len(L) - 1)
                /\ ~(j - 1 < i) /\ (j - 1) + 1 = j
            BY <1>1, <1>2, <4>2
          <5>2. M[j - 1] = q
            BY <1>4, <3>1, <5>1
          <5>3. G[j - 1] = D[j]
            BY <5>1
          <5>. QED
            BY <1>4, <5>1, <5>2, <5>3
        <4>3. j < i \/ i < j
          BY <1>2, <1>13, <3>1
        <4>. QED
          BY <4>1, <4>2, <4>3
      <3>. HIDE DEF G
      <3>. QED
        BY <1>10, <3>1, <3>2 DEF IsLeft
    <2>2. CASE ~ \E j \in 1 .. Len(L) : L[j] = q
      BY <1>10, <1>11, <2>2 DEF IsLeft
    <2>. QED
      BY <2>1, <2>2
  <1>. QED
    BY <1>9, <1>12, <1>13

-----------------------------------------------------------------------------
\* What a tick that finds a timer armed makes of the fields and of the list: the
\* head loses a tick, and the front without ticks goes.
IsTick(L, E, X, n, M) ==
    /\ X = [E EXCEPT ![L[1]] = @ - 1]
    /\ n = Cardinality({i \in 1 .. Len(L) : \A j \in 1 .. i : X[L[j]] = 0})
    /\ M = SubSeq(L, n + 1, Len(L))

\* A tick that finds a timer armed: those whose last tick it was are a front of
\* the list, and are all that fires.
LEMMA TickStep ==
    ASSUME NEW L, NEW E, IsTimers(L, E), NEW D, IsDue(D, L, E), L # <<>>,
           NEW X, NEW n, NEW M, IsTick(L, E, X, n, M)
    PROVE  /\ IsTimers(M, X)
           /\ {L[i] : i \in 1 .. n} = {q \in Owners : Left(L, E, q) = 1}
           /\ \A q \in Owners : Left(M, X, q) = IF Left(L, E, q) = 0 THEN 0 ELSE Left(L, E, q) - 1
  <1>1. /\ L \in Seq(Owners) /\ Len(L) \in Nat /\ DOMAIN L = 1 .. Len(L)
        /\ \A k, j \in 1 .. Len(L) : L[k] = L[j] => k = j
        /\ \A j \in 1 .. Len(L) : L[j] \in Owners /\ E[L[j]] \in Nat
        /\ E \in [Owners -> Nat] /\ E[L[1]] > 0
    BY LenProperties, ElementOfSeq DEF IsTimers
  <1>2. 1 \in 1 .. Len(L) /\ Len(L) >= 1
    <2>1. Len(L) # 0
      BY <1>1, EmptySeq
    <2>. QED
      BY <1>1, <2>1
  <1>3. /\ D[0] = 0
        /\ \A j \in 0 .. Len(L) : D[j] \in Nat
        /\ \A j \in 1 .. Len(L) : D[j] = D[j - 1] + E[L[j]]
    BY DEF IsDue
  <1>4. /\ X \in [Owners -> Nat]
        /\ X[L[1]] = E[L[1]] - 1
        /\ \A j \in 1 .. Len(L) : j # 1 => X[L[j]] = E[L[j]]
    <2>1. E[L[1]] - 1 \in Nat /\ L[1] \in Owners
      BY <1>1, <1>2
    <2>2. X = [q \in Owners |-> IF q = L[1] THEN E[L[1]] - 1 ELSE E[q]]
      BY <1>1 DEF IsTick
    <2>3. X \in [Owners -> Nat] /\ X[L[1]] = E[L[1]] - 1
      BY <1>1, <2>1, <2>2
    <2>4. ASSUME NEW j \in 1 .. Len(L), j # 1 PROVE X[L[j]] = E[L[j]]
      BY <1>1, <1>2, <2>2, <2>4
    <2>. QED
      BY <2>3, <2>4
  <1>5. /\ \A i \in 1 .. Len(L) : D[i] > 0
        /\ \A i, j \in 0 .. Len(L) : i <= j => D[i] <= D[j]
    BY DueGrows
  <1> DEFINE T == {i \in 1 .. Len(L) : \A j \in 1 .. i : X[L[j]] = 0}
  <1>6. n \in 0 .. Len(L) /\ T = 1 .. n
    <2>1. T \in SUBSET (1 .. Len(L)) /\ n = Cardinality(T)
      BY DEF IsTick
    <2>2. \A i \in T : \A j \in 1 .. Len(L) : j < i => j \in T
      BY <1>1
    <2>. HIDE DEF T
    <2>. QED
      BY <1>1, <2>1, <2>2, DownClosed
  <1>7. \A i \in 1 .. n : D[i] = 1
    <2> DEFINE S == {i \in Nat : i \in 1 .. n => D[i] = 1}
    <2>1. 0 \in S
      OBVIOUS
    <2>2. ASSUME NEW i \in Nat, i \in S PROVE i + 1 \in S
      <3> SUFFICES ASSUME i + 1 \in 1 .. n PROVE D[i + 1] = 1
        OBVIOUS
      <3>1. i + 1 \in 1 .. Len(L) /\ (i + 1) - 1 = i /\ i + 1 \in 1 .. (i + 1)
        BY <1>1, <1>6
      <3>2. X[L[i + 1]] = 0
        <4>1. i + 1 \in T
          BY <1>6
        <4>. QED
          BY <3>1, <4>1
      <3>3. D[i + 1] = D[i] + E[L[i + 1]] /\ E[L[i + 1]] \in Nat
        BY <1>1, <1>3, <3>1
      <3>4. CASE i = 0
        BY <1>1, <1>2, <1>3, <1>4, <3>2, <3>3, <3>4
      <3>5. CASE i # 0
        <4>1. i + 1 # 1 /\ i \in 1 .. n
          BY <1>6, <3>5
        <4>2. D[i] = 1 /\ E[L[i + 1]] = 0
          BY <1>4, <2>2, <3>1, <3>2, <4>1
        <4>. QED
          BY <3>3, <4>2
      <3>. QED
        BY <3>4, <3>5
    <2>. HIDE DEF S
    <2>3. \A i \in Nat : i \in S
      BY <2>1, <2>2, NatInd
    <2>. QED
      BY <1>6, <2>3 DEF S
  <1>8. ASSUME NEW i \in 1 .. Len(L), n < i PROVE D[i] > 1
    <2>1. D[i] \in Nat /\ D[i] > 0
      BY <1>3, <1>5
    <2>2. CASE D[i] = 1
      <3>1. ASSUME NEW j \in 1 .. i PROVE X[L[j]] = 0
        <4>1. j \in 1 .. Len(L) /\ j \in 0 .. Len(L) /\ j - 1 \in 0 .. Len(L) /\ i \in 0 .. Len(L) /\ j <= i
          BY <1>1
        <4>2. D[j] <= D[i] /\ D[j] > 0 /\ D[j] \in Nat
          BY <1>3, <1>5, <4>1
        <4>3. D[j] = 1
          BY <2>2, <4>2
        <4>4. D[j] = D[j - 1] + E[L[j]] /\ D[j - 1] \in Nat /\ E[L[j]] \in Nat
          BY <1>1, <1>3, <4>1
        <4>5. CASE j = 1
          BY <1>3, <1>4, <4>3, <4>4, <4>5
        <4>6. CASE j # 1
          <5>1. j - 1 \in 1 .. Len(L)
            BY <4>1, <4>6
          <5>2. D[j - 1] > 0
            BY <1>5, <5>1
          <5>. QED
            BY <1>4, <4>1, <4>3, <4>4, <4>6, <5>2
        <4>. QED
          BY <4>5, <4>6
      <3>2. i \in T
        BY <3>1
      <3>3. i \notin 1 .. n
        BY <1>6, <1>8
      <3>. QED
        BY <1>6, <3>2, <3>3
    <2>. QED
      BY <2>1, <2>2
  <1>. HIDE DEF T
  <1>9. n \in Nat /\ n <= Len(L) /\ Len(L) - n \in Nat
    BY <1>1, <1>6
  <1>10. /\ M \in Seq(Owners) /\ Len(M) = Len(L) - n
         /\ \A k \in 1 .. (Len(L) - n) : M[k] = L[n + k]
    <2>1. n + 1 \in Int /\ Len(L) \in Int /\ \A k \in (n + 1) .. Len(L) : L[k] \in Owners
      <3>1. \A k \in (n + 1) .. Len(L) : k \in 1 .. Len(L)
        BY ONLY <1>1, <1>9
      <3>2. n + 1 \in Int
        BY ONLY <1>9
      <3>. QED
        BY <1>1, <3>1, <3>2
    <2>2. /\ SubSeq(L, n + 1, Len(L)) \in Seq(Owners)
          /\ Len(SubSeq(L, n + 1, Len(L))) = (IF n + 1 <= Len(L) THEN Len(L) - (n + 1) + 1 ELSE 0)
          /\ \A k \in 1 .. (Len(L) - (n + 1) + 1) : SubSeq(L, n + 1, Len(L))[k] = L[(n + 1) + k - 1]
      <3>1. \A m \in Int :
              (\A k \in m .. Len(L) : L[k] \in Owners)
              => /\ SubSeq(L, m, Len(L)) \in Seq(Owners)
                 /\ Len(SubSeq(L, m, Len(L))) = (IF m <= Len(L) THEN Len(L) - m + 1 ELSE 0)
                 /\ \A k \in 1 .. (Len(L) - m + 1) : SubSeq(L, m, Len(L))[k] = L[m + k - 1]
        BY <2>1, SubSeqProperties
      <3>. QED
        BY ONLY <2>1, <3>1, Zenon
    <2>3. M = SubSeq(L, n + 1, Len(L))
      BY DEF IsTick
    <2>4. (IF n + 1 <= Len(L) THEN Len(L) - (n + 1) + 1 ELSE 0) = Len(L) - n /\ Len(L) - (n + 1) + 1 = Len(L) - n
      <3>1. Len(L) - (n + 1) + 1 = Len(L) - n
        BY ONLY <1>1, <1>9
      <3>2. CASE n + 1 <= Len(L)
        BY ONLY <3>1, <3>2
      <3>3. CASE ~(n + 1 <= Len(L))
        <4>1. Len(L) \in Nat /\ n \in Nat /\ n <= Len(L)
          BY <1>1, <1>9
        <4>2. Len(L) = n
          BY ONLY <3>3, <4>1
        <4>. QED
          BY ONLY <3>1, <3>3, <4>1, <4>2
      <3>. QED
        BY <3>2, <3>3
    <2>5. \A k \in 1 .. (Len(L) - n) : (n + 1) + k - 1 = n + k
      BY <1>1, <1>9
    <2>. QED
      BY ONLY <2>2, <2>3, <2>4, <2>5
  <1>11. ASSUME NEW k \in 1 .. Len(M)
         PROVE  /\ k \in 1 .. (Len(L) - n) /\ n + k \in 1 .. Len(L) /\ (n + k) - 1 = n + (k - 1)
                /\ k # 1 => k - 1 \in 1 .. (Len(L) - n) /\ n + k # 1 /\ n + (k - 1) \in 0 .. Len(L)
    <2>1. k \in 1 .. (Len(L) - n)
      BY <1>10
    <2>. QED
      BY ONLY <1>1, <1>9, <2>1
  <1> DEFINE G == [k \in 0 .. (Len(L) - n) |-> IF k = 0 THEN 0 ELSE D[n + k] - 1]
  <1>12. /\ G \in [0 .. Len(M) -> Nat] /\ G[0] = 0
         /\ \A k \in 1 .. (Len(L) - n) : G[k] = D[n + k] - 1 /\ G[k] > 0
    <2>1. ASSUME NEW k \in 1 .. (Len(L) - n) PROVE D[n + k] - 1 \in Nat /\ D[n + k] - 1 > 0
      <3>1. n + k \in 1 .. Len(L) /\ n < n + k /\ n + k \in 0 .. Len(L)
        BY <1>1, <1>9
      <3>2. D[n + k] > 1 /\ D[n + k] \in Nat
        BY <1>3, <1>8, <3>1
      <3>. QED
        BY <3>2
    <2>2. \A k \in 0 .. (Len(L) - n) : k # 0 => k \in 1 .. (Len(L) - n)
      BY <1>9
    <2>3. G \in [0 .. (Len(L) - n) -> Nat]
      BY <2>1, <2>2
    <2>4. G[0] = 0
      BY <1>9
    <2>5. ASSUME NEW k \in 1 .. (Len(L) - n) PROVE G[k] = D[n + k] - 1
      <3>1. k \in 0 .. (Len(L) - n) /\ k # 0
        BY <1>9
      <3>. QED
        BY <3>1
    <2>. HIDE DEF G
    <2>. QED
      BY <1>10, <2>1, <2>3, <2>4, <2>5
  <1>. HIDE DEF G
  <1>13. ASSUME NEW k \in 1 .. Len(M) PROVE G[k] = G[k - 1] + X[M[k]]
    <2>1. k \in 1 .. (Len(L) - n) /\ n + k \in 1 .. Len(L) /\ (n + k) - 1 = n + (k - 1)
      BY <1>11
    <2>2. G[k] = D[n + k] - 1 /\ M[k] = L[n + k]
      BY <1>10, <1>12, <2>1
    <2>3. D[n + k] = D[n + (k - 1)] + E[L[n + k]] /\ E[L[n + k]] \in Nat
      BY <1>1, <1>3, <2>1
    <2>4. CASE k = 1 /\ n = 0
      <3>1. n + k = 1 /\ n + (k - 1) = 0 /\ k - 1 = 0
        BY <2>4
      <3>2. D[1] = 0 + E[L[1]] /\ G[k] = D[1] - 1 /\ M[k] = L[1] /\ E[L[1]] \in Nat
        BY <1>3, <2>2, <2>3, <3>1, Zenon
      <3>3. X[L[1]] = E[L[1]] - 1 /\ G[k - 1] = 0
        BY <1>4, <1>12, <3>1
      <3>4. D[1] = E[L[1]]
        BY ONLY <3>2
      <3>5. G[k] = 0 + (E[L[1]] - 1)
        BY ONLY <3>2, <3>4
      <3>. QED
        BY ONLY <3>2, <3>3, <3>5, Zenon
    <2>5. CASE k = 1 /\ n # 0
      <3>1. n + (k - 1) = n /\ n \in 1 .. n /\ n + k # 1 /\ k - 1 = 0
        BY <1>9, <2>5
      <3>2. D[n] = 1 /\ X[L[n + k]] = E[L[n + k]]
        BY <1>4, <1>7, <2>1, <3>1
      <3>3. G[k - 1] = 0 /\ D[n + k] = 1 + E[L[n + k]]
        BY <1>12, <2>3, <3>1, <3>2, Zenon
      <3>4. G[k] = 0 + E[L[n + k]]
        BY ONLY <2>2, <2>3, <3>3
      <3>. QED
        BY ONLY <2>2, <3>2, <3>3, <3>4, Zenon
    <2>6. CASE k # 1
      <3>1. k - 1 \in 1 .. (Len(L) - n) /\ n + k # 1 /\ n + (k - 1) \in 0 .. Len(L)
        BY <1>11, <2>6
      <3>2. G[k - 1] = D[n + (k - 1)] - 1 /\ X[L[n + k]] = E[L[n + k]] /\ D[n + (k - 1)] \in Nat
        BY <1>3, <1>4, <1>12, <2>1, <3>1
      <3>3. G[k] = (D[n + (k - 1)] - 1) + E[L[n + k]]
        BY ONLY <2>2, <2>3, <3>2
      <3>. QED
        BY ONLY <2>2, <3>2, <3>3, Zenon
    <2>. QED
      BY <2>4, <2>5, <2>6
  <1>14. IsDue(G, M, X)
    BY <1>12, <1>13 DEF IsDue
  <1>15. IsTimers(M, X)
    <2>1. ASSUME NEW k \in 1 .. Len(M), NEW j \in 1 .. Len(M), M[k] = M[j] PROVE k = j
      <3>1. k \in 1 .. (Len(L) - n) /\ j \in 1 .. (Len(L) - n) /\ n + k \in 1 .. Len(L) /\ n + j \in 1 .. Len(L)
        BY <1>11
      <3>2. L[n + k] = L[n + j]
        BY <1>10, <2>1, <3>1
      <3>3. n + k = n + j
        BY <1>1, <3>1, <3>2
      <3>. QED
        BY <1>9, <3>1, <3>3
    <2>2. ASSUME M # <<>> PROVE X[M[1]] > 0
      <3>1. Len(M) # 0
        BY <1>10, <2>2, EmptySeq
      <3>2. 1 \in 1 .. Len(M) /\ 1 \in 1 .. (Len(L) - n) /\ 1 - 1 = 0
        BY <1>9, <1>10, <3>1
      <3>3. G[1] = 0 + X[M[1]] /\ G[1] > 0
        BY <1>12, <1>13, <3>2
      <3>4. X[M[1]] \in Nat
        <4>1. M[1] \in Owners
          BY <1>10, <3>2, ElementOfSeq
        <4>. QED
          BY <1>4, <4>1
      <3>5. X[M[1]] # 0
        BY ONLY <3>3, <3>4
      <3>. QED
        BY ONLY <3>4, <3>5
    <2>. QED
      BY <1>4, <1>10, <2>1, <2>2 DEF IsTimers
  <1>16. IsLeft(D, L, E) /\ IsLeft(G, M, X)
    BY <1>14, <1>15, LeftIs
  <1>17. \A j \in 1 .. Len(L) : Left(L, E, L[j]) = D[j]
    BY <1>16 DEF IsLeft
  <1>18. {L[i] : i \in 1 .. n} = {q \in Owners : Left(L, E, q) = 1}
    <2>1. ASSUME NEW i \in 1 .. n PROVE L[i] \in {q \in Owners : Left(L, E, q) = 1}
      <3>1. i \in 1 .. Len(L)
        BY <1>9
      <3>. QED
        BY <1>1, <1>7, <1>17, <3>1
    <2>2. ASSUME NEW q \in Owners, Left(L, E, q) = 1 PROVE q \in {L[i] : i \in 1 .. n}
      <3>1. PICK j \in 1 .. Len(L) : L[j] = q
        BY <1>16, <2>2 DEF IsLeft
      <3>2. D[j] = 1
        BY <1>17, <2>2, <3>1
      <3>3. ~(n < j)
        BY <1>8, <3>2
      <3>4. j \in 1 .. n
        BY <1>9, <3>3
      <3>. QED
        BY <3>1, <3>4
    <2>. QED
      BY <2>1, <2>2
  <1>19. ASSUME NEW q \in Owners
         PROVE  Left(M, X, q) = IF Left(L, E, q) = 0 THEN 0 ELSE Left(L, E, q) - 1
    <2>1. CASE \E j \in 1 .. Len(L) : L[j] = q
      <3>1. PICK j \in 1 .. Len(L) : L[j] = q
        BY <2>1
      <3>2. Left(L, E, q) = D[j] /\ D[j] > 0 /\ D[j] \in Nat
        BY <1>3, <1>5, <1>17, <3>1
      <3>3. CASE n < j
        <4>1. j - n \in 1 .. (Len(L) - n) /\ n + (j - n) = j
          BY <1>1, <1>9, <3>3
        <4>2. M[j - n] = q /\ G[j - n] = D[j] - 1 /\ j - n \in 1 .. Len(M)
          BY <1>10, <1>12, <3>1, <4>1
        <4>3. Left(M, X, q) = D[j] - 1
          BY <1>16, <4>2 DEF IsLeft
        <4>. QED
          BY <3>2, <4>3
      <3>4. CASE ~(n < j)
        <4>1. D[j] = 1
          <5>1. j \in 1 .. n
            BY <1>9, <3>4
          <5>. QED
            BY <1>7, <5>1
        <4>2. ASSUME NEW k \in 1 .. Len(M) PROVE M[k] # q
          <5>1. k \in 1 .. (Len(L) - n) /\ n + k \in 1 .. Len(L)
            BY <1>11
          <5>2. j \in 1 .. Len(L)
            OBVIOUS
          <5>3. n + k # j
            BY ONLY <1>9, <3>4, <5>1, <5>2
          <5>. QED
            BY <1>1, <1>10, <3>1, <5>1, <5>3
        <4>3. Left(M, X, q) = 0
          BY <1>16, <4>2 DEF IsLeft
        <4>. QED
          BY <3>2, <4>1, <4>3
      <3>. QED
        BY <3>3, <3>4
    <2>2. CASE ~ \E j \in 1 .. Len(L) : L[j] = q
      <3>1. Left(L, E, q) = 0
        BY <1>16, <2>2 DEF IsLeft
      <3>2. ASSUME NEW k \in 1 .. Len(M) PROVE M[k] # q
        <4>1. k \in 1 .. (Len(L) - n) /\ n + k \in 1 .. Len(L)
          BY <1>11
        <4>. QED
          BY <1>10, <2>2, <4>1
      <3>3. Left(M, X, q) = 0
        BY <1>16, <3>2 DEF IsLeft
      <3>. QED
        BY <3>1, <3>3
    <2>. QED
      BY <2>1, <2>2
  <1>. QED
    BY <1>15, <1>18, <1>19

\* The inductive invariant: the head has ticks left, without which a tick
\* would take its field below zero.
TimerIInv == IsTimers(timer_list, expires) /\ fired \subseteq Owners

\* The ticks left as a state function, of the state and of the next one.
LEMMA RemainingIs ==
    /\ [p \in Owners |-> Remaining(p)] = [p \in Owners |-> Left(timer_list, expires, p)]
    /\ [p \in Owners |-> Remaining(p)]' = [p \in Owners |-> Left(timer_list', expires', p)]
  BY DEF Remaining, Left, Armed

LEMMA TimerInitIInv ==
    ASSUME TimerInit
    PROVE  TimerIInv /\ \A p \in Owners : Left(timer_list, expires, p) = 0
  <1>1. timer_list \in Seq(Owners) /\ Len(timer_list) = 0 /\ timer_list = <<>>
    BY EmptySeq DEF TimerInit
  <1>2. IsTimers(timer_list, expires) /\ fired \subseteq Owners
    BY <1>1 DEF TimerInit, IsTimers
  <1>3. \A p : p \notin {timer_list[i] : i \in 1 .. Len(timer_list)}
    BY <1>1
  <1>. QED
    BY <1>2, <1>3 DEF TimerIInv, Left

LEMMA AddTimerStep ==
    ASSUME TimerIInv, NEW p \in Owners, NEW time \in 1 .. MaxSleep, add_timer(p, time)
    PROVE  TimerIInv' /\ AbstractTimers!Add(p, time)
  <1> DEFINE L == timer_list
             E == expires
             D == Due(L, E)
             n == Cardinality({i \in 1 .. Len(L) : D[i] <= time})
  <1>1. IsTimers(L, E) /\ IsDue(D, L, E)
    BY DueIs DEF TimerIInv
  <1>2. /\ p \notin {L[i] : i \in 1 .. Len(L)}
        /\ timer_list' = InsertAt(L, n + 1, p)
        /\ expires' = AddedTicks(L, E, D, n, p, time)
        /\ fired' = {}
    BY DEF add_timer, Armed, AddedTicks
  <1>3. time \in Nat \ {0}
    BY TimerListAssumption
  <1>. HIDE DEF D
  <1>4. /\ IsTimers(timer_list', expires')
        /\ \A q \in Owners : Left(timer_list', expires', q) = IF q = p THEN time ELSE Left(L, E, q)
    BY <1>1, <1>2, <1>3, AddStep
  <1>5. Left(L, E, p) = 0
    BY <1>2 DEF Left
  <1>. HIDE DEF L, E
  <1>6. [q \in Owners |-> Left(timer_list', expires', q)] = [[q \in Owners |-> Left(L, E, q)] EXCEPT ![p] = time]
    BY <1>4
  <1>7. AbstractTimers!Add(p, time)
    <2>1. [q \in Owners |-> Left(L, E, q)][p] = 0
      BY <1>5
    <2>. QED
      BY <1>2, <1>6, <2>1, RemainingIs DEF AbstractTimers!Add, L, E
  <1>. QED
    BY <1>2, <1>4, <1>7 DEF TimerIInv

LEMMA DelTimerStep ==
    ASSUME TimerIInv, NEW p \in Owners, del_timer(p)
    PROVE  TimerIInv' /\ AbstractTimers!Delete(p)
  <1> DEFINE L == timer_list
             E == expires
             D == Due(L, E)
  <1>1. IsTimers(L, E) /\ IsDue(D, L, E) /\ fired' = {}
    BY DueIs DEF TimerIInv, del_timer
  <1>. HIDE DEF D
  <1>2. /\ IsTimers(timer_list', expires')
        /\ \A q \in Owners : Left(timer_list', expires', q) = IF q = p THEN 0 ELSE Left(L, E, q)
    <2>1. CASE p \in Armed
      <3> DEFINE i == CHOOSE k \in 1 .. Len(L) : L[k] = p
      <3>1. i \in 1 .. Len(L) /\ L[i] = p
        BY <2>1 DEF Armed
      <3>2. /\ timer_list' = RemoveAt(L, i)
            /\ expires' = IF i < Len(L) THEN [E EXCEPT ![L[i + 1]] = @ + E[p]] ELSE E
        BY <2>1 DEF del_timer
      <3>. HIDE DEF i
      <3>3. expires' = RemovedTicks(L, E, i)
        <4>1. E \in [Owners -> Nat] /\ E = [q \in Owners |-> E[q]]
          BY <1>1 DEF IsTimers
        <4>. HIDE DEF L, E
        <4>2. CASE i < Len(L)
          <5>1. expires' = [q \in Owners |-> IF q = L[i + 1] THEN E[L[i + 1]] + E[p] ELSE E[q]]
            BY <3>2, <4>1, <4>2
          <5>2. \A q \in Owners : (IF q = L[i + 1] THEN E[L[i + 1]] + E[p] ELSE E[q])
                                 = IF i < Len(L) /\ q = L[i + 1] THEN E[q] + E[L[i]] ELSE E[q]
            BY <3>1, <4>2
          <5>. QED
            BY ONLY <5>1, <5>2 DEF RemovedTicks
        <4>3. CASE ~(i < Len(L))
          <5>1. \A q \in Owners : E[q] = IF i < Len(L) /\ q = L[i + 1] THEN E[q] + E[L[i]] ELSE E[q]
            BY <4>3
          <5>2. expires' = [q \in Owners |-> E[q]]
            BY <3>2, <4>1, <4>3
          <5>. QED
            BY ONLY <5>1, <5>2 DEF RemovedTicks
        <4>. QED
          BY <4>2, <4>3
      <3>. HIDE DEF L, E
      <3>4. /\ IsTimers(timer_list', expires')
            /\ \A q \in Owners : Left(timer_list', expires', q) = IF q = L[i] THEN 0 ELSE Left(L, E, q)
        <4>1. timer_list' = RemoveAt(L, i) /\ i \in 1 .. Len(L)
          BY <3>1, <3>2
        <4>. QED
          BY ONLY <1>1, <3>3, <4>1, DeleteStep
      <3>. QED
        BY <3>1, <3>4
    <2>2. CASE p \notin Armed
      <3>1. timer_list' = L /\ expires' = E
        BY <2>2 DEF del_timer
      <3>2. Left(L, E, p) = 0
        BY <2>2 DEF Left, Armed
      <3>. HIDE DEF L, E
      <3>. QED
        BY <1>1, <3>1, <3>2
    <2>. QED
      BY <2>1, <2>2
  <1>. HIDE DEF L, E
  <1>3. [q \in Owners |-> Left(timer_list', expires', q)] = [[q \in Owners |-> Left(L, E, q)] EXCEPT ![p] = 0]
    BY <1>2
  <1>4. AbstractTimers!Delete(p)
    BY <1>1, <1>3, RemainingIs DEF AbstractTimers!Delete, L, E
  <1>. QED
    BY <1>1, <1>2, <1>4 DEF TimerIInv

LEMMA RunTimersStep ==
    ASSUME TimerIInv, run_timer_list
    PROVE  TimerIInv' /\ AbstractTimers!Tick
  <1> DEFINE L == timer_list
             E == expires
             D == Due(L, E)
             X == IF L = <<>> THEN E ELSE [E EXCEPT ![Head(L)] = @ - 1]
             n == Cardinality({i \in 1 .. Len(L) : \A j \in 1 .. i : X[L[j]] = 0})
  <1>1. IsTimers(L, E) /\ IsDue(D, L, E)
    BY DueIs DEF TimerIInv
  <1>2. /\ expires' = X
        /\ fired' = {L[i] : i \in 1 .. n}
        /\ timer_list' = SubSeq(L, n + 1, Len(L))
    BY DEF run_timer_list, Expired
  <1>. HIDE DEF D
  <1>3. /\ IsTimers(timer_list', expires')
        /\ fired' = {q \in Owners : Left(L, E, q) = 1}
        /\ \A q \in Owners : Left(timer_list', expires', q) = IF Left(L, E, q) = 0 THEN 0 ELSE Left(L, E, q) - 1
    <2>1. CASE L = <<>>
      <3>1. Len(L) = 0 /\ X = E
        BY <2>1, EmptySeq
      <3>2. n = 0
        <4>1. {i \in 1 .. Len(L) : \A j \in 1 .. i : X[L[j]] = 0} = {}
          BY <3>1
        <4>. HIDE DEF L, X
        <4>. QED
          BY <4>1, FS_EmptySet
      <3>3. timer_list' = L
        <4>1. SubSeq(L, 1, 0) = <<>>
          BY <1>1, SubSeqEmpty DEF IsTimers
        <4>. QED
          BY <1>2, <2>1, <3>1, <3>2, <4>1
      <3>4. \A q : Left(L, E, q) = 0
        BY <3>1 DEF Left
      <3>5. fired' = {}
        BY <1>2, <3>2
      <3>6. IsTimers(timer_list', expires') /\ \A q : Left(timer_list', expires', q) = 0
        BY <1>1, <1>2, <3>1, <3>3, <3>4
      <3>. HIDE DEF L, E
      <3>. QED
        BY ONLY <3>4, <3>5, <3>6
    <2>2. CASE L # <<>>
      <3>1. X = [E EXCEPT ![L[1]] = @ - 1]
        BY <2>2 DEF Head
      <3>2. n = Cardinality({i \in 1 .. Len(L) : \A j \in 1 .. i : X[L[j]] = 0})
        OBVIOUS
      <3>. HIDE DEF L, E, X, n
      <3>3. /\ IsTimers(timer_list', X)
            /\ {L[i] : i \in 1 .. n} = {q \in Owners : Left(L, E, q) = 1}
            /\ \A q \in Owners : Left(timer_list', X, q) = IF Left(L, E, q) = 0 THEN 0 ELSE Left(L, E, q) - 1
        <4>1. IsTick(L, E, X, n, timer_list')
          BY ONLY <1>2, <3>1, <3>2 DEF IsTick
        <4>. QED
          BY ONLY <1>1, <2>2, <4>1, TickStep
      <3>. QED
        BY ONLY <1>2, <3>3, Zenon
    <2>. QED
      BY <2>1, <2>2
  <1>. HIDE DEF L, E, X, n
  <1>4. AbstractTimers!Tick
    <2>1. {q \in Owners : Left(L, E, q) = 1} = {q \in Owners : [r \in Owners |-> Left(L, E, r)][q] = 1}
      OBVIOUS
    <2>2. [q \in Owners |-> Left(timer_list', expires', q)]
          = [q \in Owners |-> IF [r \in Owners |-> Left(L, E, r)][q] = 0 THEN 0
                             ELSE [r \in Owners |-> Left(L, E, r)][q] - 1]
      BY <1>3
    <2>. QED
      BY <1>3, <2>1, <2>2, RemainingIs DEF AbstractTimers!Tick, L, E
  <1>5. fired' \subseteq Owners
    BY <1>3
  <1>. QED
    BY <1>3, <1>4, <1>5 DEF TimerIInv

\* The list of differences implements Timers: whatever was armed and deleted in
\* between, every timer fires at the tick it was armed for, and no other does.
THEOREM ImplementsTimersCorrect == TimerSpec => ImplementsTimers
  <1>1. TimerInit => TimerIInv /\ AbstractTimers!Init
    <2> SUFFICES ASSUME TimerInit PROVE TimerIInv /\ AbstractTimers!Init
      OBVIOUS
    <2>1. TimerIInv /\ \A p \in Owners : Left(timer_list, expires, p) = 0
      BY TimerInitIInv
    <2>2. [p \in Owners |-> Left(timer_list, expires, p)] = [p \in Owners |-> 0]
      BY <2>1
    <2>. QED
      BY <2>1, <2>2, RemainingIs DEF AbstractTimers!Init, TimerInit
  <1>2. TimerIInv /\ [TimerNext]_timer_vars
        => TimerIInv' /\ [AbstractTimers!Next]_<<[p \in Owners |-> Remaining(p)], fired>>
    <2> SUFFICES ASSUME TimerIInv, [TimerNext]_timer_vars
                 PROVE  TimerIInv' /\ [AbstractTimers!Next]_<<[p \in Owners |-> Remaining(p)], fired>>
      OBVIOUS
    <2>1. CASE \E p \in Owners, time \in 1 .. MaxSleep : add_timer(p, time)
      BY <2>1, AddTimerStep DEF AbstractTimers!Next
    <2>2. CASE \E p \in Owners : del_timer(p)
      BY <2>2, DelTimerStep DEF AbstractTimers!Next
    <2>3. CASE run_timer_list
      BY <2>3, RunTimersStep DEF AbstractTimers!Next
    <2>4. CASE UNCHANGED timer_vars
      <3>1. timer_list' = timer_list /\ expires' = expires /\ fired' = fired
        BY <2>4 DEF timer_vars
      <3>2. [p \in Owners |-> Remaining(p)]' = [p \in Owners |-> Remaining(p)]
        BY <3>1, RemainingIs
      <3>. QED
        BY <3>1, <3>2 DEF TimerIInv
    <2>. QED
      BY <2>1, <2>2, <2>3, <2>4 DEF TimerNext
  <1>. QED
    BY <1>1, <1>2, PTL DEF TimerSpec, ImplementsTimers, AbstractTimers!Spec

-----------------------------------------------------------------------------
(* Functions of natural numbers that are computed from the one before.      *)

IteratesTo(g, a, G, m) == g = [i \in 0 .. m |-> IF i = 0 THEN a ELSE G[g[i - 1]]]
Iterates(g, a, G) == g = [i \in Nat |-> IF i = 0 THEN a ELSE G[g[i - 1]]]

\* Such a function exists as far as any number.
LEMMA IterUpto ==
    ASSUME NEW a, NEW G, NEW m \in Nat
    PROVE  \E g : IteratesTo(g, a, G, m)
  <1> USE DEF IteratesTo
  <1> DEFINE T == {k \in Nat : \E g : g = [i \in 0 .. k |-> IF i = 0 THEN a ELSE G[g[i - 1]]]}
  <1>1. 0 \in T
    <2> DEFINE g == [i \in 0 .. 0 |-> a]
    <2>1. g = [i \in 0 .. 0 |-> IF i = 0 THEN a ELSE G[g[i - 1]]]
      OBVIOUS
    <2>. QED
      BY <2>1
  <1>2. ASSUME NEW k \in Nat, k \in T PROVE k + 1 \in T
    <2>1. PICK g : g = [i \in 0 .. k |-> IF i = 0 THEN a ELSE G[g[i - 1]]]
      BY <1>2
    <2> DEFINE e == G[g[k]]
               h == [i \in 0 .. (k + 1) |-> IF i = k + 1 THEN e ELSE g[i]]
    <2>2. \A i \in 0 .. k : g[i] = IF i = 0 THEN a ELSE G[g[i - 1]]
      BY <2>1
    <2>3. ASSUME NEW i \in 0 .. (k + 1) PROVE h[i] = IF i = 0 THEN a ELSE G[h[i - 1]]
      <3>1. CASE i = k + 1
        <4>1. k \in 0 .. (k + 1) /\ k # k + 1 /\ i - 1 = k /\ i # 0
          BY <3>1
        <4>2. h[i] = e /\ h[k] = g[k]
          BY <3>1, <4>1
        <4>. QED
          BY <3>1, <4>1, <4>2
      <3>2. CASE i # k + 1 /\ i # 0
        <4>1. i \in 0 .. k /\ i - 1 \in 0 .. (k + 1) /\ i - 1 # k + 1
          BY <3>2
        <4>2. h[i] = g[i] /\ h[i - 1] = g[i - 1]
          BY <3>2, <4>1
        <4>. QED
          BY <2>2, <3>2, <4>1, <4>2
      <3>3. CASE i = 0
        <4>1. i \in 0 .. k /\ i # k + 1
          BY <3>3
        <4>. QED
          BY <2>2, <3>3, <4>1
      <3>. QED
        BY <3>1, <3>2, <3>3
    <2>4. h = [i \in 0 .. (k + 1) |-> h[i]]
      OBVIOUS
    <2>. HIDE DEF h
    <2>5. h = [i \in 0 .. (k + 1) |-> IF i = 0 THEN a ELSE G[h[i - 1]]]
      BY <2>3, <2>4, Zenon
    <2>. QED
      BY <2>5
  <1>. HIDE DEF T
  <1>3. m \in T
    BY <1>1, <1>2, NatInd
  <1>. QED
    BY <1>3 DEF T

\* Two of them agree where both are defined.
LEMMA IterAgree ==
    ASSUME NEW a, NEW G, NEW m \in Nat, NEW n \in Nat, NEW g, NEW h,
           IteratesTo(g, a, G, m), IteratesTo(h, a, G, n), NEW c \in Nat, c <= m, c <= n
    PROVE  g[c] = h[c]
  <1> DEFINE T == {k \in Nat : k <= m /\ k <= n => g[k] = h[k]}
  <1>0. /\ \A i \in 0 .. m : g[i] = IF i = 0 THEN a ELSE G[g[i - 1]]
        /\ \A i \in 0 .. n : h[i] = IF i = 0 THEN a ELSE G[h[i - 1]]
    BY DEF IteratesTo
  <1>1. 0 \in T
    BY <1>0
  <1>2. ASSUME NEW k \in Nat, k \in T PROVE k + 1 \in T
    <2> SUFFICES ASSUME k + 1 <= m, k + 1 <= n PROVE g[k + 1] = h[k + 1]
      OBVIOUS
    <2>1. k + 1 \in 0 .. m /\ k + 1 \in 0 .. n /\ (k + 1) - 1 = k /\ k + 1 # 0 /\ k <= m /\ k <= n
      OBVIOUS
    <2>2. g[k] = h[k]
      BY <1>2, <2>1
    <2>. QED
      BY <1>0, <2>1, <2>2
  <1>. HIDE DEF T
  <1>3. \A k \in Nat : k \in T
    BY <1>1, <1>2, NatInd
  <1>. QED
    BY <1>3 DEF T

\* So it exists.
LEMMA IterExists ==
    ASSUME NEW a, NEW G
    PROVE  \E g : Iterates(g, a, G)
  <1> DEFINE u == [m \in Nat |-> CHOOSE x : IteratesTo(x, a, G, m)]
             g == [i \in Nat |-> u[i][i]]
  <1>1. ASSUME NEW m \in Nat PROVE IteratesTo(u[m], a, G, m)
    <2>1. \E x : IteratesTo(x, a, G, m)
      BY IterUpto, Zenon
    <2>2. u[m] = CHOOSE x : IteratesTo(x, a, G, m)
      OBVIOUS
    <2>. HIDE DEF u
    <2>. QED
      BY <2>1, <2>2, Zenon
  <1>2. \A m \in Nat : \A i \in 0 .. m : u[m][i] = IF i = 0 THEN a ELSE G[u[m][i - 1]]
    <2> SUFFICES ASSUME NEW m \in Nat
                 PROVE  \A i \in 0 .. m : u[m][i] = IF i = 0 THEN a ELSE G[u[m][i - 1]]
      OBVIOUS
    <2>1. PICK x : x = u[m]
      OBVIOUS
    <2>. HIDE DEF u
    <2>2. IteratesTo(x, a, G, m)
      BY <1>1, <2>1
    <2>3. \A i \in 0 .. m : x[i] = IF i = 0 THEN a ELSE G[x[i - 1]]
      BY <2>2 DEF IteratesTo
    <2>. QED
      BY <2>1, <2>3
  <1>3. ASSUME NEW i \in Nat PROVE g[i] = IF i = 0 THEN a ELSE G[g[i - 1]]
    <2>1. CASE i = 0
      BY <1>2, <2>1
    <2>2. CASE i # 0
      <3>1. i - 1 \in Nat /\ i - 1 <= i /\ i - 1 <= i - 1 /\ i \in 0 .. i
        BY <2>2
      <3>2. u[i][i - 1] = u[i - 1][i - 1]
        <4>1. IteratesTo(u[i], a, G, i) /\ IteratesTo(u[i - 1], a, G, i - 1)
          BY <1>1, <3>1
        <4>2. PICK x, y : x = u[i] /\ y = u[i - 1]
          OBVIOUS
        <4>. HIDE DEF u
        <4>3. IteratesTo(x, a, G, i) /\ IteratesTo(y, a, G, i - 1)
          BY <4>1, <4>2
        <4>7. x[i - 1] = y[i - 1]
          BY <3>1, <4>3, IterAgree, SMT
        <4>. QED
          BY <4>2, <4>7
      <3>3. u[i][i] = G[u[i][i - 1]]
        BY <1>2, <2>2, <3>1
      <3>4. g[i] = u[i][i] /\ g[i - 1] = u[i - 1][i - 1]
        BY <3>1
      <3>. HIDE DEF g, u
      <3>. QED
        BY <2>2, <3>2, <3>3, <3>4, Zenon
    <2>. QED
      BY <2>1, <2>2
  <1>4. g = [i \in Nat |-> g[i]]
    OBVIOUS
  <1>. HIDE DEF g
  <1>5. g = [i \in Nat |-> IF i = 0 THEN a ELSE G[g[i - 1]]]
    BY <1>3, <1>4, Zenon
  <1>. QED
    BY <1>5 DEF Iterates

\* What it computes.
LEMMA IterValues ==
    ASSUME NEW a, NEW G, NEW g, Iterates(g, a, G)
    PROVE  g[0] = a /\ \A i \in Nat : g[i + 1] = G[g[i]]
  <1>1. \A i \in Nat : g[i] = IF i = 0 THEN a ELSE G[g[i - 1]]
    BY DEF Iterates
  <1>2. \A i \in Nat : i + 1 \in Nat /\ i + 1 # 0 /\ (i + 1) - 1 = i
    OBVIOUS
  <1>. QED
    BY <1>1, <1>2

LEMMA IterIn ==
    ASSUME NEW a, NEW G, NEW g, Iterates(g, a, G), NEW S, a \in S, \A x \in S : G[x] \in S
    PROVE  \A i \in Nat : g[i] \in S
  <1> DEFINE T == {i \in Nat : g[i] \in S}
  <1>1. 0 \in T /\ \A i \in Nat : i \in T => i + 1 \in T
    BY IterValues
  <1>. HIDE DEF T
  <1>2. \A i \in Nat : i \in T
    BY <1>1, NatInd
  <1>. QED
    BY <1>2 DEF T

-----------------------------------------------------------------------------
(* The free list as a circle.                                               *)

Top == PAGE * SLOB_PAGES

\* c comes after a in the circle of blocks B.
IsNext(B, a, c) ==
    /\ c \in B
    /\ \/ a < c /\ \A b \in B : b <= a \/ c <= b
       \/ c = arena /\ \A b \in B : b <= a

\* The blocks B of heap g are a circle in the order of addresses.
IsCircle(g, B) ==
    /\ g = [units |-> g.units, next |-> g.next, slobfree |-> g.slobfree]
    /\ g.units \in [Addrs -> Nat] /\ g.next \in [Addrs -> Addrs]
    /\ B \in SUBSET Addrs /\ arena \in B /\ g.slobfree \in B
    /\ g.units[arena] = 1
    /\ \A a \in B : g.units[a] # 0 /\ a + g.units[a] <= Top
    /\ \A a, b \in B : a < b => a + g.units[a] < b
    /\ \A a \in B : IsNext(B, a, g.next[a])

\* The units in them.
FreeUnits(g, B) == {u \in Units : \E a \in B : a <= u /\ u < a + g.units[a]}

LEMMA AddrProps ==
    /\ Top \in Nat /\ PAGE \in Nat /\ PAGE > 2 /\ SLOB_PAGES \in Nat /\ BIGBLOCK \in Nat
    /\ 1 < BIGBLOCK /\ BIGBLOCK < PAGE
    /\ arena = -2 /\ arena \in Addrs /\ arena \in Int /\ arena \notin Units
    /\ \A u : u \in Units <=> u \in Nat /\ u < Top
    /\ \A a : a \in Addrs <=> a = arena \/ a \in Units
    /\ \A a \in Addrs : a \in Int /\ arena <= a
    /\ IsFiniteSet(Addrs) /\ Cardinality(Addrs) \in Nat
  <1>1. Top \in Nat /\ PAGE \in Nat /\ PAGE > 2 /\ SLOB_PAGES \in Nat /\ BIGBLOCK \in Nat /\ 1 < BIGBLOCK /\ BIGBLOCK < PAGE
    BY SlobAssumption DEF Top
  <1>2. Units = 0 .. (Top - 1)
    BY DEF Units, Top
  <1>3. IsFiniteSet(Units)
    BY <1>1, <1>2, FS_Interval
  <1>4. IsFiniteSet({arena}) /\ IsFiniteSet(Addrs)
    BY <1>3, FS_Singleton, FS_Union DEF Addrs
  <1>5. Cardinality(Addrs) \in Nat
    BY <1>4, FS_CardinalityType
  <1>6. \A u : u \in Units <=> u \in Nat /\ u < Top
    BY <1>1, <1>2
  <1>7. \A a : a \in Addrs <=> a = arena \/ a \in Units
    BY DEF Addrs
  <1>8. arena = -2 /\ arena \in Int /\ arena \notin Units
    BY <1>6 DEF arena
  <1>. QED
    BY <1>1, <1>4, <1>5, <1>6, <1>7, <1>8

\* Finite sets of integers have a last element below any bound.
LEMMA IntMax ==
    ASSUME NEW T \in SUBSET Addrs, T # {}
    PROVE  \E m \in T : \A t \in T : t <= m
  <1> DEFINE D == {Top - t : t \in T}
  <1>1. \A t \in T : t \in Int /\ t <= Top
    BY AddrProps
  <1>2. D \in SUBSET Nat /\ D # {}
    <2>1. \A t \in T : Top - t \in Nat
      BY <1>1, AddrProps
    <2>. QED
      BY <2>1
  <1>3. PICK d \in D : \A k \in D : d <= k
    BY <1>2, NatMin
  <1>4. PICK m \in T : d = Top - m
    BY <1>3
  <1>5. ASSUME NEW t \in T PROVE t <= m
    <2>1. Top - m <= Top - t
      BY <1>3, <1>4
    <2>. QED
      BY <1>1, <2>1, AddrProps
  <1>. QED
    BY <1>5

LEMMA IntMin ==
    ASSUME NEW T \in SUBSET Addrs, T # {}
    PROVE  \E m \in T : \A t \in T : m <= t
  <1> DEFINE D == {t + 2 : t \in T}
  <1>1. \A t \in T : t \in Int /\ -2 <= t
    BY AddrProps
  <1>2. D \in SUBSET Nat /\ D # {}
    BY <1>1
  <1>3. PICK d \in D : \A k \in D : d <= k
    BY <1>2, NatMin
  <1>4. PICK m \in T : d = m + 2
    BY <1>3
  <1>5. ASSUME NEW t \in T PROVE m <= t
    <2>1. m + 2 <= t + 2
      BY <1>3, <1>4
    <2>. QED
      BY <1>1, <2>1
  <1>. QED
    BY <1>5

\* Whatever contains the block after each of its blocks contains all.
LEMMA CircleClosed ==
    ASSUME NEW g, NEW B, IsCircle(g, B), NEW C \in SUBSET B, C # {}, \A a \in C : g.next[a] \in C
    PROVE  C = B
  <1>1. B \in SUBSET Addrs /\ arena \in B /\ \A a \in B : IsNext(B, a, g.next[a])
    BY DEF IsCircle
  <1>2. \A a \in B : a \in Int /\ arena <= a /\ arena \in Int
    BY <1>1, AddrProps
  <1>3. arena \in C
    <2>1. PICK m \in C : \A t \in C : t <= m
      BY <1>1, IntMax
    <2>2. ~(m < g.next[m])
      BY <1>2, <2>1
    <2>3. IsNext(B, m, g.next[m])
      BY <1>1
    <2>. QED
      BY <2>2, <2>3 DEF IsNext
  <1> SUFFICES ASSUME B \ C # {} PROVE FALSE
    OBVIOUS
  <1>4. PICK b \in B \ C : \A t \in B \ C : b <= t
    BY <1>1, IntMin
  <1> DEFINE L == {t \in B : t < b}
  <1>5. arena \in L /\ L \in SUBSET Addrs
    BY <1>1, <1>2, <1>3, <1>4
  <1>6. PICK p \in L : \A t \in L : t <= p
    BY <1>5, IntMax
  <1>7. p \in B /\ p < b /\ \A t \in B : t < b => t <= p
    BY <1>6
  <1>8. p \in C
    BY <1>2, <1>4, <1>7
  <1>9. g.next[p] \in C /\ IsNext(B, p, g.next[p]) /\ g.next[p] \in B
    BY <1>1, <1>7, <1>8
  <1>10. g.next[p] = b
    BY <1>2, <1>4, <1>7, <1>9 DEF IsNext
  <1>. QED
    BY <1>4, <1>9, <1>10

\* The search goes once around.
Round(g, B, s, n) ==
    /\ n \in Nat /\ Search(g) = [i \in 0 .. n |-> s[i]]
    /\ s[0] = g.next[g.slobfree] /\ (\A i \in Nat : s[i] \in B /\ s[i + 1] = g.next[s[i]])
    /\ s[n] = g.slobfree /\ (\A i \in Nat : i < n => s[i] # g.slobfree)
    /\ B = {s[i] : i \in 0 .. n}

LEMMA SearchRound ==
    ASSUME NEW g, NEW B, IsCircle(g, B)
    PROVE  \E s, n : Round(g, B, s, n)
  <1> DEFINE s == CHOOSE x : x = [i \in Nat |-> IF i = 0 THEN g.next[g.slobfree] ELSE g.next[x[i - 1]]]
             Ended(i) == s[i] = g.slobfree /\ \A j \in 0 .. (i - 1) : s[j] # g.slobfree
             last == CHOOSE i \in 0 .. Cardinality(Addrs) : Ended(i)
  <1>1. Search(g) = [i \in 0 .. last |-> s[i]]
    BY DEF Search
  <1>2. Iterates(s, g.next[g.slobfree], g.next)
    <2>1. PICK x : Iterates(x, g.next[g.slobfree], g.next)
      BY IterExists
    <2>2. x = [i \in Nat |-> IF i = 0 THEN g.next[g.slobfree] ELSE g.next[x[i - 1]]]
      BY <2>1 DEF Iterates
    <2>. QED
      BY <2>2 DEF Iterates
  <1>. HIDE DEF s
  <1>3. \A a \in B : g.next[a] \in B
    BY DEF IsCircle, IsNext
  <1>4. g.slobfree \in B
    BY DEF IsCircle
  <1>5. \A i \in Nat : s[i] \in B
    BY <1>2, <1>3, <1>4, IterIn
  <1>6. s[0] = g.next[g.slobfree] /\ \A i \in Nat : s[i + 1] = g.next[s[i]]
    BY <1>2, IterValues
  <1>7. \E i \in Nat : s[i] = g.slobfree
    <2> DEFINE C == {s[i] : i \in Nat}
    <2>1. C \in SUBSET B /\ s[0] \in C
      BY <1>5
    <2>2. ASSUME NEW a \in C PROVE g.next[a] \in C
      <3>1. PICK i \in Nat : a = s[i]
        BY <2>2
      <3>2. g.next[a] = s[i + 1] /\ i + 1 \in Nat
        BY <1>6, <3>1
      <3>. QED
        BY <3>2
    <2>. HIDE DEF C
    <2>3. C = B
      BY <2>1, <2>2, CircleClosed
    <2>. QED
      BY <1>4, <2>3 DEF C
  <1>8. PICK n \in Nat : s[n] = g.slobfree /\ \A i \in Nat : i < n => s[i] # g.slobfree
    <2> DEFINE T == {i \in Nat : s[i] = g.slobfree}
    <2>1. T \in SUBSET Nat /\ T # {}
      BY <1>7
    <2>2. PICK n \in T : \A k \in T : n <= k
      BY <2>1, NatMin
    <2>3. ASSUME NEW i \in Nat, i < n PROVE s[i] # g.slobfree
      BY <2>2, <2>3
    <2>. QED
      BY <2>2, <2>3
  <1>9. n <= Cardinality(Addrs)
    <2>1. ASSUME NEW j \in 0 .. n, NEW k \in 0 .. n, j < k, s[j] = s[k] PROVE FALSE
      <3> DEFINE T == {m \in Nat : s[j + m] = s[k + m]}
      <3>1. 0 \in T
        BY <2>1
      <3>2. ASSUME NEW m \in Nat, m \in T PROVE m + 1 \in T
        <4>1. j + m \in Nat /\ k + m \in Nat /\ (j + m) + 1 = j + (m + 1) /\ (k + m) + 1 = k + (m + 1)
          OBVIOUS
        <4>2. s[(j + m) + 1] = g.next[s[j + m]] /\ s[(k + m) + 1] = g.next[s[k + m]]
          BY <1>6, <4>1
        <4>. QED
          BY <3>2, <4>1, <4>2
      <3>. HIDE DEF T
      <3>3. \A m \in Nat : m \in T
        BY <3>1, <3>2, NatInd
      <3>4. n - k \in Nat /\ k + (n - k) = n /\ j + (n - k) \in Nat /\ j + (n - k) < n
        BY <2>1
      <3>5. s[j + (n - k)] = s[k + (n - k)]
        BY <3>3, <3>4 DEF T
      <3>. QED
        BY <1>8, <3>4, <3>5
    <2> DEFINE f == [i \in 0 .. n |-> s[i]]
    <2>2. \A j, k \in 0 .. n : s[j] = s[k] => j = k
      BY <2>1
    <2>3. f \in Injection(0 .. n, Addrs)
      <3>1. \A i \in 0 .. n : s[i] \in Addrs
        BY <1>5 DEF IsCircle
      <3>. QED
        BY <2>2, <3>1 DEF Injection, IsInjective
    <2>4. IsFiniteSet(0 .. n) /\ Cardinality(0 .. n) = n + 1
      BY FS_Interval
    <2>5. Cardinality(0 .. n) <= Cardinality(Addrs)
      BY <2>3, <2>4, AddrProps, FS_Injection
    <2>. QED
      BY <2>4, <2>5, AddrProps
  <1>10. last = n
    <2>1. n \in 0 .. Cardinality(Addrs) /\ Ended(n)
      BY <1>8, <1>9, AddrProps
    <2>2. ASSUME NEW i \in 0 .. Cardinality(Addrs), Ended(i) PROVE i = n
      <3>1. i \in Nat /\ ~(i < n)
        BY <1>8, <2>2
      <3>2. ~(n < i)
        BY <1>8, <2>2
      <3>. QED
        BY <3>1, <3>2
    <2>. QED
      BY <2>1, <2>2
  <1>11. B = {s[i] : i \in 0 .. n}
    <2> DEFINE C == {s[i] : i \in 0 .. n}
    <2>1. C \in SUBSET B /\ C # {}
      BY <1>5
    <2>2. ASSUME NEW a \in C PROVE g.next[a] \in C
      <3>1. PICK i \in 0 .. n : a = s[i]
        BY <2>2
      <3>2. CASE i = n
        BY <1>6, <1>8, <3>1, <3>2
      <3>3. CASE i # n
        <4>1. g.next[a] = s[i + 1] /\ i + 1 \in 0 .. n
          BY <1>6, <3>1, <3>3
        <4>. QED
          BY <4>1
      <3>. QED
        BY <3>2, <3>3
    <2>. HIDE DEF C
    <2>. QED
      BY <2>1, <2>2, CircleClosed DEF C
  <1>12. Round(g, B, s, n)
    BY <1>1, <1>5, <1>6, <1>8, <1>10, <1>11 DEF Round
  <1>. QED
    BY <1>12

-----------------------------------------------------------------------------
(* Giving back.  While a block is put in, the blocks S may touch the next.  *)

IsRing(g, B, S) ==
    /\ g = [units |-> g.units, next |-> g.next, slobfree |-> g.slobfree]
    /\ g.units \in [Addrs -> Nat] /\ g.next \in [Addrs -> Addrs]
    /\ B \in SUBSET Addrs /\ arena \in B /\ g.slobfree \in B
    /\ g.units[arena] = 1
    /\ \A a \in B : g.units[a] # 0 /\ a + g.units[a] <= Top
    /\ \A a, b \in B : a < b => a + g.units[a] <= b /\ (a \in S \/ a + g.units[a] < b)
    /\ \A a \in B : IsNext(B, a, g.next[a])

LEMMA RingCircle ==
    ASSUME NEW g, NEW B
    PROVE  IsRing(g, B, {}) <=> IsCircle(g, B)
  <1>1. ASSUME B \in SUBSET Addrs, g.units \in [Addrs -> Nat]
        PROVE  \A a, b \in B : a + g.units[a] < b => a + g.units[a] <= b
    <2>1. \A a \in B : a \in Int /\ g.units[a] \in Nat
      BY <1>1, AddrProps
    <2>. QED
      BY <2>1
  <1>2. IsRing(g, B, {}) => IsCircle(g, B)
    BY Zenon DEF IsRing, IsCircle
  <1>3. IsCircle(g, B) => IsRing(g, B, {})
    BY <1>1, Zenon DEF IsRing, IsCircle
  <1>. QED
    BY <1>2, <1>3

\* The numbers in a ring.
LEMMA RingProps ==
    ASSUME NEW g, NEW B, NEW S, IsRing(g, B, S)
    PROVE  /\ \A a \in B : /\ a \in Int /\ a \in Addrs /\ arena <= a /\ g.units[a] \in Nat \ {0}
                           /\ a + g.units[a] <= Top /\ g.next[a] \in B /\ IsNext(B, a, g.next[a])
                           /\ a # arena => a \in Nat /\ a \in Units
           /\ \A a, b \in B : a < b => a + g.units[a] <= b /\ (a \in S \/ a + g.units[a] < b)
           /\ arena \in B
  BY AddrProps DEF IsRing, IsNext

\* A block absorbs the one behind it, if they touch.
Absorbed(g, B, S, a, t, C) ==
    /\ IsRing(t, C, S \ {a})
    /\ C \in SUBSET B /\ a \in C /\ t.slobfree = g.slobfree
    /\ FreeUnits(t, C) = FreeUnits(g, B)
    /\ \A x \in Addrs : x \notin FreeUnits(g, B) => t.units[x] = g.units[x]
    /\ \A x \in C : x # a => t.next[x] = g.next[x]
    /\ \A x \in B \ C : x = a + g.units[a]

LEMMA AbsorbNone ==
    ASSUME NEW g, NEW B, NEW S, IsRing(g, B, S), NEW a \in B, a + g.units[a] # g.next[a]
    PROVE  Absorbed(g, B, S, a, JoinNext(g, a), B)
  <1>1. JoinNext(g, a) = g
    BY DEF JoinNext
  <1>2. ASSUME NEW y \in B, a < y PROVE a + g.units[a] < y
    <2>1. a + g.units[a] <= y /\ IsNext(B, a, g.next[a]) /\ g.next[a] \in B
      BY <1>2, RingProps
    <2>2. a < g.next[a] /\ g.next[a] <= y
      BY <1>2, <2>1, RingProps DEF IsNext
    <2>3. a + g.units[a] <= g.next[a]
      BY <2>1, <2>2, RingProps
    <2>. QED
      BY <2>1, <2>2, <2>3, RingProps
  <1>3. \A x, y \in B : x < y => x \in S \ {a} \/ x + g.units[x] < y
    BY <1>2, RingProps
  <1>4. IsRing(g, B, S \ {a})
    BY <1>3, Zenon DEF IsRing
  <1>. QED
    BY <1>1, <1>4, Zenon DEF Absorbed

LEMMA AbsorbOne ==
    ASSUME NEW g, NEW B, NEW S, IsRing(g, B, S), NEW a \in B, NEW c, c = g.next[a], a + g.units[a] = c,
           c \notin S, c # g.slobfree
    PROVE  Absorbed(g, B, S, a, JoinNext(g, a), B \ {c})
  <1> DEFINE t == JoinNext(g, a)
             C == B \ {c}
  <1>1. a \in Int /\ c \in B /\ c \in Int /\ a < c /\ c # arena /\ g.units[a] \in Nat \ {0} /\ g.units[c] \in Nat \ {0}
    BY RingProps, AddrProps
  <1>2. t = Clear([g EXCEPT !.units[a] = @ + g.units[c], !.next[a] = g.next[c]], c)
    BY DEF JoinNext
  <1>3. /\ g = [units |-> g.units, next |-> g.next, slobfree |-> g.slobfree]
        /\ g.units \in [Addrs -> Nat] /\ g.next \in [Addrs -> Addrs] /\ B \in SUBSET Addrs
        /\ arena \in B /\ g.slobfree \in B /\ g.units[arena] = 1
    BY DEF IsRing
  <1>4. a \in Addrs /\ c \in Addrs /\ a # c /\ arena \in Addrs /\ g.units[a] + g.units[c] \in Nat /\ g.next[c] \in Addrs
    BY <1>1, <1>3, AddrProps
  <1>5. /\ t = [units |-> [g.units EXCEPT ![a] = g.units[a] + g.units[c], ![c] = 0],
                next |-> [g.next EXCEPT ![a] = g.next[c], ![c] = arena], slobfree |-> g.slobfree]
    BY <1>2, <1>3, <1>4 DEF Clear
  <1>. HIDE DEF t
  <1>6. /\ t = [units |-> t.units, next |-> t.next, slobfree |-> t.slobfree] /\ t.slobfree = g.slobfree
        /\ t.units \in [Addrs -> Nat] /\ t.next \in [Addrs -> Addrs]
        /\ t.units[a] = g.units[a] + g.units[c] /\ t.next[a] = g.next[c]
        /\ \A x \in Addrs : x # a /\ x # c => t.units[x] = g.units[x] /\ t.next[x] = g.next[x]
    BY <1>3, <1>4, <1>5
  <1>7. a # arena
    <2>1. SUFFICES ASSUME a = arena PROVE FALSE
      OBVIOUS
    <2>2. c = -1
      BY <1>3, <2>1, AddrProps
    <2>. QED
      BY <1>1, <2>2, RingProps
  <1>8. ASSUME NEW y \in C, a < y PROVE c + g.units[c] < y
    <2>1. IsNext(B, a, c) /\ y \in B /\ y \in Int
      BY RingProps
    <2>2. c < y
      BY <1>1, <1>8, <2>1, AddrProps DEF IsNext
    <2>. QED
      BY <1>1, <2>1, <2>2, RingProps
  <1>9. ASSUME NEW x \in C, NEW y \in C, x < y
        PROVE  x + t.units[x] <= y /\ (x \in S \ {a} \/ x + t.units[x] < y)
    <2>1. CASE x = a
      <3>1. c + g.units[c] < y /\ x + t.units[x] = c + g.units[c] /\ y \in Int
        BY <1>1, <1>6, <1>8, <1>9, <2>1, RingProps
      <3>. QED
        BY <1>1, <3>1
    <2>2. CASE x # a
      <3>1. t.units[x] = g.units[x]
        BY <1>3, <1>6, <2>2
      <3>. QED
        BY <1>9, <2>2, <3>1, RingProps
    <2>. QED
      BY <2>1, <2>2
  <1>10. ASSUME NEW x \in C PROVE IsNext(C, x, t.next[x])
    <2>1. CASE x = a
      <3>1. IsNext(B, c, g.next[c]) /\ IsNext(B, a, c) /\ g.next[c] \in B
        BY <1>1, RingProps
      <3>2. g.next[c] # c
        BY <1>1, <3>1, AddrProps DEF IsNext
      <3>3. ASSUME c < g.next[c] PROVE a < g.next[c] /\ \A b \in C : b <= a \/ g.next[c] <= b
        BY <1>1, <3>1, <3>3, RingProps DEF IsNext
      <3>4. ASSUME g.next[c] = arena, \A b \in B : b <= c PROVE \A b \in C : b <= a
        BY <1>1, <3>1, <3>4, RingProps DEF IsNext
      <3>. QED
        BY <1>6, <2>1, <3>1, <3>2, <3>3, <3>4 DEF IsNext
    <2>2. CASE x # a
      <3>1. t.next[x] = g.next[x] /\ IsNext(B, x, g.next[x])
        BY <1>3, <1>6, <2>2, RingProps
      <3>2. g.next[x] # c
        <4>1. SUFFICES ASSUME IsNext(B, x, c), IsNext(B, a, c), c # arena PROVE FALSE
          BY <1>1, <3>1, RingProps
        <4>2. x < c /\ a < c /\ x \in B /\ x \in Int
          BY <4>1, RingProps DEF IsNext
        <4>3. (a <= x \/ c <= a) /\ (x <= a \/ c <= x)
          BY <1>1, <4>1, <4>2 DEF IsNext
        <4>. QED
          BY <1>1, <2>2, <4>2, <4>3
      <3>. QED
        BY <3>1, <3>2 DEF IsNext
    <2>. QED
      BY <2>1, <2>2
  <1>11. \A x \in C : t.units[x] # 0 /\ x + t.units[x] <= Top
    <2>1. t.units[a] # 0 /\ a + t.units[a] = c + g.units[c]
      BY <1>1, <1>6
    <2>2. \A x \in C : x # a => t.units[x] = g.units[x]
      BY <1>3, <1>6
    <2>. QED
      BY <1>1, <2>1, <2>2, RingProps
  <1>12. arena \in C /\ t.slobfree \in C /\ t.units[arena] = 1 /\ C \in SUBSET Addrs
    BY <1>1, <1>3, <1>4, <1>6, <1>7
  <1>13. IsRing(t, C, S \ {a})
    BY <1>6, <1>9, <1>10, <1>11, <1>12 DEF IsRing
  <1>14. FreeUnits(t, C) = FreeUnits(g, B)
    <2>1. ASSUME NEW u \in Units, NEW x \in C, x <= u, u < x + t.units[x]
          PROVE  \E b \in B : b <= u /\ u < b + g.units[b]
      <3>1. CASE x = a
        <4>1. u \in Nat
          BY AddrProps
        <4>2. CASE u < c
          BY <1>1, <2>1, <3>1, <4>2
        <4>3. CASE ~(u < c)
          BY <1>1, <1>6, <2>1, <3>1, <4>1, <4>3
        <4>. QED
          BY <4>2, <4>3
      <3>2. CASE x # a
        <4>1. t.units[x] = g.units[x]
          BY <1>3, <1>6, <3>2
        <4>. QED
          BY <2>1, <4>1
      <3>. QED
        BY <3>1, <3>2
    <2>2. ASSUME NEW u \in Units, NEW b \in B, b <= u, u < b + g.units[b]
          PROVE  \E x \in C : x <= u /\ u < x + t.units[x]
      <3>1. u \in Nat
        BY AddrProps
      <3>2. CASE b = a \/ b = c
        <4>1. a <= u /\ u < a + t.units[a]
          BY <1>1, <1>6, <2>2, <3>1, <3>2
        <4>. QED
          BY <1>1, <4>1
      <3>3. CASE b # a /\ b # c
        <4>1. t.units[b] = g.units[b] /\ b \in C
          BY <1>3, <1>6, <3>3
        <4>. QED
          BY <2>2, <4>1
      <3>. QED
        BY <3>2, <3>3
    <2>. QED
      BY <2>1, <2>2 DEF FreeUnits
  <1>15. ASSUME NEW x \in Addrs, x \notin FreeUnits(g, B) PROVE t.units[x] = g.units[x]
    <2>1. a \in FreeUnits(g, B) /\ c \in FreeUnits(g, B)
      <3>1. a \in Units /\ c \in Units
        BY <1>1, <1>7, RingProps
      <3>2. a <= a /\ a < a + g.units[a] /\ c <= c /\ c < c + g.units[c]
        BY <1>1
      <3>. QED
        BY <1>1, <3>1, <3>2 DEF FreeUnits
    <2>. QED
      BY <1>6, <1>15, <2>1
  <1>16. \A x \in C : x # a => t.next[x] = g.next[x]
    BY <1>3, <1>6
  <1>17. a \in C
    BY <1>1
  <1>18. C \in SUBSET B /\ \A x \in B \ C : x = a + g.units[a]
    OBVIOUS
  <1>19. t = JoinNext(g, a)
    BY DEF t
  <1>. HIDE DEF C
  <1>20. Absorbed(g, B, S, a, t, C)
    BY <1>6, <1>13, <1>14, <1>15, <1>16, <1>17, <1>18, Zenon DEF Absorbed
  <1>. QED
    BY <1>19, <1>20 DEF C

\* p is the block of B before the new block b.
Precedes(B, p, b) == p \in B /\ p < b /\ \A x \in B : x <= p \/ b < x

LEMMA InsertionPrecedes ==
    ASSUME NEW g, NEW B, IsCircle(g, B), NEW b \in Units, b \notin B
    PROVE  Precedes(B, Insertion(g, b), b)
  <1>1. PICK s, n : Round(g, B, s, n)
    BY SearchRound
  <1>2. /\ n \in Nat /\ Search(g) = [i \in 0 .. n |-> s[i]] /\ B = {s[i] : i \in 0 .. n}
        /\ s[0] = g.next[g.slobfree] /\ s[n] = g.slobfree /\ \A i \in Nat : s[i] \in B /\ s[i + 1] = g.next[s[i]]
    BY <1>1 DEF Round
  <1>3. Cardinality(DOMAIN Search(g)) = n + 1
    <2>1. DOMAIN Search(g) = 0 .. n
      BY <1>2
    <2>. QED
      BY <1>2, <2>1, FS_Interval
  <1> DEFINE c == [i \in 0 .. (n + 1) |-> IF i = 0 THEN g.slobfree ELSE Search(g)[i - 1]]
             Here(cur) == \/ b > cur /\ b < g.next[cur]
                          \/ cur >= g.next[cur] /\ (b > cur \/ b < g.next[cur])
             i == CHOOSE j \in 0 .. (n + 1) : Here(c[j]) /\ \A k \in 0 .. (j - 1) : ~Here(c[k])
  <1>4. Insertion(g, b) = c[i]
    BY <1>3, Zenon DEF Insertion
  <1>5. \A j \in 0 .. (n + 1) : c[j] \in B
    <2>1. c[0] \in B
      BY <1>2
    <2>2. ASSUME NEW j \in 0 .. (n + 1), j # 0 PROVE c[j] \in B
      <3>0. n \in Nat
        BY <1>2
      <3>1. j - 1 \in 0 .. n /\ j - 1 \in Nat
        BY <2>2, <3>0
      <3>2. c[j] = s[j - 1]
        BY <1>2, <2>2, <3>1
      <3>3. \A k \in Nat : s[k] \in B
        BY <1>2
      <3>4. s[j - 1] \in B
        BY <3>1, <3>3, Zenon
      <3>. QED
        BY <3>2, <3>4, Zenon
    <2>. QED
      BY <2>1, <2>2
  <1>6. \A x \in B : \E j \in 0 .. (n + 1) : c[j] = x
    <2> SUFFICES ASSUME NEW x \in B PROVE \E j \in 0 .. (n + 1) : c[j] = x
      OBVIOUS
    <2>1. PICK k \in 0 .. n : x = s[k]
      BY <1>2
    <2>2. k + 1 \in 0 .. (n + 1) /\ (k + 1) - 1 = k /\ k + 1 # 0
      BY <1>2
    <2>3. c[k + 1] = x
      BY <1>2, <2>1, <2>2
    <2>. QED
      BY <2>2, <2>3
  <1>7. IsRing(g, B, {}) /\ b \in Int /\ 0 <= b
    BY RingCircle, AddrProps
  <1>8. B \in SUBSET Addrs
    BY DEF IsCircle
  <1>. HIDE DEF c
  <1>9. \E p \in B : Precedes(B, p, b) /\ Here(p)
    <2> DEFINE L == {x \in B : x < b}
    <2>1. arena \in L /\ L \in SUBSET Addrs
      BY <1>7, <1>8, RingProps, AddrProps
    <2>2. PICK p \in L : \A x \in L : x <= p
      BY <2>1, IntMax
    <2>3. Precedes(B, p, b)
      <3>1. \A x \in B : x \in Int /\ x # b
        BY <1>7, RingProps
      <3>. QED
        BY <1>7, <2>2, <3>1 DEF Precedes
    <2>4. IsNext(B, p, g.next[p]) /\ p \in B /\ p \in Int /\ g.next[p] \in B /\ g.next[p] \in Int /\ arena <= p
      BY <1>7, <2>2, RingProps
    <2>5. Here(p)
      <3>1. CASE p < g.next[p]
        BY <1>7, <2>3, <2>4, <3>1 DEF Precedes
      <3>2. CASE g.next[p] = arena
        BY <1>7, <2>3, <2>4, <3>2 DEF Precedes
      <3>. QED
        BY <2>4, <3>1, <3>2 DEF IsNext
    <2>. QED
      BY <2>3, <2>4, <2>5
  <1>10. ASSUME NEW p \in B, Here(p) PROVE Precedes(B, p, b)
    <2>1. IsNext(B, p, g.next[p]) /\ p \in Int /\ g.next[p] \in B /\ g.next[p] \in Int
      BY <1>7, RingProps
    <2>2. \A x \in B : x \in Int /\ arena <= x
      BY <1>7, RingProps
    <2>. QED
      BY <1>7, <1>10, <2>1, <2>2, AddrProps DEF IsNext, Precedes
  <1>11. \E j \in 0 .. (n + 1) : Here(c[j]) /\ \A k \in 0 .. (j - 1) : ~Here(c[k])
    <2> DEFINE T == {j \in 0 .. (n + 1) : Here(c[j])}
    <2>. HIDE DEF Here
    <2>1. T \in SUBSET Nat /\ T # {}
      BY <1>6, <1>9
    <2>2. PICK j \in T : \A k \in T : j <= k
      BY <2>1, NatMin
    <2>3. ASSUME NEW k \in 0 .. (j - 1) PROVE ~Here(c[k])
      <3>1. k \in 0 .. (n + 1) /\ ~(j <= k)
        BY <1>2, <2>1, <2>2
      <3>. QED
        BY <2>2, <3>1
    <2>. QED
      BY <2>2, <2>3
  <1>. HIDE DEF Here
  <1>12. i \in 0 .. (n + 1) /\ Here(c[i])
    BY <1>11
  <1>. HIDE DEF i
  <1>. QED
    BY <1>4, <1>5, <1>10, <1>12

\* The new block put in, n units of it.
PutIn(g, b, n) ==
    [g EXCEPT !.units[b] = n, !.next[b] = g.next[Insertion(g, b)], !.next[Insertion(g, b)] = b,
              !.slobfree = Insertion(g, b)]

Span(b, n) == b .. (b + n - 1)

IsPutIn(g, B, b, n, p, t) ==
    /\ IsRing(t, B \cup {b}, {p, b}) /\ b \notin B /\ p \in B /\ p < b /\ t.slobfree = p /\ t.next[p] = b
    /\ FreeUnits(t, B \cup {b}) = FreeUnits(g, B) \cup Span(b, n)
    /\ \A x \in Addrs : x # b => t.units[x] = g.units[x]

LEMMA PutInRing ==
    ASSUME NEW g, NEW B, IsCircle(g, B), NEW b, NEW n \in Nat \ {0}, Span(b, n) \in SUBSET Units, b \in Units,
           Span(b, n) \cap FreeUnits(g, B) = {}, NEW p, p = Insertion(g, b), NEW t, t = PutIn(g, b, n)
    PROVE  IsPutIn(g, B, b, n, p, t)
  <1> DEFINE C == B \cup {b}
  <1>1. IsRing(g, B, {})
    BY RingCircle
  <1>2. b \in Int /\ 0 <= b /\ b \in Addrs /\ b # arena
    BY AddrProps
  <1>3. ASSUME NEW x \in B, x # arena PROVE x \in FreeUnits(g, B)
    BY <1>1, <1>3, RingProps DEF FreeUnits
  <1>4. \A x \in B : x # arena => x < b \/ b + n <= x
    <2> SUFFICES ASSUME NEW x \in B, x # arena PROVE x < b \/ b + n <= x
      OBVIOUS
    <2>1. x \notin Span(b, n) /\ x \in Int
      BY <1>1, <1>3, RingProps
    <2>. QED
      BY <1>2, <2>1 DEF Span
  <1>5. b \notin B
    BY <1>2, <1>4
  <1>6. Precedes(B, p, b)
    BY <1>5, InsertionPrecedes
  <1>7. p \in B /\ p < b /\ p \in Int /\ p \in Addrs /\ p # b /\ \A x \in B : x <= p \/ b < x
    BY <1>1, <1>2, <1>5, <1>6, RingProps DEF Precedes
  <1>8. /\ g = [units |-> g.units, next |-> g.next, slobfree |-> g.slobfree]
        /\ g.units \in [Addrs -> Nat] /\ g.next \in [Addrs -> Addrs] /\ B \in SUBSET Addrs
        /\ arena \in B /\ g.slobfree \in B /\ g.units[arena] = 1 /\ g.next[p] \in Addrs
    BY <1>7 DEF IsCircle
  <1>9. t = [units |-> [g.units EXCEPT ![b] = n],
             next |-> [g.next EXCEPT ![b] = g.next[p], ![p] = b], slobfree |-> p]
    BY <1>2, <1>7, <1>8 DEF PutIn
  <1>10. /\ t = [units |-> t.units, next |-> t.next, slobfree |-> t.slobfree] /\ t.slobfree = p
         /\ t.units \in [Addrs -> Nat] /\ t.next \in [Addrs -> Addrs]
         /\ t.units[b] = n /\ t.next[b] = g.next[p] /\ t.next[p] = b
         /\ \A x \in Addrs : x # b => t.units[x] = g.units[x]
         /\ \A x \in Addrs : x # b /\ x # p => t.next[x] = g.next[x]
    BY <1>2, <1>7, <1>8, <1>9
  <1>11. b + n <= Top
    <2>1. b + n - 1 \in Units
      BY <1>2 DEF Span
    <2>. QED
      BY <1>2, <2>1, AddrProps
  <1>12. \A x \in B : x # b /\ x \in Addrs
    BY <1>5, <1>8
  <1>13. p + g.units[p] <= b
    <2>1. CASE p = arena
      BY <1>2, <1>8, <2>1, AddrProps
    <2>2. CASE p # arena
      <3>1. b \notin FreeUnits(g, B)
        BY <1>2 DEF Span
      <3>2. g.units[p] \in Nat
        BY <1>1, <1>7, RingProps
      <3>. QED
        BY <1>2, <1>7, <2>2, <3>1, <3>2 DEF FreeUnits
    <2>. QED
      BY <2>1, <2>2
  <1>14. ASSUME NEW x \in C, NEW y \in C, x < y
         PROVE  x + t.units[x] <= y /\ (x \in {p, b} \/ x + t.units[x] < y)
    <2>1. CASE x = b
      <3>1. y \in B /\ y # arena
        BY <1>2, <1>14, <2>1, AddrProps
      <3>2. y \in Int /\ b + n <= y
        BY <1>1, <1>2, <1>4, <1>14, <2>1, <3>1, RingProps
      <3>. QED
        BY <1>10, <2>1, <3>2
    <2>2. CASE x # b /\ y = b
      <3>1. x \in B /\ x \in Int /\ x <= p /\ t.units[x] = g.units[x] /\ g.units[x] \in Nat
        BY <1>1, <1>2, <1>7, <1>10, <1>12, <1>14, <2>2, RingProps
      <3>2. CASE x = p
        BY <1>13, <2>2, <3>1, <3>2
      <3>3. CASE x # p
        <4>1. x < p /\ x + g.units[x] < p
          BY <1>1, <1>7, <3>1, <3>3, RingProps
        <4>. QED
          BY <1>2, <1>7, <2>2, <3>1, <4>1
      <3>. QED
        BY <3>2, <3>3
    <2>3. CASE x # b /\ y # b
      <3>1. x \in B /\ y \in B /\ t.units[x] = g.units[x]
        BY <1>10, <1>12, <2>3
      <3>. QED
        BY <1>1, <1>14, <3>1, RingProps
    <2>. QED
      BY <2>1, <2>2, <2>3
  <1>15. ASSUME NEW x \in C PROVE IsNext(C, x, t.next[x])
    <2>1. CASE x = p
      BY <1>1, <1>2, <1>7, <1>10, <2>1, RingProps DEF IsNext
    <2>2. CASE x = b
      <3>1. IsNext(B, p, g.next[p]) /\ g.next[p] \in B /\ g.next[p] \in Int
        BY <1>1, <1>7, RingProps
      <3>2. CASE p < g.next[p]
        BY <1>1, <1>2, <1>7, <1>10, <2>2, <3>1, <3>2, RingProps DEF IsNext
      <3>3. CASE g.next[p] = arena
        BY <1>1, <1>2, <1>7, <1>10, <2>2, <3>1, <3>3, RingProps DEF IsNext
      <3>. QED
        BY <3>1, <3>2, <3>3 DEF IsNext
    <2>3. CASE x # p /\ x # b
      <3>1. x \in B /\ t.next[x] = g.next[x] /\ IsNext(B, x, g.next[x]) /\ x \in Int /\ g.next[x] \in B /\ g.next[x] \in Int
        BY <1>1, <1>10, <1>12, <2>3, RingProps
      <3>2. CASE x < g.next[x] /\ \A y \in B : y <= x \/ g.next[x] <= y
        <4>1. b <= x \/ g.next[x] <= b
          BY <1>2, <1>7, <2>3, <3>1, <3>2
        <4>. QED
          BY <3>1, <3>2, <4>1 DEF IsNext
      <3>3. CASE g.next[x] = arena /\ \A y \in B : y <= x
        BY <1>2, <1>7, <2>3, <3>1, <3>3 DEF IsNext
      <3>. QED
        BY <3>1, <3>2, <3>3 DEF IsNext
    <2>. QED
      BY <2>1, <2>2, <2>3
  <1>16. \A x \in C : t.units[x] # 0 /\ x + t.units[x] <= Top
    BY <1>1, <1>10, <1>11, <1>12, RingProps
  <1>17. arena \in C /\ t.slobfree \in C /\ t.units[arena] = 1 /\ C \in SUBSET Addrs
    BY <1>2, <1>7, <1>8, <1>10, AddrProps
  <1>18. IsRing(t, C, {p, b})
    BY <1>10, <1>14, <1>15, <1>16, <1>17, Zenon DEF IsRing
  <1>19. FreeUnits(t, C) = FreeUnits(g, B) \cup Span(b, n)
    <2>1. \A x \in B : t.units[x] = g.units[x]
      BY <1>10, <1>12
    <2>2. \A u \in Units : u \in Span(b, n) <=> b <= u /\ u < b + t.units[b]
      BY <1>2, <1>10, AddrProps DEF Span
    <2>. QED
      BY <2>1, <2>2 DEF FreeUnits
  <1>. QED
    BY <1>5, <1>7, <1>10, <1>18, <1>19, Zenon DEF IsPutIn

\* The heap t, of blocks C, has the units X back.
Freed(g, B, t, C, X) ==
    /\ IsCircle(t, C) /\ FreeUnits(t, C) = FreeUnits(g, B) \cup X
    /\ \A x \in Addrs : x \notin FreeUnits(t, C) => t.units[x] = g.units[x]

\* Joining with the block in front is joining that one with the block behind it.
LEMMA JoinSame ==
    ASSUME NEW g, NEW a, NEW c, c = g.next[a]
    PROVE  JoinPrev(g, a, c) = JoinNext(g, a)
  <1>1. JoinPrev(g, a, g.next[a]) = JoinNext(g, a)
    BY DEF JoinPrev, JoinNext
  <1>. QED
    BY <1>1, Zenon

LEMMA SlobFree ==
    ASSUME NEW g, NEW B, IsCircle(g, B), NEW b, NEW n \in Nat \ {0}, Span(b, n) \in SUBSET Units, b \in Units,
           Span(b, n) \cap FreeUnits(g, B) = {}
    PROVE  \E C : Freed(g, B, slob_free(g, b, n), C, Span(b, n))
  <1>1. PICK p, t, u : p = Insertion(g, b) /\ t = PutIn(g, b, n) /\ u = JoinNext(t, b)
    OBVIOUS
  <1>2. slob_free(g, b, n) = JoinPrev(u, p, b)
    BY <1>1, Zenon DEF slob_free, PutIn
  <1> DEFINE D == B \cup {b}
  <1>3. /\ IsRing(t, D, {p, b}) /\ b \notin B /\ p \in B /\ p < b /\ t.slobfree = p /\ t.next[p] = b
        /\ FreeUnits(t, D) = FreeUnits(g, B) \cup Span(b, n)
        /\ \A x \in Addrs : x # b => t.units[x] = g.units[x]
    <2>1. p = Insertion(g, b) /\ t = PutIn(g, b, n)
      BY <1>1
    <2>2. IsPutIn(g, B, b, n, p, t)
      BY <2>1, PutInRing, Zenon
    <2>. QED
      BY <2>2, Zenon DEF IsPutIn
  <1>4. b \in Int /\ p \in Int /\ b \in D /\ p \in D /\ b # p /\ p \in Addrs
    BY <1>3, RingProps
  <1>. HIDE DEF D
  <1>5. \E E : Absorbed(t, D, {p, b}, b, u, E) /\ p \in E
    <2>1. CASE b + t.units[b] # t.next[b]
      BY <1>1, <1>3, <1>4, <2>1, AbsorbNone
    <2>2. CASE b + t.units[b] = t.next[b]
      <3>1. t.units[b] \in Nat \ {0}
        BY <1>3, <1>4, RingProps
      <3>2. b < t.next[b]
        BY <1>4, <2>2, <3>1
      <3>3. t.next[b] \notin {p, b} /\ t.next[b] # t.slobfree
        BY <1>3, <1>4, <3>2
      <3>4. Absorbed(t, D, {p, b}, b, u, D \ {t.next[b]})
        BY <1>1, <1>3, <1>4, <2>2, <3>3, AbsorbOne
      <3>. QED
        BY <1>4, <3>3, <3>4
    <2>. QED
      BY <2>1, <2>2
  <1>6. PICK E : Absorbed(t, D, {p, b}, b, u, E) /\ p \in E
    BY <1>5
  <1>7. /\ IsRing(u, E, {p, b} \ {b}) /\ b \in E /\ u.slobfree = t.slobfree
        /\ FreeUnits(u, E) = FreeUnits(t, D) /\ E \in SUBSET D
        /\ \A x \in Addrs : x \notin FreeUnits(t, D) => u.units[x] = t.units[x]
        /\ \A x \in E : x # b => u.next[x] = t.next[x]
    BY <1>6, Zenon DEF Absorbed
  <1>8. u.next[p] = b /\ {p, b} \ {b} = {p} /\ {p} \ {p} = {}
    BY <1>3, <1>4, <1>6, <1>7
  <1>9. JoinPrev(u, p, b) = JoinNext(u, p)
    BY <1>8, JoinSame
  <1>10. \E C : Absorbed(u, E, {p}, p, JoinNext(u, p), C)
    <2>1. CASE p + u.units[p] # u.next[p]
      BY <1>6, <1>7, <1>8, <2>1, AbsorbNone
    <2>2. CASE p + u.units[p] = u.next[p]
      <3>1. b \notin {p} /\ b # u.slobfree
        BY <1>3, <1>4, <1>7
      <3>2. IsRing(u, E, {p})
        BY <1>7, <1>8
      <3>3. Absorbed(u, E, {p}, p, JoinNext(u, p), E \ {b})
        BY <1>6, <1>8, <2>2, <3>1, <3>2, AbsorbOne
      <3>. QED
        BY <3>3
    <2>. QED
      BY <2>1, <2>2
  <1>11. PICK C : Absorbed(u, E, {p}, p, JoinNext(u, p), C)
    BY <1>10
  <1>12. PICK v : v = JoinNext(u, p)
    OBVIOUS
  <1>13. /\ IsRing(v, C, {p} \ {p}) /\ FreeUnits(v, C) = FreeUnits(u, E)
         /\ \A x \in Addrs : x \notin FreeUnits(u, E) => v.units[x] = u.units[x]
    BY <1>11, <1>12, Zenon DEF Absorbed
  <1>14. IsCircle(v, C)
    BY <1>8, <1>13, RingCircle
  <1>15. FreeUnits(v, C) = FreeUnits(g, B) \cup Span(b, n)
    BY <1>3, <1>7, <1>13
  <1>16. b \in FreeUnits(v, C)
    <2>1. b \in Span(b, n)
      BY <1>4 DEF Span
    <2>. QED
      BY <1>15, <2>1
  <1>17. \A x \in Addrs : x \notin FreeUnits(v, C) => v.units[x] = g.units[x]
    BY <1>3, <1>7, <1>13, <1>16
  <1>18. Freed(g, B, v, C, Span(b, n))
    BY <1>14, <1>15, <1>17, Zenon DEF Freed
  <1>. QED
    BY <1>2, <1>9, <1>12, <1>18

-----------------------------------------------------------------------------
(* Handing out.                                                             *)

LEMMA RoomIn ==
    ASSUME NEW g, NEW B, IsCircle(g, B), NEW n \in Nat
    PROVE  Room(g, n) # {} <=> \E a \in B : g.units[a] >= n
  <1>1. PICK s, m : Round(g, B, s, m)
    BY SearchRound
  <1>2. m \in Nat /\ Search(g) = [i \in 0 .. m |-> s[i]] /\ B = {s[i] : i \in 0 .. m}
    BY <1>1 DEF Round
  <1>3. DOMAIN Search(g) = 0 .. m /\ \A i \in 0 .. m : Search(g)[i] = s[i]
    BY <1>2
  <1>4. ASSUME NEW i \in Room(g, n) PROVE \E a \in B : g.units[a] >= n
    <2>1. i \in 0 .. m /\ g.units[s[i]] >= n
      BY <1>3 DEF Room
    <2>. QED
      BY <1>2, <2>1
  <1>5. ASSUME NEW a \in B, g.units[a] >= n PROVE Room(g, n) # {}
    <2>1. PICK i \in 0 .. m : a = s[i]
      BY <1>2
    <2>2. i \in Room(g, n)
      BY <1>3, <1>5, <2>1 DEF Room
    <2>. QED
      BY <2>2
  <1>. QED
    BY <1>4, <1>5

\* The block cur, behind prev, gives n units.
Taken(g, prev, cur, n) ==
    IF g.units[cur] = n
    THEN [g EXCEPT !.next[prev] = g.next[cur], !.next[cur] = arena, !.slobfree = prev]
    ELSE [units |-> [g.units EXCEPT ![cur + n] = g.units[cur] - n, ![cur] = n],
          next  |-> [g.next EXCEPT ![prev] = cur + n, ![cur + n] = g.next[cur], ![cur] = arena],
          slobfree |-> prev]

LEMMA CarveTaken ==
    ASSUME NEW g, NEW B, IsCircle(g, B), NEW n \in Nat, Room(g, n) # {}
    PROVE  \E prev, cur \in B : /\ g.units[cur] >= n /\ g.next[prev] = cur
                                /\ Carve(g, n) = [block |-> cur, heap |-> Taken(g, prev, cur, n)]
  <1>1. PICK s, m : Round(g, B, s, m)
    BY SearchRound
  <1>2. /\ m \in Nat /\ Search(g) = [i \in 0 .. m |-> s[i]]
        /\ s[0] = g.next[g.slobfree] /\ \A i \in Nat : s[i] \in B /\ s[i + 1] = g.next[s[i]]
    BY <1>1 DEF Round
  <1>3. DOMAIN Search(g) = 0 .. m /\ \A i \in 0 .. m : Search(g)[i] = s[i]
    BY <1>2
  <1>4. Room(g, n) \in SUBSET Nat
    BY <1>2, <1>3 DEF Room
  <1> DEFINE i == CHOOSE j \in Room(g, n) : \A k \in Room(g, n) : j <= k
  <1>5. i \in Room(g, n)
    BY <1>4, NatMin
  <1> DEFINE cur == Search(g)[i]
             prev == IF i = 0 THEN g.slobfree ELSE Search(g)[i - 1]
  <1>6. Carve(g, n) = [block |-> cur, heap |-> Taken(g, prev, cur, n)]
    BY Zenon DEF Carve, Taken
  <1>. HIDE DEF i
  <1>7. i \in 0 .. m /\ i \in Nat /\ g.units[cur] >= n /\ cur = s[i] /\ cur \in B
    BY <1>2, <1>3, <1>4, <1>5 DEF Room
  <1>8. prev \in B /\ g.next[prev] = cur
    <2>1. CASE i = 0
      BY <1>2, <1>7, <2>1 DEF IsCircle
    <2>2. CASE i # 0
      <3>1. i - 1 \in 0 .. m /\ i - 1 \in Nat /\ (i - 1) + 1 = i
        BY <1>2, <1>7, <2>2
      <3>2. prev = s[i - 1]
        BY <1>3, <2>2, <3>1
      <3>. QED
        BY <1>2, <1>7, <3>1, <3>2
    <2>. QED
      BY <2>1, <2>2
  <1>. HIDE DEF cur, prev
  <1>. QED
    BY <1>6, <1>7, <1>8

\* The heap t, of blocks C, has given the n units from cur.
Gave(g, B, t, C, cur, n) ==
    /\ cur \in Units /\ Span(cur, n) \in SUBSET FreeUnits(g, B)
    /\ IsCircle(t, C) /\ FreeUnits(t, C) = FreeUnits(g, B) \ Span(cur, n)
    /\ t.units[cur] = n
    /\ \A x \in Addrs : x \notin FreeUnits(g, B) => t.units[x] = g.units[x]

\* The units of a block.
LEMMA BlockSpan ==
    ASSUME NEW g, NEW B, IsCircle(g, B), NEW cur \in B, cur # arena
    PROVE  /\ Span(cur, g.units[cur]) \in SUBSET FreeUnits(g, B)
           /\ cur \in Units /\ \A u : u \in Span(cur, g.units[cur]) <=> u \in Units /\ cur <= u /\ u < cur + g.units[cur]
  <1>1. IsRing(g, B, {})
    BY RingCircle
  <1>2. cur \in Nat /\ cur \in Units /\ g.units[cur] \in Nat \ {0} /\ cur + g.units[cur] <= Top
    BY <1>1, RingProps
  <1>3. \A u : u \in Span(cur, g.units[cur]) <=> u \in Units /\ cur <= u /\ u < cur + g.units[cur]
    BY <1>2, AddrProps DEF Span
  <1>. QED
    BY <1>2, <1>3 DEF FreeUnits

LEMMA TakeAll ==
    ASSUME NEW g, NEW B, IsCircle(g, B), NEW prev \in B, NEW cur \in B, NEW n \in Nat, n > 1, g.next[prev] = cur,
           g.units[cur] = n, NEW t, t = Taken(g, prev, cur, n)
    PROVE  Gave(g, B, t, B \ {cur}, cur, n)
  <1> DEFINE C == B \ {cur}
  <1>1. IsRing(g, B, {})
    BY RingCircle
  <1>2. /\ g = [units |-> g.units, next |-> g.next, slobfree |-> g.slobfree]
        /\ g.units \in [Addrs -> Nat] /\ g.next \in [Addrs -> Addrs] /\ B \in SUBSET Addrs
        /\ arena \in B /\ g.slobfree \in B /\ g.units[arena] = 1
    BY DEF IsCircle
  <1>3. cur # arena /\ cur \in Int /\ prev \in Int /\ cur \in Addrs /\ prev \in Addrs /\ g.next[cur] \in B /\ g.next[cur] \in Int
    BY <1>1, <1>2, RingProps
  <1>4. IsNext(B, prev, cur) /\ IsNext(B, cur, g.next[cur])
    BY <1>1, RingProps
  <1>5. prev < cur /\ (\A x \in B : x <= prev \/ cur <= x) /\ g.next[cur] # cur /\ prev # cur
    BY <1>3, <1>4 DEF IsNext
  <1>6. t = [units |-> g.units, next |-> [g.next EXCEPT ![prev] = g.next[cur], ![cur] = arena], slobfree |-> prev]
    BY <1>2, <1>3 DEF Taken
  <1>7. /\ t = [units |-> t.units, next |-> t.next, slobfree |-> t.slobfree] /\ t.slobfree = prev
        /\ t.units = g.units /\ t.next \in [Addrs -> Addrs] /\ t.next[prev] = g.next[cur]
        /\ \A x \in Addrs : x # prev /\ x # cur => t.next[x] = g.next[x]
    BY <1>2, <1>3, <1>5, <1>6, AddrProps
  <1>8. ASSUME NEW x \in C PROVE IsNext(C, x, t.next[x])
    <2>0. \A y \in B : y \in Int
      BY <1>1, RingProps
    <2>1. CASE x = prev
      <3>1. CASE cur < g.next[cur] /\ \A y \in B : y <= cur \/ g.next[cur] <= y
        BY <1>3, <1>5, <1>7, <2>0, <2>1, <3>1 DEF IsNext
      <3>2. CASE g.next[cur] = arena /\ \A y \in B : y <= cur
        BY <1>3, <1>5, <1>7, <2>0, <2>1, <3>2 DEF IsNext
      <3>. QED
        BY <1>4, <3>1, <3>2 DEF IsNext
    <2>2. CASE x # prev
      <3>1. t.next[x] = g.next[x] /\ IsNext(B, x, g.next[x]) /\ x \in B
        BY <1>1, <1>2, <1>7, <2>2, RingProps
      <3>2. g.next[x] # cur
        <4>1. SUFFICES ASSUME IsNext(B, x, cur) PROVE FALSE
          BY <3>1
        <4>2. x < cur /\ (prev <= x \/ cur <= prev)
          BY <1>3, <4>1 DEF IsNext
        <4>3. x \in Int /\ (x <= prev \/ cur <= x)
          BY <1>5, <2>0, <3>1
        <4>. QED
          BY <1>3, <1>5, <2>2, <4>2, <4>3
      <3>. QED
        BY <3>1, <3>2 DEF IsNext
    <2>. QED
      BY <2>1, <2>2
  <1>9. IsCircle(t, C)
    <2>1. arena \in C /\ t.slobfree \in C /\ C \in SUBSET Addrs /\ t.units[arena] = 1
      BY <1>2, <1>3, <1>5, <1>7
    <2>2. /\ \A a \in C : t.units[a] # 0 /\ a + t.units[a] <= Top
          /\ \A a, b \in C : a < b => a + t.units[a] < b
      BY <1>7 DEF IsCircle
    <2>3. t.units \in [Addrs -> Nat]
      BY <1>2, <1>7
    <2>. HIDE DEF C
    <2>. QED
      BY <1>7, <1>8, <2>1, <2>2, <2>3, Zenon DEF IsCircle
  <1>10. FreeUnits(t, C) = FreeUnits(g, B) \ Span(cur, n)
    <2>1. \A u \in Units : u \in Span(cur, n) <=> cur <= u /\ u < cur + g.units[cur]
      BY <1>3, BlockSpan
    <2>2. \A u \in Units, x \in C : x <= u /\ u < x + g.units[x] => ~(cur <= u /\ u < cur + g.units[cur])
      <3>1. \A x \in C : x + g.units[x] < cur \/ cur + g.units[cur] < x
        BY <1>1, RingProps
      <3>2. \A x \in C : x \in Int /\ g.units[x] \in Nat
        BY <1>1, RingProps
      <3>. QED
        BY <1>3, <3>1, <3>2, AddrProps
    <2>. QED
      BY <1>7, <2>1, <2>2 DEF FreeUnits
  <1>11. cur \in Units /\ Span(cur, n) \in SUBSET FreeUnits(g, B)
    BY <1>3, BlockSpan
  <1>. HIDE DEF C
  <1>12. Gave(g, B, t, C, cur, n)
    BY <1>7, <1>9, <1>10, <1>11, Zenon DEF Gave
  <1>. QED
    BY <1>12 DEF C

LEMMA TakeFront ==
    ASSUME NEW g, NEW B, IsCircle(g, B), NEW prev \in B, NEW cur \in B, NEW n \in Nat, n > 1, g.next[prev] = cur,
           g.units[cur] > n, NEW t, t = Taken(g, prev, cur, n)
    PROVE  Gave(g, B, t, (B \ {cur}) \cup {cur + n}, cur, n)
  <1> DEFINE r == cur + n
             C == (B \ {cur}) \cup {r}
  <1>1. IsRing(g, B, {})
    BY RingCircle
  <1>2. /\ g = [units |-> g.units, next |-> g.next, slobfree |-> g.slobfree]
        /\ g.units \in [Addrs -> Nat] /\ g.next \in [Addrs -> Addrs] /\ B \in SUBSET Addrs
        /\ arena \in B /\ g.slobfree \in B /\ g.units[arena] = 1
    BY DEF IsCircle
  <1>3. /\ cur # arena /\ cur \in Nat /\ prev \in Int /\ cur \in Addrs /\ prev \in Addrs /\ g.next[cur] \in B
        /\ g.next[cur] \in Int /\ g.units[cur] \in Nat /\ cur + g.units[cur] <= Top
    BY <1>1, <1>2, RingProps
  <1>4. IsNext(B, prev, cur) /\ IsNext(B, cur, g.next[cur])
    BY <1>1, RingProps
  <1>5. prev < cur /\ (\A x \in B : x <= prev \/ cur <= x) /\ g.next[cur] # cur /\ prev # cur
    BY <1>3, <1>4 DEF IsNext
  <1>6. /\ \A x \in B : x \in Int /\ g.units[x] \in Nat \ {0}
        /\ \A x \in B : x # cur => x + g.units[x] < cur \/ cur + g.units[cur] < x
    BY <1>1, RingProps
  <1>7. r \in Nat /\ r < cur + g.units[cur] /\ cur < r /\ r \in Addrs /\ r # arena
    BY <1>3, AddrProps
  <1>8. r \notin B
    BY <1>3, <1>6, <1>7
  <1>9. t = [units |-> [g.units EXCEPT ![r] = g.units[cur] - n, ![cur] = n],
             next |-> [g.next EXCEPT ![prev] = r, ![r] = g.next[cur], ![cur] = arena], slobfree |-> prev]
    BY <1>2, <1>3 DEF Taken
  <1>. HIDE DEF r
  <1>10. /\ t = [units |-> t.units, next |-> t.next, slobfree |-> t.slobfree] /\ t.slobfree = prev
         /\ t.units \in [Addrs -> Nat] /\ t.next \in [Addrs -> Addrs]
         /\ t.units[r] = g.units[cur] - n /\ t.units[cur] = n /\ t.next[prev] = r /\ t.next[r] = g.next[cur]
         /\ \A x \in Addrs : x # r /\ x # cur => t.units[x] = g.units[x]
         /\ \A x \in Addrs : x # prev /\ x # r /\ x # cur => t.next[x] = g.next[x]
    <2>1. g.units[cur] - n \in Nat /\ prev # r /\ r # cur /\ g.next[cur] \in Addrs
      BY <1>2, <1>3, <1>7, <1>8
    <2>. QED
      BY <1>2, <1>3, <1>5, <1>7, <1>9, <2>1, AddrProps
  <1>11. \A x \in B : x # cur => x \in Addrs /\ x # r /\ t.units[x] = g.units[x]
    BY <1>2, <1>8, <1>10
  <1>12. r + t.units[r] = cur + g.units[cur]
    BY <1>3, <1>10 DEF r
  <1>13. ASSUME NEW x \in C PROVE IsNext(C, x, t.next[x])
    <2>1. CASE x = prev
      <3>1. x < r /\ r \in C /\ \A y \in C : y <= x \/ r <= y
        BY <1>3, <1>5, <1>6, <1>7, <2>1
      <3>. QED
        BY <1>10, <2>1, <3>1 DEF IsNext
    <2>2. CASE x = r
      <3>0. g.next[cur] \in C
        BY <1>3, <1>5
      <3>1. CASE cur < g.next[cur] /\ \A y \in B : y <= cur \/ g.next[cur] <= y
        <4>1. r < g.next[cur]
          BY <1>3, <1>5, <1>6, <1>7, <3>1
        <4>2. \A y \in C : y <= r \/ g.next[cur] <= y
          BY <1>3, <1>6, <1>7, <3>1
        <4>. QED
          BY <1>10, <2>2, <3>0, <4>1, <4>2 DEF IsNext
      <3>2. CASE g.next[cur] = arena /\ \A y \in B : y <= cur
        <4>1. \A y \in C : y <= r
          BY <1>3, <1>6, <1>7, <3>2
        <4>. QED
          BY <1>10, <2>2, <3>0, <3>2, <4>1 DEF IsNext
      <3>. QED
        BY <1>4, <3>1, <3>2 DEF IsNext
    <2>3. CASE x # prev /\ x # r
      <3>1. t.next[x] = g.next[x] /\ IsNext(B, x, g.next[x]) /\ x \in B /\ x # cur /\ g.next[x] \in B
        BY <1>1, <1>2, <1>10, <2>3, RingProps
      <3>2. g.next[x] # cur
        <4>1. SUFFICES ASSUME IsNext(B, x, cur) PROVE FALSE
          BY <3>1
        <4>2. x < cur /\ (prev <= x \/ cur <= prev)
          BY <1>3, <4>1 DEF IsNext
        <4>. QED
          BY <1>3, <1>5, <1>6, <2>3, <3>1, <4>2
      <3>3. x < cur \/ r < x
        BY <1>3, <1>6, <1>7, <3>1
      <3>4. CASE x < g.next[x] /\ \A y \in B : y <= x \/ g.next[x] <= y
        <4>1. cur <= x \/ g.next[x] <= cur
          BY <3>4
        <4>2. r <= x \/ g.next[x] <= r
          <5>1. g.next[x] \in Int /\ x \in Int
            BY <1>6, <3>1
          <5>. QED
            BY <1>3, <1>7, <3>3, <4>1, <5>1
        <4>. QED
          BY <3>1, <3>2, <3>4, <4>2 DEF IsNext
      <3>5. CASE g.next[x] = arena /\ \A y \in B : y <= x
        <4>1. r <= x
          BY <1>3, <1>6, <1>7, <3>1, <3>3, <3>5
        <4>. QED
          BY <3>1, <3>2, <3>5, <4>1 DEF IsNext
      <3>. QED
        BY <3>1, <3>4, <3>5 DEF IsNext
    <2>. QED
      BY <2>1, <2>2, <2>3
  <1>14. ASSUME NEW x \in C, NEW y \in C, x < y PROVE x + t.units[x] < y
    <2>1. CASE x = r
      <3>1. y \in B /\ y # cur /\ cur + g.units[cur] < y
        <4>1. y # r /\ r < y
          BY <1>7, <1>14, <2>1
        <4>2. y \in B /\ y # cur
          BY <4>1
        <4>3. y + g.units[y] < cur \/ cur + g.units[cur] < y
          BY <1>6, <4>2
        <4>4. y \in Int /\ g.units[y] \in Nat
          BY <1>6, <4>2
        <4>. QED
          BY <1>3, <1>7, <4>1, <4>2, <4>3, <4>4
      <3>. QED
        BY <1>12, <2>1, <3>1
    <2>2. CASE x # r /\ y = r
      <3>1. x \in B /\ x # cur /\ x + g.units[x] < cur
        <4>1. x \in B /\ x # cur
          BY <2>2
        <4>2. x + g.units[x] < cur \/ cur + g.units[cur] < x
          BY <1>6, <4>1
        <4>3. x \in Int /\ x < r
          BY <1>6, <1>14, <2>2, <4>1
        <4>. QED
          BY <1>3, <1>7, <4>1, <4>2, <4>3
      <3>. QED
        BY <1>3, <1>6, <1>7, <1>11, <2>2, <3>1
    <2>3. CASE x # r /\ y # r
      BY <1>1, <1>11, <1>14, <2>3, RingProps
    <2>. QED
      BY <2>1, <2>2, <2>3
  <1>15. \A x \in C : t.units[x] # 0 /\ x + t.units[x] <= Top
    <2>1. t.units[r] # 0 /\ r + t.units[r] <= Top
      BY <1>3, <1>10, <1>12
    <2>. QED
      BY <1>1, <1>11, <2>1, RingProps
  <1>16. arena \in C /\ t.slobfree \in C /\ t.units[arena] = 1 /\ C \in SUBSET Addrs
    BY <1>2, <1>3, <1>5, <1>7, <1>10, <1>11
  <1>17. IsCircle(t, C)
    <2>. HIDE DEF C
    <2>. QED
      BY <1>10, <1>13, <1>14, <1>15, <1>16, Zenon DEF IsCircle
  <1>18. \A u \in Units : u \in Span(cur, n) <=> cur <= u /\ u < r
    BY <1>3, AddrProps DEF Span, r
  <1>19. FreeUnits(t, C) = FreeUnits(g, B) \ Span(cur, n)
    <2>1. ASSUME NEW u \in Units, NEW x \in C, x <= u, u < x + t.units[x]
          PROVE  (\E b \in B : b <= u /\ u < b + g.units[b]) /\ ~(cur <= u /\ u < r)
      <3>1. u \in Nat
        BY AddrProps
      <3>2. CASE x = r
        <4>1. cur <= u /\ u < cur + g.units[cur] /\ ~(u < r)
          BY <1>3, <1>7, <1>12, <2>1, <3>1, <3>2
        <4>. QED
          BY <4>1
      <3>3. CASE x # r
        <4>1. x \in B /\ x # cur /\ t.units[x] = g.units[x]
          BY <1>11, <3>3
        <4>2. ~(cur <= u /\ u < r)
          BY <1>3, <1>6, <1>7, <2>1, <3>1, <4>1
        <4>. QED
          BY <2>1, <4>1, <4>2
      <3>. QED
        BY <3>2, <3>3
    <2>2. ASSUME NEW u \in Units, NEW b \in B, b <= u, u < b + g.units[b], ~(cur <= u /\ u < r)
          PROVE  \E x \in C : x <= u /\ u < x + t.units[x]
      <3>1. u \in Nat
        BY AddrProps
      <3>2. CASE b = cur
        <4>1. r <= u /\ u < r + t.units[r]
          BY <1>3, <1>7, <1>12, <2>2, <3>1, <3>2
        <4>. QED
          BY <4>1
      <3>3. CASE b # cur
        BY <1>11, <2>2, <3>3
      <3>. QED
        BY <3>2, <3>3
    <2>. QED
      BY <1>18, <2>1, <2>2 DEF FreeUnits
  <1>20. cur \in Units /\ Span(cur, n) \in SUBSET FreeUnits(g, B)
    <2>1. cur \in Units
      BY <1>3, BlockSpan
    <2>2. \A u \in Span(cur, n) : u \in Units /\ cur <= u /\ u < cur + g.units[cur]
      BY <1>3, <1>7, AddrProps DEF Span, r
    <2>. QED
      BY <2>1, <2>2 DEF FreeUnits
  <1>21. \A x \in Addrs : x \notin FreeUnits(g, B) => t.units[x] = g.units[x]
    <2>1. cur \in FreeUnits(g, B)
      BY <1>3, <1>20 DEF Span
    <2>2. r \in FreeUnits(g, B)
      <3>1. r \in Units /\ cur <= r
        BY <1>3, <1>7, AddrProps
      <3>. QED
        BY <1>7, <3>1 DEF FreeUnits
    <2>. QED
      BY <1>10, <2>1, <2>2
  <1>. HIDE DEF C
  <1>22. Gave(g, B, t, C, cur, n)
    BY <1>10, <1>17, <1>19, <1>20, <1>21, Zenon DEF Gave
  <1>. QED
    BY <1>22 DEF C, r

LEMMA CarveGives ==
    ASSUME NEW g, NEW B, IsCircle(g, B), NEW n \in Nat, n > 1, Room(g, n) # {}
    PROVE  \E C : Gave(g, B, Carve(g, n).heap, C, Carve(g, n).block, n)
  <1>1. PICK prev, cur \in B : /\ g.units[cur] >= n /\ g.next[prev] = cur
                               /\ Carve(g, n) = [block |-> cur, heap |-> Taken(g, prev, cur, n)]
    BY CarveTaken
  <1>2. PICK t : t = Taken(g, prev, cur, n)
    OBVIOUS
  <1>3. Carve(g, n).heap = t /\ Carve(g, n).block = cur
    BY <1>1, <1>2
  <1>4. g.units[cur] \in Nat
    BY RingCircle, RingProps
  <1>5. \E C : Gave(g, B, t, C, cur, n)
    <2>1. CASE g.units[cur] = n
      BY <1>1, <1>2, <2>1, TakeAll
    <2>2. CASE g.units[cur] > n
      BY <1>1, <1>2, <2>2, TakeFront
    <2>. QED
      BY <1>1, <1>4, <2>1, <2>2
  <1>. QED
    BY <1>3, <1>5

-----------------------------------------------------------------------------
(* Units and pages of sizes.                                                *)

\* 1 << order is a number of pages.
LEMMA RunPagesPos ==
    ASSUME NEW order \in Nat
    PROVE  RunPages(order) \in Nat \ {0}
  <1> DEFINE s == CHOOSE x : x = [i \in Nat |-> IF i = 0 THEN 1 ELSE 2 * x[i - 1]]
             G == [y \in Nat |-> 2 * y]
  <1>1. PICK x : Iterates(x, 1, G)
    BY IterExists
  <1>2. \A i \in Nat : x[i] \in Nat \ {0}
    <2>1. PICK S : S = Nat \ {0}
      OBVIOUS
    <2>2. 1 \in S /\ \A y \in S : G[y] \in S
      BY <2>1
    <2>. HIDE DEF G
    <2>3. \A i \in Nat : x[i] \in S
      BY <1>1, <2>2, IterIn, Zenon
    <2>. QED
      BY <2>1, <2>3
  <1>3. x = [i \in Nat |-> IF i = 0 THEN 1 ELSE 2 * x[i - 1]]
    <2>1. \A i \in Nat : x[i] = IF i = 0 THEN 1 ELSE G[x[i - 1]]
      BY <1>1 DEF Iterates
    <2>2. \A i \in Nat : i # 0 => G[x[i - 1]] = 2 * x[i - 1]
      <3>1. \A i \in Nat : i # 0 => i - 1 \in Nat
        OBVIOUS
      <3>. QED
        BY <1>2, <3>1
    <2>3. x = [i \in Nat |-> x[i]]
      BY <1>1 DEF Iterates
    <2>. HIDE DEF G
    <2>4. \A i \in Nat : x[i] = IF i = 0 THEN 1 ELSE 2 * x[i - 1]
      BY <2>1, <2>2, Zenon
    <2>. QED
      BY <2>3, <2>4, Zenon
  <1>4. s = [i \in Nat |-> IF i = 0 THEN 1 ELSE 2 * s[i - 1]]
    BY <1>3
  <1>5. RunPages(order) = s[order]
    BY DEF RunPages
  <1>. HIDE DEF s
  <1>6. \A i \in Nat : s[i] \in Nat \ {0}
    <2> DEFINE T == {i \in Nat : s[i] \in Nat \ {0}}
    <2>1. 0 \in T
      BY <1>4
    <2>2. ASSUME NEW i \in Nat, i \in T PROVE i + 1 \in T
      <3>1. i + 1 \in Nat /\ i + 1 # 0 /\ (i + 1) - 1 = i
        OBVIOUS
      <3>2. s[i + 1] = 2 * s[i]
        BY <1>4, <3>1
      <3>. QED
        BY <2>2, <3>2
    <2>. HIDE DEF T
    <2>3. \A i \in Nat : i \in T
      BY <2>1, <2>2, NatInd
    <2>. QED
      BY <2>3 DEF T
  <1>. QED
    BY <1>5, <1>6

\* find_order ends: what is halved gets small enough.
LEMMA FindOrderIs ==
    ASSUME NEW size \in Nat
    PROVE  find_order(size) \in Nat
  <1> DEFINE half == CHOOSE x : x = [i \in Nat |-> IF i = 0 THEN size ELSE x[i - 1] \div 2]
             G == [y \in Nat |-> y \div 2]
             Ends(o) == half[o] <= PAGE_SIZE /\ \A i \in 0 .. (o - 1) : half[i] > PAGE_SIZE
  <1>1. PICK x : Iterates(x, size, G)
    BY IterExists
  <1>2. \A i \in Nat : x[i] \in Nat
    <2>1. \A y \in Nat : G[y] \in Nat
      OBVIOUS
    <2>. HIDE DEF G
    <2>. QED
      BY <1>1, <2>1, IterIn
  <1>3. x = [i \in Nat |-> IF i = 0 THEN size ELSE x[i - 1] \div 2]
    <2>1. \A i \in Nat : x[i] = IF i = 0 THEN size ELSE G[x[i - 1]]
      BY <1>1 DEF Iterates
    <2>2. \A i \in Nat : i # 0 => G[x[i - 1]] = x[i - 1] \div 2
      <3>1. \A i \in Nat : i # 0 => i - 1 \in Nat
        OBVIOUS
      <3>. QED
        BY <1>2, <3>1
    <2>3. x = [i \in Nat |-> x[i]]
      BY <1>1 DEF Iterates
    <2>. HIDE DEF G
    <2>4. \A i \in Nat : x[i] = IF i = 0 THEN size ELSE x[i - 1] \div 2
      BY <2>1, <2>2, Zenon
    <2>. QED
      BY <2>3, <2>4, Zenon
  <1>4. half = [i \in Nat |-> IF i = 0 THEN size ELSE half[i - 1] \div 2]
    BY <1>3
  <1>5. find_order(size) = CHOOSE o \in 0 .. size : Ends(o)
    BY Zenon DEF find_order
  <1>. HIDE DEF half, G
  <1>6. \A i \in Nat : half[i] \in Nat /\ (half[i] <= size - i \/ half[i] = 0)
    <2> DEFINE T == {i \in Nat : half[i] \in Nat /\ (half[i] <= size - i \/ half[i] = 0)}
    <2>1. 0 \in T
      BY <1>4
    <2>2. ASSUME NEW i \in Nat, i \in T PROVE i + 1 \in T
      <3>1. i + 1 \in Nat /\ i + 1 # 0 /\ (i + 1) - 1 = i
        OBVIOUS
      <3>2. half[i + 1] = half[i] \div 2
        BY <1>4, <3>1
      <3>. QED
        BY <2>2, <3>2
    <2>. HIDE DEF T
    <2>3. \A i \in Nat : i \in T
      BY <2>1, <2>2, NatInd
    <2>. QED
      BY <2>3 DEF T
  <1>7. PAGE_SIZE \in Nat
    BY SlobAssumption DEF PAGE_SIZE
  <1>8. \E o \in 0 .. size : Ends(o)
    <2> DEFINE T == {o \in 0 .. size : half[o] <= PAGE_SIZE}
    <2>1. size \in T /\ T \in SUBSET Nat
      BY <1>6, <1>7
    <2>2. PICK o \in T : \A k \in T : o <= k
      BY <2>1, NatMin
    <2>3. ASSUME NEW i \in 0 .. (o - 1) PROVE half[i] > PAGE_SIZE
      <3>1. i \in Nat /\ i \in 0 .. size /\ ~(o <= i)
        BY <2>2
      <3>2. i \notin T
        BY <2>2, <3>1
      <3>3. half[i] \in Nat
        BY <1>6, <3>1
      <3>. QED
        BY <1>7, <3>1, <3>2, <3>3
    <2>. QED
      BY <2>2, <2>3
  <1>. HIDE DEF Ends
  <1>. QED
    BY <1>5, <1>8

\* A small object with its header takes at least two units, and less than a page if
\* the assertion holds.
LEMMA SmallUnits ==
    ASSUME NEW size \in Sizes
    PROVE  /\ size \in Nat \ {0} /\ SLOB_UNITS(size + SLOB_UNIT) \in Nat /\ SLOB_UNITS(size + SLOB_UNIT) > 1
           /\ SlobAllocAsserts(size + SLOB_UNIT) => SLOB_UNITS(size + SLOB_UNIT) < PAGE
  <1> DEFINE x == size + SLOB_UNIT + SLOB_UNIT - 1
             q == x \div SLOB_UNIT
  <1>1. size \in Nat \ {0} /\ SLOB_UNIT \in Nat \ {0} /\ PAGE \in Nat
    BY SlobAssumption
  <1>2. x \in Nat /\ SLOB_UNITS(size + SLOB_UNIT) = q
    BY <1>1 DEF SLOB_UNITS
  <1>3. x >= 2 * SLOB_UNIT
    BY <1>1
  <1>4. q \in Int /\ q * SLOB_UNIT <= x /\ x < (q + 1) * SLOB_UNIT
    <2>. HIDE DEF x
    <2>. QED
      BY <1>1, <1>2, SMT
  <1>5. SlobAllocAsserts(size + SLOB_UNIT) => x < SLOB_UNIT * PAGE
    BY <1>1 DEF SlobAllocAsserts, PAGE_SIZE
  <1>. HIDE DEF q, x
  <1>6. q > 1
    <2>1. 2 * SLOB_UNIT < (q + 1) * SLOB_UNIT
      BY <1>1, <1>2, <1>3, <1>4
    <2>2. ~(q + 1 <= 2)
      <3>1. ASSUME q + 1 <= 2 PROVE (q + 1) * SLOB_UNIT <= 2 * SLOB_UNIT
        BY <1>1, <1>4, <3>1
      <3>. QED
        BY <1>1, <1>4, <2>1, <3>1
    <2>. QED
      BY <1>4, <2>2
  <1>7. x < SLOB_UNIT * PAGE => q < PAGE
    <2> SUFFICES ASSUME x < SLOB_UNIT * PAGE, PAGE <= q PROVE FALSE
      BY <1>1, <1>4
    <2>1. PAGE * SLOB_UNIT <= q * SLOB_UNIT
      BY <1>1, <1>4
    <2>. QED
      BY <1>1, <1>2, <1>4, <2>1
  <1>. QED
    BY <1>1, <1>2, <1>4, <1>5, <1>6, <1>7

-----------------------------------------------------------------------------
(* Pages as units.                                                          *)

PageNos == 0 .. (SLOB_PAGES - 1)
UnitsOf(k) == Span(PageAddr(k), PAGE)

\* Each unit is in one page.
LEMMA UnitPages ==
    /\ \A k \in PageNos : PageAddr(k) \in Units /\ UnitsOf(k) \in SUBSET Units /\ PageAddr(k) \in UnitsOf(k)
    /\ \A k, m \in PageNos : k # m => UnitsOf(k) \cap UnitsOf(m) = {}
    /\ \A u \in Units : \E k \in PageNos : u \in UnitsOf(k)
  <1>1. PAGE \in Nat /\ PAGE > 2 /\ SLOB_PAGES \in Nat /\ Top = PAGE * SLOB_PAGES /\ \A u : u \in Units <=> u \in Nat /\ u < Top
    BY AddrProps DEF Top
  <1>2. \A k \in PageNos : \A u : u \in UnitsOf(k) <=> u \in Int /\ PAGE * k <= u /\ u < PAGE * k + PAGE
    <2>1. \A k \in PageNos : PAGE * k \in Int
      BY <1>1 DEF PageNos
    <2>. QED
      BY <1>1, <2>1 DEF UnitsOf, Span, PageAddr
  <1>3. ASSUME NEW k \in Nat, NEW m \in Nat, k < m PROVE PAGE * k \in Nat /\ PAGE * k + PAGE <= PAGE * m
    <2>1. PAGE * (k + 1) <= PAGE * m
      BY <1>1, <1>3
    <2>. QED
      BY <1>1, <2>1
  <1>4. \A k \in PageNos : k \in Nat /\ k < SLOB_PAGES
    BY <1>1 DEF PageNos
  <1>5. \A k \in PageNos : PAGE * k \in Nat /\ PAGE * k + PAGE <= Top
    BY <1>1, <1>3, <1>4
  <1>6. \A k \in PageNos : PageAddr(k) \in Units /\ UnitsOf(k) \in SUBSET Units /\ PageAddr(k) \in UnitsOf(k)
    <2> SUFFICES ASSUME NEW k \in PageNos
                 PROVE  PageAddr(k) \in Units /\ UnitsOf(k) \in SUBSET Units /\ PageAddr(k) \in UnitsOf(k)
      OBVIOUS
    <2>1. PAGE * k \in Nat /\ PAGE * k + PAGE <= Top /\ PageAddr(k) = PAGE * k
      BY <1>5 DEF PageAddr
    <2>2. PageAddr(k) \in Units /\ PageAddr(k) \in UnitsOf(k)
      BY <1>1, <1>2, <2>1
    <2>3. \A u \in UnitsOf(k) : u \in Units
      BY <1>1, <1>2, <2>1
    <2>. QED
      BY <2>2, <2>3
  <1>7. ASSUME NEW k \in PageNos, NEW m \in PageNos, NEW u, u \in UnitsOf(k), u \in UnitsOf(m), k < m PROVE FALSE
    <2>1. u \in Int /\ u < PAGE * k + PAGE /\ PAGE * m <= u
      BY <1>2, <1>7
    <2>2. PAGE * k \in Nat /\ PAGE * m \in Nat /\ PAGE * k + PAGE <= PAGE * m
      BY <1>3, <1>4, <1>5, <1>7
    <2>. QED
      BY <1>1, <2>1, <2>2
  <1>8. \A k, m \in PageNos : k # m => UnitsOf(k) \cap UnitsOf(m) = {}
    BY <1>4, <1>7
  <1>9. ASSUME NEW u \in Units PROVE \E k \in PageNos : u \in UnitsOf(k)
    <2> DEFINE k == u \div PAGE
    <2>1. u \in Nat /\ u < Top
      BY <1>1
    <2>2. k \in Nat /\ PAGE * k <= u /\ u < PAGE * k + PAGE
      BY <1>1, <2>1, SMT
    <2>. HIDE DEF k
    <2>3. k < SLOB_PAGES
      <3>1. ASSUME SLOB_PAGES <= k PROVE PAGE * SLOB_PAGES <= PAGE * k
        BY <1>1, <2>2, <3>1
      <3>2. PAGE * k \in Nat
        BY <1>1, <2>2
      <3>. QED
        BY <1>1, <2>1, <2>2, <3>1, <3>2
    <2>. QED
      <3>1. k \in PageNos
        BY <1>1, <2>2, <2>3 DEF PageNos
      <3>2. u \in UnitsOf(k)
        BY <1>2, <2>1, <2>2, <3>1
      <3>. QED
        BY <3>1, <3>2
  <1>. QED
    BY <1>6, <1>8, <1>9

\* The units of a run are those of its pages.
LEMMA RunUnits ==
    ASSUME NEW k \in Nat, NEW m \in Nat \ {0}, k + m <= SLOB_PAGES
    PROVE  /\ k .. (k + m - 1) \in SUBSET PageNos
           /\ \A u : u \in Span(PageAddr(k), PAGE * m) <=> \E j \in k .. (k + m - 1) : u \in UnitsOf(j)
  <1>1. PAGE \in Nat /\ PAGE > 2 /\ SLOB_PAGES \in Nat
    BY AddrProps
  <1>2. k .. (k + m - 1) \in SUBSET PageNos
    BY <1>1 DEF PageNos
  <1>3. PAGE * k \in Nat /\ PAGE * m \in Nat /\ PAGE * (k + m) = PAGE * k + PAGE * m
    BY <1>1
  <1>4. \A u : u \in Span(PageAddr(k), PAGE * m) <=> u \in Int /\ PAGE * k <= u /\ u < PAGE * k + PAGE * m
    <2>1. PageAddr(k) = PAGE * k
      BY DEF PageAddr
    <2> DEFINE a == PAGE * k
               b == PAGE * m
    <2>. HIDE DEF a, b
    <2>2. a \in Nat /\ b \in Nat => \A u : u \in a .. (a + b - 1) <=> u \in Int /\ a <= u /\ u < a + b
      OBVIOUS
    <2>. QED
      BY <1>3, <2>1, <2>2 DEF Span, a, b
  <1>5. ASSUME NEW j \in k .. (k + m - 1), NEW u, u \in UnitsOf(j) PROVE u \in Span(PageAddr(k), PAGE * m)
    <2>1. j \in Nat /\ k <= j /\ j + 1 <= k + m /\ PAGE * j \in Nat
      BY <1>1
    <2>2. u \in Int /\ PAGE * j <= u /\ u < PAGE * j + PAGE
      BY <1>1, <1>5, <2>1 DEF UnitsOf, Span, PageAddr
    <2>3. PAGE * k <= PAGE * j /\ PAGE * (j + 1) <= PAGE * (k + m) /\ PAGE * (j + 1) = PAGE * j + PAGE
      BY <1>1, <2>1
    <2>. QED
      BY <1>1, <1>3, <1>4, <2>1, <2>2, <2>3
  <1>6. ASSUME NEW u, u \in Span(PageAddr(k), PAGE * m) PROVE \E j \in k .. (k + m - 1) : u \in UnitsOf(j)
    <2> DEFINE j == u \div PAGE
    <2>1. u \in Nat /\ PAGE * k <= u /\ u < PAGE * k + PAGE * m
      BY <1>3, <1>4, <1>6
    <2>2. j \in Nat /\ PAGE * j <= u /\ u < PAGE * j + PAGE /\ PAGE * j \in Nat /\ PAGE * (j + 1) = PAGE * j + PAGE
      BY <1>1, <2>1, SMT
    <2>. HIDE DEF j
    <2>3. k <= j
      <3>1. ASSUME j + 1 <= k PROVE PAGE * (j + 1) <= PAGE * k
        BY <1>1, <2>2, <3>1
      <3>. QED
        BY <1>1, <1>3, <2>1, <2>2, <3>1
    <2>4. j < k + m
      <3>1. ASSUME k + m <= j PROVE PAGE * (k + m) <= PAGE * j
        BY <1>1, <2>2, <3>1
      <3>. QED
        BY <1>1, <1>3, <2>1, <2>2, <3>1
    <2>5. u \in UnitsOf(j)
      BY <1>1, <2>1, <2>2 DEF UnitsOf, Span, PageAddr
    <2>. QED
      BY <2>2, <2>3, <2>4, <2>5
  <1>. QED
    BY <1>2, <1>5, <1>6

-----------------------------------------------------------------------------
(* What occupies memory: small objects, descriptors of large ones, their    *)
(* runs of pages, and free pages.  I are the objects, D the descriptors, F   *)
(* the free pages.                                                          *)

SmallOf(I, D) == {o \in I : \A b \in D : PageAddr(b.page) # o.ptr}
ObjectUnits(o) == SLOB_UNITS(o.size + SLOB_UNIT)

Holdings(I, D, F) ==
    {<<"small", o>> : o \in SmallOf(I, D)} \cup {<<"desc", b>> : b \in D} \cup {<<"run", b>> : b \in D}
    \cup {<<"page", k>> : k \in F}

ExtentOf(e) ==
    IF e[1] = "small" THEN <<Header(e[2].ptr), ObjectUnits(e[2])>>
    ELSE IF e[1] = "desc" THEN <<e[2].bb, BIGBLOCK>>
    ELSE IF e[1] = "run" THEN <<PageAddr(e[2].page), PAGE * RunPages(e[2].order)>>
    ELSE <<PageAddr(e[2]), PAGE>>

SpanOf(e) == Span(ExtentOf(e)[1], ExtentOf(e)[2])

LEMMA SpansAre ==
    /\ \A o : SpanOf(<<"small", o>>) = Span(Header(o.ptr), ObjectUnits(o))
    /\ \A b : SpanOf(<<"desc", b>>) = Span(b.bb, BIGBLOCK)
    /\ \A b : SpanOf(<<"run", b>>) = Span(PageAddr(b.page), PAGE * RunPages(b.order))
    /\ \A k : SpanOf(<<"page", k>>) = UnitsOf(k)
  BY DEF SpanOf, ExtentOf, UnitsOf

\* The holdings Hs and the units U tile memory.
Tiles(Hs, U) ==
    /\ U \in SUBSET Units
    /\ \A e \in Hs : SpanOf(e) \in SUBSET Units /\ SpanOf(e) \cap U = {}
    /\ \A e, f \in Hs : e # f => SpanOf(e) \cap SpanOf(f) = {}
    /\ \A u \in Units : u \in U \/ \E e \in Hs : u \in SpanOf(e)

\* The units W, which are those of the holdings X and of U, are those of Y and of V.
Exchange(U, X, W, Y, V) ==
    /\ \A u : u \in W <=> u \in U \/ \E e \in X : u \in SpanOf(e)
    /\ V \in SUBSET W
    /\ \A e \in Y : SpanOf(e) \in SUBSET W /\ SpanOf(e) \cap V = {}
    /\ \A e, f \in Y : e # f => SpanOf(e) \cap SpanOf(f) = {}
    /\ \A u \in W : u \in V \/ \E e \in Y : u \in SpanOf(e)

\* Some holdings become others in the units they had.
LEMMA Retile ==
    ASSUME NEW Hs, NEW U, Tiles(Hs, U), NEW X \in SUBSET Hs, NEW W, NEW Y, NEW V, Exchange(U, X, W, Y, V)
    PROVE  Tiles((Hs \ X) \cup Y, V)
  <1> DEFINE J == (Hs \ X) \cup Y
  <1>0. /\ \A u : u \in W <=> u \in U \/ \E e \in X : u \in SpanOf(e)
        /\ V \in SUBSET W
        /\ \A e \in Y : SpanOf(e) \in SUBSET W /\ SpanOf(e) \cap V = {}
        /\ \A e, f \in Y : e # f => SpanOf(e) \cap SpanOf(f) = {}
        /\ \A u \in W : u \in V \/ \E e \in Y : u \in SpanOf(e)
    BY DEF Exchange
  <1>1. W \in SUBSET Units
    BY <1>0, Zenon DEF Tiles
  <1>2. \A e \in Hs \ X : SpanOf(e) \cap W = {} /\ SpanOf(e) \in SUBSET Units
    <2> SUFFICES ASSUME NEW e \in Hs \ X PROVE SpanOf(e) \cap W = {} /\ SpanOf(e) \in SUBSET Units
      OBVIOUS
    <2>1. SpanOf(e) \in SUBSET Units /\ SpanOf(e) \cap U = {}
      BY DEF Tiles
    <2>2. \A f \in X : SpanOf(e) \cap SpanOf(f) = {}
      BY DEF Tiles
    <2>. QED
      BY <1>0, <2>1, <2>2
  <1>3. \A e \in J : SpanOf(e) \in SUBSET Units /\ SpanOf(e) \cap V = {}
    BY <1>0, <1>1, <1>2
  <1>4. ASSUME NEW e \in J, NEW f \in J, e # f PROVE SpanOf(e) \cap SpanOf(f) = {}
    <2>1. CASE e \in Hs \ X /\ f \in Hs \ X
      BY <1>4, <2>1 DEF Tiles
    <2>2. CASE e \in Hs \ X /\ f \in Y
      BY <1>0, <1>2, <2>2
    <2>3. CASE e \in Y /\ f \in Hs \ X
      BY <1>0, <1>2, <2>3
    <2>4. CASE e \in Y /\ f \in Y
      BY <1>0, <1>4, <2>4
    <2>. QED
      BY <2>1, <2>2, <2>3, <2>4
  <1>5. ASSUME NEW u \in Units PROVE u \in V \/ \E e \in J : u \in SpanOf(e)
    <2>1. CASE u \in W
      BY <1>0, <2>1
    <2>2. CASE u \notin W
      <3>1. u \notin U /\ ~\E e \in X : u \in SpanOf(e)
        BY <1>0, <2>2
      <3>2. PICK e \in Hs : u \in SpanOf(e)
        BY <3>1 DEF Tiles
      <3>. QED
        BY <3>1, <3>2
    <2>. QED
      BY <2>1, <2>2
  <1>6. V \in SUBSET Units
    BY <1>0, <1>1
  <1>. HIDE DEF J
  <1>. QED
    BY <1>3, <1>4, <1>5, <1>6, Zenon DEF Tiles, J

\* The heap is sound, as a value.
HeapOK(g, B, D, I, F) ==
    /\ IsCircle(g, B) /\ Tiles(Holdings(I, D, F), FreeUnits(g, B))
    /\ F \in SUBSET PageNos
    /\ \A b \in D : b.bb \in Units /\ b.page \in Nat /\ b.order \in Nat /\ b.page + RunPages(b.order) <= SLOB_PAGES
    /\ \A o \in I : o.size \in Sizes /\ o.ptr \in Int
    /\ \A o \in SmallOf(I, D) : g.units[Header(o.ptr)] = ObjectUnits(o)
    /\ \A o, p \in I : o.ptr = p.ptr => o = p

\* Where the pointers point.
LEMMA PointIn ==
    ASSUME NEW g, NEW B, NEW D, NEW I, NEW F, HeapOK(g, B, D, I, F)
    PROVE  /\ \A o \in SmallOf(I, D) : /\ o.ptr \in SpanOf(<<"small", o>>) /\ Header(o.ptr) \in SpanOf(<<"small", o>>)
                                       /\ ObjectUnits(o) \in Nat /\ ObjectUnits(o) > 1
           /\ \A b \in D : PageAddr(b.page) \in SpanOf(<<"run", b>>)
  <1>1. ASSUME NEW o \in SmallOf(I, D)
        PROVE  /\ o.ptr \in SpanOf(<<"small", o>>) /\ Header(o.ptr) \in SpanOf(<<"small", o>>)
               /\ ObjectUnits(o) \in Nat /\ ObjectUnits(o) > 1
    <2>1. o.size \in Sizes /\ o.ptr \in Int
      BY DEF HeapOK, SmallOf
    <2>2. ObjectUnits(o) \in Nat /\ ObjectUnits(o) > 1
      BY <2>1, SmallUnits DEF ObjectUnits
    <2>3. o.ptr \in Span(Header(o.ptr), ObjectUnits(o)) /\ Header(o.ptr) \in Span(Header(o.ptr), ObjectUnits(o))
      BY <2>1, <2>2 DEF Span, Header
    <2>. QED
      BY <2>2, <2>3, SpansAre
  <1>2. ASSUME NEW b \in D PROVE PageAddr(b.page) \in SpanOf(<<"run", b>>)
    <2>1. b.page \in Nat /\ b.order \in Nat /\ b.page + RunPages(b.order) <= SLOB_PAGES
      BY DEF HeapOK
    <2>2. RunPages(b.order) \in Nat \ {0}
      BY <2>1, RunPagesPos
    <2>3. b.page \in b.page .. (b.page + RunPages(b.order) - 1) /\ b.page \in PageNos
      BY <2>1, <2>2, AddrProps DEF PageNos
    <2>4. PageAddr(b.page) \in UnitsOf(b.page)
      BY <2>3, UnitPages
    <2>. QED
      BY <2>1, <2>2, <2>3, <2>4, RunUnits, SpansAre
  <1>. QED
    BY <1>1, <1>2

\* An address in free memory is no object's and no large object's.
LEMMA PointNew ==
    ASSUME NEW g, NEW B, NEW D, NEW I, NEW F, HeapOK(g, B, D, I, F), NEW x,
           x \in FreeUnits(g, B) \/ \E k \in F : x \in UnitsOf(k)
    PROVE  (\A o \in I : o.ptr # x) /\ (\A b \in D : PageAddr(b.page) # x)
  <1> DEFINE Hs == Holdings(I, D, F)
  <1>1. Tiles(Hs, FreeUnits(g, B))
    BY DEF HeapOK
  <1>2. ASSUME NEW e \in Hs, x \in SpanOf(e) PROVE \E k \in F : e = <<"page", k>>
    <2>1. x \notin FreeUnits(g, B)
      BY <1>1, <1>2 DEF Tiles
    <2>2. PICK k \in F : x \in UnitsOf(k)
      BY <2>1
    <2>3. <<"page", k>> \in Hs /\ x \in SpanOf(<<"page", k>>)
      BY <2>2, SpansAre DEF Holdings
    <2>4. e = <<"page", k>>
      BY <1>1, <1>2, <2>3 DEF Tiles
    <2>. QED
      BY <2>4
  <1>3. ASSUME NEW b \in D PROVE PageAddr(b.page) # x
    <2>1. <<"run", b>> \in Hs /\ \A k : <<"run", b>> # <<"page", k>>
      BY DEF Holdings
    <2>. HIDE DEF Hs
    <2>. QED
      BY <1>2, <2>1, PointIn
  <1>4. ASSUME NEW o \in I PROVE o.ptr # x
    <2>1. CASE o \in SmallOf(I, D)
      <3>1. <<"small", o>> \in Hs /\ \A k : <<"small", o>> # <<"page", k>>
        BY <2>1 DEF Holdings
      <3>. HIDE DEF Hs
      <3>. QED
        BY <1>2, <2>1, <3>1, PointIn
    <2>2. CASE o \notin SmallOf(I, D)
      <3>1. PICK b \in D : PageAddr(b.page) = o.ptr
        BY <2>2 DEF SmallOf
      <3>. QED
        BY <1>3, <3>1
    <2>. QED
      BY <2>1, <2>2
  <1>. QED
    BY <1>3, <1>4

-----------------------------------------------------------------------------
(* slob_alloc.                                                              *)

\* The units free in the heap and in the pages K.
Avail(g, B, K) == FreeUnits(g, B) \cup UNION {UnitsOf(k) : k \in K}

\* The heap t, of blocks C, and n units from blk were made of the heap g and the
\* pages K.
Alloced(g, B, K, n, t, C, blk) ==
    /\ blk \in Units /\ Span(blk, n) \in SUBSET Avail(g, B, K) /\ IsCircle(t, C)
    /\ FreeUnits(t, C) = Avail(g, B, K) \ Span(blk, n) /\ t.units[blk] = n
    /\ \A x \in Addrs : x \notin Avail(g, B, K) => t.units[x] = g.units[x]

LEMMA AllocLeads ==
    ASSUME NEW B, NEW g, g = Heap, IsCircle(g, B), NEW F \in SUBSET PageNos,
           \A k \in F : UnitsOf(k) \cap FreeUnits(g, B) = {},
           NEW n \in Nat, n > 1, n < PAGE, NEW r \in slob_alloc(n, F)
    PROVE  \/ r.block = -1 /\ r.heap = g /\ r.pages = F
           \/ \E C : \E K \in SUBSET F : Alloced(g, B, K, n, r.heap, C, r.block) /\ r.pages = F \ K
  <1>1. CASE Room(g, n) # {}
    <2>1. PICK c : c = Carve(g, n)
      OBVIOUS
    <2>2. r = [heap |-> c.heap, block |-> c.block, pages |-> F]
      BY <1>1, <2>1, Zenon DEF slob_alloc
    <2>3. PICK C : Gave(g, B, c.heap, C, c.block, n)
      BY <1>1, <2>1, CarveGives
    <2>4. Avail(g, B, {}) = FreeUnits(g, B)
      BY DEF Avail
    <2>5. Alloced(g, B, {}, n, c.heap, C, c.block)
      BY <2>3, <2>4, Zenon DEF Gave, Alloced
    <2>. QED
      BY <2>2, <2>5
  <1>2. CASE Room(g, n) = {} /\ F = {}
    <2>1. r = [heap |-> g, block |-> -1, pages |-> F]
      BY <1>2, Zenon DEF slob_alloc
    <2>. QED
      BY <2>1
  <1>3. CASE Room(g, n) = {} /\ F # {}
    <2>1. PICK k : k = CHOOSE p \in F : \A q \in F : p <= q
      OBVIOUS
    <2>2. k \in F
      <3>1. F \in SUBSET Nat
        BY DEF PageNos
      <3>. QED
        BY <1>3, <2>1, <3>1, NatMin
    <2>3. PICK t, c : t = slob_free(g, PageAddr(k), PAGE) /\ c = Carve(t, n)
      OBVIOUS
    <2>4. r = [heap |-> c.heap, block |-> c.block, pages |-> F \ {k}]
      BY <1>3, <2>1, <2>3, Zenon DEF slob_alloc
    <2>5. /\ PageAddr(k) \in Units /\ Span(PageAddr(k), PAGE) \in SUBSET Units
          /\ Span(PageAddr(k), PAGE) \cap FreeUnits(g, B) = {} /\ PageAddr(k) \in UnitsOf(k)
      BY <2>2, UnitPages DEF UnitsOf
    <2>6. PAGE \in Nat \ {0}
      BY AddrProps
    <2>7. PICK E : Freed(g, B, t, E, Span(PageAddr(k), PAGE))
      BY <2>3, <2>5, <2>6, SlobFree, Zenon
    <2>8. Avail(g, B, {k}) = FreeUnits(g, B) \cup Span(PageAddr(k), PAGE)
      BY DEF Avail, UnitsOf
    <2>9. /\ IsCircle(t, E) /\ FreeUnits(t, E) = Avail(g, B, {k})
          /\ \A x \in Addrs : x \notin FreeUnits(t, E) => t.units[x] = g.units[x]
      BY <2>7, <2>8, Zenon DEF Freed
    <2>10. Room(t, n) # {}
      <3>1. IsRing(t, E, {})
        BY <2>9, RingCircle
      <3> DEFINE a0 == PageAddr(k)
      <3>2. \A i \in 0 .. (PAGE - 1) : \E a \in E : a <= a0 + i /\ a0 + i < a + t.units[a]
        <4> SUFFICES ASSUME NEW i \in 0 .. (PAGE - 1)
                     PROVE  \E a \in E : a <= a0 + i /\ a0 + i < a + t.units[a]
          OBVIOUS
        <4>1. a0 + i \in Span(a0, PAGE)
          BY <2>5, <2>6, AddrProps DEF Span
        <4>2. a0 + i \in FreeUnits(t, E)
          BY <2>8, <2>9, <4>1
        <4>. QED
          BY <4>2 DEF FreeUnits
      <3>3. PICK a \in E : a <= a0 /\ a0 < a + t.units[a]
        <4>1. 0 \in 0 .. (PAGE - 1) /\ a0 + 0 = a0
          BY <2>5, <2>6, AddrProps
        <4>. QED
          BY <3>2, <4>1
      <3>4. a0 \in Int /\ a \in Int /\ t.units[a] \in Nat /\ PAGE \in Nat /\ PAGE > 1
        BY <2>5, <3>1, AddrProps, RingProps
      <3>. HIDE DEF a0
      <3>5. a0 + (PAGE - 1) < a + t.units[a]
        <4> SUFFICES ASSUME a + t.units[a] <= a0 + (PAGE - 1) PROVE FALSE
          BY <3>4
        <4> DEFINE i == a + t.units[a] - a0
        <4>1. i \in 0 .. (PAGE - 1) /\ a0 + i = a + t.units[a]
          BY <3>3, <3>4
        <4>2. PICK b \in E : b <= a + t.units[a] /\ a + t.units[a] < b + t.units[b]
          <5>. HIDE DEF i
          <5>. QED
            BY <3>2, <4>1
        <4>3. b \in Int /\ t.units[b] \in Nat
          BY <3>1, RingProps
        <4>4. a < b
          <5>1. ~(b < a)
            <6> SUFFICES ASSUME b < a PROVE FALSE
              OBVIOUS
            <6>1. b + t.units[b] < a
              BY <3>1, RingProps
            <6>. QED
              BY <3>4, <4>2, <4>3, <6>1
          <5>. QED
            BY <3>4, <4>2, <4>3, <5>1
        <4>5. a + t.units[a] < b
          BY <3>1, <4>4, RingProps
        <4>. QED
          BY <3>4, <4>2, <4>3, <4>5
      <3>6. t.units[a] >= n
        BY <3>3, <3>4, <3>5
      <3>. QED
        BY <2>9, <3>6, RoomIn
    <2>11. PICK C : Gave(t, E, c.heap, C, c.block, n)
      BY <2>3, <2>9, <2>10, CarveGives
    <2>12. Alloced(g, B, {k}, n, c.heap, C, c.block)
      BY <2>9, <2>11, Zenon DEF Gave, Alloced
    <2>13. {k} \in SUBSET F
      BY <2>2
    <2>. QED
      BY <2>4, <2>12, <2>13
  <1>. QED
    BY <1>1, <1>2, <1>3

-----------------------------------------------------------------------------
(* What kmalloc and kfree do to the holdings.                                *)

\* The pages K as holdings, and the units they have.
PageItems(K) == {<<"page", k>> : k \in K}

LEMMA PageItemsAvail ==
    ASSUME NEW g, NEW B, NEW D, NEW I, NEW F, HeapOK(g, B, D, I, F), NEW K \in SUBSET F
    PROVE  /\ PageItems(K) \in SUBSET Holdings(I, D, F)
           /\ \A u : u \in Avail(g, B, K) <=> u \in FreeUnits(g, B) \/ \E e \in PageItems(K) : u \in SpanOf(e)
           /\ \A e \in Holdings(I, D, F) : e \notin PageItems(K) => SpanOf(e) \cap Avail(g, B, K) = {}
           /\ \A k \in F : UnitsOf(k) \cap FreeUnits(g, B) = {}
           /\ Avail(g, B, K) \in SUBSET Units
  <1> DEFINE Hs == Holdings(I, D, F)
  <1>1. PageItems(K) \in SUBSET Hs
    BY DEF PageItems, Holdings
  <1>2. ASSUME NEW u PROVE u \in Avail(g, B, K) <=> u \in FreeUnits(g, B) \/ \E e \in PageItems(K) : u \in SpanOf(e)
    <2>1. (\E k \in K : u \in UnitsOf(k)) <=> \E e \in PageItems(K) : u \in SpanOf(e)
      BY SpansAre DEF PageItems
    <2>. QED
      BY <2>1 DEF Avail
  <1>3. Tiles(Hs, FreeUnits(g, B))
    BY DEF HeapOK
  <1>4. \A k \in F : UnitsOf(k) \cap FreeUnits(g, B) = {}
    <2>1. \A k \in F : <<"page", k>> \in Hs
      BY DEF Holdings
    <2>. HIDE DEF Hs
    <2>. QED
      BY <1>3, <2>1, SpansAre DEF Tiles
  <1>. HIDE DEF Hs
  <1>5. ASSUME NEW e \in Hs, e \notin PageItems(K) PROVE SpanOf(e) \cap Avail(g, B, K) = {}
    <2>1. SpanOf(e) \cap FreeUnits(g, B) = {} /\ \A f \in PageItems(K) : SpanOf(e) \cap SpanOf(f) = {}
      BY <1>1, <1>3, <1>5 DEF Tiles
    <2>. QED
      BY <1>2, <2>1
  <1>6. Avail(g, B, K) \in SUBSET Units
    BY <1>1, <1>2, <1>3 DEF Tiles
  <1>. QED
    BY <1>1, <1>2, <1>4, <1>5, <1>6 DEF Hs

\* The headers of objects stay as they are when only free units are written.
LEMMA HeadersKept ==
    ASSUME NEW g, NEW B, NEW D, NEW I, NEW F, HeapOK(g, B, D, I, F), NEW K \in SUBSET F, NEW t,
           \A x \in Addrs : x \notin Avail(g, B, K) => t.units[x] = g.units[x]
    PROVE  \A o \in SmallOf(I, D) : t.units[Header(o.ptr)] = ObjectUnits(o)
  <1> SUFFICES ASSUME NEW o \in SmallOf(I, D) PROVE t.units[Header(o.ptr)] = ObjectUnits(o)
    OBVIOUS
  <1>1. <<"small", o>> \in Holdings(I, D, F) /\ <<"small", o>> \notin PageItems(K)
    BY DEF Holdings, PageItems
  <1>2. Header(o.ptr) \in SpanOf(<<"small", o>>)
    BY PointIn
  <1>3. Header(o.ptr) \notin Avail(g, B, K)
    BY <1>1, <1>2, PageItemsAvail
  <1>4. SpanOf(<<"small", o>>) \in SUBSET Units
    BY <1>1, Zenon DEF HeapOK, Tiles
  <1>5. Header(o.ptr) \in Addrs
    BY <1>2, <1>4 DEF Addrs
  <1>6. g.units[Header(o.ptr)] = ObjectUnits(o)
    BY DEF HeapOK
  <1>. QED
    BY <1>3, <1>5, <1>6

\* The parts of HeapOK, for the lemmas below.
LEMMA HeapParts ==
    ASSUME NEW g, NEW B, NEW D, NEW I, NEW F, HeapOK(g, B, D, I, F)
    PROVE  /\ Tiles(Holdings(I, D, F), FreeUnits(g, B)) /\ IsCircle(g, B)
           /\ F \in SUBSET PageNos
           /\ \A b \in D : b.bb \in Units /\ b.page \in Nat /\ b.order \in Nat /\ b.page + RunPages(b.order) <= SLOB_PAGES
           /\ \A o \in I : o.size \in Sizes /\ o.ptr \in Int
           /\ \A o \in SmallOf(I, D) : g.units[Header(o.ptr)] = ObjectUnits(o)
           /\ \A o, p \in I : o.ptr = p.ptr => o = p
  BY DEF HeapOK

LEMMA AllocedParts ==
    ASSUME NEW g, NEW B, NEW K, NEW n, NEW t, NEW C, NEW blk, Alloced(g, B, K, n, t, C, blk)
    PROVE  /\ blk \in Units /\ Span(blk, n) \in SUBSET Avail(g, B, K) /\ IsCircle(t, C)
           /\ FreeUnits(t, C) = Avail(g, B, K) \ Span(blk, n) /\ t.units[blk] = n
           /\ \A x \in Addrs : x \notin Avail(g, B, K) => t.units[x] = g.units[x]
  BY DEF Alloced

\* A small object is handed out.
LEMMA AddSmall ==
    ASSUME NEW g, NEW B, NEW D, NEW I, NEW F, HeapOK(g, B, D, I, F), NEW K \in SUBSET F, NEW t, NEW C, NEW blk,
           NEW size \in Sizes, Alloced(g, B, K, SLOB_UNITS(size + SLOB_UNIT), t, C, blk),
           NEW o, o = [ptr |-> blk + 1, size |-> size]
    PROVE  HeapOK(t, C, D, I \cup {o}, F \ K)
  <1> DEFINE n == SLOB_UNITS(size + SLOB_UNIT)
             Hs == Holdings(I, D, F)
             W == Avail(g, B, K)
             V == FreeUnits(t, C)
  <1>1. n \in Nat /\ n > 1 /\ n = ObjectUnits(o) /\ Header(o.ptr) = blk /\ o.ptr = blk + 1 /\ o.size = size /\ blk \in Int
    <2>1. blk \in Int
      BY AllocedParts, AddrProps
    <2>2. n = ObjectUnits(o)
      BY DEF ObjectUnits
    <2>. QED
      BY <2>1, <2>2, SmallUnits DEF Header
  <1>2. SpanOf(<<"small", o>>) = Span(blk, n)
    BY <1>1, SpansAre
  <1>. HIDE DEF n
  <1>3. o.ptr \in W
    <2>1. o.ptr \in Span(blk, n)
      BY <1>1 DEF Span
    <2>. QED
      BY <2>1, AllocedParts DEF n
  <1>4. (\A p \in I : p.ptr # o.ptr) /\ \A b \in D : PageAddr(b.page) # o.ptr
    <2>1. o.ptr \in FreeUnits(g, B) \/ \E k \in F : o.ptr \in UnitsOf(k)
      BY <1>3 DEF Avail
    <2>. QED
      BY <2>1, PointNew
  <1>5. SmallOf(I \cup {o}, D) = SmallOf(I, D) \cup {o}
    BY <1>4 DEF SmallOf
  <1>6. Holdings(I \cup {o}, D, F \ K) = (Hs \ PageItems(K)) \cup {<<"small", o>>}
    BY <1>5 DEF Holdings, PageItems
  <1>7. Tiles((Hs \ PageItems(K)) \cup {<<"small", o>>}, V)
    <2>1. Tiles(Hs, FreeUnits(g, B)) /\ PageItems(K) \in SUBSET Hs
      BY HeapParts, PageItemsAvail
    <2>2. \A u : u \in W <=> u \in FreeUnits(g, B) \/ \E e \in PageItems(K) : u \in SpanOf(e)
      BY PageItemsAvail
    <2>3. V = W \ Span(blk, n) /\ Span(blk, n) \in SUBSET W
      BY AllocedParts DEF n
    <2>. HIDE DEF Hs, V, W
    <2>4. Exchange(FreeUnits(g, B), PageItems(K), W, {<<"small", o>>}, V)
      BY <1>2, <2>2, <2>3 DEF Exchange
    <2>. QED
      BY <2>1, <2>4, Retile
  <1>8. \A p \in SmallOf(I, D) \cup {o} : t.units[Header(p.ptr)] = ObjectUnits(p)
    <2>1. \A p \in SmallOf(I, D) : t.units[Header(p.ptr)] = ObjectUnits(p)
      BY AllocedParts, HeadersKept
    <2>2. t.units[blk] = n
      BY AllocedParts DEF n
    <2>. QED
      BY <1>1, <2>1, <2>2
  <1>9. IsCircle(t, C) /\ F \ K \in SUBSET PageNos
    BY AllocedParts, HeapParts
  <1>10. \A p \in I \cup {o} : p.size \in Sizes /\ p.ptr \in Int
    BY <1>1, HeapParts
  <1>11. \A p, q \in I \cup {o} : p.ptr = q.ptr => p = q
    BY <1>4, HeapParts
  <1>12. \A b \in D : b.bb \in Units /\ b.page \in Nat /\ b.order \in Nat /\ b.page + RunPages(b.order) <= SLOB_PAGES
    BY HeapParts
  <1>. HIDE DEF Hs, V, W
  <1>. QED
    BY <1>5, <1>6, <1>7, <1>8, <1>9, <1>10, <1>11, <1>12, Zenon DEF HeapOK, V

\* What was handed out comes back.
LEMMA AddNone ==
    ASSUME NEW g, NEW B, NEW D, NEW I, NEW F, HeapOK(g, B, D, I, F), NEW K \in SUBSET F, NEW t, NEW C, NEW blk,
           NEW n \in Nat \ {0}, Alloced(g, B, K, n, t, C, blk)
    PROVE  \E E : HeapOK(slob_free(t, blk, n), E, D, I, F \ K)
  <1> DEFINE Hs == Holdings(I, D, F)
             W == Avail(g, B, K)
             h == slob_free(t, blk, n)
  <1>1. PICK E : Freed(t, C, h, E, Span(blk, n))
    <2>1. /\ blk \in Units /\ Span(blk, n) \in SUBSET Units /\ IsCircle(t, C)
          /\ Span(blk, n) \cap FreeUnits(t, C) = {}
      BY AllocedParts, PageItemsAvail
    <2>. QED
      BY <2>1, SlobFree
  <1>2. FreeUnits(h, E) = W /\ IsCircle(h, E)
    BY <1>1, AllocedParts DEF Freed
  <1>3. \A x \in Addrs : x \notin W => h.units[x] = g.units[x]
    <2>1. \A x \in Addrs : x \notin W => h.units[x] = t.units[x]
      BY <1>1, <1>2 DEF Freed
    <2>. QED
      BY <2>1, AllocedParts
  <1>5. Holdings(I, D, F \ K) = (Hs \ PageItems(K)) \cup {}
    BY DEF Holdings, PageItems
  <1>6. Tiles((Hs \ PageItems(K)) \cup {}, W)
    <2>1. Tiles(Hs, FreeUnits(g, B)) /\ PageItems(K) \in SUBSET Hs
      BY HeapParts, PageItemsAvail
    <2>2. \A u : u \in W <=> u \in FreeUnits(g, B) \/ \E e \in PageItems(K) : u \in SpanOf(e)
      BY PageItemsAvail
    <2>. HIDE DEF Hs, W
    <2>3. Exchange(FreeUnits(g, B), PageItems(K), W, {}, W)
      BY <2>2 DEF Exchange
    <2>. QED
      BY <2>1, <2>3, Retile
  <1>7. \A p \in SmallOf(I, D) : h.units[Header(p.ptr)] = ObjectUnits(p)
    <2>. HIDE DEF h
    <2>. QED
      BY <1>3, HeadersKept
  <1>8. F \ K \in SUBSET PageNos
    BY HeapParts
  <1>. HIDE DEF Hs, W, h
  <1>9. HeapOK(h, E, D, I, F \ K)
    BY <1>2, <1>5, <1>6, <1>7, <1>8, HeapParts DEF HeapOK
  <1>. QED
    BY <1>9 DEF h

\* The pages of a run.
RunOf(b) == b.page .. (b.page + RunPages(b.order) - 1)

LEMMA RunItems ==
    ASSUME NEW b, b.page \in Nat, b.order \in Nat, b.page + RunPages(b.order) <= SLOB_PAGES
    PROVE  /\ RunOf(b) \in SUBSET PageNos /\ b.page \in RunOf(b)
           /\ \A u : u \in SpanOf(<<"run", b>>) <=> \E e \in PageItems(RunOf(b)) : u \in SpanOf(e)
           /\ \A e, f \in PageItems(RunOf(b)) : e # f => SpanOf(e) \cap SpanOf(f) = {}
  <1>1. RunPages(b.order) \in Nat \ {0}
    BY RunPagesPos
  <1>2. /\ RunOf(b) \in SUBSET PageNos
        /\ \A u : u \in Span(PageAddr(b.page), PAGE * RunPages(b.order)) <=> \E j \in RunOf(b) : u \in UnitsOf(j)
    BY <1>1, RunUnits DEF RunOf
  <1>3. b.page \in RunOf(b)
    BY <1>1 DEF RunOf
  <1>4. ASSUME NEW u
        PROVE  (\E j \in RunOf(b) : u \in UnitsOf(j)) <=> \E e \in PageItems(RunOf(b)) : u \in SpanOf(e)
    BY SpansAre DEF PageItems
  <1>5. ASSUME NEW e \in PageItems(RunOf(b)), NEW f \in PageItems(RunOf(b)), e # f
        PROVE  SpanOf(e) \cap SpanOf(f) = {}
    <2>1. PICK j \in RunOf(b), k \in RunOf(b) : e = <<"page", j>> /\ f = <<"page", k>>
      BY DEF PageItems
    <2>2. j # k /\ SpanOf(e) = UnitsOf(j) /\ SpanOf(f) = UnitsOf(k)
      BY <1>5, <2>1, SpansAre
    <2>. QED
      BY <1>2, <2>2, UnitPages
  <1>. QED
    BY <1>2, <1>3, <1>4, <1>5, SpansAre

\* A large object is handed out: a descriptor, and a run of pages.
LEMMA AddBig ==
    ASSUME NEW g, NEW B, NEW D, NEW I, NEW F, HeapOK(g, B, D, I, F), NEW K \in SUBSET F, NEW t, NEW C, NEW blk,
           NEW size \in Sizes, Alloced(g, B, K, BIGBLOCK, t, C, blk), NEW k \in Nat, NEW order \in Nat,
           NEW b, b = [bb |-> blk, page |-> k, order |-> order], RunOf(b) \in SUBSET (F \ K),
           NEW o, o = [ptr |-> PageAddr(k), size |-> size]
    PROVE  HeapOK(t, C, D \cup {b}, I \cup {o}, (F \ K) \ RunOf(b))
  <1> DEFINE Hs == Holdings(I, D, F)
             R == RunOf(b)
             P == PageItems(K \cup R)
             W == Avail(g, B, K \cup R)
             V == FreeUnits(t, C)
             Y == {<<"desc", b>>, <<"run", b>>}
  <1>1. b.bb = blk /\ b.page = k /\ b.order = order /\ o.ptr = PageAddr(k) /\ o.size = size
    OBVIOUS
  <1>2. RunPages(order) \in Nat \ {0} /\ k + RunPages(order) <= SLOB_PAGES
    <2>1. RunPages(order) \in Nat \ {0}
      BY RunPagesPos
    <2>2. k + RunPages(order) - 1 \in R
      BY <1>1, <2>1 DEF RunOf
    <2>3. k + RunPages(order) - 1 \in PageNos
      BY <2>2, HeapParts
    <2>. QED
      BY <2>1, <2>3, AddrProps DEF PageNos
  <1>3. /\ R \in SUBSET PageNos /\ k \in R
        /\ \A u : u \in SpanOf(<<"run", b>>) <=> \E e \in PageItems(R) : u \in SpanOf(e)
    BY <1>1, <1>2, RunItems
  <1>4. K \cup R \in SUBSET F /\ k \in F
    BY <1>3
  <1>5. PageAddr(k) \in UnitsOf(k)
    BY <1>3, UnitPages
  <1>6. (\A p \in I : p.ptr # PageAddr(k)) /\ \A c \in D : PageAddr(c.page) # PageAddr(k)
    BY <1>4, <1>5, PointNew
  <1>7. SmallOf(I \cup {o}, D \cup {b}) = SmallOf(I, D)
    BY <1>1, <1>6 DEF SmallOf
  <1>8. Holdings(I \cup {o}, D \cup {b}, (F \ K) \ R) = (Hs \ P) \cup Y
    <2>. HIDE DEF R
    <2>. QED
      BY <1>7 DEF Holdings, PageItems
  <1>9. /\ \A u : u \in W <=> u \in FreeUnits(g, B) \/ \E e \in P : u \in SpanOf(e)
        /\ Tiles(Hs, FreeUnits(g, B)) /\ P \in SUBSET Hs
    <2>1. Tiles(Hs, FreeUnits(g, B))
      BY HeapParts
    <2> DEFINE Q == K \cup R
    <2>2. Q \in SUBSET F
      BY <1>4
    <2>. HIDE DEF Q, Hs
    <2>3. /\ \A u : u \in Avail(g, B, Q) <=> u \in FreeUnits(g, B) \/ \E e \in PageItems(Q) : u \in SpanOf(e)
          /\ PageItems(Q) \in SUBSET Holdings(I, D, F)
      BY <2>2, PageItemsAvail
    <2>. QED
      BY <2>1, <2>3 DEF Q, Hs
  <1>10. \A u : u \in W <=> u \in Avail(g, B, K) \/ u \in SpanOf(<<"run", b>>)
    <2>1. \A u : u \in W <=> u \in Avail(g, B, K) \/ \E j \in R : u \in UnitsOf(j)
      BY DEF Avail
    <2>2. \A u : (\E j \in R : u \in UnitsOf(j)) <=> \E e \in PageItems(R) : u \in SpanOf(e)
      BY SpansAre DEF PageItems
    <2>. HIDE DEF W, R
    <2>. QED
      BY <1>3, <2>1, <2>2
  <1>11. SpanOf(<<"run", b>>) \cap Avail(g, B, K) = {}
    <2>1. \A e \in PageItems(R) : e \in Hs /\ e \notin PageItems(K)
      <3>1. \A j \in R : j \in F /\ j \notin K
        BY <1>4
      <3>. HIDE DEF R
      <3>. QED
        BY <3>1 DEF PageItems, Holdings
    <2>2. \A e \in PageItems(R) : SpanOf(e) \cap Avail(g, B, K) = {}
      <3>. HIDE DEF R
      <3>. QED
        BY <2>1, PageItemsAvail
    <2>. HIDE DEF R, Hs
    <2>. QED
      BY <1>3, <2>2
  <1>12. SpanOf(<<"desc", b>>) = Span(blk, BIGBLOCK)
    BY <1>1, SpansAre
  <1>13. V = Avail(g, B, K) \ Span(blk, BIGBLOCK) /\ Span(blk, BIGBLOCK) \in SUBSET Avail(g, B, K)
    BY AllocedParts
  <1>14. Exchange(FreeUnits(g, B), P, W, Y, V)
    <2>1. V \in SUBSET W /\ SpanOf(<<"desc", b>>) \in SUBSET W /\ SpanOf(<<"run", b>>) \in SUBSET W
      <3>. HIDE DEF V, W
      <3>. QED
        BY <1>10, <1>12, <1>13
    <2>2. /\ SpanOf(<<"desc", b>>) \cap V = {} /\ SpanOf(<<"run", b>>) \cap V = {}
          /\ SpanOf(<<"run", b>>) \cap SpanOf(<<"desc", b>>) = {}
      <3>. HIDE DEF V
      <3>. QED
        BY <1>11, <1>12, <1>13
    <2>3. \A u \in W : u \in V \/ u \in SpanOf(<<"desc", b>>) \/ u \in SpanOf(<<"run", b>>)
      <3>. HIDE DEF V, W
      <3>. QED
        BY <1>10, <1>12, <1>13
    <2>. HIDE DEF V, W, P
    <2>. QED
      BY <1>9, <2>1, <2>2, <2>3 DEF Exchange
  <1>15. Tiles((Hs \ P) \cup Y, V)
    <2>. HIDE DEF V, W, P, Y, Hs
    <2>. QED
      BY <1>9, <1>14, Retile
  <1>16. \A p \in SmallOf(I, D) : t.units[Header(p.ptr)] = ObjectUnits(p)
    BY AllocedParts, HeadersKept
  <1>17. IsCircle(t, C) /\ (F \ K) \ R \in SUBSET PageNos
    BY AllocedParts, HeapParts
  <1>18. \A p \in I \cup {o} : p.size \in Sizes /\ p.ptr \in Int
    <2>1. o.ptr \in Int
      BY <1>1, AddrProps DEF PageAddr
    <2>. QED
      BY <1>1, <2>1, HeapParts
  <1>19. \A p, q \in I \cup {o} : p.ptr = q.ptr => p = q
    BY <1>1, <1>6, HeapParts
  <1>20. \A c \in D \cup {b} : c.bb \in Units /\ c.page \in Nat /\ c.order \in Nat /\ c.page + RunPages(c.order) <= SLOB_PAGES
    BY <1>1, <1>2, HeapParts, AllocedParts
  <1>. HIDE DEF Hs, W, V, P, Y, R
  <1>21. IsCircle(t, C) /\ Tiles(Holdings(I \cup {o}, D \cup {b}, (F \ K) \ R), FreeUnits(t, C))
    BY <1>8, <1>15, <1>17 DEF V
  <1>22. HeapOK(t, C, D \cup {b}, I \cup {o}, (F \ K) \ R)
    BY <1>7, <1>16, <1>17, <1>18, <1>19, <1>20, <1>21, Zenon DEF HeapOK
  <1>. QED
    BY <1>22 DEF R

\* A small object comes back.
LEMMA DropSmall ==
    ASSUME NEW g, NEW B, NEW D, NEW I, NEW F, HeapOK(g, B, D, I, F), NEW o \in SmallOf(I, D)
    PROVE  \E E : HeapOK(slob_free(g, Header(o.ptr), g.units[Header(o.ptr)]), E, D, I \ {o}, F)
  <1> DEFINE Hs == Holdings(I, D, F)
             a == Header(o.ptr)
             n == ObjectUnits(o)
             h == slob_free(g, a, n)
             U == FreeUnits(g, B)
  <1>1. g.units[a] = n /\ o \in I
    BY HeapParts DEF SmallOf
  <1>2. Tiles(Hs, U) /\ IsCircle(g, B) /\ <<"small", o>> \in Hs
    BY HeapParts DEF Holdings
  <1>3. SpanOf(<<"small", o>>) = Span(a, n) /\ a \in Span(a, n) /\ n \in Nat \ {0}
    BY PointIn, SpansAre
  <1>. HIDE DEF a, n, U, Hs
  <1>4. Span(a, n) \in SUBSET Units /\ Span(a, n) \cap U = {} /\ a \in Units
    BY <1>2, <1>3 DEF Tiles
  <1>5. PICK E : Freed(g, B, h, E, Span(a, n))
    BY <1>2, <1>3, <1>4, SlobFree DEF U
  <1>6. /\ FreeUnits(h, E) = U \cup Span(a, n) /\ IsCircle(h, E)
        /\ \A x \in Addrs : x \notin FreeUnits(h, E) => h.units[x] = g.units[x]
    BY <1>5 DEF Freed, U
  <1>7. SmallOf(I \ {o}, D) = SmallOf(I, D) \ {o}
    BY DEF SmallOf
  <1>8. Holdings(I \ {o}, D, F) = (Hs \ {<<"small", o>>}) \cup {}
    BY <1>7 DEF Holdings, Hs
  <1>9. Tiles((Hs \ {<<"small", o>>}) \cup {}, FreeUnits(h, E))
    <2>. HIDE DEF h
    <2>1. Exchange(U, {<<"small", o>>}, FreeUnits(h, E), {}, FreeUnits(h, E))
      BY <1>3, <1>6 DEF Exchange
    <2>. QED
      BY <1>2, <2>1, Retile
  <1>10. ASSUME NEW p \in SmallOf(I, D) \ {o} PROVE h.units[Header(p.ptr)] = ObjectUnits(p)
    <2>1. <<"small", p>> \in Hs /\ <<"small", p>> # <<"small", o>>
      BY DEF Holdings, Hs
    <2>2. SpanOf(<<"small", p>>) \cap Span(a, n) = {} /\ SpanOf(<<"small", p>>) \cap U = {} /\ SpanOf(<<"small", p>>) \in SUBSET Units
      BY <1>2, <1>3, <2>1 DEF Tiles
    <2>3. Header(p.ptr) \in SpanOf(<<"small", p>>)
      BY PointIn
    <2>4. g.units[Header(p.ptr)] = ObjectUnits(p)
      BY HeapParts
    <2>5. Header(p.ptr) \in Addrs /\ Header(p.ptr) \notin FreeUnits(h, E)
      <3>. HIDE DEF h
      <3>. QED
        BY <1>6, <2>2, <2>3 DEF Addrs
    <2>. HIDE DEF h
    <2>. QED
      BY <1>6, <2>4, <2>5
  <1>11. /\ \A p \in I \ {o} : p.size \in Sizes /\ p.ptr \in Int
         /\ \A p, q \in I \ {o} : p.ptr = q.ptr => p = q
         /\ \A b \in D : b.bb \in Units /\ b.page \in Nat /\ b.order \in Nat /\ b.page + RunPages(b.order) <= SLOB_PAGES
         /\ F \in SUBSET PageNos
    BY HeapParts
  <1>12. IsCircle(h, E) /\ Tiles(Holdings(I \ {o}, D, F), FreeUnits(h, E))
    BY <1>6, <1>8, <1>9
  <1>13. \A p \in SmallOf(I \ {o}, D) : h.units[Header(p.ptr)] = ObjectUnits(p)
    BY <1>7, <1>10
  <1>14. h = slob_free(g, Header(o.ptr), g.units[Header(o.ptr)])
    BY <1>1 DEF a
  <1>. HIDE DEF h
  <1>15. HeapOK(h, E, D, I \ {o}, F)
    BY <1>11, <1>12, <1>13, Zenon DEF HeapOK
  <1>. QED
    BY <1>14, <1>15

\* A large object comes back: its descriptor to the heap, its pages to the free ones.
LEMMA DropBig ==
    ASSUME NEW g, NEW B, NEW D, NEW I, NEW F, HeapOK(g, B, D, I, F), NEW o \in I, NEW b \in D,
           PageAddr(b.page) = o.ptr
    PROVE  \E E : HeapOK(slob_free(g, b.bb, BIGBLOCK), E, D \ {b}, I \ {o}, F \cup RunOf(b))
  <1> DEFINE Hs == Holdings(I, D, F)
             R == RunOf(b)
             h == slob_free(g, b.bb, BIGBLOCK)
             U == FreeUnits(g, B)
             X == {<<"desc", b>>, <<"run", b>>}
  <1>1. Tiles(Hs, U) /\ IsCircle(g, B) /\ X \in SUBSET Hs
    BY HeapParts DEF Holdings
  <1>2. SpanOf(<<"desc", b>>) = Span(b.bb, BIGBLOCK)
    BY SpansAre
  <1>3. b.page \in Nat /\ b.order \in Nat /\ b.page + RunPages(b.order) <= SLOB_PAGES
    BY HeapParts
  <1>4. /\ R \in SUBSET PageNos
        /\ \A u : u \in SpanOf(<<"run", b>>) <=> \E e \in PageItems(R) : u \in SpanOf(e)
        /\ \A e, f \in PageItems(R) : e # f => SpanOf(e) \cap SpanOf(f) = {}
    BY <1>3, RunItems
  <1>. HIDE DEF Hs, R, h, U
  <1>5. /\ Span(b.bb, BIGBLOCK) \in SUBSET Units /\ Span(b.bb, BIGBLOCK) \cap U = {}
        /\ SpanOf(<<"run", b>>) \cap U = {} /\ SpanOf(<<"run", b>>) \cap Span(b.bb, BIGBLOCK) = {}
    <2>1. <<"desc", b>> # <<"run", b>> /\ <<"desc", b>> \in Hs /\ <<"run", b>> \in Hs
      BY <1>1
    <2>. QED
      BY <1>1, <1>2, <2>1 DEF Tiles
  <1>6. b.bb \in Units /\ BIGBLOCK \in Nat \ {0}
    BY HeapParts, AddrProps
  <1>7. PICK E : Freed(g, B, h, E, Span(b.bb, BIGBLOCK))
    BY <1>1, <1>5, <1>6, SlobFree DEF U, h
  <1> DEFINE V == FreeUnits(h, E)
             W == V \cup SpanOf(<<"run", b>>)
             Y == PageItems(R)
  <1>8. /\ V = U \cup Span(b.bb, BIGBLOCK) /\ IsCircle(h, E)
        /\ \A x \in Addrs : x \notin V => h.units[x] = g.units[x]
    BY <1>7 DEF Freed, U
  <1>9. SmallOf(I \ {o}, D \ {b}) = SmallOf(I, D)
    <2>1. \A p \in I : PageAddr(b.page) = p.ptr => p = o
      BY HeapParts
    <2>. QED
      BY <2>1 DEF SmallOf
  <1>10. Holdings(I \ {o}, D \ {b}, F \cup R) = (Hs \ X) \cup Y
    BY <1>9 DEF Holdings, PageItems, Hs
  <1>11. Exchange(U, X, W, Y, V)
    <2>1. /\ \A u : u \in W <=> u \in V \/ u \in SpanOf(<<"run", b>>)
          /\ \A u : u \in W <=> u \in U \/ u \in SpanOf(<<"desc", b>>) \/ u \in SpanOf(<<"run", b>>)
      BY <1>2, <1>8
    <2>2. \A e \in Y : SpanOf(e) \in SUBSET SpanOf(<<"run", b>>)
      <3> SUFFICES ASSUME NEW e \in Y, NEW u \in SpanOf(e) PROVE u \in SpanOf(<<"run", b>>)
        OBVIOUS
      <3>. QED
        BY <1>4
    <2>3. SpanOf(<<"run", b>>) \cap V = {}
      BY <1>5, <1>8
    <2>4. \A u : u \in W <=> u \in U \/ \E e \in X : u \in SpanOf(e)
      BY <2>1
    <2>5. \A u \in W : u \in V \/ \E e \in Y : u \in SpanOf(e)
      BY <1>4, <2>1
    <2>. HIDE DEF V, W, Y, X
    <2>6. V \in SUBSET W /\ \A e \in Y : SpanOf(e) \in SUBSET W /\ SpanOf(e) \cap V = {}
      BY <2>1, <2>2, <2>3
    <2>7. \A e, f \in Y : e # f => SpanOf(e) \cap SpanOf(f) = {}
      BY <1>4 DEF Y
    <2>. QED
      BY <2>4, <2>5, <2>6, <2>7, Zenon DEF Exchange
  <1>12. Tiles((Hs \ X) \cup Y, V)
    <2>. HIDE DEF V, W, X, Y
    <2>. QED
      BY <1>1, <1>11, Retile
  <1>13. ASSUME NEW p \in SmallOf(I, D) PROVE h.units[Header(p.ptr)] = ObjectUnits(p)
    <2>1. <<"small", p>> \in Hs /\ <<"small", p>> # <<"desc", b>> /\ <<"desc", b>> \in Hs
      BY <1>1 DEF Holdings, Hs
    <2>2. /\ SpanOf(<<"small", p>>) \cap Span(b.bb, BIGBLOCK) = {} /\ SpanOf(<<"small", p>>) \cap U = {}
          /\ SpanOf(<<"small", p>>) \in SUBSET Units
      BY <1>1, <1>2, <2>1 DEF Tiles
    <2>3. Header(p.ptr) \in SpanOf(<<"small", p>>) /\ g.units[Header(p.ptr)] = ObjectUnits(p)
      BY PointIn, HeapParts
    <2>4. Header(p.ptr) \in Addrs /\ Header(p.ptr) \notin V
      <3>. HIDE DEF V
      <3>. QED
        BY <1>8, <2>2, <2>3 DEF Addrs
    <2>. HIDE DEF V
    <2>. QED
      BY <1>8, <2>3, <2>4
  <1>14. /\ \A p \in I \ {o} : p.size \in Sizes /\ p.ptr \in Int
         /\ \A p, q \in I \ {o} : p.ptr = q.ptr => p = q
         /\ \A c \in D \ {b} : c.bb \in Units /\ c.page \in Nat /\ c.order \in Nat /\ c.page + RunPages(c.order) <= SLOB_PAGES
    BY HeapParts
  <1>15. F \cup R \in SUBSET PageNos
    BY <1>4, HeapParts
  <1>16. \A p \in SmallOf(I \ {o}, D \ {b}) : h.units[Header(p.ptr)] = ObjectUnits(p)
    BY <1>9, <1>13
  <1>17. Tiles(Holdings(I \ {o}, D \ {b}, F \cup R), FreeUnits(h, E))
    BY <1>10, <1>12
  <1>. HIDE DEF V, W, X, Y
  <1>18. HeapOK(h, E, D \ {b}, I \ {o}, F \cup R)
    BY <1>8, <1>14, <1>15, <1>16, <1>17, Zenon DEF HeapOK
  <1>. QED
    BY <1>18 DEF h, R

-----------------------------------------------------------------------------
(* The steps.                                                               *)

SlobIInv == \E B : HeapOK(Heap, B, bigblocks, inuse, free_pages)

LEMMA SlobInitIInv ==
    ASSUME SlobInit
    PROVE  SlobIInv
  <1> DEFINE B == {arena}
             g == Heap
  <1>1. /\ g = [units |-> g.units, next |-> g.next, slobfree |-> g.slobfree]
        /\ g.units \in [Addrs -> Nat] /\ g.next \in [Addrs -> Addrs]
        /\ g.units[arena] = 1 /\ g.next[arena] = arena /\ g.slobfree = arena
    BY AddrProps DEF SlobInit, Heap
  <1>. HIDE DEF g
  <1>2. IsCircle(g, B)
    <2>1. B \in SUBSET Addrs /\ arena \in B /\ g.slobfree \in B
      BY <1>1, AddrProps
    <2>2. \A a \in B : g.units[a] # 0 /\ a + g.units[a] <= Top
      BY <1>1, AddrProps
    <2>3. \A a, b \in B : a < b => a + g.units[a] < b
      BY AddrProps
    <2>4. \A a \in B : IsNext(B, a, g.next[a])
      BY <1>1, AddrProps DEF IsNext
    <2>. QED
      BY <1>1, <2>1, <2>2, <2>3, <2>4, Zenon DEF IsCircle
  <1>3. FreeUnits(g, B) = {}
    BY <1>1, AddrProps DEF FreeUnits
  <1>4. bigblocks = {} /\ inuse = {} /\ free_pages = PageNos
    BY DEF SlobInit, PageNos
  <1>5. SmallOf({}, {}) = {}
    BY DEF SmallOf
  <1>6. Tiles(Holdings({}, {}, PageNos), {})
    <2>1. Holdings({}, {}, PageNos) = PageItems(PageNos)
      BY <1>5 DEF Holdings, PageItems
    <2>2. \A e \in PageItems(PageNos) : \E k \in PageNos : e = <<"page", k>> /\ SpanOf(e) = UnitsOf(k)
      BY SpansAre DEF PageItems
    <2>3. \A k \in PageNos : <<"page", k>> \in PageItems(PageNos) /\ SpanOf(<<"page", k>>) = UnitsOf(k)
      BY SpansAre DEF PageItems
    <2>4. \A e \in PageItems(PageNos) : SpanOf(e) \in SUBSET Units /\ SpanOf(e) \cap {} = {}
      BY <2>2, UnitPages
    <2>5. \A e, f \in PageItems(PageNos) : e # f => SpanOf(e) \cap SpanOf(f) = {}
      BY <2>2, UnitPages
    <2>6. ASSUME NEW u \in Units PROVE \E e \in PageItems(PageNos) : u \in SpanOf(e)
      <3>1. PICK k \in PageNos : u \in UnitsOf(k)
        BY UnitPages
      <3>2. <<"page", k>> \in PageItems(PageNos) /\ u \in SpanOf(<<"page", k>>)
        BY <2>3, <3>1
      <3>. QED
        BY <3>2
    <2>. QED
      BY <2>1, <2>4, <2>5, <2>6 DEF Tiles
  <1>7. HeapOK(g, B, {}, {}, PageNos)
    BY <1>2, <1>3, <1>5, <1>6 DEF HeapOK
  <1>. QED
    BY <1>4, <1>7 DEF SlobIInv, g

\* What SetHeap sets.
LEMMA SetHeapIs ==
    ASSUME NEW h, NEW B, IsCircle(h, B), SetHeap(h)
    PROVE  Heap' = h
  <1>1. h = [units |-> h.units, next |-> h.next, slobfree |-> h.slobfree]
    BY DEF IsCircle
  <1>. QED
    BY <1>1 DEF SetHeap, Heap

\* slob_alloc in a sound heap.
LEMMA SlobAlloc ==
    ASSUME NEW B, HeapOK(Heap, B, bigblocks, inuse, free_pages), NEW n \in Nat, n > 1, n < PAGE,
           NEW r \in slob_alloc(n, free_pages)
    PROVE  \/ r.block = -1 /\ r.heap = Heap /\ r.pages = free_pages
           \/ /\ r.block # -1
              /\ \E C : \E K \in SUBSET free_pages :
                    Alloced(Heap, B, K, n, r.heap, C, r.block) /\ r.pages = free_pages \ K
  <1>1. IsCircle(Heap, B) /\ free_pages \in SUBSET PageNos
    BY HeapParts
  <1>2. \A k \in free_pages : UnitsOf(k) \cap FreeUnits(Heap, B) = {}
    BY PageItemsAvail
  <1>3. \/ r.block = -1 /\ r.heap = Heap /\ r.pages = free_pages
        \/ \E C : \E K \in SUBSET free_pages :
             Alloced(Heap, B, K, n, r.heap, C, r.block) /\ r.pages = free_pages \ K
    BY <1>1, <1>2, AllocLeads
  <1>4. CASE r.block = -1 /\ r.heap = Heap /\ r.pages = free_pages
    BY <1>4
  <1>5. ASSUME NEW C, NEW K \in SUBSET free_pages,
               Alloced(Heap, B, K, n, r.heap, C, r.block), r.pages = free_pages \ K
        PROVE  r.block # -1
    <2>1. r.block \in Units
      BY <1>5, AllocedParts
    <2>. QED
      BY <2>1, AddrProps
  <1>. QED
    BY <1>3, <1>4, <1>5

LEMMA StaysSound ==
    ASSUME SlobIInv, UNCHANGED <<units, next, slobfree, bigblocks, inuse, free_pages>>
    PROVE  SlobIInv'
  BY DEF SlobIInv, Heap

LEMMA SoundAfter ==
    ASSUME NEW h, NEW B, NEW D, NEW I, NEW F, HeapOK(h, B, D, I, F), SetHeap(h), bigblocks' = D, inuse' = I,
           free_pages' = F
    PROVE  SlobIInv'
  <1>1. Heap' = h
    BY HeapParts, SetHeapIs
  <1>. QED
    BY <1>1 DEF SlobIInv

LEMMA KmallocSmallIInv ==
    ASSUME SlobIInv, NEW size \in Sizes, KmallocSmall(size)
    PROVE  SlobIInv'
  <1> DEFINE n == SLOB_UNITS(size + SLOB_UNIT)
  <1>1. PICK B : HeapOK(Heap, B, bigblocks, inuse, free_pages)
    BY DEF SlobIInv
  <1>2. CASE ~SlobAllocAsserts(size + SLOB_UNIT)
    BY <1>2, StaysSound DEF KmallocSmall
  <1>3. CASE SlobAllocAsserts(size + SLOB_UNIT)
    <2>1. PICK r \in slob_alloc(n, free_pages) :
             /\ SetHeap(r.heap) /\ free_pages' = r.pages
             /\ inuse' = IF r.block = -1 THEN inuse ELSE inuse \cup {[ptr |-> r.block + 1, size |-> size]}
             /\ UNCHANGED <<bigblocks, panicked>>
      BY <1>3, Zenon DEF KmallocSmall
    <2>2. n \in Nat /\ n > 1 /\ n < PAGE
      BY <1>3, SmallUnits
    <2>. HIDE DEF n
    <2>3. CASE r.block = -1 /\ r.heap = Heap /\ r.pages = free_pages
      BY <1>1, <2>1, <2>3, SoundAfter
    <2>4. ASSUME NEW C, NEW K \in SUBSET free_pages,
                 Alloced(Heap, B, K, n, r.heap, C, r.block), r.pages = free_pages \ K, r.block # -1
          PROVE  SlobIInv'
      <3>1. PICK o : o = [ptr |-> r.block + 1, size |-> size]
        OBVIOUS
      <3>2. HeapOK(r.heap, C, bigblocks, inuse \cup {o}, free_pages \ K)
        BY <1>1, <2>4, <3>1, AddSmall DEF n
      <3>. QED
        BY <2>1, <2>4, <3>1, <3>2, SoundAfter
    <2>. QED
      BY <1>1, <2>1, <2>2, <2>3, <2>4, SlobAlloc
  <1>. QED
    BY <1>2, <1>3

LEMMA KmallocBigIInv ==
    ASSUME SlobIInv, NEW size \in Sizes, KmallocBig(size)
    PROVE  SlobIInv'
  <1> DEFINE order == find_order(size)
  <1>1. PICK B : HeapOK(Heap, B, bigblocks, inuse, free_pages)
    BY DEF SlobIInv
  <1>2. PICK r \in slob_alloc(BIGBLOCK, free_pages) :
          IF r.block = -1 THEN UNCHANGED <<units, next, slobfree, bigblocks, inuse, free_pages>>
          ELSE IF PageRuns(order, r.pages) = {}
          THEN big_fails(r) /\ free_pages' = r.pages /\ UNCHANGED <<bigblocks, inuse>>
          ELSE \E k : /\ k = CHOOSE p \in PageRuns(order, r.pages) : \A q \in PageRuns(order, r.pages) : p <= q
                      /\ SetHeap(r.heap)
                      /\ free_pages' = r.pages \ (k .. (k + RunPages(order) - 1))
                      /\ bigblocks' = bigblocks \cup {[bb |-> r.block, page |-> k, order |-> order]}
                      /\ inuse' = inuse \cup {[ptr |-> PageAddr(k), size |-> size]}
    BY Zenon DEF KmallocBig
  <1>3. order \in Nat
    BY SlobAssumption, FindOrderIs
  <1>. HIDE DEF order
  <1>4. BIGBLOCK \in Nat /\ BIGBLOCK > 1 /\ BIGBLOCK < PAGE
    BY AddrProps
  <1>5. CASE r.block = -1
    BY <1>2, <1>5, StaysSound
  <1>6. ASSUME NEW C, NEW K \in SUBSET free_pages,
               Alloced(Heap, B, K, BIGBLOCK, r.heap, C, r.block), r.pages = free_pages \ K, r.block # -1
        PROVE  SlobIInv'
    <2>1. CASE PageRuns(order, r.pages) = {}
      <3>1. PICK E : HeapOK(slob_free(r.heap, r.block, BIGBLOCK), E, bigblocks, inuse, free_pages \ K)
        BY <1>1, <1>4, <1>6, AddNone
      <3>2. /\ SetHeap(slob_free(r.heap, r.block, BIGBLOCK)) /\ free_pages' = free_pages \ K
            /\ bigblocks' = bigblocks /\ inuse' = inuse
        BY <1>2, <1>6, <2>1, Zenon DEF big_fails
      <3>. QED
        BY <3>1, <3>2, SoundAfter
    <2>2. CASE PageRuns(order, r.pages) # {}
      <3>1. PICK k : /\ k = CHOOSE p \in PageRuns(order, r.pages) : \A q \in PageRuns(order, r.pages) : p <= q
                     /\ SetHeap(r.heap)
                     /\ free_pages' = r.pages \ (k .. (k + RunPages(order) - 1))
                     /\ bigblocks' = bigblocks \cup {[bb |-> r.block, page |-> k, order |-> order]}
                     /\ inuse' = inuse \cup {[ptr |-> PageAddr(k), size |-> size]}
        BY <1>2, <1>6, <2>2, Zenon
      <3>2. PageRuns(order, r.pages) \in SUBSET Nat
        BY <1>1, <1>6, HeapParts DEF PageRuns, PageNos
      <3>3. k \in PageRuns(order, r.pages)
        <4> DEFINE S == PageRuns(order, r.pages)
        <4>. HIDE DEF S
        <4>1. \E p \in S : \A q \in S : p <= q
          BY <2>2, <3>2, NatMin DEF S
        <4>. QED
          BY <3>1, <4>1 DEF S
      <3>4. PICK b, o : /\ b = [bb |-> r.block, page |-> k, order |-> order]
                        /\ o = [ptr |-> PageAddr(k), size |-> size]
        OBVIOUS
      <3>5. RunOf(b) = k .. (k + RunPages(order) - 1)
        BY <3>4 DEF RunOf
      <3>6. k \in Nat /\ RunOf(b) \in SUBSET (free_pages \ K)
        BY <1>6, <3>2, <3>3, <3>5 DEF PageRuns
      <3>7. HeapOK(r.heap, C, bigblocks \cup {b}, inuse \cup {o}, (free_pages \ K) \ RunOf(b))
        BY <1>1, <1>3, <1>6, <3>4, <3>6, AddBig
      <3>. QED
        BY <1>6, <3>1, <3>4, <3>5, <3>7, SoundAfter
    <2>. QED
      BY <2>1, <2>2
  <1>. QED
    BY <1>1, <1>4, <1>5, <1>6, SlobAlloc

LEMMA KfreeIInv ==
    ASSUME SlobIInv, NEW o \in inuse, kfree(o)
    PROVE  SlobIInv'
  <1>1. PICK B : HeapOK(Heap, B, bigblocks, inuse, free_pages)
    BY DEF SlobIInv
  <1>2. CASE {b \in bigblocks : PageAddr(b.page) = o.ptr} # {}
    <2>1. PICK b \in bigblocks :
             /\ PageAddr(b.page) = o.ptr /\ inuse' = inuse \ {o} /\ bigblocks' = bigblocks \ {b}
             /\ free_pages' = free_pages \cup (b.page .. (b.page + RunPages(b.order) - 1))
             /\ SetHeap(slob_free(Heap, b.bb, BIGBLOCK))
      BY <1>2, Zenon DEF kfree
    <2>2. PICK E : HeapOK(slob_free(Heap, b.bb, BIGBLOCK), E, bigblocks \ {b}, inuse \ {o}, free_pages \cup RunOf(b))
      BY <1>1, <2>1, DropBig
    <2>. QED
      BY <2>1, <2>2, SoundAfter DEF RunOf
  <1>3. CASE {b \in bigblocks : PageAddr(b.page) = o.ptr} = {}
    <2>1. /\ SetHeap(slob_free(Heap, Header(o.ptr), units[Header(o.ptr)]))
          /\ inuse' = inuse \ {o} /\ bigblocks' = bigblocks /\ free_pages' = free_pages
      BY <1>3, Zenon DEF kfree
    <2>2. o \in SmallOf(inuse, bigblocks) /\ Heap.units = units
      BY <1>3 DEF SmallOf, Heap
    <2>3. PICK E : HeapOK(slob_free(Heap, Header(o.ptr), units[Header(o.ptr)]), E, bigblocks, inuse \ {o}, free_pages)
      BY <1>1, <2>2, DropSmall
    <2>. QED
      BY <2>1, <2>3, SoundAfter
  <1>. QED
    BY <1>2, <1>3

-----------------------------------------------------------------------------
(* What the runs check.                                                     *)

LEMMA SlobIInvSound ==
    ASSUME SlobIInv
    PROVE  HeapSound
  <1>1. PICK B : HeapOK(Heap, B, bigblocks, inuse, free_pages)
    BY DEF SlobIInv
  <1> DEFINE g == Heap
             Hs == Holdings(inuse, bigblocks, free_pages)
  <1>2. IsCircle(g, B) /\ IsRing(g, B, {}) /\ Tiles(Hs, FreeUnits(g, B))
    BY <1>1, HeapParts, RingCircle
  <1>3. FreeBlocks = B
    <2>1. PICK s, n : Round(g, B, s, n)
      BY <1>2, SearchRound
    <2>2. Search(g) = [i \in 0 .. n |-> s[i]] /\ B = {s[i] : i \in 0 .. n}
      BY <2>1 DEF Round
    <2>. QED
      BY <2>2 DEF FreeBlocks
  <1>4. g.units = units /\ g.next = next
    BY DEF Heap
  <1>. HIDE DEF g, Hs
  <1>5. CircleInOrder
    <2>1. \A a \in B : /\ next[a] \in B /\ IsNext(B, a, next[a])
      BY <1>2, <1>4, RingProps
    <2>2. \A a, b \in B : a < b => a + units[a] < b
      BY <1>2, <1>4, RingProps
    <2>3. arena \in B
      BY <1>2, RingProps
    <2>. QED
      BY <1>3, <2>1, <2>2, <2>3 DEF CircleInOrder, IsNext
  <1>6. /\ \A x : x \in Extents <=> (\E a \in B \ {arena} : x = <<a, units[a]>>) \/ \E e \in Hs : x = ExtentOf(e)
    <2>1. SmallInUse = SmallOf(inuse, bigblocks)
      BY DEF SmallInUse, SmallOf
    <2>2. ASSUME NEW x
          PROVE  (\E e \in Hs : x = ExtentOf(e)) <=>
                   \/ \E o \in SmallInUse : x = <<Header(o.ptr), SLOB_UNITS(o.size + SLOB_UNIT)>>
                   \/ \E b \in bigblocks : x = <<b.bb, BIGBLOCK>>
                   \/ \E b \in bigblocks : x = <<PageAddr(b.page), PAGE * RunPages(b.order)>>
                   \/ \E k \in free_pages : x = <<PageAddr(k), PAGE>>
      <3>1. /\ \A o : ExtentOf(<<"small", o>>) = <<Header(o.ptr), SLOB_UNITS(o.size + SLOB_UNIT)>>
            /\ \A b : ExtentOf(<<"desc", b>>) = <<b.bb, BIGBLOCK>>
            /\ \A b : ExtentOf(<<"run", b>>) = <<PageAddr(b.page), PAGE * RunPages(b.order)>>
            /\ \A k : ExtentOf(<<"page", k>>) = <<PageAddr(k), PAGE>>
        BY DEF ExtentOf, ObjectUnits
      <3>2. ASSUME NEW e \in Hs, x = ExtentOf(e)
            PROVE  \/ \E o \in SmallInUse : x = <<Header(o.ptr), SLOB_UNITS(o.size + SLOB_UNIT)>>
                   \/ \E b \in bigblocks : x = <<b.bb, BIGBLOCK>>
                   \/ \E b \in bigblocks : x = <<PageAddr(b.page), PAGE * RunPages(b.order)>>
                   \/ \E k \in free_pages : x = <<PageAddr(k), PAGE>>
        <4>1. \/ \E o \in SmallInUse : e = <<"small", o>>
              \/ \E b \in bigblocks : e = <<"desc", b>> \/ e = <<"run", b>>
              \/ \E k \in free_pages : e = <<"page", k>>
          BY <2>1 DEF Hs, Holdings
        <4>. QED
          BY <3>1, <3>2, <4>1
      <3>3. /\ \A o \in SmallInUse : <<"small", o>> \in Hs
            /\ \A b \in bigblocks : <<"desc", b>> \in Hs /\ <<"run", b>> \in Hs
            /\ \A k \in free_pages : <<"page", k>> \in Hs
        BY <2>1 DEF Hs, Holdings
      <3>4. ASSUME NEW o \in SmallInUse, x = <<Header(o.ptr), SLOB_UNITS(o.size + SLOB_UNIT)>>
            PROVE  \E e \in Hs : x = ExtentOf(e)
        BY <3>1, <3>3, <3>4
      <3>5. ASSUME NEW b \in bigblocks, x = <<b.bb, BIGBLOCK>> \/ x = <<PageAddr(b.page), PAGE * RunPages(b.order)>>
            PROVE  \E e \in Hs : x = ExtentOf(e)
        BY <3>1, <3>3, <3>5
      <3>6. ASSUME NEW k \in free_pages, x = <<PageAddr(k), PAGE>>
            PROVE  \E e \in Hs : x = ExtentOf(e)
        BY <3>1, <3>3, <3>6
      <3>. QED
        BY <3>2, <3>4, <3>5, <3>6
    <2>. QED
      BY <1>3, <2>2 DEF Extents
  <1>7. ASSUME NEW u \in Units
        PROVE  Cardinality({x \in Extents : u \in x[1] .. (x[1] + x[2] - 1)}) = 1
    <2> DEFINE Covering(x) == u \in x[1] .. (x[1] + x[2] - 1)
    <2>1. u \in Int /\ u >= 0
      BY AddrProps
    <2>2. \A a \in B : /\ a \in Int /\ units[a] \in Nat \ {0}
                       /\ Covering(<<a, units[a]>>) <=> a <= u /\ u < a + units[a]
      BY <1>2, <1>4, <2>1, RingProps
    <2>3. \A e \in Hs : Covering(ExtentOf(e)) <=> u \in SpanOf(e)
      BY DEF SpanOf, Span
    <2>4. u \in FreeUnits(g, B) <=> \E a \in B : a <= u /\ u < a + units[a]
      BY <1>4 DEF FreeUnits
    <2>5. \A a, b \in B : a <= u /\ u < a + units[a] /\ b <= u /\ u < b + units[b] => a = b
      <3>1. \A a, b \in B : a < b => a + units[a] < b
        BY <1>2, <1>4, RingProps
      <3>. QED
        BY <2>1, <2>2, <3>1
    <2>6. \A a \in B : a <= u /\ u < a + units[a] => a # arena
      <3>1. units[arena] = 1
        BY <1>2, <1>4 DEF IsCircle
      <3>. QED
        BY <2>1, <3>1, AddrProps
    <2>. HIDE DEF Covering
    <2>7. \E x \in Extents : Covering(x) /\ \A y \in Extents : Covering(y) => y = x
      <3>1. CASE u \in FreeUnits(g, B)
        <4>1. PICK a \in B : a <= u /\ u < a + units[a]
          BY <2>4, <3>1
        <4>2. <<a, units[a]>> \in Extents /\ Covering(<<a, units[a]>>)
          BY <1>6, <2>2, <2>6, <4>1
        <4>3. \A e \in Hs : ~Covering(ExtentOf(e))
          BY <1>2, <2>3, <3>1 DEF Tiles
        <4>4. ASSUME NEW y \in Extents, Covering(y) PROVE y = <<a, units[a]>>
          <5>1. PICK b \in B \ {arena} : y = <<b, units[b]>>
            BY <1>6, <4>3, <4>4
          <5>. QED
            BY <2>2, <2>5, <4>1, <4>4, <5>1
        <4>. QED
          BY <4>2, <4>4
      <3>2. CASE u \notin FreeUnits(g, B)
        <4>1. PICK e \in Hs : u \in SpanOf(e)
          BY <1>2, <3>2 DEF Tiles
        <4>2. ExtentOf(e) \in Extents /\ Covering(ExtentOf(e))
          BY <1>6, <2>3, <4>1
        <4>3. \A a \in B : ~Covering(<<a, units[a]>>)
          BY <2>2, <2>4, <3>2
        <4>4. ASSUME NEW y \in Extents, Covering(y) PROVE y = ExtentOf(e)
          <5>1. PICK f \in Hs : y = ExtentOf(f)
            BY <1>6, <4>3, <4>4
          <5>2. u \in SpanOf(f)
            BY <2>3, <4>4, <5>1
          <5>3. f = e
            BY <1>2, <4>1, <5>2 DEF Tiles
          <5>. QED
            BY <5>1, <5>3
        <4>. QED
          BY <4>2, <4>4
      <3>. QED
        BY <3>1, <3>2
    <2>8. PICK x \in Extents : Covering(x) /\ \A y \in Extents : Covering(y) => y = x
      BY <2>7
    <2>9. {y \in Extents : Covering(y)} = {x}
      BY <2>8
    <2>10. Cardinality({x}) = 1
      BY FS_Singleton
    <2>. QED
      BY <2>9, <2>10 DEF Covering
  <1>. QED
    BY <1>5, <1>7 DEF HeapSound, Partition

-----------------------------------------------------------------------------
(* The kernel heap, of any size.                                            *)

\* HeapSound: whatever kmalloc and kfree split, merge and give back, each unit of
\* memory is in exactly one free block, object, descriptor, run of pages or free
\* page, and the free list is one circle in address order with no neighbours left
\* unmerged.
THEOREM HeapSoundCorrect == SlobSpec => []HeapSound
  <1>1. SlobInit => SlobIInv
    BY SlobInitIInv
  <1>2. SlobIInv /\ [SlobNext]_slob_vars => SlobIInv'
    <2> SUFFICES ASSUME SlobIInv, [SlobNext]_slob_vars PROVE SlobIInv'
      OBVIOUS
    <2>1. ASSUME NEW size \in Sizes, kmalloc(size) PROVE SlobIInv'
      BY <2>1, KmallocSmallIInv, KmallocBigIInv DEF kmalloc
    <2>2. ASSUME NEW o \in inuse, kfree(o) PROVE SlobIInv'
      BY <2>2, KfreeIInv
    <2>3. CASE UNCHANGED slob_vars
      BY <2>3, StaysSound DEF slob_vars
    <2>. QED
      BY <2>1, <2>2, <2>3 DEF SlobNext
  <1>3. SlobIInv => HeapSound
    BY SlobIInvSound
  <1>. QED
    BY <1>1, <1>2, <1>3, PTL DEF SlobSpec
-----------------------------------------------------------------------------
(* The nodes below a node of the skew heap.                                  *)

Links == Users \cup {NULL}

LEMMA StoreIs ==
    ASSUME NEW h
    PROVE  h \in H!Stores <=>
             /\ h = [left |-> h.left, right |-> h.right, parent |-> h.parent]
             /\ h.left \in [Users -> Links] /\ h.right \in [Users -> Links] /\ h.parent \in [Users -> Links]
  BY DEF H!Stores, Links, Users

LEMMA BelowLeast ==
    ASSUME NEW h, NEW r, NEW S \in SUBSET Users, r # NULL => r \in S, H!Closed(h, S)
    PROVE  H!Below(h, r) \in SUBSET S
  BY DEF H!Below, Users

LEMMA BelowClosed ==
    ASSUME NEW h \in H!Stores, NEW r \in Links
    PROVE  /\ H!Below(h, r) \in SUBSET Users /\ (r # NULL => r \in H!Below(h, r)) /\ H!Closed(h, H!Below(h, r))
           /\ \A n \in H!Below(h, r) : /\ h.left[n] # NULL => h.left[n] \in H!Below(h, r)
                                       /\ h.right[n] # NULL => h.right[n] \in H!Below(h, r)
  <1> DEFINE W == H!Below(h, r)
  <1>1. W \in SUBSET Users
    BY DEF H!Below, Users
  <1>2. ASSUME r # NULL PROVE r \in W
    BY <1>2 DEF H!Below, Users, Links
  <1>3. ASSUME NEW n \in W, NEW k \in {h.left[n], h.right[n]}, k # NULL PROVE k \in W
    <2>1. n \in Users /\ k \in Users
      BY <1>1, <1>3, StoreIs DEF Links
    <2>2. ASSUME NEW S \in SUBSET Users, {r} \ {NULL} \subseteq S, H!Closed(h, S) PROVE k \in S
      <3>1. n \in S
        BY <2>2 DEF H!Below, Users
      <3>. QED
        BY <1>3, <2>2, <3>1 DEF H!Closed
    <2>. QED
      BY <2>1, <2>2 DEF H!Below, Users
  <1>4. H!Closed(h, W)
    BY <1>3 DEF H!Closed
  <1>. HIDE DEF W
  <1>5. \A n \in W : (h.left[n] # NULL => h.left[n] \in W) /\ (h.right[n] # NULL => h.right[n] \in W)
    BY <1>3
  <1>. QED
    BY <1>1, <1>2, <1>4, <1>5 DEF W

LEMMA BelowNone ==
    ASSUME NEW h
    PROVE  H!Below(h, NULL) = {}
  <1>1. {} \in SUBSET Users /\ H!Closed(h, {})
    BY DEF H!Closed
  <1>2. H!Below(h, NULL) \in SUBSET {}
    BY <1>1, BelowLeast
  <1>. QED
    BY <1>2

LEMMA BelowNode ==
    ASSUME NEW h \in H!Stores, NEW n \in Users
    PROVE  H!Below(h, n) = {n} \cup H!Below(h, h.left[n]) \cup H!Below(h, h.right[n])
  <1> DEFINE N == H!Below(h, n)
             L == H!Below(h, h.left[n])
             Q == H!Below(h, h.right[n])
             S == {n} \cup L \cup Q
  <1>1. h.left[n] \in Links /\ h.right[n] \in Links /\ n \in Links /\ n # NULL
    <2>1. n # NULL
      BY StrideAssumption DEF Users
    <2>. QED
      BY <2>1, StoreIs DEF Links
  <1>2. N \in SUBSET Users /\ n \in N /\ H!Closed(h, N)
    BY <1>1, BelowClosed
  <1>3. /\ L \in SUBSET Users /\ (h.left[n] # NULL => h.left[n] \in L) /\ H!Closed(h, L)
        /\ Q \in SUBSET Users /\ (h.right[n] # NULL => h.right[n] \in Q) /\ H!Closed(h, Q)
    BY <1>1, BelowClosed
  <1>4. (h.left[n] # NULL => h.left[n] \in N) /\ (h.right[n] # NULL => h.right[n] \in N)
    BY <1>1, <1>2, BelowClosed
  <1>5. L \in SUBSET N /\ Q \in SUBSET N
    BY <1>2, <1>4, BelowLeast
  <1>. HIDE DEF N, L, Q
  <1>6. S \in SUBSET Users /\ n \in S /\ H!Closed(h, S)
    BY <1>3 DEF H!Closed
  <1>7. N \in SUBSET S
    BY <1>6, BelowLeast DEF N
  <1>. QED
    BY <1>2, <1>5, <1>7 DEF N, L, Q

\* What is below depends only on the pointers of what is below.
LEMMA BelowFrame ==
    ASSUME NEW h \in H!Stores, NEW t \in H!Stores, NEW r \in Links,
           \A n \in H!Below(h, r) : t.left[n] = h.left[n] /\ t.right[n] = h.right[n]
    PROVE  H!Below(t, r) = H!Below(h, r)
  <1> DEFINE N == H!Below(h, r)
             T == H!Below(t, r)
  <1>1. /\ N \in SUBSET Users /\ (r # NULL => r \in N) /\ H!Closed(h, N)
        /\ T \in SUBSET Users /\ (r # NULL => r \in T) /\ H!Closed(t, T)
    BY BelowClosed
  <1>2. \A n \in N : t.left[n] = h.left[n] /\ t.right[n] = h.right[n]
    OBVIOUS
  <1>. HIDE DEF N, T
  <1>3. H!Closed(t, N) /\ H!Closed(h, T \cap N)
    BY <1>1, <1>2 DEF H!Closed
  <1>4. T \in SUBSET N
    BY <1>1, <1>3, BelowLeast DEF T
  <1>5. T \cap N \in SUBSET Users /\ (r # NULL => r \in T \cap N)
    BY <1>1
  <1>6. N \in SUBSET (T \cap N)
    <2> DEFINE S == T \cap N
    <2>1. S \in SUBSET Users /\ (r # NULL => r \in S) /\ H!Closed(h, S)
      BY <1>3, <1>5
    <2>. HIDE DEF S
    <2>2. N \in SUBSET S
      BY <2>1, BelowLeast DEF N
    <2>. QED
      BY <2>2 DEF S
  <1>. QED
    BY <1>4, <1>6 DEF N, T

-----------------------------------------------------------------------------
(* Heaps.                                                                   *)

\* The pointers of the nodes S match.
Matching(h, S) ==
    \A n \in S : /\ h.left[n] # NULL => h.parent[h.left[n]] = n
                 /\ h.right[n] # NULL => h.parent[h.right[n]] = n
                 /\ h.left[n] = h.right[n] => h.left[n] = NULL

IsHeap(h, r) ==
    /\ r \in Links /\ Matching(h, H!Below(h, r))
    /\ r # NULL => h.parent[r] \notin H!Below(h, r)

\* No node of S comes before the one it is under.
InOrder(h, S, before) ==
    \A n \in S : /\ h.left[n] # NULL => <<h.left[n], n>> \notin before
                 /\ h.right[n] # NULL => <<h.right[n], n>> \notin before

\* The two parts of a heap.
LEMMA SubHeaps ==
    ASSUME NEW h \in H!Stores, NEW r \in Users, IsHeap(h, r), NEW l, NEW q, l = h.left[r], q = h.right[r]
    PROVE  /\ r \notin H!Below(h, l) /\ r \notin H!Below(h, q) /\ H!Below(h, l) \cap H!Below(h, q) = {}
           /\ H!Below(h, r) = {r} \cup H!Below(h, l) \cup H!Below(h, q)
           /\ IsHeap(h, l) /\ IsHeap(h, q)
           /\ (l # NULL => h.parent[l] = r) /\ (q # NULL => h.parent[q] = r) /\ (l = q => l = NULL)
  <1> DEFINE N == H!Below(h, r)
             L == H!Below(h, l)
             Q == H!Below(h, q)
  <1>1. l \in Links /\ q \in Links /\ r \in Links /\ r # NULL
    <2>1. r # NULL
      BY StrideAssumption DEF Users
    <2>. QED
      BY <2>1, StoreIs DEF Links
  <1>2. N = {r} \cup L \cup Q
    BY BelowNode
  <1>3. /\ N \in SUBSET Users
        /\ L \in SUBSET Users /\ (l # NULL => l \in L) /\ H!Closed(h, L)
        /\ Q \in SUBSET Users /\ (q # NULL => q \in Q) /\ H!Closed(h, Q)
    BY <1>1, BelowClosed
  <1>4. /\ \A n \in N : /\ h.left[n] # NULL => h.parent[h.left[n]] = n
                        /\ h.right[n] # NULL => h.parent[h.right[n]] = n
                        /\ h.left[n] = h.right[n] => h.left[n] = NULL
        /\ h.parent[r] \notin N
    BY <1>1 DEF IsHeap, Matching
  <1>5. ASSUME NEW X \in SUBSET N, H!Closed(h, X), NEW x \in X, x # r, H!Below(h, x) = X PROVE r \notin X
    <2> DEFINE S == X \ {r}
    <2>1. \A n \in S : h.left[n] # r /\ h.right[n] # r
      BY <1>1, <1>4
    <2>2. S \in SUBSET Users /\ x \in S /\ H!Closed(h, S)
      BY <1>3, <1>5, <2>1 DEF H!Closed
    <2>. HIDE DEF S
    <2>3. X \in SUBSET S
      BY <1>5, <2>2, BelowLeast
    <2>. QED
      BY <2>3 DEF S
  <1>6. l # r /\ q # r
    BY <1>1, <1>2, <1>4
  <1>7. r \notin L /\ r \notin Q
    <2>1. CASE l = NULL
      <3>1. L = {}
        BY <2>1, BelowNone
      <3>. QED
        BY <1>2, <1>3, <1>5, <1>6, <3>1, BelowNone
    <2>2. CASE q = NULL
      <3>1. Q = {}
        BY <2>2, BelowNone
      <3>. QED
        BY <1>2, <1>3, <1>5, <1>6, <3>1, BelowNone
    <2>3. CASE l # NULL /\ q # NULL
      BY <1>2, <1>3, <1>5, <1>6, <2>3
    <2>. QED
      BY <2>1, <2>2, <2>3
  <1>. HIDE DEF N, L, Q
  <1>8. \A k \in Q : k # q => h.parent[k] \in Q
    <2> DEFINE S == {k \in Q : k = q \/ h.parent[k] \in Q}
    <2>1. S \in SUBSET Users /\ (q # NULL => q \in S)
      BY <1>3
    <2>2. H!Closed(h, S)
      BY <1>2, <1>3, <1>4 DEF H!Closed
    <2>. HIDE DEF S
    <2>3. Q \in SUBSET S
      BY <2>1, <2>2, BelowLeast DEF Q
    <2>. QED
      BY <2>3 DEF S
  <1>9. (l # NULL => h.parent[l] = r) /\ (q # NULL => h.parent[q] = r) /\ (l = q => l = NULL)
    BY <1>2, <1>4
  <1>10. L \cap Q = {}
    <2> DEFINE S == L \ Q
    <2>1. S \in SUBSET Users /\ (l # NULL => l \in S)
      BY <1>3, <1>7, <1>8, <1>9
    <2>2. ASSUME NEW n \in S, NEW k \in {h.left[n], h.right[n]}, k # NULL PROVE k \in S
      <3>1. n \in L /\ n \notin Q /\ n \in N /\ n # r
        BY <1>2, <1>7
      <3>2. k \in L /\ h.parent[k] = n
        BY <1>3, <1>4, <2>2, <3>1 DEF H!Closed
      <3>. QED
        BY <1>8, <1>9, <2>2, <3>1, <3>2
    <2>3. H!Closed(h, S)
      BY <2>2 DEF H!Closed
    <2>. HIDE DEF S
    <2>4. L \in SUBSET S
      BY <2>1, <2>3, BelowLeast DEF L
    <2>. QED
      BY <2>4 DEF S
  <1>11. IsHeap(h, l) /\ IsHeap(h, q)
    <2>1. Matching(h, L) /\ Matching(h, Q)
      BY <1>2, <1>4 DEF Matching
    <2>. QED
      BY <1>1, <1>7, <1>9, <2>1 DEF IsHeap, L, Q
  <1>. QED
    BY <1>2, <1>7, <1>9, <1>10, <1>11 DEF N, L, Q
-----------------------------------------------------------------------------
(* Merging.                                                                 *)

\* comp(a, b) and comp(b, a) are not both -1.
Asymmetric(before) == \A p, q \in Users : <<p, q>> \in before => <<q, p>> \notin before

\* Two heaps that share nothing.
Separate(h, a, b) ==
    /\ IsHeap(h, a) /\ IsHeap(h, b) /\ H!Below(h, a) \cap H!Below(h, b) = {}
    /\ a # NULL => h.parent[a] \notin H!Below(h, b)
    /\ b # NULL => h.parent[b] \notin H!Below(h, a)

\* t is the heap of the nodes S, with a root R had, of h.
Makes(h, S, R, before, t) ==
    /\ t.store \in H!Stores /\ t.root \in R /\ t.root \in Links
    /\ H!Below(t.store, t.root) = S /\ Matching(t.store, S)
    /\ t.root # NULL => t.store.parent[t.root] = h.parent[t.root]
    /\ \A n \in Users \ S : /\ t.store.left[n] = h.left[n] /\ t.store.right[n] = h.right[n]
                            /\ t.store.parent[n] = h.parent[n]
    /\ Asymmetric(before) /\ InOrder(h, S, before) => InOrder(t.store, S, before)

Merges(h, a, b, before, t) == Makes(h, H!Below(h, a) \cup H!Below(h, b), {a, b}, before, t)

\* The winner w takes what was made of its right subtree and the loser as its left one.
Attached(h, w, m) ==
    [store |-> H!SetParent([m.store EXCEPT !.left[w] = m.root, !.right[w] = h.left[w]], m.root, w), root |-> w]

LEMMA AttachedIs ==
    ASSUME NEW h \in H!Stores, NEW w \in Users, NEW m, m.store \in H!Stores, m.root \in Links, NEW t, t = Attached(h, w, m)
    PROVE  /\ t.store \in H!Stores /\ t.root = w /\ t.store.left[w] = m.root /\ t.store.right[w] = h.left[w]
           /\ \A n \in Users : n # w => t.store.left[n] = m.store.left[n] /\ t.store.right[n] = m.store.right[n]
           /\ m.root # NULL => t.store.parent[m.root] = w
           /\ \A n \in Users : n # m.root => t.store.parent[n] = m.store.parent[n]
  <1> DEFINE s == m.store
             x == m.root
             u == [s EXCEPT !.left[w] = x, !.right[w] = h.left[w]]
  <1>1. /\ s = [left |-> s.left, right |-> s.right, parent |-> s.parent]
        /\ s.left \in [Users -> Links] /\ s.right \in [Users -> Links] /\ s.parent \in [Users -> Links]
        /\ h.left[w] \in Links /\ w \in Links
    BY StoreIs DEF Links
  <1>2. x \in Links
    OBVIOUS
  <1>. HIDE DEF s, x
  <1>3. u = [left |-> [s.left EXCEPT ![w] = x], right |-> [s.right EXCEPT ![w] = h.left[w]], parent |-> s.parent]
    <2>1. PICK A, B, C, y : A = s.left /\ B = s.right /\ C = s.parent /\ y = h.left[w]
      OBVIOUS
    <2>2. PICK D : D = [A EXCEPT ![w] = x]
      OBVIOUS
    <2>3. PICK v : v = [s EXCEPT !.left[w] = x]
      OBVIOUS
    <2>4. s = [left |-> A, right |-> B, parent |-> C]
      BY <1>1, <2>1
    <2>5. v = [[left |-> A, right |-> B, parent |-> C] EXCEPT !.left[w] = x]
      BY <2>3, <2>4, Zenon
    <2>6. v = [left |-> D, right |-> B, parent |-> C]
      BY <2>2, <2>5
    <2>7. u = [v EXCEPT !.right[w] = y]
      BY <2>1, <2>3, Zenon
    <2>8. u = [[left |-> D, right |-> B, parent |-> C] EXCEPT !.right[w] = y]
      BY <2>6, <2>7, Zenon
    <2>9. u = [left |-> D, right |-> [B EXCEPT ![w] = y], parent |-> C]
      BY <2>8
    <2>. QED
      BY <2>1, <2>2, <2>9, Zenon
  <1>4. t.store = (IF x = NULL THEN u ELSE [u EXCEPT !.parent[x] = w]) /\ t.root = w
    BY Zenon DEF Attached, H!SetParent, s, x
  <1>. HIDE DEF u
  <1>5. t.store = [left |-> [s.left EXCEPT ![w] = x], right |-> [s.right EXCEPT ![w] = h.left[w]],
                   parent |-> IF x = NULL THEN s.parent ELSE [s.parent EXCEPT ![x] = w]]
    BY <1>3, <1>4
  <1>6. x # NULL => x \in Users
    BY <1>2 DEF Links
  <1>7. t.store \in H!Stores
    BY <1>1, <1>2, <1>5, <1>6, StoreIs
  <1>. QED
    BY <1>1, <1>2, <1>4, <1>5, <1>6, <1>7 DEF s, x

LEMMA AttachMerges ==
    ASSUME NEW h \in H!Stores, NEW w \in Users, NEW v \in Users, Separate(h, w, v), NEW before,
           Asymmetric(before) => <<v, w>> \notin before,
           NEW m, Merges(h, h.right[w], v, before, m)
    PROVE  Merges(h, w, v, before, Attached(h, w, m))
  <1> DEFINE l == h.left[w]
             q == h.right[w]
             L == H!Below(h, l)
             Q == H!Below(h, q)
             V == H!Below(h, v)
             M == Q \cup V
             S == H!Below(h, w) \cup V
  <1>1. PICK t : t = Attached(h, w, m)
    OBVIOUS
  <1>2. PICK s, x : s = m.store /\ x = m.root
    OBVIOUS
  <1>3. l \in Links /\ q \in Links /\ w \in Links /\ v \in Links /\ w # NULL /\ v # NULL
    <2>1. NULL \notin Users
      BY StrideAssumption DEF Users
    <2>. QED
      BY <2>1, StoreIs DEF Links
  <1>4. /\ w \notin L /\ w \notin Q /\ L \cap Q = {} /\ H!Below(h, w) = {w} \cup L \cup Q
        /\ (l # NULL => h.parent[l] = w) /\ (q # NULL => h.parent[q] = w) /\ (l = q => l = NULL)
        /\ IsHeap(h, w) /\ IsHeap(h, v)
    BY SubHeaps DEF Separate
  <1>5. /\ H!Below(h, w) \cap V = {} /\ h.parent[w] \notin V /\ h.parent[v] \notin H!Below(h, w)
        /\ h.parent[w] \notin H!Below(h, w) /\ h.parent[v] \notin V
    BY <1>3 DEF Separate, IsHeap
  <1>6. /\ s \in H!Stores /\ x \in {q, v} /\ x \in Links
        /\ H!Below(s, x) = M /\ Matching(s, M)
        /\ x # NULL => s.parent[x] = h.parent[x]
        /\ \A n \in Users \ M : s.left[n] = h.left[n] /\ s.right[n] = h.right[n] /\ s.parent[n] = h.parent[n]
        /\ Asymmetric(before) /\ InOrder(h, M, before) => InOrder(s, M, before)
    BY <1>2, Zenon DEF Merges, Makes
  <1>7. /\ t.store \in H!Stores /\ t.root = w /\ t.store.left[w] = x /\ t.store.right[w] = l
        /\ \A n \in Users : n # w => t.store.left[n] = s.left[n] /\ t.store.right[n] = s.right[n]
        /\ x # NULL => t.store.parent[x] = w
        /\ \A n \in Users : n # x => t.store.parent[n] = s.parent[n]
    BY <1>1, <1>2, <1>6, AttachedIs
  <1>8. /\ L \in SUBSET Users /\ Q \in SUBSET Users /\ V \in SUBSET Users /\ v \in V
        /\ (l # NULL => l \in L) /\ (q # NULL => q \in Q)
        /\ \A n \in L : /\ h.left[n] # NULL => h.left[n] \in L
                        /\ h.right[n] # NULL => h.right[n] \in L
    BY <1>3, BelowClosed
  <1>. HIDE DEF l, q, L, Q, V
  <1>9. w \notin M /\ w \notin L /\ L \cap M = {} /\ S = {w} \cup L \cup M
    BY <1>4, <1>5
  <1>10. M \in SUBSET Users /\ (x # NULL => x \in M) /\ x # w
    BY <1>3, <1>6, <1>8, <1>9
  <1>. HIDE DEF M, S
  <1>11. H!Below(t.store, x) = M
    <2>1. \A n \in H!Below(s, x) : t.store.left[n] = s.left[n] /\ t.store.right[n] = s.right[n]
      BY <1>6, <1>7, <1>9, <1>10
    <2>. QED
      BY <1>6, <1>7, <2>1, BelowFrame
  <1>12. \A n \in L : t.store.left[n] = h.left[n] /\ t.store.right[n] = h.right[n] /\ t.store.parent[n] = h.parent[n]
    <2> SUFFICES ASSUME NEW n \in L
                 PROVE  t.store.left[n] = h.left[n] /\ t.store.right[n] = h.right[n] /\ t.store.parent[n] = h.parent[n]
      OBVIOUS
    <2>1. n \in Users /\ n \in Users \ M /\ n # w
      BY <1>8, <1>9
    <2>2. n # x
      BY <1>3, <1>10, <2>1, StrideAssumption DEF Users
    <2>. QED
      BY <1>6, <1>7, <2>1, <2>2
  <1>13. H!Below(t.store, l) = L
    <2>1. \A n \in H!Below(h, l) : t.store.left[n] = h.left[n] /\ t.store.right[n] = h.right[n]
      BY <1>12 DEF L
    <2>2. H!Below(t.store, l) = H!Below(h, l)
      BY <1>3, <1>7, <2>1, BelowFrame
    <2>. QED
      BY <2>2 DEF L
  <1>14. H!Below(t.store, w) = S
    <2>1. H!Below(t.store, w) = {w} \cup H!Below(t.store, x) \cup H!Below(t.store, l)
      BY <1>7, BelowNode
    <2>. QED
      BY <1>9, <1>11, <1>13, <2>1
  <1>15. Matching(t.store, S)
    <2>1. ASSUME NEW n \in L
          PROVE  /\ t.store.left[n] # NULL => t.store.parent[t.store.left[n]] = n
                 /\ t.store.right[n] # NULL => t.store.parent[t.store.right[n]] = n
                 /\ t.store.left[n] = t.store.right[n] => t.store.left[n] = NULL
      <3>1. /\ h.left[n] # NULL => h.parent[h.left[n]] = n
            /\ h.right[n] # NULL => h.parent[h.right[n]] = n
            /\ h.left[n] = h.right[n] => h.left[n] = NULL
        BY <1>4 DEF IsHeap, Matching
      <3>. QED
        BY <1>8, <1>12, <3>1
    <2>2. ASSUME NEW n \in M
          PROVE  /\ t.store.left[n] # NULL => t.store.parent[t.store.left[n]] = n
                 /\ t.store.right[n] # NULL => t.store.parent[t.store.right[n]] = n
                 /\ t.store.left[n] = t.store.right[n] => t.store.left[n] = NULL
      <3>1. /\ s.left[n] # NULL => s.parent[s.left[n]] = n /\ s.left[n] \in Users
            /\ s.right[n] # NULL => s.parent[s.right[n]] = n /\ s.right[n] \in Users
            /\ s.left[n] = s.right[n] => s.left[n] = NULL
        BY <1>6, <1>10, StoreIs DEF Matching, Links
      <3>0. x # NULL
        BY <1>11, BelowNone
      <3>2. s.parent[x] = h.parent[x] => s.parent[x] \notin M
        <4>1. x \in {q, v} /\ (q # NULL => h.parent[q] = w) /\ w \notin M
          BY <1>4, <1>6, <1>9
        <4>2. h.parent[v] \notin M
          BY <1>4, <1>5 DEF M
        <4>3. x # NULL
          BY <3>0
        <4>. QED
          BY <4>1, <4>2, <4>3
      <3>3. (s.left[n] # NULL => s.left[n] # x) /\ (s.right[n] # NULL => s.right[n] # x)
        BY <1>6, <3>1, <3>2
      <3>4. t.store.left[n] = s.left[n] /\ t.store.right[n] = s.right[n]
        BY <1>7, <1>9, <1>10
      <3>. QED
        BY <1>7, <3>1, <3>3, <3>4
    <2>3. /\ t.store.left[w] # NULL => t.store.parent[t.store.left[w]] = w
          /\ t.store.right[w] # NULL => t.store.parent[t.store.right[w]] = w
          /\ t.store.left[w] = t.store.right[w] => t.store.left[w] = NULL
      BY <1>4, <1>7, <1>8, <1>9, <1>10, <1>12
    <2>. QED
      BY <1>9, <2>1, <2>2, <2>3 DEF Matching
  <1>16. t.store.parent[w] = h.parent[w]
    BY <1>6, <1>7, <1>9, <1>10
  <1>17. ASSUME NEW n \in Users \ S
         PROVE  t.store.left[n] = h.left[n] /\ t.store.right[n] = h.right[n] /\ t.store.parent[n] = h.parent[n]
    <2>1. n \in Users \ M /\ n # w /\ n # x
      BY <1>3, <1>9, <1>10, StrideAssumption DEF Users
    <2>. QED
      BY <1>6, <1>7, <2>1
  <1>18. ASSUME Asymmetric(before), InOrder(h, S, before) PROVE InOrder(t.store, S, before)
    <2>1. InOrder(s, M, before)
      BY <1>6, <1>9, <1>18 DEF InOrder
    <2>2. \A n \in M : /\ t.store.left[n] # NULL => <<t.store.left[n], n>> \notin before
                       /\ t.store.right[n] # NULL => <<t.store.right[n], n>> \notin before
      BY <1>7, <1>9, <1>10, <2>1 DEF InOrder
    <2>3. \A n \in L : /\ t.store.left[n] # NULL => <<t.store.left[n], n>> \notin before
                       /\ t.store.right[n] # NULL => <<t.store.right[n], n>> \notin before
      BY <1>9, <1>12, <1>18 DEF InOrder
    <2>4. (q # NULL => <<q, w>> \notin before) /\ (l # NULL => <<l, w>> \notin before)
      BY <1>9, <1>18 DEF InOrder, q, l
    <2>5. /\ t.store.left[w] # NULL => <<t.store.left[w], w>> \notin before
          /\ t.store.right[w] # NULL => <<t.store.right[w], w>> \notin before
      BY <1>6, <1>7, <1>18, <2>4
    <2>. QED
      BY <1>9, <2>2, <2>3, <2>5 DEF InOrder
  <1>19. Makes(h, S, {w, v}, before, t)
    BY <1>3, <1>7, <1>14, <1>15, <1>16, <1>17, <1>18 DEF Makes
  <1>. QED
    BY <1>1, <1>19 DEF Merges, S, V

LEMMA MergesSym ==
    ASSUME NEW h, NEW a, NEW b, NEW before, NEW t, Merges(h, a, b, before, t)
    PROVE  Merges(h, b, a, before, t)
  <1>1. H!Below(h, a) \cup H!Below(h, b) = H!Below(h, b) \cup H!Below(h, a) /\ {a, b} = {b, a}
    OBVIOUS
  <1>. QED
    BY <1>1, Zenon DEF Merges
-----------------------------------------------------------------------------
(* What merging two roots comes to.                                         *)

Merged == [store: H!Stores, root: Links]

LEMMA MergeRootsIs ==
    ASSUME NEW h \in H!Stores, NEW a \in Links, NEW b \in Links, NEW before, NEW f
    PROVE  /\ a = NULL => H!MergeRoots(h, a, b, before, f) = [store |-> h, root |-> b]
           /\ a # NULL /\ b = NULL => H!MergeRoots(h, a, b, before, f) = [store |-> h, root |-> a]
           /\ a # NULL /\ b # NULL /\ <<a, b>> \in before =>
                H!MergeRoots(h, a, b, before, f) = Attached(h, a, f[<<h.right[a], b>>])
           /\ a # NULL /\ b # NULL /\ <<a, b>> \notin before =>
                H!MergeRoots(h, a, b, before, f) = Attached(h, b, f[<<a, h.right[b]>>])
  BY Zenon DEF H!MergeRoots, Attached

LEMMA MergedIs ==
    ASSUME NEW t
    PROVE  t \in Merged <=> t = [store |-> t.store, root |-> t.root] /\ t.store \in H!Stores /\ t.root \in Links
  BY DEF Merged

LEMMA MergeRootsIn ==
    ASSUME NEW h \in H!Stores, NEW a \in Links, NEW b \in Links, NEW before, NEW f \in [Links \X Links -> Merged]
    PROVE  H!MergeRoots(h, a, b, before, f) \in Merged
  <1>1. NULL \notin Users /\ h.left \in [Users -> Links] /\ h.right \in [Users -> Links]
    BY StrideAssumption, StoreIs DEF Users
  <1>2. ASSUME NEW w \in Users, NEW m \in Merged PROVE Attached(h, w, m) \in Merged
    <2>1. m.store \in H!Stores /\ m.root \in Links
      BY MergedIs
    <2>2. Attached(h, w, m) = [store |-> Attached(h, w, m).store, root |-> Attached(h, w, m).root]
      BY DEF Attached
    <2>3. Attached(h, w, m).store \in H!Stores /\ Attached(h, w, m).root = w
      BY <2>1, AttachedIs
    <2>. QED
      BY <2>2, <2>3, MergedIs DEF Links
  <1>3. \A c, d \in Links : f[<<c, d>>] \in Merged
    OBVIOUS
  <1>4. CASE a = NULL \/ b = NULL
    <2>1. ASSUME NEW c \in Links PROVE [store |-> h, root |-> c] \in Merged
      BY MergedIs
    <2>2. \/ H!MergeRoots(h, a, b, before, f) = [store |-> h, root |-> a]
          \/ H!MergeRoots(h, a, b, before, f) = [store |-> h, root |-> b]
      BY <1>4, Zenon DEF H!MergeRoots
    <2>. QED
      BY <2>1, <2>2, Zenon
  <1>5. CASE a # NULL /\ b # NULL /\ <<a, b>> \in before
    <2>1. a \in Users /\ f[<<h.right[a], b>>] \in Merged
      BY <1>1, <1>3, <1>5 DEF Links
    <2>2. H!MergeRoots(h, a, b, before, f) = Attached(h, a, f[<<h.right[a], b>>])
      BY <1>5, Zenon DEF H!MergeRoots, Attached
    <2>. QED
      BY <1>2, <2>1, <2>2, Zenon
  <1>6. CASE a # NULL /\ b # NULL /\ <<a, b>> \notin before
    <2>1. b \in Users /\ f[<<a, h.right[b]>>] \in Merged
      BY <1>1, <1>3, <1>6 DEF Links
    <2>2. H!MergeRoots(h, a, b, before, f) = Attached(h, b, f[<<a, h.right[b]>>])
      BY <1>6, Zenon DEF H!MergeRoots, Attached
    <2>. QED
      BY <1>2, <2>1, <2>2, Zenon
  <1>. QED
    BY <1>4, <1>5, <1>6

\* g[n] is what the call of skew_heap_merge with n - 1 others below it returns.
MergesBy(h, before, g) ==
    /\ \A n \in Nat : g[n] \in [Links \X Links -> Merged]
    /\ \A n \in Nat : \A a, b \in Links : g[n + 1][<<a, b>>] = H!MergeRoots(h, a, b, before, g[n])
    /\ \A a, b \in Links : H!skew_heap_merge(h, a, b, before) = g[Cardinality(Procs)][<<a, b>>]

LEMMA MergeCalls ==
    ASSUME NEW h \in H!Stores, NEW before
    PROVE  \E g : MergesBy(h, before, g)
  <1> DEFINE D == [Links \X Links -> Merged]
             z == [x \in Links \X Links |-> [store |-> h, root |-> NULL]]
             R(f) == [x \in Links \X Links |-> H!MergeRoots(h, x[1], x[2], before, f)]
             G == [f \in D |-> R(f)]
             F(n, f) == [x \in Links \X Links |->
                            IF n = 0 THEN [store |-> h, root |-> NULL]
                            ELSE H!MergeRoots(h, x[1], x[2], before, f)]
             s == CHOOSE y : y = [n \in Nat |-> F(n, y[n - 1])]
  <1>1. PICK y : Iterates(y, z, G)
    BY IterExists
  <1>2. z \in D
    BY DEF Merged, Links
  <1>3. ASSUME NEW f \in D PROVE G[f] = R(f) /\ R(f) \in D
    <2>1. \A x \in Links \X Links : H!MergeRoots(h, x[1], x[2], before, f) \in Merged
      BY MergeRootsIn
    <2>. QED
      BY <2>1
  <1>4. \A n \in Nat : y[n] \in D
    <2>1. \A f \in D : G[f] \in D
      BY <1>3
    <2>. HIDE DEF D, z, G
    <2>. QED
      BY <1>1, <1>2, <2>1, IterIn, Zenon
  <1>5. ASSUME NEW n \in Nat PROVE y[n] = F(n, y[n - 1])
    <2>1. y[n] = IF n = 0 THEN z ELSE G[y[n - 1]]
      BY <1>1 DEF Iterates
    <2>2. CASE n = 0
      BY <2>1, <2>2
    <2>3. CASE n # 0
      <3>1. n - 1 \in Nat
        BY <2>3
      <3>2. y[n - 1] \in D
        BY <1>4, <3>1
      <3>3. y[n] = R(y[n - 1])
        BY <1>3, <2>1, <2>3, <3>2, Zenon
      <3>4. F(n, y[n - 1]) = R(y[n - 1])
        BY <2>3, Zenon
      <3>. QED
        BY <3>3, <3>4, Zenon
    <2>. QED
      BY <2>2, <2>3
  <1>6. y = [n \in Nat |-> y[n]]
    BY <1>1 DEF Iterates
  <1>7. y = [n \in Nat |-> F(n, y[n - 1])]
    <2>. HIDE DEF F
    <2>. QED
      BY <1>5, <1>6, Zenon
  <1>8. s = [n \in Nat |-> F(n, s[n - 1])]
    <2>. HIDE DEF F
    <2>. QED
      BY <1>7
  <1>9. \A a, b \in Links : H!skew_heap_merge(h, a, b, before) = s[Cardinality(Procs)][<<a, b>>]
    <2> SUFFICES ASSUME NEW a \in Links, NEW b \in Links
                 PROVE  H!skew_heap_merge(h, a, b, before) = s[Cardinality(Procs)][<<a, b>>]
      OBVIOUS
    <2>1. H!skew_heap_merge(h, a, b, before) = s[Cardinality(Procs)][a, b]
      BY Zenon DEF H!skew_heap_merge, Links, Users
    <2>. HIDE DEF s
    <2>. QED
      BY <2>1
  <1>. HIDE DEF s
  <1>10. \A n \in Nat : s[n] \in D
    <2> DEFINE T == {n \in Nat : s[n] \in D}
    <2>1. 0 \in T
      <3>1. s[0] = F(0, s[0 - 1])
        BY <1>8
      <3>2. F(0, s[0 - 1]) = z
        OBVIOUS
      <3>. QED
        BY <1>2, <3>1, <3>2
    <2>2. ASSUME NEW n \in Nat, n \in T PROVE n + 1 \in T
      <3>1. n + 1 \in Nat /\ n + 1 # 0 /\ (n + 1) - 1 = n
        OBVIOUS
      <3>2. s[n + 1] = F(n + 1, s[n])
        BY <1>8, <3>1
      <3>3. F(n + 1, s[n]) = R(s[n])
        BY <3>1
      <3>4. s[n] \in D
        BY <2>2
      <3>5. s[n + 1] \in D
        <4>. HIDE DEF R, D, F
        <4>. QED
          BY <1>3, <3>2, <3>3, <3>4
      <3>. QED
        BY <3>1, <3>5
    <2>. HIDE DEF T
    <2>3. \A n \in Nat : n \in T
      BY <2>1, <2>2, NatInd
    <2>. QED
      BY <2>3 DEF T
  <1>11. ASSUME NEW n \in Nat, NEW a \in Links, NEW b \in Links
         PROVE  s[n + 1][<<a, b>>] = H!MergeRoots(h, a, b, before, s[n])
    <2>1. n + 1 \in Nat /\ n + 1 # 0 /\ (n + 1) - 1 = n
      OBVIOUS
    <2>2. s[n + 1] = F(n + 1, s[n])
      BY <1>8, <2>1
    <2>. QED
      BY <2>1, <2>2
  <1>. QED
    BY <1>9, <1>10, <1>11 DEF MergesBy

LEMMA BelowFinite ==
    ASSUME NEW S \in SUBSET Users
    PROVE  IsFiniteSet(S) /\ Cardinality(S) \in Nat /\ Cardinality(S) < Cardinality(Procs)
  <1>1. IsFiniteSet(Procs) /\ idleproc \in Procs /\ S \in SUBSET Procs /\ S # Procs
    BY StrideAssumption, SchedAssumption DEF Users
  <1>2. IsFiniteSet(S) /\ Cardinality(S) <= Cardinality(Procs) /\ Cardinality(S) # Cardinality(Procs)
    BY <1>1, FS_Subset
  <1>3. Cardinality(S) \in Nat /\ Cardinality(Procs) \in Nat
    BY <1>1, <1>2, FS_CardinalityType
  <1>. QED
    BY <1>2, <1>3

\* One call, if those it may make are right.
LEMMA MergeStep ==
    ASSUME NEW h \in H!Stores, NEW a \in Links, NEW b \in Links, Separate(h, a, b), NEW before, NEW f,
           \A c, d \in Links :
              /\ Separate(h, c, d)
              /\ H!Below(h, c) \cup H!Below(h, d) \subseteq H!Below(h, a) \cup H!Below(h, b)
              /\ H!Below(h, c) \cup H!Below(h, d) # H!Below(h, a) \cup H!Below(h, b)
              => Merges(h, c, d, before, f[<<c, d>>])
    PROVE  Merges(h, a, b, before, H!MergeRoots(h, a, b, before, f))
  <1>1. NULL \notin Users /\ h.left \in [Users -> Links] /\ h.right \in [Users -> Links]
    BY StrideAssumption, StoreIs DEF Users
  <1>2. ASSUME NEW c \in Links, NEW d \in Links, Separate(h, c, d), c = NULL
        PROVE  Merges(h, c, d, before, [store |-> h, root |-> d])
    <2>1. H!Below(h, c) \cup H!Below(h, d) = H!Below(h, d) /\ d \in {c, d}
      BY <1>2, BelowNone
    <2>2. Matching(h, H!Below(h, d))
      BY <1>2 DEF Separate, IsHeap
    <2>3. Makes(h, H!Below(h, d), {c, d}, before, [store |-> h, root |-> d])
      BY <2>1, <2>2 DEF Makes
    <2>. QED
      BY <2>1, <2>3 DEF Merges
  <1>3. ASSUME NEW w \in Users, NEW v \in Users, Separate(h, w, v)
        PROVE  /\ h.right[w] \in Links /\ Separate(h, h.right[w], v) /\ Separate(h, v, h.right[w])
               /\ H!Below(h, h.right[w]) \cup H!Below(h, v) \subseteq H!Below(h, w) \cup H!Below(h, v)
               /\ H!Below(h, h.right[w]) \cup H!Below(h, v) # H!Below(h, w) \cup H!Below(h, v)
    <2>1. PICK q : q = h.right[w]
      OBVIOUS
    <2>2. q \in Links
      BY <1>1, <2>1
    <2>3. /\ IsHeap(h, w) /\ IsHeap(h, v) /\ H!Below(h, w) \cap H!Below(h, v) = {}
          /\ h.parent[v] \notin H!Below(h, w)
      BY <1>1, <1>3 DEF Separate
    <2>4. /\ w \notin H!Below(h, q) /\ w \in H!Below(h, w) /\ H!Below(h, q) \in SUBSET H!Below(h, w)
          /\ IsHeap(h, q) /\ (q # NULL => h.parent[q] = w)
      BY <2>1, <2>3, SubHeaps
    <2>5. Separate(h, q, v) /\ Separate(h, v, q)
      BY <2>3, <2>4 DEF Separate
    <2>. QED
      BY <2>1, <2>2, <2>3, <2>4, <2>5
  <1>4. ASSUME NEW c \in Links, NEW d \in Links, Separate(h, c, d) PROVE Separate(h, d, c)
    BY <1>4 DEF Separate
  <1>5. CASE a = NULL
    <2>1. H!MergeRoots(h, a, b, before, f) = [store |-> h, root |-> b]
      BY <1>5, Zenon DEF H!MergeRoots
    <2>. QED
      BY <1>2, <1>5, <2>1
  <1>6. CASE a # NULL /\ b = NULL
    <2>1. H!MergeRoots(h, a, b, before, f) = [store |-> h, root |-> a]
      BY <1>6, Zenon DEF H!MergeRoots
    <2>2. Merges(h, b, a, before, [store |-> h, root |-> a])
      BY <1>2, <1>4, <1>6
    <2>. QED
      BY <2>1, <2>2, MergesSym
  <1>7. CASE a # NULL /\ b # NULL /\ <<a, b>> \in before
    <2>1. a \in Users /\ b \in Users
      BY <1>7 DEF Links
    <2>2. H!MergeRoots(h, a, b, before, f) = Attached(h, a, f[<<h.right[a], b>>])
      BY <1>7, Zenon DEF H!MergeRoots, Attached
    <2>3. Merges(h, h.right[a], b, before, f[<<h.right[a], b>>])
      BY <1>3, <2>1
    <2>4. Asymmetric(before) => <<b, a>> \notin before
      BY <1>7, <2>1 DEF Asymmetric
    <2>. QED
      BY <2>1, <2>2, <2>3, <2>4, AttachMerges
  <1>8. CASE a # NULL /\ b # NULL /\ <<a, b>> \notin before
    <2>1. a \in Users /\ b \in Users /\ Separate(h, b, a)
      BY <1>4, <1>8 DEF Links
    <2>2. H!MergeRoots(h, a, b, before, f) = Attached(h, b, f[<<a, h.right[b]>>])
      BY <1>8, Zenon DEF H!MergeRoots, Attached
    <2>3. Merges(h, a, h.right[b], before, f[<<a, h.right[b]>>])
      <3>1. H!Below(h, a) \cup H!Below(h, b) = H!Below(h, b) \cup H!Below(h, a)
        OBVIOUS
      <3>2. H!Below(h, a) \cup H!Below(h, h.right[b]) = H!Below(h, h.right[b]) \cup H!Below(h, a)
        OBVIOUS
      <3>. QED
        BY <1>3, <2>1, <3>1, <3>2
    <2>4. Merges(h, b, a, before, Attached(h, b, f[<<a, h.right[b]>>]))
      BY <1>8, <2>1, <2>3, MergesSym, AttachMerges
    <2>. QED
      BY <2>2, <2>4, MergesSym
  <1>. QED
    BY <1>5, <1>6, <1>7, <1>8

\* skew_heap_merge merges.
LEMMA MergeMerges ==
    ASSUME NEW h \in H!Stores, NEW a \in Links, NEW b \in Links, Separate(h, a, b), NEW before
    PROVE  Merges(h, a, b, before, H!skew_heap_merge(h, a, b, before))
  <1>0. PICK g : MergesBy(h, before, g)
    BY MergeCalls, Zenon
  <1>1. /\ \A n \in Nat : \A c, d \in Links : g[n + 1][<<c, d>>] = H!MergeRoots(h, c, d, before, g[n])
        /\ \A c, d \in Links : H!skew_heap_merge(h, c, d, before) = g[Cardinality(Procs)][<<c, d>>]
    BY <1>0 DEF MergesBy
  <1> DEFINE U(c, d) == H!Below(h, c) \cup H!Below(h, d)
             T == {n \in Nat : \A c, d \in Links :
                      Separate(h, c, d) /\ Cardinality(U(c, d)) < n => Merges(h, c, d, before, g[n][<<c, d>>])}
  <1>2. \A c, d \in Links : U(c, d) \in SUBSET Users
    BY BelowClosed
  <1>. HIDE DEF U
  <1>3. 0 \in T
    BY <1>2, BelowFinite
  <1>4. ASSUME NEW n \in Nat, n \in T PROVE n + 1 \in T
    <2> SUFFICES ASSUME NEW c \in Links, NEW d \in Links, Separate(h, c, d), Cardinality(U(c, d)) < n + 1
                 PROVE  Merges(h, c, d, before, g[n + 1][<<c, d>>])
      OBVIOUS
    <2>1. ASSUME NEW i \in Links, NEW j \in Links, Separate(h, i, j), U(i, j) \subseteq U(c, d), U(i, j) # U(c, d)
          PROVE  Merges(h, i, j, before, g[n][<<i, j>>])
      <3>1. IsFiniteSet(U(c, d)) /\ Cardinality(U(c, d)) \in Nat /\ Cardinality(U(i, j)) \in Nat
        BY <1>2, BelowFinite
      <3>2. Cardinality(U(i, j)) <= Cardinality(U(c, d)) /\ Cardinality(U(i, j)) # Cardinality(U(c, d))
        BY <2>1, <3>1, FS_Subset
      <3>3. Cardinality(U(i, j)) < n
        BY <3>1, <3>2
      <3>. QED
        BY <1>4, <2>1, <3>3
    <2>2. Merges(h, c, d, before, H!MergeRoots(h, c, d, before, g[n]))
      BY <2>1, MergeStep DEF U
    <2>. QED
      BY <1>1, <2>2
  <1>. HIDE DEF T
  <1>5. \A n \in Nat : n \in T
    BY <1>3, <1>4, NatInd
  <1>6. Cardinality(Procs) \in Nat /\ Cardinality(U(a, b)) < Cardinality(Procs)
    BY <1>2, BelowFinite, FS_CardinalityType, StrideAssumption
  <1>7. Merges(h, a, b, before, g[Cardinality(Procs)][<<a, b>>])
    BY <1>5, <1>6 DEF T
  <1>. QED
    BY <1>1, <1>7
-----------------------------------------------------------------------------
(* Inserting a node and taking out the root.                                *)

\* The heap with root r holds exactly S.
HeapOf(h, r, S) ==
    /\ h \in H!Stores /\ r \in Links /\ S \in SUBSET Users
    /\ H!Below(h, r) = S /\ Matching(h, S)
    /\ r # NULL => h.parent[r] = NULL

LEMMA InitIs ==
    ASSUME NEW h \in H!Stores, NEW n \in Users
    PROVE  /\ H!skew_heap_init(h, n) \in H!Stores
           /\ H!skew_heap_init(h, n).left[n] = NULL /\ H!skew_heap_init(h, n).right[n] = NULL
           /\ H!skew_heap_init(h, n).parent[n] = NULL
           /\ \A k \in Users : k # n => /\ H!skew_heap_init(h, n).left[k] = h.left[k]
                                        /\ H!skew_heap_init(h, n).right[k] = h.right[k]
                                        /\ H!skew_heap_init(h, n).parent[k] = h.parent[k]
  <1>1. PICK A, B, C : A = h.left /\ B = h.right /\ C = h.parent
    OBVIOUS
  <1>2. h = [left |-> A, right |-> B, parent |-> C] /\ A \in [Users -> Links] /\ B \in [Users -> Links] /\ C \in [Users -> Links]
    BY <1>1, StoreIs
  <1>3. PICK AA, BB, CC : AA = [A EXCEPT ![n] = NULL] /\ BB = [B EXCEPT ![n] = NULL] /\ CC = [C EXCEPT ![n] = NULL]
    OBVIOUS
  <1>4. PICK u, v, t : /\ u = [[left |-> A, right |-> B, parent |-> C] EXCEPT !.left[n] = NULL]
                       /\ v = [u EXCEPT !.right[n] = NULL] /\ t = [v EXCEPT !.parent[n] = NULL]
    OBVIOUS
  <1>5. t = H!skew_heap_init(h, n)
    BY <1>2, <1>4, Zenon DEF H!skew_heap_init
  <1>6. u = [left |-> AA, right |-> B, parent |-> C]
    BY <1>3, <1>4
  <1>7. v = [left |-> AA, right |-> BB, parent |-> C]
    <2>1. v = [[left |-> AA, right |-> B, parent |-> C] EXCEPT !.right[n] = NULL]
      BY <1>4, <1>6, Zenon
    <2>. QED
      BY <1>3, <2>1
  <1>8. t = [left |-> AA, right |-> BB, parent |-> CC]
    <2>1. t = [[left |-> AA, right |-> BB, parent |-> C] EXCEPT !.parent[n] = NULL]
      BY <1>4, <1>7, Zenon
    <2>. QED
      BY <1>3, <2>1
  <1>9. NULL \in Links
    BY DEF Links
  <1>10. AA \in [Users -> Links] /\ BB \in [Users -> Links] /\ CC \in [Users -> Links]
    BY <1>2, <1>3, <1>9
  <1>11. t.left = AA /\ t.right = BB /\ t.parent = CC
    BY <1>8
  <1>12. t \in H!Stores
    BY <1>8, <1>10, <1>11, StoreIs
  <1>13. t.left[n] = NULL /\ t.right[n] = NULL /\ t.parent[n] = NULL
    BY <1>2, <1>3, <1>11
  <1>14. \A k \in Users : k # n => t.left[k] = h.left[k] /\ t.right[k] = h.right[k] /\ t.parent[k] = h.parent[k]
    BY <1>1, <1>2, <1>3, <1>11
  <1>. QED
    BY <1>5, <1>12, <1>13, <1>14

\* Pointers of nodes outside may change.
LEMMA HeapFrame ==
    ASSUME NEW h, NEW r, NEW S, HeapOf(h, r, S), NEW t \in H!Stores, NEW before,
           \A n \in S : t.left[n] = h.left[n] /\ t.right[n] = h.right[n] /\ t.parent[n] = h.parent[n]
    PROVE  HeapOf(t, r, S) /\ (InOrder(h, S, before) => InOrder(t, S, before))
  <1>1. H!Below(t, r) = S
    BY BelowFrame DEF HeapOf
  <1>2. /\ r # NULL => r \in S
        /\ \A n \in S : (h.left[n] # NULL => h.left[n] \in S) /\ (h.right[n] # NULL => h.right[n] \in S)
    BY BelowClosed DEF HeapOf
  <1>3. Matching(t, S)
    BY <1>2 DEF HeapOf, Matching
  <1>. QED
    BY <1>1, <1>2, <1>3 DEF HeapOf, InOrder

LEMMA InsertHeap ==
    ASSUME NEW h, NEW r, NEW S, HeapOf(h, r, S), NEW n \in Users, n \notin S, NEW before,
           NEW t, t = H!skew_heap_insert(h, r, n, before)
    PROVE  /\ HeapOf(t.store, t.root, S \cup {n})
           /\ Asymmetric(before) /\ InOrder(h, S, before) => InOrder(t.store, S \cup {n}, before)
  <1>1. PICK g : g = H!skew_heap_init(h, n)
    OBVIOUS
  <1>2. NULL \notin Users /\ n \in Links /\ n # NULL
    BY StrideAssumption DEF Users, Links
  <1>3. /\ g \in H!Stores /\ g.left[n] = NULL /\ g.right[n] = NULL /\ g.parent[n] = NULL
        /\ \A k \in S : g.left[k] = h.left[k] /\ g.right[k] = h.right[k] /\ g.parent[k] = h.parent[k]
    BY <1>1, InitIs DEF HeapOf
  <1>4. HeapOf(g, r, S) /\ (InOrder(h, S, before) => InOrder(g, S, before))
    BY <1>3, HeapFrame
  <1>5. H!Below(g, n) = {n}
    BY <1>3, BelowNode, BelowNone
  <1>6. IsHeap(g, r) /\ IsHeap(g, n)
    BY <1>2, <1>3, <1>4, <1>5 DEF IsHeap, HeapOf, Matching
  <1>7. Separate(g, r, n)
    BY <1>2, <1>3, <1>4, <1>5, <1>6 DEF Separate, HeapOf
  <1>8. t = H!skew_heap_merge(g, r, n, before)
    BY <1>1, Zenon DEF H!skew_heap_insert
  <1>9. Merges(g, r, n, before, t)
    BY <1>2, <1>3, <1>4, <1>7, <1>8, MergeMerges DEF HeapOf
  <1>10. Makes(g, S \cup {n}, {r, n}, before, t)
    BY <1>4, <1>5, <1>9 DEF Merges, HeapOf
  <1>11. t.root # NULL => t.store.parent[t.root] = NULL
    BY <1>2, <1>3, <1>4, <1>10 DEF Makes, HeapOf
  <1>12. HeapOf(t.store, t.root, S \cup {n})
    BY <1>4, <1>10, <1>11 DEF Makes, HeapOf
  <1>13. InOrder(g, S, before) => InOrder(g, S \cup {n}, before)
    BY <1>3 DEF InOrder
  <1>. QED
    BY <1>4, <1>10, <1>12, <1>13 DEF Makes

LEMMA SetParentIs ==
    ASSUME NEW h \in H!Stores, NEW n \in Links, NEW p \in Links
    PROVE  /\ H!SetParent(h, n, p) \in H!Stores
           /\ H!SetParent(h, n, p).left = h.left /\ H!SetParent(h, n, p).right = h.right
           /\ n # NULL => H!SetParent(h, n, p).parent[n] = p
           /\ \A k \in Users : k # n => H!SetParent(h, n, p).parent[k] = h.parent[k]
  <1>1. CASE n = NULL
    BY <1>1 DEF H!SetParent
  <1>2. CASE n # NULL
    <2>1. n \in Users
      BY <1>2 DEF Links
    <2>2. PICK A, B, C : A = h.left /\ B = h.right /\ C = h.parent
      OBVIOUS
    <2>3. h = [left |-> A, right |-> B, parent |-> C] /\ A \in [Users -> Links] /\ B \in [Users -> Links] /\ C \in [Users -> Links]
      BY <2>2, StoreIs
    <2>4. PICK t : t = [[left |-> A, right |-> B, parent |-> C] EXCEPT !.parent[n] = p]
      OBVIOUS
    <2>5. t = H!SetParent(h, n, p)
      BY <1>2, <2>3, <2>4, Zenon DEF H!SetParent
    <2>6. t = [left |-> A, right |-> B, parent |-> [C EXCEPT ![n] = p]]
      BY <2>4
    <2>7. t \in H!Stores
      BY <2>3, <2>6, StoreIs
    <2>8. t.left = h.left /\ t.right = h.right /\ t.parent[n] = p /\ \A k \in Users : k # n => t.parent[k] = h.parent[k]
      BY <2>1, <2>2, <2>3, <2>6
    <2>. QED
      BY <2>5, <2>7, <2>8
  <1>. QED
    BY <1>1, <1>2

\* stride_dequeue of the root.
LEMMA DequeueHeap ==
    ASSUME NEW h, NEW r, NEW S, HeapOf(h, r, S), r # NULL, NEW d, d = stride_dequeue(h, r, r)
    PROVE  /\ HeapOf(d.store, d.root, S \ {r})
           /\ Asymmetric(Before) /\ InOrder(h, S, Before) => InOrder(d.store, S \ {r}, Before)
  <1>1. PICK l, q : l = h.left[r] /\ q = h.right[r]
    OBVIOUS
  <1>2. PICK m : m = H!skew_heap_merge(h, l, q, Before)
    OBVIOUS
  <1>3. h \in H!Stores /\ r \in Users /\ S \in SUBSET Users /\ H!Below(h, r) = S /\ h.parent[r] = NULL /\ NULL \notin S
    BY StrideAssumption DEF HeapOf, Links, Users
  <1>4. l \in Links /\ q \in Links /\ NULL \in Links
    BY <1>1, <1>3, StoreIs DEF Links
  <1>5. IsHeap(h, r)
    BY <1>3 DEF IsHeap, HeapOf
  <1>6. /\ r \notin H!Below(h, l) /\ r \notin H!Below(h, q) /\ H!Below(h, l) \cap H!Below(h, q) = {}
        /\ S = {r} \cup H!Below(h, l) \cup H!Below(h, q) /\ IsHeap(h, l) /\ IsHeap(h, q)
        /\ (l # NULL => h.parent[l] = r) /\ (q # NULL => h.parent[q] = r)
    BY <1>1, <1>3, <1>5, SubHeaps
  <1>7. Separate(h, l, q)
    BY <1>6 DEF Separate
  <1>8. Makes(h, S \ {r}, {l, q}, Before, m)
    <2>1. Merges(h, l, q, Before, m)
      BY <1>2, <1>3, <1>4, <1>7, MergeMerges
    <2>2. H!Below(h, l) \cup H!Below(h, q) = S \ {r}
      BY <1>6
    <2>. QED
      BY <2>1, <2>2 DEF Merges
  <1>9. PICK g : g = H!SetParent(m.store, m.root, NULL)
    OBVIOUS
  <1>10. H!skew_heap_remove(h, r, r, Before) = [store |-> g, root |-> m.root]
    <2>1. H!skew_heap_merge(h, h.left[r], h.right[r], Before) = m
      BY <1>1, <1>2
    <2>. QED
      BY <1>3, <1>9, <2>1, Zenon DEF H!skew_heap_remove
  <1>11. d.store = H!skew_heap_init(g, r) /\ d.root = m.root
    BY <1>10 DEF stride_dequeue
  <1>12. /\ m.store \in H!Stores /\ m.root \in Links /\ H!Below(m.store, m.root) = S \ {r}
         /\ Matching(m.store, S \ {r})
    BY <1>8 DEF Makes
  <1>13. /\ g \in H!Stores /\ g.left = m.store.left /\ g.right = m.store.right
         /\ m.root # NULL => g.parent[m.root] = NULL
         /\ \A k \in Users : k # m.root => g.parent[k] = m.store.parent[k]
    <2>1. PICK s, x : s = m.store /\ x = m.root
      OBVIOUS
    <2>2. s \in H!Stores /\ x \in Links /\ g = H!SetParent(s, x, NULL)
      BY <1>9, <1>12, <2>1
    <2>3. /\ g \in H!Stores /\ g.left = s.left /\ g.right = s.right
          /\ x # NULL => g.parent[x] = NULL
          /\ \A k \in Users : k # x => g.parent[k] = s.parent[k]
      BY <1>4, <2>2, SetParentIs
    <2>. QED
      BY <2>1, <2>3
  <1>14. H!Below(g, m.root) = S \ {r}
    BY <1>12, <1>13, BelowFrame
  <1>15. m.root # NULL => m.store.parent[m.root] = r
    BY <1>6, <1>8 DEF Makes
  <1>16. Matching(g, S \ {r})
    <2>1. ASSUME NEW n \in S \ {r}, NEW k, k = m.store.left[n] \/ k = m.store.right[n], k # NULL PROVE k # m.root /\ k \in Users
      <3>1. m.store.parent[k] = n /\ n # r
        BY <1>12, <2>1 DEF Matching
      <3>2. k \in Users
        BY <1>3, <1>12, <2>1, StoreIs DEF Links
      <3>. QED
        BY <1>15, <2>1, <3>1, <3>2
    <2>. QED
      BY <1>12, <1>13, <2>1 DEF Matching
  <1>17. HeapOf(g, m.root, S \ {r})
    BY <1>3, <1>12, <1>13, <1>14, <1>16 DEF HeapOf
  <1>18. HeapOf(d.store, d.root, S \ {r}) /\ (InOrder(g, S \ {r}, Before) => InOrder(d.store, S \ {r}, Before))
    <2>1. d.store \in H!Stores
      BY <1>3, <1>11, <1>13, InitIs
    <2>2. \A n \in S \ {r} : d.store.left[n] = g.left[n] /\ d.store.right[n] = g.right[n] /\ d.store.parent[n] = g.parent[n]
      BY <1>3, <1>11, <1>13, InitIs
    <2>. QED
      BY <1>11, <1>17, <2>1, <2>2, HeapFrame
  <1>19. ASSUME Asymmetric(Before), InOrder(h, S, Before) PROVE InOrder(g, S \ {r}, Before)
    <2>1. InOrder(m.store, S \ {r}, Before)
      BY <1>8, <1>19 DEF Makes, InOrder
    <2>. QED
      BY <1>13, <2>1 DEF InOrder
  <1>. QED
    BY <1>18, <1>19
-----------------------------------------------------------------------------
(* Strides.                                                                 *)

LEMMA TwoToIs ==
    TwoTo[0] = 1 /\ \A n \in Nat : TwoTo[n] \in Nat \ {0} /\ TwoTo[n + 1] = 2 * TwoTo[n]
  <1> DEFINE G == [y \in Nat |-> 2 * y]
             s == CHOOSE x : x = [n \in Nat |-> IF n = 0 THEN 1 ELSE 2 * x[n - 1]]
  <1>1. PICK x : Iterates(x, 1, G)
    BY IterExists
  <1>2. \A i \in Nat : x[i] \in Nat
    <2>1. PICK S : S = Nat
      OBVIOUS
    <2>2. 1 \in S /\ \A y \in S : G[y] \in S
      BY <2>1
    <2>. HIDE DEF G
    <2>3. \A i \in Nat : x[i] \in S
      BY <1>1, <2>2, IterIn, Zenon
    <2>. QED
      BY <2>1, <2>3
  <1>3. x = [n \in Nat |-> IF n = 0 THEN 1 ELSE 2 * x[n - 1]]
    <2>1. \A i \in Nat : x[i] = IF i = 0 THEN 1 ELSE G[x[i - 1]]
      BY <1>1 DEF Iterates
    <2>2. \A i \in Nat : i # 0 => G[x[i - 1]] = 2 * x[i - 1]
      <3>1. \A i \in Nat : i # 0 => i - 1 \in Nat
        OBVIOUS
      <3>. QED
        BY <1>2, <3>1
    <2>3. x = [i \in Nat |-> x[i]]
      BY <1>1 DEF Iterates
    <2>. HIDE DEF G
    <2>4. \A i \in Nat : x[i] = IF i = 0 THEN 1 ELSE 2 * x[i - 1]
      BY <2>1, <2>2, Zenon
    <2>. QED
      BY <2>3, <2>4, Zenon
  <1>4. s = [n \in Nat |-> IF n = 0 THEN 1 ELSE 2 * s[n - 1]]
    BY <1>3
  <1>5. TwoTo = s
    BY DEF TwoTo
  <1>. HIDE DEF s
  <1>6. s[0] = 1 /\ \A n \in Nat : s[n + 1] = 2 * s[n]
    <2>1. \A n \in Nat : n + 1 \in Nat /\ n + 1 # 0 /\ (n + 1) - 1 = n
      OBVIOUS
    <2>. QED
      BY <1>4, <2>1
  <1>7. \A n \in Nat : s[n] \in Nat \ {0}
    <2> DEFINE T == {n \in Nat : s[n] \in Nat \ {0}}
    <2>1. 0 \in T /\ \A n \in Nat : n \in T => n + 1 \in T
      BY <1>6
    <2>. HIDE DEF T
    <2>2. \A n \in Nat : n \in T
      BY <2>1, NatInd
    <2>. QED
      BY <2>2 DEF T
  <1>. QED
    BY <1>5, <1>6, <1>7

\* The modulus of the strides, half of it, and the advance of the lowest priority.
LEMMA Widths ==
    /\ TwoTo[WIDTH] \in Nat /\ TwoTo[WIDTH - 1] \in Nat /\ BIG_STRIDE \in Nat \ {0}
    /\ TwoTo[WIDTH] = 2 * TwoTo[WIDTH - 1] /\ BIG_STRIDE = TwoTo[WIDTH - 1] - 1
  <1>1. WIDTH - 2 \in Nat /\ (WIDTH - 2) + 1 = WIDTH - 1 /\ (WIDTH - 1) + 1 = WIDTH /\ WIDTH - 1 \in Nat
    BY StrideAssumption
  <1>2. TwoTo[WIDTH - 1] = 2 * TwoTo[WIDTH - 2] /\ TwoTo[WIDTH] = 2 * TwoTo[WIDTH - 1]
    BY <1>1, TwoToIs
  <1>3. TwoTo[WIDTH - 2] \in Nat \ {0}
    BY <1>1, TwoToIs
  <1>. QED
    BY <1>2, <1>3 DEF BIG_STRIDE

LEMMA Times ==
    ASSUME NEW m \in Nat \ {0}, NEW k \in Int
    PROVE  m * k \in Int /\ (k >= 1 => m * k >= m) /\ (k <= -1 => m * k <= -m) /\ (k = 0 => m * k = 0)
  OBVIOUS

\* The remainder is the only number of the range that differs by a multiple.
LEMMA ModIs ==
    ASSUME NEW m \in Nat \ {0}, NEW x \in Int
    PROVE  (x % m) \in 0 .. m - 1 /\ \E k \in Int : x = (x % m) + m * k
  <1>1. (x % m) \in 0 .. m - 1
    OBVIOUS
  <1>2. x = (x % m) + m * (x \div m) /\ x \div m \in Int
    OBVIOUS
  <1>. QED
    BY <1>1, <1>2

LEMMA ModOnly ==
    ASSUME NEW m \in Nat \ {0}, NEW x \in Int, NEW y \in 0 .. m - 1, NEW k \in Int, x = y + m * k
    PROVE  x % m = y
  <1>1. PICK j \in Int : x = (x % m) + m * j
    BY ModIs
  <1>2. (x % m) \in 0 .. m - 1
    BY ModIs
  <1>3. m * (k - j) = m * k - m * j
    OBVIOUS
  <1>4. m * (k - j) = (x % m) - y
    BY <1>1, <1>2, <1>3
  <1>5. k - j = 0
    BY <1>2, <1>4, Times
  <1>. QED
    BY <1>2, <1>4, <1>5

\* The sign of a difference that is small enough.
LEMMA SignedIs ==
    ASSUME NEW x \in Int, NEW d \in -BIG_STRIDE .. BIG_STRIDE, NEW k \in Int, x = d + TwoTo[WIDTH] * k
    PROVE  Signed(x) = d
  <1>1. PICK m, b : m = TwoTo[WIDTH] /\ b = TwoTo[WIDTH - 1]
    OBVIOUS
  <1>2. m \in Nat \ {0} /\ b \in Nat /\ m = 2 * b /\ BIG_STRIDE = b - 1 /\ b - 1 \in Nat
    BY <1>1, Widths
  <1>3. Signed(x) = IF x % m < b THEN x % m ELSE (x % m) - m
    BY <1>1 DEF Signed
  <1>4. CASE d >= 0
    <2>1. d \in 0 .. m - 1 /\ x = d + m * k
      BY <1>1, <1>2, <1>4
    <2>2. x % m = d
      BY <1>2, <2>1, ModOnly
    <2>. QED
      BY <1>2, <1>3, <1>4, <2>2
  <1>5. CASE d < 0
    <2>1. d + m \in 0 .. m - 1 /\ k - 1 \in Int
      BY <1>2, <1>5
    <2>2. m * (k - 1) = m * k - m
      BY <1>2
    <2>3. m * k \in Int /\ m * (k - 1) \in Int
      BY <1>2
    <2>4. x = (d + m) + m * (k - 1)
      BY <1>1, <1>2, <2>2, <2>3
    <2>5. PICK y, l : y = d + m /\ l = k - 1
      OBVIOUS
    <2>6. y \in 0 .. m - 1 /\ l \in Int /\ x = y + m * l
      BY <2>1, <2>4, <2>5
    <2>7. x % m = y
      <3>1. m \in Nat \ {0}
        BY <1>2
      <3>. QED
        BY <2>6, <3>1, ModOnly, Zenon
    <2>. QED
      BY <1>2, <1>3, <1>5, <2>5, <2>7
  <1>. QED
    BY <1>2, <1>4, <1>5

\* v are the strides before they wrapped around.
Lifts(v, stride) ==
    /\ v \in [Users -> Int]
    /\ \A p \in Users : stride[p] = v[p] % TwoTo[WIDTH]
    /\ \A p, q \in Users : v[p] - v[q] <= BIG_STRIDE

\* The difference of two strides is that of the numbers.
LEMMA DiffIs ==
    ASSUME NEW v, NEW stride, Lifts(v, stride), NEW p \in Users, NEW q \in Users
    PROVE  StrideDiff(stride, p, q) = v[p] - v[q] /\ v[p] - v[q] \in -BIG_STRIDE .. BIG_STRIDE
  <1>1. PICK m : m = TwoTo[WIDTH] /\ m \in Nat \ {0} /\ BIG_STRIDE \in Nat
    BY Widths
  <1>2. PICK x \in Int, y \in Int : x = v[p] /\ y = v[q]
    BY DEF Lifts
  <1>3. x - y <= BIG_STRIDE /\ y - x <= BIG_STRIDE /\ stride[p] = x % m /\ stride[q] = y % m
    BY <1>1, <1>2 DEF Lifts
  <1>4. PICK a, b : a = x % m /\ b = y % m
    OBVIOUS
  <1>5. (\E i \in Int : x = a + m * i) /\ (\E j \in Int : y = b + m * j) /\ a \in 0 .. m - 1 /\ b \in 0 .. m - 1
    BY <1>1, <1>4, ModIs
  <1>6. PICK i \in Int, j \in Int : x = a + m * i /\ y = b + m * j
    BY <1>5
  <1>7. m * (j - i) = m * j - m * i /\ m * j \in Int /\ m * i \in Int /\ j - i \in Int
    BY <1>1
  <1>8. a - b \in Int /\ x - y \in -BIG_STRIDE .. BIG_STRIDE /\ a - b = (x - y) + m * (j - i)
    BY <1>1, <1>3, <1>5, <1>6, <1>7
  <1>9. PICK d : d = x - y
    OBVIOUS
  <1>10. Signed(a - b) = d
    BY <1>1, <1>7, <1>8, <1>9, SignedIs
  <1>. QED
    BY <1>2, <1>3, <1>4, <1>8, <1>9, <1>10 DEF StrideDiff

\* So the comparison is one of numbers.
LEMMA BeforeIs ==
    ASSUME NEW v, Lifts(v, lab6_stride)
    PROVE  (\A p, q \in Users : <<p, q>> \in Before <=> v[p] < v[q]) /\ Asymmetric(Before)
  <1>1. ASSUME NEW p \in Users, NEW q \in Users PROVE <<p, q>> \in Before <=> v[p] < v[q]
    <2>1. StrideDiff(lab6_stride, p, q) = v[p] - v[q] /\ v[p] \in Int /\ v[q] \in Int
      BY DiffIs DEF Lifts
    <2>2. <<p, q>> \in Before <=> StrideDiff(lab6_stride, p, q) < 0
      BY DEF Before
    <2>. QED
      BY <2>1, <2>2
  <1>2. \A p, q \in Users : v[p] \in Int /\ v[q] \in Int
    BY DEF Lifts
  <1>. QED
    BY <1>1, <1>2 DEF Asymmetric

\* The root of a heap that is in order is the least of it.
LEMMA RootLeast ==
    ASSUME NEW h, NEW r, NEW S, HeapOf(h, r, S), r # NULL, NEW v, Lifts(v, lab6_stride), InOrder(h, S, Before)
    PROVE  r \in S /\ \A n \in S : v[r] <= v[n]
  <1>1. h \in H!Stores /\ r \in Links /\ S \in SUBSET Users /\ H!Below(h, r) = S
    BY DEF HeapOf
  <1>2. r \in S /\ \A n \in S : /\ h.left[n] # NULL => h.left[n] \in S
                                /\ h.right[n] # NULL => h.right[n] \in S
    BY <1>1, BelowClosed
  <1>3. \A n \in Users : v[n] \in Int
    BY DEF Lifts
  <1> DEFINE T == {n \in S : v[r] <= v[n]}
  <1>4. T \in SUBSET Users /\ r \in T
    BY <1>1, <1>2, <1>3
  <1>5. ASSUME NEW n \in T, NEW k \in {h.left[n], h.right[n]}, k # NULL PROVE k \in T
    <2>1. n \in S /\ v[r] <= v[n] /\ k \in S
      BY <1>2, <1>5
    <2>2. <<k, n>> \notin Before
      BY <1>5, <2>1 DEF InOrder
    <2>3. ~(v[k] < v[n])
      BY <1>1, <2>1, <2>2, BeforeIs
    <2>. QED
      BY <1>1, <1>2, <1>3, <2>1, <2>3
  <1>6. H!Closed(h, T)
    BY <1>5 DEF H!Closed
  <1>. HIDE DEF T
  <1>7. S \in SUBSET T
    BY <1>1, <1>4, <1>6, BelowLeast
  <1>. QED
    BY <1>2, <1>7 DEF T

LEMMA StepIs ==
    ASSUME NEW n \in Nat
    PROVE  Step(n) \in 0 .. BIG_STRIDE
  <1>1. BIG_STRIDE \in Nat
    BY Widths
  <1>2. ASSUME NEW b \in Nat, n # 0 PROVE b \div n \in 0 .. b
    <2>1. n \in Nat \ {0} /\ b \div n \in Int /\ b % n \in 0 .. n - 1 /\ b = n * (b \div n) + (b % n)
      BY <1>2
    <2>2. n * (b \div n) = (n - 1) * (b \div n) + (b \div n)
      BY <2>1
    <2>3. b \div n >= 0
      BY <2>1
    <2>4. (n - 1) * (b \div n) >= 0
      BY <2>1, <2>3
    <2>. QED
      BY <2>1, <2>2, <2>3, <2>4
  <1>. QED
    BY <1>1, <1>2 DEF Step

\* The least process advances.
LEMMA LiftStep ==
    ASSUME NEW v, NEW stride, Lifts(v, stride), NEW r \in Users, \A p \in Users : v[r] <= v[p], NEW s \in 0 .. BIG_STRIDE,
           DOMAIN stride = Users, NEW stridep, stridep = [stride EXCEPT ![r] = (stride[r] + s) % TwoTo[WIDTH]]
    PROVE  Lifts([v EXCEPT ![r] = v[r] + s], stridep)
  <1>1. PICK m : m = TwoTo[WIDTH] /\ m \in Nat \ {0} /\ BIG_STRIDE \in Nat
    BY Widths
  <1>2. v \in [Users -> Int] /\ s \in Int
    BY <1>1 DEF Lifts
  <1>3. PICK w : w = [v EXCEPT ![r] = v[r] + s]
    OBVIOUS
  <1>4. w \in [Users -> Int] /\ w[r] = v[r] + s /\ \A p \in Users : p # r => w[p] = v[p]
    BY <1>2, <1>3
  <1>5. \A p, q \in Users : w[p] - w[q] <= BIG_STRIDE
    <2> SUFFICES ASSUME NEW p \in Users, NEW q \in Users PROVE w[p] - w[q] <= BIG_STRIDE
      OBVIOUS
    <2>1. v[p] \in Int /\ v[q] \in Int /\ v[r] \in Int
      BY <1>2
    <2>2. v[p] - v[q] <= BIG_STRIDE /\ v[r] <= v[q] /\ v[r] <= v[p]
      BY DEF Lifts
    <2>3. s <= BIG_STRIDE /\ 0 <= s
      BY <1>1
    <2>. QED
      BY <1>1, <1>2, <1>4, <2>1, <2>2, <2>3
  <1>6. stridep[r] = w[r] % m
    <2>1. PICK x \in Int : x = v[r]
      BY <1>2
    <2>2. PICK a : a = x % m
      OBVIOUS
    <2>3. stride[r] = a /\ a \in 0 .. m - 1 /\ \E i \in Int : x = a + m * i
      BY <1>1, <2>1, <2>2, ModIs DEF Lifts
    <2>4. PICK i \in Int : x = a + m * i
      BY <2>3
    <2>5. a + s \in Int
      BY <1>1, <1>2, <2>3
    <2>6. PICK c, y : c = a + s /\ y = c % m
      OBVIOUS
    <2>7. y \in 0 .. m - 1 /\ \E j \in Int : c = y + m * j
      BY <1>1, <2>5, <2>6, ModIs
    <2>8. PICK j \in Int : c = y + m * j
      BY <2>7
    <2>9. m * (i + j) = m * i + m * j /\ m * i \in Int /\ m * j \in Int /\ i + j \in Int
      BY <1>1
    <2>10. x + s \in Int /\ x + s = y + m * (i + j)
      <3>1. PICK e \in Int, f \in Int : e = m * i /\ f = m * j /\ m * (i + j) = e + f
        BY <2>9
      <3>2. x = a + e /\ a + s = y + f /\ a \in Int /\ y \in Int
        BY <1>1, <2>3, <2>4, <2>6, <2>7, <2>8, <3>1
      <3>. QED
        BY <1>2, <3>1, <3>2
    <2>11. PICK z : z = x + s
      OBVIOUS
    <2>12. z % m = y
      BY <1>1, <2>7, <2>9, <2>10, <2>11, ModOnly
    <2>13. w[r] = z
      BY <1>4, <2>1, <2>11
    <2>14. stridep[r] = (stride[r] + s) % m
      BY <1>1
    <2>. QED
      BY <2>3, <2>6, <2>12, <2>13, <2>14
  <1>7. \A p \in Users : stridep[p] = w[p] % m
    BY <1>1, <1>4, <1>6 DEF Lifts
  <1>. QED
    BY <1>1, <1>3, <1>4, <1>5, <1>7 DEF Lifts
-----------------------------------------------------------------------------
(* The run pool.                                                            *)

PoolInv == TypeOK /\ RunPoolExact /\ HeapOf(pool, root, run_pool)

LEMMA PoolInvImplies ==
    PoolInv => HeapIsPool
  <1> SUFFICES ASSUME PoolInv PROVE HeapIsPool
    OBVIOUS
  <1>1. /\ H!Below(pool, root) = run_pool /\ (root # NULL => pool.parent[root] = NULL)
        /\ Matching(pool, run_pool)
    BY DEF PoolInv, HeapOf
  <1>. QED
    BY <1>1, Zenon DEF HeapIsPool, Matching

LEMMA WakesPool ==
    ASSUME PoolInv, NEW p \in Users, state[p] # "PROC_RUNNABLE", Wakes(p)
    PROVE  SchedTypeOK' /\ RunPoolExact' /\ HeapOf(pool', root', run_pool')
  <1>1. SchedTypeOK /\ RunPoolExact /\ HeapOf(pool, root, run_pool) /\ {p} \in SUBSET Procs /\ p # idleproc
    BY DEF PoolInv, TypeOK, Users
  <1>2. wakeup_proc({p}, state, wait_state) /\ UNCHANGED need_resched
    BY DEF Wakes
  <1>3. SchedTypeOK'
    BY <1>1, <1>2, WakeupProcType
  <1>4. wakeup({p}, state, wait_state)
    BY <1>2 DEF wakeup_proc
  <1>5. RunPoolExact'
    BY <1>1, <1>4, WakeupPool DEF SchedTypeOK
  <1>6. run_pool' = run_pool \cup ({p} \ {current})
    BY <1>1, <1>4 DEF wakeup, Woken, Queued
  <1>7. CASE p = current
    <2>1. pool' = pool /\ root' = root /\ run_pool' = run_pool
      BY <1>6, <1>7 DEF Wakes
    <2>. QED
      BY <1>1, <1>3, <1>5, <2>1
  <1>8. CASE p # current
    <2>1. PICK t : t = H!skew_heap_insert(pool, root, p, Before)
      OBVIOUS
    <2>2. pool' = t.store /\ root' = t.root
      BY <1>8, <2>1, Zenon DEF Wakes, stride_enqueue
    <2>3. p \notin run_pool
      BY <1>1 DEF RunPoolExact
    <2>4. HeapOf(t.store, t.root, run_pool \cup {p})
      BY <1>1, <2>1, <2>3, InsertHeap
    <2>5. run_pool' = run_pool \cup {p}
      BY <1>6, <1>8
    <2>. QED
      BY <1>3, <1>5, <2>2, <2>4, <2>5
  <1>. QED
    BY <1>7, <1>8

\* What schedule() does to the heap.
LEMMA SchedulePicks ==
    ASSUME PoolInv, Schedule
    PROVE  \E h, r :
             /\ HeapOf(h, r, Ready)
             /\ Asymmetric(Before) /\ InOrder(pool, run_pool, Before) => InOrder(h, Ready, Before)
             /\ UNCHANGED lab6_priority
             /\ \/ /\ r = NULL /\ Ready = {} /\ schedule(idleproc) /\ UNCHANGED <<lab6_stride, pool, root>>
                \/ /\ r # NULL /\ r \in Ready /\ schedule(r) /\ stride_pick_next(r)
                   /\ HeapOf(pool', root', Ready \ {r})
                   /\ Asymmetric(Before) /\ InOrder(h, Ready, Before) => InOrder(pool', Ready \ {r}, Before)
  <1>1. SchedTypeOK /\ RunPoolExact /\ HeapOf(pool, root, run_pool)
    BY DEF PoolInv, TypeOK
  <1>2. PICK q : q = IF Running THEN stride_enqueue(pool, root, current) ELSE [store |-> pool, root |-> root]
    OBVIOUS
  <1>3. IF q.root = NULL
        THEN schedule(idleproc) /\ UNCHANGED <<lab6_stride, lab6_priority, pool, root>>
        ELSE \E d \in {stride_dequeue(q.store, q.root, q.root)} :
             /\ schedule(q.root)
             /\ stride_pick_next(q.root)
             /\ pool' = d.store
             /\ root' = d.root
             /\ UNCHANGED lab6_priority
    BY <1>2, Zenon DEF Schedule
  <1>4. /\ HeapOf(q.store, q.root, Ready)
        /\ Asymmetric(Before) /\ InOrder(pool, run_pool, Before) => InOrder(q.store, Ready, Before)
    <2>1. CASE Running
      <3>1. current \in Users /\ current \notin run_pool /\ Ready = run_pool \cup {current}
        BY <1>1, <2>1 DEF Running, Ready, RunPoolExact, SchedTypeOK, Users
      <3>2. q = H!skew_heap_insert(pool, root, current, Before)
        BY <1>2, <2>1, Zenon DEF stride_enqueue
      <3>. QED
        BY <1>1, <3>1, <3>2, InsertHeap
    <2>2. CASE ~Running
      <3>1. Ready = run_pool
        BY <2>2 DEF Running, Ready
      <3>2. q = [store |-> pool, root |-> root]
        BY <1>2, <2>2, Zenon
      <3>. QED
        BY <1>1, <3>1, <3>2
    <2>. QED
      BY <2>1, <2>2
  <1>5. CASE q.root = NULL
    <2>1. Ready = {}
      BY <1>4, <1>5, BelowNone DEF HeapOf
    <2>2. schedule(idleproc) /\ UNCHANGED <<lab6_stride, pool, root>> /\ UNCHANGED lab6_priority
      BY <1>3, <1>5
    <2>. QED
      BY <1>4, <1>5, <2>1, <2>2
  <1>6. CASE q.root # NULL
    <2>1. PICK d : /\ d = stride_dequeue(q.store, q.root, q.root)
                   /\ schedule(q.root) /\ stride_pick_next(q.root)
                   /\ pool' = d.store /\ root' = d.root /\ UNCHANGED lab6_priority
      BY <1>3, <1>6, Zenon
    <2>2. /\ HeapOf(d.store, d.root, Ready \ {q.root})
          /\ Asymmetric(Before) /\ InOrder(q.store, Ready, Before) => InOrder(d.store, Ready \ {q.root}, Before)
      <3>1. PICK h, r : h = q.store /\ r = q.root
        OBVIOUS
      <3>2. /\ HeapOf(d.store, d.root, Ready \ {r})
            /\ Asymmetric(Before) /\ InOrder(h, Ready, Before) => InOrder(d.store, Ready \ {r}, Before)
        BY <1>4, <1>6, <2>1, <3>1, DequeueHeap
      <3>. QED
        BY <3>1, <3>2
    <2>3. q.root \in Ready
      <3>1. q.store \in H!Stores /\ q.root \in Links /\ H!Below(q.store, q.root) = Ready
        BY <1>4 DEF HeapOf
      <3>. QED
        BY <1>6, <3>1, BelowClosed
    <2>. QED
      BY <1>4, <1>6, <2>1, <2>2, <2>3
  <1>. QED
    BY <1>5, <1>6

LEMMA SchedulePoolInv ==
    ASSUME PoolInv, Schedule
    PROVE  PoolInv'
  <1>1. SchedTypeOK /\ RunPoolExact /\ TypeOK
    BY DEF PoolInv, TypeOK
  <1>2. PICK h, r :
             /\ HeapOf(h, r, Ready)
             /\ Asymmetric(Before) /\ InOrder(pool, run_pool, Before) => InOrder(h, Ready, Before)
             /\ UNCHANGED lab6_priority
             /\ \/ /\ r = NULL /\ Ready = {} /\ schedule(idleproc) /\ UNCHANGED <<lab6_stride, pool, root>>
                \/ /\ r # NULL /\ r \in Ready /\ schedule(r) /\ stride_pick_next(r)
                   /\ HeapOf(pool', root', Ready \ {r})
                   /\ Asymmetric(Before) /\ InOrder(h, Ready, Before) => InOrder(pool', Ready \ {r}, Before)
    BY SchedulePicks
  <1>3. CASE r = NULL
    <2>1. Ready = {} /\ schedule(idleproc) /\ UNCHANGED <<lab6_stride, pool, root, lab6_priority>>
      BY <1>2, <1>3
    <2>2. idleproc \in Procs
      BY SchedAssumption
    <2>3. SchedTypeOK' /\ RunPoolExact'
      BY <1>1, <2>1, <2>2, ScheduleType, SchedulePool
    <2>4. run_pool' = run_pool
      BY <2>1 DEF schedule, Ready
    <2>. QED
      BY <2>1, <2>3, <2>4 DEF PoolInv, TypeOK
  <1>4. CASE r # NULL
    <2>1. r \in Ready /\ schedule(r) /\ stride_pick_next(r) /\ HeapOf(pool', root', Ready \ {r}) /\ UNCHANGED lab6_priority
      BY <1>2, <1>4
    <2>2. r \in Users /\ r \in Procs
      BY <1>2, <2>1 DEF HeapOf, Users
    <2>3. SchedTypeOK' /\ RunPoolExact'
      BY <1>1, <2>1, <2>2, ScheduleType, SchedulePool
    <2>4. run_pool' = Ready \ {r}
      BY <2>1 DEF schedule
    <2>5. lab6_stride' \in [Users -> 0 .. (TwoTo[WIDTH] - 1)]
      <3>1. PICK m : m = TwoTo[WIDTH] /\ m \in Nat \ {0}
        BY Widths
      <3>2. lab6_stride \in [Users -> 0 .. (m - 1)] /\ lab6_priority[r] \in Nat
        <4>1. lab6_stride \in [Users -> 0 .. (TwoTo[WIDTH] - 1)] /\ lab6_priority \in [Users -> Priorities \cup {0, 1}]
          BY <1>1 DEF TypeOK
        <4>2. Priorities \cup {0, 1} \in SUBSET Nat
          BY StrideAssumption
        <4>. QED
          BY <2>2, <3>1, <4>1, <4>2
      <3>3. PICK s : s = Step(lab6_priority[r])
        OBVIOUS
      <3>4. s \in Int /\ lab6_stride[r] \in Int
        BY <2>2, <3>1, <3>2, <3>3, StepIs, Widths
      <3>5. PICK x : x = lab6_stride[r] + s
        OBVIOUS
      <3>6. x % m \in 0 .. (m - 1)
        <4>1. x \in Int
          BY <3>4, <3>5
        <4>. QED
          BY <3>1, <4>1, ModIs
      <3>7. lab6_stride' = [lab6_stride EXCEPT ![r] = x % m]
        BY <2>1, <3>1, <3>3, <3>5, Zenon DEF stride_pick_next
      <3>. QED
        BY <3>1, <3>2, <3>6, <3>7
    <2>. QED
      BY <1>1, <2>1, <2>3, <2>4, <2>5 DEF PoolInv, TypeOK, HeapOf, Links
  <1>. QED
    BY <1>3, <1>4

LEMMA PoolInvNext ==
    ASSUME PoolInv, MCNext
    PROVE  PoolInv'
  <1>1. SchedTypeOK /\ RunPoolExact /\ TypeOK /\ HeapOf(pool, root, run_pool)
    BY DEF PoolInv, TypeOK
  <1>2. CASE Schedule
    BY <1>2, SchedulePoolInv
  <1>3. ASSUME NEW n \in Priorities, lab6_set_priority(n) PROVE PoolInv'
    <2>1. UNCHANGED <<schedVars, lab6_stride, pool, root>>
      BY <1>3 DEF lab6_set_priority
    <2>2. SchedTypeOK' /\ RunPoolExact' /\ HeapOf(pool', root', run_pool')
      BY <1>1, <2>1 DEF schedVars, SchedTypeOK, RunPoolExact
    <2>3. lab6_priority' \in [Users -> Priorities \cup {0, 1}]
      BY <1>1, <1>3 DEF lab6_set_priority, TypeOK
    <2>. QED
      BY <1>1, <2>1, <2>2, <2>3 DEF PoolInv, TypeOK
  <1>4. ASSUME NEW p \in Users, Fork(p) \/ Wakeup(p) PROVE PoolInv'
    <2>1. state[p] # "PROC_RUNNABLE" /\ Wakes(p) /\ UNCHANGED <<lab6_stride, lab6_priority>>
      BY <1>4 DEF Fork, Wakeup
    <2>2. SchedTypeOK' /\ RunPoolExact' /\ HeapOf(pool', root', run_pool')
      BY <2>1, WakesPool
    <2>. QED
      BY <1>1, <2>1, <2>2 DEF PoolInv, TypeOK, HeapOf, Links
  <1>5. ASSUME NEW p \in Users, Reap(p) PROVE PoolInv'
    <2>1. /\ p # current /\ state[p] = "PROC_ZOMBIE" /\ state' = [state EXCEPT ![p] = "PROC_NONE"]
          /\ time_slice' = [time_slice EXCEPT ![p] = 0]
          /\ lab6_stride' = [lab6_stride EXCEPT ![p] = 0] /\ lab6_priority' = [lab6_priority EXCEPT ![p] = 0]
          /\ UNCHANGED <<current, wait_state, run_pool, need_resched, pool, root>>
      BY <1>5 DEF Reap
    <2>2. SchedTypeOK'
      <3>1. state' \in [Procs -> ProcState]
        BY <1>1, <2>1 DEF SchedTypeOK, ProcState
      <3>2. time_slice' \in [Procs -> 0 .. max_time_slice]
        <4>1. 0 \in 0 .. max_time_slice /\ time_slice \in [Procs -> 0 .. max_time_slice]
          BY <1>1, SchedAssumption DEF SchedTypeOK
        <4>. QED
          BY <2>1, <4>1
      <3>. QED
        BY <1>1, <2>1, <3>1, <3>2 DEF SchedTypeOK
    <2>3. RunPoolExact'
      BY <1>1, <2>1 DEF RunPoolExact, SchedTypeOK
    <2>4. lab6_stride' \in [Users -> 0 .. (TwoTo[WIDTH] - 1)]
      BY <1>1, <2>1, Widths DEF TypeOK
    <2>5. lab6_priority' \in [Users -> Priorities \cup {0, 1}]
      BY <1>1, <2>1 DEF TypeOK
    <2>. QED
      BY <1>1, <2>1, <2>2, <2>3, <2>4, <2>5 DEF PoolInv, TypeOK
  <1>6. CASE Sleep \/ Exit
    <2>1. /\ UNCHANGED <<current, run_pool, need_resched, time_slice, lab6_stride, lab6_priority, pool, root>>
          /\ \E x \in {"PROC_SLEEPING", "PROC_ZOMBIE"} : state' = [state EXCEPT ![current] = x]
          /\ wait_state' = wait_state \/ wait_state' = [wait_state EXCEPT ![current] = "WT_TIMER"]
      BY <1>6 DEF Sleep, Exit, go_to_sleep
    <2>2. SchedTypeOK'
      BY <1>1, <2>1 DEF SchedTypeOK, ProcState, WaitState
    <2>3. RunPoolExact'
      BY <1>1, <2>1 DEF RunPoolExact, SchedTypeOK
    <2>. QED
      BY <1>1, <2>1, <2>2, <2>3 DEF PoolInv, TypeOK
  <1>. QED
    BY <1>2, <1>3, <1>4, <1>5, <1>6 DEF MCNext, Next
-----------------------------------------------------------------------------
(* The closed system.                                                       *)

\* lead[p] is how much further p has been advanced than initproc.
Leads(l, v) == \A p \in Users : l[p] = v[p] - v[initproc]

ClosedInv ==
    closed =>
      /\ \A p \in Users : state[p] = "PROC_RUNNABLE"
      /\ current \in Users
      /\ \E v : Lifts(v, lab6_stride) /\ Leads(lead, v)
      /\ InOrder(pool, run_pool, Before)

LEMMA ClosedInvImplies ==
    PoolInv /\ ClosedInv => ClosedGapBounded
  <1> SUFFICES ASSUME PoolInv, ClosedInv, closed, NEW p \in Users, NEW q \in Users
               PROVE  /\ lead[p] - lead[q] <= BIG_STRIDE
                      /\ StrideDiff(lab6_stride, p, q) = lead[p] - lead[q]
    BY DEF ClosedGapBounded
  <1>1. PICK v : Lifts(v, lab6_stride) /\ Leads(lead, v)
    BY DEF ClosedInv
  <1>2. /\ StrideDiff(lab6_stride, p, q) = v[p] - v[q]
        /\ v[p] - v[q] <= BIG_STRIDE
        /\ v[p] \in Int /\ v[q] \in Int /\ v[initproc] \in Int
    BY <1>1, DiffIs, StrideAssumption DEF Lifts
  <1>3. lead[p] = v[p] - v[initproc] /\ lead[q] = v[q] - v[initproc]
    BY <1>1 DEF Leads
  <1>4. lead[p] - lead[q] = v[p] - v[q]
    BY <1>2, <1>3
  <1>. QED
    BY <1>2, <1>4

\* As long as nobody is too far ahead, nothing is clipped.
LEMMA GivenIs ==
    ASSUME NEW v, Leads(lead, v), v \in [Users -> Int], NEW r \in Users,
           NEW s \in Int, s = Step(lab6_priority[r]),
           NEW w, w = [v EXCEPT ![r] = v[r] + s], NEW stride, Lifts(w, stride)
    PROVE  Leads(Given(r), w)
  <1> SUFFICES ASSUME NEW p \in Users PROVE Given(r)[p] = w[p] - w[initproc]
    BY DEF Leads
  <1>1. initproc \in Users /\ BIG_STRIDE \in Nat
    BY StrideAssumption, Widths
  <1>2. PICK x : x = lead[p] + (IF p = r THEN s ELSE 0) - (IF r = initproc THEN s ELSE 0)
    OBVIOUS
  <1>3. Given(r)[p] = Clip(x)
    BY <1>2 DEF Given
  <1>4. lead[p] = v[p] - v[initproc] /\ v[p] \in Int /\ v[initproc] \in Int
    BY <1>1 DEF Leads
  <1>5. /\ w[p] = IF p = r THEN v[p] + s ELSE v[p]
        /\ w[initproc] = IF initproc = r THEN v[initproc] + s ELSE v[initproc]
    BY <1>1
  <1>6. w[p] - w[initproc] <= BIG_STRIDE /\ w[initproc] - w[p] <= BIG_STRIDE
    BY <1>1 DEF Lifts
  <1>7. PICK a \in Int, b \in Int : a = v[p] /\ b = v[initproc]
    BY <1>4
  <1>8. PICK c \in Int, d \in Int : c = w[p] /\ d = w[initproc]
    BY <1>4, <1>5
  <1>9. c = (IF p = r THEN a + s ELSE a) /\ d = (IF r = initproc THEN b + s ELSE b)
    BY <1>5, <1>7, <1>8
  <1>10. x = (a - b) + (IF p = r THEN s ELSE 0) - (IF r = initproc THEN s ELSE 0)
    BY <1>2, <1>4, <1>7
  <1>11. x = c - d /\ x \in Int
    BY <1>9, <1>10
  <1>12. Clip(x) = x
    <2>1. ~(x > BIG_STRIDE) /\ ~(x < -BIG_STRIDE)
      BY <1>1, <1>6, <1>8, <1>11
    <2>. QED
      BY <2>1 DEF Clip
  <1>. QED
    BY <1>3, <1>8, <1>11, <1>12

LEMMA ClosedInvNext ==
    ASSUME PoolInv, ClosedInv, MCNext
    PROVE  ClosedInv'
  <1> SUFFICES ASSUME closed, closed' = closed
               PROVE  /\ \A p \in Users : state'[p] = "PROC_RUNNABLE"
                      /\ current' \in Users
                      /\ \E v : Lifts(v, lab6_stride') /\ Leads(lead', v)
                      /\ InOrder(pool', run_pool', Before')
    BY DEF ClosedInv, MCNext
  <1>1. /\ \A p \in Users : state[p] = "PROC_RUNNABLE"
        /\ current \in Users
        /\ InOrder(pool, run_pool, Before)
    BY DEF ClosedInv
  <1>2. PICK v : Lifts(v, lab6_stride) /\ Leads(lead, v)
    BY DEF ClosedInv
  <1>3. CASE Schedule /\ lead' = Given(current')
    <2>1. PICK h, r :
             /\ HeapOf(h, r, Ready)
             /\ Asymmetric(Before) /\ InOrder(pool, run_pool, Before) => InOrder(h, Ready, Before)
             /\ UNCHANGED lab6_priority
             /\ \/ /\ r = NULL /\ Ready = {} /\ schedule(idleproc) /\ UNCHANGED <<lab6_stride, pool, root>>
                \/ /\ r # NULL /\ r \in Ready /\ schedule(r) /\ stride_pick_next(r)
                   /\ HeapOf(pool', root', Ready \ {r})
                   /\ Asymmetric(Before) /\ InOrder(h, Ready, Before) => InOrder(pool', Ready \ {r}, Before)
      BY <1>3, SchedulePicks
    <2>2. Ready = Users
      BY <1>1 DEF PoolInv, RunPoolExact, Ready, Users
    <2>3. /\ r # NULL /\ r \in Users /\ schedule(r) /\ stride_pick_next(r)
          /\ HeapOf(pool', root', Users \ {r})
      BY <1>1, <2>1, <2>2
    <2>4. Asymmetric(Before)
      BY <1>2, BeforeIs
    <2>5. InOrder(h, Users, Before) /\ InOrder(pool', Users \ {r}, Before)
      BY <1>1, <2>1, <2>2, <2>3, <2>4
    <2>6. \A p \in Users : v[r] <= v[p]
      BY <1>2, <2>1, <2>2, <2>3, <2>5, RootLeast
    <2>7. lab6_stride \in [Users -> 0 .. (TwoTo[WIDTH] - 1)] /\ lab6_priority[r] \in Nat
      <3>1. lab6_stride \in [Users -> 0 .. (TwoTo[WIDTH] - 1)] /\ lab6_priority \in [Users -> Priorities \cup {0, 1}]
        BY DEF PoolInv, TypeOK
      <3>2. Priorities \cup {0, 1} \in SUBSET Nat
        BY StrideAssumption
      <3>. QED
        BY <2>3, <3>1, <3>2
    <2>8. \E w : Lifts(w, lab6_stride') /\ Leads(lead', w)
      <3>1. PICK s : s = Step(lab6_priority[r])
        OBVIOUS
      <3>2. s \in 0 .. BIG_STRIDE /\ DOMAIN lab6_stride = Users
        BY <2>7, <3>1, StepIs
      <3>3. lab6_stride' = [lab6_stride EXCEPT ![r] = (lab6_stride[r] + s) % TwoTo[WIDTH]]
        BY <2>3, <3>1, Zenon DEF stride_pick_next
      <3>4. PICK w : w = [v EXCEPT ![r] = v[r] + s]
        OBVIOUS
      <3>5. Lifts(w, lab6_stride')
        BY <1>2, <2>3, <2>6, <3>2, <3>3, <3>4, LiftStep
      <3>6. s \in Int /\ v \in [Users -> Int]
        BY <1>2, <3>2, Widths DEF Lifts
      <3>7. Leads(Given(r), w)
        BY <1>2, <2>3, <3>1, <3>4, <3>5, <3>6, GivenIs
      <3>8. lead' = Given(r)
        BY <1>3, <2>3 DEF schedule
      <3>. QED
        BY <3>5, <3>7, <3>8
    <2>9. \A p \in Users : p # r => lab6_stride'[p] = lab6_stride[p]
      BY <2>3, <2>7 DEF stride_pick_next
    <2>10. InOrder(pool', Users \ {r}, Before')
      <3>1. ASSUME NEW p \in Users \ {r}, NEW q \in Users \ {r}, <<p, q>> \in Before' PROVE <<p, q>> \in Before
        <4>1. StrideDiff(lab6_stride', p, q) = StrideDiff(lab6_stride, p, q)
          BY <2>9 DEF StrideDiff
        <4>2. StrideDiff(lab6_stride', p, q) < 0
          BY <3>1 DEF Before
        <4>. QED
          BY <4>1, <4>2 DEF Before
      <3>2. \A n \in Users \ {r} : /\ pool'.left[n] # NULL => pool'.left[n] \in Users \ {r}
                                   /\ pool'.right[n] # NULL => pool'.right[n] \in Users \ {r}
        BY <2>3, BelowClosed DEF HeapOf
      <3>. QED
        BY <2>5, <3>1, <3>2 DEF InOrder
    <2>11. run_pool' = Users \ {r} /\ current' = r /\ state' = state
      BY <2>2, <2>3 DEF schedule
    <2>. QED
      BY <1>1, <2>3, <2>8, <2>10, <2>11
  <1>4. ASSUME NEW n \in Priorities, lab6_set_priority(n), UNCHANGED lead
        PROVE  UNCHANGED <<state, current, lab6_stride, pool, run_pool, lead>>
    BY <1>4 DEF lab6_set_priority, schedVars
  <1>5. ASSUME UNCHANGED <<state, current, lab6_stride, pool, run_pool, lead>>
        PROVE  /\ \A p \in Users : state'[p] = "PROC_RUNNABLE"
               /\ current' \in Users
               /\ \E w : Lifts(w, lab6_stride') /\ Leads(lead', w)
               /\ InOrder(pool', run_pool', Before')
    <2>1. Before' = Before
      BY <1>5 DEF Before
    <2>. QED
      BY <1>1, <1>2, <1>5, <2>1
  <1>. QED
    BY <1>3, <1>4, <1>5 DEF MCNext

-----------------------------------------------------------------------------
(* The initial states.                                                      *)

LEMMA EmptyIs ==
    /\ H!EmptyStore \in H!Stores
    /\ \A n \in Users : H!EmptyStore.left[n] = NULL /\ H!EmptyStore.right[n] = NULL /\ H!EmptyStore.parent[n] = NULL
    /\ HeapOf(H!EmptyStore, NULL, {})
  <1> DEFINE none == [n \in Users |-> NULL]
  <1>1. H!EmptyStore = [left |-> none, right |-> none, parent |-> none]
    BY Zenon DEF H!EmptyStore, Users
  <1>2. none \in [Users -> Links]
    BY DEF Links
  <1>3. H!EmptyStore.left = none /\ H!EmptyStore.right = none /\ H!EmptyStore.parent = none
    BY <1>1
  <1>4. H!EmptyStore \in H!Stores
    BY <1>1, <1>2, <1>3, StoreIs
  <1>5. HeapOf(H!EmptyStore, NULL, {})
    BY <1>4, BelowNone DEF HeapOf, Matching, Links
  <1>. QED
    BY <1>3, <1>4, <1>5

LEMMA InitPool ==
    Init => PoolInv
  <1> SUFFICES ASSUME Init PROVE PoolInv
    OBVIOUS
  <1>1. initproc \in Users /\ initproc \in Procs /\ initproc # idleproc /\ idleproc \in Procs /\ NULL \notin Procs
    BY StrideAssumption, SchedAssumption DEF Users
  <1>2. SchedTypeOK
    <2>1. state \in [Procs -> ProcState]
      BY DEF Init, ProcState
    <2>2. wait_state \in [Procs -> WaitState]
      BY DEF Init, WaitState
    <2>3. time_slice \in [Procs -> 0 .. max_time_slice]
      BY SchedAssumption DEF Init
    <2>. QED
      BY <1>1, <2>1, <2>2, <2>3 DEF Init, SchedTypeOK
  <1>3. RunPoolExact
    BY <1>1 DEF Init, RunPoolExact
  <1>4. HeapOf(pool, root, run_pool)
    <2>1. pool \in H!Stores /\ pool.left[initproc] = NULL /\ pool.right[initproc] = NULL /\ pool.parent[initproc] = NULL
      BY <1>1, EmptyIs DEF Init
    <2>2. H!Below(pool, initproc) = {initproc}
      BY <1>1, <2>1, BelowNode, BelowNone
    <2>. QED
      BY <1>1, <2>1, <2>2 DEF Init, HeapOf, Matching, Links
  <1>5. lab6_stride \in [Users -> 0 .. (TwoTo[WIDTH] - 1)]
    BY Widths DEF Init
  <1>6. lab6_priority \in [Users -> Priorities \cup {0, 1}]
    BY DEF Init
  <1>. QED
    BY <1>1, <1>2, <1>3, <1>4, <1>5, <1>6 DEF PoolInv, TypeOK, HeapOf, Init

\* A function of 0 .. m computed from the one before exists.
StepsTo(g, a, G, m) == g = [i \in 0 .. m |-> IF i = 0 THEN a ELSE G[<<i, g[i - 1]>>]]

LEMMA StepsExist ==
    ASSUME NEW a, NEW G, NEW m \in Nat
    PROVE  \E g : StepsTo(g, a, G, m)
  <1> DEFINE T == {k \in Nat : \E g : g = [i \in 0 .. k |-> IF i = 0 THEN a ELSE G[<<i, g[i - 1]>>]]}
  <1>1. 0 \in T
    <2> DEFINE g == [i \in 0 .. 0 |-> a]
    <2>1. g = [i \in 0 .. 0 |-> IF i = 0 THEN a ELSE G[<<i, g[i - 1]>>]]
      OBVIOUS
    <2>. QED
      BY <2>1
  <1>2. ASSUME NEW k \in Nat, k \in T PROVE k + 1 \in T
    <2>1. PICK g : g = [i \in 0 .. k |-> IF i = 0 THEN a ELSE G[<<i, g[i - 1]>>]]
      BY <1>2
    <2> DEFINE e == G[<<k + 1, g[k]>>]
               h == [i \in 0 .. (k + 1) |-> IF i = k + 1 THEN e ELSE g[i]]
    <2>2. \A i \in 0 .. k : g[i] = IF i = 0 THEN a ELSE G[<<i, g[i - 1]>>]
      BY <2>1
    <2>3. ASSUME NEW i \in 0 .. (k + 1) PROVE h[i] = IF i = 0 THEN a ELSE G[<<i, h[i - 1]>>]
      <3>1. CASE i = k + 1
        <4>1. k \in 0 .. (k + 1) /\ k # k + 1 /\ i - 1 = k /\ i # 0
          BY <3>1
        <4>2. h[i] = e /\ h[k] = g[k]
          BY <3>1, <4>1
        <4>. QED
          BY <3>1, <4>1, <4>2
      <3>2. CASE i # k + 1 /\ i # 0
        <4>1. i \in 0 .. k /\ i - 1 \in 0 .. (k + 1) /\ i - 1 # k + 1
          BY <3>2
        <4>2. h[i] = g[i] /\ h[i - 1] = g[i - 1]
          BY <3>2, <4>1
        <4>. QED
          BY <2>2, <3>2, <4>1, <4>2
      <3>3. CASE i = 0
        <4>1. i \in 0 .. k /\ i # k + 1
          BY <3>3
        <4>. QED
          BY <2>2, <3>3, <4>1
      <3>. QED
        BY <3>1, <3>2, <3>3
    <2>4. h = [i \in 0 .. (k + 1) |-> h[i]]
      OBVIOUS
    <2>. HIDE DEF h
    <2>5. h = [i \in 0 .. (k + 1) |-> IF i = 0 THEN a ELSE G[<<i, h[i - 1]>>]]
      BY <2>3, <2>4, Zenon
    <2>. QED
      BY <2>5
  <1>. HIDE DEF T
  <1>3. m \in T
    BY <1>1, <1>2, NatInd
  <1>. QED
    BY <1>3 DEF T, StepsTo

LEMMA InsertIn ==
    ASSUME NEW t \in Merged, NEW n \in Users, NEW before
    PROVE  H!skew_heap_insert(t.store, t.root, n, before) \in Merged
  <1>1. PICK h, r : h = H!skew_heap_init(t.store, n) /\ r = t.root
    OBVIOUS
  <1>2. h \in H!Stores /\ r \in Links /\ n \in Links
    <2>1. t.store \in H!Stores /\ r \in Links
      BY <1>1, MergedIs
    <2>. QED
      BY <1>1, <2>1, InitIs DEF Links
  <1>3. H!skew_heap_insert(t.store, t.root, n, before) = H!skew_heap_merge(h, r, n, before)
    BY <1>1, Zenon DEF H!skew_heap_insert
  <1>4. PICK g : MergesBy(h, before, g)
    BY <1>2, MergeCalls
  <1>5. Cardinality(Procs) \in Nat
    BY StrideAssumption, FS_CardinalityType
  <1>6. PICK f : f = g[Cardinality(Procs)]
    OBVIOUS
  <1>7. f \in [Links \X Links -> Merged]
    BY <1>4, <1>5, <1>6 DEF MergesBy
  <1>8. H!skew_heap_merge(h, r, n, before) = f[<<r, n>>]
    BY <1>2, <1>4, <1>6, Zenon DEF MergesBy
  <1>9. f[<<r, n>>] \in Merged
    BY <1>2, <1>7
  <1>. QED
    BY <1>3, <1>8, <1>9

\* The heap the forks of the first process have built.
LEMMA BuiltHeap ==
    ASSUME NEW m \in Nat, NEW q \in [1 .. m -> Users], \A i, j \in 1 .. m : q[i] = q[j] => i = j,
           NEW b, b = CHOOSE h : h = [i \in 0 .. m |->
                                        IF i = 0 THEN [store |-> H!EmptyStore, root |-> NULL]
                                        ELSE H!skew_heap_insert(h[i - 1].store, h[i - 1].root, q[i], {})]
    PROVE  HeapOf(b[m].store, b[m].root, {q[j] : j \in 1 .. m})
  <1> DEFINE a == [store |-> H!EmptyStore, root |-> NULL]
             F(i, x) == IF i = 0 THEN a ELSE H!skew_heap_insert(x.store, x.root, q[i], {})
             G == [x \in (1 .. m) \X Merged |-> H!skew_heap_insert(x[2].store, x[2].root, q[x[1]], {})]
  <1>1. a \in Merged /\ HeapOf(H!EmptyStore, NULL, {})
    BY EmptyIs DEF Merged, Links
  <1>2. PICK g : g = [i \in 0 .. m |-> IF i = 0 THEN a ELSE G[<<i, g[i - 1]>>]]
    <2>. HIDE DEF G, a
    <2>1. PICK g : StepsTo(g, a, G, m)
      BY StepsExist, Zenon
    <2>. QED
      BY <2>1 DEF StepsTo
  <1>3. ASSUME NEW i \in 1 .. m, NEW x \in Merged
        PROVE  G[<<i, x>>] = H!skew_heap_insert(x.store, x.root, q[i], {}) /\ G[<<i, x>>] \in Merged
    <2>1. H!skew_heap_insert(x.store, x.root, q[i], {}) \in Merged
      BY <1>3, InsertIn
    <2>. QED
      BY <2>1
  <1>. HIDE DEF G
  <1>4. \A i \in 0 .. m : g[i] = IF i = 0 THEN a ELSE G[<<i, g[i - 1]>>]
    BY <1>2
  <1>5. \A i \in 0 .. m : g[i] \in Merged
    <2> DEFINE T == {i \in Nat : i <= m => g[i] \in Merged}
    <2>1. 0 \in T
      <3>1. 0 \in 0 .. m
        OBVIOUS
      <3>2. g[0] = a
        BY <1>4, <3>1, Zenon
      <3>. QED
        BY <1>1, <3>2
    <2>2. ASSUME NEW i \in Nat, i \in T PROVE i + 1 \in T
      <3> SUFFICES ASSUME i + 1 <= m PROVE g[i + 1] \in Merged
        OBVIOUS
      <3>1. i + 1 \in 1 .. m /\ i + 1 \in 0 .. m /\ i + 1 # 0 /\ (i + 1) - 1 = i /\ i <= m
        OBVIOUS
      <3>2. g[i] \in Merged
        BY <2>2, <3>1
      <3>3. g[i + 1] = G[<<i + 1, g[i]>>]
        BY <1>4, <3>1
      <3>. QED
        BY <1>3, <3>1, <3>2, <3>3
    <2>. HIDE DEF T
    <2>3. \A i \in Nat : i \in T
      BY <2>1, <2>2, NatInd
    <2>. QED
      BY <2>3 DEF T
  <1>6. ASSUME NEW i \in 0 .. m PROVE g[i] = F(i, g[i - 1])
    <2>1. CASE i = 0
      BY <1>4, <2>1
    <2>2. CASE i # 0
      <3>1. i \in 1 .. m /\ i - 1 \in 0 .. m
        BY <2>2
      <3>2. g[i] = G[<<i, g[i - 1]>>] /\ g[i - 1] \in Merged
        BY <1>4, <1>5, <2>2, <3>1
      <3>3. G[<<i, g[i - 1]>>] = H!skew_heap_insert(g[i - 1].store, g[i - 1].root, q[i], {})
        BY <1>3, <3>1, <3>2
      <3>. QED
        BY <2>2, <3>2, <3>3
    <2>. QED
      BY <2>1, <2>2
  <1>7. g = [i \in 0 .. m |-> F(i, g[i - 1])]
    <2>1. g = [i \in 0 .. m |-> g[i]]
      BY <1>2
    <2>. HIDE DEF F
    <2>. QED
      BY <1>6, <2>1, Zenon
  <1>8. b = [i \in 0 .. m |-> F(i, b[i - 1])]
    <2>1. b = CHOOSE h : h = [i \in 0 .. m |-> F(i, h[i - 1])]
      BY Zenon
    <2>. HIDE DEF F
    <2>. QED
      BY <1>7, <2>1
  <1>9. \A i \in 0 .. m : b[i] = F(i, b[i - 1])
    <2>. HIDE DEF F
    <2>. QED
      BY <1>8
  <1> DEFINE Q(i) == {q[j] : j \in 1 .. i}
             T == {i \in Nat : i <= m => HeapOf(b[i].store, b[i].root, Q(i))}
  <1>10. 0 \in T
    <2>1. b[0] = a /\ Q(0) = {}
      BY <1>9
    <2>2. HeapOf(b[0].store, b[0].root, Q(0))
      <3>1. b[0].store = H!EmptyStore /\ b[0].root = NULL
        BY <2>1
      <3>. QED
        BY <1>1, <2>1, <3>1
    <2>. QED
      BY <2>2
  <1>11. ASSUME NEW i \in Nat, i \in T PROVE i + 1 \in T
    <2> SUFFICES ASSUME i + 1 <= m PROVE HeapOf(b[i + 1].store, b[i + 1].root, Q(i + 1))
      OBVIOUS
    <2>1. i + 1 \in 1 .. m /\ i + 1 \in 0 .. m /\ i + 1 # 0 /\ (i + 1) - 1 = i /\ i <= m
      OBVIOUS
    <2>2. PICK h, r, t, n : h = b[i].store /\ r = b[i].root /\ t = b[i + 1] /\ n = q[i + 1]
      OBVIOUS
    <2>3. HeapOf(h, r, Q(i))
      BY <1>11, <2>1, <2>2
    <2>4. t = F(i + 1, b[i])
      BY <1>9, <2>1, <2>2
    <2>5. t = H!skew_heap_insert(h, r, n, {})
      BY <2>1, <2>2, <2>4
    <2>6. n \in Users /\ n \notin Q(i)
      BY <2>1, <2>2
    <2>7. Q(i + 1) = Q(i) \cup {n}
      <3>1. 1 .. (i + 1) = (1 .. i) \cup {i + 1}
        BY <2>1
      <3>. QED
        BY <2>2, <3>1
    <2>. HIDE DEF Q
    <2>8. HeapOf(t.store, t.root, Q(i) \cup {n})
      BY <2>3, <2>5, <2>6, InsertHeap
    <2>. QED
      BY <2>2, <2>7, <2>8
  <1>. HIDE DEF T
  <1>12. m \in T
    BY <1>10, <1>11, NatInd
  <1>. QED
    BY <1>12 DEF T

LEMMA ClosedInitPool ==
    ASSUME ClosedInit, lead = [p \in Users |-> IF p # initproc THEN -BIG_STRIDE ELSE 0]
    PROVE  PoolInv /\ ClosedInv
  <1> DEFINE m == Cardinality(Users) - 1
             R == Users \ {initproc}
  <1>1. initproc \in Users /\ initproc \in Procs /\ initproc # idleproc /\ idleproc \in Procs /\ NULL \notin Procs
    BY StrideAssumption, SchedAssumption DEF Users
  <1>2. m \in Nat /\ IsFiniteSet(R) /\ Cardinality(R) = m
    <2>1. IsFiniteSet(Users)
      BY BelowFinite
    <2>2. IsFiniteSet(R) /\ Cardinality(R) = m
      BY <1>1, <2>1, FS_RemoveElement
    <2>. QED
      BY <2>2, FS_CardinalityType
  <1>3. PICK q \in [1 .. m -> R] :
          /\ \A i, j \in DOMAIN q : q[i] = q[j] => i = j
          /\ LET h[i \in 0 .. m] ==
                     IF i = 0 THEN [store |-> H!EmptyStore, root |-> NULL]
                     ELSE H!skew_heap_insert(h[i - 1].store, h[i - 1].root, q[i], {})
             IN  pool = h[m].store /\ root = h[m].root
    BY Zenon DEF ClosedInit
  <1>4. PICK b : b = CHOOSE h : h = [i \in 0 .. m |->
                                        IF i = 0 THEN [store |-> H!EmptyStore, root |-> NULL]
                                        ELSE H!skew_heap_insert(h[i - 1].store, h[i - 1].root, q[i], {})]
    OBVIOUS
  <1>5. pool = b[m].store /\ root = b[m].root
    BY <1>3, <1>4, Zenon
  <1>. HIDE DEF m
  <1>6. {q[j] : j \in 1 .. m} = R
    <2> SUFFICES ASSUME NEW t \in R, \A j \in 1 .. m : q[j] # t PROVE FALSE
      BY <1>3
    <2>1. q \in [1 .. m -> R \ {t}]
      BY <1>3
    <2>2. IsFiniteSet(R \ {t}) /\ Cardinality(R \ {t}) = m - 1
      BY <1>2, FS_RemoveElement
    <2>3. IsFiniteSet(1 .. m) /\ Cardinality(1 .. m) = m
      <3>1. IsFiniteSet(1 .. m) /\ Cardinality(1 .. m) = IF 1 > m THEN 0 ELSE m - 1 + 1
        BY <1>2, FS_Interval
      <3>. QED
        BY <1>2, <3>1
    <2>4. Cardinality(R \ {t}) < Cardinality(1 .. m)
      BY <1>2, <2>2, <2>3
    <2>5. \E i, j \in 1 .. m : i # j /\ q[i] = q[j]
      <3>1. PICK S, T, f : S = 1 .. m /\ T = R \ {t} /\ f = q
        OBVIOUS
      <3>2. IsFiniteSet(S) /\ IsFiniteSet(T) /\ Cardinality(T) < Cardinality(S) /\ f \in [S -> T]
        BY <2>1, <2>2, <2>3, <2>4, <3>1
      <3>3. \E x, y \in S : x # y /\ f[x] = f[y]
        BY <3>2, FS_PigeonHole
      <3>. QED
        BY <3>1, <3>3
    <2>. QED
      BY <1>3, <2>5
  <1>7. HeapOf(pool, root, R)
    <2>1. q \in [1 .. m -> Users] /\ \A i, j \in 1 .. m : q[i] = q[j] => i = j
      BY <1>3
    <2>2. HeapOf(b[m].store, b[m].root, {q[j] : j \in 1 .. m})
      BY <1>2, <1>4, <2>1, BuiltHeap
    <2>. QED
      BY <1>5, <1>6, <2>2
  <1>8. /\ current = initproc /\ state = [p \in Procs |-> "PROC_RUNNABLE"] /\ wait_state = [p \in Procs |-> "0"]
        /\ run_pool = R /\ need_resched = FALSE
        /\ time_slice = [p \in Procs |-> IF p = idleproc THEN 0 ELSE max_time_slice]
        /\ lab6_stride = [p \in Users |-> IF p = initproc THEN BIG_STRIDE ELSE 0]
        /\ lab6_priority = [p \in Users |-> 0]
    BY DEF ClosedInit
  <1>9. SchedTypeOK /\ RunPoolExact
    <2>1. state \in [Procs -> ProcState]
      BY <1>8 DEF ProcState
    <2>2. wait_state \in [Procs -> WaitState]
      BY <1>8 DEF WaitState
    <2>3. time_slice \in [Procs -> 0 .. max_time_slice]
      BY <1>8, SchedAssumption
    <2>. QED
      BY <1>1, <1>8, <2>1, <2>2, <2>3 DEF SchedTypeOK, RunPoolExact, Users
  <1>10. /\ TwoTo[WIDTH] \in Nat /\ BIG_STRIDE \in Nat /\ BIG_STRIDE <= TwoTo[WIDTH] - 1
         /\ BIG_STRIDE \in 0 .. (TwoTo[WIDTH] - 1) /\ 0 \in 0 .. (TwoTo[WIDTH] - 1)
    BY Widths
  <1>11. lab6_stride \in [Users -> 0 .. (TwoTo[WIDTH] - 1)] /\ lab6_priority \in [Users -> Priorities \cup {0, 1}]
    BY <1>8, <1>10
  <1>12. PoolInv
    BY <1>7, <1>8, <1>9, <1>11 DEF PoolInv, TypeOK, HeapOf, Links
  <1>13. Lifts(lab6_stride, lab6_stride)
    <2>1. PICK k : k = TwoTo[WIDTH] /\ k \in Nat \ {0}
      BY Widths
    <2>2. ASSUME NEW x \in 0 .. k - 1 PROVE x % k = x
      BY <2>1
    <2>3. \A p \in Users : lab6_stride[p] \in 0 .. k - 1
      BY <1>11, <2>1
    <2>4. \A p \in Users : lab6_stride[p] = lab6_stride[p] % k
      BY <2>2, <2>3
    <2>5. \A p \in Users : lab6_stride[p] \in {0, BIG_STRIDE}
      BY <1>8
    <2>6. \A p, r \in Users : lab6_stride[p] - lab6_stride[r] <= BIG_STRIDE
      BY <1>10, <2>5
    <2>7. lab6_stride \in [Users -> Int]
      BY <1>11, <2>1
    <2>. QED
      BY <2>1, <2>4, <2>6, <2>7 DEF Lifts
  <1>14. InOrder(pool, run_pool, Before)
    <2>1. \A n \in R : /\ pool.left[n] # NULL => pool.left[n] \in R
                       /\ pool.right[n] # NULL => pool.right[n] \in R
      BY <1>7, BelowClosed DEF HeapOf
    <2>2. ASSUME NEW n \in R, NEW k \in R PROVE <<k, n>> \notin Before
      <3>1. lab6_stride[n] = 0 /\ lab6_stride[k] = 0
        BY <1>8
      <3>2. StrideDiff(lab6_stride, k, n) = 0
        BY <1>13, <3>1, DiffIs
      <3>. QED
        BY <3>2 DEF Before
    <2>. QED
      BY <1>8, <2>1, <2>2 DEF InOrder
  <1>15. (\A p \in Users : state[p] = "PROC_RUNNABLE") /\ current \in Users
    BY <1>1, <1>8 DEF Users
  <1>16. Leads(lead, lab6_stride)
    BY <1>1, <1>8, <1>10 DEF Leads
  <1>. QED
    BY <1>12, <1>13, <1>14, <1>15, <1>16 DEF ClosedInv

LEMMA MCInitInv ==
    MCInit => PoolInv /\ ClosedInv
  <1> SUFFICES ASSUME MCInit PROVE PoolInv /\ ClosedInv
    OBVIOUS
  <1>1. CASE closed
    <2>1. ClosedInit
      BY <1>1 DEF MCInit
    <2>2. lead = [p \in Users |-> IF p # initproc THEN -BIG_STRIDE ELSE 0]
      BY <1>1 DEF MCInit
    <2>. QED
      BY <2>1, <2>2, ClosedInitPool
  <1>2. CASE ~closed
    BY <1>2, InitPool DEF MCInit, ClosedInv
  <1>. QED
    BY <1>1, <1>2

\* The run pool of the stride class (default_sched.c, skew_heap.h) holds every
\* process that is to run, once, with all pointers matching.
THEOREM HeapIsPoolCorrect == MCSpec => []HeapIsPool
  <1>1. MCInit => PoolInv
    BY MCInitInv
  <1>2. PoolInv /\ [MCNext]_MCvars => PoolInv'
    <2>1. ASSUME PoolInv, UNCHANGED MCvars PROVE PoolInv'
      BY <2>1 DEF PoolInv, MCvars, vars, schedVars, TypeOK, SchedTypeOK, RunPoolExact
    <2>. QED
      BY <2>1, PoolInvNext
  <1>. QED
    BY <1>1, <1>2, PoolInvImplies, PTL DEF MCSpec

\* Without sleeps, forks and exits nobody is ever advanced more than BIG_STRIDE
\* further than another, counted without a width, and the difference of the strides as
\* proc_stride_comp_f computes it is the true one.
THEOREM ClosedGapBoundedCorrect == MCSpec => []ClosedGapBounded
  <1>1. MCInit => PoolInv /\ ClosedInv
    BY MCInitInv
  <1>2. PoolInv /\ ClosedInv /\ [MCNext]_MCvars => PoolInv' /\ ClosedInv'
    <2>1. ASSUME PoolInv, ClosedInv, UNCHANGED MCvars PROVE PoolInv' /\ ClosedInv'
      <3>1. PoolInv'
        BY <2>1 DEF PoolInv, MCvars, vars, schedVars, TypeOK, SchedTypeOK, RunPoolExact
      <3>2. ClosedInv'
        BY <2>1 DEF ClosedInv, MCvars, vars, schedVars, Before
      <3>. QED
        BY <3>1, <3>2
    <2>. QED
      BY <2>1, PoolInvNext, ClosedInvNext
  <1>. QED
    BY <1>1, <1>2, ClosedInvImplies, PTL DEF MCSpec
=============================================================================
