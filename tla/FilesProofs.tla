---------------------------- MODULE FilesProofs -----------------------------
(***************************************************************************)
(* Proofs about Files, for any number of processes, descriptors, files     *)
(* and blocks: the reference and open counts of inodes are exact, each     *)
(* block has one owner, reading returns what a file holds, and the         *)
(* assertions about blocks in use do not fail.                             *)
(*                                                                         *)
(* For the counts, the inductive invariant adds to CountsExact the shape   *)
(* of the tables and of the inodes in memory (IsTables, IsCache).          *)
(* Operators and lemmas up to "Tables and inodes together" are about       *)
(* values of files and inode, so that each can be used before and after a  *)
(* step.                                                                   *)
(*                                                                         *)
(* For the blocks, the invariant is Stored: each block is free or named    *)
(* at one place of one file (Parted), files have no holes, and a clean     *)
(* inode is like that of the disk. The operators of SfsBlocks are taken    *)
(* one by one, as values; a transfer is one of them after another.         *)
(***************************************************************************)
EXTENDS Files, FiniteSetTheorems, SequenceTheorems, WellFoundedInduction, TLAPS

-----------------------------------------------------------------------------
(* The tables of descriptors, as a value F of files.                        *)

IsOpenFile(e) ==
    /\ e = [node |-> e.node, pos |-> e.pos, readable |-> e.readable, writable |-> e.writable]
    /\ e.node \in NODES

IsTables(F) ==
    /\ DOMAIN F \subseteq PROCS
    /\ \A p \in DOMAIN F :
         /\ F[p] = [pwd |-> F[p].pwd, fd |-> F[p].fd]
         /\ F[p].pwd \in NODES
         /\ DOMAIN F[p].fd \subseteq FDS
         /\ \A i \in DOMAIN F[p].fd : IsOpenFile(F[p].fd[i])

\* The processes whose current directory n is, the descriptors of all processes
\* on n, and those of process p among S.
Cwds(F, n) == {p \in DOMAIN F : F[p].pwd = n}
Descs(F) == (DOMAIN F) \X FDS
IsOn(F, d, n) == d[2] \in DOMAIN F[d[1]].fd /\ F[d[1]].fd[d[2]].node = n
HoldersIn(F, n) == {d \in Descs(F) : IsOn(F, d, n)}
Mine(F, p, S, n) == {i \in S \cap DOMAIN F[p].fd : F[p].fd[i].node = n}

\* Pairs and their coordinates.
LEMMA Pairs ==
    ASSUME NEW A, NEW B
    PROVE  /\ \A d \in A \X B : d[1] \in A /\ d[2] \in B
           /\ \A p \in A, i \in B :
                /\ <<p, i>> \in A \X B /\ <<p, i>>[1] = p /\ <<p, i>>[2] = i
                /\ \A d \in A \X B : d = <<p, i>> <=> d[1] = p /\ d[2] = i
           /\ \A p \in A : \A T \in SUBSET B :
                /\ {p} \X T \subseteq A \X B
                /\ \A d \in A \X B : d \in {p} \X T <=> d[1] = p /\ d[2] \in T
  OBVIOUS

\* The same of the descriptors of the processes in F.
LEMMA DescsPairs ==
    ASSUME NEW F
    PROVE  /\ \A d \in Descs(F) : d[1] \in DOMAIN F /\ d[2] \in FDS
           /\ \A p \in DOMAIN F, i \in FDS :
                /\ <<p, i>> \in Descs(F) /\ <<p, i>>[1] = p /\ <<p, i>>[2] = i
                /\ \A d \in Descs(F) : d = <<p, i>> <=> d[1] = p /\ d[2] = i
           /\ \A p \in DOMAIN F : \A T \in SUBSET FDS :
                /\ {p} \X T \subseteq Descs(F)
                /\ \A d \in Descs(F) : d \in {p} \X T <=> d[1] = p /\ d[2] \in T
           /\ \A G : DOMAIN G = DOMAIN F => Descs(G) = Descs(F)
  <1> DEFINE A == DOMAIN F
  <1>1. Descs(F) = A \X FDS
    BY DEF Descs
  <1>2. \A G : DOMAIN G = DOMAIN F => Descs(G) = Descs(F)
    BY DEF Descs
  <1>. HIDE DEF A
  <1>3. /\ \A d \in Descs(F) : d[1] \in A /\ d[2] \in FDS
        /\ \A p \in A, i \in FDS :
             /\ <<p, i>> \in Descs(F) /\ <<p, i>>[1] = p /\ <<p, i>>[2] = i
             /\ \A d \in Descs(F) : d = <<p, i>> <=> d[1] = p /\ d[2] = i
        /\ \A p \in A : \A T \in SUBSET FDS :
             /\ {p} \X T \subseteq Descs(F)
             /\ \A d \in Descs(F) : d \in {p} \X T <=> d[1] = p /\ d[2] \in T
    BY <1>1, Pairs
  <1>. QED
    BY <1>2, <1>3, Zenon DEF A

\* A descriptor on an inode is open in the table of its process.
LEMMA Holder ==
    ASSUME NEW F, NEW n
    PROVE  /\ HoldersIn(F, n) \subseteq Descs(F)
           /\ \A d \in Descs(F) :
                /\ d[1] \in DOMAIN F /\ d[2] \in FDS
                /\ d \in HoldersIn(F, n) <=> IsOn(F, d, n)
  BY DescsPairs, Zenon DEF HoldersIn

\* Pairing the elements of a set with one process does not change how many they are.
LEMMA PairedCardinality ==
    ASSUME NEW p, NEW T, IsFiniteSet(T)
    PROVE  IsFiniteSet({p} \X T) /\ Cardinality({p} \X T) = Cardinality(T)
  <1>1. IsFiniteSet({p}) /\ Cardinality({p}) = 1
    BY FS_Singleton
  <1>2. IsFiniteSet({p} \X T) /\ Cardinality({p} \X T) = 1 * Cardinality(T)
    BY <1>1, FS_Product
  <1>3. Cardinality(T) \in Nat
    BY FS_CardinalityType
  <1>. QED
    BY <1>2, <1>3

\* A table is finite.
LEMMA FDSFinite == IsFiniteSet(FDS)
  <1>1. NENTRY \in Nat /\ 0 \in Int /\ NENTRY - 1 \in Int
    BY FilesAssumption
  <1>2. IsFiniteSet(0 .. (NENTRY - 1))
    BY <1>1, FS_Interval
  <1>. QED
    BY <1>2 DEF FDS

\* All of them are finite sets.
LEMMA TablesFinite ==
    ASSUME NEW F, IsTables(F), NEW n
    PROVE  /\ IsFiniteSet(Cwds(F, n)) /\ Cardinality(Cwds(F, n)) \in Nat
           /\ IsFiniteSet(HoldersIn(F, n)) /\ Cardinality(HoldersIn(F, n)) \in Nat
           /\ \A p \in DOMAIN F : \A S : IsFiniteSet(Mine(F, p, S, n)) /\ Cardinality(Mine(F, p, S, n)) \in Nat
  <1>1. IsFiniteSet(DOMAIN F)
    <2>1. IsFiniteSet(PROCS) /\ DOMAIN F \subseteq PROCS
      BY FilesAssumption DEF IsTables
    <2>. QED
      BY <2>1, FS_Subset
  <1>2. IsFiniteSet(Descs(F))
    <2> DEFINE A == DOMAIN F
    <2>1. IsFiniteSet(A)
      BY <1>1
    <2>. HIDE DEF A
    <2>2. IsFiniteSet(A \X FDS)
      BY <2>1, FDSFinite, FS_Product, Zenon
    <2>. QED
      BY <2>2, DescsPairs, Zenon DEF A, Descs
  <1>3. IsFiniteSet(Cwds(F, n))
    BY <1>1, FS_Subset DEF Cwds
  <1>4. IsFiniteSet(HoldersIn(F, n))
    BY <1>2, Holder, FS_Subset, Zenon
  <1>5. ASSUME NEW p \in DOMAIN F, NEW S PROVE IsFiniteSet(Mine(F, p, S, n))
    <2>1. Mine(F, p, S, n) \subseteq FDS
      BY DEF Mine, IsTables
    <2>. QED
      BY <2>1, FDSFinite, FS_Subset
  <1>. QED
    BY <1>3, <1>4, <1>5, FS_CardinalityType

\* Two sets with nothing in common.
LEMMA Joined ==
    ASSUME NEW A, NEW B, IsFiniteSet(A), IsFiniteSet(B), A \cap B = {}
    PROVE  Cardinality(A \cup B) = Cardinality(A) + Cardinality(B)
  <1>1. Cardinality(A \cup B) = Cardinality(A) + Cardinality(B) - Cardinality(A \cap B)
    BY FS_Union
  <1>2. Cardinality(A \cap B) = 0
    BY FS_EmptySet
  <1>3. Cardinality(A) \in Nat /\ Cardinality(B) \in Nat
    BY FS_CardinalityType
  <1>. QED
    BY <1>1, <1>2, <1>3

\* A part taken away.
LEMMA Removed ==
    ASSUME NEW A, NEW B, IsFiniteSet(A), B \subseteq A
    PROVE  /\ Cardinality(A \ B) = Cardinality(A) - Cardinality(B)
           /\ Cardinality(B) <= Cardinality(A)
  <1>1. IsFiniteSet(B) /\ IsFiniteSet(A \ B)
    BY FS_Subset
  <1>2. (A \ B) \cup B = A /\ (A \ B) \cap B = {}
    OBVIOUS
  <1>3. Cardinality(A) = Cardinality(A \ B) + Cardinality(B)
    BY <1>1, <1>2, Joined
  <1>4. Cardinality(A) \in Nat /\ Cardinality(B) \in Nat /\ Cardinality(A \ B) \in Nat
    BY <1>1, FS_CardinalityType
  <1>. QED
    BY <1>3, <1>4

-----------------------------------------------------------------------------
(* What a call does to the tables, from F to G.                             *)

IsTableOf(F, G, p, t) == G = [F EXCEPT ![p].fd = t]

IsPut(F, G, p, fd, e) ==
    G = [F EXCEPT ![p].fd = [i \in DOMAIN F[p].fd \cup {fd} |-> IF i = fd THEN e ELSE F[p].fd[i]]]

IsDrop(F, G, p, S) == G = [F EXCEPT ![p].fd = [i \in DOMAIN F[p].fd \ S |-> F[p].fd[i]]]

\* The counts of the tables that Refs and Opens are made of.
CwdCount(F, n) == Cardinality(Cwds(F, n))
HolderCount(F, n) == Cardinality(HoldersIn(F, n))
MineCount(F, p, S, n) == Cardinality(Mine(F, p, S, n))

TableChanged(F, G, p, t) ==
    /\ DOMAIN G = DOMAIN F /\ Descs(G) = Descs(F) /\ G[p].fd = t
    /\ \A q \in DOMAIN F : q # p => G[q] = F[q]
    /\ \A n : Cwds(G, n) = Cwds(F, n)
    /\ (DOMAIN t \subseteq FDS /\ \A i \in DOMAIN t : IsOpenFile(t[i])) => IsTables(G)

\* The table of p gets another fd, the other tables stay.
LEMMA TableOf ==
    ASSUME NEW F, IsTables(F), NEW p \in DOMAIN F, NEW t, NEW G, IsTableOf(F, G, p, t)
    PROVE  TableChanged(F, G, p, t)
  <1>1. F[p] = [pwd |-> F[p].pwd, fd |-> F[p].fd]
    BY DEF IsTables
  <1>2. DOMAIN G = DOMAIN F /\ G[p] = [F[p] EXCEPT !.fd = t] /\ \A q \in DOMAIN F : q # p => G[q] = F[q]
    BY DEF IsTableOf
  <1>3. G[p] = [pwd |-> F[p].pwd, fd |-> t]
    <2> DEFINE a == F[p].pwd
               b == F[p].fd
    <2>1. F[p] = [pwd |-> a, fd |-> b] /\ G[p] = [F[p] EXCEPT !.fd = t]
      BY <1>1, <1>2
    <2>. HIDE DEF a, b
    <2>2. G[p] = [pwd |-> a, fd |-> t]
      BY <2>1
    <2>. QED
      BY <2>2 DEF a
  <1>4. G[p].pwd = F[p].pwd /\ G[p].fd = t
    BY <1>3
  <1>5. \A q \in DOMAIN F : G[q].pwd = F[q].pwd
    BY <1>2, <1>4
  <1>6. \A n : Cwds(G, n) = Cwds(F, n)
    BY <1>2, <1>5 DEF Cwds
  <1>7. ASSUME DOMAIN t \subseteq FDS, \A i \in DOMAIN t : IsOpenFile(t[i]) PROVE IsTables(G)
    <2>1. DOMAIN G \subseteq PROCS
      BY <1>2 DEF IsTables
    <2>2. ASSUME NEW q \in DOMAIN G
          PROVE  /\ G[q] = [pwd |-> G[q].pwd, fd |-> G[q].fd]
                 /\ G[q].pwd \in NODES
                 /\ DOMAIN G[q].fd \subseteq FDS
                 /\ \A i \in DOMAIN G[q].fd : IsOpenFile(G[q].fd[i])
      <3>1. CASE q = p
        BY <1>3, <1>4, <1>7, <3>1 DEF IsTables
      <3>2. CASE q # p
        BY <1>2, <2>2, <3>2 DEF IsTables
      <3>. QED
        BY <3>1, <3>2
    <2>. QED
      BY <2>1, <2>2 DEF IsTables
  <1>8. Descs(G) = Descs(F)
    BY <1>2, DescsPairs, Zenon
  <1>. QED
    BY <1>2, <1>4, <1>6, <1>7, <1>8, Zenon DEF TableChanged

\* A descriptor that was closed is open now.
LEMMA PutNew ==
    ASSUME NEW F, IsTables(F), NEW p \in DOMAIN F, NEW fd \in FDS, fd \notin DOMAIN F[p].fd,
           NEW e, IsOpenFile(e), NEW G, IsPut(F, G, p, fd, e)
    PROVE  /\ IsTables(G)
           /\ \A n : Cwds(G, n) = Cwds(F, n)
           /\ \A n : HolderCount(G, n) = HolderCount(F, n) + (IF n = e.node THEN 1 ELSE 0)
  <1> DEFINE t == [i \in DOMAIN F[p].fd \cup {fd} |-> IF i = fd THEN e ELSE F[p].fd[i]]
  <1>1. DOMAIN t = DOMAIN F[p].fd \cup {fd} /\ t[fd] = e /\ \A i \in DOMAIN F[p].fd : t[i] = F[p].fd[i]
    OBVIOUS
  <1>2. IsTableOf(F, G, p, t)
    BY DEF IsPut, IsTableOf
  <1>. HIDE DEF t
  <1>3. DOMAIN t \subseteq FDS /\ \A i \in DOMAIN t : IsOpenFile(t[i])
    BY <1>1 DEF IsTables
  <1>4. /\ DOMAIN G = DOMAIN F /\ G[p].fd = t
        /\ \A q \in DOMAIN F : q # p => G[q] = F[q]
        /\ \A n : Cwds(G, n) = Cwds(F, n)
        /\ IsTables(G)
        /\ Descs(G) = Descs(F)
    <2>1. TableChanged(F, G, p, t)
      BY <1>2, TableOf, Zenon
    <2>. QED
      BY <1>3, <2>1, Zenon DEF TableChanged
  <1>5. ASSUME NEW n, NEW d \in Descs(F)
        PROVE  d \in HoldersIn(G, n) <=> d \in HoldersIn(F, n) \/ (d[1] = p /\ d[2] = fd /\ e.node = n)
    <2>1. /\ d[1] \in DOMAIN F /\ d[2] \in FDS
          /\ d \in HoldersIn(F, n) <=> IsOn(F, d, n)
          /\ d \in HoldersIn(G, n) <=> IsOn(G, d, n)
      <3>1. d \in Descs(G)
        BY <1>4, <1>5, Zenon
      <3>2. /\ d[1] \in DOMAIN F /\ d[2] \in FDS
            /\ d \in HoldersIn(F, n) <=> IsOn(F, d, n)
        BY <1>5, Holder, Zenon
      <3>3. d \in HoldersIn(G, n) <=> IsOn(G, d, n)
        BY <3>1, Holder, Zenon
      <3>. QED
        BY <3>2, <3>3, Zenon
    <2>2. CASE d[1] = p
      BY <1>1, <1>4, <2>1, <2>2, Zenon DEF IsOn
    <2>3. CASE d[1] # p
      BY <1>4, <2>1, <2>3, Zenon DEF IsOn
    <2>. QED
      BY <2>2, <2>3
  <1>6. ASSUME NEW n
        PROVE  /\ n # e.node => HoldersIn(G, n) = HoldersIn(F, n)
               /\ n = e.node => /\ HoldersIn(G, n) = HoldersIn(F, n) \cup {<<p, fd>>}
                                /\ <<p, fd>> \notin HoldersIn(F, n)
    <2>1. HoldersIn(F, n) \subseteq Descs(F) /\ HoldersIn(G, n) \subseteq Descs(F)
      BY <1>4, Holder, Zenon
    <2>2. n # e.node => HoldersIn(G, n) = HoldersIn(F, n)
      BY <1>5, <2>1, Zenon
    <2> DEFINE c == <<p, fd>>
    <2>3. /\ c \in Descs(F) /\ c[1] = p /\ c[2] = fd
          /\ \A d \in Descs(F) : d = c <=> d[1] = p /\ d[2] = fd
      BY DescsPairs
    <2>. HIDE DEF c
    <2>4. n = e.node => HoldersIn(G, n) = HoldersIn(F, n) \cup {c}
      BY <1>5, <2>1, <2>3, Zenon
    <2>5. c \notin HoldersIn(F, n)
      BY <2>3, Holder, Zenon DEF IsOn
    <2>. QED
      BY <2>2, <2>4, <2>5, Zenon DEF c
  <1>7. ASSUME NEW n PROVE HolderCount(G, n) = HolderCount(F, n) + (IF n = e.node THEN 1 ELSE 0)
    <2>1. IsFiniteSet(HoldersIn(F, n)) /\ Cardinality(HoldersIn(F, n)) \in Nat
      BY TablesFinite
    <2>2. CASE n = e.node
      <3>1. Cardinality(HoldersIn(G, n)) = Cardinality(HoldersIn(F, n)) + 1
        BY <1>6, <2>1, <2>2, FS_AddElement
      <3>. QED
        BY <2>2, <3>1 DEF HolderCount
    <2>3. CASE n # e.node
      BY <1>6, <2>1, <2>3 DEF HolderCount
    <2>. QED
      BY <2>2, <2>3
  <1>. QED
    BY <1>4, <1>7

\* An open descriptor changes but stays on its inode.
LEMMA PutSame ==
    ASSUME NEW F, IsTables(F), NEW p \in DOMAIN F, NEW fd \in DOMAIN F[p].fd,
           NEW e, IsOpenFile(e), e.node = F[p].fd[fd].node, NEW G, IsPut(F, G, p, fd, e)
    PROVE  /\ IsTables(G)
           /\ \A n : Cwds(G, n) = Cwds(F, n)
           /\ \A n : HoldersIn(G, n) = HoldersIn(F, n)
  <1> DEFINE t == [i \in DOMAIN F[p].fd \cup {fd} |-> IF i = fd THEN e ELSE F[p].fd[i]]
  <1>1. DOMAIN t = DOMAIN F[p].fd /\ t[fd] = e /\ \A i \in DOMAIN F[p].fd : i # fd => t[i] = F[p].fd[i]
    OBVIOUS
  <1>2. IsTableOf(F, G, p, t)
    BY DEF IsPut, IsTableOf
  <1>. HIDE DEF t
  <1>3. DOMAIN t \subseteq FDS /\ \A i \in DOMAIN t : IsOpenFile(t[i])
    BY <1>1 DEF IsTables
  <1>4. /\ DOMAIN G = DOMAIN F /\ G[p].fd = t
        /\ \A q \in DOMAIN F : q # p => G[q] = F[q]
        /\ \A n : Cwds(G, n) = Cwds(F, n)
        /\ IsTables(G)
        /\ Descs(G) = Descs(F)
    <2>1. TableChanged(F, G, p, t)
      BY <1>2, TableOf, Zenon
    <2>. QED
      BY <1>3, <2>1, Zenon DEF TableChanged
  <1>5. ASSUME NEW n PROVE HoldersIn(G, n) = HoldersIn(F, n)
    <2>1. ASSUME NEW d \in Descs(F) PROVE d \in HoldersIn(G, n) <=> d \in HoldersIn(F, n)
      <3>1. /\ d[1] \in DOMAIN F /\ d[2] \in FDS
            /\ d \in HoldersIn(F, n) <=> IsOn(F, d, n)
            /\ d \in HoldersIn(G, n) <=> IsOn(G, d, n)
        <4>1. d \in Descs(G)
          BY <1>4, <2>1, Zenon
        <4>2. /\ d[1] \in DOMAIN F /\ d[2] \in FDS
              /\ d \in HoldersIn(F, n) <=> IsOn(F, d, n)
          BY <2>1, Holder, Zenon
        <4>3. d \in HoldersIn(G, n) <=> IsOn(G, d, n)
          BY <4>1, Holder, Zenon
        <4>. QED
          BY <4>2, <4>3, Zenon
      <3>2. CASE d[1] = p
        BY <1>1, <1>4, <3>1, <3>2, Zenon DEF IsOn
      <3>3. CASE d[1] # p
        BY <1>4, <3>1, <3>3, Zenon DEF IsOn
      <3>. QED
        BY <3>2, <3>3
    <2>2. HoldersIn(F, n) \subseteq Descs(F) /\ HoldersIn(G, n) \subseteq Descs(F)
      BY <1>4, Holder, Zenon
    <2>. QED
      BY <2>1, <2>2, Zenon
  <1>. QED
    BY <1>4, <1>5

\* Descriptors of one process are closed.
LEMMA DropCounts ==
    ASSUME NEW F, IsTables(F), NEW p \in DOMAIN F, NEW S, NEW G, IsDrop(F, G, p, S)
    PROVE  /\ IsTables(G)
           /\ \A n : Cwds(G, n) = Cwds(F, n)
           /\ \A n : /\ HolderCount(G, n) = HolderCount(F, n) - MineCount(F, p, S, n)
                     /\ MineCount(F, p, S, n) <= HolderCount(F, n)
  <1> DEFINE t == [i \in DOMAIN F[p].fd \ S |-> F[p].fd[i]]
  <1>1. DOMAIN t = DOMAIN F[p].fd \ S /\ \A i \in DOMAIN F[p].fd \ S : t[i] = F[p].fd[i]
    OBVIOUS
  <1>2. IsTableOf(F, G, p, t)
    BY DEF IsDrop, IsTableOf
  <1>. HIDE DEF t
  <1>3. DOMAIN t \subseteq FDS /\ \A i \in DOMAIN t : IsOpenFile(t[i])
    BY <1>1 DEF IsTables
  <1>4. /\ DOMAIN G = DOMAIN F /\ G[p].fd = t
        /\ \A q \in DOMAIN F : q # p => G[q] = F[q]
        /\ \A n : Cwds(G, n) = Cwds(F, n)
        /\ IsTables(G)
        /\ Descs(G) = Descs(F)
    <2>1. TableChanged(F, G, p, t)
      BY <1>2, TableOf, Zenon
    <2>. QED
      BY <1>3, <2>1, Zenon DEF TableChanged
  <1>5. ASSUME NEW n
        PROVE  /\ HolderCount(G, n) = HolderCount(F, n) - MineCount(F, p, S, n)
               /\ MineCount(F, p, S, n) <= HolderCount(F, n)
    <2> DEFINE D == Mine(F, p, S, n)
               M == {p} \X D
    <2>1. /\ D \subseteq FDS
          /\ \A i : i \in D <=> i \in S /\ i \in DOMAIN F[p].fd /\ F[p].fd[i].node = n
      BY DEF Mine, IsTables
    <2>2. /\ M \subseteq Descs(F)
          /\ \A d \in Descs(F) : d \in M <=> d[1] = p /\ d[2] \in D
      <3>. HIDE DEF D
      <3>. QED
        BY <2>1, DescsPairs
    <2>3. IsFiniteSet(HoldersIn(F, n)) /\ IsFiniteSet(D)
      BY TablesFinite
    <2>4. Cardinality(M) = Cardinality(Mine(F, p, S, n))
      BY <2>3, PairedCardinality
    <2>. HIDE DEF D, M
    <2>5. ASSUME NEW d \in Descs(F)
          PROVE  /\ d \in M => d \in HoldersIn(F, n)
                 /\ d \in HoldersIn(G, n) <=> d \in HoldersIn(F, n) /\ d \notin M
      <3>1. /\ d[1] \in DOMAIN F /\ d[2] \in FDS
            /\ d \in HoldersIn(F, n) <=> IsOn(F, d, n)
            /\ d \in HoldersIn(G, n) <=> IsOn(G, d, n)
        <4>1. d \in Descs(G)
          BY <1>4, <2>5, Zenon
        <4>2. /\ d[1] \in DOMAIN F /\ d[2] \in FDS
              /\ d \in HoldersIn(F, n) <=> IsOn(F, d, n)
          BY <2>5, Holder, Zenon
        <4>3. d \in HoldersIn(G, n) <=> IsOn(G, d, n)
          BY <4>1, Holder, Zenon
        <4>. QED
          BY <4>2, <4>3, Zenon
      <3>2. CASE d[1] = p
        <4>1. G[p].fd = t /\ (d[2] \in DOMAIN t <=> d[2] \in DOMAIN F[p].fd /\ d[2] \notin S)
              /\ (d[2] \in DOMAIN t => t[d[2]] = F[p].fd[d[2]])
          BY <1>1, <1>4, Zenon
        <4>. QED
          BY <2>1, <2>2, <3>1, <3>2, <4>1, Zenon DEF IsOn
      <3>3. CASE d[1] # p
        BY <1>4, <2>2, <3>1, <3>3, Zenon DEF IsOn
      <3>. QED
        BY <3>2, <3>3
    <2>6. HoldersIn(F, n) \subseteq Descs(F) /\ HoldersIn(G, n) \subseteq Descs(F)
      BY <1>4, Holder, Zenon
    <2>7. M \subseteq HoldersIn(F, n)
      BY <2>2, <2>5, Zenon
    <2>8. HoldersIn(G, n) = HoldersIn(F, n) \ M
      BY <2>5, <2>6, Zenon
    <2>9. Cardinality(HoldersIn(G, n)) = Cardinality(HoldersIn(F, n)) - Cardinality(M) /\ Cardinality(M) <= Cardinality(HoldersIn(F, n))
      BY <2>3, <2>7, <2>8, Removed
    <2>. QED
      BY <2>4, <2>9 DEF HolderCount, MineCount
  <1>. QED
    BY <1>4, <1>5

IsFork(F, G, p, q) == G = [r \in DOMAIN F \cup {q} |-> IF r = q THEN F[p] ELSE F[r]]

IsExit(F, G, p) == G = [q \in DOMAIN F \ {p} |-> F[q]]

\* Fewer processes have fewer descriptors.
LEMMA FewerDescs ==
    ASSUME NEW F, NEW G, DOMAIN F \subseteq DOMAIN G
    PROVE  \A d : d \in Descs(F) <=> d \in Descs(G) /\ d[1] \in DOMAIN F
  <1> DEFINE A == DOMAIN F
             B == DOMAIN G
  <1>1. A \subseteq B /\ Descs(F) = A \X FDS /\ Descs(G) = B \X FDS
    BY DEF Descs
  <1>. HIDE DEF A, B
  <1>2. \A d : d \in Descs(F) <=> d \in Descs(G) /\ d[1] \in A
    BY <1>1
  <1>. QED
    BY <1>2 DEF A

\* The child has what its parent has.
LEMMA ForkCounts ==
    ASSUME NEW F, IsTables(F), NEW p \in DOMAIN F, NEW q \in PROCS \ DOMAIN F, NEW G, IsFork(F, G, p, q)
    PROVE  /\ IsTables(G)
           /\ \A n : CwdCount(G, n) = CwdCount(F, n) + (IF n = F[p].pwd THEN 1 ELSE 0)
           /\ \A n : HolderCount(G, n) = HolderCount(F, n) + MineCount(F, p, FDS, n)
  <1>1. DOMAIN G = DOMAIN F \cup {q} /\ G[q] = F[p] /\ \A r \in DOMAIN F : G[r] = F[r]
    BY DEF IsFork
  <1>2. IsTables(G)
    <2>1. DOMAIN G \subseteq PROCS
      BY <1>1 DEF IsTables
    <2>2. ASSUME NEW r \in DOMAIN G PROVE \E s \in DOMAIN F : G[r] = F[s]
      BY <1>1, <2>2, Zenon
    <2>. QED
      BY <2>1, <2>2, Zenon DEF IsTables
  <1>3. ASSUME NEW n PROVE CwdCount(G, n) = CwdCount(F, n) + (IF n = F[p].pwd THEN 1 ELSE 0)
    <2>1. IsFiniteSet(Cwds(F, n)) /\ Cardinality(Cwds(F, n)) \in Nat
      BY TablesFinite
    <2>2. q \notin Cwds(F, n)
      BY DEF Cwds
    <2>3. CASE n = F[p].pwd
      <3>1. Cwds(G, n) = Cwds(F, n) \cup {q}
        BY <1>1, <2>3, Zenon DEF Cwds
      <3>2. Cardinality(Cwds(G, n)) = Cardinality(Cwds(F, n)) + 1
        BY <2>1, <2>2, <3>1, FS_AddElement
      <3>. QED
        BY <2>3, <3>2 DEF CwdCount
    <2>4. CASE n # F[p].pwd
      <3>1. Cwds(G, n) = Cwds(F, n)
        BY <1>1, <2>4, Zenon DEF Cwds
      <3>. QED
        BY <2>1, <2>4, <3>1 DEF CwdCount
    <2>. QED
      BY <2>3, <2>4
  <1>4. ASSUME NEW n PROVE HolderCount(G, n) = HolderCount(F, n) + MineCount(F, p, FDS, n)
    <2> DEFINE D == Mine(F, p, FDS, n)
               M == {q} \X D
    <2>1. D \in SUBSET FDS /\ \A i \in FDS : i \in D <=> i \in DOMAIN F[p].fd /\ F[p].fd[i].node = n
      BY DEF Mine
    <2>2. /\ M \subseteq Descs(G)
          /\ \A d \in Descs(G) : d \in M <=> d[1] = q /\ d[2] \in D
      <3>. HIDE DEF D
      <3>. QED
        BY <1>1, <2>1, DescsPairs
    <2>3. IsFiniteSet(HoldersIn(F, n)) /\ IsFiniteSet(D)
      BY TablesFinite
    <2>4. IsFiniteSet(M) /\ Cardinality(M) = Cardinality(Mine(F, p, FDS, n))
      BY <2>3, PairedCardinality
    <2>. HIDE DEF D, M
    <2>5. \A d : d \in Descs(F) <=> d \in Descs(G) /\ d[1] \in DOMAIN F
      BY <1>1, FewerDescs
    <2>6. ASSUME NEW d \in Descs(G)
          PROVE  /\ d \in HoldersIn(G, n) <=> d \in HoldersIn(F, n) \/ d \in M
                 /\ ~(d \in HoldersIn(F, n) /\ d \in M)
      <3>1. d[1] \in DOMAIN G /\ d[2] \in FDS /\ (d \in HoldersIn(G, n) <=> IsOn(G, d, n))
        BY <2>6, Holder, Zenon
      <3>2. CASE d[1] = q
        <4>1. d \notin Descs(F)
          BY <2>5, <3>2
        <4>2. d \notin HoldersIn(F, n)
          BY <4>1, Holder, Zenon
        <4>. QED
          BY <1>1, <2>1, <2>2, <3>1, <3>2, <4>2, Zenon DEF IsOn
      <3>3. CASE d[1] # q
        <4>1. d \in Descs(F) /\ d[1] \in DOMAIN F
          BY <1>1, <2>5, <3>1, <3>3
        <4>2. d \in HoldersIn(F, n) <=> IsOn(F, d, n)
          BY <4>1, Holder, Zenon
        <4>3. d \notin M
          BY <2>2, <3>3, Zenon
        <4>. QED
          BY <1>1, <3>1, <4>1, <4>2, <4>3, Zenon DEF IsOn
      <3>. QED
        BY <3>2, <3>3
    <2>7. HoldersIn(F, n) \subseteq Descs(G) /\ HoldersIn(G, n) \subseteq Descs(G)
      BY <2>5, Holder, Zenon
    <2>8. HoldersIn(G, n) = HoldersIn(F, n) \cup M /\ HoldersIn(F, n) \cap M = {}
      BY <2>2, <2>6, <2>7, Zenon
    <2>9. Cardinality(HoldersIn(G, n)) = Cardinality(HoldersIn(F, n)) + Cardinality(M)
      BY <2>3, <2>4, <2>8, Joined
    <2>. QED
      BY <2>4, <2>9 DEF HolderCount, MineCount
  <1>. QED
    BY <1>2, <1>3, <1>4

\* A process that exits takes its directory and its descriptors with it.
LEMMA ExitCounts ==
    ASSUME NEW F, IsTables(F), NEW p \in DOMAIN F, NEW G, IsExit(F, G, p)
    PROVE  /\ IsTables(G)
           /\ \A n : CwdCount(G, n) = CwdCount(F, n) - (IF n = F[p].pwd THEN 1 ELSE 0)
           /\ \A n : /\ HolderCount(G, n) = HolderCount(F, n) - MineCount(F, p, FDS, n)
                     /\ MineCount(F, p, FDS, n) <= HolderCount(F, n)
           /\ CwdCount(F, F[p].pwd) >= 1
  <1>1. DOMAIN G = DOMAIN F \ {p} /\ \A r \in DOMAIN F \ {p} : G[r] = F[r]
    BY DEF IsExit
  <1>2. IsTables(G)
    BY <1>1 DEF IsTables
  <1>3. ASSUME NEW n
        PROVE  /\ CwdCount(G, n) = CwdCount(F, n) - (IF n = F[p].pwd THEN 1 ELSE 0)
               /\ n = F[p].pwd => CwdCount(F, n) >= 1
    <2>1. IsFiniteSet(Cwds(F, n)) /\ Cardinality(Cwds(F, n)) \in Nat /\ Cardinality(Cwds(G, n)) \in Nat
      BY <1>2, TablesFinite
    <2>2. Cwds(G, n) = Cwds(F, n) \ {p}
      BY <1>1, Zenon DEF Cwds
    <2>3. p \in Cwds(F, n) <=> n = F[p].pwd
      BY Zenon DEF Cwds
    <2>4. Cardinality(Cwds(G, n)) =
            IF p \in Cwds(F, n) THEN Cardinality(Cwds(F, n)) - 1 ELSE Cardinality(Cwds(F, n))
      BY <2>1, <2>2, FS_RemoveElement
    <2>. QED
      BY <2>1, <2>3, <2>4 DEF CwdCount
  <1>4. ASSUME NEW n
        PROVE  /\ HolderCount(G, n) = HolderCount(F, n) - MineCount(F, p, FDS, n)
               /\ MineCount(F, p, FDS, n) <= HolderCount(F, n)
    <2> DEFINE D == Mine(F, p, FDS, n)
               M == {p} \X D
    <2>1. D \in SUBSET FDS /\ \A i \in FDS : i \in D <=> i \in DOMAIN F[p].fd /\ F[p].fd[i].node = n
      BY DEF Mine
    <2>2. /\ M \subseteq Descs(F)
          /\ \A d \in Descs(F) : d \in M <=> d[1] = p /\ d[2] \in D
      <3>. HIDE DEF D
      <3>. QED
        BY <2>1, DescsPairs
    <2>3. IsFiniteSet(HoldersIn(F, n)) /\ IsFiniteSet(D)
      BY TablesFinite
    <2>4. Cardinality(M) = Cardinality(Mine(F, p, FDS, n))
      BY <2>3, PairedCardinality
    <2>. HIDE DEF D, M
    <2>5. \A d : d \in Descs(G) <=> d \in Descs(F) /\ d[1] \in DOMAIN G
      BY <1>1, FewerDescs
    <2>6. ASSUME NEW d \in Descs(F)
          PROVE  /\ d \in M => d \in HoldersIn(F, n)
                 /\ d \in HoldersIn(G, n) <=> d \in HoldersIn(F, n) /\ d \notin M
      <3>1. d[1] \in DOMAIN F /\ d[2] \in FDS /\ (d \in HoldersIn(F, n) <=> IsOn(F, d, n))
        BY <2>6, Holder, Zenon
      <3>2. CASE d[1] = p
        <4>1. d \notin Descs(G)
          BY <1>1, <2>5, <3>2
        <4>2. d \notin HoldersIn(G, n)
          BY <4>1, Holder, Zenon
        <4>. QED
          BY <2>1, <2>2, <3>1, <3>2, <4>2, Zenon DEF IsOn
      <3>3. CASE d[1] # p
        <4>1. d \in Descs(G) /\ G[d[1]] = F[d[1]]
          BY <1>1, <2>5, <3>1, <3>3
        <4>2. d \in HoldersIn(G, n) <=> IsOn(G, d, n)
          BY <4>1, Holder, Zenon
        <4>3. d \notin M
          BY <2>2, <3>3, Zenon
        <4>. QED
          BY <3>1, <4>1, <4>2, <4>3, Zenon DEF IsOn
      <3>. QED
        BY <3>2, <3>3
    <2>7. HoldersIn(F, n) \subseteq Descs(F) /\ HoldersIn(G, n) \subseteq Descs(F)
      BY <2>5, Holder, Zenon
    <2>8. HoldersIn(G, n) = HoldersIn(F, n) \ M /\ M \subseteq HoldersIn(F, n)
      BY <2>2, <2>6, <2>7, Zenon
    <2>9. Cardinality(HoldersIn(G, n)) = Cardinality(HoldersIn(F, n)) - Cardinality(M) /\ Cardinality(M) <= Cardinality(HoldersIn(F, n))
      BY <2>3, <2>8, Removed
    <2>. QED
      BY <2>4, <2>9 DEF HolderCount, MineCount
  <1>. QED
    BY <1>2, <1>3, <1>4

-----------------------------------------------------------------------------
(* The inodes in memory, as a value I of inode, and the counts R and O that  *)
(* they should have.                                                         *)

IsInode(x) ==
    /\ x = [ref_count |-> x.ref_count, open_count |-> x.open_count, dirty |-> x.dirty, din |-> x.din]
    /\ x.ref_count \in Nat /\ x.open_count \in Nat

IsCache(I) == DOMAIN I \subseteq NODES /\ \A n \in DOMAIN I : IsInode(I[n])

Exact(I, R, O) ==
    \A n \in NODES :
        IF R[n] = 0 THEN n \notin DOMAIN I
        ELSE n \in DOMAIN I /\ I[n].ref_count = R[n] /\ I[n].open_count = O[n]

\* Another copy of the disk inode, or another dirty flag, leaves the counts.
LEMMA InodeData ==
    ASSUME NEW x, IsInode(x), NEW y,
           \/ \E a : y = [x EXCEPT !.din = a]
           \/ \E a : y = [x EXCEPT !.dirty = a]
    PROVE  IsInode(y) /\ y.ref_count = x.ref_count /\ y.open_count = x.open_count
  BY DEF IsInode

\* y is x with other counts.
Recounted(x, y, a, b) ==
    \/ y = [x EXCEPT !.ref_count = a, !.open_count = b]
    \/ \E c : y = [x EXCEPT !.ref_count = a, !.open_count = b, !.dirty = c]

\* It is an inode with these counts.
LEMMA InodeCounts ==
    ASSUME NEW x, IsInode(x), NEW a \in Nat, NEW b \in Nat, NEW y, Recounted(x, y, a, b)
    PROVE  IsInode(y) /\ y.ref_count = a /\ y.open_count = b
  <1>1. PICK r, o, d, i : x = [ref_count |-> r, open_count |-> o, dirty |-> d, din |-> i]
    BY DEF IsInode
  <1>2. PICK c : y = [ref_count |-> a, open_count |-> b, dirty |-> c, din |-> i]
    <2>1. CASE y = [x EXCEPT !.ref_count = a, !.open_count = b]
      BY <1>1, <2>1
    <2>2. CASE \E c : y = [x EXCEPT !.ref_count = a, !.open_count = b, !.dirty = c]
      BY <1>1, <2>2
    <2>. QED
      BY <2>1, <2>2, Zenon DEF Recounted
  <1>. QED
    BY <1>2 DEF IsInode

\* J is I with another disk inode and dirty flag of one inode: what Leave does.
IsLeft(I, J, n, a, b) == J = [I EXCEPT ![n].din = a, ![n].dirty = b]

\* All counts stay what they are.
LEMMA LeaveCounts ==
    ASSUME NEW I, IsCache(I), NEW n \in DOMAIN I, NEW a, NEW b,
           NEW J, IsLeft(I, J, n, a, b)
    PROVE  /\ IsCache(J)
           /\ \A R, O : Exact(I, R, O) => Exact(J, R, O)
  <1> DEFINE x == I[n]
             y == [x EXCEPT !.din = a]
             z == [y EXCEPT !.dirty = b]
  <1>1. DOMAIN J = DOMAIN I /\ J[n] = z /\ \A m \in DOMAIN I : m # n => J[m] = I[m]
    BY DEF IsLeft
  <1>2. IsInode(x)
    BY DEF IsCache
  <1>. HIDE DEF x
  <1>3. IsInode(y) /\ y.ref_count = x.ref_count /\ y.open_count = x.open_count
    BY <1>2, InodeData
  <1>. HIDE DEF y
  <1>4. IsInode(z) /\ z.ref_count = y.ref_count /\ z.open_count = y.open_count
    BY <1>3, InodeData
  <1>. HIDE DEF z
  <1>5. IsInode(J[n]) /\ J[n].ref_count = I[n].ref_count /\ J[n].open_count = I[n].open_count
    BY <1>1, <1>3, <1>4 DEF x
  <1>6. \A m \in DOMAIN I : IsInode(J[m]) /\ J[m].ref_count = I[m].ref_count /\ J[m].open_count = I[m].open_count
    BY <1>1, <1>5 DEF IsCache
  <1>7. IsCache(J)
    BY <1>1, <1>6 DEF IsCache
  <1>8. ASSUME NEW R, NEW O, Exact(I, R, O) PROVE Exact(J, R, O)
    <2>1. ASSUME NEW m \in NODES
          PROVE  IF R[m] = 0 THEN m \notin DOMAIN J
                 ELSE m \in DOMAIN J /\ J[m].ref_count = R[m] /\ J[m].open_count = O[m]
      BY <1>1, <1>6, <1>8, Zenon DEF Exact
    <2>. QED
      BY <2>1, Zenon DEF Exact
  <1>. QED
    BY <1>7, <1>8

\* References r and opens o more.
LEMMA AcquireExact ==
    ASSUME NEW I, IsCache(I), NEW R \in [NODES -> Nat], NEW O \in [NODES -> Nat], Exact(I, R, O),
           \A n \in NODES : O[n] <= R[n],
           NEW r \in [NODES -> Nat], NEW o \in [NODES -> Nat], \A n \in NODES : o[n] <= r[n],
           NEW R2 \in [NODES -> Nat], NEW O2 \in [NODES -> Nat],
           \A n \in NODES : R2[n] = R[n] + r[n] /\ O2[n] = O[n] + o[n]
    PROVE  IsCache(Acquire(I, r, o)) /\ Exact(Acquire(I, r, o), R2, O2)
  <1> DEFINE J == Acquire(I, r, o)
  <1>1. /\ DOMAIN J = DOMAIN I \cup {m \in NODES : r[m] > 0}
        /\ \A n \in DOMAIN I : J[n] = [I[n] EXCEPT !.ref_count = @ + r[n], !.open_count = @ + o[n]]
        /\ \A n \in NODES \ DOMAIN I : r[n] > 0 => J[n] = Loaded(n, r, o)
    BY Zenon DEF Acquire
  <1>. HIDE DEF J
  <1>2. ASSUME NEW n \in DOMAIN I
        PROVE  IsInode(J[n]) /\ J[n].ref_count = R2[n] /\ J[n].open_count = O2[n]
    <2>1. n \in NODES /\ IsInode(I[n])
      BY <1>2 DEF IsCache
    <2>2. I[n].ref_count = R[n] /\ I[n].open_count = O[n]
      BY <1>2, <2>1, Zenon DEF Exact
    <2>3. r[n] \in Nat /\ o[n] \in Nat
      BY <2>1
    <2>4. J[n] = [I[n] EXCEPT !.ref_count = I[n].ref_count + r[n], !.open_count = I[n].open_count + o[n]]
      BY <1>1, <1>2, Zenon
    <2>5. I[n].ref_count + r[n] \in Nat /\ I[n].open_count + o[n] \in Nat
      BY <2>1, <2>3 DEF IsInode
    <2>6. IsInode(J[n]) /\ J[n].ref_count = I[n].ref_count + r[n] /\ J[n].open_count = I[n].open_count + o[n]
      <3> DEFINE a == I[n].ref_count + r[n]
                 b == I[n].open_count + o[n]
                 x == I[n]
                 y == J[n]
      <3>1. IsInode(x) /\ a \in Nat /\ b \in Nat /\ Recounted(x, y, a, b)
        BY <2>1, <2>4, <2>5 DEF Recounted
      <3>. HIDE DEF a, b, x, y
      <3>2. IsInode(y) /\ y.ref_count = a /\ y.open_count = b
        BY <3>1, InodeCounts
      <3>. QED
        BY <3>2 DEF a, b, x, y
    <2>. QED
      BY <2>1, <2>2, <2>6
  <1>3. ASSUME NEW n \in NODES, n \notin DOMAIN I, r[n] > 0
        PROVE  IsInode(J[n]) /\ J[n].ref_count = R2[n] /\ J[n].open_count = O2[n]
    <2>1. R[n] = 0
      BY <1>3, Zenon DEF Exact
    <2>2. O[n] = 0
      BY <2>1
    <2>3. J[n] = Loaded(n, r, o) /\ r[n] \in Nat /\ o[n] \in Nat
      BY <1>1, <1>3, Zenon
    <2>4. IsInode(J[n]) /\ J[n].ref_count = r[n] /\ J[n].open_count = o[n]
      BY <2>3 DEF Loaded, IsInode
    <2>. QED
      BY <2>1, <2>2, <2>3, <2>4
  <1>4. DOMAIN J \subseteq NODES
    BY <1>1, Zenon DEF IsCache
  <1>5. IsCache(J)
    BY <1>1, <1>2, <1>3, <1>4, Zenon DEF IsCache
  <1>6. ASSUME NEW n \in NODES
        PROVE  IF R2[n] = 0 THEN n \notin DOMAIN J
               ELSE n \in DOMAIN J /\ J[n].ref_count = R2[n] /\ J[n].open_count = O2[n]
    <2>1. R[n] \in Nat /\ r[n] \in Nat /\ R2[n] = R[n] + r[n]
      OBVIOUS
    <2>2. n \in DOMAIN J <=> n \in DOMAIN I \/ r[n] > 0
      BY <1>1, Zenon
    <2>3. n \in DOMAIN I <=> R[n] # 0
      BY Zenon DEF Exact
    <2>4. n \in DOMAIN J <=> R2[n] # 0
      BY <2>1, <2>2, <2>3
    <2>. QED
      BY <1>2, <1>3, <2>2, <2>4
  <1>7. Exact(J, R2, O2)
    BY <1>6 DEF Exact
  <1>. QED
    BY <1>5, <1>7 DEF J

\* What is left in memory by Release.
Kept(I, D, r, o) ==
    [n \in DOMAIN I \ LastRef(I, r) |->
        [I[n] EXCEPT !.ref_count = @ - r[n], !.open_count = @ - o[n],
                     !.dirty = @ /\ n \notin Written(I, D, r, o)]]

\* References r and opens o less.
LEMMA ReleaseExact ==
    ASSUME NEW I, IsCache(I), NEW R \in [NODES -> Nat], NEW O \in [NODES -> Nat], Exact(I, R, O),
           NEW r \in [NODES -> Nat], NEW o \in [NODES -> Nat],
           \A n \in NODES : r[n] <= R[n] /\ o[n] <= O[n],
           NEW R2 \in [NODES -> Nat], NEW O2 \in [NODES -> Nat],
           \A n \in NODES : R2[n] = R[n] - r[n] /\ O2[n] = O[n] - o[n],
           NEW D
    PROVE  IsCache(Kept(I, D, r, o)) /\ Exact(Kept(I, D, r, o), R2, O2)
  <1> DEFINE J == Kept(I, D, r, o)
  <1>1. /\ DOMAIN J = DOMAIN I \ LastRef(I, r)
        /\ \A n \in DOMAIN J : J[n] = [I[n] EXCEPT !.ref_count = @ - r[n], !.open_count = @ - o[n],
                                                   !.dirty = @ /\ n \notin Written(I, D, r, o)]
    BY DEF Kept
  <1>2. ASSUME NEW n \in DOMAIN I
        PROVE  /\ n \in NODES /\ IsInode(I[n]) /\ R[n] # 0
               /\ I[n].ref_count = R[n] /\ I[n].open_count = O[n]
               /\ R[n] \in Nat /\ r[n] \in Nat /\ O[n] \in Nat /\ o[n] \in Nat
               /\ r[n] <= R[n] /\ o[n] <= O[n]
               /\ n \in LastRef(I, r) <=> r[n] > 0 /\ R[n] = r[n]
    <2>1. n \in NODES /\ IsInode(I[n])
      BY <1>2 DEF IsCache
    <2>2. R[n] # 0 /\ I[n].ref_count = R[n] /\ I[n].open_count = O[n]
      BY <1>2, <2>1, Zenon DEF Exact
    <2>. QED
      BY <1>2, <2>1, <2>2 DEF LastRef
  <1>. HIDE DEF J
  <1>3. ASSUME NEW n \in DOMAIN J
        PROVE  IsInode(J[n]) /\ J[n].ref_count = R2[n] /\ J[n].open_count = O2[n]
    <2>1. n \in DOMAIN I
      BY <1>1, <1>3, Zenon
    <2>2. /\ n \in NODES /\ IsInode(I[n])
          /\ I[n].ref_count = R[n] /\ I[n].open_count = O[n]
          /\ R[n] - r[n] \in Nat /\ O[n] - o[n] \in Nat
      BY <1>2, <2>1
    <2>3. \E c : J[n] = [I[n] EXCEPT !.ref_count = R[n] - r[n], !.open_count = O[n] - o[n], !.dirty = c]
      <3> DEFINE x == I[n]
                 c == x.dirty /\ n \notin Written(I, D, r, o)
      <3>1. J[n] = [x EXCEPT !.ref_count = x.ref_count - r[n], !.open_count = x.open_count - o[n], !.dirty = c]
        BY <1>1, <1>3, Zenon
      <3>2. x.ref_count = R[n] /\ x.open_count = O[n]
        BY <2>2
      <3>. HIDE DEF x, c
      <3>3. J[n] = [x EXCEPT !.ref_count = R[n] - r[n], !.open_count = O[n] - o[n], !.dirty = c]
        BY <3>1, <3>2
      <3>. QED
        BY <3>3, Zenon DEF x
    <2>4. IsInode(J[n]) /\ J[n].ref_count = R[n] - r[n] /\ J[n].open_count = O[n] - o[n]
      <3> DEFINE a == R[n] - r[n]
                 b == O[n] - o[n]
      <3>1. a \in Nat /\ b \in Nat /\ Recounted(I[n], J[n], a, b)
        BY <2>2, <2>3, Zenon DEF Recounted
      <3>. HIDE DEF a, b
      <3>2. IsInode(J[n]) /\ J[n].ref_count = a /\ J[n].open_count = b
        BY <2>2, <3>1, InodeCounts
      <3>. QED
        BY <3>2 DEF a, b
    <2>. QED
      BY <2>2, <2>4
  <1>4. IsCache(J)
    BY <1>1, <1>2, <1>3, Zenon DEF IsCache
  <1>5. ASSUME NEW n \in NODES
        PROVE  IF R2[n] = 0 THEN n \notin DOMAIN J
               ELSE n \in DOMAIN J /\ J[n].ref_count = R2[n] /\ J[n].open_count = O2[n]
    <2>1. R[n] \in Nat /\ r[n] \in Nat /\ R2[n] = R[n] - r[n] /\ r[n] <= R[n]
      OBVIOUS
    <2>2. n \in DOMAIN I <=> R[n] # 0
      BY Zenon DEF Exact
    <2>3. n \in DOMAIN J <=> n \in DOMAIN I /\ ~(r[n] > 0 /\ R[n] = r[n])
      BY <1>1, <1>2, Zenon
    <2>4. R2[n] = 0 <=> R[n] = 0 \/ (r[n] > 0 /\ R[n] = r[n])
      <3> DEFINE a == R[n]
                 b == r[n]
                 c == R2[n]
      <3>1. a \in Nat /\ b \in Nat /\ c = a - b /\ b <= a
        BY <2>1
      <3>. HIDE DEF a, b, c
      <3>2. c = 0 <=> a = 0 \/ (b > 0 /\ a = b)
        BY <3>1
      <3>. QED
        BY <3>2 DEF a, b, c
    <2>5. n \in DOMAIN J <=> R2[n] # 0
      BY <2>2, <2>3, <2>4, Zenon
    <2>. QED
      BY <1>3, <2>5
  <1>6. Exact(J, R2, O2)
    BY <1>5 DEF Exact
  <1>. QED
    BY <1>4, <1>6 DEF J

-----------------------------------------------------------------------------
(* Tables and inodes together.                                              *)

RefsIn(F, L) == [n \in NODES |-> CwdCount(F, n) + HolderCount(F, n) + (IF n = ROOT THEN 1 ELSE 0) + L[n]]
OpensIn(F) == [n \in NODES |-> HolderCount(F, n)]

\* The inodes I in memory have the counts that the tables F, and the lost
\* references L, ask for.
Sound(F, I, L) ==
    /\ IsTables(F) /\ IsCache(I) /\ L \in [NODES -> Nat]
    /\ Exact(I, RefsIn(F, L), OpensIn(F))

\* The counts are natural numbers, and there are as many references as opens.
LEMMA CountsType ==
    ASSUME NEW F, IsTables(F), NEW L \in [NODES -> Nat]
    PROVE  /\ RefsIn(F, L) \in [NODES -> Nat] /\ OpensIn(F) \in [NODES -> Nat]
           /\ \A n \in NODES :
                /\ RefsIn(F, L)[n] = CwdCount(F, n) + HolderCount(F, n) + (IF n = ROOT THEN 1 ELSE 0) + L[n]
                /\ OpensIn(F)[n] = HolderCount(F, n)
                /\ OpensIn(F)[n] <= RefsIn(F, L)[n]
                /\ CwdCount(F, n) \in Nat /\ HolderCount(F, n) \in Nat
  <1>1. \A n \in NODES : CwdCount(F, n) \in Nat /\ HolderCount(F, n) \in Nat /\ L[n] \in Nat
    BY TablesFinite DEF CwdCount, HolderCount
  <1>. QED
    BY <1>1 DEF RefsIn, OpensIn

\* What a call adds to the tables is what it takes of the inodes.
LEMMA SoundAcquire ==
    ASSUME NEW F, NEW I, NEW L, Sound(F, I, L),
           NEW r \in [NODES -> Nat], NEW o \in [NODES -> Nat], \A n \in NODES : o[n] <= r[n],
           NEW G, IsTables(G), NEW K \in [NODES -> Nat],
           \A n \in NODES : /\ RefsIn(G, K)[n] = RefsIn(F, L)[n] + r[n]
                            /\ OpensIn(G)[n] = OpensIn(F)[n] + o[n]
    PROVE  Sound(G, Acquire(I, r, o), K)
  <1> DEFINE R == RefsIn(F, L)
             O == OpensIn(F)
             R2 == RefsIn(G, K)
             O2 == OpensIn(G)
  <1>1. /\ IsCache(I) /\ Exact(I, R, O)
        /\ R \in [NODES -> Nat] /\ O \in [NODES -> Nat] /\ \A n \in NODES : O[n] <= R[n]
    BY CountsType DEF Sound
  <1>2. R2 \in [NODES -> Nat] /\ O2 \in [NODES -> Nat]
    BY CountsType
  <1>3. \A n \in NODES : R2[n] = R[n] + r[n] /\ O2[n] = O[n] + o[n]
    OBVIOUS
  <1>. HIDE DEF R, O, R2, O2
  <1>4. IsCache(Acquire(I, r, o)) /\ Exact(Acquire(I, r, o), R2, O2)
    BY <1>1, <1>2, <1>3, AcquireExact, Zenon
  <1>. QED
    BY <1>4 DEF Sound, R2, O2

\* What it takes off the tables is what it gives back.
LEMMA SoundRelease ==
    ASSUME NEW F, NEW I, NEW L, Sound(F, I, L),
           NEW r \in [NODES -> Nat], NEW o \in [NODES -> Nat],
           \A n \in NODES : r[n] <= RefsIn(F, L)[n] /\ o[n] <= OpensIn(F)[n],
           NEW G, IsTables(G), NEW K \in [NODES -> Nat],
           \A n \in NODES : /\ RefsIn(G, K)[n] = RefsIn(F, L)[n] - r[n]
                            /\ OpensIn(G)[n] = OpensIn(F)[n] - o[n],
           NEW D
    PROVE  Sound(G, Kept(I, D, r, o), K)
  <1> DEFINE R == RefsIn(F, L)
             O == OpensIn(F)
             R2 == RefsIn(G, K)
             O2 == OpensIn(G)
  <1>1. /\ IsCache(I) /\ Exact(I, R, O)
        /\ R \in [NODES -> Nat] /\ O \in [NODES -> Nat]
    BY CountsType DEF Sound
  <1>2. R2 \in [NODES -> Nat] /\ O2 \in [NODES -> Nat]
    BY CountsType
  <1>3. \A n \in NODES : R2[n] = R[n] - r[n] /\ O2[n] = O[n] - o[n]
    OBVIOUS
  <1>4. \A n \in NODES : r[n] <= R[n] /\ o[n] <= O[n]
    OBVIOUS
  <1>. HIDE DEF R, O, R2, O2
  <1>5. IsCache(Kept(I, D, r, o)) /\ Exact(Kept(I, D, r, o), R2, O2)
    BY <1>1, <1>2, <1>3, <1>4, ReleaseExact, Zenon
  <1>. QED
    BY <1>5 DEF Sound, R2, O2

\* Tables with the same counts.
LEMMA SoundTables ==
    ASSUME NEW F, NEW I, NEW L, Sound(F, I, L), NEW G, IsTables(G),
           \A n : CwdCount(G, n) = CwdCount(F, n) /\ HolderCount(G, n) = HolderCount(F, n)
    PROVE  Sound(G, I, L)
  <1>1. RefsIn(G, L) = RefsIn(F, L) /\ OpensIn(G) = OpensIn(F)
    BY Zenon DEF RefsIn, OpensIn
  <1>. QED
    BY <1>1, Zenon DEF Sound

\* Another content of an inode.
LEMMA SoundLeave ==
    ASSUME NEW F, NEW I, NEW L, Sound(F, I, L), NEW n \in DOMAIN I, NEW a, NEW b,
           NEW J, IsLeft(I, J, n, a, b)
    PROVE  Sound(F, J, L)
  <1>1. IsCache(J) /\ \A R, O : Exact(I, R, O) => Exact(J, R, O)
    BY LeaveCounts, Zenon DEF Sound
  <1>. QED
    BY <1>1, Zenon DEF Sound

\* One more lost reference.
LEMMA SoundLost ==
    ASSUME NEW F, NEW I, NEW L, Sound(F, I, L), NEW n \in NODES
    PROVE  /\ [L EXCEPT ![n] = @ + 1] \in [NODES -> Nat]
           /\ Sound(F, Acquire(I, One(n), Zero), [L EXCEPT ![n] = @ + 1])
  <1> DEFINE K == [L EXCEPT ![n] = @ + 1]
  <1>1. L \in [NODES -> Nat] /\ IsTables(F)
    BY DEF Sound
  <1>2. K \in [NODES -> Nat] /\ \A m \in NODES : K[m] = L[m] + One(n)[m]
    BY <1>1 DEF One
  <1>3. /\ One(n) \in [NODES -> Nat] /\ Zero \in [NODES -> Nat]
        /\ \A m \in NODES : Zero[m] <= One(n)[m] /\ Zero[m] = 0
    BY DEF One, Zero
  <1>. HIDE DEF K
  <1>4. ASSUME NEW m \in NODES
        PROVE  /\ RefsIn(F, K)[m] = RefsIn(F, L)[m] + One(n)[m]
               /\ OpensIn(F)[m] = OpensIn(F)[m] + Zero[m]
    <2>1. /\ RefsIn(F, L)[m] = CwdCount(F, m) + HolderCount(F, m) + (IF m = ROOT THEN 1 ELSE 0) + L[m]
          /\ RefsIn(F, K)[m] = CwdCount(F, m) + HolderCount(F, m) + (IF m = ROOT THEN 1 ELSE 0) + K[m]
          /\ OpensIn(F)[m] = HolderCount(F, m)
          /\ CwdCount(F, m) \in Nat /\ HolderCount(F, m) \in Nat
      BY <1>1, <1>2, CountsType
    <2>2. K[m] = L[m] + One(n)[m] /\ L[m] \in Nat /\ One(n)[m] \in Nat /\ Zero[m] = 0
      BY <1>1, <1>2, <1>3
    <2>. QED
      BY <2>1, <2>2
  <1>5. Sound(F, Acquire(I, One(n), Zero), K)
    BY <1>1, <1>2, <1>3, <1>4, SoundAcquire
  <1>. QED
    BY <1>2, <1>5 DEF K

\* It is given back.
LEMMA SoundFound ==
    ASSUME NEW F, NEW I, NEW L \in [NODES -> Nat], NEW n \in NODES, Sound(F, I, [L EXCEPT ![n] = @ + 1]), NEW D
    PROVE  Sound(F, Kept(I, D, One(n), Zero), L)
  <1> DEFINE K == [L EXCEPT ![n] = @ + 1]
  <1>1. K \in [NODES -> Nat] /\ IsTables(F)
    BY DEF Sound
  <1>2. \A m \in NODES : K[m] = L[m] + One(n)[m]
    BY DEF One
  <1>3. /\ One(n) \in [NODES -> Nat] /\ Zero \in [NODES -> Nat]
        /\ \A m \in NODES : Zero[m] = 0
    BY DEF One, Zero
  <1>. HIDE DEF K
  <1>4. ASSUME NEW m \in NODES
        PROVE  /\ RefsIn(F, L)[m] = RefsIn(F, K)[m] - One(n)[m]
               /\ OpensIn(F)[m] = OpensIn(F)[m] - Zero[m]
               /\ One(n)[m] <= RefsIn(F, K)[m] /\ Zero[m] <= OpensIn(F)[m]
    <2>1. /\ RefsIn(F, L)[m] = CwdCount(F, m) + HolderCount(F, m) + (IF m = ROOT THEN 1 ELSE 0) + L[m]
          /\ RefsIn(F, K)[m] = CwdCount(F, m) + HolderCount(F, m) + (IF m = ROOT THEN 1 ELSE 0) + K[m]
          /\ OpensIn(F)[m] = HolderCount(F, m)
          /\ CwdCount(F, m) \in Nat /\ HolderCount(F, m) \in Nat
      BY <1>1, CountsType
    <2>2. K[m] = L[m] + One(n)[m] /\ L[m] \in Nat /\ One(n)[m] \in Nat /\ Zero[m] = 0
      BY <1>2, <1>3
    <2>. QED
      BY <2>1, <2>2
  <1>5. Sound(F, I, K)
    BY DEF K
  <1>6. Sound(F, Kept(I, D, One(n), Zero), L)
    BY <1>1, <1>3, <1>4, <1>5, SoundRelease
  <1>. QED
    BY <1>6

\* An inode that a descriptor is on is in memory.
LEMMA InMemory ==
    ASSUME NEW F, NEW I, NEW L, Sound(F, I, L), NEW p \in DOMAIN F, NEW i \in DOMAIN F[p].fd,
           NEW n, n = F[p].fd[i].node
    PROVE  n \in NODES /\ n \in DOMAIN I /\ HolderCount(F, n) >= 1
  <1>1. IsTables(F) /\ L \in [NODES -> Nat]
    BY DEF Sound
  <1>2. n \in NODES /\ i \in FDS
    BY <1>1 DEF IsTables, IsOpenFile
  <1>3. HoldersIn(F, n) # {}
    <2>1. <<p, i>> \in Descs(F) /\ <<p, i>>[1] = p /\ <<p, i>>[2] = i
      BY <1>2, DescsPairs
    <2> DEFINE d == <<p, i>>
    <2>2. d \in Descs(F) /\ d[1] = p /\ d[2] = i
      BY <2>1
    <2>. HIDE DEF d
    <2>3. d \in HoldersIn(F, n)
      BY <2>2, Holder, Zenon DEF IsOn
    <2>. QED
      BY <2>3
  <1>4. IsFiniteSet(HoldersIn(F, n)) /\ HolderCount(F, n) \in Nat
    BY <1>1, TablesFinite DEF HolderCount
  <1>5. HolderCount(F, n) >= 1
    BY <1>3, <1>4, FS_EmptySet DEF HolderCount
  <1>6. RefsIn(F, L)[n] # 0
    <2>1. OpensIn(F)[n] = HolderCount(F, n) /\ OpensIn(F)[n] <= RefsIn(F, L)[n] /\ RefsIn(F, L)[n] \in Nat
      BY <1>1, <1>2, CountsType
    <2>. QED
      BY <1>4, <1>5, <2>1
  <1>7. n \in DOMAIN I
    BY <1>2, <1>6, Zenon DEF Sound, Exact
  <1>. QED
    BY <1>2, <1>5, <1>7

-----------------------------------------------------------------------------
(* The state.                                                               *)

FilesSound == Sound(files, inode, lost)

IInv == panicked = "" => FilesSound

\* The counts of the properties are those of the tables.
LEMMA CountsAre ==
    /\ \A n : Opens(n) = HolderCount(files, n)
    /\ \A n \in NODES : Refs(n) = RefsIn(files, lost)[n] /\ Opens(n) = OpensIn(files)[n]
  <1>1. ASSUME NEW n PROVE Holders(n) = HoldersIn(files, n)
    <2>1. \A d \in Descs(files) : d[1] \in Alive /\ (d[2] \in Opened(d[1]) <=> d[2] \in DOMAIN files[d[1]].fd)
      BY DescsPairs, Zenon DEF Opened, Alive
    <2>2. Alive \X FDS = Descs(files)
      BY DEF Alive, Descs
    <2>. QED
      BY <2>1, <2>2, Zenon DEF Holders, HoldersIn, IsOn
  <1>2. \A n : {p \in Alive : files[p].pwd = n} = Cwds(files, n)
    BY Zenon DEF Alive, Cwds
  <1>. QED
    BY <1>1, <1>2, Zenon DEF Opens, Refs, RefsIn, OpensIn, HolderCount, CwdCount

\* What CountsExact says is part of it.
LEMMA IInvCounts == IInv => CountsExact
  <1> SUFFICES ASSUME IInv, panicked = "", NEW n \in NODES
               PROVE  IF Refs(n) = 0 THEN n \notin DOMAIN inode
                      ELSE n \in DOMAIN inode /\ inode[n].ref_count = Refs(n) /\ inode[n].open_count = Opens(n)
    BY Zenon DEF CountsExact
  <1>1. Exact(inode, RefsIn(files, lost), OpensIn(files))
    BY Zenon DEF IInv, FilesSound, Sound
  <1>. QED
    BY <1>1, CountsAre, Zenon DEF Exact

\* One descriptor of p counts once.
LEMMA OneDescriptor ==
    ASSUME NEW F, NEW p \in DOMAIN F, NEW i \in DOMAIN F[p].fd, NEW n
    PROVE  MineCount(F, p, {i}, n) = IF n = F[p].fd[i].node THEN 1 ELSE 0
  <1>1. CASE n = F[p].fd[i].node
    <2>1. Mine(F, p, {i}, n) = {i}
      BY <1>1 DEF Mine
    <2>. QED
      BY <1>1, <2>1, FS_Singleton DEF MineCount
  <1>2. CASE n # F[p].fd[i].node
    <2>1. Mine(F, p, {i}, n) = {}
      BY <1>2 DEF Mine
    <2>. QED
      BY <1>2, <2>1, FS_EmptySet DEF MineCount
  <1>. QED
    BY <1>1, <1>2

\* A set of natural numbers has a least member.
LEMMA NatMin ==
    ASSUME NEW T \in SUBSET Nat, T # {}
    PROVE  \E m \in T : \A k \in T : m <= k
  <1> DEFINE R == OpToRel(<, Nat)
  <1>1. IsWellFoundedOn(R, Nat)
    BY NatLessThanWellFounded, Zenon
  <1>2. \A x, y \in Nat : x < y => <<x, y>> \in R
    BY DEF OpToRel
  <1>3. PICK m \in T : \A k \in T : ~(<<k, m>> \in R)
    BY <1>1, WFMin, Zenon
  <1>. HIDE DEF R
  <1>4. ASSUME NEW k \in T PROVE m <= k
    <2>1. k \in Nat /\ m \in Nat /\ ~(k < m)
      BY <1>2, <1>3
    <2>. QED
      BY <2>1, SMT
  <1>. QED
    BY <1>4

\* The lowest free descriptor is free.
LEMMA ChosenFree ==
    ASSUME NEW p, Free(p) # {}
    PROVE  (CHOOSE i \in Free(p) : \A j \in Free(p) : i <= j) \in Free(p)
  <1>1. Free(p) \in SUBSET Nat
    BY FilesAssumption DEF Free, FDS
  <1>2. \E i \in Free(p) : \A j \in Free(p) : i <= j
    BY <1>1, NatMin
  <1>. QED
    BY <1>2

\* Where the machine stops, nothing else happens.
LEMMA HaltSound ==
    ASSUME FilesSound, NEW where, Halt(where)
    PROVE  FilesSound'
  <1>1. files' = files /\ inode' = inode /\ lost' = lost
    BY DEF Halt
  <1>. QED
    BY <1>1, Zenon DEF FilesSound

\* Release keeps what Kept says.
LEMMA ReleaseKept ==
    ASSUME NEW I, NEW D, NEW r, NEW o, Release(I, D, r, o)
    PROVE  inode' = Kept(I, D, r, o)
  BY Zenon DEF Release, Kept

\* The values of One and Zero.
LEMMA OneTypes ==
    ASSUME NEW n \in NODES
    PROVE  /\ One(n) \in [NODES -> Nat] /\ Zero \in [NODES -> Nat]
           /\ \A m \in NODES : One(n)[m] = (IF m = n THEN 1 ELSE 0) /\ Zero[m] = 0
  BY DEF One, Zero

\* OpensOf counts the descriptors of a process on each inode.
LEMMA OpensOfCounts ==
    ASSUME NEW p \in Alive, IsTables(files), NEW S
    PROVE  /\ OpensOf(p, S) \in [NODES -> Nat]
           /\ \A n \in NODES : OpensOf(p, S)[n] = MineCount(files, p, S, n) /\ MineCount(files, p, S, n) \in Nat
  <1>1. p \in DOMAIN files /\ Opened(p) = DOMAIN files[p].fd
    BY DEF Alive, Opened
  <1>2. \A n : {fd \in S \cap Opened(p) : files[p].fd[fd].node = n} = Mine(files, p, S, n)
    BY <1>1, Zenon DEF Mine
  <1>3. \A n : MineCount(files, p, S, n) \in Nat
    BY <1>1, TablesFinite DEF MineCount
  <1>4. OpensOf(p, S) = [n \in NODES |-> MineCount(files, p, S, n)]
    BY <1>2, Zenon DEF OpensOf, MineCount
  <1>. QED
    BY <1>3, <1>4

-----------------------------------------------------------------------------
(* The calls.                                                               *)

\* Descriptor fd of p is opened on n, when nothing else refers to it through p.
LEMMA OpenedSound ==
    ASSUME NEW F, NEW I, NEW L, Sound(F, I, L), NEW p \in DOMAIN F, NEW fd \in FDS, fd \notin DOMAIN F[p].fd,
           NEW n \in NODES, NEW e, IsOpenFile(e), e.node = n, NEW G, IsPut(F, G, p, fd, e)
    PROVE  Sound(G, Acquire(I, One(n), One(n)), L) /\ n \in DOMAIN Acquire(I, One(n), One(n))
  <1>1. IsTables(F) /\ L \in [NODES -> Nat]
    BY DEF Sound
  <1>2. /\ IsTables(G)
        /\ \A m : CwdCount(G, m) = CwdCount(F, m)
        /\ \A m : HolderCount(G, m) = HolderCount(F, m) + (IF m = n THEN 1 ELSE 0)
    BY <1>1, PutNew DEF CwdCount
  <1>3. One(n) \in [NODES -> Nat] /\ \A m \in NODES : One(n)[m] = IF m = n THEN 1 ELSE 0
    BY OneTypes
  <1>4. ASSUME NEW m \in NODES
        PROVE  /\ RefsIn(G, L)[m] = RefsIn(F, L)[m] + One(n)[m]
               /\ OpensIn(G)[m] = OpensIn(F)[m] + One(n)[m]
    <2>1. /\ RefsIn(F, L)[m] = CwdCount(F, m) + HolderCount(F, m) + (IF m = ROOT THEN 1 ELSE 0) + L[m]
          /\ OpensIn(F)[m] = HolderCount(F, m)
          /\ CwdCount(F, m) \in Nat /\ HolderCount(F, m) \in Nat
      BY <1>1, CountsType
    <2>2. /\ RefsIn(G, L)[m] = CwdCount(G, m) + HolderCount(G, m) + (IF m = ROOT THEN 1 ELSE 0) + L[m]
          /\ OpensIn(G)[m] = HolderCount(G, m)
      BY <1>1, <1>2, CountsType
    <2>3. L[m] \in Nat
      BY <1>1
    <2>. QED
      BY <1>2, <1>3, <2>1, <2>2, <2>3
  <1>5. Sound(G, Acquire(I, One(n), One(n)), L)
    BY <1>1, <1>2, <1>3, <1>4, SoundAcquire
  <1>6. n \in DOMAIN Acquire(I, One(n), One(n))
    BY <1>3 DEF Acquire
  <1>. QED
    BY <1>5, <1>6

\* Descriptors S of p are closed, each of which gives back a reference and an open.
LEMMA ClosedSound ==
    ASSUME NEW F, NEW I, NEW L, Sound(F, I, L), NEW p \in DOMAIN F, NEW S,
           NEW o \in [NODES -> Nat], \A n \in NODES : o[n] = MineCount(F, p, S, n),
           NEW G, IsDrop(F, G, p, S), NEW D
    PROVE  Sound(G, Kept(I, D, o, o), L)
  <1>1. IsTables(F) /\ L \in [NODES -> Nat]
    BY DEF Sound
  <1>2. /\ IsTables(G)
        /\ \A m : CwdCount(G, m) = CwdCount(F, m)
        /\ \A m : /\ HolderCount(G, m) = HolderCount(F, m) - MineCount(F, p, S, m)
                  /\ MineCount(F, p, S, m) <= HolderCount(F, m)
    BY <1>1, DropCounts DEF CwdCount
  <1>3. ASSUME NEW m \in NODES
        PROVE  /\ RefsIn(G, L)[m] = RefsIn(F, L)[m] - o[m] /\ OpensIn(G)[m] = OpensIn(F)[m] - o[m]
               /\ o[m] <= RefsIn(F, L)[m] /\ o[m] <= OpensIn(F)[m]
    <2>1. /\ RefsIn(F, L)[m] = CwdCount(F, m) + HolderCount(F, m) + (IF m = ROOT THEN 1 ELSE 0) + L[m]
          /\ OpensIn(F)[m] = HolderCount(F, m)
          /\ CwdCount(F, m) \in Nat /\ HolderCount(F, m) \in Nat
      BY <1>1, CountsType
    <2>2. /\ RefsIn(G, L)[m] = CwdCount(G, m) + HolderCount(G, m) + (IF m = ROOT THEN 1 ELSE 0) + L[m]
          /\ OpensIn(G)[m] = HolderCount(G, m)
      BY <1>1, <1>2, CountsType
    <2>3. L[m] \in Nat /\ o[m] \in Nat /\ o[m] = MineCount(F, p, S, m)
      BY <1>1
    <2>. QED
      BY <1>2, <2>1, <2>2, <2>3
  <1>. QED
    BY <1>1, <1>2, <1>3, SoundRelease

\* file_open: in all its branches the counts agree with the tables, and with lost.
LEMMA OpenSound ==
    ASSUME FilesSound, NEW p \in PROCS, NEW n \in NODES, NEW fl \in FLAGS, Open(p, n, fl)
    PROVE  FilesSound'
  <1> DEFINE fd == CHOOSE i \in Free(p) : \A j \in Free(p) : i <= j
             looked_up == Acquire(inode, One(n), Zero)
             opened == Acquire(inode, One(n), One(n))
             s == Truncated(n, opened, fl)
             e == [node |-> n, pos |-> IF fl.append THEN s.din.size ELSE 0,
                   readable |-> fl.acc # "wronly", writable |-> fl.acc # "rdonly"]
             K == [lost EXCEPT ![n] = @ + 1]
  <1>1. p \in Alive /\ Free(p) # {}
    BY Zenon DEF Open
  <1>2. lost \in [NODES -> Nat]
    BY DEF FilesSound, Sound
  <1>3. Sound(files, looked_up, K)
    BY SoundLost DEF FilesSound
  <1>4. \/ inode' = looked_up /\ lost' = K /\ files' = files
        \/ \E where : Halt(where)
        \/ Release(looked_up, disk, One(n), Zero) /\ files' = files /\ lost' = lost
        \/ Leave(n, opened, s) /\ Put(p, fd, e) /\ lost' = lost
    BY Zenon DEF Open
  <1>5. CASE inode' = looked_up /\ lost' = K /\ files' = files
    BY <1>3, <1>5, Zenon DEF FilesSound
  <1>6. CASE \E where : Halt(where)
    BY <1>6, HaltSound
  <1>7. CASE Release(looked_up, disk, One(n), Zero) /\ files' = files /\ lost' = lost
    <2>1. inode' = Kept(looked_up, disk, One(n), Zero)
      BY <1>7, ReleaseKept
    <2>. HIDE DEF looked_up
    <2>2. Sound(files, Kept(looked_up, disk, One(n), Zero), lost)
      BY <1>2, <1>3, SoundFound
    <2>. QED
      BY <1>7, <2>1, <2>2, Zenon DEF FilesSound
  <1>8. CASE Leave(n, opened, s) /\ Put(p, fd, e) /\ lost' = lost
    <2>1. fd \in Free(p)
      BY <1>1, ChosenFree
    <2>2. IsOpenFile(e) /\ e.node = n
      BY DEF IsOpenFile
    <2>. HIDE DEF fd, e
    <2>3. p \in DOMAIN files /\ fd \in FDS /\ fd \notin DOMAIN files[p].fd /\ Opened(p) = DOMAIN files[p].fd
      BY <1>1, <2>1 DEF Free, Opened, Alive
    <2>4. IsPut(files, files', p, fd, e)
      BY <1>8, <2>3 DEF Put, IsPut
    <2>5. Sound(files', opened, lost) /\ n \in DOMAIN opened
      BY <2>2, <2>3, <2>4, OpenedSound DEF FilesSound
    <2>. HIDE DEF opened, s
    <2>6. IsLeft(opened, inode', n, s.din, s.dirty)
      BY <1>8, Zenon DEF Leave, IsLeft
    <2>7. Sound(files', inode', lost)
      BY <2>5, <2>6, SoundLeave
    <2>. QED
      BY <1>8, <2>7, Zenon DEF FilesSound
  <1>. QED
    BY <1>4, <1>5, <1>6, <1>7, <1>8

\* file_close.
LEMMA CloseSound ==
    ASSUME FilesSound, NEW p \in PROCS, NEW fd, Close(p, fd)
    PROVE  FilesSound'
  <1> DEFINE n == files[p].fd[fd].node
  <1>1. p \in DOMAIN files /\ fd \in DOMAIN files[p].fd /\ Opened(p) = DOMAIN files[p].fd
    BY DEF Close, Opened, Alive
  <1>2. IsTables(files)
    BY DEF FilesSound, Sound
  <1>3. n \in NODES
    BY <1>1, <1>2 DEF IsTables, IsOpenFile
  <1>4. \/ \E where : Halt(where)
        \/ Release(inode, disk, One(n), One(n)) /\ Drop(p, {fd}) /\ lost' = lost
    BY Zenon DEF Close
  <1>5. CASE Release(inode, disk, One(n), One(n)) /\ Drop(p, {fd}) /\ lost' = lost
    <2>1. inode' = Kept(inode, disk, One(n), One(n))
      BY <1>5, ReleaseKept
    <2>2. IsDrop(files, files', p, {fd})
      BY <1>1, <1>5 DEF Drop, IsDrop
    <2>3. One(n) \in [NODES -> Nat] /\ \A m \in NODES : One(n)[m] = MineCount(files, p, {fd}, m)
      <3>1. \A m : MineCount(files, p, {fd}, m) = IF m = n THEN 1 ELSE 0
        BY <1>1, OneDescriptor
      <3>. HIDE DEF n
      <3>. QED
        BY <1>3, <3>1, OneTypes
    <2>. HIDE DEF n
    <2>4. Sound(files', Kept(inode, disk, One(n), One(n)), lost)
      BY <1>1, <2>2, <2>3, ClosedSound DEF FilesSound
    <2>. QED
      BY <1>5, <2>1, <2>4, Zenon DEF FilesSound
  <1>. QED
    BY <1>4, <1>5, HaltSound

\* file_dup.
LEMMA DupSound ==
    ASSUME FilesSound, NEW p \in PROCS, NEW from, NEW to, Dup(p, from, to)
    PROVE  FilesSound'
  <1> DEFINE e == files[p].fd[from]
             n == e.node
  <1>1. /\ p \in DOMAIN files /\ from \in DOMAIN files[p].fd /\ Opened(p) = DOMAIN files[p].fd
        /\ to \in FDS /\ to \notin DOMAIN files[p].fd
    BY DEF Dup, Free, Opened, Alive
  <1>2. IsTables(files)
    BY DEF FilesSound, Sound
  <1>3. IsOpenFile(e) /\ n \in NODES
    BY <1>1, <1>2 DEF IsTables, IsOpenFile
  <1>4. inode' = Acquire(inode, One(n), One(n)) /\ Put(p, to, e) /\ lost' = lost
    BY Zenon DEF Dup
  <1>5. IsPut(files, files', p, to, e)
    BY <1>1, <1>4 DEF Put, IsPut
  <1>. HIDE DEF e
  <1>6. Sound(files', Acquire(inode, One(n), One(n)), lost)
    BY <1>1, <1>3, <1>5, OpenedSound DEF FilesSound
  <1>. QED
    BY <1>4, <1>6, Zenon DEF FilesSound

\* A transfer or a seek: another content, another position, the same inode.
LEMMA StaysSound ==
    ASSUME FilesSound, NEW p \in PROCS, NEW fd, NEW n, Call(p, fd, n), NEW s, Leave(n, inode, s),
           NEW pos, Put(p, fd, [files[p].fd[fd] EXCEPT !.pos = pos]), lost' = lost
    PROVE  FilesSound'
  <1> DEFINE x == files[p].fd[fd]
             e == [x EXCEPT !.pos = pos]
  <1>1. /\ p \in DOMAIN files /\ fd \in DOMAIN files[p].fd /\ Opened(p) = DOMAIN files[p].fd
        /\ n = x.node
    BY DEF Call, Opened, Alive
  <1>2. IsTables(files)
    BY DEF FilesSound, Sound
  <1>3. IsOpenFile(x)
    BY <1>1, <1>2 DEF IsTables
  <1>4. IsPut(files, files', p, fd, e)
    BY <1>1 DEF Put, IsPut
  <1>5. n \in DOMAIN inode
    BY <1>1, InMemory DEF FilesSound
  <1>6. IsOpenFile(e) /\ e.node = x.node
    <2>1. PICK a, b, c, d : x = [node |-> a, pos |-> b, readable |-> c, writable |-> d]
      BY <1>3 DEF IsOpenFile
    <2>2. e = [node |-> a, pos |-> pos, readable |-> c, writable |-> d]
      <3>. HIDE DEF x
      <3>. QED
        BY <2>1
    <2>. HIDE DEF e, x
    <2>. QED
      BY <1>3, <2>1, <2>2 DEF IsOpenFile
  <1>. HIDE DEF e
  <1>7. IsTables(files') /\ \A m : CwdCount(files', m) = CwdCount(files, m) /\ HolderCount(files', m) = HolderCount(files, m)
    BY <1>1, <1>2, <1>4, <1>6, PutSame DEF CwdCount, HolderCount
  <1>8. Sound(files', inode, lost)
    BY <1>7, SoundTables DEF FilesSound
  <1>9. IsLeft(inode, inode', n, s.din, s.dirty)
    BY Zenon DEF Leave, IsLeft
  <1>10. Sound(files', inode', lost)
    BY <1>5, <1>8, <1>9, SoundLeave
  <1>. QED
    BY <1>10, Zenon DEF FilesSound

\* file_read and file_write, once the transfer is done.
LEMMA MovedSound ==
    ASSUME FilesSound, NEW p \in PROCS, NEW fd, NEW n, Call(p, fd, n), NEW s, Moved(p, fd, n, s)
    PROVE  FilesSound'
  <1>1. \/ Halt(s.ret)
        \/ /\ Leave(n, inode, s) /\ lost' = lost
           /\ Put(p, fd, [files[p].fd[fd] EXCEPT !.pos = files[p].fd[fd].pos + Len(s.data)])
    BY DEF Moved
  <1>. QED
    BY <1>1, HaltSound, StaysSound

\* An operation that stops at an assertion.
LEMMA RefusedSound ==
    ASSUME FilesSound, NEW n, Refused(n)
    PROVE  FilesSound'
  BY HaltSound, Zenon DEF Refused

\* file_read.
LEMMA ReadSound ==
    ASSUME FilesSound, NEW p \in PROCS, NEW fd, NEW len, Read(p, fd, len)
    PROVE  FilesSound'
  <1>1. PICK n : Call(p, fd, n) /\ (Refused(n) \/ \E s : Moved(p, fd, n, s))
    BY Zenon DEF Read
  <1>. QED
    BY <1>1, RefusedSound, MovedSound

\* file_write.
LEMMA WriteSound ==
    ASSUME FilesSound, NEW p \in PROCS, NEW fd, NEW buf, Write(p, fd, buf)
    PROVE  FilesSound'
  <1>1. PICK n : Call(p, fd, n) /\ (Refused(n) \/ \E s : Moved(p, fd, n, s))
    BY Zenon DEF Write
  <1>. QED
    BY <1>1, RefusedSound, MovedSound

\* file_seek.
LEMMA SeekSound ==
    ASSUME FilesSound, NEW p \in PROCS, NEW fd, NEW pos, Seek(p, fd, pos)
    PROVE  FilesSound'
  <1>1. PICK n : /\ Call(p, fd, n)
                 /\ \/ Refused(n)
                    \/ \E where : Halt(where)
                    \/ /\ Leave(n, inode, TrySeek(n, pos)) /\ lost' = lost
                       /\ Put(p, fd, [files[p].fd[fd] EXCEPT
                                         !.pos = IF TrySeek(n, pos).ret = "ok" THEN pos ELSE @])
    BY Zenon DEF Seek
  <1>2. CASE /\ Leave(n, inode, TrySeek(n, pos)) /\ lost' = lost
             /\ Put(p, fd, [files[p].fd[fd] EXCEPT !.pos = IF TrySeek(n, pos).ret = "ok" THEN pos ELSE @])
    <2>1. \E a : Put(p, fd, [files[p].fd[fd] EXCEPT !.pos = a])
      BY <1>2
    <2>. QED
      BY <1>1, <1>2, <2>1, StaysSound
  <1>. QED
    BY <1>1, <1>2, RefusedSound, HaltSound

\* sfs_fsync.
LEMMA FsyncSound ==
    ASSUME FilesSound, NEW p \in PROCS, NEW fd, Fsync(p, fd)
    PROVE  FilesSound'
  <1>1. PICK n : Call(p, fd, n) /\ inode' = [inode EXCEPT ![n].dirty = FALSE] /\ files' = files /\ lost' = lost
    BY Zenon DEF Fsync
  <1>2. /\ p \in DOMAIN files /\ fd \in DOMAIN files[p].fd /\ n = files[p].fd[fd].node
    BY <1>1 DEF Call, Opened, Alive
  <1>3. n \in DOMAIN inode
    BY <1>2, InMemory DEF FilesSound
  <1>4. IsInode(inode[n])
    BY <1>3 DEF FilesSound, Sound, IsCache
  <1>5. IsLeft(inode, inode', n, inode[n].din, FALSE)
    <2> DEFINE x == inode[n]
    <2>1. inode' = [inode EXCEPT ![n] = [x EXCEPT !.dirty = FALSE]]
      BY <1>1, <1>3
    <2>2. [x EXCEPT !.dirty = FALSE] = [[x EXCEPT !.din = x.din] EXCEPT !.dirty = FALSE]
      <3>1. PICK a, b, c, d : x = [ref_count |-> a, open_count |-> b, dirty |-> c, din |-> d]
        BY <1>4 DEF IsInode
      <3>. HIDE DEF x
      <3>. QED
        BY <3>1
    <2>3. [inode EXCEPT ![n].din = x.din, ![n].dirty = FALSE] =
            [inode EXCEPT ![n] = [[x EXCEPT !.din = x.din] EXCEPT !.dirty = FALSE]]
      BY <1>3
    <2>. QED
      BY <2>1, <2>2, <2>3 DEF IsLeft
  <1>6. Sound(files, inode', lost)
    BY <1>3, <1>5, SoundLeave DEF FilesSound
  <1>. QED
    BY <1>1, <1>6, Zenon DEF FilesSound

\* In G, p is in directory n.
IsChdir(F, G, p, n) == G = [F EXCEPT ![p].pwd = n]

\* One directory more and one less.
LEMMA ChdirCounts ==
    ASSUME NEW F, IsTables(F), NEW p \in DOMAIN F, NEW n \in NODES, n # F[p].pwd,
           NEW G, IsChdir(F, G, p, n)
    PROVE  /\ IsTables(G)
           /\ \A m : HoldersIn(G, m) = HoldersIn(F, m)
           /\ \A m : CwdCount(G, m) = CwdCount(F, m) + (IF m = n THEN 1 ELSE 0)
                                                     - (IF m = F[p].pwd THEN 1 ELSE 0)
           /\ CwdCount(F, F[p].pwd) >= 1
  <1> DEFINE old == F[p].pwd
  <1>1. /\ DOMAIN G = DOMAIN F
        /\ G[p] = [pwd |-> n, fd |-> F[p].fd]
        /\ \A q \in DOMAIN F : q # p => G[q] = F[q]
    <2>1. PICK a, b : F[p] = [pwd |-> a, fd |-> b]
      BY DEF IsTables
    <2>2. G[p] = [F[p] EXCEPT !.pwd = n] /\ DOMAIN G = DOMAIN F /\ \A q \in DOMAIN F : q # p => G[q] = F[q]
      BY DEF IsChdir
    <2>3. G[p] = [pwd |-> n, fd |-> b]
      BY <2>1, <2>2
    <2>. QED
      BY <2>1, <2>2, <2>3
  <1>2. G[p].pwd = n /\ \A q \in DOMAIN F : G[q].fd = F[q].fd
    BY <1>1
  <1>3. IsTables(G)
    BY <1>1, <1>2 DEF IsTables
  <1>4. ASSUME NEW m PROVE HoldersIn(G, m) = HoldersIn(F, m)
    <2>1. Descs(G) = Descs(F) /\ \A d \in Descs(F) : d[1] \in DOMAIN F
      BY <1>1, DescsPairs, Zenon
    <2>. QED
      BY <1>2, <2>1, Zenon DEF HoldersIn, IsOn
  <1>5. ASSUME NEW m
        PROVE  /\ CwdCount(G, m) = CwdCount(F, m) + (IF m = n THEN 1 ELSE 0) - (IF m = old THEN 1 ELSE 0)
               /\ m = old => CwdCount(F, m) >= 1
    <2>1. IsFiniteSet(Cwds(F, m)) /\ Cardinality(Cwds(F, m)) \in Nat
      BY TablesFinite
    <2>2. IsFiniteSet(Cwds(G, m)) /\ Cardinality(Cwds(G, m)) \in Nat
      BY <1>3, TablesFinite
    <2>3. (p \in Cwds(F, m) <=> m = old) /\ (p \in Cwds(G, m) <=> m = n)
      BY <1>1, <1>2, Zenon DEF Cwds
    <2>4. CASE m = n
      <3>1. Cwds(G, m) = Cwds(F, m) \cup {p}
        BY <1>1, <1>2, <2>4, Zenon DEF Cwds
      <3>2. Cardinality(Cwds(G, m)) = Cardinality(Cwds(F, m)) + 1
        BY <2>1, <2>3, <2>4, <3>1, FS_AddElement
      <3>. QED
        BY <2>1, <2>4, <3>2 DEF CwdCount
    <2>5. CASE m = old
      <3>1. Cwds(G, m) = Cwds(F, m) \ {p}
        BY <1>1, <1>2, <2>5, Zenon DEF Cwds
      <3>2. Cardinality(Cwds(G, m)) = Cardinality(Cwds(F, m)) - 1
        BY <2>1, <2>3, <2>5, <3>1, FS_RemoveElement
      <3>. QED
        BY <2>1, <2>2, <2>5, <3>2 DEF CwdCount
    <2>6. CASE m # n /\ m # old
      <3>1. Cwds(G, m) = Cwds(F, m)
        BY <1>1, <1>2, <2>6, Zenon DEF Cwds
      <3>. QED
        BY <2>1, <2>6, <3>1 DEF CwdCount
    <2>. QED
      BY <2>4, <2>5, <2>6
  <1>. QED
    BY <1>3, <1>4, <1>5

\* vfs_chdir: the new directory is referred to before the old one is let go.
LEMMA ChdirSound ==
    ASSUME FilesSound, NEW p \in PROCS, NEW n \in NODES, Chdir(p, n)
    PROVE  FilesSound'
  <1> DEFINE old == files[p].pwd
             looked_up == Acquire(inode, One(n), Zero)
             K == [lost EXCEPT ![n] = @ + 1]
  <1>1. p \in DOMAIN files
    BY DEF Chdir, Alive
  <1>2. IsTables(files) /\ lost \in [NODES -> Nat]
    BY DEF FilesSound, Sound
  <1>3. Sound(files, looked_up, K)
    BY SoundLost DEF FilesSound
  <1>4. \/ \E where : Halt(where)
        \/ Release(looked_up, disk, One(n), Zero) /\ files' = files /\ lost' = lost
        \/ n # old /\ Release(looked_up, disk, One(old), Zero) /\ files' = [files EXCEPT ![p].pwd = n] /\ lost' = lost
    BY Zenon DEF Chdir
  <1>5. CASE Release(looked_up, disk, One(n), Zero) /\ files' = files /\ lost' = lost
    <2>1. inode' = Kept(looked_up, disk, One(n), Zero)
      BY <1>5, ReleaseKept
    <2>. HIDE DEF looked_up
    <2>2. Sound(files, Kept(looked_up, disk, One(n), Zero), lost)
      BY <1>2, <1>3, SoundFound
    <2>. QED
      BY <1>5, <2>1, <2>2, Zenon DEF FilesSound
  <1>6. CASE n # old /\ Release(looked_up, disk, One(old), Zero) /\ files' = [files EXCEPT ![p].pwd = n] /\ lost' = lost
    <2>1. inode' = Kept(looked_up, disk, One(old), Zero)
      BY <1>6, ReleaseKept
    <2>2. PICK G : G = files'
      OBVIOUS
    <2>3. IsChdir(files, G, p, n)
      BY <1>6, <2>2 DEF IsChdir
    <2>4. /\ IsTables(G)
          /\ \A m : HolderCount(G, m) = HolderCount(files, m)
          /\ \A m : CwdCount(G, m) = CwdCount(files, m) + (IF m = n THEN 1 ELSE 0) - (IF m = old THEN 1 ELSE 0)
          /\ CwdCount(files, old) >= 1
      BY <1>1, <1>2, <1>6, <2>3, ChdirCounts DEF HolderCount
    <2>5. old \in NODES
      BY <1>1, <1>2 DEF IsTables
    <2>6. K \in [NODES -> Nat] /\ \A m \in NODES : K[m] = lost[m] + (IF m = n THEN 1 ELSE 0) /\ lost[m] \in Nat
      BY <1>2
    <2>7. One(old) \in [NODES -> Nat] /\ Zero \in [NODES -> Nat]
          /\ \A m \in NODES : One(old)[m] = (IF m = old THEN 1 ELSE 0) /\ Zero[m] = 0
      BY <2>5, OneTypes
    <2>. HIDE DEF looked_up, K, old
    <2>8. ASSUME NEW m \in NODES
          PROVE  /\ RefsIn(G, lost)[m] = RefsIn(files, K)[m] - One(old)[m]
                 /\ OpensIn(G)[m] = OpensIn(files)[m] - Zero[m]
                 /\ One(old)[m] <= RefsIn(files, K)[m] /\ Zero[m] <= OpensIn(files)[m]
      <3>1. /\ RefsIn(files, K)[m] = CwdCount(files, m) + HolderCount(files, m) + (IF m = ROOT THEN 1 ELSE 0) + K[m]
            /\ OpensIn(files)[m] = HolderCount(files, m)
            /\ CwdCount(files, m) \in Nat /\ HolderCount(files, m) \in Nat
        BY <1>2, <2>6, CountsType
      <3>2. /\ RefsIn(G, lost)[m] = CwdCount(G, m) + HolderCount(G, m) + (IF m = ROOT THEN 1 ELSE 0) + lost[m]
            /\ OpensIn(G)[m] = HolderCount(G, m)
        BY <1>2, <2>4, CountsType
      <3>3. /\ HolderCount(G, m) = HolderCount(files, m)
            /\ CwdCount(G, m) = CwdCount(files, m) + (IF m = n THEN 1 ELSE 0) - (IF m = old THEN 1 ELSE 0)
            /\ m = old => CwdCount(files, m) >= 1
        BY <2>4
      <3>4. One(old)[m] = (IF m = old THEN 1 ELSE 0) /\ Zero[m] = 0 /\ K[m] = lost[m] + (IF m = n THEN 1 ELSE 0) /\ lost[m] \in Nat
        BY <2>6, <2>7
      <3>. QED
        BY <3>1, <3>2, <3>3, <3>4
    <2>9. Sound(G, Kept(looked_up, disk, One(old), Zero), lost)
      BY <1>2, <1>3, <2>4, <2>7, <2>8, SoundRelease
    <2>. QED
      BY <1>6, <2>1, <2>2, <2>9, Zenon DEF FilesSound
  <1>. QED
    BY <1>4, <1>5, <1>6, HaltSound

\* dup_files.
LEMMA ForkSound ==
    ASSUME FilesSound, NEW p \in PROCS, NEW q \in PROCS, Fork(p, q)
    PROVE  FilesSound'
  <1> DEFINE o == OpensOf(p, FDS)
             pwd == files[p].pwd
             r == Plus(o, pwd)
  <1>1. p \in DOMAIN files /\ p \in Alive /\ q \in PROCS \ DOMAIN files
    BY DEF Fork, Alive
  <1>2. IsTables(files) /\ lost \in [NODES -> Nat]
    BY DEF FilesSound, Sound
  <1>3. inode' = Acquire(inode, r, o) /\ lost' = lost
    BY Zenon DEF Fork
  <1>4. PICK G : G = files'
    OBVIOUS
  <1>5. IsFork(files, G, p, q)
    BY <1>4 DEF Fork, IsFork, Alive
  <1>6. /\ IsTables(G)
        /\ \A n : CwdCount(G, n) = CwdCount(files, n) + (IF n = pwd THEN 1 ELSE 0)
        /\ \A n : HolderCount(G, n) = HolderCount(files, n) + MineCount(files, p, FDS, n)
    BY <1>1, <1>2, <1>5, ForkCounts
  <1>7. pwd \in NODES
    BY <1>1, <1>2 DEF IsTables
  <1>8. o \in [NODES -> Nat] /\ \A n \in NODES : o[n] = MineCount(files, p, FDS, n)
    BY <1>1, <1>2, OpensOfCounts
  <1>. HIDE DEF o, pwd
  <1>9. r \in [NODES -> Nat] /\ \A n \in NODES : r[n] = o[n] + (IF n = pwd THEN 1 ELSE 0) /\ o[n] <= r[n]
    BY <1>7, <1>8 DEF Plus
  <1>. HIDE DEF r
  <1>10. ASSUME NEW n \in NODES
         PROVE  RefsIn(G, lost)[n] = RefsIn(files, lost)[n] + r[n] /\ OpensIn(G)[n] = OpensIn(files)[n] + o[n]
    <2>1. /\ RefsIn(files, lost)[n] = CwdCount(files, n) + HolderCount(files, n) + (IF n = ROOT THEN 1 ELSE 0) + lost[n]
          /\ OpensIn(files)[n] = HolderCount(files, n)
          /\ CwdCount(files, n) \in Nat /\ HolderCount(files, n) \in Nat
      BY <1>2, CountsType
    <2>2. /\ RefsIn(G, lost)[n] = CwdCount(G, n) + HolderCount(G, n) + (IF n = ROOT THEN 1 ELSE 0) + lost[n]
          /\ OpensIn(G)[n] = HolderCount(G, n)
      BY <1>2, <1>6, CountsType
    <2>3. lost[n] \in Nat /\ o[n] \in Nat /\ r[n] = o[n] + (IF n = pwd THEN 1 ELSE 0) /\ o[n] = MineCount(files, p, FDS, n)
      BY <1>2, <1>8, <1>9
    <2>. QED
      BY <1>6, <2>1, <2>2, <2>3
  <1>11. Sound(G, Acquire(inode, r, o), lost)
    BY <1>2, <1>6, <1>8, <1>9, <1>10, SoundAcquire DEF FilesSound
  <1>. QED
    BY <1>3, <1>4, <1>11, Zenon DEF FilesSound

\* files_closeall.
LEMMA ExecSound ==
    ASSUME FilesSound, NEW p \in PROCS, Exec(p)
    PROVE  FilesSound'
  <1> DEFINE S == Opened(p) \ (0 .. (KEEP - 1))
             o == OpensOf(p, S)
  <1>1. p \in DOMAIN files /\ p \in Alive /\ Opened(p) = DOMAIN files[p].fd
    BY DEF Exec, Alive, Opened
  <1>2. IsTables(files)
    BY DEF FilesSound, Sound
  <1>3. \/ \E where : Halt(where)
        \/ Release(inode, disk, o, o) /\ Drop(p, S) /\ lost' = lost
    BY Zenon DEF Exec
  <1>4. CASE Release(inode, disk, o, o) /\ Drop(p, S) /\ lost' = lost
    <2>1. inode' = Kept(inode, disk, o, o)
      BY <1>4, ReleaseKept
    <2>. HIDE DEF S
    <2>2. IsDrop(files, files', p, S)
      BY <1>1, <1>4 DEF Drop, IsDrop
    <2>3. o \in [NODES -> Nat] /\ \A n \in NODES : o[n] = MineCount(files, p, S, n)
      BY <1>1, <1>2, OpensOfCounts
    <2>. HIDE DEF o
    <2>4. Sound(files', Kept(inode, disk, o, o), lost)
      BY <1>1, <2>2, <2>3, ClosedSound DEF FilesSound
    <2>. QED
      BY <1>4, <2>1, <2>4, Zenon DEF FilesSound
  <1>. QED
    BY <1>3, <1>4, HaltSound

\* files_destroy.
LEMMA ExitSound ==
    ASSUME FilesSound, NEW p \in PROCS, Exit(p)
    PROVE  FilesSound'
  <1> DEFINE o == OpensOf(p, FDS)
             pwd == files[p].pwd
             r == Plus(o, pwd)
  <1>1. p \in DOMAIN files /\ p \in Alive
    BY DEF Exit, Alive
  <1>2. IsTables(files) /\ lost \in [NODES -> Nat]
    BY DEF FilesSound, Sound
  <1>3. \/ \E where : Halt(where)
        \/ Release(inode, disk, r, o) /\ files' = [q \in Alive \ {p} |-> files[q]] /\ lost' = lost
    BY Zenon DEF Exit
  <1>4. CASE Release(inode, disk, r, o) /\ files' = [q \in Alive \ {p} |-> files[q]] /\ lost' = lost
    <2>1. inode' = Kept(inode, disk, r, o)
      BY <1>4, ReleaseKept
    <2>2. PICK G : G = files'
      OBVIOUS
    <2>3. IsExit(files, G, p)
      BY <1>4, <2>2 DEF IsExit, Alive
    <2>4. /\ IsTables(G)
          /\ \A n : CwdCount(G, n) = CwdCount(files, n) - (IF n = pwd THEN 1 ELSE 0)
          /\ \A n : /\ HolderCount(G, n) = HolderCount(files, n) - MineCount(files, p, FDS, n)
                    /\ MineCount(files, p, FDS, n) <= HolderCount(files, n)
          /\ CwdCount(files, pwd) >= 1
      BY <1>1, <1>2, <2>3, ExitCounts
    <2>5. pwd \in NODES
      BY <1>1, <1>2 DEF IsTables
    <2>6. o \in [NODES -> Nat] /\ \A n \in NODES : o[n] = MineCount(files, p, FDS, n)
      BY <1>1, <1>2, OpensOfCounts
    <2>. HIDE DEF o, pwd
    <2>7. r \in [NODES -> Nat] /\ \A n \in NODES : r[n] = o[n] + (IF n = pwd THEN 1 ELSE 0)
      BY <2>5, <2>6 DEF Plus
    <2>. HIDE DEF r
    <2>8. ASSUME NEW n \in NODES
          PROVE  /\ RefsIn(G, lost)[n] = RefsIn(files, lost)[n] - r[n] /\ OpensIn(G)[n] = OpensIn(files)[n] - o[n]
                 /\ r[n] <= RefsIn(files, lost)[n] /\ o[n] <= OpensIn(files)[n]
      <3>1. /\ RefsIn(files, lost)[n] = CwdCount(files, n) + HolderCount(files, n) + (IF n = ROOT THEN 1 ELSE 0) + lost[n]
            /\ OpensIn(files)[n] = HolderCount(files, n)
            /\ CwdCount(files, n) \in Nat /\ HolderCount(files, n) \in Nat
        BY <1>2, CountsType
      <3>2. /\ RefsIn(G, lost)[n] = CwdCount(G, n) + HolderCount(G, n) + (IF n = ROOT THEN 1 ELSE 0) + lost[n]
            /\ OpensIn(G)[n] = HolderCount(G, n)
        BY <1>2, <2>4, CountsType
      <3>3. lost[n] \in Nat /\ o[n] \in Nat /\ r[n] = o[n] + (IF n = pwd THEN 1 ELSE 0) /\ o[n] = MineCount(files, p, FDS, n)
        BY <1>2, <2>6, <2>7
      <3>4. n = pwd => CwdCount(files, n) >= 1
        BY <2>4
      <3>. QED
        BY <2>4, <3>1, <3>2, <3>3, <3>4
    <2>9. Sound(G, Kept(inode, disk, r, o), lost)
      BY <1>2, <2>4, <2>6, <2>7, <2>8, SoundRelease DEF FilesSound
    <2>. QED
      BY <1>4, <2>1, <2>2, <2>9, Zenon DEF FilesSound
  <1>. QED
    BY <1>3, <1>4, HaltSound

\* sfs_sync.
LEMMA CleanupSound ==
    ASSUME FilesSound, Cleanup_fs
    PROVE  FilesSound'
  <1>1. inode' = [n \in DOMAIN inode |-> [inode[n] EXCEPT !.dirty = FALSE]] /\ files' = files /\ lost' = lost
    BY Zenon DEF Cleanup_fs
  <1>2. PICK J : J = inode'
    OBVIOUS
  <1>3. DOMAIN J = DOMAIN inode /\ \A n \in DOMAIN inode : J[n] = [inode[n] EXCEPT !.dirty = FALSE]
    BY <1>1, <1>2
  <1>4. IsCache(inode) /\ Exact(inode, RefsIn(files, lost), OpensIn(files))
    BY DEF FilesSound, Sound
  <1>5. \A n \in DOMAIN inode : /\ IsInode(J[n])
                                /\ J[n].ref_count = inode[n].ref_count /\ J[n].open_count = inode[n].open_count
    <2>1. ASSUME NEW n \in DOMAIN inode
          PROVE  /\ IsInode(J[n])
                 /\ J[n].ref_count = inode[n].ref_count /\ J[n].open_count = inode[n].open_count
      <3> DEFINE x == inode[n]
                 y == J[n]
      <3>1. IsInode(x) /\ \E a : y = [x EXCEPT !.dirty = a]
        BY <1>3, <1>4 DEF IsCache
      <3>. HIDE DEF x, y
      <3>2. IsInode(y) /\ y.ref_count = x.ref_count /\ y.open_count = x.open_count
        BY <3>1, InodeData
      <3>. QED
        BY <3>2 DEF x, y
    <2>. QED
      BY <2>1
  <1>6. IsCache(J)
    BY <1>3, <1>4, <1>5, Zenon DEF IsCache
  <1>7. Exact(J, RefsIn(files, lost), OpensIn(files))
    <2>1. \A n \in NODES : n \in DOMAIN inode => J[n].ref_count = inode[n].ref_count /\ J[n].open_count = inode[n].open_count
      BY <1>5
    <2>. QED
      BY <1>3, <1>4, <2>1, Zenon DEF Exact
  <1>8. Sound(files, J, lost)
    BY <1>6, <1>7, Zenon DEF FilesSound, Sound
  <1>. QED
    BY <1>1, <1>2, <1>8, Zenon DEF FilesSound

\* After the boot, the root directory has the boot file system and two processes.
LEMMA BootSound ==
    ASSUME NEW p \in PROCS \ {INITPROC}
    PROVE  Sound(BootFiles(p), BootInodes, [n \in NODES |-> 0])
  <1> DEFINE F == BootFiles(p)
             I == BootInodes
             L == [n \in NODES |-> 0]
  <1>1. /\ DOMAIN F = {p, INITPROC} /\ INITPROC \in PROCS /\ p # INITPROC /\ ROOT \in NODES
        /\ \A q \in {p, INITPROC} : F[q] = [pwd |-> ROOT, fd |-> <<>>]
    BY FilesAssumption DEF BootFiles, NODES
  <1>2. \A q \in DOMAIN F : F[q].pwd = ROOT /\ F[q].fd = <<>> /\ F[q] = [pwd |-> F[q].pwd, fd |-> F[q].fd]
    BY <1>1
  <1>3. DOMAIN <<>> = {}
    OBVIOUS
  <1>4. DOMAIN I = {ROOT} /\ I[ROOT] = [ref_count |-> 3, open_count |-> 0, dirty |-> FALSE, din |-> EmptyFile]
    BY DEF BootInodes
  <1>5. L \in [NODES -> Nat] /\ \A n \in NODES : L[n] = 0
    OBVIOUS
  <1>. HIDE DEF F, I, L
  <1>6. IsTables(F)
    BY <1>1, <1>2, <1>3 DEF IsTables
  <1>7. IsInode(I[ROOT]) /\ I[ROOT].ref_count = 3 /\ I[ROOT].open_count = 0
    BY <1>4 DEF IsInode
  <1>8. IsCache(I)
    BY <1>1, <1>4, <1>7 DEF IsCache
  <1>9. ASSUME NEW n PROVE HolderCount(F, n) = 0
    <2>1. ASSUME NEW d \in HoldersIn(F, n) PROVE FALSE
      <3>1. d \in Descs(F) /\ d[1] \in DOMAIN F /\ IsOn(F, d, n)
        BY <2>1, Holder, Zenon
      <3>2. d[2] \in DOMAIN F[d[1]].fd /\ F[d[1]].fd = <<>>
        BY <1>2, <3>1, Zenon DEF IsOn
      <3>. QED
        BY <1>3, <3>2
    <2>2. HoldersIn(F, n) = {}
      BY <2>1
    <2>. QED
      BY <2>2, FS_EmptySet DEF HolderCount
  <1>10. CwdCount(F, ROOT) = 2
    <2>1. Cwds(F, ROOT) = {INITPROC} \cup {p}
      BY <1>1, <1>2 DEF Cwds
    <2>2. IsFiniteSet({INITPROC}) /\ Cardinality({INITPROC}) = 1 /\ p \notin {INITPROC}
      BY <1>1, FS_Singleton
    <2>3. Cardinality({INITPROC} \cup {p}) = 2
      BY <2>2, FS_AddElement
    <2>. QED
      BY <2>1, <2>3 DEF CwdCount
  <1>11. ASSUME NEW n, n # ROOT PROVE CwdCount(F, n) = 0
    <2>1. Cwds(F, n) = {}
      BY <1>2, <1>11 DEF Cwds
    <2>. QED
      BY <2>1, FS_EmptySet DEF CwdCount
  <1>12. ASSUME NEW n \in NODES
         PROVE  RefsIn(F, L)[n] = (IF n = ROOT THEN 3 ELSE 0) /\ OpensIn(F)[n] = 0
    <2>1. /\ RefsIn(F, L)[n] = CwdCount(F, n) + HolderCount(F, n) + (IF n = ROOT THEN 1 ELSE 0) + L[n]
          /\ OpensIn(F)[n] = HolderCount(F, n)
      BY <1>5, <1>6, CountsType
    <2>. QED
      BY <1>5, <1>9, <1>10, <1>11, <2>1
  <1>13. Exact(I, RefsIn(F, L), OpensIn(F))
    BY <1>4, <1>7, <1>12 DEF Exact
  <1>. QED
    BY <1>5, <1>6, <1>8, <1>13 DEF Sound, F, I, L

\* It holds at the start, and after a reset.
LEMMA InitIInv == Init => IInv
  <1> SUFFICES ASSUME Init PROVE FilesSound
    BY Zenon DEF IInv
  <1>1. PICK p \in PROCS \ {INITPROC} : files = BootFiles(p)
    BY Zenon DEF Init
  <1>2. inode = BootInodes /\ lost = [n \in NODES |-> 0]
    BY Zenon DEF Init
  <1>. QED
    BY <1>1, <1>2, BootSound, Zenon DEF FilesSound

\* It holds after a mount, and where the mount stops there is nothing to show.
LEMMA ResetIInv ==
    ASSUME Reset
    PROVE  IInv'
  <1>1. CASE Cardinality(disk.free) = disk.unused
    <2>1. PICK p \in PROCS \ {INITPROC} : files' = BootFiles(p)
      BY <1>1, Zenon DEF Reset
    <2>2. inode' = BootInodes /\ lost' = [n \in NODES |-> 0]
      BY <1>1, Zenon DEF Reset
    <2>3. Sound(files', inode', lost')
      BY <2>1, <2>2, BootSound, Zenon
    <2>. QED
      BY <2>3, Zenon DEF IInv, FilesSound
  <1>2. CASE Cardinality(disk.free) # disk.unused
    <2>1. panicked' = "mount"
      BY <1>2, Zenon DEF Reset
    <2>. QED
      BY <2>1, Zenon DEF IInv
  <1>. QED
    BY <1>1, <1>2

\* Each call of a process keeps it.
LEMMA ProcNextSound ==
    ASSUME FilesSound, NEW p \in PROCS, ProcNext(p)
    PROVE  FilesSound'
  <1>1. \/ \E n \in NODES, fl \in FLAGS : Open(p, n, fl)
        \/ OpenNew(p)
        \/ \E fd \in FDS : Close(p, fd)
        \/ \E fd \in FDS : Fsync(p, fd)
        \/ \E fd, to \in FDS : Dup(p, fd, to)
        \/ \E fd \in FDS, buf \in BUFS : Write(p, fd, buf)
        \/ \E fd \in FDS, buf \in BUFS : Read(p, fd, Len(buf))
        \/ \E fd \in FDS, pos \in SEEKS : Seek(p, fd, pos)
        \/ \E n \in NODES : Chdir(p, n)
        \/ \E q \in PROCS : Fork(p, q)
        \/ Exec(p)
        \/ Exit(p)
    BY Zenon DEF ProcNext
  <1>2. CASE \E n \in NODES, fl \in FLAGS : Open(p, n, fl)
    BY <1>2, OpenSound
  <1>3. CASE OpenNew(p)
    BY <1>3, HaltSound, Zenon DEF OpenNew
  <1>4. CASE \E fd \in FDS : Close(p, fd)
    BY <1>4, CloseSound
  <1>5. CASE \E fd \in FDS : Fsync(p, fd)
    BY <1>5, FsyncSound
  <1>6. CASE \E fd, to \in FDS : Dup(p, fd, to)
    BY <1>6, DupSound
  <1>7. CASE \E fd \in FDS, buf \in BUFS : Write(p, fd, buf)
    BY <1>7, WriteSound
  <1>8. CASE \E fd \in FDS, buf \in BUFS : Read(p, fd, Len(buf))
    BY <1>8, ReadSound
  <1>9. CASE \E fd \in FDS, pos \in SEEKS : Seek(p, fd, pos)
    BY <1>9, SeekSound
  <1>10. CASE \E n \in NODES : Chdir(p, n)
    BY <1>10, ChdirSound
  <1>11. CASE \E q \in PROCS : Fork(p, q)
    BY <1>11, ForkSound
  <1>12. CASE Exec(p)
    BY <1>12, ExecSound
  <1>13. CASE Exit(p)
    BY <1>13, ExitSound
  <1>. QED
    BY <1>1, <1>2, <1>3, <1>4, <1>5, <1>6, <1>7, <1>8, <1>9, <1>10, <1>11, <1>12, <1>13

\* A machine that has stopped runs no call.
LEMMA Running ==
    ASSUME NEW p, ProcNext(p)
    PROVE  panicked = ""
  BY Zenon DEF ProcNext, Open, OpenNew, Close, Fsync, Dup, Write, Read, Seek, Call, Chdir, Fork, Exec, Exit, Up

\* Every step keeps the invariant.
LEMMA NextIInv == IInv /\ [Next]_vars => IInv'
  <1> SUFFICES ASSUME IInv, [Next]_vars PROVE IInv'
    OBVIOUS
  <1>1. CASE \E p \in PROCS : ProcNext(p)
    <2>1. PICK p \in PROCS : ProcNext(p)
      BY <1>1
    <2>2. FilesSound
      BY <2>1, Running, Zenon DEF IInv
    <2>3. FilesSound'
      BY <2>1, <2>2, ProcNextSound
    <2>. QED
      BY <2>3, Zenon DEF IInv
  <1>2. CASE Cleanup_fs
    <2>1. FilesSound
      BY <1>2, Zenon DEF IInv, Cleanup_fs, Up
    <2>2. FilesSound'
      BY <1>2, <2>1, CleanupSound
    <2>. QED
      BY <2>2, Zenon DEF IInv
  <1>3. CASE Reset
    BY <1>3, ResetIInv
  <1>4. CASE Panicked \/ UNCHANGED vars
    <2>1. files' = files /\ inode' = inode /\ lost' = lost /\ panicked' = panicked
      BY <1>4, Zenon DEF Panicked, vars
    <2>. QED
      BY <2>1, Zenon DEF IInv, FilesSound
  <1>. QED
    BY <1>1, <1>2, <1>3, <1>4 DEF Next

\* The counts agree with the tables in every state of every behaviour.
THEOREM FilesSoundCorrect == Spec => []IInv
  <1>. QED
    BY InitIInv, NextIInv, PTL DEF Spec

\* An inode is in memory exactly as long as somebody refers to it, and
\* vop_ref_inc, vop_open_inc and their counterparts keep both counts exact through
\* every branch of open, close, dup, fork, exec, exit, chdir and the transfers.
THEOREM CountsExactCorrect == Spec => []CountsExact
  <1>. QED
    BY FilesSoundCorrect, IInvCounts, PTL

-----------------------------------------------------------------------------
(* The blocks that places name.                                             *)

Numbers == BLOCKS \cup {0}

\* Places name blocks by N: each block is free, named by one place only, or among
\* the blocks X of others, and only one of these.
Covers(N, free, X) ==
    /\ N \in [Places -> Numbers]
    /\ free \in SUBSET BLOCKS /\ X \in SUBSET BLOCKS
    /\ free \cap X = {}
    /\ \A p \in Places : N[p] # 0 => N[p] \notin free /\ N[p] \notin X
    /\ \A p, q \in Places : N[p] = N[q] /\ N[p] # 0 => p = q
    /\ \A b \in BLOCKS : b \in free \/ b \in X \/ \E p \in Places : N[p] = b

\* A free block becomes somebody's.
LEMMA CoversTaken ==
    ASSUME NEW N, NEW free, NEW X, Covers(N, free, X), NEW b \in free
    PROVE  Covers(N, free \ {b}, X \cup {b}) /\ b \in BLOCKS /\ b \notin X
  BY DEF Covers

\* Somebody's block becomes free.
LEMMA CoversFreed ==
    ASSUME NEW N, NEW free, NEW X, NEW b \in BLOCKS, b \notin X, Covers(N, free, X \cup {b})
    PROVE  Covers(N, free \cup {b}, X) /\ b \notin free
  <1>1. Covers(N, free \cup {b}, X)
    <2>1. X \in SUBSET BLOCKS /\ free \cup {b} \in SUBSET BLOCKS /\ (free \cup {b}) \cap X = {}
      BY DEF Covers
    <2>2. \A p \in Places : N[p] # 0 => N[p] \notin free \cup {b} /\ N[p] \notin X
      BY DEF Covers
    <2>3. \A c \in BLOCKS : c \in free \cup {b} \/ c \in X \/ \E p \in Places : N[p] = c
      BY DEF Covers
    <2>. QED
      BY <2>1, <2>2, <2>3 DEF Covers
  <1>. QED
    BY <1>1 DEF Covers

\* A place that named nothing names somebody's block.
LEMMA CoversLinked ==
    ASSUME NEW N, NEW free, NEW X, NEW b \in BLOCKS, b \notin X, Covers(N, free, X \cup {b}),
           NEW pl \in Places, N[pl] = 0,
           NEW M \in [Places -> Numbers], M[pl] = b, \A q \in Places : q # pl => M[q] = N[q]
    PROVE  Covers(M, free, X)
  <1>0. b # 0
    BY SfsAssumption
  <1>1. X \in SUBSET BLOCKS /\ free \in SUBSET BLOCKS /\ free \cap X = {} /\ b \notin free
    BY DEF Covers
  <1>2. ASSUME NEW p \in Places, M[p] # 0 PROVE M[p] \notin free /\ M[p] \notin X
    <2>1. CASE p = pl
      BY <1>1, <2>1
    <2>2. CASE p # pl
      BY <1>2, <2>2 DEF Covers
    <2>. QED
      BY <2>1, <2>2
  <1>3. ASSUME NEW p \in Places, NEW q \in Places, M[p] = M[q], M[p] # 0 PROVE p = q
    <2>1. \A c \in Places : N[c] # b
      BY <1>0 DEF Covers
    <2>2. CASE p = pl \/ q = pl
      BY <1>3, <2>1, <2>2
    <2>3. CASE p # pl /\ q # pl
      BY <1>3, <2>3 DEF Covers
    <2>. QED
      BY <2>2, <2>3
  <1>4. ASSUME NEW c \in BLOCKS PROVE c \in free \/ c \in X \/ \E p \in Places : M[p] = c
    <2>1. CASE c = b
      BY <2>1
    <2>2. CASE c # b
      <3>1. c \in free \/ c \in X \/ \E p \in Places : N[p] = c
        BY <2>2 DEF Covers
      <3>2. ASSUME NEW p \in Places, N[p] = c PROVE M[p] = c
        <4>1. c # 0
          BY SfsAssumption
        <4>. QED
          BY <3>2, <4>1
      <3>. QED
        BY <3>1, <3>2
    <2>. QED
      BY <2>1, <2>2
  <1>. QED
    BY <1>1, <1>2, <1>3, <1>4 DEF Covers

\* A place that named a block names nothing any more: the block is free.
LEMMA CoversDropped ==
    ASSUME NEW N, NEW free, NEW X, Covers(N, free, X), NEW pl \in Places, NEW b, N[pl] = b, b # 0,
           NEW M \in [Places -> Numbers], M[pl] = 0, \A q \in Places : q # pl => M[q] = N[q]
    PROVE  Covers(M, free \cup {b}, X) /\ b \in BLOCKS /\ b \notin free /\ b \notin X
  <1>1. b \in BLOCKS /\ b \notin free /\ b \notin X
    BY DEF Covers, Numbers
  <1>2. X \in SUBSET BLOCKS /\ free \cup {b} \in SUBSET BLOCKS /\ (free \cup {b}) \cap X = {}
    BY <1>1 DEF Covers
  <1>3. ASSUME NEW p \in Places, M[p] # 0 PROVE M[p] \notin free \cup {b} /\ M[p] \notin X
    <2>1. p # pl /\ M[p] = N[p]
      BY <1>3
    <2>. QED
      BY <1>3, <2>1 DEF Covers
  <1>4. ASSUME NEW p \in Places, NEW q \in Places, M[p] = M[q], M[p] # 0 PROVE p = q
    <2>1. p # pl /\ q # pl
      BY <1>4
    <2>. QED
      BY <1>4, <2>1 DEF Covers
  <1>5. ASSUME NEW c \in BLOCKS PROVE c \in free \cup {b} \/ c \in X \/ \E p \in Places : M[p] = c
    <2>1. c \in free \/ c \in X \/ \E p \in Places : N[p] = c
      BY DEF Covers
    <2>. QED
      BY <2>1
  <1>. QED
    BY <1>1, <1>2, <1>3, <1>4, <1>5 DEF Covers

-----------------------------------------------------------------------------
(* The state that a call works on.                                          *)

Byte == Nat \cup {STALE}
Disk == [BLOCKS -> [Cells -> Byte]]
Outcomes == PANICS \cup {"ok", "nomem", "invalid"}
Entries == 0 .. (SFS_BLK_NENTRY - 1)

State == [free : SUBSET BLOCKS, unused : Nat, super_dirty : BOOLEAN, block : Disk, din : Dinode,
          dirty : BOOLEAN, ino : Numbers, data : Seq(Byte), ret : Outcomes]

Made(free, unused, super_dirty, block, din, dirty, ino, data, ret) ==
    [free |-> free, unused |-> unused, super_dirty |-> super_dirty, block |-> block, din |-> din,
     dirty |-> dirty, ino |-> ino, data |-> data, ret |-> ret]

MadeDin(size, blocks, direct, indirect) ==
    [size |-> size, blocks |-> blocks, direct |-> direct, indirect |-> indirect]

\* Block b holds x now; slot i names b now.
With(block, b, x) == [c \in BLOCKS |-> IF c = b THEN x ELSE block[c]]
WithSlot(direct, i, b) == [j \in Slots |-> IF j = i THEN b ELSE direct[j]]
WithEntry(x, k, b) == [c \in Cells |-> IF c = k THEN b ELSE x[c]]

\* What such a record holds.
LEMMA MadeFields ==
    ASSUME NEW free, NEW unused, NEW super_dirty, NEW block, NEW din, NEW dirty, NEW ino, NEW data, NEW ret,
           NEW s, s = Made(free, unused, super_dirty, block, din, dirty, ino, data, ret)
    PROVE  /\ s.free = free /\ s.unused = unused /\ s.super_dirty = super_dirty /\ s.block = block
           /\ s.din = din /\ s.dirty = dirty /\ s.ino = ino /\ s.data = data /\ s.ret = ret
  BY DEF Made

\* One field replaced.
LEMMA MadeField ==
    ASSUME NEW free, NEW unused, NEW super_dirty, NEW block, NEW din, NEW dirty, NEW ino, NEW data, NEW ret,
           NEW s, s = Made(free, unused, super_dirty, block, din, dirty, ino, data, ret)
    PROVE  /\ \A x : [s EXCEPT !.free = x] = Made(x, unused, super_dirty, block, din, dirty, ino, data, ret)
           /\ \A x : [s EXCEPT !.unused = x] = Made(free, x, super_dirty, block, din, dirty, ino, data, ret)
           /\ \A x : [s EXCEPT !.super_dirty = x] = Made(free, unused, x, block, din, dirty, ino, data, ret)
           /\ \A x : [s EXCEPT !.block = x] = Made(free, unused, super_dirty, x, din, dirty, ino, data, ret)
           /\ \A x : [s EXCEPT !.din = x] = Made(free, unused, super_dirty, block, x, dirty, ino, data, ret)
           /\ \A x : [s EXCEPT !.dirty = x] = Made(free, unused, super_dirty, block, din, x, ino, data, ret)
           /\ \A x : [s EXCEPT !.ino = x] = Made(free, unused, super_dirty, block, din, dirty, x, data, ret)
           /\ \A x : [s EXCEPT !.data = x] = Made(free, unused, super_dirty, block, din, dirty, ino, x, ret)
           /\ \A x : [s EXCEPT !.ret = x] = Made(free, unused, super_dirty, block, din, dirty, ino, data, x)
  <1>1. \A x : [s EXCEPT !.free = x] = Made(x, unused, super_dirty, block, din, dirty, ino, data, ret)
    BY DEF Made
  <1>2. \A x : [s EXCEPT !.unused = x] = Made(free, x, super_dirty, block, din, dirty, ino, data, ret)
    BY DEF Made
  <1>3. \A x : [s EXCEPT !.super_dirty = x] = Made(free, unused, x, block, din, dirty, ino, data, ret)
    BY DEF Made
  <1>4. \A x : [s EXCEPT !.block = x] = Made(free, unused, super_dirty, x, din, dirty, ino, data, ret)
    BY DEF Made
  <1>5. \A x : [s EXCEPT !.din = x] = Made(free, unused, super_dirty, block, x, dirty, ino, data, ret)
    BY DEF Made
  <1>6. \A x : [s EXCEPT !.dirty = x] = Made(free, unused, super_dirty, block, din, x, ino, data, ret)
    BY DEF Made
  <1>7. \A x : [s EXCEPT !.ino = x] = Made(free, unused, super_dirty, block, din, dirty, x, data, ret)
    BY DEF Made
  <1>8. \A x : [s EXCEPT !.data = x] = Made(free, unused, super_dirty, block, din, dirty, ino, x, ret)
    BY DEF Made
  <1>9. \A x : [s EXCEPT !.ret = x] = Made(free, unused, super_dirty, block, din, dirty, ino, data, x)
    BY DEF Made
  <1>. QED
    BY <1>1, <1>2, <1>3, <1>4, <1>5, <1>6, <1>7, <1>8, <1>9

\* It is a state, if its values are.
LEMMA MadeState ==
    ASSUME NEW free \in SUBSET BLOCKS, NEW unused \in Nat, NEW super_dirty \in BOOLEAN, NEW block \in Disk,
           NEW din \in Dinode, NEW dirty \in BOOLEAN, NEW ino \in Numbers, NEW data \in Seq(Byte),
           NEW ret \in Outcomes
    PROVE  Made(free, unused, super_dirty, block, din, dirty, ino, data, ret) \in State
  BY DEF Made, State

\* A state is such a record.
LEMMA StateProps ==
    ASSUME NEW s \in State
    PROVE  /\ s = Made(s.free, s.unused, s.super_dirty, s.block, s.din, s.dirty, s.ino, s.data, s.ret)
           /\ s.free \in SUBSET BLOCKS /\ s.unused \in Nat /\ s.super_dirty \in BOOLEAN /\ s.block \in Disk
           /\ s.din \in Dinode /\ s.dirty \in BOOLEAN /\ s.ino \in Numbers /\ s.data \in Seq(Byte)
           /\ s.ret \in Outcomes
  BY DEF State, Made

\* An inode is such a record.
LEMMA DinProps ==
    ASSUME NEW d \in Dinode
    PROVE  /\ d = MadeDin(d.size, d.blocks, d.direct, d.indirect)
           /\ d.size \in Nat /\ d.blocks \in Nat /\ d.direct \in [Slots -> Numbers] /\ d.indirect \in Numbers
  BY DEF Dinode, MadeDin, Numbers

\* It is an inode, if its values are.
LEMMA MadeDinode ==
    ASSUME NEW size \in Nat, NEW blocks \in Nat, NEW direct \in [Slots -> Numbers], NEW indirect \in Numbers
    PROVE  /\ MadeDin(size, blocks, direct, indirect) \in Dinode
           /\ MadeDin(size, blocks, direct, indirect).size = size
           /\ MadeDin(size, blocks, direct, indirect).blocks = blocks
           /\ MadeDin(size, blocks, direct, indirect).direct = direct
           /\ MadeDin(size, blocks, direct, indirect).indirect = indirect
  BY DEF MadeDin, Dinode, Numbers

\* The disk with another block.
LEMMA WithProps ==
    ASSUME NEW block \in Disk, NEW b \in BLOCKS, NEW x \in [Cells -> Byte]
    PROVE  /\ With(block, b, x) \in Disk /\ With(block, b, x)[b] = x
           /\ \A c \in BLOCKS : c # b => With(block, b, x)[c] = block[c]
           /\ [block EXCEPT ![b] = x] = With(block, b, x)
  BY DEF With, Disk

\* The direct blocks with another slot.
LEMMA SlotProps ==
    ASSUME NEW direct \in [Slots -> Numbers], NEW i \in Slots, NEW b \in Numbers
    PROVE  /\ WithSlot(direct, i, b) \in [Slots -> Numbers] /\ WithSlot(direct, i, b)[i] = b
           /\ \A j \in Slots : j # i => WithSlot(direct, i, b)[j] = direct[j]
  BY DEF WithSlot

\* A block with another entry.
LEMMA EntryProps ==
    ASSUME NEW x \in [Cells -> Byte], NEW k \in Cells, NEW b \in Numbers
    PROVE  /\ WithEntry(x, k, b) \in [Cells -> Byte] /\ WithEntry(x, k, b)[k] = b
           /\ \A c \in Cells : c # k => WithEntry(x, k, b)[c] = x[c]
           /\ [x EXCEPT ![k] = b] = WithEntry(x, k, b)
  <1>1. b \in Byte
    <2>1. b = 0 \/ b \in BLOCKS
      BY DEF Numbers
    <2>2. 0 \in Nat /\ BLOCKS \subseteq Nat
      BY SfsAssumption
    <2>. QED
      BY <2>1, <2>2 DEF Byte
  <1>. QED
    BY <1>1 DEF WithEntry

\* The places: the slots, the entries behind them, and the indirect block.
LEMMA PlaceProps ==
    /\ SFS_NDIRECT \in Nat /\ SFS_BLK_NENTRY \in Nat /\ INDIRECT \in Nat /\ INDIRECT \in Places
    /\ INDIRECT \notin Slots /\ ~(INDIRECT < SFS_NDIRECT)
    /\ \A i \in Slots : i \in Places /\ i \in Nat /\ i < SFS_NDIRECT /\ i # INDIRECT
    /\ \A k \in Entries : /\ k \in Cells /\ k \in Nat /\ SFS_NDIRECT + k \in Places
                          /\ SFS_NDIRECT + k # INDIRECT /\ ~(SFS_NDIRECT + k < SFS_NDIRECT)
                          /\ (SFS_NDIRECT + k) - SFS_NDIRECT = k /\ SFS_NDIRECT + k \notin Slots
    /\ \A p \in Places : \/ p \in Slots
                         \/ p = INDIRECT
                         \/ p - SFS_NDIRECT \in Entries /\ p = SFS_NDIRECT + (p - SFS_NDIRECT)
    /\ \A i \in Nat : /\ i < SFS_NDIRECT => i \in Slots
                      /\ ~(i < SFS_NDIRECT) /\ i < INDIRECT =>
                           i - SFS_NDIRECT \in Entries /\ i = SFS_NDIRECT + (i - SFS_NDIRECT)
    /\ \A k, l \in Entries : SFS_NDIRECT + k = SFS_NDIRECT + l => k = l
  BY SfsAssumption DEF INDIRECT, Places, Slots, Entries, Cells

\* What they name.
NamesOf(block, din) == [pl \in Places |-> Names(block, din, pl)]

\* What each place names.
LEMMA NamesProps ==
    ASSUME NEW block, NEW d
    PROVE  /\ DOMAIN NamesOf(block, d) = Places
           /\ NamesOf(block, d)[INDIRECT] = d.indirect
           /\ \A i \in Slots : NamesOf(block, d)[i] = d.direct[i]
           /\ \A k \in Entries : NamesOf(block, d)[SFS_NDIRECT + k] =
                                     IF d.indirect = 0 THEN 0 ELSE block[d.indirect][k]
  BY PlaceProps DEF NamesOf, Names, BlockAt

\* Names are those of all slots and entries.
LEMMA NamesAre ==
    ASSUME NEW block, NEW d, NEW N, DOMAIN N = Places, N = [p \in Places |-> N[p]],
           N[INDIRECT] = d.indirect, \A i \in Slots : N[i] = d.direct[i],
           \A k \in Entries : N[SFS_NDIRECT + k] = IF d.indirect = 0 THEN 0 ELSE block[d.indirect][k]
    PROVE  NamesOf(block, d) = N
  <1>1. ASSUME NEW p \in Places PROVE NamesOf(block, d)[p] = N[p]
    <2>1. CASE p \in Slots
      BY <2>1, NamesProps
    <2>2. CASE p = INDIRECT
      BY <2>2, NamesProps
    <2>3. CASE p - SFS_NDIRECT \in Entries /\ p = SFS_NDIRECT + (p - SFS_NDIRECT)
      <3> DEFINE k == p - SFS_NDIRECT
      <3>1. k \in Entries /\ p = SFS_NDIRECT + k
        BY <2>3
      <3>. HIDE DEF k
      <3>2. NamesOf(block, d)[SFS_NDIRECT + k] = N[SFS_NDIRECT + k]
        BY <3>1, NamesProps
      <3>. QED
        BY <3>1, <3>2
    <2>. QED
      BY <2>1, <2>2, <2>3, PlaceProps
  <1>2. NamesOf(block, d) = [p \in Places |-> NamesOf(block, d)[p]]
    BY DEF NamesOf
  <1>. QED
    BY <1>1, <1>2

\* They depend on the map only, and on the content of the indirect block.
LEMMA NamesSame ==
    ASSUME NEW block, NEW c, NEW d, NEW e, d.direct = e.direct, d.indirect = e.indirect,
           d.indirect = 0 \/ c[d.indirect] = block[d.indirect]
    PROVE  NamesOf(c, e) = NamesOf(block, d)
  <1> DEFINE N == NamesOf(block, d)
  <1>1. /\ DOMAIN N = Places /\ N = [p \in Places |-> N[p]]
        /\ N[INDIRECT] = e.indirect /\ \A i \in Slots : N[i] = e.direct[i]
    BY NamesProps DEF NamesOf
  <1>2. \A k \in Entries : N[SFS_NDIRECT + k] = IF e.indirect = 0 THEN 0 ELSE c[e.indirect][k]
    BY NamesProps
  <1>. HIDE DEF N
  <1>3. NamesOf(c, e) = N
    BY <1>1, <1>2, NamesAre
  <1>. QED
    BY <1>3 DEF N

-----------------------------------------------------------------------------
(* Blocks got and given back.                                               *)

\* The blocks of a file have no holes.
Filled(N, n) == \A i \in Places : i < n => N[i] # 0

\* What a call works on is sound when the blocks X are those of others.
Owned(s, X) ==
    /\ s \in State /\ s.unused = Cardinality(s.free) /\ s.din.blocks <= INDIRECT
    /\ Covers(NamesOf(s.block, s.din), s.free, X)
    /\ Filled(NamesOf(s.block, s.din), s.din.blocks)

\* The inode d agrees with e, which is older, except for blocks it may have more.
Later(d, e) == d.direct = e.direct /\ d.indirect = e.indirect /\ d.size = e.size /\ e.blocks <= d.blocks

\* From s to t, the blocks X have stayed as they were, and what is not dirty, too.
Apart(s, t, X) ==
    /\ \A b \in X : t.block[b] = s.block[b]
    /\ ~t.super_dirty => ~s.super_dirty /\ t.free = s.free
    /\ ~t.dirty => ~s.dirty /\ Later(t.din, s.din)

\* Where nothing changes, others see nothing.
LEMMA ApartSame ==
    ASSUME NEW s \in State, NEW t, NEW X, t.block = s.block, t.super_dirty = s.super_dirty, t.free = s.free,
           t.dirty = s.dirty, t.din = s.din
    PROVE  Apart(s, t, X)
  <1>1. s.din.blocks \in Nat
    BY StateProps, DinProps
  <1>. QED
    BY <1>1 DEF Apart, Later

\* Nor do they after two calls, the second on behalf of more.
LEMMA ApartThen ==
    ASSUME NEW s \in State, NEW t \in State, NEW u \in State, NEW X, NEW Y, X \subseteq Y, Apart(s, t, X), Apart(t, u, Y)
    PROVE  Apart(s, u, X)
  <1>1. s.din.blocks \in Nat /\ t.din.blocks \in Nat /\ u.din.blocks \in Nat
    BY StateProps, DinProps
  <1>2. ASSUME Later(t.din, s.din), Later(u.din, t.din) PROVE Later(u.din, s.din)
    BY <1>1, <1>2 DEF Later
  <1>3. \A b \in X : u.block[b] = s.block[b]
    BY DEF Apart
  <1>. QED
    BY <1>2, <1>3 DEF Apart

\* Free blocks are finitely many.
LEMMA FreeFinite ==
    ASSUME NEW free \in SUBSET BLOCKS
    PROVE  /\ IsFiniteSet(free) /\ Cardinality(free) \in Nat
           /\ \A b \in free : Cardinality(free \ {b}) = Cardinality(free) - 1 /\ Cardinality(free) - 1 \in Nat
           /\ \A b \in BLOCKS \ free : Cardinality(free \cup {b}) = Cardinality(free) + 1
  <1>1. IsFiniteSet(free)
    BY FilesAssumption, FS_Subset
  <1>2. Cardinality(free) \in Nat
    BY <1>1, FS_CardinalityType
  <1>3. ASSUME NEW b \in free
        PROVE  Cardinality(free \ {b}) = Cardinality(free) - 1 /\ Cardinality(free) - 1 \in Nat
    <2>1. Cardinality(free \ {b}) = Cardinality(free) - 1 /\ IsFiniteSet(free \ {b})
      BY <1>1, FS_RemoveElement
    <2>2. Cardinality(free \ {b}) \in Nat
      BY <2>1, FS_CardinalityType
    <2>. QED
      BY <2>1, <2>2
  <1>4. \A b \in BLOCKS \ free : Cardinality(free \cup {b}) = Cardinality(free) + 1
    BY <1>1, FS_AddElement
  <1>. QED
    BY <1>1, <1>2, <1>3, <1>4

\* The indirect block is one of the blocks named.
LEMMA IndirectNamed ==
    ASSUME NEW s, NEW X, Owned(s, X)
    PROVE  /\ s.din.indirect = 0 \/ s.din.indirect \in BLOCKS \ (s.free \cup X)
           /\ NamesOf(s.block, s.din)[INDIRECT] = s.din.indirect
  <1>1. NamesOf(s.block, s.din)[INDIRECT] = s.din.indirect /\ INDIRECT \in Places
    BY NamesProps, PlaceProps
  <1>2. Covers(NamesOf(s.block, s.din), s.free, X)
    BY DEF Owned
  <1>. HIDE DEF Owned
  <1>3. PICK N : N = NamesOf(s.block, s.din)
    OBVIOUS
  <1>. QED
    BY <1>1, <1>2, <1>3 DEF Covers, Numbers

Zeros == [c \in Cells |-> 0]
Stales == [c \in Cells |-> STALE]

\* What the file holds at a place: zeros where it has no block.
HeldAt(s, p) == IF NamesOf(s.block, s.din)[p] = 0 THEN Zeros ELSE s.block[NamesOf(s.block, s.din)[p]]

Keeps(s, t) == \A p \in Places : p # INDIRECT => HeldAt(t, p) = HeldAt(s, p)

\* What two calls keep.
LEMMA KeepsThen ==
    ASSUME NEW s, NEW t, NEW u, Keeps(s, t), Keeps(t, u)
    PROVE  Keeps(s, u)
  BY Zenon DEF Keeps

\* What a call keeps that changes no names.
LEMMA KeepsNames ==
    ASSUME NEW s, NEW t, t.block = s.block, NamesOf(t.block, t.din) = NamesOf(s.block, s.din)
    PROVE  Keeps(s, t)
  BY Zenon DEF Keeps, HeldAt

\* Only blocks that the file does not name have changed.
LEMMA KeepsUnnamed ==
    ASSUME NEW s, NEW t, NEW Y, Covers(NamesOf(s.block, s.din), s.free, Y),
           NamesOf(t.block, t.din) = NamesOf(s.block, s.din),
           \A c \in BLOCKS : c \notin s.free /\ c \notin Y => t.block[c] = s.block[c]
    PROVE  Keeps(s, t)
  <1>1. PICK N : N = NamesOf(s.block, s.din)
    OBVIOUS
  <1>2. Covers(N, s.free, Y) /\ NamesOf(t.block, t.din) = N
    BY <1>1
  <1>3. ASSUME NEW p \in Places PROVE HeldAt(t, p) = HeldAt(s, p)
    <2>1. N[p] # 0 => N[p] \in BLOCKS /\ N[p] \notin s.free /\ N[p] \notin Y
      BY <1>2 DEF Covers, Numbers
    <2>2. N[p] # 0 => t.block[N[p]] = s.block[N[p]]
      BY <2>1
    <2>3. HeldAt(s, p) = IF N[p] = 0 THEN Zeros ELSE s.block[N[p]]
      BY <1>1 DEF HeldAt
    <2>4. HeldAt(t, p) = IF N[p] = 0 THEN Zeros ELSE t.block[N[p]]
      BY <1>2 DEF HeldAt
    <2>. QED
      BY <2>2, <2>3, <2>4
  <1>. QED
    BY <1>3 DEF Keeps

\* A place that named nothing names zeros, and all others what they named.
LEMMA KeepsPlace ==
    ASSUME NEW s, NEW t, NEW N, N = NamesOf(s.block, s.din), NEW M, M = NamesOf(t.block, t.din),
           NEW pl, N[pl] = 0, t.block[M[pl]] = Zeros,
           \A q \in Places : q # pl /\ q # INDIRECT =>
               M[q] = N[q] /\ (N[q] # 0 => t.block[N[q]] = s.block[N[q]])
    PROVE  Keeps(s, t)
  <1>1. ASSUME NEW p \in Places, p # INDIRECT PROVE HeldAt(t, p) = HeldAt(s, p)
    <2>1. HeldAt(s, p) = IF N[p] = 0 THEN Zeros ELSE s.block[N[p]]
      BY DEF HeldAt
    <2>2. HeldAt(t, p) = IF M[p] = 0 THEN Zeros ELSE t.block[M[p]]
      BY DEF HeldAt
    <2>. QED
      BY <1>1, <2>1, <2>2
  <1>. QED
    BY <1>1 DEF Keeps

\* Nothing but what is named has changed, and not what the file holds.
Unmoved(s, t) == t.din = s.din /\ t.dirty = s.dirty /\ t.data = s.data /\ Keeps(s, t)

GotNone(s, t, X) ==
    Owned(t, X) /\ Apart(s, t, X) /\ Unmoved(s, t) /\ t.block = s.block /\ t.ret = "nomem"

Got(s, t, X) ==
    /\ t.ret = "ok" /\ t.ino \in s.free /\ t.ino \in BLOCKS /\ t.ino \notin X
    /\ Owned(t, X \cup {t.ino}) /\ Apart(s, t, X) /\ Unmoved(s, t)
    /\ t.block = With(s.block, t.ino, Zeros)
    /\ NamesOf(t.block, t.din) = NamesOf(s.block, s.din)
    /\ t.super_dirty

\* TakeBlock, as a record.
LEMMA TakenIs ==
    ASSUME NEW s \in State, NEW b
    PROVE  TakeBlock(s, b) = Made(s.free \ {b}, s.unused - 1, TRUE, s.block, s.din, s.dirty, b, s.data, s.ret)
  <1>1. s = Made(s.free, s.unused, s.super_dirty, s.block, s.din, s.dirty, s.ino, s.data, s.ret) /\ s.unused \in Nat
    BY StateProps
  <1>2. TakeBlock(s, b) = [s EXCEPT !.free = s.free \ {b}, !.unused = s.unused - 1, !.super_dirty = TRUE, !.ino = b]
    BY <1>1, Zenon DEF TakeBlock
  <1>3. PICK u, f : u = s.unused - 1 /\ f = s.free \ {b}
    OBVIOUS
  <1>. QED
    BY <1>1, <1>2, <1>3 DEF Made

\* sfs_block_alloc: a free block becomes one of the others', and is cleared.
LEMMA Alloc ==
    ASSUME NEW X, NEW s, Owned(s, X), s.ret = "ok"
    PROVE  GotNone(s, sfs_block_alloc(s), X) \/ Got(s, sfs_block_alloc(s), X)
  <1> DEFINE t == sfs_block_alloc(s)
  <1>1. /\ s \in State /\ s.unused = Cardinality(s.free) /\ s.din.blocks <= INDIRECT
        /\ Covers(NamesOf(s.block, s.din), s.free, X)
        /\ Filled(NamesOf(s.block, s.din), s.din.blocks)
    BY DEF Owned
  <1>2. /\ s = Made(s.free, s.unused, s.super_dirty, s.block, s.din, s.dirty, s.ino, s.data, s.ret)
        /\ s.free \in SUBSET BLOCKS /\ s.unused \in Nat /\ s.super_dirty \in BOOLEAN /\ s.block \in Disk
        /\ s.din \in Dinode /\ s.dirty \in BOOLEAN /\ s.ino \in Numbers /\ s.data \in Seq(Byte)
    BY <1>1, StateProps
  <1>3. CASE s.free = {}
    <2>1. t = Made(s.free, s.unused, s.super_dirty, s.block, s.din, s.dirty, s.ino, s.data, "nomem")
      BY <1>2, <1>3 DEF sfs_block_alloc, Made
    <2>. HIDE DEF t
    <2>2. /\ t.free = s.free /\ t.unused = s.unused /\ t.super_dirty = s.super_dirty /\ t.block = s.block
          /\ t.din = s.din /\ t.dirty = s.dirty /\ t.ino = s.ino /\ t.data = s.data /\ t.ret = "nomem"
      BY <2>1, MadeFields
    <2>3. t \in State
      <3>1. "nomem" \in Outcomes
        BY DEF Outcomes
      <3>. QED
        BY <1>2, <2>1, <3>1, MadeState
    <2>4. Owned(t, X)
      BY <1>1, <2>2, <2>3 DEF Owned
    <2>5. Apart(s, t, X)
      BY <1>1, <2>2, ApartSame
    <2>6. Keeps(s, t)
      BY <2>2, KeepsNames
    <2>. QED
      BY <2>2, <2>4, <2>5, <2>6 DEF GotNone, Unmoved, t
  <1>4. CASE s.free # {}
    <2> DEFINE b == LowestFree(s)
    <2>1. b \in s.free
      <3>1. s.free \in SUBSET Nat
        BY <1>2, SfsAssumption
      <3>2. \E c \in s.free : \A a \in s.free : c <= a
        BY <1>4, <3>1, NatMin
      <3>. QED
        BY <3>2 DEF LowestFree
    <2>2. t = Made(s.free \ {b}, s.unused - 1, TRUE, With(s.block, b, Zeros), s.din, s.dirty, b, s.data, s.ret)
      <3>. HIDE DEF b
      <3>1. TakeBlock(s, b) = Made(s.free \ {b}, s.unused - 1, TRUE, s.block, s.din, s.dirty, b, s.data, s.ret)
        BY <1>1, TakenIs
      <3>2. [s.block EXCEPT ![b] = Zeros] = With(s.block, b, Zeros)
        BY <1>2 DEF With, Disk
      <3> DEFINE u == TakeBlock(s, b)
      <3>3. t = [u EXCEPT !.block[u.ino] = Zeros]
        BY <1>4, Zenon DEF sfs_block_alloc, Zeros, b
      <3>. HIDE DEF u
      <3>4. u = Made(s.free \ {b}, s.unused - 1, TRUE, s.block, s.din, s.dirty, b, s.data, s.ret)
        BY <3>1 DEF u
      <3>5. t = Made(s.free \ {b}, s.unused - 1, TRUE, [s.block EXCEPT ![b] = Zeros], s.din, s.dirty, b, s.data, s.ret)
        BY <3>3, <3>4 DEF Made
      <3>. QED
        BY <3>2, <3>5
    <2>. HIDE DEF t, b
    <2>3. /\ t.free = s.free \ {b} /\ t.unused = s.unused - 1 /\ t.super_dirty = TRUE
          /\ t.block = With(s.block, b, Zeros)
          /\ t.din = s.din /\ t.dirty = s.dirty /\ t.ino = b /\ t.data = s.data /\ t.ret = "ok"
      BY <2>2 DEF Made
    <2>4. b \in BLOCKS /\ b \notin X
      BY <1>1, <2>1, CoversTaken
    <2>5. /\ With(s.block, b, Zeros) \in Disk
          /\ \A c \in BLOCKS : c # b => With(s.block, b, Zeros)[c] = s.block[c]
      <3>1. Zeros \in [Cells -> Byte]
        BY DEF Zeros, Byte
      <3>. QED
        BY <1>2, <2>4, <3>1, WithProps
    <2>6. t.unused = Cardinality(t.free) /\ t.unused \in Nat
      <3>1. Cardinality(s.free \ {b}) = Cardinality(s.free) - 1 /\ Cardinality(s.free) - 1 \in Nat
        BY <1>2, <2>1, FreeFinite
      <3>. QED
        BY <1>1, <2>3, <3>1
    <2>7. t \in State
      <3>1. "ok" \in Outcomes /\ TRUE \in BOOLEAN /\ b \in Numbers /\ s.free \ {b} \in SUBSET BLOCKS
        BY <1>2, <2>4 DEF Outcomes, Numbers
      <3>2. s.unused - 1 \in Nat /\ s.ret = "ok"
        BY <2>3, <2>6
      <3>. QED
        BY <1>2, <2>2, <2>5, <3>1, <3>2, MadeState
    <2>8. NamesOf(t.block, t.din) = NamesOf(s.block, s.din)
      <3>1. s.din.indirect = 0 \/ t.block[s.din.indirect] = s.block[s.din.indirect]
        BY <2>1, <2>3, <2>5, IndirectNamed
      <3>. QED
        BY <2>3, <3>1, NamesSame
    <2>9. Covers(NamesOf(t.block, t.din), t.free, X \cup {b})
      BY <1>1, <2>1, <2>3, <2>8, CoversTaken
    <2>10. Owned(t, X \cup {b})
      BY <1>1, <2>3, <2>6, <2>7, <2>8, <2>9 DEF Owned
    <2>11. Apart(s, t, X)
      <3>1. X \in SUBSET BLOCKS
        BY <1>1 DEF Covers
      <3>2. \A c \in X : t.block[c] = s.block[c]
        BY <2>3, <2>4, <2>5, <3>1, Zenon
      <3>3. s.din.blocks \in Nat
        BY <1>2, DinProps
      <3>. QED
        BY <2>3, <3>2, <3>3 DEF Apart, Later
    <2>13. Keeps(s, t)
      <3>1. \A c \in BLOCKS : c \notin s.free /\ c \notin X => t.block[c] = s.block[c]
        BY <2>1, <2>3, <2>5
      <3>. QED
        BY <1>1, <2>8, <3>1, KeepsUnnamed
    <2>12. Got(s, t, X)
      BY <2>1, <2>3, <2>4, <2>8, <2>10, <2>11, <2>13 DEF Got, Unmoved
    <2>. QED
      BY <2>12 DEF t
  <1>. QED
    BY <1>3, <1>4

\* Block b of nobody else becomes free, as it is named nowhere.
GivenBack(s, t, X) ==
    /\ Owned(t, X) /\ Apart(s, t, X) /\ Unmoved(s, t) /\ t.super_dirty /\ t.ret = s.ret

\* What sfs_block_free does when it goes well.
Freed(s, b) ==
    Made(s.free \cup {b}, s.unused + 1, TRUE, With(s.block, b, Stales), s.din, s.dirty, s.ino, s.data, s.ret)

\* sfs_block_free does not stop at its assertion.
LEMMA FreedIs ==
    ASSUME NEW s \in State, NEW b \in BLOCKS, b \notin s.free
    PROVE  sfs_block_free(s, b) = Freed(s, b)
  <1>1. /\ s = Made(s.free, s.unused, s.super_dirty, s.block, s.din, s.dirty, s.ino, s.data, s.ret)
        /\ s.block \in Disk
    BY StateProps
  <1>2. b # 0
    BY SfsAssumption
  <1>3. [s.block EXCEPT ![b] = Stales] = With(s.block, b, Stales)
    BY <1>1 DEF With, Disk
  <1>4. sfs_block_free(s, b) = [s EXCEPT !.free = @ \cup {b}, !.unused = @ + 1, !.super_dirty = TRUE,
                                         !.block[b] = Stales]
    BY <1>2, Zenon DEF sfs_block_free, Stales
  <1>5. sfs_block_free(s, b) = Made(s.free \cup {b}, s.unused + 1, TRUE, [s.block EXCEPT ![b] = Stales],
                                    s.din, s.dirty, s.ino, s.data, s.ret)
    BY <1>1, <1>4 DEF Made
  <1>. QED
    BY <1>3, <1>5 DEF Freed

IsFreed(s, t, b) ==
    /\ t \in State /\ t.unused = Cardinality(t.free)
    /\ t.free = s.free \cup {b} /\ t.super_dirty = TRUE /\ t.din = s.din /\ t.dirty = s.dirty
    /\ t.ino = s.ino /\ t.data = s.data /\ t.ret = s.ret
    /\ \A c \in BLOCKS : c # b => t.block[c] = s.block[c]

\* What it leaves.
LEMMA FreedProps ==
    ASSUME NEW s \in State, s.unused = Cardinality(s.free), NEW b \in BLOCKS, b \notin s.free,
           NEW t, t = Freed(s, b)
    PROVE  IsFreed(s, t, b)
  <1>1. /\ s.free \in SUBSET BLOCKS /\ s.unused \in Nat /\ s.block \in Disk
        /\ s.din \in Dinode /\ s.dirty \in BOOLEAN /\ s.ino \in Numbers /\ s.data \in Seq(Byte) /\ s.ret \in Outcomes
    BY StateProps
  <1>2. /\ t.free = s.free \cup {b} /\ t.unused = s.unused + 1 /\ t.super_dirty = TRUE
        /\ t.block = With(s.block, b, Stales)
        /\ t.din = s.din /\ t.dirty = s.dirty /\ t.ino = s.ino /\ t.data = s.data /\ t.ret = s.ret
    BY DEF Freed, Made
  <1>3. /\ With(s.block, b, Stales) \in Disk
        /\ \A c \in BLOCKS : c # b => With(s.block, b, Stales)[c] = s.block[c]
    <2>1. Stales \in [Cells -> Byte]
      BY DEF Stales, Byte
    <2>. QED
      BY <1>1, <2>1, WithProps
  <1>4. t.unused = Cardinality(t.free)
    BY <1>1, <1>2, FreeFinite
  <1>5. t \in State
    <2>1. TRUE \in BOOLEAN /\ s.free \cup {b} \in SUBSET BLOCKS /\ s.unused + 1 \in Nat
      BY <1>1
    <2>. QED
      BY <1>1, <1>3, <2>1, MadeState DEF Freed
  <1>. QED
    BY <1>2, <1>3, <1>4, <1>5 DEF IsFreed

\* sfs_block_free: a block that only others name becomes free.
LEMMA GiveBack ==
    ASSUME NEW X, NEW s, NEW b \in BLOCKS, b \notin X, Owned(s, X \cup {b})
    PROVE  GivenBack(s, sfs_block_free(s, b), X)
  <1> DEFINE t == sfs_block_free(s, b)
  <1>1. /\ s \in State /\ s.unused = Cardinality(s.free) /\ s.din.blocks <= INDIRECT
        /\ Covers(NamesOf(s.block, s.din), s.free, X \cup {b})
        /\ Filled(NamesOf(s.block, s.din), s.din.blocks)
    BY DEF Owned
  <1>2. b \notin s.free /\ Covers(NamesOf(s.block, s.din), s.free \cup {b}, X)
    BY <1>1, CoversFreed
  <1>3. t = Freed(s, b)
    BY <1>1, <1>2, FreedIs
  <1>. HIDE DEF t
  <1>4. /\ t \in State /\ t.unused = Cardinality(t.free)
        /\ t.free = s.free \cup {b} /\ t.super_dirty = TRUE /\ t.din = s.din /\ t.dirty = s.dirty
        /\ t.ino = s.ino /\ t.data = s.data /\ t.ret = s.ret
        /\ \A c \in BLOCKS : c # b => t.block[c] = s.block[c]
    <2>1. s \in State /\ s.unused = Cardinality(s.free) /\ b \notin s.free /\ t = Freed(s, b)
      BY <1>1, <1>2, <1>3
    <2>2. IsFreed(s, t, b)
      BY <2>1, FreedProps
    <2>. QED
      BY <2>2 DEF IsFreed
  <1>5. NamesOf(t.block, t.din) = NamesOf(s.block, s.din)
    <2>1. s.din.indirect = 0 \/ t.block[s.din.indirect] = s.block[s.din.indirect]
      BY <1>4, IndirectNamed
    <2>. QED
      BY <1>4, <2>1, NamesSame
  <1>6. Owned(t, X)
    BY <1>1, <1>2, <1>4, <1>5 DEF Owned
  <1>7. Apart(s, t, X)
    <2>1. X \in SUBSET BLOCKS
      BY <1>2 DEF Covers
    <2>2. \A c \in X : t.block[c] = s.block[c]
      BY <1>4, <2>1, Zenon
    <2>3. s.din.blocks \in Nat
      BY <1>1, StateProps, DinProps
    <2>. QED
      BY <1>4, <2>2, <2>3 DEF Apart, Later
  <1>9. Keeps(s, t)
    <2>1. \A c \in BLOCKS : c \notin s.free /\ c \notin X \cup {b} => t.block[c] = s.block[c]
      BY <1>4
    <2>2. PICK Y : Y = X \cup {b}
      OBVIOUS
    <2>. QED
      BY <1>1, <1>5, <2>1, <2>2, KeepsUnnamed
  <1>8. GivenBack(s, t, X)
    BY <1>4, <1>6, <1>7, <1>9 DEF GivenBack, Unmoved
  <1>. QED
    BY <1>8 DEF t

-----------------------------------------------------------------------------
(* The map from positions to blocks.                                        *)

\* Only ino and ret differ.
Same(s, t) ==
    /\ t \in State /\ t.free = s.free /\ t.unused = s.unused /\ t.super_dirty = s.super_dirty
    /\ t.block = s.block /\ t.din = s.din /\ t.dirty = s.dirty /\ t.data = s.data

\* Where only ino, data or the outcome changes.
LEMMA SameOwned ==
    ASSUME NEW s, NEW t, NEW X, Owned(s, X), Same(s, t)
    PROVE  Owned(t, X) /\ Apart(s, t, X) /\ Unmoved(s, t)
  <1>1. Owned(t, X)
    BY DEF Owned, Same
  <1>2. Apart(s, t, X)
    <2>1. s \in State
      BY DEF Owned
    <2>. QED
      BY <2>1, ApartSame DEF Same
  <1>3. Keeps(s, t)
    <2>1. t.block = s.block /\ t.din = s.din
      BY DEF Same
    <2>. QED
      BY <2>1, KeepsNames
  <1>. QED
    BY <1>1, <1>2, <1>3 DEF Unmoved, Same

\* A block found.
LEMMA WithIno ==
    ASSUME NEW s \in State, NEW x \in Numbers
    PROVE  /\ Same(s, [s EXCEPT !.ino = x])
           /\ [s EXCEPT !.ino = x].ino = x /\ [s EXCEPT !.ino = x].ret = s.ret
  BY DEF Same, State

\* An outcome.
LEMMA WithRet ==
    ASSUME NEW s \in State, NEW x \in Outcomes
    PROVE  /\ Same(s, [s EXCEPT !.ret = x])
           /\ [s EXCEPT !.ret = x].ino = s.ino /\ [s EXCEPT !.ret = x].ret = x
  BY DEF Same, State

\* Block b.ino goes to entry k of the indirect block ent.
Linked(b, ent, k, dirty) ==
    Made(b.free, b.unused, b.super_dirty, With(b.block, ent, WithEntry(b.block[ent], k, b.ino)),
         MadeDin(b.din.size, b.din.blocks, b.din.direct, ent), dirty, b.ino, b.data, b.ret)

Updated(s, B, D, E) == [s EXCEPT !.block = B, !.din = D, !.dirty = E]

\* A record with another block, inode and dirty mark.
LEMMA MadeExcept ==
    ASSUME NEW free, NEW unused, NEW super_dirty, NEW block, NEW din, NEW dirty, NEW ino, NEW data, NEW ret,
           NEW s, s = Made(free, unused, super_dirty, block, din, dirty, ino, data, ret),
           NEW B, NEW D, NEW E
    PROVE  Updated(s, B, D, E) = Made(free, unused, super_dirty, B, D, E, ino, data, ret)
  <1>1. Updated(s, B, D, E) = [[[s EXCEPT !.block = B] EXCEPT !.din = D] EXCEPT !.dirty = E]
    BY Zenon DEF Made, Updated
  <1>2. PICK t : t = [s EXCEPT !.block = B]
    OBVIOUS
  <1>3. PICK u : u = [t EXCEPT !.din = D]
    OBVIOUS
  <1>4. t = Made(free, unused, super_dirty, B, din, dirty, ino, data, ret)
    BY <1>2, MadeField
  <1>5. u = Made(free, unused, super_dirty, B, D, dirty, ino, data, ret)
    BY <1>3, <1>4, MadeField
  <1>6. [u EXCEPT !.dirty = E] = Made(free, unused, super_dirty, B, D, E, ino, data, ret)
    BY <1>5, MadeField
  <1>. QED
    BY <1>1, <1>2, <1>3, <1>6

LinkOf(b, ent, k, x) == [b EXCEPT !.block[ent][k] = b.ino, !.din.indirect = ent, !.dirty = @ \/ x]

\* An entry written and its block linked, as a record.
LEMMA LinkedIs ==
    ASSUME NEW b \in State, NEW ent \in BLOCKS, NEW k \in Cells, NEW x \in BOOLEAN,
           NEW dirty, dirty = (b.dirty \/ x)
    PROVE  LinkOf(b, ent, k, x) = Linked(b, ent, k, dirty)
  <1>1. /\ b = Made(b.free, b.unused, b.super_dirty, b.block, b.din, b.dirty, b.ino, b.data, b.ret)
        /\ b.block \in Disk /\ b.din \in Dinode
    BY StateProps
  <1>2. b.din = MadeDin(b.din.size, b.din.blocks, b.din.direct, b.din.indirect)
    BY <1>1, DinProps
  <1>3. [b.block EXCEPT ![ent][k] = b.ino] = With(b.block, ent, WithEntry(b.block[ent], k, b.ino))
    BY <1>1 DEF With, WithEntry, Disk
  <1>4. [b.din EXCEPT !.indirect = ent] = MadeDin(b.din.size, b.din.blocks, b.din.direct, ent)
    BY <1>2 DEF MadeDin
  <1>5. LinkOf(b, ent, k, x) =
            Made(b.free, b.unused, b.super_dirty, [b.block EXCEPT ![ent][k] = b.ino],
                 [b.din EXCEPT !.indirect = ent], dirty, b.ino, b.data, b.ret)
    <2>1. PICK B, D, E : B = [b.block EXCEPT ![ent][k] = b.ino] /\ D = [b.din EXCEPT !.indirect = ent] /\ E = dirty
      OBVIOUS
    <2>2. LinkOf(b, ent, k, x) = Updated(b, B, D, E)
      BY <2>1, Zenon DEF Updated, LinkOf
    <2>3. Updated(b, B, D, E) =
              Made(b.free, b.unused, b.super_dirty, B, D, E, b.ino, b.data, b.ret)
      BY <1>1, MadeExcept
    <2>. QED
      BY <2>1, <2>2, <2>3, Zenon
  <1>. QED
    BY <1>3, <1>4, <1>5 DEF Linked

IsLinked(b, t, ent, k, dirty) ==
    /\ t \in State /\ t.free = b.free /\ t.unused = b.unused /\ t.super_dirty = b.super_dirty
    /\ t.block[ent][k] = b.ino /\ \A l \in Cells : l # k => t.block[ent][l] = b.block[ent][l]
    /\ \A c \in BLOCKS : c # ent => t.block[c] = b.block[c]
    /\ t.din.size = b.din.size /\ t.din.blocks = b.din.blocks /\ t.din.direct = b.din.direct
    /\ t.din.indirect = ent
    /\ t.dirty = dirty /\ t.ino = b.ino /\ t.data = b.data /\ t.ret = b.ret

\* What it holds.
LEMMA LinkedProps ==
    ASSUME NEW b \in State, NEW ent \in BLOCKS, NEW k \in Cells, NEW dirty \in BOOLEAN,
           NEW t, t = Linked(b, ent, k, dirty)
    PROVE  IsLinked(b, t, ent, k, dirty)
  <1>1. /\ b.free \in SUBSET BLOCKS /\ b.unused \in Nat /\ b.super_dirty \in BOOLEAN /\ b.block \in Disk
        /\ b.din \in Dinode /\ b.ino \in Numbers /\ b.data \in Seq(Byte) /\ b.ret \in Outcomes
    BY StateProps
  <1>2. /\ b.din.size \in Nat /\ b.din.blocks \in Nat /\ b.din.direct \in [Slots -> Numbers]
    BY <1>1, DinProps
  <1>3. PICK x : x = WithEntry(b.block[ent], k, b.ino)
    OBVIOUS
  <1>4. x \in [Cells -> Byte] /\ x[k] = b.ino /\ \A l \in Cells : l # k => x[l] = b.block[ent][l]
    <2>1. b.block[ent] \in [Cells -> Byte]
      BY <1>1 DEF Disk
    <2>. QED
      BY <1>1, <1>3, <2>1, EntryProps
  <1>5. PICK y : y = With(b.block, ent, x)
    OBVIOUS
  <1>6. y \in Disk /\ y[ent] = x /\ \A c \in BLOCKS : c # ent => y[c] = b.block[c]
    BY <1>1, <1>4, <1>5, WithProps
  <1>7. PICK d : d = MadeDin(b.din.size, b.din.blocks, b.din.direct, ent)
    OBVIOUS
  <1>8. /\ d \in Dinode /\ d.size = b.din.size /\ d.blocks = b.din.blocks /\ d.direct = b.din.direct
        /\ d.indirect = ent
    <2>1. ent \in Numbers
      BY DEF Numbers
    <2>. QED
      BY <1>2, <1>7, <2>1, MadeDinode
  <1>9. t = Made(b.free, b.unused, b.super_dirty, y, d, dirty, b.ino, b.data, b.ret)
    BY <1>3, <1>5, <1>7 DEF Linked
  <1>10. /\ t.free = b.free /\ t.unused = b.unused /\ t.super_dirty = b.super_dirty
         /\ t.block = y /\ t.din = d /\ t.dirty = dirty /\ t.ino = b.ino /\ t.data = b.data /\ t.ret = b.ret
    BY <1>9, MadeFields
  <1>11. t \in State
    BY <1>1, <1>6, <1>8, <1>9, MadeState
  <1>. QED
    BY <1>4, <1>6, <1>8, <1>10, <1>11 DEF IsLinked

\* An entry named nothing and the indirect block is there.
LEMMA LinkEntry ==
    ASSUME NEW X, NEW b, NEW c \in BLOCKS, c \notin X, c = b.ino, Owned(b, X \cup {c}),
           NEW ent \in BLOCKS, ent = b.din.indirect, NEW k \in Entries,
           NamesOf(b.block, b.din)[SFS_NDIRECT + k] = 0, b.block[c] = Zeros,
           NEW t, IsLinked(b, t, ent, k, b.dirty)
    PROVE  /\ Owned(t, X) /\ Apart(b, t, X) /\ Keeps(b, t)
           /\ NamesOf(t.block, t.din)[SFS_NDIRECT + k] = c
  <1>1. /\ b \in State /\ b.unused = Cardinality(b.free) /\ b.din.blocks <= INDIRECT
        /\ Covers(NamesOf(b.block, b.din), b.free, X \cup {c})
        /\ Filled(NamesOf(b.block, b.din), b.din.blocks)
    BY DEF Owned
  <1>2. PICK N : N = NamesOf(b.block, b.din)
    OBVIOUS
  <1>3. PICK M : M = NamesOf(t.block, t.din)
    OBVIOUS
  <1>4. k \in Cells /\ SFS_NDIRECT + k \in Places /\ ent # 0 /\ c # 0
    BY PlaceProps, SfsAssumption
  <1>5. /\ \A i \in Slots : M[i] = N[i]
        /\ M[INDIRECT] = N[INDIRECT]
        /\ \A l \in Entries : l # k => M[SFS_NDIRECT + l] = N[SFS_NDIRECT + l]
        /\ M[SFS_NDIRECT + k] = c
    <2>1. \A i \in Slots : M[i] = N[i]
      BY <1>2, <1>3, NamesProps DEF IsLinked
    <2>2. M[INDIRECT] = N[INDIRECT]
      BY <1>2, <1>3, NamesProps DEF IsLinked
    <2>3. \A l \in Entries : /\ M[SFS_NDIRECT + l] = t.block[ent][l]
                             /\ N[SFS_NDIRECT + l] = b.block[ent][l]
      BY <1>2, <1>3, <1>4, NamesProps DEF IsLinked
    <2>4. \A l \in Entries : l \in Cells
      BY PlaceProps
    <2>. QED
      BY <2>1, <2>2, <2>3, <2>4 DEF IsLinked
  <1>6. \A q \in Places : q # SFS_NDIRECT + k => M[q] = N[q]
    <2>1. ASSUME NEW q \in Places, q # SFS_NDIRECT + k PROVE M[q] = N[q]
      <3>1. CASE q - SFS_NDIRECT \in Entries /\ q = SFS_NDIRECT + (q - SFS_NDIRECT)
        <4>1. PICK l : l = q - SFS_NDIRECT
          OBVIOUS
        <4>. QED
          BY <1>5, <2>1, <3>1, <4>1
      <3>. QED
        BY <1>5, <3>1, PlaceProps
    <2>. QED
      BY <2>1
  <1>7. Covers(N, b.free, X \cup {c}) /\ N[SFS_NDIRECT + k] = 0
    BY <1>1, <1>2
  <1>8. M \in [Places -> Numbers]
    <2>1. N \in [Places -> Numbers]
      BY <1>7 DEF Covers
    <2>2. \A q \in Places : M[q] \in Numbers
      BY <1>5, <1>6, <2>1 DEF Numbers
    <2>. QED
      BY <1>3, <2>2 DEF NamesOf
  <1>9. Covers(M, b.free, X)
    <2>1. PICK pl : pl = SFS_NDIRECT + k
      OBVIOUS
    <2>. QED
      BY <1>4, <1>5, <1>6, <1>7, <1>8, <2>1, CoversLinked
  <1>10. Filled(M, b.din.blocks)
    <2>1. \A q \in Places : M[q] = N[q] \/ M[q] # 0
      BY <1>4, <1>5, <1>6
    <2>. QED
      BY <1>1, <1>2, <2>1 DEF Filled
  <1>11. Owned(t, X)
    BY <1>1, <1>3, <1>9, <1>10 DEF Owned, IsLinked
  <1>12. Apart(b, t, X)
    <2>1. ent \notin X
      BY <1>4, IndirectNamed
    <2>2. X \in SUBSET BLOCKS
      BY <1>9 DEF Covers
    <2>3. \A e \in X : t.block[e] = b.block[e]
      BY <2>1, <2>2 DEF IsLinked
    <2>4. b.din.blocks \in Nat
      BY <1>1, StateProps, DinProps
    <2>. QED
      BY <2>3, <2>4 DEF Apart, Later, IsLinked
  <1>13. Keeps(b, t)
    <2>1. PICK pl : pl = SFS_NDIRECT + k
      OBVIOUS
    <2>2. INDIRECT \in Places /\ N[INDIRECT] = ent
      BY <1>2, PlaceProps, IndirectNamed
    <2>3. \A q \in Places : q # INDIRECT => N[q] # ent
      BY <1>4, <1>7, <2>2 DEF Covers
    <2>4. \A q \in Places : N[q] # 0 => N[q] \in BLOCKS /\ N[q] # c
      BY <1>7 DEF Covers, Numbers
    <2>5. \A q \in Places : q # INDIRECT /\ N[q] # 0 => t.block[N[q]] = b.block[N[q]]
      BY <2>3, <2>4 DEF IsLinked
    <2>6. c # ent
      BY <1>4, <2>2, <2>4
    <2>7. t.block[c] = Zeros
      BY <2>6 DEF IsLinked
    <2>8. N[pl] = 0 /\ t.block[M[pl]] = Zeros
      BY <1>5, <1>7, <2>1, <2>7
    <2>9. \A q \in Places : q # pl /\ q # INDIRECT =>
              M[q] = N[q] /\ (N[q] # 0 => t.block[N[q]] = b.block[N[q]])
      BY <1>6, <2>1, <2>5
    <2>. QED
      BY <1>2, <1>3, <2>8, <2>9, KeepsPlace
  <1>. QED
    BY <1>3, <1>5, <1>11, <1>12, <1>13

\* There was no indirect block, and ent, which is cleared, is it now.
IndirectGot(b, t, X, ent, c, k) ==
    /\ ent \in BLOCKS /\ ent \notin X /\ c \in BLOCKS /\ c \notin X \cup {ent} /\ c = b.ino
    /\ Owned(b, (X \cup {ent}) \cup {c})
    /\ b.din.indirect = 0 /\ b.block[c] = Zeros /\ \A l \in Entries : b.block[ent][l] = 0
    /\ IsLinked(b, t, ent, k, t.dirty) /\ t.dirty /\ b.super_dirty

\* A block got for an entry, with the indirect block it may have needed, is named by it.
LEMMA LinkIndirect ==
    ASSUME NEW X, NEW b, NEW t, NEW ent, NEW c, NEW k \in Entries, IndirectGot(b, t, X, ent, c, k)
    PROVE  /\ Owned(t, X) /\ Apart(b, t, X) /\ Keeps(b, t)
           /\ NamesOf(t.block, t.din)[SFS_NDIRECT + k] = c
  <1>0. /\ ent \in BLOCKS /\ ent \notin X /\ c \in BLOCKS /\ c \notin X \cup {ent} /\ c = b.ino
        /\ Owned(b, (X \cup {ent}) \cup {c})
        /\ b.din.indirect = 0 /\ b.block[c] = Zeros /\ \A l \in Entries : b.block[ent][l] = 0
        /\ IsLinked(b, t, ent, k, t.dirty) /\ t.dirty /\ b.super_dirty
    BY DEF IndirectGot
  <1>1. /\ b \in State /\ b.unused = Cardinality(b.free) /\ b.din.blocks <= INDIRECT
        /\ Covers(NamesOf(b.block, b.din), b.free, (X \cup {ent}) \cup {c})
        /\ Filled(NamesOf(b.block, b.din), b.din.blocks)
    BY <1>0 DEF Owned
  <1>2. PICK N : N = NamesOf(b.block, b.din)
    OBVIOUS
  <1>3. PICK M : M = NamesOf(t.block, t.din)
    OBVIOUS
  <1>4. k \in Cells /\ SFS_NDIRECT + k \in Places /\ INDIRECT \in Places /\ SFS_NDIRECT + k # INDIRECT /\ ent # 0 /\ c # 0
    BY <1>0, PlaceProps, SfsAssumption
  <1>5. /\ \A i \in Slots : M[i] = N[i]
        /\ M[INDIRECT] = ent /\ N[INDIRECT] = 0
        /\ \A l \in Entries : /\ N[SFS_NDIRECT + l] = 0
                              /\ l # k => M[SFS_NDIRECT + l] = 0
        /\ M[SFS_NDIRECT + k] = c
    <2>1. \A i \in Slots : M[i] = N[i]
      BY <1>0, <1>2, <1>3, NamesProps DEF IsLinked
    <2>2. M[INDIRECT] = ent /\ N[INDIRECT] = 0
      BY <1>0, <1>2, <1>3, NamesProps DEF IsLinked
    <2>3. \A l \in Entries : /\ M[SFS_NDIRECT + l] = t.block[ent][l]
                             /\ N[SFS_NDIRECT + l] = 0
      BY <1>0, <1>2, <1>3, <1>4, NamesProps DEF IsLinked
    <2>4. \A l \in Entries : l \in Cells
      BY PlaceProps
    <2>. QED
      BY <1>0, <2>1, <2>2, <2>3, <2>4 DEF IsLinked
  <1>6. PICK pl : pl = SFS_NDIRECT + k
    OBVIOUS
  <1>7. \A q \in Places : q # pl /\ q # INDIRECT => M[q] = N[q]
    <2>1. ASSUME NEW q \in Places, q # pl, q # INDIRECT PROVE M[q] = N[q]
      <3>1. CASE q - SFS_NDIRECT \in Entries /\ q = SFS_NDIRECT + (q - SFS_NDIRECT)
        <4>1. PICK l : l = q - SFS_NDIRECT
          OBVIOUS
        <4>. QED
          BY <1>5, <1>6, <2>1, <3>1, <4>1
      <3>. QED
        BY <1>5, <2>1, <3>1, PlaceProps
    <2>. QED
      BY <2>1
  <1>8. pl \in Places /\ INDIRECT \in Places /\ pl # INDIRECT /\ N[pl] = 0 /\ M[pl] = c /\ M[INDIRECT] = ent /\ N[INDIRECT] = 0
    BY <1>4, <1>5, <1>6
  <1>9. PICK Z : Z = X \cup {c}
    OBVIOUS
  <1>10. Covers(N, b.free, Z \cup {ent}) /\ N \in [Places -> Numbers]
    <2>1. (X \cup {ent}) \cup {c} = Z \cup {ent}
      BY <1>9
    <2>2. Covers(N, b.free, (X \cup {ent}) \cup {c})
      BY <1>1, <1>2
    <2>. QED
      BY <2>1, <2>2 DEF Covers
  <1>11. PICK L : L = [q \in Places |-> IF q = INDIRECT THEN ent ELSE N[q]]
    OBVIOUS
  <1>12. /\ L \in [Places -> Numbers] /\ L[INDIRECT] = ent /\ L[pl] = 0
         /\ \A q \in Places : q # INDIRECT => L[q] = N[q]
         /\ \A q \in Places : q # pl => M[q] = L[q]
    BY <1>0, <1>7, <1>8, <1>10, <1>11 DEF Numbers
  <1>13. Covers(L, b.free, Z)
    <2>1. ent \notin Z /\ ent \in BLOCKS
      BY <1>0, <1>9
    <2>2. /\ INDIRECT \in Places /\ N[INDIRECT] = 0 /\ L \in [Places -> Numbers] /\ L[INDIRECT] = ent
          /\ \A q \in Places : q # INDIRECT => L[q] = N[q]
      BY <1>8, <1>12
    <2>. QED
      BY <1>10, <2>1, <2>2, CoversLinked
  <1>14. M \in [Places -> Numbers]
    <2>1. \A q \in Places : M[q] \in Numbers
      BY <1>0, <1>8, <1>12 DEF Numbers
    <2>. QED
      BY <1>3, <2>1 DEF NamesOf
  <1>15. Covers(M, b.free, X)
    <2>1. c \notin X /\ c \in BLOCKS
      BY <1>0
    <2>2. /\ pl \in Places /\ L[pl] = 0 /\ M \in [Places -> Numbers] /\ M[pl] = c
          /\ \A q \in Places : q # pl => M[q] = L[q]
      BY <1>8, <1>12, <1>14
    <2>3. Covers(L, b.free, X \cup {c})
      BY <1>9, <1>13
    <2>. QED
      BY <2>1, <2>2, <2>3, CoversLinked
  <1>16. Filled(M, b.din.blocks)
    <2>1. \A q \in Places : M[q] = N[q] \/ M[q] # 0
      BY <1>4, <1>7, <1>8
    <2>. QED
      BY <1>1, <1>2, <2>1 DEF Filled
  <1>17. Owned(t, X)
    BY <1>0, <1>1, <1>3, <1>15, <1>16 DEF Owned, IsLinked
  <1>18. Apart(b, t, X)
    <2>1. X \in SUBSET BLOCKS
      BY <1>15 DEF Covers
    <2>2. \A e \in X : t.block[e] = b.block[e]
      BY <1>0, <2>1 DEF IsLinked
    <2>. QED
      BY <1>0, <2>2 DEF Apart, IsLinked
  <1>19. Keeps(b, t)
    <2>1. \A q \in Places : N[q] # 0 => N[q] \in BLOCKS /\ N[q] # ent
      BY <1>9, <1>10 DEF Covers, Numbers
    <2>2. \A q \in Places : N[q] # 0 => t.block[N[q]] = b.block[N[q]]
      BY <1>0, <2>1 DEF IsLinked
    <2>3. t.block[c] = Zeros
      BY <1>0 DEF IsLinked
    <2>4. N[pl] = 0 /\ t.block[M[pl]] = Zeros
      BY <1>8, <2>3
    <2>5. \A q \in Places : q # pl /\ q # INDIRECT =>
              M[q] = N[q] /\ (N[q] # 0 => t.block[N[q]] = b.block[N[q]])
      BY <1>7, <2>2
    <2>. QED
      BY <1>2, <1>3, <2>4, <2>5, KeepsPlace
  <1>. QED
    BY <1>3, <1>5, <1>17, <1>18, <1>19

\* Entry k is filled, if there is a block for it.
Entered(s, t, X, k) ==
    /\ Owned(t, X) /\ Apart(s, t, X) /\ Keeps(s, t) /\ t.data = s.data
    /\ t.din.blocks = s.din.blocks /\ t.din.size = s.din.size
    /\ t.ret \in {"ok", "nomem"}
    /\ t.ret = "ok" => t.ino = NamesOf(t.block, t.din)[SFS_NDIRECT + k] /\ t.ino # 0

\* After a call that others do not see.
LEMMA EnteredThen ==
    ASSUME NEW s, NEW a, NEW X, NEW k, Owned(s, X), Owned(a, X), Apart(s, a, X), Unmoved(s, a),
           NEW t, Entered(a, t, X, k)
    PROVE  Entered(s, t, X, k)
  <1>1. s \in State /\ a \in State /\ t \in State /\ X \subseteq X
    BY DEF Owned, Entered
  <1>2. Apart(a, t, X)
    BY DEF Entered
  <1>3. Apart(s, t, X)
    BY <1>1, <1>2, ApartThen
  <1>4. Keeps(s, t)
    <2>1. Keeps(s, a) /\ Keeps(a, t)
      BY DEF Entered, Unmoved
    <2>. QED
      BY <2>1, KeepsThen
  <1>. QED
    BY <1>3, <1>4 DEF Entered, Unmoved

\* The two outcomes of FillEntry.
LEMMA FillCases ==
    ASSUME NEW s, NEW a, NEW ent, NEW k, NEW b, b = sfs_block_alloc(a),
           NEW x, x = (ent # s.din.indirect)
    PROVE  /\ b.ret # "ok" => FillEntry(s, a, ent, k) = Cleanup(s, ent, b)
           /\ b.ret = "ok" => FillEntry(s, a, ent, k) = LinkOf(b, ent, k, x)
  BY Zenon DEF FillEntry, LinkOf

\* The indirect block is there.
LEMMA FillHave ==
    ASSUME NEW X, NEW s, Owned(s, X), NEW a, Owned(a, X), a.ret = "ok", Unmoved(s, a),
           NEW ent \in BLOCKS, ent = s.din.indirect, NEW k \in Entries,
           NamesOf(a.block, a.din)[SFS_NDIRECT + k] = 0
    PROVE  Entered(a, FillEntry(s, a, ent, k), X, k)
  <1>1. PICK b : b = sfs_block_alloc(a)
    OBVIOUS
  <1>2. PICK t : t = FillEntry(s, a, ent, k)
    OBVIOUS
  <1>3. GotNone(a, b, X) \/ Got(a, b, X)
    BY <1>1, Alloc
  <1>4. CASE GotNone(a, b, X)
    <2>1. t = b
      <3>1. b.ret # "ok"
        BY <1>4 DEF GotNone
      <3>2. t = Cleanup(s, ent, b)
        BY <1>1, <1>2, <3>1, FillCases
      <3>. QED
        BY <3>2 DEF Cleanup
    <2>. QED
      BY <1>2, <1>4, <2>1 DEF GotNone, Entered, Unmoved
  <1>5. CASE Got(a, b, X)
    <2>1. PICK c : c = b.ino
      OBVIOUS
    <2>2. /\ b.ret = "ok" /\ c \in BLOCKS /\ c \notin X /\ Owned(b, X \cup {c}) /\ Apart(a, b, X)
          /\ b.din = a.din /\ b.dirty = a.dirty /\ b.data = a.data /\ Keeps(a, b)
          /\ NamesOf(b.block, b.din) = NamesOf(a.block, a.din)
          /\ b.block = With(a.block, c, Zeros)
      BY <1>5, <2>1 DEF Got, Unmoved
    <2>15. b.block[c] = Zeros
      <3>1. PICK g : g = a.block
        OBVIOUS
      <3>2. g \in Disk /\ Zeros \in [Cells -> Byte]
        BY <3>1, StateProps DEF Owned, Zeros, Byte
      <3>3. With(g, c, Zeros)[c] = Zeros
        BY <2>2, <3>2, WithProps
      <3>. QED
        BY <2>2, <3>1, <3>3
    <2>3. b \in State /\ b.dirty \in BOOLEAN
      BY <2>2, StateProps DEF Owned
    <2>4. k \in Cells
      BY PlaceProps
    <2>5. PICK x \in BOOLEAN : x = (ent # s.din.indirect)
      OBVIOUS
    <2>6. PICK d \in BOOLEAN : d = (b.dirty \/ x)
      OBVIOUS
    <2>7. d = b.dirty
      BY <2>3, <2>5, <2>6
    <2>8. t = Linked(b, ent, k, d)
      <3>1. t = LinkOf(b, ent, k, x)
        BY <1>1, <1>2, <2>2, <2>5, FillCases
      <3>2. LinkOf(b, ent, k, x) = Linked(b, ent, k, d)
        BY <2>3, <2>4, <2>6, LinkedIs
      <3>. QED
        BY <3>1, <3>2
    <2>9. IsLinked(b, t, ent, k, b.dirty)
      BY <2>3, <2>4, <2>6, <2>7, <2>8, LinkedProps
    <2>10. ent = b.din.indirect
      BY <2>2 DEF Unmoved
    <2>11. /\ Owned(t, X) /\ Apart(b, t, X) /\ Keeps(b, t)
           /\ NamesOf(t.block, t.din)[SFS_NDIRECT + k] = c
      <3>1. NamesOf(b.block, b.din)[SFS_NDIRECT + k] = 0
        BY <2>2
      <3>. QED
        BY <2>1, <2>2, <2>9, <2>10, <2>15, <3>1, LinkEntry
    <2>12. Apart(a, t, X)
      <3>1. a \in State /\ t \in State /\ X \subseteq X
        BY <2>11 DEF Owned
      <3>. QED
        BY <2>2, <2>3, <2>11, <3>1, ApartThen
    <2>13. c # 0
      BY <2>2, SfsAssumption
    <2>16. Keeps(a, t)
      BY <2>2, <2>11, KeepsThen
    <2>14. Entered(a, t, X, k)
      BY <2>1, <2>2, <2>9, <2>11, <2>12, <2>13, <2>16 DEF Entered, IsLinked
    <2>. QED
      BY <1>2, <2>14
  <1>. QED
    BY <1>3, <1>4, <1>5

\* The indirect block has just been got, and goes if there is no other block.
LEMMA FillGot ==
    ASSUME NEW X, NEW s, Owned(s, X), s.din.indirect = 0, NEW a, Got(s, a, X),
           NEW ent, ent = a.ino, NEW k \in Entries
    PROVE  Entered(s, FillEntry(s, a, ent, k), X, k)
  <1>1. PICK b : b = sfs_block_alloc(a)
    OBVIOUS
  <1>2. PICK t : t = FillEntry(s, a, ent, k)
    OBVIOUS
  <1>3. PICK Y : Y = X \cup {ent}
    OBVIOUS
  <1>4. /\ a.ret = "ok" /\ ent \in BLOCKS /\ ent \notin X /\ Owned(a, Y) /\ Apart(s, a, X)
        /\ a.din = s.din /\ a.dirty = s.dirty /\ a.data = s.data /\ Keeps(s, a)
        /\ a.block = With(s.block, ent, Zeros) /\ a.super_dirty
    BY <1>3 DEF Got, Unmoved
  <1>5. GotNone(a, b, Y) \/ Got(a, b, Y)
    BY <1>1, <1>4, Alloc
  <1>6. ent # 0 /\ ent # s.din.indirect
    BY <1>4, SfsAssumption
  <1>7. s \in State /\ a \in State /\ X \subseteq Y /\ X \subseteq X
    BY <1>3, <1>4 DEF Owned
  <1>8. CASE GotNone(a, b, Y)
    <2>1. /\ b.ret = "nomem" /\ Owned(b, X \cup {ent}) /\ Apart(a, b, Y)
          /\ b.din = a.din /\ b.dirty = a.dirty /\ b.data = a.data /\ Keeps(a, b)
      BY <1>3, <1>8 DEF GotNone, Unmoved
    <2>2. t = Cleanup(s, ent, b)
      BY <1>1, <1>2, <2>1, FillCases
    <2>3. PICK u : u = sfs_block_free(b, ent)
      OBVIOUS
    <2>4. t = [u EXCEPT !.ret = "nomem"]
      BY <1>6, <2>1, <2>2, <2>3 DEF Cleanup
    <2>5. GivenBack(b, u, X)
      BY <1>4, <2>1, <2>3, GiveBack
    <2>6. /\ Owned(u, X) /\ Apart(b, u, X) /\ u.din = b.din /\ u.dirty = b.dirty /\ u.data = b.data
          /\ Keeps(b, u)
      BY <2>5 DEF GivenBack, Unmoved
    <2>7. u \in State /\ "nomem" \in Outcomes
      BY <2>6 DEF Owned, Outcomes
    <2>8. Same(u, t) /\ t.ret = "nomem"
      BY <2>4, <2>7, WithRet
    <2>9. Owned(t, X) /\ Apart(u, t, X) /\ Unmoved(u, t)
      BY <2>6, <2>8, SameOwned
    <2>10. b \in State /\ t \in State
      BY <2>1, <2>9 DEF Owned
    <2>11. Apart(s, b, X)
      BY <1>4, <1>7, <2>1, <2>10, ApartThen
    <2>12. Apart(s, u, X)
      BY <1>7, <2>6, <2>7, <2>10, <2>11, ApartThen
    <2>13. Apart(s, t, X)
      BY <1>7, <2>7, <2>9, <2>10, <2>12, ApartThen
    <2>15. Keeps(s, t)
      <3>1. Keeps(u, t)
        BY <2>9 DEF Unmoved
      <3>2. Keeps(s, b)
        BY <1>4, <2>1, KeepsThen
      <3>3. Keeps(s, u)
        BY <2>6, <3>2, KeepsThen
      <3>. QED
        BY <3>1, <3>3, KeepsThen
    <2>14. Entered(s, t, X, k)
      BY <1>4, <2>1, <2>6, <2>8, <2>9, <2>13, <2>15 DEF Entered, Unmoved
    <2>. QED
      BY <1>2, <2>14
  <1>9. CASE Got(a, b, Y)
    <2>1. PICK c : c = b.ino
      OBVIOUS
    <2>2. /\ b.ret = "ok" /\ c \in BLOCKS /\ c \notin Y /\ Owned(b, Y \cup {c}) /\ Apart(a, b, Y)
          /\ b.din = a.din /\ b.dirty = a.dirty /\ b.data = a.data /\ Keeps(a, b)
          /\ b.block = With(a.block, c, Zeros) /\ b.super_dirty
      BY <1>3, <1>9, <2>1 DEF Got, Unmoved
    <2>3. b \in State /\ b.dirty \in BOOLEAN
      BY <2>2, StateProps DEF Owned
    <2>4. k \in Cells
      BY PlaceProps
    <2>5. PICK x \in BOOLEAN : x = (ent # s.din.indirect)
      OBVIOUS
    <2>6. PICK d \in BOOLEAN : d = (b.dirty \/ x) /\ d = TRUE
      BY <1>6, <2>5
    <2>7. t = Linked(b, ent, k, d)
      <3>1. t = LinkOf(b, ent, k, x)
        BY <1>1, <1>2, <2>2, <2>5, FillCases
      <3>2. LinkOf(b, ent, k, x) = Linked(b, ent, k, d)
        BY <1>4, <2>3, <2>4, <2>6, LinkedIs
      <3>. QED
        BY <3>1, <3>2
    <2>8. IsLinked(b, t, ent, k, d)
      BY <1>4, <2>3, <2>4, <2>6, <2>7, LinkedProps
    <2>9. \A l \in Entries : b.block[ent][l] = 0
      <3>1. a.block[ent] = Zeros /\ ent # c
        <4>1. s.block \in Disk /\ Zeros \in [Cells -> Byte]
          BY <1>7, StateProps DEF Zeros, Byte
        <4>2. ent # c
          BY <1>3, <2>2
        <4>3. a.block = With(s.block, ent, Zeros) /\ ent \in BLOCKS
          BY <1>4
        <4>. QED
          BY <4>1, <4>2, <4>3, WithProps
      <3>2. b.block[ent] = a.block[ent]
        <4>1. a.block \in Disk /\ Zeros \in [Cells -> Byte]
          BY <1>7, StateProps DEF Zeros, Byte
        <4>. QED
          BY <1>4, <2>2, <3>1, <4>1, WithProps
      <3>3. \A l \in Entries : l \in Cells
        BY PlaceProps
      <3>. QED
        BY <3>1, <3>2, <3>3 DEF Zeros
    <2>10. b.din.indirect = 0
      BY <1>4, <2>2
    <2>17. b.block[c] = Zeros
      <3>1. PICK g : g = a.block
        OBVIOUS
      <3>2. g \in Disk /\ Zeros \in [Cells -> Byte]
        BY <1>7, <3>1, StateProps DEF Zeros, Byte
      <3>3. With(g, c, Zeros)[c] = Zeros
        BY <2>2, <3>2, WithProps
      <3>. QED
        BY <2>2, <3>1, <3>3
    <2>11. /\ Owned(t, X) /\ Apart(b, t, X) /\ Keeps(b, t)
           /\ NamesOf(t.block, t.din)[SFS_NDIRECT + k] = c
      <3>1. t.dirty = d
        BY <2>8 DEF IsLinked
      <3>2. IndirectGot(b, t, X, ent, c, k)
        BY <1>3, <1>4, <2>1, <2>2, <2>6, <2>8, <2>9, <2>10, <2>17, <3>1 DEF IndirectGot
      <3>. QED
        BY <3>2, LinkIndirect
    <2>12. t \in State
      BY <2>11 DEF Owned
    <2>13. Apart(s, b, X)
      BY <1>4, <1>7, <2>2, <2>3, ApartThen
    <2>14. Apart(s, t, X)
      BY <1>7, <2>3, <2>11, <2>12, <2>13, ApartThen
    <2>15. c # 0
      BY <2>2, SfsAssumption
    <2>18. Keeps(s, t)
      <3>1. Keeps(s, b)
        BY <1>4, <2>2, KeepsThen
      <3>. QED
        BY <2>11, <3>1, KeepsThen
    <2>16. Entered(s, t, X, k)
      BY <1>4, <2>1, <2>2, <2>8, <2>11, <2>14, <2>15, <2>18 DEF Entered, IsLinked
    <2>. QED
      BY <1>2, <2>16
  <1>. QED
    BY <1>5, <1>8, <1>9

\* Slot i gets block b.ino.
SlotOf(b, i) == [b EXCEPT !.din.direct[i] = b.ino, !.dirty = TRUE]

IsSlotted(b, t, i) ==
    /\ t \in State /\ t.free = b.free /\ t.unused = b.unused /\ t.super_dirty = b.super_dirty
    /\ t.block = b.block /\ t.din.size = b.din.size /\ t.din.blocks = b.din.blocks
    /\ t.din.direct = WithSlot(b.din.direct, i, b.ino) /\ t.din.indirect = b.din.indirect
    /\ t.dirty /\ t.ino = b.ino /\ t.data = b.data /\ t.ret = b.ret

\* A slot filled, as a record.
LEMMA SlotIs ==
    ASSUME NEW b \in State, NEW i \in Slots, NEW t, t = SlotOf(b, i)
    PROVE  IsSlotted(b, t, i)
  <1>1. /\ b = Made(b.free, b.unused, b.super_dirty, b.block, b.din, b.dirty, b.ino, b.data, b.ret)
        /\ b.free \in SUBSET BLOCKS /\ b.unused \in Nat /\ b.super_dirty \in BOOLEAN /\ b.block \in Disk
        /\ b.din \in Dinode /\ b.ino \in Numbers /\ b.data \in Seq(Byte) /\ b.ret \in Outcomes
    BY StateProps
  <1>2. /\ b.din = MadeDin(b.din.size, b.din.blocks, b.din.direct, b.din.indirect)
        /\ b.din.size \in Nat /\ b.din.blocks \in Nat /\ b.din.direct \in [Slots -> Numbers]
        /\ b.din.indirect \in Numbers
    BY <1>1, DinProps
  <1>3. PICK e : e = WithSlot(b.din.direct, i, b.ino)
    OBVIOUS
  <1>4. e \in [Slots -> Numbers] /\ [b.din.direct EXCEPT ![i] = b.ino] = e
    <2>1. e \in [Slots -> Numbers]
      BY <1>1, <1>2, <1>3, SlotProps
    <2>2. [b.din.direct EXCEPT ![i] = b.ino] = e
      BY <1>2, <1>3 DEF WithSlot
    <2>. QED
      BY <2>1, <2>2
  <1>5. PICK d : d = MadeDin(b.din.size, b.din.blocks, e, b.din.indirect)
    OBVIOUS
  <1>6. /\ d \in Dinode /\ d.size = b.din.size /\ d.blocks = b.din.blocks /\ d.direct = e
        /\ d.indirect = b.din.indirect
    BY <1>2, <1>4, <1>5, MadeDinode
  <1>7. [b.din EXCEPT !.direct = e] = d
    BY <1>2, <1>5 DEF MadeDin
  <1>8. PICK x, z : x = b.block /\ z = TRUE
    OBVIOUS
  <1>9. t = Updated(b, x, d, z)
    <2>1. t = [b EXCEPT !.din = d, !.dirty = z]
      <3>1. [b.din EXCEPT !.direct[i] = b.ino] = d
        BY <1>4, <1>7, Zenon
      <3>2. t = [b EXCEPT !.din = [b.din EXCEPT !.direct[i] = b.ino], !.dirty = z]
        BY <1>8, Zenon DEF SlotOf
      <3>. QED
        BY <3>1, <3>2, Zenon
    <2>2. [b EXCEPT !.block = x] = b
      <3>1. [b EXCEPT !.block = x] = Made(b.free, b.unused, b.super_dirty, x, b.din, b.dirty, b.ino, b.data, b.ret)
        BY <1>1, MadeField
      <3>. QED
        BY <1>1, <1>8, <3>1, Zenon
    <2>. QED
      BY <2>1, <2>2, Zenon DEF Updated
  <1>10. t = Made(b.free, b.unused, b.super_dirty, x, d, z, b.ino, b.data, b.ret)
    BY <1>1, <1>9, MadeExcept
  <1>11. /\ t.free = b.free /\ t.unused = b.unused /\ t.super_dirty = b.super_dirty /\ t.block = x
         /\ t.din = d /\ t.dirty = z /\ t.ino = b.ino /\ t.data = b.data /\ t.ret = b.ret
    BY <1>10, MadeFields
  <1>12. t \in State
    <2>1. z \in BOOLEAN /\ x \in Disk
      BY <1>1, <1>8
    <2>. QED
      BY <1>1, <1>6, <1>10, <2>1, MadeState
  <1>. QED
    BY <1>3, <1>6, <1>8, <1>11, <1>12 DEF IsSlotted

\* A slot named nothing.
LEMMA LinkSlot ==
    ASSUME NEW X, NEW b, NEW c \in BLOCKS, c \notin X, c = b.ino, Owned(b, X \cup {c}), NEW i \in Slots,
           NamesOf(b.block, b.din)[i] = 0, b.block[c] = Zeros, NEW t, t = SlotOf(b, i)
    PROVE  /\ Owned(t, X) /\ Apart(b, t, X) /\ NamesOf(t.block, t.din)[i] = c /\ Keeps(b, t)
           /\ t.data = b.data /\ t.ret = b.ret /\ t.din.blocks = b.din.blocks /\ t.din.size = b.din.size
           /\ t.ino = b.ino
  <1>1. /\ b \in State /\ b.unused = Cardinality(b.free) /\ b.din.blocks <= INDIRECT
        /\ Covers(NamesOf(b.block, b.din), b.free, X \cup {c})
        /\ Filled(NamesOf(b.block, b.din), b.din.blocks)
    BY DEF Owned
  <1>2. PICK N : N = NamesOf(b.block, b.din)
    OBVIOUS
  <1>3. PICK M : M = NamesOf(t.block, t.din)
    OBVIOUS
  <1>4. /\ t \in State /\ t.free = b.free /\ t.unused = b.unused /\ t.super_dirty = b.super_dirty
        /\ t.block = b.block /\ t.din.size = b.din.size /\ t.din.blocks = b.din.blocks
        /\ t.din.direct = WithSlot(b.din.direct, i, b.ino) /\ t.din.indirect = b.din.indirect
        /\ t.dirty /\ t.ino = b.ino /\ t.data = b.data /\ t.ret = b.ret
    <2>1. IsSlotted(b, t, i)
      BY <1>1, SlotIs
    <2>. QED
      BY <2>1 DEF IsSlotted
  <1>5. b.din.direct \in [Slots -> Numbers] /\ c \in Numbers /\ c # 0 /\ i \in Places
    BY <1>1, StateProps, DinProps, SfsAssumption, PlaceProps DEF Numbers
  <1>6. t.din.direct[i] = c /\ \A j \in Slots : j # i => t.din.direct[j] = b.din.direct[j]
    <2>1. t.din.direct = WithSlot(b.din.direct, i, c)
      BY <1>4
    <2>2. /\ WithSlot(b.din.direct, i, c)[i] = c
          /\ \A j \in Slots : j # i => WithSlot(b.din.direct, i, c)[j] = b.din.direct[j]
      <3>1. PICK e : e = b.din.direct
        OBVIOUS
      <3>2. e \in [Slots -> Numbers] /\ c \in Numbers
        BY <1>5, <3>1
      <3>3. WithSlot(e, i, c)[i] = c /\ \A j \in Slots : j # i => WithSlot(e, i, c)[j] = e[j]
        BY <3>2, SlotProps
      <3>. QED
        BY <3>1, <3>3
    <2>. QED
      BY <2>1, <2>2
  <1>7. M[i] = c
    BY <1>3, <1>6, NamesProps
  <1>8. \A q \in Places : q # i => M[q] = N[q]
    <2>1. ASSUME NEW q \in Places, q # i PROVE M[q] = N[q]
      <3>1. CASE q \in Slots
        BY <1>2, <1>3, <1>6, <2>1, <3>1, NamesProps
      <3>2. CASE q = INDIRECT
        BY <1>2, <1>3, <1>4, <3>2, NamesProps
      <3>3. CASE q - SFS_NDIRECT \in Entries /\ q = SFS_NDIRECT + (q - SFS_NDIRECT)
        <4>1. PICK l : l = q - SFS_NDIRECT
          OBVIOUS
        <4>2. l \in Entries /\ q = SFS_NDIRECT + l
          BY <3>3, <4>1
        <4>. QED
          BY <1>2, <1>3, <1>4, <4>2, NamesProps
      <3>. QED
        BY <3>1, <3>2, <3>3, PlaceProps
    <2>. QED
      BY <2>1
  <1>9. Covers(N, b.free, X \cup {c}) /\ N[i] = 0
    BY <1>1, <1>2
  <1>10. M \in [Places -> Numbers]
    <2>1. N \in [Places -> Numbers]
      BY <1>9 DEF Covers
    <2>2. \A q \in Places : M[q] \in Numbers
      BY <1>5, <1>7, <1>8, <2>1
    <2>. QED
      BY <1>3, <2>2 DEF NamesOf
  <1>11. Covers(M, b.free, X)
    BY <1>5, <1>7, <1>8, <1>9, <1>10, CoversLinked
  <1>12. Filled(M, b.din.blocks)
    <2>1. \A q \in Places : M[q] = N[q] \/ M[q] # 0
      BY <1>5, <1>7, <1>8
    <2>. QED
      BY <1>1, <1>2, <2>1 DEF Filled
  <1>13. Owned(t, X)
    BY <1>1, <1>3, <1>4, <1>11, <1>12 DEF Owned
  <1>14. Apart(b, t, X)
    BY <1>4 DEF Apart
  <1>15. Keeps(b, t)
    <2>1. t.block = b.block /\ t.block[c] = Zeros
      BY <1>4
    <2>2. \A q \in Places : q # i /\ q # INDIRECT =>
              M[q] = N[q] /\ (N[q] # 0 => t.block[N[q]] = b.block[N[q]])
      BY <1>8, <2>1
    <2>3. N[i] = 0 /\ t.block[M[i]] = Zeros
      BY <1>7, <1>9, <2>1
    <2>. QED
      BY <1>2, <1>3, <2>2, <2>3, KeepsPlace
  <1>. QED
    BY <1>3, <1>4, <1>7, <1>13, <1>14, <1>15

\* Place p is asked for.
Found(s, t, X, p, create) ==
    /\ Owned(t, X) /\ Apart(s, t, X) /\ Keeps(s, t) /\ t.data = s.data
    /\ t.din.blocks = s.din.blocks /\ t.din.size = s.din.size
    /\ t.ret \in {"ok", "nomem", "index"}
    /\ t.ret = "ok" => p \in Places /\ p # INDIRECT /\ t.ino = NamesOf(t.block, t.din)[p]
    /\ t.ret = "ok" /\ create => t.ino # 0
    /\ p \in Places /\ p # INDIRECT /\ NamesOf(s.block, s.din)[p] # 0 => Same(s, t) /\ t.ret = "ok"

\* What is named already is found.
LEMMA FoundNamed ==
    ASSUME NEW X, NEW s, Owned(s, X), s.ret = "ok", NEW p \in Places, p # INDIRECT, NEW create,
           NEW e, e = NamesOf(s.block, s.din)[p], e # 0 \/ ~create
    PROVE  Found(s, [s EXCEPT !.ino = e], X, p, create)
  <1>1. PICK t : t = [s EXCEPT !.ino = e]
    OBVIOUS
  <1>2. s \in State /\ e \in Numbers
    BY DEF Owned, Covers
  <1>3. Same(s, t) /\ t.ino = e /\ t.ret = "ok"
    BY <1>1, <1>2, WithIno
  <1>4. Owned(t, X) /\ Apart(s, t, X) /\ Unmoved(s, t)
    BY <1>3, SameOwned
  <1>5. t.block = s.block /\ t.din = s.din /\ t.data = s.data
    BY <1>3 DEF Same
  <1>6. Found(s, t, X, p, create)
    BY <1>3, <1>4, <1>5 DEF Found, Unmoved
  <1>. QED
    BY <1>1, <1>6

\* sfs_bmap_get_sub_nolock: the block of an entry, found or got.
LEMMA GetSub ==
    ASSUME NEW X, NEW s, Owned(s, X), s.ret = "ok", NEW k \in Entries, NEW create \in BOOLEAN
    PROVE  Found(s, sfs_bmap_get_sub(s, k, create), X, SFS_NDIRECT + k, create)
  <1>1. PICK t : t = sfs_bmap_get_sub(s, k, create)
    OBVIOUS
  <1>2. PICK entry : entry = IF s.din.indirect # 0 THEN s.block[s.din.indirect][k] ELSE 0
    OBVIOUS
  <1>3. PICK p : p = SFS_NDIRECT + k
    OBVIOUS
  <1>4. p \in Places /\ p # INDIRECT /\ entry = NamesOf(s.block, s.din)[p]
    BY <1>2, <1>3, PlaceProps, NamesProps
  <1>5. s \in State
    BY DEF Owned
  <1>6. CASE entry # 0 \/ ~create
    <2>1. t = [s EXCEPT !.ino = entry]
      BY <1>1, <1>2, <1>6, Zenon DEF sfs_bmap_get_sub
    <2>2. Found(s, [s EXCEPT !.ino = entry], X, p, create)
      BY <1>4, <1>6, FoundNamed
    <2>. QED
      BY <1>1, <1>3, <2>1, <2>2, Zenon
  <1>7. CASE entry = 0 /\ create
    <2>1. t = IF s.din.indirect # 0
              THEN IF [s EXCEPT !.ino = s.din.indirect].ret = "ok"
                   THEN FillEntry(s, [s EXCEPT !.ino = s.din.indirect], [s EXCEPT !.ino = s.din.indirect].ino, k)
                   ELSE [s EXCEPT !.ino = s.din.indirect]
              ELSE IF sfs_block_alloc(s).ret = "ok" THEN FillEntry(s, sfs_block_alloc(s), sfs_block_alloc(s).ino, k)
                   ELSE sfs_block_alloc(s)
      BY <1>1, <1>2, <1>7 DEF sfs_bmap_get_sub, Then
    <2>2. ASSUME Entered(s, t, X, k) PROVE Found(s, t, X, p, create)
      BY <1>3, <1>4, <1>7, <2>2 DEF Entered, Found
    <2>3. CASE s.din.indirect # 0
      <3>1. PICK a : a = [s EXCEPT !.ino = s.din.indirect]
        OBVIOUS
      <3>2. PICK ent : ent = s.din.indirect
        OBVIOUS
      <3>3. ent \in BLOCKS /\ ent \in Numbers
        BY <2>3, <3>2, IndirectNamed DEF Numbers
      <3>4. Same(s, a) /\ a.ino = ent /\ a.ret = "ok"
        BY <1>5, <3>1, <3>2, <3>3, WithIno
      <3>5. Owned(a, X) /\ Apart(s, a, X) /\ Unmoved(s, a)
        BY <3>4, SameOwned
      <3>6. t = FillEntry(s, a, ent, k)
        BY <2>1, <2>3, <3>1, <3>4
      <3>7. NamesOf(a.block, a.din)[SFS_NDIRECT + k] = 0
        BY <1>3, <1>4, <1>7, <3>4 DEF Same
      <3>8. Entered(a, t, X, k)
        BY <3>2, <3>3, <3>4, <3>5, <3>6, <3>7, FillHave
      <3>9. Entered(s, t, X, k)
        BY <3>5, <3>8, EnteredThen
      <3>. QED
        BY <1>1, <1>3, <2>2, <3>9
    <2>4. CASE s.din.indirect = 0
      <3>1. PICK a : a = sfs_block_alloc(s)
        OBVIOUS
      <3>2. GotNone(s, a, X) \/ Got(s, a, X)
        BY <3>1, Alloc
      <3>3. CASE GotNone(s, a, X)
        <4>1. t = a
          BY <2>1, <2>4, <3>1, <3>3 DEF GotNone
        <4>2. Entered(s, t, X, k)
          BY <3>3, <4>1 DEF GotNone, Entered, Unmoved
        <4>. QED
          BY <1>1, <1>3, <2>2, <4>2
      <3>4. CASE Got(s, a, X)
        <4>1. t = FillEntry(s, a, a.ino, k)
          BY <2>1, <2>4, <3>1, <3>4 DEF Got
        <4>2. Entered(s, t, X, k)
          BY <2>4, <3>4, <4>1, FillGot
        <4>. QED
          BY <1>1, <1>3, <2>2, <4>2
      <3>. QED
        BY <3>2, <3>3, <3>4
    <2>. QED
      BY <2>3, <2>4
  <1>. QED
    BY <1>6, <1>7

\* What a place names is never free.
LEMMA FoundUsed ==
    ASSUME NEW s, NEW t, NEW X, NEW p, NEW create, Found(s, t, X, p, create), t.ret = "ok"
    PROVE  t.ino \notin t.free
  <1>1. /\ p \in Places /\ t.ino = NamesOf(t.block, t.din)[p] /\ Covers(NamesOf(t.block, t.din), t.free, X)
    BY DEF Found, Owned
  <1>2. 0 \notin t.free
    BY <1>1, SfsAssumption DEF Covers
  <1>. QED
    BY <1>1, <1>2 DEF Covers

\* What sfs_bmap_get finds before the check that it is in use.
Sought(s, index, create) ==
    IF index >= SFS_NDIRECT
    THEN IF index - SFS_NDIRECT < SFS_BLK_NENTRY
         THEN sfs_bmap_get_sub(s, index - SFS_NDIRECT, create)
         ELSE [s EXCEPT !.ret = "index"]
    ELSE IF s.din.direct[index] # 0 \/ ~create
    THEN [s EXCEPT !.ino = s.din.direct[index]]
    ELSE IF sfs_block_alloc(s).ret = "ok" THEN SlotOf(sfs_block_alloc(s), index) ELSE sfs_block_alloc(s)

\* sfs_bmap_get_nolock: the block of a place, found or got.
LEMMA SoughtFound ==
    ASSUME NEW X, NEW s, Owned(s, X), s.ret = "ok", NEW index \in Nat, NEW create \in BOOLEAN
    PROVE  Found(s, Sought(s, index, create), X, index, create)
  <1>1. PICK t : t = Sought(s, index, create)
    OBVIOUS
  <1>2. s \in State
    BY DEF Owned
  <1>3. CASE index >= SFS_NDIRECT /\ index - SFS_NDIRECT < SFS_BLK_NENTRY
    <2>1. PICK k : k = index - SFS_NDIRECT
      OBVIOUS
    <2>2. k \in Entries /\ index = SFS_NDIRECT + k
      BY <1>3, <2>1, SfsAssumption DEF Entries
    <2>3. t = sfs_bmap_get_sub(s, k, create)
      BY <1>1, <1>3, <2>1 DEF Sought
    <2>4. Found(s, t, X, SFS_NDIRECT + k, create)
      BY <2>2, <2>3, GetSub
    <2>. QED
      BY <1>1, <2>2, <2>4
  <1>4. CASE index >= SFS_NDIRECT /\ ~(index - SFS_NDIRECT < SFS_BLK_NENTRY)
    <2>1. t = [s EXCEPT !.ret = "index"]
      BY <1>1, <1>4 DEF Sought
    <2>2. "index" \in Outcomes
      BY DEF Outcomes, PANICS
    <2>3. Same(s, t) /\ t.ret = "index"
      BY <1>2, <2>1, <2>2, WithRet
    <2>4. Owned(t, X) /\ Apart(s, t, X) /\ Unmoved(s, t)
      BY <2>3, SameOwned
    <2>5. index \in Places => index = INDIRECT
      BY <1>4, SfsAssumption DEF Places, INDIRECT
    <2>6. Found(s, t, X, index, create)
      BY <2>3, <2>4, <2>5 DEF Found, Unmoved
    <2>. QED
      BY <1>1, <2>6
  <1>5. CASE ~(index >= SFS_NDIRECT)
    <2>1. index \in Slots
      BY <1>5, SfsAssumption DEF Slots
    <2>2. PICK e : e = s.din.direct[index]
      OBVIOUS
    <2>3. index \in Places /\ index # INDIRECT /\ e = NamesOf(s.block, s.din)[index]
      BY <2>1, <2>2, PlaceProps, NamesProps
    <2>4. CASE e # 0 \/ ~create
      <3>1. t = [s EXCEPT !.ino = e]
        BY <1>1, <1>5, <2>2, <2>4, Zenon DEF Sought
      <3>2. Found(s, [s EXCEPT !.ino = e], X, index, create)
        BY <2>3, <2>4, FoundNamed
      <3>. QED
        BY <1>1, <3>1, <3>2, Zenon
    <2>5. CASE e = 0 /\ create
      <3>1. PICK b : b = sfs_block_alloc(s)
        OBVIOUS
      <3>2. GotNone(s, b, X) \/ Got(s, b, X)
        BY <3>1, Alloc
      <3>3. CASE GotNone(s, b, X)
        <4>1. t = b
          BY <1>1, <1>5, <2>2, <2>5, <3>1, <3>3 DEF Sought, GotNone
        <4>2. Found(s, t, X, index, create)
          BY <2>3, <2>5, <3>3, <4>1 DEF GotNone, Found, Unmoved
        <4>. QED
          BY <1>1, <4>2
      <3>4. CASE Got(s, b, X)
        <4>1. PICK c : c = b.ino
          OBVIOUS
        <4>2. /\ b.ret = "ok" /\ c \in BLOCKS /\ c \notin X /\ Owned(b, X \cup {c}) /\ Apart(s, b, X)
              /\ b.din = s.din /\ b.data = s.data /\ Keeps(s, b)
              /\ NamesOf(b.block, b.din) = NamesOf(s.block, s.din)
              /\ b.block = With(s.block, c, Zeros)
          BY <3>4, <4>1 DEF Got, Unmoved
        <4>9. b.block[c] = Zeros
          <5>1. PICK g : g = s.block
            OBVIOUS
          <5>2. g \in Disk /\ Zeros \in [Cells -> Byte]
            BY <1>2, <5>1, StateProps DEF Zeros, Byte
          <5>3. With(g, c, Zeros)[c] = Zeros
            BY <4>2, <5>2, WithProps
          <5>. QED
            BY <4>2, <5>1, <5>3
        <4>3. t = SlotOf(b, index)
          BY <1>1, <1>5, <2>2, <2>5, <3>1, <4>2 DEF Sought
        <4>4. NamesOf(b.block, b.din)[index] = 0
          BY <2>3, <2>5, <4>2
        <4>5. /\ Owned(t, X) /\ Apart(b, t, X) /\ NamesOf(t.block, t.din)[index] = c /\ Keeps(b, t)
              /\ t.data = b.data /\ t.ret = b.ret /\ t.din.blocks = b.din.blocks /\ t.din.size = b.din.size
              /\ t.ino = b.ino
          BY <2>1, <4>1, <4>2, <4>3, <4>4, <4>9, LinkSlot
        <4>6. Apart(s, t, X)
          <5>1. b \in State /\ t \in State /\ X \subseteq X
            BY <4>2, <4>5 DEF Owned
          <5>. QED
            BY <1>2, <4>2, <4>5, <5>1, ApartThen
        <4>7. c # 0
          BY <4>2, SfsAssumption
        <4>10. Keeps(s, t)
          BY <4>2, <4>5, KeepsThen
        <4>8. Found(s, t, X, index, create)
          BY <2>3, <2>5, <4>1, <4>2, <4>5, <4>6, <4>7, <4>10 DEF Found
        <4>. QED
          BY <1>1, <4>8
      <3>. QED
        BY <3>2, <3>3, <3>4
    <2>. QED
      BY <2>4, <2>5
  <1>. QED
    BY <1>3, <1>4, <1>5

\* The check never fails.
LEMMA Get ==
    ASSUME NEW X, NEW s, Owned(s, X), s.ret = "ok", NEW index \in Nat, NEW create \in BOOLEAN
    PROVE  Found(s, sfs_bmap_get(s, index, create), X, index, create)
  <1>1. PICK t : t = Sought(s, index, create)
    OBVIOUS
  <1>2. Found(s, t, X, index, create)
    BY <1>1, SoughtFound
  <1>3. sfs_bmap_get(s, index, create) =
            IF t.ret = "ok" THEN IF t.ino \in t.free THEN [t EXCEPT !.ret = "inuse"] ELSE t ELSE t
    BY <1>1 DEF sfs_bmap_get, Then, Sought, SlotOf
  <1>4. sfs_bmap_get(s, index, create) = t
    BY <1>2, <1>3, FoundUsed
  <1>. QED
    BY <1>2, <1>4

-----------------------------------------------------------------------------
(* A place asked for, the file perhaps growing by it, and the last place    *)
(* given up.                                                                *)

\* Inode, its mark and the blocks replaced.
IsUpdated(t, u, B, D, E) ==
    /\ u \in State /\ u.free = t.free /\ u.unused = t.unused /\ u.super_dirty = t.super_dirty
    /\ u.block = B /\ u.din = D /\ u.dirty = E /\ u.ino = t.ino /\ u.data = t.data /\ u.ret = t.ret

\* What a record so changed holds.
LEMMA UpdatedProps ==
    ASSUME NEW t \in State, NEW B \in Disk, NEW D \in Dinode, NEW E \in BOOLEAN,
           NEW u, u = Updated(t, B, D, E)
    PROVE  IsUpdated(t, u, B, D, E)
  <1>1. /\ t = Made(t.free, t.unused, t.super_dirty, t.block, t.din, t.dirty, t.ino, t.data, t.ret)
        /\ t.free \in SUBSET BLOCKS /\ t.unused \in Nat /\ t.super_dirty \in BOOLEAN
        /\ t.ino \in Numbers /\ t.data \in Seq(Byte) /\ t.ret \in Outcomes
    BY StateProps
  <1>2. u = Made(t.free, t.unused, t.super_dirty, B, D, E, t.ino, t.data, t.ret)
    BY <1>1, MadeExcept
  <1>3. u \in State
    BY <1>1, <1>2, MadeState
  <1>. QED
    BY <1>2, <1>3, MadeFields DEF IsUpdated

\* The blocks stay.
LEMMA BlockSame ==
    ASSUME NEW t \in State, NEW D, NEW E
    PROVE  [t EXCEPT !.din = D, !.dirty = E] = Updated(t, t.block, D, E)
  <1>1. t = Made(t.free, t.unused, t.super_dirty, t.block, t.din, t.dirty, t.ino, t.data, t.ret)
    BY StateProps
  <1>2. PICK x : x = t.block
    OBVIOUS
  <1>3. [t EXCEPT !.block = x] = t
    <2>1. [t EXCEPT !.block = x] = Made(t.free, t.unused, t.super_dirty, x, t.din, t.dirty, t.ino, t.data, t.ret)
      BY <1>1, MadeField
    <2>. QED
      BY <1>1, <1>2, <2>1, Zenon
  <1>. QED
    BY <1>2, <1>3, Zenon DEF Updated

\* The file has n blocks.
Counted(t, n) == [t EXCEPT !.din.blocks = n]

\* Another number of blocks.
LEMMA CountedIs ==
    ASSUME NEW t \in State, NEW n \in Nat
    PROVE  IsUpdated(t, Counted(t, n), t.block, MadeDin(t.din.size, n, t.din.direct, t.din.indirect), t.dirty)
  <1>1. /\ t = Made(t.free, t.unused, t.super_dirty, t.block, t.din, t.dirty, t.ino, t.data, t.ret)
        /\ t.block \in Disk /\ t.din \in Dinode /\ t.dirty \in BOOLEAN
    BY StateProps
  <1>2. /\ t.din = MadeDin(t.din.size, t.din.blocks, t.din.direct, t.din.indirect)
        /\ t.din.size \in Nat /\ t.din.direct \in [Slots -> Numbers] /\ t.din.indirect \in Numbers
    BY <1>1, DinProps
  <1>3. PICK d : d = MadeDin(t.din.size, n, t.din.direct, t.din.indirect)
    OBVIOUS
  <1>4. d \in Dinode /\ [t.din EXCEPT !.blocks = n] = d
    <2>1. d \in Dinode
      BY <1>2, <1>3, MadeDinode
    <2>2. [t.din EXCEPT !.blocks = n] = d
      BY <1>2, <1>3 DEF MadeDin
    <2>. QED
      BY <2>1, <2>2
  <1>5. PICK u : u = Counted(t, n)
    OBVIOUS
  <1>6. PICK E : E = t.dirty
    OBVIOUS
  <1>7. u = Updated(t, t.block, d, E)
    <2>1. u = [t EXCEPT !.din = d]
      BY <1>4, <1>5, Zenon DEF Counted
    <2>2. [t EXCEPT !.dirty = E] = t
      <3>1. [t EXCEPT !.dirty = E] = Made(t.free, t.unused, t.super_dirty, t.block, t.din, E, t.ino, t.data, t.ret)
        BY <1>1, MadeField
      <3>. QED
        BY <1>1, <1>6, <3>1, Zenon
    <2>3. [t EXCEPT !.din = d] = Made(t.free, t.unused, t.super_dirty, t.block, d, t.dirty, t.ino, t.data, t.ret)
      BY <1>1, MadeField
    <2>4. Updated(t, t.block, d, E) = Made(t.free, t.unused, t.super_dirty, t.block, d, E, t.ino, t.data, t.ret)
      BY <1>1, MadeExcept
    <2>. QED
      BY <1>6, <2>1, <2>3, <2>4, Zenon
  <1>8. IsUpdated(t, u, t.block, d, E)
    BY <1>1, <1>4, <1>6, <1>7, UpdatedProps
  <1>. QED
    BY <1>3, <1>5, <1>6, <1>8

\* What sfs_bmap_load does.
Asked(s, t, X, index) ==
    /\ Owned(t, X) /\ Apart(s, t, X) /\ Keeps(s, t) /\ t.data = s.data /\ t.din.size = s.din.size
    /\ t.ret \in {"ok", "nomem", "index", "bmap_load"}
    /\ t.ret = "ok" => /\ index \in Places /\ index # INDIRECT /\ index <= s.din.blocks
                       /\ t.ino = NamesOf(t.block, t.din)[index] /\ t.ino # 0
                       /\ t.din.blocks = IF index = s.din.blocks THEN s.din.blocks + 1 ELSE s.din.blocks
    /\ t.ret # "ok" => t.din.blocks = s.din.blocks
    /\ index < s.din.blocks => Same(s, t) /\ t.ret = "ok"

\* A block more, which has been found.
LEMMA Grown ==
    ASSUME NEW X, NEW t, Owned(t, X), t.din.blocks \in Places, t.din.blocks # INDIRECT,
           NamesOf(t.block, t.din)[t.din.blocks] # 0,
           NEW u, u = Counted(t, t.din.blocks + 1)
    PROVE  /\ Owned(u, X) /\ Apart(t, u, X) /\ Keeps(t, u) /\ u.data = t.data /\ u.din.size = t.din.size /\ u.ret = t.ret
           /\ u.ino = t.ino /\ NamesOf(u.block, u.din) = NamesOf(t.block, t.din)
           /\ u.din.blocks = t.din.blocks + 1
  <1>1. /\ t \in State /\ t.unused = Cardinality(t.free) /\ t.din.blocks <= INDIRECT
        /\ Covers(NamesOf(t.block, t.din), t.free, X)
        /\ Filled(NamesOf(t.block, t.din), t.din.blocks)
    BY DEF Owned
  <1>2. /\ t.din \in Dinode /\ t.block \in Disk
        /\ t.din.size \in Nat /\ t.din.blocks \in Nat /\ t.din.direct \in [Slots -> Numbers] /\ t.din.indirect \in Numbers
    BY <1>1, StateProps, DinProps
  <1>3. PICK n, d : n = t.din.blocks + 1 /\ d = MadeDin(t.din.size, t.din.blocks + 1, t.din.direct, t.din.indirect)
    OBVIOUS
  <1>4. n \in Nat /\ n <= INDIRECT
    <2>1. INDIRECT \in Nat
      BY PlaceProps
    <2>. QED
      BY <1>1, <1>2, <1>3, <2>1
  <1>5. /\ d.size = t.din.size /\ d.blocks = n /\ d.direct = t.din.direct /\ d.indirect = t.din.indirect
    BY <1>2, <1>3, <1>4, MadeDinode
  <1>6. IsUpdated(t, u, t.block, d, t.dirty)
    BY <1>1, <1>3, <1>4, CountedIs
  <1>7. NamesOf(u.block, u.din) = NamesOf(t.block, t.din)
    <2>1. u.din.direct = t.din.direct /\ u.din.indirect = t.din.indirect /\ u.block = t.block
      BY <1>5, <1>6 DEF IsUpdated
    <2>. QED
      BY <2>1, NamesSame
  <1>8. PICK N : N = NamesOf(t.block, t.din)
    OBVIOUS
  <1>9. Filled(N, n)
    <2>1. Filled(N, t.din.blocks) /\ N[t.din.blocks] # 0
      BY <1>1, <1>8
    <2>2. \A i \in Places : i < n => i < t.din.blocks \/ i = t.din.blocks
      BY <1>2, <1>3 DEF Places
    <2>. QED
      BY <2>1, <2>2 DEF Filled
  <1>10. Owned(u, X)
    BY <1>1, <1>4, <1>5, <1>6, <1>7, <1>8, <1>9 DEF Owned, IsUpdated
  <1>11. Apart(t, u, X)
    <2>1. t.din.blocks <= n
      BY <1>2, <1>3
    <2>. QED
      BY <1>5, <1>6, <2>1 DEF Apart, Later, IsUpdated
  <1>12. Keeps(t, u)
    <2>1. u.block = t.block
      BY <1>6 DEF IsUpdated
    <2>. QED
      BY <1>7, <2>1, KeepsNames
  <1>. QED
    BY <1>3, <1>5, <1>6, <1>7, <1>10, <1>11, <1>12 DEF IsUpdated

\* sfs_bmap_load_nolock: the block of a place, the file perhaps growing by it.
LEMMA Load ==
    ASSUME NEW X, NEW s, Owned(s, X), s.ret = "ok", NEW index \in Nat
    PROVE  Asked(s, sfs_bmap_load(s, index), X, index)
  <1>1. PICK u : u = sfs_bmap_load(s, index)
    OBVIOUS
  <1>2. PICK create : create = (index = s.din.blocks)
    OBVIOUS
  <1>3. PICK t : t = sfs_bmap_get(s, index, create)
    OBVIOUS
  <1>4. u = IF index > s.din.blocks THEN [s EXCEPT !.ret = "bmap_load"]
            ELSE IF t.ret = "ok"
                 THEN IF t.ino = 0 THEN [t EXCEPT !.ret = "inuse"]
                      ELSE Counted(t, IF create THEN t.din.blocks + 1 ELSE t.din.blocks)
                 ELSE t
    BY <1>1, <1>2, <1>3 DEF sfs_bmap_load, Then, Counted
  <1>5. /\ s \in State /\ s.din.blocks \in Nat /\ s.din.blocks <= INDIRECT /\ create \in BOOLEAN
        /\ Filled(NamesOf(s.block, s.din), s.din.blocks) /\ INDIRECT \in Nat
    BY <1>2, StateProps, DinProps, PlaceProps DEF Owned
  <1>6. Found(s, t, X, index, create)
    BY <1>3, <1>5, Get
  <1>7. CASE index > s.din.blocks
    <2>1. "bmap_load" \in Outcomes
      BY DEF Outcomes, PANICS
    <2>2. Same(s, u) /\ u.ret = "bmap_load"
      BY <1>4, <1>5, <1>7, <2>1, WithRet
    <2>3. Owned(u, X) /\ Apart(s, u, X) /\ Unmoved(s, u)
      BY <2>2, SameOwned
    <2>4. Asked(s, u, X, index)
      BY <1>5, <1>7, <2>2, <2>3 DEF Asked, Unmoved
    <2>. QED
      BY <1>1, <2>4
  <1>8. CASE index = s.din.blocks /\ t.ret # "ok"
    <2>1. u = t
      BY <1>4, <1>5, <1>8
    <2>2. Asked(s, u, X, index)
      BY <1>5, <1>6, <1>8, <2>1 DEF Asked, Found
    <2>. QED
      BY <1>1, <2>2
  <1>9. CASE index = s.din.blocks /\ t.ret = "ok"
    <2>1. /\ Owned(t, X) /\ Apart(s, t, X) /\ Keeps(s, t) /\ t.data = s.data
          /\ t.din.blocks = index /\ t.din.size = s.din.size
          /\ index \in Places /\ index # INDIRECT /\ t.ino = NamesOf(t.block, t.din)[index] /\ t.ino # 0
      BY <1>2, <1>6, <1>9 DEF Found
    <2>2. u = Counted(t, t.din.blocks + 1)
      <3>1. ~(index > s.din.blocks)
        BY <1>5, <1>9
      <3>2. create
        BY <1>2, <1>9
      <3>. QED
        BY <1>4, <1>9, <2>1, <3>1, <3>2
    <2>3. /\ Owned(u, X) /\ Apart(t, u, X) /\ Keeps(t, u) /\ u.data = t.data /\ u.din.size = t.din.size /\ u.ret = t.ret
          /\ u.ino = t.ino /\ NamesOf(u.block, u.din) = NamesOf(t.block, t.din)
          /\ u.din.blocks = t.din.blocks + 1
      <3>1. t.din.blocks \in Places /\ t.din.blocks # INDIRECT /\ NamesOf(t.block, t.din)[t.din.blocks] # 0
        BY <2>1
      <3>. QED
        BY <2>1, <2>2, <3>1, Grown
    <2>4. Apart(s, u, X)
      <3>1. t \in State /\ u \in State /\ X \subseteq X
        BY <2>1, <2>3 DEF Owned
      <3>. QED
        BY <1>5, <2>1, <2>3, <3>1, ApartThen
    <2>6. Keeps(s, u)
      BY <2>1, <2>3, KeepsThen
    <2>5. Asked(s, u, X, index)
      BY <1>5, <1>9, <2>1, <2>3, <2>4, <2>6 DEF Asked
    <2>. QED
      BY <1>1, <2>5
  <1>10. CASE index < s.din.blocks
    <2>1. index \in Places /\ index # INDIRECT /\ NamesOf(s.block, s.din)[index] # 0
      <3>1. index \in Places /\ index # INDIRECT
        BY <1>5, <1>10 DEF Places
      <3>. QED
        BY <1>5, <1>10, <3>1 DEF Filled
    <2>2. Same(s, t) /\ t.ret = "ok" /\ t.ino = NamesOf(t.block, t.din)[index]
      BY <1>6, <2>1 DEF Found
    <2>3. t.ino # 0 /\ t.din = s.din /\ t.block = s.block /\ t \in State
      BY <2>1, <2>2 DEF Same
    <2>4. ~create
      <3>1. index # s.din.blocks
        BY <1>5, <1>10
      <3>. QED
        BY <1>2, <3>1
    <2>5. u = Counted(t, t.din.blocks)
      <3>1. ~(index > s.din.blocks)
        BY <1>5, <1>10
      <3>. QED
        BY <1>4, <2>2, <2>3, <2>4, <3>1
    <2>6. Counted(t, t.din.blocks) = t
      <3>1. t.din \in Dinode
        BY <2>3, StateProps
      <3>2. PICK d : d = t.din
        OBVIOUS
      <3>3. [t.din EXCEPT !.blocks = t.din.blocks] = d
        BY <3>1, <3>2 DEF Dinode
      <3>4. Counted(t, t.din.blocks) = [t EXCEPT !.din = d]
        BY <3>3, Zenon DEF Counted
      <3>5. t = Made(t.free, t.unused, t.super_dirty, t.block, t.din, t.dirty, t.ino, t.data, t.ret)
        BY <2>3, StateProps
      <3>6. [t EXCEPT !.din = d] = Made(t.free, t.unused, t.super_dirty, t.block, d, t.dirty, t.ino, t.data, t.ret)
        BY <3>5, MadeField
      <3>. QED
        BY <3>2, <3>4, <3>5, <3>6, Zenon
    <2>7. u = t
      BY <2>5, <2>6
    <2>8. Owned(t, X) /\ Apart(s, t, X) /\ Unmoved(s, t)
      BY <2>2, SameOwned
    <2>9. Asked(s, u, X, index)
      BY <1>5, <1>10, <2>1, <2>2, <2>3, <2>7, <2>8 DEF Asked, Unmoved
    <2>. QED
      BY <1>1, <2>9
  <1>. QED
    BY <1>5, <1>7, <1>8, <1>9, <1>10

\* The last place of s is given up, which names b.
Cut(s, t, X) ==
    /\ Owned(t, X) /\ Apart(s, t, X) /\ t.data = s.data /\ t.din.size = s.din.size
    /\ t.ret = "ok" /\ t.dirty /\ t.din.blocks = s.din.blocks - 1

IsCut(s, t, b) ==
    /\ t \in State /\ t.unused = Cardinality(t.free)
    /\ t.free = s.free \cup {b} /\ t.super_dirty /\ t.dirty /\ t.data = s.data /\ t.ret = s.ret
    /\ t.din.size = s.din.size /\ t.din.blocks = s.din.blocks - 1 /\ t.din.indirect = s.din.indirect

\* The last block in a slot, and in the indirect block.
CutSlot(f, index) == [[f EXCEPT !.din.direct[index] = 0] EXCEPT !.din.blocks = index, !.dirty = TRUE]
CutEntry(f, ent, entry, index) ==
    [[f EXCEPT !.block[ent][entry] = 0] EXCEPT !.din.blocks = index, !.dirty = TRUE]

\* A slot emptied, as a record.
LEMMA CutSlotIs ==
    ASSUME NEW f \in State, NEW index \in Slots
    PROVE  IsUpdated(f, CutSlot(f, index), f.block,
                     MadeDin(f.din.size, index, WithSlot(f.din.direct, index, 0), f.din.indirect), TRUE)
  <1>1. /\ f = Made(f.free, f.unused, f.super_dirty, f.block, f.din, f.dirty, f.ino, f.data, f.ret)
        /\ f.block \in Disk /\ f.din \in Dinode
    BY StateProps
  <1>2. /\ f.din = MadeDin(f.din.size, f.din.blocks, f.din.direct, f.din.indirect)
        /\ f.din.size \in Nat /\ f.din.direct \in [Slots -> Numbers] /\ f.din.indirect \in Numbers
    BY <1>1, DinProps
  <1>3. PICK e : e = WithSlot(f.din.direct, index, 0)
    OBVIOUS
  <1>4. e \in [Slots -> Numbers] /\ [f.din.direct EXCEPT ![index] = 0] = e
    BY <1>2, <1>3 DEF WithSlot, Numbers
  <1>5. PICK d : d = MadeDin(f.din.size, index, e, f.din.indirect)
    OBVIOUS
  <1>6. d \in Dinode
    <2>1. index \in Nat
      BY PlaceProps
    <2>. QED
      BY <1>2, <1>4, <1>5, <2>1, MadeDinode
  <1>7. PICK d1 : d1 = MadeDin(f.din.size, f.din.blocks, e, f.din.indirect)
    OBVIOUS
  <1>8. [f.din EXCEPT !.direct = e] = d1
    BY <1>2, <1>7 DEF MadeDin
  <1>9. [d1 EXCEPT !.blocks = index] = d
    BY <1>5, <1>7 DEF MadeDin
  <1>10. PICK f1 : f1 = [f EXCEPT !.din = d1]
    OBVIOUS
  <1>11. f1 = [f EXCEPT !.din.direct[index] = 0]
    <2>1. [f.din EXCEPT !.direct[index] = 0] = d1
      BY <1>4, <1>8, Zenon
    <2>. QED
      BY <1>10, <2>1, Zenon
  <1>12. f1 = Made(f.free, f.unused, f.super_dirty, f.block, d1, f.dirty, f.ino, f.data, f.ret)
    BY <1>1, <1>10, MadeField
  <1>13. PICK u : u = [f1 EXCEPT !.din = d]
    OBVIOUS
  <1>14. u = [f1 EXCEPT !.din.blocks = index]
    <2>1. f1.din = d1
      BY <1>12, MadeFields
    <2>. QED
      BY <1>9, <1>13, <2>1, Zenon
  <1>15. u = Made(f.free, f.unused, f.super_dirty, f.block, d, f.dirty, f.ino, f.data, f.ret)
    BY <1>12, <1>13, MadeField
  <1>16. PICK z : z = TRUE
    OBVIOUS
  <1>17. CutSlot(f, index) = [u EXCEPT !.dirty = z]
    BY <1>11, <1>14, <1>16, Zenon DEF CutSlot
  <1>18. CutSlot(f, index) = Made(f.free, f.unused, f.super_dirty, f.block, d, z, f.ino, f.data, f.ret)
    BY <1>15, <1>17, MadeField
  <1>19. CutSlot(f, index) = Updated(f, f.block, d, z)
    BY <1>1, <1>18, MadeExcept
  <1>20. IsUpdated(f, CutSlot(f, index), f.block, d, z)
    <2>1. PICK v : v = CutSlot(f, index)
      OBVIOUS
    <2>2. z \in BOOLEAN /\ v = Updated(f, f.block, d, z)
      BY <1>16, <1>19, <2>1
    <2>3. IsUpdated(f, v, f.block, d, z)
      BY <1>1, <1>6, <2>2, UpdatedProps
    <2>. QED
      BY <2>1, <2>3
  <1>. QED
    BY <1>3, <1>5, <1>16, <1>20, Zenon

\* An entry emptied, as a record.
LEMMA CutEntryIs ==
    ASSUME NEW f \in State, NEW ent \in BLOCKS, NEW entry \in Cells, NEW index \in Nat
    PROVE  IsUpdated(f, CutEntry(f, ent, entry, index), With(f.block, ent, WithEntry(f.block[ent], entry, 0)),
                     MadeDin(f.din.size, index, f.din.direct, f.din.indirect), TRUE)
  <1>1. /\ f = Made(f.free, f.unused, f.super_dirty, f.block, f.din, f.dirty, f.ino, f.data, f.ret)
        /\ f.block \in Disk /\ f.din \in Dinode
    BY StateProps
  <1>2. /\ f.din = MadeDin(f.din.size, f.din.blocks, f.din.direct, f.din.indirect)
        /\ f.din.size \in Nat /\ f.din.direct \in [Slots -> Numbers] /\ f.din.indirect \in Numbers
    BY <1>1, DinProps
  <1>3. PICK B : B = With(f.block, ent, WithEntry(f.block[ent], entry, 0))
    OBVIOUS
  <1>4. B \in Disk /\ [f.block EXCEPT ![ent][entry] = 0] = B
    <2>1. f.block[ent] \in [Cells -> Byte] /\ 0 \in Numbers
      BY <1>1 DEF Disk, Numbers
    <2>2. WithEntry(f.block[ent], entry, 0) \in [Cells -> Byte]
      BY <2>1, EntryProps
    <2>3. B \in Disk
      BY <1>1, <1>3, <2>2, WithProps
    <2>4. [f.block EXCEPT ![ent][entry] = 0] = B
      BY <1>1, <1>3 DEF With, WithEntry, Disk
    <2>. QED
      BY <2>3, <2>4
  <1>5. PICK d : d = MadeDin(f.din.size, index, f.din.direct, f.din.indirect)
    OBVIOUS
  <1>6. d \in Dinode
    BY <1>2, <1>5, MadeDinode
  <1>7. [f.din EXCEPT !.blocks = index] = d
    BY <1>2, <1>5 DEF MadeDin
  <1>8. PICK f1 : f1 = [f EXCEPT !.block = B]
    OBVIOUS
  <1>9. f1 = [f EXCEPT !.block[ent][entry] = 0]
    BY <1>4, <1>8, Zenon
  <1>10. f1 = Made(f.free, f.unused, f.super_dirty, B, f.din, f.dirty, f.ino, f.data, f.ret)
    BY <1>1, <1>8, MadeField
  <1>11. PICK u : u = [f1 EXCEPT !.din = d]
    OBVIOUS
  <1>12. u = [f1 EXCEPT !.din.blocks = index]
    <2>1. f1.din = f.din
      BY <1>10, MadeFields
    <2>. QED
      BY <1>7, <1>11, <2>1, Zenon
  <1>13. u = Made(f.free, f.unused, f.super_dirty, B, d, f.dirty, f.ino, f.data, f.ret)
    BY <1>10, <1>11, MadeField
  <1>14. PICK z : z = TRUE
    OBVIOUS
  <1>15. PICK v : v = CutEntry(f, ent, entry, index)
    OBVIOUS
  <1>16. v = [u EXCEPT !.dirty = z]
    BY <1>9, <1>12, <1>14, <1>15, Zenon DEF CutEntry
  <1>17. v = Made(f.free, f.unused, f.super_dirty, B, d, z, f.ino, f.data, f.ret)
    BY <1>13, <1>16, MadeField
  <1>18. v = Updated(f, B, d, z)
    BY <1>1, <1>17, MadeExcept
  <1>19. IsUpdated(f, v, B, d, z)
    <2>1. z \in BOOLEAN
      BY <1>14
    <2>. QED
      BY <1>4, <1>6, <1>18, <2>1, UpdatedProps
  <1>. QED
    BY <1>3, <1>5, <1>14, <1>15, <1>19, Zenon

\* The names after it.
LEMMA CutOwned ==
    ASSUME NEW X, NEW s, Owned(s, X), s.ret = "ok", s.din.blocks # 0,
           NEW index \in Places, index = s.din.blocks - 1,
           NEW b, b = NamesOf(s.block, s.din)[index], b # 0,
           NEW t, IsCut(s, t, b), \A c \in X : t.block[c] = s.block[c],
           NEW M, M = NamesOf(t.block, t.din), M[index] = 0,
           \A q \in Places : q # index => M[q] = NamesOf(s.block, s.din)[q]
    PROVE  Cut(s, t, X)
  <1>1. /\ s \in State /\ s.din.blocks <= INDIRECT /\ s.din.blocks \in Nat
        /\ Covers(NamesOf(s.block, s.din), s.free, X)
        /\ Filled(NamesOf(s.block, s.din), s.din.blocks)
    BY StateProps, DinProps DEF Owned
  <1>2. PICK N : N = NamesOf(s.block, s.din)
    OBVIOUS
  <1>3. Covers(N, s.free, X) /\ N[index] = b /\ \A q \in Places : q # index => M[q] = N[q]
    BY <1>1, <1>2
  <1>4. M \in [Places -> Numbers]
    <2>1. N \in [Places -> Numbers]
      BY <1>3 DEF Covers
    <2>2. \A q \in Places : M[q] \in Numbers
      BY <1>3, <2>1 DEF Numbers
    <2>. QED
      BY <2>2 DEF NamesOf
  <1>5. Covers(M, s.free \cup {b}, X)
    BY <1>3, <1>4, CoversDropped
  <1>6. Filled(M, s.din.blocks - 1)
    <2>1. ASSUME NEW i \in Places, i < s.din.blocks - 1 PROVE M[i] # 0
      <3>1. i # index /\ i < s.din.blocks
        BY <1>1, <2>1 DEF Places
      <3>. QED
        BY <1>1, <1>2, <1>3, <3>1 DEF Filled
    <2>. QED
      BY <2>1 DEF Filled
  <1>7. s.din.blocks - 1 <= INDIRECT
    <2>1. INDIRECT \in Nat
      BY PlaceProps
    <2>. QED
      BY <1>1, <2>1
  <1>8. Owned(t, X)
    BY <1>5, <1>6, <1>7 DEF Owned, IsCut
  <1>9. Apart(s, t, X)
    BY DEF Apart, IsCut
  <1>. QED
    BY <1>8, <1>9 DEF Cut, IsCut

\* sfs_bmap_truncate of a file that has blocks.
LEMMA Truncate ==
    ASSUME NEW X, NEW s, Owned(s, X), s.ret = "ok", s.din.blocks # 0
    PROVE  Cut(s, sfs_bmap_truncate(s), X)
  <1>1. /\ s \in State /\ s.unused = Cardinality(s.free) /\ s.din.blocks <= INDIRECT /\ s.din.blocks \in Nat
        /\ Covers(NamesOf(s.block, s.din), s.free, X)
        /\ Filled(NamesOf(s.block, s.din), s.din.blocks)
    BY StateProps, DinProps DEF Owned
  <1>2. PICK N : N = NamesOf(s.block, s.din)
    OBVIOUS
  <1>3. PICK index : index = s.din.blocks - 1
    OBVIOUS
  <1>4. /\ index \in Nat /\ index < s.din.blocks /\ index \in Places /\ index # INDIRECT /\ INDIRECT \in Places
    <2>1. INDIRECT \in Nat /\ INDIRECT \in Places
      BY PlaceProps
    <2>2. index \in Nat /\ index < s.din.blocks /\ index < INDIRECT
      BY <1>1, <1>3, <2>1
    <2>. QED
      BY <2>1, <2>2 DEF Places
  <1>5. PICK b : b = N[index]
    OBVIOUS
  <1>6. b # 0
    BY <1>1, <1>2, <1>4, <1>5 DEF Filled
  <1>7. Covers(N, s.free, X)
    BY <1>1, <1>2
  <1>8. /\ b \in BLOCKS /\ b \notin s.free /\ b \notin X /\ X \in SUBSET BLOCKS
        /\ \A q \in Places : N[q] = b => q = index
    BY <1>4, <1>5, <1>6, <1>7 DEF Covers, Numbers
  <1>9. PICK f : f = sfs_block_free(s, b)
    OBVIOUS
  <1>10. IsFreed(s, f, b)
    <2>1. f = Freed(s, b)
      BY <1>1, <1>8, <1>9, FreedIs
    <2>. QED
      BY <1>1, <1>8, <2>1, FreedProps
  <1>11. /\ f \in State /\ f.unused = Cardinality(f.free)
         /\ f.free = s.free \cup {b} /\ f.super_dirty = TRUE /\ f.din = s.din /\ f.dirty = s.dirty
         /\ f.data = s.data /\ f.ret = s.ret
         /\ \A c \in BLOCKS : c # b => f.block[c] = s.block[c]
    BY <1>10 DEF IsFreed
  <1>12. s.din.indirect # 0 => s.din.indirect \in BLOCKS /\ s.din.indirect # b
          /\ s.din.indirect \notin X /\ s.din.indirect \notin s.free
    <2>1. N[INDIRECT] = s.din.indirect /\ (s.din.indirect = 0 \/ s.din.indirect \in BLOCKS \ (s.free \cup X))
      BY <1>2, IndirectNamed
    <2>. QED
      BY <1>4, <1>8, <2>1
  <1>13. PICK t : t = sfs_bmap_truncate(s)
    OBVIOUS
  <1>14. PICK M : M = NamesOf(t.block, t.din)
    OBVIOUS
  <1>15. s.din.size \in Nat /\ s.din.direct \in [Slots -> Numbers] /\ s.din.indirect \in Numbers /\ s.din \in Dinode
    BY <1>1, StateProps, DinProps
  <1>16. ASSUME IsCut(s, t, b), \A c \in X : t.block[c] = s.block[c], M[index] = 0,
                \A q \in Places : q # index => M[q] = N[q]
         PROVE  Cut(s, t, X)
    <2>1. b = NamesOf(s.block, s.din)[index] /\ \A q \in Places : q # index => M[q] = NamesOf(s.block, s.din)[q]
      BY <1>2, <1>5, <1>16
    <2>. QED
      BY <1>3, <1>4, <1>6, <1>14, <1>16, <2>1, CutOwned
  <1>17. CASE index < SFS_NDIRECT
    <2>1. index \in Slots
      BY <1>4, <1>17, PlaceProps
    <2>2. b = s.din.direct[index]
      BY <1>2, <1>5, <2>1, NamesProps
    <2>3. t = CutSlot(f, index)
      <3>1. ~(index >= SFS_NDIRECT)
        BY <1>4, <1>17, <2>1, PlaceProps
      <3>. QED
        BY <1>3, <1>9, <1>13, <1>17, <2>2, <3>1, Zenon DEF sfs_bmap_truncate, CutSlot
    <2>4. PICK e : e = WithSlot(s.din.direct, index, 0)
      OBVIOUS
    <2>5. PICK d : d = MadeDin(s.din.size, index, e, s.din.indirect)
      OBVIOUS
    <2>6. PICK z : z = TRUE
      OBVIOUS
    <2>7. IsUpdated(f, t, f.block, d, z)
      BY <1>11, <2>1, <2>3, <2>4, <2>5, <2>6, CutSlotIs
    <2>8. /\ e \in [Slots -> Numbers] /\ e[index] = 0 /\ \A j \in Slots : j # index => e[j] = s.din.direct[j]
      <3>1. PICK g : g = s.din.direct
        OBVIOUS
      <3>2. g \in [Slots -> Numbers] /\ 0 \in Numbers /\ e = WithSlot(g, index, 0)
        BY <1>15, <2>4, <3>1 DEF Numbers
      <3>3. e \in [Slots -> Numbers] /\ e[index] = 0 /\ \A j \in Slots : j # index => e[j] = g[j]
        BY <2>1, <3>2, SlotProps
      <3>. QED
        BY <3>1, <3>3
    <2>9. /\ d.size = s.din.size /\ d.blocks = index /\ d.direct = e /\ d.indirect = s.din.indirect
      BY <1>4, <1>15, <2>5, <2>8, MadeDinode
    <2>10. IsCut(s, t, b)
      BY <1>3, <1>11, <2>6, <2>7, <2>9 DEF IsCut, IsUpdated
    <2>11. \A c \in X : t.block[c] = s.block[c]
      BY <1>8, <1>11, <2>7, Zenon DEF IsUpdated
    <2>12. t.din = d /\ t.block = f.block
      BY <2>7 DEF IsUpdated
    <2>13. M[index] = 0
      BY <1>14, <2>1, <2>8, <2>9, <2>12, NamesProps
    <2>14. ASSUME NEW q \in Places, q # index PROVE M[q] = N[q]
      <3>1. CASE q \in Slots
        BY <1>2, <1>14, <2>8, <2>9, <2>12, <2>14, <3>1, NamesProps
      <3>2. CASE q = INDIRECT
        BY <1>2, <1>14, <2>9, <2>12, <3>2, NamesProps
      <3>3. CASE q - SFS_NDIRECT \in Entries /\ q = SFS_NDIRECT + (q - SFS_NDIRECT)
        <4>1. PICK l : l = q - SFS_NDIRECT
          OBVIOUS
        <4>2. l \in Entries /\ q = SFS_NDIRECT + l
          BY <3>3, <4>1
        <4>3. s.din.indirect # 0 => t.block[s.din.indirect] = s.block[s.din.indirect]
          BY <1>11, <1>12, <2>12
        <4>. QED
          BY <1>2, <1>14, <2>9, <2>12, <4>2, <4>3, NamesProps
      <3>. QED
        BY <3>1, <3>2, <3>3, PlaceProps
    <2>15. Cut(s, t, X)
      BY <1>16, <2>10, <2>11, <2>13, <2>14
    <2>. QED
      BY <1>13, <2>15
  <1>18. CASE ~(index < SFS_NDIRECT)
    <2>1. PICK k : k = index - SFS_NDIRECT
      OBVIOUS
    <2>2. k \in Entries /\ index = SFS_NDIRECT + k
      <3>1. index < INDIRECT /\ INDIRECT \in Nat
        BY <1>1, <1>4, PlaceProps
      <3>. QED
        BY <1>4, <1>18, <2>1, <3>1, PlaceProps
    <2>3. PICK ent : ent = s.din.indirect
      OBVIOUS
    <2>4. b = IF ent = 0 THEN 0 ELSE s.block[ent][k]
      BY <1>2, <1>5, <2>2, <2>3, NamesProps
    <2>5. ent # 0 /\ ent \in BLOCKS /\ ent # b /\ ent \notin X /\ ent \notin s.free
          /\ b = s.block[ent][k] /\ k \in Cells
      BY <1>6, <1>12, <2>2, <2>3, <2>4, PlaceProps
    <2>6. t = CutEntry(f, ent, k, index)
      BY <1>3, <1>9, <1>13, <1>18, <2>1, <2>3, <2>5, Zenon DEF sfs_bmap_truncate, CutEntry
    <2>7. PICK x : x = WithEntry(f.block[ent], k, 0)
      OBVIOUS
    <2>8. /\ x \in [Cells -> Byte] /\ x[k] = 0 /\ \A c \in Cells : c # k => x[c] = f.block[ent][c]
      <3>1. PICK g : g = f.block[ent]
        OBVIOUS
      <3>2. g \in [Cells -> Byte] /\ 0 \in Numbers /\ x = WithEntry(g, k, 0)
        BY <1>11, <2>5, <2>7, <3>1, StateProps DEF Disk, Numbers
      <3>3. x \in [Cells -> Byte] /\ x[k] = 0 /\ \A c \in Cells : c # k => x[c] = g[c]
        BY <2>5, <3>2, EntryProps
      <3>. QED
        BY <3>1, <3>3
    <2>9. PICK B : B = With(f.block, ent, x)
      OBVIOUS
    <2>10. B[ent] = x /\ \A c \in BLOCKS : c # ent => B[c] = f.block[c]
      <3>1. PICK g : g = f.block
        OBVIOUS
      <3>2. g \in Disk /\ B = With(g, ent, x)
        BY <1>11, <2>9, <3>1, StateProps
      <3>3. B[ent] = x /\ \A c \in BLOCKS : c # ent => B[c] = g[c]
        BY <2>5, <2>8, <3>2, WithProps
      <3>. QED
        BY <3>1, <3>3
    <2>11. PICK d : d = MadeDin(s.din.size, index, s.din.direct, s.din.indirect)
      OBVIOUS
    <2>12. /\ d.size = s.din.size /\ d.blocks = index /\ d.direct = s.din.direct /\ d.indirect = s.din.indirect
      BY <2>11 DEF MadeDin
    <2>13. PICK z : z = TRUE
      OBVIOUS
    <2>14. IsUpdated(f, t, B, d, z)
      BY <1>4, <1>11, <2>5, <2>6, <2>7, <2>9, <2>11, <2>13, CutEntryIs
    <2>15. t.din = d /\ t.block = B
      BY <2>14 DEF IsUpdated
    <2>16. IsCut(s, t, b)
      BY <1>3, <1>11, <2>12, <2>13, <2>14 DEF IsCut, IsUpdated
    <2>17. \A c \in X : t.block[c] = s.block[c]
      BY <1>8, <1>11, <2>5, <2>10, <2>15, Zenon
    <2>18. M[index] = 0
      BY <1>14, <2>2, <2>3, <2>5, <2>8, <2>10, <2>12, <2>15, NamesProps
    <2>19. ASSUME NEW q \in Places, q # index PROVE M[q] = N[q]
      <3>1. CASE q \in Slots
        BY <1>2, <1>14, <2>12, <2>15, <3>1, NamesProps
      <3>2. CASE q = INDIRECT
        BY <1>2, <1>14, <2>12, <2>15, <3>2, NamesProps
      <3>3. CASE q - SFS_NDIRECT \in Entries /\ q = SFS_NDIRECT + (q - SFS_NDIRECT)
        <4>1. PICK l : l = q - SFS_NDIRECT
          OBVIOUS
        <4>2. l \in Entries /\ q = SFS_NDIRECT + l /\ l # k /\ l \in Cells
          BY <2>2, <2>19, <3>3, <4>1, PlaceProps
        <4>3. M[q] = t.block[ent][l] /\ N[q] = s.block[ent][l]
          BY <1>2, <1>14, <2>3, <2>5, <2>12, <2>15, <4>2, NamesProps
        <4>4. t.block[ent][l] = f.block[ent][l] /\ f.block[ent] = s.block[ent]
          BY <1>11, <2>5, <2>8, <2>10, <2>15, <4>2
        <4>. QED
          BY <4>3, <4>4
      <3>. QED
        BY <3>1, <3>2, <3>3, PlaceProps
    <2>20. Cut(s, t, X)
      BY <1>16, <2>16, <2>17, <2>18, <2>19
    <2>. QED
      BY <1>13, <2>20
  <1>. QED
    BY <1>17, <1>18

-----------------------------------------------------------------------------
(* Loops.                                                                   *)

\* Induction, as a fact about sets.
LEMMA NatInd ==
    ASSUME NEW T, 0 \in T, \A n \in Nat : n \in T => n + 1 \in T
    PROVE  \A n \in Nat : n \in T
  <1> SUFFICES ASSUME NEW n \in Nat, n \notin T PROVE FALSE
    OBVIOUS
  <1> DEFINE U == {k \in Nat : k \notin T}
  <1>1. PICK m \in U : \A k \in U : m <= k
    <2>1. U \in SUBSET Nat /\ U # {}
      OBVIOUS
    <2>. QED
      BY <2>1, NatMin
  <1>2. m \in Nat /\ m \notin T /\ m # 0
    BY <1>1, Zenon
  <1>3. m - 1 \in Nat /\ m = (m - 1) + 1
    BY <1>2, SMT
  <1>4. m - 1 \notin T
    BY <1>2, <1>3
  <1>5. ~(m <= m - 1)
    BY <1>2, SMT
  <1>. QED
    BY <1>1, <1>3, <1>4, <1>5

\* What holds at first and from turn to turn holds at last.
LEMMA LoopInv ==
    ASSUME NEW lo \in Nat, NEW hi \in Nat, lo <= hi, NEW I, NEW c, <<c[lo], lo>> \in I,
           \A i \in lo .. (hi - 1) : <<c[i], i>> \in I => <<c[i + 1], i + 1>> \in I
    PROVE  <<c[hi], hi>> \in I
  <1> DEFINE T == {k \in Nat : lo + k <= hi => <<c[lo + k], lo + k>> \in I}
  <1>1. 0 \in T
    <2>1. lo + 0 = lo
      OBVIOUS
    <2>. QED
      BY <2>1
  <1>2. ASSUME NEW k \in Nat, k \in T PROVE k + 1 \in T
    <2>1. CASE lo + (k + 1) <= hi
      <3>1. lo + k \in lo .. (hi - 1) /\ lo + k <= hi /\ (lo + k) + 1 = lo + (k + 1)
        BY <2>1
      <3>2. <<c[lo + k], lo + k>> \in I
        BY <1>2, <3>1
      <3>. QED
        BY <3>1, <3>2
    <2>. QED
      BY <2>1
  <1>. HIDE DEF T
  <1>3. \A k \in Nat : k \in T
    BY <1>1, <1>2, NatInd
  <1>4. hi - lo \in Nat /\ lo + (hi - lo) = hi
    OBVIOUS
  <1>5. hi - lo \in T
    BY <1>3, <1>4
  <1>. QED
    BY <1>4, <1>5 DEF T

\* The states that the turns F of a loop pass through.
IsRun(g, lo, hi, s, F) == g = [i \in lo .. hi |-> IF i = lo THEN s ELSE F[<<g[i - 1], i - 1>>]]

\* A loop whose turns F keep I has a run.
LEMMA LoopRuns ==
    ASSUME NEW lo \in Nat, NEW hi \in Nat, lo <= hi, NEW I, NEW F, NEW s, <<s, lo>> \in I,
           \A i \in lo .. (hi - 1) : \A t : <<t, i>> \in I => <<F[<<t, i>>], i + 1>> \in I
    PROVE  \E g : IsRun(g, lo, hi, s, F) /\ \A i \in lo .. hi : <<g[i], i>> \in I
  <1> DEFINE Run(g, k) == /\ g = [i \in lo .. k |-> IF i = lo THEN s ELSE F[<<g[i - 1], i - 1>>]]
                          /\ \A i \in lo .. k : <<g[i], i>> \in I
             T == {k \in Nat : lo + k <= hi => \E g : Run(g, lo + k)}
  <1>1. 0 \in T
    <2> DEFINE g == [i \in lo .. lo |-> s]
    <2>1. lo + 0 = lo /\ lo .. lo = {lo}
      OBVIOUS
    <2>2. g = [i \in lo .. lo |-> IF i = lo THEN s ELSE F[<<g[i - 1], i - 1>>]]
      BY <2>1
    <2>3. Run(g, lo)
      BY <2>1, <2>2
    <2>. QED
      BY <2>1, <2>3
  <1>2. ASSUME NEW k \in Nat, k \in T PROVE k + 1 \in T
    <2> SUFFICES ASSUME lo + (k + 1) <= hi PROVE \E g : Run(g, lo + (k + 1))
      OBVIOUS
    <2> DEFINE n == lo + k
    <2>1. n \in Nat /\ n + 1 = lo + (k + 1) /\ n \in lo .. (hi - 1) /\ lo + k <= hi
      OBVIOUS
    <2>2. PICK h : Run(h, n)
      BY <1>2, <2>1
    <2>. HIDE DEF n
    <2> DEFINE g == [i \in lo .. (n + 1) |-> IF i = n + 1 THEN F[<<h[n], n>>] ELSE h[i]]
    <2>3. \A i \in lo .. (n + 1) : i = n + 1 \/ i \in lo .. n
      BY <2>1
    <2>4. \A i \in lo .. n : i # n + 1 /\ i \in lo .. (n + 1) /\ (i # lo => i - 1 \in lo .. n)
      BY <2>1
    <2>5. n + 1 \in lo .. (n + 1) /\ n + 1 # lo /\ (n + 1) - 1 = n /\ n \in lo .. n
      BY <2>1
    <2>6. g[n + 1] = F[<<h[n], n>>] /\ \A i \in lo .. n : g[i] = h[i]
      BY <2>4, <2>5
    <2>. HIDE DEF g
    <2>7. ASSUME NEW i \in lo .. (n + 1) PROVE g[i] = IF i = lo THEN s ELSE F[<<g[i - 1], i - 1>>]
      <3>1. CASE i = n + 1
        BY <2>5, <2>6, <3>1
      <3>2. CASE i \in lo .. n
        <4>1. h[i] = IF i = lo THEN s ELSE F[<<h[i - 1], i - 1>>]
          BY <2>2, <3>2
        <4>2. i # lo => g[i - 1] = h[i - 1]
          BY <2>4, <2>6, <3>2
        <4>. QED
          BY <2>6, <3>2, <4>1, <4>2
      <3>. QED
        BY <2>3, <3>1, <3>2
    <2>8. g = [i \in lo .. (n + 1) |-> IF i = lo THEN s ELSE F[<<g[i - 1], i - 1>>]]
      BY <2>7 DEF g
    <2>9. \A i \in lo .. n : <<g[i], i>> \in I
      BY <2>2, <2>6
    <2>10. <<g[n + 1], n + 1>> \in I
      BY <2>1, <2>2, <2>5, <2>6
    <2>. QED
      BY <2>1, <2>3, <2>8, <2>9, <2>10
  <1>. HIDE DEF T
  <1>3. \A k \in Nat : k \in T
    BY <1>1, <1>2, NatInd
  <1>4. hi - lo \in Nat /\ lo + (hi - lo) = hi
    OBVIOUS
  <1>5. hi - lo \in T
    BY <1>3, <1>4
  <1>. QED
    BY <1>4, <1>5 DEF T, IsRun

\* The length of a file is legal.
Sized(d) == d.size <= SFS_MAX_FILE_SIZE

\* Blocks have been added up to number i, or there was no room.
Lengthened(s, t, X, i) ==
    /\ Owned(t, X) /\ Apart(s, t, X) /\ t.data = s.data /\ t.din.size = s.din.size
    /\ t.ret \in {"ok", "nomem", "index", "bmap_load"}
    /\ s.din.blocks <= t.din.blocks /\ (t.ret = "ok" => t.din.blocks = i)

\* One block more.
LEMMA LengthenedMore ==
    ASSUME NEW X, NEW s \in State, NEW t, NEW i \in Nat, Lengthened(s, t, X, i), t.ret = "ok",
           NEW u, Asked(t, u, X, i)
    PROVE  Lengthened(s, u, X, i + 1)
  <1>1. t \in State /\ u \in State /\ X \subseteq X
    BY DEF Lengthened, Asked, Owned
  <1>2. Apart(s, u, X)
    <2>1. Apart(s, t, X) /\ Apart(t, u, X)
      BY DEF Lengthened, Asked
    <2>. QED
      BY <1>1, <2>1, ApartThen
  <1>3. s.din.blocks \in Nat /\ t.din.blocks \in Nat
    BY <1>1, StateProps, DinProps
  <1>. QED
    BY <1>2, <1>3 DEF Lengthened, Asked

\* sfs_truncfile to more blocks.
LEMMA Lengthen ==
    ASSUME NEW X, NEW s, Owned(s, X), s.ret = "ok", NEW hi \in Nat, s.din.blocks <= hi
    PROVE  Lengthened(s, Each(s, s.din.blocks, hi, sfs_bmap_load), X, hi)
  <1> DEFINE lo == s.din.blocks
             I == {x \in State \X (lo .. hi) : Lengthened(s, x[1], X, x[2])}
             Op(t, i) == IF t.ret = "ok" THEN sfs_bmap_load(t, i) ELSE t
             F == [x \in I |-> Op(x[1], x[2])]
             c == CHOOSE g : g = [i \in lo .. hi |-> IF i = lo THEN s ELSE Op(g[i - 1], i - 1)]
  <1>0. s \in State
    BY DEF Owned
  <1>1. lo \in Nat /\ lo <= hi /\ \A i \in lo .. (hi - 1) : i \in Nat /\ i \in lo .. hi /\ i + 1 \in lo .. hi
    BY <1>0, StateProps, DinProps
  <1>2. Each(s, s.din.blocks, hi, sfs_bmap_load) = c[hi]
    BY DEF Each, Then
  <1>3. <<s, lo>> \in I
    <2>1. Lengthened(s, s, X, lo)
      <3>1. Apart(s, s, X)
        BY <1>0, ApartSame
      <3>. QED
        BY <1>1, <3>1 DEF Lengthened
    <2>2. lo \in lo .. hi
      BY <1>1
    <2>. HIDE DEF lo
    <2>. QED
      BY <1>0, <2>1, <2>2
  <1>. HIDE DEF lo
  <1>4. ASSUME NEW i \in lo .. (hi - 1), NEW t, <<t, i>> \in I PROVE <<Op(t, i), i + 1>> \in I
    <2>1. Lengthened(s, t, X, i) /\ i \in Nat
      BY <1>1, <1>4
    <2>2. Lengthened(s, Op(t, i), X, i + 1)
      <3>1. CASE t.ret = "ok"
        <4>1. Owned(t, X)
          BY <2>1 DEF Lengthened
        <4>2. PICK u : u = sfs_bmap_load(t, i)
          OBVIOUS
        <4>3. Asked(t, u, X, i)
          BY <2>1, <3>1, <4>1, <4>2, Load
        <4>4. Lengthened(s, u, X, i + 1)
          BY <1>0, <2>1, <3>1, <4>3, LengthenedMore
        <4>. QED
          BY <3>1, <4>2, <4>4
      <3>2. CASE t.ret # "ok"
        BY <2>1, <3>2 DEF Lengthened
      <3>. QED
        BY <3>1, <3>2
    <2>3. Op(t, i) \in State /\ i + 1 \in lo .. hi
      <3>. HIDE DEF Op
      <3>. QED
        BY <1>1, <2>2 DEF Lengthened, Owned
    <2>. HIDE DEF Op
    <2>. QED
      BY <2>2, <2>3
  <1>. HIDE DEF I
  <1>5. \A i \in lo .. (hi - 1) : \A t : <<t, i>> \in I => F[<<t, i>>] = Op(t, i)
    <2>. HIDE DEF Op
    <2>. QED
      OBVIOUS
  <1>. HIDE DEF F, Op
  <1>6. \E g : g = [i \in lo .. hi |-> IF i = lo THEN s ELSE Op(g[i - 1], i - 1)]
    <2>1. \A i \in lo .. (hi - 1) : \A t : <<t, i>> \in I => <<F[<<t, i>>], i + 1>> \in I
      BY <1>4, <1>5
    <2>2. PICK g : IsRun(g, lo, hi, s, F) /\ \A i \in lo .. hi : <<g[i], i>> \in I
      BY <1>1, <1>3, <2>1, LoopRuns
    <2>3. \A i \in lo .. hi : i # lo => i - 1 \in lo .. (hi - 1) /\ i - 1 \in lo .. hi
      BY <1>1
    <2>4. \A i \in lo .. hi : i # lo => F[<<g[i - 1], i - 1>>] = Op(g[i - 1], i - 1)
      BY <1>5, <2>2, <2>3
    <2>. QED
      BY <2>2, <2>4 DEF IsRun
  <1>7. c = [i \in lo .. hi |-> IF i = lo THEN s ELSE Op(c[i - 1], i - 1)]
    BY <1>6
  <1>. HIDE DEF c
  <1>8. c[lo] = s /\ \A i \in lo .. (hi - 1) : c[i + 1] = Op(c[i], i)
    <2>1. lo \in lo .. hi /\ \A i \in lo .. (hi - 1) : i + 1 \in lo .. hi /\ i + 1 # lo /\ (i + 1) - 1 = i
      BY <1>1
    <2>. QED
      BY <1>7, <2>1
  <1>9. <<c[hi], hi>> \in I
    <2>1. <<c[lo], lo>> \in I
      BY <1>3, <1>8
    <2>2. \A i \in lo .. (hi - 1) : <<c[i], i>> \in I => <<c[i + 1], i + 1>> \in I
      BY <1>4, <1>8
    <2>. QED
      BY <1>1, <2>1, <2>2, LoopInv
  <1>10. Lengthened(s, c[hi], X, hi)
    BY <1>9 DEF I
  <1>. QED
    BY <1>2, <1>10

\* Blocks have been given up down to n of them.
Shortened(s, t, X, n) ==
    /\ Owned(t, X) /\ Apart(s, t, X) /\ t.data = s.data /\ t.din.size = s.din.size
    /\ t.ret = "ok" /\ t.din.blocks = n

shrink(t, i) == sfs_bmap_truncate(t)

\* sfs_truncfile to fewer blocks.
LEMMA Shorten ==
    ASSUME NEW X, NEW s, Owned(s, X), s.ret = "ok", NEW lo \in Nat, lo <= s.din.blocks
    PROVE  Shortened(s, Each(s, lo, s.din.blocks, shrink), X, lo)
  <1> DEFINE hi == s.din.blocks
             I == {x \in State \X (lo .. hi) : Shortened(s, x[1], X, hi - (x[2] - lo))}
             Op(t, i) == IF t.ret = "ok" THEN sfs_bmap_truncate(t) ELSE t
             F == [x \in I |-> Op(x[1], x[2])]
             c == CHOOSE g : g = [i \in lo .. hi |-> IF i = lo THEN s ELSE Op(g[i - 1], i - 1)]
  <1>0. s \in State
    BY DEF Owned
  <1>1. hi \in Nat /\ lo <= hi /\ \A i \in lo .. (hi - 1) : i \in Nat /\ i \in lo .. hi /\ i + 1 \in lo .. hi
    BY <1>0, StateProps, DinProps
  <1>2. Each(s, lo, s.din.blocks, shrink) = c[hi]
    BY DEF Each, Then, shrink
  <1>3. <<s, lo>> \in I
    <2>1. Shortened(s, s, X, hi - (lo - lo))
      <3>1. Apart(s, s, X)
        BY <1>0, ApartSame
      <3>2. hi - (lo - lo) = s.din.blocks
        BY <1>1
      <3>. QED
        BY <3>1, <3>2 DEF Shortened
    <2>2. lo \in lo .. hi
      BY <1>1
    <2>. HIDE DEF hi
    <2>. QED
      BY <1>0, <2>1, <2>2
  <1>. HIDE DEF hi
  <1>4. ASSUME NEW i \in lo .. (hi - 1), NEW t, <<t, i>> \in I PROVE <<Op(t, i), i + 1>> \in I
    <2>1. Shortened(s, t, X, hi - (i - lo)) /\ i \in Nat
      BY <1>1, <1>4
    <2>2. PICK n : n = hi - (i - lo)
      OBVIOUS
    <2>3. n \in Nat /\ n # 0 /\ n - 1 = hi - ((i + 1) - lo)
      BY <1>1, <2>2
    <2>4. PICK u : u = sfs_bmap_truncate(t)
      OBVIOUS
    <2>5. Owned(t, X) /\ Apart(s, t, X) /\ t.data = s.data /\ t.din.size = s.din.size /\ t.ret = "ok" /\ t.din.blocks = n
      BY <2>1, <2>2 DEF Shortened
    <2>6. Cut(t, u, X)
      BY <2>3, <2>4, <2>5, Truncate
    <2>7. Apart(s, u, X)
      <3>1. t \in State /\ u \in State /\ X \subseteq X /\ Apart(t, u, X)
        BY <2>5, <2>6 DEF Cut, Owned
      <3>. QED
        BY <1>0, <2>5, <3>1, ApartThen
    <2>8. Shortened(s, u, X, hi - ((i + 1) - lo)) /\ u \in State
      BY <2>3, <2>5, <2>6, <2>7 DEF Shortened, Cut, Owned
    <2>9. Op(t, i) = u /\ i + 1 \in lo .. hi
      BY <1>1, <2>4, <2>5
    <2>. HIDE DEF Op
    <2>. QED
      BY <2>8, <2>9
  <1>. HIDE DEF I
  <1>5. \A i \in lo .. (hi - 1) : \A t : <<t, i>> \in I => F[<<t, i>>] = Op(t, i)
    <2>. HIDE DEF Op
    <2>. QED
      OBVIOUS
  <1>. HIDE DEF F, Op
  <1>6. \E g : g = [i \in lo .. hi |-> IF i = lo THEN s ELSE Op(g[i - 1], i - 1)]
    <2>1. \A i \in lo .. (hi - 1) : \A t : <<t, i>> \in I => <<F[<<t, i>>], i + 1>> \in I
      BY <1>4, <1>5
    <2>2. PICK g : IsRun(g, lo, hi, s, F) /\ \A i \in lo .. hi : <<g[i], i>> \in I
      BY <1>1, <1>3, <2>1, LoopRuns
    <2>3. \A i \in lo .. hi : i # lo => i - 1 \in lo .. (hi - 1) /\ i - 1 \in lo .. hi
      BY <1>1
    <2>4. \A i \in lo .. hi : i # lo => F[<<g[i - 1], i - 1>>] = Op(g[i - 1], i - 1)
      BY <1>5, <2>2, <2>3
    <2>. QED
      BY <2>2, <2>4 DEF IsRun
  <1>7. c = [i \in lo .. hi |-> IF i = lo THEN s ELSE Op(c[i - 1], i - 1)]
    BY <1>6
  <1>. HIDE DEF c
  <1>8. c[lo] = s /\ \A i \in lo .. (hi - 1) : c[i + 1] = Op(c[i], i)
    <2>1. lo \in lo .. hi /\ \A i \in lo .. (hi - 1) : i + 1 \in lo .. hi /\ i + 1 # lo /\ (i + 1) - 1 = i
      BY <1>1
    <2>. QED
      BY <1>7, <2>1
  <1>9. <<c[hi], hi>> \in I
    <2>1. <<c[lo], lo>> \in I
      BY <1>3, <1>8
    <2>2. \A i \in lo .. (hi - 1) : <<c[i], i>> \in I => <<c[i + 1], i + 1>> \in I
      BY <1>4, <1>8
    <2>. QED
      BY <1>1, <2>1, <2>2, LoopInv
  <1>10. Shortened(s, c[hi], X, hi - (hi - lo))
    BY <1>9 DEF I
  <1>11. hi - (hi - lo) = lo
    BY <1>1
  <1>. QED
    BY <1>2, <1>10, <1>11

\* Lengths in blocks.
LEMMA Times ==
    /\ SFS_BLKSIZE \in Nat /\ SFS_BLKSIZE # 0
    /\ \A a \in Nat : a * SFS_BLKSIZE \in Nat /\ (a + 1) * SFS_BLKSIZE = a * SFS_BLKSIZE + SFS_BLKSIZE
    /\ \A a, b \in Nat : a <= b => a * SFS_BLKSIZE <= b * SFS_BLKSIZE
  <1>1. SFS_BLKSIZE \in Nat /\ SFS_BLKSIZE # 0
    BY SfsAssumption
  <1>2. ASSUME NEW a \in Nat
        PROVE  a * SFS_BLKSIZE \in Nat /\ (a + 1) * SFS_BLKSIZE = a * SFS_BLKSIZE + SFS_BLKSIZE
    BY <1>1
  <1>3. ASSUME NEW a \in Nat, NEW b \in Nat, a <= b PROVE a * SFS_BLKSIZE <= b * SFS_BLKSIZE
    BY <1>1, <1>3
  <1>. QED
    BY <1>1, <1>2, <1>3

\* The number of blocks that n bytes take.
LEMMA Rounded ==
    ASSUME NEW n \in Nat
    PROVE  /\ RoundUp(n) \in Nat /\ n <= RoundUp(n) * SFS_BLKSIZE
           /\ \A k \in Nat : n <= k * SFS_BLKSIZE => RoundUp(n) <= k
  <1>1. SFS_BLKSIZE \in Nat /\ SFS_BLKSIZE # 0
    BY SfsAssumption
  <1>2. PICK m : m = n + SFS_BLKSIZE - 1
    OBVIOUS
  <1>3. m \in Nat
    BY <1>1, <1>2
  <1>4. PICK q, r : q = m \div SFS_BLKSIZE /\ r = (m % SFS_BLKSIZE)
    OBVIOUS
  <1>5. q \in Nat /\ r \in Nat /\ r < SFS_BLKSIZE /\ m = SFS_BLKSIZE * q + r
    BY <1>1, <1>3, <1>4
  <1>6. RoundUp(n) = q
    BY <1>2, <1>4 DEF RoundUp
  <1>7. n <= q * SFS_BLKSIZE
    BY <1>1, <1>2, <1>5
  <1>8. ASSUME NEW k \in Nat, n <= k * SFS_BLKSIZE PROVE q <= k
    <2> SUFFICES ASSUME k + 1 <= q PROVE FALSE
      BY <1>5
    <2>1. (k + 1) * SFS_BLKSIZE <= q * SFS_BLKSIZE /\ (k + 1) * SFS_BLKSIZE = k * SFS_BLKSIZE + SFS_BLKSIZE
      BY <1>5, Times
    <2>. QED
      BY <1>1, <1>2, <1>5, <1>8, <2>1
  <1>. QED
    BY <1>5, <1>6, <1>7, <1>8

\* sfs_truncfile to a legal length.
Resized(s, t, X) ==
    /\ Owned(t, X) /\ Apart(s, t, X) /\ Sized(t.din) /\ t.data = s.data
    /\ t.ret \in {"ok", "nomem", "index", "bmap_load", "truncfile"}

resize(t, len) == [t EXCEPT !.din.size = len, !.dirty = TRUE]

\* Another size.
LEMMA ResizedIs ==
    ASSUME NEW t \in State, NEW len \in Nat
    PROVE  IsUpdated(t, resize(t, len), t.block, MadeDin(len, t.din.blocks, t.din.direct, t.din.indirect), TRUE)
  <1>1. t.block \in Disk /\ t.din \in Dinode
    BY StateProps
  <1>2. /\ t.din = MadeDin(t.din.size, t.din.blocks, t.din.direct, t.din.indirect)
        /\ t.din.blocks \in Nat /\ t.din.direct \in [Slots -> Numbers] /\ t.din.indirect \in Numbers
    BY <1>1, DinProps
  <1>3. PICK d : d = MadeDin(len, t.din.blocks, t.din.direct, t.din.indirect)
    OBVIOUS
  <1>4. [t.din EXCEPT !.size = len] = d
    BY <1>2, <1>3 DEF MadeDin
  <1>5. d \in Dinode
    BY <1>2, <1>3, MadeDinode
  <1>6. PICK u, z : u = resize(t, len) /\ z = TRUE
    OBVIOUS
  <1>7. u = [t EXCEPT !.din = d, !.dirty = z]
    BY <1>4, <1>6, Zenon DEF resize
  <1>8. u = Updated(t, t.block, d, z)
    BY <1>7, BlockSame, Zenon
  <1>9. IsUpdated(t, u, t.block, d, z)
    <2>1. z \in BOOLEAN
      BY <1>6
    <2>. QED
      BY <1>1, <1>5, <1>8, <2>1, UpdatedProps
  <1>. QED
    BY <1>3, <1>6, <1>9, Zenon

\* Only the length changes.
LEMMA ResizeOwned ==
    ASSUME NEW X, NEW t, Owned(t, X), NEW len \in Nat, NEW u, u = resize(t, len)
    PROVE  /\ Owned(u, X) /\ Apart(t, u, X) /\ u.data = t.data /\ u.ret = t.ret
           /\ u.din.size = len /\ u.din.blocks = t.din.blocks
           /\ u.block = t.block /\ u.din.direct = t.din.direct /\ u.din.indirect = t.din.indirect
  <1>1. t \in State
    BY DEF Owned
  <1>2. /\ t.din.blocks \in Nat /\ t.din.direct \in [Slots -> Numbers] /\ t.din.indirect \in Numbers
    BY <1>1, StateProps, DinProps
  <1>3. PICK d : d = MadeDin(len, t.din.blocks, t.din.direct, t.din.indirect)
    OBVIOUS
  <1>4. d.size = len /\ d.blocks = t.din.blocks /\ d.direct = t.din.direct /\ d.indirect = t.din.indirect
    BY <1>3 DEF MadeDin
  <1>5. IsUpdated(t, u, t.block, d, TRUE)
    BY <1>1, <1>3, ResizedIs
  <1>6. /\ u \in State /\ u.free = t.free /\ u.unused = t.unused /\ u.super_dirty = t.super_dirty
        /\ u.block = t.block /\ u.din = d /\ u.dirty /\ u.data = t.data /\ u.ret = t.ret
    BY <1>5 DEF IsUpdated
  <1>7. NamesOf(u.block, u.din) = NamesOf(t.block, t.din)
    BY <1>4, <1>6, NamesSame
  <1>8. Owned(u, X)
    BY <1>4, <1>6, <1>7 DEF Owned
  <1>9. Apart(t, u, X)
    BY <1>6 DEF Apart
  <1>. QED
    BY <1>4, <1>6, <1>8, <1>9

\* sfs_truncfile: the blocks stay parted, whether it is done or stops for want of one.
LEMMA TruncFile ==
    ASSUME NEW X, NEW s, Owned(s, X), Sized(s.din), s.ret = "ok", NEW len \in Nat, len <= SFS_MAX_FILE_SIZE
    PROVE  Resized(s, sfs_truncfile(s, len), X)
  <1>1. PICK tblks : tblks = RoundUp(len)
    OBVIOUS
  <1>2. PICK t : t = IF s.din.blocks < tblks THEN Each(s, s.din.blocks, tblks, sfs_bmap_load)
                     ELSE Each(s, tblks, s.din.blocks, shrink)
    OBVIOUS
  <1>3. PICK u : u = sfs_truncfile(s, len)
    OBVIOUS
  <1>4. u = IF s.din.size = len
            THEN IF tblks = s.din.blocks THEN s ELSE [s EXCEPT !.ret = "truncfile"]
            ELSE IF t.ret = "ok" THEN resize(t, len) ELSE t
    BY <1>1, <1>2, <1>3 DEF sfs_truncfile, Then, Each, shrink, resize
  <1>5. s \in State /\ s.din.blocks \in Nat /\ s.din.size \in Nat /\ SFS_MAX_FILE_SIZE \in Nat
    BY StateProps, DinProps, SfsAssumption DEF Owned
  <1>6. tblks \in Nat
    BY <1>1, Rounded
  <1>7. CASE s.din.size = len /\ tblks = s.din.blocks
    <2>1. u = s
      BY <1>4, <1>7
    <2>2. Resized(s, u, X)
      BY <1>5, <2>1, ApartSame DEF Resized
    <2>. QED
      BY <1>3, <2>2
  <1>8. CASE s.din.size = len /\ tblks # s.din.blocks
    <2>1. "truncfile" \in Outcomes
      BY DEF Outcomes, PANICS
    <2>2. Same(s, u) /\ u.ret = "truncfile"
      BY <1>4, <1>5, <1>8, <2>1, WithRet
    <2>3. Owned(u, X) /\ Apart(s, u, X) /\ Unmoved(s, u)
      BY <2>2, SameOwned
    <2>4. Resized(s, u, X)
      BY <2>2, <2>3 DEF Resized, Unmoved
    <2>. QED
      BY <1>3, <2>4
  <1>9. CASE s.din.size # len
    <2>1. /\ Owned(t, X) /\ Apart(s, t, X) /\ t.data = s.data /\ t.din.size = s.din.size
          /\ t.ret \in {"ok", "nomem", "index", "bmap_load"}
      <3>1. CASE s.din.blocks < tblks
        <4>1. t = Each(s, s.din.blocks, tblks, sfs_bmap_load)
          BY <1>2, <3>1
        <4>2. s.din.blocks <= tblks
          BY <1>5, <1>6, <3>1
        <4>3. Lengthened(s, t, X, tblks)
          BY <1>6, <4>1, <4>2, Lengthen
        <4>. QED
          BY <4>3 DEF Lengthened
      <3>2. CASE ~(s.din.blocks < tblks)
        <4>1. t = Each(s, tblks, s.din.blocks, shrink)
          BY <1>2, <3>2
        <4>2. tblks <= s.din.blocks
          BY <1>5, <1>6, <3>2
        <4>3. Shortened(s, t, X, tblks)
          BY <1>6, <4>1, <4>2, Shorten
        <4>. QED
          BY <4>3 DEF Shortened
      <3>. QED
        BY <3>1, <3>2
    <2>2. CASE t.ret = "ok"
      <3>1. u = resize(t, len)
        BY <1>4, <1>9, <2>2
      <3>2. /\ Owned(u, X) /\ Apart(t, u, X) /\ u.data = t.data /\ u.ret = t.ret
            /\ u.din.size = len /\ u.din.blocks = t.din.blocks
        BY <2>1, <3>1, ResizeOwned
      <3>3. Apart(s, u, X)
        <4>1. t \in State /\ u \in State /\ X \subseteq X
          BY <2>1, <3>2 DEF Owned
        <4>. QED
          BY <1>5, <2>1, <3>2, <4>1, ApartThen
      <3>4. Sized(u.din)
        BY <3>2 DEF Sized
      <3>5. Resized(s, u, X)
        BY <2>1, <2>2, <3>2, <3>3, <3>4 DEF Resized
      <3>. QED
        BY <1>3, <3>5
    <2>3. CASE t.ret # "ok"
      <3>1. u = t
        BY <1>4, <1>9, <2>3
      <3>4. Sized(t.din)
        BY <2>1 DEF Sized
      <3>5. Resized(s, u, X)
        BY <2>1, <3>1, <3>4 DEF Resized
      <3>. QED
        BY <1>3, <3>5
    <2>. QED
      BY <2>2, <2>3
  <1>. QED
    BY <1>7, <1>8, <1>9

-----------------------------------------------------------------------------
(* What a transfer moves with one block.                                    *)

\* A byte is in one block.
LEMMA InBlock ==
    ASSUME NEW i \in Nat, NEW k \in Cells, NEW pos, pos = i * SFS_BLKSIZE + k
    PROVE  pos \in Nat /\ (pos \div SFS_BLKSIZE) = i /\ (pos % SFS_BLKSIZE) = k
  <1>1. SFS_BLKSIZE \in Nat /\ SFS_BLKSIZE # 0 /\ k \in Nat /\ k < SFS_BLKSIZE
    BY SfsAssumption DEF Cells
  <1>2. pos \in Nat
    BY <1>1, Times
  <1>3. PICK q, r : q = pos \div SFS_BLKSIZE /\ r = (pos % SFS_BLKSIZE)
    OBVIOUS
  <1>4. q \in Nat /\ r \in Nat /\ r < SFS_BLKSIZE /\ pos = SFS_BLKSIZE * q + r
    BY <1>1, <1>2, <1>3
  <1>5. PICK a, b : a = i * SFS_BLKSIZE /\ b = q * SFS_BLKSIZE
    OBVIOUS
  <1>6. a \in Nat /\ b \in Nat /\ pos = a + k /\ pos = b + r
    BY <1>1, <1>4, <1>5
  <1>7. ~(i + 1 <= q)
    <2> SUFFICES ASSUME i + 1 <= q PROVE FALSE
      OBVIOUS
    <2>1. (i + 1) * SFS_BLKSIZE <= b /\ (i + 1) * SFS_BLKSIZE = a + SFS_BLKSIZE
      BY <1>4, <1>5, Times
    <2>. QED
      BY <1>1, <1>4, <1>6, <2>1
  <1>8. ~(q + 1 <= i)
    <2> SUFFICES ASSUME q + 1 <= i PROVE FALSE
      OBVIOUS
    <2>1. (q + 1) * SFS_BLKSIZE <= a /\ (q + 1) * SFS_BLKSIZE = b + SFS_BLKSIZE
      BY <1>4, <1>5, Times
    <2>. QED
      BY <1>1, <1>4, <1>6, <2>1
  <1>9. q = i
    BY <1>4, <1>7, <1>8
  <1>. QED
    BY <1>1, <1>2, <1>3, <1>4, <1>5, <1>6, <1>9

\* How far it has come before block i.
Upto(offset, endpos, i) == Greatest(offset, Least(endpos, i * SFS_BLKSIZE))

\* What a turn moves: from the end of the last one to the end of its block, or of the transfer.
LEMMA Bounds ==
    ASSUME NEW offset \in Nat, NEW endpos \in Nat, offset < endpos,
           NEW i \in Nat, offset \div SFS_BLKSIZE <= i, i < RoundUp(endpos),
           NEW lo, lo = Greatest(offset, i * SFS_BLKSIZE), NEW hi, hi = Least(endpos, (i + 1) * SFS_BLKSIZE),
           NEW at, at = i * SFS_BLKSIZE
    PROVE  /\ at \in Nat /\ lo \in Nat /\ hi \in Nat /\ at <= lo /\ offset <= lo /\ lo < hi /\ hi <= endpos
           /\ hi <= at + SFS_BLKSIZE /\ (i + 1) * SFS_BLKSIZE = at + SFS_BLKSIZE
           /\ lo = Upto(offset, endpos, i) /\ hi = Upto(offset, endpos, i + 1)
  <1>1. SFS_BLKSIZE \in Nat /\ SFS_BLKSIZE # 0 /\ at \in Nat /\ (i + 1) * SFS_BLKSIZE = at + SFS_BLKSIZE
    BY Times
  <1>2. at < endpos
    <2>1. ~(endpos <= i * SFS_BLKSIZE)
      <3>1. endpos <= i * SFS_BLKSIZE => RoundUp(endpos) <= i
        BY Rounded
      <3>2. RoundUp(endpos) \in Nat
        BY Rounded
      <3>. QED
        BY <3>1, <3>2
    <2>. QED
      BY <1>1, <2>1
  <1>3. offset < at + SFS_BLKSIZE
    <2>1. PICK q, r : q = offset \div SFS_BLKSIZE /\ r = (offset % SFS_BLKSIZE)
      OBVIOUS
    <2>2. q \in Nat /\ r \in Nat /\ r < SFS_BLKSIZE /\ offset = SFS_BLKSIZE * q + r
      BY <1>1, <2>1
    <2>3. PICK b : b = q * SFS_BLKSIZE
      OBVIOUS
    <2>4. b \in Nat /\ offset = b + r
      BY <1>1, <2>2, <2>3
    <2>5. b <= at
      BY <2>1, <2>2, <2>3, Times
    <2>. QED
      BY <1>1, <2>2, <2>4, <2>5
  <1>4. lo = IF offset < at THEN at ELSE offset
    BY DEF Greatest
  <1>5. hi = IF endpos < at + SFS_BLKSIZE THEN endpos ELSE at + SFS_BLKSIZE
    BY <1>1 DEF Least
  <1>6. Least(endpos, i * SFS_BLKSIZE) = at
    <2>1. ~(endpos < at)
      BY <1>1, <1>2
    <2>. QED
      BY <2>1 DEF Least
  <1>7. hi \in Nat /\ lo \in Nat /\ offset < hi
    BY <1>1, <1>3, <1>4, <1>5
  <1>8. lo = Upto(offset, endpos, i)
    BY <1>6 DEF Upto
  <1>9. hi = Upto(offset, endpos, i + 1)
    BY <1>7 DEF Upto, Greatest
  <1>10. at <= lo /\ offset <= lo /\ lo < hi /\ hi <= endpos /\ hi <= at + SFS_BLKSIZE
    BY <1>1, <1>2, <1>3, <1>4, <1>5
  <1>. QED
    BY <1>1, <1>7, <1>8, <1>9, <1>10

\* The first turn starts where the transfer does, and the last one ends there.
LEMMA UptoEnds ==
    ASSUME NEW offset \in Nat, NEW endpos \in Nat, offset < endpos
    PROVE  /\ offset \div SFS_BLKSIZE \in Nat /\ RoundUp(endpos) \in Nat
           /\ offset \div SFS_BLKSIZE <= RoundUp(endpos)
           /\ Upto(offset, endpos, offset \div SFS_BLKSIZE) = offset
           /\ Upto(offset, endpos, RoundUp(endpos)) = endpos
  <1>1. SFS_BLKSIZE \in Nat /\ SFS_BLKSIZE # 0
    BY SfsAssumption
  <1>2. PICK q, r : q = offset \div SFS_BLKSIZE /\ r = (offset % SFS_BLKSIZE)
    OBVIOUS
  <1>3. q \in Nat /\ r \in Nat /\ r < SFS_BLKSIZE /\ offset = SFS_BLKSIZE * q + r
    BY <1>1, <1>2
  <1>4. PICK b : b = q * SFS_BLKSIZE
    OBVIOUS
  <1>5. b \in Nat /\ offset = b + r /\ b <= offset
    BY <1>1, <1>3, <1>4
  <1>6. PICK m : m = RoundUp(endpos)
    OBVIOUS
  <1>7. m \in Nat /\ endpos <= m * SFS_BLKSIZE
    BY <1>6, Rounded
  <1>8. PICK e : e = m * SFS_BLKSIZE
    OBVIOUS
  <1>9. e \in Nat /\ endpos <= e
    BY <1>7, <1>8, Times
  <1>10. q <= m
    <2> SUFFICES ASSUME m <= q PROVE q <= m
      BY <1>3, <1>7
    <2>1. e <= b
      BY <1>3, <1>4, <1>7, <1>8, Times
    <2>. QED
      BY <1>5, <1>9, <2>1
  <1>11. Upto(offset, endpos, q) = offset
    <2>1. Least(endpos, b) = b /\ ~(offset < b)
      BY <1>5 DEF Least
    <2>. QED
      BY <1>4, <2>1 DEF Upto, Greatest
  <1>12. Upto(offset, endpos, m) = endpos
    <2>1. Least(endpos, e) = endpos
      BY <1>9 DEF Least
    <2>. QED
      BY <1>8, <2>1 DEF Upto, Greatest
  <1>. QED
    BY <1>2, <1>3, <1>6, <1>7, <1>10, <1>11, <1>12

\* What is written is bytes.
LEMMA BytesOf ==
    ASSUME NEW buf \in Seq(Nat)
    PROVE  buf \in Seq(Byte)
  <1>1. Len(buf) \in Nat /\ buf = [i \in 1 .. Len(buf) |-> buf[i]] /\ \A i \in 1 .. Len(buf) : buf[i] \in Byte
    BY DEF Byte
  <1>2. PICK n : n = Len(buf)
    OBVIOUS
  <1>3. n \in Nat /\ buf \in [1 .. n -> Byte]
    BY <1>1, <1>2
  <1>. QED
    BY <1>3

\* Block and data replaced.
IsMoved(l, u, B, D) ==
    /\ u \in State /\ u.free = l.free /\ u.unused = l.unused /\ u.super_dirty = l.super_dirty
    /\ u.block = B /\ u.din = l.din /\ u.dirty = l.dirty /\ u.ino = l.ino /\ u.data = D /\ u.ret = l.ret

\* A block written and data moved, as a record.
LEMMA MovedIs ==
    ASSUME NEW l \in State, NEW B \in Disk, NEW D \in Seq(Byte),
           NEW u, u = [[l EXCEPT !.block = B] EXCEPT !.data = D]
    PROVE  IsMoved(l, u, B, D)
  <1>1. /\ l = Made(l.free, l.unused, l.super_dirty, l.block, l.din, l.dirty, l.ino, l.data, l.ret)
        /\ l.free \in SUBSET BLOCKS /\ l.unused \in Nat /\ l.super_dirty \in BOOLEAN /\ l.din \in Dinode
        /\ l.dirty \in BOOLEAN /\ l.ino \in Numbers /\ l.ret \in Outcomes
    BY StateProps
  <1>2. PICK v : v = [l EXCEPT !.block = B]
    OBVIOUS
  <1>3. v = Made(l.free, l.unused, l.super_dirty, B, l.din, l.dirty, l.ino, l.data, l.ret)
    BY <1>1, <1>2, MadeField
  <1>4. u = [v EXCEPT !.data = D]
    BY <1>2
  <1>5. u = Made(l.free, l.unused, l.super_dirty, B, l.din, l.dirty, l.ino, D, l.ret)
    <2>1. PICK y : y = D
      OBVIOUS
    <2>2. [v EXCEPT !.data = y] = Made(l.free, l.unused, l.super_dirty, B, l.din, l.dirty, l.ino, y, l.ret)
      BY <1>3, MadeField
    <2>. QED
      BY <1>4, <2>1, <2>2, Zenon
  <1>6. u \in State
    BY <1>1, <1>5, MadeState
  <1>. QED
    BY <1>5, <1>6, MadeFields DEF IsMoved

\* A block written from buf.
Filling(x, at, lo, hi, buf, offset) ==
    [c \in Cells |-> IF at + c \in lo .. (hi - 1) THEN buf[at + c - offset + 1] ELSE x[c]]

\* The n first bytes D of buf, of which some go to a block that holds x, and y then.
IsFilling(x, y, n, D, at, lo, hi, buf, offset) ==
    /\ x \in [Cells -> Byte] /\ at \in Nat /\ lo \in Nat /\ hi \in Nat /\ offset \in Nat /\ buf \in Seq(Byte)
    /\ offset <= lo /\ hi <= offset + Len(buf) /\ offset <= hi
    /\ y = Filling(x, at, lo, hi, buf, offset) /\ n = hi - offset /\ D = SubSeq(buf, 1, n)

\* What a block holds that is partly written.
LEMMA FillingProps ==
    ASSUME NEW x, NEW y, NEW n, NEW D, NEW at, NEW lo, NEW hi, NEW buf, NEW offset,
           IsFilling(x, y, n, D, at, lo, hi, buf, offset)
    PROVE  y \in [Cells -> Byte] /\ D \in Seq(Byte) /\ Len(D) = n
  <1>0. /\ x \in [Cells -> Byte] /\ at \in Nat /\ lo \in Nat /\ hi \in Nat /\ offset \in Nat /\ buf \in Seq(Byte)
        /\ offset <= lo /\ hi <= offset + Len(buf) /\ offset <= hi
        /\ y = Filling(x, at, lo, hi, buf, offset) /\ n = hi - offset /\ D = SubSeq(buf, 1, n)
    BY DEF IsFilling
  <1>1. ASSUME NEW c \in Cells, at + c \in lo .. (hi - 1) PROVE buf[at + c - offset + 1] \in Byte
    <2>1. c \in Nat
      BY SfsAssumption DEF Cells
    <2>2. PICK k : k = at + c - offset + 1
      OBVIOUS
    <2>3. k \in 1 .. Len(buf)
      BY <1>0, <1>1, <2>1, <2>2
    <2>. QED
      BY <1>0, <2>2, <2>3
  <1>2. y \in [Cells -> Byte]
    BY <1>0, <1>1 DEF Filling
  <1>4. n \in Nat /\ n <= Len(buf)
    BY <1>0
  <1>5. SubSeq(buf, 1, n) \in Seq(Byte) /\ Len(SubSeq(buf, 1, n)) = n
    BY <1>0, <1>4
  <1>. QED
    BY <1>0, <1>2, <1>5

\* sfs_wbuf and sfs_wblock.
LEMMA WriteIs ==
    ASSUME NEW l \in State, l.ino \in BLOCKS, NEW blkno, NEW at, at = blkno * SFS_BLKSIZE,
           NEW lo, NEW hi, NEW buf, NEW offset,
           NEW x, x = Filling(l.block[l.ino], at, lo, hi, buf, offset), x \in [Cells -> Byte],
           NEW D, D = SubSeq(buf, 1, hi - offset), D \in Seq(Byte),
           NEW u, u = Transfer(l, blkno, lo, hi, buf, offset, TRUE)
    PROVE  IsMoved(l, u, With(l.block, l.ino, x), D)
  <1>1. l.block \in Disk
    BY StateProps
  <1>2. PICK B : B = [l.block EXCEPT ![l.ino] = x]
    OBVIOUS
  <1>3. B \in Disk /\ B = With(l.block, l.ino, x)
    <2>1. PICK g, b : g = l.block /\ b = l.ino
      OBVIOUS
    <2>2. g \in Disk /\ b \in BLOCKS
      BY <1>1, <2>1
    <2>3. With(g, b, x) \in Disk /\ [g EXCEPT ![b] = x] = With(g, b, x)
      BY <2>2, WithProps
    <2>. QED
      BY <1>2, <2>1, <2>3
  <1>4. u = [l EXCEPT !.block[l.ino] = Filling(l.block[l.ino], at, lo, hi, buf, offset), !.data = D]
    BY Zenon DEF Transfer, Filling
  <1>5. u = [[l EXCEPT !.block = B] EXCEPT !.data = D]
    BY <1>2, <1>4, Zenon
  <1>6. IsMoved(l, u, B, D)
    BY <1>3, <1>5, MovedIs, Zenon
  <1>. QED
    BY <1>3, <1>6

\* A block of the file written.
LEMMA WriteOwned ==
    ASSUME NEW X, NEW l, Owned(l, X), NEW i \in Places, i # INDIRECT,
           l.ino = NamesOf(l.block, l.din)[i], l.ino # 0,
           NEW x, NEW D, NEW u, IsMoved(l, u, With(l.block, l.ino, x), D), x \in [Cells -> Byte]
    PROVE  Owned(u, X) /\ Apart(l, u, X) /\ l.ino \in BLOCKS /\ NamesOf(u.block, u.din) = NamesOf(l.block, l.din)
  <1>1. /\ l \in State /\ l.unused = Cardinality(l.free) /\ l.din.blocks <= INDIRECT
        /\ Covers(NamesOf(l.block, l.din), l.free, X)
        /\ Filled(NamesOf(l.block, l.din), l.din.blocks)
    BY DEF Owned
  <1>2. PICK N : N = NamesOf(l.block, l.din)
    OBVIOUS
  <1>3. PICK b : b = l.ino
    OBVIOUS
  <1>4. Covers(N, l.free, X) /\ N[i] = b /\ b # 0
    BY <1>1, <1>2, <1>3
  <1>5. INDIRECT \in Places
    BY PlaceProps
  <1>6. b \in BLOCKS /\ b \notin X /\ N[INDIRECT] # b /\ X \in SUBSET BLOCKS
    BY <1>4, <1>5 DEF Covers, Numbers
  <1>7. l.din.indirect = N[INDIRECT] /\ (l.din.indirect = 0 \/ l.din.indirect \in BLOCKS)
    BY <1>2, IndirectNamed
  <1>8. \A c \in BLOCKS : c # b => u.block[c] = l.block[c]
    <2>1. PICK g : g = l.block
      OBVIOUS
    <2>2. g \in Disk
      BY <1>1, <2>1, StateProps
    <2>3. \A c \in BLOCKS : c # b => With(g, b, x)[c] = g[c]
      BY <1>6, <2>2, WithProps
    <2>4. u.block = With(g, b, x)
      BY <1>3, <2>1 DEF IsMoved
    <2>. QED
      BY <2>1, <2>3, <2>4
  <1>9. NamesOf(u.block, u.din) = N
    <2>1. u.din = l.din /\ (l.din.indirect = 0 \/ u.block[l.din.indirect] = l.block[l.din.indirect])
      BY <1>6, <1>7, <1>8 DEF IsMoved
    <2>. QED
      BY <1>2, <2>1, NamesSame
  <1>10. Owned(u, X)
    BY <1>1, <1>2, <1>9 DEF Owned, IsMoved
  <1>11. Apart(l, u, X)
    <2>1. \A c \in X : u.block[c] = l.block[c]
      BY <1>6, <1>8, Zenon
    <2>2. l.din.blocks \in Nat
      BY <1>1, StateProps, DinProps
    <2>. QED
      BY <2>1, <2>2 DEF Apart, Later, IsMoved
  <1>. QED
    BY <1>2, <1>3, <1>6, <1>9, <1>10, <1>11

-----------------------------------------------------------------------------
(* Transfers.                                                               *)

\* A turn of sfs_io.
Turn(t, blkno, buf, offset, endpos, write) ==
    IF sfs_bmap_load(t, blkno).ret = "ok"
    THEN Transfer(sfs_bmap_load(t, blkno), blkno, Greatest(offset, blkno * SFS_BLKSIZE),
                  Least(endpos, (blkno + 1) * SFS_BLKSIZE), buf, offset, write)
    ELSE sfs_bmap_load(t, blkno)

\* Something has been written, at most up to endpos.
Wrote(s, t, X, offset, endpos) ==
    /\ Owned(t, X) /\ Apart(s, t, X) /\ t.din.size = s.din.size
    /\ t.ret \in {"ok", "nomem", "index", "bmap_load"}
    /\ offset + Len(t.data) <= endpos

\* One turn of the loop of sfs_io_nolock, writing.
LEMMA WriteTurn ==
    ASSUME NEW X, NEW s \in State, NEW offset \in Nat, NEW endpos \in Nat, offset < endpos,
           NEW buf \in Seq(Byte), endpos <= offset + Len(buf),
           NEW i \in Nat, offset \div SFS_BLKSIZE <= i, i < RoundUp(endpos),
           NEW t, Wrote(s, t, X, offset, endpos), t.ret = "ok",
           NEW u, u = Turn(t, i, buf, offset, endpos, TRUE)
    PROVE  Wrote(s, u, X, offset, endpos)
  <1>1. Owned(t, X) /\ Apart(s, t, X) /\ t.din.size = s.din.size /\ offset + Len(t.data) <= endpos /\ t \in State
    BY DEF Wrote, Owned
  <1>2. PICK l : l = sfs_bmap_load(t, i)
    OBVIOUS
  <1>3. Asked(t, l, X, i)
    BY <1>1, <1>2, Load
  <1>4. Owned(l, X) /\ Apart(t, l, X) /\ l.data = t.data /\ l.din.size = t.din.size /\ l \in State
    BY <1>3 DEF Asked, Owned
  <1>5. Apart(s, l, X)
    <2>1. X \subseteq X
      OBVIOUS
    <2>. QED
      BY <1>1, <1>4, <2>1, ApartThen
  <1>6. CASE l.ret # "ok"
    <2>1. u = l
      BY <1>2, <1>6 DEF Turn
    <2>. QED
      BY <1>1, <1>3, <1>4, <1>5, <2>1 DEF Wrote, Asked
  <1>7. CASE l.ret = "ok"
    <2>1. PICK lo, hi, at : /\ lo = Greatest(offset, i * SFS_BLKSIZE)
                            /\ hi = Least(endpos, (i + 1) * SFS_BLKSIZE) /\ at = i * SFS_BLKSIZE
      OBVIOUS
    <2>2. /\ at \in Nat /\ lo \in Nat /\ hi \in Nat /\ offset <= lo /\ lo < hi /\ hi <= endpos
      BY <2>1, Bounds
    <2>3. u = Transfer(l, i, lo, hi, buf, offset, TRUE)
      BY <1>2, <1>7, <2>1 DEF Turn
    <2>4. i \in Places /\ i # INDIRECT /\ l.ino = NamesOf(l.block, l.din)[i] /\ l.ino # 0
      BY <1>3, <1>7 DEF Asked
    <2>5. l.ino \in BLOCKS /\ l.block \in Disk
      <3>1. l.ino \in Numbers /\ l.block \in Disk
        BY <1>4, StateProps
      <3>. QED
        BY <2>4, <3>1 DEF Numbers
    <2>6. PICK g : g = l.block[l.ino]
      OBVIOUS
    <2>7. g \in [Cells -> Byte]
      BY <2>5, <2>6 DEF Disk
    <2>8. PICK n, x, D : /\ n = hi - offset
                         /\ x = Filling(g, at, lo, hi, buf, offset) /\ D = SubSeq(buf, 1, n)
      OBVIOUS
    <2>9. x \in [Cells -> Byte] /\ D \in Seq(Byte) /\ Len(D) = hi - offset
      <3>1. hi <= offset + Len(buf) /\ offset <= hi
        BY <2>2
      <3>2. g \in [Cells -> Byte] /\ at \in Nat /\ lo \in Nat /\ hi \in Nat /\ offset <= lo
        BY <2>2, <2>7
      <3>3. x \in [Cells -> Byte] /\ D \in Seq(Byte) /\ Len(D) = n
        <4>1. IsFilling(g, x, n, D, at, lo, hi, buf, offset)
          BY <2>8, <3>1, <3>2 DEF IsFilling
        <4>. QED
          BY <4>1, FillingProps
      <3>. QED
        BY <2>8, <3>3
    <2>10. IsMoved(l, u, With(l.block, l.ino, x), D)
      BY <1>4, <2>1, <2>3, <2>5, <2>6, <2>8, <2>9, WriteIs
    <2>11. Owned(u, X) /\ Apart(l, u, X)
      BY <1>4, <2>4, <2>9, <2>10, WriteOwned
    <2>12. Apart(s, u, X)
      <3>1. u \in State /\ X \subseteq X
        BY <2>11 DEF Owned
      <3>. QED
        BY <1>4, <1>5, <2>11, <3>1, ApartThen
    <2>13. offset + Len(u.data) <= endpos
      <3>1. u.data = D /\ Len(D) = hi - offset
        BY <2>9, <2>10 DEF IsMoved
      <3>2. offset + (hi - offset) <= endpos
        BY <2>2
      <3>. QED
        BY <3>1, <3>2
    <2>14. u.din.size = s.din.size /\ u.ret = "ok"
      BY <1>1, <1>4, <1>7, <2>10 DEF IsMoved
    <2>. QED
      BY <2>11, <2>12, <2>13, <2>14 DEF Wrote
  <1>. QED
    BY <1>6, <1>7

\* The states that a transfer passes through.
Turns(s, lo, hi, buf, offset, endpos, write) ==
    CHOOSE g : g = [i \in lo .. hi |->
                       IF i = lo THEN s
                       ELSE IF g[i - 1].ret = "ok" THEN Turn(g[i - 1], i - 1, buf, offset, endpos, write)
                            ELSE g[i - 1]]

\* Block i has a part in it.
HasPart(i, offset, endpos) == offset \div SFS_BLKSIZE <= i /\ i < RoundUp(endpos)

\* The loop.
LEMMA WriteLoop ==
    ASSUME NEW X, NEW s, Owned(s, X), s.ret = "ok", s.data = <<>>,
           NEW offset \in Nat, NEW endpos \in Nat, offset < endpos,
           NEW buf \in Seq(Byte), endpos <= offset + Len(buf),
           NEW lo \in Nat, NEW hi \in Nat, lo <= hi, \A i \in lo .. (hi - 1) : HasPart(i, offset, endpos)
    PROVE  Wrote(s, Turns(s, lo, hi, buf, offset, endpos, TRUE)[hi], X, offset, endpos)
  <1> DEFINE I == {x \in State \X (lo .. hi) : Wrote(s, x[1], X, offset, endpos)}
             Op(t, i) == IF t.ret = "ok" THEN Turn(t, i, buf, offset, endpos, TRUE) ELSE t
             F == [x \in I |-> Op(x[1], x[2])]
             c == Turns(s, lo, hi, buf, offset, endpos, TRUE)
  <1>0. s \in State
    BY DEF Owned
  <1>1. \A i \in lo .. (hi - 1) : i \in Nat /\ i \in lo .. hi /\ i + 1 \in lo .. hi
    OBVIOUS
  <1>2. c = CHOOSE g : g = [i \in lo .. hi |-> IF i = lo THEN s ELSE Op(g[i - 1], i - 1)]
    BY DEF Turns
  <1>. HIDE DEF c
  <1>3. <<s, lo>> \in I
    <2>1. Wrote(s, s, X, offset, endpos)
      <3>1. Apart(s, s, X)
        BY <1>0, ApartSame
      <3>2. offset + Len(s.data) <= endpos
        BY SMT
      <3>. QED
        BY <3>1, <3>2 DEF Wrote
    <2>2. lo \in lo .. hi
      BY <1>1
    <2>. QED
      BY <1>0, <2>1, <2>2
  <1>4. ASSUME NEW i \in lo .. (hi - 1), NEW t, <<t, i>> \in I PROVE <<Op(t, i), i + 1>> \in I
    <2>1. Wrote(s, t, X, offset, endpos) /\ i \in Nat /\ offset \div SFS_BLKSIZE <= i /\ i < RoundUp(endpos)
      BY <1>1, <1>4 DEF HasPart
    <2>2. Wrote(s, Op(t, i), X, offset, endpos)
      <3>1. CASE t.ret = "ok"
        <4>1. PICK u : u = Turn(t, i, buf, offset, endpos, TRUE)
          OBVIOUS
        <4>2. Wrote(s, u, X, offset, endpos)
          BY <1>0, <2>1, <3>1, <4>1, WriteTurn
        <4>. QED
          BY <3>1, <4>1, <4>2
      <3>2. CASE t.ret # "ok"
        BY <2>1, <3>2
      <3>. QED
        BY <3>1, <3>2
    <2>. HIDE DEF Op
    <2>3. Op(t, i) \in State /\ i + 1 \in lo .. hi
      BY <1>1, <2>2 DEF Wrote, Owned
    <2>. QED
      BY <2>2, <2>3
  <1>. HIDE DEF I
  <1>5. \A i \in lo .. (hi - 1) : \A t : <<t, i>> \in I => F[<<t, i>>] = Op(t, i)
    <2>. HIDE DEF Op
    <2>. QED
      OBVIOUS
  <1>. HIDE DEF F, Op
  <1>6. \E g : g = [i \in lo .. hi |-> IF i = lo THEN s ELSE Op(g[i - 1], i - 1)]
    <2>1. \A i \in lo .. (hi - 1) : \A t : <<t, i>> \in I => <<F[<<t, i>>], i + 1>> \in I
      BY <1>4, <1>5
    <2>2. PICK g : IsRun(g, lo, hi, s, F) /\ \A i \in lo .. hi : <<g[i], i>> \in I
      BY <1>1, <1>3, <2>1, LoopRuns
    <2>3. \A i \in lo .. hi : i # lo => i - 1 \in lo .. (hi - 1) /\ i - 1 \in lo .. hi
      BY <1>1
    <2>4. \A i \in lo .. hi : i # lo => F[<<g[i - 1], i - 1>>] = Op(g[i - 1], i - 1)
      BY <1>5, <2>2, <2>3
    <2>. QED
      BY <2>2, <2>4 DEF IsRun
  <1>7. c = [i \in lo .. hi |-> IF i = lo THEN s ELSE Op(c[i - 1], i - 1)]
    BY <1>2, <1>6
  <1>8. c[lo] = s /\ \A i \in lo .. (hi - 1) : c[i + 1] = Op(c[i], i)
    <2>1. lo \in lo .. hi /\ \A i \in lo .. (hi - 1) : i + 1 \in lo .. hi /\ i + 1 # lo /\ (i + 1) - 1 = i
      BY <1>1
    <2>. QED
      BY <1>7, <2>1
  <1>9. <<c[hi], hi>> \in I
    <2>1. <<c[lo], lo>> \in I
      BY <1>3, <1>8
    <2>2. \A i \in lo .. (hi - 1) : <<c[i], i>> \in I => <<c[i + 1], i + 1>> \in I
      BY <1>4, <1>8
    <2>. QED
      BY <1>1, <2>1, <2>2, LoopInv
  <1>. QED
    BY <1>9 DEF I, c

\* What the file holds at a place, byte by byte.
LEMMA ByteHeld ==
    ASSUME NEW s, NEW i \in Places, i # INDIRECT, NEW k \in Cells, NEW pos, pos = i * SFS_BLKSIZE + k
    PROVE  ByteAt(s.block, s.din, pos) = HeldAt(s, i)[k]
  <1>1. i \in Nat
    BY PlaceProps DEF Places
  <1>2. (pos \div SFS_BLKSIZE) = i /\ (pos % SFS_BLKSIZE) = k
    BY <1>1, InBlock
  <1>3. PICK b : b = BlockAt(s.block, s.din, i)
    OBVIOUS
  <1>4. NamesOf(s.block, s.din)[i] = b
    BY <1>3 DEF NamesOf, Names
  <1>5. ByteAt(s.block, s.din, pos) = IF b = 0 THEN 0 ELSE s.block[b][k]
    BY <1>2, <1>3 DEF ByteAt
  <1>6. HeldAt(s, i) = IF b = 0 THEN Zeros ELSE s.block[b]
    BY <1>4 DEF HeldAt
  <1>. QED
    BY <1>5, <1>6 DEF Zeros

\* Bytes have been read, up to n if all went well.
HasRead(s, t, offset, n) ==
    /\ offset + Len(t.data) = n
    /\ \A j \in 1 .. Len(t.data) : t.data[j] = ByteAt(s.block, s.din, offset + j - 1)

IsRead(s, t, X, offset, endpos, n) ==
    /\ Owned(t, X) /\ Apart(s, t, X) /\ Keeps(s, t) /\ t.din.size = s.din.size
    /\ t.ret \in {"ok", "nomem", "index", "bmap_load"}
    /\ offset + Len(t.data) <= endpos
    /\ t.ret = "ok" => HasRead(s, t, offset, n)

\* The n bytes p of one block, which holds x, from lo on.
Part(x, at, lo, hi) == [j \in 1 .. (hi - lo) |-> x[lo - at + j - 1]]

IsPart(p, n, x, at, lo, hi) ==
    /\ x \in [Cells -> Byte] /\ at \in Nat /\ lo \in Nat /\ hi \in Nat
    /\ at <= lo /\ lo < hi /\ hi <= at + SFS_BLKSIZE /\ n = hi - lo /\ p = Part(x, at, lo, hi)

\* What a part of a block holds.
LEMMA PartProps ==
    ASSUME NEW p, NEW n, NEW x, NEW at, NEW lo, NEW hi, IsPart(p, n, x, at, lo, hi)
    PROVE  /\ n \in Nat /\ p \in Seq(Byte) /\ Len(p) = n /\ lo + n = hi
           /\ \A j \in 1 .. n : \E k \in Cells : at + k = lo + j - 1 /\ p[j] = x[k]
  <1>0. /\ x \in [Cells -> Byte] /\ at \in Nat /\ lo \in Nat /\ hi \in Nat
        /\ at <= lo /\ lo < hi /\ hi <= at + SFS_BLKSIZE /\ n = hi - lo /\ p = Part(x, at, lo, hi)
    BY DEF IsPart
  <1>1. SFS_BLKSIZE \in Nat
    BY SfsAssumption
  <1>2. \A j \in 1 .. n : lo - at + j - 1 \in Cells /\ at + (lo - at + j - 1) = lo + j - 1
    BY <1>0, <1>1 DEF Cells
  <1>3. n \in Nat /\ lo + n = hi
    BY <1>0
  <1>4. p = [j \in 1 .. n |-> x[lo - at + j - 1]]
    BY <1>0 DEF Part
  <1>5. p \in [1 .. n -> Byte]
    BY <1>0, <1>2, <1>4
  <1>6. p \in Seq(Byte) /\ Len(p) = n
    BY <1>3, <1>5
  <1>7. ASSUME NEW j \in 1 .. n PROVE \E k \in Cells : at + k = lo + j - 1 /\ p[j] = x[k]
    <2>1. PICK k : k = lo - at + j - 1
      OBVIOUS
    <2>2. k \in Cells /\ at + k = lo + j - 1
      BY <1>2, <2>1
    <2>3. p[j] = x[k]
      BY <1>4, <2>1
    <2>. QED
      BY <2>2, <2>3
  <1>. QED
    BY <1>3, <1>6, <1>7

IsReading(l, u, B, D, blkno, lo, hi, buf, offset, p) ==
    /\ l \in State /\ p \in Seq(Byte) /\ p = Part(l.block[l.ino], blkno * SFS_BLKSIZE, lo, hi)
    /\ D = l.data \o p /\ B = l.block /\ u = Transfer(l, blkno, lo, hi, buf, offset, FALSE)

\* sfs_rbuf and sfs_rblock.
LEMMA ReadIs ==
    ASSUME NEW l, NEW u, NEW B, NEW D, NEW blkno, NEW lo, NEW hi, NEW buf, NEW offset, NEW p,
           IsReading(l, u, B, D, blkno, lo, hi, buf, offset, p)
    PROVE  IsMoved(l, u, B, D)
  <1>0. /\ l \in State /\ p \in Seq(Byte) /\ p = Part(l.block[l.ino], blkno * SFS_BLKSIZE, lo, hi)
        /\ D = l.data \o p /\ B = l.block /\ u = Transfer(l, blkno, lo, hi, buf, offset, FALSE)
    BY DEF IsReading
  <1>1. l.block \in Disk /\ l.data \in Seq(Byte)
    BY <1>0, StateProps
  <1>2. l = Made(l.free, l.unused, l.super_dirty, l.block, l.din, l.dirty, l.ino, l.data, l.ret)
    BY <1>0, StateProps
  <1>4. D \in Seq(Byte)
    BY <1>0, <1>1
  <1>5. u = [l EXCEPT !.data = l.data \o p]
    <2>1. u = [l EXCEPT !.data = l.data \o [i \in 1 .. (hi - lo) |-> l.block[l.ino][lo - blkno * SFS_BLKSIZE + i - 1]]]
      BY <1>0, Zenon DEF Transfer
    <2>. QED
      BY <1>0, <2>1, Zenon DEF Part
  <1>7. [l EXCEPT !.block = B] = l
    <2>1. [l EXCEPT !.block = B] = Made(l.free, l.unused, l.super_dirty, B, l.din, l.dirty, l.ino, l.data, l.ret)
      BY <1>2, MadeField
    <2>. QED
      BY <1>0, <1>2, <2>1, Zenon
  <1>8. u = [[l EXCEPT !.block = B] EXCEPT !.data = D]
    BY <1>0, <1>5, <1>7, Zenon
  <1>. QED
    BY <1>0, <1>1, <1>4, <1>8, MovedIs, Zenon

\* Two sequences joined.
IsJoin(D, d, p, m, n) ==
    m \in Nat /\ n \in Nat /\ d \in Seq(Byte) /\ p \in Seq(Byte) /\ Len(d) = m /\ Len(p) = n /\ D = d \o p

\* Lengths add up.
LEMMA JoinLen ==
    ASSUME NEW S, NEW d \in Seq(S), NEW p \in Seq(S)
    PROVE  Len(d \o p) = Len(d) + Len(p)
  OBVIOUS

\* What two parts hold together.
LEMMA JoinProps ==
    ASSUME NEW D, NEW d, NEW p, NEW m, NEW n, IsJoin(D, d, p, m, n)
    PROVE  /\ Len(D) = m + n
           /\ \A j \in 1 .. (m + n) : IF j <= m THEN D[j] = d[j] ELSE D[j] = p[j - m] /\ j - m \in 1 .. n
  <1>1. m \in Nat /\ n \in Nat /\ d \in Seq(Byte) /\ p \in Seq(Byte) /\ Len(d) = m /\ Len(p) = n /\ D = d \o p
    BY DEF IsJoin
  <1>2. Len(D) = m + n
    <2>1. Len(d \o p) = Len(d) + Len(p)
      BY <1>1, JoinLen
    <2>. QED
      BY <1>1, <2>1
  <1>3. ASSUME NEW j \in 1 .. (m + n), j <= m PROVE D[j] = d[j]
    BY <1>1, <1>3
  <1>4. ASSUME NEW j \in 1 .. (m + n), ~(j <= m) PROVE D[j] = p[j - m] /\ j - m \in 1 .. n
    BY <1>1, <1>4
  <1>. QED
    BY <1>2, <1>3, <1>4

\* One turn of the loop of sfs_io_nolock, reading.
LEMMA ReadTurn ==
    ASSUME NEW X, NEW s \in State, NEW offset \in Nat, NEW endpos \in Nat, offset < endpos, NEW buf,
           NEW i \in Nat, offset \div SFS_BLKSIZE <= i, i < RoundUp(endpos),
           NEW t, IsRead(s, t, X, offset, endpos, Upto(offset, endpos, i)), t.ret = "ok",
           NEW u, u = Turn(t, i, buf, offset, endpos, FALSE)
    PROVE  IsRead(s, u, X, offset, endpos, Upto(offset, endpos, i + 1))
  <1>1. /\ Owned(t, X) /\ Apart(s, t, X) /\ Keeps(s, t) /\ t.din.size = s.din.size
        /\ offset + Len(t.data) <= endpos /\ t \in State
        /\ HasRead(s, t, offset, Upto(offset, endpos, i))
    BY DEF IsRead, Owned
  <1>2. PICK l : l = sfs_bmap_load(t, i)
    OBVIOUS
  <1>3. Asked(t, l, X, i)
    BY <1>1, <1>2, Load
  <1>4. Owned(l, X) /\ Apart(t, l, X) /\ Keeps(t, l) /\ l.data = t.data /\ l.din.size = t.din.size /\ l \in State
    BY <1>3 DEF Asked, Owned
  <1>5. Apart(s, l, X) /\ Keeps(s, l)
    <2>1. X \subseteq X
      OBVIOUS
    <2>2. Apart(s, l, X)
      BY <1>1, <1>4, <2>1, ApartThen
    <2>. QED
      BY <1>1, <1>4, <2>2, KeepsThen
  <1>6. CASE l.ret # "ok"
    <2>1. u = l
      BY <1>2, <1>6 DEF Turn
    <2>. QED
      BY <1>1, <1>3, <1>4, <1>5, <1>6, <2>1 DEF IsRead, Asked
  <1>7. CASE l.ret = "ok"
    <2>1. PICK lo, hi, at : /\ lo = Greatest(offset, i * SFS_BLKSIZE)
                            /\ hi = Least(endpos, (i + 1) * SFS_BLKSIZE) /\ at = i * SFS_BLKSIZE
      OBVIOUS
    <2>2. /\ at \in Nat /\ lo \in Nat /\ hi \in Nat /\ at <= lo /\ offset <= lo /\ lo < hi /\ hi <= endpos
          /\ hi <= at + SFS_BLKSIZE /\ lo = Upto(offset, endpos, i) /\ hi = Upto(offset, endpos, i + 1)
      BY <2>1, Bounds
    <2>3. u = Transfer(l, i, lo, hi, buf, offset, FALSE)
      BY <1>2, <1>7, <2>1 DEF Turn
    <2>4. i \in Places /\ i # INDIRECT /\ l.ino = NamesOf(l.block, l.din)[i] /\ l.ino # 0
      BY <1>3, <1>7 DEF Asked
    <2>5. PICK x : x = l.block[l.ino]
      OBVIOUS
    <2>6. x \in [Cells -> Byte]
      <3>1. l.ino \in Numbers /\ l.block \in Disk
        BY <1>4, StateProps
      <3>. QED
        BY <2>4, <2>5, <3>1 DEF Numbers, Disk
    <2>7. x = HeldAt(s, i)
      <3>1. HeldAt(l, i) = x
        BY <2>4, <2>5 DEF HeldAt
      <3>. QED
        BY <1>5, <2>4, <3>1 DEF Keeps
    <2>8. PICK p, n : IsPart(p, n, x, at, lo, hi)
      <3>1. PICK n : n = hi - lo
        OBVIOUS
      <3>2. PICK p : p = Part(x, at, lo, hi)
        OBVIOUS
      <3>3. IsPart(p, n, x, at, lo, hi)
        BY <2>2, <2>6, <3>1, <3>2 DEF IsPart
      <3>. QED
        BY <3>3
    <2>9. /\ n \in Nat /\ p \in Seq(Byte) /\ Len(p) = n /\ lo + n = hi
          /\ \A j \in 1 .. n : \E k \in Cells : at + k = lo + j - 1 /\ p[j] = x[k]
      BY <2>8, PartProps
    <2>10. \A j \in 1 .. n : p[j] = ByteAt(s.block, s.din, lo + j - 1)
      <3>1. ASSUME NEW j \in 1 .. n PROVE p[j] = ByteAt(s.block, s.din, lo + j - 1)
        <4>1. PICK k \in Cells : at + k = lo + j - 1 /\ p[j] = x[k]
          BY <2>9
        <4>2. PICK pos : pos = lo + j - 1
          OBVIOUS
        <4>3. pos = i * SFS_BLKSIZE + k
          BY <2>1, <4>1, <4>2
        <4>4. ByteAt(s.block, s.din, pos) = HeldAt(s, i)[k]
          BY <2>4, <4>3, ByteHeld
        <4>. QED
          BY <2>7, <4>1, <4>2, <4>4
      <3>. QED
        BY <3>1
    <2>11. PICK B, D : B = l.block /\ D = l.data \o p
      OBVIOUS
    <2>12. IsMoved(l, u, B, D)
      <3>1. p = Part(l.block[l.ino], at, lo, hi)
        BY <2>5, <2>8 DEF IsPart
      <3>2. IsReading(l, u, B, D, i, lo, hi, buf, offset, p)
        BY <1>4, <2>1, <2>3, <2>9, <2>11, <3>1 DEF IsReading
      <3>. QED
        BY <3>2, ReadIs
    <2>13. /\ u \in State /\ u.free = l.free /\ u.unused = l.unused /\ u.super_dirty = l.super_dirty
           /\ u.block = l.block /\ u.din = l.din /\ u.dirty = l.dirty /\ u.ret = "ok" /\ u.data = D
      BY <1>7, <2>11, <2>12 DEF IsMoved
    <2>14. Owned(u, X)
      BY <1>4, <2>13 DEF Owned
    <2>15. Apart(s, u, X)
      BY <1>5, <2>13 DEF Apart
    <2>16. Keeps(s, u)
      <3>1. Keeps(l, u)
        BY <2>13, KeepsNames
      <3>. QED
        BY <1>5, <3>1, KeepsThen
    <2>17. PICK m, d : m = Len(t.data) /\ d = t.data
      OBVIOUS
    <2>18. /\ m \in Nat /\ offset + m = lo /\ d \in Seq(Byte) /\ Len(d) = m
           /\ \A j \in 1 .. m : d[j] = ByteAt(s.block, s.din, offset + j - 1)
      <3>1. d \in Seq(Byte)
        BY <1>1, <2>17, StateProps
      <3>2. m \in Nat
        BY <2>17, <3>1
      <3>. QED
        BY <1>1, <2>2, <2>17, <3>1, <3>2 DEF HasRead
    <2>19. D = d \o p
      BY <1>4, <2>11, <2>17
    <2>20. IsJoin(D, d, p, m, n)
      BY <2>9, <2>18, <2>19 DEF IsJoin
    <2>21. Len(D) = m + n /\ \A j \in 1 .. (m + n) : IF j <= m THEN D[j] = d[j] ELSE D[j] = p[j - m] /\ j - m \in 1 .. n
      BY <2>20, JoinProps
    <2>22. offset + (m + n) = hi
      BY <2>9, <2>18
    <2>23. ASSUME NEW j \in 1 .. (m + n) PROVE D[j] = ByteAt(s.block, s.din, offset + j - 1)
      <3>1. CASE j <= m
        <4>1. j \in 1 .. m /\ D[j] = d[j]
          BY <2>18, <2>21, <3>1
        <4>. QED
          BY <2>18, <4>1
      <3>2. CASE ~(j <= m)
        <4>1. PICK k : k = j - m
          OBVIOUS
        <4>2. D[j] = p[k] /\ k \in 1 .. n
          BY <2>21, <3>2, <4>1
        <4>3. p[k] = ByteAt(s.block, s.din, lo + k - 1)
          BY <2>10, <4>2
        <4>4. lo + k - 1 = offset + j - 1
          BY <2>18, <4>1
        <4>. QED
          BY <4>2, <4>3, <4>4
      <3>. QED
        BY <3>1, <3>2
    <2>24. HasRead(s, u, offset, hi)
      BY <2>13, <2>21, <2>22, <2>23 DEF HasRead
    <2>25. offset + Len(u.data) <= endpos /\ u.din.size = s.din.size
      BY <1>1, <1>4, <2>2, <2>13, <2>21, <2>22
    <2>26. IsRead(s, u, X, offset, endpos, hi)
      BY <2>13, <2>14, <2>15, <2>16, <2>24, <2>25 DEF IsRead
    <2>. QED
      BY <2>2, <2>26
  <1>. QED
    BY <1>6, <1>7

\* The loop.
LEMMA ReadLoop ==
    ASSUME NEW X, NEW s, Owned(s, X), s.ret = "ok", s.data = <<>>,
           NEW offset \in Nat, NEW endpos \in Nat, offset < endpos, NEW buf,
           NEW lo \in Nat, NEW hi \in Nat, lo <= hi, \A i \in lo .. (hi - 1) : HasPart(i, offset, endpos),
           Upto(offset, endpos, lo) = offset
    PROVE  IsRead(s, Turns(s, lo, hi, buf, offset, endpos, FALSE)[hi], X, offset, endpos, Upto(offset, endpos, hi))
  <1> DEFINE I == {x \in State \X (lo .. hi) : IsRead(s, x[1], X, offset, endpos, Upto(offset, endpos, x[2]))}
             Op(t, i) == IF t.ret = "ok" THEN Turn(t, i, buf, offset, endpos, FALSE) ELSE t
             F == [x \in I |-> Op(x[1], x[2])]
             c == Turns(s, lo, hi, buf, offset, endpos, FALSE)
  <1>0. s \in State
    BY DEF Owned
  <1>1. \A i \in lo .. (hi - 1) : i \in Nat /\ i \in lo .. hi /\ i + 1 \in lo .. hi
    OBVIOUS
  <1>2. c = CHOOSE g : g = [i \in lo .. hi |-> IF i = lo THEN s ELSE Op(g[i - 1], i - 1)]
    BY DEF Turns
  <1>. HIDE DEF c
  <1>3. <<s, lo>> \in I
    <2>1. IsRead(s, s, X, offset, endpos, offset)
      <3>1. Apart(s, s, X)
        BY <1>0, ApartSame
      <3>2. offset + Len(s.data) <= endpos
        BY SMT
      <3>3. Keeps(s, s)
        BY Zenon DEF Keeps
      <3>4. HasRead(s, s, offset, offset)
        <4>1. Len(s.data) = 0
          OBVIOUS
        <4>. QED
          BY <4>1 DEF HasRead
      <3>. QED
        BY <3>1, <3>2, <3>3, <3>4 DEF IsRead
    <2>2. lo \in lo .. hi
      BY <1>1
    <2>. QED
      BY <1>0, <2>1, <2>2
  <1>4. ASSUME NEW i \in lo .. (hi - 1), NEW t, <<t, i>> \in I PROVE <<Op(t, i), i + 1>> \in I
    <2>1. IsRead(s, t, X, offset, endpos, Upto(offset, endpos, i)) /\ i \in Nat /\ offset \div SFS_BLKSIZE <= i /\ i < RoundUp(endpos)
      BY <1>1, <1>4 DEF HasPart
    <2>2. IsRead(s, Op(t, i), X, offset, endpos, Upto(offset, endpos, i + 1))
      <3>1. CASE t.ret = "ok"
        <4>1. PICK u : u = Turn(t, i, buf, offset, endpos, FALSE)
          OBVIOUS
        <4>2. IsRead(s, u, X, offset, endpos, Upto(offset, endpos, i + 1))
          BY <1>0, <2>1, <3>1, <4>1, ReadTurn
        <4>. QED
          BY <3>1, <4>1, <4>2
      <3>2. CASE t.ret # "ok"
        BY <2>1, <3>2 DEF IsRead
      <3>. QED
        BY <3>1, <3>2
    <2>. HIDE DEF Op
    <2>3. Op(t, i) \in State /\ i + 1 \in lo .. hi
      BY <1>1, <2>2 DEF IsRead, Owned
    <2>. QED
      BY <2>2, <2>3
  <1>. HIDE DEF I
  <1>5. \A i \in lo .. (hi - 1) : \A t : <<t, i>> \in I => F[<<t, i>>] = Op(t, i)
    <2>. HIDE DEF Op
    <2>. QED
      OBVIOUS
  <1>. HIDE DEF F, Op
  <1>6. \E g : g = [i \in lo .. hi |-> IF i = lo THEN s ELSE Op(g[i - 1], i - 1)]
    <2>1. \A i \in lo .. (hi - 1) : \A t : <<t, i>> \in I => <<F[<<t, i>>], i + 1>> \in I
      BY <1>4, <1>5
    <2>2. PICK g : IsRun(g, lo, hi, s, F) /\ \A i \in lo .. hi : <<g[i], i>> \in I
      BY <1>1, <1>3, <2>1, LoopRuns
    <2>3. \A i \in lo .. hi : i # lo => i - 1 \in lo .. (hi - 1) /\ i - 1 \in lo .. hi
      BY <1>1
    <2>4. \A i \in lo .. hi : i # lo => F[<<g[i - 1], i - 1>>] = Op(g[i - 1], i - 1)
      BY <1>5, <2>2, <2>3
    <2>. QED
      BY <2>2, <2>4 DEF IsRun
  <1>7. c = [i \in lo .. hi |-> IF i = lo THEN s ELSE Op(c[i - 1], i - 1)]
    BY <1>2, <1>6
  <1>8. c[lo] = s /\ \A i \in lo .. (hi - 1) : c[i + 1] = Op(c[i], i)
    <2>1. lo \in lo .. hi /\ \A i \in lo .. (hi - 1) : i + 1 \in lo .. hi /\ i + 1 # lo /\ (i + 1) - 1 = i
      BY <1>1
    <2>. QED
      BY <1>7, <2>1
  <1>9. <<c[hi], hi>> \in I
    <2>1. <<c[lo], lo>> \in I
      BY <1>3, <1>8
    <2>2. \A i \in lo .. (hi - 1) : <<c[i], i>> \in I => <<c[i + 1], i + 1>> \in I
      BY <1>4, <1>8
    <2>. QED
      BY <1>1, <2>1, <2>2, LoopInv
  <1>. QED
    BY <1>9 DEF I, c

\* The file is longer if something was written behind its end.
Extended(e, offset) == IF offset + Len(e.data) > e.din.size THEN resize(e, offset + Len(e.data)) ELSE e

IsWriteIo(s, buf, offset, len, t, endpos, lo, hi, e, v) ==
    /\ t = sfs_io(s, buf, offset, len, TRUE) /\ endpos = EndPos(s, offset, len, TRUE)
    /\ lo = offset \div SFS_BLKSIZE /\ hi = RoundUp(endpos)
    /\ e = Turns(s, lo, hi, buf, offset, endpos, TRUE)[hi] /\ v = [s EXCEPT !.ret = "invalid"]

\* sfs_io_nolock, writing, by its early returns and its loop.
LEMMA WriteIoIs ==
    ASSUME NEW s, NEW buf, NEW offset, NEW len, NEW t, NEW endpos, NEW lo, NEW hi, NEW e, NEW v,
           IsWriteIo(s, buf, offset, len, t, endpos, lo, hi, e, v)
    PROVE  t = IF offset >= SFS_MAX_FILE_SIZE THEN v
               ELSE IF offset >= endpos THEN s ELSE Extended(e, offset)
  <1>1. sfs_io(s, buf, offset, len, TRUE) =
            IF offset >= SFS_MAX_FILE_SIZE THEN [s EXCEPT !.ret = "invalid"]
            ELSE IF offset >= EndPos(s, offset, len, TRUE) THEN s
            ELSE Extended(Turns(s, offset \div SFS_BLKSIZE, RoundUp(EndPos(s, offset, len, TRUE)), buf, offset,
                                EndPos(s, offset, len, TRUE), TRUE)
                              [RoundUp(EndPos(s, offset, len, TRUE))], offset)
    BY DEF sfs_io, Each, Then, Turns, Turn, Extended, resize
  <1>. QED
    BY <1>1, Zenon DEF IsWriteIo

IsReadIo(s, buf, offset, len, t, endpos, lo, hi, e, v) ==
    /\ t = sfs_io(s, buf, offset, len, FALSE) /\ endpos = EndPos(s, offset, len, FALSE)
    /\ lo = offset \div SFS_BLKSIZE /\ hi = RoundUp(endpos)
    /\ e = Turns(s, lo, hi, buf, offset, endpos, FALSE)[hi] /\ v = [s EXCEPT !.ret = "invalid"]

\* The same, reading.
LEMMA ReadIoIs ==
    ASSUME NEW s, NEW buf, NEW offset, NEW len, NEW t, NEW endpos, NEW lo, NEW hi, NEW e, NEW v,
           IsReadIo(s, buf, offset, len, t, endpos, lo, hi, e, v)
    PROVE  t = IF offset >= SFS_MAX_FILE_SIZE THEN v
               ELSE IF offset >= endpos THEN s ELSE Extended(e, offset)
  <1>1. sfs_io(s, buf, offset, len, FALSE) =
            IF offset >= SFS_MAX_FILE_SIZE THEN [s EXCEPT !.ret = "invalid"]
            ELSE IF offset >= EndPos(s, offset, len, FALSE) THEN s
            ELSE Extended(Turns(s, offset \div SFS_BLKSIZE, RoundUp(EndPos(s, offset, len, FALSE)), buf, offset,
                                EndPos(s, offset, len, FALSE), FALSE)
                              [RoundUp(EndPos(s, offset, len, FALSE))], offset)
    BY DEF sfs_io, Each, Then, Turns, Turn, Extended, resize
  <1>. QED
    BY <1>1, Zenon DEF IsReadIo

\* Each turn of a transfer has its part.
LEMMA TurnsHavePart ==
    ASSUME NEW offset \in Nat, NEW endpos \in Nat, offset < endpos,
           NEW lo, lo = offset \div SFS_BLKSIZE, NEW hi, hi = RoundUp(endpos)
    PROVE  lo \in Nat /\ hi \in Nat /\ lo <= hi /\ \A i \in lo .. (hi - 1) : HasPart(i, offset, endpos)
  <1>1. lo \in Nat /\ hi \in Nat /\ lo <= hi
    BY UptoEnds
  <1>2. ASSUME NEW i \in lo .. (hi - 1) PROVE HasPart(i, offset, endpos)
    <2>1. lo <= i /\ i < hi
      BY <1>1
    <2>. QED
      BY <2>1 DEF HasPart
  <1>. QED
    BY <1>1, <1>2

\* A part of a sequence, by what is in it.
LEMMA PartOf ==
    ASSUME NEW S, NEW c, NEW d \in Seq(S), NEW offset \in Nat, NEW n \in Nat, offset + Len(d) = n,
           \A j \in 1 .. Len(d) : d[j] = c[offset + j]
    PROVE  d = SubSeq(c, offset + 1, n)
  <1>1. PICK k, m : k = Len(d) /\ m = offset + 1
    OBVIOUS
  <1>2. k \in Nat /\ m \in Int /\ n \in Int /\ n - m + 1 = k /\ (m <= n => n - m + 1 = k) /\ (~(m <= n) => k = 0)
    BY <1>1
  <1>3. ASSUME NEW i \in m .. n PROVE c[i] \in S
    <2>1. PICK j : j = i - offset
      OBVIOUS
    <2>2. j \in 1 .. k /\ i = offset + j
      BY <1>1, <1>2, <1>3, <2>1
    <2>. QED
      BY <1>1, <2>2
  <1>4. PICK e : e = SubSeq(c, m, n)
    OBVIOUS
  <1>5. e \in Seq(S) /\ Len(e) = (IF m <= n THEN n - m + 1 ELSE 0) /\ \A i \in 1 .. n - m + 1 : e[i] = c[m + i - 1]
    BY <1>2, <1>3, <1>4, SubSeqProperties
  <1>6. Len(e) = k
    BY <1>2, <1>5
  <1>7. ASSUME NEW i \in 1 .. k PROVE d[i] = e[i]
    <2>1. i \in 1 .. n - m + 1 /\ m + i - 1 = offset + i
      BY <1>1, <1>2
    <2>. QED
      BY <1>1, <1>5, <2>1
  <1>8. d = e
    BY <1>1, <1>5, <1>6, <1>7, SeqEqual
  <1>. QED
    BY <1>1, <1>4, <1>8

\* A transfer, or another change of a file, has left what it should.
Served(s, t, X) ==
    /\ Owned(t, X) /\ Apart(s, t, X) /\ Sized(t.din)
    /\ t.ret \in {"ok", "nomem", "index", "bmap_load", "truncfile", "invalid"}

\* Nothing done at all.
LEMMA NoneServed ==
    ASSUME NEW X, NEW s, Owned(s, X), Sized(s.din), s.ret = "ok"
    PROVE  Served(s, s, X) /\ Served(s, [s EXCEPT !.ret = "invalid"], X)
  <1>1. s \in State
    BY DEF Owned
  <1>2. Served(s, s, X)
    BY <1>1, ApartSame DEF Served
  <1>3. PICK u : u = [s EXCEPT !.ret = "invalid"]
    OBVIOUS
  <1>4. "invalid" \in Outcomes
    BY DEF Outcomes
  <1>5. Same(s, u) /\ u.ret = "invalid"
    BY <1>1, <1>3, <1>4, WithRet
  <1>6. Owned(u, X) /\ Apart(s, u, X) /\ Unmoved(s, u)
    BY <1>5, SameOwned
  <1>7. Served(s, u, X)
    BY <1>5, <1>6 DEF Served, Unmoved
  <1>. QED
    BY <1>2, <1>3, <1>7

\* The end of a transfer.
LEMMA ExtendedServed ==
    ASSUME NEW X, NEW s \in State, NEW t, Owned(t, X), Apart(s, t, X), t.din.size = s.din.size, Sized(s.din),
           t.ret \in {"ok", "nomem", "index", "bmap_load"}, NEW offset \in Nat,
           offset + Len(t.data) <= SFS_MAX_FILE_SIZE
    PROVE  Served(s, Extended(t, offset), X)
  <1>1. t \in State
    BY DEF Owned
  <1>2. Len(t.data) \in Nat /\ SFS_MAX_FILE_SIZE \in Nat
    BY <1>1, StateProps, SfsAssumption
  <1>3. PICK n : n = offset + Len(t.data)
    OBVIOUS
  <1>4. n \in Nat /\ n <= SFS_MAX_FILE_SIZE
    BY <1>2, <1>3
  <1>5. PICK u : u = Extended(t, offset)
    OBVIOUS
  <1>6. CASE n > t.din.size
    <2>1. u = resize(t, n)
      BY <1>3, <1>5, <1>6 DEF Extended
    <2>2. Owned(u, X) /\ Apart(t, u, X) /\ u.ret = t.ret /\ u.din.size = n
      BY <1>4, <2>1, ResizeOwned
    <2>3. Apart(s, u, X)
      <3>1. u \in State /\ X \subseteq X
        BY <2>2 DEF Owned
      <3>. QED
        BY <1>1, <2>2, <3>1, ApartThen
    <2>4. Served(s, u, X)
      BY <1>4, <2>2, <2>3 DEF Served, Sized
    <2>. QED
      BY <1>5, <2>4
  <1>7. CASE ~(n > t.din.size)
    <2>1. u = t
      BY <1>3, <1>5, <1>7 DEF Extended
    <2>2. Served(s, u, X)
      BY <2>1 DEF Served, Sized
    <2>. QED
      BY <1>5, <2>2
  <1>. QED
    BY <1>6, <1>7

\* sfs_io, writing: the blocks stay parted, however far it comes.
LEMMA WriteIo ==
    ASSUME NEW X, NEW s, Owned(s, X), Sized(s.din), s.ret = "ok", s.data = <<>>, NEW offset \in Nat,
           NEW buf \in Seq(Nat), NEW t, t = sfs_io(s, buf, offset, Len(buf), TRUE)
    PROVE  Served(s, t, X)
  <1>1. s \in State /\ SFS_MAX_FILE_SIZE \in Nat /\ Len(buf) \in Nat
    BY SfsAssumption DEF Owned
  <1>2. buf \in Seq(Byte)
    BY BytesOf
  <1>3. PICK endpos, v : endpos = EndPos(s, offset, Len(buf), TRUE) /\ v = [s EXCEPT !.ret = "invalid"]
    OBVIOUS
  <1>4. endpos \in Nat /\ endpos <= offset + Len(buf) /\ endpos <= SFS_MAX_FILE_SIZE
    BY <1>1, <1>3 DEF EndPos, Least
  <1>5. PICK lo, hi : lo = offset \div SFS_BLKSIZE /\ hi = RoundUp(endpos)
    OBVIOUS
  <1>6. PICK e : e = Turns(s, lo, hi, buf, offset, endpos, TRUE)[hi]
    OBVIOUS
  <1>7. t = IF offset >= SFS_MAX_FILE_SIZE THEN v
            ELSE IF offset >= endpos THEN s ELSE Extended(e, offset)
    <2>1. IsWriteIo(s, buf, offset, Len(buf), t, endpos, lo, hi, e, v)
      BY <1>3, <1>5, <1>6 DEF IsWriteIo
    <2>. QED
      BY <2>1, WriteIoIs
  <1>8. CASE offset >= SFS_MAX_FILE_SIZE \/ offset >= endpos
    BY <1>3, <1>7, <1>8, NoneServed
  <1>9. CASE ~(offset >= SFS_MAX_FILE_SIZE \/ offset >= endpos)
    <2>1. offset < endpos
      BY <1>4, <1>9
    <2>2. lo \in Nat /\ hi \in Nat /\ lo <= hi /\ \A i \in lo .. (hi - 1) : HasPart(i, offset, endpos)
      BY <1>4, <1>5, <2>1, TurnsHavePart
    <2>3. Wrote(s, e, X, offset, endpos)
      BY <1>2, <1>4, <1>6, <2>1, <2>2, WriteLoop
    <2>4. Len(e.data) \in Nat
      BY <2>3, StateProps DEF Wrote, Owned
    <2>5. offset + Len(e.data) <= SFS_MAX_FILE_SIZE
      BY <1>1, <1>4, <2>3, <2>4 DEF Wrote
    <2>6. Served(s, Extended(e, offset), X)
      BY <1>1, <2>3, <2>5, ExtendedServed DEF Wrote
    <2>. QED
      BY <1>7, <1>9, <2>6
  <1>. QED
    BY <1>8, <1>9

\* What a read has returned.
Returned(s, t, offset, n) == t.data = SubSeq(Contents(s.block, s.din), offset + 1, n)

\* sfs_io, reading: and if it comes to its end, the bytes are those of the file.
LEMMA ReadIo ==
    ASSUME NEW X, NEW s, Owned(s, X), Sized(s.din), s.ret = "ok", s.data = <<>>, NEW offset \in Nat,
           NEW len \in Nat, NEW buf, NEW t, t = sfs_io(s, buf, offset, len, FALSE)
    PROVE  /\ Served(s, t, X)
           /\ offset < SFS_MAX_FILE_SIZE /\ t.ret = "ok" => Returned(s, t, offset, Least(offset + len, s.din.size))
  <1>1. s \in State /\ SFS_MAX_FILE_SIZE \in Nat /\ s.din.size \in Nat /\ s.din.size <= SFS_MAX_FILE_SIZE
    BY SfsAssumption, StateProps, DinProps DEF Owned, Sized
  <1>2. PICK endpos, v : endpos = EndPos(s, offset, len, FALSE) /\ v = [s EXCEPT !.ret = "invalid"]
    OBVIOUS
  <1>3. endpos \in Nat /\ endpos <= s.din.size /\ endpos = Least(offset + len, s.din.size)
    BY <1>1, <1>2 DEF EndPos, Least
  <1>4. PICK lo, hi : lo = offset \div SFS_BLKSIZE /\ hi = RoundUp(endpos)
    OBVIOUS
  <1>5. PICK e : e = Turns(s, lo, hi, buf, offset, endpos, FALSE)[hi]
    OBVIOUS
  <1>6. t = IF offset >= SFS_MAX_FILE_SIZE THEN v
            ELSE IF offset >= endpos THEN s ELSE Extended(e, offset)
    <2>1. IsReadIo(s, buf, offset, len, t, endpos, lo, hi, e, v)
      BY <1>2, <1>4, <1>5 DEF IsReadIo
    <2>. QED
      BY <2>1, ReadIoIs
  <1>7. CASE offset >= SFS_MAX_FILE_SIZE
    <2>1. ~(offset < SFS_MAX_FILE_SIZE)
      BY <1>1, <1>7
    <2>. QED
      BY <1>2, <1>6, <1>7, <2>1, NoneServed
  <1>8. CASE ~(offset >= SFS_MAX_FILE_SIZE) /\ offset >= endpos
    <2>1. t = s
      BY <1>6, <1>8
    <2>2. SubSeq(Contents(s.block, s.din), offset + 1, endpos) = <<>>
      <3>1. offset + 1 \in Int /\ endpos \in Int /\ endpos < offset + 1
        BY <1>3, <1>8
      <3>. QED
        BY <3>1, SubSeqEmpty
    <2>3. Returned(s, t, offset, endpos)
      BY <2>1, <2>2 DEF Returned
    <2>. QED
      BY <1>3, <2>1, <2>3, NoneServed
  <1>9. CASE ~(offset >= SFS_MAX_FILE_SIZE) /\ ~(offset >= endpos)
    <2>1. offset < endpos
      BY <1>3, <1>9
    <2>2. lo \in Nat /\ hi \in Nat /\ lo <= hi /\ \A i \in lo .. (hi - 1) : HasPart(i, offset, endpos)
      BY <1>3, <1>4, <2>1, TurnsHavePart
    <2>3. Upto(offset, endpos, lo) = offset /\ Upto(offset, endpos, hi) = endpos
      BY <1>3, <1>4, <2>1, UptoEnds
    <2>4. IsRead(s, e, X, offset, endpos, endpos)
      <3>1. IsRead(s, e, X, offset, endpos, Upto(offset, endpos, hi))
        BY <1>3, <1>5, <2>1, <2>2, <2>3, ReadLoop
      <3>. QED
        BY <2>3, <3>1
    <2>5. e.data \in Seq(Byte) /\ Len(e.data) \in Nat
      BY <2>4, StateProps DEF IsRead, Owned
    <2>6. offset + Len(e.data) <= SFS_MAX_FILE_SIZE /\ ~(offset + Len(e.data) > e.din.size)
      BY <1>1, <1>3, <2>4, <2>5 DEF IsRead
    <2>7. Served(s, Extended(e, offset), X)
      BY <1>1, <2>4, <2>6, ExtendedServed DEF IsRead
    <2>8. t = e
      BY <1>6, <1>9, <2>6 DEF Extended
    <2>9. ASSUME e.ret = "ok" PROVE Returned(s, e, offset, endpos)
      <3>1. PICK c, d : c = Contents(s.block, s.din) /\ d = e.data
        OBVIOUS
      <3>2. HasRead(s, e, offset, endpos)
        BY <2>4, <2>9 DEF IsRead
      <3>3. d \in Seq(Byte) /\ Len(d) \in Nat /\ offset + Len(d) = endpos
        BY <2>5, <3>1, <3>2 DEF HasRead
      <3>4. ASSUME NEW j \in 1 .. Len(d) PROVE d[j] = c[offset + j]
        <4>1. PICK k : k = offset + j
          OBVIOUS
        <4>2. k \in 1 .. s.din.size /\ k - 1 = offset + j - 1
          BY <1>1, <1>3, <3>3, <4>1
        <4>3. c[k] = ByteAt(s.block, s.din, k - 1)
          BY <3>1, <4>2 DEF Contents
        <4>4. d[j] = ByteAt(s.block, s.din, offset + j - 1)
          BY <3>1, <3>2 DEF HasRead
        <4>. QED
          BY <4>1, <4>2, <4>3, <4>4
      <3>5. d = SubSeq(c, offset + 1, endpos)
        BY <1>3, <3>3, <3>4, PartOf
      <3>. QED
        BY <3>1, <3>5 DEF Returned
    <2>. QED
      BY <1>3, <1>6, <1>9, <2>7, <2>8, <2>9
  <1>. QED
    BY <1>7, <1>8, <1>9

-----------------------------------------------------------------------------
(* The blocks of all files, by what they name.                              *)

\* Each block is free, or named at one place of one file.
Parted(N, free) ==
    /\ free \in SUBSET BLOCKS
    /\ \A f \in FILES : N[f] \in [Places -> Numbers]
    /\ \A f \in FILES, p \in Places : N[f][p] \notin free
    /\ \A f, g \in FILES, p, q \in Places : N[f][p] = N[g][q] /\ N[f][p] # 0 => f = g /\ p = q
    /\ \A b \in BLOCKS : b \in free \/ \E f \in FILES, p \in Places : N[f][p] = b

\* The blocks of the other files.
Others(N, f) == {b \in BLOCKS : \E g \in FILES \ {f} : \E p \in Places : N[g][p] = b}

\* One file finds its own blocks apart from those of the others.
LEMMA PartedCovers ==
    ASSUME NEW N, NEW free, Parted(N, free), NEW f \in FILES, NEW X, X = Others(N, f)
    PROVE  Covers(N[f], free, X)
  <1>1. N[f] \in [Places -> Numbers] /\ free \in SUBSET BLOCKS /\ X \in SUBSET BLOCKS
    BY DEF Parted, Others
  <1>2. free \cap X = {}
    BY DEF Parted, Others
  <1>3. ASSUME NEW p \in Places, N[f][p] # 0 PROVE N[f][p] \notin free /\ N[f][p] \notin X
    <2>1. N[f][p] \notin free
      BY DEF Parted
    <2>2. ASSUME NEW g \in FILES \ {f}, NEW q \in Places, N[g][q] = N[f][p] PROVE FALSE
      BY <1>3, <2>2 DEF Parted
    <2>. QED
      BY <2>1, <2>2 DEF Others
  <1>4. \A p, q \in Places : N[f][p] = N[f][q] /\ N[f][p] # 0 => p = q
    BY DEF Parted
  <1>5. ASSUME NEW b \in BLOCKS PROVE b \in free \/ b \in X \/ \E p \in Places : N[f][p] = b
    <2>1. b \in free \/ \E g \in FILES, p \in Places : N[g][p] = b
      BY DEF Parted
    <2>. QED
      BY <2>1 DEF Others
  <1>. QED
    BY <1>1, <1>2, <1>3, <1>4, <1>5 DEF Covers

\* One file gets other blocks, of those that the others leave.
LEMMA CoversParted ==
    ASSUME NEW N, NEW free, Parted(N, free), NEW f \in FILES, NEW X, X = Others(N, f),
           NEW M, NEW gree, Covers(M[f], gree, X), \A g \in FILES : g # f => M[g] = N[g]
    PROVE  Parted(M, gree)
  <1>1. gree \in SUBSET BLOCKS /\ \A g \in FILES : M[g] \in [Places -> Numbers]
    BY DEF Parted, Covers
  <1>2. ASSUME NEW g \in FILES, g # f, NEW p \in Places, M[g][p] # 0 PROVE M[g][p] \in X
    <2>1. M[g][p] \in BLOCKS
      BY <1>1, <1>2 DEF Numbers
    <2>. QED
      BY <1>2, <2>1 DEF Others
  <1>3. 0 \notin BLOCKS
    BY SfsAssumption
  <1>4. ASSUME NEW g \in FILES, NEW p \in Places PROVE M[g][p] \notin gree
    BY <1>1, <1>2, <1>3 DEF Covers
  <1>5. ASSUME NEW g \in FILES, NEW h \in FILES, NEW p \in Places, NEW q \in Places, M[g][p] = M[h][q], M[g][p] # 0
        PROVE  g = h /\ p = q
    <2>1. CASE g = f /\ h = f
      BY <1>5, <2>1 DEF Covers
    <2>2. CASE g = f /\ h # f
      BY <1>2, <1>5, <2>2 DEF Covers
    <2>3. CASE g # f /\ h = f
      BY <1>2, <1>5, <2>3 DEF Covers
    <2>4. CASE g # f /\ h # f
      BY <1>5, <2>4 DEF Parted
    <2>. QED
      BY <2>1, <2>2, <2>3, <2>4
  <1>6. ASSUME NEW b \in BLOCKS PROVE b \in gree \/ \E g \in FILES, p \in Places : M[g][p] = b
    <2>1. b \in gree \/ b \in X \/ \E p \in Places : M[f][p] = b
      BY DEF Covers
    <2>2. b \in X => \E g \in FILES, p \in Places : M[g][p] = b
      BY DEF Others
    <2>. QED
      BY <2>1, <2>2
  <1>. QED
    BY <1>1, <1>4, <1>5, <1>6 DEF Parted

\* The same names, the same parts.
LEMMA PartedSame ==
    ASSUME NEW N, NEW free, Parted(N, free), NEW M, \A f \in FILES : M[f] = N[f]
    PROVE  Parted(M, free)
  BY SMT DEF Parted

-----------------------------------------------------------------------------
(* The file system mounted: inodes I in memory, bitmap and super block S in  *)
(* memory, disk D.                                                          *)

DinIn(I, D, n) == IF n \in DOMAIN I THEN I[n].din ELSE D.din[n]
NamesIn(I, D) == [f \in FILES |-> NamesOf(D.block, DinIn(I, D, f))]

Fits(d) == d \in Dinode /\ d.blocks <= INDIRECT /\ Sized(d)

IsDisk(D) ==
    /\ D = [block |-> D.block, din |-> D.din, free |-> D.free, unused |-> D.unused]
    /\ D.block \in Disk /\ D.din \in [NODES -> Dinode]
IsSuper(S) ==
    /\ S = [free |-> S.free, unused |-> S.unused, super_dirty |-> S.super_dirty]
    /\ S.free \in SUBSET BLOCKS /\ S.super_dirty \in BOOLEAN

\* The bitmap is that of the disk if it is clean, and its count is right.
Bitmaps(S, D) ==
    /\ IsSuper(S) /\ S.unused = Cardinality(S.free)
    /\ ~S.super_dirty => D.free = S.free /\ D.unused = S.unused

\* The inodes are legal, and those in memory like those of the disk if clean.
Inodes(I, D) ==
    /\ \A n \in NODES : Fits(D.din[n])
    /\ \A n \in DOMAIN I : Fits(I[n].din) /\ I[n].dirty \in BOOLEAN
    /\ \A f \in FILES : f \in DOMAIN I /\ ~I[f].dirty => Later(I[f].din, D.din[f])

\* The blocks are parted between the files, which have no holes.
Owning(I, S, D) ==
    /\ Parted(NamesIn(I, D), S.free)
    /\ \A f \in FILES : Filled(NamesIn(I, D)[f], DinIn(I, D, f).blocks)

Stored(I, S, D) == IsDisk(D) /\ Bitmaps(S, D) /\ Inodes(I, D) /\ Owning(I, S, D)

\* The state that a call works on.
View(I, S, D, n) ==
    Made(S.free, S.unused, S.super_dirty, D.block, I[n].din, I[n].dirty, 0, <<>>, "ok")

\* A call on a file finds it sound.
LEMMA ViewOwned ==
    ASSUME NEW I, NEW S, NEW D, Stored(I, S, D), NEW f \in FILES, f \in DOMAIN I,
           NEW X, X = Others(NamesIn(I, D), f), NEW s, s = View(I, S, D, f)
    PROVE  Owned(s, X) /\ Sized(s.din) /\ s.ret = "ok" /\ s.data = <<>>
  <1>1. /\ IsDisk(D) /\ IsSuper(S) /\ S.unused = Cardinality(S.free)
        /\ Fits(I[f].din) /\ I[f].dirty \in BOOLEAN
        /\ Parted(NamesIn(I, D), S.free) /\ Filled(NamesIn(I, D)[f], DinIn(I, D, f).blocks)
    BY DEF Stored, Bitmaps, Inodes, Owning
  <1>2. /\ s.free = S.free /\ s.unused = S.unused /\ s.block = D.block /\ s.din = I[f].din /\ s.ret = "ok" /\ s.data = <<>>
    BY MadeFields DEF View
  <1>3. s \in State
    <2>1. S.unused \in Nat
      BY <1>1, FreeFinite DEF IsSuper
    <2>2. <<>> \in Seq(Byte) /\ "ok" \in Outcomes /\ 0 \in Numbers
      BY DEF Outcomes, Numbers
    <2>. QED
      BY <1>1, <2>1, <2>2, MadeState DEF View, IsSuper, IsDisk, Fits
  <1>4. NamesIn(I, D)[f] = NamesOf(s.block, s.din) /\ DinIn(I, D, f) = s.din
    BY <1>2 DEF NamesIn, DinIn
  <1>5. Covers(NamesOf(s.block, s.din), s.free, X)
    <2>1. Covers(NamesIn(I, D)[f], S.free, X)
      BY <1>1, PartedCovers
    <2>. QED
      BY <1>2, <1>4, <2>1
  <1>. QED
    BY <1>1, <1>2, <1>3, <1>4, <1>5 DEF Owned, Fits

\* What it leaves is sound.
LEMMA ServedStored ==
    ASSUME NEW I, NEW S, NEW D, Stored(I, S, D), NEW f \in FILES, f \in DOMAIN I,
           NEW s, s = View(I, S, D, f), NEW t, Served(s, t, Others(NamesIn(I, D), f)),
           NEW J, DOMAIN J = DOMAIN I, J[f].din = t.din, J[f].dirty = t.dirty,
           \A n \in DOMAIN I : n # f => J[n] = I[n],
           NEW T, T = [free |-> t.free, unused |-> t.unused, super_dirty |-> t.super_dirty],
           NEW E, E = [block |-> t.block, din |-> D.din, free |-> D.free, unused |-> D.unused]
    PROVE  Stored(J, T, E)
  <1>1. /\ IsDisk(D) /\ Bitmaps(S, D) /\ Inodes(I, D)
        /\ Parted(NamesIn(I, D), S.free) /\ \A g \in FILES : Filled(NamesIn(I, D)[g], DinIn(I, D, g).blocks)
    BY DEF Stored, Owning
  <1>2. PICK N, X : N = NamesIn(I, D) /\ X = Others(N, f)
    OBVIOUS
  <1>3. Owned(t, X) /\ Apart(s, t, X) /\ Sized(t.din)
    BY <1>2 DEF Served
  <1>4. /\ t \in State /\ t.unused = Cardinality(t.free) /\ t.din.blocks <= INDIRECT
        /\ Covers(NamesOf(t.block, t.din), t.free, X) /\ Filled(NamesOf(t.block, t.din), t.din.blocks)
    BY <1>3 DEF Owned
  <1>5. /\ s.free = S.free /\ s.super_dirty = S.super_dirty /\ s.block = D.block /\ s.din = I[f].din
        /\ s.dirty = I[f].dirty
    BY MadeFields DEF View
  <1>6. T.free = t.free /\ T.unused = t.unused /\ T.super_dirty = t.super_dirty
    OBVIOUS
  <1>7. E.block = t.block /\ E.din = D.din /\ E.free = D.free /\ E.unused = D.unused
    OBVIOUS
  <1>8. IsDisk(E)
    <2>1. t.block \in Disk
      BY <1>4, StateProps
    <2>. QED
      BY <1>1, <1>7, <2>1 DEF IsDisk
  <1>9. Bitmaps(T, E)
    <2>1. IsSuper(T)
      BY <1>4, <1>6, StateProps DEF IsSuper
    <2>2. ~T.super_dirty => E.free = T.free /\ E.unused = T.unused
      <3> SUFFICES ASSUME ~T.super_dirty PROVE E.free = T.free /\ E.unused = T.unused
        OBVIOUS
      <3>1. ~S.super_dirty /\ t.free = S.free
        BY <1>3, <1>5, <1>6 DEF Apart
      <3>2. D.free = S.free /\ D.unused = S.unused /\ S.unused = Cardinality(S.free)
        BY <1>1, <3>1 DEF Bitmaps
      <3>. QED
        BY <1>4, <1>6, <1>7, <3>1, <3>2
    <2>. QED
      BY <1>4, <1>6, <2>1, <2>2 DEF Bitmaps
  <1>10. Inodes(J, E)
    <2>1. Fits(t.din) /\ t.dirty \in BOOLEAN
      BY <1>3, <1>4, StateProps DEF Fits
    <2>2. ASSUME ~J[f].dirty PROVE Later(J[f].din, E.din[f])
      <3>1. ~I[f].dirty /\ Later(t.din, I[f].din)
        BY <1>3, <1>5, <2>2 DEF Apart
      <3>2. Later(I[f].din, D.din[f])
        BY <1>1, <3>1 DEF Inodes
      <3>3. t.din.blocks \in Nat /\ I[f].din.blocks \in Nat /\ D.din[f].blocks \in Nat
        BY <1>1, <2>1, DinProps DEF Inodes, Fits, NODES
      <3>. QED
        BY <1>7, <3>1, <3>2, <3>3 DEF Later
    <2>3. \A n \in DOMAIN J : Fits(J[n].din) /\ J[n].dirty \in BOOLEAN
      BY <1>1, <2>1 DEF Inodes
    <2>4. \A g \in FILES : g \in DOMAIN J /\ ~J[g].dirty => Later(J[g].din, E.din[g])
      BY <1>1, <1>7, <2>2 DEF Inodes
    <2>5. \A n \in NODES : Fits(E.din[n])
      BY <1>1, <1>7 DEF Inodes
    <2>. QED
      BY <2>3, <2>4, <2>5 DEF Inodes
  <1>11. PICK M : M = NamesIn(J, E)
    OBVIOUS
  <1>12. DinIn(J, E, f) = t.din /\ \A g \in FILES : g # f => DinIn(J, E, g) = DinIn(I, D, g)
    BY <1>7 DEF DinIn
  <1>13. M[f] = NamesOf(t.block, t.din)
    BY <1>7, <1>11, <1>12 DEF NamesIn
  <1>14. ASSUME NEW g \in FILES, g # f PROVE M[g] = N[g]
    <2>1. PICK d : d = DinIn(I, D, g)
      OBVIOUS
    <2>2. N[g] = NamesOf(D.block, d) /\ M[g] = NamesOf(t.block, d)
      BY <1>2, <1>7, <1>11, <1>12, <1>14, <2>1 DEF NamesIn
    <2>3. N[g][INDIRECT] = d.indirect /\ INDIRECT \in Places
      BY <2>2, NamesProps, PlaceProps
    <2>4. N[g] \in [Places -> Numbers]
      BY <1>1, <1>2 DEF Parted
    <2>5. d.indirect = 0 \/ d.indirect \in X
      BY <1>2, <1>14, <2>3, <2>4 DEF Others, Numbers
    <2>6. d.indirect = 0 \/ t.block[d.indirect] = D.block[d.indirect]
      BY <1>3, <1>5, <2>5 DEF Apart
    <2>. QED
      BY <2>2, <2>6, NamesSame
  <1>15. Parted(M, t.free)
    <2>1. Parted(N, S.free) /\ Covers(M[f], t.free, X)
      BY <1>1, <1>2, <1>4, <1>13
    <2>. QED
      BY <1>2, <1>14, <2>1, CoversParted
  <1>16. \A g \in FILES : Filled(M[g], DinIn(J, E, g).blocks)
    <2>1. Filled(M[f], DinIn(J, E, f).blocks)
      BY <1>4, <1>12, <1>13
    <2>2. \A g \in FILES : g # f => Filled(M[g], DinIn(J, E, g).blocks)
      BY <1>1, <1>2, <1>12, <1>14
    <2>. QED
      BY <2>1, <2>2
  <1>17. Owning(J, T, E)
    BY <1>6, <1>11, <1>15, <1>16 DEF Owning
  <1>. QED
    BY <1>8, <1>9, <1>10, <1>17 DEF Stored

\* Nothing of the blocks changes: inodes come, go and are written.
LEMMA StoredSame ==
    ASSUME NEW I, NEW S, NEW D, Stored(I, S, D), NEW J, NEW T, NEW E,
           IsDisk(E), E.block = D.block, Bitmaps(T, E), T.free = S.free, Inodes(J, E),
           \A f \in FILES : Later(DinIn(I, D, f), DinIn(J, E, f))
    PROVE  Stored(J, T, E)
  <1>1. Parted(NamesIn(I, D), S.free) /\ \A g \in FILES : Filled(NamesIn(I, D)[g], DinIn(I, D, g).blocks)
    BY DEF Stored, Owning
  <1>2. PICK N, M : N = NamesIn(I, D) /\ M = NamesIn(J, E)
    OBVIOUS
  <1>3. ASSUME NEW f \in FILES PROVE M[f] = N[f] /\ Filled(M[f], DinIn(J, E, f).blocks)
    <2>1. PICK d, e : d = DinIn(I, D, f) /\ e = DinIn(J, E, f)
      OBVIOUS
    <2>2. Later(d, e)
      BY <2>1
    <2>3. N[f] = NamesOf(D.block, d) /\ M[f] = NamesOf(E.block, e)
      BY <1>2, <2>1 DEF NamesIn
    <2>4. M[f] = N[f]
      BY <2>2, <2>3, NamesSame DEF Later
    <2>5. Filled(N[f], d.blocks)
      BY <1>1, <1>2, <2>1
    <2>6. d.blocks \in Nat /\ e.blocks \in Nat
      <3>1. f \in NODES
        BY DEF NODES
      <3>2. d \in Dinode
        BY <2>1, <3>1 DEF Stored, Inodes, DinIn, Fits
      <3>3. e \in Dinode
        BY <2>1, <3>1 DEF Inodes, DinIn, Fits
      <3>. QED
        BY <3>2, <3>3, DinProps
    <2>7. Filled(N[f], e.blocks)
      <3>1. \A i \in Places : i \in Nat
        BY PlaceProps DEF Places
      <3>2. e.blocks <= d.blocks
        BY <2>2 DEF Later
      <3>3. \A i \in Places : i < e.blocks => i < d.blocks
        BY <2>6, <3>1, <3>2
      <3>. QED
        BY <2>5, <3>3 DEF Filled
    <2>. QED
      BY <2>1, <2>4, <2>7
  <1>4. Parted(M, S.free)
    BY <1>1, <1>2, <1>3, PartedSame
  <1>5. Owning(J, T, E)
    BY <1>2, <1>3, <1>4 DEF Owning
  <1>. QED
    BY <1>5 DEF Stored

-----------------------------------------------------------------------------
(* What the calls leave of it.                                              *)

\* Other counts, and another dirty flag.
IsCounted(x, y, a, b) == y = [x EXCEPT !.ref_count = a, !.open_count = b]
IsCountedAnew(x, y, a, b, c) == y = [x EXCEPT !.ref_count = a, !.open_count = b, !.dirty = c]

\* Counting references does not change the data.
LEMMA CountedData ==
    ASSUME NEW x, IsInode(x), NEW a, NEW b, NEW y, IsCounted(x, y, a, b)
    PROVE  y.din = x.din /\ y.dirty = x.dirty
  <1>1. PICK r, o, d, i : x = [ref_count |-> r, open_count |-> o, dirty |-> d, din |-> i]
    BY DEF IsInode
  <1>. QED
    BY <1>1 DEF IsCounted

\* The same, when an inode may be written on the way.
LEMMA CountedAnewData ==
    ASSUME NEW x, IsInode(x), NEW a, NEW b, NEW c, NEW y, IsCountedAnew(x, y, a, b, c)
    PROVE  y.din = x.din /\ y.dirty = c
  <1>1. PICK r, o, d, i : x = [ref_count |-> r, open_count |-> o, dirty |-> d, din |-> i]
    BY DEF IsInode
  <1>. QED
    BY <1>1 DEF IsCountedAnew

\* J has the inodes I and others, which are as on the disk.
Acquired(I, J, D) ==
    /\ DOMAIN I \subseteq DOMAIN J /\ DOMAIN J \subseteq NODES /\ IsCache(J)
    /\ \A n \in DOMAIN I : J[n].din = I[n].din /\ J[n].dirty = I[n].dirty
    /\ \A n \in DOMAIN J : n \notin DOMAIN I => J[n].din = D.din[n] /\ J[n].dirty = FALSE

\* vop_ref_inc and vop_open_inc do not, and an inode loaded is that of the disk.
LEMMA AcquireData ==
    ASSUME NEW I, IsCache(I), NEW r \in [NODES -> Nat], NEW o \in [NODES -> Nat], NEW J, J = Acquire(I, r, o)
    PROVE  Acquired(I, J, disk)
  <1>1. /\ DOMAIN J = DOMAIN I \cup {m \in NODES : r[m] > 0}
        /\ \A n \in DOMAIN I : J[n] = [I[n] EXCEPT !.ref_count = @ + r[n], !.open_count = @ + o[n]]
        /\ \A n \in NODES \ DOMAIN I : r[n] > 0 => J[n] = Loaded(n, r, o)
    BY Zenon DEF Acquire
  <1>2. DOMAIN I \subseteq DOMAIN J /\ DOMAIN J \subseteq NODES
    BY <1>1, Zenon DEF IsCache
  <1>3. ASSUME NEW n \in DOMAIN I PROVE IsInode(J[n]) /\ J[n].din = I[n].din /\ J[n].dirty = I[n].dirty
    <2>1. PICK x, y, a, b : /\ x = I[n] /\ y = J[n] /\ a = x.ref_count + r[n] /\ b = x.open_count + o[n]
      OBVIOUS
    <2>2. IsInode(x) /\ n \in NODES
      BY <2>1 DEF IsCache
    <2>3. y = [x EXCEPT !.ref_count = a, !.open_count = b]
      BY <1>1, <2>1, Zenon
    <2>4. a \in Nat /\ b \in Nat
      <3>1. x.ref_count \in Nat /\ x.open_count \in Nat
        BY <2>2 DEF IsInode
      <3>2. r[n] \in Nat /\ o[n] \in Nat
        BY <2>2
      <3>. QED
        BY <2>1, <3>1, <3>2
    <2>5. y.din = x.din /\ y.dirty = x.dirty
      <3>1. IsCounted(x, y, a, b)
        BY <2>3 DEF IsCounted
      <3>. QED
        BY <2>2, <3>1, CountedData
    <2>6. IsInode(y)
      <3>1. Recounted(x, y, a, b)
        BY <2>3, Zenon DEF Recounted
      <3>. QED
        BY <2>2, <2>4, <3>1, InodeCounts
    <2>. QED
      BY <2>1, <2>5, <2>6
  <1>4. ASSUME NEW n \in DOMAIN J, n \notin DOMAIN I
        PROVE  IsInode(J[n]) /\ J[n].din = disk.din[n] /\ J[n].dirty = FALSE
    <2>1. n \in NODES /\ J[n] = Loaded(n, r, o)
      BY <1>1, <1>2, <1>4, Zenon
    <2>. QED
      BY <2>1 DEF Loaded, IsInode
  <1>5. IsCache(J)
    BY <1>2, <1>3, <1>4 DEF IsCache
  <1>. QED
    BY <1>2, <1>3, <1>4, <1>5 DEF Acquired

\* References taken: what is loaded is what the disk has.
LEMMA AcquireStored ==
    ASSUME NEW I, IsCache(I), NEW S, Stored(I, S, disk), NEW r \in [NODES -> Nat], NEW o \in [NODES -> Nat],
           NEW J, J = Acquire(I, r, o)
    PROVE  Stored(J, S, disk) /\ IsCache(J) /\ \A f \in FILES : DinIn(J, disk, f) = DinIn(I, disk, f)
  <1>1. IsDisk(disk) /\ Bitmaps(S, disk) /\ Inodes(I, disk)
    BY DEF Stored
  <1>2. /\ DOMAIN I \subseteq DOMAIN J /\ DOMAIN J \subseteq NODES /\ IsCache(J)
        /\ \A n \in DOMAIN I : J[n].din = I[n].din /\ J[n].dirty = I[n].dirty
        /\ \A n \in DOMAIN J : n \notin DOMAIN I => J[n].din = disk.din[n] /\ J[n].dirty = FALSE
    <2>1. Acquired(I, J, disk)
      BY AcquireData
    <2>. QED
      BY <2>1 DEF Acquired
  <1>3. \A n \in NODES : Fits(disk.din[n])
    BY <1>1 DEF Inodes
  <1>4. \A f \in FILES : Later(disk.din[f], disk.din[f])
    <2>1. \A n \in NODES : disk.din[n].blocks \in Nat
      BY <1>3, DinProps DEF Fits
    <2>. QED
      BY <2>1 DEF Later, NODES
  <1>5. Inodes(J, disk)
    <2>1. \A n \in DOMAIN J : Fits(J[n].din) /\ J[n].dirty \in BOOLEAN
      BY <1>1, <1>2, <1>3 DEF Inodes
    <2>2. \A f \in FILES : f \in DOMAIN J /\ ~J[f].dirty => Later(J[f].din, disk.din[f])
      BY <1>1, <1>2, <1>4 DEF Inodes
    <2>. QED
      BY <1>3, <2>1, <2>2 DEF Inodes
  <1>6. \A f \in FILES : DinIn(J, disk, f) = DinIn(I, disk, f)
    BY <1>2 DEF DinIn
  <1>7. \A f \in FILES : Later(DinIn(I, disk, f), DinIn(J, disk, f))
    <2>1. ASSUME NEW f \in FILES PROVE Later(DinIn(I, disk, f), DinIn(J, disk, f))
      <3>1. PICK d : d = DinIn(I, disk, f)
        OBVIOUS
      <3>2. f \in NODES
        BY DEF NODES
      <3>3. Fits(d)
        BY <1>1, <3>1, <3>2 DEF Inodes, DinIn
      <3>4. d.blocks \in Nat
        BY <3>3, DinProps DEF Fits
      <3>5. Later(d, d)
        BY <3>4 DEF Later
      <3>. QED
        BY <1>6, <3>1, <3>5
    <2>. QED
      BY <2>1
  <1>8. Stored(J, S, disk)
    BY <1>1, <1>5, <1>7, StoredSame
  <1>. QED
    BY <1>2, <1>6, <1>8

\* Inodes W are written to the disk; what leaves memory has been, or is as there.
IsWriteBack(I, D, J, E, W) ==
    /\ E = [block |-> D.block, din |-> [n \in NODES |-> IF n \in W THEN I[n].din ELSE D.din[n]],
            free |-> D.free, unused |-> D.unused]
    /\ W \subseteq DOMAIN I /\ DOMAIN J \subseteq DOMAIN I
    /\ \A n \in DOMAIN J : J[n].din = I[n].din /\ J[n].dirty \in BOOLEAN /\ (J[n].dirty <=> I[n].dirty /\ n \notin W)
    /\ \A n \in DOMAIN I : n \notin DOMAIN J /\ I[n].dirty => n \in W

\* Writing inodes back keeps the file system sound.
LEMMA WrittenStored ==
    ASSUME NEW I, NEW S, NEW D, Stored(I, S, D), NEW J, NEW E, NEW W, IsWriteBack(I, D, J, E, W)
    PROVE  Stored(J, S, E)
  <1>1. IsDisk(D) /\ Bitmaps(S, D) /\ Inodes(I, D)
    BY DEF Stored
  <1>2. PICK w : w = [n \in NODES |-> IF n \in W THEN I[n].din ELSE D.din[n]]
    OBVIOUS
  <1>3. E = [block |-> D.block, din |-> w, free |-> D.free, unused |-> D.unused]
    BY <1>2 DEF IsWriteBack
  <1>4. E.block = D.block /\ E.din = w /\ E.free = D.free /\ E.unused = D.unused
    BY <1>3
  <1>5. /\ W \subseteq DOMAIN I /\ DOMAIN J \subseteq DOMAIN I
        /\ \A n \in DOMAIN J : J[n].din = I[n].din /\ J[n].dirty \in BOOLEAN /\ (J[n].dirty <=> I[n].dirty /\ n \notin W)
        /\ \A n \in DOMAIN I : n \notin DOMAIN J /\ I[n].dirty => n \in W
    BY DEF IsWriteBack
  <1>6. w \in [NODES -> Dinode] /\ \A n \in NODES : Fits(w[n])
    <2>1. \A n \in NODES : Fits(w[n])
      BY <1>1, <1>2, <1>5 DEF Inodes
    <2>. QED
      BY <1>2, <2>1 DEF Fits
  <1>7. IsDisk(E)
    BY <1>1, <1>3, <1>4, <1>6 DEF IsDisk
  <1>8. Bitmaps(S, E)
    BY <1>1, <1>4 DEF Bitmaps
  <1>9. \A f \in FILES : f \in NODES
    BY DEF NODES
  <1>10. \A d : d \in Dinode => Later(d, d)
    <2>1. \A d \in Dinode : d.blocks \in Nat
      BY DinProps
    <2>. QED
      BY <2>1 DEF Later
  <1>11. Inodes(J, E)
    <2>1. \A n \in DOMAIN J : Fits(J[n].din) /\ J[n].dirty \in BOOLEAN
      BY <1>1, <1>5 DEF Inodes
    <2>2. ASSUME NEW f \in FILES, f \in DOMAIN J, ~J[f].dirty PROVE Later(J[f].din, w[f])
      <3>1. f \in DOMAIN I /\ J[f].din = I[f].din /\ (~I[f].dirty \/ f \in W) /\ f \in NODES
        BY <1>5, <1>9, <2>2
      <3>2. CASE f \in W
        <4>1. w[f] = I[f].din /\ I[f].din \in Dinode
          BY <1>1, <1>2, <3>1, <3>2 DEF Inodes, Fits
        <4>. QED
          BY <1>10, <3>1, <4>1
      <3>3. CASE f \notin W
        BY <1>1, <1>2, <3>1, <3>3 DEF Inodes
      <3>. QED
        BY <3>2, <3>3
    <2>. QED
      BY <1>4, <1>6, <2>1, <2>2 DEF Inodes
  <1>12. ASSUME NEW f \in FILES PROVE Later(DinIn(I, D, f), DinIn(J, E, f))
    <2>1. f \in NODES
      BY <1>9
    <2>2. D.din[f] \in Dinode /\ (f \in DOMAIN I => I[f].din \in Dinode)
      BY <1>1, <2>1 DEF Inodes, Fits
    <2>3. CASE f \in DOMAIN J
      <3>1. DinIn(J, E, f) = I[f].din /\ DinIn(I, D, f) = I[f].din /\ f \in DOMAIN I
        BY <1>5, <2>3 DEF DinIn
      <3>. QED
        BY <1>10, <2>2, <3>1
    <2>4. CASE f \notin DOMAIN J /\ f \notin DOMAIN I
      <3>1. DinIn(J, E, f) = D.din[f] /\ DinIn(I, D, f) = D.din[f]
        BY <1>2, <1>4, <1>5, <2>1, <2>4 DEF DinIn
      <3>. QED
        BY <1>10, <2>2, <3>1
    <2>5. CASE f \notin DOMAIN J /\ f \in DOMAIN I /\ f \in W
      <3>1. DinIn(J, E, f) = I[f].din /\ DinIn(I, D, f) = I[f].din
        BY <1>2, <1>4, <2>1, <2>5 DEF DinIn
      <3>. QED
        BY <1>10, <2>2, <2>5, <3>1
    <2>6. CASE f \notin DOMAIN J /\ f \in DOMAIN I /\ f \notin W
      <3>1. DinIn(J, E, f) = D.din[f] /\ DinIn(I, D, f) = I[f].din
        BY <1>2, <1>4, <2>1, <2>6 DEF DinIn
      <3>2. ~I[f].dirty
        BY <1>5, <2>6
      <3>. QED
        BY <1>1, <2>6, <3>1, <3>2 DEF Inodes
    <2>. QED
      BY <2>3, <2>4, <2>5, <2>6
  <1>. QED
    BY <1>4, <1>7, <1>8, <1>11, <1>12, StoredSame

\* References given back.
LEMMA ReleaseStored ==
    ASSUME NEW I, IsCache(I), NEW S, Stored(I, S, disk), NEW r, NEW o, Release(I, disk, r, o)
    PROVE  Stored(inode', S, disk')
  <1>1. IsDisk(disk)
    BY DEF Stored
  <1>2. PICK J, E, W : J = inode' /\ E = disk' /\ W = Written(I, disk, r, o)
    OBVIOUS
  <1>3. /\ DOMAIN J = DOMAIN I \ LastRef(I, r)
        /\ \A n \in DOMAIN J : J[n] = [I[n] EXCEPT !.ref_count = @ - r[n], !.open_count = @ - o[n],
                                                   !.dirty = @ /\ n \notin W]
    BY <1>2, Zenon DEF Release
  <1>4. PICK w : w = [n \in NODES |-> IF n \in W THEN I[n].din ELSE disk.din[n]]
    OBVIOUS
  <1>5. E = [block |-> disk.block, din |-> w, free |-> disk.free, unused |-> disk.unused]
    <2>1. E = [disk EXCEPT !.din = w]
      BY <1>2, <1>4, Zenon DEF Release
    <2>2. PICK a, b, c, d : disk = [block |-> a, din |-> b, free |-> c, unused |-> d]
      BY <1>1 DEF IsDisk
    <2>3. E = [block |-> a, din |-> w, free |-> c, unused |-> d]
      BY <2>1, <2>2
    <2>. QED
      BY <2>2, <2>3
  <1>6. W \subseteq DOMAIN I
    BY <1>2 DEF Written, LastClose, LastRef
  <1>7. \A n \in DOMAIN I : n \notin DOMAIN J /\ I[n].dirty => n \in W
    BY <1>2, <1>3, Zenon DEF Written
  <1>8. ASSUME NEW n \in DOMAIN J
        PROVE  n \in DOMAIN I /\ J[n].din = I[n].din /\ (J[n].dirty <=> I[n].dirty /\ n \notin W)
               /\ J[n].dirty \in BOOLEAN
    <2>1. n \in DOMAIN I
      BY <1>3, Zenon
    <2>2. PICK x, y, a, b, c : /\ x = I[n] /\ y = J[n] /\ a = x.ref_count - r[n] /\ b = x.open_count - o[n]
                               /\ c = (x.dirty /\ n \notin W)
      OBVIOUS
    <2>3. y = [x EXCEPT !.ref_count = a, !.open_count = b, !.dirty = c]
      BY <1>3, <2>2, Zenon
    <2>4. IsInode(x)
      BY <2>1, <2>2 DEF IsCache
    <2>5. y.din = x.din /\ y.dirty = c
      <3>1. IsCountedAnew(x, y, a, b, c)
        BY <2>3 DEF IsCountedAnew
      <3>. QED
        BY <2>4, <3>1, CountedAnewData
    <2>. QED
      BY <2>1, <2>2, <2>5
  <1>9. DOMAIN J \subseteq DOMAIN I
    BY <1>8
  <1>10. IsWriteBack(I, disk, J, E, W)
    BY <1>4, <1>5, <1>6, <1>7, <1>8, <1>9 DEF IsWriteBack
  <1>11. Stored(J, S, E)
    BY <1>10, WrittenStored
  <1>. QED
    BY <1>2, <1>11

\* What Leave makes of inodes I, bitmap and disk.
IsLeave(I, n, t, D, J, T, E) ==
    /\ DOMAIN J = DOMAIN I /\ J[n].din = t.din /\ J[n].dirty = t.dirty
    /\ \A m \in DOMAIN I : m # n => J[m] = I[m]
    /\ T = [free |-> t.free, unused |-> t.unused, super_dirty |-> t.super_dirty]
    /\ E = [block |-> t.block, din |-> D.din, free |-> D.free, unused |-> D.unused]

\* Leave is that.
LEMMA LeaveIs ==
    ASSUME NEW I, IsCache(I), NEW n \in DOMAIN I, IsDisk(disk), NEW t, Leave(n, I, t)
    PROVE  IsLeave(I, n, t, disk, inode', sfs', disk')
  <1>1. PICK J, T, E : J = inode' /\ T = sfs' /\ E = disk'
    OBVIOUS
  <1>2. PICK a, b, x : a = t.din /\ b = t.dirty /\ x = I[n]
    OBVIOUS
  <1>3. J = [I EXCEPT ![n].din = a, ![n].dirty = b]
    BY <1>1, <1>2, Zenon DEF Leave
  <1>4. /\ DOMAIN J = DOMAIN I /\ J[n] = [[x EXCEPT !.din = a] EXCEPT !.dirty = b]
        /\ \A m \in DOMAIN I : m # n => J[m] = I[m]
    BY <1>2, <1>3
  <1>5. PICK r, o, d, i : x = [ref_count |-> r, open_count |-> o, dirty |-> d, din |-> i]
    BY <1>2 DEF IsCache, IsInode
  <1>6. J[n].din = a /\ J[n].dirty = b
    BY <1>4, <1>5
  <1>7. T = [free |-> t.free, unused |-> t.unused, super_dirty |-> t.super_dirty]
    BY <1>1 DEF Leave
  <1>8. E = [block |-> t.block, din |-> disk.din, free |-> disk.free, unused |-> disk.unused]
    <2>1. PICK c : c = t.block
      OBVIOUS
    <2>2. E = [disk EXCEPT !.block = c]
      BY <1>1, <2>1 DEF Leave
    <2>3. PICK p, q, v, w : disk = [block |-> p, din |-> q, free |-> v, unused |-> w]
      BY DEF IsDisk
    <2>4. E = [block |-> c, din |-> q, free |-> v, unused |-> w]
      BY <2>2, <2>3
    <2>. QED
      BY <2>1, <2>3, <2>4
  <1>. QED
    BY <1>1, <1>2, <1>4, <1>6, <1>7, <1>8 DEF IsLeave

\* What a call sees is View.
LEMMA MountedIs ==
    ASSUME NEW I, NEW n
    PROVE  Mounted(n, I) = View(I, sfs, disk, n)
  BY Zenon DEF Mounted, View, Made

\* A call has changed a file.
LEMMA LeftStored ==
    ASSUME NEW I, IsCache(I), Stored(I, sfs, disk), NEW n \in FILES, n \in DOMAIN I,
           NEW t, Served(Mounted(n, I), t, Others(NamesIn(I, disk), n)), Leave(n, I, t)
    PROVE  Stored(inode', sfs', disk')
  <1>1. IsLeave(I, n, t, disk, inode', sfs', disk')
    BY LeaveIs DEF Stored
  <1>2. PICK s : s = Mounted(n, I)
    OBVIOUS
  <1>3. s = View(I, sfs, disk, n) /\ Served(s, t, Others(NamesIn(I, disk), n))
    BY <1>2, MountedIs
  <1>4. PICK J, T, E : J = inode' /\ T = sfs' /\ E = disk'
    OBVIOUS
  <1>5. /\ DOMAIN J = DOMAIN I /\ J[n].din = t.din /\ J[n].dirty = t.dirty
        /\ \A m \in DOMAIN I : m # n => J[m] = I[m]
        /\ T = [free |-> t.free, unused |-> t.unused, super_dirty |-> t.super_dirty]
        /\ E = [block |-> t.block, din |-> disk.din, free |-> disk.free, unused |-> disk.unused]
    BY <1>1, <1>4 DEF IsLeave
  <1>6. Stored(J, T, E)
    BY <1>3, <1>5, ServedStored
  <1>. QED
    BY <1>4, <1>6

\* It has changed nothing.
LEMMA LeftSame ==
    ASSUME NEW I, IsCache(I), Stored(I, sfs, disk), NEW n \in DOMAIN I, Leave(n, I, Mounted(n, I))
    PROVE  Stored(inode', sfs', disk')
  <1>1. IsDisk(disk) /\ Bitmaps(sfs, disk) /\ Inodes(I, disk)
    BY DEF Stored
  <1>2. PICK t : t = Mounted(n, I)
    OBVIOUS
  <1>3. IsLeave(I, n, t, disk, inode', sfs', disk')
    BY <1>1, <1>2, LeaveIs
  <1>4. PICK J, T, E : J = inode' /\ T = sfs' /\ E = disk'
    OBVIOUS
  <1>5. /\ t.free = sfs.free /\ t.unused = sfs.unused /\ t.super_dirty = sfs.super_dirty /\ t.block = disk.block
        /\ t.din = I[n].din /\ t.dirty = I[n].dirty
    BY <1>2 DEF Mounted
  <1>6. T = sfs
    BY <1>1, <1>3, <1>4, <1>5 DEF IsLeave, Bitmaps, IsSuper
  <1>7. E = disk
    BY <1>1, <1>3, <1>4, <1>5 DEF IsLeave, IsDisk
  <1>8. DOMAIN J = DOMAIN I /\ \A m \in DOMAIN I : J[m].din = I[m].din /\ J[m].dirty = I[m].dirty
    BY <1>3, <1>4, <1>5 DEF IsLeave
  <1>9. Inodes(J, disk)
    BY <1>1, <1>8 DEF Inodes
  <1>10. ASSUME NEW f \in FILES PROVE Later(DinIn(I, disk, f), DinIn(J, disk, f))
    <2>1. PICK d : d = DinIn(I, disk, f)
      OBVIOUS
    <2>2. DinIn(J, disk, f) = d
      BY <1>8, <2>1 DEF DinIn
    <2>3. d.blocks \in Nat
      <3>1. d \in Dinode
        BY <1>1, <2>1 DEF Inodes, Fits, DinIn, NODES
      <3>. QED
        BY <3>1, DinProps
    <2>4. Later(d, d)
      BY <2>3 DEF Later
    <2>. QED
      BY <2>1, <2>2, <2>4
  <1>11. Stored(J, sfs, disk)
    BY <1>1, <1>9, <1>10, StoredSame
  <1>. QED
    BY <1>4, <1>6, <1>7, <1>11

-----------------------------------------------------------------------------
(* Positions.                                                               *)

PosNat(F) == \A p \in DOMAIN F : \A i \in DOMAIN F[p].fd : F[p].fd[i].pos \in Nat

\* Another table of one process.
LEMMA PosTable ==
    ASSUME NEW F, IsTables(F), PosNat(F), NEW p \in DOMAIN F, NEW t, NEW G, IsTableOf(F, G, p, t),
           \A i \in DOMAIN t : t[i].pos \in Nat
    PROVE  PosNat(G)
  <1>1. TableChanged(F, G, p, t)
    BY TableOf
  <1>. QED
    BY <1>1 DEF TableChanged, PosNat

\* A descriptor more, or another one.
LEMMA PosPut ==
    ASSUME NEW F, IsTables(F), PosNat(F), NEW p \in DOMAIN F, NEW fd, NEW e, e.pos \in Nat,
           NEW G, IsPut(F, G, p, fd, e)
    PROVE  PosNat(G)
  <1>1. PICK t : t = [i \in DOMAIN F[p].fd \cup {fd} |-> IF i = fd THEN e ELSE F[p].fd[i]]
    OBVIOUS
  <1>2. IsTableOf(F, G, p, t)
    BY <1>1 DEF IsPut, IsTableOf
  <1>3. \A i \in DOMAIN t : t[i].pos \in Nat
    BY <1>1 DEF PosNat
  <1>. QED
    BY <1>2, <1>3, PosTable

\* Descriptors closed.
LEMMA PosDrop ==
    ASSUME NEW F, IsTables(F), PosNat(F), NEW p \in DOMAIN F, NEW S, NEW G, IsDrop(F, G, p, S)
    PROVE  PosNat(G)
  <1>1. PICK t : t = [i \in DOMAIN F[p].fd \ S |-> F[p].fd[i]]
    OBVIOUS
  <1>2. IsTableOf(F, G, p, t)
    BY <1>1 DEF IsDrop, IsTableOf
  <1>3. \A i \in DOMAIN t : t[i].pos \in Nat
    BY <1>1 DEF PosNat
  <1>. QED
    BY <1>2, <1>3, PosTable

\* A child.
LEMMA PosFork ==
    ASSUME NEW F, PosNat(F), NEW p \in DOMAIN F, NEW q, NEW G, IsFork(F, G, p, q)
    PROVE  PosNat(G)
  BY DEF PosNat, IsFork

\* A process gone.
LEMMA PosExit ==
    ASSUME NEW F, PosNat(F), NEW p, NEW G, IsExit(F, G, p)
    PROVE  PosNat(G)
  BY DEF PosNat, IsExit

\* Another directory.
LEMMA PosChdir ==
    ASSUME NEW F, IsTables(F), PosNat(F), NEW p \in DOMAIN F, NEW n, NEW G, IsChdir(F, G, p, n)
    PROVE  PosNat(G)
  <1>1. DOMAIN G = DOMAIN F /\ \A q \in DOMAIN F : q # p => G[q] = F[q]
    BY DEF IsChdir
  <1>2. G[p].fd = F[p].fd
    <2>1. PICK a, b : F[p] = [pwd |-> a, fd |-> b]
      BY DEF IsTables
    <2>2. G[p] = [F[p] EXCEPT !.pwd = n]
      BY DEF IsChdir
    <2>. QED
      BY <2>1, <2>2
  <1>. QED
    BY <1>1, <1>2 DEF PosNat

-----------------------------------------------------------------------------
(* The calls keep the file system sound.                                    *)

\* The assertions that never fail, and the mount that never does.
Ruled == {"inuse", "block_free", "mount"}

FsSound == Stored(inode, sfs, disk) /\ PosNat(files) /\ panicked \notin Ruled

\* Where the machine stops elsewhere, nothing else happens.
LEMMA HaltStored ==
    ASSUME FsSound, NEW where, where \notin Ruled, Halt(where)
    PROVE  FsSound'
  <1>1. files' = files /\ inode' = inode /\ sfs' = sfs /\ disk' = disk /\ panicked' = where
    BY DEF Halt
  <1>. QED
    BY <1>1, Zenon DEF FsSound

\* Where it may stop.
LEMMA NotRuled ==
    /\ "" \notin Ruled /\ "inode_check" \notin Ruled /\ "no vop_truncate" \notin Ruled
    /\ "no vop_create" \notin Ruled /\ "no operation" \notin Ruled
  BY DEF Ruled

\* A call on a sound file does not stop there.
LEMMA ServedRuled ==
    ASSUME NEW s, NEW t, NEW X, Served(s, t, X)
    PROVE  t.ret \notin Ruled /\ Owned(t, X) /\ t.din.size \in Nat
  <1>1. t \in State
    BY DEF Served, Owned
  <1>2. t.din.size \in Nat
    BY <1>1, StateProps, DinProps
  <1>. QED
    BY <1>2 DEF Served, Ruled

\* What a step without a change of the tables and the bitmap leaves.
LEMMA FsSoundIs ==
    ASSUME Stored(inode', sfs', disk'), PosNat(files'), panicked' \notin Ruled
    PROVE  FsSound'
  BY Zenon DEF FsSound

\* Of a file in memory, the call sees what is Owned.
LEMMA MountedOwned ==
    ASSUME NEW I, IsCache(I), Stored(I, sfs, disk), NEW n \in FILES, n \in DOMAIN I,
           NEW s, s = Mounted(n, I), NEW X, X = Others(NamesIn(I, disk), n)
    PROVE  Owned(s, X) /\ Sized(s.din) /\ s.ret = "ok" /\ s.data = <<>>
  <1>1. s = View(I, sfs, disk, n)
    BY MountedIs
  <1>. QED
    BY <1>1, ViewOwned

\* The truncation of open.
LEMMA TruncatedServed ==
    ASSUME NEW I, IsCache(I), Stored(I, sfs, disk), NEW n \in FILES, n \in DOMAIN I,
           NEW s, s = Mounted(n, I), NEW X, X = Others(NamesIn(I, disk), n), NEW fl, NEW t, t = Truncated(n, I, fl)
    PROVE  Served(s, t, X)
  <1>1. Owned(s, X) /\ Sized(s.din) /\ s.ret = "ok"
    BY MountedOwned
  <1>2. CASE ~(fl.trunc \/ fl.creat)
    <2>1. t = s
      BY <1>2 DEF Truncated
    <2>2. Served(s, s, X)
      BY <1>1, NoneServed
    <2>. QED
      BY <2>1, <2>2
  <1>3. CASE fl.trunc \/ fl.creat
    <2>1. t = sfs_truncfile(s, 0)
      BY <1>3 DEF Truncated
    <2>2. 0 \in Nat /\ 0 <= SFS_MAX_FILE_SIZE
      BY SfsAssumption
    <2>3. Resized(s, sfs_truncfile(s, 0), X)
      BY <1>1, <2>2, TruncFile
    <2>4. Resized(s, t, X)
      BY <2>1, <2>3
    <2>. QED
      BY <2>4 DEF Resized, Served
  <1>. QED
    BY <1>2, <1>3

\* The tables and the inodes in memory are well formed.
LEMMA FilesData ==
    ASSUME FilesSound
    PROVE  IsTables(files) /\ IsCache(inode)
  BY DEF FilesSound, Sound

\* An inode opened is in memory.
LEMMA FoundIn ==
    ASSUME NEW n \in NODES
    PROVE  n \in DOMAIN Acquire(inode, One(n), One(n))
  <1>1. One(n)[n] = 1
    BY OneTypes
  <1>2. DOMAIN Acquire(inode, One(n), One(n)) = DOMAIN inode \cup {m \in NODES : One(n)[m] > 0}
    BY DEF Acquire
  <1>3. n \in {m \in NODES : One(n)[m] > 0}
    BY <1>1
  <1>. QED
    BY <1>2, <1>3

\* file_open, as it goes on with an inode that may be opened.
LEMMA OpenLeaves ==
    ASSUME FsSound, FilesSound, panicked' = panicked, NEW p \in DOMAIN files, NEW fd, NEW n \in NODES, NEW fl,
           NEW I, I = Acquire(inode, One(n), One(n)), NEW t, t = Truncated(n, I, fl), Leave(n, I, t),
           n \in DIRS => ~(fl.trunc \/ fl.creat),
           NEW e, e.pos \in {0, t.din.size}, Put(p, fd, e)
    PROVE  FsSound'
  <1>1. Stored(inode, sfs, disk) /\ IsTables(files) /\ IsCache(inode) /\ PosNat(files)
    BY FilesData DEF FsSound
  <1>2. One(n) \in [NODES -> Nat]
    BY OneTypes
  <1>3. Stored(I, sfs, disk) /\ IsCache(I)
    BY <1>1, <1>2, AcquireStored
  <1>4. n \in DOMAIN I
    BY FoundIn
  <1>5. t.din.size \in Nat /\ Stored(inode', sfs', disk')
    <2>1. CASE n \in FILES
      <3>1. PICK s, X : s = Mounted(n, I) /\ X = Others(NamesIn(I, disk), n)
        OBVIOUS
      <3>2. Served(s, t, X)
        BY <1>3, <1>4, <2>1, <3>1, TruncatedServed
      <3>3. Stored(inode', sfs', disk')
        BY <1>3, <1>4, <2>1, <3>1, <3>2, LeftStored
      <3>. QED
        BY <3>2, <3>3, ServedRuled
    <2>2. CASE n \in DIRS
      <3>1. t = Mounted(n, I)
        BY <2>2 DEF Truncated
      <3>2. Stored(inode', sfs', disk')
        BY <1>3, <1>4, <3>1, LeftSame
      <3>3. t.din = I[n].din
        BY <3>1 DEF Mounted
      <3>4. I[n].din \in Dinode
        BY <1>3, <1>4 DEF Stored, Inodes, Fits
      <3>5. t.din.size \in Nat
        BY <3>3, <3>4, DinProps
      <3>. QED
        BY <3>2, <3>5
    <2>. QED
      BY <2>1, <2>2 DEF NODES
  <1>6. IsPut(files, files', p, fd, e)
    BY DEF Put, IsPut, Opened, Alive
  <1>7. PosNat(files')
    <2>1. e.pos \in Nat
      BY <1>5
    <2>. QED
      BY <1>1, <1>6, <2>1, PosPut
  <1>. QED
    BY <1>5, <1>7, Zenon DEF FsSound

\* The inode is let go again, or its open count and its reference count go down.
LEMMA ReleaseSound ==
    ASSUME FsSound, FilesSound, panicked' = panicked, sfs' = sfs, PosNat(files'),
           NEW I, IsCache(I), Stored(I, sfs, disk), NEW r, NEW o, Release(I, disk, r, o)
    PROVE  FsSound'
  <1>1. Stored(inode', sfs, disk')
    BY ReleaseStored
  <1>. QED
    BY <1>1, Zenon DEF FsSound

\* More references and opens.
LEMMA AcquireSound ==
    ASSUME FsSound, FilesSound, panicked' = panicked, sfs' = sfs, disk' = disk, PosNat(files'),
           NEW r \in [NODES -> Nat], NEW o \in [NODES -> Nat], inode' = Acquire(inode, r, o)
    PROVE  FsSound'
  <1>1. Stored(inode', sfs, disk)
    BY FilesData, AcquireStored DEF FsSound
  <1>. QED
    BY <1>1, Zenon DEF FsSound

\* An inode looked up.
LEMMA LookedUp ==
    ASSUME FsSound, FilesSound, NEW n \in NODES, NEW I, I = Acquire(inode, One(n), Zero)
    PROVE  Stored(I, sfs, disk) /\ IsCache(I)
  BY FilesData, OneTypes, AcquireStored DEF FsSound

\* file_open.
LEMMA OpenFsSound ==
    ASSUME FsSound, FilesSound, NEW p \in PROCS, NEW n \in NODES, NEW fl \in FLAGS, Open(p, n, fl)
    PROVE  FsSound'
  <1>1. PICK fd, L, I : /\ fd = CHOOSE i \in Free(p) : \A j \in Free(p) : i <= j
                        /\ L = Acquire(inode, One(n), Zero)
                        /\ I = Acquire(inode, One(n), One(n))
    OBVIOUS
  <1>2. PICK s : s = Truncated(n, I, fl)
    OBVIOUS
  <1>3. PICK e : e = [node |-> n, pos |-> IF fl.append THEN s.din.size ELSE 0,
                      readable |-> fl.acc # "wronly", writable |-> fl.acc # "rdonly"]
    OBVIOUS
  <1>4. p \in DOMAIN files /\ (fl.trunc => fl.acc # "rdonly")
    BY Zenon DEF Open, Alive
  <1>5. \/ inode' = L /\ files' = files /\ sfs' = sfs /\ disk' = disk /\ panicked' = panicked
        \/ Halt("inode_check") \/ Halt("no vop_truncate")
        \/ Release(L, disk, One(n), Zero) /\ files' = files /\ sfs' = sfs /\ panicked' = panicked
        \/ s.ret \in PANICS /\ Halt(s.ret) /\ ~(n \in DIRS /\ (fl.acc # "rdonly" \/ fl.append)) /\ ~(n \in DIRS /\ fl.creat)
        \/ /\ ~(n \in DIRS /\ (fl.acc # "rdonly" \/ fl.append)) /\ ~(n \in DIRS /\ fl.creat)
           /\ Leave(n, I, s) /\ Put(p, fd, e) /\ panicked' = panicked
    BY <1>1, <1>2, <1>3, Zenon DEF Open
  <1>6. PosNat(files)
    BY DEF FsSound
  <1>7. CASE inode' = L /\ files' = files /\ sfs' = sfs /\ disk' = disk /\ panicked' = panicked
    <2>1. PosNat(files') /\ inode' = Acquire(inode, One(n), Zero)
      BY <1>1, <1>6, <1>7
    <2>2. One(n) \in [NODES -> Nat] /\ Zero \in [NODES -> Nat]
      BY OneTypes
    <2>. QED
      BY <1>7, <2>1, <2>2, AcquireSound
  <1>8. CASE Halt("inode_check") \/ Halt("no vop_truncate")
    BY <1>8, NotRuled, HaltStored, Zenon
  <1>9. CASE Release(L, disk, One(n), Zero) /\ files' = files /\ sfs' = sfs /\ panicked' = panicked
    <2>1. Stored(L, sfs, disk) /\ IsCache(L)
      BY <1>1, LookedUp
    <2>2. PosNat(files')
      BY <1>6, <1>9
    <2>. QED
      BY <1>9, <2>1, <2>2, ReleaseSound
  <1>10. ASSUME ~(n \in DIRS /\ (fl.acc # "rdonly" \/ fl.append)), ~(n \in DIRS /\ fl.creat)
         PROVE  n \in DIRS => ~(fl.trunc \/ fl.creat)
    BY <1>4, <1>10
  <1>11. CASE /\ s.ret \in PANICS /\ Halt(s.ret)
              /\ ~(n \in DIRS /\ (fl.acc # "rdonly" \/ fl.append)) /\ ~(n \in DIRS /\ fl.creat)
    <2>1. n \in DIRS => ~(fl.trunc \/ fl.creat)
      BY <1>10, <1>11
    <2>2. One(n) \in [NODES -> Nat]
      BY OneTypes
    <2>3. Stored(I, sfs, disk) /\ IsCache(I)
      BY <1>1, <2>2, FilesData, AcquireStored DEF FsSound
    <2>4. n \in DOMAIN I
      BY <1>1, FoundIn
    <2>5. s.ret \notin Ruled
      <3>1. CASE n \in FILES
        <4>1. PICK v, X : v = Mounted(n, I) /\ X = Others(NamesIn(I, disk), n)
          OBVIOUS
        <4>2. Served(v, s, X)
          BY <1>2, <2>3, <2>4, <3>1, <4>1, TruncatedServed
        <4>. QED
          BY <4>2, ServedRuled
      <3>2. CASE n \in DIRS
        <4>1. s = Mounted(n, I)
          BY <1>2, <2>1, <3>2 DEF Truncated
        <4>2. s.ret = "ok"
          BY <4>1 DEF Mounted
        <4>. QED
          BY <4>2 DEF Ruled
      <3>. QED
        BY <3>1, <3>2 DEF NODES
    <2>. QED
      BY <1>11, <2>5, HaltStored
  <1>12. CASE /\ ~(n \in DIRS /\ (fl.acc # "rdonly" \/ fl.append)) /\ ~(n \in DIRS /\ fl.creat)
              /\ Leave(n, I, s) /\ Put(p, fd, e) /\ panicked' = panicked
    <2>1. n \in DIRS => ~(fl.trunc \/ fl.creat)
      BY <1>10, <1>12
    <2>2. e.pos \in {0, s.din.size}
      BY <1>3
    <2>. QED
      BY <1>1, <1>2, <1>4, <1>12, <2>1, <2>2, OpenLeaves
  <1>. QED
    BY <1>5, <1>7, <1>8, <1>9, <1>11, <1>12, Zenon

\* file_close.
LEMMA CloseFsSound ==
    ASSUME FsSound, FilesSound, NEW p \in PROCS, NEW fd, Close(p, fd)
    PROVE  FsSound'
  <1>1. p \in DOMAIN files /\ Opened(p) = DOMAIN files[p].fd
    BY DEF Close, Opened, Alive
  <1>2. PICK n : n = files[p].fd[fd].node
    OBVIOUS
  <1>3. \/ Halt("inode_check")
        \/ Release(inode, disk, One(n), One(n)) /\ Drop(p, {fd}) /\ sfs' = sfs /\ panicked' = panicked
    BY <1>2, Zenon DEF Close
  <1>4. CASE Halt("inode_check")
    BY <1>4, NotRuled, HaltStored, Zenon
  <1>5. CASE Release(inode, disk, One(n), One(n)) /\ Drop(p, {fd}) /\ sfs' = sfs /\ panicked' = panicked
    <2>1. IsDrop(files, files', p, {fd})
      BY <1>1, <1>5 DEF Drop, IsDrop
    <2>2. Stored(inode, sfs, disk) /\ IsTables(files) /\ IsCache(inode) /\ PosNat(files)
      BY FilesData DEF FsSound
    <2>3. PosNat(files')
      BY <1>1, <2>1, <2>2, PosDrop
    <2>. QED
      BY <1>5, <2>2, <2>3, ReleaseSound
  <1>. QED
    BY <1>3, <1>4, <1>5

\* file_dup.
LEMMA DupFsSound ==
    ASSUME FsSound, FilesSound, NEW p \in PROCS, NEW from, NEW to, Dup(p, from, to)
    PROVE  FsSound'
  <1>1. /\ p \in DOMAIN files /\ from \in DOMAIN files[p].fd /\ Opened(p) = DOMAIN files[p].fd
    BY DEF Dup, Opened, Alive
  <1>2. PICK e, n : e = files[p].fd[from] /\ n = e.node
    OBVIOUS
  <1>3. /\ inode' = Acquire(inode, One(n), One(n)) /\ Put(p, to, e)
        /\ sfs' = sfs /\ disk' = disk /\ panicked' = panicked
    BY <1>2, Zenon DEF Dup
  <1>4. IsTables(files) /\ PosNat(files)
    BY FilesData DEF FsSound
  <1>5. n \in NODES /\ e.pos \in Nat
    BY <1>1, <1>2, <1>4 DEF IsTables, IsOpenFile, PosNat
  <1>6. IsPut(files, files', p, to, e)
    BY <1>1, <1>3 DEF Put, IsPut
  <1>7. PosNat(files')
    BY <1>1, <1>4, <1>5, <1>6, PosPut
  <1>8. One(n) \in [NODES -> Nat]
    BY <1>5, OneTypes
  <1>. QED
    BY <1>3, <1>7, <1>8, AcquireSound

\* A transfer or a seek that comes back.
LEMMA StaysFsSound ==
    ASSUME FsSound, FilesSound, panicked' = panicked, NEW p \in PROCS, NEW fd, NEW n \in FILES, Call(p, fd, n),
           NEW s, s = Mounted(n, inode), NEW t, Served(s, t, Others(NamesIn(inode, disk), n)), Leave(n, inode, t),
           NEW pos \in Nat, Put(p, fd, [files[p].fd[fd] EXCEPT !.pos = pos])
    PROVE  FsSound'
  <1>1. /\ p \in DOMAIN files /\ fd \in DOMAIN files[p].fd /\ Opened(p) = DOMAIN files[p].fd
        /\ n = files[p].fd[fd].node
    BY DEF Call, Opened, Alive
  <1>2. IsTables(files) /\ IsCache(inode) /\ PosNat(files) /\ Stored(inode, sfs, disk)
    BY FilesData DEF FsSound
  <1>3. n \in DOMAIN inode
    BY <1>1, InMemory DEF FilesSound
  <1>4. Stored(inode', sfs', disk')
    BY <1>2, <1>3, LeftStored
  <1>5. PICK x, e : x = files[p].fd[fd] /\ e = [x EXCEPT !.pos = pos]
    OBVIOUS
  <1>6. e.pos = pos
    <2>1. IsOpenFile(x)
      BY <1>1, <1>2, <1>5 DEF IsTables
    <2>2. PICK a, b, c, d : x = [node |-> a, pos |-> b, readable |-> c, writable |-> d]
      BY <2>1 DEF IsOpenFile
    <2>. QED
      BY <1>5, <2>2
  <1>7. IsPut(files, files', p, fd, e)
    BY <1>1, <1>5 DEF Put, IsPut
  <1>8. PosNat(files')
    BY <1>1, <1>2, <1>6, <1>7, PosPut
  <1>. QED
    BY <1>4, <1>8, Zenon DEF FsSound

\* file_read and file_write, once the transfer is done.
LEMMA MovedFsSound ==
    ASSUME FsSound, FilesSound, NEW p \in PROCS, NEW fd, NEW n \in FILES, Call(p, fd, n),
           NEW s, s = Mounted(n, inode), NEW t, Served(s, t, Others(NamesIn(inode, disk), n)), Moved(p, fd, n, t)
    PROVE  FsSound'
  <1>1. PICK q : q = files[p].fd[fd].pos
    OBVIOUS
  <1>2. \/ Halt(t.ret)
        \/ /\ Leave(n, inode, t) /\ panicked' = panicked
           /\ Put(p, fd, [files[p].fd[fd] EXCEPT !.pos = q + Len(t.data)])
    BY <1>1 DEF Moved
  <1>3. t.ret \notin Ruled
    BY ServedRuled
  <1>4. CASE Halt(t.ret)
    BY <1>3, <1>4, HaltStored
  <1>5. q + Len(t.data) \in Nat
    <2>1. q \in Nat
      BY <1>1 DEF FsSound, PosNat, Call, Opened, Alive
    <2>2. t \in State
      BY DEF Served, Owned
    <2>3. t.data \in Seq(Byte)
      BY <2>2 DEF State
    <2>4. Len(t.data) \in Nat
      BY <2>3
    <2>. QED
      BY <2>1, <2>4
  <1>6. CASE /\ Leave(n, inode, t) /\ panicked' = panicked
             /\ Put(p, fd, [files[p].fd[fd] EXCEPT !.pos = q + Len(t.data)])
    <2>1. PICK pos : pos = q + Len(t.data)
      OBVIOUS
    <2>. QED
      BY <1>5, <1>6, <2>1, StaysFsSound
  <1>. QED
    BY <1>2, <1>4, <1>6

\* An operation that stops at an assertion.
LEMMA RefusedFsSound ==
    ASSUME FsSound, NEW n, Refused(n)
    PROVE  FsSound'
  BY HaltStored, NotRuled, Zenon DEF Refused

\* The inode of a descriptor is in memory and what a call on it sees is sound.
LEMMA CallOwned ==
    ASSUME FsSound, FilesSound, NEW p \in PROCS, NEW fd, NEW n \in FILES, Call(p, fd, n),
           NEW s, s = Mounted(n, inode), NEW X, X = Others(NamesIn(inode, disk), n)
    PROVE  /\ Owned(s, X) /\ Sized(s.din) /\ s.ret = "ok" /\ s.data = <<>>
           /\ files[p].fd[fd].pos \in Nat
  <1>1. /\ p \in DOMAIN files /\ fd \in DOMAIN files[p].fd
        /\ n = files[p].fd[fd].node
    BY DEF Call, Opened, Alive
  <1>2. n \in DOMAIN inode
    BY <1>1, InMemory DEF FilesSound
  <1>3. IsCache(inode) /\ Stored(inode, sfs, disk)
    BY FilesData DEF FsSound
  <1>4. files[p].fd[fd].pos \in Nat
    BY <1>1 DEF FsSound, PosNat
  <1>. QED
    BY <1>2, <1>3, <1>4, MountedOwned

\* file_read.
LEMMA ReadFsSound ==
    ASSUME FsSound, FilesSound, NEW p \in PROCS, NEW fd, NEW len \in Nat, Read(p, fd, len)
    PROVE  FsSound'
  <1>1. PICK n \in NODES :
          /\ Call(p, fd, n)
          /\ \/ Refused(n)
             \/ n \in FILES /\ Moved(p, fd, n, sfs_io(Mounted(n, inode), <<>>, files[p].fd[fd].pos, len, FALSE))
    BY Zenon DEF Read, Usable
  <1>2. CASE Refused(n)
    BY <1>2, RefusedFsSound
  <1>3. CASE n \in FILES /\ Moved(p, fd, n, sfs_io(Mounted(n, inode), <<>>, files[p].fd[fd].pos, len, FALSE))
    <2>1. PICK s, X, q : s = Mounted(n, inode) /\ X = Others(NamesIn(inode, disk), n) /\ q = files[p].fd[fd].pos
      OBVIOUS
    <2>2. Owned(s, X) /\ Sized(s.din) /\ s.ret = "ok" /\ s.data = <<>> /\ q \in Nat
      BY <1>1, <1>3, <2>1, CallOwned
    <2>3. PICK t, buf : buf = <<>> /\ t = sfs_io(s, buf, q, len, FALSE)
      OBVIOUS
    <2>4. Served(s, t, X)
      BY <2>2, <2>3, ReadIo
    <2>5. Moved(p, fd, n, t)
      BY <1>3, <2>1, <2>3, Zenon
    <2>. QED
      BY <1>1, <1>3, <2>1, <2>4, <2>5, MovedFsSound
  <1>. QED
    BY <1>1, <1>2, <1>3

\* file_write.
LEMMA WriteFsSound ==
    ASSUME FsSound, FilesSound, NEW p \in PROCS, NEW fd, NEW buf \in BUFS, Write(p, fd, buf)
    PROVE  FsSound'
  <1>1. PICK n \in NODES :
          /\ Call(p, fd, n)
          /\ \/ Refused(n)
             \/ n \in FILES /\ Moved(p, fd, n, sfs_io(Mounted(n, inode), buf, files[p].fd[fd].pos, Len(buf), TRUE))
    BY Zenon DEF Write, Usable
  <1>2. CASE Refused(n)
    BY <1>2, RefusedFsSound
  <1>3. CASE n \in FILES /\ Moved(p, fd, n, sfs_io(Mounted(n, inode), buf, files[p].fd[fd].pos, Len(buf), TRUE))
    <2>1. PICK s, X, q : s = Mounted(n, inode) /\ X = Others(NamesIn(inode, disk), n) /\ q = files[p].fd[fd].pos
      OBVIOUS
    <2>2. Owned(s, X) /\ Sized(s.din) /\ s.ret = "ok" /\ s.data = <<>> /\ q \in Nat
      BY <1>1, <1>3, <2>1, CallOwned
    <2>3. PICK t : t = sfs_io(s, buf, q, Len(buf), TRUE)
      OBVIOUS
    <2>4. buf \in Seq(Nat)
      BY FilesAssumption
    <2>5. Served(s, t, X)
      BY <2>2, <2>3, <2>4, WriteIo
    <2>6. Moved(p, fd, n, t)
      BY <1>3, <2>1, <2>3, Zenon
    <2>. QED
      BY <1>1, <1>3, <2>1, <2>5, <2>6, MovedFsSound
  <1>. QED
    BY <1>1, <1>2, <1>3

\* file_seek.
LEMMA SeekFsSound ==
    ASSUME FsSound, FilesSound, NEW p \in PROCS, NEW fd, NEW pos \in SEEKS, Seek(p, fd, pos)
    PROVE  FsSound'
  <1>1. PICK n \in NODES :
          /\ Call(p, fd, n) /\ pos < SFS_MAX_FILE_SIZE
          /\ \/ Refused(n)
             \/ n \in FILES /\ Halt(TrySeek(n, pos).ret)
             \/ /\ n \in FILES
                /\ Leave(n, inode, TrySeek(n, pos)) /\ panicked' = panicked
                /\ Put(p, fd, [files[p].fd[fd] EXCEPT !.pos = IF TrySeek(n, pos).ret = "ok" THEN pos ELSE @])
    BY Zenon DEF Seek, Usable
  <1>2. pos \in Nat /\ pos <= SFS_MAX_FILE_SIZE
    BY <1>1, FilesAssumption, SfsAssumption
  <1>3. ASSUME n \in FILES
        PROVE  /\ Served(Mounted(n, inode), TrySeek(n, pos), Others(NamesIn(inode, disk), n))
               /\ files[p].fd[fd].pos \in Nat
    <2>1. PICK s, X : s = Mounted(n, inode) /\ X = Others(NamesIn(inode, disk), n)
      OBVIOUS
    <2>2. Owned(s, X) /\ Sized(s.din) /\ s.ret = "ok" /\ s.data = <<>> /\ files[p].fd[fd].pos \in Nat
      BY <1>1, <1>3, <2>1, CallOwned
    <2>3. Served(s, s, X)
      BY <2>2, NoneServed
    <2>4. Resized(s, sfs_truncfile(s, pos), X)
      BY <1>2, <2>2, TruncFile
    <2>5. Served(s, sfs_truncfile(s, pos), X)
      BY <2>4 DEF Resized, Served
    <2>6. TrySeek(n, pos) = s \/ TrySeek(n, pos) = sfs_truncfile(s, pos)
      BY <2>1 DEF TrySeek
    <2>. QED
      BY <2>1, <2>2, <2>3, <2>5, <2>6
  <1>4. PICK s, t, a : /\ s = Mounted(n, inode) /\ t = TrySeek(n, pos)
                       /\ a = IF t.ret = "ok" THEN pos ELSE files[p].fd[fd].pos
    OBVIOUS
  <1>5. CASE Refused(n)
    BY <1>5, RefusedFsSound
  <1>6. CASE n \in FILES /\ Halt(TrySeek(n, pos).ret)
    <2>1. t.ret \notin Ruled
      BY <1>3, <1>4, <1>6, ServedRuled
    <2>. QED
      BY <1>4, <1>6, <2>1, HaltStored
  <1>7. CASE /\ n \in FILES
             /\ Leave(n, inode, TrySeek(n, pos)) /\ panicked' = panicked
             /\ Put(p, fd, [files[p].fd[fd] EXCEPT !.pos = IF TrySeek(n, pos).ret = "ok" THEN pos ELSE @])
    <2>1. a \in Nat
      BY <1>2, <1>3, <1>4, <1>7
    <2>2. Put(p, fd, [files[p].fd[fd] EXCEPT !.pos = a])
      BY <1>4, <1>7
    <2>3. Served(s, t, Others(NamesIn(inode, disk), n)) /\ Leave(n, inode, t)
      BY <1>3, <1>4, <1>7
    <2>. QED
      BY <1>1, <1>4, <1>7, <2>1, <2>2, <2>3, StaysFsSound
  <1>. QED
    BY <1>1, <1>5, <1>6, <1>7

\* sfs_fsync.
LEMMA FsyncFsSound ==
    ASSUME FsSound, FilesSound, NEW p \in PROCS, NEW fd, Fsync(p, fd)
    PROVE  FsSound'
  <1>1. PICK n : /\ Call(p, fd, n) /\ inode' = [inode EXCEPT ![n].dirty = FALSE]
                 /\ disk' = [disk EXCEPT !.din[n] = inode[n].din]
                 /\ files' = files /\ sfs' = sfs /\ panicked' = panicked
    BY Zenon DEF Fsync
  <1>2. /\ p \in DOMAIN files /\ fd \in DOMAIN files[p].fd /\ n = files[p].fd[fd].node
    BY <1>1 DEF Call, Opened, Alive
  <1>3. n \in DOMAIN inode /\ n \in NODES
    BY <1>2, InMemory DEF FilesSound
  <1>4. IsCache(inode) /\ Stored(inode, sfs, disk) /\ IsDisk(disk)
    BY FilesData DEF FsSound, Stored
  <1>5. PICK J, E, W, d : J = inode' /\ E = disk' /\ W = {n} /\ d = inode[n].din
    OBVIOUS
  <1>6. J[n].din = inode[n].din /\ J[n].dirty = FALSE /\ DOMAIN J = DOMAIN inode
        /\ \A m \in DOMAIN inode : m # n => J[m] = inode[m]
    <2>1. PICK x : x = inode[n]
      OBVIOUS
    <2>2. J = [inode EXCEPT ![n] = [x EXCEPT !.dirty = FALSE]]
      BY <1>1, <1>5, <2>1
    <2>3. J[n] = [x EXCEPT !.dirty = FALSE] /\ DOMAIN J = DOMAIN inode /\ \A m \in DOMAIN inode : m # n => J[m] = inode[m]
      BY <1>3, <2>2
    <2>4. PICK a, b, c, e : x = [ref_count |-> a, open_count |-> b, dirty |-> c, din |-> e]
      BY <1>3, <1>4, <2>1 DEF IsCache, IsInode
    <2>. QED
      BY <2>1, <2>3, <2>4
  <1>7. E = [block |-> disk.block, din |-> [m \in NODES |-> IF m \in W THEN inode[m].din ELSE disk.din[m]],
             free |-> disk.free, unused |-> disk.unused]
    <2>1. E = [disk EXCEPT !.din[n] = d]
      BY <1>1, <1>5
    <2>2. PICK a, b, c, e : disk = [block |-> a, din |-> b, free |-> c, unused |-> e]
      BY <1>4 DEF IsDisk
    <2>3. E = [block |-> a, din |-> [b EXCEPT ![n] = d], free |-> c, unused |-> e]
      BY <2>1, <2>2
    <2>4. disk.block = a /\ disk.din = b /\ disk.free = c /\ disk.unused = e
      BY <2>2
    <2>5. DOMAIN b = NODES /\ b = [m \in NODES |-> b[m]]
      BY <1>4, <2>4 DEF IsDisk
    <2>6. [b EXCEPT ![n] = d] = [m \in NODES |-> IF m \in W THEN inode[m].din ELSE b[m]]
      BY <1>5, <2>5
    <2>. QED
      BY <2>3, <2>4, <2>6
  <1>8. \A m \in DOMAIN inode : inode[m].dirty \in BOOLEAN
    BY <1>4 DEF Stored, Inodes
  <1>9. \A m \in DOMAIN J : J[m].din = inode[m].din /\ J[m].dirty \in BOOLEAN
                            /\ (J[m].dirty <=> inode[m].dirty /\ m \notin W)
    BY <1>5, <1>6, <1>8
  <1>10. IsWriteBack(inode, disk, J, E, W)
    BY <1>3, <1>5, <1>6, <1>7, <1>9 DEF IsWriteBack
  <1>11. Stored(J, sfs, E)
    BY <1>4, <1>10, WrittenStored
  <1>. QED
    BY <1>1, <1>5, <1>11, Zenon DEF FsSound

\* vfs_chdir.
LEMMA ChdirFsSound ==
    ASSUME FsSound, FilesSound, NEW p \in PROCS, NEW n \in NODES, Chdir(p, n)
    PROVE  FsSound'
  <1>1. PICK L, old : L = Acquire(inode, One(n), Zero) /\ old = files[p].pwd
    OBVIOUS
  <1>2. p \in DOMAIN files
    BY DEF Chdir, Alive
  <1>3. IsTables(files) /\ PosNat(files)
    BY FilesData DEF FsSound
  <1>4. Stored(L, sfs, disk) /\ IsCache(L)
    BY <1>1, LookedUp
  <1>5. \/ Halt("inode_check")
        \/ Release(L, disk, One(n), Zero) /\ files' = files /\ sfs' = sfs /\ panicked' = panicked
        \/ Release(L, disk, One(old), Zero) /\ files' = [files EXCEPT ![p].pwd = n] /\ sfs' = sfs /\ panicked' = panicked
    BY <1>1, Zenon DEF Chdir
  <1>6. CASE Halt("inode_check")
    BY <1>6, NotRuled, HaltStored, Zenon
  <1>7. CASE Release(L, disk, One(n), Zero) /\ files' = files /\ sfs' = sfs /\ panicked' = panicked
    <2>1. PosNat(files')
      BY <1>3, <1>7
    <2>. QED
      BY <1>4, <1>7, <2>1, ReleaseSound
  <1>8. CASE Release(L, disk, One(old), Zero) /\ files' = [files EXCEPT ![p].pwd = n] /\ sfs' = sfs /\ panicked' = panicked
    <2>1. IsChdir(files, files', p, n)
      BY <1>8 DEF IsChdir
    <2>2. PosNat(files')
      BY <1>2, <1>3, <2>1, PosChdir
    <2>. QED
      BY <1>4, <1>8, <2>2, ReleaseSound
  <1>. QED
    BY <1>5, <1>6, <1>7, <1>8

\* dup_files.
LEMMA ForkFsSound ==
    ASSUME FsSound, FilesSound, NEW p \in PROCS, NEW q \in PROCS, Fork(p, q)
    PROVE  FsSound'
  <1>1. p \in DOMAIN files /\ p \in Alive
    BY DEF Fork, Alive
  <1>2. IsTables(files) /\ PosNat(files)
    BY FilesData DEF FsSound
  <1>3. PICK o, pwd, r : o = OpensOf(p, FDS) /\ pwd = files[p].pwd /\ r = Plus(o, pwd)
    OBVIOUS
  <1>4. inode' = Acquire(inode, r, o) /\ sfs' = sfs /\ disk' = disk /\ panicked' = panicked
    BY <1>3, Zenon DEF Fork
  <1>5. IsFork(files, files', p, q)
    BY DEF Fork, IsFork, Alive
  <1>6. PosNat(files')
    BY <1>1, <1>2, <1>5, PosFork
  <1>7. o \in [NODES -> Nat]
    BY <1>1, <1>2, <1>3, OpensOfCounts
  <1>8. pwd \in NODES
    BY <1>1, <1>2, <1>3 DEF IsTables
  <1>9. r \in [NODES -> Nat]
    BY <1>3, <1>7, <1>8 DEF Plus
  <1>. QED
    BY <1>4, <1>6, <1>7, <1>9, AcquireSound

\* files_closeall.
LEMMA ExecFsSound ==
    ASSUME FsSound, FilesSound, NEW p \in PROCS, Exec(p)
    PROVE  FsSound'
  <1>1. p \in DOMAIN files /\ Opened(p) = DOMAIN files[p].fd
    BY DEF Exec, Alive, Opened
  <1>2. IsTables(files) /\ PosNat(files) /\ IsCache(inode) /\ Stored(inode, sfs, disk)
    BY FilesData DEF FsSound
  <1>3. PICK S, o : S = Opened(p) \ (0 .. (KEEP - 1)) /\ o = OpensOf(p, S)
    OBVIOUS
  <1>4. \/ Halt("inode_check")
        \/ Release(inode, disk, o, o) /\ Drop(p, S) /\ sfs' = sfs /\ panicked' = panicked
    BY <1>3, Zenon DEF Exec
  <1>5. CASE Halt("inode_check")
    BY <1>5, NotRuled, HaltStored, Zenon
  <1>6. CASE Release(inode, disk, o, o) /\ Drop(p, S) /\ sfs' = sfs /\ panicked' = panicked
    <2>1. IsDrop(files, files', p, S)
      BY <1>1, <1>6 DEF Drop, IsDrop
    <2>2. PosNat(files')
      BY <1>1, <1>2, <2>1, PosDrop
    <2>. QED
      BY <1>2, <1>6, <2>2, ReleaseSound
  <1>. QED
    BY <1>4, <1>5, <1>6

\* files_destroy.
LEMMA ExitFsSound ==
    ASSUME FsSound, FilesSound, NEW p \in PROCS, Exit(p)
    PROVE  FsSound'
  <1>1. PosNat(files) /\ IsCache(inode) /\ Stored(inode, sfs, disk)
    BY FilesData DEF FsSound
  <1>2. PICK o, r : o = OpensOf(p, FDS) /\ r = Plus(o, files[p].pwd)
    OBVIOUS
  <1>3. \/ Halt("inode_check")
        \/ Release(inode, disk, r, o) /\ files' = [q \in Alive \ {p} |-> files[q]] /\ sfs' = sfs /\ panicked' = panicked
    BY <1>2, Zenon DEF Exit
  <1>4. CASE Halt("inode_check")
    BY <1>4, NotRuled, HaltStored, Zenon
  <1>5. CASE Release(inode, disk, r, o) /\ files' = [q \in Alive \ {p} |-> files[q]] /\ sfs' = sfs /\ panicked' = panicked
    <2>1. IsExit(files, files', p)
      BY <1>5 DEF IsExit, Alive
    <2>2. PosNat(files')
      BY <1>1, <2>1, PosExit
    <2>. QED
      BY <1>1, <1>5, <2>2, ReleaseSound
  <1>. QED
    BY <1>3, <1>4, <1>5

\* Each call of a process keeps it.
LEMMA ProcNextFsSound ==
    ASSUME FsSound, FilesSound, NEW p \in PROCS, ProcNext(p)
    PROVE  FsSound'
  <1>1. \/ \E n \in NODES, fl \in FLAGS : Open(p, n, fl)
        \/ OpenNew(p)
        \/ \E fd \in FDS : Close(p, fd)
        \/ \E fd \in FDS : Fsync(p, fd)
        \/ \E fd, to \in FDS : Dup(p, fd, to)
        \/ \E fd \in FDS, buf \in BUFS : Write(p, fd, buf)
        \/ \E fd \in FDS, buf \in BUFS : Read(p, fd, Len(buf))
        \/ \E fd \in FDS, pos \in SEEKS : Seek(p, fd, pos)
        \/ \E n \in NODES : Chdir(p, n)
        \/ \E q \in PROCS : Fork(p, q)
        \/ Exec(p)
        \/ Exit(p)
    BY Zenon DEF ProcNext
  <1>2. CASE \E n \in NODES, fl \in FLAGS : Open(p, n, fl)
    BY <1>2, OpenFsSound
  <1>3. CASE OpenNew(p)
    BY <1>3, NotRuled, HaltStored, Zenon DEF OpenNew
  <1>4. CASE \E fd \in FDS : Close(p, fd)
    BY <1>4, CloseFsSound
  <1>5. CASE \E fd \in FDS : Fsync(p, fd)
    BY <1>5, FsyncFsSound
  <1>6. CASE \E fd, to \in FDS : Dup(p, fd, to)
    BY <1>6, DupFsSound
  <1>7. CASE \E fd \in FDS, buf \in BUFS : Write(p, fd, buf)
    BY <1>7, WriteFsSound
  <1>8. CASE \E fd \in FDS, buf \in BUFS : Read(p, fd, Len(buf))
    <2>1. PICK fd \in FDS, buf \in BUFS : Read(p, fd, Len(buf))
      BY <1>8
    <2>2. Len(buf) \in Nat
      BY FilesAssumption
    <2>. QED
      BY <2>1, <2>2, ReadFsSound
  <1>9. CASE \E fd \in FDS, pos \in SEEKS : Seek(p, fd, pos)
    BY <1>9, SeekFsSound
  <1>10. CASE \E n \in NODES : Chdir(p, n)
    BY <1>10, ChdirFsSound
  <1>11. CASE \E q \in PROCS : Fork(p, q)
    BY <1>11, ForkFsSound
  <1>12. CASE Exec(p)
    BY <1>12, ExecFsSound
  <1>13. CASE Exit(p)
    BY <1>13, ExitFsSound
  <1>. QED
    BY <1>1, <1>2, <1>3, <1>4, <1>5, <1>6, <1>7, <1>8, <1>9, <1>10, <1>11, <1>12, <1>13

\* It happens only before fs_cleanup, and does not touch the mark of it.
LEMMA Unsynced ==
    ASSUME NEW p, ProcNext(p)
    PROVE  ~synced /\ synced' = synced
  <1>1. ~synced
    BY Zenon DEF ProcNext, Open, OpenNew, Close, Fsync, Dup, Write, Read, Seek, Call, Chdir, Fork, Exec, Exit, Up
  <1>2. ASSUME NEW where, Halt(where) PROVE synced' = synced
    BY <1>2, Zenon DEF Halt
  <1>3. ASSUME NEW n, NEW fl, Open(p, n, fl) PROVE synced' = synced
    BY <1>2, <1>3, Zenon DEF Open
  <1>4. ASSUME NEW fd, Close(p, fd) PROVE synced' = synced
    BY <1>2, <1>4, Zenon DEF Close
  <1>5. ASSUME NEW n, Refused(n) PROVE synced' = synced
    BY <1>2, <1>5, Zenon DEF Refused
  <1>6. ASSUME NEW fd, NEW n, NEW s, Moved(p, fd, n, s) PROVE synced' = synced
    BY <1>2, <1>6, Zenon DEF Moved
  <1>7. ASSUME NEW fd, NEW pos, Seek(p, fd, pos) PROVE synced' = synced
    BY <1>2, <1>5, <1>7, Zenon DEF Seek
  <1>8. ASSUME NEW fd, NEW len, Read(p, fd, len) PROVE synced' = synced
    BY <1>5, <1>6, <1>8, Zenon DEF Read
  <1>9. ASSUME NEW fd, NEW buf, Write(p, fd, buf) PROVE synced' = synced
    BY <1>5, <1>6, <1>9, Zenon DEF Write
  <1>10. ASSUME NEW fd, Fsync(p, fd) PROVE synced' = synced
    BY <1>10, Zenon DEF Fsync
  <1>11. ASSUME NEW from, NEW to, Dup(p, from, to) PROVE synced' = synced
    BY <1>11, Zenon DEF Dup
  <1>12. ASSUME NEW n, Chdir(p, n) PROVE synced' = synced
    BY <1>2, <1>12, Zenon DEF Chdir
  <1>13. ASSUME NEW q, Fork(p, q) PROVE synced' = synced
    BY <1>13, Zenon DEF Fork
  <1>14. Exec(p) => synced' = synced
    BY <1>2, Zenon DEF Exec
  <1>15. Exit(p) => synced' = synced
    BY <1>2, Zenon DEF Exit
  <1>16. OpenNew(p) => synced' = synced
    BY <1>2, Zenon DEF OpenNew
  <1>. QED
    BY <1>1, <1>3, <1>4, <1>7, <1>8, <1>9, <1>10, <1>11, <1>12, <1>13, <1>14, <1>15, <1>16, Zenon DEF ProcNext

\* Nothing waits to be written.
IsClean(I, S) == ~S.super_dirty /\ \A n \in DOMAIN I : ~I[n].dirty

\* fs_cleanup: all inodes, then the bitmap and the super block.
LEMMA CleanupFsSound ==
    ASSUME FsSound, FilesSound, Cleanup_fs
    PROVE  FsSound' /\ IsClean(inode', sfs')
  <1>1. Stored(inode, sfs, disk) /\ IsCache(inode)
    BY FilesData DEF FsSound
  <1>2. IsDisk(disk) /\ IsSuper(sfs) /\ Bitmaps(sfs, disk) /\ \A n \in DOMAIN inode : inode[n].dirty \in BOOLEAN
    BY <1>1 DEF Stored, Bitmaps, Inodes
  <1>3. PICK W, w, J, T, E :
          /\ W = {n \in DOMAIN inode : inode[n].dirty}
          /\ w = [n \in NODES |-> IF n \in W THEN inode[n].din ELSE disk.din[n]]
          /\ J = inode' /\ T = sfs' /\ E = disk'
    OBVIOUS
  <1>4. PICK D : D = [disk EXCEPT !.din = w]
    OBVIOUS
  <1>5. D = [block |-> disk.block, din |-> w, free |-> disk.free, unused |-> disk.unused]
    <2>1. PICK a, b, c, d : disk = [block |-> a, din |-> b, free |-> c, unused |-> d]
      BY <1>2 DEF IsDisk
    <2>. QED
      BY <1>4, <2>1
  <1>6. /\ E = SyncSuper(D) /\ T = [sfs EXCEPT !.super_dirty = FALSE]
        /\ J = [n \in DOMAIN inode |-> [inode[n] EXCEPT !.dirty = FALSE]]
        /\ files' = files /\ panicked' = panicked
    BY <1>3, <1>4 DEF Cleanup_fs
  <1>7. DOMAIN J = DOMAIN inode /\ \A n \in DOMAIN inode : J[n].din = inode[n].din /\ J[n].dirty = FALSE
    <2>1. DOMAIN J = DOMAIN inode
      BY <1>6
    <2>2. ASSUME NEW n \in DOMAIN inode PROVE J[n].din = inode[n].din /\ J[n].dirty = FALSE
      <3>1. PICK x, y : x = inode[n] /\ y = J[n]
        OBVIOUS
      <3>2. y = [x EXCEPT !.dirty = FALSE]
        BY <1>6, <3>1
      <3>3. PICK a, b, c, e : x = [ref_count |-> a, open_count |-> b, dirty |-> c, din |-> e]
        BY <1>1, <3>1 DEF IsCache, IsInode
      <3>. QED
        BY <3>1, <3>2, <3>3
    <2>. QED
      BY <2>1, <2>2
  <1>8. IsWriteBack(inode, disk, J, D, W)
    <2>1. \A n \in DOMAIN J : J[n].din = inode[n].din /\ J[n].dirty \in BOOLEAN
                              /\ (J[n].dirty <=> inode[n].dirty /\ n \notin W)
      BY <1>2, <1>3, <1>7
    <2>2. W \subseteq DOMAIN inode
      BY <1>3
    <2>. QED
      BY <1>3, <1>5, <1>7, <2>1, <2>2 DEF IsWriteBack
  <1>9. Stored(J, sfs, D)
    BY <1>1, <1>8, WrittenStored
  <1>10. IsDisk(D) /\ Bitmaps(sfs, D) /\ Inodes(J, D)
    BY <1>9 DEF Stored
  <1>11. T = [free |-> sfs.free, unused |-> sfs.unused, super_dirty |-> FALSE]
    <2>1. PICK a, b, c : sfs = [free |-> a, unused |-> b, super_dirty |-> c]
      BY <1>2 DEF IsSuper
    <2>. QED
      BY <1>6, <2>1
  <1>12. T.free = sfs.free /\ T.unused = sfs.unused /\ T.super_dirty = FALSE
    BY <1>11
  <1>13. E.block = D.block /\ E.din = D.din /\ E.free = sfs.free /\ E.unused = sfs.unused
         /\ E = [block |-> E.block, din |-> E.din, free |-> E.free, unused |-> E.unused]
    <2>1. PICK u, f : u = sfs.unused /\ f = sfs.free
      OBVIOUS
    <2>2. CASE sfs.super_dirty
      <3>1. E = [D EXCEPT !.unused = u, !.free = f]
        BY <1>6, <2>1, <2>2 DEF SyncSuper
      <3>2. PICK a, b, c, d : D = [block |-> a, din |-> b, free |-> c, unused |-> d]
        BY <1>10 DEF IsDisk
      <3>3. E = [block |-> a, din |-> b, free |-> f, unused |-> u]
        BY <3>1, <3>2
      <3>. QED
        BY <2>1, <3>2, <3>3
    <2>3. CASE ~sfs.super_dirty
      <3>1. E = D
        BY <1>6, <2>3 DEF SyncSuper
      <3>2. D.free = sfs.free /\ D.unused = sfs.unused
        BY <1>10, <2>3 DEF Bitmaps
      <3>. QED
        BY <1>10, <3>1, <3>2 DEF IsDisk
    <2>. QED
      BY <2>2, <2>3
  <1>14. IsDisk(E)
    BY <1>10, <1>13 DEF IsDisk
  <1>15. Bitmaps(T, E)
    BY <1>2, <1>11, <1>12, <1>13 DEF Bitmaps, IsSuper
  <1>16. Inodes(J, E)
    BY <1>10, <1>13 DEF Inodes
  <1>17. \A f \in FILES : Later(DinIn(J, D, f), DinIn(J, E, f))
    <2>1. ASSUME NEW f \in FILES PROVE Later(DinIn(J, D, f), DinIn(J, E, f))
      <3>1. PICK d : d = DinIn(J, D, f)
        OBVIOUS
      <3>2. DinIn(J, E, f) = d
        BY <1>13, <3>1 DEF DinIn
      <3>3. d \in Dinode
        BY <1>10, <3>1 DEF Inodes, Fits, DinIn, NODES
      <3>4. Later(d, d)
        BY <3>3, DinProps DEF Later
      <3>. QED
        BY <3>1, <3>2, <3>4
    <2>. QED
      BY <2>1
  <1>18. Stored(J, T, E)
    BY <1>9, <1>12, <1>13, <1>14, <1>15, <1>16, <1>17, StoredSame
  <1>19. IsClean(J, T)
    BY <1>7, <1>12 DEF IsClean
  <1>20. FsSound'
    BY <1>3, <1>6, <1>18, Zenon DEF FsSound
  <1>. QED
    BY <1>3, <1>19, <1>20

-----------------------------------------------------------------------------
(* After the boot.                                                          *)

\* An empty file names no block.
LEMMA EmptyFits ==
    /\ Fits(EmptyFile)
    /\ \A block : \A p \in Places : NamesOf(block, EmptyFile)[p] = 0
    /\ \A block : NamesOf(block, EmptyFile) \in [Places -> Numbers]
  <1>1. EmptyFile.size = 0 /\ EmptyFile.blocks = 0 /\ EmptyFile.indirect = 0
        /\ EmptyFile.direct = [i \in Slots |-> 0]
    BY DEF EmptyFile
  <1>2. Fits(EmptyFile)
    <2>1. EmptyFile \in Dinode
      BY <1>1 DEF EmptyFile, Dinode
    <2>2. 0 <= INDIRECT /\ 0 <= SFS_MAX_FILE_SIZE
      BY SfsAssumption DEF INDIRECT
    <2>. QED
      BY <1>1, <2>1, <2>2 DEF Fits, Sized
  <1>3. ASSUME NEW block
        PROVE  (\A p \in Places : NamesOf(block, EmptyFile)[p] = 0) /\ NamesOf(block, EmptyFile) \in [Places -> Numbers]
    <2>1. PICK N : N = [p \in Places |-> 0]
      OBVIOUS
    <2>2. DOMAIN N = Places /\ N = [p \in Places |-> N[p]] /\ \A p \in Places : N[p] = 0
      BY <2>1
    <2>3. INDIRECT \in Places /\ (\A i \in Slots : i \in Places) /\ \A k \in Entries : SFS_NDIRECT + k \in Places
      BY SfsAssumption DEF INDIRECT, Places, Slots, Entries
    <2>4. \A i \in Slots : EmptyFile.direct[i] = 0
      BY <1>1
    <2>5. NamesOf(block, EmptyFile) = N
      BY <1>1, <2>2, <2>3, <2>4, NamesAre
    <2>6. N \in [Places -> Numbers]
      BY <2>1 DEF Numbers
    <2>. QED
      BY <2>2, <2>5, <2>6
  <1>. QED
    BY <1>2, <1>3

\* After the boot, only the root directory is in memory.
LEMMA BootIs ==
    /\ DOMAIN BootInodes = {ROOT} /\ BootInodes[ROOT].din = EmptyFile /\ BootInodes[ROOT].dirty = FALSE
    /\ ROOT \in NODES /\ ROOT \notin FILES
    /\ \A p : PosNat(BootFiles(p))
  <1>1. DOMAIN BootInodes = {ROOT} /\ BootInodes[ROOT].din = EmptyFile /\ BootInodes[ROOT].dirty = FALSE
    BY DEF BootInodes
  <1>2. ROOT \in NODES /\ ROOT \notin FILES
    BY FilesAssumption DEF NODES
  <1>3. ASSUME NEW p PROVE PosNat(BootFiles(p))
    <2>1. ASSUME NEW q \in DOMAIN BootFiles(p) PROVE BootFiles(p)[q].fd = <<>>
      BY DEF BootFiles
    <2>2. DOMAIN <<>> = {}
      OBVIOUS
    <2>. QED
      BY <2>1, <2>2, Zenon DEF PosNat
  <1>. QED
    BY <1>1, <1>2, <1>3

\* The image is sound.
LEMMA InitFsSound ==
    ASSUME Init
    PROVE  FsSound
  <1>1. /\ inode = BootInodes /\ sfs = Mount(Image) /\ disk = Image /\ panicked = ""
        /\ \E p : files = BootFiles(p)
    BY Zenon DEF Init
  <1>2. PICK B : B = [b \in BLOCKS |-> [c \in Cells |-> STALE]]
    BY Zenon
  <1>3. disk = [block |-> B, din |-> [n \in NODES |-> EmptyFile], free |-> BLOCKS, unused |-> Cardinality(BLOCKS)]
    BY <1>1, <1>2, Zenon DEF Image
  <1>4. /\ disk.block = B /\ disk.din = [n \in NODES |-> EmptyFile] /\ disk.free = BLOCKS
        /\ disk.unused = Cardinality(BLOCKS)
    BY <1>3
  <1>5. sfs = [free |-> BLOCKS, unused |-> Cardinality(BLOCKS), super_dirty |-> FALSE]
    BY <1>1, <1>4, Zenon DEF Mount
  <1>6. IsDisk(disk)
    <2>1. B \in Disk
      BY <1>2 DEF Disk, Byte
    <2>2. disk.din \in [NODES -> Dinode]
      BY <1>4, EmptyFits DEF Fits
    <2>. QED
      BY <1>3, <1>4, <2>1, <2>2 DEF IsDisk
  <1>7. Bitmaps(sfs, disk)
    BY <1>4, <1>5 DEF Bitmaps, IsSuper
  <1>8. Inodes(inode, disk)
    BY <1>1, <1>4, BootIs, EmptyFits, Zenon DEF Inodes
  <1>9. ASSUME NEW f \in FILES
        PROVE  DinIn(inode, disk, f) = EmptyFile /\ NamesIn(inode, disk)[f] = NamesOf(B, EmptyFile)
    <2>1. f \notin DOMAIN inode /\ f \in NODES
      BY <1>1, BootIs, Zenon DEF NODES
    <2>. QED
      BY <1>4, <2>1 DEF DinIn, NamesIn
  <1>10. PICK N : N = NamesIn(inode, disk)
    OBVIOUS
  <1>11. \A f \in FILES : N[f] \in [Places -> Numbers] /\ \A p \in Places : N[f][p] = 0
    BY <1>9, <1>10, EmptyFits
  <1>12. 0 \notin BLOCKS
    BY SfsAssumption
  <1>13. Parted(N, BLOCKS)
    BY <1>11, <1>12 DEF Parted
  <1>14. \A f \in FILES : Filled(N[f], 0)
    <2>1. \A p \in Places : p \in Nat
      BY DEF Places
    <2>. QED
      BY <2>1 DEF Filled
  <1>15. Owning(inode, sfs, disk)
    <2>1. sfs.free = BLOCKS /\ EmptyFile.blocks = 0
      BY <1>5 DEF EmptyFile
    <2>. QED
      BY <1>9, <1>10, <1>13, <1>14, <2>1 DEF Owning
  <1>16. PosNat(files)
    BY <1>1, BootIs, Zenon
  <1>17. "" \notin Ruled
    BY NotRuled, Zenon
  <1>. QED
    BY <1>1, <1>6, <1>7, <1>8, <1>15, <1>16, <1>17, Zenon DEF FsSound, Stored

\* sfs_do_mount, after fs_cleanup.
LEMMA ResetFsSound ==
    ASSUME FsSound, IsClean(inode, sfs), Reset
    PROVE  FsSound'
  <1>1. Stored(inode, sfs, disk)
    BY DEF FsSound
  <1>2. IsDisk(disk) /\ IsSuper(sfs) /\ Bitmaps(sfs, disk) /\ Inodes(inode, disk)
        /\ disk.free = sfs.free /\ disk.unused = sfs.unused /\ sfs.unused = Cardinality(sfs.free)
    BY <1>1 DEF Stored, Bitmaps, IsClean
  <1>3. /\ \E p : files' = BootFiles(p)
        /\ inode' = BootInodes /\ sfs' = Mount(disk) /\ disk' = disk /\ panicked' = ""
    BY <1>2, Zenon DEF Reset
  <1>4. PICK J, T : J = BootInodes /\ T = Mount(disk)
    OBVIOUS
  <1>5. T = [free |-> sfs.free, unused |-> sfs.unused, super_dirty |-> FALSE]
    BY <1>2, <1>4 DEF Mount
  <1>6. T.free = sfs.free /\ T.unused = sfs.unused /\ T.super_dirty = FALSE
    BY <1>5
  <1>7. Bitmaps(T, disk)
    BY <1>2, <1>5, <1>6 DEF Bitmaps, IsSuper
  <1>8. Inodes(J, disk)
    BY <1>2, <1>4, BootIs, EmptyFits DEF Inodes
  <1>9. ASSUME NEW f \in FILES PROVE Later(DinIn(inode, disk, f), DinIn(J, disk, f))
    <2>1. f \notin DOMAIN J /\ f \in NODES
      BY <1>4, BootIs DEF NODES
    <2>2. DinIn(J, disk, f) = disk.din[f]
      BY <2>1 DEF DinIn
    <2>3. CASE f \in DOMAIN inode
      <3>1. Later(inode[f].din, disk.din[f])
        BY <1>2, <2>3 DEF Inodes, IsClean
      <3>. QED
        BY <2>2, <2>3, <3>1 DEF DinIn
    <2>4. CASE f \notin DOMAIN inode
      <3>1. PICK d : d = disk.din[f]
        OBVIOUS
      <3>2. d \in Dinode
        BY <1>2, <2>1, <3>1 DEF Inodes, Fits
      <3>3. Later(d, d)
        BY <3>2, DinProps DEF Later
      <3>. QED
        BY <2>2, <2>4, <3>1, <3>3 DEF DinIn
    <2>. QED
      BY <2>3, <2>4
  <1>10. Stored(J, T, disk)
    BY <1>1, <1>2, <1>6, <1>7, <1>8, <1>9, StoredSame
  <1>11. PosNat(files') /\ panicked' \notin Ruled
    BY <1>3, BootIs, NotRuled, Zenon
  <1>. QED
    BY <1>3, <1>4, <1>10, <1>11, Zenon DEF FsSound

-----------------------------------------------------------------------------
(* The invariant.                                                           *)

FsIInv ==
    /\ panicked \notin Ruled
    /\ panicked = "" => FsSound /\ (synced => IsClean(inode, sfs))

\* It holds at the start.
LEMMA InitFsIInv == Init => FsIInv
  <1> SUFFICES ASSUME Init PROVE FsIInv
    OBVIOUS
  <1>1. panicked = "" /\ synced = FALSE
    BY Zenon DEF Init
  <1>2. FsSound /\ "" \notin Ruled
    BY InitFsSound, NotRuled, Zenon
  <1>. QED
    BY <1>1, <1>2, Zenon DEF FsIInv

\* Every step keeps it, if the machine is switched off only after fs_cleanup.
LEMMA NextFsIInv == CLEAN /\ IInv /\ FsIInv /\ [Next]_vars => FsIInv'
  <1> SUFFICES ASSUME CLEAN, IInv, FsIInv, [Next]_vars PROVE FsIInv'
    OBVIOUS
  <1>1. CASE \E p \in PROCS : ProcNext(p)
    <2>1. PICK p \in PROCS : ProcNext(p)
      BY <1>1
    <2>2. FilesSound /\ FsSound
      BY <2>1, Running, Zenon DEF IInv, FsIInv
    <2>3. FsSound' /\ ~synced'
      BY <2>1, <2>2, ProcNextFsSound, Unsynced, Zenon
    <2>4. panicked' \notin Ruled
      BY <2>3, Zenon DEF FsSound
    <2>. QED
      BY <2>3, <2>4, Zenon DEF FsIInv
  <1>2. CASE Cleanup_fs
    <2>1. FilesSound /\ FsSound
      BY <1>2, Zenon DEF IInv, FsIInv, Cleanup_fs, Up
    <2>2. FsSound' /\ IsClean(inode', sfs')
      BY <1>2, <2>1, CleanupFsSound
    <2>3. panicked' \notin Ruled
      BY <2>2, Zenon DEF FsSound
    <2>. QED
      BY <2>2, <2>3, Zenon DEF FsIInv
  <1>3. CASE Reset
    <2>1. FsSound /\ IsClean(inode, sfs) /\ ~synced'
      BY <1>3, Zenon DEF FsIInv, Reset
    <2>2. FsSound'
      BY <1>3, <2>1, ResetFsSound
    <2>3. panicked' \notin Ruled
      BY <2>2, Zenon DEF FsSound
    <2>. QED
      BY <2>1, <2>2, <2>3, Zenon DEF FsIInv
  <1>4. CASE Panicked \/ UNCHANGED vars
    <2>1. files' = files /\ inode' = inode /\ sfs' = sfs /\ disk' = disk /\ panicked' = panicked /\ synced' = synced
      BY <1>4, Zenon DEF Panicked, vars
    <2>. QED
      BY <2>1, Zenon DEF FsIInv, FsSound
  <1>. QED
    BY <1>1, <1>2, <1>3, <1>4 DEF Next

PlacesOf(N, b) == {o \in FILES \X Places : N[o[1]][o[2]] = b}

\* A block in use has one place.
LEMMA PlacedOnce ==
    ASSUME NEW N, NEW free, Parted(N, free), NEW b \in BLOCKS \ free
    PROVE  \E f \in FILES, p \in Places : PlacesOf(N, b) = {<<f, p>>}
  <1>1. PICK f \in FILES, p \in Places : N[f][p] = b
    BY DEF Parted
  <1>2. b # 0
    BY SfsAssumption
  <1>3. \A h, i \in FILES, x, y \in Places : N[h][x] = N[i][y] /\ N[h][x] # 0 => h = i /\ x = y
    BY Zenon DEF Parted
  <1>4. \A g \in FILES, q \in Places : N[g][q] = b => g = f /\ q = p
    BY <1>1, <1>2, <1>3
  <1>5. \A o \in FILES \X Places : /\ o[1] \in FILES /\ o[2] \in Places
                                   /\ (o = <<f, p>> <=> o[1] = f /\ o[2] = p)
    BY Pairs
  <1>6. <<f, p>> \in FILES \X Places
    BY Pairs
  <1>7. \A o \in FILES \X Places : N[o[1]][o[2]] = b <=> o = <<f, p>>
    BY <1>1, <1>4, <1>5, Zenon
  <1>8. PlacesOf(N, b) = {<<f, p>>}
    BY <1>6, <1>7 DEF PlacesOf
  <1>. QED
    BY <1>8

\* Parted says it of places, OneOwner of their number.
LEMMA FsIInvOwners == FsIInv => OneOwner
  <1> SUFFICES ASSUME FsIInv, panicked = ""
               PROVE  /\ \A b \in BLOCKS : Cardinality(Owners(b)) = IF b \in sfs.free THEN 0 ELSE 1
                      /\ sfs.unused = Cardinality(sfs.free)
    BY Zenon DEF OneOwner
  <1>1. Bitmaps(sfs, disk) /\ Owning(inode, sfs, disk)
    BY Zenon DEF FsIInv, FsSound, Stored
  <1>2. PICK N, free : N = NamesIn(inode, disk) /\ free = sfs.free
    BY Zenon
  <1>3. Parted(N, free)
    BY <1>1, <1>2, Zenon DEF Owning
  <1>4. \A f \in FILES, p \in Places : N[f][p] = Names(disk.block, Din(f), p)
    BY <1>2, Zenon DEF NamesIn, NamesOf, DinIn, Din
  <1>5. ASSUME NEW b \in BLOCKS PROVE Cardinality(Owners(b)) = IF b \in free THEN 0 ELSE 1
    <2>1. Owners(b) = {o \in FILES \X Places : N[o[1]][o[2]] = b}
      BY <1>4, Zenon DEF Owners
    <2>2. b # 0
      BY SfsAssumption, Zenon
    <2>3. CASE b \in free
      <3>1. \A f \in FILES, p \in Places : N[f][p] # b
        BY <1>3, <2>3, Zenon DEF Parted
      <3>2. Owners(b) = {}
        BY <2>1, <3>1, Zenon
      <3>. QED
        BY <2>3, <3>2, FS_EmptySet, Zenon
    <2>4. CASE b \notin free
      <3>1. b \in BLOCKS \ free
        BY <2>4, Zenon
      <3>2. PICK f \in FILES, p \in Places : PlacesOf(N, b) = {<<f, p>>}
        BY <1>3, <3>1, PlacedOnce, Zenon
      <3>3. Owners(b) = {<<f, p>>}
        BY <2>1, <3>2, Zenon DEF PlacesOf
      <3>. QED
        BY <2>4, <3>3, FS_Singleton, Zenon
    <2>. QED
      BY <2>3, <2>4, Zenon
  <1>6. sfs.unused = Cardinality(free)
    BY <1>1, <1>2, Zenon DEF Bitmaps
  <1>. QED
    BY <1>2, <1>5, <1>6, Zenon

\* A file is as long as its size says.
LEMMA ContentsLen ==
    ASSUME NEW block, NEW din, din.size \in Nat
    PROVE  Len(Contents(block, din)) = din.size
  BY DEF Contents

\* What one transfer returns.
IsAnswer(s, f, e, offset, len, c) ==
    /\ f \in FILES /\ f \in DOMAIN inode /\ offset \in Nat /\ offset < SFS_MAX_FILE_SIZE /\ len \in Nat
    /\ s = sfs_io(Mounted(f, inode), e, offset, len, FALSE) /\ s.ret = "ok"
    /\ c = Contents(disk.block, inode[f].din)
Answers(s, offset, len, c) == s.data = SubSeq(c, offset + 1, Least(offset + len, Len(c)))

\* It is what the file holds.
LEMMA OneRead ==
    ASSUME FilesSound, FsSound, NEW f, NEW offset, NEW len, NEW e, NEW s, NEW c, IsAnswer(s, f, e, offset, len, c)
    PROVE  Answers(s, offset, len, c)
  <1>1. IsCache(inode) /\ Stored(inode, sfs, disk)
    BY FilesData DEF FsSound
  <1>2. PICK v, X : v = Mounted(f, inode) /\ X = Others(NamesIn(inode, disk), f)
    OBVIOUS
  <1>3. /\ f \in FILES /\ f \in DOMAIN inode /\ offset \in Nat /\ offset < SFS_MAX_FILE_SIZE /\ len \in Nat
        /\ s = sfs_io(v, e, offset, len, FALSE) /\ s.ret = "ok"
        /\ c = Contents(disk.block, inode[f].din)
    BY <1>2, Zenon DEF IsAnswer
  <1>4. Owned(v, X) /\ Sized(v.din) /\ v.ret = "ok" /\ v.data = <<>>
    BY <1>1, <1>2, <1>3, MountedOwned
  <1>5. Returned(v, s, offset, Least(offset + len, v.din.size))
    BY <1>3, <1>4, ReadIo
  <1>6. v.block = disk.block /\ v.din = inode[f].din
    BY <1>2 DEF Mounted
  <1>7. v.din.size \in Nat
    BY <1>4, StateProps, DinProps DEF Owned
  <1>8. Len(c) = v.din.size
    BY <1>3, <1>6, <1>7, ContentsLen
  <1>. QED
    BY <1>3, <1>5, <1>6, <1>8, Zenon DEF Returned, Answers

\* The offsets of a read.
LEMMA Offsets ==
    ASSUME NEW offset \in 0 .. (SFS_MAX_FILE_SIZE - 1)
    PROVE  offset \in Nat /\ offset < SFS_MAX_FILE_SIZE
  BY SfsAssumption

\* Its lengths.
LEMMA BufLen ==
    ASSUME NEW len \in {Len(buf) : buf \in BUFS}
    PROVE  len \in Nat
  <1>1. \A buf \in BUFS : Len(buf) \in Nat
    BY FilesAssumption
  <1>. QED
    BY <1>1, Zenon

\* So reading returns what files hold.
LEMMA FsIInvReads == IInv /\ FsIInv => ReadReturns
  <1> SUFFICES ASSUME IInv, FsIInv, panicked = "" PROVE ReadReturns
    BY Zenon DEF ReadReturns
  <1>1. FsSound /\ FilesSound
    BY Zenon DEF IInv, FsIInv
  <1>2. ASSUME NEW f \in FILES \cap DOMAIN inode, NEW offset \in Nat, offset < SFS_MAX_FILE_SIZE, NEW len \in Nat
        PROVE  sfs_io(Mounted(f, inode), <<>>, offset, len, FALSE).ret = "ok" =>
                 sfs_io(Mounted(f, inode), <<>>, offset, len, FALSE).data =
                   SubSeq(Contents(disk.block, inode[f].din), offset + 1,
                          Least(offset + len, Len(Contents(disk.block, inode[f].din))))
    <2>1. PICK e, s, c : /\ e = <<>> /\ s = sfs_io(Mounted(f, inode), e, offset, len, FALSE)
                         /\ c = Contents(disk.block, inode[f].din)
      BY Zenon
    <2>2. ASSUME s.ret = "ok" PROVE s.data = SubSeq(c, offset + 1, Least(offset + len, Len(c)))
      <3>1. f \in FILES /\ f \in DOMAIN inode
        BY Zenon
      <3>2. IsAnswer(s, f, e, offset, len, c)
        BY <1>2, <2>1, <2>2, <3>1, Zenon DEF IsAnswer
      <3>3. Answers(s, offset, len, c)
        BY <1>1, <3>2, OneRead, Zenon
      <3>. QED
        BY <3>3, Zenon DEF Answers
    <2>. QED
      BY <2>1, <2>2, Zenon
  <1>3. \A offset \in 0 .. (SFS_MAX_FILE_SIZE - 1) : offset \in Nat /\ offset < SFS_MAX_FILE_SIZE
    BY Offsets, Zenon
  <1>4. \A len \in {Len(buf) : buf \in BUFS} : len \in Nat
    BY BufLen, Zenon
  <1>. QED
    BY <1>2, <1>3, <1>4, Zenon DEF ReadReturns

\* While the machine is switched off only after fs_cleanup, the file system stays
\* sound in every behaviour.
THEOREM FsSoundCorrect == ASSUME CLEAN PROVE Spec => []FsIInv
  <1>1. IInv /\ FsIInv /\ [Next]_vars => FsIInv'
    BY NextFsIInv
  <1>. QED
    BY <1>1, InitFsIInv, FilesSoundCorrect, PTL DEF Spec

\* Each block is free and named nowhere, or in use and named at one place of one
\* file, through sfs_block_alloc, sfs_bmap_truncate, every transfer that fails half
\* way, and the mount after fs_cleanup.
THEOREM OneOwnerCorrect == ASSUME CLEAN PROVE Spec => []OneOwner
  <1>. QED
    BY FsSoundCorrect, FsIInvOwners, PTL

\* sfs_io, however it cuts a transfer into blocks, hands out the bytes that the
\* file holds.
THEOREM ReadReturnsCorrect == ASSUME CLEAN PROVE Spec => []ReadReturns
  <1>. QED
    BY FilesSoundCorrect, FsSoundCorrect, FsIInvReads, PTL

\* The assertions "sfs_block_inuse(sfs, ino)" of sfs_bmap_get_nolock and
\* sfs_block_free do not fail.
THEOREM InUseAssertCorrect == ASSUME CLEAN PROVE Spec => []InUseAssertHolds
  <1>1. FsIInv => InUseAssertHolds
    BY Zenon DEF FsIInv, Ruled, InUseAssertHolds
  <1>. QED
    BY <1>1, FsSoundCorrect, PTL
=============================================================================
