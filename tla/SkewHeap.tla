------------------------------ MODULE SkewHeap -------------------------------
(***************************************************************************)
(* The skew heap of libs/skew_heap.h, the run pool of the stride scheduler. *)
(* The nodes live in the proc_structs; a store h gives the three pointers   *)
(* of each node, NIL is the null pointer.                                   *)
(***************************************************************************)
EXTENDS Naturals

CONSTANTS
    Nodes,           \* the nodes there are
    NIL,             \* not a node
    Depth            \* more than there are nodes

Stores == [left: [Nodes -> Nodes \cup {NIL}],
           right: [Nodes -> Nodes \cup {NIL}],
           parent: [Nodes -> Nodes \cup {NIL}]]

\* skew_heap_init for every node
EmptyStore ==
    LET none == [n \in Nodes |-> NIL] IN [left |-> none, right |-> none, parent |-> none]

skew_heap_init(h, n) == [h EXCEPT !.left[n] = NIL, !.right[n] = NIL, !.parent[n] = NIL]

SetParent(h, n, p) == IF n = NIL THEN h ELSE [h EXCEPT !.parent[n] = p]

\* skew_heap_merge(a, b, comp), where before holds the pairs for which comp
\* returns -1, as the new store and the root of the result: the lesser root
\* wins, a tie goes to b; the loser is merged into the right subtree of the
\* winner, which then becomes its left one.  merge is what the calls it makes
\* return.
MergeRoots(h, a, b, before, merge) ==
    IF a = NIL THEN [store |-> h, root |-> b]
    ELSE IF b = NIL THEN [store |-> h, root |-> a]
    ELSE LET aWins == <<a, b>> \in before
             win   == IF aWins THEN a ELSE b
             below == IF aWins THEN merge[h.right[a], b] ELSE merge[a, h.right[b]]
             h1    == [below.store EXCEPT !.left[win] = below.root,
                                          !.right[win] = h.left[win]]
         IN  [store |-> SetParent(h1, below.root, win), root |-> win]

\* There are as many calls as it takes: each has a node less to merge than the
\* one that makes it, so that merge[0] is never looked at.
skew_heap_merge(h, a, b, before) ==
    LET merge[n \in Nat] ==
            [x \in (Nodes \cup {NIL}) \X (Nodes \cup {NIL}) |->
                IF n = 0 THEN [store |-> h, root |-> NIL]
                ELSE MergeRoots(h, x[1], x[2], before, merge[n - 1])]
    IN  merge[Depth][a, b]

skew_heap_insert(h, root, n, before) ==
    skew_heap_merge(skew_heap_init(h, n), root, n, before)

\* Fault: the subtree that takes the place of n keeps its parent.
skew_heap_remove_keeps_parent(h, root, n, before) ==
    LET p   == h.parent[n]
        rep == skew_heap_merge(h, h.left[n], h.right[n], before)
    IN  IF p = NIL THEN rep
        ELSE [store |-> IF rep.store.left[p] = n
                        THEN [rep.store EXCEPT !.left[p] = rep.root]
                        ELSE [rep.store EXCEPT !.right[p] = rep.root],
              root |-> root]

\* skew_heap_remove(root, n, comp): what n was the root of, less n, takes its
\* place under its parent.
skew_heap_remove(h, root, n, before) ==
    LET p   == h.parent[n]
        rep == skew_heap_merge(h, h.left[n], h.right[n], before)
        h1  == SetParent(rep.store, rep.root, p)
    IN  IF p = NIL THEN [store |-> h1, root |-> rep.root]
        ELSE [store |-> IF h1.left[p] = n
                        THEN [h1 EXCEPT !.left[p] = rep.root]
                        ELSE [h1 EXCEPT !.right[p] = rep.root],
              root |-> root]

-----------------------------------------------------------------------------
\* With every node, its children are in S.
Closed(h, S) == \A n \in S : {h.left[n], h.right[n]} \subseteq S \cup {NIL}

\* The nodes of the heap with this root.
Below(h, root) ==
    {n \in Nodes : \A S \in SUBSET Nodes : {root} \ {NIL} \subseteq S /\ Closed(h, S) => n \in S}
=============================================================================
