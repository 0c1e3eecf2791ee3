------------------------------- MODULE Stride --------------------------------
(***************************************************************************)
(* The stride scheduling class (kern/schedule/default_sched.c) under the    *)
(* scheduler core: the run pool is a skew heap ordered by lab6_stride, a    *)
(* WIDTH-bit counter that wraps around and is compared by the sign of the   *)
(* difference.  A process that is picked advances by BIG_STRIDE divided by  *)
(* its priority.                                                            *)
(*                                                                          *)
(* In the open system processes come and go: a new one starts at stride 0,  *)
(* a sleeper keeps the stride it had.  In the closed one all have been      *)
(* forked by the first process during its first slice, and stay runnable.   *)
(***************************************************************************)
EXTENDS Sched

CONSTANTS
    NULL,
    WIDTH,           \* bits of lab6_stride (32)
    Priorities,      \* the priorities passed to lab6_set_priority
    initproc         \* the process that forks the others

H == INSTANCE SkewHeap WITH Nodes <- Procs \ {idleproc}, NIL <- NULL, Depth <- Cardinality(Procs)

Users == Procs \ {idleproc}

\* 2^n
TwoTo[n \in Nat] == IF n = 0 THEN 1 ELSE 2 * TwoTo[n - 1]

BIG_STRIDE == TwoTo[WIDTH - 1] - 1

ASSUME StrideAssumption ==
    /\ WIDTH \in Nat \ {0, 1}
    /\ Priorities \subseteq Nat
    /\ NULL \notin Procs
    /\ initproc \in Users
    /\ IsFiniteSet(Procs)

VARIABLES
    lab6_stride,
    lab6_priority,
    pool,            \* the heap pointers in the proc_structs
    root             \* rq->lab6_run_pool

vars == <<schedVars, lab6_stride, lab6_priority, pool, root>>

TypeOK ==
    /\ SchedTypeOK
    /\ lab6_stride \in [Users -> 0 .. (TwoTo[WIDTH] - 1)]
    /\ lab6_priority \in [Users -> Priorities \cup {0, 1}]
    /\ pool \in H!Stores
    /\ root \in Users \cup {NULL}

-----------------------------------------------------------------------------
\* x as a WIDTH-bit two's complement number.
Signed(x) ==
    LET u == x % TwoTo[WIDTH]
    IN  IF u < TwoTo[WIDTH - 1] THEN u ELSE u - TwoTo[WIDTH]

StrideDiff(stride, p, q) == Signed(stride[p] - stride[q])

\* Fault: strides are compared as unsigned numbers.
BeforeUnsigned == {pq \in Users \X Users : lab6_stride[pq[1]] < lab6_stride[pq[2]]}

\* The pairs for which proc_stride_comp_f returns -1.
Before == {pq \in Users \X Users : StrideDiff(lab6_stride, pq[1], pq[2]) < 0}

\* stride_enqueue (the time slice is renewed by Sched)
stride_enqueue(h, r, p) == H!skew_heap_insert(h, r, p, Before)

\* stride_dequeue.  The pointers of a node outside the heap are not read before
\* the next insert sets them; they are kept NULL here.
stride_dequeue(h, r, p) ==
    LET d == H!skew_heap_remove(h, r, p, Before)
    IN  [store |-> H!skew_heap_init(d.store, p), root |-> d.root]

\* How far a process of this priority advances when it is picked.
Step(priority) == IF priority = 0 THEN BIG_STRIDE ELSE BIG_STRIDE \div priority

\* stride_pick_next(r): its effect on lab6_stride, for a pool that is not
\* empty.
stride_pick_next(r) ==
    lab6_stride' = [lab6_stride EXCEPT ![r] = (@ + Step(lab6_priority[r])) % TwoTo[WIDTH]]

-----------------------------------------------------------------------------
\* kern_init has forked the first process.
Init ==
    /\ current = idleproc
    /\ state = [p \in Procs |-> IF p \in {idleproc, initproc} THEN "PROC_RUNNABLE" ELSE "PROC_NONE"]
    /\ wait_state = [p \in Procs |-> "0"]
    /\ run_pool = {initproc}
    /\ need_resched = FALSE
    /\ time_slice = [p \in Procs |-> IF p = initproc THEN max_time_slice ELSE 0]
    /\ lab6_stride = [p \in Users |-> 0]
    /\ lab6_priority = [p \in Users |-> 0]
    /\ pool = H!EmptyStore
    /\ root = initproc

Running == current # idleproc /\ state[current] = "PROC_RUNNABLE"

\* wakeup_proc(p), with the enqueue.
Wakes(p) ==
    /\ wakeup_proc({p}, state, wait_state)
    /\ LET q == stride_enqueue(pool, root, p)
       IN  IF p = current THEN UNCHANGED <<pool, root>>
                          ELSE pool' = q.store /\ root' = q.root
    /\ UNCHANGED need_resched

\* do_fork: alloc_proc clears stride and priority.
Fork(p) ==
    /\ Running
    /\ state[p] = "PROC_NONE"
    /\ Wakes(p)
    /\ UNCHANGED <<lab6_stride, lab6_priority>>

Wakeup(p) ==
    /\ state[p] = "PROC_SLEEPING"
    /\ Wakes(p)
    /\ UNCHANGED <<lab6_stride, lab6_priority>>

Sleep ==
    /\ Running
    /\ go_to_sleep("WT_TIMER")
    /\ UNCHANGED <<current, run_pool, need_resched, time_slice,
                   lab6_stride, lab6_priority, pool, root>>

Exit ==
    /\ Running
    /\ state' = [state EXCEPT ![current] = "PROC_ZOMBIE"]
    /\ UNCHANGED <<current, wait_state, run_pool, need_resched, time_slice,
                   lab6_stride, lab6_priority, pool, root>>

\* A dead process is freed; a new one in its place starts from scratch.
Reap(p) ==
    /\ p # current
    /\ state[p] = "PROC_ZOMBIE"
    /\ state' = [state EXCEPT ![p] = "PROC_NONE"]
    /\ time_slice' = [time_slice EXCEPT ![p] = 0]
    /\ lab6_stride' = [lab6_stride EXCEPT ![p] = 0]
    /\ lab6_priority' = [lab6_priority EXCEPT ![p] = 0]
    /\ UNCHANGED <<current, wait_state, run_pool, need_resched, pool, root>>

lab6_set_priority(priority) ==
    /\ Running
    /\ lab6_priority' = [lab6_priority EXCEPT ![current] = IF priority = 0 THEN 1 ELSE priority]
    /\ UNCHANGED <<schedVars, lab6_stride, pool, root>>

\* schedule(): current is enqueued if it can run, the root of the heap is
\* picked and dequeued.
Schedule ==
    \E q \in {IF Running THEN stride_enqueue(pool, root, current)
                         ELSE [store |-> pool, root |-> root]} :
        IF q.root = NULL
        THEN schedule(idleproc) /\ UNCHANGED <<lab6_stride, lab6_priority, pool, root>>
        ELSE \E d \in {stride_dequeue(q.store, q.root, q.root)} :
             /\ schedule(q.root)
             /\ stride_pick_next(q.root)
             /\ pool' = d.store
             /\ root' = d.root
             /\ UNCHANGED lab6_priority

Next ==
    \/ \E p \in Users : Fork(p) \/ Wakeup(p) \/ Reap(p)
    \/ Sleep
    \/ Exit
    \/ \E n \in Priorities : lab6_set_priority(n)
    \/ Schedule

Spec == Init /\ [][Next]_vars

\* The closed system: from here on only picks and changes of priority.
ClosedInit ==
    /\ current = initproc
    /\ state = [p \in Procs |-> "PROC_RUNNABLE"]
    /\ wait_state = [p \in Procs |-> "0"]
    /\ run_pool = Users \ {initproc}
    /\ need_resched = FALSE
    /\ time_slice = [p \in Procs |-> IF p = idleproc THEN 0 ELSE max_time_slice]
    /\ lab6_stride = [p \in Users |-> IF p = initproc THEN BIG_STRIDE ELSE 0]
    /\ lab6_priority = [p \in Users |-> 0]
    /\ \E q \in [1 .. (Cardinality(Users) - 1) -> Users \ {initproc}] :
         /\ \A i, j \in DOMAIN q : q[i] = q[j] => i = j
         /\ LET h[i \in 0 .. Cardinality(Users) - 1] ==
                    IF i = 0 THEN [store |-> H!EmptyStore, root |-> NULL]
                    ELSE H!skew_heap_insert(h[i - 1].store, h[i - 1].root, q[i], {})
            IN  pool = h[Cardinality(Users) - 1].store /\ root = h[Cardinality(Users) - 1].root

-----------------------------------------------------------------------------
\* The heap holds the processes of the run pool, each once, with all pointers
\* matching: whatever the order of wakeups, none is lost from it or left in it
\* (the class implements what Sched assumes of it).
HeapIsPool ==
    /\ H!Below(pool, root) = run_pool
    /\ root # NULL => pool.parent[root] = NULL
    /\ \A p \in run_pool :
         /\ pool.left[p] # NULL => pool.parent[pool.left[p]] = p
         /\ pool.right[p] # NULL => pool.parent[pool.right[p]] = p
         /\ pool.left[p] = pool.right[p] => pool.left[p] = NULL

\* "pick the element from the run-queue, with the minimum value of stride"
\* (default_sched.c, stride_pick_next): no other process that could have been
\* picked was behind the one that was.
StepPicksLeast ==
    \A p \in Ready, q \in Users :
        q = current' /\ lab6_stride'[q] # lab6_stride[q] =>
            StrideDiff(lab6_stride, q, p) <= 0

PicksLeast == [][StepPicksLeast]_vars
=============================================================================
