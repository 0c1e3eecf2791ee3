------------------------------- MODULE MCStride -------------------------------
(***************************************************************************)
(* Model checking of Stride: a behaviour is one of the open system or one   *)
(* of the closed system.  In the open one the priorities are those of       *)
(* OpenPriorities, 0 the one a new process has.                             *)
(*                                                                          *)
(* lead is an auxiliary variable of the closed system: how much further     *)
(* each process has been advanced than initproc, counted without a width,   *)
(* but no further than to BIG_STRIDE + 1, which is too far already.         *)
(***************************************************************************)
EXTENDS Stride

CONSTANT OpenPriorities

VARIABLES
    closed,
    lead

MCInit ==
    /\ closed \in BOOLEAN
    /\ IF closed THEN ClosedInit ELSE Init
    /\ lead = [p \in Users |-> IF closed /\ p # initproc THEN -BIG_STRIDE ELSE 0]

Clip(x) ==
    IF x > BIG_STRIDE THEN BIG_STRIDE + 1
    ELSE IF x < -BIG_STRIDE THEN -BIG_STRIDE - 1 ELSE x

\* r is picked: it is given BIG_STRIDE divided by its priority.
Given(r) ==
    [p \in Users |->
        LET s == Step(lab6_priority[r])
        IN  Clip(lead[p] + (IF p = r THEN s ELSE 0) - (IF r = initproc THEN s ELSE 0))]

MCNext ==
    /\ \/ closed /\ Schedule /\ lead' = Given(current')
       \/ closed /\ (\E n \in Priorities : lab6_set_priority(n)) /\ UNCHANGED lead
       \/ /\ ~closed
          /\ Next
          /\ \A p \in Users : lab6_priority'[p] \in OpenPriorities
          /\ UNCHANGED lead
    /\ UNCHANGED closed

\* In the closed system no process ever gets more than BIG_STRIDE ahead of
\* another, across any number of wraps, and the wrapped difference of their
\* strides says who is ahead and by how much (proc_stride_comp_f).
ClosedGapBounded ==
    closed => \A p, q \in Users :
        /\ lead[p] - lead[q] <= BIG_STRIDE
        /\ StrideDiff(lab6_stride, p, q) = lead[p] - lead[q]

MCvars == <<vars, closed, lead>>

\* A process that is picked advances.
Advance == closed /\ lab6_stride' # lab6_stride

\* In the closed system everybody in the pool gets the CPU although the others
\* go on, unless from some time on nobody who is picked advances: a priority
\* above BIG_STRIDE makes the step 0 (stride_pick_next).
ClosedPoolRuns ==
    \A p \in Users :
        []<><<Advance>>_MCvars => ((closed /\ p \in run_pool) ~> (current = p))

MCSpec == MCInit /\ [][MCNext]_MCvars
=============================================================================
