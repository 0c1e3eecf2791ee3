------------------------------- MODULE MCData --------------------------------
(***************************************************************************)
(* Model checking of five parts of the kernel's data: the pids, the timer   *)
(* list, the page allocator, the kernel heap and the address spaces.  A     *)
(* behaviour steps one of them, chosen at its start; the others stay as     *)
(* they were initialised, so that their state spaces add up.                *)
(***************************************************************************)
EXTENDS GetPid, TimerList, FirstFit, Slob, AddressSpace

VARIABLE part              \* the one that steps

\* Two usable regions with a hole between.
MCRegions == <<[base |-> 0, n |-> 4], [base |-> 5, n |-> 2]>>

Segment(start, end, flags, torn) ==
    [start |-> start, end |-> end, flags |-> flags, data |-> <<2>>, torn |-> torn]

\* A program of a page from the file and a page of zeros; one that is none; one
\* with a header that reaches a later area from below, one with a header in an
\* area, and one whose file ends too early.
Text == Segment(0, 2, {"R", "X"}, FALSE)
MCImages == {[elf |-> TRUE, segments |-> <<Text>>],
             [elf |-> FALSE, segments |-> <<>>],
             [elf |-> TRUE, segments |-> <<Segment(1, 2, {"R"}, FALSE), Segment(0, 2, {"R"}, FALSE)>>],
             [elf |-> TRUE, segments |-> <<Text, Segment(1, 2, {"R"}, FALSE)>>],
             [elf |-> TRUE, segments |-> <<Segment(1, 2, {"R"}, FALSE), Segment(0, 1, {"R", "W"}, TRUE)>>]}

Init ==
    /\ part \in {"pids", "timers", "pages", "heap", "spaces"}
    /\ PidInit /\ TimerInit /\ MemoryInit /\ SlobInit /\ SpaceInit

Next ==
    /\ \/ part = "pids"   /\ PidNext    /\ UNCHANGED <<timer_vars, memory_vars, slob_vars, space_vars>>
       \/ part = "timers" /\ TimerNext  /\ UNCHANGED <<pid_vars, memory_vars, slob_vars, space_vars>>
       \/ part = "pages"  /\ MemoryNext /\ UNCHANGED <<pid_vars, timer_vars, slob_vars, space_vars>>
       \/ part = "heap"   /\ SlobNext   /\ UNCHANGED <<pid_vars, timer_vars, memory_vars, space_vars>>
       \/ part = "spaces" /\ SpaceNext  /\ UNCHANGED <<pid_vars, timer_vars, memory_vars, slob_vars>>
    /\ UNCHANGED part

Spec ==
    Init /\ [][Next]_<<part, pid_vars, timer_vars, memory_vars, slob_vars, space_vars>> /\ PidFairness
=============================================================================
