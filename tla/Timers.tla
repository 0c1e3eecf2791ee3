------------------------------- MODULE Timers -------------------------------
(***************************************************************************)
(* What the timers of kern/schedule/sched.c promise: a timer armed for t    *)
(* ticks fires at the t-th tick after it was armed, unless it is deleted    *)
(* before.  Every process has one timer, the one on the stack of do_sleep.  *)
(***************************************************************************)
EXTENDS Naturals

CONSTANTS Procs, MaxSleep

VARIABLES
    remaining,   \* ticks before the timer fires; 0: not armed
    fired        \* the processes whose timers the last tick fired

Init ==
    /\ remaining = [p \in Procs |-> 0]
    /\ fired = {}

Add(p, time) ==
    /\ remaining[p] = 0
    /\ remaining' = [remaining EXCEPT ![p] = time]
    /\ fired' = {}

Delete(p) ==
    /\ remaining' = [remaining EXCEPT ![p] = 0]
    /\ fired' = {}

Tick ==
    /\ fired' = {p \in Procs : remaining[p] = 1}
    /\ remaining' = [p \in Procs |-> IF remaining[p] = 0 THEN 0 ELSE remaining[p] - 1]

Next ==
    \/ \E p \in Procs, time \in 1 .. MaxSleep : Add(p, time)
    \/ \E p \in Procs : Delete(p)
    \/ Tick

Spec == Init /\ [][Next]_<<remaining, fired>>
=============================================================================
