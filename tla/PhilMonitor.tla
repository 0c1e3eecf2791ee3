----------------------------- MODULE PhilMonitor -----------------------------
(***************************************************************************)
(* Monitors (kern/sync/monitor.c) and the dining philosophers of            *)
(* check_sync.c that use one: a signalled thread runs at once, its          *)
(* signaller waits in next until the monitor is left, and only when nobody  *)
(* waits there is mutex given back.                                         *)
(***************************************************************************)
EXTENDS Table

CONSTANT next              \* mtp->next

ASSUME PhilMonitorAssumption ==
    /\ {mutex, next} \cup Phils \subseteq Sems     \* cv[i].sem is semaphore i
    /\ {mutex, next} \cap Phils = {} /\ mutex # next
    /\ InitValue = [x \in Sems |-> IF x = mutex THEN 1 ELSE 0]

VARIABLES
    count,                 \* cv[i].count
    next_count             \* mtp->next_count

monitorVars == <<count, next_count>>
condvar_vars == <<semVars, pc, phil, iter, monitorVars>>

InitCondvar ==
    /\ TableInit
    /\ count = [i \in Phils |-> 0]
    /\ next_count = 0

-----------------------------------------------------------------------------
\* The semaphore a thread calls down on at each such label, and where it goes
\* on after it.
DownAtCondvar(i) == CASE pc[i] \in {"take", "put"} -> mutex
               [] pc[i] = "cv"              -> i
               [] OTHER                     -> next

AfterCondvar == [ take |-> "hungry", put |-> "done", cv |-> "taken",
           test_next |-> "check", left_next |-> "right", right_next |-> "leave" ]

BlocksCondvar ==
    /\ \E l \in DOMAIN AfterCondvar : At(l)
    /\ Blocks(DownAtCondvar(current))
    /\ UNCHANGED monitorVars

\* down returns; cond_wait then decrements count, cond_signal next_count.
ReturnsCondvar ==
    LET s == DownAtCondvar(current)
    IN  /\ \E l \in DOMAIN AfterCondvar : At(l) /\ Goto(AfterCondvar[l])
        /\ Downed(s)
        /\ count' = IF s = current THEN [count EXCEPT ![current] = @ - 1] ELSE count
        /\ next_count' = IF s = next THEN next_count - 1 ELSE next_count
        /\ UNCHANGED <<phil, iter>>

\* Fault: the signaller goes on at once, and both are in the monitor.
cond_signal_goes_on(i, wait, to) ==
    IF count[i] > 0
    THEN up(i) /\ Goto(to) /\ UNCHANGED next_count
    ELSE Goto(to) /\ UNCHANGED <<semVars, next_count>>

\* Fault: next_count is not incremented.
cond_signal_uncounted(i, wait, to) ==
    IF count[i] > 0
    THEN up(i) /\ Goto(wait) /\ UNCHANGED next_count
    ELSE Goto(to) /\ UNCHANGED <<semVars, next_count>>

\* cond_signal(cv[i]): with a waiter, hand it the monitor and wait in next
\* (at label wait).
cond_signal(i, wait, to) ==
    IF count[i] > 0
    THEN up(i) /\ next_count' = next_count + 1 /\ Goto(wait)
    ELSE Goto(to) /\ UNCHANGED <<semVars, next_count>>

\* phi_test_condvar(i)
phi_test_condvar(i, wait, to) ==
    IF MayEat(i)
    THEN phil' = [phil EXCEPT ![i] = "EATING"] /\ cond_signal(i, wait, to)
    ELSE Goto(to) /\ UNCHANGED <<semVars, phil, next_count>>

TestCondvar(from, i, wait, to) ==
    /\ At(from)
    /\ Runs(current)
    /\ phi_test_condvar(i, wait, to)
    /\ UNCHANGED <<iter, count>>

\* Fault: leaving the monitor always opens it.
LeaveByOpens == mutex

\* Leaving the monitor goes to a signaller that waits in next before it goes
\* to a thread outside.
LeaveBy == IF next_count > 0 THEN next ELSE mutex

\* phi_take_forks_condvar: without its forks the philosopher calls cond_wait.
CondWait ==
    /\ At("check")
    /\ Runs(current)
    /\ phil[current] # "EATING"
    /\ count' = [count EXCEPT ![current] = @ + 1]
    /\ up(LeaveBy)
    /\ Goto("cv")
    /\ UNCHANGED <<phil, iter, next_count>>

Taken ==
    /\ \/ At("check") /\ phil[current] = "EATING"
       \/ At("taken")
    /\ Runs(current)
    /\ up(LeaveBy)
    /\ Goto("eating")
    /\ UNCHANGED <<phil, iter, monitorVars>>

phi_take_forks_condvar ==
    \/ Mark("hungry", "HUNGRY", "test") /\ UNCHANGED monitorVars
    \/ TestCondvar("test", current, "test_next", "check")
    \/ CondWait
    \/ Taken

phi_put_forks_condvar ==
    \/ Mark("done", "THINKING", "left") /\ UNCHANGED monitorVars
    \/ TestCondvar("left", LEFT(current), "left_next", "right")
    \/ TestCondvar("right", RIGHT(current), "right_next", "leave")
    \/ At("leave") /\ EndRound(LeaveBy) /\ UNCHANGED monitorVars

StepCondvar ==
    \/ (Sleep \/ SleepOver \/ Quit) /\ UNCHANGED monitorVars
    \/ BlocksCondvar \/ ReturnsCondvar \/ phi_take_forks_condvar \/ phi_put_forks_condvar

NextCondvar ==
    \/ StepCondvar
    \/ Tick /\ UNCHANGED monitorVars
    \/ \E p \in Procs : Schedule(p) /\ UNCHANGED monitorVars

SpecCondvar == InitCondvar /\ [][NextCondvar]_condvar_vars

-----------------------------------------------------------------------------
\* One thread executes in the monitor or has just been handed it, by whichever
\* of its semaphores, or else mutex is open.  A signaller (at its down(next))
\* and a waiter (at its down(cv)) are not in it until they are woken.
InsideCondvar == {"hungry", "test", "check", "taken", "done", "left", "right", "leave"}

OneInsideCondvar ==
    value[mutex] + Cardinality({i \in Phils :
        pc[i] \in InsideCondvar \/ Handed(i, DOMAIN AfterCondvar)}) = 1

\* count and next_count, which are read to decide who goes next, count the
\* waiters of each condition variable and the signallers in next; while
\* signallers wait, mutex is not open to a third thread.
CountsMatch ==
    LET signallers == {i \in Phils : pc[i] \in {"test_next", "left_next", "right_next"}}
    IN  /\ \A i \in Phils : count[i] = (IF pc[i] = "cv" THEN 1 ELSE 0)
        /\ next_count = Cardinality(signallers)
        /\ next_count > 0 => value[mutex] = 0
=============================================================================
