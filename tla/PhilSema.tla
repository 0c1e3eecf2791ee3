------------------------------ MODULE PhilSema -------------------------------
(***************************************************************************)
(* The dining philosophers of check_sync.c with semaphores: one guards the  *)
(* states, one per philosopher says that it has its forks.                  *)
(***************************************************************************)
EXTENDS Table

ASSUME PhilSemaAssumption ==
    /\ {mutex} \cup Phils \subseteq Sems     \* s[i] is semaphore i
    /\ mutex \notin Phils
    /\ InitValue = [x \in Sems |-> IF x = mutex THEN 1 ELSE 0]

sema_vars == <<semVars, pc, phil, iter>>

-----------------------------------------------------------------------------
\* The semaphore a thread calls down on at each such label, and where it goes
\* on after it.
DownAtSema(i) == IF pc[i] = "fork" THEN i ELSE mutex

AfterSema == [take |-> "hungry", put |-> "done", fork |-> "eating"]

BlocksSema == (\E l \in DOMAIN AfterSema : At(l)) /\ Blocks(DownAtSema(current))

ReturnsSema ==
    /\ \E l \in DOMAIN AfterSema : At(l) /\ Goto(AfterSema[l])
    /\ Downed(DownAtSema(current))
    /\ UNCHANGED <<phil, iter>>

\* Fault: an eligible philosopher is marked but not told.
phi_test_silent_sema(i) ==
    /\ IF MayEat(i) THEN phil' = [phil EXCEPT ![i] = "EATING"] ELSE UNCHANGED phil
    /\ UNCHANGED semVars

\* phi_test_sema(i)
phi_test_sema(i) ==
    IF MayEat(i)
    THEN phil' = [phil EXCEPT ![i] = "EATING"] /\ up(i)
    ELSE UNCHANGED <<semVars, phil>>

TestSema(from, i, to) ==
    /\ At(from)
    /\ Runs(current)
    /\ phi_test_sema(i)
    /\ Goto(to)
    /\ UNCHANGED iter

phi_take_forks_sema ==
    \/ Mark("hungry", "HUNGRY", "test")
    \/ TestSema("test", current, "taken")
    \/ At("taken") /\ Runs(current) /\ up(mutex) /\ Goto("fork") /\ UNCHANGED <<phil, iter>>

phi_put_forks_sema ==
    \/ Mark("done", "THINKING", "left")
    \/ TestSema("left", LEFT(current), "right")
    \/ TestSema("right", RIGHT(current), "leave")
    \/ At("leave") /\ EndRound(mutex)

StepSema ==
    \/ Sleep \/ SleepOver \/ Quit
    \/ BlocksSema \/ ReturnsSema \/ phi_take_forks_sema \/ phi_put_forks_sema

NextSema == StepSema \/ Tick \/ \E next \in Procs : Schedule(next)

SpecSema == TableInit /\ [][NextSema]_sema_vars

-----------------------------------------------------------------------------
\* One thread is between its down and its up of mutex, or mutex is open: the
\* tests read and write the states of three philosophers.
InsideSema == {"hungry", "test", "taken", "done", "left", "right", "leave"}

OneInsideSema ==
    value[mutex] + Cardinality({i \in Phils : pc[i] \in InsideSema \/ Handed(i, {"take", "put"})}) = 1
=============================================================================
