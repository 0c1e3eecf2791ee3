------------------------------- MODULE MCPhil --------------------------------
(***************************************************************************)
(* Model checking of the two dining philosopher programs: a behaviour is one *)
(* of either.  (check_sync starts both; they share only the CPU.)           *)
(***************************************************************************)
EXTENDS PhilSema, PhilMonitor

VARIABLE program

MCInitValue == [x \in Sems |-> IF x = mutex THEN 1 ELSE 0]

Init ==
    /\ program \in {"semaphores", "monitor"}
    /\ InitCondvar

Next ==
    /\ \/ program = "semaphores" /\ NextSema /\ UNCHANGED monitorVars
       \/ program = "monitor"    /\ NextCondvar
    /\ UNCHANGED program

Spec == Init /\ [][Next]_<<condvar_vars, program>>

\* A thread runs to its next schedule(), timers fire, and the scheduling class
\* picks every thread that stays in the pool.
Fairness ==
    /\ WF_condvar_vars(IF program = "monitor" THEN StepCondvar
                                              ELSE StepSema /\ UNCHANGED monitorVars)
    /\ WF_condvar_vars(Tick /\ UNCHANGED monitorVars)
    /\ WF_condvar_vars(\E p \in Procs : Schedule(p) /\ UNCHANGED monitorVars)
    /\ \A i \in Phils : /\ WF_condvar_vars(Fires(i) /\ UNCHANGED monitorVars)
                        /\ SF_condvar_vars(Schedule(i) /\ UNCHANGED monitorVars)

FairSpec == Spec /\ Fairness

\* One thread at a time holds mutex (semaphores) or the monitor.
OneInside == IF program = "monitor" THEN OneInsideCondvar ELSE OneInsideSema
=============================================================================
