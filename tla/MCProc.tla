------------------------------- MODULE MCProc -------------------------------
(* Model checking of Proc: user processes other than idleproc and initproc   *)
(* are interchangeable.                                                      *)
EXTENDS Proc, TLC

UserSymmetry == Permutations(Procs \ {idleproc, initproc})
=============================================================================
