----------------------------- MODULE MCSemLock ------------------------------
(* Model checking of SemLock: a lock, and a semaphore of two units that is   *)
(* also asked for by the thread that holds the lock.                         *)
EXTENDS SemLock

CONSTANTS mutex, pair     \* the semaphores

MCInitValue == [s \in Sems |-> IF s = mutex THEN 1 ELSE 2]

MCInner == [s \in Sems |-> IF s = mutex THEN {pair} ELSE {}]
=============================================================================
