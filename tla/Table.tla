-------------------------------- MODULE Table --------------------------------
(***************************************************************************)
(* What the two dining philosopher programs of check_sync.c have in common: *)
(* kernel threads 0 .. N - 1 that think, take the forks, eat and put them   *)
(* back, TIMES times.  A step is the code from one semaphore operation to   *)
(* the next; kernel threads are not preempted, so between two of them only  *)
(* the timer interrupt comes in, unless the thread sleeps.                  *)
(***************************************************************************)
EXTENDS Semaphore

CONSTANTS
    N,               \* philosophers
    TIMES,           \* meals of each
    mutex            \* the semaphore that guards phil

ASSUME TableAssumption ==
    /\ N \in Nat \ {0}
    /\ TIMES \in Nat
    /\ Threads = 0 .. (N - 1)
    /\ mutex \in Sems

VARIABLES
    pc,              \* where each thread is in its code
    phil,            \* state_sema, state_condvar
    iter             \* meals each has begun

Phils == 0 .. (N - 1)
LEFT(i) == (i + N - 1) % N
RIGHT(i) == (i + 1) % N

TableInit ==
    /\ SemInit
    /\ pc = [i \in Phils |-> IF TIMES > 0 THEN "thinking" ELSE "quit"]
    /\ phil = [i \in Phils |-> "THINKING"]
    /\ iter = [i \in Phils |-> 1]

At(l) == current # idleproc /\ pc[current] = l
Goto(l) == pc' = [pc EXCEPT ![current] = l]

-----------------------------------------------------------------------------
\* A thread calls down(s) and has to wait.
Blocks(s) == Runs(current) /\ down_blocks(s) /\ UNCHANGED <<pc, phil, iter>>

\* state_sema[i] or state_condvar[i] = HUNGRY or THINKING.
Mark(from, mark, to) ==
    /\ At(from)
    /\ Runs(current)
    /\ phil' = [phil EXCEPT ![current] = mark]
    /\ Goto(to)
    /\ UNCHANGED <<semVars, iter>>

\* Fault: only the fork on the left is looked at.
MayEatLeft(i) == phil[i] = "HUNGRY" /\ phil[LEFT(i)] # "EATING"

\* The test of phi_test_sema and phi_test_condvar.
MayEat(i) ==
    /\ phil[i] = "HUNGRY"
    /\ phil[LEFT(i)] # "EATING"
    /\ phil[RIGHT(i)] # "EATING"

\* down(s) returns, at once or after an up: its assert says it was an up.
Downed(s) ==
    \/ Runs(current) /\ down_takes(s)
    \/ wakeup_flags[current] = "WT_KSEM" /\ down_resumes(s)

\* The two do_sleep of a round.
Sleep ==
    /\ At("thinking") \/ At("eating")
    /\ Runs(current)
    /\ sleep_blocks
    /\ UNCHANGED <<pc, phil, iter>>

SleepOver ==
    /\ At("thinking") \/ At("eating")
    /\ sleep_resumes
    /\ Goto(IF pc[current] = "thinking" THEN "take" ELSE "put")
    /\ UNCHANGED <<phil, iter>>

\* The last up of putting the forks back; then the next round, or the end.
EndRound(s) ==
    /\ Runs(current)
    /\ up(s)
    /\ iter' = [iter EXCEPT ![current] = @ + 1]
    /\ Goto(IF iter[current] < TIMES THEN "thinking" ELSE "quit")
    /\ UNCHANGED phil

\* The thread function returns into do_exit.
Quit ==
    /\ At("quit")
    /\ Runs(current)
    /\ state' = [state EXCEPT ![current] = "PROC_ZOMBIE"]
    /\ phase' = [phase EXCEPT ![current] = "blocking"]
    /\ UNCHANGED <<current, wait_state, run_pool, need_resched, time_slice,
                   value, wait_queue, wakeup_flags, pc, phil, iter>>

Tick == \E fired \in SUBSET Procs : SemTick(fired) /\ UNCHANGED <<pc, phil, iter>>

Fires(p) == \E fired \in SUBSET Procs :
    p \in fired /\ SemTick(fired) /\ UNCHANGED <<pc, phil, iter>>

Schedule(next) == SemSchedule(next) /\ UNCHANGED <<pc, phil, iter>>

-----------------------------------------------------------------------------
\* Thread i is in a down at one of these labels and has been given its unit.
Handed(i, labels) ==
    pc[i] \in labels /\ phase[i] # "running" /\ wakeup_flags[i] = "WT_KSEM"

\* The programs implement the abstract dining philosophers.
Abstract == INSTANCE Dining

ImplementsDining == Abstract!Spec

\* Everybody gets its TIMES meals: no deadlock, no signal that goes astray,
\* and no philosopher forgotten at s[i] or cv[i].
AllQuit == <>(\A i \in Phils : pc[i] = "quit")
=============================================================================
