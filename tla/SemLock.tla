------------------------------ MODULE SemLock -------------------------------
(***************************************************************************)
(* The kernel's use of semaphores as locks: mm_sem (lock_mm), fs_sem        *)
(* (lock_files), fs_sem, mutex_sem and io_sem of SFS, vdev_list_sem.  A     *)
(* kernel thread takes a unit with down (or try_down), sleeps or not while  *)
(* it holds it, and gives it back with up.  do_kill may wake a thread that  *)
(* sleeps on a timer, never one that waits for a semaphore.                 *)
(***************************************************************************)
EXTENDS Semaphore

CONSTANTS
    NoSem,           \* no semaphore
    Inner,           \* the semaphores that are asked for while one is held
    Sleepers         \* the threads that call do_sleep

ASSUME SemLockAssumption ==
    /\ NoSem \notin Sems
    /\ Inner \in [Sems -> SUBSET Sems]
    /\ Sleepers \subseteq Threads

VARIABLES
    wants,     \* the semaphore whose down each thread is in, or NoSem
    holds      \* the semaphores each thread holds a unit of

vars == <<semVars, wants, holds>>

TypeOK ==
    /\ SemTypeOK
    /\ wants \in [Procs -> Sems \cup {NoSem}]
    /\ holds \in [Procs -> SUBSET Sems]

Init ==
    /\ SemInit
    /\ wants = [p \in Procs |-> NoSem]
    /\ holds = [p \in Procs |-> {}]

-----------------------------------------------------------------------------
\* The program of the thread on the CPU comes to a down(s): the locks nest as
\* Inner says (fs_sem, then the inode's sem, then io_sem).
Asks(s) ==
    /\ Runs(current)
    /\ s \notin holds[current]
    /\ \A h \in holds[current] : s \in Inner[h]

\* down(s) that finds a unit, or try_down(s) that succeeds.
Take(s) ==
    /\ Asks(s)
    /\ down_takes(s)
    /\ holds' = [holds EXCEPT ![current] = @ \cup {s}]
    /\ UNCHANGED wants

\* down(s) that has to wait.
Block(s) ==
    /\ Asks(s)
    /\ down_blocks(s)
    /\ wants' = [wants EXCEPT ![current] = s]
    /\ UNCHANGED holds

\* The waiter goes on: down asserts that it was __up that woke it.
Granted ==
    /\ wants[current] # NoSem
    /\ wakeup_flags[current] = "WT_KSEM"
    /\ down_resumes(wants[current])
    /\ holds' = [holds EXCEPT ![current] = @ \cup {wants[current]}]
    /\ wants' = [wants EXCEPT ![current] = NoSem]

Release(s) ==
    /\ Runs(current)
    /\ s \in holds[current]
    /\ up(s)
    /\ holds' = [holds EXCEPT ![current] = @ \ {s}]
    /\ UNCHANGED wants

\* The thread gives back the outermost lock it holds.
Unnest == \E s \in holds[current] : holds[current] \subseteq Inner[s] \cup {s} /\ Release(s)

\* do_sleep, with or without a lock, and its return (also that of Preempt).
Sleep == Runs(current) /\ current \in Sleepers /\ sleep_blocks /\ UNCHANGED <<wants, holds>>

SleepOver == wants[current] = NoSem /\ sleep_resumes /\ UNCHANGED <<wants, holds>>

\* The thread leaves the kernel, without a lock, and the tail of trap() finds
\* that its slice is over.
Preempt ==
    /\ Runs(current)
    /\ holds[current] = {}
    /\ need_resched
    /\ phase' = [phase EXCEPT ![current] = "blocking"]
    /\ UNCHANGED <<schedVars, value, wait_queue, wakeup_flags, wants, holds>>

\* Fault: do_kill wakes a sleeper whatever it waits for.
WakesAlways(p) == wait_state[p] # "0"

\* wait_state & WT_INTERRUPTED, the condition under which do_kill wakes.
Wakes(p) == wait_state[p] \in WT_INTERRUPTED

\* The process on the CPU kills p.
Kill(p) ==
    /\ Runs(current)
    /\ wakeup_proc({q \in {p} : Wakes(q)}, state, wait_state)
    /\ UNCHANGED <<need_resched, value, wait_queue, wakeup_flags, phase, wants, holds>>

Tick == \E fired \in SUBSET Procs : SemTick(fired) /\ UNCHANGED <<wants, holds>>

\* The timer interrupt that ends a sleep of p.
Fires(p) == \E fired \in SUBSET Procs :
    p \in fired /\ SemTick(fired) /\ UNCHANGED <<wants, holds>>

Schedule(next) == SemSchedule(next) /\ UNCHANGED <<wants, holds>>

Next ==
    \/ \E s \in Sems : Take(s) \/ Block(s) \/ Release(s)
    \/ Granted
    \/ Sleep
    \/ SleepOver
    \/ Preempt
    \/ \E p \in Procs : Kill(p)
    \/ Tick
    \/ \E next \in Procs : Schedule(next)

Spec == Init /\ [][Next]_vars

\* A thread that keeps getting the CPU gives a lock back, and does not stay in
\* the kernel when it holds none; timers fire, schedule() is reached, and the
\* scheduling class picks every thread that stays in the pool.
Fairness ==
    /\ WF_vars(Granted \/ SleepOver \/ \E next \in Procs : Schedule(next))
    /\ WF_vars(Tick)
    /\ \A p \in Sleepers : WF_vars(Fires(p))
    /\ \A p \in Threads :
         /\ SF_vars(Schedule(p))
         /\ SF_vars(Preempt /\ current = p)
         /\ SF_vars(Unnest /\ current = p)

FairSpec == Spec /\ Fairness

-----------------------------------------------------------------------------
\* The threads a unit of s has been handed to by an up and that have not run
\* since.
Handed(s) == {p \in Procs : wants[p] = s /\ wakeup_flags[p] = "WT_KSEM"}

Holders(s) == {p \in Procs : s \in holds[p]}

\* Units are neither lost nor made: each is in value, held, or on its way to
\* the thread it was handed to.  For a semaphore initialised with 1 this is
\* mutual exclusion.
Conservation ==
    \A s \in Sems :
        value[s] + Cardinality(Holders(s)) + Cardinality(Handed(s)) = InitValue[s]

\* The assert of down: a thread that has been woken from a semaphore was woken
\* by an up, with a unit in hand, and is off the queue.
WokenWithUnit ==
    \A p \in Procs : wants[p] # NoSem /\ state[p] = "PROC_RUNNABLE" =>
        /\ wakeup_flags[p] = "WT_KSEM"
        /\ \A s \in Sems : ~wait_in_queue(s, p)

\* A thread that waits for a lock gets it.
WaiterServed == \A p \in Threads, s \in Sems : (wants[p] = s) ~> (s \in holds[p])
=============================================================================
