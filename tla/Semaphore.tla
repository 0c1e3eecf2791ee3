----------------------------- MODULE Semaphore ------------------------------
(***************************************************************************)
(* Counting semaphores (kern/sync/sem.c) and the wait queues under them     *)
(* (kern/sync/wait.c), on the scheduler core.  A module that EXTENDS this   *)
(* one gives the kernel threads their programs; a blocking call takes a     *)
(* thread through the phases                                                *)
(*     "running"  executing, or preempted while runnable                    *)
(*     "blocking" it has announced its sleep and is about to call schedule()*)
(*     "resuming" schedule() was called; it goes on when it has the CPU     *)
(* Between the first two interrupts are on.                                 *)
(***************************************************************************)
EXTENDS Sched, Sequences

CONSTANTS
    Sems,            \* the semaphores
    InitValue        \* the value each is initialised with

ASSUME SemAssumption ==
    /\ InitValue \in [Sems -> Nat]
    /\ IsFiniteSet(Procs)

VARIABLES
    value,           \* sem->value
    wait_queue,      \* the processes in sem->wait_queue, first to wake first
    wakeup_flags,    \* wait->wakeup_flags of the process's current or last wait
    phase            \* how far each thread is in a blocking call

semVars == <<schedVars, value, wait_queue, wakeup_flags, phase>>

Threads == Procs \ {idleproc}

SemTypeOK ==
    /\ SchedTypeOK
    /\ value \in [Sems -> Nat]
    /\ wait_queue \in [Sems -> Seq(Threads)]
    /\ wakeup_flags \in [Procs -> {"WT_KSEM", "WT_INTERRUPTED"}]
    /\ phase \in [Procs -> {"running", "blocking", "resuming"}]

\* The threads are runnable and idleproc is in cpu_idle.
SemInit ==
    /\ current = idleproc
    /\ state = [p \in Procs |-> "PROC_RUNNABLE"]
    /\ wait_state = [p \in Procs |-> "0"]
    /\ run_pool = Threads
    /\ need_resched = TRUE
    /\ time_slice = [p \in Procs |-> IF p = idleproc THEN 0 ELSE max_time_slice]
    /\ value = InitValue
    /\ wait_queue = [s \in Sems |-> <<>>]
    /\ wakeup_flags = [p \in Procs |-> "WT_INTERRUPTED"]
    /\ phase = [p \in Procs |-> "running"]

\* The thread on the CPU executes its program.
Runs(p) == p = current /\ p # idleproc /\ phase[p] = "running"

-----------------------------------------------------------------------------
\* Fault: __up hands the unit to the waiter and counts it as well.
up_counts_twice(s) ==
    /\ value' = [value EXCEPT ![s] = @ + 1]
    /\ IF wait_queue[s] = <<>>
       THEN UNCHANGED <<schedVars, wait_queue, wakeup_flags>>
       ELSE LET p == Head(wait_queue[s])
            IN  /\ wait_queue' = [wait_queue EXCEPT ![s] = Tail(@)]
                /\ wakeup_flags' = [wakeup_flags EXCEPT ![p] = "WT_KSEM"]
                /\ wakeup_proc({p}, state, wait_state)
                /\ UNCHANGED need_resched
    /\ UNCHANGED phase

\* Fault: __up wakes the waiter that came last.
up_wakes_last(s) ==
    /\ IF wait_queue[s] = <<>>
       THEN /\ value' = [value EXCEPT ![s] = @ + 1]
            /\ UNCHANGED <<schedVars, wait_queue, wakeup_flags>>
       ELSE LET q == wait_queue[s]
                p == q[Len(q)]
            IN  /\ wait_queue' = [wait_queue EXCEPT ![s] = SubSeq(@, 1, Len(@) - 1)]
                /\ wakeup_flags' = [wakeup_flags EXCEPT ![p] = "WT_KSEM"]
                /\ wakeup_proc({p}, state, wait_state)
                /\ UNCHANGED <<value, need_resched>>
    /\ UNCHANGED phase

\* __up: a unit goes to the first waiter, which is taken off the queue and
\* woken without value ever showing the unit; only without waiters value grows.
up(s) ==
    /\ IF wait_queue[s] = <<>>
       THEN /\ value' = [value EXCEPT ![s] = @ + 1]
            /\ UNCHANGED <<schedVars, wait_queue, wakeup_flags>>
       ELSE LET p == Head(wait_queue[s])
            IN  /\ wait_queue' = [wait_queue EXCEPT ![s] = Tail(@)]
                /\ wakeup_flags' = [wakeup_flags EXCEPT ![p] = "WT_KSEM"]
                /\ wakeup_proc({p}, state, wait_state)
                /\ UNCHANGED <<value, need_resched>>
    /\ UNCHANGED phase

\* Fault: a unit is taken without being counted off.
down_takes_free(s) == value[s] > 0 /\ UNCHANGED semVars

\* __down with a unit left, and try_down when it succeeds.
down_takes(s) ==
    /\ value[s] > 0
    /\ value' = [value EXCEPT ![s] = @ - 1]
    /\ UNCHANGED <<schedVars, wait_queue, wakeup_flags, phase>>

\* __down without one: wait_current_set, then (phase "blocking") schedule().
down_blocks(s) ==
    /\ value[s] = 0
    /\ go_to_sleep("WT_KSEM")
    /\ wakeup_flags' = [wakeup_flags EXCEPT ![current] = "WT_INTERRUPTED"]
    /\ wait_queue' = [wait_queue EXCEPT ![s] = Append(@, current)]
    /\ phase' = [phase EXCEPT ![current] = "blocking"]
    /\ UNCHANGED <<current, run_pool, need_resched, time_slice, value>>

\* wait_in_queue: the wait of p is linked into the queue of s.
wait_in_queue(s, p) == \E i \in DOMAIN wait_queue[s] : wait_queue[s][i] = p

\* __down after schedule(): wait_current_del takes a thread off the queue
\* that something other than __up has woken.
down_resumes(s) ==
    /\ current # idleproc
    /\ phase[current] = "resuming"
    /\ wait_queue' = IF wait_in_queue(s, current)
                     THEN [wait_queue EXCEPT ![s] = SelectSeq(@, LAMBDA p : p # current)]
                     ELSE wait_queue
    /\ phase' = [phase EXCEPT ![current] = "running"]
    /\ UNCHANGED <<schedVars, value, wakeup_flags>>

\* do_sleep, its timer, and its return.
sleep_blocks ==
    /\ go_to_sleep("WT_TIMER")
    /\ phase' = [phase EXCEPT ![current] = "blocking"]
    /\ UNCHANGED <<current, run_pool, need_resched, time_slice,
                   value, wait_queue, wakeup_flags>>

sleep_resumes ==
    /\ current # idleproc
    /\ phase[current] = "resuming"
    /\ phase' = [phase EXCEPT ![current] = "running"]
    /\ UNCHANGED <<schedVars, value, wait_queue, wakeup_flags>>

-----------------------------------------------------------------------------
\* The schedule() of a blocking call, and that of cpu_idle.
SemSchedule(next) ==
    /\ \/ phase[current] = "blocking"
       \/ current = idleproc /\ need_resched
    /\ schedule(next)
    /\ phase' = IF current = idleproc THEN phase
                ELSE [phase EXCEPT ![current] = "resuming"]
    /\ UNCHANGED <<value, wait_queue, wakeup_flags>>

\* The timer interrupt, when it fires the timers of the sleepers in fired.
\* (How long they sleep is left open.)
SemTick(fired) ==
    /\ fired \subseteq {p \in Procs : wait_state[p] = "WT_TIMER"}
    /\ run_timers(fired)
    /\ UNCHANGED <<value, wait_queue, wakeup_flags, phase>>

-----------------------------------------------------------------------------
\* While somebody waits for a unit there is none: __down looks at value, not
\* at the queue, so that a unit left beside a waiter could be taken from under
\* it, and the waiter might sleep forever.
NoUnitBesideWaiter ==
    \A s \in Sems : wait_queue[s] # <<>> => value[s] = 0
=============================================================================
