------------------------------- MODULE Sched -------------------------------
(***************************************************************************)
(* The scheduler core of uCore (kern/schedule/sched.c): the current         *)
(* process, the run pool, and the two operations every other component is   *)
(* built on, wakeup_proc and schedule.                                      *)
(*                                                                          *)
(* There is one CPU and the kernel is not preemptive: only the current      *)
(* process executes, it gives up the CPU only by calling schedule(), and    *)
(* an interrupt handler runs on top of it and returns to it.  A component   *)
(* module EXTENDS this one and gives each process a program counter.        *)
(*                                                                          *)
(* The scheduling class is abstracted here to what every class promises:    *)
(* pick_next returns some member of the pool.  Which one the stride class   *)
(* returns is the subject of module Stride.                                 *)
(***************************************************************************)
EXTENDS Integers, FiniteSets

CONSTANTS
    Procs,           \* the proc_structs there can be, one per pid
    idleproc,        \* the first kernel thread, never in the run pool
    max_time_slice   \* rq->max_time_slice (5 in sched_init)

ASSUME SchedAssumption ==
    /\ idleproc \in Procs
    /\ max_time_slice \in Nat \ {0}

VARIABLES
    current,         \* the process on the CPU
    state,           \* proc->state; "PROC_NONE": there is no such process
    wait_state,      \* proc->wait_state; "0" when the process waits for nothing
    run_pool,        \* the processes in rq
    need_resched,    \* current->need_resched (no other process has it set)
    time_slice       \* proc->time_slice

schedVars == <<current, state, wait_state, run_pool, need_resched, time_slice>>

ProcState == {"PROC_NONE", "PROC_SLEEPING", "PROC_RUNNABLE", "PROC_ZOMBIE"}
WaitState == {"0", "WT_CHILD", "WT_TIMER", "WT_KBD", "WT_KSEM"}

\* wait_state & WT_INTERRUPTED: do_kill may wake such a sleeper
WT_INTERRUPTED == {"WT_CHILD", "WT_TIMER", "WT_KBD"}

SchedTypeOK ==
    /\ current \in Procs
    /\ state \in [Procs -> ProcState]
    /\ wait_state \in [Procs -> WaitState]
    /\ run_pool \in SUBSET (Procs \ {idleproc})
    /\ need_resched \in BOOLEAN
    /\ time_slice \in [Procs -> 0 .. max_time_slice]

-----------------------------------------------------------------------------
\* Fault: an enqueue adds a slice to what is left.
RenewSliceAdds(ts, P) ==
    [p \in Procs |-> IF p \in P THEN ts[p] + max_time_slice ELSE ts[p]]

\* stride_enqueue renews an exhausted slice and keeps what a preempted
\* process has left of it.
RenewSlice(ts, P) ==
    [p \in Procs |-> IF p \in P /\ ts[p] = 0 THEN max_time_slice ELSE ts[p]]

\* The processes wakeup_proc makes runnable when it is called for each process
\* of P in a state whose state fields are st (a process that is already
\* runnable is left alone), and those of them it puts into the pool: never
\* current, which enqueues itself in the schedule() it is about to call.
Woken(P, st) == {p \in P : st[p] # "PROC_RUNNABLE"}

\* Fault: current is enqueued too.
QueuedWithCurrent(P, st) == Woken(P, st) \ {idleproc}

Queued(P, st) == Woken(P, st) \ {current, idleproc}

\* Fault: wait_state is not reset.
wakeup_keeps_wait_state(P, st, ws) ==
    /\ state' = [p \in Procs |-> IF p \in Woken(P, st) THEN "PROC_RUNNABLE" ELSE st[p]]
    /\ wait_state' = ws
    /\ run_pool' = run_pool \cup Queued(P, st)
    /\ UNCHANGED current

\* What these calls do to the processes and the pool; st and ws are the state
\* and wait_state fields just before (the caller may have changed them earlier
\* in the same step).
wakeup(P, st, ws) ==
    /\ state' = [p \in Procs |-> IF p \in Woken(P, st) THEN "PROC_RUNNABLE" ELSE st[p]]
    /\ wait_state' = [p \in Procs |-> IF p \in Woken(P, st) THEN "0" ELSE ws[p]]
    /\ run_pool' = run_pool \cup Queued(P, st)
    /\ UNCHANGED current

wakeup_proc(P, st, ws) ==
    /\ wakeup(P, st, ws)
    /\ time_slice' = RenewSlice(time_slice, Queued(P, st))

\* The two assignments with which current announces that it will sleep.
go_to_sleep(ws) ==
    /\ state' = [state EXCEPT ![current] = "PROC_SLEEPING"]
    /\ wait_state' = [wait_state EXCEPT ![current] = ws]

\* The processes schedule() chooses among: a current process that is still
\* runnable has been enqueued first.
Ready ==
    IF state[current] = "PROC_RUNNABLE" /\ current # idleproc
    THEN run_pool \cup {current}
    ELSE run_pool

\* schedule(), when the scheduling class picks next; idleproc runs only when
\* the pool is empty.
schedule(next) ==
    /\ next \in (IF Ready = {} THEN {idleproc} ELSE Ready)
    /\ current' = next
    /\ run_pool' = Ready \ {next}
    /\ time_slice' = RenewSlice(time_slice, Ready \ run_pool)
    /\ need_resched' = FALSE
    /\ UNCHANGED <<state, wait_state>>

\* Fault: only the idle process is ever asked to give up the CPU.
SliceOverIdleOnly(ts) == current = idleproc

\* This tick ends the slice of current (idleproc has none).
SliceOver(ts) == current = idleproc \/ ts[current] <= 1

\* run_timer_list once it knows which timers fired: wake their owners, then
\* sched_class_proc_tick(current).
run_timers(fired) ==
    LET ts == RenewSlice(time_slice, Queued(fired, state))
    IN  /\ wakeup(fired, state, wait_state)
        /\ time_slice' = IF current # idleproc /\ ts[current] > 0
                         THEN [ts EXCEPT ![current] = @ - 1] ELSE ts
        /\ need_resched' = (need_resched \/ SliceOver(ts))

-----------------------------------------------------------------------------
\* The pool holds exactly the processes that could run and do not: a process
\* woken is in it once, one that sleeps or died is not, and none is lost
\* (wakeup_proc, schedule).
RunPoolExact ==
    run_pool = {p \in Procs \ {idleproc, current} : state[p] = "PROC_RUNNABLE"}
=============================================================================
