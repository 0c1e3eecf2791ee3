-------------------------------- MODULE Proc --------------------------------
(***************************************************************************)
(* The life of a process (kern/process/proc.c) on the scheduler core: fork, *)
(* exit, wait, kill, sleep and yield, the family links they maintain, the   *)
(* timer interrupt, and the tail of trap() that delivers a kill and         *)
(* preempts user code.                                                      *)
(*                                                                          *)
(* Timers are kept here as "ticks left before it fires", 0 when the timer   *)
(* is not armed; module TimerList shows that the delta list of sched.c      *)
(* implements that.                                                         *)
(***************************************************************************)
EXTENDS Sched

CONSTANTS
    initproc,        \* the second kernel thread, parent of every orphan
    NULL,            \* the null pointer
    MAX_PROCESS,     \* most processes alive at once
    MaxSleep,        \* longest time passed to do_sleep
    Killable         \* the pids user programs pass to kill

ASSUME ProcAssumption ==
    /\ IsFiniteSet(Procs)
    /\ initproc \in Procs \ {idleproc}
    /\ NULL \notin Procs
    /\ MAX_PROCESS \in Nat
    /\ MaxSleep \in Nat \ {0}
    /\ Killable \subseteq Procs \ {idleproc}

VARIABLES
    pc,                  \* where each process is in its code
    wait_pid,            \* argument of the do_wait a process is in; NULL: any child
    exiting,             \* proc->flags & PF_EXITING
    parent, cptr, optr, yptr, \* parent, youngest child, older and younger sibling
    nr_process,
    remaining            \* ticks before the timer of a process in do_sleep fires

familyVars == <<parent, cptr, optr, yptr, nr_process>>
vars == <<schedVars, pc, wait_pid, exiting, familyVars, remaining>>

\* Labels at which a process calls schedule(), and where it then resumes.
Resume ==
    [ idle_sched  |-> "idle",
      user_sched  |-> "user",       \* preempted in the tail of a system call
      irq_sched   |-> "user",       \* preempted in the tail of an interrupt
      wait_sched  |-> "wait_wake",
      main_sched  |-> "wait",
      sleep_sched |-> "sleep_wake",
      exit_sched  |-> "dead" ]

Label == {"idle_sched", "user_sched", "irq_sched", "wait_sched", "main_sched",
          "sleep_sched", "exit_sched",
          "none", "boot", "idle", "user", "trap", "irq", "wait", "wait_wake",
          "sleep_wake", "exit", "exit_children", "dead", "halt", "panic"}

\* Labels reached with interrupts off: the tail of an interrupt gate, and
\* the critical section of do_exit.
IntrOff == {"irq", "irq_sched", "exit_children"}

\* The kernel has panicked: initproc has called do_exit.
Halted == pc[initproc] \in {"halt", "panic"}

ProcTypeOK ==
    /\ SchedTypeOK
    /\ pc \in [Procs -> Label]
    /\ wait_pid \in [Procs -> Procs \cup {NULL}]
    /\ exiting \in [Procs -> BOOLEAN]
    /\ parent \in [Procs -> Procs \cup {NULL}]
    /\ cptr \in [Procs -> Procs \cup {NULL}]
    /\ optr \in [Procs -> Procs \cup {NULL}]
    /\ yptr \in [Procs -> Procs \cup {NULL}]
    /\ nr_process \in Int
    /\ remaining \in [Procs -> 0 .. MaxSleep]

-----------------------------------------------------------------------------
\* The state in which kern_init calls cpu_idle: proc_init has made idleproc
\* and, with kernel_thread, initproc.
Init ==
    /\ current = idleproc
    /\ state = [p \in Procs |-> IF p \in {idleproc, initproc}
                                THEN "PROC_RUNNABLE" ELSE "PROC_NONE"]
    /\ wait_state = [p \in Procs |-> "0"]
    /\ run_pool = {initproc}
    /\ need_resched = TRUE
    /\ time_slice = [p \in Procs |-> IF p = initproc THEN max_time_slice ELSE 0]
    /\ pc = [p \in Procs |-> CASE p = idleproc -> "idle"
                               [] p = initproc -> "boot"
                               [] OTHER -> "none"]
    /\ wait_pid = [p \in Procs |-> NULL]
    /\ exiting = [p \in Procs |-> FALSE]
    /\ parent = [p \in Procs |-> IF p = initproc THEN idleproc ELSE NULL]
    /\ cptr = [p \in Procs |-> IF p = idleproc THEN initproc ELSE NULL]
    /\ optr = [p \in Procs |-> NULL]
    /\ yptr = [p \in Procs |-> NULL]
    /\ nr_process = 2
    /\ remaining = [p \in Procs |-> 0]

\* current is at label l and the kernel has not panicked.
At(l) == ~Halted /\ pc[current] = l
Goto(l) == pc' = [pc EXCEPT ![current] = l]

-----------------------------------------------------------------------------
(* fork *)

\* set_links: the new child becomes the youngest of its parent's children.
set_links(p, par) ==
    /\ parent' = [parent EXCEPT ![p] = par]
    /\ optr' = [optr EXCEPT ![p] = cptr[par]]
    /\ yptr' = [q \in Procs |-> CASE q = p -> NULL
                                  [] q = cptr[par] -> p
                                  [] OTHER -> yptr[q]]
    /\ cptr' = [cptr EXCEPT ![par] = p]
    /\ nr_process' = nr_process + 1

\* do_fork: alloc_proc clears every field of the new process (time_slice
\* too, which the enqueue then renews), and wakeup_proc makes it runnable.
do_fork(p, label) ==
    /\ nr_process < MAX_PROCESS
    /\ state[p] = "PROC_NONE"
    /\ set_links(p, current)
    /\ wakeup_proc({p}, state, wait_state)
    /\ pc' = [pc EXCEPT ![p] = "user", ![current] = label]
    /\ exiting' = [exiting EXCEPT ![p] = FALSE]
    /\ UNCHANGED <<need_resched, wait_pid, remaining>>

Fork(p) == At("user") /\ do_fork(p, "trap")

\* init_main starts user_main, then waits for its children.
InitMain(p) == At("boot") /\ do_fork(p, "wait")

-----------------------------------------------------------------------------
(* exit *)

\* Fault: do_exit forgets that a child it hands over may be dead already.
InitWaitingForNobody(p) == {}

\* initproc, if it waits for a child and its new child p is dead.
InitWaitingFor(p) ==
    {q \in {initproc} : state[p] = "PROC_ZOMBIE" /\ wait_state[q] = "WT_CHILD"}

\* Fault: do_exit wakes nobody.
ParentNotWoken == {}

\* The parent of current, if it waits for a child.
ParentWaiting == {q \in Procs : q = parent[current] /\ wait_state[q] = "WT_CHILD"}

\* do_exit up to its first wakeup.  For initproc it panics: at "halt" after
\* init_main has returned, at "panic" when initproc was killed.
do_exit ==
    /\ At("exit")
    /\ IF current = initproc
       THEN Goto("panic") /\ UNCHANGED schedVars
       ELSE /\ wakeup_proc(ParentWaiting, [state EXCEPT ![current] = "PROC_ZOMBIE"], wait_state)
            /\ Goto("exit_children")
            /\ UNCHANGED need_resched
    /\ UNCHANGED <<wait_pid, exiting, familyVars, remaining>>

\* One turn of do_exit's loop: the youngest child left becomes initproc's
\* youngest child, and a dead one wakes initproc.
ReparentChild ==
    LET p   == cptr[current]
        old == cptr[initproc]
    IN  /\ At("exit_children")
        /\ p # NULL
        /\ cptr' = [cptr EXCEPT ![current] = optr[p], ![initproc] = p]
        /\ optr' = [optr EXCEPT ![p] = old]
        /\ yptr' = [q \in Procs |-> CASE q = p -> NULL
                                      [] q = old -> p
                                      [] OTHER -> yptr[q]]
        /\ parent' = [parent EXCEPT ![p] = initproc]
        /\ wakeup_proc(InitWaitingFor(p), state, wait_state)
        /\ UNCHANGED <<need_resched, pc, wait_pid, exiting, nr_process, remaining>>

ExitDone ==
    /\ At("exit_children")
    /\ cptr[current] = NULL
    /\ Goto("exit_sched")
    /\ UNCHANGED <<schedVars, wait_pid, exiting, familyVars, remaining>>

-----------------------------------------------------------------------------
(* wait *)

\* The n-th child of p along the cptr/optr list, youngest first.
Child(p) ==
    LET c[n \in Nat] == IF n = 0 THEN cptr[p]
                        ELSE IF c[n - 1] = NULL THEN NULL ELSE optr[c[n - 1]]
    IN  c

ChildIndices(p) == {n \in 0 .. Cardinality(Procs) : Child(p)[n] # NULL}

Children(p) == {Child(p)[n] : n \in ChildIndices(p)}

\* Fault: do_wait reaps a process that is not its child.
AwaitedAnyPid(p) ==
    IF wait_pid[p] # NULL
    THEN {q \in {wait_pid[p]} : state[q] # "PROC_NONE"}
    ELSE Children(p)

\* The children p waits for: the one named by its pid, or any of the list.
Awaited(p) ==
    IF wait_pid[p] # NULL
    THEN {q \in {wait_pid[p]} : state[q] # "PROC_NONE" /\ parent[q] = p}
    ELSE Children(p)

\* The first dead one among them in list order.
Found(p, z) ==
    /\ z \in Awaited(p)
    /\ state[z] = "PROC_ZOMBIE"
    /\ wait_pid[p] = NULL =>
         \E n \in ChildIndices(p) :
            /\ Child(p)[n] = z
            /\ \A m \in 0 .. (n - 1) : state[Child(p)[m]] # "PROC_ZOMBIE"

\* Fault: the younger sibling still points to the freed process.
remove_links_stale(z) ==
    /\ cptr' = [q \in Procs |-> IF q = parent[z] /\ yptr[z] = NULL
                                THEN optr[z] ELSE cptr[q]]
    /\ yptr' = [q \in Procs |-> CASE q = z -> NULL
                                  [] q = optr[z] -> yptr[z]
                                  [] OTHER -> yptr[q]]
    /\ optr' = [optr EXCEPT ![z] = NULL]
    /\ parent' = [parent EXCEPT ![z] = NULL]
    /\ nr_process' = nr_process - 1

\* remove_links, with the proc_struct freed: its pid may be given out again.
remove_links(z) ==
    /\ cptr' = [q \in Procs |-> IF q = parent[z] /\ yptr[z] = NULL
                                THEN optr[z] ELSE cptr[q]]
    /\ yptr' = [q \in Procs |-> CASE q = z -> NULL
                                  [] q = optr[z] -> yptr[z]
                                  [] OTHER -> yptr[q]]
    /\ optr' = [q \in Procs |-> CASE q = z -> NULL
                                  [] q = yptr[z] -> optr[z]
                                  [] OTHER -> optr[q]]
    /\ parent' = [parent EXCEPT ![z] = NULL]
    /\ nr_process' = nr_process - 1

\* Fault: init_main waits for one child only.
WaitReturnsOnce(found) == IF current = initproc THEN "halt" ELSE "trap"

\* Where do_wait returns to: init_main's loop calls schedule() after each
\* child it has reaped and ends when there is none left.
WaitReturns(found) ==
    IF current = initproc THEN (IF found THEN "main_sched" ELSE "halt") ELSE "trap"

\* do_wait at its label repeat, a dead child found: it is unlinked and freed.
WaitReap(z) ==
    /\ At("wait")
    /\ Found(current, z)
    /\ remove_links(z)
    /\ state' = [state EXCEPT ![z] = "PROC_NONE"]
    /\ time_slice' = [time_slice EXCEPT ![z] = 0]
    /\ exiting' = [exiting EXCEPT ![z] = FALSE]
    /\ wait_pid' = [wait_pid EXCEPT ![current] = NULL, ![z] = NULL]
    /\ pc' = [pc EXCEPT ![current] = WaitReturns(TRUE), ![z] = "none"]
    /\ UNCHANGED <<current, wait_state, run_pool, need_resched, remaining>>

\* No awaited child is dead: sleep until one dies.
WaitSleep ==
    /\ At("wait")
    /\ Awaited(current) # {}
    /\ \A q \in Awaited(current) : state[q] # "PROC_ZOMBIE"
    /\ go_to_sleep("WT_CHILD")
    /\ Goto("wait_sched")
    /\ UNCHANGED <<current, run_pool, need_resched, time_slice,
                   wait_pid, exiting, familyVars, remaining>>

\* -E_BAD_PROC: there is no such child.
WaitBadProc ==
    /\ At("wait")
    /\ Awaited(current) = {}
    /\ Goto(WaitReturns(FALSE))
    /\ wait_pid' = [wait_pid EXCEPT ![current] = NULL]
    /\ UNCHANGED <<schedVars, exiting, familyVars, remaining>>

\* Back from schedule(): a kill ends the process here, a wakeup by a child
\* makes it look again.
WaitWake ==
    /\ At("wait_wake")
    /\ Goto(IF exiting[current] THEN "exit" ELSE "wait")
    /\ UNCHANGED <<schedVars, wait_pid, exiting, familyVars, remaining>>

Wait(pid) ==
    /\ At("user")
    /\ wait_pid' = [wait_pid EXCEPT ![current] = pid]
    /\ Goto("wait")
    /\ UNCHANGED <<schedVars, exiting, familyVars, remaining>>

-----------------------------------------------------------------------------
(* kill, sleep, yield, exit and the other system calls of a user program *)

\* Fault: a kill wakes whatever the process is doing.
WakesOnKillAlways(p) == TRUE

\* The process sleeps in a wait that a kill interrupts.
WakesOnKill(p) == wait_state[p] \in WT_INTERRUPTED

Kill(p) ==
    /\ At("user")
    /\ state[p] # "PROC_NONE"
    /\ ~exiting[p]
    /\ exiting' = [exiting EXCEPT ![p] = TRUE]
    /\ wakeup_proc({q \in {p} : WakesOnKill(q)}, state, wait_state)
    /\ Goto("trap")
    /\ UNCHANGED <<need_resched, wait_pid, familyVars, remaining>>

\* do_sleep up to its schedule(): interrupts are on again when it is called,
\* so that the timer may already have fired.
Sleep(time) ==
    /\ At("user")
    /\ go_to_sleep("WT_TIMER")
    /\ remaining' = [remaining EXCEPT ![current] = time]
    /\ Goto("sleep_sched")
    /\ UNCHANGED <<current, run_pool, need_resched, time_slice,
                   wait_pid, exiting, familyVars>>

\* Fault: do_sleep returns without del_timer.
SleepWakeArmed ==
    /\ At("sleep_wake")
    /\ Goto("trap")
    /\ UNCHANGED <<schedVars, wait_pid, exiting, familyVars, remaining>>

\* del_timer: the timer is still armed when a kill ended the sleep.
SleepWake ==
    /\ At("sleep_wake")
    /\ remaining' = [remaining EXCEPT ![current] = 0]
    /\ Goto("trap")
    /\ UNCHANGED <<schedVars, wait_pid, exiting, familyVars>>

Yield ==
    /\ At("user")
    /\ need_resched' = TRUE
    /\ Goto("trap")
    /\ UNCHANGED <<current, state, wait_state, run_pool, time_slice,
                   wait_pid, exiting, familyVars, remaining>>

Exit ==
    /\ At("user")
    /\ Goto("exit")
    /\ UNCHANGED <<schedVars, wait_pid, exiting, familyVars, remaining>>

\* A system call that returns without touching the process tables: a failed
\* fork or kill, sleep(0), getpid and the like.
OtherSyscall ==
    /\ At("user")
    /\ Goto("trap")
    /\ UNCHANGED <<schedVars, wait_pid, exiting, familyVars, remaining>>

-----------------------------------------------------------------------------
(* interrupts, the tail of trap(), and the calls of schedule() *)

\* Fault: of several timers that expire together only one fires.
FiredOne ==
    LET due == {p \in Procs : remaining[p] = 1}
    IN  IF due = {} THEN {} ELSE {CHOOSE p \in due : TRUE}

\* The owners of the timers that expire with this tick.
Fired == {p \in Procs : remaining[p] = 1}

\* The timer interrupt: run_timer_list wakes the owners of the timers that
\* fire, and charges the tick to current.
Tick ==
    /\ ~Halted
    /\ pc[current] \notin IntrOff
    /\ remaining' = [p \in Procs |-> IF remaining[p] > 0 THEN remaining[p] - 1 ELSE 0]
    /\ run_timers(Fired)
    /\ pc' = IF pc[current] = "user" THEN [pc EXCEPT ![current] = "irq"] ELSE pc
    /\ UNCHANGED <<wait_pid, exiting, familyVars>>

\* The tail of trap() for a trap from user mode.
TrapTail(from, sched) ==
    /\ At(from)
    /\ Goto(IF exiting[current] THEN "exit" ELSE IF need_resched THEN sched ELSE "user")
    /\ UNCHANGED <<schedVars, wait_pid, exiting, familyVars, remaining>>

SyscallReturn == TrapTail("trap", "user_sched")
IrqReturn     == TrapTail("irq", "irq_sched")

CpuIdle ==
    /\ At("idle")
    /\ need_resched
    /\ Goto("idle_sched")
    /\ UNCHANGED <<schedVars, wait_pid, exiting, familyVars, remaining>>

Schedule(next) ==
    /\ ~Halted
    /\ pc[current] \in DOMAIN Resume
    /\ schedule(next)
    /\ Goto(Resume[pc[current]])
    /\ UNCHANGED <<wait_pid, exiting, familyVars, remaining>>

\* A panic stops the machine.
Stopped == Halted /\ UNCHANGED vars

-----------------------------------------------------------------------------
\* What a user program may ask for; nothing obliges it to.
UserStep ==
    \/ \E p \in Procs : Fork(p)
    \/ \E pid \in Procs \cup {NULL} : Wait(pid)
    \/ \E p \in Killable : Kill(p)
    \/ \E t \in 1 .. MaxSleep : Sleep(t)
    \/ Yield
    \/ Exit
    \/ OtherSyscall

\* What the kernel does on behalf of current up to its next schedule().
KernelStep ==
    \/ \E p \in Procs : InitMain(p)
    \/ do_exit
    \/ ReparentChild
    \/ ExitDone
    \/ \E z \in Procs : WaitReap(z)
    \/ WaitSleep
    \/ WaitBadProc
    \/ WaitWake
    \/ SleepWake
    \/ SyscallReturn
    \/ IrqReturn
    \/ CpuIdle

Next ==
    \/ UserStep
    \/ KernelStep
    \/ Tick
    \/ \E next \in Procs : Schedule(next)
    \/ Stopped

Spec == Init /\ [][Next]_vars

\* Kernel code runs to its next schedule(), the clock keeps ticking, and the
\* scheduling class picks every process that stays in the pool.
Fairness ==
    /\ WF_vars(KernelStep)
    /\ WF_vars(Tick)
    /\ WF_vars(\E next \in Procs : Schedule(next))
    /\ \A next \in Procs : SF_vars(Schedule(next))

FairSpec == Spec /\ Fairness

-----------------------------------------------------------------------------
(* Safety *)

\* A process that sleeps has something left that will wake it: an armed
\* timer, or an awaited child that is still alive, and no awaited child has
\* died unnoticed (do_wait against do_exit, do_sleep against the timer
\* interrupt before its schedule()).
SleeperHasWaker ==
    \A p \in Procs : state[p] = "PROC_SLEEPING" =>
        \/ wait_state[p] = "WT_TIMER" /\ remaining[p] > 0
        \/ /\ wait_state[p] = "WT_CHILD"
           /\ Awaited(p) # {}
           /\ \A q \in Awaited(p) : state[q] # "PROC_ZOMBIE"

\* The timer lives on the kernel stack of do_sleep.  Whoever sleeps on it has
\* it armed; and it is armed only while its owner is in there, so that it
\* fires neither on a dead process (the assert of wakeup_proc) nor on a later,
\* different sleep (the assert of run_timer_list).
TimersMatchSleepers ==
    \A p \in Procs :
        /\ wait_state[p] = "WT_TIMER" => remaining[p] > 0
        /\ remaining[p] > 0 => /\ pc[p] \in {"sleep_sched", "sleep_wake"}
                               /\ wait_state[p] \in {"WT_TIMER", "0"}

\* What the label of a process says of its state: nobody runs past the
\* schedule() of a wait without having been woken, idleproc never leaves its
\* loop.  And only a sleeping process has a wait_state: do_kill and do_exit decide whom to wake by
\* wait_state alone, without looking at state.
WhereAsleep ==
    \A p \in Procs :
        /\ state[p] = "PROC_NONE" => pc[p] = "none"
        /\ state[p] = "PROC_ZOMBIE" => pc[p] \in {"exit_children", "exit_sched", "dead"}
        /\ state[p] = "PROC_SLEEPING" =>
             \/ pc[p] \in {"sleep_sched", "wait_sched"}
             \/ pc[p] \in {"sleep_wake", "wait_wake"} /\ p # current
        /\ wait_state[p] # "0" => state[p] = "PROC_SLEEPING"
        /\ p = idleproc => pc[p] \in {"idle", "idle_sched"}

\* The cptr/optr/yptr links are the doubly linked list of a process's
\* children, whatever the order of forks, exits and waits; every process but
\* idleproc has a parent that is alive and can reap it; nr_process counts the
\* processes there are.  (do_exit moves its children one by one.)
FamilyLinks ==
    pc[current] # "exit_children" =>
        /\ \A p \in Procs :
             /\ Children(p) = {q \in Procs : parent[q] = p}
             /\ optr[p] # NULL => yptr[optr[p]] = p
             /\ yptr[p] # NULL => optr[yptr[p]] = p
        /\ \A p \in Procs \ {idleproc} : state[p] # "PROC_NONE" =>
             parent[p] # NULL /\ state[parent[p]] \in {"PROC_RUNNABLE", "PROC_SLEEPING"}
        /\ nr_process = Cardinality({p \in Procs : state[p] # "PROC_NONE"})

\* The assertions at the end of init_main: initproc stops waiting only when
\* every other process is gone.
InitExitsLast ==
    pc[initproc] = "halt" =>
        /\ cptr[initproc] = NULL /\ yptr[initproc] = NULL /\ optr[initproc] = NULL
        /\ nr_process = 2

\* A dead process never runs again: no wakeup, timer or kill takes it out of
\* PROC_ZOMBIE (the assert of wakeup_proc), only do_wait does, by freeing it.
ZombieNeverWakes ==
    [][\A p \in Procs : state[p] = "PROC_ZOMBIE" =>
         state'[p] \in {"PROC_ZOMBIE", "PROC_NONE"}]_vars

\* A process is freed once, when it is dead, and by its parent (do_wait).
ReapedByParent ==
    [][\A p \in Procs : state[p] # "PROC_NONE" /\ state'[p] = "PROC_NONE" =>
         state[p] = "PROC_ZOMBIE" /\ parent[p] = current]_vars

\* A process a kill reached is not asleep in a wait "that could be
\* interrupted" (proc.h, WT_INTERRUPTED).
KilledIsInterrupted ==
    \A p \in Procs : exiting[p] /\ state[p] = "PROC_SLEEPING" =>
        wait_state[p] \notin WT_INTERRUPTED

-----------------------------------------------------------------------------
(* Liveness *)

\* do_sleep ends: no timer is forgotten.
SleepEnds ==
    \A p \in Procs : (wait_state[p] = "WT_TIMER") ~> (pc[p] = "sleep_wake" /\ current = p)

\* A dead process whose parent is initproc is reaped, orphans included.
OrphanReaped ==
    \A p \in Procs :
        (state[p] = "PROC_ZOMBIE" /\ parent[p] = initproc) ~>
            (state[p] = "PROC_NONE" \/ Halted)

\* Whoever has the CPU comes to schedule() again, although it need never make a
\* system call, sleep or yield: the clock takes the CPU from it, through the tail
\* of trap() (stride_proc_tick, run_timer_list; no fairness of the class needed).
CpuGivenUp ==
    \A p \in Procs :
        (current = p) ~> (Halted \/ (current = p /\ pc[p] \in DOMAIN Resume))
=============================================================================
