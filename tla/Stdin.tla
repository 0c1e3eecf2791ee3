-------------------------------- MODULE Stdin --------------------------------
(***************************************************************************)
(* The keyboard device (kern/fs/devs/dev_stdin.c): readers against the      *)
(* keyboard interrupt that fills the buffer and wakes them, and against     *)
(* do_kill, which wakes a reader without a character.                       *)
(*                                                                          *)
(* The n-th character typed is the number n, so that what was read shows    *)
(* which characters came through and in which order.  A read runs with      *)
(* interrupts off except where it has announced its sleep and calls         *)
(* schedule().                                                              *)
(***************************************************************************)
EXTENDS Sched, SequencesExt

CONSTANTS
    STDIN_BUFSIZE,
    MaxLen,          \* longest read
    MaxTyped         \* characters typed in a behaviour

ASSUME StdinAssumption ==
    /\ STDIN_BUFSIZE \in Nat \ {0}
    /\ MaxLen \in Nat \ {0}
    /\ MaxTyped \in Nat

VARIABLES
    pc,              \* where each process is
    exiting,         \* proc->flags & PF_EXITING
    left,            \* len - ret of the read a process is in
    stdin_buffer,
    p_rpos, p_wpos,
    wait_queue,      \* the waiting readers, in order
    wakeup_flags,    \* wait->wakeup_flags of the process's last wait
    typed,           \* characters typed so far
    got              \* characters read so far, in the order they were read

ringVars == <<stdin_buffer, p_rpos, p_wpos>>
vars == <<schedVars, pc, exiting, left, ringVars, wait_queue, wakeup_flags, typed, got>>

Readers == Procs \ {idleproc}

Label == {"idle", "user", "loop", "kbd_sched", "kbd_wake", "trap", "user_sched", "exit", "dead"}

TypeOK ==
    /\ SchedTypeOK
    /\ pc \in [Procs -> Label]
    /\ exiting \in [Procs -> BOOLEAN]
    /\ left \in [Procs -> 0 .. MaxLen]
    /\ stdin_buffer \in [0 .. (STDIN_BUFSIZE - 1) -> 0 .. MaxTyped]
    /\ p_rpos \in 0 .. MaxTyped /\ p_wpos \in 0 .. MaxTyped
    /\ wait_queue \in Seq(Readers)
    /\ wakeup_flags \in [Procs -> {"WT_KBD", "WT_INTERRUPTED"}]
    /\ typed \in 0 .. MaxTyped
    /\ got \in Seq(0 .. MaxTyped)

Init ==
    /\ current = idleproc
    /\ state = [p \in Procs |-> "PROC_RUNNABLE"]
    /\ wait_state = [p \in Procs |-> "0"]
    /\ run_pool = Readers
    /\ need_resched = TRUE
    /\ time_slice = [p \in Procs |-> IF p = idleproc THEN 0 ELSE max_time_slice]
    /\ pc = [p \in Procs |-> IF p = idleproc THEN "idle" ELSE "user"]
    /\ exiting = [p \in Procs |-> FALSE]
    /\ left = [p \in Procs |-> 0]
    /\ stdin_buffer = [i \in 0 .. (STDIN_BUFSIZE - 1) |-> 0]
    /\ p_rpos = 0 /\ p_wpos = 0
    /\ wait_queue = <<>>
    /\ wakeup_flags = [p \in Procs |-> "WT_INTERRUPTED"]
    /\ typed = 0
    /\ got = <<>>

At(l) == pc[current] = l
Goto(l) == pc' = [pc EXCEPT ![current] = l]

-----------------------------------------------------------------------------
Read(len) ==
    /\ At("user")
    /\ left' = [left EXCEPT ![current] = len]
    /\ Goto("loop")
    /\ UNCHANGED <<schedVars, exiting, ringVars, wait_queue, wakeup_flags, typed, got>>

\* wait_queue_add of wait_current_set
Enqueue == Append(wait_queue, current)

\* How many characters the loop takes before it has to wait or is done.
Takes == IF left[current] < p_wpos - p_rpos THEN left[current] ELSE p_wpos - p_rpos

\* Fault: the position is advanced before the character is taken.
TakenNext == [i \in 1 .. Takes |-> stdin_buffer[(p_rpos + i) % STDIN_BUFSIZE]]

\* Those characters.
Taken == [i \in 1 .. Takes |-> stdin_buffer[(p_rpos + i - 1) % STDIN_BUFSIZE]]

\* The loop of dev_stdin_read: take what there is, and with the read not
\* complete, wait_current_set.
ReadLoop ==
    /\ At("loop")
    /\ got' = got \o Taken
    /\ p_rpos' = p_rpos + Takes
    /\ left' = [left EXCEPT ![current] = @ - Takes]
    /\ IF left[current] = Takes
       THEN /\ Goto("trap")
            /\ UNCHANGED <<state, wait_state, wait_queue, wakeup_flags>>
       ELSE /\ go_to_sleep("WT_KBD")
            /\ wait_queue' = Enqueue
            /\ wakeup_flags' = [wakeup_flags EXCEPT ![current] = "WT_INTERRUPTED"]
            /\ Goto("kbd_sched")
    /\ UNCHANGED <<current, run_pool, need_resched, time_slice,
                   exiting, stdin_buffer, p_wpos, typed>>

\* Fault: the wait_t stays in the queue when its stack frame is gone.
DequeueNot == wait_queue

\* wait_current_del: wait_queue_del if wait_in_queue.
Dequeue ==
    LET at == {i \in DOMAIN wait_queue : wait_queue[i] = current}
    IN  IF at = {} THEN wait_queue ELSE RemoveAt(wait_queue, CHOOSE i \in at : TRUE)

\* Fault: the read tries again whatever woke it.
TriesAgainAlways(flags) == TRUE

TriesAgain(flags) == flags = "WT_KBD"

\* Back from schedule(): a character lets the loop go on, a kill ends the
\* read with what it has.
ReadWake ==
    /\ At("kbd_wake")
    /\ wait_queue' = Dequeue
    /\ Goto(IF TriesAgain(wakeup_flags[current]) THEN "loop" ELSE "trap")
    /\ UNCHANGED <<schedVars, exiting, left, ringVars, wakeup_flags, typed, got>>

NotFull == p_wpos - p_rpos < STDIN_BUFSIZE

\* Fault: only the first waiter is woken.
WakesFirst == IF wait_queue = <<>> THEN 0 ELSE 1

\* How many waiters are woken and, with del, taken off the queue: wakeup_queue
\* goes on until it is empty.
Wakes == Len(wait_queue)

\* The keyboard interrupt, dev_stdin_write.  In a full buffer the character
\* replaces the oldest one that was not read.
Key ==
    LET W == {wait_queue[i] : i \in 1 .. Wakes}
    IN  /\ ~At("loop")
        /\ typed < MaxTyped
        /\ typed' = typed + 1
        /\ stdin_buffer' = [stdin_buffer EXCEPT ![p_wpos % STDIN_BUFSIZE] = typed + 1]
        /\ p_wpos' = IF NotFull THEN p_wpos + 1 ELSE p_wpos
        /\ wait_queue' = SubSeq(wait_queue, Wakes + 1, Len(wait_queue))
        /\ wakeup_flags' = [p \in Procs |-> IF p \in W THEN "WT_KBD" ELSE wakeup_flags[p]]
        /\ wakeup_proc(W, state, wait_state)
        /\ pc' = IF At("user") THEN [pc EXCEPT ![current] = "trap"] ELSE pc
        /\ UNCHANGED <<need_resched, exiting, left, p_rpos, got>>

-----------------------------------------------------------------------------
\* do_kill by the process on the CPU.
Kill(p) ==
    /\ At("user")
    /\ state[p] # "PROC_ZOMBIE"
    /\ ~exiting[p]
    /\ exiting' = [exiting EXCEPT ![p] = TRUE]
    /\ wakeup_proc({q \in {p} : wait_state[q] \in WT_INTERRUPTED}, state, wait_state)
    /\ Goto("trap")
    /\ UNCHANGED <<need_resched, left, ringVars, wait_queue, wakeup_flags, typed, got>>

\* The tail of trap().
TrapTail ==
    /\ At("trap")
    /\ Goto(IF exiting[current] THEN "exit" ELSE IF need_resched THEN "user_sched" ELSE "user")
    /\ UNCHANGED <<schedVars, exiting, left, ringVars, wait_queue, wakeup_flags, typed, got>>

do_exit ==
    /\ At("exit")
    /\ state[current] = "PROC_RUNNABLE"
    /\ state' = [state EXCEPT ![current] = "PROC_ZOMBIE"]
    /\ UNCHANGED <<current, wait_state, run_pool, need_resched, time_slice, pc,
                   exiting, left, ringVars, wait_queue, wakeup_flags, typed, got>>

Tick ==
    /\ ~At("loop")
    /\ run_timers({})
    /\ pc' = IF At("user") THEN [pc EXCEPT ![current] = "trap"] ELSE pc
    /\ UNCHANGED <<exiting, left, ringVars, wait_queue, wakeup_flags, typed, got>>

\* The calls of schedule(): cpu_idle, trap(), the read, do_exit.
Schedule(next) ==
    /\ \/ At("idle") /\ need_resched
       \/ At("user_sched") \/ At("kbd_sched")
       \/ At("exit") /\ state[current] = "PROC_ZOMBIE"
    /\ schedule(next)
    /\ Goto(CASE At("idle")       -> "idle"
              [] At("user_sched") -> "user"
              [] At("kbd_sched")  -> "kbd_wake"
              [] At("exit")       -> "dead")
    /\ UNCHANGED <<exiting, left, ringVars, wait_queue, wakeup_flags, typed, got>>

Next ==
    \/ \E len \in 1 .. MaxLen : Read(len)
    \/ ReadLoop
    \/ ReadWake
    \/ Key
    \/ \E p \in Readers : Kill(p)
    \/ TrapTail
    \/ do_exit
    \/ Tick
    \/ \E next \in Procs : Schedule(next)

Spec == Init /\ [][Next]_vars

\* The kernel runs to its next schedule(), the clock ticks, and every process
\* that stays in the pool is picked.  Nothing obliges a user to type.
Fairness ==
    /\ WF_vars(ReadLoop \/ ReadWake \/ TrapTail \/ do_exit)
    /\ WF_vars(Tick)
    /\ WF_vars(\E next \in Procs : Schedule(next))
    /\ \A p \in Readers : SF_vars(Schedule(p))

FairSpec == Spec /\ Fairness

-----------------------------------------------------------------------------
\* No lost wakeup: while there is something to read no reader stays asleep,
\* whatever comes between its look at the buffer and its schedule().
NoSleepBesideChar ==
    p_rpos < p_wpos => \A p \in Readers : wait_state[p] # "WT_KBD"

\* The wait_t of a reader is on its stack.  It is in the queue at most once,
\* and only between wait_current_set and wait_current_del; whoever was taken
\* off the queue has been told WT_KBD; a reader that sleeps is in it.
WaitOnStack ==
    /\ \A i, j \in DOMAIN wait_queue : wait_queue[i] = wait_queue[j] => i = j
    /\ \A p \in Readers : IF p \in ToSet(wait_queue)
         THEN pc[p] \in {"kbd_sched", "kbd_wake"} /\ wakeup_flags[p] = "WT_INTERRUPTED"
         ELSE wait_state[p] # "WT_KBD"

\* As long as the buffer never overflowed, the readers together get every
\* character once and in the order it was typed.  And however often it did, it
\* never holds more than it has room for, nor anything older than what was read
\* from the slots before.
InOrder ==
    /\ typed = p_wpos => p_rpos = Len(got) /\ \A i \in DOMAIN got : got[i] = i
    /\ p_rpos <= p_wpos /\ p_wpos - p_rpos <= STDIN_BUFSIZE
    /\ \A i \in p_rpos .. (p_wpos - 1) : stdin_buffer[i % STDIN_BUFSIZE] >= i + 1

\* A kill that wakes a reader ends its read and then the process, unless a
\* character comes before it runs (the read then goes on, and may sleep again).
KillEndsRead ==
    \A p \in Readers :
        (exiting[p] /\ state[p] = "PROC_RUNNABLE" /\ p \in ToSet(wait_queue)) ~>
            (pc[p] = "exit" \/ wakeup_flags[p] = "WT_KBD")
=============================================================================
