------------------------------- MODULE GetPid -------------------------------
(***************************************************************************)
(* The allocation of process ids (get_pid in kern/process/proc.c).  It      *)
(* keeps, from call to call, the pid it gave out last and the least pid in  *)
(* use above it, and looks at the process list only when this gap is used   *)
(* up.  Processes leave the list in any order between the calls.            *)
(*                                                                          *)
(* A call runs with interrupts off; it is modelled one turn of its loop at  *)
(* a time.  The order of the list is left open: a turn looks at any process *)
(* the scan has not seen yet.                                               *)
(***************************************************************************)
EXTENDS Integers, FiniteSets

CONSTANTS
    Slots,           \* the proc_structs there can be in proc_list
    MAX_PID          \* (8192)

nobody == "nobody"

\* static_assert(MAX_PID > MAX_PROCESS), and do_fork's test of nr_process
ASSUME GetPidAssumption ==
    /\ MAX_PID \in Nat \ {0, 1}
    /\ IsFiniteSet(Slots)
    /\ Cardinality(Slots) < MAX_PID
    /\ nobody \notin Slots

VARIABLES
    pid,             \* proc->pid of the processes in proc_list; 0: not in it
    last_pid,
    next_safe,
    seen,            \* the processes the scan has looked at
    caller           \* the new process get_pid runs for, or nobody

pid_vars == <<pid, last_pid, next_safe, seen, caller>>

Listed == {s \in Slots : pid[s] # 0}

PidTypeOK ==
    /\ pid \in [Slots -> 0 .. (MAX_PID - 1)]
    /\ last_pid \in 1 .. MAX_PID
    /\ next_safe \in 1 .. MAX_PID
    /\ seen \subseteq Listed
    /\ caller \in Slots \cup {nobody}

PidInit ==
    /\ pid = [s \in Slots |-> 0]
    /\ last_pid = MAX_PID
    /\ next_safe = MAX_PID
    /\ seen = {}
    /\ caller = nobody

-----------------------------------------------------------------------------
Wrap(n) == IF n >= MAX_PID THEN 1 ELSE n

\* A call that finds the next pid inside the gap.
TakeNext(s) ==
    /\ caller = nobody /\ pid[s] = 0
    /\ last_pid + 1 < MAX_PID
    /\ last_pid + 1 < next_safe
    /\ last_pid' = last_pid + 1
    /\ pid' = [pid EXCEPT ![s] = last_pid + 1]
    /\ UNCHANGED <<next_safe, seen, caller>>

\* A call that has to look at the list.
StartScan(s) ==
    /\ caller = nobody /\ pid[s] = 0
    /\ last_pid + 1 >= MAX_PID \/ last_pid + 1 >= next_safe
    /\ last_pid' = Wrap(last_pid + 1)
    /\ next_safe' = MAX_PID
    /\ seen' = {}
    /\ caller' = s
    /\ UNCHANGED pid

\* Fault: a conflict at the end of the gap starts over with the same pid.
CollideSame(p) ==
    /\ pid[p] = last_pid
    /\ IF last_pid + 1 >= next_safe
       THEN UNCHANGED last_pid /\ next_safe' = MAX_PID /\ seen' = {}
       ELSE last_pid' = last_pid + 1 /\ seen' = seen \cup {p} /\ UNCHANGED next_safe

\* The process has the pid that was to be given out: try the next one, and
\* when that is past the gap start the scan over.
Collide(p) ==
    /\ pid[p] = last_pid
    /\ IF last_pid + 1 >= next_safe
       THEN last_pid' = Wrap(last_pid + 1) /\ next_safe' = MAX_PID /\ seen' = {}
       ELSE last_pid' = last_pid + 1 /\ seen' = seen \cup {p} /\ UNCHANGED next_safe

\* Fault: the gap is not narrowed.
PassWide(p) ==
    /\ pid[p] # last_pid
    /\ seen' = seen \cup {p}
    /\ UNCHANGED <<last_pid, next_safe>>

\* Another pid: it may end the gap.
Pass(p) ==
    /\ pid[p] # last_pid
    /\ next_safe' = IF pid[p] > last_pid /\ next_safe > pid[p] THEN pid[p] ELSE next_safe
    /\ seen' = seen \cup {p}
    /\ UNCHANGED last_pid

Scan(p) ==
    /\ caller # nobody
    /\ p \in Listed \ seen
    /\ Collide(p) \/ Pass(p)
    /\ UNCHANGED <<pid, caller>>

\* The end of the list: the new process gets last_pid and is linked.
Return ==
    /\ caller # nobody
    /\ seen = Listed
    /\ pid' = [pid EXCEPT ![caller] = last_pid]
    /\ seen' = {}
    /\ caller' = nobody
    /\ UNCHANGED <<last_pid, next_safe>>

\* do_wait unlinks a dead process.
Unlink(s) ==
    /\ caller = nobody /\ pid[s] # 0
    /\ pid' = [pid EXCEPT ![s] = 0]
    /\ UNCHANGED <<last_pid, next_safe, seen, caller>>

PidNext ==
    \/ \E s \in Slots : TakeNext(s) \/ StartScan(s) \/ Scan(s) \/ Unlink(s)
    \/ Return

PidSpec == PidInit /\ [][PidNext]_pid_vars

\* get_pid runs on until it returns.
PidFairness == WF_pid_vars((\E s \in Slots : Scan(s)) \/ Return)

PidFairSpec == PidSpec /\ PidFairness

-----------------------------------------------------------------------------
\* No two processes of the list have the same pid (get_pid; find_proc, do_kill
\* and do_wait find a process by it).
UniquePids == \A s, t \in Listed : pid[s] = pid[t] => s = t

\* What the cached gap means: no process that has been looked at, and between
\* the calls no process at all, has a pid between last_pid and next_safe.
GapFree ==
    \A s \in (IF caller = nobody THEN Listed ELSE seen) :
        /\ pid[s] <= last_pid \/ next_safe <= pid[s]
        /\ caller # nobody => pid[s] # last_pid

\* get_pid returns, however many pids are taken: each restart makes progress.
GetPidEnds == (caller # nobody) ~> (caller = nobody)
=============================================================================
