----------------------------- MODULE ProcProofs -----------------------------
(***************************************************************************)
(* Proofs about Proc, for any number of processes, any slice length and any *)
(* sleeping times.                                                          *)
(*                                                                          *)
(* First the scheduler's part.  The inductive invariant IInv is the         *)
(* conjunction of the type invariant, RunPoolExact and TimersMatchSleepers, *)
(* strengthened by WhereAsleep, which ties the state field of a process to  *)
(* its label.                                                               *)
(*                                                                          *)
(* Then the process family: the cptr/optr/yptr links, the parents,          *)
(* nr_process, and the sleeps of do_wait on them.  The invariant FInv adds  *)
(* to IInv that the links are lists without circles (Links), that parents   *)
(* are alive and form a tree under initproc (Parents, Tree), that initproc  *)
(* stays in init_main (InitMainOnly), that the count is exact (Counted),    *)
(* and what a process asleep in do_wait waits for (Waiting).                *)
(***************************************************************************)
EXTENDS Proc, SchedProofs, FiniteSetTheorems

\* The inductive invariant.
IInv == ProcTypeOK /\ RunPoolExact /\ TimersMatchSleepers /\ WhereAsleep

\* The type invariant holds at the start.
LEMMA InitType == Init => ProcTypeOK
<1> SUFFICES ASSUME Init PROVE ProcTypeOK
  OBVIOUS
<1> USE SchedAssumption, ProcAssumption DEF Init
<1>1. SchedTypeOK
  BY SMT DEF SchedTypeOK, ProcState, WaitState
<1>2. pc \in [Procs -> Label]
  BY SMT DEF Label
<1>. QED
  BY <1>1, <1>2, SMT DEF ProcTypeOK

-----------------------------------------------------------------------------
\* Every step of the specification keeps the types.
LEMMA NextType == ProcTypeOK /\ [Next]_vars => ProcTypeOK'
<1> SUFFICES ASSUME ProcTypeOK, [Next]_vars PROVE ProcTypeOK'
  OBVIOUS
<1> USE DEF ProcTypeOK
<1>. current \in Procs /\ SchedTypeOK
  BY DEF SchedTypeOK
<1>fork. ASSUME NEW p \in Procs, NEW l \in Label, do_fork(p, l) PROVE ProcTypeOK'
  <2>1. SchedTypeOK'
    <3>1. {p} \in SUBSET Procs OBVIOUS
    <3>2. time_slice' \in [Procs -> 0 .. max_time_slice]
      BY <1>fork, RenewSliceType DEF do_fork, wakeup_proc, SchedTypeOK
    <3>. QED
      BY <1>fork, <3>1, <3>2, WakeupType, Zenon DEF do_fork, wakeup_proc, SchedTypeOK
  <2>2. pc' \in [Procs -> Label]
    BY <1>fork, SMT DEF do_fork, Label
  <2>3. /\ parent' \in [Procs -> Procs \cup {NULL}]
        /\ cptr' \in [Procs -> Procs \cup {NULL}]
        /\ optr' \in [Procs -> Procs \cup {NULL}]
        /\ yptr' \in [Procs -> Procs \cup {NULL}]
        /\ nr_process' \in Int
    BY <1>fork, SMT DEF do_fork, set_links
  <2>. QED
    BY <1>fork, <2>1, <2>2, <2>3, SMT DEF do_fork
<1>user. CASE UserStep
  <2>1. ASSUME NEW p \in Procs, Fork(p) PROVE ProcTypeOK'
    BY <2>1, <1>fork DEF Fork, Label
  <2>2. ASSUME NEW p \in Procs \cup {NULL}, Wait(p) PROVE ProcTypeOK'
    BY <2>2, SMT DEF Wait, Goto, Label, SchedTypeOK, schedVars, familyVars
  <2>3. ASSUME NEW p \in Procs, Kill(p) PROVE ProcTypeOK'
    <3>1. SchedTypeOK'
      <4> DEFINE P == {q \in {p} : WakesOnKill(q)}
      <4>1. P \in SUBSET Procs OBVIOUS
      <4>2. time_slice' \in [Procs -> 0 .. max_time_slice]
        BY <2>3, RenewSliceType DEF Kill, wakeup_proc, SchedTypeOK
      <4>. QED
        BY <2>3, <4>1, <4>2, WakeupType, Zenon DEF Kill, wakeup_proc, SchedTypeOK
    <3>. QED
      BY <2>3, <3>1, SMT DEF Kill, Goto, Label, familyVars
  <2>4. ASSUME NEW t \in 1 .. MaxSleep, Sleep(t) PROVE ProcTypeOK'
    <3>1. SchedTypeOK'
      BY <2>4, SMT DEF Sleep, go_to_sleep, SchedTypeOK, ProcState, WaitState
    <3>. QED
      BY <2>4, <3>1, ProcAssumption, SMT DEF Sleep, Goto, Label, familyVars
  <2>5. CASE Yield
    BY <2>5, SMT DEF Yield, Goto, Label, SchedTypeOK, familyVars
  <2>6. CASE Exit
    BY <2>6, SMT DEF Exit, Goto, Label, SchedTypeOK, schedVars, familyVars
  <2>7. CASE OtherSyscall
    BY <2>7, SMT DEF OtherSyscall, Goto, Label, SchedTypeOK, schedVars, familyVars
  <2>. QED
    BY <1>user, <2>1, <2>2, <2>3, <2>4, <2>5, <2>6, <2>7, ProcAssumption DEF UserStep
<1>kernel. CASE KernelStep
  <2>1. ASSUME NEW p \in Procs, InitMain(p) PROVE ProcTypeOK'
    BY <2>1, <1>fork DEF InitMain, Label
  <2>2. CASE do_exit
    <3>1. SchedTypeOK'
      <4>1. CASE current = initproc
        BY <2>2, <4>1 DEF do_exit, SchedTypeOK, schedVars
      <4>2. CASE current # initproc
        <5> DEFINE P == ParentWaiting
                   st == [state EXCEPT ![current] = "PROC_ZOMBIE"]
        <5>1. P \in SUBSET Procs BY DEF ParentWaiting
        <5>2. st \in [Procs -> ProcState]
          BY DEF SchedTypeOK, ProcState
        <5>3. time_slice' \in [Procs -> 0 .. max_time_slice]
          BY <2>2, <4>2, RenewSliceType DEF do_exit, wakeup_proc, SchedTypeOK
        <5>. QED
          BY <2>2, <4>2, <5>1, <5>2, <5>3, WakeupType, Zenon
          DEF do_exit, wakeup_proc, SchedTypeOK
      <4>. QED
        BY <4>1, <4>2
    <3>. QED
      BY <2>2, <3>1, SMT DEF do_exit, Goto, Label, familyVars
  <2>3. CASE ReparentChild
    <3>1. SchedTypeOK'
      <4>1. InitWaitingFor(cptr[current]) \in SUBSET Procs
        BY ProcAssumption DEF InitWaitingFor
      <4>2. time_slice' \in [Procs -> 0 .. max_time_slice]
        BY <2>3, RenewSliceType DEF ReparentChild, wakeup_proc, SchedTypeOK
      <4>. QED
        BY <2>3, <4>1, <4>2, WakeupType, Zenon DEF ReparentChild, wakeup_proc, SchedTypeOK
    <3>2. cptr[current] \in Procs
      BY <2>3 DEF ReparentChild
    <3>3. /\ parent' \in [Procs -> Procs \cup {NULL}]
          /\ cptr' \in [Procs -> Procs \cup {NULL}]
          /\ optr' \in [Procs -> Procs \cup {NULL}]
          /\ yptr' \in [Procs -> Procs \cup {NULL}]
      BY <2>3, <3>2, ProcAssumption, SMT DEF ReparentChild
    <3>. QED
      BY <2>3, <3>1, <3>3, SMT DEF ReparentChild
  <2>4. CASE ExitDone
    BY <2>4, SMT DEF ExitDone, Goto, Label, SchedTypeOK, schedVars, familyVars
  <2>5. ASSUME NEW z \in Procs, WaitReap(z) PROVE ProcTypeOK'
    <3>1. SchedTypeOK'
      BY <2>5, SchedAssumption, SMT DEF WaitReap, SchedTypeOK, ProcState
    <3>2. /\ parent' \in [Procs -> Procs \cup {NULL}]
          /\ nr_process' \in Int
      BY <2>5, SMT DEF WaitReap, remove_links
    <3>4. cptr' \in [Procs -> Procs \cup {NULL}]
      BY <2>5, SMT DEF WaitReap, remove_links
    <3>5. optr' \in [Procs -> Procs \cup {NULL}]
      BY <2>5, SMT DEF WaitReap, remove_links
    <3>6. yptr' \in [Procs -> Procs \cup {NULL}]
      BY <2>5, SMT DEF WaitReap, remove_links
    <3>7. /\ exiting' \in [Procs -> BOOLEAN]
          /\ wait_pid' \in [Procs -> Procs \cup {NULL}]
          /\ remaining' \in [Procs -> 0 .. MaxSleep]
      BY <2>5, SMT DEF WaitReap
    <3>3. pc' \in [Procs -> Label]
      BY <2>5, SMT DEF WaitReap, WaitReturns, Label
    <3>. QED
      BY <3>1, <3>2, <3>3, <3>4, <3>5, <3>6, <3>7
  <2>6. CASE WaitSleep
    <3>1. SchedTypeOK'
      BY <2>6, SMT DEF WaitSleep, go_to_sleep, SchedTypeOK, ProcState, WaitState
    <3>. QED
      BY <2>6, <3>1, SMT DEF WaitSleep, Goto, Label, familyVars
  <2>7. CASE WaitBadProc
    BY <2>7, SMT DEF WaitBadProc, WaitReturns, Goto, Label, SchedTypeOK, schedVars, familyVars
  <2>8. CASE WaitWake
    BY <2>8, SMT DEF WaitWake, Goto, Label, SchedTypeOK, schedVars, familyVars
  <2>9. CASE SleepWake
    BY <2>9, ProcAssumption, SMT
    DEF SleepWake, Goto, Label, SchedTypeOK, schedVars, familyVars
  <2>10. CASE SyscallReturn
    BY <2>10, SMT DEF SyscallReturn, TrapTail, Goto, Label, SchedTypeOK, schedVars, familyVars
  <2>11. CASE IrqReturn
    BY <2>11, SMT DEF IrqReturn, TrapTail, Goto, Label, SchedTypeOK, schedVars, familyVars
  <2>12. CASE CpuIdle
    BY <2>12, SMT DEF CpuIdle, Goto, Label, SchedTypeOK, schedVars, familyVars
  <2>. QED
    BY <1>kernel, <2>1, <2>2, <2>3, <2>4, <2>5, <2>6, <2>7, <2>8, <2>9, <2>10, <2>11, <2>12
    DEF KernelStep
<1>tick. CASE Tick
  <2>1. SchedTypeOK'
    BY <1>tick, RunTimersType DEF Tick, Fired
  <2>2. remaining' \in [Procs -> 0 .. MaxSleep]
    BY <1>tick, ProcAssumption, SMT DEF Tick
  <2>3. pc' \in [Procs -> Label]
    BY <1>tick, SMT DEF Tick, Label
  <2>. QED
    BY <1>tick, <2>1, <2>2, <2>3, SMT DEF Tick, familyVars
<1>schedule. ASSUME NEW next \in Procs, Schedule(next) PROVE ProcTypeOK'
  <2>1. SchedTypeOK'
    BY <1>schedule, ScheduleType DEF Schedule
  <2>2. pc' \in [Procs -> Label]
    BY <1>schedule, SMT DEF Schedule, Goto, Resume, Label
  <2>. QED
    BY <1>schedule, <2>1, <2>2, SMT DEF Schedule, familyVars
<1>stutter. CASE UNCHANGED vars
  BY <1>stutter DEF vars, schedVars, familyVars, SchedTypeOK
<1>. QED
  BY <1>user, <1>kernel, <1>tick, <1>schedule, <1>stutter DEF Next, Stopped

\* ProcTypeOK is an invariant.
THEOREM TypeCorrect == Spec => []ProcTypeOK
<1>1. Init => ProcTypeOK
  BY InitType
<1>2. ProcTypeOK /\ [Next]_vars => ProcTypeOK'
  BY NextType
<1>. QED
  BY <1>1, <1>2, PTL DEF Spec

-----------------------------------------------------------------------------
\* No step loses a runnable process or enqueues one that cannot run.
LEMMA NextPool == ProcTypeOK /\ RunPoolExact /\ [Next]_vars => RunPoolExact'
<1> SUFFICES ASSUME ProcTypeOK, RunPoolExact, [Next]_vars PROVE RunPoolExact'
  OBVIOUS
<1>. SchedTypeOK /\ current \in Procs
  BY DEF ProcTypeOK, SchedTypeOK
<1>same. ASSUME UNCHANGED <<current, state, run_pool>> PROVE RunPoolExact'
  BY <1>same DEF RunPoolExact
<1>wake. ASSUME NEW P \in SUBSET Procs, wakeup(P, state, wait_state) PROVE RunPoolExact'
  BY <1>wake, WakeupPool DEF SchedTypeOK
<1>sleep. ASSUME NEW ws, go_to_sleep(ws), UNCHANGED <<current, run_pool>> PROVE RunPoolExact'
  BY <1>sleep, SMT DEF go_to_sleep, RunPoolExact, SchedTypeOK
<1>user. CASE UserStep
  <2>1. ASSUME NEW p \in Procs, Fork(p) PROVE RunPoolExact'
    BY <2>1, <1>wake DEF Fork, do_fork, wakeup_proc
  <2>2. ASSUME NEW p \in Procs, Kill(p) PROVE RunPoolExact'
    BY <2>2, <1>wake DEF Kill, wakeup_proc
  <2>3. ASSUME NEW t \in 1 .. MaxSleep, Sleep(t) PROVE RunPoolExact'
    BY <2>3, <1>sleep DEF Sleep
  <2>. QED
    BY <1>user, <1>same, <2>1, <2>2, <2>3, ProcAssumption
    DEF UserStep, Wait, Yield, Exit, OtherSyscall, schedVars
<1>kernel. CASE KernelStep
  <2>1. ASSUME NEW p \in Procs, InitMain(p) PROVE RunPoolExact'
    BY <2>1, <1>wake DEF InitMain, do_fork, wakeup_proc
  <2>2. CASE do_exit
    <3>1. CASE current = initproc
      BY <2>2, <3>1, <1>same DEF do_exit, schedVars
    <3>2. CASE current # initproc
      <4> DEFINE P == ParentWaiting
                 st == [state EXCEPT ![current] = "PROC_ZOMBIE"]
      <4>1. st \in [Procs -> ProcState] /\ \A p \in Procs \ {current} : st[p] = state[p]
        BY DEF SchedTypeOK, ProcState
      <4>2. wakeup(P, st, wait_state)
        BY <2>2, <3>2 DEF do_exit, wakeup_proc
      <4>3. P \in SUBSET Procs BY DEF ParentWaiting
      <4> HIDE DEF P, st
      <4>. QED
        BY <4>1, <4>2, <4>3, WakeupPool
    <3>. QED
      BY <3>1, <3>2
  <2>3. CASE ReparentChild
    <3>1. InitWaitingFor(cptr[current]) \in SUBSET Procs
      BY ProcAssumption DEF InitWaitingFor
    <3>. QED
      BY <2>3, <3>1, <1>wake, Zenon DEF ReparentChild, wakeup_proc
  <2>4. ASSUME NEW z \in Procs, WaitReap(z) PROVE RunPoolExact'
    BY <2>4, SMT DEF WaitReap, Found, RunPoolExact, SchedTypeOK
  <2>5. CASE WaitSleep
    BY <2>5, <1>sleep DEF WaitSleep
  <2>. QED
    BY <1>kernel, <1>same, <2>1, <2>2, <2>3, <2>4, <2>5
    DEF KernelStep, ExitDone, WaitBadProc, WaitWake, SleepWake, SyscallReturn,
        IrqReturn, TrapTail, CpuIdle, schedVars
<1>tick. CASE Tick
  <2>. Fired \in SUBSET Procs
    BY DEF Fired
  <2>. QED
    BY <1>tick, <1>wake DEF Tick, run_timers
<1>schedule. ASSUME NEW next \in Procs, Schedule(next) PROVE RunPoolExact'
  BY <1>schedule, SchedulePool DEF Schedule
<1>stutter. CASE UNCHANGED vars
  BY <1>stutter, <1>same DEF vars, schedVars
<1>. QED
  BY <1>user, <1>kernel, <1>tick, <1>schedule, <1>stutter DEF Next, Stopped

\* The run pool holds exactly the runnable processes that are not running.
THEOREM RunPoolCorrect == Spec => []RunPoolExact
<1>1. Init => RunPoolExact
  BY SchedAssumption, ProcAssumption, SMT DEF Init, RunPoolExact
<1>. QED
  BY <1>1, TypeCorrect, NextPool, PTL DEF Spec

-----------------------------------------------------------------------------
\* The labels at which a process is awake, alive and not the idle process.
Awake(l) == l \notin {"sleep_sched", "sleep_wake", "wait_sched", "none", "idle", "idle_sched",
                      "exit_children", "exit_sched", "dead"}

\* The current process, when awake, may change its label while others are woken.
LEMMA WakeupAsleep ==
  ASSUME ProcTypeOK, TimersMatchSleepers, WhereAsleep, NEW P \in SUBSET Procs,
         \A p \in P : wait_state[p] # "0",
         wakeup(P, state, wait_state),
         \A p \in Procs : pc'[p] = pc[p] \/ (p = current /\ Awake(pc[p])),
         remaining' = remaining
  PROVE  TimersMatchSleepers' /\ WhereAsleep'
  BY SMT DEF ProcTypeOK, SchedTypeOK, TimersMatchSleepers, WhereAsleep, wakeup, Woken, Awake

\* So it may when nobody is woken.
LEMMA MoveAsleep ==
  ASSUME ProcTypeOK, TimersMatchSleepers, WhereAsleep,
         \A p \in Procs : pc'[p] = pc[p] \/ (p = current /\ Awake(pc[p])),
         UNCHANGED <<current, state, wait_state, remaining>>
  PROVE  TimersMatchSleepers' /\ WhereAsleep'
  BY SMT DEF ProcTypeOK, SchedTypeOK, TimersMatchSleepers, WhereAsleep, Awake

\* The idle process is runnable, and so is every process in the pool: the
\* process that gets the CPU is.
LEMMA NextRunnable ==
  ASSUME ProcTypeOK, WhereAsleep, RunPoolExact, NEW next \in Procs, schedule(next)
  PROVE  state[next] = "PROC_RUNNABLE"
<1>1. state[idleproc] = "PROC_RUNNABLE"
  BY SchedAssumption, SMT DEF ProcTypeOK, SchedTypeOK, ProcState, WhereAsleep
<1>. QED
  BY <1>1, SMT DEF schedule, Ready, RunPoolExact

\* Every step keeps timers and sleepers, and labels and states, in line.
LEMMA NextAsleep ==
  ProcTypeOK /\ RunPoolExact /\ TimersMatchSleepers /\ WhereAsleep /\ [Next]_vars
    => TimersMatchSleepers' /\ WhereAsleep'
<1> SUFFICES ASSUME ProcTypeOK, RunPoolExact, TimersMatchSleepers, WhereAsleep, [Next]_vars
             PROVE  TimersMatchSleepers' /\ WhereAsleep'
  OBVIOUS
<1> DEFINE Goal == TimersMatchSleepers' /\ WhereAsleep'
<1>. current \in Procs /\ pc \in [Procs -> Label] /\ SchedTypeOK
  BY DEF ProcTypeOK, SchedTypeOK
<1>move. ASSUME NEW l0, Awake(l0), NEW l, At(l0), Goto(l),
                UNCHANGED <<current, state, wait_state, remaining>>
         PROVE  Goal
  <2>. \A p \in Procs : pc'[p] = pc[p] \/ (p = current /\ Awake(pc[p]))
    BY <1>move DEF At, Goto
  <2>. QED
    BY <1>move, MoveAsleep
<1>fork. ASSUME NEW p \in Procs, NEW l, NEW l0, Awake(l0), At(l0), do_fork(p, l) PROVE Goal
  <2>1. state[p] = "PROC_NONE" /\ remaining' = remaining /\ wakeup({p}, state, wait_state)
    BY <1>fork DEF do_fork, wakeup_proc
  <2>2. remaining[p] = 0
    BY <2>1, SMT DEF TimersMatchSleepers, WhereAsleep, ProcTypeOK
  <2>3. \A q \in Procs \ {p} : pc'[q] = pc[q] \/ (q = current /\ Awake(pc[q]))
    BY <1>fork DEF do_fork, At
  <2>. QED
    BY <2>1, <2>2, <2>3, SMT
    DEF TimersMatchSleepers, WhereAsleep, wakeup, Woken, Awake, SchedTypeOK, ProcTypeOK
<1>user. CASE UserStep
  <2>1. ASSUME NEW p \in Procs, Fork(p) PROVE Goal
    BY <2>1, <1>fork DEF Fork, Awake
  <2>2. ASSUME NEW p \in Procs, Kill(p) PROVE Goal
    <3>1. \A q \in {q \in {p} : WakesOnKill(q)} : wait_state[q] # "0"
      BY DEF WakesOnKill, WT_INTERRUPTED
    <3>2. \A q \in Procs : pc'[q] = pc[q] \/ (q = current /\ Awake(pc[q]))
      BY <2>2 DEF Kill, At, Goto, Awake
    <3>. QED
      BY <2>2, <3>1, <3>2, WakeupAsleep DEF Kill, wakeup_proc
  <2>3. ASSUME NEW t \in 1 .. MaxSleep, Sleep(t) PROVE Goal
    BY <2>3, SMT DEF Sleep, At, Goto, go_to_sleep, TimersMatchSleepers, WhereAsleep,
                    SchedTypeOK, ProcTypeOK
  <2>. QED
    BY <1>user, <1>move, <2>1, <2>2, <2>3, ProcAssumption
    DEF UserStep, Wait, Yield, Exit, OtherSyscall, schedVars, Awake
<1>kernel. CASE KernelStep
  <2>1. ASSUME NEW p \in Procs, InitMain(p) PROVE Goal
    BY <2>1, <1>fork DEF InitMain, Awake
  <2>2. CASE do_exit
    <3>1. CASE current = initproc
      BY <2>2, <3>1, <1>move DEF do_exit, schedVars, Awake
    <3>2. CASE current # initproc
      <4>1. /\ pc[current] = "exit"
            /\ pc' = [pc EXCEPT ![current] = "exit_children"]
            /\ remaining' = remaining
        BY <2>2, <3>2 DEF do_exit, At, Goto
      <4>2. wakeup(ParentWaiting,
                   [state EXCEPT ![current] = "PROC_ZOMBIE"], wait_state)
        BY <2>2, <3>2 DEF do_exit, wakeup_proc
      <4>4. wait_state[current] = "0"
        BY <4>1, SMT DEF WhereAsleep
      <4>. QED
        BY <4>1, <4>2, <4>4, SMT
        DEF TimersMatchSleepers, WhereAsleep, wakeup, Woken, ParentWaiting, SchedTypeOK, ProcTypeOK
    <3>. QED
      BY <3>1, <3>2
  <2>3. CASE ReparentChild
    <3>1. InitWaitingFor(cptr[current]) \in SUBSET Procs
      BY ProcAssumption DEF InitWaitingFor
    <3>. QED
      BY <2>3, <3>1, WakeupAsleep, Zenon DEF ReparentChild, wakeup_proc, InitWaitingFor
  <2>4. ASSUME NEW z \in Procs, WaitReap(z) PROVE Goal
    <3>1. state[z] = "PROC_ZOMBIE" /\ pc[current] = "wait"
      BY <2>4 DEF WaitReap, Found, At
    <3>2. remaining[z] = 0
      BY <3>1, SMT DEF TimersMatchSleepers, WhereAsleep, ProcTypeOK
    <3>3. WaitReturns(TRUE) \in {"main_sched", "trap"}
      BY DEF WaitReturns
    <3>. QED
      BY <2>4, <3>1, <3>2, <3>3, SMT
      DEF WaitReap, TimersMatchSleepers, WhereAsleep, SchedTypeOK, ProcTypeOK
  <2>5. CASE WaitSleep
    BY <2>5, SMT DEF WaitSleep, At, Goto, go_to_sleep, TimersMatchSleepers, WhereAsleep,
                    SchedTypeOK, ProcTypeOK
  <2>6. CASE ExitDone
    BY <2>6, SMT DEF ExitDone, At, Goto, TimersMatchSleepers, WhereAsleep, schedVars,
                    SchedTypeOK, ProcTypeOK
  <2>7. CASE SleepWake
    BY <2>7, SMT DEF SleepWake, At, Goto, TimersMatchSleepers, WhereAsleep, schedVars,
                    SchedTypeOK, ProcTypeOK
  <2>8. CASE CpuIdle
    BY <2>8, SMT DEF CpuIdle, At, Goto, TimersMatchSleepers, WhereAsleep, schedVars,
                    SchedTypeOK, ProcTypeOK
  <2>. QED
    BY <1>kernel, <1>move, <2>1, <2>2, <2>3, <2>4, <2>5, <2>6, <2>7, <2>8
    DEF KernelStep, WaitBadProc, WaitWake, SyscallReturn, IrqReturn, TrapTail,
        schedVars, Awake
<1>tick. CASE Tick
  BY <1>tick, SMT DEF Tick, Fired, run_timers, wakeup, Woken, TimersMatchSleepers, WhereAsleep,
                      SchedTypeOK, ProcTypeOK
<1>schedule. ASSUME NEW next \in Procs, Schedule(next) PROVE Goal
  <2>1. state[next] = "PROC_RUNNABLE"
    BY <1>schedule, NextRunnable DEF Schedule
  <2>2. /\ pc[current] \in DOMAIN Resume
        /\ pc' = [pc EXCEPT ![current] = Resume[pc[current]]]
        /\ current' = next
        /\ UNCHANGED <<state, wait_state, remaining>>
    BY <1>schedule DEF Schedule, schedule, Goto
  <2>3. /\ pc[current] = "sleep_sched" => pc'[current] = "sleep_wake"
        /\ pc[current] = "wait_sched" => pc'[current] = "wait_wake"
        /\ pc[current] = "exit_sched" => pc'[current] = "dead"
        /\ pc[current] = "idle_sched" => pc'[current] = "idle"
        /\ pc[current] \in {"sleep_sched", "wait_sched", "exit_sched", "idle_sched"} \/ Awake(pc[current])
    BY <2>2, SMT DEF Resume, Awake
  <2>4. \A p \in Procs \ {current} : pc'[p] = pc[p]
    BY <2>2
  <2>. HIDE DEF Goal
  <2>5. TimersMatchSleepers'
    BY <2>2, <2>3, <2>4, SMT DEF TimersMatchSleepers, Awake
  <2>6. WhereAsleep'
    BY <2>1, <2>2, <2>3, <2>4, SMT DEF WhereAsleep, Awake
  <2>. QED
    BY <2>5, <2>6 DEF Goal
<1>stutter. CASE UNCHANGED vars
  BY <1>stutter, MoveAsleep DEF vars, schedVars
<1>. QED
  BY <1>user, <1>kernel, <1>tick, <1>schedule, <1>stutter DEF Next, Stopped

\* IInv is an invariant.
THEOREM IInvCorrect == Spec => []IInv
<1>1. Init => TimersMatchSleepers /\ WhereAsleep
  <2> SUFFICES ASSUME Init PROVE TimersMatchSleepers /\ WhereAsleep
    OBVIOUS
  <2>1. \A p \in Procs : wait_state[p] = "0" /\ remaining[p] = 0
    BY DEF Init
  <2>2. \A p \in Procs : state[p] = "PROC_RUNNABLE" \/ (state[p] = "PROC_NONE" /\ pc[p] = "none")
    BY DEF Init
  <2>3. pc[idleproc] = "idle"
    BY SchedAssumption, ProcAssumption, SMT DEF Init
  <2>. QED
    BY <2>1, <2>2, <2>3, SMT DEF TimersMatchSleepers, WhereAsleep
<1>2. TimersMatchSleepers /\ WhereAsleep /\ ProcTypeOK /\ RunPoolExact /\ [Next]_vars
        => TimersMatchSleepers' /\ WhereAsleep'
  BY NextAsleep
<1>3. ProcTypeOK /\ RunPoolExact /\ TimersMatchSleepers /\ WhereAsleep <=> IInv
  BY DEF IInv
<1>. QED
  BY <1>1, <1>2, <1>3, TypeCorrect, RunPoolCorrect, PTL DEF Spec

\* A sleeper on a timer has it armed, and no timer outlives its do_sleep.
THEOREM TimersCorrect == Spec => []TimersMatchSleepers
  BY IInvCorrect, PTL DEF IInv

\* The labels of the processes match their states.
THEOREM WhereAsleepCorrect == Spec => []WhereAsleep
  BY IInvCorrect, PTL DEF IInv

-----------------------------------------------------------------------------
\* A step leaves a dead process dead, or frees it: whoever is woken waits for
\* something, or is new, or is the owner of a timer.
LEMMA NextZombie ==
  ASSUME IInv, [Next]_vars, NEW p \in Procs, state[p] = "PROC_ZOMBIE"
  PROVE  state'[p] \in {"PROC_ZOMBIE", "PROC_NONE"}
<1>. ProcTypeOK /\ RunPoolExact /\ TimersMatchSleepers /\ WhereAsleep /\ SchedTypeOK
  BY DEF IInv, ProcTypeOK
<1> DEFINE Goal == state'[p] \in {"PROC_ZOMBIE", "PROC_NONE"}
<1>0. /\ wait_state[p] = "0"
      /\ remaining[p] = 0
      /\ pc[p] \in {"exit_children", "exit_sched", "dead"}
  BY SMT DEF WhereAsleep, TimersMatchSleepers, ProcTypeOK
<1>same. ASSUME UNCHANGED state PROVE Goal
  BY <1>same
<1>wake. ASSUME NEW P, p \notin P, NEW st, st[p] = "PROC_ZOMBIE", NEW ws, wakeup(P, st, ws) PROVE Goal
  BY <1>wake DEF wakeup, Woken
<1>sleep. ASSUME NEW ws, go_to_sleep(ws), pc[current] \in {"user", "wait"} PROVE Goal
  BY <1>0, <1>sleep DEF go_to_sleep, SchedTypeOK
<1>fork. ASSUME NEW q \in Procs, NEW l, do_fork(q, l) PROVE Goal
  <2>1. p \notin {q} /\ wakeup({q}, state, wait_state)
    BY <1>fork DEF do_fork, wakeup_proc
  <2>. QED
    BY <2>1, <1>wake
<1>user. CASE UserStep
  <2>1. ASSUME NEW q \in Procs, Kill(q) PROVE Goal
    <3>1. p \notin {r \in {q} : WakesOnKill(r)}
      BY <1>0 DEF WakesOnKill, WT_INTERRUPTED
    <3>. QED
      BY <2>1, <3>1, <1>wake DEF Kill, wakeup_proc
  <2>2. ASSUME NEW t \in 1 .. MaxSleep, Sleep(t) PROVE Goal
    BY <2>2, <1>sleep DEF Sleep, At
  <2>. QED
    BY <1>user, <1>fork, <1>same, <2>1, <2>2, ProcAssumption
    DEF UserStep, Fork, Wait, Yield, Exit, OtherSyscall, schedVars
<1>kernel. CASE KernelStep
  <2>1. CASE do_exit
    <3>1. CASE current = initproc
      BY <2>1, <3>1, <1>same DEF do_exit, schedVars
    <3>2. CASE current # initproc
      <4>1. p \notin ParentWaiting
        BY <1>0 DEF ParentWaiting
      <4>2. [state EXCEPT ![current] = "PROC_ZOMBIE"][p] = "PROC_ZOMBIE"
        BY DEF SchedTypeOK
      <4>. QED
        BY <2>1, <3>2, <4>1, <4>2, <1>wake DEF do_exit, wakeup_proc
    <3>. QED
      BY <3>1, <3>2
  <2>2. CASE ReparentChild
    <3>1. p \notin InitWaitingFor(cptr[current])
      BY <1>0 DEF InitWaitingFor
    <3>. QED
      BY <2>2, <3>1, <1>wake DEF ReparentChild, wakeup_proc
  <2>3. ASSUME NEW z \in Procs, WaitReap(z) PROVE Goal
    BY <2>3 DEF WaitReap, SchedTypeOK
  <2>4. CASE WaitSleep
    BY <2>4, <1>sleep DEF WaitSleep, At
  <2>. QED
    BY <1>kernel, <1>fork, <1>same, <2>1, <2>2, <2>3, <2>4
    DEF KernelStep, InitMain, ExitDone, WaitBadProc, WaitWake, SleepWake, SyscallReturn,
        IrqReturn, TrapTail, CpuIdle, schedVars
<1>tick. CASE Tick
  <2>1. p \notin Fired
    BY <1>0 DEF Fired
  <2>. QED
    BY <1>tick, <2>1, <1>wake DEF Tick, run_timers
<1>schedule. ASSUME NEW next \in Procs, Schedule(next) PROVE Goal
  BY <1>schedule, <1>same DEF Schedule, schedule
<1>stutter. CASE UNCHANGED vars
  BY <1>stutter, <1>same DEF vars, schedVars
<1>. QED
  BY <1>user, <1>kernel, <1>tick, <1>schedule, <1>stutter DEF Next, Stopped

\* No wakeup, timer or kill brings a dead process back.
THEOREM ZombieCorrect == Spec => ZombieNeverWakes
<1>1. IInv /\ [Next]_vars =>
        [\A p \in Procs : state[p] = "PROC_ZOMBIE" =>
           state'[p] \in {"PROC_ZOMBIE", "PROC_NONE"}]_vars
  BY NextZombie
<1>. QED
  BY <1>1, IInvCorrect, PTL DEF Spec, ZombieNeverWakes

-----------------------------------------------------------------------------
(* The process family.                                                      *)

\* A set of natural numbers has a least member.
LEMMA NatMin ==
  ASSUME NEW T \in SUBSET Nat, T # {}
  PROVE  \E m \in T : \A k \in T : m <= k
<1> DEFINE R == OpToRel(<, Nat)
<1>1. IsWellFoundedOn(R, Nat)
  BY NatLessThanWellFounded
<1>2. \A x, y \in Nat : x < y => <<x, y>> \in R
  BY DEF OpToRel
<1>3. PICK m \in T : \A k \in T : ~(<<k, m>> \in R)
  BY <1>1, WFMin
<1> HIDE DEF R
<1>4. ASSUME NEW k \in T PROVE m <= k
  <2>1. k \in Nat /\ m \in Nat /\ ~(k < m)
    BY <1>2, <1>3
  <2>. QED
    BY <2>1, SMT
<1>. QED
  BY <1>4

\* Induction over the natural numbers, for a property given as a set.
LEMMA NatInd ==
  ASSUME NEW T, 0 \in T, \A n \in Nat : n \in T => n + 1 \in T
  PROVE  \A n \in Nat : n \in T
<1> SUFFICES ASSUME NEW n \in Nat, n \notin T PROVE FALSE
  OBVIOUS
<1> DEFINE U == {k \in Nat : k \notin T}
<1>1. U \in SUBSET Nat /\ U # {}
  OBVIOUS
<1>2. PICK m \in U : \A k \in U : m <= k
  BY <1>1, NatMin
<1>3. m \in Nat /\ m \notin T /\ m # 0
  BY <1>2, Zenon
<1>4. PICK k \in Nat : m = k + 1
  <2>1. m - 1 \in Nat /\ m = (m - 1) + 1
    BY <1>3, SMT
  <2>. QED
    BY <2>1
<1>5. k \notin T
  BY <1>3, <1>4
<1>6. ~(m <= k)
  BY <1>4, SMT
<1>. QED
  BY <1>2, <1>5, <1>6

-----------------------------------------------------------------------------
(* The list of a process's children.                                        *)

\* The first n + 1 entries of the list of children of p.
Prefix(p, n) ==
    {f \in [0 .. n -> Procs \cup {NULL}] :
       /\ f[0] = cptr[p]
       /\ \A k \in 0 .. (n - 1) : f[k + 1] = IF f[k] = NULL THEN NULL ELSE optr[f[k]]}

\* They are what Child(p) says, which the recursion therefore defines.
LEMMA ChildRec ==
  ASSUME ProcTypeOK, NEW p \in Procs
  PROVE  /\ Child(p) \in [Nat -> Procs \cup {NULL}]
         /\ Child(p)[0] = cptr[p]
         /\ \A n \in Nat : Child(p)[n + 1] = IF Child(p)[n] = NULL THEN NULL
                                             ELSE optr[Child(p)[n]]
<1> DEFINE after(x) == IF x = NULL THEN NULL ELSE optr[x]
           N == Procs \cup {NULL}
<1>0. cptr[p] \in N /\ \A x \in N : after(x) \in N
  BY Zenon DEF ProcTypeOK
<1> HIDE DEF after
\* One entry more.
<1>1. ASSUME NEW n \in Nat, NEW f \in Prefix(p, n)
      PROVE  [k \in 0 .. (n + 1) |-> IF k = n + 1 THEN after(f[n]) ELSE f[k]] \in Prefix(p, n + 1)
  <2> DEFINE g == [k \in 0 .. (n + 1) |-> IF k = n + 1 THEN after(f[n]) ELSE f[k]]
  <2>1. /\ f \in [0 .. n -> N]
        /\ f[0] = cptr[p]
        /\ \A k \in 0 .. (n - 1) : f[k + 1] = after(f[k])
    BY Zenon DEF Prefix, after
  <2>2. \A k \in 0 .. (n + 1) : k = n + 1 \/ k \in 0 .. n
    BY SMT
  <2>3. n \in 0 .. n /\ 0 \in 0 .. n /\ n + 1 \notin 0 .. n
    BY SMT
  <2>4. g \in [0 .. (n + 1) -> N]
    BY <1>0, <2>1, <2>2, <2>3, Zenon
  <2>5. g[0] = cptr[p]
    <3>1. 0 \in 0 .. (n + 1) /\ 0 # n + 1
      BY SMT
    <3>. QED
      BY <2>1, <3>1, Zenon
  <2>6. ASSUME NEW k \in 0 .. ((n + 1) - 1) PROVE g[k + 1] = after(g[k])
    <3>1. k \in 0 .. n /\ k \in 0 .. (n + 1) /\ k # n + 1 /\ k + 1 \in 0 .. (n + 1)
      BY SMT
    <3>2. g[k] = f[k]
      BY <3>1, Zenon
    <3>3. CASE k = n
      BY <3>1, <3>2, <3>3, Zenon
    <3>4. CASE k # n
      <4>1. k \in 0 .. (n - 1) /\ k + 1 # n + 1
        BY <3>4, SMT
      <4>. QED
        BY <2>1, <3>1, <3>2, <4>1, Zenon
    <3>. QED
      BY <3>3, <3>4
  <2>. HIDE DEF g
  <2>7. g \in Prefix(p, n + 1)
    BY <2>4, <2>5, <2>6, Zenon DEF Prefix, after
  <2>. QED
    BY <2>7 DEF g
\* So there is a list of every length,
<1>2. \A n \in Nat : Prefix(p, n) # {}
  <2> DEFINE T == {n \in Nat : Prefix(p, n) # {}}
  <2>1. 0 \in T
    <3>1. [k \in 0 .. 0 |-> cptr[p]] \in Prefix(p, 0)
      BY <1>0, SMT DEF Prefix
    <3>. QED
      BY <3>1
  <2>2. ASSUME NEW n \in Nat, n \in T PROVE n + 1 \in T
    <3>1. PICK f : f \in Prefix(p, n)
      BY <2>2
    <3>2. n + 1 \in Nat
      BY SMT
    <3>. QED
      BY <1>1, <3>1, <3>2, Zenon
  <2>3. \A n \in Nat : n \in T
    <3> HIDE DEF T
    <3>. QED
      BY <2>1, <2>2, NatInd
  <2>. QED
    BY <2>3
\* and two of them agree as far as both go.
<1>3. \A k \in Nat : \A m, n \in Nat : k <= m /\ k <= n =>
         \A f \in Prefix(p, m), g \in Prefix(p, n) : f[k] = g[k]
  <2> DEFINE T == {k \in Nat : \A m, n \in Nat : k <= m /\ k <= n =>
                      \A f \in Prefix(p, m), g \in Prefix(p, n) : f[k] = g[k]}
  <2>1. 0 \in T
    BY Zenon DEF Prefix
  <2>2. ASSUME NEW k \in Nat, k \in T PROVE k + 1 \in T
    <3> SUFFICES ASSUME NEW m \in Nat, NEW n \in Nat, k + 1 <= m, k + 1 <= n,
                        NEW f \in Prefix(p, m), NEW g \in Prefix(p, n)
                 PROVE  f[k + 1] = g[k + 1]
      OBVIOUS
    <3>1. k \in 0 .. (m - 1) /\ k \in 0 .. (n - 1) /\ k <= m /\ k <= n
      BY SMT
    <3>2. f[k] = g[k]
      BY <2>2, <3>1
    <3>3. f[k + 1] = after(f[k])
      BY <3>1 DEF Prefix, after
    <3>4. g[k + 1] = after(g[k])
      BY <3>1 DEF Prefix, after
    <3>. QED
      BY <3>2, <3>3, <3>4, Zenon
  <2>3. \A k \in Nat : k \in T
    <3> HIDE DEF T
    <3>. QED
      BY <2>1, <2>2, NatInd
  <2>. QED
    BY <2>3
<1> DEFINE l(n) == CHOOSE f \in Prefix(p, n) : TRUE
           d == [n \in Nat |-> l(n)[n]]
           F(c) == [n \in Nat |-> IF n = 0 THEN cptr[p]
                        ELSE IF c[n - 1] = NULL THEN NULL ELSE optr[c[n - 1]]]
<1>4. \A n \in Nat : l(n) \in Prefix(p, n)
  BY <1>2, Zenon
<1>5. d[0] = cptr[p]
  BY <1>4, Zenon DEF Prefix
<1>6. ASSUME NEW n \in Nat PROVE d[n + 1] = after(d[n])
  <2>1. n + 1 \in Nat /\ n \in 0 .. ((n + 1) - 1) /\ n <= n + 1 /\ n <= n
    BY SMT
  <2>. HIDE DEF l
  <2>2. l(n)[n] = l(n + 1)[n]
    <3>1. l(n) \in Prefix(p, n) /\ l(n + 1) \in Prefix(p, n + 1)
      BY <1>4, <2>1
    <3>. QED
      BY <1>3, <2>1, <3>1
  <2>3. l(n + 1)[n + 1] = after(l(n + 1)[n])
    BY <1>4, <2>1, Zenon DEF Prefix, after
  <2>. QED
    BY <2>1, <2>2, <2>3, Zenon
<1>7. d \in [Nat -> N]
  <2>1. \A n \in Nat : n \in 0 .. n
    BY SMT
  <2>. HIDE DEF l
  <2>. QED
    BY <1>4, <2>1, Zenon DEF Prefix
<1>. HIDE DEF d
<1>8. d = F(d)
  <2>1. ASSUME NEW n \in Nat PROVE d[n] = F(d)[n]
    <3>1. CASE n = 0
      BY <1>5, <3>1, Zenon
    <3>2. CASE n # 0
      <4>1. PICK k \in Nat : k = n - 1 /\ n = k + 1
        <5>1. n - 1 \in Nat /\ n = (n - 1) + 1
          BY <3>2, SMT
        <5>. QED
          BY <5>1
      <4>2. d[n] = after(d[k])
        BY <1>6, <4>1
      <4>. QED
        BY <3>2, <4>1, <4>2, Zenon DEF after
    <3>. QED
      BY <3>1, <3>2
  <2>. QED
    BY <1>7, <2>1, Zenon
<1>9. PICK c : c = Child(p) /\ c = F(c)
  <2>1. Child(p) = CHOOSE c : c = F(c)
    BY DEF Child
  <2>. QED
    BY <1>8, <2>1, Zenon
<1>10. c[0] = cptr[p]
  BY <1>9, Zenon
<1>11. ASSUME NEW n \in Nat PROVE c[n + 1] = after(c[n])
  <2>1. n + 1 \in Nat /\ n + 1 # 0 /\ (n + 1) - 1 = n
    BY SMT
  <2>2. c[n + 1] = F(c)[n + 1]
    BY <1>9, Zenon
  <2>3. F(c)[n + 1] = IF c[(n + 1) - 1] = NULL THEN NULL ELSE optr[c[(n + 1) - 1]]
    BY <2>1, Zenon
  <2>4. F(c)[n + 1] = after(c[n])
    <3>. HIDE DEF F
    <3>. QED
      BY <2>1, <2>3, Zenon DEF after
  <2>. QED
    BY <2>2, <2>4, Zenon
<1>12. \A n \in Nat : c[n] \in N
  <2> DEFINE T == {n \in Nat : c[n] \in N}
  <2>1. 0 \in T
    BY <1>0, <1>10
  <2>2. \A n \in Nat : n \in T => n + 1 \in T
    BY <1>0, <1>11
  <2>3. \A n \in Nat : n \in T
    <3> HIDE DEF T
    <3>. QED
      BY <2>1, <2>2, NatInd
  <2>. QED
    BY <2>3
<1>13. c = [n \in Nat |-> c[n]]
  BY <1>9
<1>. QED
  BY <1>9, <1>10, <1>11, <1>12, <1>13, Zenon DEF after

\* Along optr, children get older.
Aged(o, age) == \A q, r \in Procs : o[q] = r => age[q] < age[r]

\* c, o and y are the cptr, optr and yptr links of processes whose parents are
\* pa: a process's cptr is its child without a younger sibling, optr and yptr
\* are inverse and stay among siblings, and there is no circle.
IsFamily(pa, c, o, y) ==
    /\ \A p, q \in Procs : c[p] = q <=> pa[q] = p /\ y[q] = NULL
    /\ \A q, r \in Procs : o[q] = r <=> y[r] = q
    /\ \A q, r \in Procs : o[q] = r => pa[q] = pa[r] /\ pa[q] # NULL
    /\ \E age \in [Procs -> Nat] : Aged(o, age)

Pointers == [Procs -> Procs \cup {NULL}]

\* Then the list that starts at cptr holds the children, all of them.
LEMMA ChildrenExact ==
  ASSUME ProcTypeOK, NEW y \in Pointers, IsFamily(parent, cptr, optr, y), NEW p \in Procs
  PROVE  Children(p) = {q \in Procs : parent[q] = p}
<1> DEFINE c == Child(p)
<1>0. /\ c[0] = cptr[p]
      /\ \A n \in Nat : c[n + 1] = IF c[n] = NULL THEN NULL ELSE optr[c[n]]
      /\ \A n \in Nat : c[n] \in Procs \cup {NULL}
  BY ChildRec, Zenon
<1> HIDE DEF c
<1>. NULL \notin Procs
  BY ProcAssumption
<1>1. /\ \A r, q \in Procs : cptr[r] = q <=> parent[q] = r /\ y[q] = NULL
      /\ \A q, r \in Procs : optr[q] = r <=> y[r] = q
      /\ \A q, r \in Procs : optr[q] = r => parent[q] = parent[r] /\ parent[q] # NULL
  BY Zenon DEF IsFamily
<1>2. PICK age \in [Procs -> Nat] : Aged(optr, age)
  BY Zenon DEF IsFamily
\* Everybody on the list is a child of p.
<1>3. \A n \in Nat : c[n] = NULL \/ (c[n] \in Procs /\ parent[c[n]] = p)
  <2> DEFINE T == {n \in Nat : c[n] = NULL \/ (c[n] \in Procs /\ parent[c[n]] = p)}
  <2>1. 0 \in T
    BY <1>0, <1>1
  <2>2. ASSUME NEW n \in Nat, n \in T PROVE n + 1 \in T
    <3>1. n + 1 \in Nat
      BY SMT
    <3>2. CASE c[n] = NULL
      BY <1>0, <3>1, <3>2, Zenon
    <3>3. CASE c[n] # NULL
      <4>1. c[n] \in Procs /\ parent[c[n]] = p /\ c[n + 1] = optr[c[n]]
        BY <1>0, <2>2, <3>3, Zenon
      <4>2. c[n + 1] \in Procs \cup {NULL}
        BY <1>0, <3>1, Zenon
      <4>3. ASSUME c[n + 1] # NULL PROVE parent[c[n + 1]] = p
        BY <1>1, <4>1, <4>2, <4>3, Zenon
      <4>. QED
        BY <3>1, <4>2, <4>3, Zenon
    <3>. QED
      BY <3>2, <3>3
  <2>3. \A n \in Nat : n \in T
    <3> HIDE DEF T
    <3>. QED
      BY <2>1, <2>2, NatInd
  <2>. QED
    BY <2>3
\* A child that is not on it would have a younger sibling that is not either.
<1>4. \A q \in Procs : parent[q] = p => \E n \in Nat : c[n] = q
  <2> DEFINE Lost == {q \in Procs : parent[q] = p /\ \A n \in Nat : c[n] # q}
             A == {age[q] : q \in Lost}
  <2> SUFFICES ASSUME Lost # {} PROVE FALSE
    BY Zenon
  <2>1. A \in SUBSET Nat /\ A # {}
    BY <1>2, Zenon
  <2>2. PICK q \in Lost : \A r \in Lost : age[q] <= age[r]
    <3>. HIDE DEF Lost
    <3>1. PICK m \in A : \A k \in A : m <= k
      <4>. HIDE DEF A
      <4>. QED
        BY <2>1, NatMin
    <3>. QED
      BY <3>1, Zenon
  <2>. q \in Procs
    OBVIOUS
  <2>0. parent[q] = p /\ \A n \in Nat : c[n] # q
    OBVIOUS
  <2>3. y[q] \in Procs
    <3>1. ASSUME y[q] = NULL PROVE FALSE
      <4>1. cptr[p] = q
        BY <1>1, <2>0, <3>1
      <4>2. 0 \in Nat
        BY SMT
      <4>. QED
        BY <1>0, <2>0, <4>1, <4>2, Zenon
    <3>. QED
      BY <3>1, Zenon DEF Pointers
  <2>4. optr[y[q]] = q /\ parent[y[q]] = p
    <3>1. optr[y[q]] = q
      BY <1>1, <2>3
    <3>. QED
      BY <1>1, <2>0, <2>3, <3>1
  <2>5. age[y[q]] < age[q]
    BY <1>2, <2>2, <2>3, <2>4, Zenon DEF Aged
  <2>6. y[q] \notin Lost
    <3>1. age[y[q]] \in Nat /\ age[q] \in Nat
      BY <1>2, <2>2, <2>3
    <3>2. ~(age[q] <= age[y[q]])
      BY <2>5, <3>1, SMT
    <3>. QED
      BY <2>2, <3>2, Zenon
  <2>7. PICK n \in Nat : c[n] = y[q]
    BY <2>3, <2>4, <2>6, Zenon
  <2>8. c[n + 1] = q /\ n + 1 \in Nat
    <3>1. n + 1 \in Nat
      BY SMT
    <3>. QED
      BY <1>0, <2>3, <2>4, <2>7, <3>1, Zenon
  <2>. QED
    BY <2>2, <2>8, Zenon
\* There are never more of them than processes.
<1>5. \A n \in Nat : c[n] # NULL => n \in 0 .. Cardinality(Procs)
  <2> DEFINE S(n) == {c[k] : k \in 0 .. n}
             T == {n \in Nat : c[n] # NULL =>
                     /\ S(n) \subseteq Procs
                     /\ IsFiniteSet(S(n))
                     /\ Cardinality(S(n)) = n + 1
                     /\ \A x \in S(n) : age[x] <= age[c[n]]}
  <2>1. 0 \in T
    <3>1. S(0) = {c[0]}
      <4>1. 0 .. 0 = {0}
        BY SMT
      <4>. QED
        BY <4>1, Zenon
    <3>2. IsFiniteSet({c[0]}) /\ Cardinality({c[0]}) = 0 + 1
      <4>1. 0 + 1 = 1
        BY SMT
      <4>. QED
        BY <4>1, FS_Singleton, Zenon
    <3>3. ASSUME c[0] # NULL PROVE c[0] \in Procs /\ age[c[0]] <= age[c[0]]
      <4>1. c[0] \in Procs
        BY <1>0, <3>3, SMT
      <4>2. age[c[0]] \in Nat
        BY <1>2, <4>1
      <4>. QED
        BY <4>1, <4>2, SMT
    <3>4. 0 \in Nat
      BY SMT
    <3>. HIDE DEF S
    <3>. QED
      BY <3>1, <3>2, <3>3, <3>4, Zenon
  <2>2. ASSUME NEW n \in Nat, n \in T PROVE n + 1 \in T
    <3>. n + 1 \in Nat
      BY SMT
    <3> SUFFICES ASSUME c[n + 1] # NULL
                 PROVE  /\ S(n + 1) \subseteq Procs
                        /\ IsFiniteSet(S(n + 1))
                        /\ Cardinality(S(n + 1)) = (n + 1) + 1
                        /\ \A x \in S(n + 1) : age[x] <= age[c[n + 1]]
      OBVIOUS
    <3>1. c[n] # NULL /\ c[n + 1] = optr[c[n]] /\ c[n + 1] \in Procs /\ c[n] \in Procs
      BY <1>0, Zenon
    <3>2. age[c[n]] < age[c[n + 1]] /\ age[c[n]] \in Nat /\ age[c[n + 1]] \in Nat
      BY <1>2, <3>1, Zenon DEF Aged
    <3>3. /\ S(n) \subseteq Procs
          /\ IsFiniteSet(S(n))
          /\ Cardinality(S(n)) = n + 1
          /\ \A x \in S(n) : age[x] <= age[c[n]]
      BY <2>2, <3>1, Zenon
    <3>4. S(n + 1) = S(n) \cup {c[n + 1]}
      <4>1. 0 .. (n + 1) = (0 .. n) \cup {n + 1}
        BY SMT
      <4>. QED
        BY <4>1, Zenon
    <3>. HIDE DEF S
    <3>5. \A x \in S(n) : age[x] \in Nat /\ age[x] < age[c[n + 1]]
      <4> TAKE x \in S(n)
      <4>1. age[x] \in Nat /\ age[x] <= age[c[n]]
        BY <1>2, <3>3
      <4>. QED
        BY <3>2, <4>1, SMT
    <3>6. c[n + 1] \notin S(n)
      BY <3>2, <3>5, SMT
    <3>7. IsFiniteSet(S(n + 1)) /\ Cardinality(S(n + 1)) = (n + 1) + 1
      <4> DEFINE x == c[n + 1]
      <4>. HIDE DEF x
      <4>1. IsFiniteSet(S(n) \cup {x}) /\ Cardinality(S(n) \cup {x}) =
               IF x \in S(n) THEN Cardinality(S(n)) ELSE Cardinality(S(n)) + 1
        BY <3>3, FS_AddElement
      <4>. QED
        BY <3>3, <3>4, <3>6, <4>1, Zenon DEF x
    <3>8. \A x \in S(n + 1) : age[x] <= age[c[n + 1]]
      BY <3>2, <3>4, <3>5, SMT
    <3>. QED
      BY <3>1, <3>3, <3>4, <3>7, <3>8, Zenon
  <2>3. \A n \in Nat : n \in T
    <3> HIDE DEF T
    <3>. QED
      BY <2>1, <2>2, NatInd
  <2> TAKE n \in Nat
  <2> HAVE c[n] # NULL
  <2>4. S(n) \in SUBSET Procs /\ Cardinality(S(n)) = n + 1
    BY <2>3, Zenon
  <2>. HIDE DEF S
  <2>5. Cardinality(S(n)) <= Cardinality(Procs) /\ Cardinality(Procs) \in Nat
    BY <2>4, ProcAssumption, FS_Subset, FS_CardinalityType
  <2>. QED
    BY <2>4, <2>5, SMT
<1>6. \A n \in 0 .. Cardinality(Procs) : n \in Nat
  BY SMT
<1>7. Children(p) = {c[n] : n \in {n \in 0 .. Cardinality(Procs) : c[n] # NULL}}
  BY Zenon DEF Children, ChildIndices, c
<1>8. ASSUME NEW q \in Procs, parent[q] = p PROVE q \in Children(p)
  <2>1. PICK n \in Nat : c[n] = q
    BY <1>4, <1>8
  <2>2. c[n] # NULL
    BY <2>1
  <2>. QED
    BY <1>5, <1>7, <2>1, <2>2, Zenon
<1>9. ASSUME NEW q \in Children(p) PROVE q \in Procs /\ parent[q] = p
  BY <1>3, <1>6, <1>7, Zenon
<1>. QED
  BY <1>8, <1>9

-----------------------------------------------------------------------------
(* Adding to a list of children, and taking from it.                        *)

\* pa2, c2, o2 and y2 are pa, c, o and y with x made the youngest child of par;
Adds(x, par, pa, c, o, y, pa2, c2, o2, y2) ==
    /\ \A q \in Procs : pa2[q] = IF q = x THEN par ELSE pa[q]
    /\ \A q \in Procs : c2[q] = IF q = par THEN x ELSE c[q]
    /\ \A q \in Procs : o2[q] = IF q = x THEN c[par] ELSE o[q]
    /\ \A q \in Procs : y2[q] = IF q = x THEN NULL ELSE IF q = c[par] THEN x ELSE y[q]

\* or with z taken out of its list.
Removes(z, pa, c, o, y, pa2, c2, o2, y2) ==
    /\ \A q \in Procs : pa2[q] = IF q = z THEN NULL ELSE pa[q]
    /\ \A q \in Procs : c2[q] = IF q = pa[z] /\ y[z] = NULL THEN o[z] ELSE c[q]
    /\ \A q \in Procs : o2[q] = IF q = z THEN NULL ELSE IF q = y[z] THEN o[z] ELSE o[q]
    /\ \A q \in Procs : y2[q] = IF q = z THEN NULL ELSE IF q = o[z] THEN y[z] ELSE y[q]

\* A process without a parent is made the youngest child of par.
LEMMA AddChild ==
  ASSUME NEW pa \in Pointers, NEW c \in Pointers, NEW o \in Pointers, NEW y \in Pointers,
         IsFamily(pa, c, o, y), NEW x \in Procs, pa[x] = NULL, NEW par \in Procs, par # x,
         NEW pa2, NEW c2, NEW o2, NEW y2, Adds(x, par, pa, c, o, y, pa2, c2, o2, y2)
  PROVE  IsFamily(pa2, c2, o2, y2)
<1> USE DEF Adds
<1>. NULL \notin Procs
  BY ProcAssumption
<1>1. /\ \A p, q \in Procs : c[p] = q <=> pa[q] = p /\ y[q] = NULL
      /\ \A q, r \in Procs : o[q] = r <=> y[r] = q
      /\ \A q, r \in Procs : o[q] = r => pa[q] = pa[r] /\ pa[q] # NULL
  BY Zenon DEF IsFamily
<1>2. PICK age \in [Procs -> Nat] : Aged(o, age)
  BY Zenon DEF IsFamily
<1>t. \A q \in Procs : /\ pa[q] \in Procs \cup {NULL} /\ c[q] \in Procs \cup {NULL}
                       /\ o[q] \in Procs \cup {NULL} /\ y[q] \in Procs \cup {NULL}
  BY Zenon DEF Pointers
<1>3. o[x] = NULL /\ y[x] = NULL /\ \A q \in Procs : c[q] # x /\ o[q] # x /\ y[q] # x
  BY <1>1, <1>t, SMT
<1>4. \A p, q \in Procs : c2[p] = q <=> pa2[q] = p /\ y2[q] = NULL
  BY <1>1, <1>3, <1>t, SMT
<1>5. \A q, r \in Procs : o2[q] = r <=> y2[r] = q
  BY <1>1, <1>3, <1>t, SMT
<1>6. \A q, r \in Procs : o2[q] = r => pa2[q] = pa2[r] /\ pa2[q] # NULL
  BY <1>1, <1>3, <1>t, SMT
<1>7. \E s \in [Procs -> Nat] : Aged(o2, s)
  <2> DEFINE s == [q \in Procs |-> IF q = x THEN 0 ELSE age[q] + 1]
  <2>1. s \in [Procs -> Nat]
    BY <1>2, SMT
  <2>2. \A q \in Procs : s[q] = (IF q = x THEN 0 ELSE age[q] + 1) /\ age[q] \in Nat
    BY <1>2
  <2>. HIDE DEF s
  <2>3. Aged(o2, s)
    BY <1>2, <1>3, <1>t, <2>2, SMT DEF Aged
  <2>. QED
    BY <2>1, <2>3
<1>. QED
  BY <1>4, <1>5, <1>6, <1>7, Zenon DEF IsFamily

\* A child is taken out of the list, wherever it is in it.
LEMMA RemoveChild ==
  ASSUME NEW pa \in Pointers, NEW c \in Pointers, NEW o \in Pointers, NEW y \in Pointers,
         IsFamily(pa, c, o, y), NEW z \in Procs, pa[z] # NULL,
         NEW pa2, NEW c2, NEW o2, NEW y2, Removes(z, pa, c, o, y, pa2, c2, o2, y2)
  PROVE  IsFamily(pa2, c2, o2, y2)
<1> USE DEF Removes
<1>. NULL \notin Procs
  BY ProcAssumption
<1>1. /\ \A p, q \in Procs : c[p] = q <=> pa[q] = p /\ y[q] = NULL
      /\ \A q, r \in Procs : o[q] = r <=> y[r] = q
      /\ \A q, r \in Procs : o[q] = r => pa[q] = pa[r] /\ pa[q] # NULL
  BY Zenon DEF IsFamily
<1>2. PICK age \in [Procs -> Nat] : Aged(o, age)
  BY Zenon DEF IsFamily
<1>t. \A q \in Procs : /\ pa[q] \in Procs \cup {NULL} /\ c[q] \in Procs \cup {NULL}
                       /\ o[q] \in Procs \cup {NULL} /\ y[q] \in Procs \cup {NULL}
  BY Zenon DEF Pointers
<1>3. \A q, r \in Procs : o[q] = r => age[q] < age[r] /\ age[q] \in Nat /\ age[r] \in Nat
  BY <1>2, Zenon DEF Aged
<1>4. o[z] # z /\ y[z] # z
  BY <1>1, <1>3, <1>t, SMT
<1>5. ASSUME y[z] \in Procs, o[z] \in Procs PROVE age[y[z]] < age[o[z]] /\ y[z] # o[z]
  <2>1. o[y[z]] = z
    BY <1>1, <1>5
  <2>. QED
    BY <1>3, <1>5, <2>1, SMT
<1>6. \A p, q \in Procs : c2[p] = q <=> pa2[q] = p /\ y2[q] = NULL
  BY <1>1, <1>4, <1>t, SMT
<1>7. \A q, r \in Procs : o2[q] = r <=> y2[r] = q
  BY <1>1, <1>4, <1>t, SMT
<1>8. \A q, r \in Procs : o2[q] = r => pa2[q] = pa2[r] /\ pa2[q] # NULL
  BY <1>1, <1>4, <1>t, SMT
<1>9. Aged(o2, age)
  BY <1>3, <1>5, <1>t, SMT DEF Aged
<1>. QED
  BY <1>2, <1>6, <1>7, <1>8, <1>9, Zenon DEF IsFamily

-----------------------------------------------------------------------------
(* The inductive invariant.                                                 *)

\* do_exit takes its children off its list from the front, and leaves the yptr
\* of the new front as it was until that child is moved in its turn.
Exiting == pc[current] = "exit_children"
Younger == [q \in Procs |-> IF Exiting /\ q = cptr[current] THEN NULL ELSE yptr[q]]

Links == IsFamily(parent, cptr, optr, Younger)

\* Every process but idleproc has a parent, which is alive or is just handing
\* its children over.
Alive(p) == state[p] \in {"PROC_RUNNABLE", "PROC_SLEEPING"}

Parents ==
    /\ \A p \in Procs : p = idleproc \/ state[p] = "PROC_NONE" <=> parent[p] = NULL
    /\ \A p \in Procs : parent[p] = idleproc <=> p = initproc
    /\ \A p, q \in Procs : parent[q] = p => Alive(p) \/ (p = current /\ Exiting)
    /\ \A p \in Procs : pc[p] = "exit_children" => p = current /\ state[p] = "PROC_ZOMBIE"

\* All processes but idleproc descend from initproc.
IsDepth(depth) ==
    /\ depth \in [Procs -> Nat]
    /\ depth[initproc] = 0
    /\ \A p, q \in Procs \ {idleproc} : parent[q] = p => depth[p] < depth[q]

Tree == \E depth : IsDepth(depth)

\* initproc runs init_main only, which waits for any child.
InitMainOnly ==
    /\ Alive(initproc)
    /\ pc[initproc] \in {"boot", "wait", "wait_sched", "wait_wake", "main_sched",
                         "exit", "panic", "halt"}
    /\ wait_pid[initproc] = NULL

Counted == nr_process = Cardinality({p \in Procs : state[p] # "PROC_NONE"})

\* The children a process in do_wait waits for.
Kids(p) == {q \in Procs : parent[q] = p /\ (wait_pid[p] = NULL \/ q = wait_pid[p])}

\* Nobody sleeps on a child that has died unnoticed, or on none.
Waiting ==
    \A p \in Procs :
        /\ state[p] = "PROC_SLEEPING" => wait_state[p] \in {"WT_TIMER", "WT_CHILD"}
        /\ wait_state[p] = "WT_CHILD" => /\ Kids(p) # {}
                                         /\ \A q \in Kids(p) : state[q] # "PROC_ZOMBIE"

\* The inductive invariant.
FInv == IInv /\ Links /\ Parents /\ Tree /\ InitMainOnly /\ Counted /\ Waiting /\ InitExitsLast

-----------------------------------------------------------------------------
\* What the proofs use most.
LEMMA Typed ==
  ASSUME ProcTypeOK
  PROVE  /\ current \in Procs /\ NULL \notin Procs /\ idleproc \in Procs /\ initproc \in Procs
         /\ idleproc # initproc
         /\ parent \in Pointers /\ cptr \in Pointers /\ optr \in Pointers /\ yptr \in Pointers
         /\ Younger \in Pointers
         /\ pc \in [Procs -> Label] /\ wait_pid \in Pointers
         /\ state \in [Procs -> ProcState] /\ wait_state \in [Procs -> WaitState]
<1>1. /\ current \in Procs /\ NULL \notin Procs /\ idleproc \in Procs /\ initproc \in Procs
      /\ idleproc # initproc
  BY ProcAssumption, SchedAssumption DEF ProcTypeOK, SchedTypeOK
<1>2. /\ parent \in Pointers /\ cptr \in Pointers /\ optr \in Pointers /\ yptr \in Pointers
      /\ pc \in [Procs -> Label] /\ wait_pid \in Pointers
      /\ state \in [Procs -> ProcState] /\ wait_state \in [Procs -> WaitState]
  BY Zenon DEF ProcTypeOK, SchedTypeOK, Pointers
<1>3. Younger \in Pointers
  BY <1>2, SMT DEF Younger, Pointers
<1>. QED
  BY <1>1, <1>2, <1>3

\* Outside the loop of do_exit nothing is out of place.
LEMMA YoungerIs ==
  ASSUME ProcTypeOK, ~Exiting
  PROVE  Younger = yptr
<1>1. yptr \in [Procs -> Procs \cup {NULL}]
  BY DEF ProcTypeOK
<1>. QED
  BY <1>1, SMT DEF Younger

\* Nobody is his own sibling.
LEMMA YoungerIsNot ==
  ASSUME ProcTypeOK, Links, NEW z \in Procs
  PROVE  optr[z] # z /\ Younger[z] # z
<1>1. PICK age \in [Procs -> Nat] : Aged(optr, age)
  BY Zenon DEF Links, IsFamily
<1>2. optr[z] # z
  <2>1. age[z] \in Nat /\ (optr[z] = z => age[z] < age[z])
    BY <1>1, Zenon DEF Aged
  <2>. QED
    BY <2>1, SMT
<1>. QED
  BY <1>2, Zenon DEF Links, IsFamily

\* IInv is kept by every step.
LEMMA IInvNext == IInv /\ [Next]_vars => IInv'
  BY NextType, NextPool, NextAsleep, Zenon DEF IInv

\* The children do_wait looks at are the processes whose parent it is.
LEMMA AwaitedExact ==
  ASSUME IInv, Links, Parents, NEW p \in Procs
  PROVE  Awaited(p) = Kids(p)
<1>. ProcTypeOK
  BY DEF IInv
<1>1. Children(p) = {q \in Procs : parent[q] = p}
  BY ChildrenExact, Typed DEF Links
<1>2. CASE wait_pid[p] = NULL
  BY <1>1, <1>2, Zenon DEF Awaited, Kids
<1>3. CASE wait_pid[p] # NULL
  <2>1. wait_pid[p] \in Procs /\ NULL \notin Procs
    BY <1>3, Typed DEF Pointers
  <2>2. \A q \in Procs : parent[q] = p => state[q] # "PROC_NONE"
    BY <2>1, Zenon DEF Parents
  <2>. QED
    BY <1>3, <2>1, <2>2, Zenon DEF Awaited, Kids
<1>. QED
  BY <1>2, <1>3

\* So is the dead child it finds.
LEMMA FoundIs ==
  ASSUME IInv, Links, Parents, NEW p \in Procs, NEW z, Found(p, z)
  PROVE  z \in Procs /\ parent[z] = p /\ state[z] = "PROC_ZOMBIE" /\ z \in Kids(p)
  BY AwaitedExact, Zenon DEF Found, Kids

\* The list is empty only when there is no child.
LEMMA NoChild ==
  ASSUME IInv, Links, NEW p \in Procs, cptr[p] = NULL, NEW q \in Procs
  PROVE  parent[q] # p
<1> SUFFICES ASSUME parent[q] = p PROVE FALSE
  OBVIOUS
<1>. ProcTypeOK
  BY DEF IInv
<1>1. Children(p) = {r \in Procs : parent[r] = p}
  BY ChildrenExact, Typed DEF Links
<1>2. \A n \in Nat : Child(p)[n] = NULL
  <2> DEFINE T == {n \in Nat : Child(p)[n] = NULL}
  <2>1. 0 \in T
    BY ChildRec
  <2>2. \A n \in Nat : n \in T => n + 1 \in T
    BY ChildRec
  <2>3. \A n \in Nat : n \in T
    <3> HIDE DEF T
    <3>. QED
      BY <2>1, <2>2, NatInd
  <2>. QED
    BY <2>3
<1>3. \A n \in 0 .. Cardinality(Procs) : n \in Nat
  BY SMT
<1>. QED
  BY <1>1, <1>2, <1>3, Zenon DEF Children, ChildIndices

-----------------------------------------------------------------------------
\* A step that leaves the links alone keeps them right, unless it strands a child.
LEMMA KeepFamily ==
  ASSUME IInv, Links, Parents, Tree, Counted, ProcTypeOK',
         UNCHANGED familyVars, Younger' = Younger,
         \A p \in Procs : state'[p] = "PROC_NONE" <=> state[p] = "PROC_NONE",
         \A p \in Procs : Alive(p) => Alive(p)' \/ (p = current /\ Exiting)',
         Exiting => cptr[current] = NULL \/ (current' = current /\ Exiting'),
         \A p \in Procs : pc'[p] = "exit_children" => p = current' /\ state'[p] = "PROC_ZOMBIE"
  PROVE  Links' /\ Parents' /\ Tree' /\ Counted'
<1>. ProcTypeOK
  BY DEF IInv
<1>0. /\ parent' = parent /\ cptr' = cptr /\ optr' = optr /\ yptr' = yptr
      /\ nr_process' = nr_process
  BY DEF familyVars
<1>1. Links'
  BY <1>0, Zenon DEF Links
<1>2. \A q \in Procs : parent[q] = current /\ Exiting => cptr[current] # NULL
  BY NoChild, Typed
<1>3. Parents'
  <2>1. \A p, q \in Procs : parent'[q] = p => Alive(p)' \/ (p = current /\ Exiting)'
    <3> SUFFICES ASSUME NEW p \in Procs, NEW q \in Procs, parent[q] = p
                 PROVE  Alive(p)' \/ (p = current /\ Exiting)'
      BY <1>0, Zenon
    <3>1. CASE Alive(p)
      BY <3>1, Zenon
    <3>2. CASE p = current /\ Exiting
      BY <1>2, <3>2, Zenon
    <3>. QED
      BY <3>1, <3>2, Zenon DEF Parents
  <2>2. \A p \in Procs : pc'[p] = "exit_children" => p = current' /\ state'[p] = "PROC_ZOMBIE"
    OBVIOUS
  <2>3. \A p \in Procs : p = idleproc \/ state'[p] = "PROC_NONE" <=> parent'[p] = NULL
    BY <1>0, Zenon DEF Parents
  <2>4. \A p \in Procs : parent'[p] = idleproc <=> p = initproc
    BY <1>0, Zenon DEF Parents
  <2>. QED
    BY <2>1, <2>2, <2>3, <2>4, Zenon DEF Parents
<1>4. Tree'
  BY <1>0, Zenon DEF Tree, IsDepth
<1>5. Counted'
  <2>1. {p \in Procs : state'[p] # "PROC_NONE"} = {p \in Procs : state[p] # "PROC_NONE"}
    OBVIOUS
  <2>. QED
    BY <1>0, <2>1, Zenon DEF Counted
<1>. QED
  BY <1>1, <1>3, <1>4, <1>5

-----------------------------------------------------------------------------
(* The family, step by step.                                                *)

Family == Links /\ Parents /\ Tree /\ Counted

\* A fork adds a leaf to the tree.
LEMMA ForkFamily ==
  ASSUME IInv, Family, InitMainOnly, NEW p \in Procs, NEW l \in {"trap", "wait"},
         At("user") \/ At("boot"), do_fork(p, l)
  PROVE  Family'
<1>. ProcTypeOK /\ TimersMatchSleepers /\ WhereAsleep
  BY DEF IInv
<1>t. /\ current \in Procs /\ NULL \notin Procs /\ idleproc \in Procs /\ initproc \in Procs
      /\ idleproc # initproc
      /\ parent \in Pointers /\ cptr \in Pointers /\ optr \in Pointers /\ yptr \in Pointers
      /\ pc \in [Procs -> Label]
      /\ state \in [Procs -> ProcState] /\ wait_state \in [Procs -> WaitState]
  BY Typed
<1>0. /\ pc[current] \in {"user", "boot"}
      /\ ~Exiting /\ Younger = yptr
  BY YoungerIs, Zenon DEF At, Exiting
<1>1. current # idleproc /\ state[current] = "PROC_RUNNABLE"
  BY <1>0, <1>t, SMT DEF WhereAsleep, ProcState
<1>2. state[p] = "PROC_NONE" /\ p # current /\ p # idleproc /\ p # initproc
  <2>1. state[p] = "PROC_NONE"
    BY DEF do_fork
  <2>2. p # initproc
    BY <2>1, SMT DEF InitMainOnly, Alive
  <2>3. p # idleproc
    BY <2>1, SMT DEF WhereAsleep
  <2>. QED
    BY <1>1, <2>1, <2>2, <2>3
<1>3. parent[p] = NULL /\ \A q \in Procs : parent[q] # p
  BY <1>0, <1>2, <1>t, Zenon DEF Family, Parents, Alive
<1>4. /\ current' = current
      /\ \A q \in Procs : state'[q] = IF q = p THEN "PROC_RUNNABLE" ELSE state[q]
      /\ \A q \in Procs : pc'[q] = IF q = current THEN l ELSE IF q = p THEN "user" ELSE pc[q]
      /\ \A q \in Procs : parent'[q] = IF q = p THEN current ELSE parent[q]
      /\ nr_process' = nr_process + 1
  <2>1. /\ current' = current
        /\ \A q \in Procs : state'[q] = IF q = p THEN "PROC_RUNNABLE" ELSE state[q]
    BY <1>2, <1>t, SMT DEF do_fork, wakeup_proc, wakeup, Woken
  <2>2. \A q \in Procs : pc'[q] = IF q = current THEN l ELSE IF q = p THEN "user" ELSE pc[q]
    BY <1>2, <1>t, SMT DEF do_fork
  <2>3. /\ \A q \in Procs : parent'[q] = IF q = p THEN current ELSE parent[q]
        /\ nr_process' = nr_process + 1
    BY <1>t, Zenon DEF do_fork, set_links, Pointers
  <2>. QED
    BY <2>1, <2>2, <2>3
<1>5. ~Exiting'
  BY <1>4, <1>t, SMT DEF Exiting
<1>6. /\ \A q \in Procs : cptr'[q] = IF q = current THEN p ELSE cptr[q]
      /\ \A q \in Procs : optr'[q] = IF q = p THEN cptr[current] ELSE optr[q]
      /\ \A q \in Procs : Younger'[q] = IF q = p THEN NULL
                                        ELSE IF q = cptr[current] THEN p ELSE yptr[q]
  <2>1. /\ \A q \in Procs : cptr'[q] = IF q = current THEN p ELSE cptr[q]
        /\ \A q \in Procs : optr'[q] = IF q = p THEN cptr[current] ELSE optr[q]
    BY <1>t, Zenon DEF do_fork, set_links, Pointers
  <2>2. \A q \in Procs : yptr'[q] = IF q = p THEN NULL
                                    ELSE IF q = cptr[current] THEN p ELSE yptr[q]
    <3>1. yptr' = [q \in Procs |-> CASE q = p -> NULL
                                     [] q = cptr[current] -> p
                                     [] OTHER -> yptr[q]]
      BY Zenon DEF do_fork, set_links
    <3>2. cptr[current] # p
      BY <1>3, <1>t, Zenon DEF Family, Links, IsFamily
    <3>. QED
      BY <3>1, <3>2, SMT
  <2>3. \A q \in Procs : Younger'[q] = yptr'[q]
    BY <1>5, SMT DEF Younger
  <2>. QED
    BY <2>1, <2>2, <2>3
<1>7. Links'
  <2>1. IsFamily(parent, cptr, optr, yptr)
    BY <1>0, Zenon DEF Family, Links
  <2>2. Adds(p, current, parent, cptr, optr, yptr, parent', cptr', optr', Younger')
    BY <1>4, <1>6, Zenon DEF Adds
  <2>3. parent[p] = NULL /\ current # p
    BY <1>2, <1>3
  <2>4. IsFamily(parent', cptr', optr', Younger')
    BY <1>t, <2>1, <2>2, <2>3, AddChild
  <2>. QED
    BY <2>4, Zenon DEF Links
<1>8. Parents'
  <2>1. \A q \in Procs : q = idleproc \/ state'[q] = "PROC_NONE" <=> parent'[q] = NULL
    BY <1>2, <1>4, <1>t, SMT DEF Family, Parents
  <2>2. \A q \in Procs : parent'[q] = idleproc <=> q = initproc
    BY <1>1, <1>2, <1>4, SMT DEF Family, Parents
  <2>3. \A r, q \in Procs : parent'[q] = r => Alive(r)'
    BY <1>0, <1>1, <1>2, <1>4, SMT DEF Family, Parents, Alive
  <2>4. \A q \in Procs : pc'[q] # "exit_children"
    BY <1>0, <1>4, SMT DEF Family, Parents, Exiting
  <2>. QED
    BY <2>1, <2>2, <2>3, <2>4, Zenon DEF Parents
<1>9. Tree'
  <2>1. PICK depth : IsDepth(depth)
    BY Zenon DEF Family, Tree
  <2>2. /\ depth \in [Procs -> Nat]
        /\ depth[initproc] = 0
        /\ \A r, q \in Procs \ {idleproc} : parent[q] = r => depth[r] < depth[q]
    BY <2>1, Zenon DEF IsDepth
  <2>3. PICK d : d = [q \in Procs |-> IF q = p THEN depth[current] + 1 ELSE depth[q]]
    OBVIOUS
  <2>4. \A q \in Procs : d[q] = (IF q = p THEN depth[current] + 1 ELSE depth[q]) /\ depth[q] \in Nat
    BY <2>2, <2>3
  <2>5. d \in [Procs -> Nat]
    BY <1>t, <2>2, <2>3, SMT
  <2>6. \A r, q \in Procs \ {idleproc} : parent'[q] = r => d[r] < d[q]
    BY <1>2, <1>3, <1>4, <1>t, <2>2, <2>4, SMT
  <2>7. d[initproc] = 0
    BY <1>2, <1>t, <2>2, <2>4
  <2>8. IsDepth(d)'
    BY <2>5, <2>6, <2>7, Zenon DEF IsDepth
  <2>. QED
    BY <2>8, Zenon DEF Tree
<1>10. Counted'
  <2> DEFINE S == {q \in Procs : state[q] # "PROC_NONE"}
  <2>1. {q \in Procs : state'[q] # "PROC_NONE"} = S \cup {p} /\ p \notin S /\ S \in SUBSET Procs
    BY <1>2, <1>4, Zenon
  <2>2. nr_process = Cardinality(S)
    BY Zenon DEF Family, Counted
  <2>. HIDE DEF S
  <2>3. IsFiniteSet(S)
    BY <2>1, ProcAssumption, FS_Subset
  <2>4. Cardinality(S \cup {p}) = Cardinality(S) + 1
    BY <2>1, <2>3, FS_AddElement
  <2>. QED
    BY <1>4, <2>1, <2>2, <2>4, Zenon DEF Counted
<1>. QED
  BY <1>7, <1>8, <1>9, <1>10 DEF Family

\* do_wait takes a leaf off the tree.
LEMMA ReapFamily ==
  ASSUME IInv, Family, InitMainOnly, NEW z \in Procs, WaitReap(z)
  PROVE  Family'
<1>. ProcTypeOK /\ TimersMatchSleepers /\ WhereAsleep
  BY DEF IInv
<1>. Links /\ Parents /\ Tree /\ Counted
  BY DEF Family
<1>t. /\ current \in Procs /\ NULL \notin Procs /\ idleproc \in Procs /\ initproc \in Procs
      /\ idleproc # initproc
      /\ parent \in Pointers /\ cptr \in Pointers /\ optr \in Pointers /\ yptr \in Pointers
      /\ pc \in [Procs -> Label]
      /\ state \in [Procs -> ProcState]
  BY Typed
<1>0. /\ pc[current] = "wait"
      /\ ~Exiting /\ Younger = yptr
  BY YoungerIs, Zenon DEF At, Exiting, WaitReap
<1>1. current # idleproc /\ state[current] = "PROC_RUNNABLE"
  BY <1>0, <1>t, SMT DEF WhereAsleep, ProcState
<1>2. /\ state[z] = "PROC_ZOMBIE" /\ parent[z] = current
      /\ z # current /\ z # idleproc /\ z # initproc
  <2>1. state[z] = "PROC_ZOMBIE" /\ parent[z] = current
    BY <1>t, FoundIs DEF WaitReap
  <2>2. z # initproc
    BY <2>1, SMT DEF InitMainOnly, Alive
  <2>3. z # idleproc
    BY <2>1, SMT DEF WhereAsleep
  <2>. QED
    BY <1>1, <2>1, <2>2, <2>3
<1>3. \A q \in Procs : parent[q] # z
  BY <1>2, <1>t, SMT DEF Parents, Alive
<1>4. /\ current' = current
      /\ \A q \in Procs : state'[q] = IF q = z THEN "PROC_NONE" ELSE state[q]
      /\ \A q \in Procs : parent'[q] = IF q = z THEN NULL ELSE parent[q]
      /\ nr_process' = nr_process - 1
  BY <1>t, Zenon DEF WaitReap, remove_links, Pointers
<1>5. \A q \in Procs : pc'[q] # "exit_children"
  <2>1. pc' = [pc EXCEPT ![current] = WaitReturns(TRUE), ![z] = "none"]
    BY Zenon DEF WaitReap
  <2>2. WaitReturns(TRUE) # "exit_children"
    BY DEF WaitReturns
  <2>3. \A q \in Procs : pc[q] # "exit_children"
    BY <1>0, Zenon DEF Parents, Exiting
  <2>4. PICK l : l = WaitReturns(TRUE)
    OBVIOUS
  <2>5. \A q \in Procs : pc'[q] = IF q = z THEN "none" ELSE IF q = current THEN l ELSE pc[q]
    <3>1. pc' = [pc EXCEPT ![current] = l, ![z] = "none"]
      BY <2>1, <2>4, Zenon
    <3>. QED
      BY <1>2, <1>t, <3>1, SMT
  <2>. QED
    BY <2>2, <2>3, <2>4, <2>5
<1>6. /\ \A q \in Procs : cptr'[q] = IF q = parent[z] /\ yptr[z] = NULL THEN optr[z] ELSE cptr[q]
      /\ \A q \in Procs : optr'[q] = IF q = z THEN NULL ELSE IF q = yptr[z] THEN optr[z] ELSE optr[q]
      /\ \A q \in Procs : Younger'[q] = IF q = z THEN NULL ELSE IF q = optr[z] THEN yptr[z] ELSE yptr[q]
  <2>1. \A q \in Procs : cptr'[q] = IF q = parent[z] /\ yptr[z] = NULL THEN optr[z] ELSE cptr[q]
    BY Zenon DEF WaitReap, remove_links
  <2>2. \A q \in Procs : optr'[q] = IF q = z THEN NULL ELSE IF q = yptr[z] THEN optr[z] ELSE optr[q]
    <3>1. optr' = [q \in Procs |-> CASE q = z -> NULL
                                     [] q = yptr[z] -> optr[z]
                                     [] OTHER -> optr[q]]
      BY Zenon DEF WaitReap, remove_links
    <3>2. yptr[z] # z
      BY <1>0, <1>t, YoungerIsNot, Typed, Zenon
    <3>. QED
      BY <3>1, <3>2, SMT
  <2>3. \A q \in Procs : yptr'[q] = IF q = z THEN NULL ELSE IF q = optr[z] THEN yptr[z] ELSE yptr[q]
    <3>1. yptr' = [q \in Procs |-> CASE q = z -> NULL
                                     [] q = optr[z] -> yptr[z]
                                     [] OTHER -> yptr[q]]
      BY Zenon DEF WaitReap, remove_links
    <3>2. optr[z] # z
      BY <1>0, <1>t, YoungerIsNot, Typed, Zenon
    <3>. QED
      BY <3>1, <3>2, SMT
  <2>4. \A q \in Procs : Younger'[q] = yptr'[q]
    BY <1>4, <1>5, <1>t, SMT DEF Younger, Exiting
  <2>. QED
    BY <2>1, <2>2, <2>3, <2>4
<1>7. Links'
  <2>1. IsFamily(parent, cptr, optr, yptr) /\ parent[z] # NULL
    BY <1>0, <1>2, <1>t, Zenon DEF Links
  <2>2. Removes(z, parent, cptr, optr, yptr, parent', cptr', optr', Younger')
    BY <1>4, <1>6, Zenon DEF Removes
  <2>3. IsFamily(parent', cptr', optr', Younger')
    BY <1>t, <2>1, <2>2, RemoveChild
  <2>. QED
    BY <2>3, Zenon DEF Links
<1>8. Parents'
  <2>1. \A q \in Procs : q = idleproc \/ state'[q] = "PROC_NONE" <=> parent'[q] = NULL
    BY <1>2, <1>4, <1>t, SMT DEF Parents
  <2>2. \A q \in Procs : parent'[q] = idleproc <=> q = initproc
    BY <1>2, <1>4, <1>t, SMT DEF Parents
  <2>3. \A r, q \in Procs : parent'[q] = r => Alive(r)'
    BY <1>0, <1>3, <1>4, <1>t, SMT DEF Parents, Alive
  <2>. QED
    BY <1>5, <2>1, <2>2, <2>3, Zenon DEF Parents
<1>9. Tree'
  <2>1. PICK depth : IsDepth(depth)
    BY Zenon DEF Tree
  <2>2. \A r, q \in Procs : parent'[q] = r => parent[q] = r
    BY <1>4, <1>t, SMT
  <2>3. IsDepth(depth)'
    BY <2>1, <2>2, Zenon DEF IsDepth
  <2>. QED
    BY <2>3, Zenon DEF Tree
<1>10. Counted'
  <2> DEFINE S == {q \in Procs : state[q] # "PROC_NONE"}
  <2>1. {q \in Procs : state'[q] # "PROC_NONE"} = S \ {z} /\ z \in S /\ S \in SUBSET Procs
    BY <1>2, <1>4, SMT
  <2>2. nr_process = Cardinality(S)
    BY Zenon DEF Counted
  <2>. HIDE DEF S
  <2>3. IsFiniteSet(S)
    BY <2>1, ProcAssumption, FS_Subset
  <2>4. Cardinality(S \ {z}) = Cardinality(S) - 1
    BY <2>1, <2>3, FS_RemoveElement
  <2>. QED
    BY <1>4, <2>1, <2>2, <2>4, Zenon DEF Counted
<1>. QED
  BY <1>7, <1>8, <1>9, <1>10 DEF Family

\* do_exit moves the first of its children to the front of initproc's.
LEMMA ReparentFamily ==
  ASSUME IInv, Family, InitMainOnly, ReparentChild
  PROVE  Family'
<1>. ProcTypeOK /\ TimersMatchSleepers /\ WhereAsleep
  BY DEF IInv
<1>. Links /\ Parents /\ Tree /\ Counted
  BY DEF Family
<1>t. /\ current \in Procs /\ NULL \notin Procs /\ idleproc \in Procs /\ initproc \in Procs
      /\ idleproc # initproc
      /\ parent \in Pointers /\ cptr \in Pointers /\ optr \in Pointers /\ yptr \in Pointers
      /\ Younger \in Pointers
      /\ pc \in [Procs -> Label]
      /\ state \in [Procs -> ProcState] /\ wait_state \in [Procs -> WaitState]
  BY Typed
<1>f. /\ \A p, q \in Procs : cptr[p] = q <=> parent[q] = p /\ Younger[q] = NULL
      /\ \A q, r \in Procs : optr[q] = r => parent[q] = parent[r] /\ parent[q] # NULL
  BY Zenon DEF Links, IsFamily
<1> DEFINE x   == cptr[current]
           old == cptr[initproc]
           nxt == optr[x]
<1>0. pc[current] = "exit_children" /\ Exiting /\ x # NULL /\ x \in Procs
  BY <1>t, Zenon DEF At, Exiting, ReparentChild, Pointers
<1>1. current # idleproc /\ current # initproc /\ state[current] = "PROC_ZOMBIE"
  <2>1. state[current] = "PROC_ZOMBIE"
    BY <1>0, <1>t DEF Parents
  <2>2. current # initproc
    BY <2>1, SMT DEF InitMainOnly, Alive
  <2>. QED
    BY <1>0, <1>t, <2>1, <2>2, SMT DEF WhereAsleep
<1>2. /\ parent[x] = current /\ Younger[x] = NULL
      /\ x # initproc /\ x # idleproc
      /\ nxt \in Procs \cup {NULL} /\ old \in Procs \cup {NULL}
      /\ old \in Procs => parent[old] = initproc
      /\ nxt \in Procs => parent[nxt] = current
      /\ nxt # x
  <2>1. parent[x] = current /\ Younger[x] = NULL
    BY <1>0, <1>t, <1>f
  <2>2. x # initproc /\ x # idleproc
    <3>1. parent[initproc] = idleproc /\ parent[idleproc] = NULL
      BY <1>t DEF Parents
    <3>. QED
      BY <1>1, <1>t, <2>1, <3>1
  <2>3. nxt \in Procs \cup {NULL} /\ old \in Procs \cup {NULL}
    BY <1>0, <1>t, Zenon DEF Pointers
  <2>4. old \in Procs => parent[old] = initproc
    BY <1>t, <1>f
  <2>5. nxt \in Procs => parent[nxt] = current
    BY <1>0, <1>f, <2>1
  <2>6. nxt # x
    BY <1>0, YoungerIsNot
  <2>. QED
    BY <2>1, <2>2, <2>3, <2>4, <2>5, <2>6
<1> HIDE DEF x, old, nxt
<1>3. /\ current' = current
      /\ \A q \in Procs : state'[q] = state[q] \/ (q = initproc /\ state'[q] = "PROC_RUNNABLE")
      /\ pc' = pc
      /\ \A q \in Procs : parent'[q] = IF q = x THEN initproc ELSE parent[q]
      /\ nr_process' = nr_process
      /\ Exiting'
  <2>1. /\ current' = current
        /\ \A q \in Procs : state'[q] = state[q] \/ (q = initproc /\ state'[q] = "PROC_RUNNABLE")
    BY <1>t, Zenon DEF ReparentChild, wakeup_proc, wakeup, Woken, InitWaitingFor
  <2>2. /\ pc' = pc /\ nr_process' = nr_process
        /\ \A q \in Procs : parent'[q] = IF q = x THEN initproc ELSE parent[q]
    BY <1>t, Zenon DEF ReparentChild, Pointers, x
  <2>. QED
    BY <1>0, <2>1, <2>2, Zenon DEF Exiting
<1>4. \A q \in Procs : cptr'[q] = IF q = initproc THEN x ELSE IF q = current THEN nxt ELSE cptr[q]
  BY <1>1, <1>t, SMT DEF ReparentChild, Pointers, x, nxt
<1>5. \A q \in Procs : optr'[q] = IF q = x THEN old ELSE optr[q]
  BY <1>t, Zenon DEF ReparentChild, Pointers, x, old
<1>6. \A q \in Procs : Younger'[q] = IF q = x THEN NULL
                                     ELSE IF q = old THEN x
                                     ELSE IF q = nxt THEN NULL ELSE Younger[q]
  <2>1. yptr' = [q \in Procs |-> CASE q = x -> NULL
                                   [] q = old -> x
                                   [] OTHER -> yptr[q]]
    BY Zenon DEF ReparentChild, x, old
  <2>2. old # x /\ (old = nxt => old \notin Procs)
    BY <1>0, <1>1, <1>2
  <2>3. \A q \in Procs : yptr'[q] = IF q = x THEN NULL ELSE IF q = old THEN x ELSE yptr[q]
    BY <2>1, <2>2, SMT
  <2>4. cptr'[current'] = nxt
    BY <1>1, <1>3, <1>4, <1>t
  <2>5. \A q \in Procs : Younger'[q] = IF q = nxt THEN NULL ELSE yptr'[q]
    BY <1>3, <2>4, SMT DEF Younger
  <2>6. \A q \in Procs \ {x} : Younger[q] = yptr[q]
    BY SMT DEF Younger, x
  <2>. QED
    BY <2>2, <2>3, <2>5, <2>6, SMT
<1>7. Links'
\* Take the child out of the list of current,
  <2> DEFINE pa == [q \in Procs |-> IF q = x THEN NULL ELSE parent[q]]
             c  == [q \in Procs |-> IF q = current THEN nxt ELSE cptr[q]]
             o  == [q \in Procs |-> IF q = x THEN NULL ELSE optr[q]]
             y  == [q \in Procs |-> IF q = x \/ q = nxt THEN NULL ELSE Younger[q]]
  <2>1. Removes(x, parent, cptr, optr, Younger, pa, c, o, y)
    BY <1>2, <1>t, SMT DEF nxt, Removes
  <2>2. pa \in Pointers /\ c \in Pointers /\ o \in Pointers /\ y \in Pointers
    BY <1>2, <1>t, SMT DEF Pointers
  <2>3. /\ pa[x] = NULL /\ c[initproc] = old
        /\ \A q \in Procs : pa[q] = IF q = x THEN NULL ELSE parent[q]
        /\ \A q \in Procs : c[q] = IF q = current THEN nxt ELSE cptr[q]
        /\ \A q \in Procs : o[q] = IF q = x THEN NULL ELSE optr[q]
        /\ \A q \in Procs : y[q] = IF q = x \/ q = nxt THEN NULL ELSE Younger[q]
    BY <1>0, <1>1, <1>t, SMT DEF old
  <2>. HIDE DEF pa, c, o, y
  <2>4. parent[x] # NULL
    BY <1>2, <1>t
  <2>5. IsFamily(pa, c, o, y)
    BY <1>0, <1>t, <2>1, <2>4, RemoveChild DEF Links
\* and put it at the front of the list of initproc.
  <2>6. Adds(x, initproc, pa, c, o, y, parent', cptr', optr', Younger')
    BY <1>3, <1>4, <1>5, <1>6, <2>3, SMT DEF Adds
  <2>7. IsFamily(parent', cptr', optr', Younger')
    <3>1. initproc \in Procs /\ x \in Procs /\ initproc # x /\ pa[x] = NULL
      BY <1>0, <1>2, <1>t, <2>3
    <3>. QED
      BY <2>2, <2>5, <2>6, <3>1, AddChild
  <2>. QED
    BY <2>7, Zenon DEF Links
<1>8. Parents'
  <2>1. \A q \in Procs : q = idleproc \/ state'[q] = "PROC_NONE" <=> parent'[q] = NULL
    BY <1>2, <1>3, <1>t, SMT DEF Parents, InitMainOnly, Alive
  <2>2. \A q \in Procs : parent'[q] = idleproc <=> q = initproc
    BY <1>2, <1>3, <1>t, SMT DEF Parents
  <2>3. \A r, q \in Procs : parent'[q] = r => Alive(r)' \/ (r = current /\ Exiting)'
    BY <1>0, <1>3, <1>t, SMT DEF Parents, Alive, InitMainOnly
  <2>4. \A q \in Procs : pc'[q] = "exit_children" => q = current' /\ state'[q] = "PROC_ZOMBIE"
    BY <1>1, <1>3, SMT DEF Parents
  <2>. QED
    BY <2>1, <2>2, <2>3, <2>4, Zenon DEF Parents
<1>9. Tree'
  <2>1. PICK depth : IsDepth(depth)
    BY Zenon DEF Tree
  <2>2. /\ depth \in [Procs -> Nat]
        /\ depth[initproc] = 0
        /\ \A r, q \in Procs \ {idleproc} : parent[q] = r => depth[r] < depth[q]
    BY <2>1, Zenon DEF IsDepth
  <2>3. depth[current] < depth[x] /\ depth[current] \in Nat /\ depth[x] \in Nat
    BY <1>0, <1>1, <1>2, <1>t, <2>2
  <2>4. \A r, q \in Procs \ {idleproc} : parent'[q] = r => depth[r] < depth[q]
    BY <1>0, <1>1, <1>2, <1>3, <1>t, <2>2, <2>3, SMT
  <2>5. IsDepth(depth)'
    BY <2>2, <2>4, Zenon DEF IsDepth
  <2>. QED
    BY <2>5, Zenon DEF Tree
<1>10. Counted'
  <2>1. {q \in Procs : state'[q] # "PROC_NONE"} = {q \in Procs : state[q] # "PROC_NONE"}
    BY <1>3, SMT DEF InitMainOnly, Alive
  <2>. QED
    BY <1>3, <2>1, Zenon DEF Counted
<1>. QED
  BY <1>7, <1>8, <1>9, <1>10 DEF Family

\* do_exit up to its first wakeup: from here to ExitDone the children have a
\* dead parent.
LEMMA ExitFamily ==
  ASSUME IInv, Family, InitMainOnly, ProcTypeOK', do_exit, current # initproc
  PROVE  Family'
<1>. ProcTypeOK /\ TimersMatchSleepers /\ WhereAsleep
  BY DEF IInv
<1>. Links /\ Parents /\ Tree /\ Counted
  BY DEF Family
<1>t. /\ current \in Procs /\ NULL \notin Procs
      /\ cptr \in Pointers /\ yptr \in Pointers
      /\ pc \in [Procs -> Label]
      /\ state \in [Procs -> ProcState] /\ wait_state \in [Procs -> WaitState]
  BY Typed
<1>0. pc[current] = "exit" /\ ~Exiting /\ Younger = yptr
  BY YoungerIs, Zenon DEF At, Exiting, do_exit
<1>1. wait_state[current] = "0" /\ state[current] = "PROC_RUNNABLE"
  BY <1>0, <1>t, SMT DEF WhereAsleep, ProcState
<1>2. /\ current' = current
      /\ UNCHANGED familyVars
      /\ \A p \in Procs : pc'[p] = IF p = current THEN "exit_children" ELSE pc[p]
  BY <1>t, Zenon DEF do_exit, wakeup_proc, wakeup, Goto
<1>3. /\ state'[current] = "PROC_ZOMBIE"
      /\ \A p \in Procs \ {current} : \/ state'[p] = state[p]
                                      \/ state'[p] = "PROC_RUNNABLE" /\ wait_state[p] # "0"
  BY <1>1, <1>t, SMT DEF do_exit, wakeup_proc, wakeup, Woken, ParentWaiting
<1>4. Exiting'
  BY <1>2, <1>t DEF Exiting
<1>5. Younger' = Younger
  <2>1. cptr' = cptr /\ yptr' = yptr
    BY <1>2 DEF familyVars
  <2>2. \A q \in Procs : q = cptr[current] => yptr[q] = NULL
    BY <1>0, <1>t, Zenon DEF Links, IsFamily
  <2>3. Younger' = [q \in Procs |-> IF q = cptr[current] THEN NULL ELSE yptr[q]]
    BY <1>2, <1>4, <2>1, SMT DEF Younger
  <2>. QED
    BY <1>0, <1>t, <2>2, <2>3, SMT DEF Pointers
<1>6. \A p \in Procs : state'[p] = "PROC_NONE" <=> state[p] = "PROC_NONE"
  BY <1>1, <1>3, SMT DEF WhereAsleep
<1>7. \A p \in Procs : Alive(p) => Alive(p)' \/ (p = current /\ Exiting)'
  BY <1>2, <1>3, <1>4, SMT DEF Alive
<1>8. \A p \in Procs : pc'[p] = "exit_children" => p = current' /\ state'[p] = "PROC_ZOMBIE"
  BY <1>0, <1>2, <1>3, SMT DEF Parents, Exiting
<1>. QED
  BY <1>0, <1>2, <1>5, <1>6, <1>7, <1>8, KeepFamily DEF Family

\* The other steps neither end a process nor touch the links.
LEMMA QuietFamily ==
  ASSUME IInv, Family, ProcTypeOK', UNCHANGED familyVars, ~Exiting,
         \A p \in Procs : \/ state'[p] = state[p]
                          \/ Alive(p) /\ state'[p] \in {"PROC_RUNNABLE", "PROC_SLEEPING"},
         \A p \in Procs : pc'[p] = "exit_children" => pc[p] = "exit_children"
  PROVE  Family'
<1>. ProcTypeOK
  BY DEF IInv
<1>. Links /\ Parents /\ Tree /\ Counted
  BY DEF Family
<1>1. current' \in Procs /\ yptr' = yptr /\ yptr \in Pointers
  BY Typed DEF ProcTypeOK, SchedTypeOK, familyVars
<1>2. \A p \in Procs : pc'[p] # "exit_children"
  BY Zenon DEF Parents, Exiting
<1>3. ~Exiting'
  BY <1>1, <1>2, Zenon DEF Exiting
<1>4. Younger' = Younger
  <2>1. Younger = yptr
    BY YoungerIs
  <2>2. Younger' = [q \in Procs |-> yptr'[q]]
    BY <1>3, SMT DEF Younger
  <2>. QED
    BY <1>1, <2>1, <2>2, SMT DEF Pointers
<1>5. \A p \in Procs : state'[p] = "PROC_NONE" <=> state[p] = "PROC_NONE"
  BY SMT DEF Alive
<1>6. \A p \in Procs : Alive(p) => Alive(p)'
  BY SMT DEF Alive
<1>. QED
  BY <1>2, <1>4, <1>5, <1>6, KeepFamily DEF Family

\* Every step keeps the family links, the parents, the tree and the count.
LEMMA NextFamily == FInv /\ [Next]_vars => Family'
<1> SUFFICES ASSUME FInv, [Next]_vars PROVE Family'
  OBVIOUS
<1>. IInv /\ Family /\ InitMainOnly /\ ProcTypeOK /\ TimersMatchSleepers /\ WhereAsleep
  BY DEF FInv, IInv, Family
<1>. ProcTypeOK'
  BY NextType
<1>t. /\ current \in Procs
      /\ pc \in [Procs -> Label]
      /\ state \in [Procs -> ProcState] /\ wait_state \in [Procs -> WaitState]
  BY Typed
<1>move. ASSUME NEW l0, l0 # "exit_children", At(l0), NEW l, l # "exit_children", Goto(l),
                UNCHANGED <<state, familyVars>>
         PROVE  Family'
  <2>1. ~Exiting
    BY <1>move DEF At, Exiting
  <2>2. \A p \in Procs : pc'[p] = "exit_children" => pc[p] = "exit_children"
    BY <1>move, <1>t, Zenon DEF Goto
  <2>3. UNCHANGED familyVars /\ \A p \in Procs : state'[p] = state[p]
    BY <1>move
  <2>. QED
    BY <2>1, <2>2, <2>3, QuietFamily
<1>sleep. ASSUME At("user") \/ At("wait"), NEW ws, go_to_sleep(ws), NEW l, l # "exit_children", Goto(l),
                 UNCHANGED familyVars
          PROVE  Family'
  <2>1. ~Exiting /\ state[current] = "PROC_RUNNABLE"
    BY <1>sleep, <1>t, SMT DEF At, Exiting, WhereAsleep, ProcState
  <2>2. \A p \in Procs : pc'[p] = "exit_children" => pc[p] = "exit_children"
    BY <1>sleep, <1>t, Zenon DEF Goto
  <2>3. \A p \in Procs : \/ state'[p] = state[p]
                         \/ Alive(p) /\ state'[p] \in {"PROC_RUNNABLE", "PROC_SLEEPING"}
    BY <1>sleep, <1>t, <2>1, SMT DEF go_to_sleep, Alive
  <2>. QED
    BY <1>sleep, <2>1, <2>2, <2>3, QuietFamily
<1>wake. ASSUME ~Exiting, NEW P \in SUBSET Procs, \A p \in P : state[p] = "PROC_SLEEPING",
                wakeup(P, state, wait_state), UNCHANGED familyVars,
                \A p \in Procs : pc'[p] = "exit_children" => pc[p] = "exit_children"
         PROVE  Family'
  <2>1. \A p \in Procs : \/ state'[p] = state[p]
                         \/ Alive(p) /\ state'[p] \in {"PROC_RUNNABLE", "PROC_SLEEPING"}
    BY <1>wake, <1>t, SMT DEF wakeup, Woken, Alive
  <2>. QED
    BY <1>wake, <2>1, QuietFamily
<1>user. CASE UserStep
  <2>1. ASSUME NEW p \in Procs, Fork(p) PROVE Family'
    BY <2>1, ForkFamily DEF Fork
  <2>2. ASSUME NEW p \in Procs, Kill(p) PROVE Family'
    <3> DEFINE P == {q \in {p} : WakesOnKill(q)}
    <3>1. \A q \in P : state[q] = "PROC_SLEEPING"
      BY SMT DEF WakesOnKill, WT_INTERRUPTED, WhereAsleep
    <3>2. ~Exiting /\ P \in SUBSET Procs
      BY <2>2 DEF Kill, At, Exiting
    <3>3. \A q \in Procs : pc'[q] = "exit_children" => pc[q] = "exit_children"
      BY <2>2, <1>t, SMT DEF Kill, Goto
    <3>4. wakeup(P, state, wait_state) /\ UNCHANGED familyVars
      BY <2>2 DEF Kill, wakeup_proc
    <3>. HIDE DEF P
    <3>. QED
      BY <1>wake, <3>1, <3>2, <3>3, <3>4
  <2>3. ASSUME NEW t \in 1 .. MaxSleep, Sleep(t) PROVE Family'
    BY <2>3, <1>sleep DEF Sleep
  <2>4. ASSUME NEW p, Wait(p) PROVE Family'
    BY <2>4, <1>move DEF Wait, schedVars
  <2>. QED
    BY <1>user, <1>move, <2>1, <2>2, <2>3, <2>4, ProcAssumption
    DEF UserStep, Yield, Exit, OtherSyscall, schedVars
<1>kernel. CASE KernelStep
  <2>1. ASSUME NEW p \in Procs, InitMain(p) PROVE Family'
    BY <2>1, ForkFamily DEF InitMain
  <2>2. CASE do_exit
    <3>1. CASE current = initproc
      BY <2>2, <3>1, <1>move DEF do_exit, schedVars
    <3>2. CASE current # initproc
      BY <2>2, <3>2, ExitFamily
    <3>. QED
      BY <3>1, <3>2
  <2>3. CASE ReparentChild
    BY <2>3, ReparentFamily
  <2>4. CASE ExitDone
    <3>1. /\ cptr[current] = NULL /\ NULL \notin Procs
          /\ UNCHANGED <<current, state, familyVars>>
          /\ pc' = [pc EXCEPT ![current] = "exit_sched"]
      BY <2>4, ProcAssumption DEF ExitDone, Goto, schedVars
    <3>2. ~Exiting'
      BY <1>t, <3>1, SMT DEF Exiting
    <3>3. Younger' = Younger
      BY <3>1, <3>2, SMT DEF Younger, familyVars
    <3>4. \A p \in Procs : pc'[p] # "exit_children"
      BY <1>t, <3>1, SMT DEF Family, Parents
    <3>5. \A p \in Procs : Alive(p) => Alive(p)'
      BY <3>1 DEF Alive
    <3>. QED
      BY <3>1, <3>3, <3>4, <3>5, KeepFamily DEF Family
  <2>5. ASSUME NEW z \in Procs, WaitReap(z) PROVE Family'
    BY <2>5, ReapFamily
  <2>6. CASE WaitSleep
    BY <2>6, <1>sleep DEF WaitSleep
  <2>7. CASE WaitBadProc
    <3>1. WaitReturns(FALSE) # "exit_children"
      BY DEF WaitReturns
    <3>. QED
      BY <2>7, <3>1, <1>move DEF WaitBadProc, schedVars
  <2>8. CASE WaitWake
    BY <2>8, <1>move DEF WaitWake, schedVars
  <2>9. CASE SleepWake
    BY <2>9, <1>move DEF SleepWake, schedVars
  <2>10. CASE SyscallReturn \/ IrqReturn
    BY <2>10, <1>move DEF SyscallReturn, IrqReturn, TrapTail, schedVars
  <2>11. CASE CpuIdle
    BY <2>11, <1>move DEF CpuIdle, schedVars
  <2>. QED
    BY <1>kernel, <2>1, <2>2, <2>3, <2>4, <2>5, <2>6, <2>7, <2>8, <2>9, <2>10, <2>11
    DEF KernelStep
<1>tick. CASE Tick
  <2>1. /\ Fired \in SUBSET Procs
        /\ \A p \in Fired : state[p] \in {"PROC_SLEEPING", "PROC_RUNNABLE"}
    BY <1>t, SMT DEF Fired, TimersMatchSleepers, WhereAsleep, ProcState
  <2>2. wakeup(Fired, state, wait_state) /\ UNCHANGED familyVars /\ ~Exiting
    BY <1>tick DEF Tick, run_timers, IntrOff, Exiting
  <2>3. \A p \in Procs : pc'[p] = "exit_children" => pc[p] = "exit_children"
    BY <1>tick, <1>t, SMT DEF Tick
  <2>4. \A p \in Procs : \/ state'[p] = state[p]
                         \/ Alive(p) /\ state'[p] \in {"PROC_RUNNABLE", "PROC_SLEEPING"}
    BY <1>t, <2>1, <2>2, SMT DEF wakeup, Woken, Alive
  <2>. QED
    BY <2>2, <2>3, <2>4, QuietFamily
<1>schedule. ASSUME NEW next \in Procs, Schedule(next) PROVE Family'
  <2>1. /\ pc[current] \in DOMAIN Resume
        /\ pc' = [pc EXCEPT ![current] = Resume[pc[current]]]
        /\ UNCHANGED <<state, familyVars>>
    BY <1>schedule DEF Schedule, schedule, Goto
  <2>2. pc[current] # "exit_children" /\ Resume[pc[current]] # "exit_children"
    BY <2>1, SMT DEF Resume
  <2>3. \A p \in Procs : pc'[p] = "exit_children" => pc[p] = "exit_children"
    BY <1>t, <2>1, <2>2, Zenon
  <2>. QED
    BY <2>1, <2>2, <2>3, QuietFamily DEF Exiting
<1>stutter. CASE UNCHANGED vars
  <2>1. UNCHANGED <<current, state, pc, parent, cptr, optr, yptr, nr_process>>
    BY <1>stutter DEF vars, schedVars, familyVars
  <2>2. Exiting' = Exiting /\ Younger' = Younger
    BY <2>1, Zenon DEF Exiting, Younger
  <2>. QED
    BY <2>1, <2>2, Zenon DEF Family, Links, Parents, Alive, Tree, IsDepth, Counted
<1>. QED
  BY <1>user, <1>kernel, <1>tick, <1>schedule, <1>stutter DEF Next, Stopped

-----------------------------------------------------------------------------
(* initproc.                                                                *)

\* The labels of init_main.
MainLabels == {"boot", "wait", "wait_sched", "wait_wake", "main_sched", "exit", "panic", "halt"}

\* initproc stays in init_main; it ends in "halt" only from do_wait, when that
\* finds no child.
LEMMA NextInit ==
  ASSUME FInv, Next, ~Halted
  PROVE  /\ InitMainOnly'
         /\ pc'[initproc] = "halt" => WaitBadProc /\ current = initproc
<1>. InitMainOnly /\ ProcTypeOK /\ TimersMatchSleepers /\ WhereAsleep /\ IInv /\ Links /\ Parents
  BY DEF FInv, IInv
<1>t. /\ current \in Procs /\ initproc \in Procs
      /\ pc \in [Procs -> Label] /\ wait_pid \in Pointers
      /\ state \in [Procs -> ProcState] /\ wait_state \in [Procs -> WaitState]
  BY Typed
<1>0. /\ state[initproc] \in {"PROC_RUNNABLE", "PROC_SLEEPING"}
      /\ pc[initproc] \in {"boot", "wait", "wait_sched", "wait_wake", "main_sched", "exit"}
      /\ wait_pid[initproc] = NULL
  BY SMT DEF InitMainOnly, Alive, Halted
<1> DEFINE Goal == /\ state'[initproc] \in {"PROC_RUNNABLE", "PROC_SLEEPING"}
                   /\ pc'[initproc] \in MainLabels
                   /\ pc'[initproc] = "halt" => WaitBadProc /\ current = initproc
                   /\ wait_pid'[initproc] = NULL
<1> SUFFICES Goal
  BY Zenon DEF InitMainOnly, Alive, MainLabels
<1>move. ASSUME NEW l0, At(l0), NEW l, Goto(l),
                current = initproc => l \in MainLabels \ {"halt"},
                state'[initproc] \in {"PROC_RUNNABLE", "PROC_SLEEPING"},
                wait_pid'[initproc] = NULL
         PROVE  Goal
  <2>1. pc'[initproc] \in MainLabels \ {"halt"}
    BY <1>0, <1>move, <1>t, SMT DEF Goto, MainLabels
  <2>. QED
    BY <1>move, <2>1
<1>user. CASE UserStep
  <2>1. pc[current] = "user" /\ current # initproc
    BY <1>user, <1>0, Zenon DEF UserStep, Fork, Wait, Kill, Sleep, Yield, Exit, OtherSyscall, At
  <2>2. ASSUME NEW p \in Procs, Fork(p) PROVE Goal
    <3>1. pc'[initproc] = pc[initproc] /\ state'[initproc] = state[initproc]
          /\ wait_pid'[initproc] = wait_pid[initproc]
      BY <1>0, <1>t, <2>1, <2>2, SMT DEF Fork, do_fork, wakeup_proc, wakeup, Woken
    <3>. QED
      BY <1>0, <3>1, SMT DEF MainLabels
  <2>3. ASSUME NEW p \in Procs, Kill(p) PROVE Goal
    <3>1. pc'[initproc] = pc[initproc] /\ state'[initproc] \in {state[initproc], "PROC_RUNNABLE"}
          /\ wait_pid'[initproc] = wait_pid[initproc]
      BY <1>t, <2>1, <2>3, SMT DEF Kill, wakeup_proc, wakeup, Woken, Goto
    <3>. QED
      BY <1>0, <3>1, SMT DEF MainLabels
  <2>4. ASSUME NEW t, Sleep(t) PROVE Goal
    <3>1. pc'[initproc] = pc[initproc] /\ state'[initproc] = state[initproc]
          /\ wait_pid'[initproc] = wait_pid[initproc]
      BY <1>t, <2>1, <2>4, Zenon DEF Sleep, go_to_sleep, Goto
    <3>. QED
      BY <1>0, <3>1, SMT DEF MainLabels
  <2>5. ASSUME NEW p, Wait(p) PROVE Goal
    <3>1. wait_pid'[initproc] = wait_pid[initproc]
      BY <1>t, <2>1, <2>5, Zenon DEF Wait, Pointers
    <3>. QED
      BY <1>0, <1>move, <2>1, <2>5, <3>1 DEF Wait, schedVars
  <2>. QED
    BY <1>user, <1>0, <1>move, <2>1, <2>2, <2>3, <2>4, <2>5, ProcAssumption
    DEF UserStep, Yield, Exit, OtherSyscall, schedVars
<1>kernel. CASE KernelStep
  <2>1. ASSUME NEW p \in Procs, InitMain(p) PROVE Goal
    <3>1. /\ pc'[initproc] \in {pc[initproc], "wait"}
          /\ state'[initproc] = state[initproc]
          /\ wait_pid'[initproc] = wait_pid[initproc]
      BY <1>0, <1>t, <2>1, SMT DEF InitMain, do_fork, wakeup_proc, wakeup, Woken
    <3>. QED
      BY <1>0, <3>1, SMT DEF MainLabels
  <2>2. CASE do_exit
    <3>1. CASE current = initproc
      BY <1>0, <2>2, <3>1, <1>move DEF do_exit, schedVars, MainLabels
    <3>2. CASE current # initproc
      <4>1. state'[initproc] \in {state[initproc], "PROC_RUNNABLE"}
        BY <1>t, <2>2, <3>2, SMT DEF do_exit, wakeup_proc, wakeup, Woken
      <4>. QED
        BY <1>0, <1>move, <2>2, <3>2, <4>1 DEF do_exit
    <3>. QED
      BY <3>1, <3>2
  <2>3. CASE ReparentChild
    <3>1. /\ state'[initproc] \in {state[initproc], "PROC_RUNNABLE"}
          /\ pc'[initproc] = pc[initproc] /\ wait_pid'[initproc] = wait_pid[initproc]
      BY <1>t, <2>3, Zenon DEF ReparentChild, wakeup_proc, wakeup, Woken, InitWaitingFor
    <3>. QED
      BY <1>0, <3>1, SMT DEF MainLabels
  <2>4. CASE ExitDone
    <3>1. current # initproc
      BY <1>0, <2>4, SMT DEF ExitDone, At
    <3>. QED
      BY <1>0, <1>move, <2>4, <3>1 DEF ExitDone, schedVars
  <2>5. ASSUME NEW z \in Procs, WaitReap(z) PROVE Goal
    <3>1. z # initproc /\ z # current
      <4>1. state[z] = "PROC_ZOMBIE" /\ pc[current] = "wait"
        BY <2>5 DEF WaitReap, Found, At
      <4>. QED
        BY <1>0, <1>t, <4>1, SMT DEF WhereAsleep
    <3>2. pc' = [pc EXCEPT ![current] = WaitReturns(TRUE), ![z] = "none"]
      BY <2>5 DEF WaitReap
    <3>3. current = initproc => WaitReturns(TRUE) = "main_sched"
      BY DEF WaitReturns
    <3>4. pc'[initproc] \in {pc[initproc], "main_sched"}
      BY <1>t, <3>1, <3>2, <3>3, Zenon
    <3>5. state'[initproc] = state[initproc] /\ wait_pid'[initproc] = NULL
      BY <1>0, <1>t, <2>5, <3>1, SMT DEF WaitReap, Pointers
    <3>. QED
      BY <1>0, <3>4, <3>5, SMT DEF MainLabels
  <2>6. CASE WaitSleep
    <3>1. state'[initproc] \in {state[initproc], "PROC_SLEEPING"}
      BY <1>t, <2>6, SMT DEF WaitSleep, go_to_sleep
    <3>. QED
      BY <1>0, <1>move, <2>6, <3>1 DEF WaitSleep, MainLabels
  <2>7. CASE WaitBadProc
    <3>1. state' = state /\ wait_pid'[initproc] = NULL
      BY <1>0, <1>t, <2>7, SMT DEF WaitBadProc, schedVars, Pointers
    <3>2. CASE current = initproc
      <4>1. pc'[initproc] = "halt"
        BY <1>t, <2>7, <3>2, Zenon DEF WaitBadProc, WaitReturns, Goto
      <4>. QED
        BY <1>0, <2>7, <3>1, <3>2, <4>1, SMT DEF MainLabels
    <3>3. CASE current # initproc
      BY <1>0, <1>move, <2>7, <3>1, <3>3 DEF WaitBadProc
    <3>. QED
      BY <3>2, <3>3
  <2>8. CASE WaitWake
    BY <1>0, <2>8, <1>move, SMT DEF WaitWake, schedVars, MainLabels
  <2>9. CASE SleepWake \/ SyscallReturn \/ IrqReturn \/ CpuIdle
    <3>1. current # initproc
      BY <1>0, <2>9, SMT DEF SleepWake, SyscallReturn, IrqReturn, TrapTail, CpuIdle, At
    <3>. QED
      BY <1>0, <1>move, <2>9, <3>1
      DEF SleepWake, SyscallReturn, IrqReturn, TrapTail, CpuIdle, schedVars
  <2>. QED
    BY <1>kernel, <2>1, <2>2, <2>3, <2>4, <2>5, <2>6, <2>7, <2>8, <2>9 DEF KernelStep
<1>tick. CASE Tick
  <2>1. /\ state'[initproc] \in {state[initproc], "PROC_RUNNABLE"}
        /\ pc'[initproc] = pc[initproc]
        /\ wait_pid'[initproc] = wait_pid[initproc]
    BY <1>0, <1>t, <1>tick, SMT DEF Tick, run_timers, wakeup, Woken
  <2>. QED
    BY <1>0, <2>1, SMT DEF MainLabels
<1>schedule. ASSUME NEW next \in Procs, Schedule(next) PROVE Goal
  <2>1. /\ pc[current] \in DOMAIN Resume
        /\ pc' = [pc EXCEPT ![current] = Resume[pc[current]]]
        /\ UNCHANGED <<state, wait_pid>>
    BY <1>schedule DEF Schedule, schedule, Goto
  <2>2. current = initproc => Resume[pc[current]] \in {"wait_wake", "wait"}
    BY <1>0, <2>1, SMT DEF Resume
  <2>3. pc'[initproc] \in {pc[initproc], "wait_wake", "wait"}
    BY <1>t, <2>1, <2>2, Zenon
  <2>. QED
    BY <1>0, <2>1, <2>3, SMT DEF MainLabels
<1>. QED
  BY <1>user, <1>kernel, <1>tick, <1>schedule DEF Next, Stopped

\* When initproc has no child left, nobody else has.
LEMMA LastOne ==
  ASSUME IInv, Family, InitMainOnly, current = initproc, ~Exiting,
         \A q \in Procs : parent[q] # initproc
  PROVE  /\ cptr[initproc] = NULL /\ yptr[initproc] = NULL /\ optr[initproc] = NULL
         /\ nr_process = 2
<1>. ProcTypeOK /\ Links /\ Parents /\ Tree /\ Counted /\ WhereAsleep
  BY DEF IInv, Family
<1>t. /\ NULL \notin Procs /\ idleproc \in Procs /\ initproc \in Procs /\ idleproc # initproc
      /\ cptr \in Pointers /\ optr \in Pointers /\ yptr \in Pointers /\ parent \in Pointers
  BY Typed
<1>f. /\ \A p, q \in Procs : cptr[p] = q <=> parent[q] = p /\ yptr[q] = NULL
      /\ \A q, r \in Procs : optr[q] = r <=> yptr[r] = q
      /\ \A q, r \in Procs : optr[q] = r => parent[q] = parent[r] /\ parent[q] # NULL
  <2>1. Younger = yptr
    BY YoungerIs
  <2>2. IsFamily(parent, cptr, optr, yptr)
    BY <2>1, Zenon DEF Links
  <2>. QED
    BY <2>2, Zenon DEF IsFamily
<1>p. /\ cptr[initproc] \in Procs \cup {NULL}
      /\ optr[initproc] \in Procs \cup {NULL}
      /\ yptr[initproc] \in Procs \cup {NULL}
  BY <1>t, Zenon DEF Pointers
<1>1. cptr[initproc] = NULL
  BY <1>t, <1>f, <1>p
<1>2. \A q \in Procs : parent[q] = idleproc <=> q = initproc
  BY DEF Parents
<1>3. optr[initproc] # initproc /\ yptr[initproc] # initproc
  BY <1>t, YoungerIsNot, YoungerIs
<1>4. optr[initproc] = NULL
  BY <1>t, <1>f, <1>p, <1>2, <1>3
<1>5. yptr[initproc] = NULL
  <2> SUFFICES ASSUME yptr[initproc] \in Procs PROVE FALSE
    BY <1>p
  <2>1. optr[yptr[initproc]] = initproc
    BY <1>t, <1>f
  <2>. QED
    BY <1>t, <1>f, <1>2, <1>3, <2>1
\* A process that is not a child of initproc has a parent that is not either.
<1>6. \A p \in Procs : state[p] # "PROC_NONE" => p \in {idleproc, initproc}
  <2>1. PICK depth : IsDepth(depth)
    BY DEF Tree
  <2> DEFINE S == {p \in Procs \ {idleproc, initproc} : state[p] # "PROC_NONE"}
             A == {depth[p] : p \in S}
  <2> SUFFICES ASSUME S # {} PROVE FALSE
    BY Zenon
  <2>2. A \in SUBSET Nat /\ A # {}
    BY <2>1, Zenon DEF IsDepth
  <2>3. PICK m \in A : \A k \in A : m <= k
    <3>. HIDE DEF A
    <3>. QED
      BY <2>2, NatMin
  <2>4. PICK p \in S : \A q \in S : depth[p] <= depth[q]
    <3>. HIDE DEF S
    <3>. QED
      BY <2>3, Zenon
  <2>5. /\ p \in Procs /\ p # idleproc /\ p # initproc
        /\ parent[p] \in Procs /\ parent[p] # idleproc /\ parent[p] # initproc
    <3>1. p \in Procs /\ p # idleproc /\ p # initproc /\ state[p] # "PROC_NONE"
      OBVIOUS
    <3>2. parent[p] # NULL
      BY <3>1 DEF Parents
    <3>. QED
      BY <1>t, <1>2, <3>1, <3>2, Zenon DEF Pointers
  <2>6. Alive(parent[p])
    BY <2>5, Zenon DEF Parents
  <2>7. parent[p] \in S
    BY <2>5, <2>6, SMT DEF Alive
  <2>8. depth[parent[p]] < depth[p] /\ depth[parent[p]] \in Nat /\ depth[p] \in Nat
    BY <2>1, <2>5, Zenon DEF IsDepth
  <2>9. depth[p] <= depth[parent[p]]
    BY <2>4, <2>7, Zenon
  <2>. QED
    BY <2>8, <2>9, SMT
<1>7. nr_process = 2
  <2>1. {p \in Procs : state[p] # "PROC_NONE"} = {idleproc, initproc}
    <3>1. state[initproc] # "PROC_NONE"
      BY SMT DEF InitMainOnly, Alive
    <3>2. state[idleproc] # "PROC_NONE"
      BY <1>t, SMT DEF WhereAsleep
    <3>. QED
      BY <1>t, <1>6, <3>1, <3>2
  <2>2. {idleproc, initproc} = {idleproc} \cup {initproc} /\ initproc \notin {idleproc}
    BY <1>t
  <2>3. IsFiniteSet({idleproc}) /\ Cardinality({idleproc}) = 1
    BY FS_Singleton
  <2>4. Cardinality({idleproc} \cup {initproc}) = 1 + 1
    BY <2>2, <2>3, FS_AddElement
  <2>. QED
    BY <2>1, <2>2, <2>4, SMT DEF Counted
<1>. QED
  BY <1>1, <1>4, <1>5, <1>7

-----------------------------------------------------------------------------
(* The sleeps of do_wait.                                                   *)

\* Whoever sleeps on its children goes on having what it sleeps on.
LEMMA KeepWaiting ==
  ASSUME Waiting,
         \A p \in Procs : state'[p] = "PROC_SLEEPING" =>
           \/ wait_state'[p] \in {"WT_TIMER", "WT_CHILD"}
           \/ state[p] = "PROC_SLEEPING" /\ wait_state'[p] = wait_state[p],
         \A p \in Procs : wait_state'[p] = "WT_CHILD" =>
           /\ wait_state[p] = "WT_CHILD"
           /\ wait_pid'[p] = wait_pid[p]
           /\ \A q \in Procs : parent'[q] = p <=> parent[q] = p
           /\ \A q \in Procs : parent[q] = p /\ state'[q] = "PROC_ZOMBIE" => state[q] = "PROC_ZOMBIE"
  PROVE  Waiting'
<1>2. ASSUME NEW p \in Procs, wait_state'[p] = "WT_CHILD"
      PROVE  Kids(p)' # {} /\ \A q \in Kids(p)' : state'[q] # "PROC_ZOMBIE"
  <2>1. /\ wait_state[p] = "WT_CHILD"
        /\ wait_pid'[p] = wait_pid[p]
        /\ \A q \in Procs : parent'[q] = p <=> parent[q] = p
        /\ \A q \in Procs : parent[q] = p /\ state'[q] = "PROC_ZOMBIE" => state[q] = "PROC_ZOMBIE"
    BY <1>2
  <2>2. Kids(p)' = Kids(p)
    BY <2>1 DEF Kids
  <2>3. Kids(p) # {} /\ \A q \in Kids(p) : state[q] # "PROC_ZOMBIE"
    BY <2>1 DEF Waiting
  <2>4. \A q \in Kids(p) : q \in Procs /\ parent[q] = p
    BY DEF Kids
  <2>5. \A q \in Kids(p) : state'[q] # "PROC_ZOMBIE"
    BY <2>1, <2>3, <2>4
  <2>. QED
    BY <2>2, <2>3, <2>5
<1>3. \A p \in Procs : state'[p] = "PROC_SLEEPING" => wait_state'[p] \in {"WT_TIMER", "WT_CHILD"}
  BY Zenon DEF Waiting
<1>. QED
  BY <1>2, <1>3, Zenon DEF Waiting

\* No step leaves a process asleep in do_wait with a dead child or with none.
LEMMA NextWaiting ==
  ASSUME FInv, Next
  PROVE  Waiting'
<1>. /\ Waiting /\ InitMainOnly /\ ProcTypeOK /\ TimersMatchSleepers /\ WhereAsleep
     /\ IInv /\ Links /\ Parents
  BY DEF FInv, IInv
<1>t. /\ current \in Procs /\ initproc \in Procs /\ NULL \notin Procs
      /\ pc \in [Procs -> Label] /\ wait_pid \in Pointers /\ parent \in Pointers
      /\ state \in [Procs -> ProcState] /\ wait_state \in [Procs -> WaitState]
  BY Typed
<1>0. \A p \in Procs : state[p] # "PROC_SLEEPING" => wait_state[p] = "0"
  BY DEF WhereAsleep
<1>a. \A p \in Procs : state[p] = "PROC_SLEEPING" => wait_state[p] \in {"WT_TIMER", "WT_CHILD"}
  BY DEF Waiting
<1>same. ASSUME UNCHANGED <<state, wait_state, parent>>, wait_state[current] = "0",
                \A p \in Procs \ {current} : wait_pid'[p] = wait_pid[p]
         PROVE  Waiting'
  <2>1. \A p \in Procs : state'[p] = "PROC_SLEEPING" =>
           state[p] = "PROC_SLEEPING" /\ wait_state'[p] = wait_state[p]
    BY <1>same
  <2>2. \A p \in Procs : wait_state'[p] = "WT_CHILD" =>
           wait_state[p] = "WT_CHILD" /\ wait_pid'[p] = wait_pid[p]
    BY <1>same, SMT
  <2>. QED
    BY <1>same, <2>1, <2>2, KeepWaiting
<1>calm. ASSUME UNCHANGED <<state, wait_state, parent, wait_pid>> PROVE Waiting'
  BY <1>calm, KeepWaiting
<1>wake. ASSUME NEW P \in SUBSET Procs, wakeup(P, state, wait_state), UNCHANGED <<parent, wait_pid>>
         PROVE  Waiting'
  <2>1. \A p \in Procs : \/ state'[p] = state[p] /\ wait_state'[p] = wait_state[p]
                         \/ state'[p] = "PROC_RUNNABLE" /\ wait_state'[p] = "0"
    BY <1>wake, <1>t, SMT DEF wakeup, Woken
  <2>2. \A p \in Procs : state'[p] = "PROC_SLEEPING" =>
           state[p] = "PROC_SLEEPING" /\ wait_state'[p] = wait_state[p]
    BY <2>1, SMT
  <2>3. \A p \in Procs : wait_state'[p] = "WT_CHILD" => wait_state[p] = "WT_CHILD"
    BY <2>1, SMT
  <2>4. \A p \in Procs : state'[p] = "PROC_ZOMBIE" => state[p] = "PROC_ZOMBIE"
    BY <2>1, SMT
  <2>. QED
    BY <1>wake, <2>2, <2>3, <2>4, KeepWaiting
<1>fork. ASSUME NEW p \in Procs, NEW l, do_fork(p, l), state[current] # "PROC_SLEEPING" PROVE Waiting'
  <2>1. state[p] = "PROC_NONE" /\ wait_state[current] = "0" /\ wait_state[p] = "0"
    BY <1>fork, <1>t, <1>0, SMT DEF do_fork
  <2>2. p # idleproc
    BY <2>1, <1>t, SMT DEF WhereAsleep
  <2>3. parent[p] = NULL
    BY <2>1, <2>2 DEF Parents
  <2>4. \A q \in Procs : parent'[q] = IF q = p THEN current ELSE parent[q]
    BY <1>fork, <1>t, Zenon DEF do_fork, set_links, Pointers
  <2>5. /\ wait_pid' = wait_pid
        /\ \A q \in Procs : state'[q] = IF q = p THEN "PROC_RUNNABLE" ELSE state[q]
        /\ \A q \in Procs : wait_state'[q] = IF q = p THEN "0" ELSE wait_state[q]
    BY <1>fork, <2>1, <1>t, SMT DEF do_fork, wakeup_proc, wakeup, Woken
  <2>6. \A r \in Procs : state'[r] = "PROC_SLEEPING" =>
           state[r] = "PROC_SLEEPING" /\ wait_state'[r] = wait_state[r]
    BY <2>1, <2>5, SMT
  <2>7. \A r \in Procs : wait_state'[r] = "WT_CHILD" => r # current /\ wait_state[r] = "WT_CHILD"
    BY <2>1, <2>5, SMT
  <2>8. \A r \in Procs \ {current} : \A q \in Procs : parent'[q] = r <=> parent[q] = r
    BY <1>t, <2>3, <2>4, SMT
  <2>9. \A r \in Procs : state'[r] = "PROC_ZOMBIE" => state[r] = "PROC_ZOMBIE"
    BY <2>5, SMT
  <2>. QED
    BY <2>5, <2>6, <2>7, <2>8, <2>9, KeepWaiting
<1>awake. ASSUME pc[current] \in {"user", "boot", "wait", "exit"}
          PROVE  state[current] # "PROC_SLEEPING" /\ wait_state[current] = "0"
  BY <1>0, <1>t, <1>awake, SMT DEF WhereAsleep
<1>user. CASE UserStep
  <2>0. state[current] # "PROC_SLEEPING" /\ wait_state[current] = "0"
    <3>1. pc[current] = "user"
      BY <1>user, Zenon DEF UserStep, Fork, Wait, Kill, Sleep, Yield, Exit, OtherSyscall, At
    <3>. QED
      BY <1>awake, <3>1
  <2>2. ASSUME NEW p \in Procs, Fork(p) PROVE Waiting'
    BY <2>0, <2>2, <1>fork DEF Fork
  <2>3. ASSUME NEW p \in Procs, Kill(p) PROVE Waiting'
    BY <2>3, <1>wake DEF Kill, wakeup_proc, familyVars
  <2>4. ASSUME NEW t, Sleep(t) PROVE Waiting'
    <3>1. /\ parent' = parent /\ wait_pid' = wait_pid
          /\ \A q \in Procs : state'[q] = IF q = current THEN "PROC_SLEEPING" ELSE state[q]
          /\ \A q \in Procs : wait_state'[q] = IF q = current THEN "WT_TIMER" ELSE wait_state[q]
      BY <2>4, <1>t, Zenon DEF Sleep, go_to_sleep, familyVars
    <3>2. \A r \in Procs : wait_state'[r] = "WT_CHILD" => wait_state[r] = "WT_CHILD"
      BY <3>1, SMT
    <3>3. \A r \in Procs : state'[r] = "PROC_ZOMBIE" => state[r] = "PROC_ZOMBIE"
      BY <3>1, SMT
    <3>4. \A p \in Procs : state'[p] = "PROC_SLEEPING" =>
           \/ wait_state'[p] \in {"WT_TIMER", "WT_CHILD"}
           \/ state[p] = "PROC_SLEEPING" /\ wait_state'[p] = wait_state[p]
      BY <3>1, SMT
    <3>. QED
      BY <3>1, <3>2, <3>3, <3>4, KeepWaiting
  <2>5. ASSUME NEW p, Wait(p) PROVE Waiting'
    <3>1. UNCHANGED <<state, wait_state, parent>>
      BY <2>5 DEF Wait, schedVars, familyVars
    <3>2. \A q \in Procs \ {current} : wait_pid'[q] = wait_pid[q]
      BY <2>5, <1>t, Zenon DEF Wait, Pointers
    <3>. QED
      BY <1>same, <2>0, <3>1, <3>2
  <2>. QED
    BY <1>user, <1>calm, <2>2, <2>3, <2>4, <2>5, ProcAssumption
    DEF UserStep, Yield, Exit, OtherSyscall, schedVars, familyVars
<1>kernel. CASE KernelStep
  <2>1. ASSUME NEW p \in Procs, InitMain(p) PROVE Waiting'
    BY <1>awake, <2>1, <1>fork DEF InitMain, At
  <2>2. CASE do_exit
    <3>1. CASE current = initproc
      BY <2>2, <3>1, <1>calm DEF do_exit, schedVars, familyVars
    <3>2. CASE current # initproc
      <4>0. wait_state[current] = "0"
        BY <1>awake, <2>2 DEF do_exit, At
      <4>1. /\ parent' = parent /\ wait_pid' = wait_pid
            /\ wakeup(ParentWaiting, [state EXCEPT ![current] = "PROC_ZOMBIE"], wait_state)
        BY <2>2, <3>2 DEF do_exit, wakeup_proc, familyVars
      <4>2. \A p \in Procs \ {current} :
              \/ state'[p] = state[p] /\ wait_state'[p] = wait_state[p]
              \/ state'[p] = "PROC_RUNNABLE" /\ wait_state'[p] = "0"
        BY <4>1, <1>t, SMT DEF wakeup, Woken
      <4>3. state'[current] = "PROC_ZOMBIE" /\ wait_state'[current] = "0"
        BY <4>0, <4>1, <1>t, SMT DEF wakeup, Woken, ParentWaiting
      <4>4. \A p \in Procs : parent[current] = p => wait_state'[p] # "WT_CHILD"
        <5> SUFFICES ASSUME NEW p \in Procs, parent[current] = p, wait_state[p] = "WT_CHILD"
                     PROVE  wait_state'[p] # "WT_CHILD"
          BY <4>2, <4>3, SMT
        <5>1. p \in ParentWaiting /\ p # current /\ state[p] = "PROC_SLEEPING"
          BY <4>0, <1>0, SMT DEF ParentWaiting
        <5>. QED
          BY <4>1, <5>1, <1>t, SMT DEF wakeup, Woken
      <4>5. \A p \in Procs : state'[p] = "PROC_SLEEPING" =>
               state[p] = "PROC_SLEEPING" /\ wait_state'[p] = wait_state[p]
        BY <4>2, <4>3, SMT
      <4>6. \A p \in Procs : wait_state'[p] = "WT_CHILD" => wait_state[p] = "WT_CHILD"
        BY <4>2, <4>3, SMT
      <4>7. \A p, q \in Procs : wait_state'[p] = "WT_CHILD" /\ parent[q] = p /\ state'[q] = "PROC_ZOMBIE"
              => state[q] = "PROC_ZOMBIE"
        BY <4>2, <4>4, SMT
      <4>. QED
        BY <4>1, <4>5, <4>6, <4>7, KeepWaiting
    <3>. QED
      BY <3>1, <3>2
  <2>3. CASE ReparentChild
    <3> DEFINE x == cptr[current]
    <3>0. pc[current] = "exit_children" /\ x \in Procs /\ x # NULL
      <4>1. x \in Procs \cup {NULL}
        BY <1>t DEF ProcTypeOK
      <4>. QED
        BY <2>3, <4>1 DEF ReparentChild, At
    <3>1. parent[x] = current
      BY <3>0, <1>t, Zenon DEF Links, IsFamily
    <3>2. state[current] = "PROC_ZOMBIE" /\ wait_state[current] = "0" /\ current # initproc
      <4>1. state[current] = "PROC_ZOMBIE"
        BY <3>0, <1>t DEF Parents
      <4>. QED
        BY <4>1, <1>0, <1>t, SMT DEF InitMainOnly, Alive
    <3>3. /\ \A q \in Procs : parent'[q] = IF q = x THEN initproc ELSE parent[q]
          /\ wait_pid' = wait_pid
          /\ wakeup(InitWaitingFor(x), state, wait_state)
      BY <2>3, <1>t, Zenon DEF ReparentChild, wakeup_proc, Pointers
    <3>. HIDE DEF x
    <3>4. \A p \in Procs : \/ state'[p] = state[p] /\ wait_state'[p] = wait_state[p]
                           \/ state'[p] = "PROC_RUNNABLE" /\ wait_state'[p] = "0"
      BY <3>3, <1>t, SMT DEF wakeup, Woken
    <3>5. \A p \in Procs : state'[p] = "PROC_SLEEPING" => wait_state'[p] \in {"WT_TIMER", "WT_CHILD"}
      BY <1>a, <3>4, SMT
    <3>6. \A p \in Procs : state'[p] = "PROC_ZOMBIE" => state[p] = "PROC_ZOMBIE"
      BY <3>4, SMT
    <3>7. wait_state'[initproc] = "WT_CHILD" => state[x] # "PROC_ZOMBIE"
      <4> SUFFICES ASSUME wait_state'[initproc] = "WT_CHILD", state[x] = "PROC_ZOMBIE" PROVE FALSE
        OBVIOUS
      <4>1. wait_state[initproc] = "WT_CHILD"
        BY <3>4, <1>t, SMT
      <4>2. initproc \in InitWaitingFor(x) /\ state[initproc] = "PROC_SLEEPING"
        BY <4>1, <1>0, <1>t, SMT DEF InitWaitingFor
      <4>. QED
        BY <3>3, <4>2, <1>t, SMT DEF wakeup, Woken
    <3>8. ASSUME NEW p \in Procs, wait_state'[p] = "WT_CHILD"
          PROVE  Kids(p)' # {} /\ \A q \in Kids(p)' : state'[q] # "PROC_ZOMBIE"
      <4>1. wait_state[p] = "WT_CHILD" /\ p # current
        BY <3>2, <3>4, <3>8, SMT
      <4>2. Kids(p) # {} /\ \A q \in Kids(p) : state[q] # "PROC_ZOMBIE"
        BY <4>1 DEF Waiting
      <4>3. x \notin Kids(p)
        BY <3>1, <4>1, SMT DEF Kids
      <4>4. \A q \in Procs \ {x} : q \in Kids(p) <=> q \in Kids(p)'
        BY <3>3, Zenon DEF Kids
      <4>5. Kids(p)' # {}
        BY <4>2, <4>3, <4>4, SMT DEF Kids
      <4>6. x \in Kids(p)' => p = initproc
        BY <3>0, <3>3, SMT DEF Kids
      <4>7. ASSUME NEW q \in Kids(p)' PROVE state'[q] # "PROC_ZOMBIE"
        <5>1. q \in Procs
          BY DEF Kids
        <5>2. CASE q = x
          BY <3>0, <3>6, <3>7, <3>8, <4>6, <5>2
        <5>3. CASE q # x
          BY <3>6, <4>2, <4>4, <5>1, <5>3
        <5>. QED
          BY <5>2, <5>3
      <4>. QED
        BY <4>5, <4>7
    <3>. QED
      BY <3>5, <3>8, Zenon DEF Waiting
  <2>4. CASE ExitDone \/ WaitWake \/ SleepWake \/ SyscallReturn \/ IrqReturn \/ CpuIdle
    BY <2>4, <1>calm
    DEF ExitDone, WaitWake, SleepWake, SyscallReturn, IrqReturn, TrapTail, CpuIdle,
        schedVars, familyVars
  <2>5. ASSUME NEW z \in Procs, WaitReap(z) PROVE Waiting'
    <3>1. state[z] = "PROC_ZOMBIE" /\ parent[z] = current
      BY <2>5, <1>t, FoundIs DEF WaitReap
    <3>2. wait_state[current] = "0" /\ wait_state[z] = "0"
      BY <1>0, <1>awake, <2>5, <3>1, SMT DEF WaitReap, At
    <3>3. /\ wait_state' = wait_state
          /\ \A q \in Procs : state'[q] = IF q = z THEN "PROC_NONE" ELSE state[q]
          /\ \A q \in Procs : parent'[q] = IF q = z THEN NULL ELSE parent[q]
      BY <2>5, <1>t, Zenon DEF WaitReap, remove_links, Pointers
    <3>4. \A q \in Procs \ {current, z} : wait_pid'[q] = wait_pid[q]
      BY <2>5, <1>t, SMT DEF WaitReap, Pointers
    <3>5. \A p \in Procs : state'[p] = "PROC_SLEEPING" =>
             state[p] = "PROC_SLEEPING" /\ wait_state'[p] = wait_state[p]
      BY <3>3, SMT
    <3>6. \A p \in Procs : wait_state'[p] = "WT_CHILD" => p # current /\ p # z
      BY <3>2, <3>3, SMT
    <3>7. \A p, q \in Procs : p # current => (parent'[q] = p <=> parent[q] = p)
      BY <1>t, <3>1, <3>3, SMT
    <3>8. \A q \in Procs : state'[q] = "PROC_ZOMBIE" => state[q] = "PROC_ZOMBIE"
      BY <3>3, SMT
    <3>. QED
      BY <3>3, <3>4, <3>5, <3>6, <3>7, <3>8, KeepWaiting
  <2>6. CASE WaitSleep
    <3>1. /\ parent' = parent /\ wait_pid' = wait_pid
          /\ \A q \in Procs : state'[q] = IF q = current THEN "PROC_SLEEPING" ELSE state[q]
          /\ \A q \in Procs : wait_state'[q] = IF q = current THEN "WT_CHILD" ELSE wait_state[q]
      BY <2>6, <1>t, Zenon DEF WaitSleep, go_to_sleep, familyVars
    <3>2. Kids(current) # {} /\ \A q \in Kids(current) : state[q] # "PROC_ZOMBIE"
      <4>1. Awaited(current) = Kids(current)
        BY <1>t, AwaitedExact
      <4>. QED
        BY <2>6, <4>1 DEF WaitSleep
    <3>3. \A p \in Procs : Kids(p)' = Kids(p)
      BY <3>1, Zenon DEF Kids
    <3>4. \A q \in Procs : state'[q] = "PROC_ZOMBIE" => state[q] = "PROC_ZOMBIE"
      BY <3>1, SMT
    <3>5. \A p \in Procs : state'[p] = "PROC_SLEEPING" => wait_state'[p] \in {"WT_TIMER", "WT_CHILD"}
      BY <1>a, <3>1, SMT
    <3>6. \A p \in Procs : wait_state'[p] = "WT_CHILD" => p = current \/ wait_state[p] = "WT_CHILD"
      BY <3>1, SMT
    <3>7. \A p \in Procs : wait_state'[p] = "WT_CHILD" =>
             Kids(p) # {} /\ \A q \in Kids(p) : state[q] # "PROC_ZOMBIE"
      BY <3>2, <3>6, Zenon DEF Waiting
    <3>8. \A p \in Procs : \A q \in Kids(p) : q \in Procs
      BY DEF Kids
    <3>. QED
      BY <3>3, <3>4, <3>5, <3>7, <3>8, Zenon DEF Waiting
  <2>7. CASE WaitBadProc
    <3>1. UNCHANGED <<state, wait_state, parent>>
      BY <2>7 DEF WaitBadProc, schedVars, familyVars
    <3>2. \A q \in Procs \ {current} : wait_pid'[q] = wait_pid[q]
      BY <2>7, <1>t, Zenon DEF WaitBadProc, Pointers
    <3>3. wait_state[current] = "0"
      BY <1>awake, <2>7 DEF WaitBadProc, At
    <3>. QED
      BY <1>same, <3>1, <3>2, <3>3
  <2>. QED
    BY <1>kernel, <2>1, <2>2, <2>3, <2>4, <2>5, <2>6, <2>7 DEF KernelStep
<1>tick. CASE Tick
  <2>1. Fired \in SUBSET Procs
    BY DEF Fired
  <2>. QED
    BY <1>tick, <1>wake, <2>1 DEF Tick, run_timers, familyVars
<1>schedule. ASSUME NEW next \in Procs, Schedule(next) PROVE Waiting'
  BY <1>schedule, <1>calm DEF Schedule, schedule, familyVars
<1>stutter. CASE Stopped
  BY <1>stutter, <1>calm DEF Stopped, vars, schedVars, familyVars
<1>. QED
  BY <1>user, <1>kernel, <1>tick, <1>schedule, <1>stutter DEF Next

-----------------------------------------------------------------------------
(* The theorems.                                                            *)

\* init_main stops waiting only when it is alone.
LEMMA NextHalt ==
  ASSUME FInv, [Next]_vars
  PROVE  InitMainOnly' /\ InitExitsLast'
<1>1. CASE UNCHANGED vars
  <2>1. UNCHANGED <<state, pc, wait_pid, cptr, optr, yptr, nr_process>>
    BY <1>1 DEF vars, schedVars, familyVars
  <2>. QED
    BY <2>1, Zenon DEF FInv, InitMainOnly, Alive, InitExitsLast
<1>2. CASE Halted /\ Next
  <2>1. UNCHANGED vars
    BY <1>2, Zenon DEF Next, UserStep, KernelStep, Fork, Wait, Kill, Sleep, Yield, Exit, OtherSyscall,
         InitMain, do_exit, ReparentChild, ExitDone, WaitReap, WaitSleep, WaitBadProc, WaitWake,
         SleepWake, SyscallReturn, IrqReturn, TrapTail, CpuIdle, Tick, Schedule, Stopped, At
  <2>. QED
    BY <1>1, <2>1
<1>3. CASE ~Halted /\ Next
  <2>1. InitMainOnly' /\ (pc'[initproc] = "halt" => WaitBadProc /\ current = initproc)
    BY <1>3, NextInit
  <2>2. ASSUME WaitBadProc, current = initproc PROVE InitExitsLast'
    <3>. IInv /\ Family /\ Links /\ Parents /\ InitMainOnly /\ initproc \in Procs
      BY ProcAssumption DEF FInv, Family
    <3>1. Awaited(initproc) = {} /\ ~Exiting /\ UNCHANGED familyVars
      BY <2>2 DEF WaitBadProc, At, Exiting
    <3>2. Kids(initproc) = {}
      BY <3>1, AwaitedExact
    <3>3. \A q \in Procs : parent[q] # initproc
      BY <3>2, Zenon DEF Kids, InitMainOnly
    <3>4. /\ cptr[initproc] = NULL /\ yptr[initproc] = NULL /\ optr[initproc] = NULL
          /\ nr_process = 2
      BY <2>2, <3>1, <3>3, LastOne
    <3>. QED
      BY <3>1, <3>4, Zenon DEF InitExitsLast, familyVars
  <2>. QED
    BY <2>1, <2>2 DEF InitExitsLast
<1>. QED
  BY <1>1, <1>2, <1>3

\* FInv holds at the start: initproc is the only child of idleproc.
LEMMA InitFInv == Init => FInv
<1> SUFFICES ASSUME Init PROVE FInv
  OBVIOUS
<1>1. IInv
  <2>1. ProcTypeOK
    BY InitType
  <2>2. RunPoolExact
    BY SchedAssumption, ProcAssumption, SMT DEF Init, RunPoolExact
  <2>3. \A p \in Procs : wait_state[p] = "0" /\ remaining[p] = 0
    BY DEF Init
  <2>4. \A p \in Procs : state[p] = "PROC_RUNNABLE" \/ (state[p] = "PROC_NONE" /\ pc[p] = "none")
    BY DEF Init
  <2>5. pc[idleproc] = "idle"
    BY SchedAssumption, ProcAssumption, SMT DEF Init
  <2>6. TimersMatchSleepers /\ WhereAsleep
    BY <2>3, <2>4, <2>5, SMT DEF TimersMatchSleepers, WhereAsleep
  <2>. QED
    BY <2>1, <2>2, <2>6 DEF IInv
<1>t. /\ current \in Procs /\ NULL \notin Procs /\ idleproc \in Procs /\ initproc \in Procs
      /\ idleproc # initproc
  BY <1>1, Typed DEF IInv
<1>2. /\ \A p \in Procs : parent[p] = IF p = initproc THEN idleproc ELSE NULL
      /\ \A p \in Procs : cptr[p] = IF p = idleproc THEN initproc ELSE NULL
      /\ \A p \in Procs : optr[p] = NULL /\ yptr[p] = NULL
      /\ \A p \in Procs : state[p] = IF p \in {idleproc, initproc} THEN "PROC_RUNNABLE" ELSE "PROC_NONE"
      /\ \A p \in Procs : wait_state[p] = "0" /\ wait_pid[p] = NULL
      /\ current = idleproc /\ nr_process = 2
  BY Zenon DEF Init
<1>3. /\ pc[initproc] = "boot"
      /\ \A p \in Procs : pc[p] # "exit_children"
  BY <1>t, SMT DEF Init
<1>4. ~Exiting /\ \A q \in Procs : Younger[q] = NULL
  BY <1>t, <1>2, <1>3, SMT DEF Exiting, Younger
<1>5. Links
  <2>1. [q \in Procs |-> 0] \in [Procs -> Nat] /\ Aged(optr, [q \in Procs |-> 0])
    BY <1>t, <1>2, SMT DEF Aged
  <2>2. \A p, q \in Procs : cptr[p] = q <=> parent[q] = p /\ Younger[q] = NULL
    BY <1>t, <1>2, <1>4, SMT
  <2>3. \A q, r \in Procs : optr[q] # r /\ Younger[r] # q
    BY <1>t, <1>2, <1>4
  <2>. QED
    BY <2>1, <2>2, <2>3, Zenon DEF Links, IsFamily
<1>6. Parents
  BY <1>t, <1>2, <1>3, SMT DEF Parents, Alive
<1>7. Tree
  <2> DEFINE d == [q \in Procs |-> 0]
  <2>1. d \in [Procs -> Nat] /\ d[initproc] = 0
    BY <1>t, SMT
  <2>2. \A p, q \in Procs \ {idleproc} : parent[q] # p
    BY <1>t, <1>2, SMT
  <2>3. IsDepth(d)
    <3>. HIDE DEF d
    <3>. QED
      BY <2>1, <2>2, Zenon DEF IsDepth
  <2>. QED
    BY <2>3 DEF Tree
<1>8. InitMainOnly
  BY <1>t, <1>2, <1>3, SMT DEF InitMainOnly, Alive
<1>9. Counted
  <2>1. {p \in Procs : state[p] # "PROC_NONE"} = {idleproc} \cup {initproc}
    BY <1>t, <1>2, SMT
  <2>2. IsFiniteSet({idleproc}) /\ Cardinality({idleproc}) = 1 /\ initproc \notin {idleproc}
    BY <1>t, FS_Singleton
  <2>3. Cardinality({idleproc} \cup {initproc}) = 1 + 1
    BY <2>2, FS_AddElement
  <2>. QED
    BY <1>2, <2>1, <2>3, SMT DEF Counted
<1>10. Waiting
  <2>1. \A p \in Procs : state[p] # "PROC_SLEEPING" /\ wait_state[p] # "WT_CHILD"
    BY <1>2, SMT
  <2>. QED
    BY <2>1, Zenon DEF Waiting
<1>11. InitExitsLast
  BY <1>3 DEF InitExitsLast
<1>. QED
  BY <1>1, <1>5, <1>6, <1>7, <1>8, <1>9, <1>10, <1>11 DEF FInv

\* FInv is an invariant.
THEOREM FInvCorrect == Spec => []FInv
<1>1. FInv /\ [Next]_vars => FInv'
  <2> SUFFICES ASSUME FInv, [Next]_vars PROVE FInv'
    OBVIOUS
  <2>1. IInv'
    BY IInvNext DEF FInv
  <2>2. Family'
    BY NextFamily
  <2>3. InitMainOnly' /\ InitExitsLast'
    BY NextHalt
  <2>4. Waiting'
    <3>1. CASE Next
      BY <3>1, NextWaiting
    <3>2. CASE UNCHANGED vars
      <4>1. UNCHANGED <<state, wait_state, parent, wait_pid>>
        BY <3>2 DEF vars, schedVars, familyVars
      <4>. QED
        BY <4>1, Zenon DEF FInv, Waiting, Kids
    <3>. QED
      BY <3>1, <3>2
  <2>. QED
    BY <2>1, <2>2, <2>3, <2>4 DEF FInv, Family
<1>. QED
  BY <1>1, InitFInv, PTL DEF Spec

-----------------------------------------------------------------------------
\* Whatever forks, exits, waits and kills come in whatever order: the links are
\* the list of a process's children, every process but idleproc has a parent
\* that can reap it, and nr_process counts the processes there are.
THEOREM FamilyLinksCorrect == Spec => []FamilyLinks
<1>1. FInv => FamilyLinks
  <2> SUFFICES ASSUME FInv, ~Exiting
               PROVE
        /\ \A p \in Procs :
             /\ Children(p) = {q \in Procs : parent[q] = p}
             /\ optr[p] # NULL => yptr[optr[p]] = p
             /\ yptr[p] # NULL => optr[yptr[p]] = p
        /\ \A p \in Procs \ {idleproc} : state[p] # "PROC_NONE" =>
             parent[p] # NULL /\ state[parent[p]] \in {"PROC_RUNNABLE", "PROC_SLEEPING"}
        /\ nr_process = Cardinality({p \in Procs : state[p] # "PROC_NONE"})
    BY Zenon DEF FamilyLinks, Exiting
  <2>. ProcTypeOK /\ Links /\ Parents /\ Counted
    BY DEF FInv, IInv
  <2>t. /\ NULL \notin Procs /\ optr \in Pointers /\ yptr \in Pointers /\ parent \in Pointers
    BY Typed
  <2>1. IsFamily(parent, cptr, optr, yptr)
    <3>1. Younger = yptr
      BY YoungerIs
    <3>. QED
      BY <3>1, Zenon DEF Links
  <2>2. ASSUME NEW p \in Procs
        PROVE  /\ Children(p) = {q \in Procs : parent[q] = p}
               /\ optr[p] # NULL => yptr[optr[p]] = p
               /\ yptr[p] # NULL => optr[yptr[p]] = p
    <3>1. Children(p) = {q \in Procs : parent[q] = p}
      BY <2>1, <2>t, ChildrenExact
    <3>2. \A q, r \in Procs : optr[q] = r <=> yptr[r] = q
      BY <2>1, Zenon DEF IsFamily
    <3>3. optr[p] \in Procs \cup {NULL} /\ yptr[p] \in Procs \cup {NULL}
      BY <2>t, Zenon DEF Pointers
    <3>. QED
      BY <3>1, <3>2, <3>3
  <2>3. ASSUME NEW p \in Procs \ {idleproc}, state[p] # "PROC_NONE"
        PROVE  parent[p] # NULL /\ state[parent[p]] \in {"PROC_RUNNABLE", "PROC_SLEEPING"}
    <3>1. parent[p] # NULL
      BY <2>3, Zenon DEF Parents
    <3>2. parent[p] \in Procs
      BY <2>t, <3>1, Zenon DEF Pointers
    <3>3. Alive(parent[p])
      BY <3>2, Zenon DEF Parents
    <3>. QED
      BY <3>1, <3>3 DEF Alive
  <2>. QED
    BY <2>2, <2>3, Zenon DEF Counted
<1>. QED
  BY <1>1, FInvCorrect, PTL

\* Nobody sleeps without something left that will wake it: no timer is missed
\* before the schedule() of do_sleep, and no dead child before that of do_wait.
THEOREM SleeperHasWakerCorrect == Spec => []SleeperHasWaker
<1>1. FInv => SleeperHasWaker
  <2> SUFFICES ASSUME FInv, NEW p \in Procs, state[p] = "PROC_SLEEPING"
               PROVE
        \/ wait_state[p] = "WT_TIMER" /\ remaining[p] > 0
        \/ /\ wait_state[p] = "WT_CHILD"
           /\ Awaited(p) # {}
           /\ \A q \in Awaited(p) : state[q] # "PROC_ZOMBIE"
    BY Zenon DEF SleeperHasWaker
  <2>1. Awaited(p) = Kids(p)
    BY AwaitedExact DEF FInv
  <2>2. CASE wait_state[p] = "WT_TIMER"
    BY <2>2 DEF FInv, IInv, TimersMatchSleepers
  <2>3. CASE wait_state[p] = "WT_CHILD"
    BY <2>1, <2>3 DEF FInv, Waiting
  <2>. QED
    BY <2>2, <2>3 DEF FInv, Waiting
<1>. QED
  BY <1>1, FInvCorrect, PTL

\* initproc's wait loop ends only when every other process but idleproc is gone.
THEOREM InitExitsLastCorrect == Spec => []InitExitsLast
  BY FInvCorrect, PTL DEF FInv

\* A process is freed once dead, by its parent, and by nobody else.
THEOREM ReapedCorrect == Spec => ReapedByParent
<1>1. ASSUME FInv, [Next]_vars, NEW p \in Procs, state[p] # "PROC_NONE", state'[p] = "PROC_NONE"
      PROVE  state[p] = "PROC_ZOMBIE" /\ parent[p] = current
  <2>. IInv /\ Links /\ Parents /\ ProcTypeOK
    BY <1>1 DEF FInv, IInv
  <2>t. current \in Procs /\ state \in [Procs -> ProcState]
    BY Typed
  <2>wake. ASSUME NEW P, NEW st, st[p] # "PROC_NONE", NEW ws, wakeup(P, st, ws) PROVE FALSE
    BY <1>1, <2>wake, SMT DEF wakeup
  <2>same. ASSUME UNCHANGED state PROVE FALSE
    BY <1>1, <2>same
  <2>sleep. ASSUME NEW ws, go_to_sleep(ws) PROVE FALSE
    BY <1>1, <2>sleep, <2>t, SMT DEF go_to_sleep
  <2>1. ASSUME NEW z \in Procs, WaitReap(z) PROVE state[p] = "PROC_ZOMBIE" /\ parent[p] = current
    <3>1. p = z
      BY <1>1, <2>1, <2>t, Zenon DEF WaitReap
    <3>. QED
      BY <2>1, <2>t, <3>1, FoundIs DEF WaitReap
  <2>2. ASSUME do_exit PROVE FALSE
    <3>1. CASE current = initproc
      BY <2>2, <2>same, <3>1 DEF do_exit, schedVars
    <3>2. CASE current # initproc
      <4>1. [state EXCEPT ![current] = "PROC_ZOMBIE"][p] # "PROC_NONE"
        BY <1>1, <2>t, SMT
      <4>. QED
        BY <2>2, <2>wake, <3>2, <4>1 DEF do_exit, wakeup_proc
    <3>. QED
      BY <3>1, <3>2
  <2>3. ASSUME UserStep PROVE FALSE
    BY <1>1, <2>3, <2>wake, <2>same, <2>sleep
    DEF UserStep, Fork, do_fork, Wait, Kill, Sleep, Yield, Exit, OtherSyscall, wakeup_proc, schedVars
  <2>4. ASSUME KernelStep PROVE state[p] = "PROC_ZOMBIE" /\ parent[p] = current
    BY <1>1, <2>1, <2>2, <2>4, <2>wake, <2>same, <2>sleep
    DEF KernelStep, InitMain, do_fork, ReparentChild, ExitDone, WaitSleep, WaitBadProc, WaitWake,
        SleepWake, SyscallReturn, IrqReturn, TrapTail, CpuIdle, wakeup_proc, schedVars
  <2>5. ASSUME Tick PROVE FALSE
    BY <1>1, <2>5, <2>wake DEF Tick, run_timers
  <2>6. ASSUME NEW next, Schedule(next) PROVE FALSE
    BY <2>6, <2>same DEF Schedule, schedule
  <2>. QED
    BY <1>1, <2>3, <2>4, <2>5, <2>6, <2>same DEF Next, Stopped, vars, schedVars
<1>2. FInv /\ [Next]_vars =>
        [\A p \in Procs : state[p] # "PROC_NONE" /\ state'[p] = "PROC_NONE" =>
           state[p] = "PROC_ZOMBIE" /\ parent[p] = current]_vars
  BY <1>1
<1>. QED
  BY <1>2, FInvCorrect, PTL DEF Spec, ReapedByParent
=============================================================================
