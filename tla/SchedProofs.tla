---------------------------- MODULE SchedProofs -----------------------------
(***************************************************************************)
(* Lemmas about the scheduler core, for the proofs about the components     *)
(* built on it.                                                             *)
(***************************************************************************)
EXTENDS Sched, TLAPS

\* An enqueue leaves the slices in range.
LEMMA RenewSliceType ==
  ASSUME NEW ts \in [Procs -> 0 .. max_time_slice], NEW P
  PROVE  RenewSlice(ts, P) \in [Procs -> 0 .. max_time_slice]
  BY SchedAssumption, SMT DEF RenewSlice

\* Wakeups keep the scheduler's fields well typed.
LEMMA WakeupType ==
  ASSUME SchedTypeOK, NEW P \in SUBSET Procs,
         NEW st \in [Procs -> ProcState], NEW ws \in [Procs -> WaitState],
         wakeup(P, st, ws),
         need_resched' \in BOOLEAN,
         time_slice' \in [Procs -> 0 .. max_time_slice]
  PROVE  SchedTypeOK'
<1>1. state' \in [Procs -> ProcState]
  BY SMT DEF wakeup, ProcState
<1>2. wait_state' \in [Procs -> WaitState]
  BY SMT DEF wakeup, WaitState
<1>3. run_pool' \in SUBSET (Procs \ {idleproc})
  BY SMT DEF SchedTypeOK, wakeup, Woken, Queued
<1>. QED
  BY <1>1, <1>2, <1>3, SMT DEF SchedTypeOK, wakeup

\* A call of wakeup_proc keeps the scheduler's fields well typed.
LEMMA WakeupProcType ==
  ASSUME SchedTypeOK, NEW P \in SUBSET Procs,
         wakeup_proc(P, state, wait_state), UNCHANGED need_resched
  PROVE  SchedTypeOK'
<1>1. time_slice' \in [Procs -> 0 .. max_time_slice]
  BY RenewSliceType DEF wakeup_proc, SchedTypeOK
<1>. QED
  BY <1>1, WakeupType, Zenon DEF wakeup_proc, SchedTypeOK

\* So does the announcement of a sleep.
LEMMA GoToSleepType ==
  ASSUME SchedTypeOK, NEW ws \in WaitState, go_to_sleep(ws),
         UNCHANGED <<current, run_pool, need_resched, time_slice>>
  PROVE  SchedTypeOK'
  BY SMT DEF SchedTypeOK, go_to_sleep, ProcState

\* The timer interrupt keeps them well typed.
LEMMA RunTimersType ==
  ASSUME SchedTypeOK, NEW P \in SUBSET Procs, run_timers(P)
  PROVE  SchedTypeOK'
<1> DEFINE ts == RenewSlice(time_slice, Queued(P, state))
<1>1. ts \in [Procs -> 0 .. max_time_slice]
  BY RenewSliceType DEF SchedTypeOK
<1>2. time_slice' \in [Procs -> 0 .. max_time_slice]
  <2> HIDE DEF ts
  <2>1. time_slice' = IF current # idleproc /\ ts[current] > 0
                      THEN [ts EXCEPT ![current] = ts[current] - 1] ELSE ts
    BY DEF run_timers, ts
  <2>2. ts[current] \in 0 .. max_time_slice
    BY <1>1, SMT DEF SchedTypeOK
  <2>3. ASSUME ts[current] > 0
        PROVE  [ts EXCEPT ![current] = ts[current] - 1] \in [Procs -> 0 .. max_time_slice]
    <3>1. ts[current] - 1 \in 0 .. max_time_slice
      BY <2>2, <2>3, SchedAssumption, SMT
    <3>. QED
      BY <1>1, <3>1, Zenon
  <2>. QED
    BY <1>1, <2>1, <2>3, Zenon
<1>3. need_resched' \in BOOLEAN
  BY Zenon DEF run_timers, SliceOver, SchedTypeOK
<1>4. wakeup(P, state, wait_state)
  BY Zenon DEF run_timers
<1>. QED
  BY <1>2, <1>3, <1>4, WakeupType, Zenon DEF SchedTypeOK

\* So does schedule().
LEMMA ScheduleType ==
  ASSUME SchedTypeOK, NEW next \in Procs, schedule(next)
  PROVE  SchedTypeOK'
<1>1. time_slice' \in [Procs -> 0 .. max_time_slice]
  BY RenewSliceType DEF SchedTypeOK, schedule
<1>2. run_pool' \in SUBSET (Procs \ {idleproc})
  BY SMT DEF SchedTypeOK, schedule, Ready
<1>. QED
  BY <1>1, <1>2, Zenon DEF SchedTypeOK, schedule

\* Wakeups keep the pool exact: whoever becomes runnable is enqueued.
LEMMA WakeupPool ==
  ASSUME SchedTypeOK, RunPoolExact, NEW P \in SUBSET Procs,
         NEW st \in [Procs -> ProcState], NEW ws,
         \A p \in Procs \ {current} : st[p] = state[p],
         wakeup(P, st, ws)
  PROVE  RunPoolExact'
  BY SMT DEF SchedTypeOK, RunPoolExact, wakeup, Woken, Queued

\* schedule() keeps the pool exact.
LEMMA SchedulePool ==
  ASSUME SchedTypeOK, RunPoolExact, NEW next \in Procs, schedule(next)
  PROVE  RunPoolExact'
  BY SMT DEF SchedTypeOK, RunPoolExact, schedule, Ready

\* Wakeups make runnable whom they are called for and touch nobody else; what
\* the woken waited for is forgotten.
LEMMA WakeupEffect ==
  ASSUME SchedTypeOK, NEW P \in SUBSET Procs, wakeup(P, state, wait_state),
         NEW p \in Procs
  PROVE  /\ p \notin P => state'[p] = state[p] /\ wait_state'[p] = wait_state[p]
         /\ p \in P => state'[p] = "PROC_RUNNABLE" /\ wait_state'[p] \in {"0", wait_state[p]}
  BY SMT DEF SchedTypeOK, wakeup, Woken
=============================================================================
