---------------------------- MODULE SemLockProofs ----------------------------
(***************************************************************************)
(* Proofs about SemLock, for any number of threads and semaphores and any   *)
(* nesting of the locks.  What makes the assertion of down true is not in   *)
(* sem.c alone: a waiter stands in one queue, once, asleep, with a          *)
(* wait_state that neither a kill nor a timer wakes.                        *)
(***************************************************************************)
EXTENDS SemLock, SchedProofs, FiniteSetTheorems, SequenceTheorems

\* A thread whose code runs is in no down.
RunsUnqueued == \A p \in Procs : phase[p] = "running" => wants[p] = NoSem

\* One that is in a down does not hold the semaphore yet, and waits for nothing
\* that a kill or a timer ends.
WaitsForSem ==
    \A p \in Procs : wants[p] # NoSem =>
        wants[p] \notin holds[p] /\ wait_state[p] \in {"0", "WT_KSEM"}

\* The threads in a queue sleep in the down of that semaphore, each once.
Waits(p, s) ==
    wants[p] = s /\ state[p] = "PROC_SLEEPING" /\ wakeup_flags[p] = "WT_INTERRUPTED"

QueuesSleep == \A s \in Sems : \A i \in DOMAIN wait_queue[s] : Waits(wait_queue[s][i], s)

OnceInQueue ==
    \A s \in Sems : \A i, j \in DOMAIN wait_queue[s] : wait_queue[s][i] = wait_queue[s][j] => i = j

\* The assertion of down before the return: whoever could go on has its unit.
WokenByUp ==
    \A p \in Procs : wants[p] # NoSem /\ state[p] # "PROC_SLEEPING" => wakeup_flags[p] = "WT_KSEM"

\* The inductive invariant.
IInv ==
    /\ TypeOK
    /\ RunsUnqueued
    /\ WaitsForSem
    /\ QueuesSleep
    /\ OnceInQueue
    /\ WokenByUp
    /\ NoUnitBesideWaiter
    /\ Conservation

\* The invariant holds at the start.
LEMMA InitIInv == Init => IInv
<1> SUFFICES ASSUME Init PROVE IInv
  OBVIOUS
<1> USE SchedAssumption, SemAssumption, SemLockAssumption DEF Init, SemInit
<1>1. SchedTypeOK
  BY SMT DEF SchedTypeOK, ProcState, WaitState, Threads
<1>2. wait_queue \in [Sems -> Seq(Threads)]
  BY EmptySeq, Zenon
<1>3. TypeOK
  BY <1>1, <1>2, SMT DEF TypeOK, SemTypeOK
<1>4. RunsUnqueued /\ WaitsForSem /\ WokenByUp /\ NoUnitBesideWaiter
  BY SMT DEF RunsUnqueued, WaitsForSem, WokenByUp, NoUnitBesideWaiter
<1>5. QueuesSleep /\ OnceInQueue
  BY SMT DEF QueuesSleep, OnceInQueue
<1>6. Conservation
  <2> SUFFICES ASSUME NEW s \in Sems
               PROVE  value[s] + Cardinality(Holders(s)) + Cardinality(Handed(s)) = InitValue[s]
    BY Zenon DEF Conservation
  <2>1. Holders(s) = {} /\ Handed(s) = {}
    BY SMT DEF Holders, Handed
  <2>2. Cardinality({}) = 0
    BY FS_EmptySet, Zenon
  <2>. QED
    BY <2>1, <2>2, SMT
<1>. QED
  BY <1>3, <1>4, <1>5, <1>6 DEF IInv

-----------------------------------------------------------------------------
(* Types.                                                                   *)

\* A thread that has its unit stands in no queue, so that wait_current_del finds
\* nothing to delete.
LEMMA GrantedQueues == IInv /\ Granted => UNCHANGED wait_queue
<1> SUFFICES ASSUME IInv, Granted PROVE wait_queue' = wait_queue
  OBVIOUS
<1>1. wants[current] \in Sems
  BY DEF Granted, IInv, TypeOK, SemTypeOK, SchedTypeOK
<1>2. ~wait_in_queue(wants[current], current)
  BY <1>1, SMT DEF Granted, IInv, QueuesSleep, Waits, wait_in_queue
<1>. QED
  BY <1>2, Zenon DEF Granted, down_resumes

\* Every step keeps the types.
LEMMA NextType == IInv /\ [Next]_vars => TypeOK'
<1> SUFFICES ASSUME TypeOK, IInv, [Next]_vars PROVE TypeOK'
  BY DEF IInv
<1> USE DEF TypeOK, SemTypeOK
<1>. current \in Procs /\ SchedTypeOK
  BY DEF SchedTypeOK
<1>1. ASSUME NEW s \in Sems, Take(s) PROVE TypeOK'
  BY <1>1, SMT DEF Take, down_takes, schedVars, SchedTypeOK
<1>2. ASSUME NEW s \in Sems, Block(s) PROVE TypeOK'
  <2>1. SchedTypeOK'
    BY <1>2, GoToSleepType, Zenon DEF Block, down_blocks, WaitState
  <2>2. current \in Threads
    BY <1>2 DEF Block, Asks, Runs, Threads
  <2>3. wait_queue' \in [Sems -> Seq(Threads)]
    BY <1>2, <2>2, AppendProperties, Zenon DEF Block, down_blocks
  <2>4. /\ value' = value
        /\ wakeup_flags' = [wakeup_flags EXCEPT ![current] = "WT_INTERRUPTED"]
        /\ phase' = [phase EXCEPT ![current] = "blocking"]
        /\ wants' = [wants EXCEPT ![current] = s]
        /\ holds' = holds
    BY <1>2 DEF Block, down_blocks
  <2>. QED
    BY <2>1, <2>3, <2>4, SMT
<1>3. ASSUME NEW s \in Sems, Release(s) PROVE TypeOK'
  <2>1. CASE wait_queue[s] = <<>>
    <3>1. /\ value' = [value EXCEPT ![s] = @ + 1]
          /\ UNCHANGED <<schedVars, wait_queue, wakeup_flags, phase, wants>>
          /\ holds' = [holds EXCEPT ![current] = @ \ {s}]
      BY <1>3, <2>1 DEF Release, up
    <3>. QED
      BY <3>1, SMT DEF schedVars, SchedTypeOK
  <2>2. CASE wait_queue[s] # <<>>
    <3> DEFINE p == Head(wait_queue[s])
    <3>0. wait_queue[s] \in Seq(Threads)
      OBVIOUS
    <3>1. p \in Threads /\ Tail(wait_queue[s]) \in Seq(Threads)
      BY <3>0, <2>2, HeadTailProperties, Zenon
    <3>2. SchedTypeOK'
      <4>1. {p} \in SUBSET Procs
        BY <3>1 DEF Threads
      <4>2. wakeup_proc({p}, state, wait_state) /\ UNCHANGED need_resched
        BY <1>3, <2>2, Zenon DEF Release, up
      <4>. QED
        BY <4>1, <4>2, WakeupProcType, Zenon
    <3>3. wait_queue' \in [Sems -> Seq(Threads)]
      BY <1>3, <2>2, <3>1, Zenon DEF Release, up
    <3>4. /\ wakeup_flags' = [wakeup_flags EXCEPT ![p] = "WT_KSEM"]
          /\ UNCHANGED <<value, phase, wants>>
          /\ holds' = [holds EXCEPT ![current] = @ \ {s}]
      BY <1>3, <2>2 DEF Release, up
    <3>. HIDE DEF p
    <3>5. wakeup_flags' \in [Procs -> {"WT_KSEM", "WT_INTERRUPTED"}]
      BY <3>4, Zenon
    <3>6. holds[current] \ {s} \in SUBSET Sems
      OBVIOUS
    <3>7. holds' \in [Procs -> SUBSET Sems]
      BY <3>4, <3>6, Zenon
    <3>. QED
      BY <3>2, <3>3, <3>4, <3>5, <3>7, Zenon
  <2>. QED
    BY <2>1, <2>2
<1>4. CASE Granted
  <2>1. wants[current] \in Sems
    BY <1>4 DEF Granted
  <2>2. /\ UNCHANGED <<schedVars, value, wait_queue, wakeup_flags>>
        /\ phase' = [phase EXCEPT ![current] = "running"]
        /\ holds' = [holds EXCEPT ![current] = @ \cup {wants[current]}]
        /\ wants' = [wants EXCEPT ![current] = NoSem]
    BY <1>4, GrantedQueues DEF Granted, down_resumes
  <2>. QED
    BY <2>1, <2>2, SMT DEF schedVars, SchedTypeOK
<1>5. CASE Sleep
  BY <1>5, GoToSleepType, SMT DEF Sleep, sleep_blocks, WaitState
<1>6. CASE SleepOver
  BY <1>6, SMT DEF SleepOver, sleep_resumes, schedVars, SchedTypeOK
<1>7. CASE Preempt
  BY <1>7, SMT DEF Preempt, schedVars, SchedTypeOK
<1>8. ASSUME NEW p \in Procs, Kill(p) PROVE TypeOK'
  <2>1. {q \in {p} : Wakes(q)} \in SUBSET Procs
    OBVIOUS
  <2>2. SchedTypeOK'
    BY <1>8, <2>1, WakeupProcType, Zenon DEF Kill
  <2>. QED
    BY <1>8, <2>2, SMT DEF Kill
<1>9. CASE Tick
  BY <1>9, RunTimersType, SMT DEF Tick, SemTick
<1>10. ASSUME NEW next \in Procs, Schedule(next) PROVE TypeOK'
  <2>1. SchedTypeOK'
    BY <1>10, ScheduleType, Zenon DEF Schedule, SemSchedule
  <2>. QED
    BY <1>10, <2>1, SMT DEF Schedule, SemSchedule
<1>11. CASE UNCHANGED vars
  BY <1>11, SMT DEF vars, semVars, schedVars, SchedTypeOK
<1>. QED
  BY <1>1, <1>2, <1>3, <1>4, <1>5, <1>6, <1>7, <1>8, <1>9, <1>10, <1>11, Zenon DEF Next

-----------------------------------------------------------------------------
(* Steps that leave semaphores, queues and locks alone: they may wake or put *)
(* to sleep only threads that are in no down.                               *)

Quiet ==
    /\ UNCHANGED <<value, wait_queue, wakeup_flags, wants, holds>>
    /\ \A p \in Procs : phase'[p] = "running" => wants[p] = NoSem
    /\ \A p \in Procs : wants[p] # NoSem => state'[p] = state[p] /\ wait_state'[p] = wait_state[p]

\* Only threads stand in queues.
LEMMA QueueMember ==
  ASSUME TypeOK, NEW s \in Sems, NEW i \in DOMAIN wait_queue[s]
  PROVE  wait_queue[s][i] \in Threads
<1>1. wait_queue[s] \in Seq(Threads)
  BY DEF TypeOK, SemTypeOK
<1>2. i \in 1 .. Len(wait_queue[s])
  BY <1>1, LenProperties, Zenon
<1>. QED
  BY <1>1, <1>2, ElementOfSeq, Zenon

\* Such a step keeps the invariant.
LEMMA QuietKeeps == IInv /\ Quiet /\ TypeOK' => IInv'
<1> SUFFICES ASSUME IInv, Quiet, TypeOK' PROVE IInv'
  OBVIOUS
<1> USE DEF Quiet
<1>1. RunsUnqueued'
  BY DEF RunsUnqueued
<1>2. WaitsForSem'
  BY DEF IInv, WaitsForSem
<1>3. QueuesSleep' /\ OnceInQueue'
  <2>1. ASSUME NEW s \in Sems, NEW i \in DOMAIN wait_queue[s]
        PROVE  Waits(wait_queue[s][i], s)'
    <3>1. wait_queue[s][i] \in Procs
      BY QueueMember, Zenon DEF IInv, Threads
    <3>2. Waits(wait_queue[s][i], s)
      BY Zenon DEF IInv, QueuesSleep
    <3>. QED
      BY <3>1, <3>2, SemLockAssumption, Zenon DEF Waits
  <2>. QED
    BY <2>1, Zenon DEF IInv, QueuesSleep, OnceInQueue
<1>4. WokenByUp'
  BY DEF IInv, WokenByUp
<1>5. NoUnitBesideWaiter' /\ Conservation'
  BY Zenon DEF IInv, NoUnitBesideWaiter, Conservation, Holders, Handed
<1>. QED
  BY <1>1, <1>2, <1>3, <1>4, <1>5 DEF IInv

\* Waking threads that wait for a timer, or for what a kill may end, is quiet: none
\* of them is in a down.
LEMMA AwakeQuiet ==
  ASSUME IInv, NEW P \in SUBSET Procs,
         \A p \in P : wait_state[p] \in WT_INTERRUPTED,
         wakeup(P, state, wait_state),
         UNCHANGED <<value, wait_queue, wakeup_flags, phase, wants, holds>>
  PROVE  Quiet
<1>1. \A p \in Procs : wants[p] # NoSem => p \notin P
  BY SMT DEF IInv, WaitsForSem, WT_INTERRUPTED
<1>2. SchedTypeOK
  BY DEF IInv, TypeOK, SemTypeOK
<1>3. \A p \in Procs : wants[p] # NoSem => state'[p] = state[p] /\ wait_state'[p] = wait_state[p]
  BY <1>1, <1>2, WakeupEffect, Zenon
<1>. QED
  BY <1>3, Zenon DEF Quiet, IInv, RunsUnqueued

\* All steps but those of the semaphores are quiet.
LEMMA QuietSteps ==
  ASSUME IInv,
         \/ Sleep \/ SleepOver \/ Preempt \/ Tick \/ UNCHANGED vars
         \/ \E p \in Procs : Kill(p)
         \/ \E next \in Procs : Schedule(next)
  PROVE  Quiet
<1>. current \in Procs /\ TypeOK /\ SemTypeOK /\ SchedTypeOK /\ RunsUnqueued
  BY DEF IInv, TypeOK, SemTypeOK, SchedTypeOK
<1>1. CASE Sleep
  <2>1. wants[current] = NoSem
    BY <1>1 DEF Sleep, Runs, RunsUnqueued
  <2>. QED
    BY <1>1, <2>1, SMT DEF Quiet, Sleep, sleep_blocks, go_to_sleep, RunsUnqueued, TypeOK, SemTypeOK, SchedTypeOK
<1>2. CASE SleepOver
  BY <1>2, SMT DEF Quiet, SleepOver, sleep_resumes, schedVars, RunsUnqueued, TypeOK, SemTypeOK
<1>3. CASE Preempt
  BY <1>3, SMT DEF Quiet, Preempt, schedVars, RunsUnqueued, TypeOK, SemTypeOK
<1>4. CASE Tick
  <2>1. PICK fired \in SUBSET Procs : SemTick(fired) /\ UNCHANGED <<wants, holds>>
    BY <1>4 DEF Tick
  <2>2. \A p \in fired : wait_state[p] \in WT_INTERRUPTED
    BY <2>1 DEF SemTick, WT_INTERRUPTED
  <2>3. wakeup(fired, state, wait_state)
    BY <2>1, Zenon DEF SemTick, run_timers
  <2>. QED
    BY <2>1, <2>2, <2>3, AwakeQuiet, Zenon DEF SemTick
<1>5. CASE UNCHANGED vars
  BY <1>5, Zenon DEF Quiet, vars, semVars, schedVars, RunsUnqueued
<1>6. ASSUME NEW p \in Procs, Kill(p) PROVE Quiet
  <2> DEFINE P == {q \in {p} : Wakes(q)}
  <2>1. P \in SUBSET Procs /\ \A q \in P : wait_state[q] \in WT_INTERRUPTED
    BY DEF Wakes
  <2>2. wakeup(P, state, wait_state)
    BY <1>6, Zenon DEF Kill, wakeup_proc
  <2>. QED
    BY <1>6, <2>1, <2>2, AwakeQuiet, Zenon DEF Kill
<1>7. ASSUME NEW next \in Procs, Schedule(next) PROVE Quiet
  BY <1>7, SMT DEF Quiet, Schedule, SemSchedule, schedule, RunsUnqueued, TypeOK, SemTypeOK
<1>. QED
  BY <1>1, <1>2, <1>3, <1>4, <1>5, <1>6, <1>7, Zenon

-----------------------------------------------------------------------------
(* Counting units.                                                          *)

\* A set with one thread more.
LEMMA OneMore ==
  ASSUME NEW S \in SUBSET Procs, NEW p \in Procs, p \notin S
  PROVE  Cardinality(S) \in Nat /\ Cardinality(S \cup {p}) = Cardinality(S) + 1
<1>1. IsFiniteSet(S)
  BY SemAssumption, FS_Subset, Zenon
<1>. QED
  BY <1>1, FS_CardinalityType, FS_AddElement, Zenon

\* Sets of threads can be counted.
LEMMA UnitsAreNats ==
  ASSUME NEW S \in SUBSET Procs
  PROVE  Cardinality(S) \in Nat
<1>1. IsFiniteSet(S)
  BY SemAssumption, FS_Subset, Zenon
<1>. QED
  BY <1>1, FS_CardinalityType, Zenon

\* A thread that runs, or has its unit, stands in no queue.
LEMMA Unqueued ==
  ASSUME IInv, NEW p, wants[p] = NoSem \/ wakeup_flags[p] = "WT_KSEM"
  PROVE  \A s \in Sems : \A i \in DOMAIN wait_queue[s] : wait_queue[s][i] # p
<1> SUFFICES ASSUME NEW s \in Sems, NEW i \in DOMAIN wait_queue[s], wait_queue[s][i] = p
             PROVE  FALSE
  OBVIOUS
<1>1. wants[p] = s /\ wakeup_flags[p] = "WT_INTERRUPTED"
  BY Zenon DEF IInv, QueuesSleep, Waits
<1>. QED
  BY <1>1, SemLockAssumption, SMT

-----------------------------------------------------------------------------
(* The steps that move units.                                               *)

\* down that finds a unit: value goes down, a holder is added.
LEMMA TakeKeeps ==
  ASSUME IInv, TypeOK', NEW s \in Sems, Take(s)
  PROVE  IInv'
<1>. /\ current \in Procs /\ TypeOK /\ SemTypeOK
     /\ RunsUnqueued /\ WaitsForSem /\ QueuesSleep /\ OnceInQueue /\ WokenByUp /\ NoUnitBesideWaiter /\ Conservation
  BY DEF IInv, TypeOK, SemTypeOK, SchedTypeOK
<1>1. /\ value[s] > 0 /\ value' = [value EXCEPT ![s] = @ - 1]
      /\ UNCHANGED <<current, state, wait_state, wait_queue, wakeup_flags, phase, wants>>
      /\ s \notin holds[current]
      /\ holds' = [holds EXCEPT ![current] = @ \cup {s}]
      /\ phase[current] = "running"
  BY DEF Take, Asks, Runs, down_takes, schedVars
<1>2. wants[current] = NoSem
  BY <1>1 DEF RunsUnqueued
<1>3. RunsUnqueued' /\ WokenByUp'
  BY <1>1 DEF RunsUnqueued, WokenByUp
<1>4. WaitsForSem'
  BY <1>1, <1>2, SMT DEF WaitsForSem, TypeOK
<1>5. QueuesSleep' /\ OnceInQueue'
  <2>1. wants' = wants /\ state' = state /\ wakeup_flags' = wakeup_flags /\ wait_queue' = wait_queue
    BY <1>1
  <2>. QED
    BY <2>1 DEF QueuesSleep, OnceInQueue, Waits
<1>6. NoUnitBesideWaiter'
  BY <1>1, SMT DEF NoUnitBesideWaiter, SemTypeOK
<1>7. Conservation'
  <2> SUFFICES ASSUME NEW t \in Sems
               PROVE  value'[t] + Cardinality(Holders(t)') + Cardinality(Handed(t)') = InitValue[t]
    BY Zenon DEF Conservation
  <2>1. Handed(t)' = Handed(t)
    BY <1>1, Zenon DEF Handed
  <2>2. CASE t = s
    <3>1. Holders(s)' = Holders(s) \cup {current} /\ current \notin Holders(s)
      BY <1>1, SMT DEF Holders, TypeOK
    <3>2. Cardinality(Holders(s)') = Cardinality(Holders(s)) + 1 /\ Cardinality(Holders(s)) \in Nat
      BY <3>1, OneMore, Zenon DEF Holders
    <3>3. Cardinality(Handed(s)) \in Nat
      BY UnitsAreNats DEF Handed
    <3>4. value[s] \in Nat /\ value'[s] = value[s] - 1
      BY <1>1, SMT DEF SemTypeOK
    <3>. QED
      BY <2>1, <2>2, <3>2, <3>3, <3>4, SMT DEF Conservation
  <2>3. CASE t # s
    <3>1. Holders(t)' = Holders(t)
      BY <1>1, <2>3, SMT DEF Holders, TypeOK
    <3>2. value'[t] = value[t]
      BY <1>1, <2>3, SMT DEF SemTypeOK
    <3>. QED
      BY <2>1, <3>1, <3>2, Zenon DEF Conservation
  <2>. QED
    BY <2>2, <2>3
<1>. QED
  BY <1>3, <1>4, <1>5, <1>6, <1>7 DEF IInv

\* down that waits: current is queued, and was in no queue before.
LEMMA BlockKeeps ==
  ASSUME IInv, TypeOK', NEW s \in Sems, Block(s)
  PROVE  IInv'
<1>. /\ current \in Procs /\ TypeOK /\ SemTypeOK
     /\ RunsUnqueued /\ WaitsForSem /\ QueuesSleep /\ OnceInQueue /\ WokenByUp /\ NoUnitBesideWaiter /\ Conservation
  BY DEF IInv, TypeOK, SemTypeOK, SchedTypeOK
<1>1. /\ value[s] = 0 /\ s \notin holds[current] /\ phase[current] = "running"
      /\ UNCHANGED <<value, holds>>
      /\ state' = [state EXCEPT ![current] = "PROC_SLEEPING"]
      /\ wait_state' = [wait_state EXCEPT ![current] = "WT_KSEM"]
      /\ wakeup_flags' = [wakeup_flags EXCEPT ![current] = "WT_INTERRUPTED"]
      /\ phase' = [phase EXCEPT ![current] = "blocking"]
      /\ wants' = [wants EXCEPT ![current] = s]
  BY DEF Block, Asks, Runs, down_blocks, go_to_sleep
<1>2. wait_queue' = [wait_queue EXCEPT ![s] = Append(@, current)] /\ current \in Threads
  BY DEF Block, Asks, Runs, down_blocks, Threads
<1>3. wants[current] = NoSem
  BY <1>1 DEF RunsUnqueued
<1>4. RunsUnqueued'
  BY <1>1, SMT DEF RunsUnqueued, SemTypeOK, TypeOK
<1>5. WaitsForSem'
  BY <1>1, SMT DEF WaitsForSem, SchedTypeOK, SemTypeOK, TypeOK
<1>6. WokenByUp'
  BY <1>1, SMT DEF WokenByUp, SchedTypeOK, SemTypeOK, TypeOK
<1>7. /\ \A t \in Sems : t # s => wait_queue'[t] = wait_queue[t]
      /\ wait_queue'[s] = Append(wait_queue[s], current)
      /\ wait_queue[s] \in Seq(Threads)
  BY <1>2, SMT DEF SemTypeOK
<1>8. /\ DOMAIN wait_queue'[s] = DOMAIN wait_queue[s] \cup {Len(wait_queue[s]) + 1}
      /\ DOMAIN wait_queue[s] = 1 .. Len(wait_queue[s])
      /\ \A i \in DOMAIN wait_queue[s] : wait_queue'[s][i] = wait_queue[s][i]
      /\ wait_queue'[s][Len(wait_queue[s]) + 1] = current
  <2> DEFINE q == wait_queue[s]
             r == Append(q, current)
  <2>1. /\ r \in Seq(Threads) /\ Len(r) = Len(q) + 1 /\ r[Len(q) + 1] = current
        /\ \A i \in 1 .. Len(q) : r[i] = q[i]
    BY <1>2, <1>7, AppendProperties
  <2>2. DOMAIN q = 1 .. Len(q) /\ Len(q) \in Nat /\ DOMAIN r = 1 .. Len(r)
    BY <1>7, <2>1, LenProperties, Zenon
  <2>. HIDE DEF q, r
  <2>3. DOMAIN r = DOMAIN q \cup {Len(q) + 1}
    BY <2>1, <2>2, SMT
  <2>. QED
    BY <1>7, <2>1, <2>2, <2>3, Zenon DEF q, r
<1>9. \A t \in Sems : \A i \in DOMAIN wait_queue[t] :
        wait_queue[t][i] \in Procs /\ wait_queue[t][i] # current
  BY <1>3, QueueMember, Unqueued, Zenon DEF Threads
<1>10. QueuesSleep'
  <2> DEFINE WaitsNext(p, t) ==
        wants'[p] = t /\ state'[p] = "PROC_SLEEPING" /\ wakeup_flags'[p] = "WT_INTERRUPTED"
  <2>1. WaitsNext(current, s)
    BY <1>1, SMT DEF SchedTypeOK, SemTypeOK, TypeOK
  <2>2. ASSUME NEW t \in Sems, NEW i \in DOMAIN wait_queue[t]
        PROVE  WaitsNext(wait_queue[t][i], t)
    <3>. DEFINE p == wait_queue[t][i]
    <3>1. p \in Procs /\ p # current /\ Waits(p, t)
      BY <1>9, Zenon DEF QueuesSleep
    <3>. HIDE DEF p
    <3>2. WaitsNext(p, t)
      BY <1>1, <3>1, SMT DEF SchedTypeOK, SemTypeOK, TypeOK, Waits
    <3>. QED
      BY <3>2, Zenon DEF p
  <2>3. ASSUME NEW t \in Sems, NEW i \in DOMAIN wait_queue'[t]
        PROVE  WaitsNext(wait_queue'[t][i], t)
    <3>. HIDE DEF WaitsNext
    <3>. QED
      BY <1>7, <1>8, <2>1, <2>2, Zenon
  <2>. QED
    BY <2>3, Zenon DEF QueuesSleep, Waits
<1>11. OnceInQueue'
  <2>1. ASSUME NEW i \in DOMAIN wait_queue'[s], NEW j \in DOMAIN wait_queue'[s],
               wait_queue'[s][i] = wait_queue'[s][j]
        PROVE  i = j
    BY <1>8, <1>9, <2>1, Zenon DEF OnceInQueue
  <2>. QED
    BY <1>7, <2>1, Zenon DEF OnceInQueue
<1>12. NoUnitBesideWaiter'
  BY <1>1, <1>2, SMT DEF NoUnitBesideWaiter, SemTypeOK
<1>13. Conservation'
  <2> SUFFICES ASSUME NEW t \in Sems PROVE Holders(t)' = Holders(t) /\ Handed(t)' = Handed(t)
    BY <1>1, Zenon DEF Conservation
  <2>1. Holders(t)' = Holders(t)
    BY <1>1, Zenon DEF Holders
  <2>2. Handed(t)' = Handed(t)
    BY <1>1, <1>3, SemLockAssumption, SMT DEF Handed, SemTypeOK, TypeOK
  <2>. QED
    BY <2>1, <2>2
<1>. QED
  BY <1>4, <1>5, <1>6, <1>10, <1>11, <1>12, <1>13 DEF IInv

\* The waiter goes on: it becomes a holder, and has no unit on its way any more.
LEMMA GrantedKeeps ==
  ASSUME IInv, TypeOK', Granted
  PROVE  IInv'
<1>. /\ current \in Procs /\ TypeOK /\ SemTypeOK
     /\ RunsUnqueued /\ WaitsForSem /\ QueuesSleep /\ OnceInQueue
     /\ WokenByUp /\ NoUnitBesideWaiter /\ Conservation
  BY DEF IInv, TypeOK, SemTypeOK, SchedTypeOK
<1>1. PICK s \in Sems : wants[current] = s /\ wakeup_flags[current] = "WT_KSEM" /\ s \notin holds[current]
  BY DEF Granted, TypeOK, WaitsForSem
<1>2. /\ state' = state /\ wait_state' = wait_state /\ value' = value
      /\ wait_queue' = wait_queue /\ wakeup_flags' = wakeup_flags
      /\ phase' = [phase EXCEPT ![current] = "running"]
      /\ holds' = [holds EXCEPT ![current] = @ \cup {s}]
      /\ wants' = [wants EXCEPT ![current] = NoSem]
  BY <1>1, GrantedQueues DEF Granted, down_resumes, schedVars
<1>3. RunsUnqueued'
  BY <1>2, SMT DEF RunsUnqueued, SemTypeOK, TypeOK
<1>4. WaitsForSem'
  BY <1>2, SMT DEF WaitsForSem, TypeOK
<1>5. QueuesSleep'
  <2>1. ASSUME NEW t \in Sems, NEW i \in DOMAIN wait_queue[t]
        PROVE  Waits(wait_queue[t][i], t)'
    <3> DEFINE p == wait_queue[t][i]
    <3>1. p \in Procs /\ p # current /\ Waits(p, t)
      BY <1>1, QueueMember, Unqueued, Zenon DEF Threads, QueuesSleep
    <3>. HIDE DEF p
    <3>2. wants'[p] = wants[p]
      BY <1>2, <3>1, SMT DEF TypeOK
    <3>. QED
      BY <1>2, <3>1, <3>2, Zenon DEF Waits, p
  <2>. QED
    BY <1>2, <2>1, Zenon DEF QueuesSleep
<1>6. OnceInQueue' /\ NoUnitBesideWaiter'
  BY <1>2 DEF OnceInQueue, NoUnitBesideWaiter
<1>7. WokenByUp'
  BY <1>2, SMT DEF WokenByUp, TypeOK
<1>8. Conservation'
  <2> SUFFICES ASSUME NEW t \in Sems
               PROVE  value'[t] + Cardinality(Holders(t)') + Cardinality(Handed(t)') = InitValue[t]
    BY Zenon DEF Conservation
  <2>1. CASE t = s
    <3>1. Holders(s)' = Holders(s) \cup {current} /\ current \notin Holders(s)
      BY <1>1, <1>2, SMT DEF Holders, TypeOK
    <3>2. Handed(s) = Handed(s)' \cup {current} /\ current \notin Handed(s)'
      BY <1>1, <1>2, SemLockAssumption, SMT DEF Handed, TypeOK
    <3>3. Cardinality(Holders(s)') = Cardinality(Holders(s)) + 1 /\ Cardinality(Holders(s)) \in Nat
      BY <3>1, OneMore, Zenon DEF Holders
    <3>4. Cardinality(Handed(s)) = Cardinality(Handed(s)') + 1 /\ Cardinality(Handed(s)') \in Nat
      BY <3>2, OneMore, Zenon DEF Handed
    <3>5. value[s] \in Nat /\ value'[s] = value[s]
      BY <1>1, <1>2 DEF SemTypeOK
    <3>. QED
      BY <1>1, <2>1, <3>3, <3>4, <3>5, SMT DEF Conservation
  <2>2. CASE t # s
    <3>1. Holders(t)' = Holders(t)
      BY <1>2, <2>2, SMT DEF Holders, TypeOK
    <3>2. Handed(t)' = Handed(t)
      BY <1>1, <1>2, <2>2, SemLockAssumption, SMT DEF Handed, TypeOK
    <3>. QED
      BY <1>2, <3>1, <3>2, Zenon DEF Conservation
  <2>. QED
    BY <2>1, <2>2
<1>. QED
  BY <1>3, <1>4, <1>5, <1>6, <1>7, <1>8 DEF IInv

\* up: the unit goes to value, or to the first waiter, who leaves the queue.
LEMMA ReleaseKeeps ==
  ASSUME IInv, TypeOK', NEW s \in Sems, Release(s)
  PROVE  IInv'
<1>. /\ current \in Procs /\ TypeOK /\ SemTypeOK /\ SchedTypeOK
     /\ RunsUnqueued /\ WaitsForSem /\ QueuesSleep /\ OnceInQueue
     /\ WokenByUp /\ NoUnitBesideWaiter /\ Conservation
  BY DEF IInv, TypeOK, SemTypeOK, SchedTypeOK
<1>1. /\ s \in holds[current] /\ phase[current] = "running"
      /\ phase' = phase /\ wants' = wants
      /\ holds' = [holds EXCEPT ![current] = @ \ {s}]
  BY DEF Release, Runs, up
<1>2. wants[current] = NoSem
  BY <1>1 DEF RunsUnqueued
<1>3. RunsUnqueued'
  BY <1>1 DEF RunsUnqueued
<1>4. \A t \in Sems : Holders(t) \in SUBSET Procs /\ Holders(t)' \in SUBSET Procs
  BY Zenon DEF Holders
<1>5. Holders(s) = Holders(s)' \cup {current} /\ current \notin Holders(s)'
  BY <1>1, SMT DEF Holders, TypeOK
<1>6. Cardinality(Holders(s)) = Cardinality(Holders(s)') + 1 /\ Cardinality(Holders(s)') \in Nat
  BY <1>4, <1>5, OneMore, Zenon
<1>7. \A t \in Sems : t # s => Holders(t)' = Holders(t)
  BY <1>1, SMT DEF Holders, TypeOK
<1>8. value[s] \in Nat /\ Cardinality(Handed(s)) \in Nat
  BY UnitsAreNats, Zenon DEF Handed, SemTypeOK
<1>9. CASE wait_queue[s] = <<>>
  <2>1. /\ value' = [value EXCEPT ![s] = @ + 1]
        /\ state' = state /\ wait_state' = wait_state
        /\ wait_queue' = wait_queue /\ wakeup_flags' = wakeup_flags
    BY <1>9 DEF Release, up, schedVars
  <2>2. WaitsForSem'
    BY <1>1, <2>1, SMT DEF WaitsForSem, TypeOK
  <2>3. QueuesSleep' /\ OnceInQueue' /\ WokenByUp'
    BY <1>1, <2>1 DEF QueuesSleep, Waits, OnceInQueue, WokenByUp
  <2>4. NoUnitBesideWaiter'
    BY <1>9, <2>1, SMT DEF NoUnitBesideWaiter, SemTypeOK
  <2>5. Conservation'
    <3> SUFFICES ASSUME NEW t \in Sems
                 PROVE  value'[t] + Cardinality(Holders(t)') + Cardinality(Handed(t)') = InitValue[t]
      BY Zenon DEF Conservation
    <3>1. Handed(t)' = Handed(t)
      BY <1>1, <2>1, Zenon DEF Handed
    <3>2. CASE t = s
      <4>1. value'[s] = value[s] + 1
        BY <2>1 DEF SemTypeOK
      <4>. QED
        BY <1>6, <1>8, <3>1, <3>2, <4>1, SMT DEF Conservation
    <3>3. CASE t # s
      <4>1. value'[t] = value[t]
        BY <2>1, <3>3 DEF SemTypeOK
      <4>. QED
        BY <1>7, <3>1, <3>3, <4>1, Zenon DEF Conservation
    <3>. QED
      BY <3>2, <3>3
  <2>. QED
    BY <1>3, <2>2, <2>3, <2>4, <2>5 DEF IInv
<1>10. CASE wait_queue[s] # <<>>
  <2>1. PICK p \in Threads : p = Head(wait_queue[s])
    BY <1>10, HeadTailProperties, Zenon DEF SemTypeOK
  <2>2. /\ value' = value
        /\ wait_queue' = [wait_queue EXCEPT ![s] = Tail(@)]
        /\ wakeup_flags' = [wakeup_flags EXCEPT ![p] = "WT_KSEM"]
        /\ wakeup({p}, state, wait_state)
    BY <1>10, <2>1 DEF Release, up, wakeup_proc
  <2>3. \A r \in Procs : /\ r # p => state'[r] = state[r] /\ wait_state'[r] = wait_state[r]
                         /\ r = p => wait_state'[r] \in {"0", wait_state[r]}
    <3>1. p \in Procs /\ {p} \in SUBSET Procs
      BY DEF Threads
    <3>. QED
      BY <2>2, <3>1, WakeupEffect, Zenon
  <2>4. /\ \A t \in Sems : t # s => wait_queue'[t] = wait_queue[t]
        /\ DOMAIN wait_queue[s] = 1 .. Len(wait_queue[s]) /\ Len(wait_queue[s]) \in Nat \ {0}
        /\ DOMAIN wait_queue'[s] = 1 .. (Len(wait_queue[s]) - 1)
        /\ \A i \in DOMAIN wait_queue'[s] : wait_queue'[s][i] = wait_queue[s][i + 1]
        /\ wait_queue[s][1] = p
    <3> DEFINE q == wait_queue[s]
    <3>1. q \in Seq(Threads) /\ q # <<>>
      BY <1>10 DEF SemTypeOK
    <3>2. Tail(q) \in Seq(Threads) /\ Len(Tail(q)) = Len(q) - 1
          /\ \A i \in 1 .. Len(Tail(q)) : Tail(q)[i] = q[i + 1]
      BY <3>1, HeadTailProperties
    <3>3. DOMAIN q = 1 .. Len(q) /\ Len(q) \in Nat \ {0} /\ DOMAIN Tail(q) = 1 .. Len(Tail(q))
      BY <3>1, <3>2, LenProperties, EmptySeq, Zenon
    <3>4. Head(q) = q[1]
      BY <3>1, SMT
    <3>5. wait_queue'[s] = Tail(q) /\ \A t \in Sems : t # s => wait_queue'[t] = wait_queue[t]
      BY <2>2, SMT DEF SemTypeOK
    <3>. HIDE DEF q
    <3>. QED
      BY <2>1, <3>2, <3>3, <3>4, <3>5, Zenon DEF q
  <2>5. Waits(p, s) /\ p \in Procs /\ p # current
    <3>1. 1 \in DOMAIN wait_queue[s]
      BY <2>4, SMT
    <3>2. Waits(p, s)
      BY <2>4, <3>1, Zenon DEF QueuesSleep
    <3>. QED
      BY <1>2, <3>2, SemLockAssumption DEF Waits, Threads
  <2>6. \A t \in Sems : \A i \in DOMAIN wait_queue'[t] :
          LET r == wait_queue'[t][i] IN r \in Procs /\ r # p /\ Waits(r, t)
    <3>1. ASSUME NEW t \in Sems, t # s, NEW i \in DOMAIN wait_queue[t]
          PROVE  LET r == wait_queue[t][i] IN r \in Procs /\ r # p /\ Waits(r, t)
      <4>1. Waits(wait_queue[t][i], t) /\ wait_queue[t][i] \in Procs
        BY QueueMember, Zenon DEF QueuesSleep, Threads
      <4>. QED
        BY <2>5, <3>1, <4>1, Zenon DEF Waits
    <3>2. ASSUME NEW i \in DOMAIN wait_queue'[s]
          PROVE  LET r == wait_queue[s][i + 1] IN r \in Procs /\ r # p /\ Waits(r, s)
      <4>1. i + 1 \in DOMAIN wait_queue[s] /\ 1 \in DOMAIN wait_queue[s] /\ i + 1 # 1
        BY <2>4, <3>2, SMT
      <4>2. Waits(wait_queue[s][i + 1], s) /\ wait_queue[s][i + 1] \in Procs
        BY <4>1, QueueMember, Zenon DEF QueuesSleep, Threads
      <4>. QED
        BY <2>4, <4>1, <4>2, Zenon DEF OnceInQueue
    <3>3. ASSUME NEW i \in DOMAIN wait_queue'[s] PROVE wait_queue'[s][i] = wait_queue[s][i + 1]
      BY <2>4
    <3>4. ASSUME NEW t \in Sems, NEW i \in DOMAIN wait_queue'[t]
          PROVE  LET r == wait_queue'[t][i] IN r \in Procs /\ r # p /\ Waits(r, t)
      <4>1. CASE t = s
        BY <3>2, <3>3, <3>4, <4>1
      <4>2. CASE t # s
        BY <2>4, <3>1, <3>4, <4>2
      <4>. QED
        BY <4>1, <4>2
    <3>. QED
      BY <3>4
  <2>7. QueuesSleep'
    <3>1. ASSUME NEW r \in Procs, r # p, NEW t, Waits(r, t)
          PROVE  wants'[r] = t /\ state'[r] = "PROC_SLEEPING" /\ wakeup_flags'[r] = "WT_INTERRUPTED"
      BY <1>1, <2>2, <2>3, <3>1, SMT DEF Waits, SemTypeOK
    <3>2. ASSUME NEW t \in Sems, NEW i \in DOMAIN wait_queue'[t]
          PROVE  LET r == wait_queue'[t][i]
                 IN  wants'[r] = t /\ state'[r] = "PROC_SLEEPING" /\ wakeup_flags'[r] = "WT_INTERRUPTED"
      <4> DEFINE r == wait_queue'[t][i]
      <4>1. r \in Procs /\ r # p /\ Waits(r, t)
        BY <2>6
      <4>. HIDE DEF r
      <4>2. wants'[r] = t /\ state'[r] = "PROC_SLEEPING" /\ wakeup_flags'[r] = "WT_INTERRUPTED"
        BY <3>1, <4>1
      <4>. QED
        BY <4>2 DEF r
    <3>. QED
      BY <3>2, Zenon DEF QueuesSleep, Waits
  <2>8. OnceInQueue'
    <3>1. ASSUME NEW i \in DOMAIN wait_queue'[s], NEW j \in DOMAIN wait_queue'[s],
                 wait_queue'[s][i] = wait_queue'[s][j]
          PROVE  i = j
      <4>1. i + 1 \in DOMAIN wait_queue[s] /\ j + 1 \in DOMAIN wait_queue[s] /\ i \in Nat /\ j \in Nat
        BY <2>4, SMT
      <4>2. wait_queue[s][i + 1] = wait_queue[s][j + 1]
        BY <2>4, <3>1
      <4>3. i + 1 = j + 1
        BY <4>1, <4>2, Zenon DEF OnceInQueue
      <4>. QED
        BY <4>1, <4>3, SMT
    <3>. QED
      BY <2>4, <3>1, Zenon DEF OnceInQueue
  <2>9. WaitsForSem'
    BY <1>1, <2>3, SMT DEF WaitsForSem, TypeOK
  <2>10. WokenByUp'
    BY <1>1, <2>2, <2>3, SMT DEF WokenByUp, SemTypeOK
  <2>11. NoUnitBesideWaiter'
    BY <1>10, <2>2, <2>4, Zenon DEF NoUnitBesideWaiter
  <2>12. Conservation'
    <3> SUFFICES ASSUME NEW t \in Sems
                 PROVE  value'[t] + Cardinality(Holders(t)') + Cardinality(Handed(t)') = InitValue[t]
      BY Zenon DEF Conservation
    <3>1. CASE t = s
      <4>1. Handed(s)' = Handed(s) \cup {p} /\ p \notin Handed(s)
        BY <1>1, <2>2, <2>5, SMT DEF Handed, Waits, SemTypeOK
      <4>2. Cardinality(Handed(s)') = Cardinality(Handed(s)) + 1
        BY <2>5, <4>1, OneMore, Zenon DEF Handed
      <4>. QED
        BY <1>6, <1>8, <2>2, <3>1, <4>2, SMT DEF Conservation
    <3>2. CASE t # s
      <4>1. Handed(t)' = Handed(t)
        BY <1>1, <2>2, <2>5, <3>2, SMT DEF Handed, Waits, SemTypeOK
      <4>. QED
        BY <1>7, <2>2, <3>2, <4>1, Zenon DEF Conservation
    <3>. QED
      BY <3>1, <3>2
  <2>. QED
    BY <1>3, <2>7, <2>8, <2>9, <2>10, <2>11, <2>12 DEF IInv
<1>. QED
  BY <1>9, <1>10

-----------------------------------------------------------------------------
(* The invariant and what follows from it.                                  *)

\* Every step keeps the invariant.
LEMMA NextIInv == IInv /\ [Next]_vars => IInv'
<1> SUFFICES ASSUME IInv, [Next]_vars PROVE IInv'
  OBVIOUS
<1>1. TypeOK'
  BY NextType
<1>2. ASSUME NEW s \in Sems, Take(s) \/ Block(s) \/ Release(s) PROVE IInv'
  BY <1>1, <1>2, TakeKeeps, BlockKeeps, ReleaseKeeps, Zenon
<1>3. CASE Granted
  BY <1>1, <1>3, GrantedKeeps, Zenon
<1>4. CASE \/ Sleep \/ SleepOver \/ Preempt \/ Tick \/ UNCHANGED vars
           \/ \E p \in Procs : Kill(p)
           \/ \E next \in Procs : Schedule(next)
  BY <1>1, <1>4, QuietSteps, QuietKeeps, Zenon
<1>. QED
  BY <1>2, <1>3, <1>4, Zenon DEF Next

\* So it always holds.
LEMMA IInvCorrect == Spec => []IInv
  BY InitIInv, NextIInv, PTL DEF Spec

\* Units are neither lost nor made, whatever is killed and whoever sleeps with a
\* lock (__up, __down): a semaphore initialised with 1 is a lock.
THEOREM ConservationCorrect == Spec => []Conservation
<1>1. IInv => Conservation
  BY DEF IInv
<1>. QED
  BY <1>1, IInvCorrect, PTL

\* No unit is left beside a waiter, for a passer-by to take (__up, __down).
THEOREM NoUnitBesideWaiterCorrect == Spec => []NoUnitBesideWaiter
<1>1. IInv => NoUnitBesideWaiter
  BY DEF IInv
<1>. QED
  BY <1>1, IInvCorrect, PTL

\* The assertion in down never fails: neither a kill nor a timer wakes a thread
\* out of the queue of a semaphore (__down, do_kill).
THEOREM WokenWithUnitCorrect == Spec => []WokenWithUnit
<1>1. IInv => WokenWithUnit
  <2> SUFFICES ASSUME IInv, NEW p \in Procs, wants[p] # NoSem, state[p] = "PROC_RUNNABLE"
               PROVE  wakeup_flags[p] = "WT_KSEM" /\ \A s \in Sems : ~wait_in_queue(s, p)
    BY Zenon DEF WokenWithUnit
  <2>1. wakeup_flags[p] = "WT_KSEM"
    BY SMT DEF IInv, WokenByUp
  <2>. QED
    BY <2>1, Unqueued, Zenon DEF wait_in_queue
<1>. QED
  BY <1>1, IInvCorrect, PTL
=============================================================================
