----------------------------- MODULE PhilProofs ------------------------------
(***************************************************************************)
(* Proofs about the two dining philosopher programs, for any number of      *)
(* philosophers and meals.  That one thread is inside rests on the wait     *)
(* queues holding exactly the threads that are in a down without their      *)
(* unit: then an up hands on what the running thread had, and what next_count*)
(* and count say of the queues is true when the monitor reads them.         *)
(***************************************************************************)
EXTENDS MCPhil, FiniteSetTheorems, SequenceTheorems, TLAPS

\* The types the proofs need: what the wakeups do to the fields of the
\* scheduler is left open.
SyncTypes ==
    /\ current \in Procs
    /\ value \in [Sems -> Nat]
    /\ wait_queue \in [Sems -> Seq(Phils)]
    /\ wakeup_flags \in [Procs -> {"WT_KSEM", "WT_INTERRUPTED"}]
    /\ phase \in [Procs -> {"running", "blocking", "resuming"}]

\* w[p] holds the semaphore that p has called down on and not come back from.
\* The threads in the queue of a semaphore are those that wait for it and have
\* not been given their unit, each once.
DownsOf == {w \in [Phils -> SUBSET Sems] : \A p \in Phils : \A s, t \in w[p] : s = t}

Waits(p, s, w) == s \in w[p] /\ wakeup_flags[p] = "WT_INTERRUPTED"

InQueues(w) == \A s \in Sems :
    /\ \A p \in Phils : wait_in_queue(s, p) <=> Waits(p, s, w)
    /\ \A k, m \in DOMAIN wait_queue[s] : wait_queue[s][k] = wait_queue[s][m] => k = m

\* What up(s) does: nobody waits and the unit is counted, or a waiter has it.
Counts(s, w) ==
    /\ \A p \in Phils : ~Waits(p, s, w)
    /\ value' = [value EXCEPT ![s] = @ + 1]
    /\ UNCHANGED wakeup_flags

HandsTo(p, s, w) ==
    /\ Waits(p, s, w)
    /\ wakeup_flags' = [wakeup_flags EXCEPT ![p] = "WT_KSEM"]
    /\ UNCHANGED value

\* The philosophers are the threads.
LEMMA PhilsThreads ==
  /\ Phils = Procs \ {idleproc}
  /\ Phils \subseteq Sems
  /\ mutex \in Sems /\ next \in Sems /\ mutex # next
  /\ mutex \notin Phils /\ next \notin Phils
  BY TableAssumption, PhilMonitorAssumption DEF Phils, Threads

\* Nothing happens to the queues.
LEMMA SameQueues ==
  ASSUME NEW w, InQueues(w), UNCHANGED <<wait_queue, wakeup_flags>>
  PROVE  InQueues(w)'
  BY Zenon DEF InQueues, Waits, wait_in_queue

\* An up counts the unit only when nobody waits for it; else exactly one thread
\* that waits has it and is off the queue.
LEMMA UpEffect ==
  ASSUME SyncTypes, NEW w \in DownsOf, InQueues(w), NEW s \in Sems, up(s)
  PROVE  /\ SyncTypes'
         /\ InQueues(w)'
         /\ UNCHANGED <<current, phase>>
         /\ Counts(s, w) \/ \E p \in Phils : HandsTo(p, s, w)
<1> DEFINE q == wait_queue[s]
<1>0. UNCHANGED <<current, phase>>
  BY DEF up, schedVars, wakeup_proc, wakeup
<1>1. q \in Seq(Phils)
  BY DEF SyncTypes
<1>2. CASE q = <<>>
  <2>1. UNCHANGED <<wait_queue, wakeup_flags>> /\ value' = [value EXCEPT ![s] = @ + 1]
    BY <1>2 DEF up
  <2>2. SyncTypes'
    BY <1>0, <2>1 DEF SyncTypes
  <2>3. DOMAIN q = {}
    BY <1>2, EmptySeq
  <2>4. \A p \in Phils : ~Waits(p, s, w)
    BY <2>3 DEF InQueues, wait_in_queue
  <2>. QED
    BY <1>0, <2>1, <2>2, <2>4, SameQueues DEF Counts
<1>3. CASE q # <<>>
  <2> DEFINE h == Head(q)
             r == Tail(q)
  <2>1. /\ wait_queue' = [wait_queue EXCEPT ![s] = r]
        /\ wakeup_flags' = [wakeup_flags EXCEPT ![h] = "WT_KSEM"]
        /\ UNCHANGED value
    BY <1>3 DEF up
  <2>2. /\ h \in Phils /\ 1 \in DOMAIN q /\ h = q[1] /\ r \in Seq(Phils) /\ Len(q) \in Nat \ {0}
        /\ DOMAIN q = 1 .. Len(q) /\ DOMAIN r = 1 .. (Len(q) - 1)
        /\ \A k \in DOMAIN r : k + 1 \in DOMAIN q /\ r[k] = q[k + 1]
    <3> HIDE DEF q
    <3>1. /\ Head(q) \in Phils /\ Tail(q) \in Seq(Phils) /\ Len(Tail(q)) = Len(q) - 1
          /\ \A k \in 1 .. Len(Tail(q)) : Tail(q)[k] = q[k + 1]
      BY <1>1, <1>3, HeadTailProperties
    <3>2. Head(q) = q[1] /\ Len(q) \in Nat \ {0} /\ DOMAIN q = 1 .. Len(q)
      BY <1>1, <1>3, LenProperties, EmptySeq, HeadTailProperties
    <3>3. DOMAIN r = 1 .. Len(r)
      BY <3>1, LenProperties
    <3>. QED
      BY <3>1, <3>2, <3>3
  <2> HIDE DEF q, h, r
  <2>3. Waits(h, s, w)
    BY <2>2 DEF InQueues, wait_in_queue, q
  <2>4. SyncTypes'
    BY <1>0, <2>1, <2>2, PhilsThreads DEF SyncTypes
  <2>5. \A p \in Phils, t \in Sems : Waits(p, t, w)' <=> Waits(p, t, w) /\ p # h
    BY <2>1, <2>2, PhilsThreads DEF Waits, SyncTypes
  <2>6. ASSUME NEW t \in Sems
        PROVE  /\ \A p \in Phils : wait_in_queue(t, p)' <=> Waits(p, t, w)'
               /\ \A k, m \in DOMAIN wait_queue'[t] : wait_queue'[t][k] = wait_queue'[t][m] => k = m
    <3>1. /\ \A p \in Phils : wait_in_queue(t, p) <=> Waits(p, t, w)
          /\ \A k, m \in DOMAIN wait_queue[t] : wait_queue[t][k] = wait_queue[t][m] => k = m
      BY DEF InQueues
    <3>2. CASE t # s
      <4>1. wait_queue'[t] = wait_queue[t]
        BY <2>1, <3>2 DEF SyncTypes
      <4>2. ~Waits(h, t, w)
        BY <3>2, <2>2, <2>3 DEF Waits, DownsOf
      <4>3. \A p \in Phils : wait_in_queue(t, p)' <=> wait_in_queue(t, p)
        BY <4>1, Zenon DEF wait_in_queue
      <4>. QED
        BY <2>5, <3>1, <4>1, <4>2, <4>3
    <3>3. CASE t = s
      <4>1. wait_queue'[t] = r /\ wait_queue[t] = q
        BY <2>1, <3>3 DEF SyncTypes, q
      <4>2. \A k, m \in DOMAIN q : q[k] = q[m] => k = m
        BY <3>1, <4>1
      <4>3. \A k, m \in DOMAIN r : r[k] = r[m] => k = m
        BY <2>2, <4>2
      <4>4. ASSUME NEW p \in Phils
            PROVE  (\E k \in DOMAIN r : r[k] = p) <=> (\E k \in DOMAIN q : q[k] = p) /\ p # h
        <5>1. ASSUME NEW k \in DOMAIN r, r[k] = p
              PROVE  (\E m \in DOMAIN q : q[m] = p) /\ p # h
          BY <2>2, <4>2, <5>1
        <5>2. ASSUME NEW k \in DOMAIN q, q[k] = p, p # h
              PROVE  \E m \in DOMAIN r : r[m] = p
          <6>1. k - 1 \in DOMAIN r /\ k - 1 + 1 = k
            BY <5>2, <2>2
          <6>. QED
            BY <6>1, <5>2, <2>2
        <5>. QED
          BY <5>1, <5>2
      <4>5. \A p \in Phils : wait_in_queue(t, p)' <=> wait_in_queue(t, p) /\ p # h
        BY <4>1, <4>4 DEF wait_in_queue
      <4>. QED
        BY <2>5, <3>1, <4>1, <4>3, <4>5
    <3>. QED
      BY <3>2, <3>3
  <2>7. InQueues(w)'
    BY <2>6 DEF InQueues
  <2>. QED
    BY <1>0, <2>1, <2>2, <2>3, <2>4, <2>7 DEF HandsTo
<1>. QED
  BY <1>2, <1>3

\* A down without a unit left puts the thread into that queue and no other.
LEMMA BlocksEffect ==
  ASSUME SyncTypes, NEW w \in DownsOf, InQueues(w), NEW s \in Sems, down_blocks(s),
         current \in Phils, w[current] = {},
         NEW v \in DownsOf, v = [w EXCEPT ![current] = {s}]
  PROVE  SyncTypes' /\ InQueues(v)'
<1> DEFINE q == wait_queue[s]
           r == Append(q, current)
<1>1. /\ wait_queue' = [wait_queue EXCEPT ![s] = r]
      /\ wakeup_flags' = [wakeup_flags EXCEPT ![current] = "WT_INTERRUPTED"]
      /\ phase' = [phase EXCEPT ![current] = "blocking"]
      /\ UNCHANGED <<current, value>>
  BY DEF down_blocks
<1>2. q \in Seq(Phils)
  BY DEF SyncTypes
<1>3. /\ Len(q) \in Nat /\ DOMAIN q = 1 .. Len(q)
      /\ r \in Seq(Phils) /\ DOMAIN r = 1 .. (Len(q) + 1)
      /\ \A k \in DOMAIN q : r[k] = q[k]
      /\ r[Len(q) + 1] = current
  <2> HIDE DEF q
  <2>. QED
    BY <1>2, AppendProperties, LenProperties
<1> HIDE DEF q, r
<1>4. SyncTypes'
  BY <1>1, <1>3, PhilsThreads DEF SyncTypes
<1>5. \A p \in Phils, t \in Sems : Waits(p, t, v)' <=> Waits(p, t, w) \/ (p = current /\ t = s)
  BY <1>1, PhilsThreads DEF Waits, SyncTypes, DownsOf
<1>6. \A t \in Sems : ~Waits(current, t, w)
  BY DEF Waits
<1>7. ASSUME NEW t \in Sems
      PROVE  /\ \A p \in Phils : wait_in_queue(t, p)' <=> Waits(p, t, v)'
             /\ \A k, m \in DOMAIN wait_queue'[t] : wait_queue'[t][k] = wait_queue'[t][m] => k = m
  <2>1. /\ \A p \in Phils : wait_in_queue(t, p) <=> Waits(p, t, w)
        /\ \A k, m \in DOMAIN wait_queue[t] : wait_queue[t][k] = wait_queue[t][m] => k = m
    BY DEF InQueues
  <2>2. CASE t # s
    <3>1. wait_queue'[t] = wait_queue[t]
      BY <1>1, <2>2 DEF SyncTypes
    <3>2. \A p \in Phils : wait_in_queue(t, p)' <=> wait_in_queue(t, p)
      BY <3>1, Zenon DEF wait_in_queue
    <3>. QED
      BY <1>5, <2>1, <2>2, <3>1, <3>2
  <2>3. CASE t = s
    <3>1. wait_queue'[t] = r /\ wait_queue[t] = q
      BY <1>1, <2>3 DEF SyncTypes, q
    <3>2. \A k \in DOMAIN q : q[k] # current
      BY <1>6, <2>1, <3>1 DEF wait_in_queue
    <3>3. \A k, m \in DOMAIN r : r[k] = r[m] => k = m
      BY <1>3, <2>1, <3>1, <3>2
    <3>4. ASSUME NEW p \in Phils
          PROVE  (\E k \in DOMAIN r : r[k] = p) <=> (\E k \in DOMAIN q : q[k] = p) \/ p = current
      BY <1>3
    <3>5. \A p \in Phils : wait_in_queue(t, p)' <=> wait_in_queue(t, p) \/ p = current
      BY <3>1, <3>4 DEF wait_in_queue
    <3>. QED
      BY <1>5, <2>1, <2>3, <3>1, <3>3, <3>5
  <2>. QED
    BY <2>2, <2>3
<1>8. InQueues(v)'
  BY <1>7 DEF InQueues
<1>. QED
  BY <1>4, <1>8

\* A down that comes back with the unit it was given finds itself in no queue.
LEMMA ResumesEffect ==
  ASSUME SyncTypes, NEW w \in DownsOf, InQueues(w), NEW s \in Sems, down_resumes(s),
         wakeup_flags[current] = "WT_KSEM", current \in Phils,
         NEW v \in DownsOf, v = [w EXCEPT ![current] = {}]
  PROVE  SyncTypes' /\ InQueues(v)' /\ UNCHANGED wait_queue
<1>1. ~wait_in_queue(s, current)
  BY DEF InQueues, Waits
<1>2. UNCHANGED <<current, value, wait_queue, wakeup_flags>> /\ phase' = [phase EXCEPT ![current] = "running"]
  BY <1>1 DEF down_resumes, schedVars
<1>3. SyncTypes'
  BY <1>2 DEF SyncTypes
<1>4. \A p \in Phils, t \in Sems : Waits(p, t, v)' <=> Waits(p, t, w)
  BY <1>2 DEF Waits, DownsOf
<1>5. \A p \in Phils, t \in Sems : wait_in_queue(t, p)' <=> wait_in_queue(t, p)
  BY <1>2, Zenon DEF wait_in_queue
<1>6. InQueues(v)'
  BY <1>2, <1>4, <1>5 DEF InQueues
<1>. QED
  BY <1>2, <1>3, <1>6

-----------------------------------------------------------------------------
(* The program with semaphores.                                            *)

\* mutex is open, or one thread is in In.
Exclusive(In) ==
    /\ value[mutex] \in {0, 1}
    /\ value[mutex] = 0 <=> \E i \in Phils : i \in In
    /\ \A i, j \in In : i = j

PhilStates == {"THINKING", "HUNGRY", "EATING"}

LabelsSema == {"thinking", "take", "hungry", "test", "taken", "fork", "eating", "put", "done",
               "left", "right", "leave", "quit"}

TypesSema == SyncTypes /\ pc \in [Phils -> LabelsSema] /\ phil \in [Phils -> PhilStates]

DownsSema == [p \in Phils |->
    IF pc[p] \in {"take", "put", "fork"} /\ phase[p] # "running" THEN {DownAtSema(p)} ELSE {}]

InSema == {i \in Phils : pc[i] \in InsideSema \/ Handed(i, {"take", "put"})}

\* s[i] holds a unit from the time philosopher i was told that it eats to its
\* down(s[i]), unless the unit was handed to that down.
ToldSema(i) == phil[i] = "EATING" /\ pc[i] \in {"test", "taken", "fork"} /\ ~Handed(i, {"fork"})

ForksSema == \A i \in Phils :
    /\ value[i] = IF ToldSema(i) THEN 1 ELSE 0
    /\ Handed(i, {"fork"}) => phil[i] = "EATING"

\* What a philosopher's state is where it is in its program.
StatesSema == \A i \in Phils :
    /\ pc[i] \in {"thinking", "take", "hungry", "left", "right", "leave", "quit"} => phil[i] = "THINKING"
    /\ pc[i] \in {"eating", "put", "done"} => phil[i] = "EATING"
    /\ pc[i] \in {"test", "taken", "fork"} => phil[i] # "THINKING"

SemaInv ==
    /\ TypesSema
    /\ InQueues(DownsSema)
    /\ Exclusive(InSema)
    /\ ForksSema
    /\ StatesSema

\* A thread is in one down at a time.
LEMMA DownsSemaType == TypesSema => DownsSema \in DownsOf
  BY PhilsThreads DEF DownsSema, DownsOf, TypesSema, DownAtSema

\* The queues are right for the downs after a step when they are for a value that
\* equals those.
LEMMA SemaQueues ==
  ASSUME NEW w, InQueues(w)', DownsSema' = w
  PROVE  InQueues(DownsSema)'
  BY Zenon DEF InQueues, Waits

\* A step that starts and ends no down leaves the queues right.
LEMMA SemaKeepsQueues ==
  ASSUME InQueues(DownsSema), UNCHANGED <<wait_queue, wakeup_flags, DownsSema>>
  PROVE  InQueues(DownsSema)'
<1>1. PICK w : w = DownsSema
  OBVIOUS
<1>. QED
  BY <1>1, SameQueues, SemaQueues

\* do_sleep and the end of the thread.
LEMMA SemaSleeps == SemaInv /\ (Sleep \/ SleepOver \/ Quit) => SemaInv'
<1> SUFFICES ASSUME SemaInv, Sleep \/ SleepOver \/ Quit PROVE SemaInv'
  OBVIOUS
<1>1. current \in Phils
  BY PhilsThreads DEF Sleep, SleepOver, Quit, At, SemaInv, TypesSema, SyncTypes
<1>2. /\ UNCHANGED <<current, value, wait_queue, wakeup_flags, phil>>
      /\ pc[current] \in {"thinking", "eating", "quit"}
      /\ phase' \in [Procs -> {"running", "blocking", "resuming"}]
      /\ \A q \in Phils \ {current} : phase'[q] = phase[q]
      /\ \/ pc' = pc
         \/ pc[current] = "thinking" /\ pc' = [pc EXCEPT ![current] = "take"] /\ phase'[current] = "running"
         \/ pc[current] = "eating" /\ pc' = [pc EXCEPT ![current] = "put"] /\ phase'[current] = "running"
  <2>. USE <1>1 DEF At, Goto, schedVars, SemaInv, TypesSema, SyncTypes
  <2>1. CASE Sleep
    BY <2>1 DEF Sleep, sleep_blocks
  <2>2. CASE SleepOver
    <3>1. /\ UNCHANGED <<current, value, wait_queue, wakeup_flags, phil>>
          /\ phase' = [phase EXCEPT ![current] = "running"]
          /\ pc[current] \in {"thinking", "eating"}
          /\ pc' = [pc EXCEPT ![current] = IF pc[current] = "thinking" THEN "take" ELSE "put"]
      BY <2>2, Zenon DEF SleepOver, sleep_resumes
    <3>2. CASE pc[current] = "thinking"
      BY <3>1, <3>2
    <3>3. CASE pc[current] = "eating"
      BY <3>1, <3>3
    <3>. QED
      BY <3>1, <3>2, <3>3
  <2>3. CASE Quit
    BY <2>3 DEF Quit
  <2>. QED
    BY <2>1, <2>2, <2>3
<1>3. TypesSema'
  BY <1>2 DEF SemaInv, TypesSema, SyncTypes, LabelsSema
<1>4. DownsSema' = DownsSema
  BY <1>1, <1>2 DEF DownsSema, DownAtSema, SemaInv, TypesSema
<1>5. InQueues(DownsSema)'
  BY <1>2, <1>4, SemaKeepsQueues DEF SemaInv
<1>6. Exclusive(InSema)'
  BY <1>1, <1>2 DEF SemaInv, TypesSema, Exclusive, InSema, InsideSema, Handed
<1>7. ForksSema'
  BY <1>1, <1>2 DEF SemaInv, TypesSema, ForksSema, ToldSema, Handed
<1>8. StatesSema'
  BY <1>1, <1>2 DEF SemaInv, TypesSema, StatesSema
<1>. QED
  BY <1>3, <1>5, <1>6, <1>7, <1>8 DEF SemaInv

\* down has to wait.
LEMMA SemaBlocks == SemaInv /\ BlocksSema => SemaInv'
<1> SUFFICES ASSUME SemaInv, BlocksSema PROVE SemaInv'
  OBVIOUS
<1>1. current \in Phils /\ pc[current] \in {"take", "put", "fork"}
  BY PhilsThreads DEF BlocksSema, AfterSema, At, SemaInv, TypesSema, SyncTypes
<1>2. PICK w \in DownsOf : w = DownsSema
  BY DownsSemaType DEF SemaInv
<1>3. PICK s \in Sems : s = DownAtSema(current)
  BY <1>1, PhilsThreads DEF DownAtSema
<1>4. PICK v \in DownsOf : v = [w EXCEPT ![current] = {s}]
  BY <1>1 DEF DownsOf
<1>5. /\ UNCHANGED <<current, value, pc, phil>>
      /\ phase[current] = "running" /\ value[s] = 0
      /\ phase' = [phase EXCEPT ![current] = "blocking"]
      /\ wakeup_flags' = [wakeup_flags EXCEPT ![current] = "WT_INTERRUPTED"]
      /\ down_blocks(s)
  BY <1>3 DEF BlocksSema, Blocks, Runs, down_blocks
<1>6. w[current] = {}
  BY <1>1, <1>2, <1>5 DEF DownsSema
<1>7. SyncTypes' /\ InQueues(v)'
  BY <1>1, <1>2, <1>4, <1>5, <1>6, BlocksEffect DEF SemaInv, TypesSema
<1>8. DownsSema' = v
  BY <1>1, <1>2, <1>3, <1>4, <1>5, PhilsThreads DEF DownsSema, DownAtSema, SemaInv, TypesSema, SyncTypes
<1>9. InQueues(DownsSema)'
  BY <1>7, <1>8, SemaQueues
<1>10. TypesSema'
  BY <1>5, <1>7 DEF SemaInv, TypesSema
<1>11. Exclusive(InSema)'
  BY <1>1, <1>5, PhilsThreads DEF SemaInv, TypesSema, SyncTypes, Exclusive, InSema, InsideSema, Handed
<1>12. ForksSema'
  BY <1>1, <1>3, <1>5, PhilsThreads DEF SemaInv, TypesSema, SyncTypes, ForksSema, ToldSema, Handed, DownAtSema
<1>13. StatesSema'
  BY <1>5 DEF SemaInv, TypesSema, StatesSema
<1>. QED
  BY <1>9, <1>10, <1>11, <1>12, <1>13 DEF SemaInv

\* down returns, at once or with the unit an up handed over.
LEMMA SemaReturns == SemaInv /\ ReturnsSema => SemaInv'
<1> SUFFICES ASSUME SemaInv, ReturnsSema PROVE SemaInv'
  OBVIOUS
<1>1. current \in Phils /\ pc[current] \in {"take", "put", "fork"}
  BY PhilsThreads DEF ReturnsSema, AfterSema, At, SemaInv, TypesSema, SyncTypes
<1>2. PICK w \in DownsOf : w = DownsSema
  BY DownsSemaType DEF SemaInv
<1>3. PICK s \in Sems : s = DownAtSema(current)
  BY <1>1, PhilsThreads DEF DownAtSema
<1>4. PICK v \in DownsOf : v = [w EXCEPT ![current] = {}]
  BY <1>1 DEF DownsOf
<1>5. /\ UNCHANGED phil
      /\ Downed(s)
      /\ pc' = [pc EXCEPT ![current] = AfterSema[pc[current]]]
  BY <1>3 DEF ReturnsSema, At, Goto
<1>6. AfterSema[pc[current]] = IF pc[current] = "take" THEN "hungry" ELSE IF pc[current] = "put" THEN "done" ELSE "eating"
  BY <1>1 DEF AfterSema
<1>7. SyncTypes /\ pc \in [Phils -> LabelsSema] /\ phil \in [Phils -> PhilStates]
  BY DEF SemaInv, TypesSema
<1>8. pc' \in [Phils -> LabelsSema]
  BY <1>1, <1>5, <1>6, <1>7 DEF LabelsSema
<1>9. CASE Runs(current) /\ down_takes(s)
  <2>1. /\ UNCHANGED <<current, wait_queue, wakeup_flags, phase>>
        /\ value[s] > 0 /\ value' = [value EXCEPT ![s] = @ - 1]
        /\ phase[current] = "running"
    BY <1>9 DEF down_takes, Runs, schedVars
  <2>2. TypesSema'
    BY <2>1, <1>5, <1>7, <1>8 DEF TypesSema, SyncTypes
  <2>3. DownsSema' = DownsSema
    BY <1>1, <1>5, <1>6, <1>7, <2>1 DEF DownsSema, DownAtSema
  <2>4. InQueues(DownsSema)'
    BY <2>1, <2>3, SemaKeepsQueues DEF SemaInv
  <2>5. Exclusive(InSema)'
    BY <1>1, <1>3, <1>5, <1>6, <1>7, <2>1, PhilsThreads DEF SemaInv, SyncTypes, Exclusive, InSema, InsideSema, Handed, DownAtSema
  <2>6. ForksSema'
    BY <1>1, <1>3, <1>5, <1>6, <1>7, <2>1, PhilsThreads DEF SemaInv, SyncTypes, ForksSema, StatesSema, ToldSema, Handed, DownAtSema
  <2>7. StatesSema'
    BY <1>1, <1>3, <1>5, <1>6, <1>7, <2>1, PhilsThreads DEF SemaInv, SyncTypes, ForksSema, ToldSema, StatesSema, DownAtSema
  <2>. QED
    BY <2>2, <2>4, <2>5, <2>6, <2>7 DEF SemaInv
<1>10. CASE wakeup_flags[current] = "WT_KSEM" /\ down_resumes(s)
  <2>1. SyncTypes' /\ InQueues(v)' /\ UNCHANGED wait_queue
    BY <1>1, <1>2, <1>4, <1>7, <1>10, ResumesEffect DEF SemaInv
  <2>2. /\ UNCHANGED <<current, value, wakeup_flags>>
        /\ phase[current] = "resuming"
        /\ phase' = [phase EXCEPT ![current] = "running"]
    BY <1>10 DEF down_resumes, schedVars
  <2>3. DownsSema' = v
    BY <1>1, <1>2, <1>4, <1>5, <1>6, <1>7, <2>2, PhilsThreads DEF DownsSema, DownAtSema, SyncTypes
  <2>4. InQueues(DownsSema)'
    BY <2>1, <2>3, SemaQueues
  <2>5. TypesSema'
    BY <1>5, <1>7, <1>8, <2>1 DEF TypesSema
  <2>6. Exclusive(InSema)'
    BY <1>1, <1>5, <1>6, <1>7, <1>10, <2>2, PhilsThreads DEF SemaInv, SyncTypes, Exclusive, InSema, InsideSema, Handed
  <2>7. ForksSema'
    BY <1>1, <1>5, <1>6, <1>7, <1>10, <2>2, PhilsThreads DEF SemaInv, SyncTypes, ForksSema, StatesSema, ToldSema, Handed
  <2>8. StatesSema'
    BY <1>1, <1>5, <1>6, <1>7, <1>10, <2>2, PhilsThreads DEF SemaInv, SyncTypes, ForksSema, Handed, StatesSema
  <2>. QED
    BY <2>4, <2>5, <2>6, <2>7, <2>8 DEF SemaInv
<1>. QED
  BY <1>5, <1>9, <1>10 DEF Downed

\* The assignments of HUNGRY and THINKING.
LEMMA SemaMarks ==
  SemaInv /\ (Mark("hungry", "HUNGRY", "test") \/ Mark("done", "THINKING", "left")) => SemaInv'
<1> SUFFICES ASSUME SemaInv, Mark("hungry", "HUNGRY", "test") \/ Mark("done", "THINKING", "left")
             PROVE  SemaInv'
  OBVIOUS
<1>1. current \in Phils
  BY PhilsThreads DEF Mark, At, SemaInv, TypesSema, SyncTypes
<1>2. SyncTypes /\ pc \in [Phils -> LabelsSema] /\ phil \in [Phils -> PhilStates]
  BY DEF SemaInv, TypesSema
<1>3. /\ UNCHANGED <<current, value, wait_queue, wakeup_flags, phase>>
      /\ phase[current] = "running"
      /\ \/ /\ pc[current] = "hungry" /\ pc' = [pc EXCEPT ![current] = "test"]
            /\ phil' = [phil EXCEPT ![current] = "HUNGRY"]
         \/ /\ pc[current] = "done" /\ pc' = [pc EXCEPT ![current] = "left"]
            /\ phil' = [phil EXCEPT ![current] = "THINKING"]
  BY DEF Mark, At, Goto, Runs, semVars, schedVars
<1>4. TypesSema'
  BY <1>1, <1>2, <1>3 DEF TypesSema, SyncTypes, LabelsSema, PhilStates
<1>5. DownsSema' = DownsSema
  BY <1>1, <1>2, <1>3 DEF DownsSema, DownAtSema
<1>6. InQueues(DownsSema)'
  BY <1>3, <1>5, SemaKeepsQueues DEF SemaInv
<1>7. Exclusive(InSema)'
  BY <1>1, <1>2, <1>3 DEF SemaInv, Exclusive, InSema, InsideSema, Handed
<1>8. ForksSema'
  BY <1>1, <1>2, <1>3 DEF SemaInv, ForksSema, StatesSema, ToldSema, Handed
<1>9. StatesSema'
  BY <1>1, <1>2, <1>3 DEF SemaInv, StatesSema
<1>. QED
  BY <1>4, <1>6, <1>7, <1>8, <1>9 DEF SemaInv

\* phi_test_sema of the thread's own state or of a neighbour's.
LEMMA SemaTests ==
  ASSUME SemaInv, NEW i \in Phils, NEW from, NEW to, TestSema(from, i, to),
         \/ from = "test" /\ to = "taken" /\ i = current
         \/ from = "left" /\ to = "right"
         \/ from = "right" /\ to = "leave"
  PROVE  SemaInv'
<1>1. current \in Phils
  BY PhilsThreads DEF TestSema, At, SemaInv, TypesSema, SyncTypes
<1>2. SyncTypes /\ pc \in [Phils -> LabelsSema] /\ phil \in [Phils -> PhilStates]
  BY DEF SemaInv, TypesSema
<1>3. /\ phase[current] = "running" /\ pc[current] = from
      /\ pc' = [pc EXCEPT ![current] = to]
      /\ phi_test_sema(i)
  BY DEF TestSema, At, Goto, Runs
<1>4. to \in LabelsSema /\ pc' \in [Phils -> LabelsSema]
  BY <1>1, <1>2, <1>3 DEF LabelsSema
<1>5. CASE ~MayEat(i)
  <2>1. UNCHANGED <<current, value, wait_queue, wakeup_flags, phase, phil>>
    BY <1>3, <1>5 DEF phi_test_sema, semVars, schedVars
  <2>2. TypesSema'
    BY <1>2, <1>4, <2>1 DEF TypesSema, SyncTypes
  <2>3. DownsSema' = DownsSema
    BY <1>1, <1>2, <1>3, <2>1 DEF DownsSema, DownAtSema
  <2>4. InQueues(DownsSema)'
    BY <2>1, <2>3, SemaKeepsQueues DEF SemaInv
  <2>5. Exclusive(InSema)'
    BY <1>1, <1>2, <1>3, <2>1 DEF SemaInv, Exclusive, InSema, InsideSema, Handed
  <2>6. ForksSema'
    BY <1>1, <1>2, <1>3, <2>1 DEF SemaInv, ForksSema, StatesSema, ToldSema, Handed
  <2>7. StatesSema'
    BY <1>1, <1>2, <1>3, <2>1 DEF SemaInv, StatesSema
  <2>. QED
    BY <2>2, <2>4, <2>5, <2>6, <2>7 DEF SemaInv
<1>6. CASE MayEat(i)
  <2>1. phil[i] = "HUNGRY" /\ phil' = [phil EXCEPT ![i] = "EATING"] /\ up(i) /\ i \in Sems
    BY <1>3, <1>6, PhilsThreads DEF phi_test_sema, MayEat
  <2>2. PICK w \in DownsOf : w = DownsSema
    BY DownsSemaType DEF SemaInv
  <2>3. /\ SyncTypes' /\ InQueues(w)'
        /\ UNCHANGED <<current, phase>>
        /\ Counts(i, w) \/ \E p \in Phils : HandsTo(p, i, w)
    BY <1>2, <2>1, <2>2, UpEffect DEF SemaInv
  <2>4. TypesSema'
    BY <1>2, <1>4, <2>1, <2>3 DEF TypesSema, PhilStates
  <2>5. DownsSema' = DownsSema
    BY <1>1, <1>2, <1>3, <2>3 DEF DownsSema, DownAtSema
  <2>6. InQueues(DownsSema)'
    BY <2>2, <2>3, <2>5, SemaQueues
  <2>7. /\ pc[i] \in {"test", "taken", "fork"} /\ (pc[i] = "test" => i = current)
        /\ ~Handed(i, {"fork"}) /\ value[i] = 0
    BY <2>1, <1>1, <1>2, <1>3 DEF SemaInv, StatesSema, ForksSema, ToldSema, Exclusive, InSema, InsideSema, LabelsSema
  <2>8. StatesSema'
    BY <1>1, <1>2, <1>3, <2>1, <2>7 DEF SemaInv, StatesSema
  <2>9. CASE Counts(i, w)
    <3>1. value' = [value EXCEPT ![i] = @ + 1] /\ wakeup_flags' = wakeup_flags
      BY <2>9 DEF Counts
    <3>2. Exclusive(InSema)'
      <4>1. \A q \in Phils : q \in InSema' <=> q \in InSema
        BY <1>1, <1>2, <1>3, <2>3, <3>1, PhilsThreads DEF SyncTypes, InSema, InsideSema, Handed
      <4>2. InSema \subseteq Phils /\ InSema' \subseteq Phils
        BY DEF InSema
      <4>3. value'[mutex] = value[mutex]
        BY <1>2, <3>1, PhilsThreads DEF SyncTypes
      <4>. QED
        BY <4>1, <4>2, <4>3 DEF SemaInv, Exclusive
    <3>3. ForksSema'
      BY <1>1, <1>2, <1>3, <2>1, <2>3, <2>7, <3>1, PhilsThreads DEF SemaInv, SyncTypes, ForksSema, StatesSema, ToldSema, Handed
    <3>. QED
      BY <2>4, <2>6, <2>8, <3>2, <3>3 DEF SemaInv
  <2>10. ASSUME NEW p \in Phils, HandsTo(p, i, w)
         PROVE  SemaInv'
    <3>1. /\ value' = value /\ wakeup_flags' = [wakeup_flags EXCEPT ![p] = "WT_KSEM"]
          /\ p = i /\ pc[i] = "fork" /\ phase[i] # "running"
      BY <2>2, <2>10, PhilsThreads DEF HandsTo, Waits, DownsSema, DownAtSema
    <3>2. Exclusive(InSema)'
      <4>1. \A q \in Phils : q \in InSema' <=> q \in InSema
        BY <1>1, <1>2, <1>3, <2>3, <3>1, PhilsThreads DEF SyncTypes, InSema, InsideSema, Handed
      <4>2. InSema \subseteq Phils /\ InSema' \subseteq Phils
        BY DEF InSema
      <4>3. value'[mutex] = value[mutex]
        BY <1>2, <3>1, PhilsThreads DEF SyncTypes
      <4>. QED
        BY <4>1, <4>2, <4>3 DEF SemaInv, Exclusive
    <3>3. ForksSema'
      BY <1>1, <1>2, <1>3, <2>1, <2>3, <2>7, <3>1, PhilsThreads DEF SemaInv, SyncTypes, ForksSema, StatesSema, ToldSema, Handed
    <3>. QED
      BY <2>4, <2>6, <2>8, <3>2, <3>3 DEF SemaInv
  <2>. QED
    BY <2>3, <2>9, <2>10
<1>. QED
  BY <1>5, <1>6

\* mutex is given up, to a waiter if there is one.
LEMMA SemaLeaves ==
  ASSUME SemaInv,
         \/ At("taken") /\ Goto("fork")
         \/ At("leave") /\ (Goto("thinking") \/ Goto("quit")),
         Runs(current), up(mutex), UNCHANGED phil
  PROVE  SemaInv'
<1>1. current \in Phils
  BY PhilsThreads DEF At, SemaInv, TypesSema, SyncTypes
<1>2. SyncTypes /\ pc \in [Phils -> LabelsSema] /\ phil \in [Phils -> PhilStates]
  BY DEF SemaInv, TypesSema
<1>3. /\ phase[current] = "running"
      /\ \/ pc[current] = "taken" /\ pc' = [pc EXCEPT ![current] = "fork"]
         \/ pc[current] = "leave" /\ pc' = [pc EXCEPT ![current] = "thinking"]
         \/ pc[current] = "leave" /\ pc' = [pc EXCEPT ![current] = "quit"]
  BY DEF At, Goto, Runs
<1>a. /\ \A q \in Phils \ {current} : pc'[q] = pc[q]
      /\ pc[current] \in {"taken", "leave"} /\ pc'[current] \in {"fork", "thinking", "quit"}
      /\ pc[current] = "taken" <=> pc'[current] = "fork"
  BY <1>1, <1>2, <1>3
<1>b. /\ current \in InSema /\ InSema \subseteq Phils /\ InSema' \subseteq Phils
      /\ value[mutex] = 0 /\ \A q \in InSema : q = current
  BY <1>1, <1>3 DEF InSema, InsideSema, SemaInv, Exclusive
<1>4. PICK w \in DownsOf : w = DownsSema
  BY DownsSemaType DEF SemaInv
<1>5. /\ SyncTypes' /\ InQueues(w)'
      /\ UNCHANGED <<current, phase>>
      /\ Counts(mutex, w) \/ \E p \in Phils : HandsTo(p, mutex, w)
  BY <1>2, <1>4, PhilsThreads, UpEffect DEF SemaInv
<1>6. TypesSema'
  BY <1>1, <1>2, <1>3, <1>5 DEF TypesSema, LabelsSema
<1>7. DownsSema' = DownsSema
  BY <1>1, <1>2, <1>3, <1>5 DEF DownsSema, DownAtSema
<1>8. InQueues(DownsSema)'
  BY <1>4, <1>5, <1>7, SemaQueues
<1>9. StatesSema'
  BY <1>1, <1>2, <1>3 DEF SemaInv, StatesSema
<1>10. CASE Counts(mutex, w)
  <2>1. value' = [value EXCEPT ![mutex] = @ + 1] /\ wakeup_flags' = wakeup_flags
    BY <1>10 DEF Counts
  <2>2. Exclusive(InSema)'
    <3>1. \A q \in Phils : q \in InSema' <=> FALSE
      BY <1>1, <1>2, <1>a, <1>b, <1>5, <2>1, PhilsThreads DEF SyncTypes, InSema, InsideSema, Handed
    <3>2. value'[mutex] = 1
      BY <1>2, <1>b, <2>1, PhilsThreads DEF SyncTypes
    <3>. QED
      BY <3>1, <3>2, <1>b DEF Exclusive
  <2>3. ForksSema'
    <3>1. \A q \in Phils : value'[q] = value[q] /\ phase'[q] = phase[q]
      BY <1>2, <1>5, <2>1, PhilsThreads DEF SyncTypes
    <3>2. \A q \in Phils : Handed(q, {"fork"})' <=> Handed(q, {"fork"})
      BY <1>1, <1>2, <1>3, <1>a, <3>1, <2>1, PhilsThreads DEF SyncTypes, Handed
    <3>3. \A q \in Phils : ToldSema(q)' <=> ToldSema(q)
      BY <1>1, <1>2, <1>a, <3>2 DEF ToldSema, SemaInv, StatesSema
    <3>. QED
      BY <3>1, <3>2, <3>3 DEF SemaInv, ForksSema
  <2>. QED
    BY <1>6, <1>8, <1>9, <2>2, <2>3 DEF SemaInv
<1>11. ASSUME NEW p \in Phils, HandsTo(p, mutex, w)
       PROVE  SemaInv'
  <2>1. /\ value' = value /\ wakeup_flags' = [wakeup_flags EXCEPT ![p] = "WT_KSEM"]
        /\ pc[p] \in {"take", "put"} /\ phase[p] # "running" /\ wakeup_flags[p] = "WT_INTERRUPTED"
    BY <1>4, <1>11, PhilsThreads DEF HandsTo, Waits, DownsSema, DownAtSema
  <2>2. Exclusive(InSema)'
    <3>1. \A q \in Phils : q \in InSema' <=> q = p
      <4>1. current \notin InSema'
        BY <1>1, <1>2, <1>3, <1>a, <1>5, <2>1, PhilsThreads DEF SyncTypes, InSema, InsideSema, Handed
      <4>2. p \in InSema' /\ p # current
        BY <1>1, <1>2, <1>3, <1>a, <1>5, <2>1, PhilsThreads DEF SyncTypes, InSema, Handed
      <4>3. ASSUME NEW q \in Phils, q # current, q # p
            PROVE  q \notin InSema'
        <5>1. q \notin InSema
          BY <1>b, <4>3
        <5>2. pc'[q] = pc[q] /\ phase'[q] = phase[q] /\ wakeup_flags'[q] = wakeup_flags[q]
          BY <1>2, <1>a, <1>5, <2>1, <4>3, PhilsThreads DEF SyncTypes
        <5>. QED
          BY <5>1, <5>2 DEF InSema, Handed
      <4>. QED
        BY <4>1, <4>2, <4>3
    <3>2. value'[mutex] = 0
      BY <1>2, <1>b, <2>1, PhilsThreads DEF SyncTypes
    <3>. QED
      BY <3>1, <3>2, <1>b DEF Exclusive
  <2>3. ForksSema'
    <3>1. \A q \in Phils : value'[q] = value[q] /\ phase'[q] = phase[q]
      BY <1>2, <1>5, <2>1, PhilsThreads DEF SyncTypes
    <3>2. \A q \in Phils : Handed(q, {"fork"})' <=> Handed(q, {"fork"})
      BY <1>1, <1>2, <1>3, <1>a, <3>1, <2>1, PhilsThreads DEF SyncTypes, Handed
    <3>3. \A q \in Phils : ToldSema(q)' <=> ToldSema(q)
      BY <1>1, <1>2, <1>a, <3>2 DEF ToldSema, SemaInv, StatesSema
    <3>. QED
      BY <3>1, <3>2, <3>3 DEF SemaInv, ForksSema
  <2>. QED
    BY <1>6, <1>8, <1>9, <2>2, <2>3 DEF SemaInv
<1>. QED
  BY <1>5, <1>10, <1>11

\* Interrupts and schedule().
LEMMA SemaSchedules == ASSUME SemaInv, Tick \/ \E p \in Procs : Schedule(p) PROVE SemaInv'
<1>1. SyncTypes /\ pc \in [Phils -> LabelsSema] /\ phil \in [Phils -> PhilStates]
  BY DEF SemaInv, TypesSema
<1>2. /\ UNCHANGED <<value, wait_queue, wakeup_flags, pc, phil>>
      /\ current' \in Procs
      /\ phase' \in [Procs -> {"running", "blocking", "resuming"}]
      /\ \A p \in Phils : phase'[p] # "running" <=> phase[p] # "running"
  <2>1. UNCHANGED <<value, wait_queue, wakeup_flags, pc, phil>>
    BY DEF Tick, SemTick, Schedule, SemSchedule
  <2>2. current' \in Procs
    BY <1>1 DEF Tick, SemTick, run_timers, wakeup, Schedule, SemSchedule, schedule, SyncTypes
  <2>3. \/ phase' = phase
        \/ phase[current] = "blocking" /\ phase' = [phase EXCEPT ![current] = "resuming"]
    <3>1. CASE Tick
      BY <3>1, Zenon DEF Tick, SemTick
    <3>2. CASE \E p \in Procs : Schedule(p)
      <4>1. PICK p \in Procs : SemSchedule(p)
        BY <3>2 DEF Schedule
      <4>. QED
        BY <4>1, Zenon DEF SemSchedule
    <3>. QED
      BY <3>1, <3>2
  <2>4. /\ phase' \in [Procs -> {"running", "blocking", "resuming"}]
        /\ \A p \in Phils : phase'[p] # "running" <=> phase[p] # "running"
    BY <1>1, <2>3, PhilsThreads DEF SyncTypes
  <2>. QED
    BY <2>1, <2>2, <2>4
<1>3. TypesSema'
  BY <1>1, <1>2 DEF TypesSema, SyncTypes
<1>4. DownsSema' = DownsSema
  BY <1>1, <1>2 DEF DownsSema, DownAtSema
<1>5. InQueues(DownsSema)'
  BY <1>2, <1>4, SemaKeepsQueues DEF SemaInv
<1>6. Exclusive(InSema)'
  BY <1>1, <1>2 DEF SemaInv, Exclusive, InSema, Handed
<1>7. ForksSema'
  BY <1>1, <1>2 DEF SemaInv, ForksSema, ToldSema, Handed
<1>8. StatesSema'
  BY <1>2 DEF SemaInv, StatesSema
<1>. QED
  BY <1>3, <1>5, <1>6, <1>7, <1>8 DEF SemaInv

\* LEFT and RIGHT name philosophers.
LEMMA Neighbours == \A i \in Phils : LEFT(i) \in Phils /\ RIGHT(i) \in Phils
  BY TableAssumption DEF LEFT, RIGHT, Phils

\* Every step of the semaphore program keeps its invariant.
LEMMA SemaStep == SemaInv /\ NextSema => SemaInv'
<1> SUFFICES ASSUME SemaInv, NextSema PROVE SemaInv'
  OBVIOUS
<1>1. CASE Sleep \/ SleepOver \/ Quit
  BY <1>1, SemaSleeps
<1>2. CASE BlocksSema
  BY <1>2, SemaBlocks
<1>3. CASE ReturnsSema
  BY <1>3, SemaReturns
<1>4. CASE Mark("hungry", "HUNGRY", "test") \/ Mark("done", "THINKING", "left")
  BY <1>4, SemaMarks
<1>5. CASE TestSema("test", current, "taken") \/ TestSema("left", LEFT(current), "right")
           \/ TestSema("right", RIGHT(current), "leave")
  <2>1. current \in Phils
    BY <1>5, PhilsThreads DEF TestSema, At, SemaInv, TypesSema, SyncTypes
  <2>2. LEFT(current) \in Phils /\ RIGHT(current) \in Phils
    BY <2>1, Neighbours
  <2>3. CASE TestSema("test", current, "taken")
    BY <2>1, <2>3, SemaTests
  <2>4. CASE TestSema("left", LEFT(current), "right")
    BY <2>2, <2>4, SemaTests
  <2>5. CASE TestSema("right", RIGHT(current), "leave")
    BY <2>2, <2>5, SemaTests
  <2>. QED
    BY <1>5, <2>3, <2>4, <2>5
<1>6. CASE At("taken") /\ Runs(current) /\ up(mutex) /\ Goto("fork") /\ UNCHANGED <<phil, iter>>
  BY <1>6, SemaLeaves
<1>7. CASE At("leave") /\ EndRound(mutex)
  <2>1. /\ At("leave") /\ Runs(current) /\ up(mutex) /\ UNCHANGED phil
        /\ Goto(IF iter[current] < TIMES THEN "thinking" ELSE "quit")
    BY <1>7 DEF EndRound
  <2>2. CASE iter[current] < TIMES
    <3>1. Goto("thinking")
      BY <2>1, <2>2
    <3>. QED
      BY <2>1, <3>1, SemaLeaves
  <2>3. CASE ~(iter[current] < TIMES)
    <3>1. Goto("quit")
      BY <2>1, <2>3
    <3>. QED
      BY <2>1, <3>1, SemaLeaves
  <2>. QED
    BY <2>2, <2>3
<1>8. CASE Tick \/ \E p \in Procs : Schedule(p)
  BY <1>8, SemaSchedules
<1>. QED
  BY <1>1, <1>2, <1>3, <1>4, <1>5, <1>6, <1>7, <1>8
     DEF NextSema, StepSema, phi_take_forks_sema, phi_put_forks_sema

\* What the invariant says of mutex, as the sum that OneInside states.
LEMMA ExclusiveOne ==
  ASSUME NEW In \in SUBSET Phils, Exclusive(In)
  PROVE  value[mutex] + Cardinality(In) = 1
<1>1. CASE In = {}
  BY <1>1, FS_EmptySet DEF Exclusive
<1>2. CASE In # {}
  <2>1. PICK i \in In : TRUE
    BY <1>2
  <2>2. In = {i}
    BY <2>1 DEF Exclusive
  <2>3. Cardinality({i}) = 1
    BY FS_Singleton
  <2>4. value[mutex] = 0
    BY <2>1 DEF Exclusive
  <2>. QED
    BY <2>2, <2>3, <2>4
<1>. QED
  BY <1>1, <1>2

-----------------------------------------------------------------------------
(* The program with a monitor.                                             *)

LabelsCondvar == {"thinking", "take", "hungry", "test", "test_next", "check", "cv", "taken", "eating",
                  "put", "done", "left", "left_next", "right", "right_next", "leave", "quit"}

TypesCondvar ==
    /\ SyncTypes
    /\ pc \in [Phils -> LabelsCondvar]
    /\ phil \in [Phils -> PhilStates]
    /\ count \in [Phils -> Nat]
    /\ next_count \in Nat

SignalLabels == {"test_next", "left_next", "right_next"}
Signallers == {i \in Phils : pc[i] \in SignalLabels}

DownsCondvar == [p \in Phils |->
    IF pc[p] \in {"take", "put", "cv"} \cup SignalLabels /\ phase[p] # "running"
    THEN {DownAtCondvar(p)} ELSE {}]

InCondvar == {i \in Phils : pc[i] \in InsideCondvar
                            \/ Handed(i, {"take", "put", "cv"} \cup SignalLabels)}

\* A thread gives up the CPU only in a down, in a sleep or at its end: one that
\* is off the CPU outside them has not started.
Awake == \A i \in Phils : phase[i] = "running" /\ i # current => pc[i] \in {"thinking", "quit"}

\* Units of next and of the condition variables are handed over, never counted.
Handing == value[next] = 0 /\ \A i \in Phils : value[i] = 0

WaitersCounted == \A i \in Phils : count[i] = (IF pc[i] = "cv" THEN 1 ELSE 0)

SignallersCounted ==
    /\ next_count = Cardinality(Signallers)
    /\ next_count > 0 => value[mutex] = 0

\* What a philosopher's state is where it is in its program.
StatesCondvar == \A i \in Phils :
    /\ pc[i] \in {"thinking", "take", "hungry", "left", "left_next", "right", "right_next",
                  "leave", "quit"} => phil[i] = "THINKING"
    /\ pc[i] \in {"taken", "eating", "put", "done"} => phil[i] = "EATING"
    /\ pc[i] \in {"test", "test_next", "check", "cv"} => phil[i] # "THINKING"
    /\ Handed(i, {"cv"}) => phil[i] = "EATING"

CondvarInv ==
    /\ TypesCondvar
    /\ InQueues(DownsCondvar)
    /\ Awake
    /\ Exclusive(InCondvar)
    /\ Handing
    /\ WaitersCounted
    /\ SignallersCounted
    /\ StatesCondvar

\* A thread is in one down at a time.
LEMMA DownsCondvarType == TypesCondvar => DownsCondvar \in DownsOf
  BY PhilsThreads DEF DownsCondvar, DownsOf, TypesCondvar, DownAtCondvar

\* The queues are right for the downs after a step when they are for a value that
\* equals those.
LEMMA CondvarQueues ==
  ASSUME NEW w, InQueues(w)', DownsCondvar' = w
  PROVE  InQueues(DownsCondvar)'
  BY Zenon DEF InQueues, Waits

\* A step that starts and ends no down leaves the queues right.
LEMMA CondvarKeepsQueues ==
  ASSUME InQueues(DownsCondvar), UNCHANGED <<wait_queue, wakeup_flags, DownsCondvar>>
  PROVE  InQueues(DownsCondvar)'
<1>1. PICK w : w = DownsCondvar
  OBVIOUS
<1>. QED
  BY <1>1, SameQueues, CondvarQueues

\* do_sleep and the end of the thread.
LEMMA CondvarSleeps ==
  ASSUME CondvarInv, Sleep \/ SleepOver \/ Quit, UNCHANGED monitorVars
  PROVE  CondvarInv'
<1>0. TypesCondvar /\ SyncTypes /\ pc \in [Phils -> LabelsCondvar]
  BY DEF CondvarInv, TypesCondvar
<1>1. current \in Phils
  BY <1>0, PhilsThreads DEF Sleep, SleepOver, Quit, At, SyncTypes
<1>2. /\ UNCHANGED <<current, value, wait_queue, wakeup_flags, phil, count, next_count>>
      /\ pc[current] \in {"thinking", "eating", "quit"}
      /\ phase' \in [Procs -> {"running", "blocking", "resuming"}]
      /\ \A q \in Phils \ {current} : phase'[q] = phase[q]
      /\ \/ pc' = pc
         \/ pc[current] = "thinking" /\ pc' = [pc EXCEPT ![current] = "take"] /\ phase'[current] = "running"
         \/ pc[current] = "eating" /\ pc' = [pc EXCEPT ![current] = "put"] /\ phase'[current] = "running"
  <2>. USE <1>0, <1>1 DEF At, Goto, schedVars, SyncTypes, monitorVars
  <2>1. CASE Sleep
    BY <2>1 DEF Sleep, sleep_blocks
  <2>2. CASE SleepOver
    <3>1. /\ UNCHANGED <<current, value, wait_queue, wakeup_flags, phil, count, next_count>>
          /\ phase' = [phase EXCEPT ![current] = "running"]
          /\ pc[current] \in {"thinking", "eating"}
          /\ pc' = [pc EXCEPT ![current] = IF pc[current] = "thinking" THEN "take" ELSE "put"]
      BY <2>2, Zenon DEF SleepOver, sleep_resumes
    <3>2. CASE pc[current] = "thinking"
      BY <3>1, <3>2
    <3>3. CASE pc[current] = "eating"
      BY <3>1, <3>3
    <3>. QED
      BY <3>1, <3>2, <3>3
  <2>3. CASE Quit
    BY <2>3 DEF Quit
  <2>. QED
    BY <2>1, <2>2, <2>3
<1>3. TypesCondvar'
  BY <1>0, <1>2 DEF TypesCondvar, SyncTypes, LabelsCondvar
<1>4. DownsCondvar' = DownsCondvar
  BY <1>0, <1>1, <1>2 DEF DownsCondvar, DownAtCondvar, SignalLabels
<1>5. InQueues(DownsCondvar)'
  BY <1>2, <1>4, CondvarKeepsQueues DEF CondvarInv
<1>6. Exclusive(InCondvar)'
  BY <1>0, <1>1, <1>2 DEF CondvarInv, Exclusive, InCondvar, InsideCondvar, Handed, SignalLabels
<1>7. Handing' /\ WaitersCounted'
  BY <1>0, <1>1, <1>2 DEF CondvarInv, Handing, WaitersCounted
<1>8. Signallers' = Signallers
  BY <1>0, <1>1, <1>2 DEF Signallers, SignalLabels
<1>9. SignallersCounted'
  BY <1>2, <1>8 DEF CondvarInv, SignallersCounted
<1>10. StatesCondvar'
  BY <1>0, <1>1, <1>2 DEF CondvarInv, StatesCondvar, Handed
<1>11. Awake'
  BY <1>0, <1>1, <1>2 DEF CondvarInv, Awake
<1>. QED
  BY <1>3, <1>5, <1>6, <1>7, <1>9, <1>10, <1>11 DEF CondvarInv

\* down has to wait.
LEMMA CondvarBlocks == CondvarInv /\ BlocksCondvar => CondvarInv'
<1> SUFFICES ASSUME CondvarInv, BlocksCondvar PROVE CondvarInv'
  OBVIOUS
<1>0. TypesCondvar /\ SyncTypes /\ pc \in [Phils -> LabelsCondvar]
  BY DEF CondvarInv, TypesCondvar
<1>1. current \in Phils /\ pc[current] \in {"take", "put", "cv"} \cup SignalLabels
  BY <1>0, PhilsThreads DEF BlocksCondvar, AfterCondvar, At, SyncTypes, SignalLabels
<1>2. PICK w \in DownsOf : w = DownsCondvar
  BY DownsCondvarType DEF CondvarInv
<1>3. PICK s \in Sems : s = DownAtCondvar(current)
  BY <1>1, PhilsThreads DEF DownAtCondvar
<1>4. PICK v \in DownsOf : v = [w EXCEPT ![current] = {s}]
  BY <1>1 DEF DownsOf
<1>5. /\ UNCHANGED <<current, value, pc, phil, count, next_count>>
      /\ phase[current] = "running" /\ value[s] = 0
      /\ phase' = [phase EXCEPT ![current] = "blocking"]
      /\ wakeup_flags' = [wakeup_flags EXCEPT ![current] = "WT_INTERRUPTED"]
      /\ down_blocks(s)
  BY <1>3 DEF BlocksCondvar, Blocks, Runs, down_blocks, monitorVars
<1>6. w[current] = {}
  BY <1>1, <1>2, <1>5 DEF DownsCondvar
<1>7. SyncTypes' /\ InQueues(v)'
  BY <1>0, <1>1, <1>2, <1>4, <1>5, <1>6, BlocksEffect DEF CondvarInv
<1>8. DownsCondvar' = v
  BY <1>0, <1>1, <1>2, <1>3, <1>4, <1>5, PhilsThreads DEF DownsCondvar, DownAtCondvar, SyncTypes
<1>9. InQueues(DownsCondvar)'
  BY <1>7, <1>8, CondvarQueues
<1>10. TypesCondvar'
  BY <1>0, <1>5, <1>7 DEF TypesCondvar
<1>11. Exclusive(InCondvar)'
  BY <1>0, <1>1, <1>5, PhilsThreads DEF CondvarInv, SyncTypes, Exclusive, InCondvar, InsideCondvar, Handed, SignalLabels
<1>12. Handing' /\ WaitersCounted'
  BY <1>5 DEF CondvarInv, Handing, WaitersCounted
<1>13. SignallersCounted'
  BY <1>5 DEF CondvarInv, SignallersCounted, Signallers
<1>14. StatesCondvar'
  BY <1>0, <1>1, <1>5, PhilsThreads DEF CondvarInv, StatesCondvar, Handed, SyncTypes
<1>15. Awake'
  BY <1>0, <1>1, <1>5, PhilsThreads DEF CondvarInv, Awake, SyncTypes
<1>. QED
  BY <1>9, <1>10, <1>11, <1>12, <1>13, <1>14, <1>15 DEF CondvarInv

\* A signaller more or less.
LEMMA SignallerJoins ==
  ASSUME NEW i \in Phils, NEW S \in SUBSET Phils, i \notin S
  PROVE  Cardinality(S \cup {i}) = Cardinality(S) + 1 /\ Cardinality(S) \in Nat
<1>1. IsFiniteSet(S)
  <2>1. IsFiniteSet(0 .. (N - 1))
    BY FS_Interval, TableAssumption
  <2>. QED
    BY <2>1, FS_Subset DEF Phils
<1>. QED
  BY <1>1, FS_AddElement, FS_CardinalityType

\* down returns: at once only from mutex, else with the unit that was handed over,
\* and cond_wait and cond_signal count the thread off.
LEMMA CondvarReturns == CondvarInv /\ ReturnsCondvar => CondvarInv'
<1> SUFFICES ASSUME CondvarInv, ReturnsCondvar PROVE CondvarInv'
  OBVIOUS
<1>0. TypesCondvar /\ SyncTypes /\ pc \in [Phils -> LabelsCondvar]
      /\ count \in [Phils -> Nat] /\ next_count \in Nat
  BY DEF CondvarInv, TypesCondvar
<1>1. current \in Phils /\ pc[current] \in {"take", "put", "cv"} \cup SignalLabels
  BY <1>0, PhilsThreads DEF ReturnsCondvar, AfterCondvar, At, SyncTypes, SignalLabels
<1>2. PICK w \in DownsOf : w = DownsCondvar
  BY DownsCondvarType DEF CondvarInv
<1>3. PICK s \in Sems : s = DownAtCondvar(current)
  BY <1>1, PhilsThreads DEF DownAtCondvar
<1>4. PICK v \in DownsOf : v = [w EXCEPT ![current] = {}]
  BY <1>1 DEF DownsOf
<1>5. /\ UNCHANGED phil
      /\ Downed(s)
      /\ pc' = [pc EXCEPT ![current] = AfterCondvar[pc[current]]]
      /\ count' = IF s = current THEN [count EXCEPT ![current] = @ - 1] ELSE count
      /\ next_count' = IF s = next THEN next_count - 1 ELSE next_count
  BY <1>3 DEF ReturnsCondvar, At, Goto
<1>6. PICK l \in LabelsCondvar :
         /\ l = AfterCondvar[pc[current]]
         /\ pc[current] = "take" => l = "hungry"
         /\ pc[current] = "put" => l = "done"
         /\ pc[current] = "cv" => l = "taken"
         /\ pc[current] = "test_next" => l = "check"
         /\ pc[current] = "left_next" => l = "right"
         /\ pc[current] = "right_next" => l = "leave"
  BY <1>1 DEF AfterCondvar, SignalLabels, LabelsCondvar
<1>7. pc' = [pc EXCEPT ![current] = l] /\ pc' \in [Phils -> LabelsCondvar]
  BY <1>0, <1>5, <1>6
<1>8. /\ s = mutex <=> pc[current] \in {"take", "put"}
      /\ s = current <=> pc[current] = "cv"
      /\ s = next <=> pc[current] \in SignalLabels
  BY <1>1, <1>3, PhilsThreads DEF DownAtCondvar, SignalLabels
<1>9. CASE Runs(current) /\ down_takes(s)
  <2>1. /\ UNCHANGED <<current, wait_queue, wakeup_flags, phase>>
        /\ value[s] > 0 /\ value' = [value EXCEPT ![s] = @ - 1]
        /\ phase[current] = "running"
    BY <1>9 DEF down_takes, Runs, schedVars
  <2>2. s = mutex /\ UNCHANGED <<count, next_count>> /\ pc[current] \in {"take", "put"} /\ l \in {"hungry", "done"}
    BY <1>1, <1>3, <1>5, <1>6, <1>8, <2>1, PhilsThreads DEF DownAtCondvar, CondvarInv, Handing
  <2>3. TypesCondvar'
    BY <1>0, <1>5, <1>7, <2>1, <2>2 DEF TypesCondvar, SyncTypes
  <2>4. DownsCondvar' = DownsCondvar
    BY <1>0, <1>1, <1>7, <2>1 DEF DownsCondvar, DownAtCondvar
  <2>5. InQueues(DownsCondvar)'
    BY <2>1, <2>4, CondvarKeepsQueues DEF CondvarInv
  <2>6. Exclusive(InCondvar)'
    BY <1>0, <1>1, <1>7, <2>1, <2>2, PhilsThreads DEF CondvarInv, SyncTypes, Exclusive, InCondvar, InsideCondvar, Handed
  <2>7. Handing' /\ WaitersCounted'
    BY <1>0, <1>7, <2>1, <2>2, PhilsThreads DEF CondvarInv, SyncTypes, Handing, WaitersCounted
  <2>8. SignallersCounted'
    <3>1. Signallers' = Signallers
      BY <1>0, <1>7, <2>2 DEF Signallers, SignalLabels
    <3>2. next_count = 0
      BY <2>1, <2>2 DEF CondvarInv, SignallersCounted, TypesCondvar
    <3>. QED
      BY <2>2, <3>1, <3>2 DEF CondvarInv, SignallersCounted
  <2>9. StatesCondvar'
    BY <1>0, <1>1, <1>5, <1>6, <1>7, <2>1, <2>2 DEF CondvarInv, StatesCondvar, Handed
  <2>10. Awake'
    BY <1>0, <1>1, <1>7, <2>1 DEF CondvarInv, Awake
  <2>. QED
    BY <2>3, <2>5, <2>6, <2>7, <2>8, <2>9, <2>10 DEF CondvarInv
<1>10. CASE wakeup_flags[current] = "WT_KSEM" /\ down_resumes(s)
  <2>1. SyncTypes' /\ InQueues(v)' /\ UNCHANGED wait_queue
    BY <1>0, <1>1, <1>2, <1>4, <1>10, ResumesEffect DEF CondvarInv
  <2>2. /\ UNCHANGED <<current, value, wakeup_flags>>
        /\ phase[current] = "resuming"
        /\ phase' = [phase EXCEPT ![current] = "running"]
    BY <1>10 DEF down_resumes, schedVars
  <2>3. DownsCondvar' = v
    BY <1>0, <1>1, <1>2, <1>4, <1>7, <2>2, PhilsThreads DEF DownsCondvar, DownAtCondvar, SyncTypes
  <2>4. InQueues(DownsCondvar)'
    BY <2>1, <2>3, CondvarQueues
  <2>5. /\ count' \in [Phils -> Nat]
        /\ \A q \in Phils : count'[q] = IF q = current /\ pc[q] = "cv" THEN 0 ELSE count[q]
    BY <1>0, <1>1, <1>5, <1>8 DEF CondvarInv, WaitersCounted
  <2>6. SignallersCounted' /\ next_count' \in Nat
    <3>1. CASE pc[current] \in SignalLabels
      <4>1. /\ Signallers = Signallers' \cup {current} /\ current \notin Signallers'
            /\ Signallers' \in SUBSET Phils
        BY <1>0, <1>1, <1>6, <1>7, <3>1 DEF Signallers, SignalLabels
      <4>2. PICK S : S = Signallers'
        OBVIOUS
      <4>3. Cardinality(Signallers) = Cardinality(S) + 1 /\ Cardinality(S) \in Nat
        BY <1>1, <4>1, <4>2, SignallerJoins
      <4>4. Cardinality(Signallers') = Cardinality(S)
        BY <4>2
      <4>5. next_count' = next_count - 1
        BY <1>5, <1>8, <3>1
      <4>. QED
        BY <1>0, <2>2, <4>3, <4>4, <4>5 DEF CondvarInv, SignallersCounted
    <3>2. CASE pc[current] \notin SignalLabels
      <4>1. Signallers' = Signallers
        BY <1>0, <1>1, <1>6, <1>7, <3>2 DEF Signallers, SignalLabels
      <4>2. next_count' = next_count
        BY <1>5, <1>8, <3>2
      <4>. QED
        BY <1>0, <2>2, <4>1, <4>2 DEF CondvarInv, SignallersCounted
    <3>. QED
      BY <3>1, <3>2
  <2>7. TypesCondvar'
    BY <1>0, <1>5, <1>7, <2>1, <2>5, <2>6 DEF TypesCondvar
  <2>8. Exclusive(InCondvar)'
    <3>1. \A q \in Phils : q \in InCondvar' <=> q \in InCondvar
      BY <1>0, <1>1, <1>6, <1>7, <1>10, <2>2, PhilsThreads DEF SyncTypes, InCondvar, InsideCondvar, Handed, SignalLabels
    <3>2. InCondvar \subseteq Phils /\ InCondvar' \subseteq Phils
      BY DEF InCondvar
    <3>. QED
      BY <2>2, <3>1, <3>2 DEF CondvarInv, Exclusive
  <2>9. Handing' /\ WaitersCounted'
    BY <1>0, <1>1, <1>6, <1>7, <2>2, <2>5 DEF CondvarInv, Handing, WaitersCounted, SignalLabels
  <2>10. StatesCondvar'
    BY <1>0, <1>1, <1>5, <1>6, <1>7, <1>10, <2>2, PhilsThreads DEF CondvarInv, SyncTypes, StatesCondvar, Handed, SignalLabels
  <2>11. Awake'
    BY <1>0, <1>1, <1>7, <2>2, PhilsThreads DEF CondvarInv, Awake, SyncTypes
  <2>. QED
    BY <2>4, <2>6, <2>7, <2>8, <2>9, <2>10, <2>11 DEF CondvarInv
<1>. QED
  BY <1>5, <1>9, <1>10 DEF Downed

\* The assignments of HUNGRY and THINKING.
LEMMA CondvarMarks ==
  ASSUME CondvarInv, UNCHANGED monitorVars,
         Mark("hungry", "HUNGRY", "test") \/ Mark("done", "THINKING", "left")
  PROVE  CondvarInv'
<1>0. SyncTypes /\ pc \in [Phils -> LabelsCondvar] /\ phil \in [Phils -> PhilStates] /\ TypesCondvar
  BY DEF CondvarInv, TypesCondvar
<1>1. current \in Phils
  BY <1>0, PhilsThreads DEF Mark, At, SyncTypes
<1>3. /\ UNCHANGED <<current, value, wait_queue, wakeup_flags, phase, count, next_count>>
      /\ phase[current] = "running"
      /\ \/ /\ pc[current] = "hungry" /\ pc' = [pc EXCEPT ![current] = "test"]
            /\ phil' = [phil EXCEPT ![current] = "HUNGRY"]
         \/ /\ pc[current] = "done" /\ pc' = [pc EXCEPT ![current] = "left"]
            /\ phil' = [phil EXCEPT ![current] = "THINKING"]
  BY DEF Mark, At, Goto, Runs, semVars, schedVars, monitorVars
<1>4. TypesCondvar'
  BY <1>0, <1>1, <1>3 DEF TypesCondvar, SyncTypes, LabelsCondvar, PhilStates
<1>5. DownsCondvar' = DownsCondvar
  BY <1>0, <1>1, <1>3 DEF DownsCondvar, DownAtCondvar
<1>6. InQueues(DownsCondvar)'
  BY <1>3, <1>5, CondvarKeepsQueues DEF CondvarInv
<1>7. Exclusive(InCondvar)'
  BY <1>0, <1>1, <1>3 DEF CondvarInv, Exclusive, InCondvar, InsideCondvar, Handed
<1>8. Handing' /\ WaitersCounted'
  BY <1>0, <1>1, <1>3 DEF CondvarInv, Handing, WaitersCounted
<1>9. Signallers' = Signallers
  BY <1>0, <1>1, <1>3 DEF Signallers, SignalLabels
<1>10. SignallersCounted'
  BY <1>3, <1>9 DEF CondvarInv, SignallersCounted
<1>11. StatesCondvar'
  BY <1>0, <1>1, <1>3 DEF CondvarInv, StatesCondvar, Handed
<1>12. Awake'
  BY <1>0, <1>1, <1>3 DEF CondvarInv, Awake
<1>. QED
  BY <1>4, <1>6, <1>7, <1>8, <1>10, <1>11, <1>12 DEF CondvarInv

\* cond_signal(cv[i]) with a waiter: the monitor is handed to philosopher i.
LEMMA CondvarSignals ==
  ASSUME CondvarInv, NEW i \in Phils, current \in Phils, phase[current] = "running",
         pc[current] \in {"test", "left", "right"},
         count[i] > 0, up(i), phil[i] = "HUNGRY"
  PROVE  /\ pc[i] = "cv" /\ i # current /\ phase[i] # "running" /\ wakeup_flags[i] = "WT_INTERRUPTED"
         /\ SyncTypes'
         /\ UNCHANGED <<current, value, phase>>
         /\ wakeup_flags' = [wakeup_flags EXCEPT ![i] = "WT_KSEM"]
         /\ \A w \in DownsOf : w = DownsCondvar => InQueues(w)'
<1>0. TypesCondvar /\ SyncTypes /\ pc \in [Phils -> LabelsCondvar]
  BY DEF CondvarInv, TypesCondvar
<1>1. PICK w \in DownsOf : w = DownsCondvar
  BY DownsCondvarType DEF CondvarInv
<1>2. pc[i] = "cv" /\ i # current
  BY DEF CondvarInv, WaitersCounted
<1>3. phase[i] # "running"
  BY <1>2 DEF CondvarInv, Awake
<1>4. current \in InCondvar
  BY DEF InCondvar, InsideCondvar
<1>5. wakeup_flags[i] = "WT_INTERRUPTED"
  <2>1. i \notin InCondvar
    BY <1>2, <1>4 DEF CondvarInv, Exclusive
  <2>. QED
    BY <1>0, <1>2, <1>3, <2>1, PhilsThreads DEF InCondvar, Handed, SyncTypes
<1>6. w[i] = {i} /\ i \in Sems
  BY <1>1, <1>2, <1>3, PhilsThreads DEF DownsCondvar, DownAtCondvar
<1>7. /\ SyncTypes' /\ InQueues(w)'
      /\ UNCHANGED <<current, phase>>
      /\ Counts(i, w) \/ \E p \in Phils : HandsTo(p, i, w)
  BY <1>0, <1>1, <1>6, UpEffect DEF CondvarInv
<1>8. ~Counts(i, w)
  BY <1>5, <1>6 DEF Counts, Waits
<1>9. PICK p \in Phils : HandsTo(p, i, w)
  BY <1>7, <1>8
<1>10. p = i
  BY <1>1, <1>9, PhilsThreads DEF HandsTo, Waits, DownsCondvar, DownAtCondvar
<1>11. \A u \in DownsOf : u = DownsCondvar => u = w
  BY <1>1
<1>. QED
  BY <1>2, <1>3, <1>5, <1>7, <1>9, <1>10, <1>11 DEF HandsTo

\* phi_test_condvar of the thread's own state or of a neighbour's.
LEMMA CondvarTests ==
  ASSUME CondvarInv, NEW i \in Phils, NEW from, NEW wait, NEW to, TestCondvar(from, i, wait, to),
         \/ from = "test" /\ wait = "test_next" /\ to = "check" /\ i = current
         \/ from = "left" /\ wait = "left_next" /\ to = "right"
         \/ from = "right" /\ wait = "right_next" /\ to = "leave"
  PROVE  CondvarInv'
<1>0. /\ SyncTypes /\ pc \in [Phils -> LabelsCondvar] /\ phil \in [Phils -> PhilStates] /\ TypesCondvar
      /\ count \in [Phils -> Nat] /\ next_count \in Nat
  BY DEF CondvarInv, TypesCondvar
<1>1. current \in Phils
  BY <1>0, PhilsThreads DEF TestCondvar, At, SyncTypes
<1>2. /\ phase[current] = "running" /\ pc[current] = from
      /\ phi_test_condvar(i, wait, to) /\ UNCHANGED count
  BY DEF TestCondvar, At, Runs
<1>3. CASE MayEat(i) /\ count[i] > 0
  <2>1. /\ up(i) /\ next_count' = next_count + 1 /\ pc' = [pc EXCEPT ![current] = wait]
        /\ phil[i] = "HUNGRY" /\ phil' = [phil EXCEPT ![i] = "EATING"]
    BY <1>2, <1>3 DEF phi_test_condvar, cond_signal, Goto, MayEat
  <2>2. /\ pc[i] = "cv" /\ i # current /\ phase[i] # "running" /\ wakeup_flags[i] = "WT_INTERRUPTED"
        /\ SyncTypes'
        /\ UNCHANGED <<current, value, phase>>
        /\ wakeup_flags' = [wakeup_flags EXCEPT ![i] = "WT_KSEM"]
        /\ \A w \in DownsOf : w = DownsCondvar => InQueues(w)'
    BY <1>1, <1>2, <1>3, <2>1, CondvarSignals
  <2>3. /\ \A q \in Phils : pc'[q] = IF q = current THEN wait ELSE pc[q]
        /\ wait \in SignalLabels /\ pc' \in [Phils -> LabelsCondvar]
    BY <1>0, <1>1, <2>1 DEF SignalLabels, LabelsCondvar
  <2>4. TypesCondvar'
    BY <1>0, <1>2, <2>1, <2>2, <2>3 DEF TypesCondvar, PhilStates
  <2>5. PICK w \in DownsOf : w = DownsCondvar
    BY DownsCondvarType DEF CondvarInv
  <2>6. DownsCondvar' = DownsCondvar
    BY <1>0, <1>1, <1>2, <2>2, <2>3 DEF DownsCondvar, DownAtCondvar
  <2>7. InQueues(DownsCondvar)'
    <3>1. InQueues(w)'
      BY <2>2, <2>5
    <3>. QED
      BY <2>5, <2>6, <3>1, CondvarQueues
  <2>8. /\ current \in InCondvar /\ InCondvar \subseteq Phils /\ InCondvar' \subseteq Phils
        /\ value[mutex] = 0 /\ \A q \in InCondvar : q = current
    BY <1>1, <1>2 DEF InCondvar, InsideCondvar, CondvarInv, Exclusive
  <2>9. Exclusive(InCondvar)'
    <3>1. current \notin InCondvar'
      BY <1>0, <1>1, <1>2, <2>2, <2>3, PhilsThreads DEF InCondvar, InsideCondvar, Handed, SignalLabels, SyncTypes
    <3>2. i \in InCondvar'
      BY <1>0, <1>1, <2>2, <2>3, PhilsThreads DEF InCondvar, Handed, SyncTypes
    <3>3. ASSUME NEW q \in Phils, q # current, q # i
          PROVE  q \notin InCondvar'
      <4>1. q \notin InCondvar
        BY <2>8, <3>3
      <4>2. pc'[q] = pc[q] /\ phase'[q] = phase[q] /\ wakeup_flags'[q] = wakeup_flags[q]
        BY <1>0, <2>2, <2>3, <3>3, PhilsThreads DEF SyncTypes
      <4>. QED
        BY <4>1, <4>2 DEF InCondvar, Handed
    <3>. QED
      BY <2>2, <2>8, <3>1, <3>2, <3>3 DEF Exclusive
  <2>10. Handing' /\ WaitersCounted'
    BY <1>0, <1>1, <1>2, <2>2, <2>3 DEF CondvarInv, Handing, WaitersCounted, SignalLabels
  <2>11. SignallersCounted'
    <3>1. PICK S \in SUBSET Phils : S = Signallers
      BY DEF Signallers
    <3>2. current \notin S /\ Signallers' = S \cup {current}
      BY <1>0, <1>1, <1>2, <2>3, <3>1 DEF Signallers, SignalLabels
    <3>3. Cardinality(S \cup {current}) = Cardinality(S) + 1
      BY <1>1, <3>2, SignallerJoins
    <3>4. Cardinality(Signallers') = Cardinality(Signallers) + 1
      BY <3>1, <3>2, <3>3
    <3>. QED
      BY <2>1, <2>2, <2>8, <3>4 DEF CondvarInv, SignallersCounted
  <2>12. StatesCondvar'
    BY <1>0, <1>1, <1>2, <2>1, <2>2, <2>3, PhilsThreads DEF CondvarInv, StatesCondvar, Handed, SignalLabels, SyncTypes
  <2>13. Awake'
    BY <1>0, <1>1, <2>2, <2>3 DEF CondvarInv, Awake
  <2>. QED
    BY <2>4, <2>7, <2>9, <2>10, <2>11, <2>12, <2>13 DEF CondvarInv
<1>4. CASE ~(MayEat(i) /\ count[i] > 0)
  <2>1. /\ UNCHANGED <<current, value, wait_queue, wakeup_flags, phase, count, next_count>>
        /\ pc' = [pc EXCEPT ![current] = to]
        /\ phil' = phil \/ (MayEat(i) /\ ~(count[i] > 0) /\ phil' = [phil EXCEPT ![i] = "EATING"])
    BY <1>2, <1>4 DEF phi_test_condvar, cond_signal, Goto, semVars, schedVars
  <2>2. /\ \A q \in Phils : pc'[q] = IF q = current THEN to ELSE pc[q]
        /\ to \in {"check", "right", "leave"} /\ pc' \in [Phils -> LabelsCondvar]
    BY <1>0, <1>1, <2>1 DEF LabelsCondvar
  <2>3. /\ phil' \in [Phils -> PhilStates]
        /\ \A q \in Phils : phil'[q] # phil[q] =>
              q = i /\ phil'[q] = "EATING" /\ phil[q] = "HUNGRY" /\ pc[q] # "cv"
    BY <1>0, <2>1 DEF PhilStates, MayEat, CondvarInv, WaitersCounted
  <2>4. TypesCondvar'
    BY <1>0, <2>1, <2>2, <2>3 DEF TypesCondvar, SyncTypes
  <2>5. DownsCondvar' = DownsCondvar
    BY <1>0, <1>1, <1>2, <2>1, <2>2 DEF DownsCondvar, DownAtCondvar
  <2>6. InQueues(DownsCondvar)'
    BY <2>1, <2>5, CondvarKeepsQueues DEF CondvarInv
  <2>7. Exclusive(InCondvar)'
    BY <1>0, <1>1, <1>2, <2>1, <2>2 DEF CondvarInv, Exclusive, InCondvar, InsideCondvar, Handed
  <2>8. Handing' /\ WaitersCounted'
    BY <1>0, <1>1, <1>2, <2>1, <2>2 DEF CondvarInv, Handing, WaitersCounted
  <2>9. SignallersCounted'
    <3>1. Signallers' = Signallers
      BY <1>0, <1>1, <1>2, <2>2 DEF Signallers, SignalLabels
    <3>. QED
      BY <2>1, <3>1 DEF CondvarInv, SignallersCounted
  <2>10. StatesCondvar'
    BY <1>0, <1>1, <1>2, <2>1, <2>2, <2>3 DEF CondvarInv, StatesCondvar, Handed
  <2>11. Awake'
    BY <1>0, <1>1, <2>1, <2>2 DEF CondvarInv, Awake
  <2>. QED
    BY <2>4, <2>6, <2>7, <2>8, <2>9, <2>10, <2>11 DEF CondvarInv
<1>. QED
  BY <1>3, <1>4

\* Leaving the monitor, to a signaller if one waits, else to a thread outside,
\* else to nobody.
LEMMA CondvarLeaves ==
  ASSUME CondvarInv, Runs(current), up(LeaveBy), UNCHANGED <<phil, next_count>>,
         NEW l \in {"cv", "eating", "thinking", "quit"}, Goto(l), count' \in [Phils -> Nat], WaitersCounted',
         \/ l = "cv" /\ At("check") /\ phil[current] # "EATING"
         \/ l = "eating" /\ At("check") /\ phil[current] = "EATING"
         \/ l = "eating" /\ At("taken")
         \/ l \in {"thinking", "quit"} /\ At("leave")
  PROVE  CondvarInv'
<1>0. /\ SyncTypes /\ pc \in [Phils -> LabelsCondvar] /\ phil \in [Phils -> PhilStates] /\ TypesCondvar
      /\ next_count \in Nat
  BY DEF CondvarInv, TypesCondvar
<1>1. current \in Phils
  BY <1>0, PhilsThreads DEF At, SyncTypes
<1>2. /\ phase[current] = "running" /\ pc[current] \in {"check", "taken", "leave"}
      /\ pc' = [pc EXCEPT ![current] = l]
  BY DEF At, Goto, Runs
<1>3. /\ \A q \in Phils : pc'[q] = IF q = current THEN l ELSE pc[q]
      /\ pc' \in [Phils -> LabelsCondvar]
  BY <1>0, <1>1, <1>2 DEF LabelsCondvar
<1>4. /\ current \in InCondvar /\ InCondvar \subseteq Phils /\ InCondvar' \subseteq Phils
      /\ value[mutex] = 0 /\ \A q \in InCondvar : q = current
  BY <1>1, <1>2 DEF InCondvar, InsideCondvar, CondvarInv, Exclusive
<1>5. PICK w \in DownsOf : w = DownsCondvar
  BY DownsCondvarType DEF CondvarInv
<1>6. PICK s \in Sems : s = LeaveBy /\ s \in {mutex, next}
  BY PhilsThreads DEF LeaveBy
<1>7. /\ SyncTypes' /\ InQueues(w)'
      /\ UNCHANGED <<current, phase>>
      /\ Counts(s, w) \/ \E p \in Phils : HandsTo(p, s, w)
  BY <1>0, <1>5, <1>6, UpEffect DEF CondvarInv
<1>8. TypesCondvar'
  BY <1>0, <1>3, <1>7 DEF TypesCondvar
<1>9. DownsCondvar' = DownsCondvar
  BY <1>0, <1>1, <1>2, <1>3, <1>7 DEF DownsCondvar, DownAtCondvar
<1>10. InQueues(DownsCondvar)'
  BY <1>5, <1>7, <1>9, CondvarQueues
<1>11. Awake'
  BY <1>0, <1>1, <1>3, <1>7 DEF CondvarInv, Awake
<1>12. Signallers' = Signallers
  BY <1>0, <1>1, <1>2, <1>3 DEF Signallers, SignalLabels
<1>13. CASE Counts(s, w)
  <2>1. value' = [value EXCEPT ![s] = @ + 1] /\ wakeup_flags' = wakeup_flags
    BY <1>13 DEF Counts
  \* A signaller would be waiting in next, so the unit would not be counted.
  <2>2. next_count = 0 /\ s = mutex
    <3>1. SUFFICES ASSUME next_count > 0 PROVE FALSE
      BY <1>0, <1>6, <3>1 DEF LeaveBy
    <3>2. s = next
      BY <1>6, <3>1 DEF LeaveBy
    <3>3. PICK p \in Signallers : TRUE
      <4>1. Signallers # {}
        BY <3>1, FS_EmptySet DEF CondvarInv, SignallersCounted
      <4>. QED
        BY <4>1
    <3>4. p \in Phils /\ p # current /\ pc[p] \in SignalLabels
      BY <1>2 DEF Signallers, SignalLabels
    <3>5. phase[p] # "running"
      BY <3>4 DEF CondvarInv, Awake, SignalLabels
    <3>6. wakeup_flags[p] = "WT_INTERRUPTED"
      <4>1. p \notin InCondvar
        BY <1>4, <3>4
      <4>. QED
        BY <1>0, <3>4, <3>5, <4>1, PhilsThreads DEF InCondvar, Handed, SyncTypes
    <3>7. s \in w[p]
      BY <1>5, <3>2, <3>4, <3>5, PhilsThreads DEF DownsCondvar, DownAtCondvar, SignalLabels
    <3>. QED
      BY <1>13, <3>4, <3>6, <3>7 DEF Counts, Waits
  <2>3. value'[mutex] = 1 /\ \A x \in Sems \ {mutex} : value'[x] = value[x]
    BY <1>0, <1>4, <2>1, <2>2, PhilsThreads DEF SyncTypes
  <2>4. Exclusive(InCondvar)'
    <3>1. \A q \in Phils : q \notin InCondvar'
      BY <1>0, <1>1, <1>2, <1>3, <1>4, <1>7, <2>1, PhilsThreads DEF SyncTypes, InCondvar, InsideCondvar, Handed, SignalLabels
    <3>. QED
      BY <1>4, <2>3, <3>1 DEF Exclusive
  <2>5. Handing'
    BY <2>3, PhilsThreads DEF CondvarInv, Handing
  <2>6. SignallersCounted'
    BY <1>12, <2>2 DEF CondvarInv, SignallersCounted
  <2>7. StatesCondvar'
    BY <1>0, <1>1, <1>2, <1>3, <1>7, <2>1 DEF CondvarInv, StatesCondvar, Handed, At
  <2>. QED
    BY <1>8, <1>10, <1>11, <2>4, <2>5, <2>6, <2>7 DEF CondvarInv
<1>14. ASSUME NEW p \in Phils, HandsTo(p, s, w)
       PROVE  CondvarInv'
  <2>1. /\ value' = value /\ wakeup_flags' = [wakeup_flags EXCEPT ![p] = "WT_KSEM"]
        /\ pc[p] \in {"take", "put"} \cup SignalLabels /\ phase[p] # "running" /\ wakeup_flags[p] = "WT_INTERRUPTED"
    BY <1>5, <1>6, <1>14, PhilsThreads DEF HandsTo, Waits, DownsCondvar, DownAtCondvar, SignalLabels
  <2>2. p # current
    BY <1>2, <2>1
  <2>3. Exclusive(InCondvar)'
    <3>1. current \notin InCondvar'
      BY <1>0, <1>1, <1>2, <1>3, <1>7, <2>1, <2>2, PhilsThreads DEF SyncTypes, InCondvar, InsideCondvar, Handed, SignalLabels
    <3>2. p \in InCondvar'
      BY <1>0, <1>1, <1>3, <1>7, <2>1, <2>2, PhilsThreads DEF SyncTypes, InCondvar, Handed
    <3>3. ASSUME NEW q \in Phils, q # current, q # p
          PROVE  q \notin InCondvar'
      <4>1. q \notin InCondvar
        BY <1>4, <3>3
      <4>2. pc'[q] = pc[q] /\ phase'[q] = phase[q] /\ wakeup_flags'[q] = wakeup_flags[q]
        BY <1>0, <1>3, <1>7, <2>1, <3>3, PhilsThreads DEF SyncTypes
      <4>. QED
        BY <4>1, <4>2 DEF InCondvar, Handed
    <3>. QED
      BY <1>4, <2>1, <3>1, <3>2, <3>3 DEF Exclusive
  <2>4. Handing'
    BY <2>1 DEF CondvarInv, Handing
  <2>5. SignallersCounted'
    BY <1>12, <2>1 DEF CondvarInv, SignallersCounted
  <2>6. StatesCondvar'
    <3>1. \A q \in Phils : Handed(q, {"cv"})' => Handed(q, {"cv"})
      BY <1>0, <1>1, <1>2, <1>3, <1>7, <2>1, PhilsThreads DEF SyncTypes, Handed, SignalLabels
    <3>. QED
      BY <1>0, <1>1, <1>2, <1>3, <3>1 DEF CondvarInv, StatesCondvar, At
  <2>. QED
    BY <1>8, <1>10, <1>11, <2>3, <2>4, <2>5, <2>6 DEF CondvarInv
<1>. QED
  BY <1>7, <1>13, <1>14

\* Interrupts and schedule().
LEMMA CondvarSchedules ==
  ASSUME CondvarInv, Tick \/ \E p \in Procs : Schedule(p), UNCHANGED monitorVars
  PROVE  CondvarInv'
<1>1. SyncTypes /\ pc \in [Phils -> LabelsCondvar] /\ TypesCondvar
  BY DEF CondvarInv, TypesCondvar
<1>2. /\ UNCHANGED <<value, wait_queue, wakeup_flags, pc, phil, count, next_count>>
      /\ current' \in Procs
      /\ phase' \in [Procs -> {"running", "blocking", "resuming"}]
      /\ \A p \in Phils : phase'[p] # "running" <=> phase[p] # "running"
      /\ current' = current \/ phase[current] = "blocking" \/ current = idleproc
  <2>1. UNCHANGED <<value, wait_queue, wakeup_flags, pc, phil, count, next_count>>
    BY DEF Tick, SemTick, Schedule, SemSchedule, monitorVars
  <2>2. current' \in Procs
    BY <1>1 DEF Tick, SemTick, run_timers, wakeup, Schedule, SemSchedule, schedule, SyncTypes
  <2>3. \/ UNCHANGED <<phase, current>>
        \/ phase' = phase /\ current = idleproc
        \/ phase[current] = "blocking" /\ phase' = [phase EXCEPT ![current] = "resuming"]
    <3>1. CASE Tick
      BY <3>1, Zenon DEF Tick, SemTick, run_timers, wakeup
    <3>2. CASE \E p \in Procs : Schedule(p)
      <4>1. PICK p \in Procs : SemSchedule(p)
        BY <3>2 DEF Schedule
      <4>. QED
        BY <4>1, Zenon DEF SemSchedule
    <3>. QED
      BY <3>1, <3>2
  <2>4. /\ phase' \in [Procs -> {"running", "blocking", "resuming"}]
        /\ \A p \in Phils : phase'[p] # "running" <=> phase[p] # "running"
    BY <1>1, <2>3, PhilsThreads DEF SyncTypes
  <2>. QED
    BY <2>1, <2>2, <2>3, <2>4
<1>3. TypesCondvar'
  BY <1>1, <1>2 DEF TypesCondvar, SyncTypes
<1>4. DownsCondvar' = DownsCondvar
  BY <1>1, <1>2 DEF DownsCondvar, DownAtCondvar
<1>5. InQueues(DownsCondvar)'
  BY <1>2, <1>4, CondvarKeepsQueues DEF CondvarInv
<1>6. Exclusive(InCondvar)'
  BY <1>1, <1>2 DEF CondvarInv, Exclusive, InCondvar, Handed
<1>7. Handing' /\ WaitersCounted'
  BY <1>2 DEF CondvarInv, Handing, WaitersCounted
<1>8. SignallersCounted'
  BY <1>2 DEF CondvarInv, SignallersCounted, Signallers
<1>9. StatesCondvar'
  BY <1>1, <1>2 DEF CondvarInv, StatesCondvar, Handed
<1>10. Awake'
  BY <1>1, <1>2, PhilsThreads DEF CondvarInv, Awake, SyncTypes
<1>. QED
  BY <1>3, <1>5, <1>6, <1>7, <1>8, <1>9, <1>10 DEF CondvarInv

\* Every step of the monitor program keeps its invariant.
LEMMA CondvarStep == CondvarInv /\ NextCondvar => CondvarInv'
<1> SUFFICES ASSUME CondvarInv, NextCondvar PROVE CondvarInv'
  OBVIOUS
<1>0. SyncTypes /\ count \in [Phils -> Nat] /\ pc \in [Phils -> LabelsCondvar]
  BY DEF CondvarInv, TypesCondvar
<1>1. CASE (Sleep \/ SleepOver \/ Quit) /\ UNCHANGED monitorVars
  BY <1>1, CondvarSleeps
<1>2. CASE BlocksCondvar
  BY <1>2, CondvarBlocks
<1>3. CASE ReturnsCondvar
  BY <1>3, CondvarReturns
<1>4. CASE (Mark("hungry", "HUNGRY", "test") \/ Mark("done", "THINKING", "left")) /\ UNCHANGED monitorVars
  BY <1>4, CondvarMarks
<1>5. CASE \/ TestCondvar("test", current, "test_next", "check")
           \/ TestCondvar("left", LEFT(current), "left_next", "right")
           \/ TestCondvar("right", RIGHT(current), "right_next", "leave")
  <2>1. current \in Phils
    BY <1>0, <1>5, PhilsThreads DEF TestCondvar, At, SyncTypes
  <2>2. LEFT(current) \in Phils /\ RIGHT(current) \in Phils
    BY <2>1, Neighbours
  <2>3. CASE TestCondvar("test", current, "test_next", "check")
    BY <2>1, <2>3, CondvarTests
  <2>4. CASE TestCondvar("left", LEFT(current), "left_next", "right")
    BY <2>2, <2>4, CondvarTests
  <2>5. CASE TestCondvar("right", RIGHT(current), "right_next", "leave")
    BY <2>2, <2>5, CondvarTests
  <2>. QED
    BY <1>5, <2>3, <2>4, <2>5
<1>6. CASE CondWait
  <2>1. /\ At("check") /\ Runs(current) /\ up(LeaveBy) /\ Goto("cv") /\ UNCHANGED <<phil, next_count>>
        /\ phil[current] # "EATING" /\ count' = [count EXCEPT ![current] = @ + 1]
    BY <1>6 DEF CondWait
  <2>2. current \in Phils /\ pc[current] = "check" /\ pc' = [pc EXCEPT ![current] = "cv"]
    BY <1>0, <2>1, PhilsThreads DEF At, SyncTypes, Goto
  <2>3. count' \in [Phils -> Nat] /\ WaitersCounted'
    BY <1>0, <2>1, <2>2 DEF CondvarInv, WaitersCounted
  <2>. QED
    BY <2>1, <2>3, CondvarLeaves
<1>7. CASE Taken
  <2>1. /\ (At("check") /\ phil[current] = "EATING") \/ At("taken")
        /\ Runs(current) /\ up(LeaveBy) /\ Goto("eating") /\ UNCHANGED <<phil, count, next_count>>
    BY <1>7 DEF Taken, monitorVars
  <2>2. current \in Phils /\ pc[current] \in {"check", "taken"} /\ pc' = [pc EXCEPT ![current] = "eating"]
    BY <1>0, <2>1, PhilsThreads DEF At, SyncTypes, Goto
  <2>3. count' \in [Phils -> Nat] /\ WaitersCounted'
    BY <1>0, <2>1, <2>2 DEF CondvarInv, WaitersCounted
  <2>. QED
    BY <2>1, <2>3, CondvarLeaves
<1>8. CASE At("leave") /\ EndRound(LeaveBy) /\ UNCHANGED monitorVars
  <2>1. PICK l \in {"thinking", "quit"} :
          At("leave") /\ Runs(current) /\ up(LeaveBy) /\ Goto(l) /\ UNCHANGED <<phil, count, next_count>>
    <3>1. CASE iter[current] < TIMES
      BY <1>8, <3>1 DEF EndRound, monitorVars
    <3>2. CASE ~(iter[current] < TIMES)
      BY <1>8, <3>2 DEF EndRound, monitorVars
    <3>. QED
      BY <3>1, <3>2
  <2>2. current \in Phils /\ pc[current] = "leave" /\ pc' = [pc EXCEPT ![current] = l]
    BY <1>0, <2>1, PhilsThreads DEF At, SyncTypes, Goto
  <2>3. count' \in [Phils -> Nat] /\ WaitersCounted'
    BY <1>0, <2>1, <2>2 DEF CondvarInv, WaitersCounted
  <2>. QED
    BY <2>1, <2>3, CondvarLeaves
<1>9. CASE (Tick \/ \E p \in Procs : Schedule(p)) /\ UNCHANGED monitorVars
  BY <1>9, CondvarSchedules
<1>. QED
  BY <1>1, <1>2, <1>3, <1>4, <1>5, <1>6, <1>7, <1>8, <1>9
     DEF NextCondvar, StepCondvar, phi_take_forks_condvar, phi_put_forks_condvar

-----------------------------------------------------------------------------
(* The theorems.                                                           *)

\* The inductive invariant: that of the program that runs.  The semaphore
\* program leaves the fields of the monitor as they are.
IInv ==
    \/ program = "semaphores" /\ SemaInv /\ count = [i \in Phils |-> 0] /\ next_count = 0
    \/ program = "monitor" /\ CondvarInv

\* The invariant holds at the start.
LEMMA InitIInv == Init => IInv
<1> SUFFICES ASSUME Init PROVE IInv
  OBVIOUS
<1>1. /\ current = idleproc /\ wait_queue = [s \in Sems |-> <<>>]
      /\ value = [x \in Sems |-> IF x = mutex THEN 1 ELSE 0]
      /\ wakeup_flags = [p \in Procs |-> "WT_INTERRUPTED"]
      /\ phase = [p \in Procs |-> "running"]
      /\ phil = [i \in Phils |-> "THINKING"]
      /\ count = [i \in Phils |-> 0] /\ next_count = 0
      /\ pc \in [Phils -> {"thinking", "quit"}]
  <2>1. pc = [i \in Phils |-> IF TIMES > 0 THEN "thinking" ELSE "quit"]
    BY DEF Init, InitCondvar, TableInit
  <2>2. pc \in [Phils -> {"thinking", "quit"}]
    BY <2>1
  <2>. QED
    BY <2>2, PhilMonitorAssumption DEF Init, InitCondvar, TableInit, SemInit
<1>2. SyncTypes
  <2>1. <<>> \in Seq(Phils)
    BY EmptySeq
  <2>. QED
    BY <1>1, <2>1, SchedAssumption DEF SyncTypes
<1>3. TypesSema /\ TypesCondvar
  BY <1>1, <1>2 DEF TypesSema, TypesCondvar, LabelsSema, LabelsCondvar, PhilStates
<1>4. \A s \in Sems : DOMAIN wait_queue[s] = {}
  <2>1. DOMAIN << >> = {}
    BY EmptySeq
  <2>. QED
    BY <1>1, <2>1
<1>5. InQueues(DownsSema) /\ InQueues(DownsCondvar)
  <2>1. \A p \in Phils : DownsSema[p] = {} /\ DownsCondvar[p] = {}
    BY <1>1, PhilsThreads DEF DownsSema, DownsCondvar
  <2>. QED
    BY <1>4, <2>1 DEF InQueues, Waits, wait_in_queue
<1>6. Exclusive(InSema) /\ Exclusive(InCondvar)
  <2>1. \A i \in Phils : i \notin InSema /\ i \notin InCondvar
    BY <1>1, PhilsThreads DEF InSema, InCondvar, InsideSema, InsideCondvar, Handed
  <2>2. InSema \subseteq Phils /\ InCondvar \subseteq Phils /\ value[mutex] = 1
    BY <1>1, PhilsThreads DEF InSema, InCondvar
  <2>. QED
    BY <2>1, <2>2 DEF Exclusive
<1>7. ForksSema /\ StatesSema
  BY <1>1, PhilsThreads DEF ForksSema, StatesSema, ToldSema, Handed
<1>8. Awake /\ Handing /\ WaitersCounted /\ StatesCondvar
  BY <1>1, PhilsThreads DEF Awake, Handing, WaitersCounted, StatesCondvar, Handed
<1>9. SignallersCounted
  <2>1. Signallers = {}
    BY <1>1 DEF Signallers, SignalLabels
  <2>. QED
    BY <1>1, <2>1, FS_EmptySet DEF SignallersCounted
<1>10. program \in {"semaphores", "monitor"}
  BY DEF Init
<1>. QED
  BY <1>1, <1>3, <1>5, <1>6, <1>7, <1>8, <1>9, <1>10 DEF IInv, SemaInv, CondvarInv

\* A stuttering step keeps the invariant.
LEMMA StutterIInv == IInv /\ UNCHANGED <<condvar_vars, program>> => IInv'
<1> SUFFICES ASSUME IInv, UNCHANGED <<condvar_vars, program>> PROVE IInv'
  OBVIOUS
<1>1. UNCHANGED <<current, value, wait_queue, wakeup_flags, phase, pc, phil, count, next_count, program>>
  BY DEF condvar_vars, semVars, schedVars, monitorVars
<1>2. DownsSema' = DownsSema /\ DownsCondvar' = DownsCondvar
  BY <1>1 DEF DownsSema, DownsCondvar, DownAtSema, DownAtCondvar
<1>3. InSema' = InSema /\ InCondvar' = InCondvar /\ Signallers' = Signallers
  BY <1>1 DEF InSema, InCondvar, Signallers, Handed
<1>4. CASE program = "semaphores" /\ SemaInv /\ count = [i \in Phils |-> 0] /\ next_count = 0
  <2>1. TypesSema' /\ ForksSema' /\ StatesSema'
    BY <1>1, <1>4 DEF SemaInv, TypesSema, SyncTypes, ForksSema, ToldSema, Handed, StatesSema
  <2>2. InQueues(DownsSema)'
    BY <1>1, <1>2, <1>4, SemaKeepsQueues DEF SemaInv
  <2>3. Exclusive(InSema)'
    BY <1>1, <1>3, <1>4 DEF SemaInv, Exclusive
  <2>. QED
    BY <1>1, <1>4, <2>1, <2>2, <2>3 DEF IInv, SemaInv
<1>5. CASE program = "monitor" /\ CondvarInv
  <2>1. TypesCondvar' /\ Awake' /\ Handing' /\ WaitersCounted' /\ StatesCondvar'
    BY <1>1, <1>5 DEF CondvarInv, TypesCondvar, SyncTypes, Awake, Handing, WaitersCounted, StatesCondvar, Handed
  <2>2. InQueues(DownsCondvar)'
    BY <1>1, <1>2, <1>5, CondvarKeepsQueues DEF CondvarInv
  <2>3. Exclusive(InCondvar)'
    BY <1>1, <1>3, <1>5 DEF CondvarInv, Exclusive
  <2>4. SignallersCounted'
    BY <1>1, <1>3, <1>5 DEF CondvarInv, SignallersCounted
  <2>. QED
    BY <1>1, <1>5, <2>1, <2>2, <2>3, <2>4 DEF IInv, CondvarInv
<1>. QED
  BY <1>4, <1>5 DEF IInv

\* The inductive invariant holds in every reachable state.
THEOREM IInvCorrect == Spec => []IInv
<1>1. IInv /\ [Next]_<<condvar_vars, program>> => IInv'
  <2> SUFFICES ASSUME IInv, [Next]_<<condvar_vars, program>> PROVE IInv'
    OBVIOUS
  <2>1. CASE program = "semaphores" /\ NextSema /\ UNCHANGED monitorVars /\ UNCHANGED program
    BY <2>1, SemaStep DEF IInv, monitorVars
  <2>2. CASE program = "monitor" /\ NextCondvar /\ UNCHANGED program
    BY <2>2, CondvarStep DEF IInv
  <2>3. CASE UNCHANGED <<condvar_vars, program>>
    BY <2>3, StutterIInv
  <2>. QED
    BY <2>1, <2>2, <2>3 DEF Next
<1>. QED
  BY <1>1, InitIInv, PTL DEF Spec

\* One thread at a time holds mutex, or is in the monitor or has been handed it
\* (check_sync.c, monitor.c).
THEOREM OneInsideCorrect == Spec => []OneInside
<1>1. IInv => OneInside
  <2> SUFFICES ASSUME IInv PROVE OneInside
    OBVIOUS
  <2>1. CASE program = "semaphores" /\ SemaInv
    <3>1. InSema \in SUBSET Phils
      BY DEF InSema
    <3>2. value[mutex] + Cardinality(InSema) = 1
      BY <2>1, <3>1, ExclusiveOne DEF SemaInv
    <3>. QED
      BY <2>1, <3>2 DEF OneInside, OneInsideSema, InSema
  <2>2. CASE program = "monitor" /\ CondvarInv
    <3>1. InCondvar \in SUBSET Phils
      BY DEF InCondvar
    <3>2. value[mutex] + Cardinality(InCondvar) = 1
      BY <2>2, <3>1, ExclusiveOne DEF CondvarInv
    <3>3. DOMAIN AfterCondvar = {"take", "put", "cv"} \cup SignalLabels
      BY DEF AfterCondvar, SignalLabels
    <3>. QED
      BY <2>2, <3>2, <3>3 DEF OneInside, OneInsideCondvar, InCondvar
  <2>. QED
    BY <2>1, <2>2 DEF IInv
<1>. QED
  BY <1>1, IInvCorrect, PTL

\* count and next_count say how many wait when cond_signal and the code that leaves
\* the monitor read them, and mutex is not open while signallers wait.
THEOREM CountsMatchCorrect == Spec => []CountsMatch
<1>1. IInv => CountsMatch
  <2> SUFFICES ASSUME IInv PROVE CountsMatch
    OBVIOUS
  <2>1. CASE program = "semaphores" /\ SemaInv /\ count = [i \in Phils |-> 0] /\ next_count = 0
    <3>1. \A i \in Phils : pc[i] \notin {"cv", "test_next", "left_next", "right_next"}
      BY <2>1 DEF SemaInv, TypesSema, LabelsSema
    <3>2. {i \in Phils : pc[i] \in {"test_next", "left_next", "right_next"}} = {}
      BY <3>1
    <3>. QED
      BY <2>1, <3>1, <3>2, FS_EmptySet DEF CountsMatch
  <2>2. CASE program = "monitor" /\ CondvarInv
    BY <2>2 DEF CountsMatch, CondvarInv, WaitersCounted, SignallersCounted, Signallers, SignalLabels
  <2>. QED
    BY <2>1, <2>2 DEF IInv
<1>. QED
  BY <1>1, IInvCorrect, PTL

-----------------------------------------------------------------------------
\* A philosopher's state changes only as the abstract dining philosophers'.
LEMMA MarkRefines ==
  ASSUME NEW from, NEW mark, NEW to, Mark(from, mark, to), current \in Phils,
         \/ mark = "HUNGRY" /\ phil[current] = "THINKING"
         \/ mark = "THINKING" /\ phil[current] = "EATING"
  PROVE  Abstract!Next
  BY DEF Mark, Abstract!Next, Abstract!Hungry, Abstract!Done, Abstract!Phils, Phils

\* A philosopher that passes the test eats as the abstract one does.
LEMMA EatRefines ==
  ASSUME NEW i \in Phils, MayEat(i), phil' = [phil EXCEPT ![i] = "EATING"]
  PROVE  Abstract!Next
  BY DEF MayEat, LEFT, RIGHT, Abstract!Next, Abstract!Eat, Abstract!LEFT, Abstract!RIGHT, Abstract!Phils, Phils

\* Every step of the semaphore program is a step of Dining or leaves phil alone.
LEMMA SemaRefines == SemaInv /\ NextSema => Abstract!Next \/ UNCHANGED phil
<1> SUFFICES ASSUME SemaInv, NextSema PROVE Abstract!Next \/ UNCHANGED phil
  OBVIOUS
<1>0. SyncTypes
  BY DEF SemaInv, TypesSema
<1>1. CASE Mark("hungry", "HUNGRY", "test") \/ Mark("done", "THINKING", "left")
  <2>1. /\ current \in Phils
        /\ Mark("hungry", "HUNGRY", "test") => pc[current] = "hungry"
        /\ Mark("done", "THINKING", "left") => pc[current] = "done"
    BY <1>0, <1>1, PhilsThreads DEF Mark, At, SyncTypes
  <2>. QED
    BY <1>1, <2>1, MarkRefines DEF SemaInv, StatesSema
<1>2. CASE TestSema("test", current, "taken") \/ TestSema("left", LEFT(current), "right")
           \/ TestSema("right", RIGHT(current), "leave")
  <2>1. current \in Phils
    BY <1>0, <1>2, PhilsThreads DEF TestSema, At, SyncTypes
  <2>2. PICK i \in Phils : phi_test_sema(i)
    BY <1>2, <2>1, Neighbours DEF TestSema
  <2>. QED
    BY <2>2, EatRefines DEF phi_test_sema
<1>3. CASE \/ Sleep \/ SleepOver \/ Quit \/ BlocksSema \/ ReturnsSema
           \/ At("taken") /\ Runs(current) /\ up(mutex) /\ Goto("fork") /\ UNCHANGED <<phil, iter>>
           \/ At("leave") /\ EndRound(mutex)
           \/ Tick \/ \E p \in Procs : Schedule(p)
  BY <1>3 DEF Sleep, SleepOver, Quit, BlocksSema, Blocks, ReturnsSema, EndRound, Tick, Schedule
<1>. QED
  BY <1>1, <1>2, <1>3 DEF NextSema, StepSema, phi_take_forks_sema, phi_put_forks_sema

\* Every step of the monitor program is a step of Dining or leaves phil alone.
LEMMA CondvarRefines == CondvarInv /\ NextCondvar => Abstract!Next \/ UNCHANGED phil
<1> SUFFICES ASSUME CondvarInv, NextCondvar PROVE Abstract!Next \/ UNCHANGED phil
  OBVIOUS
<1>0. SyncTypes
  BY DEF CondvarInv, TypesCondvar
<1>1. CASE Mark("hungry", "HUNGRY", "test") \/ Mark("done", "THINKING", "left")
  <2>1. /\ current \in Phils
        /\ Mark("hungry", "HUNGRY", "test") => pc[current] = "hungry"
        /\ Mark("done", "THINKING", "left") => pc[current] = "done"
    BY <1>0, <1>1, PhilsThreads DEF Mark, At, SyncTypes
  <2>. QED
    BY <1>1, <2>1, MarkRefines DEF CondvarInv, StatesCondvar
<1>2. CASE \/ TestCondvar("test", current, "test_next", "check")
           \/ TestCondvar("left", LEFT(current), "left_next", "right")
           \/ TestCondvar("right", RIGHT(current), "right_next", "leave")
  <2>1. current \in Phils
    BY <1>0, <1>2, PhilsThreads DEF TestCondvar, At, SyncTypes
  <2>2. PICK i \in Phils : (MayEat(i) /\ phil' = [phil EXCEPT ![i] = "EATING"]) \/ UNCHANGED phil
    BY <1>2, <2>1, Neighbours DEF TestCondvar, phi_test_condvar
  <2>. QED
    BY <2>2, EatRefines
<1>3. CASE \/ Sleep \/ SleepOver \/ Quit \/ BlocksCondvar \/ ReturnsCondvar \/ CondWait \/ Taken
           \/ At("leave") /\ EndRound(LeaveBy)
           \/ Tick \/ \E p \in Procs : Schedule(p)
  BY <1>3 DEF Sleep, SleepOver, Quit, BlocksCondvar, Blocks, ReturnsCondvar, CondWait, Taken,
              EndRound, Tick, Schedule
<1>. QED
  BY <1>1, <1>2, <1>3 DEF NextCondvar, StepCondvar, phi_take_forks_condvar, phi_put_forks_condvar

\* Both programs implement the dining philosophers: nobody eats beside an eating
\* neighbour, and nobody goes from thinking to eating at once.
THEOREM ImplementsDiningCorrect == Spec => ImplementsDining
<1>1. Init => Abstract!Init
  BY DEF Init, InitCondvar, TableInit, Abstract!Init, Abstract!Phils, Phils
<1>2. IInv /\ [Next]_<<condvar_vars, program>> => [Abstract!Next]_phil
  <2> SUFFICES ASSUME IInv, [Next]_<<condvar_vars, program>> PROVE Abstract!Next \/ UNCHANGED phil
    OBVIOUS
  <2>1. CASE program = "semaphores" /\ NextSema
    BY <2>1, SemaRefines DEF IInv
  <2>2. CASE program = "monitor" /\ NextCondvar
    BY <2>2, CondvarRefines DEF IInv
  <2>3. CASE UNCHANGED <<condvar_vars, program>>
    BY <2>3 DEF condvar_vars
  <2>. QED
    BY <2>1, <2>2, <2>3 DEF Next
<1>. QED
  BY <1>1, <1>2, IInvCorrect, PTL DEF Spec, ImplementsDining, Abstract!Spec
=============================================================================
