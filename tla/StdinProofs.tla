----------------------------- MODULE StdinProofs -----------------------------
(***************************************************************************)
(* Proofs about Stdin, for any number of readers, any size of the buffer    *)
(* and any number of characters.  Two arguments meet in the read: who may   *)
(* be asleep (the queue, wait_state and where each reader stands), and what *)
(* the slots of the ring hold (positions only grow, slots wrap around).     *)
(***************************************************************************)
EXTENDS Stdin, SchedProofs, SequenceTheorems

\* The idle process runs only cpu_idle.
IdleStays == pc[idleproc] = "idle" /\ state[idleproc] = "PROC_RUNNABLE"

\* The process on the CPU is runnable, unless it is on its way into schedule():
\* it has announced its sleep, or it is dead.
CurrentRuns == pc[current] \notin {"kbd_sched", "exit"} => state[current] = "PROC_RUNNABLE"

\* Only a sleeping process waits for a key.
WaitsAsleep == \A p \in Procs : wait_state[p] = "WT_KBD" => state[p] = "PROC_SLEEPING"

\* As long as the buffer never overflowed the slots not read yet hold exactly the
\* characters typed since the last one that was read.
RingExact ==
    /\ p_rpos = Len(got)
    /\ p_wpos <= typed
    /\ typed = p_wpos => \A i \in p_rpos .. (p_wpos - 1) : stdin_buffer[i % STDIN_BUFSIZE] = i + 1

\* The inductive invariant.
IInv ==
    /\ TypeOK
    /\ RunPoolExact
    /\ IdleStays
    /\ CurrentRuns
    /\ WaitsAsleep
    /\ WaitOnStack
    /\ NoSleepBesideChar
    /\ RingExact
    /\ InOrder
-----------------------------------------------------------------------------
(* Slots of a ring.                                                         *)

\* Quotient and remainder.
LEMMA QuotRem ==
  ASSUME NEW B \in Nat \ {0}, NEW a \in Nat
  PROVE  a \div B \in Nat /\ a % B \in 0 .. (B - 1) /\ a = B * (a \div B) + (a % B)
<1>1. a \div B \in Nat /\ a = B * (a \div B) + (a % B)
  BY SMT
<1>2. a % B \in 0 .. (B - 1)
  BY SMT
<1>. QED
  BY <1>1, <1>2

\* Rounds of the ring do not overlap.
LEMMA Rounds ==
  ASSUME NEW B \in Nat \ {0}, NEW q \in Nat, NEW r \in Nat
  PROVE  B * q \in Nat /\ B * r \in Nat /\ (q < r => B * r >= B * q + B)
  BY SMT

\* A position has one round and one slot.
LEMMA OneSlot ==
  ASSUME NEW B \in Nat \ {0}, NEW q \in Nat, NEW r \in Nat,
         NEW x \in 0 .. (B - 1), NEW y \in 0 .. (B - 1), B * q + x = B * r + y
  PROVE  q = r /\ x = y
<1> DEFINE u == B * q
           v == B * r
<1>1. u \in Nat /\ v \in Nat /\ (q < r => v >= u + B) /\ (r < q => u >= v + B)
  BY Rounds, Zenon
<1>2. u + x = v + y
  OBVIOUS
<1>3. q = r => u = v
  OBVIOUS
<1>. HIDE DEF u, v
<1>. QED
  BY <1>1, <1>2, <1>3, SMT

\* Positions less than B apart have different slots.
LEMMA SlotsDiffer ==
  ASSUME NEW B \in Nat \ {0}, NEW a \in Nat, NEW b \in Nat, a < b, b - a < B
  PROVE  a % B # b % B
<1>. SUFFICES ASSUME a % B = b % B PROVE FALSE
  OBVIOUS
<1> DEFINE q == a \div B
           r == b \div B
           m == a % B
           u == B * q
           v == B * r
<1>1. q \in Nat /\ r \in Nat /\ a = u + m /\ b = v + m /\ m \in 0 .. (B - 1)
  BY QuotRem, Zenon
<1>2. u \in Nat /\ v \in Nat /\ (q < r => v >= u + B) /\ (r < q => u >= v + B)
  BY <1>1, Rounds, Zenon
<1>3. q = r => u = v
  OBVIOUS
<1>. HIDE DEF q, r, m, u, v
<1>. QED
  BY <1>1, <1>2, <1>3, SMT

\* Positions B apart have the same slot.
LEMMA SlotAgain ==
  ASSUME NEW B \in Nat \ {0}, NEW a \in Nat
  PROVE  (a + B) % B = a % B
<1>1. PICK c \in Nat : c = a + B
  BY SMT
<1> DEFINE q == a \div B
           r == c \div B
           m == a % B
           n == c % B
<1>2. /\ q \in Nat /\ m \in 0 .. (B - 1) /\ a = B * q + m
      /\ r \in Nat /\ n \in 0 .. (B - 1) /\ c = B * r + n
  BY QuotRem, Zenon
<1>. HIDE DEF q, r, m, n
<1>3. PICK s \in Nat : s = q + 1
  BY <1>2, SMT
<1>4. B * s + m = B * r + n
  <2> DEFINE u == B * q
             v == B * r
             w == B * s
  <2>1. u \in Nat /\ v \in Nat /\ w = u + B /\ a = u + m /\ a + B = v + n
    BY <1>1, <1>2, <1>3, SMT
  <2>. HIDE DEF u, v, w
  <2>2. w + m = v + n
    BY <1>2, <2>1, SMT
  <2>. QED
    BY <2>2 DEF v, w
<1>5. s = r /\ m = n
  BY <1>2, <1>4, OneSlot
<1>. QED
  BY <1>1, <1>5 DEF m, n

-----------------------------------------------------------------------------
(* Queues without duplicates.                                               *)

Distinct(q) == \A i, j \in DOMAIN q : q[i] = q[j] => i = j

\* Taking a waiter out of the queue takes out that waiter, and nobody else.
LEMMA RemoveOne ==
  ASSUME NEW S, NEW q \in Seq(S), Distinct(q), NEW k \in DOMAIN q
  PROVE  /\ RemoveAt(q, k) \in Seq(S)
         /\ Distinct(RemoveAt(q, k))
         /\ ToSet(RemoveAt(q, k)) = ToSet(q) \ {q[k]}
<1> DEFINE n == Len(q)
           a == SubSeq(q, 1, k - 1)
           b == SubSeq(q, k + 1, n)
           r == RemoveAt(q, k)
<1>1. n \in Nat /\ DOMAIN q = 1 .. n /\ k \in 1 .. n /\ \A i \in 1 .. n : q[i] \in S
  BY LenProperties, ElementOfSeq, Zenon
<1>2. a \in Seq(S) /\ Len(a) = k - 1 /\ \A i \in 1 .. k - 1 : a[i] = q[i]
  <2>1. k - 1 \in Int /\ \A i \in 1 .. k - 1 : q[i] \in S
    BY <1>1, SMT
  <2>2. /\ a \in Seq(S)
        /\ Len(a) = IF 1 <= k - 1 THEN (k - 1) - 1 + 1 ELSE 0
        /\ \A i \in 1 .. (k - 1) - 1 + 1 : a[i] = q[1 + i - 1]
    BY <2>1, SubSeqProperties
  <2>3. /\ (IF 1 <= k - 1 THEN (k - 1) - 1 + 1 ELSE 0) = k - 1
        /\ (k - 1) - 1 + 1 = k - 1
        /\ \A i \in 1 .. k - 1 : 1 + i - 1 = i
    <3>. HIDE DEF n
    <3>. QED
      BY <1>1, SMT
  <2>. HIDE DEF a
  <2>. QED
    BY <2>2, <2>3, Zenon
<1>3. b \in Seq(S) /\ Len(b) = n - k /\ \A i \in 1 .. n - k : b[i] = q[k + i]
  <2>1. k + 1 \in Int /\ n \in Int /\ \A i \in k + 1 .. n : q[i] \in S
    BY <1>1, SMT
  <2>2. /\ b \in Seq(S)
        /\ Len(b) = IF k + 1 <= n THEN n - (k + 1) + 1 ELSE 0
        /\ \A i \in 1 .. n - (k + 1) + 1 : b[i] = q[(k + 1) + i - 1]
    BY <2>1, SubSeqProperties
  <2>3. /\ (IF k + 1 <= n THEN n - (k + 1) + 1 ELSE 0) = n - k
        /\ n - (k + 1) + 1 = n - k
        /\ \A i \in 1 .. n - k : (k + 1) + i - 1 = k + i
    <3>. HIDE DEF n
    <3>. QED
      BY <1>1, SMT
  <2>. HIDE DEF b
  <2>. QED
    BY <2>2, <2>3, Zenon
<1>4. /\ r \in Seq(S) /\ Len(r) = Len(a) + Len(b)
      /\ \A i \in 1 .. Len(a) + Len(b) : r[i] = IF i <= Len(a) THEN a[i] ELSE b[i - Len(a)]
  BY <1>2, <1>3, ConcatProperties DEF RemoveAt
<1>5. DOMAIN r = 1 .. Len(r)
  BY <1>4, LenProperties
<1>. HIDE DEF n, a, b, r
<1>6. DOMAIN r = 1 .. (n - 1)
  BY <1>1, <1>2, <1>3, <1>4, <1>5, SMT
<1>7. ASSUME NEW i \in DOMAIN r PROVE r[i] = q[IF i < k THEN i ELSE i + 1]
  <2>1. CASE i < k
    <3>1. i \in 1 .. Len(a) + Len(b) /\ i <= Len(a) /\ i \in 1 .. k - 1
      BY <1>1, <1>2, <1>3, <1>6, <2>1, SMT
    <3>. QED
      BY <1>2, <1>4, <2>1, <3>1, Zenon
  <2>2. CASE ~(i < k)
    <3>1. /\ i \in 1 .. Len(a) + Len(b) /\ ~(i <= Len(a))
          /\ i - Len(a) \in 1 .. n - k /\ k + (i - Len(a)) = i + 1
      BY <1>1, <1>2, <1>3, <1>6, <2>2, SMT
    <3>. QED
      BY <1>3, <1>4, <2>2, <3>1, Zenon
  <2>. QED
    BY <2>1, <2>2
<1>8. Distinct(r)
  BY <1>1, <1>6, <1>7, SMT DEF Distinct
<1>9. ASSUME NEW x \in ToSet(r) PROVE x \in ToSet(q) /\ x # q[k]
  <2>1. PICK i \in DOMAIN r : x = r[i]
    BY Zenon DEF ToSet
  <2>. QED
    BY <1>1, <1>6, <1>7, <2>1, SMT DEF Distinct, ToSet
<1>10. ASSUME NEW x \in ToSet(q), x # q[k] PROVE x \in ToSet(r)
  <2>1. PICK i \in DOMAIN q : x = q[i]
    BY Zenon DEF ToSet
  <2>2. i \in 1 .. n /\ (i < k \/ i > k)
    BY <1>1, <1>10, <2>1, SMT
  <2>3. \E j \in DOMAIN r : i = IF j < k THEN j ELSE j + 1
    <3>1. CASE i < k
      BY <1>1, <1>6, <2>2, <3>1, SMT
    <3>2. CASE i > k
      <4>1. i - 1 \in DOMAIN r /\ i = IF i - 1 < k THEN i - 1 ELSE (i - 1) + 1
        BY <1>1, <1>6, <2>2, <3>2, SMT
      <4>. QED
        BY <4>1
    <3>. QED
      BY <2>2, <3>1, <3>2
  <2>4. PICK j \in DOMAIN r : r[j] = x
    BY <1>7, <2>1, <2>3, Zenon
  <2>. QED
    BY <2>4, Zenon DEF ToSet
<1>. QED
  BY <1>4, <1>8, <1>9, <1>10, Zenon DEF r

\* Adding one adds one.
LEMMA AppendOne ==
  ASSUME NEW S, NEW q \in Seq(S), NEW x \in S
  PROVE  /\ Append(q, x) \in Seq(S)
         /\ Distinct(q) /\ x \notin ToSet(q) => Distinct(Append(q, x))
         /\ ToSet(Append(q, x)) = ToSet(q) \cup {x}
<1> DEFINE n == Len(q)
           r == Append(q, x)
<1>1. n \in Nat /\ DOMAIN q = 1 .. n
  BY LenProperties, Zenon
<1>2. r \in Seq(S) /\ Len(r) = n + 1 /\ r[n + 1] = x /\ \A i \in 1 .. n : r[i] = q[i]
  BY AppendProperties
<1>3. DOMAIN r = 1 .. Len(r)
  BY <1>2, LenProperties
<1>. HIDE DEF n, r
<1>4. DOMAIN r = 1 .. n \cup {n + 1}
  BY <1>1, <1>2, <1>3, SMT
<1>5. Distinct(q) /\ x \notin ToSet(q) => Distinct(r)
  BY <1>1, <1>2, <1>4, Zenon DEF Distinct, ToSet
<1>6. ToSet(r) = ToSet(q) \cup {x}
  BY <1>1, <1>2, <1>4, Zenon DEF ToSet
<1>. QED
  BY <1>2, <1>5, <1>6 DEF r

-----------------------------------------------------------------------------
(* Types.                                                                   *)

\* The invariant holds at the start.
LEMMA InitIInv == Init => IInv
<1> SUFFICES ASSUME Init PROVE IInv
  OBVIOUS
<1>. USE SchedAssumption, StdinAssumption DEF Init
<1>1. SchedTypeOK
  BY SMT DEF SchedTypeOK, ProcState, WaitState, Readers
<1>2. wait_queue \in Seq(Readers) /\ got \in Seq(0 .. MaxTyped) /\ Len(got) = 0
  BY EmptySeq, Zenon
<1>3. TypeOK
  BY <1>1, <1>2, SMT DEF TypeOK, Label
<1>4. RunPoolExact /\ IdleStays /\ CurrentRuns /\ WaitsAsleep
  BY SMT DEF RunPoolExact, IdleStays, CurrentRuns, WaitsAsleep, Readers
<1>5. DOMAIN wait_queue = {} /\ DOMAIN got = {}
  BY <1>2, SMT
<1>6. WaitOnStack
  BY <1>5, SMT DEF WaitOnStack, ToSet, Readers
<1>7. NoSleepBesideChar /\ RingExact /\ InOrder
  BY <1>2, <1>5, SMT DEF NoSleepBesideChar, RingExact, InOrder
<1>. QED
  BY <1>3, <1>4, <1>6, <1>7 DEF IInv

\* What the loop of a read takes: no more than it asked for, and no more than there is.
LEMMA TakesRange ==
  ASSUME IInv
  PROVE  /\ Takes \in Nat /\ Takes <= left[current] /\ Takes <= p_wpos - p_rpos
         /\ left[current] # Takes => Takes = p_wpos - p_rpos
  BY SMT DEF IInv, TypeOK, SchedTypeOK, InOrder, Takes

\* The characters it takes.
LEMMA TakenSlots ==
  ASSUME IInv
  PROVE  /\ Taken \in Seq(0 .. MaxTyped) /\ Len(Taken) = Takes
         /\ \A i \in 1 .. Takes : Taken[i] = stdin_buffer[(p_rpos + i - 1) % STDIN_BUFSIZE]
<1> DEFINE n == Takes
<1>1. n \in Nat
  BY TakesRange
<1>2. ASSUME NEW i \in 1 .. n
      PROVE  stdin_buffer[(p_rpos + i - 1) % STDIN_BUFSIZE] \in 0 .. MaxTyped
  <2>1. PICK a \in Nat : a = p_rpos + i - 1
    BY <1>1, SMT DEF IInv, TypeOK
  <2>2. a % STDIN_BUFSIZE \in 0 .. (STDIN_BUFSIZE - 1)
    BY QuotRem, StdinAssumption
  <2>. QED
    BY <2>1, <2>2, Zenon DEF IInv, TypeOK
<1>3. Taken \in [1 .. n -> 0 .. MaxTyped]
  BY <1>2, Zenon DEF Taken
<1>4. Taken \in Seq(0 .. MaxTyped)
  BY <1>1, <1>3, SeqDef, Zenon
<1>5. Len(Taken) \in Nat /\ 1 .. Len(Taken) = 1 .. n
  BY <1>3, <1>4, LenProperties, Zenon
<1>6. Len(Taken) = n
  <2>. HIDE DEF n
  <2>. QED
    BY <1>1, <1>5, SMT
<1>. QED
  BY <1>4, <1>6, Zenon DEF Taken

\* wait_current_del leaves everybody else in the queue.
LEMMA DequeueRemoves ==
  ASSUME IInv
  PROVE  /\ Dequeue \in Seq(Readers)
         /\ Distinct(Dequeue)
         /\ ToSet(Dequeue) = ToSet(wait_queue) \ {current}
<1>1. wait_queue \in Seq(Readers) /\ Distinct(wait_queue)
  BY DEF IInv, TypeOK, WaitOnStack, Distinct
<1> DEFINE at == {i \in DOMAIN wait_queue : wait_queue[i] = current}
<1>2. CASE at = {}
  BY <1>1, <1>2, Zenon DEF Dequeue, ToSet
<1>3. CASE at # {}
  <2>1. PICK k \in at : k = CHOOSE i \in at : TRUE
    BY <1>3, Zenon
  <2>2. Dequeue = RemoveAt(wait_queue, k)
    BY <1>3, <2>1, Zenon DEF Dequeue
  <2>. QED
    BY <1>1, <2>1, <2>2, RemoveOne, Zenon
<1>. QED
  BY <1>2, <1>3

\* The keyboard interrupt wakes all who stand in the queue, and empties it.
LEMMA KeyWakes ==
  ASSUME IInv, Key
  PROVE  /\ ToSet(wait_queue) \in SUBSET Readers
         /\ ToSet(wait_queue) \in SUBSET Procs
         /\ wakeup_proc(ToSet(wait_queue), state, wait_state)
         /\ UNCHANGED need_resched
         /\ wait_queue' = <<>>
<1>1. wait_queue \in Seq(Readers)
  BY DEF IInv, TypeOK
<1>2. Len(wait_queue) \in Nat /\ DOMAIN wait_queue = 1 .. Len(wait_queue)
  BY <1>1, LenProperties, Zenon
<1>3. SubSeq(wait_queue, Wakes + 1, Len(wait_queue)) = <<>>
  <2>1. Wakes + 1 \in Int /\ Len(wait_queue) \in Int /\ Len(wait_queue) < Wakes + 1
    BY <1>2, SMT DEF Wakes
  <2>. QED
    BY <2>1, SubSeqEmpty, Zenon
<1>4. ToSet(wait_queue) = {wait_queue[i] : i \in 1 .. Wakes}
  BY <1>2, Zenon DEF ToSet, Wakes
<1>5. ToSet(wait_queue) \in SUBSET Readers
  BY <1>1, <1>2, ElementOfSeq, Zenon DEF ToSet
<1>. QED
  BY <1>3, <1>4, <1>5, Zenon DEF Key, Readers

\* Every step keeps the types.
LEMMA NextType == IInv /\ [Next]_vars => TypeOK'
<1> SUFFICES ASSUME IInv, [Next]_vars PROVE TypeOK'
  OBVIOUS
<1>. TypeOK /\ SchedTypeOK /\ current \in Procs /\ state \in [Procs -> ProcState] /\ pc \in [Procs -> Label]
  BY DEF IInv, TypeOK, SchedTypeOK
<1>1. ASSUME NEW len \in 1 .. MaxLen, Read(len) PROVE TypeOK'
  BY <1>1, StdinAssumption, SMT DEF Read, TypeOK, SchedTypeOK, schedVars, ringVars, Goto, Label
<1>2. CASE ReadLoop
  <2>1. SchedTypeOK'
    <3>1. /\ UNCHANGED <<current, run_pool, need_resched, time_slice>>
          /\ UNCHANGED <<state, wait_state>> \/ go_to_sleep("WT_KBD")
      BY <1>2, Zenon DEF ReadLoop
    <3>2. CASE UNCHANGED <<state, wait_state>>
      BY <3>1, <3>2, Zenon DEF SchedTypeOK
    <3>3. CASE go_to_sleep("WT_KBD")
      BY <3>1, <3>3, GoToSleepType, Zenon DEF WaitState
    <3>. QED
      BY <3>1, <3>2, <3>3
  <2>2. wait_queue' \in Seq(Readers)
    <3>1. current \in Readers
      BY <1>2, SMT DEF ReadLoop, At, Readers, IInv, IdleStays
    <3>2. Enqueue \in Seq(Readers)
      BY <3>1, AppendProperties, Zenon DEF Enqueue, TypeOK
    <3>. QED
      BY <1>2, <3>2, Zenon DEF ReadLoop, TypeOK
  <2>3. got' \in Seq(0 .. MaxTyped)
    BY <1>2, TakenSlots, ConcatProperties, Zenon DEF ReadLoop, TypeOK
  <2>4. left' \in [Procs -> 0 .. MaxLen] /\ p_rpos' \in 0 .. MaxTyped
    <3> DEFINE n == Takes
    <3>1. n \in Nat /\ n <= left[current] /\ n <= p_wpos - p_rpos
      BY TakesRange
    <3>2. left' = [left EXCEPT ![current] = left[current] - n] /\ p_rpos' = p_rpos + n
      BY <1>2, Zenon DEF ReadLoop
    <3>. HIDE DEF n
    <3>. QED
      BY <3>1, <3>2, StdinAssumption, SMT DEF TypeOK
  <2>5. pc' \in [Procs -> Label] /\ wakeup_flags' \in [Procs -> {"WT_KBD", "WT_INTERRUPTED"}]
    <3>1. \/ pc' = [pc EXCEPT ![current] = "trap"] /\ wakeup_flags' = wakeup_flags
          \/ /\ pc' = [pc EXCEPT ![current] = "kbd_sched"]
             /\ wakeup_flags' = [wakeup_flags EXCEPT ![current] = "WT_INTERRUPTED"]
      BY <1>2, Zenon DEF ReadLoop, Goto
    <3>2. "trap" \in Label /\ "kbd_sched" \in Label
      BY DEF Label
    <3>. QED
      BY <3>1, <3>2, Zenon DEF TypeOK
  <2>. QED
    BY <1>2, <2>1, <2>2, <2>3, <2>4, <2>5, Zenon DEF ReadLoop, TypeOK
<1>3. CASE ReadWake
  <2>1. wait_queue' \in Seq(Readers)
    BY <1>3, DequeueRemoves, Zenon DEF ReadWake
  <2>2. SchedTypeOK' /\ pc' \in [Procs -> Label]
    BY <1>3, SMT DEF ReadWake, SchedTypeOK, schedVars, Goto, TypeOK, Label
  <2>. QED
    BY <1>3, <2>1, <2>2, Zenon DEF ReadWake, TypeOK, ringVars
<1>4. CASE Key
  <2>1. SchedTypeOK'
    BY <1>4, KeyWakes, WakeupProcType, Zenon
  <2>2. stdin_buffer' \in [0 .. (STDIN_BUFSIZE - 1) -> 0 .. MaxTyped] /\ typed' \in 0 .. MaxTyped
    <3>1. p_wpos % STDIN_BUFSIZE \in 0 .. (STDIN_BUFSIZE - 1)
      <4>1. p_wpos \in Nat
        BY SMT DEF TypeOK
      <4>. QED
        BY <4>1, QuotRem, StdinAssumption, Zenon
    <3>2. typed + 1 \in 0 .. MaxTyped
      BY <1>4, StdinAssumption, SMT DEF Key, TypeOK
    <3>. QED
      BY <1>4, <3>1, <3>2, Zenon DEF Key, TypeOK
  <2>3. p_wpos' \in 0 .. MaxTyped
    BY <1>4, StdinAssumption, SMT DEF Key, TypeOK, IInv, RingExact
  <2>4. wait_queue' = <<>> /\ wait_queue' \in Seq(Readers)
    BY <1>4, KeyWakes, EmptySeq, Zenon
  <2>5. wakeup_flags' \in [Procs -> {"WT_KBD", "WT_INTERRUPTED"}] /\ pc' \in [Procs -> Label]
    BY <1>4, SMT DEF Key, TypeOK, Label
  <2>6. UNCHANGED <<exiting, left, p_rpos, got>>
    BY <1>4 DEF Key
  <2>. QED
    BY <2>1, <2>2, <2>3, <2>4, <2>5, <2>6, Zenon DEF TypeOK
<1>5. ASSUME NEW p \in Readers, Kill(p) PROVE TypeOK'
  <2>1. SchedTypeOK'
    BY <1>5, WakeupProcType, Zenon DEF Kill, Readers
  <2>. QED
    BY <1>5, <2>1, SMT DEF Kill, TypeOK, Goto, ringVars, Label, Readers
<1>6. CASE TrapTail
  BY <1>6, SMT DEF TrapTail, TypeOK, SchedTypeOK, schedVars, ringVars, Goto, Label
<1>7. CASE do_exit
  BY <1>7, SMT DEF do_exit, TypeOK, SchedTypeOK, ringVars, ProcState
<1>8. CASE Tick
  <2>1. SchedTypeOK'
    <3>1. run_timers({})
      BY <1>8 DEF Tick
    <3>. QED
      BY <3>1, RunTimersType, Zenon
  <2>. QED
    BY <1>8, <2>1, SMT DEF Tick, TypeOK, ringVars, Label
<1>9. ASSUME NEW next \in Procs, Schedule(next) PROVE TypeOK'
  <2>1. SchedTypeOK'
    BY <1>9, ScheduleType, Zenon DEF Schedule
  <2>. QED
    BY <1>9, <2>1, SMT DEF Schedule, TypeOK, Goto, ringVars, Label, At
<1>10. CASE UNCHANGED vars
  BY <1>10, Zenon DEF vars, schedVars, ringVars, TypeOK, SchedTypeOK
<1>. QED
  BY <1>1, <1>2, <1>3, <1>4, <1>5, <1>6, <1>7, <1>8, <1>9, <1>10, Zenon DEF Next

-----------------------------------------------------------------------------
(* Who sleeps.                                                              *)

\* What the invariant says of the readers, apart from the ring.
Asleep == IdleStays /\ CurrentRuns /\ WaitsAsleep /\ WaitOnStack /\ NoSleepBesideChar

\* A reader waiting for a key stands in the queue.
LEMMA SleeperQueued ==
  ASSUME IInv, NEW p \in Procs, wait_state[p] = "WT_KBD"
  PROVE  state[p] = "PROC_SLEEPING" /\ p \in ToSet(wait_queue)
  BY SMT DEF IInv, WaitsAsleep, WaitOnStack, IdleStays, Readers

\* Wakeups put nobody to sleep, and end the wait of whoever is called.
LEMMA WakeupAsleep ==
  ASSUME IInv, NEW P \in SUBSET Procs, wakeup(P, state, wait_state)
  PROVE  /\ state'[idleproc] = "PROC_RUNNABLE" /\ WaitsAsleep'
         /\ \A p \in Procs : /\ wait_state'[p] = "WT_KBD" => wait_state[p] = "WT_KBD" /\ p \notin P
                             /\ state[p] = "PROC_RUNNABLE" => state'[p] = "PROC_RUNNABLE"
  BY SchedAssumption, SMT DEF IInv, TypeOK, SchedTypeOK, IdleStays, WaitsAsleep, wakeup, Woken

\* Steps that leave the queue and the ring alone keep this, when they change
\* nobody's place in a read.
LEMMA OutsideRead ==
  ASSUME IInv, UNCHANGED <<wait_queue, wakeup_flags, p_rpos, p_wpos>>,
         \A p \in Procs : /\ wait_state'[p] = "WT_KBD" => wait_state[p] = "WT_KBD"
                          /\ pc[p] \in {"kbd_sched", "kbd_wake"} => pc'[p] \in {"kbd_sched", "kbd_wake"}
  PROVE  WaitOnStack' /\ NoSleepBesideChar'
<1>1. WaitOnStack'
  <2>1. wait_queue' = wait_queue /\ wakeup_flags' = wakeup_flags
    OBVIOUS
  <2>2. \A p \in Readers : p \in Procs
    BY DEF Readers
  <2>. QED
    BY <2>1, <2>2, SMT DEF IInv, WaitOnStack, ToSet
<1>2. NoSleepBesideChar'
  BY Zenon DEF IInv, NoSleepBesideChar, Readers
<1>. QED
  BY <1>1, <1>2

\* The read that goes to sleep leaves nothing to read behind.
LEMMA ReadLoopAsleep == IInv /\ ReadLoop => Asleep'
<1> SUFFICES ASSUME IInv, ReadLoop PROVE Asleep'
  OBVIOUS
<1> DEFINE n == Takes
<1>1. /\ current \in Readers /\ current \in Procs /\ current # idleproc
      /\ state[current] = "PROC_RUNNABLE" /\ pc[current] = "loop"
      /\ current \notin ToSet(wait_queue)
  <2>1. pc[current] = "loop" /\ current \in Procs /\ pc[idleproc] = "idle"
    BY DEF IInv, TypeOK, SchedTypeOK, ReadLoop, At, IdleStays
  <2>2. current \in Readers /\ current # idleproc
    BY <2>1, SMT DEF Readers
  <2>3. state[current] = "PROC_RUNNABLE"
    BY <2>1, SMT DEF IInv, CurrentRuns
  <2>4. current \notin ToSet(wait_queue)
    BY <2>1, <2>2, SMT DEF IInv, WaitOnStack
  <2>. QED
    BY <2>1, <2>2, <2>3, <2>4
<1>2. n \in Nat /\ (left[current] # n => n = p_wpos - p_rpos) /\ p_rpos \in Nat /\ p_wpos \in Nat
  BY TakesRange, SMT DEF IInv, TypeOK
<1>3. p_rpos' = p_rpos + n /\ p_wpos' = p_wpos /\ current' = current
  BY Zenon DEF ReadLoop
<1>. TypeOK /\ SchedTypeOK
  BY DEF IInv, TypeOK
<1>4. CASE left[current] = n
  <2>1. /\ pc' = [pc EXCEPT ![current] = "trap"]
        /\ UNCHANGED <<state, wait_state, wait_queue, wakeup_flags>>
    BY <1>4, Zenon DEF ReadLoop, Goto
  <2>2. IdleStays' /\ CurrentRuns' /\ WaitsAsleep'
    BY <1>1, <1>3, <2>1, SMT DEF IInv, TypeOK, IdleStays, CurrentRuns, WaitsAsleep
  <2>3. \A p \in Procs : p # current => pc'[p] = pc[p]
    BY <2>1, Zenon DEF TypeOK
  <2>4. WaitOnStack'
    BY <1>1, <2>1, <2>3, Zenon DEF IInv, WaitOnStack, ToSet, Readers
  <2>5. NoSleepBesideChar'
    <3>. HIDE DEF n
    <3>. QED
      BY <1>2, <1>3, <2>1, SMT DEF IInv, NoSleepBesideChar
  <2>. QED
    BY <2>2, <2>4, <2>5 DEF Asleep
<1>5. CASE left[current] # n
  <2>1. /\ pc' = [pc EXCEPT ![current] = "kbd_sched"]
        /\ state' = [state EXCEPT ![current] = "PROC_SLEEPING"]
        /\ wait_state' = [wait_state EXCEPT ![current] = "WT_KBD"]
        /\ wakeup_flags' = [wakeup_flags EXCEPT ![current] = "WT_INTERRUPTED"]
        /\ wait_queue' = Append(wait_queue, current)
    BY <1>5, Zenon DEF ReadLoop, Goto, go_to_sleep, Enqueue
  <2>2. IdleStays' /\ CurrentRuns' /\ WaitsAsleep'
    <3>1. \A p \in Procs :
            /\ pc'[p] = (IF p = current THEN "kbd_sched" ELSE pc[p])
            /\ state'[p] = (IF p = current THEN "PROC_SLEEPING" ELSE state[p])
            /\ wait_state'[p] = (IF p = current THEN "WT_KBD" ELSE wait_state[p])
      BY <2>1, Zenon DEF TypeOK, SchedTypeOK
    <3>2. IdleStays /\ WaitsAsleep /\ idleproc \in Procs
      BY SchedAssumption DEF IInv
    <3>. QED
      BY <1>1, <1>3, <3>1, <3>2, SMT DEF IdleStays, CurrentRuns, WaitsAsleep
  <2>3. Distinct(wait_queue') /\ ToSet(wait_queue') = ToSet(wait_queue) \cup {current}
    <3>1. wait_queue \in Seq(Readers) /\ Distinct(wait_queue)
      BY Zenon DEF IInv, TypeOK, WaitOnStack, Distinct
    <3>. QED
      BY <1>1, <2>1, <3>1, AppendOne
  <2>4. /\ pc'[current] = "kbd_sched" /\ wakeup_flags'[current] = "WT_INTERRUPTED"
        /\ \A p \in Procs : p # current => /\ pc'[p] = pc[p] /\ wakeup_flags'[p] = wakeup_flags[p]
                                           /\ wait_state'[p] = wait_state[p]
    BY <1>1, <2>1, SMT DEF TypeOK, SchedTypeOK
  <2>5. WaitOnStack'
    <3>1. \A p \in Readers : IF p \in ToSet(wait_queue')
            THEN pc'[p] \in {"kbd_sched", "kbd_wake"} /\ wakeup_flags'[p] = "WT_INTERRUPTED"
            ELSE wait_state'[p] # "WT_KBD"
      BY <1>1, <2>3, <2>4, Zenon DEF IInv, WaitOnStack, Readers
    <3>2. WaitOnStack' <=>
            /\ Distinct(wait_queue')
            /\ \A p \in Readers : IF p \in ToSet(wait_queue')
                 THEN pc'[p] \in {"kbd_sched", "kbd_wake"} /\ wakeup_flags'[p] = "WT_INTERRUPTED"
                 ELSE wait_state'[p] # "WT_KBD"
      BY Zenon DEF WaitOnStack, Distinct, ToSet
    <3>. QED
      BY <2>3, <3>1, <3>2
  <2>6. NoSleepBesideChar'
    <3>. HIDE DEF n
    <3>. QED
      BY <1>2, <1>3, <1>5, SMT DEF NoSleepBesideChar
  <2>. QED
    BY <2>2, <2>5, <2>6 DEF Asleep
<1>. QED
  BY <1>4, <1>5

\* A key wakes every reader that is asleep.
LEMMA KeyAsleep == IInv /\ Key => Asleep'
<1> SUFFICES ASSUME IInv, Key PROVE Asleep'
  OBVIOUS
<1> DEFINE W == ToSet(wait_queue)
<1>1. W \in SUBSET Readers /\ W \in SUBSET Procs /\ wakeup(W, state, wait_state) /\ wait_queue' = <<>>
  BY KeyWakes, Zenon DEF wakeup_proc
<1>2. /\ state'[idleproc] = "PROC_RUNNABLE" /\ WaitsAsleep'
      /\ \A p \in Procs : /\ wait_state'[p] = "WT_KBD" => wait_state[p] = "WT_KBD" /\ p \notin W
                          /\ state[p] = "PROC_RUNNABLE" => state'[p] = "PROC_RUNNABLE"
  BY <1>1, WakeupAsleep
<1>3. \A p \in Procs : wait_state'[p] # "WT_KBD"
  BY <1>2, SleeperQueued, Zenon
<1>4. current' = current /\ pc' = (IF At("user") THEN [pc EXCEPT ![current] = "trap"] ELSE pc)
  BY <1>1, Zenon DEF Key, wakeup
<1>5. IdleStays' /\ CurrentRuns'
  BY <1>2, <1>4, SchedAssumption, SMT DEF IInv, TypeOK, SchedTypeOK, IdleStays, CurrentRuns, At
<1>6. NoSleepBesideChar'
  BY <1>3, Zenon DEF NoSleepBesideChar, Readers
<1>7. DOMAIN wait_queue' = {}
  <2>1. Len(<<>>) = 0 /\ <<>> \in Seq(Readers)
    BY EmptySeq, Zenon
  <2>2. DOMAIN <<>> = 1 .. 0
    BY <2>1, LenProperties
  <2>. QED
    BY <1>1, <2>2, SMT
<1>8. WaitOnStack'
  BY <1>3, <1>7, Zenon DEF WaitOnStack, ToSet, Readers
<1>. QED
  BY <1>2, <1>5, <1>6, <1>8 DEF Asleep

\* A reader that was woken takes its wait_t off the queue, if the waker did not.
LEMMA ReadWakeAsleep == IInv /\ ReadWake => Asleep'
<1> SUFFICES ASSUME IInv, ReadWake PROVE Asleep'
  OBVIOUS
<1>. TypeOK /\ SchedTypeOK /\ current \in Procs
  BY DEF IInv, TypeOK, SchedTypeOK
<1>1. /\ UNCHANGED <<schedVars, p_rpos, p_wpos, wakeup_flags>> /\ wait_queue' = Dequeue
      /\ pc[current] = "kbd_wake"
      /\ pc' = [pc EXCEPT ![current] = IF TriesAgain(wakeup_flags[current]) THEN "loop" ELSE "trap"]
  BY Zenon DEF ReadWake, ringVars, At, Goto
<1>2. state[current] = "PROC_RUNNABLE" /\ wait_state[current] # "WT_KBD" /\ current # idleproc
  BY <1>1, SMT DEF IInv, CurrentRuns, WaitsAsleep, IdleStays
<1>3. IdleStays' /\ CurrentRuns' /\ WaitsAsleep' /\ NoSleepBesideChar'
  BY <1>1, <1>2, SMT DEF IInv, schedVars, IdleStays, CurrentRuns, WaitsAsleep, NoSleepBesideChar, TypeOK
<1>4. Distinct(wait_queue') /\ ToSet(wait_queue') = ToSet(wait_queue) \ {current}
  BY <1>1, DequeueRemoves, Zenon
<1>5. \A p \in Procs : p # current => pc'[p] = pc[p]
  BY <1>1, Zenon DEF TypeOK
<1>6. wait_state' = wait_state /\ wakeup_flags' = wakeup_flags
  BY <1>1 DEF schedVars
<1>7. \A p \in Readers : IF p \in ToSet(wait_queue')
        THEN pc'[p] \in {"kbd_sched", "kbd_wake"} /\ wakeup_flags'[p] = "WT_INTERRUPTED"
        ELSE wait_state'[p] # "WT_KBD"
  BY <1>2, <1>4, <1>5, <1>6, Zenon DEF IInv, WaitOnStack, Readers
<1>8. WaitOnStack'
  <2>1. WaitOnStack' <=>
          /\ Distinct(wait_queue')
          /\ \A p \in Readers : IF p \in ToSet(wait_queue')
               THEN pc'[p] \in {"kbd_sched", "kbd_wake"} /\ wakeup_flags'[p] = "WT_INTERRUPTED"
               ELSE wait_state'[p] # "WT_KBD"
    BY Zenon DEF WaitOnStack, Distinct, ToSet
  <2>. QED
    BY <1>4, <1>7, <2>1
<1>. QED
  BY <1>3, <1>8 DEF Asleep

\* The rest touches no wait: kills and ticks wake, schedule() moves on.
LEMMA OtherAsleep ==
  ASSUME IInv,
         \/ \E len \in 1 .. MaxLen : Read(len)
         \/ \E p \in Readers : Kill(p)
         \/ TrapTail \/ do_exit \/ Tick \/ UNCHANGED vars
         \/ \E next \in Procs : Schedule(next)
  PROVE  Asleep'
<1>. TypeOK /\ SchedTypeOK /\ IdleStays /\ CurrentRuns /\ WaitsAsleep /\ RunPoolExact
  BY DEF IInv, TypeOK
<1>. current \in Procs /\ idleproc \in Procs
  BY SchedAssumption DEF SchedTypeOK
<1> DEFINE Calm ==
        /\ UNCHANGED <<wait_queue, wakeup_flags, p_rpos, p_wpos>>
        /\ \A p \in Procs : /\ wait_state'[p] = "WT_KBD" => wait_state[p] = "WT_KBD"
                            /\ pc[p] \in {"kbd_sched", "kbd_wake"} => pc'[p] \in {"kbd_sched", "kbd_wake"}
        /\ IdleStays' /\ CurrentRuns' /\ WaitsAsleep'
<1>. SUFFICES Calm
  BY OutsideRead, Zenon DEF Asleep
<1>1. ASSUME NEW len \in 1 .. MaxLen, Read(len) PROVE Calm
  <2>1. /\ pc[current] = "user" /\ pc' = [pc EXCEPT ![current] = "loop"]
        /\ UNCHANGED <<current, state, wait_state, wait_queue, wakeup_flags, p_rpos, p_wpos>>
    BY <1>1, Zenon DEF Read, At, Goto, schedVars, ringVars
  <2>. QED
    BY <2>1, SMT DEF TypeOK, IdleStays, CurrentRuns, WaitsAsleep
<1>2. ASSUME NEW p \in Readers, Kill(p) PROVE Calm
  <2> DEFINE P == {q \in {p} : wait_state[q] \in WT_INTERRUPTED}
  <2>1. /\ pc[current] = "user" /\ pc' = [pc EXCEPT ![current] = "trap"]
        /\ wakeup(P, state, wait_state) /\ P \in SUBSET Procs
        /\ UNCHANGED <<current, wait_queue, wakeup_flags, p_rpos, p_wpos>>
    BY <1>2, Zenon DEF Kill, At, Goto, wakeup_proc, wakeup, ringVars, Readers
  <2>. HIDE DEF P
  <2>2. /\ state'[idleproc] = "PROC_RUNNABLE" /\ WaitsAsleep'
        /\ \A q \in Procs : /\ wait_state'[q] = "WT_KBD" => wait_state[q] = "WT_KBD"
                            /\ state[q] = "PROC_RUNNABLE" => state'[q] = "PROC_RUNNABLE"
    BY <2>1, WakeupAsleep, Zenon
  <2>3. IdleStays' /\ CurrentRuns'
    BY <2>1, <2>2, SMT DEF TypeOK, IdleStays, CurrentRuns
  <2>. QED
    BY <2>1, <2>2, <2>3, SMT DEF TypeOK
<1>3. CASE TrapTail
  <2>1. /\ pc[current] = "trap" /\ \E l : pc' = [pc EXCEPT ![current] = l]
        /\ UNCHANGED <<current, state, wait_state, wait_queue, wakeup_flags, p_rpos, p_wpos>>
    BY <1>3, Zenon DEF TrapTail, At, Goto, schedVars, ringVars
  <2>2. PICK l : \A p \in Procs : pc'[p] = IF p = current THEN l ELSE pc[p]
    BY <2>1, Zenon DEF TypeOK
  <2>3. state[current] = "PROC_RUNNABLE" /\ current # idleproc
    BY <2>1, SMT DEF IdleStays, CurrentRuns
  <2>4. IdleStays' /\ CurrentRuns' /\ WaitsAsleep'
    BY <2>1, <2>2, <2>3, Zenon DEF IdleStays, CurrentRuns, WaitsAsleep
  <2>. QED
    BY <2>1, <2>2, <2>4, SMT
<1>4. CASE do_exit
  <2>1. /\ pc[current] = "exit" /\ pc' = pc /\ state[current] = "PROC_RUNNABLE"
        /\ state' = [state EXCEPT ![current] = "PROC_ZOMBIE"]
        /\ UNCHANGED <<current, wait_state, wait_queue, wakeup_flags, p_rpos, p_wpos>>
    BY <1>4, Zenon DEF do_exit, At, ringVars
  <2>2. \A p \in Procs : state'[p] = IF p = current THEN "PROC_ZOMBIE" ELSE state[p]
    BY <2>1, Zenon DEF SchedTypeOK
  <2>3. current # idleproc /\ wait_state[current] # "WT_KBD"
    BY <2>1, SMT DEF IdleStays, WaitsAsleep
  <2>4. IdleStays' /\ CurrentRuns' /\ WaitsAsleep'
    BY <2>1, <2>2, <2>3, Zenon DEF IdleStays, CurrentRuns, WaitsAsleep
  <2>. QED
    BY <2>1, <2>4, Zenon
<1>5. CASE Tick
  <2>1. /\ wakeup({}, state, wait_state) /\ {} \in SUBSET Procs
        /\ UNCHANGED <<current, wait_queue, wakeup_flags, p_rpos, p_wpos>>
        /\ pc' = pc \/ (pc[current] = "user" /\ pc' = [pc EXCEPT ![current] = "trap"])
    BY <1>5, Zenon DEF Tick, run_timers, wakeup, ringVars, At
  <2>2. /\ state'[idleproc] = "PROC_RUNNABLE" /\ WaitsAsleep'
        /\ \A q \in Procs : /\ wait_state'[q] = "WT_KBD" => wait_state[q] = "WT_KBD"
                            /\ state[q] = "PROC_RUNNABLE" => state'[q] = "PROC_RUNNABLE"
    BY <2>1, WakeupAsleep, Zenon
  <2>3. \A p \in Procs : pc'[p] = pc[p] \/ (p = current /\ pc[p] = "user" /\ pc'[p] = "trap")
    BY <2>1, Zenon DEF TypeOK
  <2>4. IdleStays' /\ CurrentRuns'
    BY <2>1, <2>2, <2>3, SMT DEF IdleStays, CurrentRuns
  <2>. QED
    BY <2>1, <2>2, <2>3, <2>4, SMT
<1>6. CASE UNCHANGED vars
  BY <1>6, Zenon DEF vars, schedVars, ringVars, IdleStays, CurrentRuns, WaitsAsleep
<1>7. ASSUME NEW next \in Procs, Schedule(next) PROVE Calm
  <2>1. /\ UNCHANGED <<state, wait_state, wait_queue, wakeup_flags, p_rpos, p_wpos>>
        /\ current' = next /\ next \in (IF Ready = {} THEN {idleproc} ELSE Ready)
    BY <1>7, Zenon DEF Schedule, schedule, ringVars
  <2>2. state[next] = "PROC_RUNNABLE"
    BY <2>1, SMT DEF Ready, RunPoolExact, IdleStays
  <2>3. PICK l \in {"idle", "user", "kbd_wake", "dead"} :
          /\ pc' = [pc EXCEPT ![current] = l]
          /\ pc[current] = "idle" => l = "idle"
          /\ pc[current] \in {"kbd_sched", "kbd_wake"} => l = "kbd_wake"
    <3>1. /\ pc[current] \in {"idle", "user_sched", "kbd_sched", "exit"}
          /\ pc' = [pc EXCEPT ![current] = CASE pc[current] = "idle" -> "idle"
                                             [] pc[current] = "user_sched" -> "user"
                                             [] pc[current] = "kbd_sched" -> "kbd_wake"
                                             [] pc[current] = "exit" -> "dead"]
      BY <1>7, SMT DEF Schedule, At, Goto
    <3>2. CASE pc[current] = "idle"
      BY <3>1, <3>2, SMT
    <3>3. CASE pc[current] = "user_sched"
      BY <3>1, <3>3, SMT
    <3>4. CASE pc[current] = "kbd_sched"
      BY <3>1, <3>4, SMT
    <3>5. CASE pc[current] = "exit"
      BY <3>1, <3>5, SMT
    <3>. QED
      BY <3>1, <3>2, <3>3, <3>4, <3>5
  <2>4. \A p \in Procs : pc'[p] = IF p = current THEN l ELSE pc[p]
    BY <2>3, Zenon DEF TypeOK
  <2>5. IdleStays' /\ WaitsAsleep'
    BY <2>1, <2>3, <2>4, SMT DEF IdleStays, WaitsAsleep
  <2>6. CurrentRuns'
    BY <2>1, <2>2, Zenon DEF CurrentRuns
  <2>. QED
    BY <2>1, <2>3, <2>4, <2>5, <2>6, SMT
<1>. QED
  BY <1>1, <1>2, <1>3, <1>4, <1>5, <1>6, <1>7, Zenon

\* The pool stays exact.
LEMMA NextPool == IInv /\ [Next]_vars => RunPoolExact'
<1> SUFFICES ASSUME IInv, [Next]_vars PROVE RunPoolExact'
  OBVIOUS
<1>. SchedTypeOK /\ RunPoolExact
  BY DEF IInv, TypeOK
<1>1. ASSUME UNCHANGED <<current, run_pool>>, \A p \in Procs : p # current => state'[p] = state[p]
      PROVE  RunPoolExact'
  BY <1>1, Zenon DEF RunPoolExact
<1>2. ASSUME \/ UNCHANGED vars \/ ReadWake \/ TrapTail \/ \E len \in 1 .. MaxLen : Read(len)
      PROVE  RunPoolExact'
  <2>1. UNCHANGED <<current, run_pool, state>>
    BY <1>2, Zenon DEF vars, schedVars, ReadWake, TrapTail, Read
  <2>. QED
    BY <1>1, <2>1
<1>3. CASE ReadLoop \/ do_exit
  <2>1. UNCHANGED <<current, run_pool>> /\ (state' = state \/ \E v : state' = [state EXCEPT ![current] = v])
    BY <1>3, Zenon DEF ReadLoop, do_exit, go_to_sleep
  <2>. QED
    BY <1>1, <2>1, Zenon DEF SchedTypeOK
<1>4. ASSUME NEW P \in SUBSET Procs, wakeup(P, state, wait_state) PROVE RunPoolExact'
  BY <1>4, WakeupPool, Zenon DEF SchedTypeOK
<1>5. CASE Key
  BY <1>4, <1>5, KeyWakes, Zenon DEF wakeup_proc
<1>6. ASSUME NEW p \in Readers, Kill(p) PROVE RunPoolExact'
  BY <1>4, <1>6, Zenon DEF Kill, wakeup_proc, Readers
<1>7. CASE Tick
  BY <1>4, <1>7, Zenon DEF Tick, run_timers
<1>8. ASSUME NEW next \in Procs, Schedule(next) PROVE RunPoolExact'
  BY <1>8, SchedulePool, Zenon DEF Schedule
<1>. QED
  BY <1>2, <1>3, <1>5, <1>6, <1>7, <1>8, Zenon DEF Next

-----------------------------------------------------------------------------
(* What the ring holds.                                                     *)

\* A read takes the oldest characters, in order.
LEMMA ReadLoopRing == IInv /\ ReadLoop => RingExact' /\ InOrder'
<1> SUFFICES ASSUME IInv, ReadLoop PROVE RingExact' /\ InOrder'
  OBVIOUS
<1> DEFINE n == Takes
           t == Taken
           B == STDIN_BUFSIZE
           m == Len(got)
<1>1. n \in Nat /\ n <= p_wpos - p_rpos
  BY TakesRange
<1>2. /\ t \in Seq(0 .. MaxTyped) /\ Len(t) = n
      /\ \A i \in 1 .. n : t[i] = stdin_buffer[(p_rpos + i - 1) % B]
  BY TakenSlots
<1>3. /\ got' = got \o t /\ p_rpos' = p_rpos + n
      /\ p_wpos' = p_wpos /\ typed' = typed /\ stdin_buffer' = stdin_buffer
  BY Zenon DEF ReadLoop
<1>4. /\ p_rpos \in Nat /\ p_wpos \in Nat /\ typed \in Nat /\ p_rpos = m
      /\ got \in Seq(0 .. MaxTyped) /\ DOMAIN got = 1 .. m
  <2>1. got \in Seq(0 .. MaxTyped)
    BY DEF IInv, TypeOK
  <2>2. p_rpos \in Nat /\ p_wpos \in Nat /\ typed \in Nat
    BY SMT DEF IInv, TypeOK
  <2>. QED
    BY <2>1, <2>2, LenProperties, Zenon DEF IInv, RingExact
<1>5. /\ got' \in Seq(0 .. MaxTyped) /\ Len(got') = m + n
      /\ \A i \in 1 .. m + n : got'[i] = IF i <= m THEN got[i] ELSE t[i - m]
  BY <1>2, <1>3, <1>4, ConcatProperties
<1>6. DOMAIN got' = 1 .. m + n
  BY <1>5, LenProperties
<1>7. /\ typed = p_wpos => \A i \in 1 .. m : got[i] = i
      /\ typed = p_wpos => \A i \in p_rpos .. (p_wpos - 1) : stdin_buffer[i % B] = i + 1
      /\ p_wpos <= typed /\ p_rpos <= p_wpos /\ p_wpos - p_rpos <= B
      /\ \A i \in p_rpos .. (p_wpos - 1) : stdin_buffer[i % B] >= i + 1
  BY <1>4, Zenon DEF IInv, InOrder, RingExact
<1>8. B \in Nat
  BY StdinAssumption
<1>. HIDE DEF n, t, m, B
<1>9. p_rpos' .. (p_wpos' - 1) \subseteq p_rpos .. (p_wpos - 1)
  BY <1>1, <1>3, <1>4, SMT
<1>10. RingExact'
  <2>1. p_rpos' = Len(got') /\ p_wpos' <= typed'
    BY <1>3, <1>4, <1>5, <1>7, Zenon
  <2>2. typed' = p_wpos' => \A i \in p_rpos' .. (p_wpos' - 1) : stdin_buffer'[i % B] = i + 1
    BY <1>3, <1>7, <1>9, Zenon
  <2>. QED
    BY <2>1, <2>2, Zenon DEF RingExact, B
<1>11. ASSUME typed = p_wpos, NEW i \in 1 .. m + n PROVE got'[i] = i
  <2>1. CASE i <= m
    <3>1. m \in Nat /\ i \in 1 .. m
      BY <1>1, <1>4, <2>1, SMT
    <3>. QED
      BY <1>5, <1>7, <1>11, <2>1, <3>1, Zenon
  <2>2. CASE ~(i <= m)
    <3>1. /\ i - m \in 1 .. n /\ i - 1 \in p_rpos .. (p_wpos - 1)
          /\ p_rpos + (i - m) - 1 = i - 1 /\ (i - 1) + 1 = i
      BY <1>1, <1>4, <2>2, SMT
    <3>. QED
      BY <1>2, <1>5, <1>7, <1>11, <2>2, <3>1, Zenon
  <2>. QED
    BY <2>1, <2>2
<1>12. InOrder'
  <2>1. typed' = p_wpos' => p_rpos' = Len(got') /\ \A i \in DOMAIN got' : got'[i] = i
    BY <1>3, <1>4, <1>5, <1>6, <1>11, Zenon
  <2>2. p_rpos' <= p_wpos' /\ p_wpos' - p_rpos' <= B
    BY <1>1, <1>3, <1>4, <1>7, <1>8, SMT
  <2>3. \A i \in p_rpos' .. (p_wpos' - 1) : stdin_buffer'[i % B] >= i + 1
    BY <1>3, <1>7, <1>9, Zenon
  <2>. QED
    BY <2>1, <2>2, <2>3, Zenon DEF InOrder, B
<1>. QED
  BY <1>10, <1>12

\* A key goes to a slot of its own, or replaces the oldest character.
LEMMA KeyRing == IInv /\ Key => RingExact' /\ InOrder'
<1> SUFFICES ASSUME IInv, Key PROVE RingExact' /\ InOrder'
  OBVIOUS
<1> DEFINE B == STDIN_BUFSIZE
<1>1. /\ p_rpos \in Nat /\ p_wpos \in Nat /\ typed \in Nat /\ p_wpos <= typed
      /\ p_rpos <= p_wpos /\ p_wpos - p_rpos <= B /\ B \in Nat \ {0}
  BY StdinAssumption, SMT DEF IInv, TypeOK, RingExact, InOrder
<1>2. /\ typed' = typed + 1 /\ p_rpos' = p_rpos /\ got' = got
      /\ stdin_buffer' = [stdin_buffer EXCEPT ![p_wpos % B] = typed + 1]
      /\ p_wpos' = IF p_wpos - p_rpos < B THEN p_wpos + 1 ELSE p_wpos
  BY Zenon DEF Key, NotFull
<1>3. /\ p_rpos = Len(got)
      /\ typed = p_wpos => \A i \in DOMAIN got : got[i] = i
      /\ typed = p_wpos => \A i \in p_rpos .. (p_wpos - 1) : stdin_buffer[i % B] = i + 1
      /\ \A i \in p_rpos .. (p_wpos - 1) : stdin_buffer[i % B] >= i + 1
  BY Zenon DEF IInv, RingExact, InOrder
<1>4. p_wpos % B \in 0 .. (B - 1) /\ \A i \in Nat : i % B \in 0 .. (B - 1)
  BY <1>1, QuotRem, Zenon
<1>5. /\ stdin_buffer'[p_wpos % B] = typed + 1
      /\ \A k \in 0 .. (B - 1) : k # p_wpos % B => stdin_buffer'[k] = stdin_buffer[k]
  BY <1>2, <1>4, Zenon DEF IInv, TypeOK
<1>6. \A i \in p_rpos .. (p_wpos - 1) : i \in Nat /\ i < p_wpos
  BY <1>1, SMT
<1>7. CASE p_wpos - p_rpos < B
  <2>1. p_wpos' = p_wpos + 1
    BY <1>2, <1>7
  <2>2. ASSUME NEW i \in p_rpos .. (p_wpos - 1) PROVE stdin_buffer'[i % B] = stdin_buffer[i % B]
    <3>1. i \in Nat /\ i < p_wpos /\ p_wpos - i < B
      BY <1>1, <1>7, SMT
    <3>2. i % B # p_wpos % B
      BY <1>1, <3>1, SlotsDiffer, Zenon
    <3>. QED
      BY <1>4, <1>5, <3>1, <3>2, Zenon
  <2>3. \A i \in p_rpos .. (p_wpos' - 1) : i \in p_rpos .. (p_wpos - 1) \/ i = p_wpos
    BY <1>1, <2>1, SMT
  <2>4. RingExact'
    <3>1. p_rpos' = Len(got')
      BY <1>2, <1>3, Zenon
    <3>2. p_wpos' <= typed' /\ (typed' = p_wpos' => typed = p_wpos)
      BY <1>1, <1>2, <2>1, SMT
    <3>3. typed' = p_wpos' => \A i \in p_rpos' .. (p_wpos' - 1) : stdin_buffer'[i % B] = i + 1
      BY <1>2, <1>3, <1>5, <2>2, <2>3, <3>2, Zenon
    <3>. QED
      BY <3>1, <3>2, <3>3, Zenon DEF RingExact
  <2>5. InOrder'
    <3>1. typed' = p_wpos' => typed = p_wpos
      BY <1>1, <1>2, <2>1, SMT
    <3>2. typed' = p_wpos' => p_rpos' = Len(got') /\ \A i \in DOMAIN got' : got'[i] = i
      BY <1>2, <1>3, <3>1, Zenon
    <3>3. p_rpos' <= p_wpos' /\ p_wpos' - p_rpos' <= B
      BY <1>1, <1>2, <1>7, <2>1, SMT
    <3>4. typed + 1 >= p_wpos + 1
      BY <1>1, SMT
    <3>5. \A i \in p_rpos' .. (p_wpos' - 1) : stdin_buffer'[i % B] >= i + 1
      BY <1>2, <1>3, <1>5, <2>2, <2>3, <3>4, Zenon
    <3>. QED
      BY <3>2, <3>3, <3>5, Zenon DEF InOrder
  <2>. QED
    BY <2>4, <2>5
<1>8. CASE ~(p_wpos - p_rpos < B)
  <2>1. p_wpos' = p_wpos /\ p_wpos = p_rpos + B
    BY <1>1, <1>2, <1>8, SMT
  <2>2. p_wpos % B = p_rpos % B
    BY <1>1, <2>1, SlotAgain, Zenon
  <2>3. ASSUME NEW i \in p_rpos .. (p_wpos - 1) PROVE stdin_buffer'[i % B] >= i + 1
    <3>1. CASE i = p_rpos
      <4>1. typed + 1 >= p_rpos + 1
        BY <1>1, SMT
      <4>. QED
        BY <1>5, <2>2, <3>1, <4>1, Zenon
    <3>2. CASE i # p_rpos
      <4>1. i \in Nat /\ i < p_wpos /\ p_wpos - i < B
        BY <1>1, <2>1, <3>2, SMT
      <4>2. i % B # p_wpos % B
        BY <1>1, <4>1, SlotsDiffer, Zenon
      <4>. QED
        BY <1>3, <1>4, <1>5, <4>1, <4>2, Zenon
    <3>. QED
      BY <3>1, <3>2
  <2>4. typed' # p_wpos' /\ p_wpos' <= typed'
    BY <1>1, <1>2, <2>1, SMT
  <2>. QED
    BY <1>1, <1>2, <1>3, <2>1, <2>3, <2>4, Zenon DEF RingExact, InOrder
<1>. QED
  BY <1>7, <1>8

-----------------------------------------------------------------------------
(* The invariant and what follows from it.                                  *)

\* Every step keeps the invariant.
LEMMA NextIInv == IInv /\ [Next]_vars => IInv'
<1> SUFFICES ASSUME IInv, [Next]_vars PROVE IInv'
  OBVIOUS
<1>1. TypeOK' /\ RunPoolExact'
  BY NextType, NextPool
<1>2. CASE ReadLoop
  BY <1>1, <1>2, ReadLoopAsleep, ReadLoopRing, Zenon DEF IInv, Asleep
<1>3. CASE Key
  BY <1>1, <1>3, KeyAsleep, KeyRing, Zenon DEF IInv, Asleep
<1>4. ASSUME UNCHANGED <<ringVars, typed, got>> PROVE RingExact' /\ InOrder'
  BY <1>4, Zenon DEF IInv, ringVars, RingExact, InOrder
<1>5. CASE ReadWake
  <2>1. UNCHANGED <<ringVars, typed, got>>
    BY <1>5, Zenon DEF ReadWake
  <2>. QED
    BY <1>1, <1>4, <1>5, <2>1, ReadWakeAsleep, Zenon DEF IInv, Asleep
<1>6. CASE \/ \E len \in 1 .. MaxLen : Read(len)
           \/ \E p \in Readers : Kill(p)
           \/ TrapTail \/ do_exit \/ Tick \/ UNCHANGED vars
           \/ \E next \in Procs : Schedule(next)
  <2>1. UNCHANGED <<ringVars, typed, got>>
    BY <1>6, Zenon DEF Read, Kill, TrapTail, do_exit, Tick, Schedule, vars
  <2>. QED
    BY <1>1, <1>4, <1>6, <2>1, OtherAsleep, Zenon DEF IInv, Asleep
<1>. QED
  BY <1>2, <1>3, <1>5, <1>6, Zenon DEF Next

\* So it always holds.
LEMMA IInvCorrect == Spec => []IInv
  BY InitIInv, NextIInv, PTL DEF Spec

\* No reader sleeps beside a character, wherever the keyboard interrupt comes
\* between its look at the buffer and its schedule() (dev_stdin_read,
\* dev_stdin_write).
THEOREM NoSleepBesideCharCorrect == Spec => []NoSleepBesideChar
<1>1. IInv => NoSleepBesideChar
  BY DEF IInv
<1>. QED
  BY <1>1, IInvCorrect, PTL

\* The wait_t on a reader's stack is in the queue once, only between
\* wait_current_set and wait_current_del, and as long as the reader sleeps.
THEOREM WaitOnStackCorrect == Spec => []WaitOnStack
<1>1. IInv => WaitOnStack
  BY DEF IInv
<1>. QED
  BY <1>1, IInvCorrect, PTL

\* Characters come through once and in order until the buffer overflows, and
\* what it holds afterwards is never older than its position (dev_stdin_read,
\* dev_stdin_write).
THEOREM InOrderCorrect == Spec => []InOrder
<1>1. IInv => InOrder
  BY DEF IInv
<1>. QED
  BY <1>1, IInvCorrect, PTL
=============================================================================
