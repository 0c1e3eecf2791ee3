----------------------------- MODULE TimerList ------------------------------
(***************************************************************************)
(* The timer list of kern/schedule/sched.c: a list in order of expiry in    *)
(* which each timer keeps only the ticks between the expiry of the timer    *)
(* before it and its own, so that a tick changes nothing but the head.      *)
(* It implements Timers: the ticks left of a timer are the sum of the       *)
(* fields from the head up to it.                                           *)
(***************************************************************************)
EXTENDS Integers, Sequences, SequencesExt

CONSTANTS Owners, MaxSleep

ASSUME TimerListAssumption == MaxSleep \in Nat \ {0}

VARIABLES
    timer_list,   \* the owners of the armed timers, in list order
    expires,      \* timer->expires of each owner's timer
    fired         \* the processes the last run_timer_list woke

timer_vars == <<timer_list, expires, fired>>

TimerTypeOK ==
    /\ timer_list \in Seq(Owners)
    /\ \A i, j \in 1 .. Len(timer_list) : timer_list[i] = timer_list[j] => i = j
    /\ expires \in [Owners -> Nat]
    /\ fired \subseteq Owners

TimerInit ==
    /\ timer_list = <<>>
    /\ expires = [p \in Owners |-> 0]
    /\ fired = {}

Armed == {timer_list[i] : i \in 1 .. Len(timer_list)}

\* Ticks before the n-th timer of the list fires.
Due(list, exp) ==
    LET due[n \in 0 .. Len(list)] == IF n = 0 THEN 0 ELSE due[n - 1] + exp[list[n]]
    IN  due

-----------------------------------------------------------------------------
\* Fault: the timer behind a new one keeps the ticks it had.
add_timer_keeps(p, time) ==
    LET due == Due(timer_list, expires)
        n   == Cardinality({i \in 1 .. Len(timer_list) : due[i] <= time})
    IN  /\ p \notin Armed
        /\ timer_list' = InsertAt(timer_list, n + 1, p)
        /\ expires' = [expires EXCEPT ![p] = time - due[n]]
        /\ fired' = {}

\* add_timer: the walk passes the n timers that expire no later than the new
\* one, taking their ticks off its own; the timer it stops at keeps what is
\* left of its ticks.
add_timer(p, time) ==
    LET due == Due(timer_list, expires)
        n   == Cardinality({i \in 1 .. Len(timer_list) : due[i] <= time})
    IN  /\ p \notin Armed
        /\ timer_list' = InsertAt(timer_list, n + 1, p)
        /\ expires' = [q \in Owners |->
                         CASE q = p -> time - due[n]
                           [] n < Len(timer_list) /\ q = timer_list[n + 1]
                              -> expires[q] - (time - due[n])
                           [] OTHER -> expires[q]]
        /\ fired' = {}

\* del_timer, which does nothing when the timer is not in the list; the timer
\* behind it inherits its ticks.
del_timer(p) ==
    /\ IF p \in Armed
       THEN LET i == CHOOSE k \in 1 .. Len(timer_list) : timer_list[k] = p
            IN  /\ timer_list' = RemoveAt(timer_list, i)
                /\ expires' = IF i < Len(timer_list)
                              THEN [expires EXCEPT ![timer_list[i + 1]] = @ + expires[p]]
                              ELSE expires
       ELSE UNCHANGED <<timer_list, expires>>
    /\ fired' = {}

\* How many timers run_timer_list takes off the list: those at its front that
\* have no ticks left.
Expired(exp) ==
    Cardinality({i \in 1 .. Len(timer_list) : \A j \in 1 .. i : exp[timer_list[j]] = 0})

\* run_timer_list up to the call of sched_class_proc_tick.
run_timer_list ==
    LET exp == IF timer_list = <<>> THEN expires
               ELSE [expires EXCEPT ![Head(timer_list)] = @ - 1]
        n   == Expired(exp)
    IN  /\ expires' = exp
        /\ fired' = {timer_list[i] : i \in 1 .. n}
        /\ timer_list' = SubSeq(timer_list, n + 1, Len(timer_list))

TimerNext ==
    \/ \E p \in Owners, time \in 1 .. MaxSleep : add_timer(p, time)
    \/ \E p \in Owners : del_timer(p)
    \/ run_timer_list

TimerSpec == TimerInit /\ [][TimerNext]_timer_vars

-----------------------------------------------------------------------------
\* The ticks left of the timer of p.
Remaining(p) ==
    IF p \in Armed
    THEN Due(timer_list, expires)[CHOOSE k \in 1 .. Len(timer_list) : timer_list[k] = p]
    ELSE 0

AbstractTimers == INSTANCE Timers WITH Procs <- Owners, remaining <- [p \in Owners |-> Remaining(p)]

\* Every timer fires at its tick, whatever was armed and deleted in between:
\* the delta list implements Timers.
ImplementsTimers == AbstractTimers!Spec
=============================================================================
