------------------------------- MODULE Dining -------------------------------
(***************************************************************************)
(* What the two dining philosopher programs of kern/sync/check_sync.c       *)
(* promise: a philosopher eats when it is hungry and no neighbour eats.     *)
(***************************************************************************)
EXTENDS Naturals

CONSTANT N                 \* the philosophers are 0 .. N - 1

VARIABLE phil              \* state_sema, state_condvar

Phils == 0 .. (N - 1)
LEFT(i) == (i + N - 1) % N
RIGHT(i) == (i + 1) % N

Init == phil = [i \in Phils |-> "THINKING"]

Hungry(i) ==
    /\ phil[i] = "THINKING"
    /\ phil' = [phil EXCEPT ![i] = "HUNGRY"]

Eat(i) ==
    /\ phil[i] = "HUNGRY"
    /\ phil[LEFT(i)] # "EATING"
    /\ phil[RIGHT(i)] # "EATING"
    /\ phil' = [phil EXCEPT ![i] = "EATING"]

Done(i) ==
    /\ phil[i] = "EATING"
    /\ phil' = [phil EXCEPT ![i] = "THINKING"]

Next == \E i \in Phils : Hungry(i) \/ Eat(i) \/ Done(i)

Spec == Init /\ [][Next]_phil
=============================================================================
