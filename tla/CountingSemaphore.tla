------------------------- MODULE CountingSemaphore -------------------------
(***************************************************************************)
(* What a POSIX semaphore promises: permits that posts add and that waits  *)
(* take one at a time, never below zero.                                   *)
(***************************************************************************)
EXTENDS Integers

CONSTANTS
  Initial,      \* the value sem_init gives the semaphore
  Counts        \* how many permits a post of several gives

VARIABLE permits

Init == permits = Initial

Take == permits > 0 /\ permits' = permits - 1

Post == \E n \in Counts \cup {1} : permits' = permits + n

Reinit == permits' = Initial

Next == Take \/ Post \/ Reinit

Spec == Init /\ [][Next]_permits
=============================================================================
