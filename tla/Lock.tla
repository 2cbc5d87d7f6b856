-------------------------------- MODULE Lock --------------------------------
(***************************************************************************)
(* What a pthread_mutex_t promises its clients, whatever its kind: one     *)
(* thread at a time holds it, a thread that holds it may take it again     *)
(* (RECURSIVE only, which the implementation decides), and each unlock     *)
(* undoes exactly one acquisition.                                         *)
(***************************************************************************)
EXTENDS Integers

CONSTANT Threads

VARIABLE held    \* the acquisitions each thread has made and not undone

Init == held = [t \in Threads |-> 0]

Acquire(t) ==
  /\ \A u \in Threads \ {t} : held[u] = 0
  /\ held' = [held EXCEPT ![t] = @ + 1]

Release(t) ==
  /\ held[t] > 0
  /\ held' = [held EXCEPT ![t] = @ - 1]

Next == \E t \in Threads : Acquire(t) \/ Release(t)

Spec == Init /\ [][Next]_held
=============================================================================
