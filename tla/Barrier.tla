------------------------------ MODULE Barrier ------------------------------
(***************************************************************************)
(* The barrier of win_pthreads (pthread_barrier_init.c and _wait.c): a     *)
(* counter of the threads still to come and two semaphores used in turn.   *)
(* The semaphores are the counting semaphores module Semaphore shows them  *)
(* to be; ptw32_semwait, which the barrier waits with, cannot be cancelled.*)
(*                                                                         *)
(* The two heights are adjacent 4-byte words.  The Win64 build decrements  *)
(* the first with an 8-byte operation, which takes the second as its upper *)
(* half; a word is modelled modulo WordSize.                               *)
(***************************************************************************)
EXTENDS Integers, FiniteSets

CONSTANTS
  Threads,     \* the threads that call pthread_barrier_wait
  Height,      \* the count given to pthread_barrier_init
  Win64,       \* the decrement is an 8-byte operation
  WordSize,    \* the number of values of a 4-byte word, scaled down
  Rounds       \* bound on the calls of each thread

ASSUME ThreadsAssumption == IsFiniteSet(Threads)
ASSUME HeightAssumption  == Height \in 1 .. (WordSize - 1)
ASSUME Win64Assumption   == Win64 \in BOOLEAN
ASSUME BoundAssumption   == WordSize \in Nat /\ Rounds \in Nat

VARIABLES
  current,     \* b->nCurrentBarrierHeight
  initial,     \* b->nInitialBarrierHeight
  iStep,       \* b->iStep
  permits,     \* the two semaphores b->semBarrierBreeched
  pc,
  step,        \* the local variable step of each call
  arrived,     \* the decrements each thread has made
  passed,      \* the calls of each thread that have returned
  serial       \* how many calls returned PTHREAD_BARRIER_SERIAL_THREAD

vars == <<current, initial, iStep, permits, pc, step, arrived, passed, serial>>

Labels == {"idle", "decrement", "reset", "post", "wait", "cross"}

Init ==
  /\ current = Height /\ initial = Height
  /\ iStep = 0
  /\ permits = [s \in {0, 1} |-> 0]
  /\ pc      = [t \in Threads |-> "idle"]
  /\ step    = [t \in Threads |-> 0]
  /\ arrived = [t \in Threads |-> 0]
  /\ passed  = [t \in Threads |-> 0]
  /\ serial  = 0

Goto(t, from, to) ==
  /\ pc[t] = from
  /\ pc' = [pc EXCEPT ![t] = to]

ReadStep(t) ==
  /\ passed[t] < Rounds
  /\ Goto(t, "idle", "decrement")
  /\ step' = [step EXCEPT ![t] = iStep]
  /\ UNCHANGED <<current, initial, iStep, permits, arrived, passed, serial>>

(* One interlocked decrement, and the test of its result against 0. *)
DecrementWord ==
  /\ current' = (current - 1) % WordSize
  /\ UNCHANGED initial

DecrementDouble ==
  LET double == (initial * WordSize + current - 1) % (WordSize * WordSize) IN
  /\ current' = double % WordSize
  /\ initial' = double \div WordSize

Decrement(t) ==
  /\ IF Win64 THEN DecrementDouble ELSE DecrementWord
  /\ arrived' = [arrived EXCEPT ![t] = @ + 1]
  /\ LET isZero == current' = 0 /\ (Win64 => initial' = 0) IN
       \/ isZero /\ Goto(t, "decrement", "reset")
       \/ ~isZero /\ Goto(t, "decrement", "wait")
  /\ UNCHANGED <<iStep, permits, step, passed, serial>>

(* Mutant: the counter is not reset. *)
ResetForgotten(t) ==
  /\ Goto(t, "reset", "post")
  /\ UNCHANGED <<current, initial, iStep, permits, step, arrived, passed, serial>>

Reset(t) ==
  /\ current' = initial
  /\ Goto(t, "reset", "post")
  /\ UNCHANGED <<initial, iStep, permits, step, arrived, passed, serial>>

(* sem_post_multiple for the threads already here, if there are any. *)
PostAll(t) ==
  /\ permits' = [permits EXCEPT ![step[t]] = @ + (initial - 1)]
  /\ Goto(t, "post", "cross")
  /\ UNCHANGED <<current, initial, iStep, step, arrived, passed, serial>>

(* Mutant: the wait does not wait. *)
SemWaitUnchecked(t) ==
  /\ permits' = [permits EXCEPT ![step[t]] = @ - 1]
  /\ Goto(t, "wait", "cross")
  /\ UNCHANGED <<current, initial, iStep, step, arrived, passed, serial>>

SemWait(t) ==
  /\ permits[step[t]] > 0
  /\ permits' = [permits EXCEPT ![step[t]] = @ - 1]
  /\ Goto(t, "wait", "cross")
  /\ UNCHANGED <<current, initial, iStep, step, arrived, passed, serial>>

(* Mutant: the barrier stays on one semaphore. *)
CrossOnOneStone(t) ==
  /\ serial' = serial + 1
  /\ passed' = [passed EXCEPT ![t] = @ + 1]
  /\ Goto(t, "cross", "idle")
  /\ UNCHANGED <<current, initial, iStep, permits, step, arrived>>

(* The compare-and-swap of iStep, and the return. *)
Cross(t) ==
  /\ \/ iStep = step[t] /\ iStep' = 1 - step[t] /\ serial' = serial + 1
     \/ iStep # step[t] /\ UNCHANGED <<iStep, serial>>
  /\ passed' = [passed EXCEPT ![t] = @ + 1]
  /\ Goto(t, "cross", "idle")
  /\ UNCHANGED <<current, initial, permits, step, arrived>>

Step(t) == Decrement(t) \/ Reset(t) \/ PostAll(t) \/ SemWait(t) \/ Cross(t)

Next == \E t \in Threads : ReadStep(t) \/ Step(t)

Spec == Init /\ [][Next]_vars

(* A thread inside the call is scheduled, and a thread with calls left to   *)
(* make comes to the barrier again.                                         *)
Fairness == \A t \in Threads : WF_vars(Step(t)) /\ WF_vars(ReadStep(t))

LiveSpec == Spec /\ Fairness
----------------------------------------------------------------------------
TypeOK ==
  /\ {current, initial} \subseteq 0 .. (WordSize - 1)
  /\ iStep \in {0, 1}
  /\ permits \in [{0, 1} -> Nat]
  /\ pc \in [Threads -> Labels]
  /\ step \in [Threads -> {0, 1}]
  /\ arrived \in [Threads -> Nat]
  /\ passed \in [Threads -> Nat]
  /\ serial \in Nat

(* With exactly Height threads nobody is a whole round ahead: a thread that *)
(* has left k times has seen every other thread arrive k times.             *)
RoundsStayTogether ==
  \A t, u \in Threads : passed[t] <= arrived[u]

(* Each full barrier returns PTHREAD_BARRIER_SERIAL_THREAD once: between    *)
(* rounds there have been as many serial returns as rounds.                 *)
OneSerialPerRound ==
  (\A t \in Threads : pc[t] = "idle") => \A t \in Threads : serial = passed[t]

(* Every thread gets through all of its rounds. *)
AllRoundsPass == <>(\A t \in Threads : passed[t] = Rounds)
=============================================================================
