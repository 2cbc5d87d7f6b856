----------------------------- MODULE Semaphore -----------------------------
(***************************************************************************)
(* The POSIX semaphore of win_pthreads (sem_*.c and ptw32_semwait.c), in   *)
(* the build without NEED_SEM: a counter `value' that goes negative by the *)
(* number of waiters, and a Windows semaphore the waiters block on.        *)
(*                                                                         *)
(* Every operation changes the counter inside s->lock, a mutex (module     *)
(* Mutex shows that it excludes), so a critical section is one action.     *)
(* A waiter blocks outside the lock, and a waiter that is cancelled or     *)
(* times out takes the lock again to clean up: a post may come first.      *)
(*                                                                         *)
(* A client may start any operation at any time, except that it destroys   *)
(* or initialises the semaphore only while no other thread is inside a     *)
(* call that has not been refused (EBUSY).                                 *)
(***************************************************************************)
EXTENDS Integers, FiniteSets

CONSTANTS
  Threads,      \* the threads that use the semaphore
  Initial,      \* the value given to sem_init
  MaxValue,     \* SEM_VALUE_MAX
  Counts,       \* the counts passed to sem_post_multiple
  CancelIn      \* the wait calls during which a thread may be cancelled

ASSUME ThreadsAssumption == IsFiniteSet(Threads)
ASSUME ValueAssumption   == MaxValue \in Nat /\ Initial \in 0..MaxValue
ASSUME CountsAssumption  == Counts \subseteq Nat \ {0}
ASSUME CancelAssumption  == CancelIn \subseteq {"wait", "timedwait"}

VARIABLES
  alive,        \* *sem is not NULL
  value,        \* s->value
  tokens,       \* count of the Windows semaphore s->sem
  pc,           \* where each thread is inside a wait
  call          \* which wait a thread is in, "wait" if none

vars == <<alive, value, tokens, pc, call>>

Calls  == {"wait", "timedwait", "semwait"}
Labels == {"idle", "block", "cancelled", "timedout"}

Waiters == {t \in Threads : pc[t] # "idle"}

Init ==
  /\ alive = TRUE
  /\ value = Initial
  /\ tokens = 0
  /\ pc   = [t \in Threads |-> "idle"]
  /\ call = [t \in Threads |-> "wait"]

Goto(t, from, to) ==
  /\ pc[t] = from
  /\ pc' = [pc EXCEPT ![t] = to]

(* The wait is over. *)
Return(t, from) ==
  /\ Goto(t, from, "idle")
  /\ call' = [call EXCEPT ![t] = "wait"]

(***************************************************************************)
(* sem_wait, sem_timedwait and the uncancelable ptw32_semwait.             *)
(***************************************************************************)
Wait(t, c) ==
  /\ alive
  /\ value' = value - 1
  /\ \/ value' >= 0 /\ pc[t] = "idle" /\ UNCHANGED <<pc, call>>
     \/ value' < 0 /\ Goto(t, "idle", "block") /\ call' = [call EXCEPT ![t] = c]
  /\ UNCHANGED <<alive, tokens>>

Wake(t) ==
  /\ tokens > 0
  /\ tokens' = tokens - 1
  /\ Return(t, "block")
  /\ UNCHANGED <<alive, value>>

(* When the Windows semaphore and the cancel event are both signalled the  *)
(* semaphore wins, so a wait ends by cancellation only without a token.    *)
Cancel(t) ==
  /\ call[t] \in CancelIn
  /\ tokens = 0
  /\ Goto(t, "block", "cancelled")
  /\ UNCHANGED <<alive, value, tokens, call>>

TimeOut(t) ==
  /\ call[t] = "timedwait"
  /\ tokens = 0
  /\ Goto(t, "block", "timedout")
  /\ UNCHANGED <<alive, value, tokens, call>>

(* Mutant: the clean-up does not look for a post that came meanwhile. *)
LeaveOnly == value' = value + 1 /\ UNCHANGED tokens

(* A post that came in the meantime is consumed, otherwise the thread is   *)
(* no longer counted as waiting.                                           *)
ConsumeOrLeave ==
  \/ tokens > 0 /\ tokens' = tokens - 1 /\ UNCHANGED value
  \/ tokens = 0 /\ value' = value + 1 /\ UNCHANGED tokens

(* ptw32_sem_timedwait_cleanup; a timed-out wait that finds a token returns *)
(* 0 after all.                                                             *)
TimedCleanup(t) ==
  /\ call[t] = "timedwait"
  /\ \E from \in {"cancelled", "timedout"} : Return(t, from)
  /\ ConsumeOrLeave
  /\ UNCHANGED alive

(* ptw32_sem_wait_cleanup is handed the semaphore itself where it expects a *)
(* pointer to the handle: what it compares with NULL is the first word of   *)
(* the structure, the value.                                                *)
WaitCleanup(t) ==
  /\ call[t] = "wait"
  /\ Return(t, "cancelled")
  /\ \/ value # 0 /\ ConsumeOrLeave
     \/ value = 0 /\ UNCHANGED <<value, tokens>>
  /\ UNCHANGED alive

TryWait(t) ==
  /\ alive
  /\ pc[t] = "idle"
  /\ value > 0
  /\ value' = value - 1
  /\ UNCHANGED <<alive, tokens, pc, call>>

(* Mutants: every post releases as many tokens as it adds to the counter; a *)
(* multiple post wakes one thread.                                          *)
AddReleasingAll(n) ==
  /\ alive
  /\ value + n <= MaxValue
  /\ tokens + n <= MaxValue
  /\ value' = value + n
  /\ tokens' = tokens + n

AddWakingOne(n) ==
  LET release == IF value < 0 THEN 1 ELSE 0 IN
  /\ alive
  /\ value + n <= MaxValue
  /\ tokens + release <= MaxValue
  /\ value' = value + n
  /\ tokens' = tokens + release

(***************************************************************************)
(* sem_post and sem_post_multiple.  The Windows semaphore has the maximum  *)
(* count MaxValue; a release beyond it fails and the counter is restored.  *)
(***************************************************************************)
Add(n) ==
  LET waiters == IF value < 0 THEN -value ELSE 0
      release == IF waiters <= n THEN waiters ELSE n
  IN
  /\ alive
  /\ value + n <= MaxValue
  /\ tokens + release <= MaxValue
  /\ value' = value + n
  /\ tokens' = tokens + release

Post(t) ==
  /\ pc[t] = "idle"
  /\ Add(1)
  /\ UNCHANGED <<alive, pc, call>>

PostMultiple(t, n) ==
  /\ pc[t] = "idle"
  /\ Add(n)
  /\ UNCHANGED <<alive, pc, call>>

(***************************************************************************)
(* sem_destroy, refused (EBUSY) while the counter is negative, and         *)
(* sem_init.                                                               *)
(***************************************************************************)
Destroy ==
  /\ alive
  /\ Waiters = {}
  /\ value >= 0
  /\ alive' = FALSE
  /\ value' = MaxValue
  /\ UNCHANGED <<tokens, pc, call>>

Create ==
  /\ ~alive
  /\ alive' = TRUE
  /\ value' = Initial
  /\ tokens' = 0
  /\ UNCHANGED <<pc, call>>

Step(t) == Wake(t) \/ Cancel(t) \/ TimeOut(t) \/ TimedCleanup(t) \/ WaitCleanup(t)

Next ==
  \/ \E t \in Threads : \/ \E c \in Calls : Wait(t, c)
                        \/ TryWait(t)
                        \/ Post(t)
                        \/ \E n \in Counts : PostMultiple(t, n)
                        \/ Step(t)
  \/ Destroy
  \/ Create

Spec == Init /\ [][Next]_vars

(* A waiter the kernel can release is released, and one that has left the  *)
(* wait runs its clean-up.                                                 *)
Fairness ==
  \A t \in Threads : WF_vars(Wake(t)) /\ WF_vars(TimedCleanup(t) \/ WaitCleanup(t))

LiveSpec == Spec /\ Fairness
----------------------------------------------------------------------------
TypeOK ==
  /\ alive \in BOOLEAN
  /\ value \in Int /\ value <= MaxValue
  /\ tokens \in Nat
  /\ pc \in [Threads -> Labels]
  /\ call \in [Threads -> Calls]

(* No post is lost to a waiter, however the waits beside it end: the posts  *)
(* still due (-value) and the tokens at hand cover everybody who waits.     *)
NoStrandedWaiter ==
  alive => tokens + (IF value < 0 THEN -value ELSE 0) >= Cardinality(Waiters)

(* Permits that posts gave and no wait has taken: the counter's own, and    *)
(* the tokens, each of which a post gave to a waiter that has yet to come   *)
(* for it.                                                                  *)
Permits == IF ~alive THEN Initial
           ELSE tokens + (IF value > 0 THEN value ELSE 0)

(* The semaphore implements the counting semaphore it promises to be:       *)
(* every permit is given by a post and taken once, whichever waits end by   *)
(* timeout or cancellation while posts come, also where the clean-up of     *)
(* sem_wait leaves counter and waiters disagreeing.                         *)
SemaphoreImpl == INSTANCE CountingSemaphore WITH permits <- Permits
ImplementsSemaphore == SemaphoreImpl!Spec

(* The end of a wait makes no permit: who leaves takes back only that he    *)
(* was counted as a waiter, and if a post came first, takes that.           *)
WaitsMakeNoPermits ==
  [][(\E t \in Threads : Step(t)) => Permits' <= Permits]_vars

(* Where only timed waits are cancelled, whose clean-up is right, counter   *)
(* and Windows semaphore agree: a negative value counts the waiters no post *)
(* has reached, and each other waiter has its token, also on its way to the *)
(* clean-up.                                                                *)
Conservation ==
  alive => IF value < 0 THEN tokens + (-value) = Cardinality(Waiters)
                        ELSE tokens = Cardinality(Waiters)

(* Once there have been posts enough for every waiter, a blocked thread     *)
(* comes back, unless a new wait takes the counter below zero again.        *)
PostedWaiterReturns ==
  \A t \in Threads :
    (pc[t] = "block" /\ value >= 0) ~> (pc[t] # "block" \/ value < 0)
=============================================================================
