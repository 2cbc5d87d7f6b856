------------------------------- MODULE RWLock -------------------------------
(***************************************************************************)
(* The read-write lock of win_pthreads (pthread_rwlock_*.c).  A writer     *)
(* keeps two mutexes: mtxExclusiveAccess, which every arrival passes, and  *)
(* mtxSharedAccessCompleted, which readers pass on their way out.  Readers *)
(* that arrive and readers that leave are counted apart; a writer that     *)
(* finds readers turns the second counter negative and waits on a          *)
(* condition variable until the last of them brings it back to zero.       *)
(*                                                                         *)
(* A section under mtxSharedAccessCompleted is one action, as is an        *)
(* arrival of a reader, which is under mtxExclusiveAccess from end to end; *)
(* module Mutex shows that such sections exclude.  The condition variable  *)
(* is what module CondVar shows: a signal wakes a waiter, a wait may end   *)
(* without a signal, by cancellation or timeout, and has its mutex again.  *)
(*                                                                         *)
(* A client releases what it holds before it locks again, and destroys or  *)
(* initialises the lock only while no other thread begins an operation.    *)
(***************************************************************************)
EXTENDS Integers, FiniteSets

CONSTANTS
  Threads,      \* the threads that use the lock
  MaxShared,    \* INT_MAX
  NoThread      \* nobody holds a mutex

ASSUME ThreadsAssumption == IsFiniteSet(Threads) /\ NoThread \notin Threads
ASSUME SharedAssumption  == MaxShared \in Nat /\ Cardinality(Threads) < MaxShared

VARIABLES
  alive,        \* *rwlock is not NULL
  ex,           \* holder of mtxExclusiveAccess
  sac,          \* holder of mtxSharedAccessCompleted between actions
  nShared,      \* nSharedAccessCount
  nExcl,        \* nExclusiveAccessCount
  nCompleted,   \* nCompletedSharedAccessCount
  pc,           \* where each thread is inside a call
  held          \* what each thread was granted and has not given back

vars == <<alive, ex, sac, nShared, nExcl, nCompleted, pc, held>>
counts == <<nShared, nExcl, nCompleted>>

Labels == {"idle", "count", "wait", "woken", "leave", "shared", "exclusive",
           "freeEx", "destroy"}

Init ==
  /\ alive = TRUE
  /\ ex = NoThread
  /\ sac = NoThread
  /\ nShared = 0 /\ nExcl = 0 /\ nCompleted = 0
  /\ pc = [t \in Threads |-> "idle"]
  /\ held = [t \in Threads |-> "none"]

Goto(t, from, to) ==
  /\ pc[t] = from
  /\ pc' = [pc EXCEPT ![t] = to]

Grant(t, mode) == held' = [held EXCEPT ![t] = mode]

(* A thread comes to the lock: it must be past every writer. *)
Arrive(t) == alive /\ pc[t] = "idle" /\ held[t] = "none" /\ ex = NoThread

(***************************************************************************)
(* pthread_rwlock_rdlock, tryrdlock and timedrdlock.                       *)
(***************************************************************************)
(* Mutant: nobody takes the completed readers off at the limit. *)
ReadLockUnlimited(t) ==
  /\ Arrive(t)
  /\ nShared' = nShared + 1
  /\ Grant(t, "shared")
  /\ UNCHANGED <<alive, ex, sac, nExcl, nCompleted, pc>>

ReadLock(t) ==
  /\ Arrive(t)
  /\ IF nShared + 1 = MaxShared
       THEN nShared' = nShared + 1 - nCompleted /\ nCompleted' = 0
       ELSE nShared' = nShared + 1 /\ UNCHANGED nCompleted
  /\ Grant(t, "shared")
  /\ UNCHANGED <<alive, ex, sac, nExcl, pc>>

(***************************************************************************)
(* pthread_rwlock_wrlock and timedwrlock.                                  *)
(***************************************************************************)
WriteLock(t) ==
  /\ Arrive(t)
  /\ Goto(t, "idle", "count")
  /\ ex' = t
  /\ UNCHANGED <<alive, sac, counts, held>>

(* The readers that are still in, and the other counter once they are known. *)
Active  == IF nCompleted > 0 THEN nShared - nCompleted ELSE nShared
Settled == IF nCompleted > 0 THEN 0 ELSE nCompleted

(* The writer has the lock, with both mutexes, until it unlocks. *)
Exclude(t) ==
  /\ ex' = t
  /\ sac' = t
  /\ nExcl' = nExcl + 1
  /\ Grant(t, "exclusive")

CountReaders(t) ==
  /\ sac = NoThread
  /\ nExcl = 0
  /\ nShared' = Active
  /\ \/ /\ Active > 0
        /\ nCompleted' = -Active
        /\ Goto(t, "count", "wait")
        /\ UNCHANGED <<ex, sac, nExcl, held>>
     \/ /\ Active <= 0
        /\ nCompleted' = Settled
        /\ Goto(t, "count", "idle")
        /\ Exclude(t)
  /\ UNCHANGED alive

(* timedwrlock did not get mtxSharedAccessCompleted in time. *)
GiveUp(t) ==
  /\ Goto(t, "count", "idle")
  /\ ex' = NoThread
  /\ UNCHANGED <<alive, sac, counts, held>>

(* The wait on the condition variable ends without a signal; by timeout or  *)
(* cancellation.                                                            *)
WakeSpuriously(t) ==
  /\ Goto(t, "wait", "woken")
  /\ UNCHANGED <<alive, ex, sac, counts, held>>

EndWait(t) ==
  /\ Goto(t, "wait", "leave")
  /\ UNCHANGED <<alive, ex, sac, counts, held>>

Recheck(t) ==
  /\ sac = NoThread
  /\ \/ /\ nCompleted < 0
        /\ Goto(t, "woken", "wait")
        /\ UNCHANGED <<ex, sac, counts, held>>
     \/ /\ nCompleted >= 0
        /\ Goto(t, "woken", "idle")
        /\ nShared' = 0
        /\ UNCHANGED nCompleted
        /\ Exclude(t)
  /\ UNCHANGED alive

(* Mutant: the counter of completed readers stays negative. *)
CancelWrWaitHalf(t) ==
  /\ sac = NoThread
  /\ Goto(t, "leave", "idle")
  /\ nShared' = -nCompleted
  /\ ex' = NoThread
  /\ UNCHANGED <<alive, sac, nCompleted, nExcl, held>>

(* ptw32_rwlock_cancelwrwait, after a timeout or a cancellation. *)
CancelWrWait(t) ==
  /\ sac = NoThread
  /\ Goto(t, "leave", "idle")
  /\ nShared' = -nCompleted
  /\ nCompleted' = 0
  /\ ex' = NoThread
  /\ UNCHANGED <<alive, sac, nExcl, held>>

(* Mutant: tries without looking at the readers that have completed. *)
TryWriteLockUnsettled(t) ==
  /\ Arrive(t)
  /\ nExcl = 0
  /\ nCompleted >= 0
  /\ Exclude(t)
  /\ UNCHANGED <<alive, nShared, nCompleted, pc>>

TryWriteLock(t) ==
  /\ Arrive(t)
  /\ nExcl = 0
  /\ nShared' = Active
  /\ nCompleted' = Settled
  /\ \/ Active > 0 /\ UNCHANGED <<ex, sac, nExcl, held>>
     \/ Active <= 0 /\ Exclude(t)
  /\ UNCHANGED <<alive, pc>>

(***************************************************************************)
(* pthread_rwlock_unlock.  nExclusiveAccessCount, which tells a writer     *)
(* from a reader, is read without a lock.                                  *)
(***************************************************************************)
Unlock(t) ==
  /\ held[t] # "none"
  /\ Goto(t, "idle", IF nExcl = 0 THEN "shared" ELSE "exclusive")
  /\ UNCHANGED <<alive, ex, sac, counts, held>>

(* Mutant: the last reader does not signal. *)
UnlockSharedSilently(t) ==
  /\ sac = NoThread
  /\ Goto(t, "shared", "idle")
  /\ nCompleted' = nCompleted + 1
  /\ Grant(t, "none")
  /\ UNCHANGED <<alive, ex, sac, nShared, nExcl>>

UnlockShared(t) ==
  /\ sac = NoThread
  /\ pc[t] = "shared"
  /\ nCompleted' = nCompleted + 1
  /\ pc' = [u \in Threads |-> IF u = t THEN "idle"
                              ELSE IF nCompleted' = 0 /\ pc[u] = "wait" THEN "woken"
                              ELSE pc[u]]
  /\ Grant(t, "none")
  /\ UNCHANGED <<alive, ex, sac, nShared, nExcl>>

(* Mutant: mtxExclusiveAccess is given up before the count is set back. *)
UnlockExclusiveFirst(t) ==
  /\ Goto(t, "exclusive", "freeEx")
  /\ ex' = NoThread
  /\ Grant(t, "none")
  /\ UNCHANGED <<alive, sac, nExcl, nShared, nCompleted>>

UnlockExclusive(t) ==
  /\ Goto(t, "exclusive", "freeEx")
  /\ nExcl' = nExcl - 1
  /\ sac' = NoThread
  /\ Grant(t, "none")
  /\ UNCHANGED <<alive, ex, nShared, nCompleted>>

FreeEx(t) ==
  /\ Goto(t, "freeEx", "idle")
  /\ ex' = NoThread
  /\ UNCHANGED <<alive, sac, counts, held>>

(***************************************************************************)
(* pthread_rwlock_destroy and pthread_rwlock_init.                         *)
(***************************************************************************)
TryDestroy(t) ==
  /\ Arrive(t)
  /\ Goto(t, "idle", "destroy")
  /\ ex' = t
  /\ UNCHANGED <<alive, sac, counts, held>>

(* Mutant: only a writer keeps the lock from being destroyed. *)
DestroyUnderReaders(t) ==
  /\ sac = NoThread
  /\ Goto(t, "destroy", "idle")
  /\ alive' = (nExcl > 0)
  /\ ex' = NoThread
  /\ UNCHANGED <<sac, counts, held>>

(* Refused (EBUSY) while the lock is held. *)
Destroy(t) ==
  /\ sac = NoThread
  /\ Goto(t, "destroy", "idle")
  /\ alive' = (nExcl > 0 \/ nShared > nCompleted)
  /\ ex' = NoThread
  /\ UNCHANGED <<sac, counts, held>>

Create ==
  /\ ~alive
  /\ alive' = TRUE
  /\ nShared' = 0 /\ nExcl' = 0 /\ nCompleted' = 0
  /\ UNCHANGED <<ex, sac, pc, held>>

Step(t) ==
  \/ CountReaders(t) \/ Recheck(t) \/ CancelWrWait(t)
  \/ UnlockShared(t) \/ UnlockExclusive(t) \/ FreeEx(t)
  \/ Destroy(t)

Begin(t) ==
  ReadLock(t) \/ WriteLock(t) \/ TryWriteLock(t) \/ Unlock(t) \/ TryDestroy(t)

Next ==
  \/ \E t \in Threads : \/ Begin(t) \/ Step(t)
                        \/ GiveUp(t) \/ WakeSpuriously(t) \/ EndWait(t)
  \/ Create

Spec == Init /\ [][Next]_vars

(* Threads inside a call run on, and a client unlocks what it holds. *)
Fairness == \A t \in Threads : WF_vars(Step(t)) /\ WF_vars(Unlock(t))

LiveSpec == Spec /\ Fairness
----------------------------------------------------------------------------
Readers == {t \in Threads : held[t] = "shared"}
Writers == {t \in Threads : held[t] = "exclusive"}
Waiting == {"wait", "woken", "leave"}

TypeOK ==
  /\ alive \in BOOLEAN
  /\ ex \in Threads \cup {NoThread}
  /\ sac \in Threads \cup {NoThread}
  /\ nShared \in 0..(MaxShared - 1)
  /\ nExcl \in {0, 1}
  /\ nCompleted \in Int
  /\ pc \in [Threads -> Labels]
  /\ held \in [Threads -> {"none", "shared", "exclusive"}]

(* The two counters of readers, which are changed under different mutexes   *)
(* and settled against each other by whoever comes first, always tell how   *)
(* many readers are in: their difference, and while a writer waits what is  *)
(* left of the negative counter, however its wait ends.  A waiting writer   *)
(* has readers before it, the last of which will signal.                    *)
CountsMatch ==
  alive => /\ Cardinality(Readers) =
                IF \E t \in Threads : pc[t] \in Waiting THEN -nCompleted
                                                        ELSE nShared - nCompleted
           /\ \A t \in Threads : pc[t] = "wait" => nCompleted < 0

(* Nobody comes to the lock while nExclusiveAccessCount is set, so that the *)
(* branches which then return EBUSY with both mutexes locked                *)
(* (trywrlock.c:115-118) or count a second writer are never taken; and a    *)
(* reader that unlocks never takes itself for the writer.                   *)
ExclusiveIsAlone ==
  /\ (ex = NoThread \/ pc[ex] = "count") => nExcl = 0
  /\ \A t \in Threads : pc[t] \in {"shared", "exclusive"} => held[t] = pc[t]

(* A lock that was destroyed was held by nobody, and nobody was on the way  *)
(* out of it, waited for it or had one of its mutexes.                      *)
DestroyedIsUnused ==
  ~alive => /\ ex = NoThread /\ sac = NoThread
            /\ \A t \in Threads : pc[t] = "idle" /\ held[t] = "none"

(* The lock implements the readers-writer lock it promises to be.           *)
RWImpl == INSTANCE ReadersWriter WITH readers <- Readers, writers <- Writers
ImplementsReadersWriter == RWImpl!Spec

(* Readers cannot starve a writer: one that waits gets the lock, or leaves. *)
WriterGetsIn == \A t \in Threads : (pc[t] = "count") ~> (pc[t] = "idle")
=============================================================================
