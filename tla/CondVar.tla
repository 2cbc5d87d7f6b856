------------------------------ MODULE CondVar ------------------------------
(***************************************************************************)
(* The condition variable of win_pthreads (pthread_cond_wait.c, _signal.c, *)
(* _destroy.c, _init.c) with one mutex of its clients.  It is built from   *)
(* two semaphores and a mutex, and so is the model: the gate semBlockLock  *)
(* and the queue semBlockQueue are instances of module Semaphore, with     *)
(* their cancelled and timed-out waits; the clients' mutex and the inner   *)
(* mtxUnblockLock are what module Lock says a mutex is.                    *)
(*                                                                         *)
(* A waiter passes the gate to be counted, releases the mutex and waits in *)
(* the queue.  A signal closes the gate and makes waiters `to unblock';    *)
(* the last of these to leave the queue opens the gate again.  A waiter    *)
(* that leaves the queue while nobody is to be unblocked is `gone'.        *)
(*                                                                         *)
(* A section that holds mtxUnblockLock throughout is one action.  Two of   *)
(* them wait for the gate inside, and only these leave the lock held.      *)
(*                                                                         *)
(* Clients wait with the mutex, signal with or without it, and try to      *)
(* destroy the condition variable with the mutex.  A signal may race with  *)
(* that; only one that is still on its way when it succeeds is excluded.   *)
(***************************************************************************)
EXTENDS Integers, FiniteSets

CONSTANTS
  Threads,           \* the threads that use the condition variable
  WaitingThreads,    \* those that wait
  RequestingThreads, \* those that signal, broadcast and destroy
  Nobody,            \* the owner of a free mutex
  GoneMax,           \* INT_MAX/2, the count at which gone waiters are settled
  MaxValue           \* SEM_VALUE_MAX

ASSUME ThreadsAssumption == IsFiniteSet(Threads) /\ Nobody \notin Threads
ASSUME RolesAssumption   == WaitingThreads \subseteq Threads /\ RequestingThreads \subseteq Threads
ASSUME BoundsAssumption  == GoneMax \in Nat \ {0} /\ MaxValue \in Nat \ {0}

VARIABLES
  alive,           \* *cond is not NULL
  mutex,           \* owner of the clients' mutex
  guard,           \* owner of cv->mtxUnblockLock, while it waits for the gate
  blocked,         \* cv->nWaitersBlocked
  gone,            \* cv->nWaitersGone
  toUnblock,       \* cv->nWaitersToUnblock
  pc,              \* where each thread is inside a call
  signals,         \* nSignalsToIssue of each signalling thread
  all,             \* unblockAll of each signalling thread
  cancelled,       \* the threads that are being cancelled
  gateValue, gateTokens, gatePc, gateCall,      \* cv->semBlockLock
  queueValue, queueTokens, queuePc, queueCall  \* cv->semBlockQueue

gateVars  == <<gateValue, gateTokens, gatePc, gateCall>>
queueVars == <<queueValue, queueTokens, queuePc, queueCall>>
counts    == <<blocked, gone, toUnblock>>
request   == <<signals, all>>
vars == <<alive, mutex, guard, counts, pc, request, cancelled, gateVars, queueVars>>

Gate == INSTANCE Semaphore WITH
          value <- gateValue, tokens <- gateTokens, pc <- gatePc, call <- gateCall,
          Initial <- 1, Counts <- {}, CancelIn <- {"wait"}

Queue == INSTANCE Semaphore WITH
          value <- queueValue, tokens <- queueTokens, pc <- queuePc,
          call <- queueCall,
          Initial <- 0, Counts <- Nat \ {0}, CancelIn <- {"timedwait"}

Labels == {"idle", "enter", "admit", "release", "block", "sleep", "woken", "left",
           "drain", "reopen", "relock", "handler", "close", "post", "destroy"}

(* pthread_cond_init: the gate is open and the queue is empty. *)
Init ==
  /\ Gate!Init
  /\ Queue!Init
  /\ mutex = Nobody /\ guard = Nobody
  /\ blocked = 0 /\ gone = 0 /\ toUnblock = 0
  /\ pc = [t \in Threads |-> "idle"]
  /\ signals = [t \in Threads |-> 0]
  /\ all = [t \in Threads |-> FALSE]
  /\ cancelled = {}

Goto(t, from, to) ==
  /\ pc[t] = from
  /\ pc' = [pc EXCEPT ![t] = to]

(* A wait for the gate is over. *)
AtGate(t, label) == pc[t] = label /\ gatePc[t] = "idle"

(***************************************************************************)
(* The clients' mutex.                                                     *)
(***************************************************************************)
LockMutex(t) ==
  /\ pc[t] = "idle"
  /\ mutex = Nobody
  /\ mutex' = t
  /\ UNCHANGED <<alive, guard, counts, pc, request, cancelled, gateVars, queueVars>>

UnlockMutex(t) ==
  /\ pc[t] = "idle"
  /\ mutex = t
  /\ mutex' = Nobody
  /\ UNCHANGED <<alive, guard, counts, pc, request, cancelled, gateVars, queueVars>>

(***************************************************************************)
(* ptw32_cond_timedwait: through the gate to be counted, then the queue.   *)
(***************************************************************************)
Wait(t) ==
  /\ t \in WaitingThreads
  /\ mutex = t
  /\ Goto(t, "idle", "enter")
  /\ Gate!Wait(t, "wait")
  /\ UNCHANGED <<mutex, guard, counts, request, cancelled, queueVars>>

GateStep(t) ==
  /\ Gate!Wake(t) \/ Gate!Cancel(t)
  /\ UNCHANGED <<mutex, guard, counts, pc, request, cancelled, queueVars>>

(* A thread cancelled at the gate ends there; its handlers free the mutex. *)
GateCleanup(t) ==
  /\ Gate!WaitCleanup(t)
  /\ Goto(t, "enter", "handler")
  /\ UNCHANGED <<mutex, guard, counts, request, cancelled, queueVars>>

Count(t) ==
  /\ AtGate(t, "enter")
  /\ blocked' = blocked + 1
  /\ Goto(t, "enter", "admit")
  /\ UNCHANGED <<alive, mutex, guard, gone, toUnblock, request, cancelled, gateVars, queueVars>>

Admit(t) ==
  /\ Goto(t, "admit", "release")
  /\ Gate!Post(t)
  /\ UNCHANGED <<mutex, guard, counts, request, cancelled, queueVars>>

Release(t) ==
  /\ Goto(t, "release", "block")
  /\ mutex' = Nobody
  /\ UNCHANGED <<alive, guard, counts, request, cancelled, gateVars, queueVars>>

Block(t) ==
  /\ pc[t] = "block"
  /\ Queue!Wait(t, "timedwait")
  /\ pc' = [pc EXCEPT ![t] = IF queueValue' >= 0 THEN "woken" ELSE "sleep"]
  /\ UNCHANGED <<mutex, guard, counts, request, cancelled, gateVars>>

(* sem_timedwait begins with a test for cancellation, before it has touched *)
(* the queue: a wake-up sent to this waiter stays there.  Bound: no second  *)
(* one is left unused.                                                      *)
CancelEarly(t) ==
  /\ Goto(t, "block", "left")
  /\ queueValue <= 0
  /\ cancelled' = cancelled \cup {t}
  /\ UNCHANGED <<alive, mutex, guard, counts, request, gateVars, queueVars>>

QueueWake(t) ==
  /\ Queue!Wake(t)
  /\ Goto(t, "sleep", "woken")
  /\ UNCHANGED <<mutex, guard, counts, request, cancelled, gateVars>>

QueueEnd(t) ==
  /\ \/ Queue!TimeOut(t) /\ UNCHANGED cancelled
     \/ Queue!Cancel(t) /\ cancelled' = cancelled \cup {t}
  /\ UNCHANGED <<mutex, guard, counts, pc, request, gateVars>>

(* A wait that timed out or was cancelled may find a token after all. *)
QueueCleanup(t) ==
  /\ Queue!TimedCleanup(t)
  /\ pc' = [pc EXCEPT ![t] = IF queueTokens > 0 THEN "woken" ELSE "left"]
  /\ UNCHANGED <<mutex, guard, counts, request, cancelled, gateVars>>

(***************************************************************************)
(* ptw32_cond_wait_cleanup, run however the wait ended.                    *)
(***************************************************************************)
(* Whoever leaves holds mtxUnblockLock for a moment. *)
Leaving(t) == pc[t] \in {"woken", "left"} /\ guard = Nobody

Retract(t) ==
  /\ Leaving(t)
  /\ toUnblock # 0
  /\ toUnblock' = toUnblock - 1
  /\ pc' = [pc EXCEPT ![t] = IF toUnblock = 1 THEN "reopen" ELSE "relock"]
  /\ UNCHANGED <<alive, mutex, guard, blocked, gone, request, cancelled, gateVars, queueVars>>

(* Mutant: a waiter that nobody signalled is not recorded. *)
LeaveUnrecorded(t) ==
  /\ Leaving(t)
  /\ toUnblock = 0
  /\ pc' = [pc EXCEPT ![t] = "relock"]
  /\ UNCHANGED <<alive, mutex, guard, counts, request, cancelled, gateVars, queueVars>>

Leave(t) ==
  /\ Leaving(t)
  /\ toUnblock = 0
  /\ gone' = gone + 1
  /\ \/ /\ gone' # GoneMax
        /\ pc' = [pc EXCEPT ![t] = "relock"]
        /\ UNCHANGED <<alive, guard, gateVars>>
     \/ /\ gone' = GoneMax
        /\ pc' = [pc EXCEPT ![t] = "drain"]
        /\ guard' = t
        /\ Gate!Wait(t, "semwait")
  /\ UNCHANGED <<mutex, blocked, toUnblock, request, cancelled, queueVars>>

Drain(t) ==
  /\ AtGate(t, "drain")
  /\ blocked' = blocked - gone
  /\ gone' = 0
  /\ Gate!Post(t)
  /\ guard' = Nobody
  /\ Goto(t, "drain", "relock")
  /\ UNCHANGED <<mutex, toUnblock, request, cancelled, queueVars>>

Reopen(t) ==
  /\ Goto(t, "reopen", "relock")
  /\ Gate!Post(t)
  /\ UNCHANGED <<mutex, guard, counts, request, cancelled, queueVars>>

Relock(t) ==
  /\ pc[t] = "relock"
  /\ mutex = Nobody
  /\ mutex' = t
  /\ pc' = [pc EXCEPT ![t] = IF t \in cancelled THEN "handler" ELSE "idle"]
  /\ UNCHANGED <<alive, guard, counts, request, cancelled, gateVars, queueVars>>

(* The handlers of a cancelled thread free the mutex; the thread is gone,  *)
(* and another may take its place.                                         *)
Handler(t) ==
  /\ Goto(t, "handler", "idle")
  /\ mutex' = Nobody
  /\ cancelled' = cancelled \ {t}
  /\ UNCHANGED <<alive, guard, counts, request, gateVars, queueVars>>

(***************************************************************************)
(* ptw32_cond_unblock: signal (one waiter) and broadcast (all).            *)
(***************************************************************************)
Signalling == \E u \in Threads : pc[u] \in {"close", "post"}

Request(t) ==
  /\ t \in RequestingThreads
  /\ alive
  /\ pc[t] = "idle"
  /\ guard = Nobody

(* The gate is closed already: some of the counted waiters more. *)
UnblockMore(t, a) ==
  LET n == IF a THEN blocked ELSE 1 IN
  /\ Request(t)
  /\ toUnblock # 0
  /\ blocked # 0
  /\ toUnblock' = toUnblock + n
  /\ blocked' = blocked - n
  /\ signals' = [signals EXCEPT ![t] = n]
  /\ Goto(t, "idle", "post")
  /\ UNCHANGED <<alive, mutex, guard, gone, all, cancelled, gateVars, queueVars>>

CloseGate(t, a) ==
  /\ Request(t)
  /\ toUnblock = 0
  /\ blocked > gone
  /\ guard' = t
  /\ all' = [all EXCEPT ![t] = a]
  /\ Goto(t, "idle", "close")
  /\ Gate!Wait(t, "semwait")
  /\ UNCHANGED <<mutex, counts, signals, cancelled, queueVars>>

Unblock(t) ==
  LET waiting == blocked - gone
      n == IF all[t] THEN waiting ELSE 1
  IN
  /\ AtGate(t, "close")
  /\ toUnblock' = n
  /\ blocked' = waiting - n
  /\ gone' = 0
  /\ guard' = Nobody
  /\ signals' = [signals EXCEPT ![t] = n]
  /\ all' = [all EXCEPT ![t] = FALSE]
  /\ Goto(t, "close", "post")
  /\ UNCHANGED <<alive, mutex, cancelled, gateVars, queueVars>>

(* Mutant: a broadcast wakes one waiter. *)
PostQueueOnce(t) ==
  /\ Queue!Add(1)
  /\ signals' = [signals EXCEPT ![t] = 0]
  /\ Goto(t, "post", "idle")
  /\ UNCHANGED <<alive, mutex, guard, counts, all, cancelled, gateVars, queuePc, queueCall>>

PostQueue(t) ==
  /\ Queue!Add(signals[t])
  /\ signals' = [signals EXCEPT ![t] = 0]
  /\ Goto(t, "post", "idle")
  /\ UNCHANGED <<alive, mutex, guard, counts, all, cancelled, gateVars, queuePc, queueCall>>

(***************************************************************************)
(* pthread_cond_destroy, and pthread_cond_init of what was destroyed.      *)
(***************************************************************************)
TryDestroy(t) ==
  /\ t \in RequestingThreads
  /\ mutex = t
  /\ Goto(t, "idle", "destroy")
  /\ Gate!Wait(t, "semwait")
  /\ UNCHANGED <<mutex, guard, counts, request, cancelled, queueVars>>

(* Mutant: a destroyer that is refused keeps the gate. *)
DestroyKeeping(t) ==
  /\ AtGate(t, "destroy")
  /\ guard # Nobody \/ blocked > gone
  /\ Goto(t, "destroy", "idle")
  /\ UNCHANGED <<alive, mutex, guard, counts, request, cancelled, gateVars, queueVars>>

(* Mutant: a destroyer that finds mtxUnblockLock taken tries again, with   *)
(* the gate in hand.                                                       *)
DestroyRetrying(t) ==
  /\ AtGate(t, "destroy")
  /\ \/ guard # Nobody /\ UNCHANGED vars
     \/ /\ guard = Nobody
        /\ blocked > gone
        /\ Gate!Post(t)
        /\ Goto(t, "destroy", "idle")
        /\ UNCHANGED <<mutex, guard, counts, request, cancelled, queueVars>>

(* The lock is tried, not waited for, so a thread in a section that is one *)
(* action here may also refuse the destroyer.                              *)
DestroyBusy(t) ==
  /\ AtGate(t, "destroy")
  /\ \/ guard # Nobody
     \/ blocked > gone
     \/ \E u \in Threads : pc[u] \in {"woken", "left"}
  /\ Gate!Post(t)
  /\ Goto(t, "destroy", "idle")
  /\ UNCHANGED <<mutex, guard, counts, request, cancelled, queueVars>>

(* Mutant: waiters do not keep the condition variable alive. *)
DestroyInUse(t) ==
  /\ AtGate(t, "destroy")
  /\ guard = Nobody
  /\ ~Signalling
  /\ alive' = FALSE
  /\ Goto(t, "destroy", "idle")
  /\ UNCHANGED <<mutex, guard, counts, request, cancelled, gateVars, queueVars>>

Destroy(t) ==
  /\ AtGate(t, "destroy")
  /\ guard = Nobody
  /\ blocked <= gone
  /\ ~Signalling
  /\ alive' = FALSE
  /\ Goto(t, "destroy", "idle")
  /\ UNCHANGED <<mutex, guard, counts, request, cancelled, gateVars, queueVars>>

Create ==
  /\ \A t \in Threads : pc[t] = "idle"
  /\ Gate!Create
  /\ Queue!Create
  /\ blocked' = 0 /\ gone' = 0
  /\ UNCHANGED <<mutex, guard, toUnblock, pc, request, cancelled>>

----------------------------------------------------------------------------
Client(t) ==
  \/ LockMutex(t) \/ UnlockMutex(t) \/ Wait(t) \/ TryDestroy(t)
  \/ \E a \in BOOLEAN : UnblockMore(t, a) \/ CloseGate(t, a)

Step(t) ==
  \/ Count(t) \/ Admit(t) \/ Release(t) \/ Block(t) \/ QueueWake(t) \/ QueueCleanup(t)
  \/ GateCleanup(t) \/ Retract(t) \/ Leave(t) \/ Drain(t) \/ Reopen(t) \/ Relock(t)
  \/ Handler(t) \/ Unblock(t) \/ PostQueue(t) \/ DestroyBusy(t) \/ Destroy(t)

Next == Create \/ \E t \in Threads : Client(t) \/ Step(t) \/ GateStep(t) \/ QueueEnd(t)
                                         \/ CancelEarly(t)

Spec == Init /\ [][Next]_vars

(* A thread inside a call is scheduled.  The Windows semaphore hands each  *)
(* token to a thread that waits, so nobody is overtaken at the gate for    *)
(* ever, nor at mtxUnblockLock, which its owners release again.  Without a *)
(* token nobody is obliged to leave the gate by being cancelled.           *)
Fairness ==
  \A t \in Threads :
    /\ WF_vars(Step(t))
    /\ SF_vars(GateStep(t) /\ gateTokens > 0)
    /\ SF_vars(Retract(t) \/ Leave(t))

LiveSpec == Spec /\ Fairness
----------------------------------------------------------------------------
(* The three counters account for every waiter from the moment it is        *)
(* counted to the moment it retracts, however its wait ends, and nobody is  *)
(* recorded as gone while the gate is closed (the two sections under        *)
(* mtxUnblockLock against the increment under the gate).                    *)
Counted == {t \in Threads : pc[t] \in {"admit", "release", "block", "sleep", "woken", "left"}}

Accounting ==
  alive => /\ blocked - gone + toUnblock = Cardinality(Counted)
           /\ toUnblock > 0 => gone = 0

(* Where the gate is: with a thread that was let through, in the semaphore  *)
(* for the next one, or closed until the waiters to be unblocked have left  *)
(* the queue, "Semaphore that guards access to waiters blocked count/block  *)
(* queue" (implement.h:290-291).                                            *)
HasGate == {t \in Threads : \/ pc[t] \in {"admit", "reopen"}
                            \/ \E at \in {"enter", "drain", "close", "destroy"} : AtGate(t, at)}

Free(value, tokens) == tokens + (IF value > 0 THEN value ELSE 0)

Gates == Cardinality(HasGate) + Free(gateValue, gateTokens) + (IF toUnblock > 0 THEN 1 ELSE 0)

(* The gate is never lost: "Thread can be cancelled in sem_wait() but this  *)
(* is OK" (pthread_cond_wait.c:383).                                        *)
GateIsThere == alive => Gates >= 1

(* Nobody is cancelled while it waits for the gate. *)
GateUndisturbed == [](\A t \in Threads : gatePc[t] # "cancelled")

(* As long as nobody is cancelled at the gate it is in exactly one place:   *)
(* whoever is let through is alone, and every other way out of a wait gives *)
(* it back, once.                                                           *)
GateIsKept == GateUndisturbed => [](alive => Gates = 1)

(* Every waiter announced in nWaitersToUnblock has its wake-up on the way:  *)
(* a thread leaving the queue with one, a token in the queue, or a wake-up  *)
(* announced by a signal that has not posted yet.                           *)
Woken     == {t \in Threads : pc[t] = "woken"}
Announced == UNION {{t} \X (1 .. signals[t]) : t \in Threads}

WakeupsCover ==
  alive => toUnblock <= Free(queueValue, queueTokens)
                          + Cardinality(Woken) + Cardinality(Announced)

(* A condition variable that has been destroyed is used by nobody: threads  *)
(* that were waiting in it have retracted from all of its parts ("Now it is *)
(* safe to destroy", pthread_cond_destroy.c:175).                           *)
DestroyedIsUnused ==
  ~alive => \A t \in Threads : pc[t] \in {"idle", "relock", "handler"}

(* A broadcast wakes every thread that waits in the queue: once all counted *)
(* waiters are to be unblocked, each one of them leaves.                    *)
BroadcastWakesAll ==
  \A t \in WaitingThreads : (pc[t] = "sleep" /\ blocked = 0) ~> pc[t] # "sleep"

(* Signal, broadcast and destroy return: waiting for the gate with          *)
(* mtxUnblockLock held, or trying it with the gate held, is no deadlock.    *)
RequestsReturn ==
  GateUndisturbed =>
    \A t \in RequestingThreads : pc[t] \in {"close", "post", "destroy"} ~> pc[t] = "idle"
=============================================================================
