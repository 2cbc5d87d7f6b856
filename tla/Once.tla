------------------------------- MODULE Once --------------------------------
(***************************************************************************)
(* pthread_once (pthread_once.c) on one once_control, with the queue lock  *)
(* of module MCSLock in full: every interlocked operation of the lock is a *)
(* step.  The initialisation routine may be cancelled, and its clean-up    *)
(* handler then releases the lock without setting done.                    *)
(***************************************************************************)
EXTENDS MCSLock

VARIABLES
  done,        \* once_control->done
  inits        \* how many times init_routine has run to its end

onceVars == <<vars, done, inits>>

OnceInit ==
  /\ Init
  /\ done = FALSE
  /\ inits = 0

(* The first look at done, without the lock. *)
Call(t) ==
  /\ \/ done /\ Goto(t, "idle", "returned")
     \/ ~done /\ Goto(t, "idle", "enter")
  /\ UNCHANGED <<lockVars, done, inits>>

Enter(t) == Queue(t, "enter", "locked") /\ UNCHANGED <<done, inits>>

(* Mutant: no second look at done. *)
RecheckSkipped(t) ==
  /\ Goto(t, "locked", "init")
  /\ UNCHANGED <<lockVars, done, inits>>

(* The second look, with the lock. *)
Recheck(t) ==
  /\ \/ done /\ Goto(t, "locked", "finish")
     \/ ~done /\ Goto(t, "locked", "init")
  /\ UNCHANGED <<lockVars, done, inits>>

InitReturns(t) ==
  /\ Goto(t, "init", "publish")
  /\ inits' = inits + 1
  /\ UNCHANGED <<lockVars, done>>

Publish(t) ==
  /\ Goto(t, "publish", "finish")
  /\ done' = TRUE
  /\ UNCHANGED <<lockVars, inits>>

(* Mutant: no clean-up handler, the lock stays with a thread that is gone.  *)
InitAbandoned(t) ==
  /\ Goto(t, "init", "returned")
  /\ UNCHANGED <<lockVars, done, inits>>

(* ptw32_once_on_init_cancel: the thread ends, so its node is not used     *)
(* again.                                                                  *)
InitCancelled(t) ==
  /\ Goto(t, "init", "finish")
  /\ UNCHANGED <<lockVars, done, inits>>

Release(t) == ReadNext(t, "finish") /\ UNCHANGED <<done, inits>>

Lock(t) ==
  /\ AcquireSteps(t, "locked") \/ ReleaseSteps(t, "returned")
  /\ UNCHANGED <<done, inits>>

Step(t) ==
  \/ Enter(t) \/ Recheck(t) \/ InitReturns(t) \/ Publish(t) \/ InitCancelled(t)
  \/ Release(t) \/ Lock(t)

OnceNext == \E t \in Threads : Call(t) \/ Step(t)

OnceSpec == OnceInit /\ [][OnceNext]_onceVars

(* A thread inside pthread_once is scheduled, and init_routine ends. *)
OnceFairness == \A t \in Threads : WF_onceVars(Step(t))

LiveSpec == OnceSpec /\ OnceFairness
----------------------------------------------------------------------------
Labels ==
  {"idle", "enter", "link", "notify", "readyCheck", "readyStore", "readySleep",
   "locked", "init", "publish", "finish", "unlink", "nextCheck", "nextStore",
   "nextSleep", "pass", "returned"}

TypeOK ==
  /\ tail \in Threads \cup {Nil}
  /\ next \in [Threads -> Threads \cup {Nil}]
  /\ flag \in [Threads -> [Words -> Values]]
  /\ ~Win64 => \A t \in Threads : flag[t]["pad"] = "zero"
  /\ event \in [Threads -> BOOLEAN]
  /\ pred \in [Threads -> Threads \cup {Nil}]
  /\ pc \in [Threads -> Labels]
  /\ done \in BOOLEAN
  /\ inits \in Nat

(* The labels at which a thread has been given the lock. *)
Holding(t) == pc[t] \in {"locked", "init", "publish", "finish", "unlink",
                         "nextCheck", "nextStore", "nextSleep", "pass"}

(* One thread at a time is between acquire and release: readyFlag is "set   *)
(* after lock is released by predecessor" (implement.h:330-331).            *)
MutualExclusion == \A t, u \in Threads : Holding(t) /\ Holding(u) => t = u

(* done "indicates if user function has been executed" (pthread.h:665): the *)
(* routine runs to its end at most once, whoever was cancelled in it, and   *)
(* done is not set before.                                                  *)
ExactlyOnce == inits <= 1 /\ (done => inits = 1)

(* A successor stores its link in the node of a call that has not returned: *)
(* the node is on the stack of its owner, who must stay in the release as   *)
(* long as somebody who queued behind has not linked himself                *)
(* (ptw32_MCS_lock.c:199 against 224-249).                                  *)
LinksNodeInUse == \A t \in Threads : pc[t] = "link" => pc[pred[t]] # "returned"

(* Nor does the mark that follows the link come to the node of a call that  *)
(* has returned: "queue nodes are local to the thread"                      *)
(* (ptw32_MCS_lock.c:41-42), on its stack, and out of use, or used for      *)
(* another lock (lines 60-64), once the release has returned.               *)
MarksNodeInUse == \A t \in Threads : pc[t] = "notify" => pc[pred[t]] # "returned"

(* Every call of pthread_once comes back or is cancelled: no thread is left *)
(* asleep in the queue by a hand-over it missed.                            *)
CallsReturn == \A t \in Threads : pc[t] = "enter" ~> pc[t] = "returned"
=============================================================================
