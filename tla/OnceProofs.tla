----------------------------- MODULE OnceProofs -----------------------------
(***************************************************************************)
(* Proofs about module Once and the queue lock under it, for the build     *)
(* whose flags are accessed in their own width (~Win64).                   *)
(*                                                                         *)
(* That one thread holds the lock says nothing of the threads in the queue *)
(* that are about to be given it.  The inductive invariant follows the     *)
(* queue through pred, from the last node towards the one in front.        *)
(***************************************************************************)
EXTENDS Once, TLAPS

Waiting(t) == pc[t] \in {"link", "notify", "readyCheck", "readyStore", "readySleep"}

(* The predecessor has handed the lock over, seen or not. *)
Given(t) == flag[t]["ready"] = "set" \/ (pc[t] = "readySleep" /\ event[t])

Front(t)  == Holding(t) \/ (Waiting(t) /\ Given(t))
Behind(t) == Waiting(t) /\ ~Given(t)
Queued(t) == Waiting(t) \/ Holding(t)

(* What a waiter's own node says at each label. *)
FlagInv == \A t \in Threads :
  /\ pc[t] = "link" => flag[t]["ready"] = "zero"
  /\ pc[t] \in {"notify", "readyCheck", "readyStore"} => flag[t]["ready"] \in {"zero", "set"}
  /\ pc[t] = "readySleep" => flag[t]["ready"] = "event"
  /\ Waiting(t) => flag[t]["next"] # "event"

TailInv ==
  /\ tail = Nil => \A t \in Threads : ~Front(t)
  /\ tail # Nil => Queued(tail)

(* Behind each queued thread there is at most one, and none behind the last. *)
PredInv ==
  /\ \A t \in Threads : Behind(t) => pred[t] \in Threads /\ Queued(pred[t]) /\ pred[t] # tail
  /\ \A t, u \in Threads : Behind(t) /\ Behind(u) /\ pred[t] = pred[u] => t = u

FrontInv == \A t, u \in Threads : Front(t) /\ Front(u) => t = u

NextInv ==
  /\ \A t \in Threads : Queued(t) /\ next[t] # Nil =>
       Behind(next[t]) /\ pc[next[t]] # "link" /\ pred[next[t]] = t
  /\ \A t \in Threads : pc[t] = "notify" => pred[t] # Nil /\ next[pred[t]] # Nil
  /\ \A t \in Threads : pred[t] # Nil => pc[pred[t]] \notin {"idle", "enter"}

DoneInv ==
  /\ \/ inits = 0 /\ ~done
     \/ inits = 1 /\ (done \/ \E t \in Threads : pc[t] = "publish")
  /\ \A t \in Threads : pc[t] = "init" => inits = 0
  /\ \A t \in Threads : pc[t] = "publish" => inits = 1

QueueInv == FlagInv /\ TailInv /\ PredInv /\ FrontInv /\ NextInv

(* A node whose nextFlag is set has its successor linked, "set after 'next' *)
(* ptr is set by successor" (implement.h:332-333): a releaser that has      *)
(* waited for the flag finds it.                                            *)
NextFlagAfterNext ==
  \A t \in Threads : flag[t]["next"] = "set" => next[t] # Nil

OnceInv == TypeOK /\ QueueInv /\ NextFlagAfterNext /\ DoneInv
----------------------------------------------------------------------------
(* In their own width, operations on a flag read and write that flag only. *)
LEMMA Narrow ==
  ASSUME ~Win64, NEW n \in Threads, NEW f \in {"ready", "next"}
  PROVE  /\ Span(f) = {f}
         /\ IsZero(n, f) <=> flag[n][f] = "zero"
         /\ IsHandle(n, f) <=> flag[n][f] = "event"
<1>1. Span(f) = {f}
  BY DEF Span
<1>2. QED
  BY <1>1 DEF IsZero, IsHandle

LEMMA SetEffect ==
  ASSUME ~Win64, TypeOK, NEW n \in Threads, NEW f \in {"ready", "next"}, FlagSet(n, f)
  PROVE  /\ flag' \in [Threads -> [Words -> Values]]
         /\ event' \in [Threads -> BOOLEAN]
         /\ \A m \in Threads, w \in Words :
              flag'[m][w] = IF m = n /\ w = f /\ flag[n][f] = "zero" THEN "set" ELSE flag[m][w]
         /\ \A m \in Threads : event'[m] <=> event[m] \/ (m = n /\ flag[n][f] = "event")
<1>1. Span(f) = {f} /\ (IsZero(n, f) <=> flag[n][f] = "zero")
                    /\ (IsHandle(n, f) <=> flag[n][f] = "event")
  BY Narrow
<1>2. flag \in [Threads -> [Words -> Values]] /\ event \in [Threads -> BOOLEAN]
  BY DEF TypeOK
<1>3. flag' = [flag EXCEPT ![n] =
        [w \in Words |-> IF flag[n][f] = "zero" /\ w = f THEN "set" ELSE flag[n][w]]]
  BY <1>1, <1>2 DEF FlagSet
<1>4. event' = [event EXCEPT ![n] = event[n] \/ flag[n][f] = "event"]
  BY <1>1, <1>2 DEF FlagSet
<1>5. "set" \in Values /\ f \in Words
  BY DEF Values, Words
<1>6. flag' \in [Threads -> [Words -> Values]]
  BY <1>2, <1>3, <1>5
<1>7. event' \in [Threads -> BOOLEAN]
  BY <1>2, <1>4
<1>8. \A m \in Threads, w \in Words :
        flag'[m][w] = IF m = n /\ w = f /\ flag[n][f] = "zero" THEN "set" ELSE flag[m][w]
  BY <1>2, <1>3
<1>9. \A m \in Threads : event'[m] <=> event[m] \/ (m = n /\ flag[n][f] = "event")
  BY <1>2, <1>4
<1>10. QED
  BY <1>6, <1>7, <1>8, <1>9
----------------------------------------------------------------------------
LEMMA InitHolds == ASSUME ~Win64, OnceInit PROVE OnceInv
<1>1. /\ tail = Nil /\ done = FALSE /\ inits = 0
      /\ \A t \in Threads : /\ next[t] = Nil /\ pred[t] = Nil /\ pc[t] = "idle"
                            /\ \A w \in Words : flag[t][w] = "zero"
  BY DEF OnceInit, Init
<1>2. TypeOK
  BY DEF OnceInit, Init, TypeOK, Labels, Values, Words
<1>3. \A t \in Threads : ~Waiting(t) /\ ~Holding(t)
  BY <1>1 DEF Waiting, Holding
<1>4. QueueInv
  BY <1>1, <1>3 DEF QueueInv, FlagInv, TailInv, PredInv, FrontInv, NextInv, Front, Behind, Queued
<1>5. NextFlagAfterNext
  BY <1>1 DEF NextFlagAfterNext, Words
<1>6. DoneInv
  BY <1>1 DEF DoneInv
<1>7. QED
  BY <1>2, <1>4, <1>5, <1>6 DEF OnceInv

(* A step in which nobody joins, leaves or comes to the front of the queue. *)
Quiet ==
  /\ UNCHANGED <<tail, next, pred>>
  /\ \A u \in Threads :
       /\ Front(u)' <=> Front(u)
       /\ Behind(u)' <=> Behind(u)
       /\ pc'[u] \in {"idle", "enter"} => pc[u] \in {"idle", "enter"}
       /\ pc'[u] = "link" => pc[u] = "link"
       /\ pc'[u] = "notify" => pc[u] = "notify"

LEMMA InQueue == \A u \in Threads : Queued(u) <=> Front(u) \/ Behind(u)
  BY DEF Queued, Front, Behind

LEMMA InQueueLater == \A u \in Threads : Queued(u)' <=> Front(u)' \/ Behind(u)'
  BY DEF Queued, Front, Behind

LEMMA QuietStep ==
  ASSUME TypeOK, QueueInv, Quiet
  PROVE  TailInv' /\ PredInv' /\ FrontInv' /\ NextInv'
<1>1. \A u \in Threads : Queued(u)' <=> Queued(u)
  BY InQueue, InQueueLater DEF Quiet
<1>2. /\ tail \in Threads \cup {Nil}
      /\ \A u \in Threads : next[u] \in Threads \cup {Nil} /\ pred[u] \in Threads \cup {Nil}
  BY DEF TypeOK
<1>3. tail' = tail /\ next' = next /\ pred' = pred
  BY DEF Quiet
<1>4. TailInv'
  <2>1. tail' = Nil => \A u \in Threads : ~Front(u)'
    BY <1>3 DEF Quiet, QueueInv, TailInv
  <2>2. tail' # Nil => Queued(tail)
    BY <1>3 DEF QueueInv, TailInv
  <2>3. tail' # Nil => Queued(tail)'
    BY <2>2, <1>1, <1>2, <1>3 DEF Queued, Waiting, Holding
  <2>4. QED
    BY <2>1, <2>3 DEF TailInv
<1>5. PredInv'
  BY <1>1, <1>2, <1>3 DEF Quiet, QueueInv, PredInv
<1>6. FrontInv'
  BY DEF Quiet, QueueInv, FrontInv
<1>7. NextInv'
  BY <1>1, <1>2, <1>3 DEF Quiet, QueueInv, NextInv
<1>8. QED
  BY <1>4, <1>5, <1>6, <1>7
----------------------------------------------------------------------------
(* The waits on the two flags, with the labels of their callers. *)
ReadyCheck(t) == FlagCheck(t, "ready", "readyCheck", "readyStore", "locked")
ReadyStore(t) == FlagStore(t, "ready", "readyStore", "readySleep", "locked")
ReadySleep(t) == FlagSleep(t, "readySleep", "locked")
NextCheck(t)  == FlagCheck(t, "next", "nextCheck", "nextStore", "pass")
NextStore(t)  == FlagStore(t, "next", "nextStore", "nextSleep", "pass")
NextSleep(t)  == FlagSleep(t, "nextSleep", "pass")

(* What a thread does between taking the lock and leaving it, and the first *)
(* look: nothing but pc, done and inits changes.                            *)
Plain(t) ==
  \/ Call(t) \/ Recheck(t) \/ InitReturns(t) \/ Publish(t) \/ InitCancelled(t) \/ Release(t)

LockStep(t) ==
  \/ Enter(t) \/ Link(t) \/ Notify(t) \/ ReadyCheck(t) \/ ReadyStore(t) \/ ReadySleep(t)
  \/ Unlink(t, "returned") \/ NextCheck(t) \/ NextStore(t) \/ NextSleep(t) \/ Pass(t, "returned")

LEMMA Cases ==
  ASSUME OnceNext
  PROVE  \E t \in Threads : Plain(t) \/ (LockStep(t) /\ UNCHANGED <<done, inits>>)
  BY DEF OnceNext, Step, Lock, AcquireSteps, ReleaseSteps, Plain, LockStep, Enter,
         ReadyCheck, ReadyStore, ReadySleep, NextCheck, NextStore, NextSleep

LEMMA PlainEffect ==
  ASSUME TypeOK, NEW t \in Threads, Plain(t)
  PROVE  /\ UNCHANGED lockVars
         /\ pc' \in [Threads -> Labels]
         /\ \A u \in Threads \ {t} : pc'[u] = pc[u]
         /\ \/ pc[t] = "idle" /\ pc'[t] \in {"enter", "returned"}
            \/ pc[t] \in {"locked", "init", "publish", "finish"} /\
               pc'[t] \in {"init", "publish", "finish", "unlink", "pass"}
  BY DEF Plain, Call, Recheck, InitReturns, Publish, InitCancelled, Release, ReadNext, Goto,
         TypeOK, Labels, lockVars

(* A thread looks at its flag again and stores a handle, or goes on. *)
Stored(t, f, from, sleep, to) ==
  /\ UNCHANGED <<tail, next, pred>>
  /\ pc[t] = from
  /\ flag' \in [Threads -> [Words -> Values]]
  /\ event' \in [Threads -> BOOLEAN]
  /\ ~event'[t]
  /\ \A u \in Threads \ {t} : pc'[u] = pc[u] /\ event'[u] = event[u]
  /\ \A u \in Threads, w \in Words : ~(u = t /\ w = f) => flag'[u][w] = flag[u][w]
  /\ \/ flag[t][f] = "zero" /\ flag'[t][f] = "event" /\ pc' = [pc EXCEPT ![t] = sleep]
     \/ flag[t][f] # "zero" /\ flag'[t][f] = flag[t][f] /\ pc' = [pc EXCEPT ![t] = to]

LEMMA StoreEffect ==
  ASSUME ~Win64, TypeOK, NEW t \in Threads, NEW f \in {"ready", "next"},
         NEW from \in Labels, NEW sleep \in Labels, NEW to \in Labels,
         FlagStore(t, f, from, sleep, to)
  PROVE  Stored(t, f, from, sleep, to)
<1>1. /\ flag \in [Threads -> [Words -> Values]] /\ event \in [Threads -> BOOLEAN]
      /\ pc \in [Threads -> Labels]
  BY DEF TypeOK
<1>2. f \in Words /\ "event" \in Values
  BY DEF Words, Values
<1>3. IsZero(t, f) <=> flag[t][f] = "zero"
  BY Narrow
<1>4. event' = [event EXCEPT ![t] = FALSE] /\ UNCHANGED <<tail, next, pred>>
  BY DEF FlagStore
<1>5. CASE IsZero(t, f)
  <2>1. flag' = [flag EXCEPT ![t][f] = "event"] /\ pc[t] = from /\ pc' = [pc EXCEPT ![t] = sleep]
    BY <1>5 DEF FlagStore, Goto
  <2>2. QED
    BY <1>1, <1>2, <1>3, <1>4, <1>5, <2>1 DEF Stored
<1>6. CASE ~IsZero(t, f)
  <2>1. flag' = flag /\ pc[t] = from /\ pc' = [pc EXCEPT ![t] = to]
    BY <1>6 DEF FlagStore, Goto
  <2>2. QED
    BY <1>1, <1>2, <1>3, <1>4, <1>6, <2>1 DEF Stored
<1>7. QED
  BY <1>5, <1>6

LEMMA StoreEffects ==
  ASSUME ~Win64, TypeOK, NEW t \in Threads
  PROVE  /\ ReadyStore(t) => Stored(t, "ready", "readyStore", "readySleep", "locked")
         /\ NextStore(t) => Stored(t, "next", "nextStore", "nextSleep", "pass")
<1>1. {"readyStore", "readySleep", "locked", "nextStore", "nextSleep", "pass"} \subseteq Labels
  BY DEF Labels
<1>2. QED
  BY <1>1, StoreEffect DEF ReadyStore, NextStore

LEMMA TypeStep ==
  ASSUME ~Win64, TypeOK, [OnceNext]_onceVars
  PROVE  TypeOK'
<1>1. CASE UNCHANGED onceVars
  BY <1>1 DEF onceVars, vars, lockVars, TypeOK
<1>2. ASSUME NEW t \in Threads, Plain(t) PROVE TypeOK'
  <2>1. done' = done \/ done' = TRUE
    BY <1>2 DEF Plain, Call, Recheck, InitReturns, Publish, InitCancelled, Release
  <2>2. inits' = inits \/ inits' = inits + 1
    BY <1>2 DEF Plain, Call, Recheck, InitReturns, Publish, InitCancelled, Release
  <2>3. done \in BOOLEAN /\ inits \in Nat
    BY DEF TypeOK
  <2>4. done' \in BOOLEAN
    BY <2>1, <2>3, Zenon
  <2>5. inits' \in Nat
    BY <2>2, <2>3
  <2>6. UNCHANGED lockVars /\ pc' \in [Threads -> Labels]
    BY <1>2, PlainEffect
  <2>7. QED
    BY <2>4, <2>5, <2>6 DEF lockVars, TypeOK
<1>3. ASSUME NEW t \in Threads, LockStep(t), UNCHANGED <<done, inits>> PROVE TypeOK'
  <2>1. CASE Enter(t)
    <3>1. \A after \in {"zero"} :
            [w \in Words |-> IF w = "pad" THEN after ELSE "zero"] \in [Words -> Values]
      BY DEF Words, Values
    <3>2. flag' = [flag EXCEPT ![t] = [w \in Words |-> IF w = "pad" THEN "zero" ELSE "zero"]]
      BY <2>1 DEF Enter, Queue
    <3>3. flag' \in [Threads -> [Words -> Values]]
      BY <3>1, <3>2 DEF TypeOK
    <3>4. \A u \in Threads : flag'[u]["pad"] = "zero"
      BY <3>2 DEF TypeOK, Words
    <3>5. QED
      BY <1>3, <2>1, <3>3, <3>4 DEF Enter, Queue, Goto, TypeOK, Labels
  <2>2. CASE Link(t)
    BY <1>3, <2>2 DEF Link, Goto, TypeOK, Labels
  <2>3. CASE Notify(t)
    <3>1. CASE pred[t] \in Threads
      BY <1>3, <2>3, <3>1, SetEffect DEF Notify, Goto, TypeOK, Labels, Words
    <3>2. CASE pred[t] \notin Threads
      BY <1>3, <2>3, <3>2 DEF Notify, FlagSet, Goto, TypeOK, Labels
    <3>3. QED
      BY <3>1, <3>2
  <2>4. CASE ReadyCheck(t) \/ NextCheck(t)
    BY <1>3, <2>4 DEF ReadyCheck, NextCheck, FlagCheck, lockVars, Goto, TypeOK, Labels
  <2>5. CASE ReadyStore(t)
    BY <1>3, <2>5, StoreEffects DEF Stored, TypeOK, Labels, Words
  <2>6. CASE NextStore(t)
    BY <1>3, <2>6, StoreEffects DEF Stored, TypeOK, Labels, Words
  <2>7. CASE ReadySleep(t) \/ NextSleep(t)
    BY <1>3, <2>7 DEF ReadySleep, NextSleep, FlagSleep, lockVars, Goto, TypeOK, Labels
  <2>8. CASE Unlink(t, "returned")
    BY <1>3, <2>8 DEF Unlink, Goto, TypeOK, Labels
  <2>9. CASE Pass(t, "returned")
    BY <1>3, <2>9, SetEffect DEF Pass, Goto, TypeOK, Labels, Words
  <2>10. QED
    BY <1>3, <2>1, <2>2, <2>3, <2>4, <2>5, <2>6, <2>7, <2>8, <2>9 DEF LockStep
<1>4. QED
  BY <1>1, <1>2, <1>3, Cases
----------------------------------------------------------------------------
(* Most steps are quiet. *)
LEMMA PlainQuiet ==
  ASSUME TypeOK, QueueInv, NEW t \in Threads, Plain(t)
  PROVE  FlagInv' /\ Quiet
<1>1. /\ UNCHANGED <<tail, next, flag, event, pred>>
      /\ \A u \in Threads \ {t} : pc'[u] = pc[u]
      /\ \/ pc[t] = "idle" /\ pc'[t] \in {"enter", "returned"}
         \/ pc[t] \in {"locked", "init", "publish", "finish"} /\
            pc'[t] \in {"init", "publish", "finish", "unlink", "pass"}
  BY PlainEffect DEF lockVars
<1>2. FlagInv'
  BY <1>1 DEF QueueInv, FlagInv, Waiting
<1>3. ASSUME NEW u \in Threads PROVE (Front(u)' <=> Front(u)) /\ (Behind(u)' <=> Behind(u))
  <2>1. CASE u = t
    BY <1>1, <2>1 DEF Front, Behind, Waiting, Holding, Given
  <2>2. CASE u # t
    BY <1>1, <2>2 DEF Front, Behind, Waiting, Holding, Given
  <2>3. QED
    BY <2>1, <2>2
<1>4. QED
  BY <1>1, <1>2, <1>3 DEF Quiet

(* The announcement changes nextFlag, or an event that nobody waits on in   *)
(* the queue.                                                               *)
LEMMA NotifyQuiet ==
  ASSUME ~Win64, TypeOK, QueueInv, NEW t \in Threads, Notify(t)
  PROVE  FlagInv' /\ Quiet
<1>1. pc[t] = "notify" /\ pc' = [pc EXCEPT ![t] = "readyCheck"] /\ UNCHANGED <<tail, next, pred>>
  BY DEF Notify, Goto
<1>2. pred[t] \in Threads
  BY <1>1 DEF QueueInv, NextInv, TypeOK
<1>3. /\ \A m \in Threads, w \in Words :
           flag'[m][w] = IF m = pred[t] /\ w = "next" /\ flag[pred[t]]["next"] = "zero"
                         THEN "set" ELSE flag[m][w]
      /\ \A m \in Threads :
           event'[m] <=> event[m] \/ (m = pred[t] /\ flag[pred[t]]["next"] = "event")
  BY <1>2, SetEffect DEF Notify
<1>4. /\ \A m \in Threads : flag'[m]["ready"] = flag[m]["ready"]
      /\ \A m \in Threads : flag'[m]["next"] = "event" <=> flag[m]["next"] = "event"
      /\ \A m \in Threads : flag[m]["next"] # "event" => (event'[m] <=> event[m])
  BY <1>3 DEF Words
<1>5. \A m \in Threads : /\ m # t => pc'[m] = pc[m]
                         /\ m = t => pc'[m] = "readyCheck"
  BY <1>1 DEF TypeOK
<1>6. FlagInv'
  BY <1>1, <1>4, <1>5 DEF QueueInv, FlagInv, Waiting
<1>7. ASSUME NEW u \in Threads PROVE (Front(u)' <=> Front(u)) /\ (Behind(u)' <=> Behind(u))
  <2>1. Waiting(u)' <=> Waiting(u)
    BY <1>1, <1>5 DEF Waiting
  <2>2. Holding(u)' <=> Holding(u)
    BY <1>1, <1>5 DEF Holding
  <2>3. Waiting(u) => (Given(u)' <=> Given(u))
    BY <1>1, <1>4, <1>5 DEF Waiting, Given, QueueInv, FlagInv
  <2>4. QED
    BY <2>1, <2>2, <2>3 DEF Front, Behind
<1>8. QED
  BY <1>1, <1>5, <1>6, <1>7 DEF Quiet

(* A thread that finds its flag set was given the lock.  *)
LEMMA WaitQuiet ==
  ASSUME ~Win64, TypeOK, QueueInv, NEW t \in Threads,
         ReadyCheck(t) \/ ReadySleep(t) \/ NextCheck(t) \/ NextSleep(t)
  PROVE  FlagInv' /\ Quiet
<1>1. UNCHANGED <<tail, next, flag, event, pred>>
  BY DEF ReadyCheck, ReadySleep, NextCheck, NextSleep, FlagCheck, FlagSleep, lockVars
<1>2. /\ IsZero(t, "ready") <=> flag[t]["ready"] = "zero"
      /\ IsZero(t, "next") <=> flag[t]["next"] = "zero"
  BY Narrow
<1>3. \/ pc[t] = "readyCheck" /\ pc' = [pc EXCEPT ![t] = "readyStore"] /\ flag[t]["ready"] = "zero"
      \/ pc[t] = "readyCheck" /\ pc' = [pc EXCEPT ![t] = "locked"] /\ flag[t]["ready"] # "zero"
      \/ pc[t] = "readySleep" /\ pc' = [pc EXCEPT ![t] = "locked"] /\ event[t]
      \/ /\ pc[t] \in {"nextCheck", "nextSleep"}
         /\ \E to \in {"nextStore", "pass"} : pc' = [pc EXCEPT ![t] = to]
  BY <1>2 DEF ReadyCheck, ReadySleep, NextCheck, NextSleep, FlagCheck, FlagSleep, Goto
<1>4. \A m \in Threads : m # t => pc'[m] = pc[m]
  BY <1>3 DEF TypeOK
<1>5. \/ pc[t] = "readyCheck" /\ pc'[t] = "readyStore"
      \/ pc[t] = "readyCheck" /\ pc'[t] = "locked" /\ flag[t]["ready"] = "set"
      \/ pc[t] = "readySleep" /\ pc'[t] = "locked" /\ event[t]
      \/ pc[t] \in {"nextCheck", "nextSleep"} /\ pc'[t] \in {"nextStore", "pass"}
  BY <1>3 DEF TypeOK, QueueInv, FlagInv
<1>6. FlagInv'
  BY <1>1, <1>4, <1>5 DEF QueueInv, FlagInv, Waiting
<1>7. ASSUME NEW u \in Threads PROVE (Front(u)' <=> Front(u)) /\ (Behind(u)' <=> Behind(u))
  <2>1. CASE u = t
    BY <1>1, <1>5, <2>1 DEF Front, Behind, Waiting, Holding, Given, QueueInv, FlagInv
  <2>2. CASE u # t
    BY <1>1, <1>4, <2>2 DEF Front, Behind, Waiting, Holding, Given
  <2>3. QED
    BY <2>1, <2>2
<1>8. QED
  BY <1>1, <1>4, <1>5, <1>6, <1>7 DEF Quiet

LEMMA StoreQuiet ==
  ASSUME ~Win64, TypeOK, QueueInv, NEW t \in Threads, ReadyStore(t) \/ NextStore(t)
  PROVE  FlagInv' /\ Quiet
<1>1. CASE ReadyStore(t)
  <2>1. Stored(t, "ready", "readyStore", "readySleep", "locked")
    BY <1>1, StoreEffects
  <2>2. /\ UNCHANGED <<tail, next, pred>>
        /\ pc[t] = "readyStore"
        /\ \A u \in Threads : flag'[u]["next"] = flag[u]["next"]
        /\ \A u \in Threads \ {t} :
             pc'[u] = pc[u] /\ event'[u] = event[u] /\ flag'[u]["ready"] = flag[u]["ready"]
        /\ \/ /\ pc'[t] = "readySleep" /\ ~event'[t]
              /\ flag[t]["ready"] = "zero" /\ flag'[t]["ready"] = "event"
           \/ pc'[t] = "locked" /\ flag[t]["ready"] = "set"
    BY <2>1 DEF Stored, TypeOK, Words, QueueInv, FlagInv
  <2>3. FlagInv'
    BY <2>2 DEF QueueInv, FlagInv, Waiting
  <2>4. ASSUME NEW u \in Threads PROVE (Front(u)' <=> Front(u)) /\ (Behind(u)' <=> Behind(u))
    <3>1. CASE u = t
      BY <2>2, <3>1 DEF Front, Behind, Waiting, Holding, Given
    <3>2. CASE u # t
      BY <2>2, <3>2 DEF Front, Behind, Waiting, Holding, Given
    <3>3. QED
      BY <3>1, <3>2
  <2>5. QED
    BY <2>2, <2>3, <2>4 DEF Quiet
<1>2. CASE NextStore(t)
  <2>1. Stored(t, "next", "nextStore", "nextSleep", "pass")
    BY <1>2, StoreEffects
  <2>2. /\ UNCHANGED <<tail, next, pred>>
        /\ pc[t] = "nextStore" /\ pc'[t] \in {"nextSleep", "pass"}
        /\ \A u \in Threads : flag'[u]["ready"] = flag[u]["ready"]
        /\ \A u \in Threads \ {t} :
             pc'[u] = pc[u] /\ event'[u] = event[u] /\ flag'[u]["next"] = flag[u]["next"]
    BY <2>1 DEF Stored, TypeOK, Words
  <2>3. FlagInv'
    BY <2>2 DEF QueueInv, FlagInv, Waiting
  <2>4. ASSUME NEW u \in Threads PROVE (Front(u)' <=> Front(u)) /\ (Behind(u)' <=> Behind(u))
    <3>1. CASE u = t
      BY <2>2, <3>1 DEF Front, Behind, Waiting, Holding, Given
    <3>2. CASE u # t
      BY <2>2, <3>2 DEF Front, Behind, Waiting, Holding, Given
    <3>3. QED
      BY <3>1, <3>2
  <2>5. QED
    BY <2>2, <2>3, <2>4 DEF Quiet
<1>3. QED
  BY <1>1, <1>2
----------------------------------------------------------------------------
(* The four steps that change the queue: a thread joins it, links itself to *)
(* its predecessor, leaves it empty, or hands the lock over.                *)
LEMMA EnterQueue ==
  ASSUME ~Win64, NilAssumption, TypeOK, QueueInv, NEW t \in Threads, Enter(t)
  PROVE  QueueInv'
<1>1. /\ pc[t] = "enter" /\ tail' = t /\ event' = event
      /\ next' = [next EXCEPT ![t] = Nil] /\ pred' = [pred EXCEPT ![t] = tail]
      /\ flag' = [flag EXCEPT ![t] = [w \in Words |-> IF w = "pad" THEN "zero" ELSE "zero"]]
      /\ pc' = [pc EXCEPT ![t] = IF tail = Nil THEN "locked" ELSE "link"]
  BY DEF Enter, Queue, Goto
<1>2. /\ next'[t] = Nil /\ pred'[t] = tail
      /\ flag'[t]["ready"] = "zero" /\ flag'[t]["next"] = "zero"
      /\ pc'[t] = IF tail = Nil THEN "locked" ELSE "link"
      /\ \A u \in Threads \ {t} :
           /\ next'[u] = next[u] /\ pred'[u] = pred[u] /\ flag'[u] = flag[u]
           /\ pc'[u] = pc[u] /\ event'[u] = event[u]
  BY <1>1 DEF TypeOK, Words
<1>3. ~Queued(t) /\ ~Front(t) /\ ~Behind(t)
  BY <1>1 DEF Queued, Front, Behind, Waiting, Holding
<1>4. \A u \in Threads \ {t} : /\ Front(u)' <=> Front(u)
                               /\ Behind(u)' <=> Behind(u)
                               /\ Queued(u)' <=> Queued(u)
  BY <1>2 DEF Front, Behind, Queued, Waiting, Holding, Given
<1>5. /\ tail = Nil => Front(t)' /\ ~Behind(t)'
      /\ tail # Nil => Behind(t)' /\ ~Front(t)'
      /\ Queued(t)'
  BY <1>2 DEF Front, Behind, Queued, Waiting, Holding, Given
<1>6. FlagInv'
  BY <1>2 DEF QueueInv, FlagInv, Waiting
<1>7. TailInv'
  <2>1. Queued(tail)' /\ tail' # Nil
    BY <1>1, <1>5, NilAssumption DEF Queued, Waiting, Holding, NilAssumption
  <2>2. QED
    BY <2>1 DEF TailInv
<1>8. PredInv'
  <2>1. tail # Nil => tail \in Threads \ {t} /\ Queued(tail)
    BY <1>3 DEF TypeOK, QueueInv, TailInv
  <2>2. \A u \in Threads \ {t} : Behind(u) =>
          pred[u] \in Threads \ {t} /\ Queued(pred[u]) /\ pred[u] # tail
    BY <1>3 DEF QueueInv, PredInv
  <2>3. \A u \in Threads : Behind(u)' => pred'[u] \in Threads \ {t} /\ Queued(pred'[u])
    BY <1>2, <1>4, <1>5, <2>1, <2>2
  <2>4. \A u \in Threads : Behind(u)' => Queued(pred[u])'
    BY <1>4, <2>3
  <2>5. \A u, v \in Threads : Behind(u)' /\ Behind(v)' /\ pred'[u] = pred'[v] => u = v
    BY <1>2, <1>4, <1>5, <2>1, <2>2 DEF QueueInv, PredInv
  <2>6. QED
    BY <1>1, <2>3, <2>4, <2>5 DEF PredInv
<1>9. FrontInv'
  BY <1>4, <1>5 DEF QueueInv, FrontInv, TailInv
<1>10. NextInv'
  <2>1. \A u \in Threads \ {t} : pred[u] # t
    BY <1>1, NilAssumption DEF QueueInv, NextInv, NilAssumption
  <2>2. \A u \in Threads : Queued(u)' /\ next'[u] # Nil =>
          Behind(next[u])' /\ pc'[next'[u]] # "link" /\ pred'[next'[u]] = u
    BY <1>2, <1>3, <1>4 DEF QueueInv, NextInv, TypeOK
  <2>3. \A u \in Threads : pc'[u] = "notify" => pred'[u] # Nil /\ next'[pred'[u]] # Nil
    BY <1>2, <2>1 DEF QueueInv, NextInv, TypeOK
  <2>4. \A u \in Threads : pred'[u] # Nil => pc'[pred'[u]] \notin {"idle", "enter"}
    <3>1. tail # Nil => tail \in Threads \ {t} /\ pc[tail] \notin {"idle", "enter"}
      BY <1>3 DEF TypeOK, QueueInv, TailInv, Queued, Waiting, Holding
    <3>2. QED
      BY <1>2, <2>1, <3>1 DEF QueueInv, NextInv, TypeOK
  <2>5. QED
    BY <2>2, <2>3, <2>4 DEF NextInv
<1>11. QED
  BY <1>6, <1>7, <1>8, <1>9, <1>10 DEF QueueInv

LEMMA LinkQueue ==
  ASSUME NilAssumption, TypeOK, QueueInv, NEW t \in Threads, Link(t)
  PROVE  QueueInv'
<1>1. /\ pc[t] = "link" /\ pc' = [pc EXCEPT ![t] = "notify"]
      /\ next' = [next EXCEPT ![pred[t]] = t] /\ UNCHANGED <<tail, flag, event, pred>>
  BY DEF Link, Goto
<1>2. pc'[t] = "notify" /\ \A u \in Threads \ {t} : pc'[u] = pc[u]
  BY <1>1 DEF TypeOK
<1>3. Behind(t) /\ flag[t]["ready"] = "zero"
  BY <1>1 DEF QueueInv, FlagInv, Behind, Waiting, Given
<1>4. pred[t] \in Threads /\ Queued(pred[t])
  BY <1>3 DEF QueueInv, PredInv
<1>5. next'[pred[t]] = t /\ \A u \in Threads \ {pred[t]} : next'[u] = next[u]
  BY <1>1, <1>4 DEF TypeOK
<1>6. \A u \in Threads : /\ Front(u)' <=> Front(u)
                         /\ Behind(u)' <=> Behind(u)
                         /\ Queued(u)' <=> Queued(u)
  BY <1>1, <1>2 DEF Front, Behind, Queued, Waiting, Holding, Given
<1>7. FlagInv'
  BY <1>1, <1>2 DEF QueueInv, FlagInv, Waiting
<1>8. TailInv'
  <2>1. tail' # Nil => Queued(tail)'
    BY <1>1, <1>6 DEF QueueInv, TailInv, TypeOK
  <2>2. QED
    BY <1>1, <1>6, <2>1 DEF QueueInv, TailInv
<1>9. PredInv' /\ FrontInv'
  BY <1>1, <1>6 DEF QueueInv, PredInv, FrontInv
<1>10. NextInv'
  <2>1. \A u \in Threads : Queued(u)' /\ next'[u] # Nil =>
          next'[u] \in Threads /\ Behind(next'[u]) /\ pc'[next'[u]] # "link" /\ pred[next'[u]] = u
    BY <1>2, <1>3, <1>5, <1>6 DEF QueueInv, NextInv, TypeOK
  <2>2. \A u \in Threads : pc'[u] = "notify" => pred[u] # Nil /\ next'[pred[u]] # Nil
    BY <1>2, <1>4, <1>5, NilAssumption DEF QueueInv, NextInv, NilAssumption, TypeOK
  <2>3. \A u \in Threads : pred[u] # Nil => pc'[pred[u]] \notin {"idle", "enter"}
    BY <1>2 DEF QueueInv, NextInv, TypeOK
  <2>4. QED
    BY <1>1, <1>6, <2>1, <2>2, <2>3 DEF NextInv
<1>11. QED
  BY <1>7, <1>8, <1>9, <1>10 DEF QueueInv

LEMMA UnlinkQueue ==
  ASSUME NilAssumption, TypeOK, QueueInv, NEW t \in Threads, Unlink(t, "returned")
  PROVE  QueueInv'
<1>1. pc[t] = "unlink" /\ UNCHANGED <<next, flag, event, pred>>
  BY DEF Unlink, Goto
<1>2. Front(t) /\ Queued(t) /\ ~Behind(t)
  BY <1>1 DEF Front, Queued, Behind, Holding, Waiting
<1>3. CASE tail # t
  <2>1. tail' = tail /\ pc'[t] = "nextCheck" /\ \A u \in Threads \ {t} : pc'[u] = pc[u]
    BY <1>3 DEF Unlink, Goto, TypeOK
  <2>2. FlagInv'
    BY <1>1, <2>1 DEF QueueInv, FlagInv, Waiting
  <2>3. ASSUME NEW u \in Threads PROVE (Front(u)' <=> Front(u)) /\ (Behind(u)' <=> Behind(u))
    <3>1. CASE u = t
      BY <1>1, <2>1, <3>1 DEF Front, Behind, Waiting, Holding, Given
    <3>2. CASE u # t
      BY <1>1, <2>1, <3>2 DEF Front, Behind, Waiting, Holding, Given
    <3>3. QED
      BY <3>1, <3>2
  <2>4. Quiet
    BY <1>1, <2>1, <2>3 DEF Quiet
  <2>5. QED
    BY <2>2, <2>4, QuietStep DEF QueueInv
<1>4. CASE tail = t
  <2>1. tail' = Nil /\ pc'[t] = "returned" /\ \A u \in Threads \ {t} : pc'[u] = pc[u]
    BY <1>4, NilAssumption DEF Unlink, Goto, TypeOK, NilAssumption
  <2>2. ~Front(t)' /\ ~Behind(t)' /\ ~Queued(t)'
    BY <2>1 DEF Front, Behind, Queued, Waiting, Holding
  <2>3. \A u \in Threads \ {t} : /\ Front(u)' <=> Front(u)
                                 /\ Behind(u)' <=> Behind(u)
                                 /\ Queued(u)' <=> Queued(u)
    BY <1>1, <2>1 DEF Front, Behind, Queued, Waiting, Holding, Given
  <2>4. FlagInv'
    BY <1>1, <2>1 DEF QueueInv, FlagInv, Waiting
  <2>5. \A u \in Threads : ~Front(u)'
    BY <1>2, <2>2, <2>3 DEF QueueInv, FrontInv
  <2>6. TailInv' /\ FrontInv'
    BY <2>1, <2>5 DEF TailInv, FrontInv
  <2>7. PredInv'
    <3>1. \A u \in Threads : Behind(u)' =>
            pred[u] \in Threads \ {t} /\ Queued(pred[u])
      BY <1>4, <2>2, <2>3 DEF QueueInv, PredInv
    <3>2. \A u \in Threads : Behind(u)' => Queued(pred[u])' /\ pred[u] # Nil
      BY <1>1, <2>3, <3>1, NilAssumption DEF NilAssumption
    <3>3. QED
      BY <1>1, <2>1, <2>2, <2>3, <3>1, <3>2 DEF QueueInv, PredInv
  <2>8. NextInv'
    <3>1. \A u \in Threads : Queued(u)' /\ next[u] # Nil =>
            next[u] \in Threads \ {t} /\ Behind(next[u])' /\ pc'[next[u]] # "link"
              /\ pred[next[u]] = u
      BY <1>1, <1>2, <2>1, <2>2, <2>3 DEF QueueInv, NextInv, TypeOK
    <3>2. \A u \in Threads : pc'[u] = "notify" => pred[u] # Nil /\ next[pred[u]] # Nil
      BY <2>1 DEF QueueInv, NextInv
    <3>3. \A u \in Threads : pred[u] # Nil => pc'[pred[u]] \notin {"idle", "enter"}
      BY <2>1 DEF QueueInv, NextInv, TypeOK
    <3>4. QED
      BY <1>1, <3>1, <3>2, <3>3 DEF NextInv
  <2>9. QED
    BY <2>4, <2>6, <2>7, <2>8 DEF QueueInv
<1>5. QED
  BY <1>3, <1>4

LEMMA PassQueue ==
  ASSUME ~Win64, TypeOK, QueueInv, NEW t \in Threads, Pass(t, "returned")
  PROVE  QueueInv'
<1>0. PICK s \in Threads : s = next[t]
  BY DEF Pass, TypeOK
<1>1. /\ pc[t] = "pass" /\ pc' = [pc EXCEPT ![t] = "returned"] /\ s # Nil
      /\ FlagSet(s, "ready") /\ UNCHANGED <<tail, next, pred>>
  BY <1>0 DEF Pass, Goto
<1>2. Front(t) /\ Queued(t) /\ ~Behind(t)
  BY <1>1 DEF Front, Queued, Behind, Holding, Waiting
<1>3. s \in Threads /\ Behind(s) /\ pc[s] # "link" /\ pred[s] = t /\ s # t
  BY <1>0, <1>1, <1>2 DEF QueueInv, NextInv, TypeOK
<1>4. pc'[t] = "returned" /\ \A u \in Threads \ {t} : pc'[u] = pc[u]
  BY <1>1 DEF TypeOK
<1>5. /\ \A m \in Threads : flag'[m]["next"] = flag[m]["next"]
      /\ \A m \in Threads \ {s} : flag'[m]["ready"] = flag[m]["ready"] /\ (event'[m] <=> event[m])
      /\ flag'[s]["ready"] = IF flag[s]["ready"] = "zero" THEN "set" ELSE flag[s]["ready"]
      /\ event'[s] <=> event[s] \/ flag[s]["ready"] = "event"
  BY <1>1, <1>3, SetEffect DEF Words
<1>6. ~Front(t)' /\ ~Behind(t)' /\ ~Queued(t)'
  BY <1>4 DEF Front, Behind, Queued, Waiting, Holding
<1>7. \A u \in Threads \ {t, s} : /\ Front(u)' <=> Front(u)
                                  /\ Behind(u)' <=> Behind(u)
                                  /\ Queued(u)' <=> Queued(u)
  BY <1>4, <1>5 DEF Front, Behind, Queued, Waiting, Holding, Given
<1>8. Front(s)' /\ ~Behind(s)' /\ Queued(s)'
  <2>1. Waiting(s) /\ Waiting(s)'
    BY <1>3, <1>4 DEF Behind, Waiting
  <2>2. Given(s)'
    BY <1>3, <1>4, <1>5, <2>1 DEF Waiting, Given, Behind, QueueInv, FlagInv
  <2>3. QED
    BY <2>1, <2>2 DEF Front, Behind, Queued
<1>9. FlagInv'
  <2>1. ASSUME NEW u \in Threads, u # s
        PROVE  /\ pc'[u] = "link" => flag'[u]["ready"] = "zero"
               /\ pc'[u] \in {"notify", "readyCheck", "readyStore"} =>
                    flag'[u]["ready"] \in {"zero", "set"}
               /\ pc'[u] = "readySleep" => flag'[u]["ready"] = "event"
               /\ Waiting(u)' => flag'[u]["next"] # "event"
    BY <1>4, <1>5, <2>1 DEF QueueInv, FlagInv, Waiting
  <2>2. /\ pc'[s] # "link"
        /\ pc'[s] \in {"notify", "readyCheck", "readyStore"} =>
             flag'[s]["ready"] \in {"zero", "set"}
        /\ pc'[s] = "readySleep" => flag'[s]["ready"] = "event"
        /\ Waiting(s)' => flag'[s]["next"] # "event"
    BY <1>3, <1>4, <1>5 DEF QueueInv, FlagInv, Waiting
  <2>3. QED
    BY <2>1, <2>2 DEF FlagInv
(* The thread that leaves has no other successor. *)
<1>10. \A u \in Threads : Behind(u) /\ u # s => pred[u] # t
  BY <1>3 DEF QueueInv, PredInv
<1>11. tail # t
  BY <1>3 DEF QueueInv, PredInv
<1>12. TailInv'
  <2>1. tail # Nil
    BY <1>2 DEF QueueInv, TailInv
  <2>2. tail \in Threads \ {t} /\ Queued(tail)
    BY <1>11, <2>1 DEF TypeOK, QueueInv, TailInv
  <2>3. \A u \in Threads \ {t} : Queued(u) => Queued(u)'
    BY <1>7, <1>8
  <2>4. tail' = tail
    BY <1>1
  <2>5. Queued(tail)'
    BY <2>2, <2>3, <2>4 DEF Queued, Waiting, Holding
  <2>6. QED
    BY <2>1, <2>4, <2>5 DEF TailInv
<1>13. PredInv'
  <2>1. \A u \in Threads : Behind(u)' => Behind(u) /\ u # s
    BY <1>6, <1>7, <1>8
  <2>2. \A u \in Threads : Behind(u)' => pred[u] \in Threads \ {t} /\ Queued(pred[u]) /\ pred[u] # tail
    BY <1>10, <2>1 DEF QueueInv, PredInv
  <2>3. \A u \in Threads : Behind(u)' => Queued(pred[u])'
    BY <1>1, <1>7, <1>8, <2>2
  <2>4. \A u, v \in Threads : Behind(u)' /\ Behind(v)' /\ pred[u] = pred[v] => u = v
    BY <2>1 DEF QueueInv, PredInv
  <2>5. QED
    BY <1>1, <2>2, <2>3, <2>4 DEF PredInv
<1>14. FrontInv'
  <2>1. \A u \in Threads : Front(u)' => u = s
    BY <1>2, <1>6, <1>7 DEF QueueInv, FrontInv
  <2>2. QED
    BY <2>1 DEF FrontInv
<1>15. NextInv'
  <2>1. ASSUME NEW u \in Threads, Queued(u)', next[u] # Nil
        PROVE  next[u] \in Threads \ {t, s} /\ Behind(next[u]) /\ pc[next[u]] # "link"
                 /\ pred[next[u]] = u
    <3>1. u # t /\ Queued(u)
      BY <1>3, <1>6, <1>7, <2>1 DEF Behind, Queued
    <3>2. next[u] \in Threads /\ Behind(next[u]) /\ pc[next[u]] # "link" /\ pred[next[u]] = u
      BY <2>1, <3>1 DEF QueueInv, NextInv, TypeOK
    <3>3. next[u] # t /\ next[u] # s
      BY <1>2, <1>3, <3>1, <3>2
    <3>4. QED
      BY <3>2, <3>3
  <2>2. \A u \in Threads : Queued(u)' /\ next[u] # Nil =>
          Behind(next[u])' /\ pc'[next[u]] # "link" /\ pred[next[u]] = u
    BY <1>1, <1>4, <1>7, <2>1
  <2>3. \A u \in Threads : pc'[u] = "notify" => pred[u] # Nil /\ next[pred[u]] # Nil
    BY <1>4 DEF QueueInv, NextInv
  <2>4. \A u \in Threads : pred[u] # Nil => pc'[pred[u]] \notin {"idle", "enter"}
    BY <1>4 DEF QueueInv, NextInv, TypeOK
  <2>5. QED
    BY <1>1, <2>2, <2>3, <2>4 DEF NextInv
<1>16. QED
  BY <1>9, <1>12, <1>13, <1>14, <1>15 DEF QueueInv
----------------------------------------------------------------------------
LEMMA QueueStep ==
  ASSUME ~Win64, NilAssumption, TypeOK, QueueInv, [OnceNext]_onceVars
  PROVE  QueueInv'
<1>1. CASE UNCHANGED onceVars
  BY <1>1 DEF onceVars, vars, lockVars, QueueInv, FlagInv, TailInv, PredInv, FrontInv, NextInv,
              Front, Behind, Queued, Waiting, Holding, Given
<1>2. ASSUME NEW t \in Threads, Plain(t) PROVE QueueInv'
  BY <1>2, PlainQuiet, QuietStep DEF QueueInv
<1>3. ASSUME NEW t \in Threads, LockStep(t) PROVE QueueInv'
  <2>1. CASE Enter(t)
    BY <2>1, EnterQueue
  <2>2. CASE Link(t)
    BY <2>2, LinkQueue
  <2>3. CASE Notify(t)
    BY <2>3, NotifyQuiet, QuietStep DEF QueueInv
  <2>4. CASE ReadyCheck(t) \/ ReadySleep(t) \/ NextCheck(t) \/ NextSleep(t)
    BY <2>4, WaitQuiet, QuietStep DEF QueueInv
  <2>5. CASE ReadyStore(t) \/ NextStore(t)
    BY <2>5, StoreQuiet, QuietStep DEF QueueInv
  <2>6. CASE Unlink(t, "returned")
    BY <2>6, UnlinkQueue
  <2>7. CASE Pass(t, "returned")
    BY <2>7, PassQueue
  <2>8. QED
    BY <1>3, <2>1, <2>2, <2>3, <2>4, <2>5, <2>6, <2>7 DEF LockStep
<1>4. QED
  BY <1>1, <1>2, <1>3, Cases

(* Only the announcement sets nextFlag, and next is set before it. *)
LEMMA NextFlagStep ==
  ASSUME ~Win64, NilAssumption, TypeOK, QueueInv, NextFlagAfterNext, [OnceNext]_onceVars
  PROVE  NextFlagAfterNext'
<1>1. CASE UNCHANGED <<next, flag>>
  BY <1>1 DEF NextFlagAfterNext
<1>2. ASSUME NEW t \in Threads, LockStep(t) PROVE NextFlagAfterNext'
  <2>1. CASE Enter(t)
    <3>1. /\ next' = [next EXCEPT ![t] = Nil]
          /\ flag' = [flag EXCEPT ![t] = [w \in Words |-> IF w = "pad" THEN "zero" ELSE "zero"]]
      BY <2>1 DEF Enter, Queue
    <3>2. /\ flag'[t]["next"] = "zero"
          /\ \A u \in Threads \ {t} : next'[u] = next[u] /\ flag'[u] = flag[u]
      BY <3>1 DEF TypeOK, Words
    <3>3. QED
      BY <3>2 DEF NextFlagAfterNext
  <2>2. CASE Link(t)
    <3>1. next' = [next EXCEPT ![pred[t]] = t] /\ flag' = flag
      BY <2>2 DEF Link
    <3>2. \A u \in Threads : next'[u] = next[u] \/ next'[u] = t
      BY <3>1 DEF TypeOK
    <3>3. QED
      BY <3>1, <3>2, NilAssumption DEF NextFlagAfterNext, NilAssumption
  <2>3. CASE Notify(t)
    <3>1. pc[t] = "notify" /\ next' = next /\ FlagSet(pred[t], "next")
      BY <2>3 DEF Notify, Goto
    <3>2. pred[t] \in Threads /\ next[pred[t]] # Nil
      BY <3>1 DEF QueueInv, NextInv, TypeOK
    <3>3. \A u \in Threads \ {pred[t]} : flag'[u]["next"] = flag[u]["next"]
      BY <3>1, <3>2, SetEffect DEF Words
    <3>4. QED
      BY <3>1, <3>2, <3>3 DEF NextFlagAfterNext
  <2>4. CASE ReadyCheck(t) \/ ReadySleep(t) \/ NextCheck(t) \/ NextSleep(t)
    BY <1>1, <2>4 DEF ReadyCheck, ReadySleep, NextCheck, NextSleep, FlagCheck, FlagSleep, lockVars
  <2>5. CASE ReadyStore(t)
    BY <2>5, StoreEffects DEF Stored, NextFlagAfterNext, Words
  <2>6. CASE NextStore(t)
    <3>1. /\ next' = next
          /\ \A u \in Threads \ {t} : flag'[u]["next"] = flag[u]["next"]
          /\ flag'[t]["next"] = "event" \/ flag'[t]["next"] = flag[t]["next"]
      BY <2>6, StoreEffects DEF Stored, Words
    <3>2. QED
      BY <3>1 DEF NextFlagAfterNext
  <2>7. CASE Unlink(t, "returned")
    BY <1>1, <2>7 DEF Unlink
  <2>8. CASE Pass(t, "returned")
    <3>1. next[t] \in Threads /\ FlagSet(next[t], "ready") /\ next' = next
      BY <2>8 DEF Pass, TypeOK
    <3>2. \A u \in Threads : flag'[u]["next"] = flag[u]["next"]
      BY <3>1, SetEffect DEF Words
    <3>3. QED
      BY <3>1, <3>2 DEF NextFlagAfterNext
  <2>9. QED
    BY <1>2, <2>1, <2>2, <2>3, <2>4, <2>5, <2>6, <2>7, <2>8 DEF LockStep
<1>3. ASSUME NEW t \in Threads, Plain(t) PROVE NextFlagAfterNext'
  BY <1>1, <1>3, PlainEffect DEF lockVars
<1>4. QED
  BY <1>1, <1>2, <1>3, Cases DEF onceVars, vars, lockVars

(* No step of the queue lock begins or ends the routine. *)
LEMMA LockStepLabels ==
  ASSUME ~Win64, TypeOK, NEW t \in Threads, LockStep(t), NEW u \in Threads
  PROVE  pc'[u] = pc[u] \/ {pc[u], pc'[u]} \cap {"init", "publish"} = {}
<1>1. CASE Enter(t) \/ Link(t) \/ Notify(t) \/ Unlink(t, "returned") \/ Pass(t, "returned")
  BY <1>1 DEF Enter, Queue, Link, Notify, Unlink, Pass, Goto, TypeOK
<1>2. CASE ReadyCheck(t) \/ ReadySleep(t) \/ NextCheck(t) \/ NextSleep(t)
  BY <1>2 DEF ReadyCheck, ReadySleep, NextCheck, NextSleep, FlagCheck, FlagSleep, Goto, TypeOK
<1>3. CASE ReadyStore(t) \/ NextStore(t)
  BY <1>3, StoreEffects DEF Stored, TypeOK
<1>4. QED
  BY <1>1, <1>2, <1>3 DEF LockStep

(* A thread that looks again and finds done not set is alone with the lock, *)
(* so that no other thread has run the routine and not said so yet.         *)
LEMMA DoneStep ==
  ASSUME ~Win64, TypeOK, FrontInv, DoneInv, [OnceNext]_onceVars
  PROVE  DoneInv'
<1>1. CASE UNCHANGED onceVars
  BY <1>1 DEF onceVars, vars, DoneInv
<1>2. ASSUME NEW t \in Threads, LockStep(t), UNCHANGED <<done, inits>> PROVE DoneInv'
  <2>1. \A u \in Threads : /\ pc'[u] = "init" <=> pc[u] = "init"
                           /\ pc'[u] = "publish" <=> pc[u] = "publish"
    BY <1>2, LockStepLabels
  <2>2. QED
    BY <1>2, <2>1 DEF DoneInv
<1>3. ASSUME NEW t \in Threads, Plain(t) PROVE DoneInv'
  <2>1. \A u \in Threads \ {t} : pc'[u] = pc[u]
    BY <1>3, PlainEffect
  <2>2. pc[t] \in {"locked", "init", "publish", "finish"} =>
          \A u \in Threads \ {t} : pc[u] \notin {"init", "publish"}
    BY DEF FrontInv, Front, Holding
  <2>3. CASE Call(t) \/ Release(t)
    <3>1. UNCHANGED <<done, inits>> /\ {pc[t], pc'[t]} \cap {"init", "publish"} = {}
      BY <2>3 DEF Call, Release, ReadNext, Goto, TypeOK
    <3>2. QED
      BY <2>1, <3>1 DEF DoneInv
  <2>4. CASE Recheck(t)
    <3>1. /\ UNCHANGED <<done, inits>> /\ pc[t] = "locked"
          /\ pc'[t] = "finish" \/ (~done /\ pc'[t] = "init")
      BY <2>4 DEF Recheck, Goto, TypeOK
    <3>2. ~done => inits = 0
      BY <2>2, <3>1 DEF DoneInv
    <3>3. QED
      BY <2>1, <2>2, <3>1, <3>2 DEF DoneInv
  <2>5. CASE InitReturns(t)
    <3>1. pc[t] = "init" /\ pc'[t] = "publish" /\ inits' = inits + 1 /\ done' = done
      BY <2>5 DEF InitReturns, Goto, TypeOK
    <3>2. inits = 0 /\ inits' = 1
      BY <3>1 DEF DoneInv
    <3>3. QED
      BY <2>1, <2>2, <3>1, <3>2 DEF DoneInv
  <2>6. CASE Publish(t)
    <3>1. pc[t] = "publish" /\ pc'[t] = "finish" /\ inits' = inits /\ done' = TRUE
      BY <2>6 DEF Publish, Goto, TypeOK
    <3>2. QED
      BY <2>1, <2>2, <3>1 DEF DoneInv
  <2>7. CASE InitCancelled(t)
    <3>1. pc[t] = "init" /\ pc'[t] = "finish" /\ UNCHANGED <<done, inits>>
      BY <2>7 DEF InitCancelled, Goto, TypeOK
    <3>2. QED
      BY <2>1, <2>2, <3>1 DEF DoneInv
  <2>8. QED
    BY <1>3, <2>3, <2>4, <2>5, <2>6, <2>7 DEF Plain
<1>4. QED
  BY <1>1, <1>2, <1>3, Cases
----------------------------------------------------------------------------
(* The inductive invariant, where flags are accessed in their own width. *)
THEOREM OnceInvariant == ASSUME ~Win64 PROVE OnceSpec => []OnceInv
<1>1. OnceInit => OnceInv
  BY InitHolds
<1>2. OnceInv /\ [OnceNext]_onceVars => OnceInv'
  BY NilAssumption, TypeStep, QueueStep, NextFlagStep, DoneStep DEF OnceInv, QueueInv
<1>3. QED
  BY <1>1, <1>2, PTL DEF OnceSpec

(* One thread at a time has the queue lock, however many queue for it       *)
(* (ptw32_MCS_lock.c) and whichever are cancelled in the routine.           *)
THEOREM QueueLockExcludes == ASSUME ~Win64 PROVE OnceSpec => []MutualExclusion
<1>1. OnceInv => MutualExclusion
  BY DEF OnceInv, QueueInv, FrontInv, Front, MutualExclusion
<1>2. QED
  BY <1>1, OnceInvariant, PTL

(* A successor that has not linked itself yet stores its link in a node     *)
(* that is in use: the release waits for it (ptw32_MCS_lock.c:199,          *)
(* 224-249).                                                                *)
THEOREM LinkedInUse == ASSUME ~Win64 PROVE OnceSpec => []LinksNodeInUse
<1>1. ASSUME OnceInv, NEW t \in Threads, pc[t] = "link" PROVE pc[pred[t]] # "returned"
  <2>1. Behind(t)
    BY <1>1 DEF OnceInv, QueueInv, FlagInv, Behind, Given, Waiting
  <2>2. Queued(pred[t])
    BY <1>1, <2>1 DEF OnceInv, QueueInv, PredInv
  <2>3. QED
    BY <2>2 DEF Queued, Waiting, Holding
<1>2. OnceInv => LinksNodeInUse
  BY <1>1 DEF LinksNodeInUse
<1>3. QED
  BY <1>2, OnceInvariant, PTL

(* The routine runs to its end once, and done is set after it and not       *)
(* before (pthread_once.c).                                                 *)
THEOREM RunsOnce == ASSUME ~Win64 PROVE OnceSpec => []ExactlyOnce
<1>1. OnceInv => ExactlyOnce
  BY DEF OnceInv, DoneInv, ExactlyOnce
<1>2. QED
  BY <1>1, OnceInvariant, PTL
=============================================================================
