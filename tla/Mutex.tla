------------------------------- MODULE Mutex -------------------------------
(***************************************************************************)
(* The mutex of win_pthreads (pthread_mutex_lock.c, _trylock.c,            *)
(* _timedlock.c and _unlock.c): one initialised pthread_mutex_t used by a  *)
(* set of threads.  Every access to the shared word lock_idx is one        *)
(* interlocked instruction and so one action; the wait on the auto-reset   *)
(* Windows event, its wake-up and its timeout are actions of their own.    *)
(*                                                                         *)
(* lock_idx is 0 when the mutex is free, 1 when it is held and nobody has  *)
(* announced a wait, -1 when somebody may be waiting on the event.  A      *)
(* NORMAL mutex is taken by exchanging 1 into the word whatever it held,   *)
(* so a newcomer may erase the -1 of an earlier waiter before it puts its  *)
(* own -1 back: this is where a wake-up could be lost.                     *)
(*                                                                         *)
(* The clients are any threads that call these functions, with the one     *)
(* restriction pthread_mutex_unlock.c states (52-56): a NORMAL mutex is    *)
(* not unlocked while another thread holds it.                             *)
(***************************************************************************)
EXTENDS Integers

CONSTANTS
  Threads,    \* the threads that use the mutex
  Null,       \* ownerThread.p of a mutex nobody owns
  MaxDepth    \* bound on recursive acquisitions by one thread

ASSUME NullAssumption  == Null \notin Threads
ASSUME DepthAssumption == MaxDepth \in Nat \ {0}

VARIABLES
  kind,       \* mx->kind, fixed when the mutex is initialised
  lockIdx,    \* mx->lock_idx
  event,      \* state of the auto-reset event mx->event
  owner,      \* mx->ownerThread
  count,      \* mx->recursive_count
  pc,         \* where each thread is inside a call
  timed,      \* the call in progress is pthread_mutex_timedlock
  held,       \* the acquisitions each client has been granted and not undone
  ret         \* what each client's last call returned

vars == <<kind, lockIdx, event, owner, count, pc, timed, held, ret>>

Kinds   == {"NORMAL", "RECURSIVE", "ERRORCHECK"}
Labels  == {"idle", "check", "tryCheck", "swap", "wait", "own", "disown",
            "release", "signal"}
Results == {"ok", "EBUSY", "ETIMEDOUT", "EDEADLK", "EPERM"}

Init ==
  /\ kind \in Kinds
  /\ lockIdx = 0
  /\ event = FALSE
  /\ owner = Null
  /\ count = 0
  /\ pc    = [t \in Threads |-> "idle"]
  /\ timed = [t \in Threads |-> FALSE]
  /\ held  = [t \in Threads |-> 0]
  /\ ret   = [t \in Threads |-> "ok"]

(* Control: a call begins, moves on inside the library, and returns. *)
Begin(t, to, tm) ==
  /\ pc[t] = "idle"
  /\ pc' = [pc EXCEPT ![t] = to]
  /\ timed' = [timed EXCEPT ![t] = tm]
  /\ ret' = [ret EXCEPT ![t] = "ok"]

Goto(t, from, to) ==
  /\ pc[t] = from
  /\ pc' = [pc EXCEPT ![t] = to]
  /\ UNCHANGED <<timed, ret>>

Return(t, from, result) ==
  /\ pc[t] = from
  /\ pc' = [pc EXCEPT ![t] = "idle"]
  /\ timed' = [timed EXCEPT ![t] = FALSE]
  /\ ret' = [ret EXCEPT ![t] = result]

(* The call returns and the client holds the mutex once more. *)
Granted(t, from) ==
  /\ Return(t, from, "ok")
  /\ held' = [held EXCEPT ![t] = @ + 1]

(* Mutant: a newcomer waits without putting -1 back. *)
LockNormalUnmarked(t, tm) ==
  /\ kind = "NORMAL"
  /\ held[t] = 0 \/ tm
  /\ lockIdx' = 1
  /\ \/ lockIdx = 0 /\ Granted(t, "idle")
     \/ lockIdx # 0 /\ Begin(t, "wait", tm) /\ UNCHANGED held
  /\ UNCHANGED <<kind, event, owner, count>>

(***************************************************************************)
(* pthread_mutex_lock and pthread_mutex_timedlock (tm): the first          *)
(* interlocked access.  A client does not relock a NORMAL mutex it holds   *)
(* except with a timeout, since that call could never return.              *)
(***************************************************************************)
LockNormal(t, tm) ==
  /\ kind = "NORMAL"
  /\ held[t] = 0 \/ tm
  /\ lockIdx' = 1
  /\ \/ lockIdx = 0 /\ Granted(t, "idle")
     \/ lockIdx # 0 /\ Begin(t, "swap", tm) /\ UNCHANGED held
  /\ UNCHANGED <<kind, event, owner, count>>

LockOwned(t, tm) ==
  /\ kind # "NORMAL"
  /\ held[t] < MaxDepth
  /\ \/ lockIdx = 0 /\ lockIdx' = 1 /\ Begin(t, "own", tm)
     \/ lockIdx # 0 /\ UNCHANGED lockIdx /\ Begin(t, "check", tm)
  /\ UNCHANGED <<kind, event, owner, count, held>>

(* The word was taken: is it this thread's own lock?  (no lock protects     *)
(* this read of ownerThread)                                                *)
CheckOwner(t) ==
  /\ \/ owner = t /\ kind = "RECURSIVE" /\ count' = count + 1
        /\ Granted(t, "check")
     \/ owner = t /\ kind = "ERRORCHECK" /\ Return(t, "check", "EDEADLK")
        /\ UNCHANGED <<count, held>>
     \/ owner # t /\ Goto(t, "check", "swap") /\ UNCHANGED <<count, held>>
  /\ UNCHANGED <<kind, lockIdx, event, owner>>

(* The loop shared by all kinds: announce a wait, and take the mutex if it *)
(* turns out to be free.                                                   *)
Swap(t) ==
  /\ lockIdx' = -1
  /\ \/ lockIdx = 0 /\ kind = "NORMAL" /\ Granted(t, "swap")
     \/ lockIdx = 0 /\ kind # "NORMAL" /\ Goto(t, "swap", "own") /\ UNCHANGED held
     \/ lockIdx # 0 /\ Goto(t, "swap", "wait") /\ UNCHANGED held
  /\ UNCHANGED <<kind, event, owner, count>>

(* Mutant: a woken thread takes the mutex for granted. *)
WakeOwning(t) ==
  /\ event
  /\ event' = FALSE
  /\ Granted(t, "wait")
  /\ UNCHANGED <<kind, lockIdx, owner, count>>

Wake(t) ==
  /\ event
  /\ event' = FALSE
  /\ Goto(t, "wait", "swap")
  /\ UNCHANGED <<kind, lockIdx, owner, count, held>>

TimeOut(t) ==
  /\ timed[t]
  /\ ~event
  /\ Return(t, "wait", "ETIMEDOUT")
  /\ UNCHANGED <<kind, lockIdx, event, owner, count, held>>

Own(t) ==
  /\ count' = 1
  /\ owner' = t
  /\ Granted(t, "own")
  /\ UNCHANGED <<kind, lockIdx, event>>

(***************************************************************************)
(* pthread_mutex_trylock: one compare-and-swap, never a wait.              *)
(***************************************************************************)
TryLock(t) ==
  /\ held[t] < MaxDepth
  /\ \/ lockIdx = 0 /\ lockIdx' = 1 /\ kind = "NORMAL" /\ Granted(t, "idle")
     \/ lockIdx = 0 /\ lockIdx' = 1 /\ kind # "NORMAL" /\ Begin(t, "own", FALSE)
        /\ UNCHANGED held
     \/ lockIdx # 0 /\ kind = "RECURSIVE" /\ Begin(t, "tryCheck", FALSE)
        /\ UNCHANGED <<lockIdx, held>>
     \/ lockIdx # 0 /\ kind # "RECURSIVE" /\ Return(t, "idle", "EBUSY")
        /\ UNCHANGED <<lockIdx, held>>
  /\ UNCHANGED <<kind, event, owner, count>>

TryCheckOwner(t) ==
  /\ \/ owner = t /\ count' = count + 1 /\ Granted(t, "tryCheck")
     \/ owner # t /\ Return(t, "tryCheck", "EBUSY") /\ UNCHANGED <<count, held>>
  /\ UNCHANGED <<kind, lockIdx, event, owner>>

(***************************************************************************)
(* pthread_mutex_unlock.  The exchange with 0 is where the mutex becomes   *)
(* free; SetEvent follows it, after the client has given the mutex up.     *)
(***************************************************************************)
UnlockNormal(t) ==
  /\ kind = "NORMAL"
  /\ held[t] > 0
  /\ lockIdx' = 0
  /\ held' = [held EXCEPT ![t] = 0]
  /\ \/ lockIdx < 0 /\ Begin(t, "signal", FALSE)
     \/ lockIdx > 0 /\ Return(t, "idle", "ok")
     \/ lockIdx = 0 /\ Return(t, "idle", "EPERM")
  /\ UNCHANGED <<kind, event, owner, count>>

(* The same exchange by a thread that does not hold the mutex, at a moment  *)
(* when nobody does.                                                        *)
UnlockFree(t) ==
  /\ kind = "NORMAL"
  /\ lockIdx = 0
  /\ Return(t, "idle", "EPERM")
  /\ UNCHANGED <<kind, lockIdx, event, owner, count, held>>

(* Mutant: the first unlock of a recursive mutex frees it.                  *)
UnlockAtOnce(t) ==
  /\ kind # "NORMAL"
  /\ \/ owner # t /\ Return(t, "idle", "EPERM")
     \/ owner = t /\ Begin(t, "disown", FALSE)
  /\ UNCHANGED <<kind, lockIdx, event, owner, count, held>>

UnlockOwned(t) ==
  /\ kind # "NORMAL"
  /\ \/ owner # t /\ Return(t, "idle", "EPERM") /\ UNCHANGED <<count, held>>
     \/ owner = t /\ kind = "ERRORCHECK" /\ Begin(t, "disown", FALSE)
        /\ UNCHANGED <<count, held>>
     \/ /\ owner = t /\ kind = "RECURSIVE"
        /\ count' = count - 1
        /\ \/ count' = 0 /\ Begin(t, "disown", FALSE) /\ UNCHANGED held
           \/ count' # 0 /\ Return(t, "idle", "ok")
              /\ held' = [held EXCEPT ![t] = @ - 1]
  /\ UNCHANGED <<kind, lockIdx, event, owner>>

(* Mutant: the owner is not reset. *)
DisownForgotten(t) ==
  /\ Goto(t, "disown", "release")
  /\ UNCHANGED <<kind, lockIdx, event, owner, count, held>>

Disown(t) ==
  /\ owner' = Null
  /\ Goto(t, "disown", "release")
  /\ UNCHANGED <<kind, lockIdx, event, count, held>>

(* Mutant: the mutex is freed without looking for waiters. *)
ReleaseQuietly(t) ==
  /\ lockIdx' = 0
  /\ held' = [held EXCEPT ![t] = 0]
  /\ Return(t, "release", "ok")
  /\ UNCHANGED <<kind, event, owner, count>>

Release(t) ==
  /\ lockIdx' = 0
  /\ held' = [held EXCEPT ![t] = 0]
  /\ \/ lockIdx < 0 /\ Goto(t, "release", "signal")
     \/ lockIdx >= 0 /\ Return(t, "release", "ok")
  /\ UNCHANGED <<kind, event, owner, count>>

Signal(t) ==
  /\ event' = TRUE
  /\ Return(t, "signal", "ok")
  /\ UNCHANGED <<kind, lockIdx, owner, count, held>>

(***************************************************************************)
(* A call starts in Start; inside a call the library runs Step.            *)
(***************************************************************************)
Unlock(t) == UnlockNormal(t) \/ UnlockFree(t) \/ UnlockOwned(t)

Start(t) ==
  \/ \E tm \in BOOLEAN : LockNormal(t, tm) \/ LockOwned(t, tm)
  \/ TryLock(t)
  \/ Unlock(t)

Step(t) ==
  \/ CheckOwner(t) \/ Swap(t) \/ Wake(t) \/ TimeOut(t) \/ Own(t)
  \/ TryCheckOwner(t) \/ Disown(t) \/ Release(t) \/ Signal(t)

Next == \E t \in Threads : Start(t) \/ Step(t)

Spec == Init /\ [][Next]_vars

(* The scheduler lets every thread inside a call run on, and a client that *)
(* keeps coming back to the mutex eventually unlocks it, at every depth of *)
(* its recursion.  A wait goes on when the event is set; it is obliged to   *)
(* time out only where a holder waits for its own NORMAL mutex, for which  *)
(* there is nobody else to set the event.                                  *)
Fairness ==
  \A t \in Threads :
    /\ WF_vars(Step(t) /\ (pc[t] = "wait" => event \/ held[t] > 0))
    /\ \A n \in 1 .. MaxDepth : SF_vars(held[t] = n /\ Unlock(t))

LiveSpec == Spec /\ Fairness

----------------------------------------------------------------------------
TypeOK ==
  /\ kind \in Kinds
  /\ lockIdx \in {-1, 0, 1}
  /\ event \in BOOLEAN
  /\ owner \in Threads \cup {Null}
  /\ count \in Nat
  /\ pc \in [Threads -> Labels]
  /\ timed \in [Threads -> BOOLEAN]
  /\ held \in [Threads -> Nat]
  /\ ret \in [Threads -> Results]

(* A thread is past the instruction that took the mutex. *)
Inside(t) == held[t] > 0 \/ pc[t] = "own"

(* Mutual exclusion, and the word lock_idx tells it: at most one thread is  *)
(* past the exchange that took the mutex, and the word is 0 exactly when    *)
(* there is none (lock, timedlock and trylock against unlock).              *)
MutualExclusion ==
  /\ \A t, u \in Threads : Inside(t) /\ Inside(u) => t = u
  /\ lockIdx = 0 <=> \A t \in Threads : ~Inside(t)

(* No wake-up is lost: when a thread waits for the event, either the event  *)
(* is set, or the holder will see -1 and set it, or a thread is about to    *)
(* set the event or to put -1 back (the exchanges in pthread_mutex_lock.c   *)
(* and the SetEvent in pthread_mutex_unlock.c).                             *)
NoLostWakeup ==
  (\E t \in Threads : pc[t] = "wait")
    => event \/ lockIdx < 0 \/ \E u \in Threads : pc[u] \in {"swap", "signal"}

(* For the kinds that record an owner: between calls a client holds the     *)
(* mutex exactly when ownerThread says so, as often as recursive_count      *)
(* says, although both fields are read and written without a lock.          *)
OwnerTracksHolder ==
  kind # "NORMAL" =>
    \A t \in Threads : pc[t] \notin {"own", "disown", "release"} =>
      /\ held[t] > 0 <=> owner = t
      /\ held[t] > 0 => held[t] = count

(* The error codes are true: EDEADLK is returned only to a holder, EPERM    *)
(* only to a thread that does not hold the mutex, and a RECURSIVE mutex     *)
(* never answers EBUSY or ETIMEDOUT to its own holder.                      *)
ErrorsAreTrue ==
  \A t \in Threads : pc[t] = "idle" =>
    /\ ret[t] = "EDEADLK" => held[t] > 0
    /\ ret[t] = "EPERM" => held[t] = 0
    /\ ret[t] \in {"EBUSY", "ETIMEDOUT"} /\ kind = "RECURSIVE" => held[t] = 0

(* The mutex implements the lock it promises to be. *)
LockImpl == INSTANCE Lock
ImplementsLock == LockImpl!Spec

(* A thread that waits for a mutex with an owner is signalled in the end.   *)
(* For a NORMAL mutex that much is not true: each newcomer overwrites -1,   *)
(* so while newcomers keep arriving the holder's unlock may find 1 every    *)
(* time and signal nobody; a waiter is then signalled unless newcomers      *)
(* overtake it.                                                             *)
Overtaken == kind = "NORMAL" /\ \E u \in Threads : pc[u] = "swap"

WaiterIsSignalled ==
  \A t \in Threads : pc[t] = "wait" ~> (event \/ pc[t] # "wait" \/ Overtaken)
=============================================================================
