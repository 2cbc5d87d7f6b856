------------------------------ MODULE SpinLock ------------------------------
(***************************************************************************)
(* The spin lock of win_pthreads (pthread_spin_*.c) from its static        *)
(* initialiser to its destruction.  A lock with the static value is        *)
(* initialised by its first user, in a section that also guards the        *)
(* destruction of a lock nobody has used; the section is one step here.    *)
(* The pointer to the lock is read without it, several times in a call.    *)
(*                                                                         *)
(* On one processor the lock is a mutex of its own, which is what module   *)
(* Lock says of it.  How many processors there are is asked anew for each  *)
(* lock.                                                                   *)
(*                                                                         *)
(* Clients: only a holder unlocks.  An initialised lock is destroyed when  *)
(* no other thread is inside a call, and no call begins meanwhile          *)
(* (pthread_spin_destroy.c:78); a static one at any time.  One thread at a *)
(* time destroys.                                                          *)
(***************************************************************************)
EXTENDS Naturals

CONSTANTS
  Threads,
  Static,      \* PTHREAD_SPINLOCK_INITIALIZER
  Null,        \* the null pointer
  MaxObjects   \* bound on the locks that are allocated

ASSUME BoundAssumption == MaxObjects \in Nat
ASSUME NullAssumption  == Null \notin Threads
ASSUME WordAssumption  == Static # Null /\ {Static, Null} \cap (1 .. MaxObjects) = {}

VARIABLES
  lock,        \* *lock: Static, Null or an allocated lock
  made,        \* how many were allocated; the first ones are in use
  interlock,   \* s->interlock of each
  owner,       \* s->u.mutex of each: who holds it, or Null
  pc,
  call,        \* which of the two functions that lock it
  seen,        \* the local variable s
  held,        \* the lock each client was granted and has not given back
  asked        \* the call of a thread has gone to the section

vars == <<lock, made, interlock, owner, pc, call, seen, held, asked>>

Objects == 1 .. MaxObjects

Calls == {"lock", "trylock"}

Init ==
  /\ lock = Static
  /\ made = 0
  /\ interlock = [s \in Objects |-> "unlocked"]
  /\ owner = [s \in Objects |-> Null]
  /\ pc    = [t \in Threads |-> "idle"]
  /\ call  = [t \in Threads |-> "lock"]
  /\ seen  = [t \in Threads |-> Null]
  /\ held  = [t \in Threads |-> Null]
  /\ asked = [t \in Threads |-> FALSE]

Idle(t)   == pc[t] = "idle"
Return(t) == pc' = [pc EXCEPT ![t] = "idle"]
Continue(t, label) == pc' = [pc EXCEPT ![t] = label]

Destroying == \E t \in Threads : pc[t] \in {"destroyStatic", "invalidate", "clear"}

(***************************************************************************)
(* pthread_spin_init.                                                      *)
(***************************************************************************)
Make ==
  /\ made < MaxObjects
  /\ made' = made + 1
  /\ lock' = made'
  /\ \E kind \in {"unlocked", "mutex"} : interlock' = [interlock EXCEPT ![made'] = kind]

(* Without memory *lock stays as it is, and without a mutex it becomes null. *)
MakeFails == lock' \in {lock, Null} /\ UNCHANGED <<made, interlock>>

Initialise(t) ==
  /\ lock = Null
  /\ \A u \in Threads : Idle(u)
  /\ Make \/ MakeFails
  /\ UNCHANGED <<owner, pc, call, seen, held, asked>>

(***************************************************************************)
(* pthread_spin_lock and pthread_spin_trylock.  A call on a null pointer   *)
(* returns EINVAL and changes nothing.                                     *)
(***************************************************************************)
Call(t) ==
  /\ Idle(t) /\ held[t] = Null
  /\ lock # Null
  /\ ~\E u \in Threads : pc[u] \in {"invalidate", "clear"}
  /\ Continue(t, "look")
  /\ \E c \in Calls : call' = [call EXCEPT ![t] = c]
  /\ UNCHANGED <<lock, made, interlock, owner, seen, held, asked>>

Look(t) ==
  /\ pc[t] = "look"
  /\ Continue(t, IF lock = Static THEN "first" ELSE "load")
  /\ asked' = [asked EXCEPT ![t] = lock = Static]
  /\ UNCHANGED <<lock, made, interlock, owner, call, seen, held>>

(* Mutant: what was read before the section is taken for true in it. *)
FirstUseUnchecked(t) ==
  /\ pc[t] = "first"
  /\ Make
  /\ Continue(t, "load")
  /\ UNCHANGED <<owner, call, seen, held, asked>>

(* Mutant: a call that finds the lock destroyed goes on. *)
FirstUseGoesOn(t) ==
  /\ pc[t] = "first"
  /\ \/ lock = Static /\ Make
     \/ lock # Static /\ UNCHANGED <<lock, made, interlock>>
  /\ Continue(t, "load")
  /\ UNCHANGED <<owner, call, seen, held, asked>>

(* ptw32_spinlock_check_need_init, and the error return of its caller. *)
FirstUse(t) ==
  /\ pc[t] = "first"
  /\ \/ lock = Static /\ Make /\ Continue(t, "load")
     \/ lock = Static /\ MakeFails /\ Return(t)
     \/ lock = Null /\ Return(t) /\ UNCHANGED <<lock, made, interlock>>
     \/ /\ lock \notin {Static, Null} /\ Continue(t, "load")
        /\ UNCHANGED <<lock, made, interlock>>
  /\ UNCHANGED <<owner, call, seen, held, asked>>

(* The null pointer passed the test of the first read, and is used. *)
Load(t) ==
  /\ pc[t] = "load"
  /\ seen' = [seen EXCEPT ![t] = lock]
  /\ Continue(t, IF lock = Null THEN "fault" ELSE "exchange")
  /\ UNCHANGED <<lock, made, interlock, owner, call, held, asked>>

(* One compare-and-swap.  Where the lock is taken, the loop goes round. *)
ExchangeLock(t) ==
  /\ pc[t] = "exchange" /\ call[t] = "lock"
  /\ interlock[seen[t]] # "locked"
  /\ interlock' = [interlock EXCEPT ![seen[t]] = IF @ = "unlocked" THEN "locked" ELSE @]
  /\ Continue(t, "confirm")
  /\ UNCHANGED <<lock, made, owner, call, seen, held, asked>>

Confirm(t) ==
  /\ pc[t] = "confirm"
  /\ \/ /\ interlock[seen[t]] = "locked"
        /\ held' = [held EXCEPT ![t] = seen[t]] /\ Return(t)
     \/ interlock[seen[t]] = "mutex" /\ Continue(t, "mutex") /\ UNCHANGED held
     \/ interlock[seen[t]] \notin {"locked", "mutex"} /\ Return(t) /\ UNCHANGED held
  /\ UNCHANGED <<lock, made, interlock, owner, call, seen, asked>>

LockMutex(t) ==
  /\ pc[t] = "mutex"
  /\ owner[seen[t]] = Null
  /\ owner' = [owner EXCEPT ![seen[t]] = t]
  /\ held' = [held EXCEPT ![t] = seen[t]]
  /\ Return(t)
  /\ UNCHANGED <<lock, made, interlock, call, seen, asked>>

(* Taken if it is free, with the mutex tried where there is one. *)
ExchangeTry(t) ==
  /\ pc[t] = "exchange" /\ call[t] = "trylock"
  /\ Return(t)
  /\ \/ /\ interlock[seen[t]] = "unlocked"
        /\ interlock' = [interlock EXCEPT ![seen[t]] = "locked"]
        /\ held' = [held EXCEPT ![t] = seen[t]] /\ UNCHANGED owner
     \/ /\ interlock[seen[t]] = "mutex" /\ owner[seen[t]] = Null
        /\ owner' = [owner EXCEPT ![seen[t]] = t]
        /\ held' = [held EXCEPT ![t] = seen[t]] /\ UNCHANGED interlock
     \/ /\ \/ interlock[seen[t]] \in {"locked", "invalid"}
           \/ interlock[seen[t]] = "mutex" /\ owner[seen[t]] # Null
        /\ UNCHANGED <<interlock, owner, held>>
  /\ UNCHANGED <<lock, made, call, seen, asked>>

(* pthread_spin_unlock finds the lock by the pointer, as every call does. *)
Unlock(t) ==
  /\ Idle(t) /\ held[t] # Null
  /\ lock \in Objects
  /\ \/ /\ interlock[lock] = "locked"
        /\ interlock' = [interlock EXCEPT ![lock] = "unlocked"] /\ UNCHANGED owner
     \/ /\ interlock[lock] = "mutex"
        /\ owner' = [owner EXCEPT ![lock] = Null] /\ UNCHANGED interlock
  /\ held' = [held EXCEPT ![t] = Null]
  /\ UNCHANGED <<lock, made, pc, call, seen, asked>>

(***************************************************************************)
(* pthread_spin_destroy.                                                   *)
(***************************************************************************)
DestroyCall(t) ==
  /\ Idle(t) /\ ~Destroying
  /\ \/ lock = Static /\ Continue(t, "destroyStatic")
     \/ /\ lock \in Objects /\ \A u \in Threads : Idle(u)
        /\ Continue(t, "invalidate")
  /\ seen' = [seen EXCEPT ![t] = lock]
  /\ UNCHANGED <<lock, made, interlock, owner, call, held, asked>>

(* Mutant: no second look inside the section. *)
DestroyStaticUnchecked(t) ==
  /\ pc[t] = "destroyStatic"
  /\ lock' = Null
 
  /\ Return(t)
  /\ UNCHANGED <<made, interlock, owner, call, seen, held, asked>>

(* A lock that has been initialised meanwhile is assumed to be in use. *)
DestroyStatic(t) ==
  /\ pc[t] = "destroyStatic"
  /\ \/ lock = Static /\ lock' = Null
     \/ lock # Static /\ UNCHANGED lock
  /\ Return(t)
  /\ UNCHANGED <<made, interlock, owner, call, seen, held, asked>>

(* A lock that is taken is refused, whichever way it is taken. *)
Invalidate(t) ==
  /\ pc[t] = "invalidate"
  /\ \/ /\ interlock[seen[t]] = "unlocked"
        /\ interlock' = [interlock EXCEPT ![seen[t]] = "invalid"] /\ Continue(t, "clear")
     \/ /\ interlock[seen[t]] = "mutex" /\ owner[seen[t]] = Null
        /\ UNCHANGED interlock /\ Continue(t, "clear")
     \/ /\ \/ interlock[seen[t]] \in {"locked", "invalid"}
           \/ interlock[seen[t]] = "mutex" /\ owner[seen[t]] # Null
        /\ UNCHANGED interlock /\ Return(t)
  /\ UNCHANGED <<lock, made, owner, call, seen, held, asked>>

Clear(t) ==
  /\ pc[t] = "clear"
  /\ lock' = Null
  /\ Return(t)
  /\ UNCHANGED <<made, interlock, owner, call, seen, held, asked>>

(* The use of a null pointer ends the process. *)
Running == \A t \in Threads : pc[t] # "fault"

Next ==
  /\ Running
  /\ \E t \in Threads :
       \/ Initialise(t) \/ Call(t) \/ Look(t) \/ FirstUse(t) \/ Load(t)
       \/ ExchangeLock(t) \/ Confirm(t) \/ LockMutex(t) \/ ExchangeTry(t) \/ Unlock(t)
       \/ DestroyCall(t) \/ DestroyStatic(t) \/ Invalidate(t) \/ Clear(t)

Spec == Init /\ [][Next]_vars
----------------------------------------------------------------------------
Labels == {"idle", "look", "first", "load", "exchange", "confirm", "mutex", "fault",
           "destroyStatic", "invalidate", "clear"}

TypeOK ==
  /\ lock \in Objects \cup {Static, Null}
  /\ made \in 0 .. MaxObjects
  /\ interlock \in [Objects -> {"unlocked", "locked", "mutex", "invalid"}]
  /\ owner \in [Objects -> Threads \cup {Null}]
  /\ pc    \in [Threads -> Labels]
  /\ call  \in [Threads -> Calls]
  /\ seen  \in [Threads -> Objects \cup {Static, Null}]
  /\ held  \in [Threads -> Objects \cup {Null}]
  /\ asked \in [Threads -> BOOLEAN]

(* A lock that a client holds is the one *lock points to, and is neither    *)
(* free nor destroyed, whoever initialised or tried to destroy it: the      *)
(* holder's unlock will find it.                                            *)
HeldIsThere ==
  \A t \in Threads : held[t] # Null =>
    /\ lock = held[t]
    /\ interlock[lock] = "locked" \/ (interlock[lock] = "mutex" /\ owner[lock] = t)

(* "If we get to here, another thread waiting to initialise this mutex will *)
(* get an EINVAL" (pthread_spin_destroy.c): of the calls that met the       *)
(* static value, none uses a null pointer, whoever destroyed the lock or    *)
(* failed to initialise it.  A call that read the value once and met null   *)
(* the second time does use it.                                             *)
WaitersGetAnError == \A t \in Threads : asked[t] => pc[t] # "fault"

(* Whoever initialises it, and on one processor or several, the lock is a   *)
(* lock: one holder at a time, who has given it back once for each time it  *)
(* was granted.                                                             *)
LockImpl == INSTANCE Lock WITH held <- [t \in Threads |-> IF held[t] = Null THEN 0 ELSE 1]

ImplementsLock == LockImpl!Spec
=============================================================================
