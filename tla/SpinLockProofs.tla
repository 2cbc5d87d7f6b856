--------------------------- MODULE SpinLockProofs ---------------------------
(***************************************************************************)
(* Safety of the spin lock for every set of threads and every number of    *)
(* allocations.                                                            *)
(*                                                                         *)
(* HeldIsThere is not inductive: it does not know that a thread which is   *)
(* about to be granted the lock, or about to free it, has looked at the    *)
(* lock that *lock still points to, nor that a thread whose exchange took  *)
(* the lock is alone before it says so.                                    *)
(***************************************************************************)
EXTENDS SpinLock, TLAPS

(* Allocations not made yet. *)
MadeInv ==
  /\ lock \in Objects => lock <= made
  /\ \A s \in Objects : s > made => owner[s] = Null

(* A call works on the lock that *lock points to, and a destroyer is alone. *)
UseInv == \A t \in Threads :
  /\ pc[t] \in {"exchange", "confirm", "mutex", "invalidate", "clear"} =>
       lock \in Objects /\ seen[t] = lock
  /\ pc[t] \in {"invalidate", "clear"} => \A u \in Threads \ {t} : Idle(u)
  /\ pc[t] = "clear" =>
       interlock[lock] = "invalid" \/ (interlock[lock] = "mutex" /\ owner[lock] = Null)
  /\ pc[t] = "confirm" => interlock[lock] # "unlocked"
  /\ pc[t] = "mutex" => interlock[lock] = "mutex"
  /\ pc[t] \notin {"idle", "invalidate"} => held[t] = Null

(* Who has taken a locked word, and may not have said so yet. *)
Taking(t) == held[t] # Null \/ pc[t] = "confirm"

TakenInv ==
  lock \in Objects /\ interlock[lock] = "locked" =>
    \A t, u \in Threads : Taking(t) /\ Taking(u) => t = u

(* A call that asked for the initialisation goes on with a lock only. *)
AskInv == \A t \in Threads :
  /\ pc[t] = "load" => lock # Static
  /\ pc[t] = "load" /\ asked[t] => lock \in Objects
  /\ pc[t] = "first" => asked[t]

SpinInv ==
  TypeOK /\ MadeInv /\ UseInv /\ TakenInv /\ AskInv /\ HeldIsThere /\ WaitersGetAnError
----------------------------------------------------------------------------
LEMMA Words ==
  /\ Static \notin Objects /\ Null \notin Objects /\ Static # Null /\ Null \notin Threads
  /\ \A s \in Objects : s \in Nat
  BY WordAssumption, NullAssumption, BoundAssumption DEF Objects

(* A new lock is one that nobody has seen. *)
LEMMA MakeEffect ==
  ASSUME TypeOK, MadeInv, Make
  PROVE  /\ lock' \in Objects /\ made' \in 0 .. MaxObjects
         /\ interlock' \in [Objects -> {"unlocked", "locked", "mutex", "invalid"}]
         /\ interlock'[lock'] \in {"unlocked", "mutex"}
         /\ owner[lock'] = Null
         /\ owner' = owner => MadeInv'
<1>1. made + 1 \in Objects /\ lock' = made + 1 /\ made' = made + 1
  BY BoundAssumption DEF Make, TypeOK, Objects
<1>2. PICK kind \in {"unlocked", "mutex"} : interlock' = [interlock EXCEPT ![made + 1] = kind]
  BY <1>1 DEF Make
<1>3. made' \in 0 .. MaxObjects /\ made \in Nat
  BY <1>1, BoundAssumption DEF TypeOK, Objects
<1>4. interlock' \in [Objects -> {"unlocked", "locked", "mutex", "invalid"}]
      /\ interlock'[made + 1] \in {"unlocked", "mutex"}
  BY <1>1, <1>2 DEF TypeOK
<1>5. owner[made + 1] = Null
  BY <1>1, <1>3 DEF MadeInv
<1>6. ASSUME owner' = owner PROVE MadeInv'
  <2>1. \A s \in Objects : s > made + 1 => s > made
    BY <1>3, Words
  <2>2. QED
    BY <1>1, <1>3, <1>6, <2>1 DEF MadeInv
<1>7. QED
  BY <1>1, <1>3, <1>4, <1>5, <1>6

LEMMA InitHolds == ASSUME Init PROVE SpinInv
<1>1. TypeOK
  BY BoundAssumption DEF Init, TypeOK, Labels, Calls
<1>2. MadeInv
  BY Words DEF Init, MadeInv
<1>3. UseInv /\ AskInv
  BY Words DEF Init, UseInv, AskInv
<1>4. TakenInv
  BY Words DEF Init, TakenInv
<1>5. HeldIsThere /\ WaitersGetAnError
  BY DEF Init, HeldIsThere, WaitersGetAnError
<1>6. QED
  BY <1>1, <1>2, <1>3, <1>4, <1>5 DEF SpinInv

LEMMA InitialiseKeeps ==
  ASSUME SpinInv, NEW t \in Threads, Initialise(t)
  PROVE  SpinInv'
<1>1. TypeOK'
  BY Words, MakeEffect DEF SpinInv, Initialise, Idle, Return, Continue, MakeFails, TypeOK, Labels, Calls
<1>2. MadeInv'
  BY Words, MakeEffect DEF SpinInv, Initialise, Idle, Return, Continue, MakeFails, TypeOK, MadeInv
<1>3. UseInv'
  BY Words, MakeEffect DEF SpinInv, Initialise, Idle, Return, Continue, MakeFails, TypeOK, UseInv, HeldIsThere, TakenInv, Taking, AskInv
<1>4. TakenInv'
  BY Words, MakeEffect DEF SpinInv, Initialise, Idle, Return, Continue, MakeFails, TypeOK, UseInv, HeldIsThere, TakenInv, Taking
<1>5. AskInv'
  BY Words, MakeEffect DEF SpinInv, Initialise, Idle, Return, Continue, MakeFails, TypeOK, UseInv, AskInv
<1>6. HeldIsThere'
  BY Words, MakeEffect DEF SpinInv, Initialise, Idle, Return, Continue, MakeFails, TypeOK, UseInv, HeldIsThere, TakenInv, Taking
<1>7. WaitersGetAnError'
  BY Words, MakeEffect DEF SpinInv, Initialise, Idle, Return, Continue, MakeFails, TypeOK, UseInv, AskInv, WaitersGetAnError
<1>8. QED
  BY <1>1, <1>2, <1>3, <1>4, <1>5, <1>6, <1>7 DEF SpinInv

LEMMA CallKeeps ==
  ASSUME SpinInv, NEW t \in Threads, Call(t)
  PROVE  SpinInv'
<1>1. TypeOK'
  BY Words DEF SpinInv, Call, Idle, Return, Continue, TypeOK, Labels, Calls
<1>2. MadeInv'
  BY Words DEF SpinInv, Call, Idle, Return, Continue, TypeOK, MadeInv
<1>3. UseInv'
  BY Words DEF SpinInv, Call, Idle, Return, Continue, TypeOK, UseInv, HeldIsThere, TakenInv, Taking, AskInv
<1>4. TakenInv'
  BY Words DEF SpinInv, Call, Idle, Return, Continue, TypeOK, UseInv, HeldIsThere, TakenInv, Taking
<1>5. AskInv'
  BY Words DEF SpinInv, Call, Idle, Return, Continue, TypeOK, UseInv, AskInv
<1>6. HeldIsThere'
  BY Words DEF SpinInv, Call, Idle, Return, Continue, TypeOK, UseInv, HeldIsThere, TakenInv, Taking
<1>7. WaitersGetAnError'
  BY Words DEF SpinInv, Call, Idle, Return, Continue, TypeOK, UseInv, AskInv, WaitersGetAnError
<1>8. QED
  BY <1>1, <1>2, <1>3, <1>4, <1>5, <1>6, <1>7 DEF SpinInv

LEMMA LookKeeps ==
  ASSUME SpinInv, NEW t \in Threads, Look(t)
  PROVE  SpinInv'
<1>1. TypeOK'
  BY Words DEF SpinInv, Look, Idle, Return, Continue, TypeOK, Labels, Calls
<1>2. MadeInv'
  BY Words DEF SpinInv, Look, Idle, Return, Continue, TypeOK, MadeInv
<1>3. UseInv'
  BY Words DEF SpinInv, Look, Idle, Return, Continue, TypeOK, UseInv, HeldIsThere, TakenInv, Taking, AskInv
<1>4. TakenInv'
  BY Words DEF SpinInv, Look, Idle, Return, Continue, TypeOK, UseInv, HeldIsThere, TakenInv, Taking
<1>5. AskInv'
  BY Words DEF SpinInv, Look, Idle, Return, Continue, TypeOK, UseInv, AskInv
<1>6. HeldIsThere'
  BY Words DEF SpinInv, Look, Idle, Return, Continue, TypeOK, UseInv, HeldIsThere, TakenInv, Taking
<1>7. WaitersGetAnError'
  BY Words DEF SpinInv, Look, Idle, Return, Continue, TypeOK, UseInv, AskInv, WaitersGetAnError
<1>8. QED
  BY <1>1, <1>2, <1>3, <1>4, <1>5, <1>6, <1>7 DEF SpinInv

LEMMA FirstUseKeeps ==
  ASSUME SpinInv, NEW t \in Threads, FirstUse(t)
  PROVE  SpinInv'
<1>1. TypeOK'
  BY Words, MakeEffect DEF SpinInv, FirstUse, Idle, Return, Continue, MakeFails, TypeOK, Labels, Calls
<1>2. MadeInv'
  BY Words, MakeEffect DEF SpinInv, FirstUse, Idle, Return, Continue, MakeFails, TypeOK, MadeInv
<1>3. UseInv'
  BY Words, MakeEffect DEF SpinInv, FirstUse, Idle, Return, Continue, MakeFails, TypeOK, UseInv, HeldIsThere, TakenInv, Taking, AskInv
<1>4. TakenInv'
  BY Words, MakeEffect DEF SpinInv, FirstUse, Idle, Return, Continue, MakeFails, TypeOK, UseInv, HeldIsThere, TakenInv, Taking
<1>5. AskInv'
  BY Words, MakeEffect DEF SpinInv, FirstUse, Idle, Return, Continue, MakeFails, TypeOK, UseInv, AskInv
<1>6. HeldIsThere'
  BY Words, MakeEffect DEF SpinInv, FirstUse, Idle, Return, Continue, MakeFails, TypeOK, UseInv, HeldIsThere, TakenInv, Taking
<1>7. WaitersGetAnError'
  BY Words, MakeEffect DEF SpinInv, FirstUse, Idle, Return, Continue, MakeFails, TypeOK, UseInv, AskInv, WaitersGetAnError
<1>8. QED
  BY <1>1, <1>2, <1>3, <1>4, <1>5, <1>6, <1>7 DEF SpinInv

LEMMA LoadKeeps ==
  ASSUME SpinInv, NEW t \in Threads, Load(t)
  PROVE  SpinInv'
<1>1. TypeOK'
  BY Words DEF SpinInv, Load, Idle, Return, Continue, TypeOK, Labels, Calls
<1>2. MadeInv'
  BY Words DEF SpinInv, Load, Idle, Return, Continue, TypeOK, MadeInv
<1>3. UseInv'
  BY Words DEF SpinInv, Load, Idle, Return, Continue, TypeOK, UseInv, HeldIsThere, TakenInv, Taking, AskInv
<1>4. TakenInv'
  BY Words DEF SpinInv, Load, Idle, Return, Continue, TypeOK, UseInv, HeldIsThere, TakenInv, Taking
<1>5. AskInv'
  BY Words DEF SpinInv, Load, Idle, Return, Continue, TypeOK, UseInv, AskInv
<1>6. HeldIsThere'
  BY Words DEF SpinInv, Load, Idle, Return, Continue, TypeOK, UseInv, HeldIsThere, TakenInv, Taking
<1>7. WaitersGetAnError'
  BY Words DEF SpinInv, Load, Idle, Return, Continue, TypeOK, UseInv, AskInv, WaitersGetAnError
<1>8. QED
  BY <1>1, <1>2, <1>3, <1>4, <1>5, <1>6, <1>7 DEF SpinInv

LEMMA ExchangeLockKeeps ==
  ASSUME SpinInv, NEW t \in Threads, ExchangeLock(t)
  PROVE  SpinInv'
<1>1. TypeOK'
  BY Words DEF SpinInv, ExchangeLock, Idle, Return, Continue, TypeOK, Labels, Calls
<1>2. MadeInv'
  BY Words DEF SpinInv, ExchangeLock, Idle, Return, Continue, TypeOK, MadeInv
<1>3. UseInv'
  BY Words DEF SpinInv, ExchangeLock, Idle, Return, Continue, TypeOK, UseInv, HeldIsThere, TakenInv, Taking, AskInv
<1>4. TakenInv'
  BY Words DEF SpinInv, ExchangeLock, Idle, Return, Continue, TypeOK, UseInv, HeldIsThere, TakenInv, Taking
<1>5. AskInv'
  BY Words DEF SpinInv, ExchangeLock, Idle, Return, Continue, TypeOK, UseInv, AskInv
<1>6. HeldIsThere'
  BY Words DEF SpinInv, ExchangeLock, Idle, Return, Continue, TypeOK, UseInv, HeldIsThere, TakenInv, Taking
<1>7. WaitersGetAnError'
  BY Words DEF SpinInv, ExchangeLock, Idle, Return, Continue, TypeOK, UseInv, AskInv, WaitersGetAnError
<1>8. QED
  BY <1>1, <1>2, <1>3, <1>4, <1>5, <1>6, <1>7 DEF SpinInv

LEMMA ConfirmKeeps ==
  ASSUME SpinInv, NEW t \in Threads, Confirm(t)
  PROVE  SpinInv'
<1>1. TypeOK'
  BY Words DEF SpinInv, Confirm, Idle, Return, Continue, TypeOK, Labels, Calls, UseInv
<1>2. MadeInv'
  BY Words DEF SpinInv, Confirm, Idle, Return, Continue, TypeOK, MadeInv, UseInv
<1>3. UseInv'
  BY Words DEF SpinInv, Confirm, Idle, Return, Continue, TypeOK, UseInv, HeldIsThere, TakenInv, Taking, AskInv
<1>4. TakenInv'
  BY Words DEF SpinInv, Confirm, Idle, Return, Continue, TypeOK, UseInv, HeldIsThere, TakenInv, Taking
<1>5. AskInv'
  BY Words DEF SpinInv, Confirm, Idle, Return, Continue, TypeOK, UseInv, AskInv
<1>6. HeldIsThere'
  BY Words DEF SpinInv, Confirm, Idle, Return, Continue, TypeOK, UseInv, HeldIsThere, TakenInv, Taking
<1>7. WaitersGetAnError'
  BY Words DEF SpinInv, Confirm, Idle, Return, Continue, TypeOK, UseInv, AskInv, WaitersGetAnError
<1>8. QED
  BY <1>1, <1>2, <1>3, <1>4, <1>5, <1>6, <1>7 DEF SpinInv

LEMMA LockMutexKeeps ==
  ASSUME SpinInv, NEW t \in Threads, LockMutex(t)
  PROVE  SpinInv'
<1>1. TypeOK'
  BY Words DEF SpinInv, LockMutex, Idle, Return, Continue, TypeOK, Labels, Calls, UseInv
<1>2. MadeInv'
  BY Words DEF SpinInv, LockMutex, Idle, Return, Continue, TypeOK, MadeInv, UseInv
<1>3. UseInv'
  BY Words DEF SpinInv, LockMutex, Idle, Return, Continue, TypeOK, UseInv, HeldIsThere, TakenInv, Taking, AskInv
<1>4. TakenInv'
  BY Words DEF SpinInv, LockMutex, Idle, Return, Continue, TypeOK, UseInv, HeldIsThere, TakenInv, Taking
<1>5. AskInv'
  BY Words DEF SpinInv, LockMutex, Idle, Return, Continue, TypeOK, UseInv, AskInv
<1>6. HeldIsThere'
  BY Words DEF SpinInv, LockMutex, Idle, Return, Continue, TypeOK, UseInv, HeldIsThere, TakenInv, Taking
<1>7. WaitersGetAnError'
  BY Words DEF SpinInv, LockMutex, Idle, Return, Continue, TypeOK, UseInv, AskInv, WaitersGetAnError
<1>8. QED
  BY <1>1, <1>2, <1>3, <1>4, <1>5, <1>6, <1>7 DEF SpinInv

LEMMA ExchangeTryKeeps ==
  ASSUME SpinInv, NEW t \in Threads, ExchangeTry(t)
  PROVE  SpinInv'
<1>1. TypeOK'
  BY Words DEF SpinInv, ExchangeTry, Idle, Return, Continue, TypeOK, Labels, Calls, UseInv
<1>2. MadeInv'
  BY Words DEF SpinInv, ExchangeTry, Idle, Return, Continue, TypeOK, MadeInv, UseInv
<1>3. UseInv'
  BY Words DEF SpinInv, ExchangeTry, Idle, Return, Continue, TypeOK, UseInv, HeldIsThere, TakenInv, Taking, AskInv
<1>4. TakenInv'
  BY Words DEF SpinInv, ExchangeTry, Idle, Return, Continue, TypeOK, UseInv, HeldIsThere, TakenInv, Taking
<1>5. AskInv'
  BY Words DEF SpinInv, ExchangeTry, Idle, Return, Continue, TypeOK, UseInv, AskInv
<1>6. HeldIsThere'
  BY Words DEF SpinInv, ExchangeTry, Idle, Return, Continue, TypeOK, UseInv, HeldIsThere, TakenInv, Taking
<1>7. WaitersGetAnError'
  BY Words DEF SpinInv, ExchangeTry, Idle, Return, Continue, TypeOK, UseInv, AskInv, WaitersGetAnError
<1>8. QED
  BY <1>1, <1>2, <1>3, <1>4, <1>5, <1>6, <1>7 DEF SpinInv

LEMMA UnlockKeeps ==
  ASSUME SpinInv, NEW t \in Threads, Unlock(t)
  PROVE  SpinInv'
<1>1. TypeOK'
  BY Words DEF SpinInv, Unlock, Idle, Return, Continue, TypeOK, Labels, Calls
<1>2. MadeInv'
  BY Words DEF SpinInv, Unlock, Idle, Return, Continue, TypeOK, MadeInv
<1>3. UseInv'
  BY Words DEF SpinInv, Unlock, Idle, Return, Continue, TypeOK, UseInv, HeldIsThere, TakenInv, Taking, AskInv
<1>4. TakenInv'
  BY Words DEF SpinInv, Unlock, Idle, Return, Continue, TypeOK, UseInv, HeldIsThere, TakenInv, Taking
<1>5. AskInv'
  BY Words DEF SpinInv, Unlock, Idle, Return, Continue, TypeOK, UseInv, AskInv
<1>6. HeldIsThere'
  BY Words DEF SpinInv, Unlock, Idle, Return, Continue, TypeOK, UseInv, HeldIsThere, TakenInv, Taking
<1>7. WaitersGetAnError'
  BY Words DEF SpinInv, Unlock, Idle, Return, Continue, TypeOK, UseInv, AskInv, WaitersGetAnError
<1>8. QED
  BY <1>1, <1>2, <1>3, <1>4, <1>5, <1>6, <1>7 DEF SpinInv

LEMMA DestroyCallKeeps ==
  ASSUME SpinInv, NEW t \in Threads, DestroyCall(t)
  PROVE  SpinInv'
<1>1. TypeOK'
  BY Words DEF SpinInv, DestroyCall, Idle, Return, Continue, TypeOK, Labels, Calls
<1>2. MadeInv'
  BY Words DEF SpinInv, DestroyCall, Idle, Return, Continue, TypeOK, MadeInv
<1>3. UseInv'
  BY Words DEF SpinInv, DestroyCall, Idle, Return, Continue, TypeOK, UseInv, HeldIsThere, TakenInv, Taking, AskInv
<1>4. TakenInv'
  BY Words DEF SpinInv, DestroyCall, Idle, Return, Continue, TypeOK, UseInv, HeldIsThere, TakenInv, Taking
<1>5. AskInv'
  BY Words DEF SpinInv, DestroyCall, Idle, Return, Continue, TypeOK, UseInv, AskInv
<1>6. HeldIsThere'
  BY Words DEF SpinInv, DestroyCall, Idle, Return, Continue, TypeOK, UseInv, HeldIsThere, TakenInv, Taking
<1>7. WaitersGetAnError'
  BY Words DEF SpinInv, DestroyCall, Idle, Return, Continue, TypeOK, UseInv, AskInv, WaitersGetAnError
<1>8. QED
  BY <1>1, <1>2, <1>3, <1>4, <1>5, <1>6, <1>7 DEF SpinInv

LEMMA DestroyStaticKeeps ==
  ASSUME SpinInv, NEW t \in Threads, DestroyStatic(t)
  PROVE  SpinInv'
<1>1. TypeOK'
  BY Words DEF SpinInv, DestroyStatic, Idle, Return, Continue, TypeOK, Labels, Calls
<1>2. MadeInv'
  BY Words DEF SpinInv, DestroyStatic, Idle, Return, Continue, TypeOK, MadeInv
<1>3. UseInv'
  BY Words DEF SpinInv, DestroyStatic, Idle, Return, Continue, TypeOK, UseInv, HeldIsThere, TakenInv, Taking, AskInv
<1>4. TakenInv'
  BY Words DEF SpinInv, DestroyStatic, Idle, Return, Continue, TypeOK, UseInv, HeldIsThere, TakenInv, Taking
<1>5. AskInv'
  BY Words DEF SpinInv, DestroyStatic, Idle, Return, Continue, TypeOK, UseInv, AskInv
<1>6. HeldIsThere'
  BY Words DEF SpinInv, DestroyStatic, Idle, Return, Continue, TypeOK, UseInv, HeldIsThere, TakenInv, Taking
<1>7. WaitersGetAnError'
  BY Words DEF SpinInv, DestroyStatic, Idle, Return, Continue, TypeOK, UseInv, AskInv, WaitersGetAnError
<1>8. QED
  BY <1>1, <1>2, <1>3, <1>4, <1>5, <1>6, <1>7 DEF SpinInv

LEMMA InvalidateKeeps ==
  ASSUME SpinInv, NEW t \in Threads, Invalidate(t)
  PROVE  SpinInv'
<1>1. TypeOK'
  BY Words DEF SpinInv, Invalidate, Idle, Return, Continue, TypeOK, Labels, Calls
<1>2. MadeInv'
  BY Words DEF SpinInv, Invalidate, Idle, Return, Continue, TypeOK, MadeInv
<1>3. UseInv'
  BY Words DEF SpinInv, Invalidate, Idle, Return, Continue, TypeOK, UseInv, HeldIsThere, TakenInv, Taking, AskInv
<1>4. TakenInv'
  BY Words DEF SpinInv, Invalidate, Idle, Return, Continue, TypeOK, UseInv, HeldIsThere, TakenInv, Taking
<1>5. AskInv'
  BY Words DEF SpinInv, Invalidate, Idle, Return, Continue, TypeOK, UseInv, AskInv
<1>6. HeldIsThere'
  BY Words DEF SpinInv, Invalidate, Idle, Return, Continue, TypeOK, UseInv, HeldIsThere, TakenInv, Taking
<1>7. WaitersGetAnError'
  BY Words DEF SpinInv, Invalidate, Idle, Return, Continue, TypeOK, UseInv, AskInv, WaitersGetAnError
<1>8. QED
  BY <1>1, <1>2, <1>3, <1>4, <1>5, <1>6, <1>7 DEF SpinInv

LEMMA ClearKeeps ==
  ASSUME SpinInv, NEW t \in Threads, Clear(t)
  PROVE  SpinInv'
<1>1. TypeOK'
  BY Words DEF SpinInv, Clear, Idle, Return, Continue, TypeOK, Labels, Calls
<1>2. MadeInv'
  BY Words DEF SpinInv, Clear, Idle, Return, Continue, TypeOK, MadeInv
<1>3. UseInv'
  BY Words DEF SpinInv, Clear, Idle, Return, Continue, TypeOK, UseInv, HeldIsThere, TakenInv, Taking, AskInv
<1>4. TakenInv'
  BY Words DEF SpinInv, Clear, Idle, Return, Continue, TypeOK, UseInv, HeldIsThere, TakenInv, Taking
<1>5. AskInv'
  BY Words DEF SpinInv, Clear, Idle, Return, Continue, TypeOK, UseInv, AskInv
<1>6. HeldIsThere'
  BY Words DEF SpinInv, Clear, Idle, Return, Continue, TypeOK, UseInv, HeldIsThere, TakenInv, Taking
<1>7. WaitersGetAnError'
  BY Words DEF SpinInv, Clear, Idle, Return, Continue, TypeOK, UseInv, AskInv, WaitersGetAnError
<1>8. QED
  BY <1>1, <1>2, <1>3, <1>4, <1>5, <1>6, <1>7 DEF SpinInv
----------------------------------------------------------------------------
(* The inductive invariant. *)
THEOREM SpinInvariant == Spec => []SpinInv
<1>1. Init => SpinInv
  BY InitHolds
<1>2. SpinInv /\ [Next]_vars => SpinInv'
  <2>1. SUFFICES ASSUME SpinInv, [Next]_vars PROVE SpinInv'
    OBVIOUS
  <2>2. CASE UNCHANGED vars
    BY <2>1, <2>2 DEF vars, SpinInv, TypeOK, MadeInv, UseInv, TakenInv, Taking, AskInv, Idle,
                      HeldIsThere, WaitersGetAnError
  <2>3. CASE Next
    BY <2>1, <2>3, InitialiseKeeps, CallKeeps, LookKeeps, FirstUseKeeps, LoadKeeps,
       ExchangeLockKeeps, ConfirmKeeps, LockMutexKeeps, ExchangeTryKeeps, UnlockKeeps,
       DestroyCallKeeps, DestroyStaticKeeps, InvalidateKeeps, ClearKeeps DEF Next
  <2>4. QED
    BY <2>1, <2>2, <2>3
<1>3. QED
  BY <1>1, <1>2, PTL DEF Spec

(* A held lock is there for its holder to unlock, whoever tries to destroy  *)
(* it (pthread_spin_destroy.c).                                             *)
THEOREM HeldStays == Spec => []HeldIsThere
<1>1. SpinInv => HeldIsThere
  BY DEF SpinInv
<1>2. QED
  BY <1>1, SpinInvariant, PTL

(* A call that meets the static value never uses a null pointer             *)
(* (ptw32_spinlock_check_need_init.c).                                      *)
THEOREM FirstUsesAreAnswered == Spec => []WaitersGetAnError
<1>1. SpinInv => WaitersGetAnError
  BY DEF SpinInv
<1>2. QED
  BY <1>1, SpinInvariant, PTL

Counted == [t \in Threads |-> IF held[t] = Null THEN 0 ELSE 1]

LEMMA CountedType == Counted \in [Threads -> {0, 1}] /\ Counted' \in [Threads -> {0, 1}]
  BY DEF Counted

(* Only a thread that finds nobody with the lock is granted it. *)
LEMMA GrantedAlone ==
  ASSUME SpinInv, NEW t \in Threads, Confirm(t) \/ LockMutex(t) \/ ExchangeTry(t)
  PROVE  held' = held \/ /\ \A u \in Threads \ {t} : held[u] = Null
                         /\ held[t] = Null
                         /\ \E s \in Objects : held' = [held EXCEPT ![t] = s]
<1>1. CASE Confirm(t)
  BY <1>1 DEF Confirm, SpinInv, UseInv, TakenInv, Taking
<1>2. CASE LockMutex(t)
  BY <1>2, Words DEF LockMutex, SpinInv, UseInv, HeldIsThere
<1>3. CASE ExchangeTry(t)
  BY <1>3, Words DEF ExchangeTry, SpinInv, UseInv, HeldIsThere
<1>4. QED
  BY <1>1, <1>2, <1>3

(* The spin lock implements the lock of module Lock. *)
THEOREM SpinRefinement == Spec => ImplementsLock
<1>1. Init => LockImpl!Init
  BY DEF Init, LockImpl!Init
<1>2. SpinInv /\ [Next]_vars => [LockImpl!Next]_Counted
  <2>1. SUFFICES ASSUME SpinInv, [Next]_vars PROVE [LockImpl!Next]_Counted
    OBVIOUS
  <2>2. CASE held' = held
    BY <2>2 DEF Counted
  <2>3. ASSUME NEW t \in Threads, Confirm(t) \/ LockMutex(t) \/ ExchangeTry(t)
        PROVE  [LockImpl!Next]_Counted
    <3>1. CASE held' = held
      BY <2>2, <3>1
    <3>2. CASE /\ \A u \in Threads \ {t} : held[u] = Null
               /\ held[t] = Null
               /\ \E s \in Objects : held' = [held EXCEPT ![t] = s]
      <4>1. PICK s \in Objects : held' = [held EXCEPT ![t] = s]
        BY <3>2
      <4>2. held'[t] # Null /\ \A u \in Threads \ {t} : held'[u] = held[u]
        BY <2>1, <4>1, Words DEF SpinInv, TypeOK
      <4>3. Counted[t] = 0 /\ \A u \in Threads \ {t} : Counted[u] = 0
        BY <3>2 DEF Counted
      <4>4. Counted' = [Counted EXCEPT ![t] = Counted[t] + 1]
        <5>1. \A u \in Threads : Counted'[u] = IF u = t THEN 1 ELSE Counted[u]
          BY <4>2, <4>3 DEF Counted
        <5>2. QED
          BY <4>3, <5>1, CountedType
      <4>5. LockImpl!Acquire(t)
        BY <4>3, <4>4 DEF LockImpl!Acquire, Counted
      <4>6. QED
        BY <4>5 DEF LockImpl!Next
    <3>3. QED
      BY <2>1, <2>3, <3>1, <3>2, GrantedAlone
  <2>4. ASSUME NEW t \in Threads, Unlock(t) PROVE [LockImpl!Next]_Counted
    <3>1. held[t] # Null /\ held' = [held EXCEPT ![t] = Null]
      BY <2>4 DEF Unlock
    <3>2. held'[t] = Null /\ \A u \in Threads \ {t} : held'[u] = held[u]
      BY <2>1, <3>1 DEF SpinInv, TypeOK
    <3>3. Counted[t] = 1
      BY <3>1 DEF Counted
    <3>4. Counted' = [Counted EXCEPT ![t] = Counted[t] - 1]
      <4>1. \A u \in Threads : Counted'[u] = IF u = t THEN 0 ELSE Counted[u]
        BY <3>2, <3>3 DEF Counted
      <4>2. QED
        BY <3>3, <4>1, CountedType
    <3>5. LockImpl!Release(t)
      BY <3>3, <3>4 DEF LockImpl!Release, Counted
    <3>6. QED
      BY <3>5 DEF LockImpl!Next
  <2>5. CASE UNCHANGED vars
    BY <2>2, <2>5 DEF vars
  <2>6. CASE Next
    BY <2>2, <2>3, <2>4, <2>6 DEF Next, Initialise, Call, Look, FirstUse, Load, ExchangeLock,
       DestroyCall, DestroyStatic, Invalidate, Clear
  <2>7. QED
    BY <2>1, <2>5, <2>6
<1>3. QED
  BY <1>1, <1>2, SpinInvariant, PTL DEF Spec, ImplementsLock, LockImpl!Spec, Counted
=============================================================================
