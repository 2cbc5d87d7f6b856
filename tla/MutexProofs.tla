---------------------------- MODULE MutexProofs ----------------------------
(***************************************************************************)
(* Safety of the mutex for every set of threads and every recursion bound. *)
(*                                                                         *)
(* OwnerTracksHolder and MutualExclusion are not inductive as they stand:  *)
(* both are silent about a thread between two instructions of a call.      *)
(* LockInv says what holds there too; LostWakeup and the error codes then  *)
(* follow step by step.                                                    *)
(***************************************************************************)
EXTENDS Mutex, TLAPS

(* Where the call of a thread can be, given the kind of mutex. *)
ControlInv ==
  \A t \in Threads :
    /\ kind = "NORMAL" => /\ pc[t] \in {"idle", "swap", "wait", "signal"}
                          /\ held[t] <= 1
    /\ pc[t] = "tryCheck" => kind = "RECURSIVE"

(* Who owns a mutex that records its owner, at every instruction. *)
OwnerInv ==
  kind # "NORMAL" =>
    \A t \in Threads :
      /\ owner = t <=> held[t] > 0 /\ pc[t] # "release"
      /\ pc[t] \in {"own", "swap", "wait"} => held[t] = 0
      /\ pc[t] \in {"disown", "release"} => held[t] = 1
      /\ held[t] > 0 /\ pc[t] \notin {"disown", "release"} => held[t] = count
      /\ kind = "ERRORCHECK" /\ held[t] > 0 => held[t] = 1

LockInv == TypeOK /\ ControlInv /\ OwnerInv /\ MutualExclusion
-----------------------------------------------------------------------------
(* What the four control helpers do to the typing of a call's variables. *)
CallOK == /\ pc \in [Threads -> Labels]
          /\ timed \in [Threads -> BOOLEAN]
          /\ ret \in [Threads -> Results]

(* Moving to a label the code has, with a result the code has, keeps the   *)
(* variables of every call well typed.                                     *)
LEMMA CallTyping ==
  ASSUME CallOK, NEW t \in Threads, NEW from, NEW to \in Labels,
         NEW tm \in BOOLEAN, NEW result \in Results
  PROVE  /\ Begin(t, to, tm) => CallOK'
         /\ Goto(t, from, to) => CallOK'
         /\ Return(t, from, result) => CallOK'
BY DEF CallOK, Begin, Goto, Return, Labels, Results

(* A grant, a release and an untouched depth keep held well typed. *)
LEMMA HeldTyping ==
  ASSUME held \in [Threads -> Nat], NEW t \in Threads
  PROVE  /\ held' = [held EXCEPT ![t] = @ + 1] => held' \in [Threads -> Nat]
         /\ held' = [held EXCEPT ![t] = 0] => held' \in [Threads -> Nat]
         /\ held[t] > 0 /\ held' = [held EXCEPT ![t] = @ - 1]
              => held' \in [Threads -> Nat]
OBVIOUS

(* Every variable keeps its type: no instruction of lock, timedlock,       *)
(* trylock or unlock leaves lock_idx outside {-1, 0, 1}, a depth negative  *)
(* or a call at a place the code does not have.                            *)
LEMMA TypeStep == LockInv /\ [Next]_vars => TypeOK'
<1> SUFFICES ASSUME LockInv, [Next]_vars PROVE TypeOK'
  OBVIOUS
<1>0. TypeOK /\ CallOK /\ OwnerInv
  BY DEF LockInv, TypeOK, CallOK
<1> SUFFICES /\ CallOK'
             /\ kind' \in Kinds /\ lockIdx' \in {-1, 0, 1} /\ event' \in BOOLEAN
             /\ owner' \in Threads \cup {Null} /\ count' \in Nat
             /\ held' \in [Threads -> Nat]
  BY DEF TypeOK, CallOK
<1>l. /\ {"idle", "check", "tryCheck", "swap", "wait", "own"} \subseteq Labels
      /\ {"disown", "release", "signal"} \subseteq Labels
      /\ {"ok", "EBUSY", "ETIMEDOUT", "EDEADLK", "EPERM"} \subseteq Results
  BY DEF Labels, Results
<1> DEFINE DataOK == /\ kind' \in Kinds /\ lockIdx' \in {-1, 0, 1}
                     /\ event' \in BOOLEAN
                     /\ owner' \in Threads \cup {Null} /\ count' \in Nat
           Depths(t) == \/ held' = held
                        \/ held' = [held EXCEPT ![t] = @ + 1]
                        \/ held' = [held EXCEPT ![t] = 0]
                        \/ held[t] > 0 /\ held' = [held EXCEPT ![t] = @ - 1]
<1>1. ASSUME NEW t \in Threads, Start(t)
      PROVE  CallOK' /\ DataOK /\ Depths(t)
  <2>1. ASSUME NEW tm \in BOOLEAN, LockNormal(t, tm)
        PROVE  CallOK' /\ DataOK /\ Depths(t)
    BY <1>0, <1>l, <2>1, CallTyping DEF LockNormal, Granted, TypeOK
  <2>2. ASSUME NEW tm \in BOOLEAN, LockOwned(t, tm)
        PROVE  CallOK' /\ DataOK /\ Depths(t)
    BY <1>0, <1>l, <2>2, CallTyping DEF LockOwned, TypeOK
  <2>3. CASE TryLock(t)
    BY <1>0, <1>l, <2>3, CallTyping DEF TryLock, Granted, TypeOK
  <2>4. CASE UnlockNormal(t)
    BY <1>0, <1>l, <2>4, CallTyping DEF UnlockNormal, TypeOK
  <2>5. CASE UnlockFree(t)
    BY <1>0, <1>l, <2>5, CallTyping DEF UnlockFree, TypeOK
  <2>6. CASE UnlockOwned(t)
    <3>1. CallOK'
      BY <1>0, <1>l, <2>6, CallTyping DEF UnlockOwned
    <3>2. owner = t => held[t] > 0
      BY <1>0, <2>6 DEF OwnerInv, UnlockOwned
    <3>3. DataOK /\ Depths(t)
      <4>1. CASE owner # t
        BY <1>0, <2>6, <4>1 DEF UnlockOwned, TypeOK
      <4>2. CASE owner = t /\ kind = "ERRORCHECK"
        BY <1>0, <2>6, <4>2 DEF UnlockOwned, TypeOK
      <4>3. CASE owner = t /\ kind = "RECURSIVE"
        <5>1. pc[t] = "idle" /\ held[t] = count
          BY <1>0, <2>6, <4>3, <3>2 DEF UnlockOwned, OwnerInv, Begin, Return
        <5>2. count \in Nat /\ count > 0
          BY <1>0, <3>2, <4>3, <5>1 DEF TypeOK
        <5>3. count' \in Nat /\ UNCHANGED <<kind, lockIdx, event, owner>>
          BY <2>6, <4>3, <5>2 DEF UnlockOwned
        <5>4. Depths(t)
          BY <2>6, <3>2, <4>3 DEF UnlockOwned
        <5> QED BY <1>0, <5>3, <5>4 DEF TypeOK
      <4> QED BY <2>6, <4>1, <4>2, <4>3 DEF UnlockOwned
    <3> QED BY <3>1, <3>3
  <2> QED BY <1>1, <2>1, <2>2, <2>3, <2>4, <2>5, <2>6 DEF Start, Unlock
<1>2. ASSUME NEW t \in Threads, Step(t)
      PROVE  CallOK' /\ DataOK /\ Depths(t)
  <2>1. CASE CheckOwner(t)
    <3>1. CallOK'
      BY <1>0, <1>l, <2>1, CallTyping DEF CheckOwner, Granted
    <3>2. count' \in Nat /\ Depths(t)
      BY <1>0, <2>1 DEF CheckOwner, Granted, TypeOK
    <3> QED BY <1>0, <2>1, <3>1, <3>2 DEF CheckOwner, TypeOK
  <2>2. CASE Swap(t)
    BY <1>0, <1>l, <2>2, CallTyping DEF Swap, Granted, TypeOK
  <2>3. CASE Wake(t)
    BY <1>0, <1>l, <2>3, CallTyping DEF Wake, TypeOK
  <2>4. CASE TimeOut(t)
    BY <1>0, <1>l, <2>4, CallTyping DEF TimeOut, TypeOK
  <2>5. CASE Own(t)
    BY <1>0, <1>l, <2>5, CallTyping DEF Own, Granted, TypeOK
  <2>6. CASE TryCheckOwner(t)
    <3>1. CallOK'
      BY <1>0, <1>l, <2>6, CallTyping DEF TryCheckOwner, Granted
    <3>2. count' \in Nat /\ Depths(t)
      BY <1>0, <2>6 DEF TryCheckOwner, Granted, TypeOK
    <3> QED BY <1>0, <2>6, <3>1, <3>2 DEF TryCheckOwner, TypeOK
  <2>7. CASE Disown(t)
    BY <1>0, <1>l, <2>7, CallTyping DEF Disown, TypeOK
  <2>8. CASE Release(t)
    BY <1>0, <1>l, <2>8, CallTyping DEF Release, TypeOK
  <2>9. CASE Signal(t)
    BY <1>0, <1>l, <2>9, CallTyping DEF Signal, TypeOK
  <2> QED BY <1>2, <2>1, <2>2, <2>3, <2>4, <2>5, <2>6, <2>7, <2>8, <2>9 DEF Step
<1>3. CASE UNCHANGED vars
  BY <1>0, <1>3 DEF vars, TypeOK, CallOK
<1>4. ASSUME NEW t \in Threads, Depths(t) PROVE held' \in [Threads -> Nat]
  BY <1>0, <1>4, HeldTyping DEF TypeOK
<1> QED
  <2>1. CASE \E t \in Threads : Start(t) \/ Step(t)
    BY <2>1, <1>1, <1>2, <1>4
  <2> QED BY <2>1, <1>3 DEF Next
-----------------------------------------------------------------------------
-----------------------------------------------------------------------------
(* A step of t, seen from outside: t goes to a label and a depth, and the  *)
(* other threads stay where they are.                                      *)
Moved(t, label, depth) ==
  /\ pc'[t] = label /\ held'[t] = depth
  /\ \A u \in Threads \ {t} : pc'[u] = pc[u] /\ held'[u] = held[u]

SameOwner == kind' = kind /\ owner' = owner /\ count' = count

(* Each action keeps the control, owner and exclusion parts of LockInv:    *)
(* the first step of each case is what the action does to the thread that  *)
(* takes it, the second what that means for the invariant.                 *)
LEMMA LockStep == LockInv /\ [Next]_vars => ControlInv' /\ OwnerInv' /\ MutualExclusion'
<1> DEFINE Kept == ControlInv' /\ OwnerInv' /\ MutualExclusion'
<1> SUFFICES ASSUME LockInv, [Next]_vars PROVE Kept
  OBVIOUS
<1>0. TypeOK /\ ControlInv /\ OwnerInv /\ MutualExclusion
  BY DEF LockInv
<1>1. ASSUME NEW t \in Threads, Start(t) PROVE Kept
  <2>1. ASSUME NEW tm \in BOOLEAN, LockNormal(t, tm) PROVE Kept
    <3>1. kind = "NORMAL" /\ pc[t] = "idle" /\ lockIdx' = 1 /\ SameOwner
      BY <1>0, <2>1 DEF LockNormal, Granted, Return, Begin, TypeOK, SameOwner
    <3>2. \/ lockIdx = 0 /\ Moved(t, "idle", held[t] + 1)
          \/ lockIdx # 0 /\ Moved(t, "swap", held[t])
      BY <1>0, <2>1 DEF LockNormal, Granted, Return, Begin, TypeOK, Moved
    <3> QED BY <1>0, <3>1, <3>2
            DEF TypeOK, ControlInv, OwnerInv, MutualExclusion, Inside, Moved, SameOwner
  <2>2. ASSUME NEW tm \in BOOLEAN, LockOwned(t, tm) PROVE Kept
    <3>1. kind # "NORMAL" /\ pc[t] = "idle" /\ SameOwner
      BY <1>0, <2>2 DEF LockOwned, Begin, TypeOK, SameOwner
    <3>2. \/ lockIdx = 0 /\ lockIdx' = 1 /\ Moved(t, "own", held[t])
          \/ lockIdx # 0 /\ lockIdx' = lockIdx /\ Moved(t, "check", held[t])
      BY <1>0, <2>2 DEF LockOwned, Begin, TypeOK, Moved
    <3> QED BY <1>0, <3>1, <3>2
            DEF TypeOK, ControlInv, OwnerInv, MutualExclusion, Inside, Moved, SameOwner
  <2>3. CASE TryLock(t)
    <3>1. pc[t] = "idle" /\ SameOwner
      BY <1>0, <2>3 DEF TryLock, Granted, Return, Begin, TypeOK, SameOwner
    <3>2. \/ lockIdx = 0 /\ lockIdx' = 1 /\ kind = "NORMAL" /\ Moved(t, "idle", held[t] + 1)
          \/ lockIdx = 0 /\ lockIdx' = 1 /\ kind # "NORMAL" /\ Moved(t, "own", held[t])
          \/ lockIdx # 0 /\ lockIdx' = lockIdx /\ kind = "RECURSIVE" /\ Moved(t, "tryCheck", held[t])
          \/ lockIdx # 0 /\ lockIdx' = lockIdx /\ Moved(t, "idle", held[t])
      BY <1>0, <2>3 DEF TryLock, Granted, Return, Begin, TypeOK, Moved
    <3> QED BY <1>0, <3>1, <3>2
            DEF TypeOK, ControlInv, OwnerInv, MutualExclusion, Inside, Moved, SameOwner
  <2>4. CASE UnlockNormal(t)
    <3>1. kind = "NORMAL" /\ pc[t] = "idle" /\ held[t] > 0 /\ lockIdx' = 0 /\ SameOwner
      BY <1>0, <2>4 DEF UnlockNormal, Return, Begin, TypeOK, SameOwner
    <3>2. \/ Moved(t, "signal", 0)
          \/ Moved(t, "idle", 0)
      BY <1>0, <2>4 DEF UnlockNormal, Return, Begin, TypeOK, Moved
    <3> QED BY <1>0, <3>1, <3>2
            DEF TypeOK, ControlInv, OwnerInv, MutualExclusion, Inside, Moved, SameOwner
  <2>5. CASE UnlockFree(t)
    <3>1. pc[t] = "idle" /\ lockIdx' = lockIdx /\ SameOwner
      BY <1>0, <2>5 DEF UnlockFree, Return, TypeOK, SameOwner
    <3>2. Moved(t, "idle", held[t])
      BY <1>0, <2>5 DEF UnlockFree, Return, TypeOK, Moved
    <3> QED BY <1>0, <3>1, <3>2
            DEF TypeOK, ControlInv, OwnerInv, MutualExclusion, Inside, Moved, SameOwner
  <2>6. CASE UnlockOwned(t)
    <3>1. kind # "NORMAL" /\ pc[t] = "idle" /\ lockIdx' = lockIdx /\ owner' = owner /\ kind' = kind
      BY <1>0, <2>6 DEF UnlockOwned, Return, Begin, TypeOK, SameOwner
    <3>2. \/ count' = count /\ Moved(t, "idle", held[t])
          \/ owner = t /\ kind = "ERRORCHECK" /\ count' = count /\ Moved(t, "disown", held[t])
          \/ owner = t /\ kind = "RECURSIVE" /\ count' = count - 1 /\ count' = 0 /\ Moved(t, "disown", held[t])
          \/ owner = t /\ kind = "RECURSIVE" /\ count' = count - 1 /\ count' # 0 /\ Moved(t, "idle", held[t] - 1)
      BY <1>0, <2>6 DEF UnlockOwned, Return, Begin, TypeOK, Moved
    <3> QED BY <1>0, <3>1, <3>2
            DEF TypeOK, ControlInv, OwnerInv, MutualExclusion, Inside, Moved, SameOwner
  <2> QED BY <1>1, <2>1, <2>2, <2>3, <2>4, <2>5, <2>6 DEF Start, Unlock
<1>2. ASSUME NEW t \in Threads, Step(t) PROVE Kept
  <2>1. CASE CheckOwner(t)
    <3>1. pc[t] = "check" /\ lockIdx' = lockIdx /\ owner' = owner /\ kind' = kind
      BY <1>0, <2>1 DEF CheckOwner, Granted, Return, Goto, TypeOK, SameOwner
    <3>2. \/ owner = t /\ kind = "RECURSIVE" /\ count' = count + 1 /\ Moved(t, "idle", held[t] + 1)
          \/ count' = count /\ Moved(t, "idle", held[t])
          \/ owner # t /\ count' = count /\ Moved(t, "swap", held[t])
      BY <1>0, <2>1 DEF CheckOwner, Granted, Return, Goto, TypeOK, Moved
    <3> QED BY <1>0, <3>1, <3>2
            DEF TypeOK, ControlInv, OwnerInv, MutualExclusion, Inside, Moved, SameOwner
  <2>2. CASE Swap(t)
    <3>1. pc[t] = "swap" /\ lockIdx' = -1 /\ SameOwner
      BY <1>0, <2>2 DEF Swap, Granted, Return, Goto, TypeOK, SameOwner
    <3>2. \/ lockIdx = 0 /\ kind = "NORMAL" /\ Moved(t, "idle", held[t] + 1)
          \/ lockIdx = 0 /\ kind # "NORMAL" /\ Moved(t, "own", held[t])
          \/ lockIdx # 0 /\ Moved(t, "wait", held[t])
      BY <1>0, <2>2 DEF Swap, Granted, Return, Goto, TypeOK, Moved
    <3> QED BY <1>0, <3>1, <3>2
            DEF TypeOK, ControlInv, OwnerInv, MutualExclusion, Inside, Moved, SameOwner
  <2>3. CASE Wake(t)
    <3>1. pc[t] = "wait" /\ lockIdx' = lockIdx /\ SameOwner
      BY <1>0, <2>3 DEF Wake, Goto, TypeOK, SameOwner
    <3>2. Moved(t, "swap", held[t])
      BY <1>0, <2>3 DEF Wake, Goto, TypeOK, Moved
    <3> QED BY <1>0, <3>1, <3>2
            DEF TypeOK, ControlInv, OwnerInv, MutualExclusion, Inside, Moved, SameOwner
  <2>4. CASE TimeOut(t)
    <3>1. pc[t] = "wait" /\ lockIdx' = lockIdx /\ SameOwner
      BY <1>0, <2>4 DEF TimeOut, Return, TypeOK, SameOwner
    <3>2. Moved(t, "idle", held[t])
      BY <1>0, <2>4 DEF TimeOut, Return, TypeOK, Moved
    <3> QED BY <1>0, <3>1, <3>2
            DEF TypeOK, ControlInv, OwnerInv, MutualExclusion, Inside, Moved, SameOwner
  <2>5. CASE Own(t)
    <3>1. pc[t] = "own" /\ lockIdx' = lockIdx /\ count' = 1 /\ owner' = t /\ kind' = kind
      BY <1>0, <2>5 DEF Own, Granted, Return, TypeOK, SameOwner
    <3>2. Moved(t, "idle", held[t] + 1)
      BY <1>0, <2>5 DEF Own, Granted, Return, TypeOK, Moved
    <3> QED BY <1>0, <3>1, <3>2
            DEF TypeOK, ControlInv, OwnerInv, MutualExclusion, Inside, Moved, SameOwner
  <2>6. CASE TryCheckOwner(t)
    <3>1. pc[t] = "tryCheck" /\ lockIdx' = lockIdx /\ owner' = owner /\ kind' = kind
      BY <1>0, <2>6 DEF TryCheckOwner, Granted, Return, TypeOK, SameOwner
    <3>2. \/ owner = t /\ count' = count + 1 /\ Moved(t, "idle", held[t] + 1)
          \/ count' = count /\ Moved(t, "idle", held[t])
      BY <1>0, <2>6 DEF TryCheckOwner, Granted, Return, TypeOK, Moved
    <3> QED BY <1>0, <3>1, <3>2
            DEF TypeOK, ControlInv, OwnerInv, MutualExclusion, Inside, Moved, SameOwner
  <2>7. CASE Disown(t)
    <3>1. pc[t] = "disown" /\ lockIdx' = lockIdx /\ owner' = Null /\ count' = count /\ kind' = kind
      BY <1>0, <2>7 DEF Disown, Goto, TypeOK, SameOwner
    <3>2. Moved(t, "release", held[t])
      BY <1>0, <2>7 DEF Disown, Goto, TypeOK, Moved
    <3> QED BY <1>0, <3>1, <3>2, NullAssumption
            DEF TypeOK, ControlInv, OwnerInv, MutualExclusion, Inside, Moved, SameOwner
  <2>8. CASE Release(t)
    <3>1. pc[t] = "release" /\ lockIdx' = 0 /\ SameOwner
      BY <1>0, <2>8 DEF Release, Goto, Return, TypeOK, SameOwner
    <3>2. \/ Moved(t, "signal", 0)
          \/ Moved(t, "idle", 0)
      BY <1>0, <2>8 DEF Release, Goto, Return, TypeOK, Moved
    <3> QED BY <1>0, <3>1, <3>2
            DEF TypeOK, ControlInv, OwnerInv, MutualExclusion, Inside, Moved, SameOwner
  <2>9. CASE Signal(t)
    <3>1. pc[t] = "signal" /\ lockIdx' = lockIdx /\ SameOwner
      BY <1>0, <2>9 DEF Signal, Return, TypeOK, SameOwner
    <3>2. Moved(t, "idle", held[t])
      BY <1>0, <2>9 DEF Signal, Return, TypeOK, Moved
    <3> QED BY <1>0, <3>1, <3>2
            DEF TypeOK, ControlInv, OwnerInv, MutualExclusion, Inside, Moved, SameOwner
  <2> QED BY <1>2, <2>1, <2>2, <2>3, <2>4, <2>5, <2>6, <2>7, <2>8, <2>9 DEF Step
<1>3. CASE UNCHANGED vars
  BY <1>0, <1>3 DEF vars, ControlInv, OwnerInv, MutualExclusion, Inside
<1> QED BY <1>1, <1>2, <1>3 DEF Next

-----------------------------------------------------------------------------
(* No step loses a wake-up: whoever erases the -1 that stands for a waiter *)
(* is about to put it back, and whoever frees the mutex over -1 is about   *)
(* to set the event.                                                       *)
LEMMA WakeupStep == LockInv /\ NoLostWakeup /\ [Next]_vars => NoLostWakeup'
<1> SUFFICES ASSUME LockInv, NoLostWakeup, [Next]_vars PROVE NoLostWakeup'
  OBVIOUS
<1>0. TypeOK /\ NoLostWakeup
  BY DEF LockInv
<1>1. ASSUME NEW t \in Threads, Start(t) PROVE NoLostWakeup'
  <2>1. ASSUME NEW tm \in BOOLEAN, LockNormal(t, tm) PROVE NoLostWakeup'
    BY <1>0, <2>1 DEF LockNormal, Granted, Return, Begin, TypeOK, NoLostWakeup
  <2>2. ASSUME NEW tm \in BOOLEAN, LockOwned(t, tm) PROVE NoLostWakeup'
    BY <1>0, <2>2 DEF LockOwned, Begin, TypeOK, NoLostWakeup
  <2>3. CASE TryLock(t)
    BY <1>0, <2>3 DEF TryLock, Granted, Return, Begin, TypeOK, NoLostWakeup
  <2>4. CASE UnlockNormal(t)
    BY <1>0, <2>4 DEF UnlockNormal, Return, Begin, TypeOK, NoLostWakeup
  <2>5. CASE UnlockFree(t)
    BY <1>0, <2>5 DEF UnlockFree, Return, TypeOK, NoLostWakeup
  <2>6. CASE UnlockOwned(t)
    BY <1>0, <2>6 DEF UnlockOwned, Return, Begin, TypeOK, NoLostWakeup
  <2> QED BY <1>1, <2>1, <2>2, <2>3, <2>4, <2>5, <2>6 DEF Start, Unlock
<1>2. ASSUME NEW t \in Threads, Step(t) PROVE NoLostWakeup'
  <2>1. CASE CheckOwner(t)
    BY <1>0, <2>1 DEF CheckOwner, Granted, Return, Goto, TypeOK, NoLostWakeup
  <2>2. CASE Swap(t)
    BY <1>0, <2>2 DEF Swap, Granted, Return, Goto, TypeOK, NoLostWakeup
  <2>3. CASE Wake(t)
    BY <1>0, <2>3 DEF Wake, Goto, TypeOK, NoLostWakeup
  <2>4. CASE TimeOut(t)
    BY <1>0, <2>4 DEF TimeOut, Return, TypeOK, NoLostWakeup
  <2>5. CASE Own(t)
    BY <1>0, <2>5 DEF Own, Granted, Return, TypeOK, NoLostWakeup
  <2>6. CASE TryCheckOwner(t)
    BY <1>0, <2>6 DEF TryCheckOwner, Granted, Return, TypeOK, NoLostWakeup
  <2>7. CASE Disown(t)
    BY <1>0, <2>7 DEF Disown, Goto, TypeOK, NoLostWakeup
  <2>8. CASE Release(t)
    BY <1>0, <2>8 DEF Release, Goto, Return, TypeOK, NoLostWakeup
  <2>9. CASE Signal(t)
    BY <1>0, <2>9 DEF Signal, Return, TypeOK, NoLostWakeup
  <2> QED BY <1>2, <2>1, <2>2, <2>3, <2>4, <2>5, <2>6, <2>7, <2>8, <2>9 DEF Step
<1>3. CASE UNCHANGED vars
  BY <1>0, <1>3 DEF vars, NoLostWakeup
<1> QED BY <1>1, <1>2, <1>3 DEF Next

(* No step makes an error code false: the code is set from what the caller *)
(* holds, and only the caller changes what it holds.                       *)
LEMMA ErrorStep == LockInv /\ ErrorsAreTrue /\ [Next]_vars => ErrorsAreTrue'
<1> SUFFICES ASSUME LockInv, ErrorsAreTrue, [Next]_vars PROVE ErrorsAreTrue'
  OBVIOUS
<1>0. TypeOK /\ OwnerInv /\ ControlInv /\ MutualExclusion /\ ErrorsAreTrue
  BY DEF LockInv
<1>1. ASSUME NEW t \in Threads, Start(t) PROVE ErrorsAreTrue'
  <2>1. ASSUME NEW tm \in BOOLEAN, LockNormal(t, tm) PROVE ErrorsAreTrue'
    BY <1>0, <2>1 DEF LockNormal, Granted, Return, Begin, TypeOK, OwnerInv, ControlInv,
       MutualExclusion, Inside, ErrorsAreTrue, Results
  <2>2. ASSUME NEW tm \in BOOLEAN, LockOwned(t, tm) PROVE ErrorsAreTrue'
    BY <1>0, <2>2 DEF LockOwned, Begin, TypeOK, OwnerInv, ControlInv,
       MutualExclusion, Inside, ErrorsAreTrue, Results
  <2>3. CASE TryLock(t)
    BY <1>0, <2>3 DEF TryLock, Granted, Return, Begin, TypeOK, OwnerInv, ControlInv,
       MutualExclusion, Inside, ErrorsAreTrue, Results
  <2>4. CASE UnlockNormal(t)
    BY <1>0, <2>4 DEF UnlockNormal, Return, Begin, TypeOK, OwnerInv, ControlInv,
       MutualExclusion, Inside, ErrorsAreTrue, Results
  <2>5. CASE UnlockFree(t)
    BY <1>0, <2>5 DEF UnlockFree, Return, TypeOK, OwnerInv, ControlInv,
       MutualExclusion, Inside, ErrorsAreTrue, Results
  <2>6. CASE UnlockOwned(t)
    BY <1>0, <2>6 DEF UnlockOwned, Return, Begin, TypeOK, OwnerInv, ControlInv,
       MutualExclusion, Inside, ErrorsAreTrue, Results
  <2> QED BY <1>1, <2>1, <2>2, <2>3, <2>4, <2>5, <2>6 DEF Start, Unlock
<1>2. ASSUME NEW t \in Threads, Step(t) PROVE ErrorsAreTrue'
  <2>1. CASE CheckOwner(t)
    BY <1>0, <2>1 DEF CheckOwner, Granted, Return, Goto, TypeOK, OwnerInv, ControlInv,
       MutualExclusion, Inside, ErrorsAreTrue, Results
  <2>2. CASE Swap(t)
    BY <1>0, <2>2 DEF Swap, Granted, Return, Goto, TypeOK, OwnerInv, ControlInv,
       MutualExclusion, Inside, ErrorsAreTrue, Results
  <2>3. CASE Wake(t)
    BY <1>0, <2>3 DEF Wake, Goto, TypeOK, OwnerInv, ControlInv,
       MutualExclusion, Inside, ErrorsAreTrue, Results
  <2>4. CASE TimeOut(t)
    BY <1>0, <2>4 DEF TimeOut, Return, TypeOK, OwnerInv, ControlInv,
       MutualExclusion, Inside, ErrorsAreTrue, Results
  <2>5. CASE Own(t)
    BY <1>0, <2>5 DEF Own, Granted, Return, TypeOK, OwnerInv, ControlInv,
       MutualExclusion, Inside, ErrorsAreTrue, Results
  <2>6. CASE TryCheckOwner(t)
    BY <1>0, <2>6 DEF TryCheckOwner, Granted, Return, TypeOK, OwnerInv, ControlInv,
       MutualExclusion, Inside, ErrorsAreTrue, Results
  <2>7. CASE Disown(t)
    BY <1>0, <2>7 DEF Disown, Goto, TypeOK, OwnerInv, ControlInv,
       MutualExclusion, Inside, ErrorsAreTrue, Results
  <2>8. CASE Release(t)
    BY <1>0, <2>8 DEF Release, Goto, Return, TypeOK, OwnerInv, ControlInv,
       MutualExclusion, Inside, ErrorsAreTrue, Results
  <2>9. CASE Signal(t)
    BY <1>0, <2>9 DEF Signal, Return, TypeOK, OwnerInv, ControlInv,
       MutualExclusion, Inside, ErrorsAreTrue, Results
  <2> QED BY <1>2, <2>1, <2>2, <2>3, <2>4, <2>5, <2>6, <2>7, <2>8, <2>9 DEF Step
<1>3. CASE UNCHANGED vars
  BY <1>0, <1>3 DEF vars, ErrorsAreTrue
<1> QED BY <1>1, <1>2, <1>3 DEF Next

(* Each step of the mutex is an acquisition, a release or nothing to the   *)
(* abstract lock.                                                          *)
LEMMA RefineStep == LockInv /\ [Next]_vars => [LockImpl!Next]_held
<1> SUFFICES ASSUME LockInv, [Next]_vars PROVE [LockImpl!Next]_held
  OBVIOUS
<1>0. TypeOK /\ OwnerInv /\ ControlInv /\ MutualExclusion
  BY DEF LockInv
<1>1. ASSUME NEW t \in Threads, Start(t) PROVE [LockImpl!Next]_held
  <2>1. ASSUME NEW tm \in BOOLEAN, LockNormal(t, tm) PROVE [LockImpl!Next]_held
    BY <1>0, <2>1 DEF LockNormal, Granted, Return, Begin, TypeOK, OwnerInv, ControlInv,
       MutualExclusion, Inside, LockImpl!Next, LockImpl!Acquire, LockImpl!Release
  <2>2. ASSUME NEW tm \in BOOLEAN, LockOwned(t, tm) PROVE [LockImpl!Next]_held
    BY <1>0, <2>2 DEF LockOwned, Begin, TypeOK, OwnerInv, ControlInv,
       MutualExclusion, Inside, LockImpl!Next, LockImpl!Acquire, LockImpl!Release
  <2>3. CASE TryLock(t)
    BY <1>0, <2>3 DEF TryLock, Granted, Return, Begin, TypeOK, OwnerInv, ControlInv,
       MutualExclusion, Inside, LockImpl!Next, LockImpl!Acquire, LockImpl!Release
  <2>4. CASE UnlockNormal(t)
    <3>1. held[t] = 1
      BY <1>0, <2>4 DEF UnlockNormal, TypeOK, ControlInv
    <3>2. held' = [held EXCEPT ![t] = @ - 1]
      BY <1>0, <2>4, <3>1 DEF UnlockNormal, TypeOK
    <3>3. LockImpl!Release(t)
      BY <3>1, <3>2 DEF LockImpl!Release
    <3> QED BY <3>3 DEF LockImpl!Next
  <2>5. CASE UnlockFree(t)
    BY <1>0, <2>5 DEF UnlockFree, Return, TypeOK, OwnerInv, ControlInv,
       MutualExclusion, Inside, LockImpl!Next, LockImpl!Acquire, LockImpl!Release
  <2>6. CASE UnlockOwned(t)
    BY <1>0, <2>6 DEF UnlockOwned, Return, Begin, TypeOK, OwnerInv, ControlInv,
       MutualExclusion, Inside, LockImpl!Next, LockImpl!Acquire, LockImpl!Release
  <2> QED BY <1>1, <2>1, <2>2, <2>3, <2>4, <2>5, <2>6 DEF Start, Unlock
<1>2. ASSUME NEW t \in Threads, Step(t) PROVE [LockImpl!Next]_held
  <2>1. CASE CheckOwner(t)
    BY <1>0, <2>1 DEF CheckOwner, Granted, Return, Goto, TypeOK, OwnerInv, ControlInv,
       MutualExclusion, Inside, LockImpl!Next, LockImpl!Acquire, LockImpl!Release
  <2>2. CASE Swap(t)
    BY <1>0, <2>2 DEF Swap, Granted, Return, Goto, TypeOK, OwnerInv, ControlInv,
       MutualExclusion, Inside, LockImpl!Next, LockImpl!Acquire, LockImpl!Release
  <2>3. CASE Wake(t)
    BY <1>0, <2>3 DEF Wake, Goto, TypeOK, OwnerInv, ControlInv,
       MutualExclusion, Inside, LockImpl!Next, LockImpl!Acquire, LockImpl!Release
  <2>4. CASE TimeOut(t)
    BY <1>0, <2>4 DEF TimeOut, Return, TypeOK, OwnerInv, ControlInv,
       MutualExclusion, Inside, LockImpl!Next, LockImpl!Acquire, LockImpl!Release
  <2>5. CASE Own(t)
    <3>1. held' = [held EXCEPT ![t] = @ + 1] /\ Inside(t)
      BY <2>5 DEF Own, Granted, Return, Inside
    <3>2. \A u \in Threads \ {t} : held[u] = 0
      BY <1>0, <3>1 DEF MutualExclusion, Inside, TypeOK
    <3> QED BY <3>1, <3>2 DEF LockImpl!Next, LockImpl!Acquire
  <2>6. CASE TryCheckOwner(t)
    BY <1>0, <2>6 DEF TryCheckOwner, Granted, Return, TypeOK, OwnerInv, ControlInv,
       MutualExclusion, Inside, LockImpl!Next, LockImpl!Acquire, LockImpl!Release
  <2>7. CASE Disown(t)
    BY <1>0, <2>7 DEF Disown, Goto, TypeOK, OwnerInv, ControlInv,
       MutualExclusion, Inside, LockImpl!Next, LockImpl!Acquire, LockImpl!Release
  <2>8. CASE Release(t)
    <3>1. held[t] = 1
      BY <1>0, <2>8 DEF Release, Goto, Return, ControlInv, OwnerInv
    <3>2. held' = [held EXCEPT ![t] = @ - 1]
      BY <1>0, <2>8, <3>1 DEF Release, TypeOK
    <3>3. LockImpl!Release(t)
      BY <3>1, <3>2 DEF LockImpl!Release
    <3> QED BY <3>3 DEF LockImpl!Next
  <2>9. CASE Signal(t)
    BY <1>0, <2>9 DEF Signal, Return, TypeOK, OwnerInv, ControlInv,
       MutualExclusion, Inside, LockImpl!Next, LockImpl!Acquire, LockImpl!Release
  <2> QED BY <1>2, <2>1, <2>2, <2>3, <2>4, <2>5, <2>6, <2>7, <2>8, <2>9 DEF Step
<1>3. CASE UNCHANGED vars
  BY <1>3 DEF vars
<1> QED BY <1>1, <1>2, <1>3 DEF Next

-----------------------------------------------------------------------------
(* The initial states satisfy everything that is kept. *)
LEMMA InitInv == Init => LockInv /\ NoLostWakeup /\ ErrorsAreTrue /\ LockImpl!Init
<1> SUFFICES ASSUME Init
             PROVE  LockInv /\ NoLostWakeup /\ ErrorsAreTrue /\ LockImpl!Init
  OBVIOUS
<1>1. TypeOK
  BY DEF Init, TypeOK, Labels, Results
<1>2. ControlInv /\ OwnerInv
  BY NullAssumption DEF Init, ControlInv, OwnerInv
<1>3. MutualExclusion
  BY DEF Init, MutualExclusion, Inside
<1>4. NoLostWakeup /\ ErrorsAreTrue /\ LockImpl!Init
  BY DEF Init, NoLostWakeup, ErrorsAreTrue, LockImpl!Init
<1> QED BY <1>1, <1>2, <1>3, <1>4 DEF LockInv

LEMMA LockInvHolds == Spec => []LockInv
<1>1. Init => LockInv
  BY InitInv
<1>2. LockInv /\ [Next]_vars => LockInv'
  BY TypeStep, LockStep DEF LockInv
<1> QED BY <1>1, <1>2, PTL DEF Spec

(* Type correctness of the mutex, for any threads and any recursion bound. *)
THEOREM TypeCorrect == Spec => []TypeOK
<1>1. LockInv => TypeOK
  BY DEF LockInv
<1> QED BY <1>1, LockInvHolds, PTL

(* At most one thread is past the exchange that takes the mutex, and       *)
(* lock_idx is 0 exactly when there is none.                               *)
THEOREM Exclusion == Spec => []MutualExclusion
<1>1. LockInv => MutualExclusion
  BY DEF LockInv
<1> QED BY <1>1, LockInvHolds, PTL

(* ownerThread and recursive_count tell the truth between calls.           *)
THEOREM Ownership == Spec => []OwnerTracksHolder
<1>1. LockInv => OwnerTracksHolder
  BY DEF LockInv, OwnerInv, OwnerTracksHolder
<1> QED BY <1>1, LockInvHolds, PTL

(* A thread never waits for a wake-up that nobody owes it.                 *)
THEOREM WakeupsKept == Spec => []NoLostWakeup
<1>1. Init => NoLostWakeup
  BY InitInv
<1> QED BY <1>1, WakeupStep, LockInvHolds, PTL DEF Spec

(* EDEADLK, EPERM, EBUSY and ETIMEDOUT are returned only when they are true. *)
THEOREM TrueErrors == Spec => []ErrorsAreTrue
<1>1. Init => ErrorsAreTrue
  BY InitInv
<1> QED BY <1>1, ErrorStep, LockInvHolds, PTL DEF Spec

(* The mutex implements the abstract lock of module Lock.                  *)
THEOREM Refinement == Spec => ImplementsLock
<1>1. Init => LockImpl!Init
  BY InitInv
<1> QED BY <1>1, RefineStep, LockInvHolds, PTL DEF Spec, ImplementsLock, LockImpl!Spec
=============================================================================
