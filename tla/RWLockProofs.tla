---------------------------- MODULE RWLockProofs ----------------------------
(***************************************************************************)
(* Safety of the read-write lock for every set of threads and every limit  *)
(* of the readers' counter: the counters tell the truth and a waiting      *)
(* writer is due a signal (CountsTrue), a writer is alone (AloneInside),   *)
(* destruction finds nobody (DestroyedUnused), and the lock implements     *)
(* ReadersWriter (RWRefinement).                                           *)
(***************************************************************************)
EXTENDS RWLock, FiniteSetTheorems, TLAPS

(* Where a thread has mtxExclusiveAccess, by where it is inside a call. *)
Inside == {"count", "wait", "woken", "leave", "freeEx", "destroy"}

(* Who holds which mutex, and what the two labels of unlock mean. *)
MutexInv ==
  /\ \A t \in Threads : ex = t <=> (pc[t] \in Inside \/ held[t] = "exclusive")
  /\ \A t \in Threads : sac = t <=> held[t] = "exclusive"
  /\ \A t \in Threads : /\ pc[t] \in Inside => held[t] = "none"
                        /\ pc[t] = "shared" => held[t] = "shared"
                        /\ pc[t] = "exclusive" => held[t] = "exclusive"
  /\ nExcl = IF sac = NoThread THEN 0 ELSE 1

WriterWaits == ex # NoThread /\ pc[ex] \in Waiting

(* The counters against the number of readers.  A writer that waits is the  *)
(* holder of mtxExclusiveAccess, so there is one at most.                   *)
CountInv ==
  alive =>
    /\ WriterWaits => Cardinality(Readers) = -nCompleted
    /\ ~WriterWaits => Cardinality(Readers) = nShared - nCompleted /\ nCompleted >= 0
    /\ sac # NoThread => Readers = {}
    /\ \A t \in Threads : pc[t] = "wait" => nCompleted < 0

RWInv == TypeOK /\ MutexInv /\ CountInv /\ DestroyedIsUnused
----------------------------------------------------------------------------
(* The readers are finitely many, and fewer than the limit. *)
LEMMA ReadersFinite ==
  /\ IsFiniteSet(Readers)
  /\ Cardinality(Readers) \in Nat
  /\ Cardinality(Readers) < MaxShared
  /\ Cardinality(Readers) = 0 <=> Readers = {}
<1>1. Readers \subseteq Threads
  BY DEF Readers
<1>2. IsFiniteSet(Readers) /\ Cardinality(Readers) <= Cardinality(Threads)
  BY <1>1, ThreadsAssumption, FS_Subset
<1>3. Cardinality(Readers) \in Nat /\ Cardinality(Threads) \in Nat
  BY <1>2, ThreadsAssumption, FS_CardinalityType
<1>4. QED
  BY <1>2, <1>3, SharedAssumption, FS_EmptySet

(* The same after a step. *)
LEMMA ReadersLater == Cardinality(Readers') \in Nat /\ Cardinality(Readers') < MaxShared
<1>1. Readers' \subseteq Threads
  BY DEF Readers
<1>2. IsFiniteSet(Readers') /\ Cardinality(Readers') <= Cardinality(Threads)
  BY <1>1, ThreadsAssumption, FS_Subset
<1>3. Cardinality(Readers') \in Nat /\ Cardinality(Threads) \in Nat
  BY <1>2, ThreadsAssumption, FS_CardinalityType
<1>4. QED
  BY <1>2, <1>3, SharedAssumption

(* What a grant or a release does to the readers. *)
LEMMA ReadersMove ==
  ASSUME TypeOK, NEW t \in Threads, NEW mode \in {"none", "shared", "exclusive"},
         Grant(t, mode)
  PROVE  /\ held[t] # "shared" /\ mode = "shared" =>
              /\ Readers' = Readers \cup {t}
              /\ Cardinality(Readers') = Cardinality(Readers) + 1
         /\ held[t] = "shared" /\ mode # "shared" =>
              /\ Readers' = Readers \ {t}
              /\ Cardinality(Readers') = Cardinality(Readers) - 1
         /\ held[t] # "shared" /\ mode # "shared" => Readers' = Readers
         /\ mode = "exclusive" => Writers' = Writers \cup {t}
         /\ mode # "exclusive" => Writers' = Writers \ {t}
<1>1. held' = [held EXCEPT ![t] = mode] /\ held \in [Threads -> {"none", "shared", "exclusive"}]
  BY DEF Grant, TypeOK
<1>2. /\ mode = "exclusive" => Writers' = Writers \cup {t}
      /\ mode # "exclusive" => Writers' = Writers \ {t}
      /\ held[t] # "shared" /\ mode # "shared" => Readers' = Readers
  BY <1>1 DEF Writers, Readers
<1>3. ASSUME held[t] # "shared", mode = "shared"
      PROVE  Readers' = Readers \cup {t} /\ Cardinality(Readers') = Cardinality(Readers) + 1
  <2>1. Readers' = Readers \cup {t} /\ t \notin Readers
    BY <1>1, <1>3 DEF Readers
  <2>2. QED
    BY <2>1, ReadersFinite, FS_AddElement
<1>4. ASSUME held[t] = "shared", mode # "shared"
      PROVE  Readers' = Readers \ {t} /\ Cardinality(Readers') = Cardinality(Readers) - 1
  <2>1. Readers' = Readers \ {t} /\ t \in Readers
    BY <1>1, <1>4 DEF Readers
  <2>2. QED
    BY <2>1, ReadersFinite, FS_RemoveElement
<1>5. QED
  BY <1>2, <1>3, <1>4
----------------------------------------------------------------------------
(* Each mutex stays with the thread that is where it is held. *)
LEMMA MutexStep == RWInv /\ [Next]_vars => MutexInv'
<1> SUFFICES ASSUME RWInv, [Next]_vars PROVE MutexInv'
  OBVIOUS
<1>0. /\ pc \in [Threads -> Labels] /\ held \in [Threads -> {"none", "shared", "exclusive"}]
      /\ MutexInv /\ NoThread \notin Threads
  BY ThreadsAssumption DEF RWInv, TypeOK
<1> USE DEF MutexInv, Inside
<1>1. ASSUME NEW t \in Threads, ReadLock(t) PROVE MutexInv'
  BY <1>0, <1>1 DEF ReadLock, Arrive, Grant
<1>2. ASSUME NEW t \in Threads, WriteLock(t) \/ TryDestroy(t) PROVE MutexInv'
  BY <1>0, <1>2 DEF WriteLock, TryDestroy, Arrive, Goto, counts
<1>3. ASSUME NEW t \in Threads, TryWriteLock(t) PROVE MutexInv'
  BY <1>0, <1>3 DEF TryWriteLock, Arrive, Exclude, Grant
<1>4. ASSUME NEW t \in Threads, Unlock(t) PROVE MutexInv'
  <2>1. held[t] = "shared" => sac = NoThread
    BY <1>4 DEF Unlock, RWInv, DestroyedIsUnused, CountInv, Readers
  <2>2. held[t] = "shared" => nExcl = 0
    BY <1>0, <2>1
  <2>3. held[t] = "exclusive" => nExcl # 0
    BY <1>0
  <2>4. held' = held /\ ex' = ex /\ sac' = sac /\ nExcl' = nExcl
    BY <1>4 DEF Unlock, counts
  <2>5. pc' = [pc EXCEPT ![t] = held[t]]
    BY <1>0, <1>4, <2>2, <2>3 DEF Unlock, Goto
  <2>6. pc[t] = "idle" /\ held[t] \in {"shared", "exclusive"}
    BY <1>0, <1>4 DEF Unlock, Goto
  <2>7. QED
    BY <1>0, <2>4, <2>5, <2>6
<1>5. ASSUME NEW t \in Threads, CountReaders(t) PROVE MutexInv'
  BY <1>0, <1>5 DEF CountReaders, Exclude, Grant, Goto
<1>6. ASSUME NEW t \in Threads, GiveUp(t) \/ WakeSpuriously(t) \/ EndWait(t) PROVE MutexInv'
  BY <1>0, <1>6 DEF GiveUp, WakeSpuriously, EndWait, Goto, counts
<1>7. ASSUME NEW t \in Threads, Recheck(t) PROVE MutexInv'
  BY <1>0, <1>7 DEF Recheck, Exclude, Grant, Goto, counts
<1>8. ASSUME NEW t \in Threads, CancelWrWait(t) \/ FreeEx(t) \/ Destroy(t) PROVE MutexInv'
  BY <1>0, <1>8 DEF CancelWrWait, FreeEx, Destroy, Goto, counts
<1>9. ASSUME NEW t \in Threads, UnlockShared(t) PROVE MutexInv'
  BY <1>0, <1>9 DEF UnlockShared, Grant
<1>10. ASSUME NEW t \in Threads, UnlockExclusive(t) PROVE MutexInv'
  BY <1>0, <1>10 DEF UnlockExclusive, Grant, Goto
<1>11. CASE Create
  BY <1>0, <1>11 DEF Create, RWInv, DestroyedIsUnused
<1>12. CASE UNCHANGED vars
  BY <1>0, <1>12 DEF vars, counts
<1>13. QED
  BY <1>1, <1>2, <1>3, <1>4, <1>5, <1>6, <1>7, <1>8, <1>9, <1>10, <1>11, <1>12
     DEF Next, Begin, Step

(* Each counter is right after every step: the readers are known when they  *)
(* are counted, and the last one finds the negative counter at zero.        *)
LEMMA CountStep ==
  RWInv /\ [Next]_vars => CountInv' /\ nShared' \in 0 .. (MaxShared - 1) /\ nCompleted' \in Int
<1> DEFINE Good == CountInv' /\ nShared' \in 0 .. (MaxShared - 1) /\ nCompleted' \in Int
<1> SUFFICES ASSUME RWInv, [Next]_vars PROVE Good
  OBVIOUS
<1>0. /\ TypeOK /\ MutexInv /\ CountInv /\ DestroyedIsUnused /\ MutexInv'
      /\ nShared \in 0 .. (MaxShared - 1) /\ nCompleted \in Int /\ MaxShared \in Nat
      /\ pc \in [Threads -> Labels] /\ held \in [Threads -> {"none", "shared", "exclusive"}]
      /\ ex \in Threads \cup {NoThread} /\ NoThread \notin Threads
      /\ Cardinality(Readers) \in Nat /\ Cardinality(Readers') \in Nat
      /\ Cardinality(Readers) < MaxShared /\ Cardinality(Readers') < MaxShared
      /\ Cardinality(Readers) = 0 <=> Readers = {}
  BY MutexStep, ReadersFinite, ReadersLater, SharedAssumption, ThreadsAssumption DEF RWInv, TypeOK
<1>w. /\ \A t \in Threads : pc[t] \in Waiting => ex = t /\ WriterWaits /\ alive /\ held[t] = "none"
      /\ \A t \in Threads : pc[t] = "count" => ex = t /\ alive /\ ~WriterWaits /\ held[t] = "none"
      /\ \A t \in Threads : held[t] # "none" => alive
      /\ ex = NoThread => ~WriterWaits
  BY <1>0 DEF MutexInv, Inside, Waiting, WriterWaits, DestroyedIsUnused
<1>1. ASSUME NEW t \in Threads, ReadLock(t) PROVE Good
  <2>1. /\ alive /\ ex = NoThread /\ ~WriterWaits /\ ~WriterWaits'
        /\ Cardinality(Readers') = Cardinality(Readers) + 1 /\ sac' = NoThread
        /\ pc' = pc
    <3>1. /\ alive /\ ex = NoThread /\ ex' = NoThread /\ ~WriterWaits /\ ~WriterWaits'
          /\ pc' = pc /\ sac' = sac /\ held[t] = "none"
      BY <1>0, <1>w, <1>1 DEF ReadLock, Arrive, WriterWaits
    <3>2. Cardinality(Readers') = Cardinality(Readers) + 1
      BY <1>0, <1>1, <3>1, ReadersMove DEF ReadLock
    <3>3. sac = NoThread
      BY <1>0, <3>1 DEF MutexInv, TypeOK
    <3>4. QED
      BY <3>1, <3>2, <3>3
  <2>2. nShared' - nCompleted' = Cardinality(Readers') /\ nCompleted' >= 0 /\ nCompleted' \in Int
    BY <1>0, <1>1, <2>1 DEF ReadLock, CountInv
  <2>3. nShared' \in 0 .. (MaxShared - 1)
    BY <1>0, <1>1, <2>1, <2>2 DEF ReadLock
  <2>4. \A u \in Threads : pc[u] # "wait"
    BY <1>w, <2>1 DEF Waiting
  <2>5. QED
    BY <2>1, <2>2, <2>3, <2>4 DEF CountInv
<1>2. ASSUME NEW t \in Threads, WriteLock(t) \/ TryDestroy(t) PROVE Good
  <2>1. /\ alive /\ ~WriterWaits /\ ~WriterWaits' /\ UNCHANGED <<alive, sac, counts, held>>
    BY <1>0, <1>w, <1>2 DEF WriteLock, TryDestroy, Arrive, Goto, WriterWaits, Waiting
  <2>2. Readers' = Readers /\ \A u \in Threads : pc'[u] # "wait"
    BY <1>0, <1>w, <1>2, <2>1 DEF WriteLock, TryDestroy, Goto, Readers, Waiting, Arrive
  <2>3. QED
    BY <1>0, <2>1, <2>2 DEF CountInv, counts
<1>3. ASSUME NEW t \in Threads, TryWriteLock(t) PROVE Good
  <2>1. alive /\ ~WriterWaits /\ ~WriterWaits' /\ pc' = pc /\ alive' /\ held[t] = "none"
    BY <1>0, <1>w, <1>3 DEF TryWriteLock, Arrive, WriterWaits, Exclude, Waiting
  <2>2. Readers' = Readers
    BY <1>0, <1>3, <2>1, ReadersMove DEF TryWriteLock, Exclude, Readers
  <2>3. /\ nShared' - nCompleted' = Cardinality(Readers) /\ nCompleted' >= 0 /\ nCompleted' \in Int
        /\ nShared' \in 0 .. (MaxShared - 1) /\ Active = Cardinality(Readers)
    BY <1>0, <1>3, <2>1 DEF TryWriteLock, Active, Settled, CountInv
  <2>4. sac' # NoThread => Readers = {}
    BY <1>0, <1>3, <2>1, <2>3 DEF TryWriteLock, CountInv
  <2>5. \A u \in Threads : pc[u] # "wait"
    BY <1>w, <2>1 DEF Waiting
  <2>6. QED
    BY <2>1, <2>2, <2>3, <2>4, <2>5 DEF CountInv
<1>4. ASSUME NEW t \in Threads, Unlock(t) PROVE Good
  <2>1. WriterWaits' = WriterWaits /\ UNCHANGED <<alive, ex, sac, counts, held>>
    BY <1>0, <1>4 DEF Unlock, Goto, counts, WriterWaits, Waiting
  <2>2. Readers' = Readers /\ \A u \in Threads : pc'[u] = "wait" => pc[u] = "wait"
    BY <1>0, <1>4, <2>1 DEF Unlock, Goto, Readers
  <2>3. QED
    BY <1>0, <2>1, <2>2 DEF CountInv, counts
<1>5. ASSUME NEW t \in Threads, CountReaders(t) PROVE Good
  <2>1. /\ ex = t /\ ex' = t /\ alive /\ alive' /\ ~WriterWaits /\ held[t] = "none"
        /\ t # NoThread /\ sac = NoThread
    BY <1>0, <1>w, <1>5 DEF CountReaders, Goto, Exclude
  <2>2. Readers' = Readers
    BY <1>0, <1>5, <2>1, ReadersMove DEF CountReaders, Exclude, Readers
  <2>3. Active = Cardinality(Readers) /\ nShared' = Active
    BY <1>0, <1>5, <2>1 DEF CountReaders, Active, CountInv
  <2>4. \A u \in Threads : u # t => pc[u] # "wait"
    BY <1>w, <2>1 DEF Waiting
  <2>5. CASE Active > 0
    <3>1. nCompleted' = -Active /\ pc' = [pc EXCEPT ![t] = "wait"] /\ sac' = sac
      BY <1>5, <2>3, <2>5, <1>0 DEF CountReaders, Goto
    <3>2. WriterWaits'
      BY <1>0, <2>1, <3>1 DEF WriterWaits, Waiting
    <3>3. QED
      BY <1>0, <2>1, <2>2, <2>3, <2>5, <3>1, <3>2 DEF CountInv
  <2>6. CASE ~(Active > 0)
    <3>1. nCompleted' = Settled /\ pc' = [pc EXCEPT ![t] = "idle"]
      BY <1>5, <2>6 DEF CountReaders, Goto
    <3>2. ~WriterWaits' /\ \A u \in Threads : pc'[u] # "wait"
      BY <1>0, <2>1, <2>4, <3>1 DEF WriterWaits, Waiting
    <3>3. nCompleted' = 0 /\ Readers = {}
      BY <1>0, <2>1, <2>3, <2>6, <3>1 DEF Settled, Active, CountInv
    <3>4. QED
      BY <1>0, <2>1, <2>2, <2>3, <3>2, <3>3 DEF CountInv
  <2>7. QED
    BY <2>5, <2>6
<1>6. ASSUME NEW t \in Threads, WakeSpuriously(t) \/ EndWait(t) PROVE Good
  <2>1. /\ ex = t /\ alive /\ WriterWaits /\ WriterWaits'
        /\ UNCHANGED <<alive, ex, sac, counts, held>>
    BY <1>0, <1>w, <1>6 DEF WakeSpuriously, EndWait, Goto, WriterWaits, Waiting
  <2>2. Readers' = Readers /\ \A u \in Threads : pc'[u] = "wait" => pc[u] = "wait"
    BY <1>0, <1>6, <2>1 DEF WakeSpuriously, EndWait, Goto, Readers
  <2>3. QED
    BY <1>0, <2>1, <2>2 DEF CountInv, counts
<1>7. ASSUME NEW t \in Threads, Recheck(t) PROVE Good
  <2>1. /\ ex = t /\ ex' = t /\ alive /\ alive' /\ WriterWaits /\ held[t] = "none"
        /\ t # NoThread /\ sac = NoThread
    BY <1>0, <1>w, <1>7 DEF Recheck, Goto, Exclude, Waiting
  <2>2. Readers' = Readers
    BY <1>0, <1>7, <2>1, ReadersMove DEF Recheck, Exclude, Readers
  <2>3. Cardinality(Readers) = -nCompleted
    BY <1>0, <2>1 DEF CountInv
  <2>4. \A u \in Threads : u # t => pc[u] # "wait"
    BY <1>w, <2>1 DEF Waiting
  <2>5. CASE nCompleted < 0
    <3>1. UNCHANGED <<sac, counts>> /\ pc' = [pc EXCEPT ![t] = "wait"]
      BY <1>7, <2>5, <1>0 DEF Recheck, Goto, counts
    <3>2. WriterWaits'
      BY <1>0, <2>1, <3>1 DEF WriterWaits, Waiting
    <3>3. QED
      BY <1>0, <2>1, <2>2, <2>3, <2>5, <3>1, <3>2 DEF CountInv, counts
  <2>6. CASE ~(nCompleted < 0)
    <3>1. nCompleted' = nCompleted /\ nShared' = 0 /\ pc' = [pc EXCEPT ![t] = "idle"]
      BY <1>7, <2>6 DEF Recheck, Goto
    <3>2. ~WriterWaits' /\ \A u \in Threads : pc'[u] # "wait"
      BY <1>0, <2>1, <2>4, <3>1 DEF WriterWaits, Waiting
    <3>3. nCompleted = 0 /\ Readers = {}
      BY <1>0, <2>3, <2>6
    <3>4. QED
      BY <1>0, <2>1, <2>2, <2>3, <3>1, <3>2, <3>3, SharedAssumption DEF CountInv
  <2>7. QED
    BY <2>5, <2>6
<1>8. ASSUME NEW t \in Threads, CancelWrWait(t) PROVE Good
  <2>1. /\ ex = t /\ ex' = NoThread /\ alive /\ alive' /\ WriterWaits /\ ~WriterWaits'
        /\ UNCHANGED <<sac, held>> /\ nShared' = -nCompleted /\ nCompleted' = 0
    BY <1>0, <1>w, <1>8 DEF CancelWrWait, Goto, Waiting, WriterWaits
  <2>2. Readers' = Readers /\ \A u \in Threads : pc'[u] # "wait"
    BY <1>0, <1>w, <1>8, <2>1 DEF CancelWrWait, Goto, Readers, Waiting
  <2>3. QED
    BY <1>0, <2>1, <2>2 DEF CountInv
<1>9. ASSUME NEW t \in Threads, UnlockShared(t) PROVE Good
  <2>1. /\ held[t] = "shared" /\ alive /\ alive' /\ nCompleted' = nCompleted + 1
        /\ nShared' = nShared /\ Cardinality(Readers') = Cardinality(Readers) - 1
        /\ sac' = NoThread /\ ex' = ex
    BY <1>0, <1>w, <1>9, ReadersMove DEF UnlockShared, MutexInv
  <2>2. pc' = [u \in Threads |-> IF u = t THEN "idle"
                ELSE IF nCompleted' = 0 /\ pc[u] = "wait" THEN "woken" ELSE pc[u]]
    BY <1>9 DEF UnlockShared
  <2>3. WriterWaits' = WriterWaits
    BY <1>0, <1>9, <2>1, <2>2 DEF UnlockShared, WriterWaits, Waiting, MutexInv, Inside
  <2>4. /\ WriterWaits => Cardinality(Readers') = -nCompleted'
        /\ ~WriterWaits => Cardinality(Readers') = nShared' - nCompleted' /\ nCompleted' >= 0
    BY <1>0, <2>1 DEF CountInv
  <2>5. \A u \in Threads : pc'[u] = "wait" => nCompleted' < 0
    BY <1>0, <2>1, <2>2 DEF CountInv
  <2>6. QED
    BY <1>0, <2>1, <2>3, <2>4, <2>5 DEF CountInv
<1>10. ASSUME NEW t \in Threads, UnlockExclusive(t) PROVE Good
  <2>1. /\ held[t] = "exclusive" /\ sac = t /\ ex = t /\ ex' = t /\ alive /\ alive'
        /\ sac' = NoThread /\ UNCHANGED <<nShared, nCompleted>> /\ ~WriterWaits /\ ~WriterWaits'
    BY <1>0, <1>w, <1>10 DEF UnlockExclusive, Goto, MutexInv, WriterWaits, Waiting, Inside
  <2>2. Readers' = Readers /\ \A u \in Threads : pc'[u] = "wait" => pc[u] = "wait"
    BY <1>0, <1>10, <2>1, ReadersMove DEF UnlockExclusive, Goto
  <2>3. QED
    BY <1>0, <2>1, <2>2 DEF CountInv
<1>11. ASSUME NEW t \in Threads, GiveUp(t) \/ FreeEx(t) \/ Destroy(t) PROVE Good
  <2>1. /\ UNCHANGED <<sac, counts, held>> /\ ~WriterWaits /\ ~WriterWaits' /\ alive
    BY <1>0, <1>w, <1>11
       DEF GiveUp, FreeEx, Destroy, Goto, MutexInv, WriterWaits, Waiting, Inside, DestroyedIsUnused
  <2>2. Readers' = Readers /\ \A u \in Threads : pc'[u] = "wait" => pc[u] = "wait"
    BY <1>0, <1>11, <2>1 DEF GiveUp, FreeEx, Destroy, Goto, Readers
  <2>3. QED
    BY <1>0, <2>1, <2>2 DEF CountInv, counts
<1>12. CASE Create
  <2>1. /\ ~WriterWaits' /\ sac' = NoThread /\ nShared' = 0 /\ nCompleted' = 0
        /\ \A u \in Threads : pc'[u] # "wait"
    BY <1>0, <1>12 DEF Create, DestroyedIsUnused, WriterWaits
  <2>2. Readers' = {}
    BY <1>0, <1>12 DEF Create, DestroyedIsUnused, Readers
  <2>3. QED
    BY <1>0, <2>1, <2>2, FS_EmptySet, SharedAssumption DEF CountInv
<1>13. CASE UNCHANGED vars
  <2>1. Readers' = Readers /\ WriterWaits' = WriterWaits
    BY <1>13 DEF vars, Readers, WriterWaits
  <2>2. QED
    BY <1>0, <1>13, <2>1 DEF vars, counts, CountInv
<1>14. QED
  BY <1>1, <1>2, <1>3, <1>4, <1>5, <1>6, <1>7, <1>8, <1>9, <1>10, <1>11, <1>12, <1>13
     DEF Next, Begin, Step

(* Only a lock that nobody holds is destroyed, and nobody comes to it then. *)
LEMMA DestroyedStep == RWInv /\ [Next]_vars => DestroyedIsUnused'
<1> SUFFICES ASSUME RWInv, [Next]_vars PROVE DestroyedIsUnused'
  OBVIOUS
<1>0. /\ TypeOK /\ MutexInv /\ CountInv /\ DestroyedIsUnused
      /\ pc \in [Threads -> Labels] /\ held \in [Threads -> {"none", "shared", "exclusive"}]
  BY DEF RWInv, TypeOK
<1>1. ASSUME NEW t \in Threads, Destroy(t) PROVE DestroyedIsUnused'
  <2> SUFFICES ASSUME ~alive' PROVE DestroyedIsUnused'
    BY DEF DestroyedIsUnused
  <2>1. /\ alive /\ ex = t /\ ex' = NoThread /\ sac' = sac /\ sac = NoThread /\ held' = held
        /\ pc' = [pc EXCEPT ![t] = "idle"] /\ nExcl = 0 /\ nShared <= nCompleted
    BY <1>0, <1>1 DEF Destroy, Goto, MutexInv, Inside, DestroyedIsUnused, counts, TypeOK
  <2>2. ~WriterWaits
    BY <1>0, <1>1, <2>1 DEF Destroy, Goto, WriterWaits, Waiting
  <2>3. Readers = {}
    BY <1>0, <2>1, <2>2, ReadersFinite DEF CountInv, TypeOK
  <2>4. \A u \in Threads : held[u] = "none"
    BY <1>0, <2>1, <2>3, ThreadsAssumption DEF Readers, MutexInv
  <2>5. \A u \in Threads : u # t => pc[u] = "idle"
    BY <1>0, <2>1, <2>4 DEF MutexInv, Inside, Labels
  <2>6. QED
    BY <1>0, <2>1, <2>4, <2>5 DEF DestroyedIsUnused
<1>2. ASSUME NEW t \in Threads, Begin(t) PROVE DestroyedIsUnused'
  BY <1>0, <1>2 DEF Begin, ReadLock, WriteLock, TryWriteLock, Unlock, TryDestroy, Arrive,
     DestroyedIsUnused
<1>3. ASSUME NEW t \in Threads, Step(t) \/ GiveUp(t) \/ WakeSpuriously(t) \/ EndWait(t), ~Destroy(t)
      PROVE DestroyedIsUnused'
  <2>1. pc[t] # "idle" /\ alive' = alive
    BY <1>3 DEF Step, CountReaders, Recheck, CancelWrWait, UnlockShared, UnlockExclusive,
       FreeEx, GiveUp, WakeSpuriously, EndWait, Goto
  <2>2. QED
    BY <1>0, <2>1 DEF DestroyedIsUnused
<1>4. CASE Create \/ UNCHANGED vars
  BY <1>0, <1>4 DEF Create, vars, DestroyedIsUnused
<1>5. QED
  BY <1>1, <1>2, <1>3, <1>4 DEF Next

(* Every variable keeps its type; the counters are the part that needs more. *)
LEMMA TypeStep == RWInv /\ [Next]_vars => TypeOK'
<1> SUFFICES ASSUME RWInv, [Next]_vars PROVE TypeOK'
  OBVIOUS
<1> DEFINE Typed == /\ alive' \in BOOLEAN
                    /\ ex' \in Threads \cup {NoThread} /\ sac' \in Threads \cup {NoThread}
                    /\ pc' \in [Threads -> Labels]
                    /\ held' \in [Threads -> {"none", "shared", "exclusive"}]
<1>0. TypeOK /\ MutexInv'
  BY MutexStep DEF RWInv
<1>1. nShared' \in 0 .. (MaxShared - 1) /\ nCompleted' \in Int /\ nExcl' \in {0, 1}
  BY <1>0, CountStep DEF MutexInv
<1>2. Typed
  <2>1. ASSUME NEW t \in Threads, Begin(t) PROVE Typed
    BY <1>0, <2>1 DEF Begin, ReadLock, WriteLock, TryWriteLock, Unlock, TryDestroy, Exclude,
       Grant, Goto, TypeOK, Labels
  <2>2. ASSUME NEW t \in Threads, Step(t) PROVE Typed
    BY <1>0, <2>2 DEF Step, CountReaders, Recheck, CancelWrWait, UnlockShared, UnlockExclusive,
       FreeEx, Destroy, Exclude, Grant, Goto, TypeOK, Labels
  <2>3. ASSUME NEW t \in Threads, GiveUp(t) \/ WakeSpuriously(t) \/ EndWait(t) PROVE Typed
    BY <1>0, <2>3 DEF GiveUp, WakeSpuriously, EndWait, Goto, TypeOK, Labels
  <2>4. CASE Create \/ UNCHANGED vars
    BY <1>0, <2>4 DEF Create, vars, TypeOK
  <2>5. QED
    BY <2>1, <2>2, <2>3, <2>4 DEF Next
<1>3. QED
  BY <1>1, <1>2 DEF TypeOK
----------------------------------------------------------------------------
(* Whoever is to exclude the others finds nobody there. *)
LEMMA ExcludeAlone ==
  ASSUME RWInv, NEW t \in Threads, Exclude(t), alive, held[t] = "none", sac = NoThread,
         WriterWaits => nCompleted >= 0,
         ~WriterWaits => nShared - nCompleted <= 0
  PROVE  RWImpl!StartWrite(t)
<1>1. TypeOK /\ MutexInv /\ CountInv /\ nShared \in Int /\ nCompleted \in Int
  BY DEF RWInv, TypeOK
<1>2. Readers = {}
  BY <1>1, ReadersFinite DEF CountInv
<1>3. Writers = {}
  BY <1>1, ThreadsAssumption DEF MutexInv, Writers
<1>4. Writers' = {t} /\ Readers' = Readers
  BY <1>1, <1>3, ReadersMove DEF Exclude
<1>5. QED
  BY <1>2, <1>3, <1>4 DEF RWImpl!StartWrite

(* Every step starts or ends a reader or a writer, or changes neither. *)
LEMMA RefineStep == RWInv /\ [Next]_vars => [RWImpl!Next]_<<Readers, Writers>>
<1> DEFINE Refined == RWImpl!Next \/ UNCHANGED <<Readers, Writers>>
<1> SUFFICES ASSUME RWInv, [Next]_vars PROVE Refined
  OBVIOUS
<1>0. TypeOK /\ MutexInv /\ CountInv /\ DestroyedIsUnused /\ NoThread \notin Threads
  BY ThreadsAssumption DEF RWInv
<1>u. ASSUME held' = held PROVE Refined
  BY <1>u DEF Readers, Writers
<1>1. ASSUME NEW t \in Threads, ReadLock(t) PROVE Refined
  <2>1. held[t] = "none" /\ ex = NoThread /\ Grant(t, "shared")
    BY <1>1 DEF ReadLock, Arrive
  <2>2. Writers = {}
    BY <1>0, <2>1 DEF MutexInv, Writers
  <2>3. Readers' = Readers \cup {t} /\ Writers' = Writers /\ t \notin Readers
    BY <1>0, <2>1, <2>2, ReadersMove DEF Readers
  <2>4. RWImpl!StartRead(t)
    BY <2>2, <2>3 DEF RWImpl!StartRead
  <2>5. QED
    BY <2>4 DEF RWImpl!Next
<1>2. ASSUME NEW t \in Threads, TryWriteLock(t) PROVE Refined
  <2>1. /\ alive /\ held[t] = "none" /\ ex = NoThread /\ ~WriterWaits
        /\ nShared \in Int /\ nCompleted \in Int /\ nCompleted >= 0
    BY <1>0, <1>2 DEF TryWriteLock, Arrive, WriterWaits, CountInv, TypeOK
  <2>2. sac = NoThread
    BY <1>0, <2>1 DEF MutexInv, TypeOK
  <2>3. CASE held' = held
    BY <1>u, <2>3
  <2>4. CASE Active <= 0 /\ Exclude(t)
    <3>1. nShared - nCompleted <= 0
      BY <2>1, <2>4 DEF Active
    <3>2. RWImpl!StartWrite(t)
      BY <2>1, <2>2, <2>4, <3>1, ExcludeAlone
    <3>3. QED
      BY <3>2 DEF RWImpl!Next
  <2>5. QED
    BY <1>2, <2>3, <2>4 DEF TryWriteLock
<1>3. ASSUME NEW t \in Threads, CountReaders(t) PROVE Refined
  <2>1. /\ pc[t] = "count" /\ ex = t /\ alive /\ held[t] = "none" /\ ~WriterWaits /\ sac = NoThread
        /\ nShared \in Int /\ nCompleted \in Int /\ nCompleted >= 0
    BY <1>0, <1>3
       DEF CountReaders, Goto, MutexInv, Inside, DestroyedIsUnused, WriterWaits, Waiting,
           CountInv, TypeOK
  <2>2. CASE held' = held
    BY <1>u, <2>2
  <2>3. CASE Active <= 0 /\ Exclude(t)
    <3>1. nShared - nCompleted <= 0
      BY <2>1, <2>3 DEF Active
    <3>2. RWImpl!StartWrite(t)
      BY <2>1, <2>3, <3>1, ExcludeAlone
    <3>3. QED
      BY <3>2 DEF RWImpl!Next
  <2>4. QED
    BY <1>3, <2>2, <2>3 DEF CountReaders
<1>4. ASSUME NEW t \in Threads, Recheck(t) PROVE Refined
  <2>1. /\ pc[t] = "woken" /\ ex = t /\ alive /\ held[t] = "none" /\ WriterWaits /\ sac = NoThread
    BY <1>0, <1>4
       DEF Recheck, Goto, MutexInv, Inside, DestroyedIsUnused, WriterWaits, Waiting
  <2>2. CASE held' = held
    BY <1>u, <2>2
  <2>3. CASE nCompleted >= 0 /\ Exclude(t)
    <3>1. RWImpl!StartWrite(t)
      BY <2>1, <2>3, ExcludeAlone
    <3>2. QED
      BY <3>1 DEF RWImpl!Next
  <2>4. QED
    BY <1>4, <2>2, <2>3 DEF Recheck
<1>5. ASSUME NEW t \in Threads, UnlockShared(t) PROVE Refined
  <2>1. held[t] = "shared" /\ Grant(t, "none")
    BY <1>0, <1>5 DEF UnlockShared, MutexInv
  <2>2. Readers' = Readers \ {t} /\ Writers' = Writers \ {t} /\ t \in Readers /\ t \notin Writers
    BY <1>0, <2>1, ReadersMove DEF Readers, Writers
  <2>3. RWImpl!EndRead(t)
    BY <2>2 DEF RWImpl!EndRead
  <2>4. QED
    BY <2>3 DEF RWImpl!Next
<1>6. ASSUME NEW t \in Threads, UnlockExclusive(t) PROVE Refined
  <2>1. held[t] = "exclusive" /\ Grant(t, "none")
    BY <1>0, <1>6 DEF UnlockExclusive, Goto, MutexInv
  <2>2. Readers' = Readers /\ Writers' = Writers \ {t} /\ t \in Writers
    BY <1>0, <2>1, ReadersMove DEF Writers
  <2>3. RWImpl!EndWrite(t)
    BY <2>2 DEF RWImpl!EndWrite
  <2>4. QED
    BY <2>3 DEF RWImpl!Next
<1>7. ASSUME NEW t \in Threads,
             WriteLock(t) \/ Unlock(t) \/ TryDestroy(t) \/ GiveUp(t) \/ WakeSpuriously(t)
               \/ EndWait(t) \/ CancelWrWait(t) \/ FreeEx(t) \/ Destroy(t)
      PROVE  Refined
  BY <1>u, <1>7 DEF WriteLock, Unlock, TryDestroy, GiveUp, WakeSpuriously, EndWait,
     CancelWrWait, FreeEx, Destroy
<1>8. CASE Create \/ UNCHANGED vars
  BY <1>u, <1>8 DEF Create, vars
<1>9. QED
  BY <1>1, <1>2, <1>3, <1>4, <1>5, <1>6, <1>7, <1>8 DEF Next, Begin, Step
----------------------------------------------------------------------------
(* The lock begins free, with all counters at zero. *)
LEMMA InitInv == Init => RWInv /\ RWImpl!Init
<1> SUFFICES ASSUME Init PROVE RWInv /\ RWImpl!Init
  OBVIOUS
<1>1. Readers = {} /\ Writers = {} /\ Cardinality(Readers) = 0
  BY FS_EmptySet DEF Init, Readers, Writers
<1>2. MaxShared \in Nat /\ 0 \in 0 .. (MaxShared - 1)
  BY <1>1, SharedAssumption, ReadersFinite
<1>3. TypeOK
  BY <1>2 DEF Init, TypeOK, Labels
<1>4. MutexInv /\ DestroyedIsUnused
  BY ThreadsAssumption DEF Init, MutexInv, Inside, DestroyedIsUnused
<1>5. CountInv
  BY <1>1, ThreadsAssumption DEF Init, CountInv, WriterWaits
<1>6. QED
  BY <1>1, <1>3, <1>4, <1>5 DEF RWInv, RWImpl!Init

LEMMA RWInvHolds == Spec => []RWInv
<1>1. RWInv /\ [Next]_vars => RWInv'
  BY TypeStep, MutexStep, CountStep, DestroyedStep DEF RWInv
<1>2. QED
  BY InitInv, <1>1, PTL DEF Spec

(* Every variable keeps its type, and the readers' counter stays below     *)
(* INT_MAX, through arrivals, departures, cancelled writers and settlings.  *)
THEOREM RWTypeCorrect == Spec => []TypeOK
<1>1. RWInv => TypeOK
  BY DEF RWInv
<1>2. QED
  BY <1>1, RWInvHolds, PTL

(* The counters of readers always tell how many are in, and a writer that   *)
(* waits is due a signal.                                                   *)
THEOREM CountsTrue == Spec => []CountsMatch
<1>1. RWInv => CountsMatch
  <2> SUFFICES ASSUME RWInv PROVE CountsMatch
    OBVIOUS
  <2>1. (\E t \in Threads : pc[t] \in Waiting) <=> WriterWaits
    BY ThreadsAssumption DEF RWInv, MutexInv, Inside, Waiting, WriterWaits, TypeOK
  <2>2. QED
    BY <2>1 DEF RWInv, CountInv, CountsMatch
<1>2. QED
  BY <1>1, RWInvHolds, PTL

(* Nobody who comes to the lock finds an exclusive holder counted, and the  *)
(* unprotected read in unlock tells readers from writers.                   *)
THEOREM AloneInside == Spec => []ExclusiveIsAlone
<1>1. RWInv => ExclusiveIsAlone
  <2> SUFFICES ASSUME RWInv PROVE ExclusiveIsAlone
    OBVIOUS
  <2>1. ASSUME ex = NoThread \/ pc[ex] = "count" PROVE nExcl = 0
    <3>1. \A t \in Threads : sac # t
      BY <2>1, ThreadsAssumption DEF RWInv, MutexInv, Inside
    <3>2. QED
      BY <3>1 DEF RWInv, MutexInv, TypeOK
  <2>2. \A t \in Threads : pc[t] \in {"shared", "exclusive"} => held[t] = pc[t]
    BY DEF RWInv, MutexInv
  <2>3. QED
    BY <2>1, <2>2 DEF ExclusiveIsAlone
<1>2. QED
  BY <1>1, RWInvHolds, PTL

(* Only a lock that nobody holds or waits for is ever destroyed. *)
THEOREM DestroyedUnused == Spec => []DestroyedIsUnused
<1>1. RWInv => DestroyedIsUnused
  BY DEF RWInv
<1>2. QED
  BY <1>1, RWInvHolds, PTL

(* The lock implements the readers-writer lock. *)
THEOREM RWRefinement == Spec => ImplementsReadersWriter
<1>1. RWInv /\ [Next]_vars => [RWImpl!Next]_<<Readers, Writers>>
  BY RefineStep
<1>2. QED
  BY InitInv, RWInvHolds, <1>1, PTL DEF Spec, ImplementsReadersWriter, RWImpl!Spec
=============================================================================
