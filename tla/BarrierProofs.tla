---------------------------- MODULE BarrierProofs ---------------------------
(***************************************************************************)
(* Safety of the barrier for every count and as many threads, and any      *)
(* number of rounds, where the decrement is a 4-byte one (~Win64).         *)
(*                                                                         *)
(* The counter, the two semaphores and iStep are each reused in every      *)
(* round, so that what they say depends on the round.  The inductive       *)
(* invariant names it: in round k threads arrive for the (k+1)-st time,    *)
(* while some may still be leaving round k-1 by the other semaphore.       *)
(***************************************************************************)
EXTENDS Barrier, FiniteSetTheorems, TLAPS

Arrived(k)  == {t \in Threads : arrived[t] = k + 1}
Sleeping(k) == {t \in Threads : passed[t] = k - 1 /\ pc[t] = "wait"}
Last        == {t \in Threads : pc[t] \in {"reset", "post"}}

(* A thread has not come to round k yet, is in it, or is leaving the one    *)
(* before.                                                                  *)
Coming(t, k)  == /\ passed[t] = k /\ arrived[t] = k
                 /\ pc[t] = "idle" \/ (pc[t] = "decrement" /\ step[t] = k % 2)
Inside(t, k)  == /\ passed[t] = k /\ arrived[t] = k + 1
                 /\ pc[t] \in {"wait", "reset", "post"} /\ step[t] = k % 2
Leaving(t, k) == /\ passed[t] = k - 1 /\ arrived[t] = k
                 /\ pc[t] \in {"wait", "cross"} /\ step[t] = 1 - (k % 2)

ThreadsInv(k) == \A t \in Threads : Coming(t, k) \/ Inside(t, k) \/ Leaving(t, k)

PermitInv(k) == permits[k % 2] = 0 /\ permits[1 - (k % 2)] = Cardinality(Sleeping(k))

(* The first to leave round k-1 turns iStep, and is its serial thread. *)
StepInv(k) ==
  /\ (\E t \in Threads : passed[t] = k) => iStep = k % 2 /\ serial = k
  /\ (\A t \in Threads : passed[t] # k) => iStep = 1 - (k % 2) /\ serial = k - 1

CountInv(k) ==
  /\ initial = Height
  /\ \A t, u \in Last : t = u
  /\ Last = {} => Arrived(k) # Threads /\ current = Height - Cardinality(Arrived(k))
  /\ Last # {} => Arrived(k) = Threads
  /\ \A t \in Threads : pc[t] = "post" => current = Height

RoundInv(k) == ThreadsInv(k) /\ PermitInv(k) /\ StepInv(k) /\ CountInv(k)

BarrierInv == TypeOK /\ \E k \in Nat : RoundInv(k)
----------------------------------------------------------------------------
LEMMA Parity ==
  ASSUME NEW k \in Nat
  PROVE  k % 2 \in {0, 1} /\ (k + 1) % 2 = 1 - (k % 2)
  OBVIOUS

LEMMA WordRange == Height \in Nat /\ Height >= 1 /\ Height < WordSize /\ WordSize \in Nat
  BY HeightAssumption, BoundAssumption

LEMMA WordSub ==
  ASSUME NEW x \in Nat, x < WordSize
  PROVE  x % WordSize = x
<1>1. WordSize \in Nat /\ WordSize > 0
  BY WordRange
<1>2. QED
  BY <1>1

LEMMA ArrivedFinite ==
  ASSUME NEW k \in Nat
  PROVE  /\ IsFiniteSet(Arrived(k)) /\ Cardinality(Arrived(k)) \in Nat
         /\ Cardinality(Arrived(k)) <= Cardinality(Threads)
         /\ Cardinality(Arrived(k)) = Cardinality(Threads) => Arrived(k) = Threads
<1>1. Arrived(k) \in SUBSET Threads
  BY DEF Arrived
<1>2. QED
  BY <1>1, ThreadsAssumption, FS_Subset, FS_CardinalityType

LEMMA SleepingFinite ==
  ASSUME NEW k \in Nat
  PROVE  IsFiniteSet(Sleeping(k)) /\ Cardinality(Sleeping(k)) \in Nat
<1>1. Sleeping(k) \in SUBSET Threads
  BY DEF Sleeping
<1>2. QED
  BY <1>1, ThreadsAssumption, FS_Subset, FS_CardinalityType

LEMMA ThreadsExist == ASSUME Cardinality(Threads) = Height PROVE Threads # {}
  BY WordRange, FS_EmptySet
----------------------------------------------------------------------------
LEMMA InitHolds ==
  ASSUME Cardinality(Threads) = Height, Init
  PROVE  TypeOK /\ RoundInv(0)
<1>1. TypeOK
  BY WordRange DEF Init, TypeOK, Labels
<1>2. ThreadsInv(0)
  BY DEF Init, ThreadsInv, Coming
<1>3. Arrived(0) = {} /\ Sleeping(0) = {} /\ Last = {}
  BY DEF Init, Arrived, Sleeping, Last
<1>4. PermitInv(0)
  BY <1>3, FS_EmptySet DEF Init, PermitInv
<1>5. StepInv(0)
  BY ThreadsExist DEF Init, StepInv
<1>6. CountInv(0)
  BY <1>3, ThreadsExist, WordRange, FS_EmptySet DEF Init, CountInv
<1>7. QED
  BY <1>1, <1>2, <1>4, <1>5, <1>6 DEF RoundInv

LEMMA ReadStepKeeps ==
  ASSUME TypeOK, NEW k \in Nat, RoundInv(k), NEW t \in Threads, ReadStep(t)
  PROVE  TypeOK' /\ RoundInv(k)'
<1>1. /\ pc[t] = "idle" /\ pc' = [pc EXCEPT ![t] = "decrement"]
      /\ step' = [step EXCEPT ![t] = iStep]
      /\ UNCHANGED <<current, initial, iStep, permits, arrived, passed, serial>>
  BY DEF ReadStep, Goto
<1>2. TypeOK'
  BY <1>1 DEF TypeOK, Labels
<1>3. Coming(t, k)
  BY <1>1 DEF RoundInv, ThreadsInv, Inside, Leaving
<1>4. iStep = k % 2
  BY <1>3 DEF Coming, RoundInv, StepInv
<1>5. Coming(t, k)'
  BY <1>1, <1>3, <1>4 DEF Coming, TypeOK
<1>6. ThreadsInv(k)'
  <2>1. ASSUME NEW u \in Threads, u # t PROVE (Coming(u, k) \/ Inside(u, k) \/ Leaving(u, k))'
    BY <1>1, <2>1 DEF RoundInv, ThreadsInv, Coming, Inside, Leaving, TypeOK
  <2>2. QED
    BY <1>5, <2>1 DEF ThreadsInv
<1>7. Arrived(k)' = Arrived(k) /\ Sleeping(k)' = Sleeping(k) /\ Last' = Last
  BY <1>1 DEF Arrived, Sleeping, Last, TypeOK
<1>8. \A u \in Threads : pc'[u] = "post" => pc[u] = "post"
  BY <1>1 DEF TypeOK
<1>9. PermitInv(k)' /\ StepInv(k)' /\ CountInv(k)'
  BY <1>1, <1>7, <1>8 DEF RoundInv, PermitInv, StepInv, CountInv
<1>10. QED
  BY <1>2, <1>6, <1>9 DEF RoundInv

(* An arrival finds the counter above 0: the last one has not come. *)
LEMMA DecrementKeeps ==
  ASSUME ~Win64, Cardinality(Threads) = Height,
         TypeOK, NEW k \in Nat, RoundInv(k), NEW t \in Threads, Decrement(t)
  PROVE  TypeOK' /\ RoundInv(k)'
<1>1. /\ pc[t] = "decrement" /\ current' = (current - 1) % WordSize /\ initial' = initial
      /\ arrived' = [arrived EXCEPT ![t] = arrived[t] + 1]
      /\ pc' = [pc EXCEPT ![t] = IF current' = 0 THEN "reset" ELSE "wait"]
      /\ UNCHANGED <<iStep, permits, step, passed, serial>>
  BY DEF Decrement, DecrementWord, Goto
<1>2. Coming(t, k) /\ t \notin Arrived(k)
  BY <1>1 DEF RoundInv, ThreadsInv, Coming, Inside, Leaving, Arrived
<1>3. Last = {} /\ current = Height - Cardinality(Arrived(k))
  BY <1>2 DEF RoundInv, CountInv
<1>4. /\ Cardinality(Arrived(k)) \in Nat /\ Cardinality(Arrived(k)) < Height
      /\ IsFiniteSet(Arrived(k))
  BY <1>2, ArrivedFinite, WordRange
<1>5. current - 1 \in Nat /\ current - 1 < WordSize
  BY <1>3, <1>4, WordRange
<1>6. current' = current - 1
  BY <1>1, <1>5, WordSub
<1>7. Arrived(k)' = Arrived(k) \cup {t}
  BY <1>1, <1>2 DEF Arrived, Coming, TypeOK
<1>8. Cardinality(Arrived(k)') = Cardinality(Arrived(k)) + 1
  BY <1>2, <1>4, <1>7, FS_AddElement
<1>9. current' = Height - Cardinality(Arrived(k)') /\ current' \in 0 .. (WordSize - 1)
  BY <1>3, <1>4, <1>5, <1>6, <1>8, WordRange
<1>10. current' = 0 <=> Arrived(k)' = Threads
  <2>1. Arrived(k)' \in SUBSET Threads
    BY DEF Arrived
  <2>2. Cardinality(Arrived(k)') = Cardinality(Threads) => Arrived(k)' = Threads
    BY <2>1, ThreadsAssumption, FS_Subset
  <2>3. QED
    BY <1>4, <1>8, <1>9, <2>2, WordRange
<1>11. TypeOK'
  <2>1. pc' \in [Threads -> Labels] /\ arrived' \in [Threads -> Nat]
    BY <1>1 DEF TypeOK, Labels
  <2>2. QED
    BY <1>1, <1>9, <2>1 DEF TypeOK
<1>12. pc'[t] \in {"reset", "wait"} /\ \A u \in Threads \ {t} : pc'[u] = pc[u]
  BY <1>1 DEF TypeOK
<1>13. ThreadsInv(k)'
  <2>1. ASSUME NEW u \in Threads, u # t PROVE (Coming(u, k) \/ Inside(u, k) \/ Leaving(u, k))'
    BY <1>1, <1>12, <2>1 DEF RoundInv, ThreadsInv, Coming, Inside, Leaving, TypeOK
  <2>2. Inside(t, k)'
    BY <1>1, <1>2, <1>12 DEF Coming, Inside, TypeOK
  <2>3. QED
    BY <2>1, <2>2 DEF ThreadsInv
<1>14. Sleeping(k)' = Sleeping(k)
  BY <1>1, <1>2, <1>12 DEF Sleeping, Coming
<1>15. PermitInv(k)' /\ StepInv(k)'
  BY <1>1, <1>14 DEF RoundInv, PermitInv, StepInv
<1>16. /\ current' = 0 => Last' = {t}
       /\ current' # 0 => Last' = {}
  BY <1>1, <1>3, <1>12 DEF Last, TypeOK
<1>17. \A u \in Threads : pc'[u] # "post"
  BY <1>3, <1>12 DEF Last
<1>18. CountInv(k)'
  BY <1>1, <1>9, <1>10, <1>16, <1>17 DEF CountInv, RoundInv
<1>19. QED
  BY <1>11, <1>13, <1>15, <1>18 DEF RoundInv

LEMMA ResetKeeps ==
  ASSUME TypeOK, NEW k \in Nat, RoundInv(k), NEW t \in Threads, Reset(t)
  PROVE  TypeOK' /\ RoundInv(k)'
<1>1. /\ pc[t] = "reset" /\ pc' = [pc EXCEPT ![t] = "post"] /\ current' = initial
      /\ UNCHANGED <<initial, iStep, permits, step, arrived, passed, serial>>
  BY DEF Reset, Goto
<1>2. TypeOK'
  BY <1>1 DEF TypeOK, Labels
<1>3. ThreadsInv(k)'
  BY <1>1 DEF RoundInv, ThreadsInv, Coming, Inside, Leaving, TypeOK
<1>4. /\ Arrived(k)' = Arrived(k) /\ Sleeping(k)' = Sleeping(k) /\ Last' = Last
      /\ t \in Last
  BY <1>1 DEF Arrived, Sleeping, Last, TypeOK
<1>5. PermitInv(k)' /\ StepInv(k)' /\ CountInv(k)'
  BY <1>1, <1>4 DEF RoundInv, PermitInv, StepInv, CountInv
<1>6. QED
  BY <1>2, <1>3, <1>5 DEF RoundInv

(* The post ends round k: everybody in it is leaving it. *)
LEMMA PostAllAdvances ==
  ASSUME Cardinality(Threads) = Height,
         TypeOK, NEW k \in Nat, RoundInv(k), NEW t \in Threads, PostAll(t)
  PROVE  TypeOK' /\ RoundInv(k + 1)'
<1>1. /\ pc[t] = "post" /\ pc' = [pc EXCEPT ![t] = "cross"]
      /\ permits' = [permits EXCEPT ![step[t]] = permits[step[t]] + (initial - 1)]
      /\ UNCHANGED <<current, initial, iStep, step, arrived, passed, serial>>
  BY DEF PostAll, Goto
<1>2. Arrived(k) = Threads /\ initial = Height /\ current = Height
      /\ \A u \in Threads \ {t} : pc[u] \notin {"reset", "post"}
  BY <1>1 DEF RoundInv, CountInv, Last
<1>3. \A u \in Threads : Inside(u, k) /\ step[u] = k % 2 /\ passed[u] = k /\ arrived[u] = k + 1
  BY <1>2 DEF RoundInv, ThreadsInv, Coming, Inside, Leaving, Arrived
<1>4. pc'[t] = "cross" /\ \A u \in Threads \ {t} : pc'[u] = "wait"
  BY <1>1, <1>2, <1>3 DEF Inside, TypeOK
<1>5. Sleeping(k) = {}
  BY <1>3 DEF Sleeping
<1>6. permits[k % 2] = 0 /\ permits[1 - (k % 2)] = 0
  BY <1>5, FS_EmptySet DEF RoundInv, PermitInv
<1>7. permits'[k % 2] = Height - 1 /\ permits'[1 - (k % 2)] = 0
  BY <1>1, <1>2, <1>3, <1>6, Parity, WordRange DEF TypeOK
<1>8. TypeOK'
  BY <1>1, <1>2, <1>3, <1>6, WordRange DEF TypeOK, Labels
<1>9. Sleeping(k + 1)' = Threads \ {t}
  BY <1>1, <1>3, <1>4 DEF Sleeping
<1>10. Cardinality(Sleeping(k + 1)') = Height - 1
  BY <1>9, ThreadsAssumption, FS_RemoveElement
<1>11. (k + 1) % 2 = 1 - (k % 2) /\ k % 2 \in {0, 1}
  BY Parity
<1>12. PermitInv(k + 1)'
  BY <1>7, <1>10, <1>11 DEF PermitInv
<1>13. ThreadsInv(k + 1)'
  BY <1>1, <1>3, <1>4, <1>11 DEF ThreadsInv, Leaving
<1>14. StepInv(k + 1)'
  BY <1>1, <1>3, <1>11, ThreadsExist DEF RoundInv, StepInv
<1>15. Last' = {} /\ Arrived(k + 1)' = {}
  BY <1>1, <1>3, <1>4 DEF Last, Arrived
<1>16. CountInv(k + 1)'
  BY <1>1, <1>2, <1>4, <1>15, ThreadsExist, WordRange, FS_EmptySet DEF CountInv
<1>17. QED
  BY <1>8, <1>12, <1>13, <1>14, <1>16 DEF RoundInv

(* The permits of a round are for the threads that still sleep in it. *)
LEMMA SemWaitKeeps ==
  ASSUME TypeOK, NEW k \in Nat, RoundInv(k), NEW t \in Threads, SemWait(t)
  PROVE  TypeOK' /\ RoundInv(k)'
<1>1. /\ pc[t] = "wait" /\ pc' = [pc EXCEPT ![t] = "cross"] /\ permits[step[t]] > 0
      /\ permits' = [permits EXCEPT ![step[t]] = permits[step[t]] - 1]
      /\ UNCHANGED <<current, initial, iStep, step, arrived, passed, serial>>
  BY DEF SemWait, Goto
<1>2. Leaving(t, k) /\ step[t] = 1 - (k % 2) /\ k % 2 \in {0, 1}
  BY <1>1, Parity DEF RoundInv, ThreadsInv, Coming, Inside, Leaving, PermitInv
<1>3. TypeOK'
  BY <1>1 DEF TypeOK, Labels
<1>4. pc'[t] = "cross" /\ \A u \in Threads \ {t} : pc'[u] = pc[u]
  BY <1>1 DEF TypeOK
<1>5. ThreadsInv(k)'
  <2>1. ASSUME NEW u \in Threads, u # t PROVE (Coming(u, k) \/ Inside(u, k) \/ Leaving(u, k))'
    BY <1>1, <1>4, <2>1 DEF RoundInv, ThreadsInv, Coming, Inside, Leaving
  <2>2. Leaving(t, k)'
    BY <1>1, <1>2, <1>4 DEF Leaving
  <2>3. QED
    BY <2>1, <2>2 DEF ThreadsInv
<1>6. t \in Sleeping(k) /\ Sleeping(k)' = Sleeping(k) \ {t}
  BY <1>1, <1>2, <1>4 DEF Sleeping, Leaving
<1>7. Cardinality(Sleeping(k)') = Cardinality(Sleeping(k)) - 1
  BY <1>6, SleepingFinite, FS_RemoveElement
<1>8. PermitInv(k)'
  BY <1>1, <1>2, <1>7 DEF RoundInv, PermitInv, TypeOK
<1>9. Arrived(k)' = Arrived(k) /\ Last' = Last
  BY <1>1, <1>4 DEF Arrived, Last
<1>10. StepInv(k)' /\ CountInv(k)'
  BY <1>1, <1>4, <1>9 DEF RoundInv, StepInv, CountInv
<1>11. QED
  BY <1>3, <1>5, <1>8, <1>10 DEF RoundInv

LEMMA CrossKeeps ==
  ASSUME TypeOK, NEW k \in Nat, RoundInv(k), NEW t \in Threads, Cross(t)
  PROVE  TypeOK' /\ RoundInv(k)'
<1>1. /\ pc[t] = "cross" /\ pc' = [pc EXCEPT ![t] = "idle"]
      /\ passed' = [passed EXCEPT ![t] = passed[t] + 1]
      /\ \/ iStep = step[t] /\ iStep' = 1 - step[t] /\ serial' = serial + 1
         \/ iStep # step[t] /\ iStep' = iStep /\ serial' = serial
      /\ UNCHANGED <<current, initial, permits, step, arrived>>
  BY DEF Cross, Goto
<1>2. Leaving(t, k) /\ k % 2 \in {0, 1}
  BY <1>1, Parity DEF RoundInv, ThreadsInv, Coming, Inside, Leaving
<1>3. step[t] = 1 - (k % 2) /\ passed[t] = k - 1 /\ arrived[t] = k
  BY <1>2 DEF Leaving
<1>4. TypeOK'
  BY <1>1, <1>2, <1>3 DEF TypeOK, Labels
<1>5. pc'[t] = "idle" /\ passed'[t] = k
      /\ \A u \in Threads \ {t} : pc'[u] = pc[u] /\ passed'[u] = passed[u]
  BY <1>1, <1>3 DEF TypeOK
<1>6. ThreadsInv(k)'
  <2>1. ASSUME NEW u \in Threads, u # t PROVE (Coming(u, k) \/ Inside(u, k) \/ Leaving(u, k))'
    BY <1>1, <1>5, <2>1 DEF RoundInv, ThreadsInv, Coming, Inside, Leaving
  <2>2. Coming(t, k)'
    BY <1>1, <1>3, <1>5 DEF Coming
  <2>3. QED
    BY <2>1, <2>2 DEF ThreadsInv
<1>7. Arrived(k)' = Arrived(k) /\ Last' = Last /\ Sleeping(k)' = Sleeping(k)
  BY <1>1, <1>3, <1>5 DEF Arrived, Last, Sleeping
<1>8. StepInv(k)'
  <2>1. CASE \E u \in Threads : passed[u] = k
    BY <1>1, <1>2, <1>3, <1>5, <2>1 DEF RoundInv, StepInv
  <2>2. CASE \A u \in Threads : passed[u] # k
    BY <1>1, <1>2, <1>3, <1>5, <2>2 DEF RoundInv, StepInv
  <2>3. QED
    BY <2>1, <2>2
<1>9. PermitInv(k)' /\ CountInv(k)'
  BY <1>1, <1>5, <1>7 DEF RoundInv, PermitInv, CountInv
<1>10. QED
  BY <1>4, <1>6, <1>8, <1>9 DEF RoundInv
----------------------------------------------------------------------------
(* The inductive invariant, for a 4-byte decrement and as many threads as   *)
(* the count says.                                                          *)
THEOREM BarrierInvariant ==
  ASSUME ~Win64, Cardinality(Threads) = Height
  PROVE  Spec => []BarrierInv
<1>1. Init => BarrierInv
  BY InitHolds DEF BarrierInv
<1>2. BarrierInv /\ [Next]_vars => BarrierInv'
  <2>1. SUFFICES ASSUME TypeOK, [Next]_vars, NEW k \in Nat, RoundInv(k)
                 PROVE  BarrierInv'
    BY DEF BarrierInv
  <2>2. CASE UNCHANGED vars
    <3>1. TypeOK'
      BY <2>1, <2>2 DEF vars, TypeOK
    <3>2. ThreadsInv(k)' /\ PermitInv(k)' /\ StepInv(k)' /\ CountInv(k)'
      BY <2>1, <2>2 DEF vars, RoundInv, ThreadsInv, PermitInv, StepInv, CountInv, Coming,
                        Inside, Leaving, Arrived, Sleeping, Last
    <3>3. QED
      BY <3>1, <3>2 DEF BarrierInv, RoundInv
  <2>3. ASSUME NEW t \in Threads, ReadStep(t) \/ Step(t) PROVE BarrierInv'
    <3>1. CASE PostAll(t)
      <4>1. TypeOK' /\ RoundInv(k + 1)'
        BY <2>1, <3>1, PostAllAdvances
      <4>2. k + 1 \in Nat
        OBVIOUS
      <4>3. QED
        BY <4>1, <4>2 DEF BarrierInv
    <3>2. CASE ReadStep(t) \/ Decrement(t) \/ Reset(t) \/ SemWait(t) \/ Cross(t)
      <4>1. TypeOK' /\ RoundInv(k)'
        BY <2>1, <3>2, ReadStepKeeps, DecrementKeeps, ResetKeeps, SemWaitKeeps, CrossKeeps
      <4>2. QED
        BY <4>1 DEF BarrierInv
    <3>3. QED
      BY <2>3, <3>1, <3>2 DEF Step
  <2>4. QED
    BY <2>1, <2>2, <2>3 DEF Next
<1>3. QED
  BY <1>1, <1>2, PTL DEF Spec

(* Nobody leaves a barrier that somebody has not reached                    *)
(* (pthread_barrier_wait.c).                                                *)
THEOREM RoundsTogether ==
  ASSUME ~Win64, Cardinality(Threads) = Height
  PROVE  Spec => []RoundsStayTogether
<1>1. BarrierInv => RoundsStayTogether
  <2>1. ASSUME NEW k \in Nat, RoundInv(k), NEW t \in Threads
        PROVE  passed[t] <= k /\ k <= arrived[t] /\ passed[t] \in Int /\ arrived[t] \in Int
    BY <2>1 DEF RoundInv, ThreadsInv, Coming, Inside, Leaving
  <2>2. QED
    BY <2>1 DEF BarrierInv, RoundsStayTogether
<1>2. QED
  BY <1>1, BarrierInvariant, PTL

(* One call in each round is told that it is the serial one. *)
THEOREM OneSerial ==
  ASSUME ~Win64, Cardinality(Threads) = Height
  PROVE  Spec => []OneSerialPerRound
<1>1. BarrierInv => OneSerialPerRound
  <2>1. SUFFICES ASSUME NEW k \in Nat, RoundInv(k), \A t \in Threads : pc[t] = "idle",
                        NEW u \in Threads
                 PROVE  serial = passed[u]
    BY DEF BarrierInv, OneSerialPerRound
  <2>2. passed[u] = k
    BY <2>1 DEF RoundInv, ThreadsInv, Coming, Inside, Leaving
  <2>3. QED
    BY <2>1, <2>2 DEF RoundInv, StepInv
<1>2. QED
  BY <1>1, BarrierInvariant, PTL
=============================================================================
