-------------------------- MODULE SemaphoreProofs --------------------------
(***************************************************************************)
(* Safety of the semaphore for every set of threads, every initial value   *)
(* and every limit.                                                        *)
(*                                                                         *)
(* Whichever waits may be cancelled, no waiter is stranded (NoStranded),   *)
(* the end of a wait makes no permit (NoPermitsMade), and the semaphore    *)
(* implements CountingSemaphore (SemaphoreRefinement).  Where only timed   *)
(* waits are cancelled, whose clean-up is right, counter, Windows          *)
(* semaphore and waiters agree (CountsAgree).                              *)
(***************************************************************************)
EXTENDS Semaphore, FiniteSetTheorems, TLAPS

(* A thread in a clean-up is in a wait that can end that way. *)
CallInv ==
  \A t \in Threads :
    /\ pc[t] = "cancelled" => call[t] \in CancelIn
    /\ pc[t] = "timedout" => call[t] = "timedwait"

(* Nobody waits in a semaphore that has been destroyed. *)
DeadInv == ~alive => Waiters = {}

SemInv == TypeOK /\ CallInv /\ DeadInv /\ NoStrandedWaiter

(***************************************************************************)
(* What a step may do to the counter, the tokens and the number of         *)
(* waiters: a thread joins the waiters; takes a permit without waiting;    *)
(* leaves with a token, or without one and no longer counted, or without   *)
(* one and still counted (the clean-up of sem_wait with the counter at 0); *)
(* n permits are posted; the semaphore is destroyed or created; nothing.   *)
(***************************************************************************)
Count == Cardinality(Waiters)

Joins   == value' = value - 1 /\ value' < 0 /\ tokens' = tokens /\ Count' = Count + 1
Takes   == value > 0 /\ value' = value - 1 /\ tokens' = tokens /\ Count' = Count
Returns == tokens > 0 /\ tokens' = tokens - 1 /\ value' = value /\ Count' = Count - 1
Leaves  == tokens = 0 /\ value' = value + 1 /\ tokens' = tokens /\ Count' = Count - 1
Forgets == /\ "wait" \in CancelIn
           /\ value = 0 /\ value' = value /\ tokens' = tokens /\ Count' = Count - 1
Posts   == \E n \in Counts \cup {1} : Add(n) /\ Count' = Count
Same    == value' = value /\ tokens' = tokens /\ Count' = Count

(* The effects of a wait that goes on. *)
WaitEffect == alive /\ alive' /\ (Returns \/ Leaves \/ Forgets \/ Same)

LiveEffect == WaitEffect \/ (alive /\ alive' /\ (Joins \/ Takes \/ Posts))

----------------------------------------------------------------------------
(* The waiters are finitely many, and so counted by a natural number. *)
LEMMA WaitersFinite ==
  /\ IsFiniteSet(Waiters)
  /\ Cardinality(Waiters) \in Nat
  /\ Cardinality(Waiters) = 0 <=> Waiters = {}
<1>1. IsFiniteSet(Waiters)
  BY ThreadsAssumption, FS_Subset DEF Waiters
<1>2. QED
  BY <1>1, FS_CardinalityType, FS_EmptySet

(* The same after a step. *)
LEMMA WaitersLater == Cardinality(Waiters') \in Nat
<1>1. IsFiniteSet(Waiters')
  BY ThreadsAssumption, FS_Subset DEF Waiters
<1>2. QED
  BY <1>1, FS_CardinalityType

(* One thread moves on: it joins the waiters, leaves them, or neither. *)
LEMMA WaitersMove ==
  ASSUME pc \in [Threads -> Labels], NEW t \in Threads, NEW to \in Labels,
         pc' = [pc EXCEPT ![t] = to]
  PROVE  /\ pc[t] # "idle" => t \in Waiters
         /\ pc[t] = "idle" /\ to # "idle" =>
              Cardinality(Waiters') = Cardinality(Waiters) + 1
         /\ pc[t] # "idle" /\ to = "idle" =>
              Cardinality(Waiters') = Cardinality(Waiters) - 1
         /\ pc[t] # "idle" /\ to # "idle" => Waiters' = Waiters
<1>1. pc[t] # "idle" => t \in Waiters
  BY DEF Waiters
<1>2. ASSUME pc[t] = "idle", to # "idle"
      PROVE  Cardinality(Waiters') = Cardinality(Waiters) + 1
  <2>1. Waiters' = Waiters \cup {t} /\ t \notin Waiters
    BY <1>2 DEF Waiters
  <2>2. QED
    BY <2>1, WaitersFinite, FS_AddElement
<1>3. ASSUME pc[t] # "idle", to = "idle"
      PROVE  Cardinality(Waiters') = Cardinality(Waiters) - 1
  <2>1. Waiters' = Waiters \ {t} /\ t \in Waiters
    BY <1>3 DEF Waiters
  <2>2. QED
    BY <2>1, WaitersFinite, FS_RemoveElement
<1>4. ASSUME pc[t] # "idle", to # "idle"
      PROVE  Waiters' = Waiters
  BY <1>4 DEF Waiters
<1>5. QED
  BY <1>1, <1>2, <1>3, <1>4
----------------------------------------------------------------------------
(* Moves of one thread, as seen by the number of waiters. *)
LEMMA CountMove ==
  ASSUME TypeOK, NEW t \in Threads
  PROVE  /\ \A to \in Labels \ {"idle"} :
              Goto(t, "idle", to) => Count' = Count + 1
         /\ \A from \in Labels \ {"idle"} :
              Return(t, from) => t \in Waiters /\ Count' = Count - 1
         /\ \A from, to \in Labels \ {"idle"} :
              Goto(t, from, to) => t \in Waiters /\ Count' = Count
         /\ UNCHANGED pc => Count' = Count
<1>1. "idle" \in Labels /\ pc \in [Threads -> Labels]
  BY DEF Labels, TypeOK
<1>2. \A to \in Labels \ {"idle"} : Goto(t, "idle", to) => Count' = Count + 1
  BY <1>1, WaitersMove DEF Goto, Count
<1>3. ASSUME NEW from \in Labels \ {"idle"}, Return(t, from)
      PROVE  t \in Waiters /\ Count' = Count - 1
  BY <1>1, <1>3, WaitersMove DEF Return, Goto, Count
<1>4. ASSUME NEW from \in Labels \ {"idle"}, NEW to \in Labels \ {"idle"},
             Goto(t, from, to)
      PROVE  t \in Waiters /\ Count' = Count
  BY <1>1, <1>4, WaitersMove DEF Goto, Count
<1>5. UNCHANGED pc => Count' = Count
  BY DEF Count, Waiters
<1>6. QED
  BY <1>2, <1>3, <1>4, <1>5

(* A step inside a wait has one of the effects of a wait; the clean-up that *)
(* forgets a waiter belongs to sem_wait.                                    *)
LEMMA StepEffect ==
  ASSUME SemInv, NEW t \in Threads, Step(t)
  PROVE  WaitEffect
<1>0. TypeOK /\ CallInv /\ DeadInv
  BY DEF SemInv
<1>l. {"block", "cancelled", "timedout"} \subseteq Labels \ {"idle"}
  BY DEF Labels
<1>1. ASSUME Wake(t) PROVE WaitEffect
  <2>1. t \in Waiters /\ Count' = Count - 1
    BY <1>0, <1>1, <1>l, CountMove DEF Wake
  <2>2. alive
    BY <1>0, <2>1 DEF DeadInv
  <2>3. QED
    BY <1>1, <2>1, <2>2 DEF Wake, WaitEffect, Returns
<1>2. ASSUME Cancel(t) \/ TimeOut(t) PROVE WaitEffect
  <2>1. t \in Waiters /\ Count' = Count
    BY <1>0, <1>2, <1>l, CountMove DEF Cancel, TimeOut
  <2>2. alive
    BY <1>0, <2>1 DEF DeadInv
  <2>3. QED
    BY <1>2, <2>1, <2>2 DEF Cancel, TimeOut, WaitEffect, Same
<1>3. ASSUME TimedCleanup(t) \/ WaitCleanup(t) PROVE WaitEffect
  <2>1. t \in Waiters /\ Count' = Count - 1
    BY <1>0, <1>3, <1>l, CountMove DEF TimedCleanup, WaitCleanup
  <2>2. alive /\ alive'
    BY <1>0, <1>3, <2>1 DEF DeadInv, TimedCleanup, WaitCleanup
  <2>3. ASSUME ConsumeOrLeave PROVE WaitEffect
    BY <2>1, <2>2, <2>3 DEF ConsumeOrLeave, WaitEffect, Returns, Leaves
  <2>4. ASSUME WaitCleanup(t), value = 0, UNCHANGED <<value, tokens>> PROVE WaitEffect
    <3>1. "wait" \in CancelIn
      BY <1>0, <2>4 DEF WaitCleanup, Return, Goto, CallInv
    <3>2. QED
      BY <2>1, <2>2, <2>4, <3>1 DEF WaitEffect, Forgets
  <2>5. QED
    BY <1>3, <2>3, <2>4 DEF TimedCleanup, WaitCleanup
<1>4. QED
  BY <1>1, <1>2, <1>3 DEF Step

(* Each step of a semaphore that is alive has one of the effects.           *)
LEMMA Effects == SemInv /\ Next => LiveEffect \/ Destroy \/ Create
<1> SUFFICES ASSUME SemInv, Next, ~Destroy, ~Create PROVE LiveEffect
  OBVIOUS
<1>0. TypeOK
  BY DEF SemInv
<1>l. "block" \in Labels \ {"idle"}
  BY DEF Labels
<1>1. ASSUME NEW t \in Threads, NEW c \in Calls, Wait(t, c) PROVE LiveEffect
  BY <1>0, <1>1, <1>l, CountMove DEF Wait, LiveEffect, Joins, Takes, TypeOK
<1>2. ASSUME NEW t \in Threads, TryWait(t) PROVE LiveEffect
  BY <1>0, <1>2, CountMove DEF TryWait, LiveEffect, Takes
<1>3. ASSUME NEW t \in Threads, NEW n \in Counts \cup {1}, Add(n),
             UNCHANGED <<alive, pc, call>>
      PROVE  LiveEffect
  <2>1. alive /\ alive'
    BY <1>3 DEF Add
  <2>2. QED
    BY <1>0, <1>3, <2>1, CountMove DEF LiveEffect, Posts
<1>4. ASSUME NEW t \in Threads, Step(t) PROVE LiveEffect
  BY <1>4, StepEffect DEF LiveEffect
<1>5. QED
  BY <1>1, <1>2, <1>3, <1>4 DEF Next, Post, PostMultiple

(* A post changes the counter and the posts still due as it should. *)
LEMMA AddEffect ==
  ASSUME TypeOK, NEW n \in Counts \cup {1}, Add(n)
  PROVE  /\ n \in Nat \ {0}
         /\ alive /\ value' \in Int /\ value' <= MaxValue /\ value' = value + n
         /\ tokens' \in Nat
         /\ value >= 0 => tokens' = tokens
         /\ value < 0 /\ -value <= n => tokens' = tokens - value
         /\ value < 0 /\ -value > n => tokens' = tokens + n
BY ValueAssumption, CountsAssumption DEF Add, TypeOK
----------------------------------------------------------------------------
(* No step strands a waiter: the posts still due and the tokens at hand     *)
(* cover all of them, also where a clean-up forgets to leave.               *)
LEMMA NoStrandedStep == SemInv /\ [Next]_vars => NoStrandedWaiter'
<1> SUFFICES ASSUME SemInv, [Next]_vars PROVE NoStrandedWaiter'
  OBVIOUS
<1> DEFINE Covered(v, k, c) == k + (IF v < 0 THEN -v ELSE 0) >= c
<1>0. /\ value \in Int /\ tokens \in Nat /\ Count \in Nat
      /\ alive => Covered(value, tokens, Count)
      /\ ~alive => Count = 0
  BY WaitersFinite DEF SemInv, TypeOK, NoStrandedWaiter, DeadInv, Count
<1> SUFFICES alive' => Covered(value', tokens', Count')
  BY DEF NoStrandedWaiter, Count
<1>1. CASE LiveEffect
  <2>1. CASE Joins \/ Takes \/ Returns \/ Leaves \/ Forgets \/ Same
    BY <1>0, <1>1, <2>1 DEF LiveEffect, WaitEffect, Joins, Takes, Returns, Leaves, Forgets, Same
  <2>2. CASE Posts
    BY <1>0, <1>1, <2>2, AddEffect DEF LiveEffect, Posts, SemInv
  <2>3. QED
    BY <1>1, <2>1, <2>2 DEF LiveEffect, WaitEffect
<1>2. CASE Destroy
  BY <1>2 DEF Destroy
<1>3. CASE Create
  <2>1. Count' = Count
    BY <1>3 DEF Create, Count, Waiters
  <2>2. QED
    BY <1>0, <1>3, <2>1, ValueAssumption DEF Create
<1>4. CASE UNCHANGED vars
  <2>1. Count' = Count
    BY <1>4 DEF vars, Count, Waiters
  <2>2. QED
    BY <1>0, <1>4, <2>1 DEF vars
<1>5. QED
  BY <1>1, <1>2, <1>3, <1>4, Effects

(* Every variable keeps its type; the counter stays below its limit because *)
(* only a waiter that is still counted adds itself back.                    *)
LEMMA TypeStep == SemInv /\ [Next]_vars => TypeOK'
<1> SUFFICES ASSUME SemInv, [Next]_vars PROVE TypeOK'
  OBVIOUS
<1>0. /\ TypeOK /\ value \in Int /\ tokens \in Nat /\ value <= MaxValue
      /\ MaxValue \in Nat /\ Initial \in 0 .. MaxValue
      /\ Count \in Nat
      /\ alive => tokens + (IF value < 0 THEN -value ELSE 0) >= Count
  BY ValueAssumption, WaitersFinite DEF SemInv, TypeOK, NoStrandedWaiter, Count
<1>1. value' \in Int /\ value' <= MaxValue /\ tokens' \in Nat
  <2>1. ASSUME LiveEffect, Leaves PROVE value' \in Int /\ value' <= MaxValue /\ tokens' \in Nat
    <3>1. Count' \in Nat
      BY <2>1, WaitersLater DEF Count
    <3>2. value < 0
      BY <1>0, <2>1, <3>1 DEF LiveEffect, WaitEffect, Leaves
    <3>3. QED
      BY <1>0, <2>1, <3>2 DEF Leaves
  <2>2. ASSUME LiveEffect, Posts PROVE value' \in Int /\ value' <= MaxValue /\ tokens' \in Nat
    BY <1>0, <2>2, AddEffect DEF Posts
  <2>3. ASSUME LiveEffect, Joins \/ Takes \/ Returns \/ Forgets \/ Same
        PROVE  value' \in Int /\ value' <= MaxValue /\ tokens' \in Nat
    BY <1>0, <2>3 DEF Joins, Takes, Returns, Forgets, Same
  <2>4. CASE Destroy \/ Create \/ UNCHANGED vars
    BY <1>0, <2>4 DEF Destroy, Create, vars
  <2>5. QED
    BY <2>1, <2>2, <2>3, <2>4, Effects DEF LiveEffect, WaitEffect
<1>2. /\ alive' \in BOOLEAN /\ pc' \in [Threads -> Labels]
      /\ call' \in [Threads -> Calls]
  <2>1. /\ {"idle", "block", "cancelled", "timedout"} \subseteq Labels
        /\ {"wait", "timedwait", "semwait"} \subseteq Calls
    BY DEF Labels, Calls
  <2>2. QED
    BY <1>0, <2>1 DEF TypeOK, Next, Step, Wait, TryWait, Post, PostMultiple, Add, Wake,
       Cancel, TimeOut, TimedCleanup, WaitCleanup, Return, Goto, Destroy, Create, vars
<1>3. QED
  BY <1>1, <1>2 DEF TypeOK

(* A clean-up is run only in a wait that has it, and nobody comes to wait   *)
(* in a semaphore that has been destroyed.                                  *)
LEMMA ControlStep == SemInv /\ [Next]_vars => CallInv' /\ DeadInv'
<1> SUFFICES ASSUME SemInv, [Next]_vars PROVE CallInv' /\ DeadInv'
  OBVIOUS
<1>0. TypeOK /\ CallInv /\ DeadInv /\ TypeOK'
  BY TypeStep DEF SemInv
<1>1. CallInv'
  BY <1>0 DEF CallInv, TypeOK, Next, Step, Wait, TryWait, Post, PostMultiple, Add, Wake,
     Cancel, TimeOut, TimedCleanup, WaitCleanup, Return, Goto, Destroy, Create, vars
<1>2. DeadInv'
  <2>1. CASE LiveEffect
    BY <2>1 DEF LiveEffect, WaitEffect, DeadInv
  <2>2. CASE Destroy
    BY <2>2 DEF Destroy, DeadInv, Waiters
  <2>3. CASE Create
    BY <2>3 DEF Create, DeadInv
  <2>4. CASE UNCHANGED vars
    BY <1>0, <2>4 DEF vars, DeadInv, Waiters
  <2>5. QED
    BY <2>1, <2>2, <2>3, <2>4, Effects
<1>3. QED
  BY <1>1, <1>2
----------------------------------------------------------------------------
(* Where only timed waits are cancelled, every step keeps counter, Windows  *)
(* semaphore and waiters in agreement.                                      *)
LEMMA ConservationStep ==
  "wait" \notin CancelIn /\ SemInv /\ Conservation /\ [Next]_vars => Conservation'
<1> SUFFICES ASSUME "wait" \notin CancelIn, SemInv, Conservation, [Next]_vars
             PROVE  Conservation'
  OBVIOUS
<1> DEFINE Agree(v, k, c) == IF v < 0 THEN k + (-v) = c ELSE k = c
<1>0. /\ value \in Int /\ tokens \in Nat /\ Count \in Nat /\ Count' \in Nat
      /\ alive => Agree(value, tokens, Count)
      /\ ~alive => Count = 0
  BY WaitersFinite, WaitersLater DEF SemInv, TypeOK, Conservation, DeadInv, Count
<1> SUFFICES alive' => Agree(value', tokens', Count')
  BY DEF Conservation, Count
<1>1. CASE LiveEffect
  <2>1. CASE Joins \/ Takes \/ Returns \/ Leaves \/ Same
    BY <1>0, <1>1, <2>1 DEF LiveEffect, WaitEffect, Joins, Takes, Returns, Leaves, Same
  <2>2. CASE Posts
    BY <1>0, <1>1, <2>2, AddEffect DEF LiveEffect, Posts, SemInv
  <2>3. QED
    BY <1>1, <2>1, <2>2 DEF LiveEffect, WaitEffect, Forgets
<1>2. CASE Destroy
  BY <1>2 DEF Destroy
<1>3. CASE Create
  <2>1. Count' = Count
    BY <1>3 DEF Create, Count, Waiters
  <2>2. QED
    BY <1>0, <1>3, <2>1, ValueAssumption DEF Create
<1>4. CASE UNCHANGED vars
  <2>1. Count' = Count
    BY <1>4 DEF vars, Count, Waiters
  <2>2. QED
    BY <1>0, <1>4, <2>1 DEF vars
<1>5. QED
  BY <1>1, <1>2, <1>3, <1>4, Effects

(* Permits in numbers. *)
Free(v) == IF v > 0 THEN v ELSE 0

(* A step inside a wait takes a permit, or clients cannot see it: one that  *)
(* leaves without a token finds the counter negative, because the posts     *)
(* still due cover it.                                                      *)
LEMMA WaitTakes ==
  SemInv /\ WaitEffect => SemaphoreImpl!Take \/ Permits' = Permits
<1> SUFFICES ASSUME SemInv, WaitEffect
             PROVE  (Permits > 0 /\ Permits' = Permits - 1) \/ Permits' = Permits
  BY DEF SemaphoreImpl!Take
<1>0. /\ value \in Int /\ tokens \in Nat /\ Count \in Nat /\ Count' \in Nat
      /\ tokens + (IF value < 0 THEN -value ELSE 0) >= Count
  BY WaitersFinite, WaitersLater DEF SemInv, TypeOK, NoStrandedWaiter, WaitEffect, Count
<1>1. Permits = tokens + Free(value) /\ Permits' = tokens' + Free(value')
  BY DEF Permits, Free, WaitEffect
<1>2. ASSUME Returns PROVE Permits > 0 /\ Permits' = Permits - 1
  BY <1>0, <1>1, <1>2 DEF Returns, Free
<1>3. ASSUME Leaves PROVE Permits' = Permits
  <2>1. value < 0
    BY <1>0, <1>3 DEF Leaves
  <2>2. QED
    BY <1>0, <1>1, <1>3, <2>1 DEF Leaves, Free
<1>4. ASSUME Forgets \/ Same PROVE Permits' = Permits
  BY <1>1, <1>4 DEF Forgets, Same
<1>5. QED
  BY <1>2, <1>3, <1>4 DEF WaitEffect

(* Every step takes a permit that is there, posts some, makes a new         *)
(* semaphore, or cannot be seen by the clients.                             *)
LEMMA RefineStep == SemInv /\ [Next]_vars => [SemaphoreImpl!Next]_Permits
<1> SUFFICES ASSUME SemInv, [Next]_vars
             PROVE  SemaphoreImpl!Take \/ SemaphoreImpl!Post \/ SemaphoreImpl!Reinit
                      \/ Permits' = Permits
  BY DEF SemaphoreImpl!Next
<1>0. value \in Int /\ tokens \in Nat /\ TypeOK
  BY DEF SemInv, TypeOK
<1>1. CASE LiveEffect
  <2>0. Permits = tokens + Free(value) /\ Permits' = tokens' + Free(value')
    BY <1>1 DEF Permits, Free, LiveEffect, WaitEffect
  <2>1. CASE WaitEffect
    BY <2>1, WaitTakes
  <2>2. CASE Joins
    BY <1>0, <2>0, <2>2 DEF Joins, Free
  <2>3. CASE Takes
    BY <1>0, <2>0, <2>3 DEF Takes, Free, SemaphoreImpl!Take
  <2>4. ASSUME Posts PROVE SemaphoreImpl!Post
    <3>1. PICK n \in Counts \cup {1} : Add(n)
      BY <2>4 DEF Posts
    <3>2. tokens' + Free(value') = tokens + Free(value) + n
      BY <1>0, <3>1, AddEffect DEF Free
    <3>3. QED
      BY <2>0, <3>2 DEF SemaphoreImpl!Post
  <2>5. QED
    BY <1>1, <2>1, <2>2, <2>3, <2>4 DEF LiveEffect
<1>2. CASE Destroy
  BY <1>2 DEF Destroy, Permits, SemaphoreImpl!Reinit
<1>3. CASE Create
  BY <1>0, <1>3, ValueAssumption DEF Create, Permits
<1>4. CASE UNCHANGED vars
  BY <1>4 DEF vars, Permits
<1>5. QED
  BY <1>1, <1>2, <1>3, <1>4, Effects
----------------------------------------------------------------------------
(* sem_init establishes all of it. *)
LEMMA InitInv == Init => SemInv /\ Conservation /\ SemaphoreImpl!Init
<1> SUFFICES ASSUME Init PROVE SemInv /\ Conservation /\ SemaphoreImpl!Init
  OBVIOUS
<1>1. Waiters = {} /\ Cardinality(Waiters) = 0
  BY FS_EmptySet DEF Init, Waiters
<1>2. TypeOK
  BY ValueAssumption DEF Init, TypeOK, Labels, Calls
<1>3. CallInv /\ DeadInv /\ NoStrandedWaiter
  BY <1>1, ValueAssumption DEF Init, CallInv, DeadInv, NoStrandedWaiter
<1>4. Conservation /\ SemaphoreImpl!Init
  BY <1>1, ValueAssumption DEF Init, Conservation, SemaphoreImpl!Init, Permits
<1>5. QED
  BY <1>2, <1>3, <1>4 DEF SemInv

LEMMA SemInvHolds == Spec => []SemInv
<1>1. SemInv /\ [Next]_vars => SemInv'
  BY TypeStep, ControlStep, NoStrandedStep DEF SemInv
<1>2. QED
  BY InitInv, <1>1, PTL DEF Spec

(* Counter, tokens and the place of every thread keep their types through  *)
(* waits, posts, timeouts, cancellations and destruction.                  *)
THEOREM SemTypeCorrect == Spec => []TypeOK
<1>1. SemInv => TypeOK
  BY DEF SemInv
<1>2. QED
  BY <1>1, SemInvHolds, PTL

(* No waiter loses its post, whichever waits may be cancelled. *)
THEOREM NoStranded == Spec => []NoStrandedWaiter
<1>1. SemInv => NoStrandedWaiter
  BY DEF SemInv
<1>2. QED
  BY <1>1, SemInvHolds, PTL

(* As long as no sem_wait is cancelled, counter, Windows semaphore and      *)
(* waiters agree.                                                           *)
THEOREM CountsAgree == "wait" \notin CancelIn => (Spec => []Conservation)
<1> SUFFICES ASSUME "wait" \notin CancelIn PROVE Spec => []Conservation
  OBVIOUS
<1>1. SemInv /\ Conservation /\ [Next]_vars => Conservation'
  BY ConservationStep
<1>2. QED
  BY InitInv, SemInvHolds, <1>1, PTL DEF Spec

(* Whichever waits end by timeout or cancellation, the semaphore implements *)
(* the counting semaphore.                                                  *)
THEOREM SemaphoreRefinement == Spec => ImplementsSemaphore
<1>1. SemInv /\ [Next]_vars => [SemaphoreImpl!Next]_Permits
  BY RefineStep
<1>2. QED
  BY InitInv, SemInvHolds, <1>1, PTL
     DEF Spec, ImplementsSemaphore, SemaphoreImpl!Spec

(* No end of a wait, and no clean-up, makes a permit. *)
THEOREM NoPermitsMade == Spec => WaitsMakeNoPermits
<1>1. SemInv /\ [Next]_vars
        => [(\E t \in Threads : Step(t)) => Permits' <= Permits]_vars
  <2> SUFFICES ASSUME SemInv, NEW t \in Threads, Step(t) PROVE Permits' <= Permits
    OBVIOUS
  <2>1. WaitEffect
    BY StepEffect
  <2>2. Permits \in Int
    BY ValueAssumption DEF SemInv, TypeOK, Permits
  <2>3. QED
    BY <2>1, <2>2, WaitTakes DEF SemaphoreImpl!Take
<1>2. QED
  BY SemInvHolds, <1>1, PTL DEF Spec, WaitsMakeNoPermits
=============================================================================
