--------------------------- MODULE CondVarProofs ---------------------------
(***************************************************************************)
(* Safety of the condition variable for every set of threads and every     *)
(* bound on the counters: types, the accounts of the waiters (Accounts),   *)
(* the wake-ups on their way (WakeupsOnTheirWay), what destruction leaves  *)
(* (DestroyedUnused), and that the gate is kept as long as nobody is       *)
(* cancelled at it (GateKept).                                             *)
(*                                                                         *)
(* The gate and the queue are semaphores, and what SemaphoreProofs shows   *)
(* of a semaphore's steps is used for both.                                *)
(***************************************************************************)
EXTENDS CondVar, FiniteSetTheorems, TLAPS

GateP == INSTANCE SemaphoreProofs WITH
           value <- gateValue, tokens <- gateTokens, pc <- gatePc, call <- gateCall,
           Initial <- 1, Counts <- {}, CancelIn <- {"wait"}

QueueP == INSTANCE SemaphoreProofs WITH
            value <- queueValue, tokens <- queueTokens, pc <- queuePc,
            call <- queueCall,
            Initial <- 0, Counts <- Nat \ {0}, CancelIn <- {"timedwait"}

(* The condition variable's own variables, and the two semaphores. *)
OwnTypes ==
  /\ mutex \in Threads \cup {Nobody} /\ guard \in Threads \cup {Nobody}
  /\ blocked \in Nat /\ gone \in 0 .. GoneMax /\ toUnblock \in Nat
  /\ pc \in [Threads -> Labels]
  /\ signals \in [Threads -> Nat] /\ all \in [Threads -> BOOLEAN]
  /\ cancelled \subseteq Threads

TypeOK == OwnTypes /\ Gate!TypeOK /\ Queue!TypeOK

(* Who is where: a thread waits for the gate and in the queue only where    *)
(* its call has it wait; it owns the mutex and mtxUnblockLock exactly where *)
(* its call has locked them; and what it read under mtxUnblockLock before   *)
(* it waited for the gate still holds.                                      *)
AtMutex == {"enter", "admit", "release", "handler", "destroy"}
AtGuard == {"drain", "close"}

ControlInv ==
  \A t \in Threads :
    /\ gatePc[t] # "idle" => pc[t] \in {"enter", "destroy"} \cup AtGuard
    /\ queuePc[t] # "idle" => pc[t] = "sleep"
    /\ pc[t] \in AtMutex => mutex = t
    /\ pc[t] \in AtGuard <=> guard = t
    /\ pc[t] \in AtGuard => toUnblock = 0
    /\ pc[t] = "close" => blocked > gone
    /\ pc[t] = "post" <=> signals[t] # 0

(* gone reaches its limit only while the gone waiters are being settled. *)
GoneInv == gone = GoneMax => \E t \in Threads : pc[t] = "drain"

(* The gate is in one place at most; that it is lost needs a cancellation. *)
GateInv == alive => Gates <= 1

DeadInv == ~alive => toUnblock = 0

Semaphores == GateP!SemInv /\ QueueP!SemInv

CountInv == GateInv /\ Accounting /\ WakeupsCover

CVInv == /\ OwnTypes /\ Semaphores /\ ControlInv /\ GoneInv /\ CountInv
         /\ DeadInv /\ DestroyedIsUnused
----------------------------------------------------------------------------
(* What SemaphoreProofs assumes of its parameters, for gate and queue. *)
LEMMA GateAssumptions ==
  /\ GateP!IsFiniteSet(Threads)
  /\ MaxValue \in Nat /\ 1 \in 0..MaxValue
  /\ {} \subseteq Nat \ {0}
  /\ {"wait"} \subseteq {"wait", "timedwait"}
BY ThreadsAssumption, BoundsAssumption DEF IsFiniteSet, GateP!IsFiniteSet

LEMMA QueueAssumptions ==
  /\ QueueP!IsFiniteSet(Threads)
  /\ MaxValue \in Nat /\ 0 \in 0..MaxValue
  /\ Nat \ {0} \subseteq Nat \ {0}
  /\ {"timedwait"} \subseteq {"wait", "timedwait"}
BY ThreadsAssumption, BoundsAssumption DEF IsFiniteSet, QueueP!IsFiniteSet

(* A step of either semaphore keeps its invariant. *)
LEMMA GateKeeps ==
  GateP!SemInv /\ [GateP!Next]_GateP!vars => GateP!SemInv'
BY GateAssumptions, GateP!TypeStep, GateP!ControlStep, GateP!NoStrandedStep DEF GateP!SemInv

LEMMA QueueKeeps ==
  QueueP!SemInv /\ [QueueP!Next]_QueueP!vars => QueueP!SemInv'
BY QueueAssumptions, QueueP!TypeStep, QueueP!ControlStep, QueueP!NoStrandedStep DEF QueueP!SemInv

(* The types of the semaphores. *)
WaitLabels == {"idle", "block", "cancelled", "timedout"}

LEMMA SemTypes ==
  Semaphores => /\ alive \in BOOLEAN
                /\ gateValue \in Int /\ gateTokens \in Nat
                /\ gatePc \in [Threads -> WaitLabels]
                /\ queueValue \in Int /\ queueTokens \in Nat
                /\ queuePc \in [Threads -> WaitLabels]
                /\ Gate!TypeOK /\ Queue!TypeOK
BY DEF Semaphores, WaitLabels, GateP!SemInv, GateP!TypeOK, GateP!Labels, GateP!Calls,
       QueueP!SemInv, QueueP!TypeOK, QueueP!Labels, QueueP!Calls,
       Gate!TypeOK, Gate!Labels, Gate!Calls, Queue!TypeOK, Queue!Labels, Queue!Calls

(* What is done to the gate and to the queue are steps of a semaphore. *)
LEMMA GateNext ==
  ASSUME NEW t \in Threads, NEW c \in {"wait", "semwait"},
         Gate!Wait(t, c) \/ Gate!Wake(t) \/ Gate!Cancel(t) \/ Gate!WaitCleanup(t)
           \/ Gate!Post(t) \/ Gate!Create
  PROVE  GateP!Next
<1>1. CASE Gate!Wait(t, c)
  BY <1>1 DEF Gate!Wait, Gate!Goto, GateP!Wait, GateP!Goto, GateP!Next, GateP!Calls
<1>2. CASE Gate!Wake(t) \/ Gate!Cancel(t) \/ Gate!WaitCleanup(t)
  BY <1>2 DEF Gate!Wake, Gate!Cancel, Gate!WaitCleanup, Gate!ConsumeOrLeave, Gate!Return,
              Gate!Goto, GateP!Wake, GateP!Cancel, GateP!WaitCleanup, GateP!ConsumeOrLeave,
              GateP!Return, GateP!Goto, GateP!Step, GateP!Next
<1>3. CASE Gate!Post(t)
  BY <1>3 DEF Gate!Post, Gate!Add, GateP!Post, GateP!Add, GateP!Next
<1>4. CASE Gate!Create
  BY <1>4 DEF Gate!Create, GateP!Create, GateP!Next
<1>5. QED
  BY <1>1, <1>2, <1>3, <1>4

LEMMA QueueNext ==
  ASSUME NEW t \in Threads, NEW n \in Nat \ {0},
         \/ Queue!Wait(t, "timedwait") \/ Queue!Wake(t) \/ Queue!Cancel(t)
         \/ Queue!TimeOut(t) \/ Queue!TimedCleanup(t) \/ Queue!Create
         \/ queuePc[t] = "idle" /\ Queue!Add(n) /\ UNCHANGED <<alive, queuePc, queueCall>>
  PROVE  QueueP!Next
<1>1. CASE Queue!Wait(t, "timedwait")
  BY <1>1 DEF Queue!Wait, Queue!Goto, QueueP!Wait, QueueP!Goto, QueueP!Next, QueueP!Calls
<1>2. CASE Queue!Wake(t) \/ Queue!Cancel(t) \/ Queue!TimeOut(t) \/ Queue!TimedCleanup(t)
  BY <1>2 DEF Queue!Wake, Queue!Cancel, Queue!TimeOut, Queue!TimedCleanup,
              Queue!ConsumeOrLeave, Queue!Return, Queue!Goto,
              QueueP!Wake, QueueP!Cancel, QueueP!TimeOut, QueueP!TimedCleanup,
              QueueP!ConsumeOrLeave, QueueP!Return, QueueP!Goto, QueueP!Step, QueueP!Next
<1>3. CASE queuePc[t] = "idle" /\ Queue!Add(n) /\ UNCHANGED <<alive, queuePc, queueCall>>
  BY <1>3 DEF Queue!Add, QueueP!Add, QueueP!PostMultiple, QueueP!Next
<1>4. CASE Queue!Create
  BY <1>4 DEF Queue!Create, QueueP!Create, QueueP!Next
<1>5. QED
  BY <1>1, <1>2, <1>3, <1>4
----------------------------------------------------------------------------
(* The sets of threads that are counted are finite. *)
LEMMA CardType ==
  ASSUME NEW S \in SUBSET Threads
  PROVE  IsFiniteSet(S) /\ Cardinality(S) \in Nat /\ (Cardinality(S) = 0 <=> S = {})
BY ThreadsAssumption, FS_Subset, FS_CardinalityType, FS_EmptySet

(* One thread is added to such a set, or leaves it. *)
LEMMA CardMove ==
  ASSUME NEW S \in SUBSET Threads, NEW t \in Threads
  PROVE  /\ t \notin S => Cardinality(S \cup {t}) = Cardinality(S) + 1
         /\ t \in S => Cardinality(S \ {t}) = Cardinality(S) - 1
BY CardType, FS_AddElement, FS_RemoveElement

(* What the invariant says of a thread in a call: the condition variable is *)
(* alive, the counters make sense, and nobody is settling the gone waiters  *)
(* unless mtxUnblockLock is held.                                           *)
LEMMA Context ==
  ASSUME CVInv
  PROVE  /\ OwnTypes /\ ControlInv
         /\ \A t \in Threads : pc[t] \notin {"idle", "relock", "handler"} => alive
         /\ alive => blocked - gone + toUnblock \in Nat
         /\ alive /\ toUnblock > 0 => gone = 0
         /\ guard = Nobody => gone # GoneMax
<1>1. Cardinality(Counted) \in Nat
  BY CardType DEF Counted
<1>2. guard = Nobody => gone # GoneMax
  BY ThreadsAssumption DEF CVInv, GoneInv, ControlInv, AtGuard
<1>3. QED
  BY <1>1, <1>2 DEF CVInv, CountInv, Accounting, DestroyedIsUnused

LEMMA ClientControl ==
  ASSUME CVInv, NEW t \in Threads, Client(t)
  PROVE  OwnTypes' /\ ControlInv' /\ GoneInv'
<1> USE DEF OwnTypes, ControlInv, GoneInv, AtMutex, AtGuard, Goto
<1>0. /\ OwnTypes /\ ControlInv /\ GoneInv /\ GoneMax \in Nat \ {0} /\ Nobody \notin Threads
      /\ guard = Nobody => gone # GoneMax
      /\ Semaphores
      /\ gatePc \in [Threads -> WaitLabels] /\ queuePc \in [Threads -> WaitLabels]
  BY Context, SemTypes, BoundsAssumption, ThreadsAssumption DEF CVInv
<1>l. Labels = {"idle", "enter", "admit", "release", "block", "sleep", "woken", "left",
           "drain", "reopen", "relock", "handler", "close", "post", "destroy"}
  BY DEF Labels
<1>1. CASE LockMutex(t) \/ UnlockMutex(t)
  BY <1>0, <1>1 DEF LockMutex, UnlockMutex, counts, request, gateVars, queueVars
<1>2. CASE Wait(t) \/ TryDestroy(t)
  BY <1>0, <1>2, <1>l DEF Wait, TryDestroy, counts, request, queueVars, Gate!Wait, Gate!Goto
<1>3. ASSUME NEW a \in BOOLEAN, UnblockMore(t, a) PROVE OwnTypes' /\ ControlInv' /\ GoneInv'
  BY <1>0, <1>3, <1>l DEF UnblockMore, Request, gateVars, queueVars
<1>4. ASSUME NEW a \in BOOLEAN, CloseGate(t, a) PROVE OwnTypes' /\ ControlInv' /\ GoneInv'
  BY <1>0, <1>4, <1>l DEF CloseGate, Request, counts, queueVars, Gate!Wait, Gate!Goto
<1>5. QED
  BY <1>1, <1>2, <1>3, <1>4 DEF Client

LEMMA StepControl ==
  ASSUME CVInv, NEW t \in Threads, Step(t)
  PROVE  OwnTypes' /\ ControlInv' /\ GoneInv'
<1> USE DEF OwnTypes, ControlInv, GoneInv, AtMutex, AtGuard, Goto
<1> DEFINE Kept == OwnTypes' /\ ControlInv' /\ GoneInv'
<1>0. /\ OwnTypes /\ ControlInv /\ GoneInv /\ GoneMax \in Nat \ {0} /\ Nobody \notin Threads
      /\ guard = Nobody => gone # GoneMax
      /\ gatePc \in [Threads -> WaitLabels] /\ queuePc \in [Threads -> WaitLabels]
  BY Context, SemTypes, BoundsAssumption, ThreadsAssumption DEF CVInv
<1>a. pc[t] \notin {"idle", "relock", "handler"} =>
        /\ blocked - gone + toUnblock \in Nat
        /\ toUnblock > 0 => gone = 0
  BY Context
<1>l. Labels = {"idle", "enter", "admit", "release", "block", "sleep", "woken", "left",
           "drain", "reopen", "relock", "handler", "close", "post", "destroy"}
  BY DEF Labels
<1>1. CASE Count(t)
  BY <1>0, <1>1, <1>l DEF Count, AtGate, request, gateVars, queueVars
<1>2. CASE Admit(t) \/ Reopen(t) \/ DestroyBusy(t)
  BY <1>0, <1>2, <1>l DEF Admit, Reopen, DestroyBusy, AtGate, counts, request, queueVars, Gate!Post
<1>3. CASE Release(t) \/ Relock(t) \/ Handler(t)
  BY <1>0, <1>3, <1>l DEF Release, Relock, Handler, counts, request, gateVars, queueVars
<1>4. CASE Block(t)
  BY <1>0, <1>4, <1>l DEF Block, counts, request, gateVars, Queue!Wait, Queue!Goto
<1>5. CASE QueueWake(t) \/ QueueCleanup(t)
  BY <1>0, <1>5, <1>l DEF QueueWake, QueueCleanup, counts, request, gateVars, Queue!Wake,
     Queue!TimedCleanup, Queue!Return, Queue!Goto
<1>6. CASE GateCleanup(t)
  BY <1>0, <1>6, <1>l DEF GateCleanup, counts, request, queueVars, Gate!WaitCleanup, Gate!Return,
     Gate!Goto
<1>7. CASE Retract(t)
  BY <1>0, <1>7, <1>l DEF Retract, Leaving, request, gateVars, queueVars
<1>8. CASE Leave(t)
  BY <1>0, <1>8, <1>l DEF Leave, Leaving, request, gateVars, queueVars, Gate!Wait, Gate!Goto
<1>9. CASE Drain(t)
  BY <1>0, <1>a, <1>9, <1>l DEF Drain, AtGate, request, queueVars, Gate!Post
<1>10. CASE Unblock(t)
  BY <1>0, <1>a, <1>10, <1>l DEF Unblock, AtGate, gateVars, queueVars
<1>11. CASE PostQueue(t)
  BY <1>0, <1>11, <1>l DEF PostQueue, counts, gateVars
<1>12. CASE Destroy(t)
  BY <1>0, <1>12, <1>l DEF Destroy, AtGate, counts, request, gateVars, queueVars
<1>13. QED
  BY <1>1, <1>2, <1>3, <1>4, <1>5, <1>6, <1>7, <1>8, <1>9, <1>10, <1>11, <1>12 DEF Step

(* Every step keeps the types and the places of the threads. *)
LEMMA ControlStep == CVInv /\ [Next]_vars => OwnTypes' /\ ControlInv' /\ GoneInv'
<1> SUFFICES ASSUME CVInv, [Next]_vars PROVE OwnTypes' /\ ControlInv' /\ GoneInv'
  OBVIOUS
<1>0. /\ OwnTypes /\ ControlInv /\ GoneInv /\ GoneMax \in Nat \ {0}
      /\ gatePc \in [Threads -> WaitLabels] /\ queuePc \in [Threads -> WaitLabels]
  BY SemTypes, BoundsAssumption DEF CVInv
<1>1. ASSUME NEW t \in Threads, GateStep(t) PROVE OwnTypes' /\ ControlInv' /\ GoneInv'
  BY <1>0, <1>1 DEF OwnTypes, ControlInv, GoneInv, GateStep, counts, request, queueVars,
     Gate!Wake, Gate!Cancel, Gate!Return, Gate!Goto
<1>2. ASSUME NEW t \in Threads, QueueEnd(t) PROVE OwnTypes' /\ ControlInv' /\ GoneInv'
  BY <1>0, <1>2 DEF OwnTypes, ControlInv, GoneInv, QueueEnd, counts, request, gateVars,
     Queue!TimeOut, Queue!Cancel, Queue!Goto
<1>3. ASSUME NEW t \in Threads, CancelEarly(t) PROVE OwnTypes' /\ ControlInv' /\ GoneInv'
  BY <1>0, <1>3 DEF OwnTypes, ControlInv, GoneInv, CancelEarly, counts, request, gateVars,
     queueVars, Goto, Labels, AtMutex, AtGuard
<1>4. CASE Create
  BY <1>0, <1>4 DEF OwnTypes, ControlInv, GoneInv, Create, request, Gate!Create, Queue!Create,
     AtGuard
<1>5. CASE UNCHANGED vars
  BY <1>0, <1>5 DEF OwnTypes, ControlInv, GoneInv, vars, counts, request, gateVars, queueVars
<1>6. QED
  BY <1>1, <1>2, <1>3, <1>4, <1>5, ClientControl, StepControl DEF Next
----------------------------------------------------------------------------
(* The gate, and what the counters say, for a thread that destroys: nobody  *)
(* is counted, nobody is to be unblocked, and no other thread is inside.    *)
LEMMA DestroyAlone ==
  ASSUME CVInv, NEW t \in Threads, Destroy(t)
  PROVE  /\ alive /\ toUnblock = 0
         /\ \A u \in Threads : u # t => pc[u] \in {"idle", "relock", "handler"}
<1>0. /\ alive /\ OwnTypes /\ ControlInv /\ Accounting /\ Nobody \notin Threads
      /\ pc[t] = "destroy" /\ mutex = t /\ guard = Nobody /\ t \in HasGate
      /\ blocked <= gone /\ ~Signalling
  BY Context, ThreadsAssumption
     DEF CVInv, CountInv, Destroy, Goto, AtGate, HasGate, ControlInv, AtMutex
<1>1. /\ IsFiniteSet(HasGate) /\ Cardinality(HasGate) \in Nat \ {0}
      /\ IsFiniteSet(Counted) /\ Cardinality(Counted) \in Nat
      /\ Cardinality(Counted) = 0 => Counted = {}
  BY <1>0, CardType DEF HasGate, Counted
<1>2. Free(gateValue, gateTokens) \in Nat
  BY SemTypes DEF CVInv, Free
<1>3. toUnblock = 0 /\ Cardinality(HasGate) = 1
  BY <1>0, <1>1, <1>2 DEF CVInv, CountInv, GateInv, Gates, OwnTypes
<1>4. Counted = {}
  BY <1>0, <1>1, <1>3 DEF Accounting, OwnTypes
<1>5. HasGate = {t}
  <2>1. Cardinality(HasGate \ {t}) = 0
    BY <1>0, <1>3, CardMove DEF HasGate
  <2>2. QED
    BY <1>0, <2>1, CardType DEF HasGate
<1>6. ASSUME NEW u \in Threads, u # t PROVE pc[u] \in {"idle", "relock", "handler"}
  <2>1. pc[u] \notin {"admit", "release", "block", "sleep", "woken", "left"}
    BY <1>4 DEF Counted
  <2>2. pc[u] # "reopen"
    BY <1>5, <1>6 DEF HasGate
  <2>3. pc[u] \notin {"enter", "destroy", "drain", "close", "post"}
    BY <1>0, <1>6 DEF ControlInv, AtMutex, AtGuard, Signalling
  <2>4. QED
    BY <1>0, <2>1, <2>2, <2>3 DEF OwnTypes, Labels
<1>7. QED
  BY <1>0, <1>3, <1>6

(* The condition variable is destroyed only by Destroy, and once it is, a   *)
(* step is one of the clients' mutex, or creates it anew.                   *)
LEMMA DeadStep ==
  ASSUME CVInv, Next, ~(alive /\ alive')
  PROVE  \/ alive /\ \E t \in Threads : Destroy(t)
         \/ ~alive /\ Create
         \/ ~alive /\ UNCHANGED <<alive, toUnblock>>
               /\ \E t \in Threads : LockMutex(t) \/ UnlockMutex(t) \/ Relock(t) \/ Handler(t)
<1>0. \A t \in Threads : pc[t] \notin {"idle", "relock", "handler"} => alive
  BY Context
<1>1. Create => ~alive
  BY DEF Create, Gate!Create
<1>2. ASSUME NEW t \in Threads, Client(t)
      PROVE  ~alive /\ UNCHANGED <<alive, toUnblock>> /\ (LockMutex(t) \/ UnlockMutex(t))
  BY <1>2 DEF Client, LockMutex, UnlockMutex, Wait, TryDestroy, UnblockMore, CloseGate, Request,
     Gate!Wait, counts
<1>3. ASSUME NEW t \in Threads, Step(t)
      PROVE  \/ alive /\ Destroy(t)
             \/ ~alive /\ UNCHANGED <<alive, toUnblock>> /\ (Relock(t) \/ Handler(t))
  <2>1. CASE Relock(t) \/ Handler(t)
    BY <2>1 DEF Relock, Handler, counts
  <2>2. CASE Destroy(t)
    BY <1>0, <2>2 DEF Destroy, Goto
  <2>3. CASE pc[t] \notin {"idle", "relock", "handler"} /\ UNCHANGED alive
    BY <1>0, <2>3
  <2>4. CASE Count(t) \/ Admit(t) \/ Release(t) \/ Retract(t) \/ Reopen(t) \/ DestroyBusy(t)
    BY <2>3, <2>4 DEF Count, Admit, Release, Retract, Leaving, Reopen, DestroyBusy, Goto, AtGate,
       Gate!Post
  <2>5. CASE Leave(t) \/ Drain(t) \/ Unblock(t) \/ PostQueue(t)
    BY <2>3, <2>5 DEF Leave, Leaving, Drain, Unblock, PostQueue, Goto, AtGate, Gate!Post, Gate!Wait
  <2>6. CASE Block(t) \/ GateCleanup(t)
    BY <2>3, <2>6 DEF Block, GateCleanup, Goto, Queue!Wait, Gate!WaitCleanup
  <2>7. CASE QueueWake(t) \/ QueueCleanup(t)
    <3>1. queuePc[t] # "idle" /\ UNCHANGED alive
      BY <2>7 DEF QueueWake, QueueCleanup, Queue!Wake, Queue!TimedCleanup, Queue!Return, Queue!Goto
    <3>2. QED
      BY <2>3, <3>1 DEF CVInv, ControlInv
  <2>8. QED
    BY <1>3, <2>1, <2>2, <2>4, <2>5, <2>6, <2>7 DEF Step
<1>4. ASSUME NEW t \in Threads, GateStep(t) \/ QueueEnd(t) \/ CancelEarly(t) PROVE FALSE
  BY <1>0, <1>4 DEF CVInv, ControlInv, AtGuard, GateStep, QueueEnd, CancelEarly, Goto, Gate!Wake, Gate!Cancel,
     Gate!Return, Gate!Goto, Queue!TimeOut, Queue!Cancel, Queue!Goto
<1>5. QED
  BY <1>1, <1>2, <1>3, <1>4 DEF Next

LEMMA UnusedStep == CVInv /\ [Next]_vars => DestroyedIsUnused' /\ DeadInv'
<1> SUFFICES ASSUME CVInv, [Next]_vars, ~alive'
             PROVE  /\ \A u \in Threads : pc'[u] \in {"idle", "relock", "handler"}
                    /\ toUnblock' = 0
  BY DEF DestroyedIsUnused, DeadInv
<1>0. /\ ~alive => \A u \in Threads : pc[u] \in {"idle", "relock", "handler"}
      /\ ~alive => toUnblock = 0
      /\ pc \in [Threads -> Labels]
  BY DEF CVInv, DestroyedIsUnused, DeadInv, OwnTypes
<1>1. ASSUME NEW t \in Threads, Destroy(t)
      PROVE  /\ \A u \in Threads : pc'[u] \in {"idle", "relock", "handler"}
             /\ toUnblock' = 0
  BY <1>0, <1>1, DestroyAlone DEF Destroy, Goto, counts
<1>2. ASSUME NEW t \in Threads, ~alive, UNCHANGED toUnblock,
             LockMutex(t) \/ UnlockMutex(t) \/ Relock(t) \/ Handler(t)
      PROVE  /\ \A u \in Threads : pc'[u] \in {"idle", "relock", "handler"}
             /\ toUnblock' = 0
  BY <1>0, <1>2 DEF LockMutex, UnlockMutex, Relock, Handler, Goto
<1>3. CASE UNCHANGED vars
  BY <1>0, <1>3 DEF vars, counts
<1>4. ~Create
  BY DEF Create, Gate!Create
<1>5. QED
  BY <1>1, <1>2, <1>3, <1>4, DeadStep

(* Every step but destruction is a step of the two semaphores, or leaves    *)
(* them alone.                                                              *)
GateSame  == UNCHANGED <<alive, gateVars>>
QueueSame == UNCHANGED <<alive, queueVars>>

LEMMA SameVars == /\ GateSame => UNCHANGED GateP!vars
                  /\ QueueSame => UNCHANGED QueueP!vars
BY DEF GateSame, QueueSame, gateVars, queueVars, GateP!vars, QueueP!vars

LEMMA SemSteps ==
  ASSUME CVInv, [Next]_vars
  PROVE  \/ GateSame /\ QueueSame
         \/ GateP!Next /\ (QueueSame \/ QueueP!Next)
         \/ GateSame /\ QueueP!Next
         \/ \E t \in Threads : Destroy(t)
<1> USE DEF GateSame, QueueSame
<1>0. OwnTypes /\ ControlInv
  BY DEF CVInv
<1>1. ASSUME NEW t \in Threads,
             LockMutex(t) \/ UnlockMutex(t) \/ Count(t) \/ Release(t) \/ CancelEarly(t)
               \/ Retract(t) \/ Relock(t) \/ Handler(t) \/ Unblock(t)
               \/ \E a \in BOOLEAN : UnblockMore(t, a)
      PROVE  GateSame /\ QueueSame
  BY <1>1 DEF LockMutex, UnlockMutex, Count, Release, CancelEarly, Retract, Relock, Handler,
     Unblock, UnblockMore
<1>2. ASSUME NEW t \in Threads,
             Wait(t) \/ TryDestroy(t) \/ GateStep(t) \/ GateCleanup(t) \/ Admit(t)
               \/ Reopen(t) \/ Drain(t) \/ DestroyBusy(t) \/ \E a \in BOOLEAN : CloseGate(t, a)
      PROVE  GateP!Next /\ QueueSame
  <2>1. UNCHANGED alive /\ QueueSame
    BY <1>2 DEF Wait, TryDestroy, GateStep, GateCleanup, Admit, Reopen, Drain, DestroyBusy,
       CloseGate, Gate!Wait, Gate!Wake, Gate!Cancel, Gate!WaitCleanup, Gate!Post
  <2>2. \/ Gate!Wait(t, "wait") \/ Gate!Wait(t, "semwait") \/ Gate!Wake(t) \/ Gate!Cancel(t)
        \/ Gate!WaitCleanup(t) \/ Gate!Post(t)
    BY <1>2 DEF Wait, TryDestroy, GateStep, GateCleanup, Admit, Reopen, Drain, DestroyBusy,
       CloseGate
  <2>3. QED
    BY <2>1, <2>2, GateNext
<1>3. ASSUME NEW t \in Threads, Leave(t)
      PROVE  QueueSame /\ (GateSame \/ GateP!Next)
  <2>1. QueueSame /\ (GateSame \/ Gate!Wait(t, "semwait"))
    BY <1>3 DEF Leave, Gate!Wait
  <2>2. QED
    BY <2>1, GateNext
<1>4. ASSUME NEW t \in Threads, Block(t) \/ QueueWake(t) \/ QueueEnd(t) \/ QueueCleanup(t)
      PROVE  GateSame /\ QueueP!Next
  <2>1. GateSame
    BY <1>4 DEF Block, QueueWake, QueueEnd, QueueCleanup, Queue!Wait, Queue!Wake, Queue!TimeOut,
       Queue!Cancel, Queue!TimedCleanup
  <2>2. \/ Queue!Wait(t, "timedwait") \/ Queue!Wake(t) \/ Queue!TimeOut(t) \/ Queue!Cancel(t)
        \/ Queue!TimedCleanup(t)
    BY <1>4 DEF Block, QueueWake, QueueEnd, QueueCleanup
  <2>3. QED
    BY <2>1, <2>2, QueueNext, 1 \in Nat \ {0}
<1>5. ASSUME NEW t \in Threads, PostQueue(t) PROVE GateSame /\ QueueP!Next
  <2>1. pc[t] = "post" /\ signals[t] \in Nat \ {0} /\ queuePc[t] = "idle"
    BY <1>0, <1>5 DEF PostQueue, Goto, OwnTypes, ControlInv
  <2>2. Queue!Add(signals[t]) /\ UNCHANGED <<alive, queuePc, queueCall>> /\ GateSame
    BY <1>5 DEF PostQueue
  <2>3. QED
    BY <2>1, <2>2, QueueNext
<1>6. CASE Create
  <2>1. Gate!Create /\ Queue!Create
    BY <1>6 DEF Create
  <2>2. GateP!Next
    BY <2>1 DEF Gate!Create, GateP!Create, GateP!Next
  <2>3. QueueP!Next
    BY <2>1 DEF Queue!Create, QueueP!Create, QueueP!Next
  <2>4. QED
    BY <2>2, <2>3
<1>7. CASE UNCHANGED vars
  BY <1>7 DEF vars
<1>8. QED
  BY <1>1, <1>2, <1>3, <1>4, <1>5, <1>6, <1>7 DEF Next, Client, Step

(* The semaphores keep their invariants; nobody waits in either of them     *)
(* when they are destroyed.                                                 *)
LEMMA SemaphoresStep == CVInv /\ [Next]_vars => Semaphores'
<1> SUFFICES ASSUME CVInv, [Next]_vars PROVE GateP!SemInv' /\ QueueP!SemInv'
  BY DEF Semaphores
<1>0. GateP!SemInv /\ QueueP!SemInv
  BY DEF CVInv, Semaphores
<1>1. ASSUME NEW t \in Threads, Destroy(t) PROVE GateP!SemInv' /\ QueueP!SemInv'
  <2>1. alive' = FALSE /\ UNCHANGED <<gateVars, queueVars>>
    BY <1>1 DEF Destroy
  <2>2. GateP!Waiters' = {} /\ QueueP!Waiters' = {}
    BY <2>1, ControlStep, UnusedStep
       DEF ControlInv, DestroyedIsUnused, AtGuard, GateP!Waiters, QueueP!Waiters
  <2>3. GateP!SemInv'
    BY <1>0, <2>1, <2>2 DEF gateVars, GateP!SemInv, GateP!TypeOK, GateP!CallInv, GateP!DeadInv,
       GateP!NoStrandedWaiter
  <2>4. QueueP!SemInv'
    BY <1>0, <2>1, <2>2 DEF queueVars, QueueP!SemInv, QueueP!TypeOK, QueueP!CallInv,
       QueueP!DeadInv, QueueP!NoStrandedWaiter
  <2>5. QED
    BY <2>3, <2>4
<1>2. QED
  BY <1>0, <1>1, SemSteps, SameVars, GateKeeps, QueueKeeps
----------------------------------------------------------------------------
(* Where the gate is while it is not closed. *)
GateLabels == {"enter", "drain", "close", "destroy", "admit", "reopen"}
Share      == Cardinality(HasGate) + Free(gateValue, gateTokens)
Closed     == IF toUnblock > 0 THEN 1 ELSE 0

LEMMA ShareType ==
  ASSUME CVInv
  PROVE  /\ HasGate \subseteq Threads /\ Cardinality(HasGate) \in Nat
         /\ Free(gateValue, gateTokens) \in Nat
         /\ Gates = Share + Closed /\ Gates' = Share' + Closed'
<1>1. HasGate \in SUBSET Threads /\ Cardinality(HasGate) \in Nat
  BY CardType DEF HasGate
<1>2. Free(gateValue, gateTokens) \in Nat
  BY SemTypes DEF CVInv, Free
<1>3. QED
  BY <1>1, <1>2 DEF Gates, Share, Closed

(* A step of one thread that leaves the gate's semaphore alone. *)
LEMMA MoveShare ==
  ASSUME CVInv, NEW t \in Threads, NEW to \in Labels, UNCHANGED gateVars,
         pc' = [pc EXCEPT ![t] = to]
  PROVE  /\ t \notin HasGate /\ to \notin GateLabels => Share' = Share
         /\ t \notin HasGate /\ to \in {"admit", "reopen"} => Share' = Share + 1
         /\ t \in HasGate /\ to \in {"admit", "reopen"} => Share' = Share
         /\ t \in HasGate /\ to \notin GateLabels => Share' = Share - 1
<1> USE DEF GateLabels
<1>0. /\ pc \in [Threads -> Labels] /\ HasGate \in SUBSET Threads
      /\ Free(gateValue, gateTokens)' = Free(gateValue, gateTokens)
      /\ Cardinality(HasGate) \in Nat /\ Free(gateValue, gateTokens) \in Nat
  BY ShareType DEF CVInv, OwnTypes, gateVars, Free
<1>1. ASSUME t \notin HasGate, to \notin GateLabels PROVE HasGate' = HasGate
  BY <1>0, <1>1 DEF HasGate, AtGate, gateVars
<1>2. ASSUME t \notin HasGate, to \in {"admit", "reopen"} PROVE HasGate' = HasGate \cup {t}
  BY <1>0, <1>2 DEF HasGate, AtGate, gateVars
<1>3. ASSUME t \in HasGate, to \in {"admit", "reopen"} PROVE HasGate' = HasGate
  BY <1>0, <1>3 DEF HasGate, AtGate, gateVars
<1>4. ASSUME t \in HasGate, to \notin GateLabels PROVE HasGate' = HasGate \ {t}
  BY <1>0, <1>4 DEF HasGate, AtGate, gateVars
<1>5. QED
  BY <1>0, <1>1, <1>2, <1>3, <1>4, CardMove DEF Share

(* A thread comes to the gate: it is let through, or waits. *)
LEMMA WaitShare ==
  ASSUME CVInv, NEW t \in Threads, NEW c \in {"wait", "semwait"}, Gate!Wait(t, c),
         NEW to \in {"enter", "drain", "close", "destroy"},
         pc[t] \notin GateLabels, pc' = [pc EXCEPT ![t] = to]
  PROVE  Share' = Share
<1>0. /\ pc \in [Threads -> Labels] /\ gatePc \in [Threads -> WaitLabels]
      /\ gateValue \in Int /\ gateTokens \in Nat
      /\ HasGate \in SUBSET Threads /\ Cardinality(HasGate) \in Nat
      /\ t \notin HasGate
  BY ShareType, SemTypes DEF CVInv, OwnTypes, GateLabels, HasGate, AtGate
<1>1. gateValue' = gateValue - 1 /\ gateTokens' = gateTokens
  BY DEF Gate!Wait
<1>2. CASE gateValue' >= 0
  <2>1. HasGate' = HasGate \cup {t}
    BY <1>0, <1>1, <1>2 DEF Gate!Wait, HasGate, AtGate
  <2>2. QED
    BY <1>0, <1>1, <1>2, <2>1, CardMove DEF Share, Free
<1>3. CASE gateValue' < 0
  <2>1. HasGate' = HasGate
    BY <1>0, <1>1, <1>3 DEF Gate!Wait, Gate!Goto, HasGate, AtGate, GateLabels
  <2>2. QED
    BY <1>0, <1>1, <1>3, <2>1 DEF Share, Free
<1>4. QED
  BY <1>0, <1>1, <1>2, <1>3

(* The wait of a thread at the gate goes on: it is let through, or is       *)
(* cancelled and has not cleaned up.                                        *)
LEMMA WakeShare ==
  ASSUME CVInv, NEW t \in Threads, Gate!Wake(t) \/ Gate!Cancel(t), UNCHANGED pc
  PROVE  Share' = Share
<1>0. /\ pc \in [Threads -> Labels] /\ gatePc \in [Threads -> WaitLabels]
      /\ gateValue \in Int /\ gateTokens \in Nat
      /\ HasGate \in SUBSET Threads /\ Cardinality(HasGate) \in Nat
      /\ gatePc[t] = "block" /\ pc[t] \in {"enter", "drain", "close", "destroy"}
      /\ t \notin HasGate
  BY ShareType, SemTypes DEF CVInv, OwnTypes, HasGate, AtGate, ControlInv, AtGuard,
     Gate!Wake, Gate!Cancel, Gate!Return, Gate!Goto
<1>1. CASE Gate!Wake(t)
  <2>1. HasGate' = HasGate \cup {t}
    BY <1>0, <1>1 DEF Gate!Wake, Gate!Return, Gate!Goto, HasGate, AtGate
  <2>2. QED
    BY <1>0, <1>1, <2>1, CardMove DEF Gate!Wake, Share, Free
<1>2. CASE Gate!Cancel(t)
  <2>1. HasGate' = HasGate
    BY <1>0, <1>2 DEF Gate!Cancel, Gate!Goto, HasGate, AtGate
  <2>2. QED
    BY <1>2, <2>1 DEF Gate!Cancel, Share, Free
<1>3. QED
  BY <1>1, <1>2

(* A thread that has the gate gives it back. *)
LEMMA PostShare ==
  ASSUME CVInv, NEW t \in Threads, Gate!Post(t), t \in HasGate,
         NEW to \in Labels, to \notin GateLabels, pc' = [pc EXCEPT ![t] = to]
  PROVE  Share' = Share
<1>0. /\ pc \in [Threads -> Labels] /\ gateValue \in Int /\ gateTokens \in Nat
      /\ HasGate \in SUBSET Threads /\ Cardinality(HasGate) \in Nat
  BY ShareType, SemTypes DEF CVInv, OwnTypes
<1>1. HasGate' = HasGate \ {t}
  BY <1>0 DEF Gate!Post, HasGate, AtGate, GateLabels
<1>2. Free(gateValue, gateTokens)' = Free(gateValue, gateTokens) + 1
  BY <1>0 DEF Gate!Post, Gate!Add, Free
<1>3. QED
  BY <1>0, <1>1, <1>2, CardMove, ShareType DEF Share

(* A thread that was cancelled at the gate leaves: it takes a token that    *)
(* came for it, or is no longer counted as waiting, and gives nothing.      *)
LEMMA CleanupShare ==
  ASSUME CVInv, NEW t \in Threads, GateCleanup(t)
  PROVE  Share' \in Nat /\ Share' <= Share
<1>0. /\ pc \in [Threads -> Labels] /\ gatePc \in [Threads -> WaitLabels]
      /\ gateValue \in Int /\ gateTokens \in Nat
      /\ HasGate \in SUBSET Threads /\ Cardinality(HasGate) \in Nat
      /\ pc[t] = "enter" /\ gatePc[t] = "cancelled" /\ alive
  BY ShareType, SemTypes, Context DEF CVInv, OwnTypes, GateCleanup, Goto, Gate!WaitCleanup,
     Gate!Return, Gate!Goto
<1>1. HasGate' = HasGate
  BY <1>0 DEF GateCleanup, Goto, Gate!WaitCleanup, Gate!Return, Gate!Goto, HasGate, AtGate
<1>2. gateTokens = 0 => gateValue < 0
  <2>1. GateP!Waiters # {}
    BY <1>0 DEF GateP!Waiters
  <2>2. QED
    BY <1>0, <2>1, GateAssumptions, GateP!WaitersFinite
       DEF CVInv, Semaphores, GateP!SemInv, GateP!NoStrandedWaiter
<1>3. Free(gateValue, gateTokens)' \in Nat /\ Free(gateValue, gateTokens)' <= Free(gateValue, gateTokens)
  BY <1>0, <1>2 DEF GateCleanup, Gate!WaitCleanup, Gate!ConsumeOrLeave, Free
<1>4. QED
  BY <1>0, <1>1, <1>3, ShareType DEF Share

(* As long as the condition variable lives, a step moves the gate, and only *)
(* the end of a cancelled wait at the gate may lose it.                     *)
GatesKept == Gates' = Gates

LEMMA GatesStep ==
  ASSUME CVInv, Next, alive, alive'
  PROVE  GatesKept \/ \E t \in Threads : GateCleanup(t) /\ Gates' \in Nat /\ Gates' <= Gates
<1>0. /\ OwnTypes /\ ControlInv /\ pc \in [Threads -> Labels]
      /\ Gates = Share + Closed /\ Gates' = Share' + Closed' /\ toUnblock \in Nat
      /\ Share \in Nat
  BY ShareType DEF CVInv, OwnTypes, Share
<1>1. ASSUME Share' = Share, UNCHANGED toUnblock PROVE GatesKept
  BY <1>0, <1>1 DEF GatesKept, Closed
<1>2. ASSUME UNCHANGED <<pc, gateVars, toUnblock>> PROVE GatesKept
  <2>1. Share' = Share
    BY <1>2 DEF Share, HasGate, AtGate, Free, gateVars
  <2>2. QED
    BY <1>1, <1>2, <2>1
<1>3. ASSUME NEW t \in Threads, NEW to \in Labels \ GateLabels, pc[t] \notin GateLabels,
             pc' = [pc EXCEPT ![t] = to], UNCHANGED <<gateVars, toUnblock>>
      PROVE  GatesKept
  BY <1>1, <1>3, MoveShare DEF HasGate, AtGate, GateLabels
<1>4. ASSUME NEW t \in Threads,
             LockMutex(t) \/ UnlockMutex(t) \/ QueueEnd(t)
      PROVE  GatesKept
  BY <1>2, <1>4 DEF LockMutex, UnlockMutex, QueueEnd, counts
<1>5. ASSUME NEW t \in Threads, Wait(t) \/ TryDestroy(t) \/ \E a \in BOOLEAN : CloseGate(t, a)
      PROVE  GatesKept
  BY <1>1, <1>5, WaitShare DEF Wait, TryDestroy, CloseGate, Request, Goto, GateLabels, counts
<1>6. ASSUME NEW t \in Threads, GateStep(t) PROVE GatesKept
  BY <1>1, <1>6, WakeShare DEF GateStep, counts
<1>7. ASSUME NEW t \in Threads, Admit(t) \/ Reopen(t) \/ DestroyBusy(t) \/ Drain(t)
      PROVE  GatesKept
  <2>1. t \in HasGate
    BY <1>7 DEF Admit, Reopen, DestroyBusy, Drain, AtGate, Goto, HasGate
  <2>2. Gate!Post(t) /\ UNCHANGED toUnblock
    BY <1>7 DEF Admit, Reopen, DestroyBusy, Drain, counts
  <2>3. \E to \in Labels \ GateLabels : pc' = [pc EXCEPT ![t] = to]
    BY <1>7 DEF Admit, Reopen, DestroyBusy, Drain, Goto, Labels, GateLabels
  <2>4. QED
    BY <1>1, <2>1, <2>2, <2>3, PostShare
<1>8. ASSUME NEW t \in Threads, Count(t) PROVE GatesKept
  <2>1. t \in HasGate /\ pc' = [pc EXCEPT ![t] = "admit"] /\ UNCHANGED <<gateVars, toUnblock>>
    BY <1>8 DEF Count, AtGate, Goto, HasGate
  <2>2. QED
    BY <1>1, <2>1, MoveShare DEF Labels
<1>9. ASSUME NEW t \in Threads, Retract(t) PROVE GatesKept
  <2>1. t \notin HasGate /\ UNCHANGED gateVars /\ toUnblock # 0 /\ toUnblock' = toUnblock - 1
    BY <1>9 DEF Retract, Leaving, HasGate, AtGate
  <2>2. CASE toUnblock = 1
    <3>1. pc' = [pc EXCEPT ![t] = "reopen"]
      BY <1>9, <2>2 DEF Retract
    <3>2. Share' = Share + 1
      BY <2>1, <3>1, MoveShare DEF Labels
    <3>3. QED
      BY <1>0, <2>1, <2>2, <3>2 DEF GatesKept, Closed
  <2>3. CASE toUnblock # 1
    <3>1. pc' = [pc EXCEPT ![t] = "relock"]
      BY <1>9, <2>3 DEF Retract
    <3>2. Share' = Share
      BY <2>1, <3>1, MoveShare DEF Labels, GateLabels
    <3>3. QED
      BY <1>0, <2>1, <2>3, <3>2 DEF GatesKept, Closed
  <2>4. QED
    BY <2>2, <2>3
<1>10. ASSUME NEW t \in Threads, Leave(t) PROVE GatesKept
  <2>1. pc[t] \notin GateLabels /\ UNCHANGED toUnblock
    BY <1>10 DEF Leave, Leaving, GateLabels
  <2>2. CASE pc' = [pc EXCEPT ![t] = "relock"] /\ UNCHANGED gateVars
    BY <1>3, <2>1, <2>2 DEF Labels, GateLabels
  <2>3. CASE pc' = [pc EXCEPT ![t] = "drain"] /\ Gate!Wait(t, "semwait")
    BY <1>1, <2>1, <2>3, WaitShare
  <2>4. QED
    BY <1>10, <2>2, <2>3 DEF Leave
<1>11. ASSUME NEW t \in Threads, Unblock(t) PROVE GatesKept
  <2>1. /\ t \in HasGate /\ pc' = [pc EXCEPT ![t] = "post"] /\ UNCHANGED gateVars
        /\ toUnblock = 0 /\ toUnblock' \in Nat \ {0}
    BY <1>0, <1>11 DEF Unblock, AtGate, Goto, HasGate, OwnTypes, ControlInv, AtGuard
  <2>2. Share' = Share - 1
    BY <2>1, MoveShare DEF Labels, GateLabels
  <2>3. QED
    BY <1>0, <2>1, <2>2 DEF GatesKept, Closed
<1>12. ASSUME NEW t \in Threads, NEW a \in BOOLEAN, UnblockMore(t, a) PROVE GatesKept
  <2>1. /\ toUnblock \in Nat \ {0} /\ toUnblock' \in Nat \ {0} /\ UNCHANGED gateVars
        /\ t \notin HasGate /\ pc' = [pc EXCEPT ![t] = "post"]
    BY <1>0, <1>12 DEF UnblockMore, Request, Goto, OwnTypes, HasGate, AtGate
  <2>2. Share' = Share
    BY <2>1, MoveShare DEF Labels, GateLabels
  <2>3. QED
    BY <1>0, <2>1, <2>2 DEF GatesKept, Closed
<1>13. ASSUME NEW t \in Threads, GateCleanup(t) PROVE Gates' \in Nat /\ Gates' <= Gates
  BY <1>0, <1>13, CleanupShare DEF GateCleanup, counts, Closed
<1>14. ASSUME NEW t \in Threads,
             Release(t) \/ Block(t) \/ CancelEarly(t) \/ QueueWake(t) \/ QueueCleanup(t)
               \/ Relock(t) \/ Handler(t) \/ PostQueue(t)
       PROVE GatesKept
  <2>1. pc[t] \in {"release", "block", "sleep", "relock", "handler", "post"}
    BY <1>0, <1>14 DEF Release, Block, CancelEarly, QueueWake, QueueCleanup, Relock, Handler,
       PostQueue, Goto, ControlInv, Queue!TimedCleanup, Queue!Return, Queue!Goto
  <2>2. \E to \in {"block", "woken", "sleep", "left", "handler", "idle"} :
          pc' = [pc EXCEPT ![t] = to]
    BY <1>14 DEF Release, Block, CancelEarly, QueueWake, QueueCleanup, Relock, Handler,
       PostQueue, Goto
  <2>3. UNCHANGED <<gateVars, toUnblock>>
    BY <1>14 DEF Release, Block, CancelEarly, QueueWake, QueueCleanup, Relock, Handler,
       PostQueue, counts
  <2>4. QED
    BY <1>3, <2>1, <2>2, <2>3 DEF Labels, GateLabels
<1>15. ~Create /\ \A t \in Threads : ~Destroy(t)
  BY DEF Create, Destroy, Gate!Create
<1>16. QED
  BY <1>4, <1>5, <1>6, <1>7, <1>8, <1>9, <1>10, <1>11, <1>12, <1>13, <1>14, <1>15
     DEF Next, Client, Step

(* A new condition variable has its gate open, and nobody inside. *)
LEMMA CreateStep ==
  ASSUME CVInv, Create
  PROVE  /\ Gates' = 1 /\ Accounting' /\ WakeupsCover'
<1>0. /\ OwnTypes /\ ~alive /\ toUnblock = 0 /\ toUnblock' = 0
      /\ \A t \in Threads : pc[t] = "idle" /\ pc'[t] = "idle"
      /\ blocked' = 0 /\ gone' = 0
  BY DEF CVInv, DeadInv, Create, Gate!Create
<1>1. HasGate' = {} /\ Counted' = {} /\ Cardinality({}) = 0
  BY <1>0, FS_EmptySet DEF HasGate, Counted, AtGate
<1>2. Free(gateValue, gateTokens)' = 1
  BY DEF Create, Gate!Create, Free
<1>3. Gates' = 1
  BY <1>0, <1>1, <1>2 DEF Gates
<1>4. Accounting'
  BY <1>0, <1>1 DEF Accounting
<1>5. WakeupsCover'
  <2>1. Announced' = {} /\ Woken' = {}
    <3>1. \A t \in Threads : signals'[t] = 0
      BY <1>0 DEF CVInv, ControlInv, Create, request
    <3>2. QED
      BY <1>0, <3>1 DEF Announced, Woken
  <2>2. Free(queueValue, queueTokens)' = 0
    BY DEF Create, Queue!Create, Free
  <2>3. QED
    BY <1>0, <1>1, <2>1, <2>2 DEF WakeupsCover
<1>6. QED
  BY <1>3, <1>4, <1>5

LEMMA GateInvStep == CVInv /\ [Next]_vars => GateInv'
<1> SUFFICES ASSUME CVInv, [Next]_vars, alive' PROVE Gates' <= 1
  BY DEF GateInv
<1>1. Gates \in Nat
  BY ShareType DEF CVInv, OwnTypes, Share, Closed
<1>2. CASE alive /\ Next
  BY <1>1, <1>2, GatesStep DEF CVInv, CountInv, GateInv, GatesKept
<1>3. CASE ~alive /\ Next
  <2>1. Create
    BY <1>3, DeadStep
  <2>2. QED
    BY <2>1, CreateStep
<1>4. CASE UNCHANGED vars
  <2>1. HasGate' = HasGate /\ UNCHANGED <<alive, toUnblock, gateValue, gateTokens>>
    BY <1>4 DEF vars, gateVars, counts, HasGate, AtGate
  <2>2. Gates' = Gates
    BY <2>1 DEF Gates, Free
  <2>3. QED
    BY <2>1, <2>2 DEF CVInv, CountInv, GateInv
<1>5. QED
  BY <1>2, <1>3, <1>4
----------------------------------------------------------------------------
(* The counted waiters, when one thread moves. *)
CountedLabels == {"admit", "release", "block", "sleep", "woken", "left"}

LEMMA MoveCounted ==
  ASSUME CVInv, NEW t \in Threads, NEW to \in Labels, pc' = [pc EXCEPT ![t] = to]
  PROVE  /\ (pc[t] \in CountedLabels <=> to \in CountedLabels) => Counted' = Counted
         /\ pc[t] \notin CountedLabels /\ to \in CountedLabels =>
              Cardinality(Counted') = Cardinality(Counted) + 1
         /\ pc[t] \in CountedLabels /\ to \notin CountedLabels =>
              Cardinality(Counted') = Cardinality(Counted) - 1
<1>0. pc \in [Threads -> Labels] /\ Counted \in SUBSET Threads
  BY DEF CVInv, OwnTypes, Counted
<1>1. CASE (pc[t] \in CountedLabels <=> to \in CountedLabels)
  BY <1>0, <1>1 DEF Counted, CountedLabels
<1>2. CASE pc[t] \notin CountedLabels /\ to \in CountedLabels
  <2>1. Counted' = Counted \cup {t} /\ t \notin Counted
    BY <1>0, <1>2 DEF Counted, CountedLabels
  <2>2. QED
    BY <1>0, <1>2, <2>1, CardMove
<1>3. CASE pc[t] \in CountedLabels /\ to \notin CountedLabels
  <2>1. Counted' = Counted \ {t} /\ t \in Counted
    BY <1>0, <1>3 DEF Counted, CountedLabels
  <2>2. QED
    BY <1>0, <1>3, <2>1, CardMove
<1>4. QED
  BY <1>1, <1>2, <1>3

(* Whoever is counted is accounted for, from the increment under the gate   *)
(* to the retraction under mtxUnblockLock.                                  *)
LEMMA AccountingStep == CVInv /\ [Next]_vars => Accounting'
<1> SUFFICES ASSUME CVInv, [Next]_vars, alive' PROVE Accounting'
  BY DEF Accounting
<1> DEFINE Sum == blocked - gone + toUnblock
<1>0. /\ OwnTypes /\ ControlInv /\ Cardinality(Counted) \in Nat
      /\ blocked \in Nat /\ gone \in Nat /\ toUnblock \in Nat
  BY CardType, BoundsAssumption DEF CVInv, OwnTypes, Counted
<1>a. alive => Sum = Cardinality(Counted) /\ (toUnblock > 0 => gone = 0)
  BY DEF CVInv, CountInv, Accounting
<1>1. ASSUME UNCHANGED counts, Counted' = Counted, UNCHANGED alive PROVE Accounting'
  BY <1>a, <1>1 DEF counts, Accounting
<1>2. ASSUME UNCHANGED <<counts, pc, alive>> PROVE Accounting'
  BY <1>1, <1>2 DEF Counted
<1>3. ASSUME NEW t \in Threads, NEW to \in Labels, pc' = [pc EXCEPT ![t] = to],
             (pc[t] \in CountedLabels <=> to \in CountedLabels), UNCHANGED <<alive, counts>>
      PROVE  Accounting'
  BY <1>1, <1>3, MoveCounted
<1>4. ASSUME NEW t \in Threads, LockMutex(t) \/ UnlockMutex(t) \/ GateStep(t) \/ QueueEnd(t)
      PROVE  Accounting'
  BY <1>2, <1>4 DEF LockMutex, UnlockMutex, GateStep, QueueEnd, Gate!Wake, Gate!Cancel,
     Queue!Cancel, Queue!TimeOut
<1>5. ASSUME NEW t \in Threads,
             Wait(t) \/ TryDestroy(t) \/ GateCleanup(t) \/ Reopen(t) \/ Relock(t)
               \/ Handler(t) \/ PostQueue(t) \/ DestroyBusy(t)
               \/ \E a \in BOOLEAN : CloseGate(t, a)
      PROVE  Accounting'
  <2>1. pc[t] \in {"idle", "enter", "reopen", "relock", "handler", "post", "destroy"}
    BY <1>5 DEF Wait, TryDestroy, GateCleanup, Reopen, Relock, Handler, PostQueue, DestroyBusy,
       CloseGate, Request, Goto, AtGate
  <2>2. \E to \in {"enter", "destroy", "handler", "relock", "idle", "close"} :
          pc' = [pc EXCEPT ![t] = to]
    BY <1>5 DEF Wait, TryDestroy, GateCleanup, Reopen, Relock, Handler, PostQueue, DestroyBusy,
       CloseGate, Goto
  <2>3. UNCHANGED <<alive, counts>>
    BY <1>5 DEF Wait, TryDestroy, GateCleanup, Reopen, Relock, Handler, PostQueue, DestroyBusy,
       CloseGate, Gate!Wait, Gate!WaitCleanup, Gate!Post
  <2>4. QED
    BY <1>3, <2>1, <2>2, <2>3 DEF Labels, CountedLabels
<1>6. ASSUME NEW t \in Threads,
             Admit(t) \/ Release(t) \/ Block(t) \/ CancelEarly(t) \/ QueueWake(t) \/ QueueCleanup(t)
      PROVE  Accounting'
  <2>1. pc[t] \in CountedLabels
    BY <1>0, <1>6 DEF Admit, Release, Block, CancelEarly, QueueWake, QueueCleanup, Goto,
       ControlInv, Queue!TimedCleanup, Queue!Return, Queue!Goto, CountedLabels
  <2>2. \E to \in CountedLabels : pc' = [pc EXCEPT ![t] = to]
    BY <1>6 DEF Admit, Release, Block, CancelEarly, QueueWake, QueueCleanup, Goto, CountedLabels
  <2>3. UNCHANGED <<alive, counts>>
    BY <1>6 DEF Admit, Release, Block, CancelEarly, QueueWake, QueueCleanup, Gate!Post,
       Queue!Wait, Queue!Wake, Queue!TimedCleanup
  <2>4. QED
    BY <1>3, <2>1, <2>2, <2>3 DEF Labels, CountedLabels
<1>7. ASSUME NEW t \in Threads, Count(t) PROVE Accounting'
  <2>1. /\ pc[t] = "enter" /\ pc' = [pc EXCEPT ![t] = "admit"]
        /\ blocked' = blocked + 1 /\ UNCHANGED <<alive, gone, toUnblock>>
    BY <1>7 DEF Count, Goto
  <2>2. Cardinality(Counted') = Cardinality(Counted) + 1
    BY <2>1, MoveCounted DEF Labels, CountedLabels
  <2>3. QED
    BY <1>0, <1>a, <2>1, <2>2 DEF Accounting
<1>8. ASSUME NEW t \in Threads, Retract(t) \/ Leave(t) PROVE Accounting'
  <2>1. pc[t] \in CountedLabels /\ UNCHANGED <<alive, blocked>>
    BY <1>8 DEF Retract, Leave, Leaving, CountedLabels, Gate!Wait
  <2>2. \E to \in {"reopen", "relock", "drain"} : pc' = [pc EXCEPT ![t] = to]
    BY <1>8 DEF Retract, Leave
  <2>3. Cardinality(Counted') = Cardinality(Counted) - 1
    BY <2>1, <2>2, MoveCounted DEF Labels, CountedLabels
  <2>4. \/ toUnblock # 0 /\ toUnblock' = toUnblock - 1 /\ UNCHANGED gone
        \/ toUnblock = 0 /\ toUnblock' = 0 /\ gone' = gone + 1
    BY <1>8 DEF Retract, Leave
  <2>5. QED
    BY <1>0, <1>a, <2>1, <2>3, <2>4 DEF Accounting
<1>9. ASSUME NEW t \in Threads, Drain(t) \/ Unblock(t) PROVE Accounting'
  <2>1. /\ UNCHANGED alive /\ pc[t] \in {"drain", "close"} /\ toUnblock = 0
        /\ \E to \in {"relock", "post"} : pc' = [pc EXCEPT ![t] = to]
    BY <1>0, <1>9 DEF Drain, Unblock, AtGate, Goto, ControlInv, AtGuard, Gate!Post
  <2>2. Counted' = Counted
    BY <2>1, MoveCounted DEF Labels, CountedLabels
  <2>3. gone' = 0 /\ Sum' = Sum
    <3>1. CASE Drain(t)
      BY <1>0, <2>1, <3>1 DEF Drain
    <3>2. CASE Unblock(t)
      <4>1. PICK n \in Int : toUnblock' = n /\ blocked' = blocked - gone - n
        BY <1>0, <3>2 DEF Unblock
      <4>2. QED
        BY <1>0, <2>1, <3>2, <4>1 DEF Unblock
    <3>3. QED
      BY <1>9, <3>1, <3>2
  <2>4. QED
    BY <1>a, <2>1, <2>2, <2>3 DEF Accounting
<1>10. ASSUME NEW t \in Threads, NEW a \in BOOLEAN, UnblockMore(t, a) PROVE Accounting'
  <2>1. /\ UNCHANGED <<alive, gone>> /\ toUnblock > 0
        /\ pc[t] = "idle" /\ pc' = [pc EXCEPT ![t] = "post"]
    BY <1>0, <1>10 DEF UnblockMore, Request, Goto
  <2>2. Counted' = Counted
    BY <2>1, MoveCounted DEF Labels, CountedLabels
  <2>3. Sum' = Sum
    BY <1>0, <1>10 DEF UnblockMore
  <2>4. QED
    BY <1>a, <2>1, <2>2, <2>3 DEF Accounting
<1>11. CASE Create
  BY <1>11, CreateStep
<1>12. CASE UNCHANGED vars
  BY <1>2, <1>12 DEF vars
<1>13. \A t \in Threads : ~Destroy(t)
  BY DEF Destroy
<1>14. QED
  BY <1>4, <1>5, <1>6, <1>7, <1>8, <1>9, <1>10, <1>11, <1>12, <1>13 DEF Next, Client, Step
----------------------------------------------------------------------------
(* The wake-ups announced by signals, one pair for each. *)
AnnouncedBy(f) == UNION {{t} \X (1 .. f[t]) : t \in Threads}

LEMMA AnnouncedFinite ==
  ASSUME NEW f \in [Threads -> Nat]
  PROVE  IsFiniteSet(AnnouncedBy(f)) /\ Cardinality(AnnouncedBy(f)) \in Nat
<1> DEFINE Parts == {{t} \X (1 .. f[t]) : t \in Threads}
<1>1. IsFiniteSet(Parts)
  <2> DEFINE part == [t \in Threads |-> {t} \X (1 .. f[t])]
  <2>1. part \in Surjection(Threads, Parts)
    BY DEF Surjection
  <2>2. QED
    BY <2>1, ThreadsAssumption, FS_Surjection
<1>2. ASSUME NEW t \in Threads PROVE IsFiniteSet({t} \X (1 .. f[t]))
  <2>1. IsFiniteSet({t})
    BY FS_Singleton
  <2>3. f[t] \in Int
    OBVIOUS
  <2>4. IsFiniteSet(1 .. f[t])
    BY <2>3, FS_Interval
  <2>2. QED
    BY <2>1, <2>4, FS_Product
<1>3. IsFiniteSet(UNION Parts)
  BY <1>1, <1>2, FS_UNION
<1>4. QED
  BY <1>3, FS_CardinalityType DEF AnnouncedBy

(* A thread that had none announces n wake-ups. *)
LEMMA Announce ==
  ASSUME NEW f \in [Threads -> Nat], NEW g \in [Threads -> Nat], NEW t \in Threads,
         f[t] = 0, \A u \in Threads \ {t} : g[u] = f[u]
  PROVE  Cardinality(AnnouncedBy(g)) = Cardinality(AnnouncedBy(f)) + g[t]
<1> DEFINE New == {t} \X (1 .. g[t])
<1>1. IsFiniteSet(New) /\ Cardinality(New) = g[t]
  <2>1. IsFiniteSet({t}) /\ Cardinality({t}) = 1
    BY FS_Singleton
  <2>2. IsFiniteSet(1 .. g[t]) /\ Cardinality(1 .. g[t]) = g[t]
    BY FS_Interval
  <2>3. IsFiniteSet(New) /\ Cardinality(New) = 1 * g[t]
    BY <2>1, <2>2, FS_Product
  <2>4. QED
    BY <2>3
<1>2. AnnouncedBy(g) = AnnouncedBy(f) \cup New
  <2>1. ASSUME NEW x \in AnnouncedBy(g) PROVE x \in AnnouncedBy(f) \cup New
    <3>1. PICK u \in Threads : x \in {u} \X (1 .. g[u])
      BY DEF AnnouncedBy
    <3>2. CASE u = t
      BY <3>1, <3>2
    <3>3. CASE u # t
      BY <3>1, <3>3 DEF AnnouncedBy
    <3>4. QED
      BY <3>2, <3>3
  <2>2. ASSUME NEW x \in AnnouncedBy(f) PROVE x \in AnnouncedBy(g)
    <3>1. PICK u \in Threads : x \in {u} \X (1 .. f[u])
      BY DEF AnnouncedBy
    <3>2. u # t
      BY <3>1
    <3>3. QED
      BY <3>1, <3>2 DEF AnnouncedBy
  <2>3. New \subseteq AnnouncedBy(g)
    BY DEF AnnouncedBy
  <2>4. QED
    BY <2>1, <2>2, <2>3
<1>3. AnnouncedBy(f) \cap New = {}
  <2>1. ASSUME NEW x \in AnnouncedBy(f) PROVE x \notin New
    <3>1. PICK u \in Threads : x \in {u} \X (1 .. f[u])
      BY DEF AnnouncedBy
    <3>2. QED
      BY <3>1
  <2>2. QED
    BY <2>1
<1>4. /\ IsFiniteSet(AnnouncedBy(f)) /\ Cardinality(AnnouncedBy(f)) \in Nat
      /\ g[t] \in Nat /\ Cardinality({}) = 0
  BY AnnouncedFinite, FS_EmptySet
<1>5. Cardinality(AnnouncedBy(f) \cup New)
        = Cardinality(AnnouncedBy(f)) + Cardinality(New) - Cardinality(AnnouncedBy(f) \cap New)
  BY <1>1, <1>4, FS_Union
<1>6. Cardinality(AnnouncedBy(f) \cap New) = 0
  BY <1>3, <1>4
<1> HIDE DEF New
<1>7. Cardinality(AnnouncedBy(g)) = Cardinality(AnnouncedBy(f) \cup New)
  BY <1>2
<1>8. QED
  BY <1>1, <1>4, <1>5, <1>6, <1>7

(* The threads that leave the queue with a wake-up, when one thread moves. *)
LEMMA MoveWoken ==
  ASSUME CVInv, NEW t \in Threads, NEW to \in Labels, pc' = [pc EXCEPT ![t] = to]
  PROVE  /\ Cardinality(Woken) \in Nat /\ Cardinality(Woken') \in Nat
         /\ pc[t] # "woken" /\ to # "woken" => Cardinality(Woken') = Cardinality(Woken)
         /\ pc[t] # "woken" /\ to = "woken" => Cardinality(Woken') = Cardinality(Woken) + 1
         /\ to # "woken" => Cardinality(Woken') >= Cardinality(Woken) - 1
<1>0. /\ pc \in [Threads -> Labels] /\ Woken \in SUBSET Threads /\ Woken' \in SUBSET Threads
      /\ Cardinality(Woken) \in Nat /\ Cardinality(Woken') \in Nat
  BY CardType DEF CVInv, OwnTypes, Woken
<1>1. CASE pc[t] # "woken" /\ to # "woken"
  <2>1. Woken' = Woken
    BY <1>0, <1>1 DEF Woken
  <2>2. QED
    BY <1>0, <1>1, <2>1
<1>2. CASE pc[t] # "woken" /\ to = "woken"
  <2>1. Woken' = Woken \cup {t} /\ t \notin Woken
    BY <1>0, <1>2 DEF Woken
  <2>2. QED
    BY <1>0, <1>2, <2>1, CardMove
<1>3. CASE pc[t] = "woken" /\ to # "woken"
  <2>1. Woken' = Woken \ {t} /\ t \in Woken
    BY <1>0, <1>3 DEF Woken
  <2>2. QED
    BY <1>0, <1>3, <2>1, CardMove
<1>4. CASE pc[t] = "woken" /\ to = "woken"
  BY <1>0, <1>4
<1>5. QED
  BY <1>1, <1>2, <1>3, <1>4

(* The wake-ups on their way. *)
Tokens == Free(queueValue, queueTokens)
Coming == Tokens + Cardinality(Woken) + Cardinality(Announced)

LEMMA ComingType ==
  ASSUME CVInv, [Next]_vars
  PROVE  /\ queueValue \in Int /\ queueTokens \in Nat /\ Tokens \in Nat
         /\ Cardinality(Woken) \in Nat /\ Cardinality(Announced) \in Nat
         /\ Tokens' \in Nat
         /\ Cardinality(Woken') \in Nat /\ Cardinality(Announced') \in Nat
<1>1. queueValue \in Int /\ queueTokens \in Nat /\ Tokens \in Nat
  BY SemTypes DEF CVInv, Tokens, Free
<1>2. Cardinality(Woken) \in Nat /\ Cardinality(Woken') \in Nat
  BY CardType DEF Woken
<1>3. signals \in [Threads -> Nat] /\ signals' \in [Threads -> Nat]
  BY ControlStep DEF CVInv, OwnTypes
<1>4. Announced = AnnouncedBy(signals) /\ Announced' = AnnouncedBy(signals')
  BY DEF Announced, AnnouncedBy
<1>5. Tokens' \in Nat
  <2>1. queueValue' \in Int /\ queueTokens' \in Nat
    BY SemaphoresStep DEF Semaphores, QueueP!SemInv, QueueP!TypeOK
  <2>2. \A v \in Int, k \in Nat : Free(v, k) \in Nat
    BY DEF Free
  <2>3. QED
    BY <2>1, <2>2 DEF Tokens
<1>6. QED
  BY <1>1, <1>2, <1>3, <1>4, <1>5, AnnouncedFinite

(* A signal announces what it made to be unblocked, and posts what it       *)
(* announced.                                                               *)
LEMMA SignalMove ==
  ASSUME CVInv, [Next]_vars, NEW t \in Threads, NEW n \in Nat,
         signals' = [signals EXCEPT ![t] = n]
  PROVE  /\ signals[t] = 0 => Cardinality(Announced') = Cardinality(Announced) + n
         /\ n = 0 => Cardinality(Announced) = Cardinality(Announced') + signals[t]
<1>1. signals \in [Threads -> Nat] /\ signals' \in [Threads -> Nat]
  BY DEF CVInv, OwnTypes
<1>2. Announced = AnnouncedBy(signals) /\ Announced' = AnnouncedBy(signals')
  BY DEF Announced, AnnouncedBy
<1>3. signals'[t] = n /\ \A u \in Threads \ {t} : signals'[u] = signals[u]
  BY <1>1
<1>4. ASSUME signals[t] = 0 PROVE Cardinality(Announced') = Cardinality(Announced) + n
  BY <1>1, <1>2, <1>3, <1>4, Announce
<1>5. ASSUME n = 0 PROVE Cardinality(Announced) = Cardinality(Announced') + signals[t]
  <2>1. signals'[t] = 0 /\ \A u \in Threads \ {t} : signals[u] = signals'[u]
    BY <1>3, <1>5
  <2>2. QED
    BY <1>1, <1>2, <2>1, Announce
<1>6. QED
  BY <1>4, <1>5

(* Every waiter to be unblocked keeps its wake-up on the way. *)
LEMMA WakeupsStep == CVInv /\ [Next]_vars => WakeupsCover'
<1> SUFFICES ASSUME CVInv, [Next]_vars, alive' PROVE toUnblock' <= Coming'
  BY DEF WakeupsCover, Coming, Tokens
<1>0. /\ OwnTypes /\ ControlInv /\ toUnblock \in Nat
      /\ queueValue \in Int /\ queueTokens \in Nat /\ Tokens \in Nat
      /\ Cardinality(Woken) \in Nat /\ Cardinality(Announced) \in Nat
      /\ Tokens' \in Nat
      /\ Cardinality(Woken') \in Nat /\ Cardinality(Announced') \in Nat
  BY ComingType DEF CVInv, OwnTypes
<1>a. alive => toUnblock <= Coming
  BY DEF CVInv, CountInv, WakeupsCover, Coming, Tokens
<1>1. ASSUME UNCHANGED <<alive, toUnblock, signals>>, Tokens' = Tokens,
             Cardinality(Woken') = Cardinality(Woken)
      PROVE  toUnblock' <= Coming'
  <2>1. Announced' = Announced
    BY <1>1 DEF Announced
  <2>2. QED
    BY <1>0, <1>a, <1>1, <2>1 DEF Coming
<1>2. ASSUME UNCHANGED <<alive, toUnblock, pc, signals, queueVars>> PROVE toUnblock' <= Coming'
  <2>1. Tokens' = Tokens /\ Woken' = Woken
    BY <1>2 DEF Tokens, Free, Woken, queueVars
  <2>2. QED
    BY <1>0, <1>1, <1>2, <2>1
<1>3. ASSUME NEW t \in Threads, LockMutex(t) \/ UnlockMutex(t) \/ GateStep(t)
      PROVE  toUnblock' <= Coming'
  BY <1>2, <1>3 DEF LockMutex, UnlockMutex, GateStep, Gate!Wake, Gate!Cancel, counts, request
<1>4. ASSUME NEW t \in Threads,
             Wait(t) \/ TryDestroy(t) \/ GateCleanup(t) \/ Count(t) \/ Admit(t) \/ Release(t)
               \/ CancelEarly(t) \/ Drain(t) \/ Reopen(t) \/ Relock(t) \/ Handler(t)
               \/ DestroyBusy(t) \/ \E a \in BOOLEAN : CloseGate(t, a)
      PROVE  toUnblock' <= Coming'
  <2>1. pc[t] # "woken"
    BY <1>4 DEF Wait, TryDestroy, GateCleanup, Count, Admit, Release, CancelEarly, Drain, Reopen,
       Relock, Handler, DestroyBusy, CloseGate, Request, AtGate, Goto
  <2>2. \E to \in Labels \ {"woken"} : pc' = [pc EXCEPT ![t] = to]
    BY <1>4 DEF Wait, TryDestroy, GateCleanup, Count, Admit, Release, CancelEarly, Drain, Reopen,
       Relock, Handler, DestroyBusy, CloseGate, Goto, Labels
  <2>3. UNCHANGED <<alive, toUnblock, signals, queueVars>>
    BY <1>4 DEF Wait, TryDestroy, GateCleanup, Count, Admit, Release, CancelEarly, Drain, Reopen,
       Relock, Handler, DestroyBusy, CloseGate, counts, request, Gate!Wait, Gate!WaitCleanup,
       Gate!Post
  <2>4. Tokens' = Tokens
    BY <2>3 DEF Tokens, Free, queueVars
  <2>5. Cardinality(Woken') = Cardinality(Woken)
    BY <2>1, <2>2, MoveWoken
  <2>6. QED
    BY <1>0, <1>1, <2>3, <2>4, <2>5
<1>5. ASSUME NEW t \in Threads, QueueEnd(t) PROVE toUnblock' <= Coming'
  <2>1. Tokens' = Tokens /\ Woken' = Woken /\ UNCHANGED <<alive, toUnblock, signals>>
    BY <1>5 DEF QueueEnd, counts, request, Queue!TimeOut, Queue!Cancel, Tokens, Free, Woken
  <2>2. QED
    BY <1>0, <1>1, <2>1
<1>6. ASSUME NEW t \in Threads, Block(t) \/ QueueWake(t) \/ QueueCleanup(t)
      PROVE  toUnblock' <= Coming'
  <2>0. UNCHANGED <<alive, toUnblock, signals>> /\ Announced' = Announced
    BY <1>6 DEF Block, QueueWake, QueueCleanup, counts, request, Announced, Queue!Wait,
       Queue!Wake, Queue!TimedCleanup
  <2>1. pc[t] # "woken"
    BY <1>0, <1>6 DEF Block, QueueWake, QueueCleanup, Goto, ControlInv, Queue!TimedCleanup,
       Queue!Return, Queue!Goto
  <2>2. ASSUME pc' = [pc EXCEPT ![t] = "woken"], Tokens' >= Tokens - 1
        PROVE  toUnblock' <= Coming'
    <3>1. Cardinality(Woken') = Cardinality(Woken) + 1
      BY <2>1, <2>2, MoveWoken DEF Labels
    <3>2. QED
      BY <1>0, <1>a, <2>0, <2>2, <3>1 DEF Coming
  <2>3. ASSUME NEW to \in Labels \ {"woken"}, pc' = [pc EXCEPT ![t] = to], Tokens' >= Tokens
        PROVE  toUnblock' <= Coming'
    <3>1. Cardinality(Woken') = Cardinality(Woken)
      BY <2>1, <2>3, MoveWoken
    <3>2. QED
      BY <1>0, <1>a, <2>0, <2>3, <3>1 DEF Coming
  <2>4. CASE Block(t)
    <3>1. queueValue' = queueValue - 1 /\ queueTokens' = queueTokens
      BY <2>4 DEF Block, Queue!Wait
    <3>2. CASE queueValue' >= 0
      <4>1. pc' = [pc EXCEPT ![t] = "woken"]
        BY <2>4, <3>2 DEF Block
      <4>2. Tokens' >= Tokens - 1
        BY <1>0, <3>1, <3>2 DEF Tokens, Free
      <4>3. QED
        BY <2>2, <4>1, <4>2
    <3>3. CASE ~(queueValue' >= 0)
      <4>1. pc' = [pc EXCEPT ![t] = "sleep"]
        BY <2>4, <3>3 DEF Block
      <4>2. Tokens' >= Tokens
        BY <1>0, <3>1, <3>3 DEF Tokens, Free
      <4>3. QED
        BY <2>3, <4>1, <4>2 DEF Labels
    <3>4. QED
      BY <3>2, <3>3
  <2>5. CASE QueueWake(t)
    BY <1>0, <2>2, <2>5 DEF QueueWake, Goto, Queue!Wake, Tokens, Free
  <2>6. CASE QueueCleanup(t)
    <3>1. CASE queueTokens > 0
      <4>1. pc' = [pc EXCEPT ![t] = "woken"]
        BY <2>6, <3>1 DEF QueueCleanup
      <4>2. Tokens' >= Tokens - 1
        BY <1>0, <2>6, <3>1 DEF QueueCleanup, Queue!TimedCleanup, Queue!ConsumeOrLeave, Tokens,
           Free
      <4>3. QED
        BY <2>2, <4>1, <4>2
    <3>2. CASE ~(queueTokens > 0)
      <4>1. pc' = [pc EXCEPT ![t] = "left"]
        BY <2>6, <3>2 DEF QueueCleanup
      <4>2. Tokens' >= Tokens
        BY <1>0, <2>6, <3>2 DEF QueueCleanup, Queue!TimedCleanup, Queue!ConsumeOrLeave, Tokens,
           Free
      <4>3. QED
        BY <2>3, <4>1, <4>2 DEF Labels
    <3>3. QED
      BY <3>1, <3>2
  <2>7. QED
    BY <1>6, <2>4, <2>5, <2>6
<1>7. ASSUME NEW t \in Threads, Retract(t) PROVE toUnblock' <= Coming'
  <2>1. UNCHANGED <<alive, signals, queueVars>> /\ toUnblock' = toUnblock - 1
    BY <1>7 DEF Retract, request
  <2>2. Tokens' = Tokens /\ Announced' = Announced
    BY <2>1 DEF Tokens, Free, queueVars, Announced
  <2>3. \E to \in {"reopen", "relock"} : pc' = [pc EXCEPT ![t] = to]
    BY <1>7 DEF Retract
  <2>4. Cardinality(Woken') >= Cardinality(Woken) - 1
    BY <2>3, MoveWoken DEF Labels
  <2>5. QED
    BY <1>0, <1>a, <2>1, <2>2, <2>4 DEF Coming
<1>8. ASSUME NEW t \in Threads, Leave(t) PROVE toUnblock' <= Coming'
  BY <1>0, <1>8 DEF Leave, Coming
<1>9. ASSUME NEW t \in Threads, NEW n \in Nat, signals' = [signals EXCEPT ![t] = n],
             pc[t] \in {"idle", "close"}, pc' = [pc EXCEPT ![t] = "post"],
             toUnblock' = toUnblock + n, UNCHANGED <<alive, queueVars>>
      PROVE  toUnblock' <= Coming'
  <2>1. signals[t] = 0
    BY <1>0, <1>9 DEF ControlInv
  <2>2. Cardinality(Announced') = Cardinality(Announced) + n
    BY <1>9, <2>1, SignalMove
  <2>3. Cardinality(Woken') = Cardinality(Woken)
    BY <1>9, MoveWoken DEF Labels
  <2>4. Tokens' = Tokens
    BY <1>9 DEF Tokens, Free, queueVars
  <2>5. QED
    BY <1>0, <1>a, <1>9, <2>2, <2>3, <2>4 DEF Coming
<1>10. ASSUME NEW t \in Threads, NEW a \in BOOLEAN, UnblockMore(t, a) PROVE toUnblock' <= Coming'
  BY <1>0, <1>9, <1>10 DEF UnblockMore, Request, Goto, OwnTypes
<1>11. ASSUME NEW t \in Threads, Unblock(t) PROVE toUnblock' <= Coming'
  <2>1. pc[t] = "close" /\ pc' = [pc EXCEPT ![t] = "post"] /\ UNCHANGED <<alive, queueVars>>
    BY <1>11 DEF Unblock, AtGate, Goto
  <2>2. toUnblock = 0 /\ blocked - gone \in Nat
    BY <1>0, <2>1, BoundsAssumption DEF ControlInv, AtGuard, OwnTypes
  <2>3. PICK n \in Nat : toUnblock' = n /\ signals' = [signals EXCEPT ![t] = n]
    BY <2>2, <1>11 DEF Unblock
  <2>4. toUnblock' = toUnblock + n /\ pc[t] \in {"idle", "close"}
    BY <2>1, <2>2, <2>3
  <2>5. QED
    BY <1>9, <2>1, <2>3, <2>4
<1>12. ASSUME NEW t \in Threads, PostQueue(t) PROVE toUnblock' <= Coming'
  <2>1. /\ signals' = [signals EXCEPT ![t] = 0] /\ signals[t] \in Nat
        /\ pc[t] = "post" /\ pc' = [pc EXCEPT ![t] = "idle"]
        /\ Queue!Add(signals[t]) /\ UNCHANGED <<alive, toUnblock>>
    BY <1>0, <1>12 DEF PostQueue, Goto, OwnTypes, counts
  <2>2. Cardinality(Announced) = Cardinality(Announced') + signals[t]
    BY <2>1, SignalMove
  <2>3. Cardinality(Woken') = Cardinality(Woken)
    BY <2>1, MoveWoken DEF Labels
  <2>4. Tokens' = Tokens + signals[t]
    BY <1>0, <2>1 DEF Queue!Add, Tokens, Free
  <2>5. QED
    BY <1>0, <1>a, <2>1, <2>2, <2>3, <2>4 DEF Coming
<1>13. CASE Create
  <2>1. WakeupsCover'
    BY <1>13, CreateStep
  <2>2. QED
    BY <2>1 DEF WakeupsCover, Coming, Tokens
<1>14. CASE UNCHANGED vars
  BY <1>2, <1>14 DEF vars, counts, request
<1>15. \A t \in Threads : ~Destroy(t)
  BY DEF Destroy
<1>16. QED
  BY <1>3, <1>4, <1>5, <1>6, <1>7, <1>8, <1>10, <1>11, <1>12, <1>13, <1>14, <1>15
     DEF Next, Client, Step
----------------------------------------------------------------------------
(* pthread_cond_init establishes all of it. *)
LEMMA InitInv == Init => CVInv /\ (alive => Gates = 1)
<1> SUFFICES ASSUME Init PROVE CVInv /\ Gates = 1
  OBVIOUS
<1>0. /\ alive = TRUE /\ mutex = Nobody /\ guard = Nobody
      /\ blocked = 0 /\ gone = 0 /\ toUnblock = 0
      /\ pc = [t \in Threads |-> "idle"] /\ signals = [t \in Threads |-> 0]
      /\ all = [t \in Threads |-> FALSE] /\ cancelled = {}
      /\ gateValue = 1 /\ gateTokens = 0 /\ gatePc = [t \in Threads |-> "idle"]
      /\ queueValue = 0 /\ queueTokens = 0 /\ queuePc = [t \in Threads |-> "idle"]
  BY DEF Init, Gate!Init, Queue!Init
<1>1. GateP!SemInv
  <2>1. GateP!Init
    BY DEF Init, Gate!Init, GateP!Init
  <2>2. QED
    BY <2>1, GateAssumptions, GateP!InitInv
<1>2. QueueP!SemInv
  <2>1. QueueP!Init
    BY DEF Init, Queue!Init, QueueP!Init
  <2>2. QED
    BY <2>1, QueueAssumptions, QueueP!InitInv
<1>3. OwnTypes /\ ControlInv /\ GoneInv /\ DeadInv /\ DestroyedIsUnused
  BY <1>0, BoundsAssumption, ThreadsAssumption
     DEF OwnTypes, Labels, ControlInv, AtMutex, AtGuard, GoneInv, DeadInv, DestroyedIsUnused
<1>4. HasGate = {} /\ Counted = {} /\ Woken = {} /\ Announced = {} /\ Cardinality({}) = 0
  BY <1>0, FS_EmptySet DEF HasGate, AtGate, Counted, Woken, Announced
<1>5. Gates = 1
  BY <1>0, <1>4 DEF Gates, Free
<1>6. Accounting /\ WakeupsCover
  BY <1>0, <1>4 DEF Accounting, WakeupsCover, Free
<1>7. QED
  BY <1>1, <1>2, <1>3, <1>5, <1>6 DEF CVInv, Semaphores, CountInv, GateInv

LEMMA CVInvHolds == Spec => []CVInv
<1>1. CVInv /\ [Next]_vars => CVInv'
  BY ControlStep, SemaphoresStep, UnusedStep, GateInvStep, AccountingStep, WakeupsStep
     DEF CVInv, CountInv
<1>2. QED
  BY InitInv, <1>1, PTL DEF Spec

(* Counters and places keep their types.  In particular no counter becomes  *)
(* negative, the count of gone waiters never passes INT_MAX/2, and the two  *)
(* semaphores stay within their limits.                                     *)
THEOREM CVTypeCorrect == Spec => []TypeOK
<1>1. CVInv => TypeOK
  BY SemTypes DEF CVInv, TypeOK
<1>2. QED
  BY <1>1, CVInvHolds, PTL

(* The three counters account for every waiter, however its wait ends. *)
THEOREM Accounts == Spec => []Accounting
<1>1. CVInv => Accounting
  BY DEF CVInv, CountInv
<1>2. QED
  BY <1>1, CVInvHolds, PTL

(* Every waiter that a signal made to be unblocked has its wake-up on the   *)
(* way: a signal to a waiter is not lost, whichever waits end by timeout or *)
(* cancellation meanwhile.                                                  *)
THEOREM WakeupsOnTheirWay == Spec => []WakeupsCover
<1>1. CVInv => WakeupsCover
  BY DEF CVInv, CountInv
<1>2. QED
  BY <1>1, CVInvHolds, PTL

(* Destruction succeeds only when nobody is inside. *)
THEOREM DestroyedUnused == Spec => []DestroyedIsUnused
<1>1. CVInv => DestroyedIsUnused
  BY DEF CVInv
<1>2. QED
  BY <1>1, CVInvHolds, PTL

(* The gate is never in two places, also where threads are cancelled at it: *)
(* of the threads that were let through, one at a time is inside, and none  *)
(* while the gate is closed for waiters that are to be unblocked.           *)
GateExcludes ==
  alive => /\ \A t, u \in HasGate : t = u
           /\ toUnblock > 0 => HasGate = {}

THEOREM GateExclusion == Spec => []GateExcludes
<1>1. CVInv => GateExcludes
  <2> SUFFICES ASSUME CVInv, alive
               PROVE  /\ \A t, u \in HasGate : t = u
                      /\ toUnblock > 0 => HasGate = {}
    BY DEF GateExcludes
  <2>1. /\ HasGate \in SUBSET Threads /\ Cardinality(HasGate) \in Nat
        /\ Free(gateValue, gateTokens) \in Nat /\ toUnblock \in Nat
    BY ShareType DEF CVInv, OwnTypes
  <2>2. Cardinality(HasGate) <= 1 /\ (toUnblock > 0 => Cardinality(HasGate) = 0)
    BY <2>1 DEF CVInv, CountInv, GateInv, Gates
  <2>3. ASSUME NEW t \in HasGate, NEW u \in HasGate, t # u PROVE FALSE
    <3>1. u \in HasGate \ {t} /\ HasGate \ {t} \in SUBSET Threads
      BY <2>1, <2>3
    <3>2. Cardinality(HasGate \ {t}) = Cardinality(HasGate) - 1
      BY <2>1, CardMove
    <3>3. Cardinality(HasGate \ {t}) \in Nat \ {0}
      BY <3>1, CardType
    <3>4. QED
      BY <2>1, <2>2, <3>2, <3>3
  <2>4. QED
    BY <2>1, <2>2, <2>3, CardType
<1>2. QED
  BY <1>1, CVInvHolds, PTL

(* As long as nobody is cancelled at the gate, it is in exactly one place:  *)
(* it is never lost.                                                        *)
THEOREM GateKept == Spec => GateIsKept
<1> DEFINE Undisturbed == \A t \in Threads : gatePc[t] # "cancelled"
           Kept == alive => Gates = 1
<1>1. Undisturbed /\ CVInv /\ Kept /\ [Next]_vars => Kept'
  <2> SUFFICES ASSUME Undisturbed, CVInv, Kept, [Next]_vars, alive' PROVE Gates' = 1
    OBVIOUS
  <2>1. CASE alive /\ Next
    <3>1. \A t \in Threads : ~GateCleanup(t)
      BY DEF GateCleanup, Gate!WaitCleanup, Gate!Return, Gate!Goto
    <3>2. QED
      BY <2>1, <3>1, GatesStep DEF GatesKept
  <2>2. CASE ~alive /\ Next
    <3>1. Create
      BY <2>2, DeadStep
    <3>2. QED
      BY <3>1, CreateStep
  <2>3. CASE UNCHANGED vars
    <3>1. HasGate' = HasGate /\ UNCHANGED <<alive, toUnblock, gateValue, gateTokens>>
      BY <2>3 DEF vars, gateVars, counts, HasGate, AtGate
    <3>2. Gates' = Gates
      BY <3>1 DEF Gates, Free
    <3>3. QED
      BY <3>1, <3>2
  <2>4. QED
    BY <2>1, <2>2, <2>3
<1>2. Init => Kept
  BY InitInv
<1>3. QED
  BY <1>1, <1>2, CVInvHolds, PTL DEF Spec, GateIsKept, GateUndisturbed
=============================================================================
