------------------------------ MODULE MCSLock ------------------------------
(***************************************************************************)
(* The queue lock of win_pthreads (ptw32_MCS_lock.c), which pthread_once   *)
(* uses.  The lock is a pointer to the last node of a queue; each thread   *)
(* that wants the lock brings a node on its stack, and nodes are linked    *)
(* and handed over through two flags in the node.                          *)
(*                                                                         *)
(* A flag is a 4-byte LONG: 0, -1 once set, or the handle of the event its *)
(* owner sleeps on.  The Win64 build reads and writes flags with 8-byte    *)
(* interlocked operations, so an operation on readyFlag covers nextFlag    *)
(* too, and one on nextFlag covers the 4 bytes after the node.             *)
(*                                                                         *)
(* The actions take the labels they go from and to where two callers use   *)
(* the same code; module Once gives the lock its only client.              *)
(***************************************************************************)
EXTENDS Naturals

CONSTANTS
  Threads,     \* threads, and the queue node each of them brings
  Nil,         \* the null pointer
  Win64        \* flags are accessed with 8-byte operations

ASSUME NilAssumption   == Nil \notin Threads
ASSUME Win64Assumption == Win64 \in BOOLEAN

VARIABLES
  tail,        \* *lock, the last node of the queue
  next,        \* node->next
  flag,        \* node->readyFlag, node->nextFlag and the 4 bytes after them
  event,       \* state of the event a thread sleeps on
  pred,        \* the predecessor a thread found when it queued
  pc

lockVars == <<tail, next, flag, event, pred>>
vars     == <<lockVars, pc>>

Words  == {"ready", "next", "pad"}
Values == {"zero", "set", "event", "junk"}

(* Mutant: the 8-byte operations in every build. *)
SpanDouble(f) == IF f = "ready" THEN {"ready", "next"} ELSE {"next", "pad"}

(* The 4-byte words an operation on a flag covers. *)
Span(f) ==
  IF ~Win64 THEN {f} ELSE IF f = "ready" THEN {"ready", "next"} ELSE {"next", "pad"}

IsZero(n, f) == \A w \in Span(f) : flag[n][w] = "zero"

(* The covered bytes are exactly the handle of the owner's event. *)
IsHandle(n, f) ==
  flag[n][f] = "event" /\ \A w \in Span(f) \ {f} : flag[n][w] = "zero"

Init ==
  /\ tail  = Nil
  /\ next  = [t \in Threads |-> Nil]
  /\ flag  = [t \in Threads |-> [w \in Words |-> "zero"]]
  /\ event = [t \in Threads |-> FALSE]
  /\ pred  = [t \in Threads |-> Nil]
  /\ pc    = [t \in Threads |-> "idle"]

Goto(t, from, to) ==
  /\ pc[t] = from
  /\ pc' = [pc EXCEPT ![t] = to]

(* ptw32_mcs_flag_set on the node of n: a zero flag becomes -1, the handle *)
(* of a sleeping owner is signalled, and SetEvent on anything else fails.  *)
FlagSet(n, f) ==
  /\ flag' = [flag EXCEPT ![n] =
                [w \in Words |-> IF IsZero(n, f) /\ w \in Span(f) THEN "set" ELSE @[w]]]
  /\ event' = [event EXCEPT ![n] = @ \/ IsHandle(n, f)]

(* ptw32_mcs_flag_wait on the thread's own node: look at the flag, store an *)
(* event handle unless it has been set meanwhile, and sleep.                *)
FlagCheck(t, f, from, store, to) ==
  /\ \/ IsZero(t, f) /\ Goto(t, from, store)
     \/ ~IsZero(t, f) /\ Goto(t, from, to)
  /\ UNCHANGED lockVars

FlagStore(t, f, from, sleep, to) ==
  /\ event' = [event EXCEPT ![t] = FALSE]
  /\ \/ IsZero(t, f) /\ flag' = [flag EXCEPT ![t][f] = "event"] /\ Goto(t, from, sleep)
     \/ ~IsZero(t, f) /\ UNCHANGED flag /\ Goto(t, from, to)
  /\ UNCHANGED <<tail, next, pred>>

FlagSleep(t, from, to) ==
  /\ event[t]
  /\ Goto(t, from, to)
  /\ UNCHANGED lockVars

(***************************************************************************)
(* ptw32_mcs_lock_acquire.                                                 *)
(***************************************************************************)
Queue(t, from, to) ==
  /\ next' = [next EXCEPT ![t] = Nil]
  /\ \E after \in IF Win64 THEN {"zero", "junk"} ELSE {"zero"} :
       flag' = [flag EXCEPT ![t] = [w \in Words |-> IF w = "pad" THEN after ELSE "zero"]]
  /\ tail' = t
  /\ pred' = [pred EXCEPT ![t] = tail]
  /\ \/ tail = Nil /\ Goto(t, from, to)
     \/ tail # Nil /\ Goto(t, from, "link")
  /\ UNCHANGED event

Link(t) ==
  /\ next' = [next EXCEPT ![pred[t]] = t]
  /\ Goto(t, "link", "notify")
  /\ UNCHANGED <<tail, flag, event, pred>>

Notify(t) ==
  /\ Goto(t, "notify", "readyCheck")
  /\ FlagSet(pred[t], "next")
  /\ UNCHANGED <<tail, next, pred>>

AcquireSteps(t, to) ==
  \/ Link(t)
  \/ Notify(t)
  \/ FlagCheck(t, "ready", "readyCheck", "readyStore", to)
  \/ FlagStore(t, "ready", "readyStore", "readySleep", to)
  \/ FlagSleep(t, "readySleep", to)

(***************************************************************************)
(* ptw32_mcs_lock_release.                                                 *)
(***************************************************************************)
ReadNext(t, from) ==
  /\ \/ next[t] = Nil /\ Goto(t, from, "unlink")
     \/ next[t] # Nil /\ Goto(t, from, "pass")
  /\ UNCHANGED lockVars

(* Mutant: an exchange in the place of the compare-and-exchange. *)
UnlinkBlindly(t, to) ==
  /\ tail' = Nil
  /\ Goto(t, "unlink", to)
  /\ UNCHANGED <<next, flag, event, pred>>

Unlink(t, to) ==
  /\ \/ tail = t /\ tail' = Nil /\ Goto(t, "unlink", to)
     \/ tail # t /\ UNCHANGED tail /\ Goto(t, "unlink", "nextCheck")
  /\ UNCHANGED <<next, flag, event, pred>>

(* Hand the lock to the successor; a null successor is not a node. *)
Pass(t, to) ==
  /\ next[t] # Nil
  /\ Goto(t, "pass", to)
  /\ FlagSet(next[t], "ready")
  /\ UNCHANGED <<tail, next, pred>>

ReleaseSteps(t, to) ==
  \/ Unlink(t, to)
  \/ FlagCheck(t, "next", "nextCheck", "nextStore", "pass")
  \/ FlagStore(t, "next", "nextStore", "nextSleep", "pass")
  \/ FlagSleep(t, "nextSleep", "pass")
  \/ Pass(t, to)

=============================================================================
