---------------------------- MODULE ThreadProofs ----------------------------
(***************************************************************************)
(* Proofs about Thread, for every set of structures and clients and every  *)
(* bound on reuse: types, that every structure is accounted for, and that  *)
(* a request to cancel is acted upon once; and about ThreadKeys, for every *)
(* set of threads and keys: types, that the walk of an exiting thread is   *)
(* safe, that a freed key is unused, and that an exit leaves nothing.      *)
(***************************************************************************)
EXTENDS Thread, ThreadKeys, TLAPS

(* What a thread's phase says about its structure and its history. *)
PhaseInv(s) ==
  LET r == struct[s] IN
  /\ tpc[s] \in NoThread \cup {"last", "ended"}
        => ~requested[s] /\ ~early[s] /\ acted[s] = 0
  /\ tpc[s] \in NoThread => ~r.event /\ ~claimed[s] /\ r.state = Initial
  /\ tpc[s] = "created" => r.state < Canceling /\ acted[s] = 0 /\ ~r.async
                             /\ (r.event => early[s])
  /\ tpc[s] \in {"run", "wait", "deaf", "woken"} => r.state < Canceling /\ acted[s] = 0
  /\ tpc[s] \in {"last", "ended"} <=> r.state = Last
  /\ tpc[s] = "ended" => ~r.detached
  /\ acted[s] > 0 => r.state = Canceling

(* What becomes of a request. *)
EventInv(s) ==
  LET r == struct[s] IN
  /\ r.enabled /\ r.async => ~r.event
  /\ tpc[s] \in {"run", "wait", "deaf", "woken", "exit"} /\ ~early[s]
        => (r.event \/ tpc[s] = "woken" => r.state = Pending)
  /\ tpc[s] = "woken" /\ r.event => early[s]
  /\ acted[s] = 2 => early[s] /\ ~r.event
  /\ requested[s] /\ acted[s] = 0 => r.event \/ tpc[s] = "woken"

(* What a client may rely on about the thread it works on. *)
ClientInv(c) ==
  LET h == target[c] IN
  /\ cpc[c] = "idle" <=> h = NoHandle
  /\ cpc[c] # "idle" => /\ Live(h)
                        /\ ~struct[h[1]].detached
                        /\ claimed[h[1]] <=> cpc[c] # "cancel"
  /\ cpc[c] = "destroy" => struct[h[1]].state = Last

(* A thread that was claimed has one client, or will destroy its structure. *)
ClaimInv ==
  /\ \A c, d \in Clients :
       cpc[c] \in {"join", "destroy"} /\ target[d] = target[c]
          => d = c
  /\ \A s \in Slots :
       claimed[s] => \/ struct[s].detached
                     \/ \E c \in Clients : target[c] = <<s, struct[s].x>>

FreeInv ==
  /\ \A s \in Slots : tpc[s] = "free" <=> \E i \in 1..Len(free) : free[i] = s
  /\ \A i, j \in 1..Len(free) : free[i] = free[j] => i = j

(* The part that speaks of one thread at a time. *)
SlotTypes ==
  /\ struct \in [Slots -> Structs]
  /\ tpc \in [Slots -> Phases]
  /\ claimed \in [Slots -> BOOLEAN]
  /\ requested \in [Slots -> BOOLEAN]
  /\ early \in [Slots -> BOOLEAN]
  /\ acted \in [Slots -> 0..2]

SlotInv == SlotTypes /\ \A s \in Slots : PhaseInv(s) /\ EventInv(s)

ThreadInv ==
  /\ TypeOK
  /\ SlotInv
  /\ \A c \in Clients : ClientInv(c)
  /\ ClaimInv
  /\ FreeInv

(* A step that neither gives a structure to a thread nor takes it away. *)
Undisturbed ==
  \A u \in Slots :
    /\ struct'[u].x = struct[u].x
    /\ struct'[u].detached = struct[u].detached
    /\ struct[u].state = Last => struct'[u].state = Last
    /\ tpc'[u] \in NoThread <=> tpc[u] \in NoThread
    /\ tpc'[u] = "free" <=> tpc[u] = "free"

USE DEF Initial, Running, Pending, Canceling, Last
----------------------------------------------------------------------------
LEMMA RequestType ==
  ASSUME NEW r \in Structs
  PROVE  [r EXCEPT !.state = Pending, !.event = TRUE] \in Structs
BY DEF Structs

(* A request changes the state, the event and the history of its thread. *)
LEMMA RequestStep ==
  ASSUME NEW s \in Slots, SlotInv, tpc[s] \notin NoThread, RequestCancel(s),
         UNCHANGED claimed
  PROVE  SlotInv' /\ Undisturbed
<1> DEFINE r == struct[s]
<1> USE DEF SlotInv, SlotTypes, Structs, Phases, NoThread, Canceled
<1>1. PhaseInv(s) /\ EventInv(s)
  OBVIOUS
<1>2. CASE /\ r.async /\ r.enabled /\ r.state < Canceling
           /\ struct' = [struct EXCEPT ![s] = Canceled(r)]
           /\ Throw(s)
           /\ UNCHANGED <<requested, early>>
  <2>1. acted[s] \in {0, 1}
    BY <1>1, <1>2 DEF PhaseInv
  <2>2. SlotTypes'
    <3>1. r \in Structs /\ Canceled(r) \in Structs
      OBVIOUS
    <3>2. struct' \in [Slots -> Structs]
      BY <1>2, <3>1
    <3>3. acted' \in [Slots -> 0..2]
      BY <1>2, <2>1 DEF Throw
    <3> QED BY <1>2, <3>2, <3>3 DEF Throw
  <2>3. (PhaseInv(s) /\ EventInv(s))'
    BY <1>1, <1>2, <2>1, <2>2 DEF PhaseInv, EventInv, Throw
  <2>4. ASSUME NEW u \in Slots, u # s PROVE (PhaseInv(u) /\ EventInv(u))'
    BY <1>2, <2>4 DEF PhaseInv, EventInv, Throw
  <2>5. Undisturbed
    BY <1>1, <1>2 DEF PhaseInv, Undisturbed, Throw
  <2> QED BY <2>2, <2>3, <2>4, <2>5
<1>3. CASE /\ ~(r.async /\ r.enabled) /\ r.state < Pending
           /\ struct' = [struct EXCEPT ![s] = [r EXCEPT !.state = Pending, !.event = TRUE]]
           /\ requested' = [requested EXCEPT ![s] = TRUE]
           /\ early' = [early EXCEPT ![s] = @ \/ tpc[s] = "created"]
           /\ UNCHANGED <<tpc, acted>>
  <2> DEFINE q == [r EXCEPT !.state = Pending, !.event = TRUE]
  <2>0. struct[s] \in Structs
    BY DEF SlotInv, SlotTypes
  <2>b. q \in Structs
    BY <2>0, RequestType
  <2>1. q \in Structs /\ struct' = [struct EXCEPT ![s] = q]
    BY ONLY <1>3, <2>b
  <2>2. SlotTypes'
    BY <1>3, <2>1
  <2>c. /\ struct'[s].x = r.x /\ struct'[s].detached = r.detached
        /\ struct'[s].state = Pending /\ struct'[s].event
        /\ struct'[s].enabled = r.enabled /\ struct'[s].async = r.async
    BY <2>0, <2>1
  <2>d. r.state \in {Initial, Running}
    BY <1>3, <2>0
  <2>e. tpc[s] \notin {"last", "ended"}
    BY <1>1, <2>d DEF PhaseInv
  <2>f. tpc[s] = "created" => early'[s]
    BY <1>3
  <2>g. requested'[s] /\ (early[s] => early'[s]) /\ UNCHANGED <<tpc, acted>>
    BY <1>3
  <2>3. (PhaseInv(s) /\ EventInv(s))'
    <3>1. PhaseInv(s)'
      BY <1>1, <2>c, <2>d, <2>e, <2>f, <2>g DEF PhaseInv
    <3>2. EventInv(s)'
      BY <1>1, <1>3, <2>c, <2>d, <2>g DEF PhaseInv, EventInv
    <3> QED BY <3>1, <3>2
  <2>4. ASSUME NEW u \in Slots, u # s PROVE (PhaseInv(u) /\ EventInv(u))'
    BY <1>3, <2>4 DEF PhaseInv, EventInv
  <2>5. Undisturbed
    BY <1>1, <1>3 DEF PhaseInv, Undisturbed
  <2> QED BY <2>2, <2>3, <2>4, <2>5
<1>4. CASE UNCHANGED <<struct, tpc, history>>
  BY <1>4 DEF history, PhaseInv, EventInv, Undisturbed
<1> QED BY <1>2, <1>3, <1>4 DEF RequestCancel

(* What the thread itself does to the fields. *)
LEMMA FieldStep ==
  ASSUME NEW s \in Slots, NEW r \in Structs, SlotInv, UNCHANGED claimed,
         SetCancelability(s, r),
         \/ r = [struct[s] EXCEPT !.enabled = r.enabled]
         \/ r = [struct[s] EXCEPT !.async = r.async]
  PROVE  SlotInv' /\ Undisturbed
<1> USE DEF SlotInv, SlotTypes, Structs, Phases, NoThread, Canceled
<1>1. PhaseInv(s) /\ EventInv(s)
  OBVIOUS
<1>2. /\ r.x = struct[s].x /\ r.detached = struct[s].detached
      /\ r.state = struct[s].state /\ r.event = struct[s].event
  OBVIOUS
<1>3. CASE r.enabled /\ r.async /\ r.event
  <2> DEFINE q == [Canceled(r) EXCEPT !.event = FALSE]
  <2>1. q \in Structs /\ struct' = [struct EXCEPT ![s] = q] /\ Throw(s)
    BY <1>3 DEF SetCancelability
  <2>2. acted[s] \in {0, 1}
    BY <1>1, <1>2, <1>3 DEF PhaseInv, EventInv
  <2>3. SlotTypes'
    BY <2>1, <2>2 DEF Throw, SetCancelability
  <2>4. (PhaseInv(s) /\ EventInv(s))'
    BY <1>1, <1>2, <1>3, <2>1, <2>2, <2>3 DEF PhaseInv, EventInv, Throw, SetCancelability
  <2>5. ASSUME NEW u \in Slots, u # s PROVE (PhaseInv(u) /\ EventInv(u))'
    BY <2>1, <2>5 DEF PhaseInv, EventInv, Throw, SetCancelability
  <2>6. Undisturbed
    BY <1>1, <1>2, <2>1 DEF PhaseInv, Undisturbed, Throw, SetCancelability
  <2> QED BY <2>3, <2>4, <2>5, <2>6
<1>4. CASE ~(r.enabled /\ r.async /\ r.event)
  <2>1. struct' = [struct EXCEPT ![s] = r] /\ UNCHANGED <<tpc, acted>>
    BY <1>4 DEF SetCancelability
  <2>2. SlotTypes'
    BY <2>1 DEF SetCancelability
  <2>3. (PhaseInv(s) /\ EventInv(s))'
    BY <1>1, <1>2, <1>4, <2>1, <2>2 DEF PhaseInv, EventInv, SetCancelability
  <2>4. ASSUME NEW u \in Slots, u # s PROVE (PhaseInv(u) /\ EventInv(u))'
    BY <2>1, <2>4 DEF PhaseInv, EventInv, SetCancelability
  <2>5. Undisturbed
    BY <1>1, <1>2, <2>1 DEF PhaseInv, Undisturbed
  <2> QED BY <2>2, <2>3, <2>4, <2>5
<1> QED BY <1>3, <1>4

(* A step in which the thread acts on a request found in its own fields. *)
LEMMA ActStep ==
  ASSUME NEW s \in Slots, SlotInv, UNCHANGED claimed,
         TestCancel(s) \/ ActOnWake(s)
  PROVE  SlotInv' /\ Undisturbed
<1> USE DEF SlotInv, SlotTypes, Structs, Phases, NoThread, Canceled
<1>1. PhaseInv(s) /\ EventInv(s)
  OBVIOUS
<1>2. acted[s] = 0
  BY <1>1 DEF PhaseInv, TestCancel, ActOnWake
<1>3. CASE TestCancel(s)
  <2> DEFINE q == [Canceled(struct[s]) EXCEPT !.event = FALSE]
  <2>1. q \in Structs /\ struct' = [struct EXCEPT ![s] = q]
    BY <1>3 DEF TestCancel
  <2>2. SlotTypes'
    BY <1>2, <1>3, <2>1 DEF TestCancel, Throw
  <2>3. (PhaseInv(s) /\ EventInv(s))'
    BY <1>1, <1>2, <1>3, <2>1, <2>2 DEF TestCancel, PhaseInv, EventInv, Throw
  <2>4. ASSUME NEW u \in Slots, u # s PROVE (PhaseInv(u) /\ EventInv(u))'
    BY <1>3, <2>1, <2>4 DEF TestCancel, PhaseInv, EventInv, Throw
  <2>5. Undisturbed
    BY <1>1, <1>3, <2>1 DEF TestCancel, PhaseInv, Undisturbed, Throw
  <2> QED BY <2>2, <2>3, <2>4, <2>5
<1>4. CASE ActOnWake(s)
  <2> DEFINE q == Canceled(struct[s])
  <2>0. struct[s] \in Structs
    BY DEF SlotInv, SlotTypes
  <2>b. q \in Structs
    <3>1. ASSUME NEW r \in Structs PROVE Canceled(r) \in Structs
      BY <3>1
    <3> QED BY <2>0, <3>1 DEF Structs, Canceled
  <2>a. struct[s].state < Canceling
    BY <1>1, <1>4 DEF ActOnWake, PhaseInv
  <2>1. /\ q \in Structs /\ struct' = [struct EXCEPT ![s] = q]
        /\ Throw(s)
    BY <1>4, <2>b, <2>a DEF ActOnWake
  <2>2. SlotTypes'
    BY <1>2, <1>4, <2>1 DEF ActOnWake, Throw
  <2>c. /\ struct'[s].x = struct[s].x /\ struct'[s].detached = struct[s].detached
        /\ struct'[s].state = Canceling /\ struct'[s].event = struct[s].event
        /\ ~struct'[s].enabled
    BY <2>0, <2>1
  <2>d. tpc'[s] = "exit" /\ acted'[s] = 1 /\ UNCHANGED <<requested, early>>
    BY <1>2, <1>4, <2>1 DEF ActOnWake, Throw
  <2>3. (PhaseInv(s) /\ EventInv(s))'
    <3>1. PhaseInv(s)'
      BY <2>c, <2>d DEF PhaseInv
    <3>2. struct[s].event => early[s]
      BY <1>1, <1>4 DEF ActOnWake, EventInv
    <3>3. EventInv(s)'
      BY <2>c, <2>d, <3>2 DEF EventInv
    <3> QED BY <3>1, <3>3
  <2>4. ASSUME NEW u \in Slots, u # s PROVE (PhaseInv(u) /\ EventInv(u))'
    BY <1>4, <2>1, <2>4 DEF ActOnWake, PhaseInv, EventInv, Throw
  <2>5. Undisturbed
    BY <1>1, <1>4, <2>1 DEF ActOnWake, PhaseInv, Undisturbed, Throw
  <2> QED BY <2>2, <2>3, <2>4, <2>5
<1> QED BY <1>3, <1>4

(* The other steps of a thread, up to its last. *)
LEMMA PhaseStep ==
  ASSUME NEW s \in Slots, SlotInv, UNCHANGED claimed,
         \/ Start(s) \/ EnterWait(s) \/ EndWait(s) \/ WakeByCancel(s) \/ Exit(s)
         \/ SetLast(s)
  PROVE  SlotInv' /\ Undisturbed
<1> USE DEF SlotInv, SlotTypes, Structs, Phases, NoThread, Goto, history
<1>1. PhaseInv(s) /\ EventInv(s)
  OBVIOUS
<1>2. CASE EnterWait(s) \/ EndWait(s) \/ Exit(s)
  <2>1. SlotTypes' /\ Undisturbed
    BY <1>1, <1>2 DEF EnterWait, EndWait, Exit, Undisturbed
  <2>2. (PhaseInv(s) /\ EventInv(s))'
    BY <1>1, <1>2 DEF EnterWait, EndWait, Exit, PhaseInv, EventInv
  <2>3. ASSUME NEW u \in Slots, u # s PROVE (PhaseInv(u) /\ EventInv(u))'
    BY <1>2, <2>3 DEF EnterWait, EndWait, Exit, PhaseInv, EventInv
  <2> QED BY <2>1, <2>2, <2>3
<1>3. CASE Start(s) \/ WakeByCancel(s) \/ SetLast(s)
  <2>1. SlotTypes'
    <3>1. /\ [struct[s] EXCEPT !.state = Running] \in Structs
          /\ [struct[s] EXCEPT !.state = Last] \in Structs
          /\ [struct[s] EXCEPT !.event = FALSE] \in Structs
      OBVIOUS
    <3>2. struct' \in [Slots -> Structs]
      BY <1>3, <3>1 DEF Start, WakeByCancel, SetLast
    <3>3. tpc' \in [Slots -> Phases]
      BY <1>3 DEF Start, WakeByCancel, SetLast
    <3>4. /\ requested' \in [Slots -> BOOLEAN] /\ early' \in [Slots -> BOOLEAN]
          /\ acted' \in [Slots -> 0..2]
      <4>1. CASE Start(s) \/ WakeByCancel(s)
        BY <4>1 DEF Start, WakeByCancel
      <4>2. CASE SetLast(s)
        BY <4>2 DEF SetLast, Forget
      <4> QED BY <1>3, <4>1, <4>2
    <3> QED BY <3>2, <3>3, <3>4
  <2>2. (PhaseInv(s) /\ EventInv(s))'
    BY <1>1, <1>3, <2>1 DEF Start, WakeByCancel, SetLast, Forget, PhaseInv, EventInv
  <2>3. ASSUME NEW u \in Slots, u # s PROVE (PhaseInv(u) /\ EventInv(u))'
    BY <1>3, <2>3 DEF Start, WakeByCancel, SetLast, Forget, PhaseInv, EventInv
  <2>4. Undisturbed
    BY <1>1, <1>3 DEF Start, WakeByCancel, SetLast, PhaseInv, Undisturbed
  <2> QED BY <2>1, <2>2, <2>3, <2>4
<1> QED BY <1>2, <1>3

(* Such a step leaves alone a client that goes on with what it does.        *)
LEMMA QuietClient ==
  ASSUME ThreadInv, Undisturbed, NEW c \in Clients,
         cpc'[c] = cpc[c], target'[c] = target[c],
         cpc[c] # "idle" => claimed'[target[c][1]] = claimed[target[c][1]]
  PROVE  ClientInv(c)'
<1>1. CASE cpc[c] = "idle"
  BY <1>1 DEF ThreadInv, ClientInv
<1>2. CASE cpc[c] # "idle"
  <2>1. ClientInv(c) /\ target[c] \in Slots \X Nat
    BY <1>2 DEF ThreadInv, TypeOK, ClientInv
  <2>2. target[c][1] \in Slots
    BY <2>1
  <2> QED BY <1>2, <2>1, <2>2 DEF ClientInv, Undisturbed, Live
<1> QED BY <1>1, <1>2

(* It leaves alone what is said of clients and of the reuse list.  *)
LEMMA QuietStep ==
  ASSUME ThreadInv, SlotInv', Undisturbed, UNCHANGED <<free, clientVars, claimed>>
  PROVE  ThreadInv'
<1> USE DEF ThreadInv, TypeOK, SlotInv, SlotTypes, clientVars
<1>1. TypeOK'
  OBVIOUS
<1>2. ASSUME NEW c \in Clients PROVE ClientInv(c)'
  BY QuietClient
<1>3. ClaimInv'
  <2>1. ASSUME NEW s \in Slots, claimed[s]
        PROVE  struct'[s].detached \/ \E c \in Clients : target[c] = <<s, struct'[s].x>>
    <3>1. struct'[s].detached = struct[s].detached /\ struct'[s].x = struct[s].x
      BY DEF Undisturbed
    <3>2. CASE struct[s].detached
      BY <3>1, <3>2
    <3>3. CASE \E c \in Clients : target[c] = <<s, struct[s].x>>
      BY <3>1, <3>3
    <3> QED BY <2>1, <3>2, <3>3 DEF ClaimInv
  <2> QED BY <2>1 DEF ClaimInv
<1>4. FreeInv'
  BY DEF FreeInv, Undisturbed
<1> QED BY <1>1, <1>2, <1>3, <1>4

(***************************************************************************)
(* The steps that move a structure.                                        *)
(***************************************************************************)
(* Who is not on the list is not put there twice.                           *)
LEMMA AppendFree ==
  ASSUME NEW s \in Slots, FreeInv, free \in Seq(Slots), tpc \in [Slots -> Phases],
         tpc[s] # "free",
         free' = Append(free, s), tpc' = [tpc EXCEPT ![s] = "free"]
  PROVE  FreeInv' /\ free' \in Seq(Slots)
<1>1. /\ free' \in Seq(Slots) /\ Len(free') = Len(free) + 1
      /\ \A i \in 1..Len(free) : free'[i] = free[i]
      /\ free'[Len(free) + 1] = s
      /\ Len(free) \in Nat
  OBVIOUS
<1>2. \A i \in 1..Len(free) : free[i] # s
  BY DEF FreeInv
<1>3. ASSUME NEW u \in Slots
      PROVE  tpc'[u] = "free" <=> \E i \in 1..Len(free') : free'[i] = u
  <2>1. CASE u = s
    BY <1>1, <2>1
  <2>2. CASE u # s
    <3>1. tpc'[u] = "free" <=> \E i \in 1..Len(free) : free[i] = u
      BY <2>2 DEF FreeInv
    <3>2. ASSUME NEW i \in 1..Len(free'), free'[i] = u
          PROVE  i \in 1..Len(free) /\ free[i] = u
      BY <1>1, <2>2, <3>2
    <3>3. ASSUME NEW i \in 1..Len(free), free[i] = u
          PROVE  i \in 1..Len(free') /\ free'[i] = u
      BY <1>1, <3>3
    <3> QED BY <3>1, <3>2, <3>3
  <2> QED BY <2>1, <2>2
<1>4. ASSUME NEW i \in 1..Len(free'), NEW j \in 1..Len(free'), free'[i] = free'[j]
      PROVE  i = j
  <2>1. CASE i \in 1..Len(free) /\ j \in 1..Len(free)
    BY <1>1, <1>4, <2>1 DEF FreeInv
  <2>2. CASE i \notin 1..Len(free) \/ j \notin 1..Len(free)
    BY <1>1, <1>2, <1>4, <2>2
  <2> QED BY <2>1, <2>2
<1> QED BY <1>1, <1>3, <1>4 DEF FreeInv

(* The structure at the top is the only one that leaves.                    *)
LEMMA PopFree ==
  ASSUME NEW s \in Slots, FreeInv, free \in Seq(Slots), tpc \in [Slots -> Phases],
         free # << >>, s = Head(free),
         free' = Tail(free), tpc' = [tpc EXCEPT ![s] = "created"]
  PROVE  FreeInv' /\ free' \in Seq(Slots) /\ tpc[s] = "free"
<1>1. /\ free' \in Seq(Slots) /\ Len(free) \in Nat \ {0}
      /\ Len(free') = Len(free) - 1
      /\ \A i \in 1..Len(free') : free'[i] = free[i + 1]
      /\ free[1] = s
  OBVIOUS
<1>2. tpc[s] = "free"
  BY <1>1 DEF FreeInv
<1>3. ASSUME NEW u \in Slots
      PROVE  tpc'[u] = "free" <=> \E i \in 1..Len(free') : free'[i] = u
  <2>1. CASE u = s
    <3>1. \A i \in 1..Len(free') : free'[i] # s
      BY <1>1 DEF FreeInv
    <3> QED BY <2>1, <3>1
  <2>2. CASE u # s
    <3>1. tpc'[u] = "free" <=> \E i \in 1..Len(free) : free[i] = u
      BY <2>2 DEF FreeInv
    <3>2. ASSUME NEW i \in 1..Len(free), free[i] = u
          PROVE  i - 1 \in 1..Len(free') /\ free'[i - 1] = u
      BY <1>1, <2>2, <3>2
    <3>3. ASSUME NEW i \in 1..Len(free'), free'[i] = u
          PROVE  i + 1 \in 1..Len(free) /\ free[i + 1] = u
      BY <1>1, <3>3
    <3> QED BY <3>1, <3>2, <3>3
  <2> QED BY <2>1, <2>2
<1>4. ASSUME NEW i \in 1..Len(free'), NEW j \in 1..Len(free'), free'[i] = free'[j]
      PROVE  i = j
  <2>1. i + 1 \in 1..Len(free) /\ j + 1 \in 1..Len(free) /\ free[i + 1] = free[j + 1]
    BY <1>1, <1>4
  <2>2. i + 1 = j + 1
    BY <2>1 DEF FreeInv
  <2> QED BY <2>2
<1> QED BY <1>1, <1>2, <1>3, <1>4 DEF FreeInv

(* The clients other than c are left to what they were doing. *)
LEMMA WorkTypes ==
  ASSUME TypeOK, NEW c \in Clients, NEW what \in {"idle", "cancel", "join", "destroy"},
         NEW h \in (Slots \X Nat) \cup {NoHandle}, Work(c, what, h)
  PROVE  /\ cpc' \in [Clients -> {"idle", "cancel", "join", "destroy"}]
         /\ target' \in [Clients -> (Slots \X Nat) \cup {NoHandle}]
         /\ cpc'[c] = what /\ target'[c] = h
         /\ \A d \in Clients \ {c} : cpc'[d] = cpc[d] /\ target'[d] = target[d]
BY DEF TypeOK, Work

(* A structure goes back to the list when no client but c works on it. *)
LEMMA DestroyStep ==
  ASSUME ThreadInv, NEW s \in Slots, tpc[s] \in {"last", "ended"}, Destroy(s),
         cpc' \in [Clients -> {"idle", "cancel", "join", "destroy"}],
         target' \in [Clients -> (Slots \X Nat) \cup {NoHandle}],
         \A d \in Clients :
           \/ cpc'[d] = "idle" /\ target'[d] = NoHandle
           \/ cpc'[d] = cpc[d] /\ target'[d] = target[d] /\ target[d][1] # s,
         \A d \in Clients : target'[d] # target[d] => target[d][1] = s
  PROVE  ThreadInv'
<1> USE DEF ThreadInv, TypeOK, SlotInv, SlotTypes, Phases, NoThread, history
<1>1. /\ struct[s].x \in Nat /\ PhaseInv(s) /\ EventInv(s)
      /\ tpc[s] # "free"
  BY DEF Structs
<1>2. /\ struct' = [struct EXCEPT ![s] = Wiped(struct[s].x + 1)]
      /\ free' = Append(free, s)
      /\ tpc' = [tpc EXCEPT ![s] = "free"]
      /\ claimed' = [claimed EXCEPT ![s] = FALSE]
      /\ UNCHANGED <<requested, early, acted>>
  BY DEF Destroy
<1>3. Wiped(struct[s].x + 1) \in Structs
  BY <1>1 DEF Wiped, Structs
<1>4. SlotTypes'
  BY <1>2, <1>3
<1>5. FreeInv' /\ free' \in Seq(Slots)
  BY <1>1, <1>2, AppendFree
<1>6. (PhaseInv(s) /\ EventInv(s))'
  BY <1>1, <1>2, <1>4 DEF PhaseInv, EventInv, Wiped
<1>7. ASSUME NEW u \in Slots, u # s PROVE (PhaseInv(u) /\ EventInv(u))'
  BY <1>2, <1>7 DEF PhaseInv, EventInv
<1>8. ASSUME NEW d \in Clients PROVE ClientInv(d)'
  <2>1. CASE cpc'[d] = "idle" /\ target'[d] = NoHandle
    BY <2>1 DEF ClientInv
  <2>2. CASE cpc'[d] = cpc[d] /\ target'[d] = target[d] /\ target[d][1] # s
    <3>1. CASE cpc[d] = "idle"
      BY <2>2, <3>1 DEF ClientInv
    <3>2. CASE cpc[d] # "idle"
      <4>1. ClientInv(d) /\ target[d] \in Slots \X Nat
        BY <3>2 DEF ClientInv
      <4>2. /\ struct'[target[d][1]] = struct[target[d][1]]
            /\ tpc'[target[d][1]] = tpc[target[d][1]]
            /\ claimed'[target[d][1]] = claimed[target[d][1]]
        BY <1>2, <2>2, <4>1
      <4> QED BY <2>2, <3>2, <4>1, <4>2 DEF ClientInv, Live
    <3> QED BY <3>1, <3>2
  <2> QED BY <2>1, <2>2
<1>9. ClaimInv'
  <2>1. ASSUME NEW c \in Clients, NEW d \in Clients,
               cpc'[c] \in {"join", "destroy"}, target'[d] = target'[c]
        PROVE  d = c
    <3>1. cpc'[c] = cpc[c] /\ target'[c] = target[c] /\ target[c] # NoHandle
      BY <2>1 DEF ClientInv
    <3>2. target'[d] = target[d]
      BY <2>1, <3>1
    <3> QED BY <2>1, <3>1, <3>2 DEF ClaimInv
  <2>2. ASSUME NEW u \in Slots, claimed'[u]
        PROVE  struct'[u].detached \/ \E c \in Clients : target'[c] = <<u, struct'[u].x>>
    <3>1. u # s /\ claimed[u] /\ struct'[u] = struct[u]
      BY <1>2, <2>2
    <3>2. ASSUME NEW c \in Clients, target[c] = <<u, struct[u].x>>
          PROVE  target'[c] = target[c]
      BY <3>1, <3>2
    <3>3. CASE struct[u].detached
      BY <3>1, <3>3
    <3>4. CASE \E c \in Clients : target[c] = <<u, struct[u].x>>
      BY <3>1, <3>2, <3>4
    <3> QED BY <3>1, <3>3, <3>4 DEF ClaimInv
  <2> QED BY <2>1, <2>2 DEF ClaimInv
<1> QED BY <1>4, <1>5, <1>6, <1>7, <1>8, <1>9

LEMMA SameClient ==
  ASSUME ThreadInv, NEW d \in Clients, cpc'[d] = cpc[d], target'[d] = target[d],
         cpc[d] # "idle" => /\ struct'[target[d][1]] = struct[target[d][1]]
                            /\ tpc'[target[d][1]] = tpc[target[d][1]]
                            /\ claimed'[target[d][1]] = claimed[target[d][1]]
  PROVE  ClientInv(d)'
<1>1. ClientInv(d)
  BY DEF ThreadInv
<1>2. CASE cpc[d] = "idle"
  BY <1>1, <1>2 DEF ClientInv
<1>3. CASE cpc[d] # "idle"
  BY <1>1, <1>3 DEF ClientInv, Live, NoThread
<1> QED BY <1>2, <1>3

(* A structure without a thread has no client. *)
LEMMA TargetsLive ==
  ASSUME ThreadInv, NEW d \in Clients, cpc[d] # "idle"
  PROVE  /\ target[d] \in Slots \X Nat
         /\ target[d][1] \in Slots
         /\ tpc[target[d][1]] \notin NoThread
         /\ target[d] = <<target[d][1], struct[target[d][1]].x>>
<1>1. ClientInv(d) /\ target[d] \in Slots \X Nat
  BY DEF ThreadInv, TypeOK, ClientInv
<1> QED BY <1>1 DEF ClientInv, Live

LEMMA CreateStep ==
  ASSUME ThreadInv, NEW detached \in BOOLEAN, Create(detached)
  PROVE  ThreadInv'
<1> USE DEF ThreadInv, TypeOK, SlotInv, SlotTypes, Phases, history, clientVars
<1>1. PICK s \in Slots :
        /\ IF free = << >> THEN tpc[s] = "unborn" /\ UNCHANGED free
                           ELSE s = Head(free) /\ free' = Tail(free)
        /\ tpc' = [tpc EXCEPT ![s] = "created"]
        /\ struct' = [struct EXCEPT ![s] = [Wiped(struct[s].x) EXCEPT
                                              !.async = FALSE, !.detached = detached]]
        /\ UNCHANGED <<cpc, target, claimed, requested, early, acted>>
  BY DEF Create, Goto
<1>2. FreeInv' /\ free' \in Seq(Slots) /\ tpc[s] \in NoThread
  <2>1. CASE free = << >>
    <3>1. tpc[s] = "unborn" /\ free' = free
      BY <1>1, <2>1
    <3>2. \A u \in Slots : tpc'[u] = "free" <=> tpc[u] = "free"
      BY <1>1, <3>1
    <3> QED BY <3>1, <3>2 DEF FreeInv, NoThread
  <2>2. CASE free # << >>
    BY <1>1, <2>2, PopFree DEF NoThread
  <2> QED BY <2>1, <2>2
<1> DEFINE q == [Wiped(struct[s].x) EXCEPT !.async = FALSE, !.detached = detached]
<1>3. PhaseInv(s) /\ EventInv(s) /\ struct[s].x \in Nat
  BY DEF Structs
<1>4. /\ q \in Structs
      /\ q.x = struct[s].x /\ q.state = Initial
      /\ ~q.event /\ ~q.async
  BY <1>3 DEF Wiped, Structs
<1>5. SlotTypes' /\ struct'[s] = q
  BY <1>1, <1>4
<1>6. (PhaseInv(s) /\ EventInv(s))'
  BY <1>1, <1>2, <1>3, <1>4, <1>5 DEF PhaseInv, EventInv, NoThread
<1>7. ASSUME NEW u \in Slots, u # s PROVE (PhaseInv(u) /\ EventInv(u))'
  BY <1>1, <1>7 DEF PhaseInv, EventInv
<1>8. ASSUME NEW d \in Clients PROVE ClientInv(d)'
  <2>1. cpc[d] # "idle" => target[d][1] # s /\ target[d][1] \in Slots
    BY <1>2, TargetsLive
  <2> QED BY <1>1, <2>1, SameClient
<1>9. ClaimInv'
  <2>1. ASSUME NEW u \in Slots, claimed[u]
        PROVE  struct'[u].detached \/ \E c \in Clients : target[c] = <<u, struct'[u].x>>
    <3>1. u # s
      BY <1>2, <1>3, <2>1 DEF PhaseInv
    <3>2. struct'[u] = struct[u]
      BY <1>1, <3>1
    <3> QED BY <2>1, <3>2 DEF ClaimInv
  <2> QED BY <1>1, <2>1 DEF ClaimInv
<1> QED BY <1>2, <1>5, <1>6, <1>7, <1>8, <1>9, <1>1

LEMMA EndStep ==
  ASSUME ThreadInv, NEW s \in Slots, End(s)
  PROVE  ThreadInv'
<1>1. CASE struct[s].detached /\ Destroy(s) /\ UNCHANGED clientVars
  <2>1. ASSUME NEW d \in Clients PROVE cpc[d] = "idle" \/ target[d][1] # s
    BY <1>1 DEF ThreadInv, ClientInv
  <2>2. ASSUME NEW d \in Clients
        PROVE  \/ cpc'[d] = "idle" /\ target'[d] = NoHandle
               \/ cpc'[d] = cpc[d] /\ target'[d] = target[d] /\ target[d][1] # s
    BY <1>1, <2>1 DEF ThreadInv, ClientInv, clientVars
  <2> QED BY <1>1, <2>2, DestroyStep DEF End, clientVars, ThreadInv, TypeOK
<1>2. CASE /\ ~struct[s].detached
           /\ Goto(s, "last", "ended")
           /\ UNCHANGED <<struct, free, claimed, history>>
           /\ UNCHANGED clientVars
  <2> USE DEF ThreadInv, SlotInv, SlotTypes, Goto, history, Phases
  <2>1. SlotTypes'
    BY <1>2
  <2>2. (PhaseInv(s) /\ EventInv(s))'
    BY <1>2 DEF PhaseInv, EventInv, NoThread
  <2>3. ASSUME NEW u \in Slots, u # s PROVE (PhaseInv(u) /\ EventInv(u))'
    BY <1>2, <2>3 DEF PhaseInv, EventInv, NoThread
  <2>4. Undisturbed
    BY <1>2 DEF Undisturbed, NoThread
  <2>5. SlotInv'
    BY <2>1, <2>2, <2>3
  <2> QED BY ONLY <1>2, <2>4, <2>5, ThreadInv, QuietStep
<1> QED BY <1>1, <1>2 DEF End

(***************************************************************************)
(* The steps of clients.                                                   *)
(***************************************************************************)
(* A client begins or goes on to work on the thread of a live handle.       *)
LEMMA WorkStep ==
  ASSUME ThreadInv, NEW c \in Clients, NEW h \in Slots \X Nat,
         NEW what \in {"cancel", "join", "destroy"}, Work(c, what, h),
         UNCHANGED <<struct, free, tpc, history>>,
         Live(h), ~struct[h[1]].detached,
         claimed' \in [Slots -> BOOLEAN],
         claimed'[h[1]] <=> what # "cancel",
         \A u \in Slots \ {h[1]} : claimed'[u] = claimed[u],
         \A d \in Clients \ {c} : target[d] = h => what = "cancel" /\ ~claimed[h[1]],
         what = "destroy" => struct[h[1]].state = Last,
         cpc[c] = "idle" \/ target[c] = h
  PROVE  ThreadInv'
<1> USE DEF ThreadInv, TypeOK, SlotInv, SlotTypes, history
<1> DEFINE s == h[1]
<1>1. /\ s \in Slots /\ h = <<s, struct[s].x>> /\ tpc[s] \notin NoThread
      /\ h # NoHandle
  BY HandleAssumption DEF Live
<1>2. /\ cpc' \in [Clients -> {"idle", "cancel", "join", "destroy"}]
      /\ target' \in [Clients -> (Slots \X Nat) \cup {NoHandle}]
      /\ cpc'[c] = what /\ target'[c] = h
      /\ \A d \in Clients \ {c} : cpc'[d] = cpc[d] /\ target'[d] = target[d]
  BY WorkTypes
<1>3. SlotInv'
  <2>1. ASSUME NEW u \in Slots PROVE (PhaseInv(u) /\ EventInv(u))'
    <3>1. tpc[u] \in NoThread => u # s
      BY <1>1
    <3>2. tpc[u] \in NoThread => ~claimed'[u]
      BY <3>1 DEF PhaseInv
    <3> QED BY <3>2 DEF PhaseInv, EventInv
  <2> QED BY <2>1
<1>4. ClientInv(c)'
  BY <1>1, <1>2 DEF ClientInv, Live, NoThread
<1>5. ASSUME NEW d \in Clients \ {c} PROVE ClientInv(d)'
  <2>1. cpc[d] # "idle" => claimed'[target[d][1]] = claimed[target[d][1]]
    <3>1. CASE cpc[d] # "idle" /\ target[d][1] = s
      <4>1. target[d] = h
        BY <1>1, <3>1, TargetsLive
      <4> QED BY <3>1, <4>1
    <3>2. CASE cpc[d] # "idle" /\ target[d][1] # s
      BY <3>2, TargetsLive
    <3> QED BY <3>1, <3>2
  <2> QED BY <1>2, <2>1, SameClient
<1>6. ClaimInv'
  <2>1. ASSUME NEW b \in Clients, NEW d \in Clients,
               cpc'[b] \in {"join", "destroy"}, target'[d] = target'[b]
        PROVE  d = b
    <3>1. CASE b = c
      BY <1>2, <2>1, <3>1
    <3>2. CASE b # c /\ d # c
      BY <1>2, <2>1, <3>2 DEF ClaimInv
    <3>3. CASE b # c /\ d = c
      <4>1. target[b] = h /\ cpc[b] \in {"join", "destroy"}
        BY <1>2, <2>1, <3>3
      <4> QED BY <3>3, <4>1 DEF ClientInv
    <3> QED BY <3>1, <3>2, <3>3
  <2>2. ASSUME NEW u \in Slots, claimed'[u]
        PROVE  struct[u].detached \/ \E e \in Clients : target'[e] = <<u, struct[u].x>>
    <3>1. CASE u = s
      BY <1>1, <1>2, <3>1
    <3>2. CASE u # s
      <4>1. struct[u].detached \/ \E e \in Clients : target[e] = <<u, struct[u].x>>
        BY <2>2, <3>2 DEF ClaimInv
      <4>2. ASSUME NEW e \in Clients, target[e] = <<u, struct[u].x>>
            PROVE  target'[e] = target[e]
        <5>1. target[e] # h /\ target[e] # NoHandle
          BY <1>1, <3>2, <4>2, HandleAssumption DEF Structs
        <5> QED BY <1>2, <5>1 DEF ClientInv
      <4>3. CASE struct[u].detached
        BY <4>3
      <4>4. CASE \E e \in Clients : target[e] = <<u, struct[u].x>>
        BY <4>2, <4>4
      <4> QED BY <4>1, <4>3, <4>4
    <3> QED BY <3>1, <3>2
  <2> QED BY <2>1, <2>2 DEF ClaimInv
<1>7. FreeInv'
  BY DEF FreeInv
<1> QED BY <1>2, <1>3, <1>4, <1>5, <1>6, <1>7

(* A client returns from pthread_cancel, or is cancelled in pthread_join.   *)
LEMMA ReturnStep ==
  ASSUME ThreadInv, SlotInv', Undisturbed, UNCHANGED free,
         NEW c \in Clients, Return(c), cpc[c] \in {"cancel", "join"},
         ~claimed'[target[c][1]],
         \A u \in Slots \ {target[c][1]} : claimed'[u] = claimed[u]
  PROVE  ThreadInv'
<1> USE DEF ThreadInv, TypeOK, SlotInv, SlotTypes
<1> DEFINE s == target[c][1]
<1>1. /\ s \in Slots /\ target[c] = <<s, struct[s].x>>
      /\ ClientInv(c)
  BY TargetsLive
<1>2. /\ cpc' \in [Clients -> {"idle", "cancel", "join", "destroy"}]
      /\ target' \in [Clients -> (Slots \X Nat) \cup {NoHandle}]
      /\ cpc'[c] = "idle" /\ target'[c] = NoHandle
      /\ \A d \in Clients \ {c} : cpc'[d] = cpc[d] /\ target'[d] = target[d]
  BY WorkTypes DEF Return
<1>3. ClientInv(c)'
  BY <1>2 DEF ClientInv
<1>4. ASSUME NEW d \in Clients \ {c} PROVE ClientInv(d)'
  <2>1. cpc[d] # "idle" => claimed'[target[d][1]] = claimed[target[d][1]]
    <3>1. CASE cpc[d] # "idle" /\ target[d][1] = s
      <4>1. target[d] = target[c]
        BY <1>1, <3>1, TargetsLive
      <4>2. cpc[c] = "cancel"
        BY <4>1 DEF ClaimInv
      <4>3. ~claimed[s]
        BY <1>1, <4>2 DEF ClientInv
      <4> QED BY <3>1, <4>3, <1>1
    <3>2. CASE cpc[d] # "idle" /\ target[d][1] # s
      BY <3>2, TargetsLive
    <3> QED BY <3>1, <3>2
  <2> QED BY <1>2, <2>1, QuietClient
<1>5. ClaimInv'
  <2>1. ASSUME NEW b \in Clients, NEW d \in Clients,
               cpc'[b] \in {"join", "destroy"}, target'[d] = target'[b]
        PROVE  d = b
    <3>1. b # c /\ cpc[b] = cpc'[b] /\ target'[b] = target[b] /\ target[b] # NoHandle
      BY <1>2, <2>1 DEF ClientInv
    <3>2. d # c /\ target'[d] = target[d]
      BY <1>2, <2>1, <3>1
    <3> QED BY <2>1, <3>1, <3>2 DEF ClaimInv
  <2>2. ASSUME NEW u \in Slots, claimed'[u]
        PROVE  struct'[u].detached \/ \E e \in Clients : target'[e] = <<u, struct'[u].x>>
    <3>1. u # s /\ claimed[u]
      BY <2>2
    <3>2. struct'[u].detached = struct[u].detached /\ struct'[u].x = struct[u].x
      BY DEF Undisturbed
    <3>3. CASE struct[u].detached
      BY <3>2, <3>3
    <3>4. CASE \E e \in Clients : target[e] = <<u, struct[u].x>>
      <4>1. PICK e \in Clients : target[e] = <<u, struct[u].x>>
        BY <3>4
      <4>2. e # c
        BY <1>1, <3>1, <4>1
      <4> QED BY <1>2, <3>2, <4>1, <4>2
    <3> QED BY <3>1, <3>3, <3>4 DEF ClaimInv
  <2> QED BY <2>1, <2>2 DEF ClaimInv
<1>6. FreeInv'
  BY DEF FreeInv, Undisturbed
<1> QED BY <1>2, <1>3, <1>4, <1>5, <1>6

(* pthread_detach leaves the structure to a thread that is not Last.        *)
LEMMA MarkStep ==
  ASSUME ThreadInv, NEW c \in Clients, NEW h \in Slots \X Nat, Live(h), Claim(h),
         Idle(c), Return(c),
         struct[h[1]].state # Last,
         struct' = [struct EXCEPT ![h[1]].detached = TRUE],
         UNCHANGED <<free, tpc, history>>
  PROVE  ThreadInv'
<1> USE DEF ThreadInv, TypeOK, SlotInv, SlotTypes, history, Phases, NoThread
<1> DEFINE s == h[1]
           q == [struct[s] EXCEPT !.detached = TRUE]
<1>1. /\ s \in Slots /\ h = <<s, struct[s].x>> /\ tpc[s] \notin NoThread
      /\ \A d \in Clients : target[d] # h
      /\ claimed' = [claimed EXCEPT ![s] = TRUE]
  BY DEF Live, Claim
<1>2. /\ cpc' \in [Clients -> {"idle", "cancel", "join", "destroy"}]
      /\ target' \in [Clients -> (Slots \X Nat) \cup {NoHandle}]
      /\ \A d \in Clients : cpc'[d] = cpc[d] /\ target'[d] = target[d]
  BY WorkTypes DEF Return, Idle, ClientInv
<1>3. q \in Structs
  <2>1. struct[s] \in Structs
    BY <1>1
  <2> QED BY ONLY <2>1 DEF Structs
<1>4. SlotTypes'
  BY <1>1, <1>3
<1>5. struct'[s] = q
  BY <1>1
<1>6. (PhaseInv(s) /\ EventInv(s))'
  <2>1. PhaseInv(s) /\ EventInv(s) /\ struct[s] \in Structs
    BY <1>1
  <2>2. /\ q.x = struct[s].x /\ q.state = struct[s].state /\ q.enabled = struct[s].enabled
        /\ q.async = struct[s].async /\ q.event = struct[s].event
    BY <2>1 DEF Structs
  <2>3. tpc[s] # "ended"
    BY <2>1 DEF PhaseInv
  <2> QED BY <1>1, <1>4, <1>5, <2>1, <2>2, <2>3 DEF PhaseInv, EventInv
<1>7. ASSUME NEW u \in Slots, u # s
      PROVE  /\ (PhaseInv(u) /\ EventInv(u))'
             /\ struct'[u] = struct[u] /\ claimed'[u] = claimed[u]
  BY <1>1, <1>7 DEF PhaseInv, EventInv
<1>8. ASSUME NEW d \in Clients PROVE ClientInv(d)'
  <2>1. cpc[d] # "idle" => target[d][1] # s /\ target[d][1] \in Slots
    BY <1>1, TargetsLive
  <2> QED BY <1>2, <1>7, <2>1, SameClient
<1>9. ClaimInv'
  <2>1. ASSUME NEW u \in Slots, claimed'[u]
        PROVE  struct'[u].detached \/ \E e \in Clients : target'[e] = <<u, struct'[u].x>>
    <3>1. CASE u = s
      BY <1>3, <1>5, <3>1 DEF Structs
    <3>2. CASE u # s
      <4>1. claimed[u] /\ struct'[u] = struct[u]
        BY <1>7, <2>1, <3>2
      <4>2. CASE struct[u].detached
        BY <4>1, <4>2
      <4>3. CASE \E e \in Clients : target[e] = <<u, struct[u].x>>
        BY <1>2, <4>1, <4>3
      <4> QED BY <4>1, <4>2, <4>3 DEF ClaimInv
    <3> QED BY <3>1, <3>2
  <2>2. \A b, d \in Clients :
          cpc'[b] \in {"join", "destroy"} /\ target'[d] = target'[b] => d = b
    BY <1>2 DEF ClaimInv
  <2> QED BY <2>1, <2>2 DEF ClaimInv
<1>10. FreeInv'
  BY DEF FreeInv
<1> QED BY <1>2, <1>4, <1>6, <1>7, <1>8, <1>9, <1>10

LEMMA ThreadStep ==
  ASSUME ThreadInv, NEW s \in Slots, Step(s) \/ Choose(s)
  PROVE  ThreadInv'
<1> USE DEF ThreadInv
<1>1. CASE End(s)
  BY <1>1, EndStep
<1>2. ASSUME SlotInv' /\ Undisturbed /\ UNCHANGED <<free, clientVars, claimed>>
      PROVE  ThreadInv'
  BY ONLY ThreadInv, <1>2, QuietStep
<1>3. CASE SetCancelState(s) \/ SetCancelType(s)
  <2>1. PICK r \in Structs :
          /\ SetCancelability(s, r)
          /\ \/ r = [struct[s] EXCEPT !.enabled = r.enabled]
             \/ r = [struct[s] EXCEPT !.async = r.async]
    <3>1. struct[s] \in Structs
      BY DEF SlotInv, SlotTypes
    <3>2. ASSUME NEW b \in BOOLEAN
          PROVE  LET e == [struct[s] EXCEPT !.enabled = b]
                     a == [struct[s] EXCEPT !.async = b]
                 IN  /\ e \in Structs /\ e = [struct[s] EXCEPT !.enabled = e.enabled]
                     /\ a \in Structs /\ a = [struct[s] EXCEPT !.async = a.async]
      BY ONLY <3>1 DEF Structs
    <3>3. CASE SetCancelState(s)
      BY <3>2, <3>3 DEF SetCancelState
    <3>4. CASE SetCancelType(s)
      BY <3>2, <3>4 DEF SetCancelType
    <3> QED BY <1>3, <3>3, <3>4
  <2>2. UNCHANGED <<free, clientVars, claimed>>
    BY <2>1 DEF SetCancelability
  <2> QED BY <1>2, <2>1, <2>2, FieldStep
<1>4. CASE TestCancel(s) \/ ActOnWake(s)
  <2>1. UNCHANGED <<free, clientVars, claimed>>
    BY <1>4 DEF TestCancel, ActOnWake
  <2> QED BY <1>2, <1>4, <2>1, ActStep
<1>5. CASE CancelSelf(s)
  <2>1. UNCHANGED <<free, clientVars, claimed>> /\ tpc[s] \notin NoThread /\ RequestCancel(s)
    BY <1>5 DEF CancelSelf, NoThread
  <2> QED BY <1>2, <2>1, RequestStep
<1>6. CASE \/ Start(s) \/ EnterWait(s) \/ EndWait(s) \/ WakeByCancel(s) \/ Exit(s)
           \/ SetLast(s)
  <2>1. UNCHANGED <<free, clientVars, claimed>>
    BY <1>6 DEF Start, EnterWait, EndWait, WakeByCancel, Exit, SetLast
  <2> QED BY <1>2, <1>6, <2>1, PhaseStep
<1> QED BY <1>1, <1>3, <1>4, <1>5, <1>6 DEF Step, Choose

LEMMA ClientStep ==
  ASSUME ThreadInv, NEW c \in Clients, Finish(c) \/ CancelJoin(c)
  PROVE  ThreadInv'
<1> DEFINE h == target[c]
           s == target[c][1]
<1>1. cpc[c] # "idle"
  BY DEF Finish, CancelTarget, EndJoin, DestroyTarget, CancelJoin
<1>2. /\ h \in Slots \X Nat /\ s \in Slots /\ tpc[s] \notin NoThread
      /\ h = <<s, struct[s].x>>
  BY <1>1, TargetsLive
<1>3. ClientInv(c) /\ PhaseInv(s) /\ ClaimInv
      /\ claimed \in [Slots -> BOOLEAN] /\ target \in [Clients -> (Slots \X Nat) \cup {NoHandle}]
  BY <1>2 DEF ThreadInv, TypeOK, SlotInv
<1>4. CASE CancelTarget(c)
  <2>1. /\ RequestCancel(s) /\ UNCHANGED <<free, claimed>> /\ Return(c)
        /\ cpc[c] = "cancel" /\ ~claimed[s]
    BY <1>3, <1>4 DEF CancelTarget, ClientInv
  <2>2. SlotInv' /\ Undisturbed
    BY <1>2, <2>1, RequestStep DEF ThreadInv
  <2> QED BY <2>1, <2>2, ReturnStep
<1>5. CASE CancelJoin(c)
  <2>1. /\ UNCHANGED <<struct, free, tpc, history>> /\ Return(c) /\ cpc[c] = "join"
        /\ claimed' = [claimed EXCEPT ![s] = FALSE]
    BY <1>5 DEF CancelJoin
  <2>2. SlotInv'
    BY <1>2, <2>1 DEF ThreadInv, SlotInv, SlotTypes, history, PhaseInv, EventInv
  <2>3. Undisturbed
    BY <2>1 DEF Undisturbed
  <2> QED BY <1>2, <1>3, <2>1, <2>2, <2>3, ReturnStep
<1>6. CASE EndJoin(c)
  <2>1. /\ UNCHANGED <<struct, free, tpc, history>> /\ Work(c, "destroy", h)
        /\ cpc[c] = "join" /\ UNCHANGED claimed /\ struct[s].state = Last
    BY <1>2, <1>3, <1>6 DEF EndJoin, DetachThread, PhaseInv
  <2>2. Live(h) /\ ~struct[s].detached /\ claimed[s]
    BY <1>3, <2>1 DEF ClientInv
  <2>3. \A d \in Clients \ {c} : target[d] # h
    BY <1>3, <2>1 DEF ClaimInv
  <2> QED BY <1>2, <1>3, <2>1, <2>2, <2>3, WorkStep
<1>7. CASE DestroyTarget(c)
  <2>1. /\ cpc[c] = "destroy" /\ tpc[s] = "ended" /\ Destroy(s) /\ Return(c)
    BY <1>7 DEF DestroyTarget
  <2>2. /\ cpc' \in [Clients -> {"idle", "cancel", "join", "destroy"}]
        /\ target' \in [Clients -> (Slots \X Nat) \cup {NoHandle}]
        /\ cpc'[c] = "idle" /\ target'[c] = NoHandle
        /\ \A d \in Clients \ {c} : cpc'[d] = cpc[d] /\ target'[d] = target[d]
    BY <2>1, WorkTypes DEF Return, ThreadInv
  <2>3. ASSUME NEW d \in Clients \ {c}
        PROVE  \/ cpc'[d] = "idle" /\ target'[d] = NoHandle
               \/ cpc'[d] = cpc[d] /\ target'[d] = target[d] /\ target[d][1] # s
    <3>1. CASE cpc[d] = "idle"
      BY <2>2, <3>1 DEF ThreadInv, ClientInv
    <3>2. CASE cpc[d] # "idle"
      <4>1. target[d] # h
        BY <1>3, <2>1 DEF ClaimInv
      <4>2. target[d][1] # s
        BY <1>2, <3>2, <4>1, TargetsLive
      <4> QED BY <2>2, <4>2
    <3> QED BY <3>1, <3>2
  <2> QED BY <1>2, <2>1, <2>2, <2>3, DestroyStep
<1> QED BY <1>4, <1>5, <1>6, <1>7 DEF Finish

LEMMA HandleStep ==
  ASSUME ThreadInv, NEW c \in Clients, NEW h \in Issued,
         Cancel(c, h) \/ Detach(c, h) \/ Join(c, h)
  PROVE  ThreadInv' \/ UNCHANGED vars
<1>1. /\ h \in Slots \X Nat /\ h[1] \in Slots
      /\ ~Stale(h) => Live(h)
  BY ReuseAssumption DEF Issued, Stale, Live
<1>2. claimed \in [Slots -> BOOLEAN]
  BY DEF ThreadInv, TypeOK
<1>3. CASE Refused(h) /\ UNCHANGED vars
  BY <1>3
<1>4. CASE Cancel(c, h)
  <2>1. CASE UNCHANGED vars
    BY <2>1
  <2>2. CASE /\ ~Stale(h) /\ ~struct[h[1]].detached /\ ~claimed[h[1]]
             /\ Work(c, "cancel", h)
    BY <1>1, <1>2, <1>4, <2>2, WorkStep DEF Cancel, Idle
  <2> QED BY <1>4, <2>1, <2>2 DEF Cancel, vars, clientVars
<1>5. CASE Idle(c) /\ Claim(h) /\ DetachThread(c, h)
  <2>1. /\ ~struct[h[1]].detached /\ Live(h)
        /\ \A d \in Clients : target[d] # h
        /\ claimed' = [claimed EXCEPT ![h[1]] = TRUE]
    BY <1>1, <1>5 DEF Claim, Refused
  <2>2. CASE struct[h[1]].state # Last
    BY <1>1, <1>5, <2>1, <2>2, MarkStep DEF DetachThread
  <2>3. CASE struct[h[1]].state = Last
    <3>1. Work(c, "destroy", h) /\ UNCHANGED <<struct, free, tpc, history>>
      BY <1>5, <2>3 DEF DetachThread
    <3> QED BY <1>1, <1>2, <1>5, <2>1, <2>3, <3>1, WorkStep DEF Idle
  <2> QED BY <2>2, <2>3
<1>6. CASE /\ Idle(c) /\ Claim(h) /\ Work(c, "join", h)
           /\ UNCHANGED <<struct, free, tpc, history>>
  <2>1. /\ ~struct[h[1]].detached /\ Live(h)
        /\ \A d \in Clients : target[d] # h
        /\ claimed' = [claimed EXCEPT ![h[1]] = TRUE]
    BY <1>1, <1>6 DEF Claim, Refused
  <2> QED BY <1>1, <1>2, <1>6, <2>1, WorkStep DEF Idle
<1> QED BY <1>3, <1>4, <1>5, <1>6 DEF Detach, Join

LEMMA InitInv == Init => ThreadInv
<1> SUFFICES ASSUME Init PROVE ThreadInv
  OBVIOUS
<1> USE DEF Init, Wiped
<1>1. free \in Seq(Slots) /\ Len(free) = 0
  OBVIOUS
<1>2. SlotTypes
  BY ReuseAssumption DEF SlotTypes, Structs, Phases
<1>3. TypeOK
  BY <1>1, <1>2 DEF TypeOK, SlotTypes
<1>4. ASSUME NEW s \in Slots PROVE PhaseInv(s) /\ EventInv(s)
  BY DEF PhaseInv, EventInv, NoThread
<1>5. \A c \in Clients : ClientInv(c)
  BY DEF ClientInv
<1>6. ClaimInv /\ FreeInv
  BY <1>1 DEF ClaimInv, FreeInv
<1> QED BY <1>2, <1>3, <1>4, <1>5, <1>6 DEF ThreadInv, SlotInv

LEMMA InvUnchanged ==
  ASSUME ThreadInv, UNCHANGED vars
  PROVE  ThreadInv'
<1>1. UNCHANGED <<struct, free, tpc, cpc, target, claimed, requested, early, acted>>
  BY DEF vars, clientVars, history
<1>2. TypeOK'
  BY <1>1 DEF ThreadInv, TypeOK
<1>3. SlotInv'
  BY <1>1 DEF ThreadInv, SlotInv, SlotTypes, PhaseInv, EventInv
<1>4. \A c \in Clients : ClientInv(c)'
  BY <1>1, SameClient
<1>5. ClaimInv'
  BY <1>1 DEF ThreadInv, ClaimInv
<1>6. FreeInv'
  BY <1>1 DEF ThreadInv, FreeInv
<1> QED BY <1>2, <1>3, <1>4, <1>5, <1>6 DEF ThreadInv

LEMMA ThreadInvHolds == Spec => []ThreadInv
<1>1. Init => ThreadInv
  BY InitInv
<1>2. ThreadInv /\ [Next]_vars => ThreadInv'
  <2> SUFFICES ASSUME ThreadInv, [Next]_vars PROVE ThreadInv'
    OBVIOUS
  <2>1. CASE UNCHANGED vars
    BY <2>1, InvUnchanged
  <2>2. CASE \E detached \in BOOLEAN : Create(detached)
    BY <2>2, CreateStep
  <2>3. CASE \E s \in Slots : Step(s) \/ Choose(s)
    BY <2>3, ThreadStep
  <2>4. CASE \E c \in Clients : Finish(c) \/ CancelJoin(c)
    BY <2>4, ClientStep
  <2>5. CASE \E c \in Clients : \E h \in Issued :
               Cancel(c, h) \/ Detach(c, h) \/ Join(c, h)
    BY <2>5, HandleStep, InvUnchanged
  <2> QED BY <2>1, <2>2, <2>3, <2>4, <2>5 DEF Next
<1> QED BY <1>1, <1>2, PTL DEF Spec

(* Every field, list and record keeps its type; a thread acts on            *)
(* cancellation at most twice (ptw32_thread_t, implement.h).                *)
THEOREM ThreadTypeCorrect == Spec => []TypeOK
<1>1. ThreadInv => TypeOK
  BY DEF ThreadInv
<1> QED BY <1>1, ThreadInvHolds, PTL

(* However exit, join, detach and cancellation race, every structure is on  *)
(* the reuse list, once, or in the hands of its thread or of one client     *)
(* (pthread_detach.c, pthread_win32_attach_detach_np.c).                    *)
THEOREM Accounted == Spec => []StructsAccounted
<1>1. ThreadInv => StructsAccounted
  <2> SUFFICES ASSUME ThreadInv PROVE StructsAccounted
    OBVIOUS
  <2>1. \A c \in Clients : cpc[c] # "idle" => Live(target[c])
    BY DEF ThreadInv, ClientInv
  <2>2. \A s \in Slots : tpc[s] = "ended" => struct[s].state = Last /\ ~struct[s].detached
    BY DEF ThreadInv, SlotInv, PhaseInv
  <2> QED BY <2>1, <2>2 DEF ThreadInv, ClaimInv, FreeInv, StructsAccounted
<1> QED BY <1>1, ThreadInvHolds, PTL

(* A request that was accepted is kept until the thread acts on it, and a   *)
(* thread that was not cancelled before it started acts once                *)
(* (pthread_cancel.c, w32_CancelableWait.c).                                *)
THEOREM ActsOnce == Spec => []RequestActsOnce
<1>1. ThreadInv => RequestActsOnce
  BY DEF ThreadInv, SlotInv, SlotTypes, PhaseInv, EventInv, RequestActsOnce
<1> QED BY <1>1, ThreadInvHolds, PTL
-----------------------------------------------------------------------------
(***************************************************************************)
(* Thread-specific data, for every set of threads and keys and every limit *)
(* on passes.  The two chains say the same (ChainInv); a call says what it *)
(* has of a key and which thread deletes it (OpInv), who has which lock    *)
(* (LockInv), how far a walk is (WalkInv), and that chains, walks and      *)
(* values lead only to keys that are there (AssocInv).                     *)
(***************************************************************************)
On(chain, x) == \E i \in 1..Len(chain) : chain[i] = x

Distinct(chain) == \A i, j \in 1..Len(chain) : chain[i] = chain[j] => i = j

(* An association is on both chains or on none, and once. *)
ChainInv ==
  /\ \A t \in Threads : Distinct(keys[t])
  /\ \A k \in Keys : Distinct(threads[k])
  /\ \A t \in Threads, k \in Keys : On(keys[t], k) <=> On(threads[k], t)

Setting  == {"lockKey", "associate", "unlockKey", "setValue"}
Deleting == {"lockChain", "unchain", "free"}

(* A key that is set is alive.  A key that is deleted has one deleter, and  *)
(* its chain is empty when it is about to be freed.                         *)
OpInv ==
  \A t \in Threads :
    /\ op[t] = "none" <=> opKey[t] = NoKey
    /\ op[t] # "none" => pc[t] \in {"run", "destructor"}
    /\ op[t] \in Setting => kstate[opKey[t]] = "live"
    /\ op[t] \in {"unlockKey", "setValue"} => On(keys[t], opKey[t])
    /\ op[t] \in Deleting => /\ kstate[opKey[t]] = "deleting"
                             /\ \A u \in Threads : opKey[u] = opKey[t] => u = t
    /\ op[t] = "free" => threads[opKey[t]] = << >>

(* Where a thread has the lock of a key. *)
HasKeyLock(t, k) == \/ op[t] \in {"associate", "unlockKey", "unchain"} /\ opKey[t] = k
                    \/ visited[t] = k

(* Who has which lock. *)
LockInv ==
  \A t \in Threads :
    /\ \A k \in Keys : keyLock[k] = t <=> HasKeyLock(t, k)
    /\ visited[t] # NoKey <=> pc[t] \in {"call", "leave"}
    /\ threadLock[t] = IF pc[t] = "try" THEN t ELSE Unlocked

(* A pass that has met no value is at the first association of what is      *)
(* left, so that the chain is empty when such a pass ends.                  *)
WalkInv ==
  \A t \in Threads :
    /\ pc[t] = "try" => nextAssoc[t] # NoKey
    /\ remaining[t] \/ pc[t] = "begin" => iterations[t] <= Iterations
    /\ pc[t] = "run" => iterations[t] = 0
    /\ pc[t] \in {"call", "destructor"} => remaining[t]
    /\ pc[t] \in {"next", "try", "leave"} /\ ~remaining[t]
         => nextAssoc[t] = First(keys[t])
    /\ pc[t] = "ended" => keys[t] = << >>

(* Chains lead to keys that are there, walks to associations that are       *)
(* there, and a value whose key is alive has its association.               *)
AssocInv ==
  \A t \in Threads, k \in Keys :
    /\ On(keys[t], k) => kstate[k] \in {"live", "deleting"}
    /\ nextAssoc[t] = k => On(keys[t], k)
    /\ value[t][k] => kstate[k] \in {"deleting", "freed"} \/ On(keys[t], k)

(* The inductive invariant. *)
KeysInv == /\ KeysTypeOK /\ ChainInv /\ OpInv /\ LockInv /\ WalkInv /\ AssocInv
           /\ FreedIsUnused

----------------------------------------------------------------------------
(* Chains: what taking out an element and putting one in front do. *)
LEMMA PlaceFound ==
  ASSUME NEW S, NEW chain \in Seq(S), NEW x, On(chain, x)
  PROVE  Place(chain, x) \in 1..Len(chain) /\ chain[Place(chain, x)] = x
BY DEF Place, On

LEMMA WithoutRemoves ==
  ASSUME NEW S, NEW chain \in Seq(S), NEW x, On(chain, x), Distinct(chain)
  PROVE  /\ Without(chain, x) \in Seq(S)
         /\ Distinct(Without(chain, x))
         /\ \A y : On(Without(chain, x), y) <=> On(chain, y) /\ y # x
<1> DEFINE p == Place(chain, x)
           rest == Without(chain, x)
<1>1. p \in 1..Len(chain) /\ chain[p] = x /\ Len(chain) \in Nat
  BY PlaceFound
<1>2. \A i \in 1..Len(chain) : chain[i] \in S
  OBVIOUS
<1> HIDE DEF p
<1>3. rest = [i \in 1..(Len(chain) - 1) |-> IF i < p THEN chain[i] ELSE chain[i + 1]]
  BY DEF Without, p
<1> HIDE DEF rest
<1>4. rest \in Seq(S) /\ Len(rest) = Len(chain) - 1
  BY <1>1, <1>2, <1>3
<1>5. \A i \in 1..Len(rest) : rest[i] = IF i < p THEN chain[i] ELSE chain[i + 1]
  BY <1>1, <1>3, <1>4
<1>6. Distinct(rest)
  BY <1>1, <1>4, <1>5 DEF Distinct
<1>7. ASSUME NEW y, On(rest, y) PROVE On(chain, y) /\ y # x
  <2>1. PICK i \in 1..Len(rest) : rest[i] = y
    BY <1>7 DEF On
  <2>2. CASE i < p
    BY <1>1, <1>4, <1>5, <2>1, <2>2 DEF On, Distinct
  <2>3. CASE i >= p
    <3>1. i + 1 \in 1..Len(chain) /\ chain[i + 1] = y /\ i + 1 # p
      BY <1>1, <1>4, <1>5, <2>1, <2>3
    <3>2. QED
      BY <1>1, <3>1 DEF On, Distinct
  <2>4. QED
    BY <1>1, <2>1, <2>2, <2>3
<1>8. ASSUME NEW y, On(chain, y), y # x PROVE On(rest, y)
  <2>1. PICK i \in 1..Len(chain) : chain[i] = y
    BY <1>8 DEF On
  <2>2. CASE i < p
    BY <1>1, <1>4, <1>5, <2>1, <2>2 DEF On
  <2>3. CASE i > p
    <3>1. i - 1 \in 1..Len(rest) /\ rest[i - 1] = y
      BY <1>1, <1>4, <1>5, <2>1, <2>3
    <3>2. QED
      BY <3>1 DEF On
  <2>4. QED
    BY <1>1, <1>8, <2>1, <2>2, <2>3
<1>9. QED
  BY <1>4, <1>6, <1>7, <1>8 DEF rest

LEMMA FirstIs ==
  ASSUME NEW chain \in Seq(Keys)
  PROVE  /\ First(chain) \in Keys \cup {NoKey}
         /\ First(chain) = NoKey <=> chain = << >>
         /\ First(chain) # NoKey => On(chain, First(chain)) /\ First(chain) = chain[1]
         /\ chain # << >> => 1 \in 1..Len(chain)
BY NoneAssumption DEF First, On

LEMMA EmptyIs ==
  ASSUME NEW S, NEW chain \in Seq(S)
  PROVE  chain = << >> <=> \A y \in S : ~On(chain, y)
BY DEF On

(* What follows an association that is taken out is its successor. *)
LEMMA NextIs ==
  ASSUME NEW chain \in Seq(Keys), NEW k \in Keys, On(chain, k), Distinct(chain)
  PROVE  /\ NextKey(chain, k) \in Keys \cup {NoKey}
         /\ NextKey(chain, k) # NoKey
              => On(chain, NextKey(chain, k)) /\ NextKey(chain, k) # k
         /\ First(chain) = k => First(Without(chain, k)) = NextKey(chain, k)
         /\ First(chain) # k => First(Without(chain, k)) = First(chain)
<1> DEFINE p == Place(chain, k)
           rest == Without(chain, k)
<1>1. p \in 1..Len(chain) /\ chain[p] = k /\ Len(chain) \in Nat
  BY PlaceFound
<1>2. NextKey(chain, k) = IF p = Len(chain) THEN NoKey ELSE chain[p + 1]
  BY DEF NextKey
<1> HIDE DEF p
<1>3. rest = [i \in 1..(Len(chain) - 1) |-> IF i < p THEN chain[i] ELSE chain[i + 1]]
  BY DEF Without, p
<1>4. rest \in Seq(Keys)
  BY WithoutRemoves
<1> HIDE DEF rest
<1>5. Len(rest) = Len(chain) - 1
  BY <1>1, <1>3, <1>4
<1>6. First(chain) = chain[1]
  BY <1>1, FirstIs
<1>7. First(rest) = IF Len(chain) = 1 THEN NoKey ELSE rest[1]
  BY <1>1, <1>4, <1>5 DEF First
<1>8. First(chain) = k <=> p = 1
  BY <1>1, <1>6 DEF Distinct
<1>9. ASSUME Len(chain) # 1 PROVE rest[1] = IF 1 < p THEN chain[1] ELSE chain[2]
  <2> DEFINE n == Len(chain)
  <2>0. n \in Nat /\ p \in 1..n /\ n # 1
    BY <1>1, <1>9
  <2> HIDE DEF n
  <2>1. 1 \in 1..(Len(chain) - 1)
    <3>1. 1 \in 1..(n - 1)
      BY <2>0
    <3>2. QED
      BY <3>1 DEF n
  <2>2. rest[1] = IF 1 < p THEN chain[1] ELSE chain[1 + 1]
    BY <1>3, <2>1
  <2>3. QED
    BY <2>2
<1>10. /\ First(chain) = k => First(rest) = NextKey(chain, k)
       /\ First(chain) # k => First(rest) = First(chain)
  <2>1. CASE Len(chain) = 1
    BY <1>1, <1>2, <1>7, <1>8, <2>1
  <2>2. CASE Len(chain) # 1 /\ p = 1
    BY <1>2, <1>7, <1>8, <1>9, <2>2
  <2>3. CASE Len(chain) # 1 /\ p # 1
    BY <1>1, <1>6, <1>7, <1>8, <1>9, <2>3
  <2>4. QED
    BY <2>1, <2>2, <2>3
<1>11. p # Len(chain) => /\ p + 1 \in 1..Len(chain) /\ chain[p + 1] \in Keys
                         /\ chain[p + 1] # k
  BY <1>1 DEF Distinct
<1>12. QED
  BY <1>2, <1>10, <1>11, NoneAssumption DEF rest, On

LEMMA PrependAdds ==
  ASSUME NEW S, NEW chain \in Seq(S), NEW x \in S, ~On(chain, x), Distinct(chain)
  PROVE  /\ <<x>> \o chain \in Seq(S)
         /\ Distinct(<<x>> \o chain)
         /\ \A y : On(<<x>> \o chain, y) <=> On(chain, y) \/ y = x
<1> DEFINE longer == <<x>> \o chain
<1>1. /\ longer \in Seq(S) /\ Len(longer) = Len(chain) + 1 /\ Len(chain) \in Nat
      /\ longer[1] = x
      /\ \A i \in 1..Len(chain) : longer[i + 1] = chain[i]
  OBVIOUS
<1> HIDE DEF longer
<1>2. \A i \in 2..Len(longer) : i - 1 \in 1..Len(chain) /\ longer[i] = chain[i - 1]
  BY <1>1
<1>3. \A y : On(longer, y) <=> On(chain, y) \/ y = x
  <2>1. ASSUME NEW y, On(longer, y), y # x PROVE On(chain, y)
    <3>1. PICK i \in 1..Len(longer) : longer[i] = y
      BY <2>1 DEF On
    <3>2. i \in 2..Len(longer)
      BY <1>1, <2>1, <3>1
    <3>3. QED
      BY <1>2, <3>1, <3>2 DEF On
  <2>2. ASSUME NEW y, On(chain, y) PROVE On(longer, y)
    <3>1. PICK i \in 1..Len(chain) : chain[i] = y
      BY <2>2 DEF On
    <3>2. i + 1 \in 1..Len(longer) /\ longer[i + 1] = y
      BY <1>1, <3>1
    <3>3. QED
      BY <3>2 DEF On
  <2>3. On(longer, x)
    BY <1>1 DEF On
  <2>4. QED
    BY <2>1, <2>2, <2>3
<1>4. Distinct(longer)
  <2> SUFFICES ASSUME NEW i \in 1..Len(longer), NEW j \in 1..Len(longer),
                      longer[i] = longer[j]
               PROVE  i = j
    BY DEF Distinct
  <2>1. CASE i # 1 /\ j # 1
    <3>1. chain[i - 1] = chain[j - 1] /\ i - 1 \in 1..Len(chain) /\ j - 1 \in 1..Len(chain)
      BY <1>1, <1>2, <2>1
    <3>2. QED
      BY <3>1 DEF Distinct
  <2>2. CASE i = 1 /\ j # 1
    BY <1>1, <1>2, <2>2 DEF On
  <2>3. CASE i # 1 /\ j = 1
    BY <1>1, <1>2, <2>3 DEF On
  <2>4. QED
    BY <2>1, <2>2, <2>3
<1>5. QED
  BY <1>1, <1>3, <1>4 DEF longer
----------------------------------------------------------------------------
(* Taking an association off both chains, and putting one on both. *)
LEMMA Destroyed ==
  ASSUME KeysTypeOK, ChainInv, NEW t \in Threads, NEW k \in Keys, On(keys[t], k),
         DestroyAssoc(t, k)
  PROVE  /\ keys' \in [Threads -> Seq(Keys)] /\ threads' \in [Keys -> Seq(Threads)]
         /\ nextAssoc' \in [Threads -> Keys \cup {NoKey}]
         /\ ChainInv'
         /\ \A u \in Threads, l \in Keys :
              On(keys'[u], l) <=> On(keys[u], l) /\ ~(u = t /\ l = k)
         /\ \A u \in Threads : u # t => keys'[u] = keys[u] /\ nextAssoc'[u] = nextAssoc[u]
         /\ \A l \in Keys : l # k => threads'[l] = threads[l]
         /\ nextAssoc[t] = First(keys[t]) => nextAssoc'[t] = First(keys'[t])
         /\ nextAssoc'[t] # NoKey /\ (nextAssoc[t] # NoKey => On(keys[t], nextAssoc[t]))
              => On(keys'[t], nextAssoc'[t])
<1>1. /\ keys[t] \in Seq(Keys) /\ threads[k] \in Seq(Threads) /\ On(threads[k], t)
      /\ Distinct(keys[t]) /\ Distinct(threads[k])
  BY DEF KeysTypeOK, ChainInv
<1>2. /\ Without(keys[t], k) \in Seq(Keys) /\ Distinct(Without(keys[t], k))
      /\ \A y : On(Without(keys[t], k), y) <=> On(keys[t], y) /\ y # k
  BY <1>1, WithoutRemoves
<1>3. /\ Without(threads[k], t) \in Seq(Threads) /\ Distinct(Without(threads[k], t))
      /\ \A y : On(Without(threads[k], t), y) <=> On(threads[k], y) /\ y # t
  BY <1>1, WithoutRemoves
<1>4. /\ NextKey(keys[t], k) \in Keys \cup {NoKey}
      /\ NextKey(keys[t], k) # NoKey
              => On(keys[t], NextKey(keys[t], k)) /\ NextKey(keys[t], k) # k
      /\ First(keys[t]) = k => First(Without(keys[t], k)) = NextKey(keys[t], k)
      /\ First(keys[t]) # k => First(Without(keys[t], k)) = First(keys[t])
  BY <1>1, NextIs
<1>5. /\ keys' = [keys EXCEPT ![t] = Without(keys[t], k)]
      /\ threads' = [threads EXCEPT ![k] = Without(threads[k], t)]
      /\ nextAssoc' = [nextAssoc EXCEPT
                         ![t] = IF nextAssoc[t] = k THEN NextKey(keys[t], k) ELSE nextAssoc[t]]
  BY DEF DestroyAssoc, Unchain
<1>6. /\ keys \in [Threads -> Seq(Keys)] /\ threads \in [Keys -> Seq(Threads)]
      /\ nextAssoc \in [Threads -> Keys \cup {NoKey}]
  BY DEF KeysTypeOK
<1>7. /\ keys' \in [Threads -> Seq(Keys)] /\ threads' \in [Keys -> Seq(Threads)]
      /\ nextAssoc' \in [Threads -> Keys \cup {NoKey}]
  BY <1>2, <1>3, <1>4, <1>5, <1>6
<1>8. /\ keys'[t] = Without(keys[t], k)
      /\ threads'[k] = Without(threads[k], t)
      /\ nextAssoc'[t] = IF nextAssoc[t] = k THEN NextKey(keys[t], k) ELSE nextAssoc[t]
      /\ \A u \in Threads : u # t => keys'[u] = keys[u] /\ nextAssoc'[u] = nextAssoc[u]
      /\ \A l \in Keys : l # k => threads'[l] = threads[l]
  BY <1>5, <1>6
<1>9. \A u \in Threads, l \in Keys :
        /\ On(keys'[u], l) <=> On(keys[u], l) /\ ~(u = t /\ l = k)
        /\ On(threads'[l], u) <=> On(threads[l], u) /\ ~(u = t /\ l = k)
  BY <1>2, <1>3, <1>8
<1>10. ChainInv'
  BY <1>2, <1>3, <1>8, <1>9 DEF ChainInv
<1>11. nextAssoc[t] = First(keys[t]) => nextAssoc'[t] = First(keys'[t])
  BY <1>4, <1>8
<1>12. nextAssoc'[t] # NoKey /\ (nextAssoc[t] # NoKey => On(keys[t], nextAssoc[t]))
              => On(keys'[t], nextAssoc'[t])
  BY <1>2, <1>4, <1>8
<1>13. QED
  BY <1>7, <1>8, <1>9, <1>10, <1>11, <1>12

LEMMA Created ==
  ASSUME KeysTypeOK, ChainInv, NEW t \in Threads, NEW k \in Keys, ~On(keys[t], k),
         CreateAssoc(t, k)
  PROVE  /\ keys' \in [Threads -> Seq(Keys)] /\ threads' \in [Keys -> Seq(Threads)]
         /\ ChainInv'
         /\ \A u \in Threads, l \in Keys :
              On(keys'[u], l) <=> On(keys[u], l) \/ (u = t /\ l = k)
         /\ \A u \in Threads : u # t => keys'[u] = keys[u]
         /\ \A l \in Keys : l # k => threads'[l] = threads[l]
<1>1. /\ keys[t] \in Seq(Keys) /\ threads[k] \in Seq(Threads) /\ ~On(threads[k], t)
      /\ Distinct(keys[t]) /\ Distinct(threads[k])
  BY DEF KeysTypeOK, ChainInv
<1> DEFINE ks == <<k>> \o keys[t]
           ts == <<t>> \o threads[k]
<1>2. /\ ks \in Seq(Keys) /\ Distinct(ks) /\ \A y : On(ks, y) <=> On(keys[t], y) \/ y = k
      /\ ts \in Seq(Threads) /\ Distinct(ts)
      /\ \A y : On(ts, y) <=> On(threads[k], y) \/ y = t
  BY <1>1, PrependAdds
<1>3. /\ keys' = [keys EXCEPT ![t] = ks] /\ threads' = [threads EXCEPT ![k] = ts]
      /\ keys \in [Threads -> Seq(Keys)] /\ threads \in [Keys -> Seq(Threads)]
  BY DEF CreateAssoc, KeysTypeOK
<1> HIDE DEF ks, ts
<1>4. /\ keys' \in [Threads -> Seq(Keys)] /\ threads' \in [Keys -> Seq(Threads)]
      /\ keys'[t] = ks /\ threads'[k] = ts
      /\ \A u \in Threads : u # t => keys'[u] = keys[u]
      /\ \A l \in Keys : l # k => threads'[l] = threads[l]
  BY <1>2, <1>3
<1>5. \A u \in Threads, l \in Keys :
        /\ On(keys'[u], l) <=> On(keys[u], l) \/ (u = t /\ l = k)
        /\ On(threads'[l], u) <=> On(threads[l], u) \/ (u = t /\ l = k)
  BY <1>2, <1>4
<1>6. ChainInv'
  BY <1>2, <1>4, <1>5 DEF ChainInv
<1>7. QED
  BY <1>4, <1>5, <1>6
Ops == {"none", "lockKey", "associate", "unlockKey", "setValue",
        "lockChain", "unchain", "free"}

(* What entering a call and going on in it do. *)
LEMMA Entered ==
  ASSUME KeysTypeOK, NEW t \in Threads, NEW k \in Keys \cup {NoKey}, NEW to \in Ops,
         Enter(t, k, to)
  PROVE  /\ op' \in [Threads -> Ops] /\ opKey' \in [Threads -> Keys \cup {NoKey}]
         /\ op'[t] = to /\ opKey'[t] = k
         /\ \A u \in Threads : u # t => op'[u] = op[u] /\ opKey'[u] = opKey[u]
BY DEF Enter, KeysTypeOK, Ops

LEMMA Continued ==
  ASSUME KeysTypeOK, NEW t \in Threads, NEW from, NEW to \in Ops, Continue(t, from, to)
  PROVE  /\ op' \in [Threads -> Ops] /\ opKey' \in [Threads -> Keys \cup {NoKey}]
         /\ op[t] = from /\ op'[t] = to
         /\ opKey'[t] = IF to = "none" THEN NoKey ELSE opKey[t]
         /\ \A u \in Threads : u # t => op'[u] = op[u] /\ opKey'[u] = opKey[u]
<1>1. op[t] = from /\ Enter(t, IF to = "none" THEN NoKey ELSE opKey[t], to)
  BY DEF Continue
<1>2. (IF to = "none" THEN NoKey ELSE opKey[t]) \in Keys \cup {NoKey}
  BY DEF KeysTypeOK
<1>3. QED
  BY <1>1, <1>2, Entered

(* What taking and giving back a key's lock do. *)
LEMMA LockTaken ==
  ASSUME KeysTypeOK, LockInv, NEW t \in Threads, NEW k \in Keys, Lock(keyLock, k, t),
         \A u \in Threads, l \in Keys :
           HasKeyLock(u, l)' <=> HasKeyLock(u, l) \/ (u = t /\ l = k)
  PROVE  \A u \in Threads, l \in Keys : keyLock'[l] = u <=> HasKeyLock(u, l)'
<1>1. \A l \in Keys : keyLock'[l] = IF l = k THEN t ELSE keyLock[l]
  BY DEF Lock, KeysTypeOK
<1>2. \A u \in Threads : ~HasKeyLock(u, k)
  BY NoneAssumption DEF Lock, LockInv
<1>3. QED
  BY <1>1, <1>2 DEF LockInv

LEMMA LockReturned ==
  ASSUME KeysTypeOK, LockInv, NEW t \in Threads, NEW k \in Keys, Unlock(keyLock, k),
         HasKeyLock(t, k),
         \A u \in Threads, l \in Keys :
           HasKeyLock(u, l)' <=> HasKeyLock(u, l) /\ ~(u = t /\ l = k)
  PROVE  \A u \in Threads, l \in Keys : keyLock'[l] = u <=> HasKeyLock(u, l)'
<1>1. \A l \in Keys : keyLock'[l] = IF l = k THEN Unlocked ELSE keyLock[l]
  BY DEF Unlock, KeysTypeOK
<1>2. keyLock[k] = t
  BY DEF LockInv
<1>3. \A u \in Threads : ~HasKeyLock(u, k)'
  BY <1>2 DEF LockInv
<1>4. QED
  BY <1>1, <1>3, NoneAssumption DEF LockInv

(* What the invariant says of one thread. *)
LEMMA KeysContext ==
  ASSUME KeysInv, NEW t \in Threads
  PROVE  /\ op[t] # "none" => opKey[t] \in Keys /\ visited[t] = NoKey /\ pc[t] # "try"
         /\ pc[t] \in {"call", "leave"} => visited[t] \in Keys /\ op[t] = "none"
         /\ pc[t] = "try" => /\ nextAssoc[t] \in Keys /\ On(keys[t], nextAssoc[t])
                            /\ kstate[nextAssoc[t]] \in {"live", "deleting"}
                            /\ op[t] = "none" /\ visited[t] = NoKey
         /\ op[t] = "free" => \A u \in Threads : ~On(keys[u], opKey[t])
<1>1. /\ pc[t] \in {"run", "begin", "next", "try", "call", "leave", "destructor", "ended"}
      /\ opKey[t] \in Keys \cup {NoKey} /\ visited[t] \in Keys \cup {NoKey}
      /\ nextAssoc[t] \in Keys \cup {NoKey}
  BY DEF KeysInv, KeysTypeOK
<1>2. /\ op[t] = "none" <=> opKey[t] = NoKey
      /\ op[t] # "none" => pc[t] \in {"run", "destructor"}
      /\ visited[t] # NoKey <=> pc[t] \in {"call", "leave"}
      /\ pc[t] = "try" => nextAssoc[t] # NoKey
  BY DEF KeysInv, OpInv, LockInv, WalkInv
<1>3. nextAssoc[t] # NoKey => /\ nextAssoc[t] \in Keys /\ On(keys[t], nextAssoc[t])
                              /\ kstate[nextAssoc[t]] \in {"live", "deleting"}
  BY <1>1 DEF KeysInv, AssocInv
<1>4. ASSUME op[t] = "free" PROVE \A u \in Threads : ~On(keys[u], opKey[t])
  <2>1. opKey[t] \in Keys /\ threads[opKey[t]] = << >>
    BY <1>1, <1>2, <1>4 DEF KeysInv, OpInv
  <2>2. \A u \in Threads : ~On(threads[opKey[t]], u)
    BY <2>1 DEF On
  <2>3. QED
    BY <2>1, <2>2 DEF KeysInv, ChainInv
<1>5. /\ op[t] # "none" => opKey[t] \in Keys /\ visited[t] = NoKey /\ pc[t] # "try"
      /\ pc[t] \in {"call", "leave"} => visited[t] \in Keys /\ op[t] = "none"
      /\ pc[t] = "try" => op[t] = "none" /\ visited[t] = NoKey /\ nextAssoc[t] # NoKey
  BY <1>1, <1>2
<1>6. QED
  BY <1>3, <1>4, <1>5

(* The effect of a visit with both locks. *)
LEMMA Visited ==
  ASSUME KeysInv, NEW t \in Threads, NEW to \in {"call", "leave"}, Visit(t, to)
  PROVE  /\ value' \in [Threads -> [Keys -> BOOLEAN]]
         /\ keyLock' \in [Keys -> Threads \cup {Unlocked}]
         /\ threadLock' \in [Threads -> Threads \cup {Unlocked}]
         /\ visited' \in [Threads -> Keys \cup {NoKey}]
         /\ pc'[t] = to /\ \A u \in Threads : u # t => pc'[u] = pc[u]
         /\ \A u \in Threads : visited'[u] = IF u = t THEN nextAssoc[t] ELSE visited[u]
         /\ \A l \in Keys : l # nextAssoc[t] => keyLock'[l] = keyLock[l]
         /\ \A u \in Threads, l \in Keys :
              value'[u][l] => value[u][l] /\ ~(u = t /\ l = nextAssoc[t])
         /\ LockInv'
<1> DEFINE k == nextAssoc[t]
<1>1. /\ k \in Keys /\ pc[t] = "try" /\ op[t] = "none" /\ visited[t] = NoKey
  BY KeysContext DEF Visit, Walk
<1>2. /\ value' = [value EXCEPT ![t][k] = FALSE]
      /\ keyLock' = [keyLock EXCEPT ![k] = t] /\ Lock(keyLock, k, t)
      /\ threadLock' = [threadLock EXCEPT ![t] = Unlocked]
      /\ visited' = [visited EXCEPT ![t] = k]
      /\ pc' = [pc EXCEPT ![t] = to]
      /\ UNCHANGED <<op, opKey>>
  BY DEF Visit, Walk, Lock, Unlock, call
<1>3. /\ value \in [Threads -> [Keys -> BOOLEAN]]
      /\ keyLock \in [Keys -> Threads \cup {Unlocked}]
      /\ threadLock \in [Threads -> Threads \cup {Unlocked}]
      /\ visited \in [Threads -> Keys \cup {NoKey}]
      /\ DOMAIN pc = Threads
  BY DEF KeysInv, KeysTypeOK
<1> HIDE DEF k
<1>4. /\ value' \in [Threads -> [Keys -> BOOLEAN]]
      /\ keyLock' \in [Keys -> Threads \cup {Unlocked}]
      /\ threadLock' \in [Threads -> Threads \cup {Unlocked}]
      /\ visited' \in [Threads -> Keys \cup {NoKey}]
  BY <1>1, <1>2, <1>3
<1>5. /\ pc'[t] = to /\ \A u \in Threads : u # t => pc'[u] = pc[u]
      /\ \A u \in Threads : visited'[u] = IF u = t THEN k ELSE visited[u]
      /\ threadLock'[t] = Unlocked
      /\ \A u \in Threads : u # t => threadLock'[u] = threadLock[u]
      /\ \A l \in Keys : l # k => keyLock'[l] = keyLock[l]
  BY <1>1, <1>2, <1>3
<1>6. \A u \in Threads, l \in Keys : value'[u][l] => value[u][l] /\ ~(u = t /\ l = k)
  BY <1>1, <1>2, <1>3
<1>7. LockInv'
  <2>1. \A u \in Threads, l \in Keys :
          HasKeyLock(u, l)' <=> HasKeyLock(u, l) \/ (u = t /\ l = k)
    BY <1>1, <1>2, <1>5, NoneAssumption DEF HasKeyLock
  <2>2. \A u \in Threads, l \in Keys : keyLock'[l] = u <=> HasKeyLock(u, l)'
    BY <1>1, <1>2, <2>1, LockTaken DEF KeysInv
  <2>3. QED
    BY <1>1, <1>5, <2>2, NoneAssumption DEF KeysInv, LockInv
<1>8. QED
  BY <1>4, <1>5, <1>6, <1>7 DEF k

(* The invariant is kept by the steps of keys and of pthread_setspecific,   *)
(* but for Associate, ...                                                   *)
LEMMA CreateKeyKeeps ==
  ASSUME KeysInv, NEW k \in Keys, CreateKey(k)
  PROVE  KeysInv'
<1>2. UNCHANGED <<keys, threads, value, keyLock, threadLock, nextAssoc, pc, iterations,
                 remaining, op, opKey, visited, sets>>
  BY DEF CreateKey, chains, locks, walk, call
<1>3. KeysTypeOK'
  BY <1>2 DEF KeysInv, KeysTypeOK, CreateKey
<1>4. OpInv'
  BY <1>2 DEF KeysInv, OpInv, CreateKey, Setting, Deleting
<1>5. LockInv'
  BY <1>2 DEF KeysInv, LockInv, HasKeyLock
<1>6. WalkInv'
  BY <1>2 DEF KeysInv, WalkInv
<1>7. AssocInv'
  BY <1>2 DEF KeysInv, AssocInv, CreateKey
<1>8. FreedIsUnused'
  BY <1>2 DEF KeysInv, FreedIsUnused, CreateKey
<1>9. ChainInv'
  BY <1>2 DEF KeysInv, ChainInv
<1>10. QED
  BY <1>3, <1>4, <1>5, <1>6, <1>7, <1>8, <1>9 DEF KeysInv

LEMMA SetSpecificKeeps ==
  ASSUME KeysInv, NEW t \in Threads, NEW k \in Keys, SetSpecific(t, k)
  PROVE  KeysInv'
<1>1. /\ op' \in [Threads -> Ops] /\ opKey' \in [Threads -> Keys \cup {NoKey}]
      /\ op[t] = "none" /\ op'[t] = "lockKey" /\ opKey'[t] = k
      /\ \A u \in Threads : u # t => op'[u] = op[u] /\ opKey'[u] = opKey[u]
  BY Entered DEF KeysInv, SetSpecific, Ops, Calls
<1>2. UNCHANGED <<kstate, keys, threads, value, keyLock, threadLock, nextAssoc, pc,
                 iterations, remaining, visited>>
  BY DEF SetSpecific, chains, locks, walk
<1>3. KeysTypeOK'
  BY <1>1, <1>2, NoneAssumption, IterationsAssumption DEF KeysInv, KeysTypeOK, Ops,
     SetSpecific, Calls, WalkInv
<1>4. OpInv'
  BY <1>1, <1>2, NoneAssumption DEF KeysInv, OpInv, SetSpecific, Calls, KeysTypeOK,
     Setting, Deleting
<1>5. LockInv'
  BY <1>1, <1>2 DEF KeysInv, LockInv, HasKeyLock
<1>6. WalkInv'
  BY <1>1, <1>2 DEF KeysInv, WalkInv
<1>7. AssocInv'
  BY <1>1, <1>2 DEF KeysInv, AssocInv
<1>8. FreedIsUnused'
  BY <1>1, <1>2 DEF KeysInv, FreedIsUnused, SetSpecific, Calls
<1>9. ChainInv'
  BY <1>2 DEF KeysInv, ChainInv
<1>10. QED
  BY <1>3, <1>4, <1>5, <1>6, <1>7, <1>8, <1>9 DEF KeysInv

LEMMA ClearSpecificKeeps ==
  ASSUME KeysInv, NEW t \in Threads, NEW k \in Keys, ClearSpecific(t, k)
  PROVE  KeysInv'
<1>2. UNCHANGED <<kstate, keys, threads, keyLock, threadLock, nextAssoc, pc, iterations,
                 remaining, op, opKey, visited, sets>>
  BY DEF ClearSpecific, chains, locks, walk, call
<1>3. KeysTypeOK'
  BY <1>2 DEF KeysInv, KeysTypeOK, ClearSpecific, Calls
<1>4. OpInv'
  BY <1>2 DEF KeysInv, OpInv
<1>5. LockInv'
  BY <1>2 DEF KeysInv, LockInv, HasKeyLock
<1>6. WalkInv'
  BY <1>2 DEF KeysInv, WalkInv
<1>7. AssocInv'
  BY <1>2 DEF KeysInv, AssocInv, ClearSpecific, Calls
<1>8. FreedIsUnused'
  BY <1>2 DEF KeysInv, FreedIsUnused
<1>9. ChainInv'
  BY <1>2 DEF KeysInv, ChainInv
<1>10. QED
  BY <1>3, <1>4, <1>5, <1>6, <1>7, <1>8, <1>9 DEF KeysInv

LEMMA LockKeyKeeps ==
  ASSUME KeysInv, NEW t \in Threads, LockKey(t)
  PROVE  KeysInv'
<1>1. /\ op' \in [Threads -> Ops] /\ opKey' \in [Threads -> Keys \cup {NoKey}]
      /\ op[t] = "lockKey" /\ op'[t] = "associate" /\ opKey'[t] = opKey[t]
      /\ \A u \in Threads : u # t => op'[u] = op[u] /\ opKey'[u] = opKey[u]
  BY Continued DEF KeysInv, LockKey, Ops
<1>2. UNCHANGED <<kstate, keys, threads, value, threadLock, nextAssoc, pc, iterations,
                 remaining, visited, sets>>
  BY DEF LockKey, chains, walk
<1>3. KeysTypeOK'
  BY <1>1, <1>2 DEF KeysInv, KeysTypeOK, Ops, LockKey, Lock
<1>4. OpInv'
  BY <1>1, <1>2 DEF KeysInv, OpInv, LockKey, Lock, Setting, Deleting
<1>5. LockInv'
  BY <1>1, <1>2, NoneAssumption DEF KeysInv, LockInv, HasKeyLock, LockKey, Lock,
     KeysTypeOK
<1>6. WalkInv'
  BY <1>1, <1>2 DEF KeysInv, WalkInv
<1>7. AssocInv'
  BY <1>1, <1>2 DEF KeysInv, AssocInv
<1>8. FreedIsUnused'
  BY <1>1, <1>2 DEF KeysInv, FreedIsUnused, LockKey, Lock
<1>9. ChainInv'
  BY <1>2 DEF KeysInv, ChainInv
<1>10. QED
  BY <1>3, <1>4, <1>5, <1>6, <1>7, <1>8, <1>9 DEF KeysInv

LEMMA UnlockKeyKeeps ==
  ASSUME KeysInv, NEW t \in Threads, UnlockKey(t)
  PROVE  KeysInv'
<1>1. /\ op' \in [Threads -> Ops] /\ opKey' \in [Threads -> Keys \cup {NoKey}]
      /\ op[t] = "unlockKey" /\ op'[t] = "setValue" /\ opKey'[t] = opKey[t]
      /\ \A u \in Threads : u # t => op'[u] = op[u] /\ opKey'[u] = opKey[u]
  BY Continued DEF KeysInv, UnlockKey, Ops
<1>2. UNCHANGED <<kstate, keys, threads, value, threadLock, nextAssoc, pc, iterations,
                 remaining, visited, sets>>
  BY DEF UnlockKey, chains, walk
<1>3. KeysTypeOK'
  BY <1>1, <1>2 DEF KeysInv, KeysTypeOK, Ops, UnlockKey, Unlock
<1>4. OpInv'
  BY <1>1, <1>2 DEF KeysInv, OpInv, UnlockKey, Unlock, Setting, Deleting
<1>5. LockInv'
  <2>1. /\ opKey[t] \in Keys /\ visited[t] = NoKey /\ HasKeyLock(t, opKey[t])
    BY <1>1, KeysContext DEF HasKeyLock
  <2>2. \A u \in Threads, l \in Keys :
          HasKeyLock(u, l)' <=> HasKeyLock(u, l) /\ ~(u = t /\ l = opKey[t])
    BY <1>1, <1>2, <2>1, NoneAssumption DEF HasKeyLock
  <2>3. \A u \in Threads, l \in Keys : keyLock'[l] = u <=> HasKeyLock(u, l)'
    BY <2>1, <2>2, LockReturned DEF KeysInv, UnlockKey
  <2>4. QED
    BY <1>2, <2>3 DEF KeysInv, LockInv
<1>6. WalkInv'
  BY <1>1, <1>2 DEF KeysInv, WalkInv
<1>7. AssocInv'
  BY <1>1, <1>2 DEF KeysInv, AssocInv
<1>8. FreedIsUnused'
  BY <1>1, <1>2 DEF KeysInv, FreedIsUnused, UnlockKey, Unlock
<1>9. ChainInv'
  BY <1>2 DEF KeysInv, ChainInv
<1>10. QED
  BY <1>3, <1>4, <1>5, <1>6, <1>7, <1>8, <1>9 DEF KeysInv

LEMMA SetValueKeeps ==
  ASSUME KeysInv, NEW t \in Threads, SetValue(t)
  PROVE  KeysInv'
<1>1. /\ op' \in [Threads -> Ops] /\ opKey' \in [Threads -> Keys \cup {NoKey}]
      /\ op[t] = "setValue" /\ op'[t] = "none" /\ opKey'[t] = NoKey
      /\ \A u \in Threads : u # t => op'[u] = op[u] /\ opKey'[u] = opKey[u]
  BY Continued DEF KeysInv, SetValue, Ops
<1>2. UNCHANGED <<kstate, keys, threads, keyLock, threadLock, nextAssoc, pc, iterations,
                 remaining, visited, sets>>
  BY DEF SetValue, chains, locks, walk
<1>3. KeysTypeOK'
  BY <1>1, <1>2 DEF KeysInv, KeysTypeOK, Ops, SetValue
<1>4. OpInv'
  BY <1>1, <1>2 DEF KeysInv, OpInv, SetValue, Setting, Deleting
<1>5. LockInv'
  BY <1>1, <1>2 DEF KeysInv, LockInv, HasKeyLock
<1>6. WalkInv'
  BY <1>1, <1>2 DEF KeysInv, WalkInv
<1>7. AssocInv'
  BY <1>1, <1>2, NoneAssumption DEF KeysInv, AssocInv, SetValue, KeysTypeOK, OpInv,
     Setting, Deleting
<1>8. FreedIsUnused'
  BY <1>1, <1>2, NoneAssumption DEF KeysInv, FreedIsUnused, SetValue, KeysTypeOK
<1>9. ChainInv'
  BY <1>2 DEF KeysInv, ChainInv
<1>10. QED
  BY <1>3, <1>4, <1>5, <1>6, <1>7, <1>8, <1>9 DEF KeysInv

(* ... of pthread_key_delete, but for DeleteAssoc, ... *)
LEMMA DeleteKeeps ==
  ASSUME KeysInv, NEW t \in Threads, NEW k \in Keys, Delete(t, k)
  PROVE  KeysInv'
<1>1. /\ op' \in [Threads -> Ops] /\ opKey' \in [Threads -> Keys \cup {NoKey}]
      /\ op[t] = "none" /\ opKey'[t] = k
      /\ op'[t] = IF threads[k] = << >> THEN "free" ELSE "lockChain"
      /\ \A u \in Threads : u # t => op'[u] = op[u] /\ opKey'[u] = opKey[u]
  BY Entered DEF KeysInv, Delete, Ops, Calls
<1>2. UNCHANGED <<keys, threads, value, keyLock, threadLock, nextAssoc, pc, iterations,
                 remaining, visited, sets>>
  BY DEF Delete, chains, locks, walk
<1>3. KeysTypeOK'
  BY <1>1, <1>2 DEF KeysInv, KeysTypeOK, Ops, Delete, Calls
<1>4. OpInv'
  BY <1>1, <1>2 DEF KeysInv, OpInv, Delete, Calls, KeysTypeOK, Setting, Deleting
<1>5. LockInv'
  BY <1>1, <1>2 DEF KeysInv, LockInv, HasKeyLock
<1>6. WalkInv'
  BY <1>1, <1>2 DEF KeysInv, WalkInv
<1>7. AssocInv'
  BY <1>1, <1>2 DEF KeysInv, AssocInv, Delete, Calls
<1>8. FreedIsUnused'
  BY <1>1, <1>2 DEF KeysInv, FreedIsUnused, Delete, Calls
<1>9. ChainInv'
  BY <1>2 DEF KeysInv, ChainInv
<1>10. QED
  BY <1>3, <1>4, <1>5, <1>6, <1>7, <1>8, <1>9 DEF KeysInv

LEMMA LockChainKeeps ==
  ASSUME KeysInv, NEW t \in Threads, LockChain(t)
  PROVE  KeysInv'
<1>1. /\ op' \in [Threads -> Ops] /\ opKey' \in [Threads -> Keys \cup {NoKey}]
      /\ op[t] = "lockChain" /\ op'[t] = "unchain" /\ opKey'[t] = opKey[t]
      /\ \A u \in Threads : u # t => op'[u] = op[u] /\ opKey'[u] = opKey[u]
  BY Continued DEF KeysInv, LockChain, Ops
<1>2. UNCHANGED <<kstate, keys, threads, value, threadLock, nextAssoc, pc, iterations,
                 remaining, visited, sets>>
  BY DEF LockChain, chains, walk
<1>3. KeysTypeOK'
  BY <1>1, <1>2 DEF KeysInv, KeysTypeOK, Ops, LockChain, Lock
<1>4. OpInv'
  BY <1>1, <1>2 DEF KeysInv, OpInv, LockChain, Lock, Setting, Deleting
<1>5. LockInv'
  BY <1>1, <1>2, NoneAssumption DEF KeysInv, LockInv, HasKeyLock, LockChain, Lock,
     KeysTypeOK
<1>6. WalkInv'
  BY <1>1, <1>2 DEF KeysInv, WalkInv
<1>7. AssocInv'
  BY <1>1, <1>2 DEF KeysInv, AssocInv
<1>8. FreedIsUnused'
  BY <1>1, <1>2 DEF KeysInv, FreedIsUnused, LockChain, Lock
<1>9. ChainInv'
  BY <1>2 DEF KeysInv, ChainInv
<1>10. QED
  BY <1>3, <1>4, <1>5, <1>6, <1>7, <1>8, <1>9 DEF KeysInv

LEMMA UnlockChainKeeps ==
  ASSUME KeysInv, NEW t \in Threads, UnlockChain(t)
  PROVE  KeysInv'
<1>1. /\ op' \in [Threads -> Ops] /\ opKey' \in [Threads -> Keys \cup {NoKey}]
      /\ op[t] = "unchain" /\ op'[t] = "free" /\ opKey'[t] = opKey[t]
      /\ \A u \in Threads : u # t => op'[u] = op[u] /\ opKey'[u] = opKey[u]
  BY Continued DEF KeysInv, UnlockChain, Ops
<1>2. UNCHANGED <<kstate, keys, threads, value, threadLock, nextAssoc, pc, iterations,
                 remaining, visited, sets>>
  BY DEF UnlockChain, chains, walk
<1>3. KeysTypeOK'
  BY <1>1, <1>2 DEF KeysInv, KeysTypeOK, Ops, UnlockChain, Unlock
<1>4. OpInv'
  BY <1>1, <1>2 DEF KeysInv, OpInv, UnlockChain, Unlock, Setting, Deleting
<1>5. LockInv'
  <2>1. /\ opKey[t] \in Keys /\ visited[t] = NoKey /\ HasKeyLock(t, opKey[t])
    BY <1>1, KeysContext DEF HasKeyLock
  <2>2. \A u \in Threads, l \in Keys :
          HasKeyLock(u, l)' <=> HasKeyLock(u, l) /\ ~(u = t /\ l = opKey[t])
    BY <1>1, <1>2, <2>1, NoneAssumption DEF HasKeyLock
  <2>3. \A u \in Threads, l \in Keys : keyLock'[l] = u <=> HasKeyLock(u, l)'
    BY <2>1, <2>2, LockReturned DEF KeysInv, UnlockChain
  <2>4. QED
    BY <1>2, <2>3 DEF KeysInv, LockInv
<1>6. WalkInv'
  BY <1>1, <1>2 DEF KeysInv, WalkInv
<1>7. AssocInv'
  BY <1>1, <1>2 DEF KeysInv, AssocInv
<1>8. FreedIsUnused'
  BY <1>1, <1>2 DEF KeysInv, FreedIsUnused, UnlockChain, Unlock
<1>9. ChainInv'
  BY <1>2 DEF KeysInv, ChainInv
<1>10. QED
  BY <1>3, <1>4, <1>5, <1>6, <1>7, <1>8, <1>9 DEF KeysInv

LEMMA FreeKeyKeeps ==
  ASSUME KeysInv, NEW t \in Threads, FreeKey(t)
  PROVE  KeysInv'
<1>1. /\ op' \in [Threads -> Ops] /\ opKey' \in [Threads -> Keys \cup {NoKey}]
      /\ op[t] = "free" /\ op'[t] = "none" /\ opKey'[t] = NoKey
      /\ \A u \in Threads : u # t => op'[u] = op[u] /\ opKey'[u] = opKey[u]
  BY Continued DEF KeysInv, FreeKey, Ops
<1>2. UNCHANGED <<keys, threads, value, keyLock, threadLock, nextAssoc, pc, iterations,
                 remaining, visited, sets>>
  BY DEF FreeKey, chains, locks, walk
<1>3. KeysTypeOK'
  BY <1>1, <1>2 DEF KeysInv, KeysTypeOK, Ops, FreeKey
<1>4. OpInv'
  BY <1>1, <1>2 DEF KeysInv, OpInv, FreeKey, Setting, Deleting
<1>5. LockInv'
  BY <1>1, <1>2 DEF KeysInv, LockInv, HasKeyLock
<1>6. WalkInv'
  BY <1>1, <1>2 DEF KeysInv, WalkInv
<1>7. AssocInv'
  <2> DEFINE k == opKey[t]
  <2>1. k \in Keys /\ \A u \in Threads : ~On(keys[u], k)
    BY <1>1, KeysContext
  <2>2. kstate'[k] = "freed" /\ \A l \in Keys : l # k => kstate'[l] = kstate[l]
    BY <2>1 DEF KeysInv, KeysTypeOK, FreeKey
  <2> HIDE DEF k
  <2>3. QED
    BY <1>2, <2>1, <2>2 DEF KeysInv, AssocInv
<1>8. FreedIsUnused'
  <2> DEFINE k == opKey[t]
  <2>1. /\ k \in Keys /\ threads[k] = << >> /\ keyLock[k] = Unlocked
        /\ \A u \in Threads : ~On(keys[u], k)
    BY <1>1, KeysContext DEF KeysInv, OpInv, FreeKey
  <2>2. \A u \in Threads : ~HasKeyLock(u, k)
    BY <2>1, NoneAssumption DEF KeysInv, LockInv
  <2>3. \A u \in Threads : nextAssoc[u] # k /\ visited[u] # k
    BY <2>1, <2>2 DEF KeysInv, AssocInv, HasKeyLock
  <2>4. \A u \in Threads : opKey'[u] # k
    BY <1>1, <2>1, NoneAssumption DEF KeysInv, OpInv, Deleting
  <2>5. \A l \in Keys : l # k => kstate'[l] = kstate[l]
    BY DEF KeysInv, KeysTypeOK, FreeKey
  <2>6. \A u \in Threads : opKey'[u] \in {opKey[u], NoKey}
    BY <1>1
  <2> HIDE DEF k
  <2>7. QED
    BY <1>2, <2>1, <2>3, <2>4, <2>5, <2>6, NoneAssumption DEF KeysInv, FreedIsUnused
<1>9. ChainInv'
  BY <1>2 DEF KeysInv, ChainInv
<1>10. QED
  BY <1>3, <1>4, <1>5, <1>6, <1>7, <1>8, <1>9 DEF KeysInv

(* ... of a thread that exits, but for RemoveAssoc, ... *)
LEMMA CallUserDestroyRoutinesKeeps ==
  ASSUME KeysInv, NEW t \in Threads, CallUserDestroyRoutines(t)
  PROVE  KeysInv'
<1>2. UNCHANGED <<kstate, keys, threads, value, keyLock, threadLock, nextAssoc,
                 iterations, remaining, op, opKey, visited, sets>>
  BY DEF CallUserDestroyRoutines, chains, locks, call
<1>3. KeysTypeOK'
  BY <1>2 DEF KeysInv, KeysTypeOK, CallUserDestroyRoutines, Walk
<1>4. OpInv'
  BY <1>2 DEF KeysInv, OpInv, CallUserDestroyRoutines, Walk, Setting, Deleting
<1>5. LockInv'
  BY <1>2 DEF KeysInv, LockInv, HasKeyLock, CallUserDestroyRoutines, Walk
<1>6. WalkInv'
  BY <1>2, IterationsAssumption
     DEF KeysInv, WalkInv, KeysTypeOK, CallUserDestroyRoutines, Walk
<1>7. AssocInv'
  BY <1>2 DEF KeysInv, AssocInv
<1>8. FreedIsUnused'
  BY <1>2 DEF KeysInv, FreedIsUnused
<1>9. ChainInv'
  BY <1>2 DEF KeysInv, ChainInv
<1>10. QED
  BY <1>3, <1>4, <1>5, <1>6, <1>7, <1>8, <1>9 DEF KeysInv

LEMMA BeginPassKeeps ==
  ASSUME KeysInv, NEW t \in Threads, BeginPass(t)
  PROVE  KeysInv'
<1>2. UNCHANGED <<kstate, keys, threads, value, keyLock, threadLock, op, opKey, visited,
                 sets>>
  BY DEF BeginPass, locks, call
<1>3. KeysTypeOK'
  <2>1. First(keys[t]) \in Keys \cup {NoKey}
    BY FirstIs DEF KeysInv, KeysTypeOK
  <2>2. nextAssoc' \in [Threads -> Keys \cup {NoKey}]
    BY <2>1 DEF KeysInv, KeysTypeOK, BeginPass
  <2>3. iterations[t] \in 0..Iterations
    BY IterationsAssumption DEF KeysInv, KeysTypeOK, WalkInv, BeginPass, Walk
  <2>4. iterations' \in [Threads -> 0..(Iterations + 1)]
    BY <2>3, IterationsAssumption DEF KeysInv, KeysTypeOK, BeginPass
  <2>5. QED
    BY <1>2, <2>2, <2>4 DEF KeysInv, KeysTypeOK, BeginPass, Walk
<1>4. OpInv'
  BY <1>2 DEF KeysInv, OpInv, BeginPass, Walk, Setting, Deleting
<1>5. LockInv'
  BY <1>2 DEF KeysInv, LockInv, HasKeyLock, BeginPass, Walk
<1>6. WalkInv'
  BY <1>2 DEF KeysInv, WalkInv, BeginPass, Walk, KeysTypeOK
<1>7. AssocInv'
  <2>1. First(keys[t]) # NoKey => On(keys[t], First(keys[t]))
    BY FirstIs DEF KeysInv, KeysTypeOK
  <2>2. /\ nextAssoc'[t] = First(keys[t])
        /\ \A u \in Threads : u # t => nextAssoc'[u] = nextAssoc[u]
    BY DEF KeysInv, KeysTypeOK, BeginPass
  <2>3. QED
    BY <1>2, <2>1, <2>2, NoneAssumption DEF KeysInv, AssocInv
<1>8. FreedIsUnused'
  BY <1>2, <1>7, NoneAssumption DEF KeysInv, AssocInv, FreedIsUnused
<1>9. ChainInv'
  BY <1>2 DEF KeysInv, ChainInv
<1>10. QED
  BY <1>3, <1>4, <1>5, <1>6, <1>7, <1>8, <1>9 DEF KeysInv

LEMMA LockNextKeeps ==
  ASSUME KeysInv, NEW t \in Threads, LockNext(t)
  PROVE  KeysInv'
<1>2. UNCHANGED <<kstate, keys, threads, value, keyLock, nextAssoc, iterations,
                 remaining, op, opKey, visited, sets>>
  BY DEF LockNext, chains, call
<1>3. KeysTypeOK'
  BY <1>2 DEF KeysInv, KeysTypeOK, LockNext, Walk, Lock
<1>4. OpInv'
  BY <1>2 DEF KeysInv, OpInv, LockNext, Walk, Lock, Setting, Deleting
<1>5. LockInv'
  BY <1>2 DEF KeysInv, LockInv, HasKeyLock, LockNext, Walk, Lock, KeysTypeOK
<1>6. WalkInv'
  BY <1>2 DEF KeysInv, WalkInv, LockNext, Walk, Lock
<1>7. AssocInv'
  BY <1>2 DEF KeysInv, AssocInv
<1>8. FreedIsUnused'
  BY <1>2 DEF KeysInv, FreedIsUnused
<1>9. ChainInv'
  BY <1>2 DEF KeysInv, ChainInv
<1>10. QED
  BY <1>3, <1>4, <1>5, <1>6, <1>7, <1>8, <1>9 DEF KeysInv

LEMMA EndPassKeeps ==
  ASSUME KeysInv, NEW t \in Threads, EndPass(t)
  PROVE  KeysInv'
<1>2. UNCHANGED <<kstate, keys, threads, value, keyLock, threadLock, nextAssoc,
                 iterations, remaining, op, opKey, visited, sets>>
  BY DEF EndPass, chains, locks, call
<1>3. KeysTypeOK'
  BY <1>2 DEF KeysInv, KeysTypeOK, EndPass, Walk
<1>4. OpInv'
  BY <1>2 DEF KeysInv, OpInv, EndPass, Walk, Setting, Deleting
<1>5. LockInv'
  BY <1>2 DEF KeysInv, LockInv, HasKeyLock, EndPass, Walk
<1>6. WalkInv'
  <2>1. /\ keys[t] \in Seq(Keys) /\ remaining[t] \in BOOLEAN
        /\ pc[t] = "next" /\ pc'[t] = IF remaining[t] THEN "begin" ELSE "ended"
        /\ \A u \in Threads : u # t => pc'[u] = pc[u]
    BY DEF KeysInv, KeysTypeOK, EndPass, Walk
  <2>2. ~remaining[t] => keys[t] = << >>
    BY <2>1, FirstIs DEF KeysInv, WalkInv, EndPass
  <2>3. QED
    BY <1>2, <2>1, <2>2 DEF KeysInv, WalkInv
<1>7. AssocInv'
  BY <1>2 DEF KeysInv, AssocInv
<1>8. FreedIsUnused'
  BY <1>2 DEF KeysInv, FreedIsUnused
<1>9. ChainInv'
  BY <1>2 DEF KeysInv, ChainInv
<1>10. QED
  BY <1>3, <1>4, <1>5, <1>6, <1>7, <1>8, <1>9 DEF KeysInv

LEMMA TryFailsKeeps ==
  ASSUME KeysInv, NEW t \in Threads, TryFails(t)
  PROVE  KeysInv'
<1>2. UNCHANGED <<kstate, keys, threads, value, keyLock, nextAssoc, iterations,
                 remaining, op, opKey, visited, sets>>
  BY DEF TryFails, chains, call
<1>3. KeysTypeOK'
  BY <1>2 DEF KeysInv, KeysTypeOK, TryFails, Walk, Unlock
<1>4. OpInv'
  BY <1>2 DEF KeysInv, OpInv, TryFails, Walk, Unlock, Setting, Deleting
<1>5. LockInv'
  BY <1>2 DEF KeysInv, LockInv, HasKeyLock, TryFails, Walk, Unlock, KeysTypeOK
<1>6. WalkInv'
  BY <1>2 DEF KeysInv, WalkInv, TryFails, Walk, Unlock
<1>7. AssocInv'
  BY <1>2 DEF KeysInv, AssocInv
<1>8. FreedIsUnused'
  BY <1>2 DEF KeysInv, FreedIsUnused
<1>9. ChainInv'
  BY <1>2 DEF KeysInv, ChainInv
<1>10. QED
  BY <1>3, <1>4, <1>5, <1>6, <1>7, <1>8, <1>9 DEF KeysInv

LEMMA TakeValueKeeps ==
  ASSUME KeysInv, NEW t \in Threads, TakeValue(t)
  PROVE  KeysInv'
<1>2. UNCHANGED <<kstate, keys, threads, iterations, op, opKey, sets>>
  BY DEF TakeValue, Visit, call
<1>3. KeysTypeOK'
  <2>1. nextAssoc[t] \in Keys /\ On(keys[t], nextAssoc[t])
    BY KeysContext DEF TakeValue, Visit, Walk
  <2>2. NextKey(keys[t], nextAssoc[t]) \in Keys \cup {NoKey}
    BY <2>1, NextIs DEF KeysInv, KeysTypeOK, ChainInv
  <2>3. /\ nextAssoc' \in [Threads -> Keys \cup {NoKey}]
        /\ remaining' \in [Threads -> BOOLEAN]
    BY <2>2 DEF KeysInv, KeysTypeOK, TakeValue
  <2>4. /\ value' \in [Threads -> [Keys -> BOOLEAN]]
        /\ keyLock' \in [Keys -> Threads \cup {Unlocked}]
        /\ threadLock' \in [Threads -> Threads \cup {Unlocked}]
        /\ visited' \in [Threads -> Keys \cup {NoKey}]
    BY Visited DEF TakeValue
  <2>5. QED
    BY <1>2, <2>3, <2>4 DEF KeysInv, KeysTypeOK, TakeValue, Visit, Walk
<1>4. OpInv'
  BY <1>2 DEF KeysInv, OpInv, TakeValue, Visit, HasValue, Walk, Lock, Unlock, Setting,
     Deleting
<1>5. LockInv'
  BY Visited DEF TakeValue
<1>6. WalkInv'
  BY <1>2 DEF KeysInv, WalkInv, TakeValue, Visit, HasValue, Walk, Lock, Unlock,
     KeysTypeOK
<1>7. AssocInv'
  <2> DEFINE k == nextAssoc[t]
  <2>1. k \in Keys /\ On(keys[t], k)
    BY KeysContext DEF TakeValue, Visit, Walk
  <2>2. NextKey(keys[t], k) # NoKey => On(keys[t], NextKey(keys[t], k))
    BY <2>1, NextIs DEF KeysInv, KeysTypeOK, ChainInv
  <2>3. /\ nextAssoc'[t] = NextKey(keys[t], k)
        /\ \A u \in Threads : u # t => nextAssoc'[u] = nextAssoc[u]
    BY DEF KeysInv, KeysTypeOK, TakeValue
  <2>4. \A u \in Threads, l \in Keys : value'[u][l] => value[u][l]
    BY Visited DEF TakeValue
  <2> HIDE DEF k
  <2>5. QED
    BY <1>2, <2>2, <2>3, <2>4, NoneAssumption DEF KeysInv, AssocInv
<1>8. FreedIsUnused'
  <2> DEFINE k == nextAssoc[t]
  <2>1. k \in Keys /\ kstate[k] # "freed"
    BY KeysContext DEF TakeValue, Visit, Walk
  <2>2. /\ \A u \in Threads : visited'[u] = IF u = t THEN k ELSE visited[u]
        /\ \A l \in Keys : l # k => keyLock'[l] = keyLock[l]
    BY Visited DEF TakeValue
  <2> HIDE DEF k
  <2>3. \A u \in Threads, l \in Keys : kstate[l] = "freed" => nextAssoc'[u] # l
    BY <1>2, <1>7 DEF AssocInv
  <2>4. QED
    BY <1>2, <2>1, <2>2, <2>3 DEF KeysInv, FreedIsUnused
<1>9. ChainInv'
  BY <1>2 DEF KeysInv, ChainInv
<1>10. QED
  BY <1>3, <1>4, <1>5, <1>6, <1>7, <1>8, <1>9 DEF KeysInv

LEMMA LeaveAssocKeeps ==
  ASSUME KeysInv, NEW t \in Threads, LeaveAssoc(t)
  PROVE  KeysInv'
<1>2. UNCHANGED <<kstate, keys, threads, value, threadLock, nextAssoc, iterations,
                 remaining, op, opKey, sets>>
  BY DEF LeaveAssoc, chains, call
<1>3. KeysTypeOK'
  BY <1>2 DEF KeysInv, KeysTypeOK, LeaveAssoc, Walk, Unlock
<1>4. OpInv'
  BY <1>2 DEF KeysInv, OpInv, LeaveAssoc, Walk, Unlock, Setting, Deleting
<1>5. LockInv'
  <2>1. /\ visited[t] \in Keys /\ op[t] = "none" /\ HasKeyLock(t, visited[t])
    BY KeysContext DEF HasKeyLock, LeaveAssoc
  <2>2. /\ visited' = [visited EXCEPT ![t] = NoKey]
        /\ pc'[t] \in {"destructor", "next"}
        /\ \A u \in Threads : u # t => pc'[u] = pc[u] /\ visited'[u] = visited[u]
        /\ visited'[t] = NoKey
    BY DEF KeysInv, KeysTypeOK, LeaveAssoc, Walk
  <2>3. \A u \in Threads, l \in Keys :
          HasKeyLock(u, l)' <=> HasKeyLock(u, l) /\ ~(u = t /\ l = visited[t])
    BY <1>2, <2>1, <2>2, NoneAssumption DEF HasKeyLock
  <2>4. \A u \in Threads, l \in Keys : keyLock'[l] = u <=> HasKeyLock(u, l)'
    BY <2>1, <2>3, LockReturned DEF KeysInv, LeaveAssoc
  <2>5. pc[t] # "try"
    BY DEF LeaveAssoc
  <2>6. QED
    BY <1>2, <2>2, <2>4, <2>5 DEF KeysInv, LockInv
<1>6. WalkInv'
  BY <1>2 DEF KeysInv, WalkInv, LeaveAssoc, Walk, Unlock
<1>7. AssocInv'
  BY <1>2 DEF KeysInv, AssocInv
<1>8. FreedIsUnused'
  BY <1>2, NoneAssumption DEF KeysInv, FreedIsUnused, LeaveAssoc, Walk, Unlock,
     KeysTypeOK
<1>9. ChainInv'
  BY <1>2 DEF KeysInv, ChainInv
<1>10. QED
  BY <1>3, <1>4, <1>5, <1>6, <1>7, <1>8, <1>9 DEF KeysInv

LEMMA EndDestructorKeeps ==
  ASSUME KeysInv, NEW t \in Threads, EndDestructor(t)
  PROVE  KeysInv'
<1>2. UNCHANGED <<kstate, keys, threads, value, keyLock, threadLock, nextAssoc,
                 iterations, remaining, op, opKey, visited, sets>>
  BY DEF EndDestructor, chains, locks, call
<1>3. KeysTypeOK'
  BY <1>2 DEF KeysInv, KeysTypeOK, EndDestructor, Walk
<1>4. OpInv'
  BY <1>2 DEF KeysInv, OpInv, EndDestructor, Walk, Setting, Deleting
<1>5. LockInv'
  BY <1>2 DEF KeysInv, LockInv, HasKeyLock, EndDestructor, Walk
<1>6. WalkInv'
  BY <1>2 DEF KeysInv, WalkInv, EndDestructor, Walk
<1>7. AssocInv'
  BY <1>2 DEF KeysInv, AssocInv
<1>8. FreedIsUnused'
  BY <1>2 DEF KeysInv, FreedIsUnused
<1>9. ChainInv'
  BY <1>2 DEF KeysInv, ChainInv
<1>10. QED
  BY <1>3, <1>4, <1>5, <1>6, <1>7, <1>8, <1>9 DEF KeysInv

(* ... and by the three that change the chains. *)
LEMMA AssociateKeeps ==
  ASSUME KeysInv, NEW t \in Threads, Associate(t)
  PROVE  KeysInv'
<1> DEFINE k == opKey[t]
<1>1. /\ op' \in [Threads -> Ops] /\ opKey' = opKey
      /\ op[t] = "associate" /\ op'[t] = "unlockKey"
      /\ \A u \in Threads : u # t => op'[u] = op[u]
  <2>1. /\ op' \in [Threads -> Ops] /\ opKey' \in [Threads -> Keys \cup {NoKey}]
        /\ op[t] = "associate" /\ op'[t] = "unlockKey" /\ opKey'[t] = opKey[t]
        /\ \A u \in Threads : u # t => op'[u] = op[u] /\ opKey'[u] = opKey[u]
    BY Continued DEF KeysInv, Associate, Ops
  <2>2. QED
    BY <2>1 DEF KeysInv, KeysTypeOK
<1>2. /\ UNCHANGED <<kstate, value, keyLock, threadLock, nextAssoc, pc, iterations,
                     remaining, visited, sets>>
      /\ k \in Keys /\ kstate[k] = "live" /\ pc[t] \in {"run", "destructor"}
  <2>1. UNCHANGED <<kstate, value, keyLock, threadLock, nextAssoc, pc, iterations,
                    remaining, visited, sets>>
    BY DEF Associate, CreateAssoc, chains, locks, walk
  <2>2. k \in Keys /\ kstate[k] = "live" /\ pc[t] \in {"run", "destructor"}
    BY <1>1, KeysContext DEF KeysInv, OpInv, Setting
  <2>3. QED
    BY <2>1, <2>2
<1>3. /\ keys' \in [Threads -> Seq(Keys)] /\ threads' \in [Keys -> Seq(Threads)]
      /\ ChainInv'
      /\ \A u \in Threads, l \in Keys :
           On(keys'[u], l) <=> On(keys[u], l) \/ (u = t /\ l = k)
      /\ \A u \in Threads : u # t => keys'[u] = keys[u]
      /\ \A l \in Keys : l # k => threads'[l] = threads[l]
  <2>1. CASE On(keys[t], k)
    <3>1. UNCHANGED <<keys, threads>>
      BY <2>1 DEF Associate, Associated, On, chains
    <3>2. QED
      BY <2>1, <3>1 DEF KeysInv, KeysTypeOK, ChainInv
  <2>2. CASE ~On(keys[t], k)
    <3>1. CreateAssoc(t, k)
      BY <2>2 DEF Associate, Associated, On
    <3>2. QED
      BY <1>2, <2>2, <3>1, Created DEF KeysInv
  <2>3. QED
    BY <2>1, <2>2
<1> HIDE DEF k
<1>4. KeysTypeOK'
  BY <1>1, <1>2, <1>3 DEF KeysInv, KeysTypeOK, Ops
<1>5. OpInv'
  <2>1. \A u \in Threads : op[u] # "none" => opKey[u] \in Keys
    BY KeysContext
  <2>2. \A u \in Threads : op'[u] \in {"unlockKey", "setValue"} => On(keys'[u], opKey[u])
    BY <1>1, <1>2, <1>3, <2>1 DEF KeysInv, OpInv, k
  <2>3. \A u \in Threads : op[u] = "free" => opKey[u] # k
    BY <1>2 DEF KeysInv, OpInv, Deleting
  <2>4. \A u \in Threads : op[u] = "free" => threads'[opKey[u]] = << >>
    BY <1>3, <2>1, <2>3 DEF KeysInv, OpInv
  <2>5. QED
    BY <1>1, <1>2, <2>2, <2>4 DEF KeysInv, OpInv, Setting, Deleting, k
<1>6. LockInv'
  BY <1>1, <1>2 DEF KeysInv, LockInv, HasKeyLock
<1>7. WalkInv'
  BY <1>2, <1>3 DEF KeysInv, WalkInv
<1>8. AssocInv'
  BY <1>2, <1>3 DEF KeysInv, AssocInv
<1>9. FreedIsUnused'
  BY <1>1, <1>2, <1>3 DEF KeysInv, FreedIsUnused
<1>10. QED
  BY <1>3, <1>4, <1>5, <1>6, <1>7, <1>8, <1>9 DEF KeysInv

LEMMA DeleteAssocKeeps ==
  ASSUME KeysInv, NEW t \in Threads, DeleteAssoc(t)
  PROVE  KeysInv'
<1> DEFINE k == opKey[t]
           u == Head(threads[k])
<1>1. /\ k \in Keys /\ op[t] = "unchain" /\ kstate[k] = "deleting"
      /\ \A v \in Threads : opKey[v] = k => v = t
  BY KeysContext DEF KeysInv, OpInv, DeleteAssoc, Deleting
<1>2. UNCHANGED <<kstate, value, keyLock, threadLock, pc, iterations, remaining, op, opKey,
                  visited, sets>>
  BY DEF DeleteAssoc, locks, walk, call
<1>3. u \in Threads /\ On(keys[u], k)
  <2>1. threads[k] \in Seq(Threads) /\ threads[k] # << >>
    BY <1>1 DEF KeysInv, KeysTypeOK, DeleteAssoc
  <2>2. u \in Threads /\ On(threads[k], u)
    BY <2>1 DEF On
  <2>3. QED
    BY <1>1, <2>2 DEF KeysInv, ChainInv
<1>4. threadLock[u] = Unlocked /\ DestroyAssoc(u, k)
  BY DEF DeleteAssoc
<1> HIDE DEF k, u
<1>5. /\ keys' \in [Threads -> Seq(Keys)] /\ threads' \in [Keys -> Seq(Threads)]
      /\ nextAssoc' \in [Threads -> Keys \cup {NoKey}]
      /\ ChainInv'
      /\ \A v \in Threads, l \in Keys :
           On(keys'[v], l) <=> On(keys[v], l) /\ ~(v = u /\ l = k)
      /\ \A v \in Threads : v # u => keys'[v] = keys[v] /\ nextAssoc'[v] = nextAssoc[v]
      /\ \A l \in Keys : l # k => threads'[l] = threads[l]
      /\ nextAssoc[u] = First(keys[u]) => nextAssoc'[u] = First(keys'[u])
      /\ nextAssoc'[u] # NoKey /\ (nextAssoc[u] # NoKey => On(keys[u], nextAssoc[u]))
           => On(keys'[u], nextAssoc'[u])
  BY <1>1, <1>3, <1>4, Destroyed DEF KeysInv
<1>6. KeysTypeOK'
  BY <1>2, <1>5 DEF KeysInv, KeysTypeOK
<1>7. OpInv'
  <2>1. \A v \in Threads : op[v] # "none" => opKey[v] \in Keys
    BY KeysContext
  <2>2. \A v \in Threads : op[v] \in {"unlockKey", "setValue"} => On(keys'[v], opKey[v])
    BY <1>1, <1>5, <2>1 DEF KeysInv, OpInv, Setting
  <2>3. \A v \in Threads : op[v] = "free" => threads'[opKey[v]] = << >>
    BY <1>1, <1>5, <2>1 DEF KeysInv, OpInv
  <2>4. QED
    BY <1>2, <2>2, <2>3 DEF KeysInv, OpInv
<1>8. LockInv'
  BY <1>2 DEF KeysInv, LockInv, HasKeyLock
<1>9. WalkInv'
  <2>1. pc[u] \notin {"try", "ended"}
    BY <1>3, <1>4, NoneAssumption DEF KeysInv, LockInv, WalkInv, On
  <2>2. QED
    BY <1>2, <1>5, <2>1 DEF KeysInv, WalkInv
<1>10. AssocInv'
  <2>1. nextAssoc[u] # NoKey => On(keys[u], nextAssoc[u])
    BY <1>3 DEF KeysInv, KeysTypeOK, AssocInv
  <2>2. \A l \in Keys : nextAssoc'[u] = l => On(keys'[u], l)
    BY <1>5, <2>1, NoneAssumption
  <2>3. \A v \in Threads, l \in Keys : v # u /\ nextAssoc'[v] = l => On(keys'[v], l)
    BY <1>5 DEF KeysInv, AssocInv
  <2>4. QED
    BY <1>1, <1>2, <1>5, <2>2, <2>3 DEF KeysInv, AssocInv
<1>11. FreedIsUnused'
  <2>1. \A v \in Threads, l \in Keys : kstate[l] = "freed" => nextAssoc'[v] # l
    BY <1>2, <1>10 DEF AssocInv
  <2>2. QED
    BY <1>1, <1>2, <1>5, <2>1 DEF KeysInv, FreedIsUnused
<1>12. QED
  BY <1>5, <1>6, <1>7, <1>8, <1>9, <1>10, <1>11 DEF KeysInv

LEMMA RemoveAssocKeeps ==
  ASSUME KeysInv, NEW t \in Threads, RemoveAssoc(t)
  PROVE  KeysInv'
<1> DEFINE k == nextAssoc[t]
<1>1. /\ k \in Keys /\ On(keys[t], k) /\ kstate[k] # "freed"
      /\ pc[t] = "try" /\ op[t] = "none"
  BY KeysContext DEF RemoveAssoc, Visit, Walk
<1>2. UNCHANGED <<kstate, iterations, remaining, op, opKey, sets>>
  BY DEF RemoveAssoc, Visit, call
<1>3. /\ value' \in [Threads -> [Keys -> BOOLEAN]]
      /\ keyLock' \in [Keys -> Threads \cup {Unlocked}]
      /\ threadLock' \in [Threads -> Threads \cup {Unlocked}]
      /\ visited' \in [Threads -> Keys \cup {NoKey}]
      /\ pc'[t] = "leave" /\ \A u \in Threads : u # t => pc'[u] = pc[u]
      /\ \A u \in Threads : visited'[u] = IF u = t THEN k ELSE visited[u]
      /\ \A l \in Keys : l # k => keyLock'[l] = keyLock[l]
      /\ \A u \in Threads, l \in Keys : value'[u][l] => value[u][l] /\ ~(u = t /\ l = k)
      /\ LockInv'
  BY Visited DEF RemoveAssoc
<1>4. DestroyAssoc(t, k)
  BY DEF RemoveAssoc
<1> HIDE DEF k
<1>5. /\ keys' \in [Threads -> Seq(Keys)] /\ threads' \in [Keys -> Seq(Threads)]
      /\ nextAssoc' \in [Threads -> Keys \cup {NoKey}]
      /\ ChainInv'
      /\ \A v \in Threads, l \in Keys :
           On(keys'[v], l) <=> On(keys[v], l) /\ ~(v = t /\ l = k)
      /\ \A v \in Threads : v # t => keys'[v] = keys[v] /\ nextAssoc'[v] = nextAssoc[v]
      /\ \A l \in Keys : l # k => threads'[l] = threads[l]
      /\ nextAssoc[t] = First(keys[t]) => nextAssoc'[t] = First(keys'[t])
      /\ nextAssoc'[t] # NoKey /\ (nextAssoc[t] # NoKey => On(keys[t], nextAssoc[t]))
           => On(keys'[t], nextAssoc'[t])
  BY <1>1, <1>4, Destroyed DEF KeysInv
<1>6. KeysTypeOK'
  BY <1>2, <1>3, <1>5 DEF KeysInv, KeysTypeOK, RemoveAssoc, Visit, Walk
<1>7. OpInv'
  <2>1. \A u \in Threads : op[u] = "free" => opKey[u] \in Keys /\ opKey[u] # k
    BY <1>1, KeysContext
  <2>2. \A u \in Threads : op[u] \in {"unlockKey", "setValue"} => On(keys'[u], opKey[u])
    BY <1>1, <1>5 DEF KeysInv, OpInv
  <2>3. \A u \in Threads : op[u] = "free" => threads'[opKey[u]] = << >>
    BY <1>5, <2>1 DEF KeysInv, OpInv
  <2>4. \A u \in Threads : op[u] # "none" => pc'[u] = pc[u]
    BY <1>1, <1>3
  <2>5. QED
    BY <1>2, <2>2, <2>3, <2>4 DEF KeysInv, OpInv
<1>8. WalkInv'
  <2>1. ~remaining[t] => nextAssoc'[t] = First(keys'[t])
    BY <1>1, <1>5 DEF KeysInv, WalkInv
  <2>2. /\ pc'[t] = "leave" /\ \A u \in Threads : u # t => pc'[u] = pc[u]
        /\ pc[t] = "try"
    BY <1>1, <1>3
  <2>3. QED
    BY <1>2, <1>5, <2>1, <2>2 DEF KeysInv, WalkInv
<1>9. AssocInv'
  <2>1. On(keys[t], nextAssoc[t])
    BY <1>1 DEF k
  <2>2. \A l \in Keys : nextAssoc'[t] = l => On(keys'[t], l)
    BY <1>5, <2>1, NoneAssumption
  <2>3. \A v \in Threads, l \in Keys : v # t /\ nextAssoc'[v] = l => On(keys'[v], l)
    BY <1>5 DEF KeysInv, AssocInv
  <2>4. \A v \in Threads, l \in Keys : value'[v][l] => value[v][l] /\ ~(v = t /\ l = k)
    BY <1>3
  <2>5. QED
    BY <1>2, <1>5, <2>2, <2>3, <2>4 DEF KeysInv, AssocInv
<1>10. FreedIsUnused'
  <2>1. \A v \in Threads, l \in Keys : kstate[l] = "freed" => nextAssoc'[v] # l
    BY <1>2, <1>9 DEF AssocInv
  <2>2. \A v \in Threads, l \in Keys : l # k /\ visited'[v] = l => visited[v] = l
    BY <1>3
  <2>3. \A l \in Keys : kstate[l] = "freed" => /\ keyLock'[l] = keyLock[l]
                                              /\ threads'[l] = threads[l]
    BY <1>1, <1>3, <1>5
  <2>4. QED
    BY <1>1, <1>2, <2>1, <2>2, <2>3 DEF KeysInv, FreedIsUnused
<1>11. QED
  BY <1>3, <1>5, <1>6, <1>7, <1>8, <1>9, <1>10 DEF KeysInv
----------------------------------------------------------------------------
(* The invariant holds. *)
LEMMA KeysInitInv == KeysInit => KeysInv
<1> SUFFICES ASSUME KeysInit PROVE KeysInv
  OBVIOUS
<1>1. KeysTypeOK
  BY IterationsAssumption DEF KeysInit, KeysTypeOK
<1>2. ChainInv
  BY DEF KeysInit, ChainInv, Distinct, On
<1>3. OpInv /\ LockInv /\ WalkInv
  BY NoneAssumption, IterationsAssumption
     DEF KeysInit, OpInv, LockInv, HasKeyLock, WalkInv, Setting, Deleting, First
<1>4. AssocInv /\ FreedIsUnused
  BY NoneAssumption DEF KeysInit, AssocInv, FreedIsUnused, On
<1>5. QED
  BY <1>1, <1>2, <1>3, <1>4 DEF KeysInv

LEMMA KeysInvStep == KeysInv /\ [KeysNext]_keysVars => KeysInv'
<1> SUFFICES ASSUME KeysInv, [KeysNext]_keysVars PROVE KeysInv'
  OBVIOUS
<1>1. CASE UNCHANGED keysVars
  BY <1>1 DEF keysVars, chains, locks, walk, call, KeysInv, KeysTypeOK, ChainInv, OpInv,
              LockInv, HasKeyLock, WalkInv, AssocInv, FreedIsUnused
<1>2. ASSUME NEW k \in Keys, CreateKey(k) PROVE KeysInv'
  BY <1>2, CreateKeyKeeps
<1>3. ASSUME NEW t \in Threads, Begin(t) PROVE KeysInv'
  BY <1>3, CallUserDestroyRoutinesKeeps, SetSpecificKeeps, ClearSpecificKeeps, DeleteKeeps
     DEF Begin
<1>4. ASSUME NEW t \in Threads, Take(t) PROVE KeysInv'
  BY <1>4, LockKeyKeeps, LockChainKeeps, DeleteAssocKeeps DEF Take
<1>5. ASSUME NEW t \in Threads, KeysStep(t) PROVE KeysInv'
  BY <1>5, AssociateKeeps, UnlockKeyKeeps, SetValueKeeps, UnlockChainKeeps, FreeKeyKeeps,
     BeginPassKeeps, LockNextKeeps, EndPassKeeps, TryFailsKeeps, TakeValueKeeps,
     RemoveAssocKeeps, LeaveAssocKeeps, EndDestructorKeeps DEF KeysStep
<1>6. QED
  BY <1>1, <1>2, <1>3, <1>4, <1>5 DEF KeysNext

LEMMA KeysInvHolds == KeysSpec => []KeysInv
BY KeysInitInv, KeysInvStep, PTL DEF KeysSpec

(* Every variable keeps its type; in particular an exiting thread makes at  *)
(* most one pass more than PTHREAD_DESTRUCTOR_ITERATIONS, whatever its      *)
(* destructors set again.                                                   *)
THEOREM KeysTypeCorrect == KeysSpec => []KeysTypeOK
<1>1. KeysInv => KeysTypeOK
  BY DEF KeysInv
<1>2. QED
  BY <1>1, KeysInvHolds, PTL

(* The association an exiting thread visits next is on its chain and on its *)
(* key's, with the key alive, whatever deletions did while it had no lock.  *)
THEOREM WalkSafe == KeysSpec => []WalkIsSafe
<1>1. KeysInv => WalkIsSafe
  <2> SUFFICES ASSUME KeysInv PROVE WalkIsSafe
    OBVIOUS
  <2>1. \A t \in Threads, k \in Keys :
          /\ Associated(t, k) <=> On(keys[t], k)
          /\ On(keys[t], k) => /\ \E i \in 1..Len(threads[k]) : threads[k][i] = t
                               /\ kstate[k] \in {"live", "deleting"}
          /\ nextAssoc[t] = k => On(keys[t], k)
    BY DEF KeysInv, ChainInv, AssocInv, Associated, On
  <2>2. \A t \in Threads : nextAssoc[t] \in Keys \cup {NoKey}
    BY DEF KeysInv, KeysTypeOK
  <2>3. QED
    BY <2>1, <2>2 DEF WalkIsSafe
<1>2. QED
  BY <1>1, KeysInvHolds, PTL

(* A key's memory is freed only when no chain leads to the key, nobody has  *)
(* its lock and nobody will come back to it.                                *)
THEOREM FreedUnused == KeysSpec => []FreedIsUnused
<1>1. KeysInv => FreedIsUnused
  BY DEF KeysInv
<1>2. QED
  BY <1>1, KeysInvHolds, PTL

(* When the destructors of a thread have run, no chain has the thread, and  *)
(* it has no value of a key that is alive.                                  *)
THEOREM ExitComplete == KeysSpec => []ExitIsComplete
<1>1. KeysInv => ExitIsComplete
  <2> SUFFICES ASSUME KeysInv, NEW t \in Threads, pc[t] = "ended"
               PROVE  /\ keys[t] = << >>
                      /\ \A k \in Keys : /\ \A i \in 1..Len(threads[k]) : threads[k][i] # t
                                         /\ value[t][k] => kstate[k] # "live"
    BY DEF ExitIsComplete
  <2>1. keys[t] = << >>
    BY DEF KeysInv, WalkInv
  <2>2. \A k \in Keys : ~On(keys[t], k)
    BY <2>1 DEF On
  <2>3. \A k \in Keys : ~On(threads[k], t)
    BY <2>2 DEF KeysInv, ChainInv
  <2>4. \A k \in Keys : value[t][k] => kstate[k] # "live"
    BY <2>2 DEF KeysInv, AssocInv
  <2>5. QED
    BY <2>1, <2>3, <2>4 DEF On
<1>2. QED
  BY <1>1, KeysInvHolds, PTL
=============================================================================
