------------------------------- MODULE Thread -------------------------------
(***************************************************************************)
(* The life of a thread in win_pthreads: create, start, exit, join, detach *)
(* and the reuse of thread structures (create.c, ptw32_threadStart.c,      *)
(* ptw32_new.c, ptw32_reuse.c, pthread_join.c, pthread_detach.c,           *)
(* pthread_win32_attach_detach_np.c), and its cancellation: requests       *)
(* (pthread_cancel.c) against the thread's own cancelability               *)
(* (pthread_setcancel*.c), tests and waits (w32_CancelableWait.c).         *)
(*                                                                         *)
(* A handle is a structure and the value of its reuse counter.  A section  *)
(* under cancelLock, or under ptw32_thread_reuse_lock, is one action; the  *)
(* fields the code reads or writes without a lock have actions of their    *)
(* own.  The build is the one with C clean-up (ptw32_throw is a longjmp).  *)
(*                                                                         *)
(* Clients use any handle they were ever given, with two rules of          *)
(* pthread_join.c: one join or detach for a thread (lines 137-141), and    *)
(* no cancellation of a thread that is, or is being, detached (line 71).   *)
(* Clean-up code and destructors change their cancelability and test it,   *)
(* but do not wait.                                                        *)
(***************************************************************************)
EXTENDS Integers, Sequences

CONSTANTS
  Slots,        \* the thread structures
  Clients,      \* the threads that create, cancel, join and detach
  MaxReuse,     \* bound: how often a structure is used again
  NoHandle      \* a client that works on no thread

ASSUME ReuseAssumption  == MaxReuse \in Nat
ASSUME HandleAssumption == NoHandle \notin Slots \X Nat

VARIABLES
  struct,       \* the fields of each ptw32_thread_t
  free,         \* the reuse list, top first
  tpc,          \* where the thread of each structure is
  cpc,          \* what each client is doing
  target,       \* the handle it does it to
  claimed,      \* its thread was given to join or detach
  requested,    \* a request to cancel the thread was accepted for later
  early,        \* ... before the thread had started
  acted         \* how often the thread was made to exit by cancellation

history == <<requested, early, acted>>
clientVars == <<cpc, target>>
vars == <<struct, free, tpc, clientVars, claimed, history>>

(* PThreadState; the others do not occur. *)
Initial   == 0
Running   == 1
Pending   == 3
Canceling == 4
Last      == 6

Structs == [x : Nat, state : {Initial, Running, Pending, Canceling, Last},
            detached : BOOLEAN, enabled : BOOLEAN, async : BOOLEAN, event : BOOLEAN]

(* Zeroed memory says enabled and asynchronous. *)
Wiped(x) == [x |-> x, state |-> Initial, detached |-> FALSE, enabled |-> TRUE,
             async |-> TRUE, event |-> FALSE]

Phases == {"unborn", "free", "created", "run", "wait", "deaf", "woken", "exit",
           "last", "ended"}
NoThread == {"unborn", "free"}

Init ==
  /\ struct = [s \in Slots |-> Wiped(0)]
  /\ free = << >>
  /\ tpc = [s \in Slots |-> "unborn"]
  /\ cpc = [c \in Clients |-> "idle"]
  /\ target = [c \in Clients |-> NoHandle]
  /\ claimed = [s \in Slots |-> FALSE]
  /\ requested = [s \in Slots |-> FALSE]
  /\ early = [s \in Slots |-> FALSE]
  /\ acted = [s \in Slots |-> 0]

Goto(s, from, to) ==
  /\ tpc[s] = from
  /\ tpc' = [tpc EXCEPT ![s] = to]

(* A thread that is Last has no more to do with requests. *)
Forget(s) ==
  /\ requested' = [requested EXCEPT ![s] = FALSE]
  /\ early' = [early EXCEPT ![s] = FALSE]
  /\ acted' = [acted EXCEPT ![s] = 0]

(***************************************************************************)
(* Creation and destruction.  ptw32_new takes the structure at the top of  *)
(* the reuse list, if there is one; ptw32_threadReusePush puts one, wiped  *)
(* and with its counter advanced, at the bottom.                           *)
(***************************************************************************)
(* Mutant: the structure stays on the list. *)
CreateUnpopped(detached) ==
  \E s \in Slots :
    /\ struct[s].x <= MaxReuse
    /\ IF free = << >> THEN tpc[s] = "unborn" ELSE s = Head(free)
    /\ Goto(s, tpc[s], "created")
    /\ struct' = [struct EXCEPT ![s] = [Wiped(struct[s].x) EXCEPT
                                          !.async = FALSE, !.detached = detached]]
    /\ UNCHANGED <<free, clientVars, claimed, history>>

Create(detached) ==
  \E s \in Slots :
    /\ struct[s].x <= MaxReuse
    /\ IF free = << >> THEN tpc[s] = "unborn" /\ UNCHANGED free
                       ELSE s = Head(free) /\ free' = Tail(free)
    /\ Goto(s, tpc[s], "created")
    /\ struct' = [struct EXCEPT ![s] = [Wiped(struct[s].x) EXCEPT
                                          !.async = FALSE, !.detached = detached]]
    /\ UNCHANGED <<clientVars, claimed, history>>

(* ptw32_threadDestroy. *)
Destroy(s) ==
  /\ struct' = [struct EXCEPT ![s] = Wiped(struct[s].x + 1)]
  /\ free' = Append(free, s)
  /\ tpc' = [tpc EXCEPT ![s] = "free"]
  /\ claimed' = [claimed EXCEPT ![s] = FALSE]
  /\ UNCHANGED history

(***************************************************************************)
(* The thread.                                                             *)
(***************************************************************************)
(* ptw32_threadStart sets the state without a lock. *)
Start(s) ==
  /\ Goto(s, "created", "run")
  /\ struct' = [struct EXCEPT ![s].state = Running]
  /\ UNCHANGED <<free, clientVars, claimed, history>>

Canceled(r) == [r EXCEPT !.state = Canceling, !.enabled = FALSE]

(* ptw32_throw: the clean-up handlers run next. *)
Throw(s) ==
  /\ tpc' = [tpc EXCEPT ![s] = "exit"]
  /\ acted' = [acted EXCEPT ![s] = @ + 1]

(* A thread changes its cancelability to what r says. *)
SetCancelability(s, r) ==
  /\ tpc[s] \in {"run", "exit"}
  /\ IF r.enabled /\ r.async /\ r.event
       THEN /\ struct' = [struct EXCEPT ![s] = [Canceled(r) EXCEPT !.event = FALSE]]
            /\ Throw(s)
       ELSE /\ struct' = [struct EXCEPT ![s] = r]
            /\ UNCHANGED <<tpc, acted>>
  /\ UNCHANGED <<free, clientVars, claimed, requested, early>>

SetCancelState(s) ==
  \E b \in BOOLEAN : SetCancelability(s, [struct[s] EXCEPT !.enabled = b])

SetCancelType(s) ==
  \E b \in BOOLEAN : SetCancelability(s, [struct[s] EXCEPT !.async = b])

(* Mutant: the event is reset before it is known whether to act. *)
TestCancelResetting(s) ==
  /\ tpc[s] \in {"run", "exit"}
  /\ struct[s].state = Pending
  /\ IF struct[s].enabled
       THEN /\ struct' = [struct EXCEPT ![s] = [Canceled(@) EXCEPT !.event = FALSE]]
            /\ Throw(s)
       ELSE /\ struct' = [struct EXCEPT ![s].event = FALSE]
            /\ UNCHANGED <<tpc, acted>>
  /\ UNCHANGED <<free, clientVars, claimed, requested, early>>

(* pthread_testcancel does nothing unless the state says that a request is  *)
(* pending.                                                                 *)
TestCancel(s) ==
  /\ tpc[s] \in {"run", "exit"}
  /\ struct[s].state = Pending
  /\ struct[s].enabled
  /\ struct' = [struct EXCEPT ![s] = [Canceled(@) EXCEPT !.event = FALSE]]
  /\ Throw(s)
  /\ UNCHANGED <<free, clientVars, claimed, requested, early>>

(* ptw32_cancelable_wait looks at cancelEvent too only when cancellation is *)
(* enabled.                                                                 *)
EnterWait(s) ==
  /\ Goto(s, "run", IF struct[s].enabled THEN "wait" ELSE "deaf")
  /\ UNCHANGED <<struct, free, clientVars, claimed, history>>

EndWait(s) ==
  /\ tpc[s] \in {"wait", "deaf"}
  /\ tpc' = [tpc EXCEPT ![s] = "run"]
  /\ UNCHANGED <<struct, free, clientVars, claimed, history>>

WakeByCancel(s) ==
  /\ struct[s].event
  /\ Goto(s, "wait", "woken")
  /\ struct' = [struct EXCEPT ![s].event = FALSE]
  /\ UNCHANGED <<free, clientVars, claimed, history>>

(* Nothing happens if the thread was cancelled asynchronously in between. *)
ActOnWake(s) ==
  /\ tpc[s] = "woken"
  /\ IF struct[s].state < Canceling
       THEN /\ struct' = [struct EXCEPT ![s] = Canceled(@)]
            /\ Throw(s)
       ELSE /\ tpc' = [tpc EXCEPT ![s] = "run"]
            /\ UNCHANGED <<struct, acted>>
  /\ UNCHANGED <<free, clientVars, claimed, requested, early>>

(* The start routine returns, or calls pthread_exit. *)
Exit(s) ==
  /\ Goto(s, "run", "exit")
  /\ UNCHANGED <<struct, free, clientVars, claimed, history>>

(* pthread_win32_thread_detach_np: the destructors have run. *)
SetLast(s) ==
  /\ Goto(s, "exit", "last")
  /\ struct' = [struct EXCEPT ![s].state = Last]
  /\ Forget(s)
  /\ UNCHANGED <<free, clientVars, claimed>>

(* ... and detachState is read without the lock: a thread that was detached *)
(* destroys its structure, any other leaves it to join or detach.           *)
End(s) ==
  /\ tpc[s] = "last"
  /\ \/ /\ struct[s].detached
        /\ Destroy(s)
     \/ /\ ~struct[s].detached
        /\ Goto(s, "last", "ended")
        /\ UNCHANGED <<struct, free, claimed, history>>
  /\ UNCHANGED clientVars

(***************************************************************************)
(* pthread_cancel, the section under cancelLock.  The thread is suspended  *)
(* and made to throw, or left a request.  A suspended thread that turned   *)
(* out to have ended would leave cancelLock locked; it does not occur, as  *)
(* a thread is Last before it ends (StructsAccounted).                     *)
(***************************************************************************)
RequestCancel(s) ==
  LET r == struct[s] IN
  \/ /\ r.async /\ r.enabled /\ r.state < Canceling
     /\ tpc[s] # "ended"
     /\ struct' = [struct EXCEPT ![s] = Canceled(r)]
     /\ Throw(s)
     /\ UNCHANGED <<requested, early>>
  \/ /\ ~(r.async /\ r.enabled) /\ r.state < Pending
     /\ struct' = [struct EXCEPT ![s] = [r EXCEPT !.state = Pending, !.event = TRUE]]
     /\ requested' = [requested EXCEPT ![s] = TRUE]
     /\ early' = [early EXCEPT ![s] = @ \/ tpc[s] = "created"]
     /\ UNCHANGED <<tpc, acted>>
  \/ /\ IF r.async /\ r.enabled THEN r.state >= Canceling ELSE r.state >= Pending
     /\ UNCHANGED <<struct, tpc, history>>

CancelSelf(s) ==
  /\ tpc[s] \in {"run", "exit"}
  /\ RequestCancel(s)
  /\ UNCHANGED <<free, clientVars, claimed>>

(***************************************************************************)
(* The clients.                                                            *)
(***************************************************************************)
Issued == {h \in Slots \X (0..MaxReuse) :
             \/ h[2] < struct[h[1]].x
             \/ h[2] = struct[h[1]].x /\ tpc[h[1]] \notin NoThread}

Stale(h) == h[2] # struct[h[1]].x

Idle(c) == cpc[c] = "idle"

Work(c, op, h) ==
  /\ cpc' = [cpc EXCEPT ![c] = op]
  /\ target' = [target EXCEPT ![c] = h]

Return(c) == Work(c, "idle", NoHandle)

(* pthread_kill looks at the handle, and the reuse lock is given up. *)
Cancel(c, h) ==
  /\ Idle(c)
  /\ \/ Stale(h) /\ UNCHANGED clientVars
     \/ /\ ~Stale(h)
        /\ ~struct[h[1]].detached /\ ~claimed[h[1]]
        /\ Work(c, "cancel", h)
  /\ UNCHANGED <<struct, free, tpc, claimed, history>>

CancelTarget(c) ==
  /\ cpc[c] = "cancel"
  /\ RequestCancel(target[c][1])
  /\ Return(c)
  /\ UNCHANGED <<free, claimed>>

(* Mutant: also a thread that has ended is only marked. *)
DetachThreadMarking(c, h) ==
  /\ struct' = [struct EXCEPT ![h[1]].detached = TRUE]
  /\ Return(c)
  /\ UNCHANGED <<free, tpc, history>>

(* A thread that is not Last will destroy its structure itself. *)
DetachThread(c, h) ==
  /\ \/ /\ struct[h[1]].state # Last
        /\ struct' = [struct EXCEPT ![h[1]].detached = TRUE]
        /\ Return(c)
     \/ /\ struct[h[1]].state = Last
        /\ Work(c, "destroy", h)
        /\ UNCHANGED struct
  /\ UNCHANGED <<free, tpc, history>>

Refused(h) == Stale(h) \/ struct[h[1]].detached

(* pthread_join and pthread_detach look at the handle under the reuse lock; *)
(* pthread_detach holds it on.                                              *)
Claim(h) ==
  /\ ~Refused(h)
  /\ ~claimed[h[1]]
  /\ \A c \in Clients : target[c] # h
  /\ claimed' = [claimed EXCEPT ![h[1]] = TRUE]

Detach(c, h) ==
  /\ Idle(c)
  /\ \/ Refused(h) /\ UNCHANGED vars
     \/ Claim(h) /\ DetachThread(c, h)

Join(c, h) ==
  /\ Idle(c)
  /\ \/ Refused(h) /\ UNCHANGED vars
     \/ Claim(h) /\ Work(c, "join", h) /\ UNCHANGED <<struct, free, tpc, history>>

(* The client is cancelled in pthread_join: the thread can be joined again. *)
CancelJoin(c) ==
  /\ cpc[c] = "join"
  /\ claimed' = [claimed EXCEPT ![target[c][1]] = FALSE]
  /\ Return(c)
  /\ UNCHANGED <<struct, free, tpc, history>>

(* The wait for the thread is over, and pthread_join detaches it. *)
EndJoin(c) ==
  /\ cpc[c] = "join"
  /\ tpc[target[c][1]] = "ended"
  /\ DetachThread(c, target[c])
  /\ UNCHANGED claimed

(* pthread_detach waits for a thread that is Last. *)
DestroyTarget(c) ==
  /\ cpc[c] = "destroy"
  /\ tpc[target[c][1]] = "ended"
  /\ Destroy(target[c][1])
  /\ Return(c)

Step(s) == Start(s) \/ WakeByCancel(s) \/ ActOnWake(s) \/ SetLast(s) \/ End(s)

Choose(s) ==
  \/ SetCancelState(s) \/ SetCancelType(s) \/ TestCancel(s) \/ CancelSelf(s)
  \/ EnterWait(s) \/ EndWait(s) \/ Exit(s)

Finish(c) == CancelTarget(c) \/ EndJoin(c) \/ DestroyTarget(c)

Next ==
  \/ \E detached \in BOOLEAN : Create(detached)
  \/ \E s \in Slots : Step(s) \/ Choose(s)
  \/ \E c \in Clients : \/ Finish(c) \/ CancelJoin(c)
                        \/ \E h \in Issued : Cancel(c, h) \/ Detach(c, h) \/ Join(c, h)

Spec == Init /\ [][Next]_vars

(* A thread that is started, woken or ending runs on, as does a call that   *)
(* needs nothing from a client.                                             *)
Fairness ==
  /\ \A s \in Slots : WF_vars(Step(s))
  /\ \A c \in Clients : WF_vars(Finish(c))

LiveSpec == Spec /\ Fairness
----------------------------------------------------------------------------
TypeOK ==
  /\ struct \in [Slots -> Structs]
  /\ free \in Seq(Slots)
  /\ tpc \in [Slots -> Phases]
  /\ cpc \in [Clients -> {"idle", "cancel", "join", "destroy"}]
  /\ target \in [Clients -> (Slots \X Nat) \cup {NoHandle}]
  /\ claimed \in [Slots -> BOOLEAN]
  /\ requested \in [Slots -> BOOLEAN]
  /\ early \in [Slots -> BOOLEAN]
  /\ acted \in [Slots -> 0..2]

(* The thread a client was given still has its structure. *)
Live(h) == h[2] = struct[h[1]].x /\ tpc[h[1]] \notin NoThread

(* Every structure is in one place, whichever way exit and detach race: on  *)
(* the reuse list exactly if no thread uses it, once; never put there under *)
(* a client that still works on the thread; and never forgotten: a thread   *)
(* that was joined or detached has a client that will destroy its structure *)
(* or will do so itself.  A thread that has ended is Last, so that nobody   *)
(* is left with its cancelLock locked (pthread_cancel.c:153-170).           *)
StructsAccounted ==
  /\ \A s \in Slots : tpc[s] = "free" <=> \E i \in 1..Len(free) : free[i] = s
  /\ \A i, j \in 1..Len(free) : free[i] = free[j] => i = j
  /\ \A c \in Clients : cpc[c] # "idle" => Live(target[c])
  /\ \A s \in Slots :
       claimed[s] => \/ struct[s].detached
                     \/ \E c \in Clients : target[c] = <<s, struct[s].x>>
  /\ \A s \in Slots : tpc[s] = "ended" => struct[s].state = Last /\ ~struct[s].detached

(* A request that pthread_cancel accepted is acted upon once: until then it *)
(* stays in the event (or the thread has just been woken by it, and acts:   *)
(* "Should never get to here", w32_CancelableWait.c:128), and a thread that *)
(* has acted, and runs its clean-up handlers, does not act again.  As long  *)
(* as the event is set the state says that a request is pending, on which   *)
(* pthread_testcancel relies (pthread_testcancel.c:77-81).  The last two    *)
(* are not true of a request from before the start of the thread, whose     *)
(* pending state the start overwrites (ptw32_threadStart.c:161).            *)
RequestActsOnce ==
  \A s \in Slots :
    tpc[s] \notin NoThread =>
      /\ requested[s] /\ acted[s] = 0 /\ struct[s].state # Last
            => struct[s].event \/ tpc[s] = "woken"
      /\ tpc[s] = "woken" => struct[s].state < Canceling
      /\ acted[s] > 1 => early[s]
      /\ tpc[s] \in {"run", "exit"} /\ struct[s].event => struct[s].state = Pending \/ early[s]

(* The structure of a thread that ends and was joined or detached comes     *)
(* back, unless the join was cancelled.                                     *)
Released(s) ==
  /\ tpc[s] \in {"exit", "last", "ended"}
  /\ struct[s].detached \/ claimed[s]
StructIsFreed == \A s \in Slots : Released(s) ~> ~Released(s)
=============================================================================
