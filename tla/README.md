# A verification model of `win_pthreads`

This directory is a TLA+ model of `win_pthreads`, the POSIX threads library for
Windows (pthreads-win32 2.9.1 with OpenRV's 64-bit changes) that is part of the
open source packages of OpenRV. The other directories of the repository are
libraries for images, fonts, numerics and files; `PROJECT.json` lists each one
with the reason it is not modelled. `win_pthreads` was chosen because it is the
one whose correctness is about interleavings, cancellation, timeouts and limits,
and on which the rest of a multi-threaded program stands.

## 1. Inventory

| part | files | state | operations | what is hard |
|---|---|---|---|---|
| mutex | `pthread_mutex_{lock,trylock,timedlock,unlock}.c` | `lock_idx`, `recursive_count`, `ownerThread`, `kind`, auto-reset event | lock, trylock, timedlock, unlock | newcomers erase the mark of waiters; owner fields are read without a lock; timeouts |
| mutex life cycle | `pthread_mutex_{init,destroy}.c`, `ptw32_mutex_check_need_init.c` | the handle, static initialiser values | init, destroy, first use of a static mutex | destroy against first use and against unlock |
| semaphore | `sem_*.c`, `ptw32_semwait.c` | `value` (negative: number of waiters), Windows semaphore, mutex | wait, timedwait, trywait, post, post_multiple, init, destroy | a post between the end of a wait and its clean-up |
| cancelable wait | `w32_CancelableWait.c` | thread's cancel event and state | wait for an object, a timeout or a cancel request | all three at once |
| queue lock | `ptw32_MCS_lock.c` | pointer to the last node, nodes on stacks with two flags | acquire, release | a successor that is still linking itself; 8-byte operations on 4-byte flags |
| once | `pthread_once.c` | `done`, a queue lock | once | cancellation in the routine |
| barrier | `pthread_barrier_*.c` | current and initial height, step, two semaphores | init, wait, destroy | threads of two rounds at once; counter reset after it reaches zero; 8-byte decrement |
| condition variable | `pthread_cond_*.c` | three counters, two semaphores, a mutex | wait, timedwait, signal, broadcast, init, destroy | timed-out and cancelled waiters against signals; destroy against late waiters |
| read-write lock | `pthread_rwlock_*.c` | three counters, two mutexes, a condition variable | rdlock, wrlock, try and timed variants, unlock | a cancelled writer; completed readers counted apart |
| spin lock | `pthread_spin_*.c`, `ptw32_spinlock_check_need_init.c` | the handle, `interlock`, a mutex on one processor | init, first use, lock, trylock, unlock, destroy | the handle is read several times without the section that changes it; first uses against destroy |
| threads | `create.c`, `ptw32_threadStart.c`, `pthread_{exit,join,detach}.c`, `ptw32_{new,reuse,threadDestroy}.c` | thread structure, reuse stack, state | create, run, exit, join, detach, attach | detach against exit; reuse of structures |
| cancellation | `pthread_cancel.c`, `pthread_setcancel*.c`, `pthread_testcancel.c` | state, type, cancel event, `cancelLock` | cancel, set state, set type, test | asynchronous cancellation of a thread that ends |
| thread-specific data | `pthread_key_*.c`, `ptw32_tkAssoc*.c`, `ptw32_callUserDestroyRoutines.c` | associations on two chains, two kinds of locks | create, delete, set, destructors | key deletion against thread exit |
| time | `ptw32_relmillisecs.c`, `ptw32_timespec.c`, `pthread_delay_np.c` | none | conversions | 32-bit truncation |

The parts stand on each other: the semaphore guards its counter with a mutex,
the barrier and the condition variable use semaphores, the read-write lock uses
mutexes and a condition variable, once and the static initialisers use queue
locks or mutexes, and every wait may end by cancellation.
The hazards, each at its line, are in `PROJECT.json`.

## 2. Plan

Modules in the order they were written; each one stands on what the ones before
it have shown.

| module | models | stands on | state |
|---|---|---|---|
| `Lock` | what a mutex promises: who holds it, how often | | done |
| `Mutex`, `MutexProofs` | mutex, instruction by instruction; proofs | implements `Lock` | done |
| `CountingSemaphore` | what a semaphore promises: permits | | done |
| `Semaphore`, `SemaphoreProofs` | counter, Windows semaphore, clean-ups of waits | implements `CountingSemaphore`; its lock is a `Lock` | done |
| `MCSLock`, `Once`, `OnceProofs` | the queue lock under its client `pthread_once` | | done |
| `Barrier`, `BarrierProofs` | counter and two semaphores | `CountingSemaphore` | done |
| `CondVar`, `CondVarProofs` | condition variable, clients' mutex | two instances of `Semaphore`, two `Lock`s | done |
| `ReadersWriter` | what a read-write lock promises | | done |
| `RWLock`, `RWLockProofs` | counters, readers, writers, a writer that gives up | implements `ReadersWriter`; `Lock`, the promise of `CondVar` | done |
| `Thread`, `ThreadProofs` | create, run, exit, join, detach, reuse, cancellation | the outcomes of a wait as in `Semaphore` | done |
| `ThreadKeys`, proofs in `ThreadProofs` | keys, two chains, two locks, destructors | `Lock` | done |
| `SpinLock`, `SpinLockProofs` | static initialisation, lock, destroy | implements `Lock` | done |
| `StaticInit` | life cycles of mutex, semaphore, barrier: destroy against users | `Lock` | open |
| `TimeOut` | conversions of times modulo 2^32 | | open |

Every safety property of the runs that pass is a theorem (section 5). An abstract
condition variable, a set of waiters of which a signal frees one, is still to be
stated and `CondVar` shown to implement it; `RWLock` uses that promise by its
actions.

## 3. Modules

Each module begins with what it models. Three conventions hold in all of them.

*Steps.* `pc[t]` says where thread `t` is inside a call; an action is one access
to shared state with the local work around it. An interlocked instruction, a
call into the Windows kernel and an unprotected read of a shared field are
actions of their own. A section that holds a mutex of the library from end to
end is one action; `Mutex` shows that such sections exclude each other.
Where a mutex is kept from one such section to the next, or across a wait, its
owner is a variable (`guard` of `CondVar`, `ex` and `sac` of `RWLock`, `keyLock`
and `threadLock` of `ThreadKeys`).

*Clients.* Threads call any operation at any time within the rules the code
itself states. The rules used are in the header comment of each module.

*Mutants.* A definition whose comment begins with "Mutant" is the definition
after it with a bug put in. No specification uses it; `PROJECT.json` says which
property tells it from the real one.

### `Mutex`

`kind`, `lockIdx`, `event`, `owner`, `count` are the fields of
`pthread_mutex_t_`; `held` and `ret` record what each client was granted and was
last told. `LockNormal` and `LockOwned` are the first exchange of a lock or a
timedlock for a mutex without and with an owner, `CheckOwner` the unprotected
read of `ownerThread`, `Swap` the loop's exchange of -1, `Wake` and `TimeOut`
the end of a wait on the event, `Own` the two assignments after the mutex is
taken; `TryLock`, `TryCheckOwner`; `UnlockNormal`, `UnlockFree`, `UnlockOwned`,
`Disown` and `Release` are the assignments and the exchange of unlock, `Signal`
its `SetEvent`. The event is auto-reset. `LockImpl` maps the mutex to `Lock` by
`held` alone: exactly the steps that return to a client, and the exchange that
frees the mutex, are steps of the abstract lock.

### `Semaphore`

`value` is the counter, negative by the number of waiters, `tokens` the count of
the Windows semaphore, `call` the kind of wait. `Wait` is the decrement, `Wake`,
`Cancel` and `TimeOut` the three ways the wait on the handle ends (a token wins
over the other two, `w32_CancelableWait.c`), `TimedCleanup` and `WaitCleanup`
the two clean-up handlers, which differ in the code, `Add` what posts do.
`Permits`, the refinement mapping, counts a token as a permit that was given to a
waiter and not yet taken, and a negative counter as none.

### `MCSLock` and `Once`

`tail` is the lock, `next` and `flag` are the nodes, `event` the event a thread
sleeps on while its handle is in a flag. Flags are 4-byte words with a third
word after them, because the Win64 build accesses them 8 bytes at a time (`Span`).
Labels are parameters, so that `Once` runs the code of the lock inside its own
control; `MCSLock` has actions and no specification of its own. `InitCancelled` is
the clean-up handler of a cancelled routine. A node is in its caller's stack frame,
so that `pc[t] = "returned"` is also the end of the node of t. Two properties speak
of that: `LinksNodeInUse` (a thread that is about to link itself has a predecessor
that is still there) holds, `MarksNodeInUse` (and so has one that is about to set its
predecessor's `nextFlag`) does not, see the findings.

### `Barrier`

`current` and `initial` are adjacent words; `permits` are the two semaphores,
`step` the local variable that selects one. `ReadStep`, `Decrement`, `Reset`,
`PostAll`, `SemWait` and `Cross` are the six accesses of
`pthread_barrier_wait` in their order; `Decrement` is modulo the word, or modulo
the double word in the Win64 build.

### `CondVar`

`blocked`, `gone` and `toUnblock` are the three counters; `Gate` and `Queue` are
`Semaphore` with the variables `gate...` and `queue...`, so that every wait of
the condition variable may be cancelled, time out or be woken exactly as a
semaphore's waits are. A waiter goes through `Wait`, `Count`, `Admit` (the
gate), `Release` (the clients' mutex), `Block` (the queue), then `Retract` or
`Leave` (its clean-up: it was announced to be unblocked, or nobody announced
it), `Drain` and `Reopen` (the gate again) and `Relock`. A signal or broadcast
is `UnblockMore`, or `CloseGate` and `Unblock`, and then `PostQueue`. A
destroyer is `TryDestroy` and then `Destroy` or `DestroyBusy`. By the client's
rule a destruction does not succeed while another thread is inside a signal or
broadcast (`~Signalling`). The example at `pthread_cond_destroy.c:95-98` destroys
after it has unlocked the clients' mutex: its own broadcast has returned by then,
but that nobody else is inside one is left to the program.

### `RWLock` and `ReadersWriter`

`ex` and `sac` are the holders of `mtxExclusiveAccess` and
`mtxSharedAccessCompleted`, `nShared`, `nExcl` and `nCompleted` the three counts.
`ReadLock` is an arrival of a reader with the settlement at `INT_MAX`; a writer is
`WriteLock` (it has `ex`), then `CountReaders`, which lets it in (`Exclude`) or
turns the second counter negative, and then a wait: `UnlockShared` of the last
reader signals, `WakeSpuriously` and `GiveUp` are the other ends a wait of `CondVar`
may have, `EndWait` and `Recheck` the loop, `CancelWrWait` the clean-up handler
`ptw32_rwlock_cancelwrwait`, which takes the readers that are left back to the
other counter. `Unlock` decides by the unprotected read of `nExclusiveAccessCount`
between `UnlockShared` and `UnlockExclusive`, `FreeEx`. `TryDestroy` and `Destroy`
are the two halves of destruction. `ReadersWriter` is any number of readers or one
writer; the mapping is by what clients were granted (`held`).

### `Thread`

A structure has the reuse counter `x`, `state`, `detached`, cancelability
(`enabled`, `async`) and `event`; `free` is the reuse list, `tpc` where the thread
is and `cpc`, `target` what a client does to which handle. A handle is a structure
and a value of `x`, and clients use every handle ever issued: `Stale` ones are
refused as in `pthread_kill`. `Create`, `Start`, `Exit`, `SetLast` and `End` are the
life of a thread: `SetLast` and `End` are apart because the thread sets
`PThreadStateLast` under `cancelLock` and then reads `detachState` without it, and
a `DetachThread` may come between. `Join`, `EndJoin`, `CancelJoin` and `Detach`,
`DetachThread`, `DestroyTarget` are the clients. `Cancel` is the check of the
handle and `CancelTarget` the section under `cancelLock`, `RequestCancel` its
deferred and its asynchronous branch. On the thread's side are
`SetCancelState`, `SetCancelType`, `TestCancel`, `CancelSelf` and a wait:
`EnterWait`, `EndWait`, `WakeByCancel` (the event is reset) and only then
`ActOnWake` (under `cancelLock`). `requested`, `early` and `acted` record what
was accepted and done; nothing depends on them. The client's rule for `Cancel`, that
the thread is neither detached nor claimed by a join or a detach, is wider than
`pthread_join.c:71` (a detached thread cannot be joined or cancelled): it also leaves
out the cancellation of a thread that another client is joining, so that a structure
given back between the check of the handle and its use is out of reach.

### `ThreadKeys`

`keys[t]` and `threads[k]` are the two chains, `value` whether the thread has a
value for the key (a value itself plays no part), `nextAssoc` the next association
of a walk. `LockKey`, `Associate`, `UnlockKey` and `SetValue` are
`pthread_setspecific`; `Delete`, `LockChain`, `DeleteAssoc`, `UnlockChain` and
`FreeKey` are `pthread_key_delete`, whose loop condition is read without the
lock. An exit is `CallUserDestroyRoutines`, then `BeginPass`, `LockNext`, then `TryFails` (both locks are given up,
and the thread comes again) or `TakeValue`, `RemoveAssoc`, `LeaveAssoc`, with the
destructor between `TakeValue` and `EndDestructor`, in which the thread calls any
operation again; `EndPass` starts the next pass or ends. `Without` and `NextKey` are
what unlinking does to a doubly linked chain and the link that is followed; an
association is on its chains once. The specification is `KeysSpec`: `ThreadProofs`
extends this module and `Thread`, whose names are kept apart.

### `SpinLock`

`lock` is the handle: the static value, null or an allocated object. The section
under `ptw32_spinlock_test_init_lock` is one action (`FirstUse`, `DestroyStatic`),
but the handle is read outside of it, once in `Look` and once more in `Load`. An
object spins or, on one processor, is a mutex; how many processors there are is
asked for each. Initialisation may fail (`MakeFails`), with the two results the
code has. A null handle that passed the tests is used: label `fault`, which ends
the process and thereby the behaviour.

## 4. Runs

Deadlock is checked in `mutex`, `thread` and `rwlock`. In the other runs a system
may stop by right: every thread waits for a post nobody owes it (semaphore), has
made all its calls (once, barrier) or has ended (thread_keys), the gate is gone
(condvar, see the findings), or a null handle was used (spin_lock).

| run | shows |
|---|---|
| `mutex` | exclusion, no lost wake-up, true owner fields and error codes, refinement of `Lock`; waiters get a free mutex, and are signalled unless newcomers overtake them |
| `semaphore` | no waiter loses its post, every permit is given by a post and taken once (refinement of `CountingSemaphore`), the end of a wait makes none, a waiter whose post came returns; both kinds of waits are cancelled, timed ones time out |
| `once` | the queue lock excludes, a successor links itself only to a node in use, the routine runs once, every call returns (4-byte flags) |
| `once_win64` | violation: with 8-byte flags the queue lock does not exclude |
| `once_late_mark` | violation: a successor marks the node of a call that has returned |
| `barrier` | rounds stay together, one serial thread each, all rounds end (4-byte decrement) |
| `condvar` | counters, gate and wake-ups are consistent, destruction finds nobody inside, a broadcast wakes all its waiters, requests return |
| `condvar_gate_cancel` | violation: a thread cancelled at the gate takes it away |
| `rwlock` | the counters of readers tell who is in, a writer is alone, the `EBUSY` branches that would leave mutexes locked are unreachable, destruction finds nobody, refinement of `ReadersWriter`, no starvation of a writer by readers |
| `thread` | every structure is on the reuse list once or in one hand, whichever way exit races with detach and join; a request to cancel is acted upon once, and `pthread_testcancel` sees it unless it was made before the thread started; structures of joined and detached threads come back |
| `thread_keys` | the walk of an exiting thread is safe against deletions, freed keys are in nobody's hands, an exit leaves nothing behind, the two lock orders do not deadlock and exits end |
| `spin_lock` | a held lock is not replaced or destroyed, first users of a lock that is destroyed get an error, refinement of `Lock` |

The type invariants of mutex, semaphore, thread, once, barrier, condition variable
and spin lock are part of what is proved (section 5) and are not run again.

In `condvar` a thread may be cancelled at the gate like anywhere else. The three
invariants and `BroadcastWakesAll` hold all the same; `GateIsKept` (the gate is not
lost) and `RequestsReturn` are stated for behaviours in which nobody is cancelled
while it waits for the gate (`GateUndisturbed`), because `condvar_gate_cancel`
refutes them otherwise.

### Bounds

* Three threads. Every argument in these components is about a thread, the one
  that hands over to it and one that comes between; the third thread is the
  newcomer of the mutex, the successor that is still linking itself in the queue
  lock, the destroyer of a static spin lock. `condvar` has one thread
  that only waits, one that only signals and destroys and one that does both:
  two waiters of one broadcast, one of which comes back before the other has
  left, and two requests at once.
  `condvar_gate_cancel` has four threads with all roles. `barrier` has four
  threads: the first, the last and two between that may overtake each other;
  `rwlock` has four: two readers of which the second is the last to leave, the
  writer they keep waiting and a newcomer.
* `MaxShared` 6 stands for `INT_MAX`: readers that come and go reach it, while it
  is more than the threads that can be inside at once (an assumption).
* `thread`: two structures, each used twice (`MaxReuse` 1), so that a handle is
  stale while its structure belongs to another thread, and one client that
  holds all handles; the threads cancel themselves too.
* `thread_keys`: two threads and two keys, the least with which two chains
  cross; one pass more than the first (`Iterations` 1), and two sets by running
  threads (`MaxSets`); sets from destructors are not bounded otherwise.
* `spin_lock`: two allocations, the second after the first was destroyed.
* `MaxDepth` 2: the first and one further acquisition of a recursive mutex.
* `MaxValue` 3 with counts 2 and 3 and initial value 1: posts reach fewer, as
  many and more threads than wait, and the limit. In `CondVar` it is 6 and never
  reached, as `SEM_VALUE_MAX` is not by the waiters of a process.
* `GoneMax` 2 stands for `INT_MAX/2`: the waiters of the model reach it.
* `WordSize` 8 stands for 2^32; it is larger than every count that is meant to
  fit. `Rounds` 4: each of the two semaphores of a barrier is used twice.
* `CancelEarly` in `CondVar` leaves one unused wake-up in the queue and not a
  second: without the bound the value of the queue has none. The theorems are about
  the specification with this bound.
* `barrier` has as many threads as the count, and 4-byte words. Two of its
  component's hazards are therefore out of its reach: an arrival between the last
  decrement and the reset of the counter (`pthread_barrier_wait.c:61`) takes more
  threads than the count, and the decrement of the Win64 build
  (`pthread_barrier_wait.c:55`) takes `Win64`. No property of the project covers
  either; both are among the remarks of section 6.

### Fairness

Weak fairness for the steps of a thread inside a call: the Windows scheduler
runs every ready thread. A thread is never obliged to begin a call, with one
exception in `Barrier`, where a thread with calls left makes them (a barrier is
for threads that do come). Strong fairness where a shared resource is given and
taken again and again:

* in `Mutex`, clients that return to the mutex unlock it in the end, at each
  depth of their recursion (`held[t] = n /\ Unlock(t)`). This is an assumption on
  clients, without which no lock is live;
* in `CondVar`, for a waiter at the gate, because the Windows semaphore hands
  a token to a thread that is waiting on it, and for a waiter that leaves and
  needs `mtxUnblockLock`, which its holders give back after a bounded section.

* in `RWLock`, clients unlock what they hold (weak), which is what a writer waits
  for;
* in `Thread`, weak fairness for what a thread or a call does by itself: start,
  wake, end, and the completion of joins, detaches and cancellations. Nobody is
  obliged to exit or to join;
* in `ThreadKeys`, strong fairness for a thread that waits for a lock and for the
  return of a destructor. The exiting thread gives up its own lock and sleeps when
  it fails to get the second (line 130), so that the lock is free again and again
  for as long as anybody wants it, and Windows events hand it to one who waits.
  Returning is an assumption on clients.

`SpinLock` claims no liveness: a spinning thread has no place in a queue.

Nobody is obliged to be cancelled, or to time out, with these exceptions, which
are stated because a step that ends a wait in either way is part of a thread's
steps:

* in `Mutex`, a thread that waits with a timeout for a NORMAL mutex which it holds
  itself times out in the end: nobody else may set the event for it. All other
  timed waits may last for ever (`Fairness` asks for a step of a thread that waits
  only when its event is set or when it is the holder). `WaiterIsSignalled` needs
  this for the holder's own wait and for what waits behind it;
* in `Once`, the routine ends, by its return or by its cancellation; which of
  the two is left open;
* in `Barrier`, `RWLock`, `Thread`, `ThreadKeys`, `Semaphore` and `CondVar` there is
  none. The strong fairness at the gate of `CondVar` is about a thread for which the
  gate's semaphore has a token; it asks nobody to be cancelled there, and a token
  wins over a cancellation.

For a NORMAL mutex the code does not promise more than the property
`WaiterIsSignalled` says: newcomers overwrite -1 with 1, so that an unlock that
finds 1 signals nobody, and a waiter can be overtaken again and again.

## 5. Proofs

`MutexProofs` proves, for every set of threads and every recursion bound, the
five safety invariants of the run `mutex` and that the mutex implements `Lock`.

`MutualExclusion` and `OwnerTracksHolder` are not inductive. The first speaks of
threads that hold the mutex, and whether a thread is about to hold it follows
from where it is and from the kind of mutex; the second is silent on a thread
between the instructions of a call, where `ownerThread` is stale on purpose. The
inductive invariant is

    LockInv == TypeOK /\ ControlInv /\ OwnerInv /\ MutualExclusion

with `ControlInv` (which labels occur for which kind; a NORMAL mutex is held at
most once) and `OwnerInv` (owner, count and depth at every label). `TypeStep`
and `LockStep` show that a step preserves it, one case per action.
`NoLostWakeup` and `ErrorsAreTrue` are each inductive relative to `LockInv`
(`WakeupStep`, `ErrorStep`). `RefineStep` maps every step to a step of `Lock` or
to a stutter; that the exchange which takes the mutex and the return to the
client are two instructions is where `OwnerInv` is needed. Assumed are only
`NullAssumption` and `DepthAssumption` of `Mutex`.
`SemaphoreProofs` does the same for the semaphore, for every set of threads, every
initial value and every limit. Each step is first reduced to its effect on three
numbers, the counter, the tokens and the count of waiters (`Effects`; the lemmas
on cardinalities are used there and nowhere else), and the invariants then follow
by arithmetic. `NoStrandedWaiter` holds whichever waits may be cancelled. It is
inductive together with `CallInv` (a clean-up runs only in a wait that has it) and
`DeadInv` (nobody waits in a destroyed semaphore), and the type invariant needs it:
that a waiter which leaves does not take the counter past its limit is true only
because the counter is negative then. The refinement of `CountingSemaphore` and
`WaitsMakeNoPermits` follow from `SemInv` alone, for the same reason: a wait that
ends without a token finds the counter negative, where it is not a permit that
the clean-up gives back. `Conservation`, that counter, Windows semaphore and waiters
agree, is proved under the hypothesis that no `sem_wait` is cancelled (`"wait"
\notin CancelIn`); without it it is false (section 6), and the semaphore is a
counting semaphore all the same. Assumed are the named assumptions of `Semaphore`.

`OnceProofs` proves for every set of threads that the queue lock excludes, that
a successor links itself only to a node in use, and that the routine runs
once. That one thread holds the lock does not say who is about to be given it:
the inductive invariant follows the queue. A queued thread is at its `Front` (it
holds the lock, or its predecessor has set its flag, whether it has seen that or
not) or `Behind` another, its predecessor. `PredInv` says that at most one
thread is behind each and nobody behind the tail, `FrontInv` that one is at the
front, `NextInv` that a link, where it is there, leads to the thread behind, and
`FlagInv` what the flags say at each label, and `NextFlagAfterNext` that a node is marked only
after the link is there. Steps that change none of this are
dealt with together (`QuietStep`). Assumed is `~Win64`: `once_win64` shows that the
theorem is false without it.

`BarrierProofs` proves that rounds stay together and have one serial thread, for
every count and as many threads (`Cardinality(Threads) = Height`), and any number
of rounds. The counter, the semaphores and the step are used again in each round,
so that the invariant has to name it: `BarrierInv == TypeOK /\ \E k : RoundInv(k)`.
In round k each thread is `Coming`, `Inside` or still `Leaving` the round before, by
the other semaphore, whose permits are as many as sleep at it (`PermitInv`);
`CountInv` has the counter as what is missing of the arrivals. One action, `PostAll`,
moves from k to k + 1, and one lemma says so. Assumed besides: `~Win64` and the named
assumptions.

`RWLockProofs` proves for every finite set of threads and every limit above their
number that the counters are true, that a writer is alone, that destruction
finds nobody, and the refinement of `ReadersWriter`. `CountInv` states the
difference of the counters in the two cases, with and without a writer waiting,
and that the writer who waits is due a signal; it needs `MutexInv`, who has which of
the two mutexes at which label, and they are inductive together with `TypeOK` and
`DestroyedIsUnused`. The cardinality of the readers is moved by one lemma
(`ReadersMove`).

`ThreadProofs` proves for every set of structures and clients that structures are
accounted for and requests acted upon once. `ThreadInv` has a part for each
structure (`PhaseInv`, what the phase of the thread says about its fields;
`EventInv`, where a request is), one for each client (`ClientInv`: the thread it
works on is still there), and `ClaimInv` and `FreeInv` across them. Steps of a
thread on its own structure (`FieldStep`, `ActStep`, `PhaseStep`) are apart from
those that give a structure away or take it back (`CreateStep`, `DestroyStep`,
`EndStep`).

`SpinLockProofs` proves for every set of threads and number of allocations that a
held lock stays, that first users are answered, and the refinement of `Lock`.
`HeldIsThere` does not know that a call works on the object the handle still
points to (`UseInv`), nor that the one whose exchange took the lock is alone
before it says so (`TakenInv`); `AskInv` is what the section leaves to its callers.

`CondVarProofs` proves for every finite set of threads, any of which wait or
request, and every limit of the counters that the counters account for the
waiters, that wake-ups cover those announced, that destruction finds nobody, and
that the gate is kept. Gate and queue are semaphores, and nothing about them is
proved again: `SemaphoreProofs` is instantiated for each, the assumptions of its
parameters are shown (`GateAssumptions`, `QueueAssumptions`), and every step of the
condition variable is, for each of the two, a step of a semaphore or a stutter
(`SemSteps`), which keeps `SemInv`. The inductive invariant is

    CVInv == OwnTypes /\ Semaphores /\ ControlInv /\ GoneInv /\ CountInv
               /\ DeadInv /\ DestroyedIsUnused

`Accounting` is not inductive: it does not know that a thread which read the
counters under `mtxUnblockLock` and then waited for the gate still finds nobody to
be unblocked. `ControlInv` says so, and which thread waits where and who owns the
mutexes; `GoneInv` that the count of gone waiters is at its limit only while a thread
settles it. `GateInv`, that the gate is in at most one place, does not depend on who
is cancelled: a step moves the gate, and only the end of a cancelled wait at the gate
may lose it (`GatesStep`, `CleanupShare`; that this clean-up makes no second gate is
`NoStrandedWaiter` of the gate's semaphore). With it a destroyer that has the gate
and finds nobody counted is alone (`DestroyAlone`), and that in turn is why nobody
waits in the semaphores it destroys (`SemaphoresStep`), so that all parts are
inductive together. The sets behind the sums, of waiters and of announced wake-ups,
change by one or by what a request announces (`MoveCounted`, `MoveWoken`, `Announce`).
`GateExclusion` states what `GateInv` means: whoever is cancelled, at most one thread
has the gate and nobody while it is closed. That it is in exactly one place
(`GateKept`) is proved for behaviours without a cancellation at the gate, which is
the hypothesis of the property; `condvar_gate_cancel` shows that it cannot be
dropped. Assumed are the named assumptions of `CondVar`.

The second part of `ThreadProofs` proves the four invariants of `thread_keys` for
every set of threads and keys and every limit on passes. None is inductive.
`WalkIsSafe` knows neither that both chains say the same nor that an association
is on a chain once, without which the successor of one that is taken out might be
the same again (`ChainInv`, and the lemmas on chains that it rests on:
`WithoutRemoves`, `NextIs`, `PrependAdds`). `FreedIsUnused` needs to know who has
which lock (`LockInv`: an exiting thread that visits an association has the key's,
so that the key is not freed), and that a key which is being deleted has one
deleter and no setter (`OpInv`). `ExitIsComplete` rests on `WalkInv`: in a pass that
has met no value the next association is the first of those left, so that the
chain is empty when such a pass ends; and on `AssocInv`, that a value whose key is
alive has its association. `KeysInvStep` has one lemma per action; the two ways in
which chains change have lemmas of their own (`Destroyed`, `Created`). Assumed are the
named assumptions of `ThreadKeys`.

Only model-checked, and not proved: the liveness properties (`WaiterIsSignalled`,
`PostedWaiterReturns`, `CallsReturn`, `AllRoundsPass`, `BroadcastWakesAll`,
`RequestsReturn`, `WriterGetsIn`, `StructIsFreed`, `ExitsAndDeletionsEnd`), which
rest on fairness and ENABLED, out of the prover's reach; and the violations, which
the Win64 builds are among.

## 6. Findings

Each of these three is a run whose counterexample is the evidence; the quoted
line and the reasoning are in `PROJECT.json`.

1. `ptw32_MCS_lock.c:110` (`once_win64`): the Win64 build accesses 4-byte flags 8
   bytes at a time; two threads can hold the queue lock.
2. `pthread_cond_wait.c:384` (`condvar_gate_cancel`): a thread cancelled at the gate
   can take the gate away. Its wait has ended by cancellation; the gate is posted;
   another thread comes to the gate and waits; then the clean-up of the cancelled
   `sem_wait` finds the post and consumes it, as its comment (`sem_wait.c:55-60`)
   says. For a semaphore that counts permits that is right; for the gate it means that
   the cancelled thread has the gate, and as line 384 waits before any clean-up
   handler is pushed, nobody gives it back. The test at `sem_wait.c:61`, of the counter
   where its comment means the handle, has a part in it only as far as it leaves the
   post alone when nobody else waits; with the test as meant the gate would be
   lost in that case too.
3. `ptw32_MCS_lock.c:200` (`once_late_mark`): a thread that queues up links itself to
   its predecessor's node (line 199) and then sets that node's `nextFlag` (line 200).
   A releaser that already sees its successor (line 224) does not wait for the flag:
   it passes the lock on (line 259), returns, and its node, a variable of its stack
   frame, is gone when the flag is set. The comment of the file has nodes local to the
   thread (lines 41-42) and lets a thread use one for its next lock (lines 61-64).

The following came up in modelling and have no run of their own.

* `sem_wait.c:61`: with the counter at 0 the clean-up of a cancelled `sem_wait` does
  nothing, and the token of a post stays for a later waiter (`Conservation` fails
  with `"wait"` in `CancelIn`). No permit is lost or made, as the run `semaphore` and
  the proofs show, but the counter is one too low from then on: `sem_trywait` and
  `sem_getvalue` do not see the permit, and once it is taken `sem_destroy` answers
  `EBUSY` for a semaphore nobody waits on.
* `ptw32_threadStart.c:161`: a thread that starts overwrites the state of a
  cancellation that came before, so that `pthread_testcancel` does not see it
  (against the comment of `pthread_testcancel.c:77-81`, by which the event is set only
  with the state). The event stays set, and a later wait acts on it.
  `RequestActsOnce` excepts such requests by its `early[s]`; without the exception
  `thread` finds it violated.
* `pthread_barrier_wait.c:55`: the Win64 decrement takes the initial height as the
  upper half of the counter, and no thread is ever the last. With `Win64 = TRUE` in
  `MCBarrier.cfg`, `AllRoundsPass` fails.
* `pthread_barrier_wait.c:61`: the counter is reset after it reaches 0, and an
  arrival between the two is lost. It takes more threads than the count.
* `pthread_spin_lock.c:44-59`: the handle is read several times. A static lock
  that is destroyed between two reads by a thread that may do so, or whose
  initialisation fails by another thread's lack of memory, is used as a null
  pointer (label `fault`). `WaitersGetAnError` holds for those that came to the
  section.
* `pthread_cancel.c:100`: the handle is checked under one lock and used under
  another. The client rule of `Thread` (no cancellation of a detached thread)
  keeps the structure in place between the two; nothing in the code does.

## 7. Not modelled

Within the modelled parts:

* failures of allocation and of the creation of Windows objects, except in
  `SpinLock`; the error returns of Windows calls that cannot fail on the library's
  own handles; the build with `NEED_SEM` (Windows CE);
* static initialisers of mutex, condition variable and read-write lock. They are
  the protocol of `SpinLock` with other objects;
* the timeout of `pthread_rwlock_timedrdlock` while it settles the counters at
  `INT_MAX`;
* threads that Windows created and `pthread_self` adopts, start and end of the
  process, the stack of clean-up handlers, and the C++ and SEH builds of
  `ptw32_throw`;
* keys without a destructor, which have no associations;
* the lists that link all condition variables or barriers, and what a client
  does that POSIX leaves undefined, such as destroying an object in use.

Parts of `win_pthreads` without a module: destruction of barriers, the clock
change handler, and the conversions of time, which are sequential arithmetic
and next in the plan; attributes, scheduling and queries, which are getters and
setters of single fields.

The other directories of the repository are third-party
libraries for numerics, parsing, drawing and files, without concurrency of their
own except `gc` and `nedmalloc`, which are candidates for later modules.
