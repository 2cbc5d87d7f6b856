----------------------------- MODULE ThreadKeys -----------------------------
(***************************************************************************)
(* Thread-specific data in win_pthreads (pthread_key_*.c,                  *)
(* pthread_setspecific.c, ptw32_tkAssoc*.c), for keys with a destructor.   *)
(* A thread that set a key has an association, which is on the chain of    *)
(* the thread and on the chain of the key.  It is guarded by the key's     *)
(* lock and the thread's lock, taken in this order, except by a thread     *)
(* that exits (ptw32_callUserDestroyRoutines.c): it holds its own lock and *)
(* tries the key's, or gives up both and comes again, while deletions of   *)
(* keys take associations out of the chain it walks.                       *)
(*                                                                         *)
(* The locks are mutexes (module Mutex).  A section under a thread's lock  *)
(* is one action, except where the exiting thread keeps it for its try.    *)
(* A key is given to one pthread_key_delete, while nobody sets it and      *)
(* nobody will again; its memory is not used for another key.              *)
(***************************************************************************)
EXTENDS Integers, Sequences

CONSTANTS
  Threads,      \* the threads, each of which exits at most once
  Keys,         \* the keys' structures
  Iterations,   \* PTHREAD_DESTRUCTOR_ITERATIONS
  MaxSets,      \* bound: how often keys are set by threads that run
  Unlocked,     \* nobody holds the lock
  NoKey         \* NULL

ASSUME NoneAssumption       == Unlocked \notin Threads /\ NoKey \notin Keys
ASSUME IterationsAssumption == Iterations \in Nat /\ MaxSets \in Nat

VARIABLES
  kstate,       \* what has become of each key
  keys,         \* thread->keys: the thread's chain, by key
  threads,      \* key->threads: the key's chain, by thread
  value,        \* whether the thread's value is not NULL
  keyLock,      \* holder of each key's lock
  threadLock,   \* holder of each thread's lock between actions
  nextAssoc,    \* thread->nextAssoc: the next association to visit
  pc,           \* where a thread that exits is
  iterations,
  remaining,    \* assocsRemaining is not 0
  op,           \* where a thread is in pthread_setspecific or pthread_key_delete
  opKey,        \* the key it sets or deletes
  visited,      \* the key whose association is visited
  sets          \* how often threads that run have set a key

locks == <<keyLock, threadLock>>
chains == <<keys, threads, nextAssoc>>
walk == <<pc, iterations, remaining, visited>>
call == <<op, opKey>>
keysVars == <<kstate, chains, value, locks, walk, call, sets>>

KeysInit ==
  /\ kstate = [k \in Keys |-> "none"]
  /\ keys = [t \in Threads |-> << >>]
  /\ threads = [k \in Keys |-> << >>]
  /\ value = [t \in Threads |-> [k \in Keys |-> FALSE]]
  /\ keyLock = [k \in Keys |-> Unlocked]
  /\ threadLock = [t \in Threads |-> Unlocked]
  /\ nextAssoc = [t \in Threads |-> NoKey]
  /\ pc = [t \in Threads |-> "run"]
  /\ iterations = [t \in Threads |-> 0]
  /\ remaining = [t \in Threads |-> FALSE]
  /\ op = [t \in Threads |-> "none"]
  /\ opKey = [t \in Threads |-> NoKey]
  /\ visited = [t \in Threads |-> NoKey]
  /\ sets = 0

Walk(t, from, to) ==
  /\ pc[t] = from
  /\ pc' = [pc EXCEPT ![t] = to]

Enter(t, k, to) ==
  /\ op' = [op EXCEPT ![t] = to]
  /\ opKey' = [opKey EXCEPT ![t] = k]

Continue(t, from, to) ==
  /\ op[t] = from
  /\ Enter(t, IF to = "none" THEN NoKey ELSE opKey[t], to)

Lock(lock, x, t) ==
  /\ lock[x] = Unlocked
  /\ lock' = [lock EXCEPT ![x] = t]

Unlock(lock, x) == lock' = [lock EXCEPT ![x] = Unlocked]

(* Destructors call what they like, as do threads that run. *)
Calls(t) == pc[t] \in {"run", "destructor"} /\ op[t] = "none"

(* A chain has an association once. *)
Place(chain, x) == CHOOSE i \in 1..Len(chain) : chain[i] = x

Without(chain, x) ==
  [i \in 1..(Len(chain) - 1) |-> IF i < Place(chain, x) THEN chain[i] ELSE chain[i + 1]]

(* nextKey of the association with k. *)
NextKey(chain, k) ==
  IF Place(chain, k) = Len(chain) THEN NoKey ELSE chain[Place(chain, k) + 1]

First(chain) == IF chain = << >> THEN NoKey ELSE Head(chain)

(***************************************************************************)
(* ptw32_tkAssocCreate and ptw32_tkAssocDestroy.                           *)
(***************************************************************************)
CreateAssoc(t, k) ==
  /\ keys' = [keys EXCEPT ![t] = <<k>> \o @]
  /\ threads' = [threads EXCEPT ![k] = <<t>> \o @]
  /\ UNCHANGED nextAssoc

Unchain(t, k) ==
  /\ keys' = [keys EXCEPT ![t] = Without(@, k)]
  /\ threads' = [threads EXCEPT ![k] = Without(@, t)]

(* Mutant: a thread that exits is not told. *)
DestroyAssocQuietly(t, k) ==
  /\ Unchain(t, k)
  /\ UNCHANGED nextAssoc

DestroyAssoc(t, k) ==
  /\ Unchain(t, k)
  /\ nextAssoc' = [nextAssoc EXCEPT ![t] = IF @ = k THEN NextKey(keys[t], k) ELSE @]

(***************************************************************************)
(* pthread_key_create, pthread_setspecific and pthread_key_delete.         *)
(***************************************************************************)
CreateKey(k) ==
  /\ kstate[k] = "none"
  /\ kstate' = [kstate EXCEPT ![k] = "live"]
  /\ UNCHANGED <<chains, value, locks, walk, call, sets>>

(* A value that is not NULL needs an association. *)
SetSpecific(t, k) ==
  /\ Calls(t)
  /\ kstate[k] = "live"
  /\ IF pc[t] = "run" THEN sets < MaxSets /\ sets' = sets + 1 ELSE UNCHANGED sets
  /\ Enter(t, k, "lockKey")
  /\ UNCHANGED <<kstate, chains, value, locks, walk>>

ClearSpecific(t, k) ==
  /\ Calls(t)
  /\ kstate[k] = "live"
  /\ value' = [value EXCEPT ![t][k] = FALSE]
  /\ UNCHANGED <<kstate, chains, locks, walk, call, sets>>

LockKey(t) ==
  /\ Continue(t, "lockKey", "associate")
  /\ Lock(keyLock, opKey[t], t)
  /\ UNCHANGED <<kstate, chains, value, threadLock, walk, sets>>

Associated(t, k) == \E i \in 1..Len(keys[t]) : keys[t][i] = k

Associate(t) ==
  /\ Continue(t, "associate", "unlockKey")
  /\ threadLock[t] = Unlocked
  /\ IF Associated(t, opKey[t]) THEN UNCHANGED chains ELSE CreateAssoc(t, opKey[t])
  /\ UNCHANGED <<kstate, value, locks, walk, sets>>

UnlockKey(t) ==
  /\ Continue(t, "unlockKey", "setValue")
  /\ Unlock(keyLock, opKey[t])
  /\ UNCHANGED <<kstate, chains, value, threadLock, walk, sets>>

SetValue(t) ==
  /\ Continue(t, "setValue", "none")
  /\ value' = [value EXCEPT ![t][opKey[t]] = TRUE]
  /\ UNCHANGED <<kstate, chains, locks, walk, sets>>

(* key->threads is read without the lock. *)
Delete(t, k) ==
  /\ Calls(t)
  /\ kstate[k] = "live"
  /\ \A u \in Threads : opKey[u] # k
  /\ kstate' = [kstate EXCEPT ![k] = "deleting"]
  /\ Enter(t, k, IF threads[k] = << >> THEN "free" ELSE "lockChain")
  /\ UNCHANGED <<chains, value, locks, walk, sets>>

LockChain(t) ==
  /\ Continue(t, "lockChain", "unchain")
  /\ Lock(keyLock, opKey[t], t)
  /\ UNCHANGED <<kstate, chains, value, threadLock, walk, sets>>

(* Under the lock of the thread that is first in the key's chain. *)
DeleteAssoc(t) ==
  /\ op[t] = "unchain"
  /\ threads[opKey[t]] # << >>
  /\ threadLock[Head(threads[opKey[t]])] = Unlocked
  /\ DestroyAssoc(Head(threads[opKey[t]]), opKey[t])
  /\ UNCHANGED <<kstate, value, locks, walk, call, sets>>

UnlockChain(t) ==
  /\ Continue(t, "unchain", "free")
  /\ threads[opKey[t]] = << >>
  /\ Unlock(keyLock, opKey[t])
  /\ UNCHANGED <<kstate, chains, value, threadLock, walk, sets>>

(* Mutant: the lock is not waited for. *)
FreeKeyAtOnce(t) ==
  /\ Continue(t, "free", "none")
  /\ kstate' = [kstate EXCEPT ![opKey[t]] = "freed"]
  /\ UNCHANGED <<chains, value, locks, walk, sets>>

(* pthread_mutex_destroy is repeated while a thread has the lock. *)
FreeKey(t) ==
  /\ Continue(t, "free", "none")
  /\ keyLock[opKey[t]] = Unlocked
  /\ kstate' = [kstate EXCEPT ![opKey[t]] = "freed"]
  /\ UNCHANGED <<chains, value, locks, walk, sets>>

(***************************************************************************)
(* ptw32_callUserDestroyRoutines, when a thread exits.                     *)
(***************************************************************************)
CallUserDestroyRoutines(t) ==
  /\ op[t] = "none"
  /\ Walk(t, "run", "begin")
  /\ UNCHANGED <<kstate, chains, value, locks, iterations, remaining, visited,
                 call, sets>>

BeginPass(t) ==
  /\ Walk(t, "begin", "next")
  /\ threadLock[t] = Unlocked
  /\ nextAssoc' = [nextAssoc EXCEPT ![t] = First(keys[t])]
  /\ iterations' = [iterations EXCEPT ![t] = @ + 1]
  /\ remaining' = [remaining EXCEPT ![t] = FALSE]
  /\ UNCHANGED <<kstate, keys, threads, value, locks, visited, call, sets>>

LockNext(t) ==
  /\ nextAssoc[t] # NoKey
  /\ Walk(t, "next", "try")
  /\ Lock(threadLock, t, t)
  /\ UNCHANGED <<kstate, chains, value, keyLock, iterations, remaining, visited,
                 call, sets>>

EndPass(t) ==
  /\ nextAssoc[t] = NoKey
  /\ threadLock[t] = Unlocked
  /\ Walk(t, "next", IF remaining[t] THEN "begin" ELSE "ended")
  /\ UNCHANGED <<kstate, chains, value, locks, iterations, remaining, visited,
                 call, sets>>

(* Mutant: the thread tries again with its own lock in its hands. *)
TryAndWait(t) ==
  /\ Walk(t, "try", "try")
  /\ keyLock[nextAssoc[t]] # Unlocked
  /\ UNCHANGED <<kstate, chains, value, locks, iterations, remaining, visited,
                 call, sets>>

(* pthread_mutex_trylock returned EBUSY: the thread's lock is given up too. *)
TryFails(t) ==
  /\ Walk(t, "try", "next")
  /\ keyLock[nextAssoc[t]] # Unlocked
  /\ Unlock(threadLock, t)
  /\ UNCHANGED <<kstate, chains, value, keyLock, iterations, remaining, visited,
                 call, sets>>

(* With both locks the value is taken. *)
Visit(t, to) ==
  LET k == nextAssoc[t] IN
  /\ Walk(t, "try", to)
  /\ Lock(keyLock, k, t)
  /\ Unlock(threadLock, t)
  /\ visited' = [visited EXCEPT ![t] = k]
  /\ value' = [value EXCEPT ![t][k] = FALSE]
  /\ UNCHANGED <<kstate, iterations, call, sets>>

HasValue(t) == value[t][nextAssoc[t]]

(* Mutants: the destructor does not ask for another pass; it is called      *)
(* however many passes there were.                                          *)
TakeValueOnce(t) ==
  /\ Visit(t, "call")
  /\ HasValue(t) /\ iterations[t] <= Iterations
  /\ nextAssoc' = [nextAssoc EXCEPT ![t] = NextKey(keys[t], @)]
  /\ UNCHANGED <<keys, threads, remaining>>

TakeValueUnlimited(t) ==
  /\ Visit(t, "call")
  /\ HasValue(t)
  /\ nextAssoc' = [nextAssoc EXCEPT ![t] = NextKey(keys[t], @)]
  /\ remaining' = [remaining EXCEPT ![t] = TRUE]
  /\ UNCHANGED <<keys, threads>>

(* The association stays for another pass, and for the destructor. *)
TakeValue(t) ==
  /\ Visit(t, "call")
  /\ HasValue(t) /\ iterations[t] <= Iterations
  /\ nextAssoc' = [nextAssoc EXCEPT ![t] = NextKey(keys[t], @)]
  /\ remaining' = [remaining EXCEPT ![t] = TRUE]
  /\ UNCHANGED <<keys, threads>>

RemoveAssoc(t) ==
  /\ Visit(t, "leave")
  /\ ~HasValue(t) \/ iterations[t] > Iterations
  /\ DestroyAssoc(t, nextAssoc[t])
  /\ UNCHANGED remaining

(* The second lock is given up, and the destructor runs. *)
LeaveAssoc(t) ==
  /\ pc[t] \in {"call", "leave"}
  /\ Walk(t, pc[t], IF pc[t] = "call" THEN "destructor" ELSE "next")
  /\ Unlock(keyLock, visited[t])
  /\ visited' = [visited EXCEPT ![t] = NoKey]
  /\ UNCHANGED <<kstate, chains, value, threadLock, iterations, remaining, call, sets>>

EndDestructor(t) ==
  /\ op[t] = "none"
  /\ Walk(t, "destructor", "next")
  /\ UNCHANGED <<kstate, chains, value, locks, iterations, remaining, visited,
                 call, sets>>

Take(t) == LockKey(t) \/ LockChain(t) \/ DeleteAssoc(t)

KeysStep(t) ==
  \/ Associate(t) \/ UnlockKey(t) \/ SetValue(t) \/ UnlockChain(t) \/ FreeKey(t)
  \/ BeginPass(t) \/ LockNext(t) \/ EndPass(t) \/ TryFails(t)
  \/ TakeValue(t) \/ RemoveAssoc(t) \/ LeaveAssoc(t) \/ EndDestructor(t)

Begin(t) ==
  \/ CallUserDestroyRoutines(t)
  \/ \E k \in Keys : SetSpecific(t, k) \/ ClearSpecific(t, k) \/ Delete(t, k)

KeysNext ==
  \/ \E k \in Keys : CreateKey(k)
  \/ \E t \in Threads : Begin(t) \/ Take(t) \/ KeysStep(t)

KeysSpec == KeysInit /\ [][KeysNext]_keysVars

(* Calls run on and destructors return.  A thread that waits for a lock     *)
(* which is again and again free gets it, as the exiting thread that has    *)
(* given it up sleeps before it comes again (line 130).           *)
KeysFairness ==
  \A t \in Threads : /\ WF_keysVars(KeysStep(t))
                     /\ SF_keysVars(EndDestructor(t))
                     /\ SF_keysVars(Take(t))

KeysLiveSpec == KeysSpec /\ KeysFairness
----------------------------------------------------------------------------
KeysTypeOK ==
  /\ kstate \in [Keys -> {"none", "live", "deleting", "freed"}]
  /\ keys \in [Threads -> Seq(Keys)]
  /\ threads \in [Keys -> Seq(Threads)]
  /\ value \in [Threads -> [Keys -> BOOLEAN]]
  /\ keyLock \in [Keys -> Threads \cup {Unlocked}]
  /\ threadLock \in [Threads -> Threads \cup {Unlocked}]
  /\ nextAssoc \in [Threads -> Keys \cup {NoKey}]
  /\ pc \in [Threads -> {"run", "begin", "next", "try", "call", "leave",
                          "destructor", "ended"}]
  /\ iterations \in [Threads -> 0..(Iterations + 1)]
  /\ remaining \in [Threads -> BOOLEAN]
  /\ op \in [Threads -> {"none", "lockKey", "associate", "unlockKey", "setValue",
                          "lockChain", "unchain", "free"}]
  /\ opKey \in [Threads -> Keys \cup {NoKey}]
  /\ visited \in [Threads -> Keys \cup {NoKey}]
  /\ sets \in 0..MaxSets

(* "While we hold at least one of the locks guarding the assoc, we know     *)
(* that the assoc [...] is valid": the association a thread will visit next *)
(* is on its chain whenever it looks, whatever deletions took out of the    *)
(* chain while it had no lock; and it is on its key's chain too, of which   *)
(* it is taken only once, with the key alive.                               *)
WalkIsSafe ==
  \A t \in Threads :
    /\ nextAssoc[t] # NoKey => Associated(t, nextAssoc[t])
    /\ \A k \in Keys : Associated(t, k) =>
         /\ kstate[k] \in {"live", "deleting"}
         /\ \E i \in 1..Len(threads[k]) : threads[k][i] = t

(* A key that was freed is not in the hands of a thread that exits: no      *)
(* chain leads to it, nobody has its lock, or has yet to give it up.        *)
FreedIsUnused ==
  \A k \in Keys : kstate[k] = "freed" =>
    /\ threads[k] = << >> /\ keyLock[k] = Unlocked
    /\ \A t \in Threads : k \notin {nextAssoc[t], visited[t], opKey[t]}

(* "Since the association is destroyed before the thread exits, this can    *)
(* never point to a different logical thread" (implement.h:399-402): when   *)
(* the destructors have run, whatever they set again and whatever keys were *)
(* deleted meanwhile, no chain has the thread, and it has no value left.    *)
ExitIsComplete ==
  \A t \in Threads : pc[t] = "ended" =>
    /\ keys[t] = << >>
    /\ \A k \in Keys : /\ \A i \in 1..Len(threads[k]) : threads[k][i] # t
                       /\ value[t][k] => kstate[k] # "live"

(* The two orders of the locks do not lead to a deadlock, and destructors   *)
(* that set values again do not keep a thread from exiting: whatever it is  *)
(* doing, a thread comes back to its client or ends.                        *)
Busy(t) == pc[t] \notin {"run", "ended"} \/ op[t] # "none"
ExitsAndDeletionsEnd == \A t \in Threads : Busy(t) ~> ~Busy(t)
=============================================================================
