---------------------------- MODULE ReentrantMutex ----------------------------
(***************************************************************************)
(* A reentrant mutex (6model/reprs/ReentrantMutex.c) and the condition     *)
(* variable made from it (ConditionVariable.c): an operating system mutex  *)
(* with the holder and the recursion count kept beside it, by hand, around *)
(* lock, unlock and wait.                                                  *)
(*                                                                         *)
(* Each atomic store is a step.  An attempt to unlock or to wait without   *)
(* holding the mutex throws and changes nothing, and is left out.          *)
(***************************************************************************)
EXTENDS Integers

CONSTANTS
    Threads,
    NoThread,   \* thread id 0
    MaxCalls    \* bound: how often a thread calls lock or wait

ASSUME MutexAssumption == NoThread \notin Threads /\ MaxCalls \in Nat

VARIABLES
    mutex,                          \* who owns the uv_mutex_t
    holder_id, lock_count,          \* MVMReentrantMutexBody
    num_locks,                      \* MVMThreadContext
    pc, orig_rec_level,             \* where a thread is, and its local of wait
    depth,                          \* calls of lock the thread has yet to unlock
    calls                           \* how much of MaxCalls is used

vars == <<mutex, holder_id, lock_count, num_locks, pc, orig_rec_level, depth, calls>>

Labels == {"idle", "lock", "got_mutex", "got_holder", "released", "unlocking", "wait_holder",
           "wait_count", "wait", "waiting", "woken", "back_holder", "back_count"}

Init ==
    /\ mutex = NoThread /\ holder_id = NoThread /\ lock_count = 0
    /\ num_locks = [t \in Threads |-> 0]
    /\ pc = [t \in Threads |-> "idle"]
    /\ orig_rec_level = [t \in Threads |-> 0]
    /\ depth = [t \in Threads |-> 0]
    /\ calls = [t \in Threads |-> 0]

Step(t, from, to) == pc[t] = from /\ pc' = [pc EXCEPT ![t] = to]

-----------------------------------------------------------------------------
LockAgain(t) ==
    /\ pc[t] = "idle" /\ holder_id = t /\ calls[t] < MaxCalls
    /\ calls' = [calls EXCEPT ![t] = @ + 1]
    /\ lock_count' = lock_count + 1
    /\ depth' = [depth EXCEPT ![t] = @ + 1]
    /\ UNCHANGED <<mutex, holder_id, num_locks, pc, orig_rec_level>>

Lock(t) ==
    /\ Step(t, "idle", "lock") /\ holder_id # t /\ calls[t] < MaxCalls
    /\ calls' = [calls EXCEPT ![t] = @ + 1]
    /\ UNCHANGED <<mutex, holder_id, lock_count, num_locks, orig_rec_level, depth>>

LockMutex(t) ==
    /\ Step(t, "lock", "got_mutex") /\ mutex = NoThread
    /\ mutex' = t
    /\ UNCHANGED <<holder_id, lock_count, num_locks, orig_rec_level, depth, calls>>

LockHolder(t) ==
    /\ Step(t, "got_mutex", "got_holder")
    /\ holder_id' = t
    /\ UNCHANGED <<mutex, lock_count, num_locks, orig_rec_level, depth, calls>>

LockCount(t) ==
    /\ Step(t, "got_holder", "idle")
    /\ lock_count' = 1
    /\ num_locks' = [num_locks EXCEPT ![t] = @ + 1]
    /\ depth' = [depth EXCEPT ![t] = 1]
    /\ UNCHANGED <<mutex, holder_id, orig_rec_level, calls>>

-----------------------------------------------------------------------------
LastUnlock(count) == count = 1

Unlock(t) ==
    /\ pc[t] = "idle" /\ holder_id = t
    /\ lock_count' = lock_count - 1
    /\ depth' = [depth EXCEPT ![t] = @ - 1]
    /\ pc' = [pc EXCEPT ![t] = IF LastUnlock(lock_count) THEN "released" ELSE "idle"]
    /\ UNCHANGED <<mutex, holder_id, num_locks, orig_rec_level, calls>>

HolderKept(t) == t
HolderCleared(t) == NoThread

UnlockHolder(t) ==
    /\ Step(t, "released", "unlocking")
    /\ holder_id' = HolderCleared(t)
    /\ UNCHANGED <<mutex, lock_count, num_locks, orig_rec_level, depth, calls>>

UnlockMutex(t) ==
    /\ Step(t, "unlocking", "idle")
    /\ mutex' = NoThread
    /\ num_locks' = [num_locks EXCEPT ![t] = @ - 1]
    /\ UNCHANGED <<holder_id, lock_count, orig_rec_level, depth, calls>>

-----------------------------------------------------------------------------
(* MVM_conditionvariable_wait.                                             *)
Wait(t) ==
    /\ Step(t, "idle", "wait_holder") /\ holder_id = t /\ calls[t] < MaxCalls
    /\ calls' = [calls EXCEPT ![t] = @ + 1]
    /\ orig_rec_level' = [orig_rec_level EXCEPT ![t] = lock_count]
    /\ UNCHANGED <<mutex, holder_id, lock_count, num_locks, depth>>

WaitHolderKept(t) ==
    /\ Step(t, "wait_holder", "wait_count")
    /\ UNCHANGED <<mutex, holder_id, lock_count, num_locks, orig_rec_level, depth, calls>>
WaitHolder(t) ==
    /\ Step(t, "wait_holder", "wait_count")
    /\ holder_id' = NoThread
    /\ UNCHANGED <<mutex, lock_count, num_locks, orig_rec_level, depth, calls>>

WaitCount(t) ==
    /\ Step(t, "wait_count", "wait")
    /\ lock_count' = 0
    /\ UNCHANGED <<mutex, holder_id, num_locks, orig_rec_level, depth, calls>>

(* uv_cond_wait gives the mutex up and waits in one step, and takes the    *)
(* mutex back before it returns; it may return without a signal.           *)
CondWaitKeepsMutex(t) ==
    /\ Step(t, "wait", "waiting")
    /\ UNCHANGED <<mutex, holder_id, lock_count, num_locks, orig_rec_level, depth, calls>>
CondWait(t) ==
    /\ Step(t, "wait", "waiting")
    /\ mutex' = NoThread
    /\ UNCHANGED <<holder_id, lock_count, num_locks, orig_rec_level, depth, calls>>

SpuriousWakeup(t) ==
    /\ Step(t, "waiting", "woken")
    /\ UNCHANGED <<mutex, holder_id, lock_count, num_locks, orig_rec_level, depth, calls>>

CondWaitReturns(t) ==
    /\ Step(t, "woken", "back_holder") /\ mutex = NoThread
    /\ mutex' = t
    /\ UNCHANGED <<holder_id, lock_count, num_locks, orig_rec_level, depth, calls>>

BackHolder(t) ==
    /\ Step(t, "back_holder", "back_count")
    /\ holder_id' = t
    /\ UNCHANGED <<mutex, lock_count, num_locks, orig_rec_level, depth, calls>>

CountOne(t) == 1
CountRestored(t) == orig_rec_level[t]

BackCount(t) ==
    /\ Step(t, "back_count", "idle")
    /\ lock_count' = CountRestored(t)
    /\ UNCHANGED <<mutex, holder_id, num_locks, orig_rec_level, depth, calls>>

(* MVM_conditionvariable_signal_one and _all need not hold the mutex.      *)
SignalOne(t) ==
    /\ pc[t] = "idle"
    /\ \E u \in Threads : Step(u, "waiting", "woken")
    /\ UNCHANGED <<mutex, holder_id, lock_count, num_locks, orig_rec_level, depth, calls>>

SignalAll(t) ==
    /\ pc[t] = "idle"
    /\ pc' = [u \in Threads |-> IF pc[u] = "waiting" THEN "woken" ELSE pc[u]]
    /\ UNCHANGED <<mutex, holder_id, lock_count, num_locks, orig_rec_level, depth, calls>>

Inner(t) ==
    \/ LockMutex(t) \/ LockHolder(t) \/ LockCount(t)
    \/ UnlockHolder(t) \/ UnlockMutex(t)
    \/ WaitHolder(t) \/ WaitCount(t) \/ CondWait(t) \/ CondWaitReturns(t)
    \/ BackHolder(t) \/ BackCount(t)

Call(t) == LockAgain(t) \/ Lock(t) \/ Wait(t) \/ SignalOne(t) \/ SignalAll(t)

Next == \E t \in Threads : Inner(t) \/ Unlock(t) \/ Call(t) \/ SpuriousWakeup(t)

Spec == Init /\ [][Next]_vars

(* Operations go on to their end, and what is locked is unlocked in the    *)
(* end: the mutex itself promises nothing to those who wait for a holder   *)
(* that keeps it.                                                          *)
FairSpec == Spec /\ \A t \in Threads : WF_vars(Inner(t)) /\ WF_vars(Unlock(t))

-----------------------------------------------------------------------------
(* Type correctness: no count goes below zero or above what was called.    *)
TypeOK ==
    /\ mutex \in Threads \cup {NoThread} /\ holder_id \in Threads \cup {NoThread}
    /\ lock_count \in 0..MaxCalls
    /\ num_locks \in [Threads -> {0, 1}]
    /\ pc \in [Threads -> Labels]
    /\ orig_rec_level \in [Threads -> 0..MaxCalls]
    /\ depth \in [Threads -> 0..MaxCalls]
    /\ calls \in [Threads -> 0..MaxCalls]

(* Between two calls, a thread with calls of lock left to unlock.          *)
Holding(t) == pc[t] = "idle" /\ depth[t] > 0

(* A thread that has locked the mutex, or has come back from a wait, owns  *)
(* the operating system's mutex and is alone in that, and the count beside *)
(* it is the number of times the thread has yet to unlock.                 *)
HolderOwns ==
    \A t \in Threads : Holding(t) => mutex = t /\ holder_id = t /\ lock_count = depth[t]

(* A thread that is outside the mutex is never taken for its holder, so it *)
(* cannot slip in by bumping the count.                                    *)
NobodySlipsIn ==
    \A t \in Threads : holder_id = t => depth[t] > 0 \/ pc[t] \in {"got_holder", "released"}

(* What a thread context reports as its number of calls is right between   *)
(* calls, across any number of waits.                                      *)
NumLocksRight ==
    \A t \in Threads : pc[t] = "idle" => num_locks[t] = IF depth[t] > 0 THEN 1 ELSE 0

(* holder_id, which every thread reads without the mutex, is itself a      *)
(* lock: it goes from one thread to another only by way of nobody.         *)
Field == INSTANCE HolderField WITH holder <- holder_id
HolderIsLock == Field!Spec

(* Whoever goes for the mutex, or is woken from a wait, gets it in the     *)
(* end, if its holders unlock it.                                          *)
LockGranted == \A t \in Threads : pc[t] \in {"lock", "woken"} ~> Holding(t)
=============================================================================
