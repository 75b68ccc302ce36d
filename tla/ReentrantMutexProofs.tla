------------------------- MODULE ReentrantMutexProofs -------------------------
(***************************************************************************)
(* The safety properties of ReentrantMutex for any number of threads.      *)
(*                                                                         *)
(* The inductive invariant says, for each place a thread can be at,        *)
(* whether the thread owns the mutex, whether holder_id names it, and what *)
(* the counts beside it are.                                               *)
(***************************************************************************)
EXTENDS ReentrantMutex, TLAPS

(* The time a leaf may take, on a busy machine too.                        *)
USE SMTT(120)

(* Where a thread owns the mutex, where it is its holder, and where it is  *)
(* in a wait.                                                              *)
Owning   == {"got_mutex", "got_holder", "released", "unlocking", "wait_holder", "wait_count",
             "wait", "back_holder", "back_count"}
Named    == {"got_holder", "released", "wait_holder", "back_count"}
Entering == {"lock", "got_mutex", "got_holder"}
Leaving  == {"released", "unlocking"}
InWait   == {"wait_holder", "wait_count", "wait", "waiting", "woken", "back_holder", "back_count"}

OwnerFits  == \A t \in Threads : mutex = t <=> pc[t] \in Owning \/ Holding(t)
HolderFits == \A t \in Threads : holder_id = t <=> pc[t] \in Named \/ Holding(t)
CountFits  == \A t \in Threads : Holding(t) => lock_count = depth[t]
DepthFits  ==
    \A t \in Threads :
        /\ pc[t] \in Entering \cup Leaving => depth[t] = 0
        /\ pc[t] \in InWait => depth[t] > 0 /\ orig_rec_level[t] = depth[t]
LocksFit   ==
    \A t \in Threads :
        num_locks[t] = IF pc[t] \in Leaving \/ depth[t] > 0 THEN 1 ELSE 0
CallsFit   ==
    \A t \in Threads : depth[t] <= calls[t] /\ (pc[t] \in Entering => calls[t] >= 1)

IInv == TypeOK /\ OwnerFits /\ HolderFits /\ CountFits /\ DepthFits /\ LocksFit /\ CallsFit

USE DEF Owning, Named, Entering, Leaving, InWait, Labels, Holding

(* Nobody holds a new mutex.                                               *)
LEMMA InitInv == Init => IInv
BY MutexAssumption DEF Init, IInv, TypeOK, OwnerFits, HolderFits, CountFits, DepthFits, LocksFit,
   CallsFit

(* Calls of lock and unlock.                                               *)
LEMMA LockKeeps ==
    ASSUME IInv, NEW t \in Threads,
           LockAgain(t) \/ Lock(t) \/ LockMutex(t) \/ LockHolder(t) \/ LockCount(t)
    PROVE  IInv'
<1>1. CASE LockAgain(t)
  BY <1>1, MutexAssumption DEF LockAgain, IInv, TypeOK, OwnerFits, HolderFits, CountFits,
     DepthFits, LocksFit, CallsFit
<1>2. CASE Lock(t)
  BY <1>2, MutexAssumption DEF Lock, Step, IInv, TypeOK, OwnerFits, HolderFits, CountFits,
     DepthFits, LocksFit, CallsFit
<1>3. CASE LockMutex(t)
  BY <1>3, MutexAssumption DEF LockMutex, Step, IInv, TypeOK, OwnerFits, HolderFits, CountFits,
     DepthFits, LocksFit, CallsFit
<1>4. CASE LockHolder(t)
  BY <1>4, MutexAssumption DEF LockHolder, Step, IInv, TypeOK, OwnerFits, HolderFits, CountFits,
     DepthFits, LocksFit, CallsFit
<1>5. CASE LockCount(t)
  BY <1>5, MutexAssumption DEF LockCount, Step, IInv, TypeOK, OwnerFits, HolderFits, CountFits,
     DepthFits, LocksFit, CallsFit
<1> QED BY <1>1, <1>2, <1>3, <1>4, <1>5

(* Calls of unlock.                                                        *)
LEMMA UnlockKeeps ==
    ASSUME IInv, NEW t \in Threads, Unlock(t) \/ UnlockHolder(t) \/ UnlockMutex(t)
    PROVE  IInv'
<1>1. CASE Unlock(t)
  BY <1>1, MutexAssumption DEF Unlock, LastUnlock, IInv, TypeOK, OwnerFits, HolderFits, CountFits,
     DepthFits, LocksFit, CallsFit
<1>2. CASE UnlockHolder(t)
  BY <1>2, MutexAssumption DEF UnlockHolder, HolderCleared, Step, IInv, TypeOK, OwnerFits,
     HolderFits, CountFits, DepthFits, LocksFit, CallsFit
<1>3. CASE UnlockMutex(t)
  BY <1>3, MutexAssumption DEF UnlockMutex, Step, IInv, TypeOK, OwnerFits, HolderFits, CountFits,
     DepthFits, LocksFit, CallsFit
<1> QED BY <1>1, <1>2, <1>3

(* The way into a wait.                                                    *)
LEMMA WaitKeeps ==
    ASSUME IInv, NEW t \in Threads, Wait(t) \/ WaitHolder(t) \/ WaitCount(t) \/ CondWait(t)
    PROVE  IInv'
<1>1. CASE Wait(t)
  BY <1>1, MutexAssumption DEF Wait, Step, IInv, TypeOK, OwnerFits, HolderFits, CountFits,
     DepthFits, LocksFit, CallsFit
<1>2. CASE WaitHolder(t)
  BY <1>2, MutexAssumption DEF WaitHolder, Step, IInv, TypeOK, OwnerFits, HolderFits, CountFits,
     DepthFits, LocksFit, CallsFit
<1>3. CASE WaitCount(t)
  BY <1>3, MutexAssumption DEF WaitCount, Step, IInv, TypeOK, OwnerFits, HolderFits, CountFits,
     DepthFits, LocksFit, CallsFit
<1>4. CASE CondWait(t)
  BY <1>4, MutexAssumption DEF CondWait, Step, IInv, TypeOK, OwnerFits, HolderFits, CountFits,
     DepthFits, LocksFit, CallsFit
<1> QED BY <1>1, <1>2, <1>3, <1>4

(* The way out of a wait.                                                  *)
LEMMA BackKeeps ==
    ASSUME IInv, NEW t \in Threads, CondWaitReturns(t) \/ BackHolder(t) \/ BackCount(t)
    PROVE  IInv'
<1>1. CASE CondWaitReturns(t)
  BY <1>1, MutexAssumption DEF CondWaitReturns, Step, IInv, TypeOK, OwnerFits, HolderFits,
     CountFits, DepthFits, LocksFit, CallsFit
<1>2. CASE BackHolder(t)
  BY <1>2, MutexAssumption DEF BackHolder, Step, IInv, TypeOK, OwnerFits, HolderFits, CountFits,
     DepthFits, LocksFit, CallsFit
<1>3. CASE BackCount(t)
  BY <1>3, MutexAssumption DEF BackCount, CountRestored, Step, IInv, TypeOK, OwnerFits, HolderFits,
     CountFits, DepthFits, LocksFit, CallsFit
<1> QED BY <1>1, <1>2, <1>3

(* A thread that waits is woken, by a signal or without one.               *)
LEMMA WakeKeeps ==
    ASSUME IInv, NEW t \in Threads, SignalOne(t) \/ SignalAll(t) \/ SpuriousWakeup(t)
    PROVE  IInv'
<1>1. CASE SignalOne(t)
  BY <1>1, MutexAssumption DEF SignalOne, Step, IInv, TypeOK, OwnerFits, HolderFits, CountFits,
     DepthFits, LocksFit, CallsFit
<1>2. CASE SignalAll(t)
  BY <1>2, MutexAssumption DEF SignalAll, IInv, TypeOK, OwnerFits, HolderFits, CountFits,
     DepthFits, LocksFit, CallsFit
<1>3. CASE SpuriousWakeup(t)
  BY <1>3, MutexAssumption DEF SpuriousWakeup, Step, IInv, TypeOK, OwnerFits, HolderFits,
     CountFits, DepthFits, LocksFit, CallsFit
<1> QED BY <1>1, <1>2, <1>3

(* Every step preserves the invariant.                                     *)
LEMMA NextKeeps == IInv /\ [Next]_vars => IInv'
<1> SUFFICES ASSUME IInv, [Next]_vars PROVE IInv'
  OBVIOUS
<1>1. CASE UNCHANGED vars
  BY <1>1 DEF vars, IInv, TypeOK, OwnerFits, HolderFits, CountFits, DepthFits, LocksFit, CallsFit
<1>2. ASSUME NEW t \in Threads, Inner(t) \/ Unlock(t) \/ Call(t) \/ SpuriousWakeup(t)
      PROVE  IInv'
  BY <1>2, LockKeeps, UnlockKeeps, WaitKeeps, BackKeeps, WakeKeeps, ZenonT(120) DEF Inner, Call
<1> QED BY <1>1, <1>2 DEF Next

(* The inductive invariant holds in every reachable state.                 *)
THEOREM Invariance == Spec => []IInv
BY InitInv, NextKeeps, PTL DEF Spec

(* A thread that has locked the mutex or come back from a wait owns it     *)
(* alone, and the recursion count is the number of unlocks it still owes.  *)
THEOREM HolderOwnsAlways == Spec => []HolderOwns
<1>1. IInv => HolderOwns  BY DEF IInv, OwnerFits, HolderFits, CountFits, HolderOwns
<1> QED BY <1>1, Invariance, PTL

(* No thread outside the mutex is taken for its holder.                    *)
THEOREM NobodySlipsInAlways == Spec => []NobodySlipsIn
<1>1. IInv => NobodySlipsIn  BY DEF IInv, HolderFits, DepthFits, NobodySlipsIn
<1> QED BY <1>1, Invariance, PTL

(* num_locks is right between calls.                                       *)
THEOREM NumLocksRightAlways == Spec => []NumLocksRight
<1>1. IInv => NumLocksRight  BY DEF IInv, LocksFit, NumLocksRight
<1> QED BY <1>1, Invariance, PTL

(* holder_id passes from thread to thread by way of nobody: it implements  *)
(* HolderField, although it is stored apart from the mutex.                *)
THEOREM HolderRefinesLock == Spec => HolderIsLock
<1>1. Init => Field!Nobody  BY DEF Init, Field!Nobody
<1>2. ASSUME IInv, [Next]_vars PROVE [Field!Enters \/ Field!Departs]_holder_id
  <2>1. CASE UNCHANGED holder_id  BY <2>1
  <2>2. ASSUME NEW t \in Threads, LockHolder(t) \/ BackHolder(t)
        PROVE  Field!Enters
    <3>1. mutex = t /\ holder_id # t /\ holder_id' = t
      BY <1>2, <2>2 DEF IInv, OwnerFits, HolderFits, LockHolder, BackHolder, Step
    <3>2. holder_id = NoThread  BY <1>2, <3>1 DEF IInv, TypeOK, OwnerFits, HolderFits
    <3> QED BY <3>1, <3>2 DEF Field!Enters, Field!Nobody
  <2>3. ASSUME NEW t \in Threads, UnlockHolder(t) \/ WaitHolder(t)
        PROVE  Field!Departs
    <3>1. holder_id = t /\ holder_id' = NoThread
      BY <1>2, <2>3 DEF IInv, HolderFits, UnlockHolder, HolderCleared, WaitHolder, Step
    <3> QED BY <3>1 DEF Field!Departs, Field!Nobody
  <2> QED
    BY <1>2, <2>1, <2>2, <2>3 DEF Next, vars, Inner, Call, LockAgain, Lock, LockMutex, LockCount,
       Unlock, UnlockMutex, Wait, WaitCount, CondWait, CondWaitReturns, BackCount, SignalOne,
       SignalAll, SpuriousWakeup
<1> QED BY <1>1, <1>2, Invariance, PTL DEF Spec, HolderIsLock, Field!Spec
=============================================================================
