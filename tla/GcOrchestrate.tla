---------------------------- MODULE GcOrchestrate ----------------------------
(***************************************************************************)
(* The stop-the-world protocol of MoarVM's garbage collector: mutators     *)
(* (GcMutator), the opening of a collection (GcOpening) and the collection *)
(* itself (GcRun) as the interleaved steps of all threads, and the         *)
(* properties of the whole.  Source: src/gc/orchestrate.c.                 *)
(***************************************************************************)
EXTENDS GcMutator, GcOpening, GcRun

(* uv_cond_wait may return without a broadcast.                            *)
SpuriousWakeup(t) ==
    /\ panic = "none" /\ sleeping[t] # Awake
    /\ sleeping' = [sleeping EXCEPT ![t] = Awake]
    /\ UNCHANGED <<gcVars, listVars, retVars, gc_status, wakeup, panic, pc, allocs>>

(* A thread whose context is freed under it reads garbage; that it finds   *)
(* an invalid status and panics is one outcome, that the memory still      *)
(* holds the old contents is the other (its ordinary steps).               *)
UseFreedContext(t) ==
    /\ Running(t) /\ stage[t] = "destroyed" /\ pc[t] # "Gone"
    /\ panic' = "freed_context"
    /\ UNCHANGED <<gcVars, listVars, retVars, gc_status, wakeup, pc, sleeping, allocs>>

Halted == panic # "none" /\ UNCHANGED vars

(* Steps a thread takes without being asked to: they may never happen.     *)
Choose(t) ==
    \/ Allocate(t) \/ BeginBlockingOp(t) \/ EndBlockingOp(t) \/ ExitThread(t)
    \/ \E u \in Threads : Spawn(t, u) \/ Join(t, u)
    \/ LoopPoll(t) \/ QueueWork(t)

(* Steps a scheduled thread takes sooner or later, by function.            *)
MutatorStep(t) ==
    SyncPoint(t) \/ SpawnInsert(t) \/ StartThread(t)

BlockingStep(t) ==
    \/ Block(t) \/ BlockCheck(t) \/ JoinCheck(t) \/ ThreadJoin(t) \/ AsyncHandler(t)
    \/ Unblock(t) \/ UnblockCheck(t) \/ UnblockSuspend(t) \/ UnblockRequested(t)
    \/ TellWait(t) \/ TellCheck(t)

JoiningStep(t) == EnterFromInterrupt(t) \/ VoteStart(t) \/ WaitStart(t)

OpeningStep(t) ==
    \/ BeginRun(t) \/ LockThreads(t) \/ (\E u \in Threads : Signal(t, u))
    \/ SignalOne(t) \/ SignalDone(t) \/ AddVotes(t) \/ WakeLoop(t) \/ WaitReady(t)
    \/ StoreVotes(t) \/ SignalStart(t)

CollectingStep(t) ==
    \/ (\E w \in Threads : Collect(t, w) \/ ProcessInTray(t, w))
    \/ CollectDone(t) \/ InTraysPass(t) \/ VoteFinish(t)
    \/ ClearIntrays(t, "ClearIntrays", "Finalize") \/ FinalizeWalkQueues(t)
    \/ ClearIntrays(t, "ClearIntrays2", "IntraysDone") \/ IntraysDone(t)

FinishingStep(t) ==
    \/ WaitFinish(t) \/ WaitIntrays(t) \/ (\E w \in Threads : Reset(t, w)) \/ ResetDone(t)
    \/ Complete(t) \/ WaitCompleted(t) \/ Ack(t)

Step(t) ==
    /\ Running(t)
    /\ \/ pc[t] \in Mutating   /\ MutatorStep(t)
       \/ pc[t] \in Blocking   /\ BlockingStep(t)
       \/ pc[t] \in Joining    /\ JoiningStep(t)
       \/ pc[t] \in Opening    /\ OpeningStep(t)
       \/ pc[t] \in Collecting /\ CollectingStep(t)
       \/ pc[t] \in Finishing  /\ FinishingStep(t)
       \/ Elect(t) \/ ClearAck(t) \/ ClearInGc(t)

Next ==
    \/ \E t \in Threads : Choose(t) \/ Step(t) \/ SpuriousWakeup(t) \/ UseFreedContext(t)
    \/ Halted

Spec == Init /\ [][Next]_vars

(* Every thread that can take a step is scheduled eventually.              *)
Fairness == \A t \in Threads : WF_vars(Step(t))
FairSpec == Spec /\ Fairness

-----------------------------------------------------------------------------
WorldStopped == \E t \in Threads : pc[t] \in Collecting

(* No thread runs user code while objects are moved and marked: from the   *)
(* coordinator's start signal until gc_intrays_clearing is cleared.        *)
StopTheWorld == WorldStopped => \A t \in Threads : pc[t] \notin Mutating

(* While objects are moved and marked, every live thread on the list is in *)
(* the work list of exactly one participant: nobody's roots are missed and *)
(* no nursery is collected twice (add_work, signal_one_thread).            *)
WorkPartition ==
    WorldStopped =>
        \A u \in threads : stage[u] # "destroyed" =>
            Cardinality({t \in Threads : u \in gc_work[t]}) = 1

(* A thread runs user code only once its own nursery is swept: it is not   *)
(* among the threads a participant still has to reset.                     *)
SweptBeforeResume ==
    \A t, w \in Threads :
        pc[t] \in Collecting \cup {"Reset"} /\ w \in todo[t] => pc[w] \notin Mutating

(* Nothing is freed while an in-tray holds unprocessed work: the finish    *)
(* vote and clear_intrays together drain them all.                         *)
NoLostWork == ~gc_intrays_clearing => \A t \in Threads : ~gc_in_tray[t]

(* A coordinator that has passed the gc_ack spin is alone: no thread is    *)
(* still in the previous run (MVM_gc_enter_from_allocator).                *)
RunsDoNotOverlap ==
    (\E c \in Threads : pc[c] \in Opening \ {"AckSpin"}) =>
        \A t \in Threads : pc[t] \notin Collecting \cup Finishing \cup {"ClearAck"}

(* The panics on vote counts and thread statuses in orchestrate.c are      *)
(* unreachable.                                                            *)
SanityChecksHold == panic \in {"none", "freed_context"}

(* A thread that waits to vote for a start does so only while a            *)
(* coordinator is opening a run ("0 should never happen").                 *)
StartCountNeverZero == \A t \in Threads : pc[t] = "WaitCount" => gc_start # 0

(* MVM_tc_destroy: the context is no longer in use when it is freed.       *)
DestroyedNotInUse == \A t \in Threads : stage[t] = "destroyed" => pc[t] = "Gone"

(* A thread elected coordinator, and a thread that joins a run, come out   *)
(* of it and go on with what they were doing.                              *)
RunCompletes ==
    \A t \in Threads :
        pc[t] \in {"AckSpin", "WaitCount"} ~> pc[t] \in Mutating \cup Blocking

(* A thread that wants to leave a blocking operation gets to.              *)
UnblockReturns ==
    \A t \in Threads : pc[t] = "Unblock" ~> pc[t] \in {"Run", "Start", "Alloc"}
=============================================================================
