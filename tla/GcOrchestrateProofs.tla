------------------------- MODULE GcOrchestrateProofs -------------------------
(***************************************************************************)
(* The stop-the-world protocol keeps the inductive invariant of GcInv, and *)
(* with it its safety properties, for any number of threads, any bounds on *)
(* allocations and passes, and any set of threads that run the event loop. *)
(***************************************************************************)
EXTENDS GcOrchestrate, GcMutatorProofs, GcOpeningProofs, GcSignalProofs, GcRunProofs,
        FiniteSetTheorems

(* The time a leaf may take, on a busy machine too.                        *)
USE SMTT(120)

(* Sets of threads can be counted: what the vote counts rely on.           *)
LEMMA ThreadsCount == Counting
<1> SUFFICES ASSUME NEW S \in SUBSET Threads
             PROVE  /\ Cardinality(S) \in Nat /\ (Cardinality(S) = 0 <=> S = {})
                    /\ \A x \in S : Cardinality(S \ {x}) = Cardinality(S) - 1
                    /\ \A x \in Threads \ S : Cardinality(S \cup {x}) = Cardinality(S) + 1
  BY DEF Counting
<1>1. IsFiniteSet(S)  BY ThreadsAssumption, FS_Subset
<1>2. Cardinality(S) \in Nat /\ (Cardinality(S) = 0 <=> S = {})
  BY <1>1, FS_CardinalityType, FS_EmptySet
<1>3. \A x \in S : Cardinality(S \ {x}) = Cardinality(S) - 1
  BY <1>1, FS_RemoveElement
<1>4. \A x \in Threads \ S : Cardinality(S \cup {x}) = Cardinality(S) + 1
  BY <1>1, FS_AddElement
<1> QED BY <1>2, <1>3, <1>4

(* What a thread does of its own accord preserves the invariant.           *)
LEMMA ChooseKeeps == ASSUME IInv, NEW t \in Threads, Choose(t) PROVE IInv'
BY AllocateKeeps, BeginBlockingOpKeeps, EndBlockingOpKeeps, ExitThreadKeeps, SpawnKeeps, JoinKeeps,
   LoopPollKeeps, QueueWorkKeeps, ZenonT(120) DEF Choose

(* The places of the suspend loop are not reached without the debugger.    *)
LEMMA NoSuspendLoop ==
    ASSUME IInv, NEW t \in Threads
    PROVE  ~UnblockRequested(t) /\ ~TellWait(t) /\ ~TellCheck(t)
<1>1. pc[t] \in Places  BY ZenonT(120) DEF IInv, Typing, PlaceTypes
<1> QED BY <1>1 DEF Places, UnblockRequested, TellWait, TellCheck, At

(* The steps of a scheduled thread preserve it: outside a collection ...   *)
LEMMA BlockingStepKeeps == ASSUME IInv, NEW t \in Threads, BlockingStep(t) PROVE IInv'
BY NoSuspendLoop, BlockKeeps, BlockCheckKeeps, JoinCheckKeeps, ThreadJoinKeeps, AsyncHandlerKeeps,
   UnblockKeeps, UnblockCheckKeeps, UnblockSuspendKeeps, ZenonT(120) DEF BlockingStep

(* ... while it opens one ...                                              *)
LEMMA OpeningStepKeeps == ASSUME IInv, NEW t \in Threads, OpeningStep(t) PROVE IInv'
BY ThreadsCount, BeginRunKeeps, LockThreadsKeeps, SignalKeeps, SignalOneKeeps, SignalDoneKeeps,
   AddVotesKeeps, WakeLoopKeeps, WaitReadyKeeps, StoreVotesKeeps, SignalStartKeeps, ZenonT(120)
   DEF OpeningStep

(* ... while it collects ...                                               *)
LEMMA CollectingStepKeeps == ASSUME IInv, NEW t \in Threads, CollectingStep(t) PROVE IInv'
BY ThreadsCount, CollectKeeps, ProcessInTrayKeeps, CollectDoneKeeps, InTraysPassKeeps,
   VoteFinishKeeps, ClearIntraysKeeps, ClearIntraysAgainKeeps, FinalizeWalkQueuesKeeps,
   IntraysDoneKeeps, ZenonT(120) DEF CollectingStep

(* ... and while it leaves one.                                            *)
LEMMA FinishingStepKeeps == ASSUME IInv, NEW t \in Threads, FinishingStep(t) PROVE IInv'
BY ThreadsCount, WaitFinishKeeps, WaitIntraysKeeps, ResetKeeps, ResetDoneKeeps, CompleteKeeps,
   WaitCompletedKeeps, AckKeeps, ZenonT(120) DEF FinishingStep

LEMMA StepKeeps == ASSUME IInv, NEW t \in Threads, Step(t) PROVE IInv'
<1>1. CASE MutatorStep(t)
  BY <1>1, SyncPointKeeps, SpawnInsertKeeps, StartThreadKeeps, ZenonT(120) DEF MutatorStep
<1>2. CASE BlockingStep(t)  BY <1>2, BlockingStepKeeps, ZenonT(120)
<1>3. CASE JoiningStep(t)
  BY <1>3, ThreadsCount, EnterFromInterruptKeeps, VoteStartKeeps, WaitStartKeeps, ZenonT(120)
     DEF JoiningStep
<1>4. CASE OpeningStep(t)  BY <1>4, OpeningStepKeeps, ZenonT(120)
<1>5. CASE CollectingStep(t)  BY <1>5, CollectingStepKeeps, ZenonT(120)
<1>6. CASE FinishingStep(t)  BY <1>6, FinishingStepKeeps, ZenonT(120)
<1>7. CASE Elect(t)  BY <1>7, ElectKeeps, ZenonT(120)
<1>8. CASE ClearAck(t)  BY <1>8, ThreadsCount, ClearAckKeeps, ZenonT(120)
<1>9. CASE ClearInGc(t)  BY <1>9, ClearInGcKeeps, ZenonT(120)
<1> QED BY <1>1, <1>2, <1>3, <1>4, <1>5, <1>6, <1>7, <1>8, <1>9, ZenonT(120) DEF Step

(* Steps that leave the protocol's variables alone: a spurious wake-up, a  *)
(* halt, and the use of a freed context.                                   *)
LEMMA SilentKeeps ==
    ASSUME IInv, NEW t \in Threads, SpuriousWakeup(t) \/ UseFreedContext(t) \/ UNCHANGED vars
    PROVE  IInv'
<1>1. Quiet
  BY DEF SpuriousWakeup, UseFreedContext, vars, Quiet, gcVars, voteVars, flagVars, listVars,
         workVars, retVars, signalVars
<1>2. ProtocolInv'  BY <1>1, QuietStep, ZenonT(120)
<1>3. CounterTypes' /\ FlagTypes'
  BY DEF IInv, Typing, CounterTypes, FlagTypes, SpuriousWakeup, UseFreedContext, vars, gcVars,
         voteVars, flagVars, listVars, workVars, retVars, signalVars
<1>4. ThreadTypes'
  BY DEF IInv, Typing, ThreadTypes, Panics, SpuriousWakeup, UseFreedContext, vars, gcVars,
         voteVars, flagVars, listVars, workVars, retVars, signalVars
<1>5. PlaceTypes'
  BY DEF IInv, Typing, PlaceTypes, SpuriousWakeup, UseFreedContext, vars, gcVars,
         voteVars, flagVars, listVars, workVars, retVars, signalVars
<1> QED BY <1>2, <1>3, <1>4, <1>5, ZenonT(120) DEF IInv, Typing

(* Every step preserves the invariant.                                     *)
LEMMA NextKeeps == ASSUME IInv, [Next]_vars PROVE IInv'
<1>1. CASE UNCHANGED vars  BY <1>1, ThreadsAssumption, SilentKeeps, ZenonT(120)
<1>2. CASE Halted  BY <1>2, ThreadsAssumption, SilentKeeps, ZenonT(120) DEF Halted
<1>3. ASSUME NEW t \in Threads, Choose(t) \/ Step(t) \/ SpuriousWakeup(t) \/ UseFreedContext(t)
      PROVE  IInv'
  BY <1>3, ChooseKeeps, StepKeeps, SilentKeeps, ZenonT(120)
<1> QED BY <1>1, <1>2, <1>3, ZenonT(120) DEF Next

(* The inductive invariant of GcInv holds throughout every behaviour.      *)
THEOREM Invariance == Spec => []IInv
<1>1. Init => IInv  BY ThreadsCount, InitInv, ZenonT(120)
<1>2. IInv /\ [Next]_vars => IInv'  BY NextKeeps, ZenonT(120)
<1> QED BY <1>1, <1>2, PTL DEF Spec

(* Who moves objects: a run has a coordinator, which has stopped everyone. *)
LEMMA Conducted ==
    ASSUME IInv, WorldStopped
    PROVE  \E c \in Threads : is_coordinator[c] /\ pc[c] \in Working \cup Clearing \cup {"WaitFinish"}
<1>1. PICK w \in Threads : pc[w] \in Working \cup Clearing
  BY ZenonT(120) DEF WorldStopped, Collecting, Working, Clearing
<1>2. CASE pc[w] \in Clearing
  BY <1>2 DEF IInv, ProtocolInv, CoordinatorFits
<1>3. CASE pc[w] \in Working
  <2>1. Unfinished # {}  BY <1>3 DEF Unfinished
  <2>2. NobodyBeyond  BY <1>3 DEF IInv, ProtocolInv, OpenerAlone, NobodyBeyond, Beyond
  <2> QED BY <2>1, <2>2 DEF IInv, ProtocolInv, CoordinatorFits
<1> QED BY <1>1, <1>2, <1>3, ZenonT(120)

(* A thread that runs user code is on the list, is not marked blocked and  *)
(* has not ended: once everyone is stopped it would have to be a           *)
(* participant of the run.                                                 *)
LEMMA Stopped == ASSUME IInv PROVE StopTheWorld
<1> SUFFICES ASSUME WorldStopped, NEW t \in Threads, pc[t] \in Mutating PROVE FALSE
  BY ZenonT(120) DEF StopTheWorld
<1>1. PICK c \in Threads : is_coordinator[c] /\ pc[c] \in Working \cup Clearing \cup {"WaitFinish"}
  BY Conducted, ZenonT(120)
<1>2. t # c  BY <1>1 DEF Mutating, Working, Clearing
<1>3. t \in threads /\ stage[t] \notin Ended
  BY DEF IInv, ProtocolInv, ListFits, Mutating, Joining, Working, Voted, Clearing, Finishing
<1>4. gc_status[t] \in {NONE, INTERRUPT}
  BY DEF IInv, ProtocolInv, StatusFits, Mutating, AtRest
<1>5. gc_status[t] = INTERRUPT
  BY <1>1, <1>2, <1>3, <1>4 DEF IInv, ProtocolInv, EverybodyStopped, AllStopped, NONE, INTERRUPT, STOLEN
<1> QED BY <1>1, <1>2, <1>5 DEF IInv, ProtocolInv, EverybodyStopped, Interrupted, Mutating, Working

(* No thread runs user code while objects are moved and marked             *)
(* (signal_all, run_gc, finish_gc).                                        *)
THEOREM WorldStops == Spec => []StopTheWorld
<1>1. IInv => StopTheWorld  BY Stopped, ZenonT(120)
<1> QED BY <1>1, Invariance, PTL

(* Past the gc_ack spin a coordinator meets nobody of the previous run     *)
(* (MVM_gc_enter_from_allocator, finish_gc).                               *)
THEOREM RunsAreSerial == Spec => []RunsDoNotOverlap
<1>1. IInv => RunsDoNotOverlap
  <2> SUFFICES ASSUME IInv, NEW c \in Threads, pc[c] \in Beyond, NEW t \in Threads
               PROVE  pc[t] \notin Collecting \cup Finishing \cup {"ClearAck"}
    BY ZenonT(120) DEF RunsDoNotOverlap, Beyond
  <2>1. pc[t] \notin Working \cup Voted \cup {"ClearAck"}
    BY DEF IInv, ProtocolInv, OpenerAlone, Beyond
  <2> QED BY <2>1 DEF Collecting, Working, Voted, Clearing
<1> QED BY <1>1, Invariance, PTL

(* The panics on vote counts and thread statuses are unreachable           *)
(* (MVM_gc_mark_thread_blocked, MVM_gc_mark_thread_unblocked, finish_gc,   *)
(* MVM_gc_enter_from_interrupt).                                           *)
THEOREM NoSanityPanic == Spec => []SanityChecksHold
<1>1. IInv => SanityChecksHold  BY DEF IInv, ProtocolInv, PanicFits, SanityChecksHold
<1> QED BY <1>1, Invariance, PTL

(* A thread that joins a run finds start votes to take: a coordinator has  *)
(* set gc_start and has not yet cleared it (MVM_gc_enter_from_interrupt).  *)
THEOREM JoinsAnOpenRun == Spec => []StartCountNeverZero
<1>1. IInv => StartCountNeverZero  BY DEF IInv, ProtocolInv, WorkFits, StartCountNeverZero
<1> QED BY <1>1, Invariance, PTL
=============================================================================
