--------------------------- MODULE GcOpeningProofs ---------------------------
(***************************************************************************)
(* The first half of the opening of a collection, up to the lock on the    *)
(* list of threads, preserves the inductive invariant of GcInv: one lemma  *)
(* per action of GcOpening.  The second half is in GcSignalProofs.         *)
(*                                                                         *)
(* A proof first says what the action does to the variables of the         *)
(* invariant, then goes through the conjuncts of the invariant: those the  *)
(* action cannot disturb together, the others one by one.                  *)
(***************************************************************************)
EXTENDS GcOpening, GcInv

(* The time a leaf may take, on a busy machine too.                        *)
USE SMTT(120)

USE DEF NONE, INTERRUPT, UNABLE, STOLEN, PcTo, SpawnTo, StatusTo, StageTo, BretTo, ContTo,
        TargetTo, WorkTo, TodoTo, Appointed, Dismissed, IInv, ProtocolInv,
        AtRest, Joining, Opening, Beyond, Signalled, Working, Clearing, Voted, Finishing,
        Mutating, Ended, Running, At, Goto, SetStatus,
        voteVars, flagVars, listVars, workVars, retVars, signalVars, gcVars

(* A thread joins the run that is being opened.                            *)
LEMMA EnterFromInterruptKeeps ==
    ASSUME IInv, NEW t \in Threads, EnterFromInterrupt(t)
    PROVE  IInv'
<1>1. /\ gc_status[t] \in {NONE, INTERRUPT}
      /\ SuspendBits(gc_status[t]) # SUSPEND_REQUEST /\ gc_status[t] # UNABLE + SUSPENDED
  <2>1. gc_status[t] \in {NONE, INTERRUPT} /\ SuspendBits(gc_status[t]) = NONE
    BY StatusBits, ZenonT(120) DEF EnterFromInterrupt, StatusFits
  <2> QED BY <2>1 DEF SUSPEND_REQUEST, SUSPENDED
<1>2. Typing'
  <2>1. CounterTypes'
    BY <1>1, ZenonT(120) DEF EnterFromInterrupt, Typing, CounterTypes
  <2>2. FlagTypes'
    BY <1>1, ZenonT(120) DEF EnterFromInterrupt, Typing, FlagTypes
  <2>3. ThreadTypes'
    BY <1>1, SMT DEF EnterFromInterrupt, Typing, ThreadTypes
  <2>4. PlaceTypes'
    BY <1>1, KnownPlaces, ZenonT(120) DEF EnterFromInterrupt, Typing, PlaceTypes
  <2> QED BY <2>1, <2>2, <2>3, <2>4, ZenonT(120) DEF Typing
<1>3. threads \subseteq Threads  BY ZenonT(120) DEF Typing, ThreadTypes
<1>4. /\ pc[t] = "EnterInt" /\ PcTo(t, "WaitCount") /\ WorkTo(t, {t})
      /\ UNCHANGED <<gc_start, gc_finish, gc_ack, gc_intrays_clearing, threads, mutex_threads,
          panic, gc_status, stage, bret, cont, target, is_coordinator, todo, num_threads,
          to_signal, signalling>>
  BY <1>1, ZenonT(120) DEF EnterFromInterrupt, Typing, FlagTypes, ThreadTypes,
      PlaceTypes
<1>5. StaysOutside  BY <1>4, ZenonT(120) DEF StaysOutside, Outside
<1>6. StatusFits' /\ ListFits' /\ SpawnFits'
  BY <1>4 DEF StatusFits, ListFits, SpawnFits, Spawning
<1>7. WorkFits'  BY <1>4, ZenonT(120) DEF WorkFits
<1> QED BY <1>5, OutsideStep, <1>6, <1>7, <1>2, ZenonT(120)

(* A participant votes to start, or waits until it is counted.             *)
LEMMA VoteStartKeeps ==
    ASSUME Counting, IInv, NEW t \in Threads, VoteStart(t)
    PROVE  IInv'
<1>1. Typing'
  <2>1. CounterTypes'  BY DEF VoteStart, Sleep, Broadcast, Typing, CounterTypes
  <2>2. FlagTypes'  BY ZenonT(120) DEF VoteStart, Sleep, Broadcast, Typing, FlagTypes
  <2>3. ThreadTypes'  BY ZenonT(120) DEF VoteStart, Sleep, Broadcast, Typing, ThreadTypes
  <2>4. PlaceTypes'
    BY KnownPlaces DEF VoteStart, Sleep, Broadcast, Typing, PlaceTypes, CondVars, Awake
  <2> QED BY <2>1, <2>2, <2>3, <2>4, ZenonT(120) DEF Typing
<1>2. threads \subseteq Threads  BY ZenonT(120) DEF Typing, ThreadTypes
<1> SUFFICES ProtocolInv'  BY <1>1, ZenonT(120)
<1>3. CASE gc_start < 2
  <2>1. Quiet
    BY <1>3, ZenonT(120) DEF VoteStart, Sleep, Broadcast, Quiet, Typing, FlagTypes, ThreadTypes, PlaceTypes
  <2> QED BY <2>1, QuietStep, ZenonT(120)
<1>4. CASE gc_start >= 2
  <2>1. /\ pc[t] = "WaitCount" /\ gc_start >= 2 /\ gc_start' = gc_start - 1
        /\ PcTo(t, "WaitStart")
        /\ UNCHANGED <<gc_finish, gc_ack, gc_intrays_clearing, threads, mutex_threads, panic,
            gc_status, stage, gc_work, bret, cont, target, is_coordinator, todo, num_threads,
            to_signal, signalling>>
    BY <1>4 DEF VoteStart, Sleep, Broadcast, CounterTypes, Typing, FlagTypes, ThreadTypes,
        PlaceTypes
  <2>2. gc_start \in Int /\ gc_finish \in Int /\ gc_ack \in Int /\ num_threads \in Int
    BY <2>1, ZenonT(120) DEF Typing, CounterTypes
  <2>3. PICK c \in Threads : pc[c] \in {"WakeLoop", "WaitReady"}
    BY <2>1, <2>2 DEF OneOpener, StartVotes
  <2>4. t \in threads /\ gc_status[t] = INTERRUPT
    BY <2>1, <2>3 DEF EverybodySignalled, AllStopped, StatusFits, ListFits
  <2>5. Unready \in SUBSET Threads /\ Cardinality(Unready) \in Nat /\
        (Cardinality(Unready) = 0 <=> Unready = {})
    BY <2>1, ZenonT(120) DEF Unready, Counting
  <2>6. Unready' = Unready \ {t} /\ t \in Unready  BY <2>1, <2>4, ZenonT(120) DEF Unready
  <2>7. Cardinality(Unready') = Cardinality(Unready) - 1  BY <2>1, <2>5, <2>6, ZenonT(120) DEF Counting
  <2>8. gc_start' = 1 + Cardinality(Unready) - 1 /\ gc_start' # 0
    BY <2>1, <2>2, <2>3, <2>5 DEF StartVotes
  <2>9. pc'[c] = pc[c] /\ ~NobodyBeyond' /\ Interrupted' = Interrupted
    BY <2>1, <2>3, ZenonT(120) DEF Interrupted, NobodyBeyond
  <2>10. StatusFits' /\ ListFits' /\ SpawnFits' /\ OneCoordinator' /\ PanicFits'
    BY <2>1 DEF StatusFits, ListFits, SpawnFits, Spawning, OneCoordinator, PanicFits
  <2>11. OneOpener'  BY <2>1, <1>2, <2>3, <2>9, <2>8 DEF OneOpener
  <2>12. OpenerAlone'  BY <2>1, <2>3, <2>4 DEF OpenerAlone, OneOpener
  <2>13. StartVotes'  BY <2>1, <2>3, <2>9, <2>8, <2>7, <2>5, <2>2, ZenonT(120) DEF StartVotes, OneOpener
  <2>14. FinishVotesFit'  BY <2>1, <2>3, <2>9, ZenonT(120) DEF FinishVotesFit, OneOpener
  <2>15. AcksFit'  BY <2>1, <2>9, ZenonT(120) DEF AcksFit
  <2>16. EverybodySignalled'  BY <2>1, <1>2, <2>3, <2>9, ZenonT(120) DEF EverybodySignalled, AllStopped
  <2>17. EverybodyStopped'  BY <2>1, <1>2, ZenonT(120) DEF EverybodyStopped, AllStopped, Interrupted
  <2>18. CoordinatorFits'  BY <2>1, <2>3, <2>9, ZenonT(120) DEF CoordinatorFits, OpenerAlone
  <2>19. ClearingFits'  BY <2>1, <2>3, <2>9, ZenonT(120) DEF ClearingFits, OpenerAlone
  <2>20. InterruptedFits'  BY <2>1, <2>9, <2>8, ZenonT(120) DEF InterruptedFits, Interrupted
  <2>21. WorkFits'  BY <2>1, <2>9, <2>8, ZenonT(120) DEF WorkFits
  <2> QED BY <2>10, <2>11, <2>12, <2>13, <2>14, <2>15, <2>16, <2>17, <2>18, <2>19, <2>20, <2>21,
      ZenonT(120)
<1> QED BY <1>3, <1>4 DEF Typing, CounterTypes

(* A participant starts once all have voted.                               *)
LEMMA WaitStartKeeps ==
    ASSUME IInv, NEW t \in Threads, WaitStart(t)
    PROVE  IInv'
<1>1. Typing'
  <2>1. CounterTypes'  BY ZenonT(120) DEF WaitStart, Sleep, Typing, CounterTypes
  <2>2. FlagTypes'  BY ZenonT(120) DEF WaitStart, Sleep, Typing, FlagTypes
  <2>3. ThreadTypes'  BY ZenonT(120) DEF WaitStart, Sleep, Typing, ThreadTypes
  <2>4. PlaceTypes'  BY KnownPlaces, ZenonT(120) DEF WaitStart, Sleep, Typing, PlaceTypes, CondVars, Awake
  <2> QED BY <2>1, <2>2, <2>3, <2>4, ZenonT(120) DEF Typing
<1>2. threads \subseteq Threads  BY ZenonT(120) DEF Typing, ThreadTypes
<1> SUFFICES ProtocolInv'  BY <1>1, ZenonT(120)
<1>3. CASE gc_start # 0
  <2>1. Quiet  BY <1>3, ZenonT(120) DEF WaitStart, Sleep, Quiet, Typing, FlagTypes, ThreadTypes, PlaceTypes
  <2> QED BY <2>1, QuietStep, ZenonT(120)
<1>4. CASE gc_start = 0
  <2>1. /\ pc[t] = "WaitStart" /\ gc_start = 0 /\ PcTo(t, "Collect") /\ TodoTo(t, gc_work[t])
        /\ UNCHANGED <<gc_start, gc_finish, gc_ack, gc_intrays_clearing, threads, mutex_threads,
            panic, gc_status, stage, gc_work, bret, cont, target, is_coordinator, num_threads,
            to_signal, signalling>>
    BY <1>4, ZenonT(120) DEF WaitStart, Sleep, Typing, FlagTypes, ThreadTypes, PlaceTypes
  <2>2. \A c \in Threads : pc[c] \notin Opening  BY <2>1, ZenonT(120) DEF OneOpener
  <2>3. UNCHANGED <<Interrupted, Unfinished, Active, NobodyBeyond>>
    BY <2>1 DEF Interrupted, Unfinished, Active, NobodyBeyond
  <2>4. StatusFits' /\ ListFits' /\ SpawnFits' /\ OneCoordinator' /\ PanicFits'
    BY <2>1 DEF StatusFits, ListFits, SpawnFits, Spawning, OneCoordinator, PanicFits
  <2>5. OneOpener' /\ AcksFit'  BY <2>1, <1>2, <2>3, ZenonT(120) DEF OneOpener, AcksFit
  <2>6. OpenerAlone'  BY <2>1, <2>2, ZenonT(120) DEF OpenerAlone
  <2>7. StartVotes'  BY <2>1, <2>3, <2>2, ZenonT(120) DEF StartVotes
  <2>8. FinishVotesFit'  BY <2>1, <2>3, <2>2, ZenonT(120) DEF FinishVotesFit
  <2>9. EverybodySignalled'  BY <2>1, <1>2, <2>2, ZenonT(120) DEF EverybodySignalled, AllStopped
  <2>10. EverybodyStopped'
    BY <2>1, <1>2 DEF EverybodyStopped, AllStopped, Interrupted, CoordinatorFits
  <2>11. CoordinatorFits' /\ InterruptedFits' /\ WorkFits'
    BY <2>1, <2>3 DEF CoordinatorFits, InterruptedFits, Interrupted, WorkFits
  <2>12. ClearingFits'  BY <2>1, <2>3, ZenonT(120) DEF ClearingFits, CoordinatorFits
  <2> QED BY <2>4, <2>5, <2>6, <2>7, <2>8, <2>9, <2>10, <2>11, <2>12, ZenonT(120)
<1> QED BY <1>3, <1>4, ZenonT(120)

(* A thread becomes the coordinator, or loses the election.                *)
LEMMA ElectKeeps ==
    ASSUME IInv, NEW t \in Threads, Elect(t)
    PROVE  IInv'
<1>1. Typing'
  <2>1. CounterTypes'  BY DEF Elect, Typing, CounterTypes
  <2>2. FlagTypes'  BY ZenonT(120) DEF Elect, Typing, FlagTypes
  <2>3. ThreadTypes'  BY ZenonT(120) DEF Elect, Typing, ThreadTypes
  <2>4. PlaceTypes'  BY KnownPlaces, ZenonT(120) DEF Elect, Typing, PlaceTypes
  <2> QED BY <2>1, <2>2, <2>3, <2>4, ZenonT(120) DEF Typing
<1>2. threads \subseteq Threads  BY ZenonT(120) DEF Typing, ThreadTypes
<1> SUFFICES ProtocolInv'  BY <1>1, ZenonT(120)
<1>3. CASE gc_start = 0
  <2>1. /\ pc[t] = "Alloc" /\ gc_start = 0 /\ gc_start' = 1 /\ PcTo(t, "AckSpin")
        /\ UNCHANGED <<gc_finish, gc_ack, gc_intrays_clearing, threads, mutex_threads, panic,
            gc_status, stage, gc_work, bret, cont, target, is_coordinator, todo, num_threads,
            to_signal, signalling>>
    BY <1>3, ZenonT(120) DEF Elect, Typing, FlagTypes, ThreadTypes, PlaceTypes
  <2>2. \A c \in Threads : pc[c] \notin Opening  BY <2>1, ZenonT(120) DEF OneOpener
  <2>3. NobodyBeyond  BY <2>1, <2>2, ZenonT(120) DEF NobodyBeyond
  <2>4. t \in threads /\ stage[t] \notin Ended /\ gc_status[t] \in {NONE, INTERRUPT}
    BY <2>1, ZenonT(120) DEF StatusFits, ListFits
  <2>5. Unfinished = {}
    BY <2>1, <2>3, <2>4 DEF CoordinatorFits, EverybodyStopped, AllStopped, Interrupted
  <2>6. UNCHANGED <<Interrupted, Unready, Unfinished, Active, NobodyBeyond>>
    BY <2>1, ZenonT(120) DEF Interrupted, Unready, Unfinished, Active, NobodyBeyond
  <2>7. StatusFits' /\ ListFits' /\ SpawnFits' /\ OneCoordinator' /\ PanicFits'
    BY <2>1 DEF StatusFits, ListFits, SpawnFits, Spawning, OneCoordinator, PanicFits
  <2>8. AcksFit'  BY <2>1, <2>6, ZenonT(120) DEF AcksFit
  <2>9. OneOpener'  BY <2>1, <1>2, <2>2 DEF OneOpener
  <2>10. OpenerAlone'  BY <2>1, <2>2, <2>5, ZenonT(120) DEF OpenerAlone, Unfinished
  <2>11. StartVotes'  BY <2>1, <2>6, <2>2, ZenonT(120) DEF StartVotes
  <2>12. FinishVotesFit'  BY <2>1, <2>6, <2>2, ZenonT(120) DEF FinishVotesFit
  <2>13. EverybodySignalled' /\ EverybodyStopped'
    BY <2>1, <1>2 DEF EverybodySignalled, AllStopped, EverybodyStopped, Interrupted
  <2>14. CoordinatorFits' /\ InterruptedFits' /\ WorkFits'
    BY <2>1, <2>6 DEF CoordinatorFits, InterruptedFits, Interrupted, WorkFits
  <2>15. ClearingFits'  BY <2>1, <2>6, <2>2, ZenonT(120) DEF ClearingFits
  <2> QED BY <2>7, <2>8, <2>9, <2>10, <2>11, <2>12, <2>13, <2>14, <2>15, ZenonT(120)
<1>4. CASE gc_start # 0
  <2>1. /\ pc[t] = "Alloc" /\ gc_start # 0 /\ PcTo(t, "EnterInt")
        /\ UNCHANGED <<gc_start, gc_finish, gc_ack, gc_intrays_clearing, threads, mutex_threads,
            panic, gc_status, stage, gc_work, bret, cont, target, is_coordinator, todo,
            num_threads, to_signal, signalling>>
    BY <1>4, ZenonT(120) DEF Elect, Typing, FlagTypes, ThreadTypes, PlaceTypes
  <2>2. StaysOutside  BY <2>1, ZenonT(120) DEF StaysOutside, Outside
  <2>3. StatusFits' /\ ListFits' /\ SpawnFits'
    BY <2>1 DEF StatusFits, ListFits, SpawnFits, Spawning
  <2>4. WorkFits'  BY <2>1, ZenonT(120) DEF WorkFits
  <2> QED BY <2>2, OutsideStep, <2>3, <2>4, ZenonT(120)
<1> QED BY <1>3, <1>4, ZenonT(120)

(* The coordinator sets up a run: everybody has left the previous one.     *)
LEMMA BeginRunKeeps ==
    ASSUME Counting, IInv, NEW t \in Threads, BeginRun(t)
    PROVE  IInv'
<1>1. Typing'
  <2>1. CounterTypes'  BY ZenonT(120) DEF BeginRun, Acknowledged, Typing, CounterTypes
  <2>2. FlagTypes'  BY ZenonT(120) DEF BeginRun, Acknowledged, Typing, FlagTypes
  <2>3. ThreadTypes'  BY ZenonT(120) DEF BeginRun, Acknowledged, Typing, ThreadTypes
  <2>4. PlaceTypes'  BY KnownPlaces, ZenonT(120) DEF BeginRun, Acknowledged, Typing, PlaceTypes
  <2> QED BY <2>1, <2>2, <2>3, <2>4, ZenonT(120) DEF Typing
<1>2. threads \subseteq Threads  BY ZenonT(120) DEF Typing, ThreadTypes
<1>3. /\ pc[t] = "AckSpin" /\ gc_ack = 0 /\ gc_intrays_clearing' = TRUE /\ num_threads' = 0
      /\ PcTo(t, "LockThreads") /\ WorkTo(t, {t})
      /\ UNCHANGED <<gc_start, gc_finish, gc_ack, threads, mutex_threads, panic, gc_status, stage,
          bret, cont, target, is_coordinator, todo, to_signal, signalling>>
  BY ZenonT(120) DEF BeginRun, Acknowledged, Typing, FlagTypes, ThreadTypes, PlaceTypes
<1>4. \A c \in Threads : pc[c] \in Opening => c = t  BY <1>3, ZenonT(120) DEF OneOpener
<1>5. NobodyBeyond  BY <1>3, <1>4, ZenonT(120) DEF NobodyBeyond
<1>6. Active \in SUBSET Threads /\ Cardinality(Active) \in Nat /\
      (Cardinality(Active) = 0 <=> Active = {})
  BY <1>3, ZenonT(120) DEF Active, Counting
<1>7. Active = {} /\ \A x \in Threads : pc[x] # "ClearAck"  BY <1>3, <1>5, <1>6 DEF AcksFit
<1>8. \A x \in Threads : pc[x] \notin Working \cup Voted \cup {"WaitStart"}
  BY <1>3, <1>7, ZenonT(120) DEF Active
<1>9. Interrupted = {} /\ Unfinished = {}
  BY <1>3, <1>5, <1>8, ZenonT(120) DEF InterruptedFits, Interrupted, Unfinished
<1>10. Cardinality(Interrupted) = 0 /\ Cardinality(Unfinished) = 0  BY <1>3, <1>9, ZenonT(120) DEF Counting
<1>11. gc_status[t] = NONE  BY <1>3, <1>9, ZenonT(120) DEF StatusFits, Interrupted
<1>12. ~NobodyBeyond'  BY <1>3, ZenonT(120) DEF NobodyBeyond
<1>13. UNCHANGED <<Interrupted, Unready, Unfinished, Active>>
  BY <1>3, ZenonT(120) DEF Interrupted, Unready, Unfinished, Active
<1>14. StatusFits' /\ ListFits' /\ SpawnFits' /\ OneCoordinator' /\ PanicFits'
  BY <1>3 DEF StatusFits, ListFits, SpawnFits, Spawning, OneCoordinator, PanicFits
<1>15. OneOpener'  BY <1>3, <1>2, ZenonT(120) DEF OneOpener
<1>16. OpenerAlone'  BY <1>3, <1>4, <1>8, <1>7, <1>11 DEF OpenerAlone
<1>17. StartVotes'  BY <1>3, <1>13, <1>4, <1>10, ZenonT(120) DEF StartVotes
<1>18. FinishVotesFit'  BY <1>3, <1>13, <1>4, <1>5, <1>10, <1>12, ZenonT(120) DEF FinishVotesFit
<1>19. AcksFit'  BY <1>3, <1>13, <1>12, ZenonT(120) DEF AcksFit
<1>20. EverybodyStopped'  BY <1>3, <1>2, ZenonT(120) DEF EverybodyStopped, AllStopped, Interrupted
<1>21. EverybodySignalled'  BY <1>3, <1>2, <1>4, ZenonT(120) DEF EverybodySignalled, AllStopped
<1>22. CoordinatorFits'  BY <1>3, <1>13, <1>12, ZenonT(120) DEF CoordinatorFits
<1>23. ClearingFits'  BY <1>3, <1>13, <1>8, ZenonT(120) DEF ClearingFits
<1>24. InterruptedFits'  BY <1>3, <1>13, <1>12, ZenonT(120) DEF InterruptedFits, Interrupted
<1>25. WorkFits'  BY <1>3, <1>12, ZenonT(120) DEF WorkFits
<1> QED BY <1>14, <1>15, <1>16, <1>17, <1>18, <1>19, <1>20, <1>21, <1>22, <1>23, <1>24, <1>25,
    <1>1, ZenonT(120)

(* The coordinator takes mutex_threads.                                    *)
LEMMA LockThreadsKeeps ==
    ASSUME IInv, NEW t \in Threads, LockThreads(t)
    PROVE  IInv'
<1>1. Typing'
  <2>1. CounterTypes'  BY ZenonT(120) DEF LockThreads, Typing, CounterTypes
  <2>2. FlagTypes'  BY ZenonT(120) DEF LockThreads, Typing, FlagTypes
  <2>3. ThreadTypes'  BY ZenonT(120) DEF LockThreads, Typing, ThreadTypes
  <2>4. PlaceTypes'  BY KnownPlaces, ZenonT(120) DEF LockThreads, Typing, PlaceTypes
  <2> QED BY <2>1, <2>2, <2>3, <2>4, ZenonT(120) DEF Typing
<1>2. threads \subseteq Threads  BY ZenonT(120) DEF Typing, ThreadTypes
<1>3. /\ pc[t] = "LockThreads" /\ mutex_threads = NoThread /\ mutex_threads' = t
      /\ to_signal' = threads /\ PcTo(t, "Signal")
      /\ UNCHANGED <<gc_start, gc_finish, gc_ack, gc_intrays_clearing, threads, panic, gc_status,
          stage, gc_work, bret, cont, target, is_coordinator, todo, num_threads, signalling>>
  BY ZenonT(120) DEF LockThreads, Typing, FlagTypes, ThreadTypes, PlaceTypes
<1>4. StaysBeyond(t, "Signal")  BY <1>3, ZenonT(120) DEF StaysBeyond, OneOpener
<1>5. UNCHANGED <<Interrupted, Unready, Unfinished, Active, NobodyBeyond>>  BY <1>4, BeyondStep, ZenonT(120)
<1>6. \A c \in Threads : pc[c] \in Opening => c = t  BY <1>3, ZenonT(120) DEF OneOpener
<1>7. OpenerAlone' /\ StartVotes' /\ FinishVotesFit'
  BY <1>3, <1>5 DEF OpenerAlone, StartVotes, FinishVotesFit
<1>8. OneOpener'  BY <1>3, <1>2, ThreadsAssumption, ZenonT(120) DEF OneOpener
<1>9. EverybodySignalled'  BY <1>3, <1>2, <1>6, ZenonT(120) DEF EverybodySignalled, AllStopped
<1> QED BY <1>4, BeyondStep, <1>7, <1>8, <1>9, <1>1, ZenonT(120)
=============================================================================
