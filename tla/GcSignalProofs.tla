--------------------------- MODULE GcSignalProofs ---------------------------
(***************************************************************************)
(* The second half of the opening, from the signalling of the threads to   *)
(* the coordinator's start: one lemma per action of GcOpening, each        *)
(* preserves the inductive invariant of GcInv.                             *)
(*                                                                         *)
(* A proof first says what the action does to the variables of the         *)
(* invariant, then goes through the conjuncts of the invariant: those the  *)
(* action cannot disturb together, the others one by one.                  *)
(***************************************************************************)
EXTENDS GcOpening, GcInv

(* The time a leaf may take, on a busy machine too.                        *)
USE SMTT(120)

USE DEF NONE, INTERRUPT, UNABLE, STOLEN, PcTo, SpawnTo, StatusTo, StageTo, BretTo, ContTo,
        TargetTo, WorkTo, TodoTo, Appointed, Dismissed, IInv, ProtocolInv,
        AtRest, Joining, Opening, Beyond, Signalled, Working, Clearing, Voted, Finishing,
        Mutating, Ended, Running, At, Goto, SetStatus,
        voteVars, flagVars, listVars, workVars, retVars, signalVars, gcVars

(* The coordinator looks at the next thread of the list.                   *)
LEMMA SignalKeeps ==
    ASSUME IInv, NEW t \in Threads, NEW u \in Threads, Signal(t, u)
    PROVE  IInv'
<1>1. Typing'
  <2>1. CounterTypes'  BY ZenonT(120) DEF Signal, TakesOver, Typing, CounterTypes
  <2>2. FlagTypes'  BY ZenonT(120) DEF Signal, TakesOver, Typing, FlagTypes
  <2>3. ThreadTypes'  BY DEF Signal, TakesOver, Typing, ThreadTypes
  <2>4. PlaceTypes'  BY KnownPlaces, ZenonT(120) DEF Signal, TakesOver, Typing, PlaceTypes
  <2> QED BY <2>1, <2>2, <2>3, <2>4, ZenonT(120) DEF Typing
<1>2. threads \subseteq Threads  BY ZenonT(120) DEF Typing, ThreadTypes
<1> SUFFICES ProtocolInv'  BY <1>1, ZenonT(120)
<1>3. CASE stage[u] \in {"starting", "started"} /\ u # t
  <2>1. /\ pc[t] = "Signal" /\ u \in to_signal /\ stage[u] \in {"starting", "started"} /\ u # t
        /\ to_signal' = to_signal \ {u} /\ signalling' = u /\ PcTo(t, "SignalOne")
        /\ UNCHANGED <<gc_start, gc_finish, gc_ack, gc_intrays_clearing, threads, mutex_threads,
            panic, gc_status, stage, gc_work, bret, cont, target, is_coordinator, todo,
            num_threads>>
    BY <1>3, ZenonT(120) DEF Signal, TakesOver, Typing, FlagTypes, ThreadTypes, PlaceTypes
  <2>2. StaysBeyond(t, "SignalOne")  BY <2>1, ZenonT(120) DEF StaysBeyond, OneOpener
  <2>3. UNCHANGED <<Interrupted, Unready, Unfinished, Active, NobodyBeyond>>  BY <2>2, BeyondStep, ZenonT(120)
  <2>4. \A c \in Threads : pc[c] \in Opening => c = t  BY <2>1, ZenonT(120) DEF OneOpener
  <2>5. u \in threads  BY <2>1, ZenonT(120) DEF ListFits
  <2>6. OpenerAlone' /\ StartVotes' /\ FinishVotesFit'
    BY <2>1, <2>3 DEF OpenerAlone, StartVotes, FinishVotesFit
  <2>7. OneOpener'  BY <2>1, <1>2, <2>5, ZenonT(120) DEF OneOpener
  <2>8. EverybodySignalled'  BY <2>1, <1>2, <2>4, <2>5 DEF EverybodySignalled, AllStopped
  <2> QED BY <2>2, BeyondStep, <2>6, <2>7, <2>8, ZenonT(120)
<1>4. CASE ~(stage[u] \in {"starting", "started"} /\ u # t)
  <2>1. /\ pc[t] = "Signal" /\ u \in to_signal /\ (stage[u] \in Ended \/ u = t)
        /\ to_signal' = to_signal \ {u} /\ (\A x \in Threads : gc_work[x] \subseteq gc_work'[x])
        /\ UNCHANGED <<gc_start, gc_finish, gc_ack, gc_intrays_clearing, threads, mutex_threads,
            panic, gc_status, stage, pc, bret, cont, target, is_coordinator, todo, num_threads,
            signalling>>
    BY <1>4 DEF Signal, TakesOver, Stages, Typing, FlagTypes, ThreadTypes, PlaceTypes
  <2>2. StaysBeyond(t, pc[t])  BY <2>1, ZenonT(120) DEF StaysBeyond, OneOpener
  <2>3. UNCHANGED <<Interrupted, Unready, Unfinished, Active, NobodyBeyond>>  BY <2>2, BeyondStep, ZenonT(120)
  <2>4. \A c \in Threads : pc[c] \in Opening => c = t  BY <2>1, ZenonT(120) DEF OneOpener
  <2>5. OneOpener' /\ OpenerAlone' /\ StartVotes' /\ FinishVotesFit'
    BY <2>1, <1>2, <2>3, ZenonT(120) DEF OneOpener, OpenerAlone, StartVotes, FinishVotesFit
  <2>6. EverybodySignalled'  BY <2>1, <1>2, <2>4 DEF EverybodySignalled, AllStopped
  <2> QED BY <2>2, BeyondStep, <2>5, <2>6, ZenonT(120)
<1> QED BY <1>3, <1>4, ZenonT(120)

(* A thread is interrupted, its work is stolen, or it was signalled        *)
(* before.                                                                 *)
LEMMA SignalOneKeeps ==
    ASSUME Counting, IInv, NEW t \in Threads, SignalOne(t)
    PROVE  IInv'
<1>1. /\ signalling \in Threads /\ gc_status[signalling] \in {NONE, INTERRUPT, UNABLE, STOLEN}
      /\ GcBits(gc_status[signalling]) = gc_status[signalling]
      /\ SuspendBits(gc_status[signalling]) = NONE
  BY StatusBits DEF SignalOne, OneOpener, Typing, ThreadTypes
<1>2. Typing'
  <2>1. CounterTypes'
    BY <1>1 DEF SignalOne, Stolen, SUSPEND_REQUEST, SUSPENDED, Typing, CounterTypes
  <2>2. FlagTypes'
    BY <1>1, ZenonT(120) DEF SignalOne, Stolen, SUSPEND_REQUEST, SUSPENDED, Typing, FlagTypes
  <2>3. ThreadTypes'
    BY <1>1 DEF SignalOne, Stolen, SUSPEND_REQUEST, SUSPENDED, Typing, ThreadTypes, Panics
  <2>4. PlaceTypes'
    BY <1>1, KnownPlaces, ZenonT(120) DEF SignalOne, Stolen, SUSPEND_REQUEST, SUSPENDED, Typing, PlaceTypes
  <2> QED BY <2>1, <2>2, <2>3, <2>4, ZenonT(120) DEF Typing
<1>3. threads \subseteq Threads  BY ZenonT(120) DEF Typing, ThreadTypes
<1> SUFFICES ProtocolInv'  BY <1>2, ZenonT(120)
<1>4. CASE gc_status[signalling] = NONE
  <2>1. PICK u \in Threads :
        /\ pc[t] = "SignalOne" /\ u = signalling /\ gc_status[u] = NONE
        /\ num_threads' = num_threads + 1 /\ signalling' = NoThread /\ PcTo(t, "Signal")
        /\ StatusTo(u, INTERRUPT)
        /\ UNCHANGED <<gc_start, gc_finish, gc_ack, gc_intrays_clearing, threads, mutex_threads,
            panic, stage, gc_work, bret, cont, target, is_coordinator, todo, to_signal>>
    BY <1>1, <1>4 DEF SignalOne, Stolen, SUSPEND_REQUEST, SUSPENDED, Typing, FlagTypes,
        ThreadTypes, PlaceTypes
  <2>2. \A c \in Threads : pc[c] \in Opening => c = t  BY <2>1, ZenonT(120) DEF OneOpener
  <2>3. signalling \in threads \ {t} /\ stage[signalling] \in {"starting", "started", "exited"}
    BY <2>1, ZenonT(120) DEF OneOpener
  <2>4. signalling \in Threads /\ pc[signalling] # "Unborn"  BY <2>1, <1>3, <2>3, ZenonT(120) DEF ListFits
  <2>5. \A x \in Threads : pc[x] \notin Working \cup Voted \cup {"ClearAck", "WaitStart"}
    BY <2>1, ZenonT(120) DEF OpenerAlone
  <2>6. ~NobodyBeyond  BY <2>1, ZenonT(120) DEF NobodyBeyond
  <2>7. Interrupted \in SUBSET Threads /\ Cardinality(Interrupted) \in Nat /\
        (Cardinality(Interrupted) = 0 <=> Interrupted = {})
    BY <2>1, ZenonT(120) DEF Interrupted, Counting
  <2>8. Interrupted' = Interrupted \cup {u} /\ u \notin Interrupted  BY <2>1 DEF Interrupted
  <2>9. Cardinality(Interrupted') = Cardinality(Interrupted) + 1  BY <2>1, <2>8, <2>7, ZenonT(120) DEF Counting
  <2>10. UNCHANGED <<Unfinished, Active, NobodyBeyond>>
    BY <2>1, ZenonT(120) DEF Unfinished, Active, NobodyBeyond
  <2>11. OneCoordinator'  BY <2>1 DEF OneCoordinator
  <2>12. PanicFits'  BY <2>1, ZenonT(120) DEF PanicFits
  <2>13. StatusFits'  BY <2>1, <2>4 DEF StatusFits
  <2>14. ListFits'  BY <2>1, <2>3, <2>4 DEF ListFits
  <2>15. SpawnFits'  BY <2>1, <2>4 DEF SpawnFits, Spawning
  <2>16. OneOpener'  BY <2>1, <1>3 DEF OneOpener
  <2>17. OpenerAlone'  BY <2>1, <2>2, <2>3, <2>5 DEF OpenerAlone
  <2>18. StartVotes'  BY <2>1, <2>10, <2>2, <2>9, ZenonT(120) DEF StartVotes
  <2>19. FinishVotesFit'  BY <2>1, <2>10, <2>6, <2>2, ZenonT(120) DEF FinishVotesFit
  <2>20. AcksFit'  BY <2>1, <2>10, <2>6, ZenonT(120) DEF AcksFit
  <2>21. EverybodySignalled'  BY <2>1, <1>3, <2>2, <2>3 DEF EverybodySignalled, AllStopped
  <2>22. EverybodyStopped'  BY <2>1, <1>3, <2>5 DEF EverybodyStopped, AllStopped, Interrupted
  <2>23. ClearingFits'  BY <2>1, <2>10, ZenonT(120) DEF ClearingFits
  <2>24. CoordinatorFits'  BY <2>1, <2>10, <2>6, ZenonT(120) DEF CoordinatorFits
  <2>25. InterruptedFits'  BY <2>1, <2>10, <2>6, <2>5, <2>3, ZenonT(120) DEF InterruptedFits, Interrupted
  <2>26. WorkFits'  BY <2>1, <2>6, <2>5, <2>3, ZenonT(120) DEF WorkFits
  <2> QED BY <2>11, <2>12, <2>13, <2>14, <2>15, <2>16, <2>17, <2>18, <2>19, <2>20, <2>21, <2>22,
      <2>23, <2>24, <2>25, <2>26, ZenonT(120)
<1>5. CASE gc_status[signalling] = UNABLE
  <2>1. PICK u \in Threads :
        /\ pc[t] = "SignalOne" /\ u = signalling /\ gc_status[u] = UNABLE
        /\ signalling' = NoThread /\ PcTo(t, "Signal") /\ StatusTo(u, STOLEN)
        /\ (\A x \in Threads : gc_work[x] \subseteq gc_work'[x])
        /\ UNCHANGED <<gc_start, gc_finish, gc_ack, gc_intrays_clearing, threads, mutex_threads,
            panic, stage, bret, cont, target, is_coordinator, todo, num_threads, to_signal>>
    BY <1>1, <1>5 DEF SignalOne, Stolen, SUSPEND_REQUEST, SUSPENDED, Typing, FlagTypes,
        ThreadTypes, PlaceTypes
  <2>2. \A c \in Threads : pc[c] \in Opening => c = t  BY <2>1, ZenonT(120) DEF OneOpener
  <2>3. signalling \in threads \ {t} /\ stage[signalling] \in {"starting", "started", "exited"}
    BY <2>1, ZenonT(120) DEF OneOpener
  <2>4. signalling \in Threads /\ pc[signalling] # "Unborn"  BY <2>1, <1>3, <2>3, ZenonT(120) DEF ListFits
  <2>5. \A x \in Threads : pc[x] \notin Working \cup Voted \cup {"ClearAck", "WaitStart"}
    BY <2>1, ZenonT(120) DEF OpenerAlone
  <2>6. UNCHANGED <<Interrupted, Unready, Unfinished, Active, NobodyBeyond>>
    BY <2>1 DEF Interrupted, Unready, Unfinished, Active, NobodyBeyond
  <2>7. OneCoordinator'  BY <2>1 DEF OneCoordinator
  <2>8. PanicFits'  BY <2>1, ZenonT(120) DEF PanicFits
  <2>9. StatusFits'  BY <2>1, <2>4 DEF StatusFits
  <2>10. ListFits'  BY <2>1, <2>3, <2>4 DEF ListFits
  <2>11. SpawnFits'  BY <2>1, <2>4 DEF SpawnFits, Spawning
  <2>12. OneOpener'  BY <2>1, <1>3 DEF OneOpener
  <2>13. StartVotes'  BY <2>1, <2>6, ZenonT(120) DEF StartVotes
  <2>14. FinishVotesFit'  BY <2>1, <2>6, ZenonT(120) DEF FinishVotesFit
  <2>15. AcksFit'  BY <2>1, <2>6, ZenonT(120) DEF AcksFit
  <2>16. OpenerAlone'  BY <2>1, <2>3 DEF OpenerAlone
  <2>17. EverybodySignalled'  BY <2>1, <1>3, <2>2, <2>3 DEF EverybodySignalled, AllStopped
  <2>18. EverybodyStopped'  BY <2>1, <1>3, <2>5 DEF EverybodyStopped, AllStopped, Interrupted
  <2>19. CoordinatorFits'  BY <2>1, <2>6, ZenonT(120) DEF CoordinatorFits
  <2>20. ClearingFits'  BY <2>1, <2>6, ZenonT(120) DEF ClearingFits
  <2>21. InterruptedFits'  BY <2>1, <2>6, ZenonT(120) DEF InterruptedFits, Interrupted
  <2>22. WorkFits'  BY <2>1, ZenonT(120) DEF WorkFits
  <2> QED BY <2>7, <2>8, <2>9, <2>10, <2>11, <2>12, <2>13, <2>14, <2>15, <2>16, <2>17, <2>18,
      <2>19, <2>20, <2>21, <2>22, ZenonT(120)
<1>6. CASE gc_status[signalling] \in {INTERRUPT, STOLEN}
  <2>1. /\ pc[t] = "SignalOne" /\ gc_status[signalling] \in {INTERRUPT, STOLEN}
        /\ signalling' = NoThread /\ PcTo(t, "Signal")
        /\ UNCHANGED <<gc_start, gc_finish, gc_ack, gc_intrays_clearing, threads, mutex_threads,
            panic, gc_status, stage, gc_work, bret, cont, target, is_coordinator, todo,
            num_threads, to_signal>>
    BY <1>1, <1>6 DEF SignalOne, Stolen, SUSPEND_REQUEST, SUSPENDED, Typing, FlagTypes,
        ThreadTypes, PlaceTypes
  <2>2. StaysBeyond(t, "Signal")  BY <2>1, ZenonT(120) DEF StaysBeyond, OneOpener
  <2>3. UNCHANGED <<Interrupted, Unready, Unfinished, Active, NobodyBeyond>>  BY <2>2, BeyondStep, ZenonT(120)
  <2>4. \A c \in Threads : pc[c] \in Opening => c = t  BY <2>1, ZenonT(120) DEF OneOpener
  <2>5. signalling \in threads \ {t} /\ stage[signalling] \in {"starting", "started", "exited"}
    BY <2>1, ZenonT(120) DEF OneOpener
  <2>6. OneOpener'  BY <2>1, <1>3, ZenonT(120) DEF OneOpener
  <2>7. OpenerAlone'  BY <2>1, ZenonT(120) DEF OpenerAlone
  <2>8. StartVotes'  BY <2>1, <2>3, ZenonT(120) DEF StartVotes
  <2>9. FinishVotesFit'  BY <2>1, <2>3, ZenonT(120) DEF FinishVotesFit
  <2>10. EverybodySignalled'  BY <2>1, <1>3, <2>4, <2>5 DEF EverybodySignalled, AllStopped
  <2> QED BY <2>2, BeyondStep, <2>6, <2>7, <2>8, <2>9, <2>10, ZenonT(120)
<1> QED BY <1>4, <1>5, <1>6, <1>1, ZenonT(120)

(* All threads are signalled.                                              *)
LEMMA SignalDoneKeeps ==
    ASSUME IInv, NEW t \in Threads, SignalDone(t)
    PROVE  IInv'
<1>1. Typing'
  <2>1. CounterTypes'  BY ZenonT(120) DEF SignalDone, Typing, CounterTypes
  <2>2. FlagTypes'  BY ZenonT(120) DEF SignalDone, Typing, FlagTypes
  <2>3. ThreadTypes'  BY ZenonT(120) DEF SignalDone, Typing, ThreadTypes
  <2>4. PlaceTypes'  BY KnownPlaces, ZenonT(120) DEF SignalDone, Typing, PlaceTypes
  <2> QED BY <2>1, <2>2, <2>3, <2>4, ZenonT(120) DEF Typing
<1>2. threads \subseteq Threads  BY ZenonT(120) DEF Typing, ThreadTypes
<1>3. /\ pc[t] = "Signal" /\ to_signal = {} /\ mutex_threads' = NoThread /\ PcTo(t, "AddVotes")
      /\ UNCHANGED <<gc_start, gc_finish, gc_ack, gc_intrays_clearing, threads, panic, gc_status,
          stage, gc_work, bret, cont, target, is_coordinator, todo, num_threads, to_signal,
          signalling>>
  BY ZenonT(120) DEF SignalDone, Typing, FlagTypes, ThreadTypes, PlaceTypes
<1>4. StaysBeyond(t, "AddVotes")  BY <1>3, ZenonT(120) DEF StaysBeyond, OneOpener
<1>5. UNCHANGED <<Interrupted, Unready, Unfinished, Active, NobodyBeyond>>  BY <1>4, BeyondStep, ZenonT(120)
<1>6. \A c \in Threads : pc[c] \in Opening => c = t  BY <1>3, ZenonT(120) DEF OneOpener
<1>7. OpenerAlone' /\ StartVotes' /\ FinishVotesFit'
  BY <1>3, <1>5, ZenonT(120) DEF OpenerAlone, StartVotes, FinishVotesFit
<1>8. OneOpener'  BY <1>3, <1>2, ThreadsAssumption, ZenonT(120) DEF OneOpener
<1>9. EverybodySignalled'  BY <1>3, <1>2, <1>6, ZenonT(120) DEF EverybodySignalled, AllStopped
<1> QED BY <1>4, BeyondStep, <1>7, <1>8, <1>9, <1>1, ZenonT(120)

(* The start votes of the interrupted threads are added.                   *)
LEMMA AddVotesKeeps ==
    ASSUME Counting, IInv, NEW t \in Threads, AddVotes(t)
    PROVE  IInv'
<1>1. Typing'
  <2>1. CounterTypes'  BY DEF AddVotes, Broadcast, Typing, CounterTypes
  <2>2. FlagTypes'  BY ZenonT(120) DEF AddVotes, Broadcast, Typing, FlagTypes
  <2>3. ThreadTypes'  BY ZenonT(120) DEF AddVotes, Broadcast, Typing, ThreadTypes
  <2>4. PlaceTypes'  BY KnownPlaces, ZenonT(120) DEF AddVotes, Broadcast, Typing, PlaceTypes, CondVars, Awake
  <2> QED BY <2>1, <2>2, <2>3, <2>4, ZenonT(120) DEF Typing
<1>2. threads \subseteq Threads  BY ZenonT(120) DEF Typing, ThreadTypes
<1>3. /\ pc[t] = "AddVotes" /\ gc_start' = gc_start + num_threads /\ PcTo(t, "WakeLoop")
      /\ UNCHANGED <<gc_finish, gc_ack, gc_intrays_clearing, threads, mutex_threads, panic,
          gc_status, stage, gc_work, bret, cont, target, is_coordinator, todo, num_threads,
          to_signal, signalling>>
  BY ZenonT(120) DEF AddVotes, Broadcast, Typing, FlagTypes, ThreadTypes, PlaceTypes
<1>4. \A c \in Threads : pc[c] \in Opening => c = t  BY <1>3, ZenonT(120) DEF OneOpener
<1>5. Interrupted \in SUBSET Threads /\ Cardinality(Interrupted) \in Nat /\
      (Cardinality(Interrupted) = 0 <=> Interrupted = {})
  BY <1>3, ZenonT(120) DEF Interrupted, Counting
<1>6. gc_start = 1 /\ num_threads = Cardinality(Interrupted)  BY <1>3, ZenonT(120) DEF StartVotes
<1>7. \A x \in Threads : pc[x] # "WaitStart"  BY <1>3, ZenonT(120) DEF OpenerAlone
<1>8. Unready = Interrupted  BY <1>3, <1>7, ZenonT(120) DEF Unready, Interrupted
<1>9. gc_start' = 1 + Cardinality(Interrupted) /\ gc_start' # 0  BY <1>3, <1>6, <1>5
<1>10. StaysBeyond(t, "WakeLoop")  BY <1>3, <1>9, ZenonT(120) DEF StaysBeyond, OneOpener
<1>11. UNCHANGED <<Interrupted, Unready, Unfinished, Active, NobodyBeyond>>  BY <1>10, BeyondStep, ZenonT(120)
<1>12. OpenerAlone' /\ FinishVotesFit'  BY <1>3, <1>11 DEF OpenerAlone, FinishVotesFit
<1>13. OneOpener'  BY <1>3, <1>2, <1>9, <1>6, ZenonT(120) DEF OneOpener
<1>14. StartVotes'  BY <1>3, <1>11, <1>4, <1>9, <1>8, <1>6, ZenonT(120) DEF StartVotes
<1>15. EverybodySignalled'  BY <1>3, <1>2, <1>4, ZenonT(120) DEF EverybodySignalled, AllStopped
<1> QED BY <1>10, BeyondStep, <1>12, <1>13, <1>14, <1>15, <1>1, ZenonT(120)

(* The event loop is woken.                                                *)
LEMMA WakeLoopKeeps ==
    ASSUME IInv, NEW t \in Threads, WakeLoop(t)
    PROVE  IInv'
<1>1. Typing'
  <2>1. CounterTypes'  BY ZenonT(120) DEF WakeLoop, AsyncSend, Typing, CounterTypes
  <2>2. FlagTypes'  BY DEF WakeLoop, AsyncSend, Typing, FlagTypes
  <2>3. ThreadTypes'  BY ZenonT(120) DEF WakeLoop, AsyncSend, Typing, ThreadTypes
  <2>4. PlaceTypes'  BY KnownPlaces, ZenonT(120) DEF WakeLoop, AsyncSend, Typing, PlaceTypes
  <2> QED BY <2>1, <2>2, <2>3, <2>4, ZenonT(120) DEF Typing
<1>2. threads \subseteq Threads  BY ZenonT(120) DEF Typing, ThreadTypes
<1>3. /\ pc[t] = "WakeLoop" /\ PcTo(t, "WaitReady")
      /\ UNCHANGED <<gc_start, gc_finish, gc_ack, gc_intrays_clearing, threads, mutex_threads,
          panic, gc_status, stage, gc_work, bret, cont, target, is_coordinator, todo, num_threads,
          to_signal, signalling>>
  BY ZenonT(120) DEF WakeLoop, AsyncSend, Typing, FlagTypes, ThreadTypes, PlaceTypes
<1>4. StaysBeyond(t, "WaitReady")  BY <1>3, ZenonT(120) DEF StaysBeyond, OneOpener
<1>5. UNCHANGED <<Interrupted, Unready, Unfinished, Active, NobodyBeyond>>  BY <1>4, BeyondStep, ZenonT(120)
<1>6. OneOpener' /\ OpenerAlone' /\ StartVotes' /\ FinishVotesFit'
  BY <1>3, <1>2, <1>5 DEF OneOpener, OpenerAlone, StartVotes, FinishVotesFit
<1>7. EverybodySignalled'  BY <1>3, <1>2, ZenonT(120) DEF EverybodySignalled, AllStopped
<1> QED BY <1>4, BeyondStep, <1>6, <1>7, <1>1, ZenonT(120)

(* The coordinator goes on once all have voted.                            *)
LEMMA WaitReadyKeeps ==
    ASSUME Counting, IInv, NEW t \in Threads, WaitReady(t)
    PROVE  IInv'
<1>1. Typing'
  <2>1. CounterTypes'  BY ZenonT(120) DEF WaitReady, AllVoted, Sleep, Typing, CounterTypes
  <2>2. FlagTypes'  BY ZenonT(120) DEF WaitReady, AllVoted, Sleep, Typing, FlagTypes
  <2>3. ThreadTypes'  BY ZenonT(120) DEF WaitReady, AllVoted, Sleep, Typing, ThreadTypes
  <2>4. PlaceTypes'
    BY KnownPlaces, ZenonT(120) DEF WaitReady, AllVoted, Sleep, Typing, PlaceTypes, CondVars, Awake
  <2> QED BY <2>1, <2>2, <2>3, <2>4, ZenonT(120) DEF Typing
<1>2. threads \subseteq Threads  BY ZenonT(120) DEF Typing, ThreadTypes
<1> SUFFICES ProtocolInv'  BY <1>1, ZenonT(120)
<1>3. CASE gc_start <= 1
  <2>1. /\ pc[t] = "WaitReady" /\ gc_start <= 1 /\ PcTo(t, "StoreVotes")
        /\ UNCHANGED <<gc_start, gc_finish, gc_ack, gc_intrays_clearing, threads, mutex_threads,
            panic, gc_status, stage, gc_work, bret, cont, target, is_coordinator, todo,
            num_threads, to_signal, signalling>>
    BY <1>3, ZenonT(120) DEF WaitReady, AllVoted, Sleep, Typing, FlagTypes, ThreadTypes, PlaceTypes
  <2>2. StaysBeyond(t, "StoreVotes")  BY <2>1, ZenonT(120) DEF StaysBeyond, OneOpener
  <2>3. UNCHANGED <<Interrupted, Unready, Unfinished, Active, NobodyBeyond>>  BY <2>2, BeyondStep, ZenonT(120)
  <2>4. \A c \in Threads : pc[c] \in Opening => c = t  BY <2>1, ZenonT(120) DEF OneOpener
  <2>5. Unready \in SUBSET Threads /\ Cardinality(Unready) \in Nat /\
        (Cardinality(Unready) = 0 <=> Unready = {})
    BY <2>1, ZenonT(120) DEF Unready, Counting
  <2>6. gc_start = 1 + Cardinality(Unready)  BY <2>1, ZenonT(120) DEF StartVotes
  <2>7. gc_start = 1  BY <2>1, <2>6, <2>5
  <2>8. OneOpener' /\ OpenerAlone' /\ FinishVotesFit'
    BY <2>1, <1>2, <2>3 DEF OneOpener, OpenerAlone, FinishVotesFit
  <2>9. StartVotes'  BY <2>1, <2>3, <2>4, <2>6, <2>7, ZenonT(120) DEF StartVotes
  <2>10. EverybodySignalled'  BY <2>1, <1>2, <2>4, ZenonT(120) DEF EverybodySignalled, AllStopped
  <2> QED BY <2>2, BeyondStep, <2>8, <2>9, <2>10, ZenonT(120)
<1>4. CASE ~(gc_start <= 1)
  <2>1. Quiet
    BY <1>4, ZenonT(120) DEF WaitReady, AllVoted, Sleep, Quiet, Typing, FlagTypes, ThreadTypes, PlaceTypes
  <2> QED BY <2>1, QuietStep, ZenonT(120)
<1> QED BY <1>3, <1>4, ZenonT(120)

(* The finish votes are stored: there are none left, so no panic.          *)
LEMMA StoreVotesKeeps ==
    ASSUME IInv, NEW t \in Threads, StoreVotes(t)
    PROVE  IInv'
<1>1. gc_finish = 0  BY ZenonT(120) DEF StoreVotes, FinishVotesFit
<1>2. Typing'
  <2>1. CounterTypes'  BY <1>1 DEF StoreVotes, FinishVotes, Typing, CounterTypes
  <2>2. FlagTypes'  BY <1>1, ZenonT(120) DEF StoreVotes, FinishVotes, Typing, FlagTypes
  <2>3. ThreadTypes'  BY <1>1, ZenonT(120) DEF StoreVotes, FinishVotes, Typing, ThreadTypes, Panics
  <2>4. PlaceTypes'  BY <1>1, KnownPlaces, ZenonT(120) DEF StoreVotes, FinishVotes, Typing, PlaceTypes
  <2> QED BY <2>1, <2>2, <2>3, <2>4, ZenonT(120) DEF Typing
<1>3. threads \subseteq Threads  BY ZenonT(120) DEF Typing, ThreadTypes
<1>4. /\ pc[t] = "StoreVotes" /\ gc_finish' = num_threads + 1 /\ gc_ack' = num_threads + 2
      /\ PcTo(t, "SignalStart")
      /\ UNCHANGED <<gc_start, gc_intrays_clearing, threads, mutex_threads, panic, gc_status,
          stage, gc_work, bret, cont, target, is_coordinator, todo, num_threads, to_signal,
          signalling>>
  BY <1>1, ZenonT(120) DEF StoreVotes, FinishVotes, Typing, FlagTypes, ThreadTypes, PlaceTypes
<1>5. \A c \in Threads : pc[c] \in Opening => c = t  BY <1>4, ZenonT(120) DEF OneOpener
<1>6. ~NobodyBeyond  BY <1>4, ZenonT(120) DEF NobodyBeyond
<1>7. UNCHANGED <<Interrupted, Unready, Unfinished, Active, NobodyBeyond>>
  BY <1>4, ZenonT(120) DEF Interrupted, Unready, Unfinished, Active, NobodyBeyond
<1>8. StatusFits' /\ ListFits' /\ SpawnFits' /\ OneCoordinator' /\ PanicFits'
  BY <1>4 DEF StatusFits, ListFits, SpawnFits, Spawning, OneCoordinator, PanicFits
<1>9. OneOpener' /\ OpenerAlone'  BY <1>4, <1>3 DEF OneOpener, OpenerAlone
<1>10. StartVotes'  BY <1>4, <1>7, <1>5, ZenonT(120) DEF StartVotes
<1>11. FinishVotesFit'  BY <1>4, <1>7, <1>6, <1>5, ZenonT(120) DEF FinishVotesFit
<1>12. AcksFit'  BY <1>4, <1>7, <1>6, ZenonT(120) DEF AcksFit
<1>13. EverybodyStopped'  BY <1>4, <1>3, ZenonT(120) DEF EverybodyStopped, AllStopped, Interrupted
<1>14. EverybodySignalled'  BY <1>4, <1>3, <1>5, ZenonT(120) DEF EverybodySignalled, AllStopped
<1>15. CoordinatorFits' /\ ClearingFits' /\ InterruptedFits' /\ WorkFits'
  BY <1>4, <1>7 DEF CoordinatorFits, ClearingFits, InterruptedFits, Interrupted, WorkFits
<1> QED BY <1>8, <1>9, <1>10, <1>11, <1>12, <1>13, <1>14, <1>15, <1>2, ZenonT(120)

(* The coordinator's vote is the last one, so no panic, and it starts the  *)
(* run.                                                                    *)
LEMMA SignalStartKeeps ==
    ASSUME Counting, IInv, NEW t \in Threads, SignalStart(t)
    PROVE  IInv'
<1>1. gc_start = 1  BY ZenonT(120) DEF SignalStart, StartVotes
<1>2. Typing'
  <2>1. CounterTypes'  BY <1>1 DEF SignalStart, Broadcast, Typing, CounterTypes
  <2>2. FlagTypes'  BY <1>1, ZenonT(120) DEF SignalStart, Broadcast, Typing, FlagTypes
  <2>3. ThreadTypes'  BY <1>1, ZenonT(120) DEF SignalStart, Broadcast, Typing, ThreadTypes, Panics
  <2>4. PlaceTypes'
    BY <1>1, KnownPlaces DEF SignalStart, Broadcast, Typing, PlaceTypes, CondVars, Awake
  <2> QED BY <2>1, <2>2, <2>3, <2>4, ZenonT(120) DEF Typing
<1>3. threads \subseteq Threads  BY ZenonT(120) DEF Typing, ThreadTypes
<1>4. /\ pc[t] = "SignalStart" /\ gc_start' = 0 /\ num_threads' = 0 /\ PcTo(t, "Collect")
      /\ Appointed(t) /\ TodoTo(t, gc_work[t])
      /\ UNCHANGED <<gc_finish, gc_ack, gc_intrays_clearing, threads, mutex_threads, panic,
          gc_status, stage, gc_work, bret, cont, target, to_signal, signalling>>
  BY <1>1 DEF SignalStart, Broadcast, Typing, FlagTypes, ThreadTypes, PlaceTypes
<1>5. \A c \in Threads : pc[c] \in Opening => c = t  BY <1>4, ZenonT(120) DEF OneOpener
<1>6. Unready \in SUBSET Threads /\ Cardinality(Unready) \in Nat /\
      (Cardinality(Unready) = 0 <=> Unready = {})
  BY <1>4, ZenonT(120) DEF Unready, Counting
<1>7. Interrupted \in SUBSET Threads /\ Cardinality(Interrupted) \in Nat /\
      (Cardinality(Interrupted) = 0 <=> Interrupted = {})
  BY <1>4, ZenonT(120) DEF Interrupted, Counting
<1>8. gc_start = 1 /\ gc_start = 1 + Cardinality(Unready) /\
      num_threads = Cardinality(Interrupted)
  BY <1>4, ZenonT(120) DEF StartVotes
<1>9. Unready = {}  BY <1>4, <1>8, <1>6 DEF Counting
<1>10. \A x \in Threads : pc[x] \notin Working \cup Voted \cup {"ClearAck"} /\
      (pc[x] = "WaitStart" <=> gc_status[x] = INTERRUPT)
  BY <1>4, <1>9, ZenonT(120) DEF OpenerAlone, Unready
<1>11. AllStopped(t) /\ gc_status[t] = NONE  BY <1>4, ZenonT(120) DEF EverybodySignalled, OpenerAlone
<1>12. \A x \in Threads : pc[x] \notin {"EnterInt", "WaitCount"}
  BY <1>4, <1>10, <1>11 DEF AllStopped, StatusFits, ListFits
<1>13. Unfinished' = Interrupted \cup {t} /\ Active' = Interrupted \cup {t} /\
      t \notin Interrupted
  BY <1>4, <1>10, <1>11 DEF Unfinished, Active, Interrupted
<1>14. Cardinality(Interrupted \cup {t}) = Cardinality(Interrupted) + 1
  BY <1>4, <1>13, <1>7, ZenonT(120) DEF Counting
<1>15. gc_finish = num_threads + 1 /\ gc_ack = num_threads + 2  BY <1>4, ZenonT(120) DEF FinishVotesFit
<1>16. \A c \in Threads : pc'[c] \notin Opening  BY <1>4, <1>5, ZenonT(120)
<1>17. \A c \in Threads : ~is_coordinator[c]  BY <1>4, <1>10, ZenonT(120) DEF CoordinatorFits
<1>18. UNCHANGED <<Interrupted>>  BY <1>4, ZenonT(120) DEF Interrupted
<1>19. StatusFits' /\ ListFits' /\ SpawnFits' /\ PanicFits'
  <2>1. StatusFits'  BY <1>4, ZenonT(120) DEF StatusFits
  <2>2. ListFits'  BY <1>4 DEF ListFits
  <2>3. SpawnFits'  BY <1>4 DEF SpawnFits, Spawning
  <2>4. PanicFits'  BY <1>4, ZenonT(120) DEF PanicFits
  <2> QED BY <2>1, <2>2, <2>3, <2>4, ZenonT(120)
<1>20. OneCoordinator'  BY <1>4, <1>17, ZenonT(120) DEF OneCoordinator
<1>21. OneOpener'  BY <1>4, <1>3, <1>16, ZenonT(120) DEF OneOpener
<1>22. OpenerAlone'  BY <1>4, <1>16, ZenonT(120) DEF OpenerAlone
<1>23. StartVotes'  BY <1>4, <1>18, <1>16, ZenonT(120) DEF StartVotes
<1>24. FinishVotesFit'  BY <1>4, <1>18, <1>16, <1>13, <1>14, <1>15, <1>8, <1>7, ZenonT(120) DEF FinishVotesFit
<1>25. AcksFit'
  <2>1. Active' # {}  BY <1>13, ZenonT(120)
  <2>2. gc_ack' = Cardinality(Active') + 1
    <3>1. gc_ack' = num_threads + 2 /\ num_threads = Cardinality(Interrupted)
      BY <1>4, <1>15, <1>8, ZenonT(120)
    <3>2. Cardinality(Active') = Cardinality(Interrupted) + 1  BY <1>13, <1>14, ZenonT(120)
    <3> QED BY <3>1, <3>2, <1>7
  <2>3. \A x \in Threads : pc'[x] # "ClearAck"  BY <1>4, <1>10, ZenonT(120)
  <2> QED BY <2>1, <2>2, <2>3, ZenonT(120) DEF AcksFit
<1>26. EverybodySignalled'  BY <1>4, <1>3, <1>16, ZenonT(120) DEF EverybodySignalled, AllStopped
<1>27. EverybodyStopped'
  BY <1>4, <1>3, <1>11, <1>10, <1>17 DEF EverybodyStopped, AllStopped, Interrupted
<1>28. CoordinatorFits'  BY <1>4, <1>18, <1>10, <1>17, <1>13, ZenonT(120) DEF CoordinatorFits
<1>29. ClearingFits'  BY <1>4, <1>18, <1>10, <1>17, <1>16, ZenonT(120) DEF ClearingFits
<1>30. InterruptedFits'  BY <1>4, <1>18, <1>10, <1>16, <1>12, ZenonT(120) DEF InterruptedFits, Interrupted
<1>31. WorkFits'  BY <1>4, <1>10, <1>16, <1>12, ZenonT(120) DEF WorkFits
<1> QED BY <1>19, <1>20, <1>21, <1>22, <1>23, <1>24, <1>25, <1>26, <1>27, <1>28, <1>29, <1>30,
    <1>31, <1>2, ZenonT(120)
=============================================================================
