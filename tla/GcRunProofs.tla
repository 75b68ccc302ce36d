----------------------------- MODULE GcRunProofs -----------------------------
(***************************************************************************)
(* Every step of a collection preserves the inductive invariant of GcInv:  *)
(* one lemma per action of GcRun.                                          *)
(*                                                                         *)
(* A proof first says what the action does to the variables of the         *)
(* invariant, then goes through the conjuncts of the invariant: those the  *)
(* action cannot disturb together, the others one by one.                  *)
(***************************************************************************)
EXTENDS GcRun, GcInv

(* The time a leaf may take, on a busy machine too.                        *)
USE SMTT(120)

USE DEF NONE, INTERRUPT, UNABLE, STOLEN, PcTo, SpawnTo, StatusTo, StageTo, BretTo, ContTo,
        TargetTo, WorkTo, TodoTo, Appointed, Dismissed, IInv, ProtocolInv,
        AtRest, Joining, Opening, Beyond, Signalled, Working, Clearing, Voted, Finishing,
        Mutating, Ended, Running, At, Goto, SetStatus,
        voteVars, flagVars, listVars, workVars, retVars, signalVars, gcVars

(* A participant goes on collecting.                                       *)
LEMMA WorkStep ==
    ASSUME IInv, NEW t \in Threads, NEW l, MovesWithin(t, l, Working)
    PROVE  ProtocolInv'
<1>1. /\ {pc[t], l} \subseteq Working /\ PcTo(t, l)
      /\ (\A x \in Threads : pc[x] = "Reset" => todo'[x] = todo[x])
      /\ UNCHANGED <<gc_start, gc_finish, gc_ack, gc_intrays_clearing, threads, mutex_threads,
          panic, gc_status, stage, gc_work, bret, cont, target, is_coordinator, num_threads,
          to_signal, signalling>>
  BY ZenonT(120) DEF MovesWithin
<1>2. threads \subseteq Threads  BY ZenonT(120) DEF Typing, ThreadTypes
<1>3. UNCHANGED <<Interrupted, Unready, Unfinished, Active, NobodyBeyond>>
  BY <1>1, ZenonT(120) DEF Interrupted, Unready, Unfinished, Active, NobodyBeyond
<1>4. ListFits' /\ PanicFits'  BY <1>1 DEF ListFits, PanicFits
<1>5. StatusFits'  BY <1>1, ZenonT(120) DEF StatusFits
<1>6. SpawnFits'  BY <1>1 DEF SpawnFits, Spawning
<1>7. OneCoordinator'  BY <1>1, ZenonT(120) DEF OneCoordinator
<1>8. OpenerAlone'  BY <1>1, ZenonT(120) DEF OpenerAlone
<1>9. OneOpener'  BY <1>1, <1>2, ZenonT(120) DEF OneOpener
<1>10. StartVotes'  BY <1>1, <1>3, ZenonT(120) DEF StartVotes
<1>11. FinishVotesFit'  BY <1>1, <1>3, ZenonT(120) DEF FinishVotesFit
<1>12. AcksFit'  BY <1>1, <1>3, ZenonT(120) DEF AcksFit
<1>13. EverybodyStopped'  BY <1>1, <1>2 DEF EverybodyStopped, AllStopped, Interrupted
<1>14. EverybodySignalled'  BY <1>1, <1>2, ZenonT(120) DEF EverybodySignalled, AllStopped
<1>15. CoordinatorFits' /\ ClearingFits' /\ InterruptedFits' /\ WorkFits'
  BY <1>1, <1>3 DEF CoordinatorFits, ClearingFits, InterruptedFits, Interrupted, WorkFits
<1> QED BY <1>4, <1>5, <1>6, <1>7, <1>8, <1>9, <1>10, <1>11, <1>12, <1>13, <1>14, <1>15, ZenonT(120)

(* The coordinator goes on clearing in-trays.                              *)
LEMMA ClearStep ==
    ASSUME IInv, NEW t \in Threads, NEW l, MovesWithin(t, l, Clearing)
    PROVE  ProtocolInv'
<1>1. /\ {pc[t], l} \subseteq Clearing /\ PcTo(t, l)
      /\ (\A x \in Threads : pc[x] = "Reset" => todo'[x] = todo[x])
      /\ UNCHANGED <<gc_start, gc_finish, gc_ack, gc_intrays_clearing, threads, mutex_threads,
          panic, gc_status, stage, gc_work, bret, cont, target, is_coordinator, num_threads,
          to_signal, signalling>>
  BY ZenonT(120) DEF MovesWithin
<1>2. threads \subseteq Threads  BY ZenonT(120) DEF Typing, ThreadTypes
<1>3. StaysVoted(t, l)  BY <1>1, ZenonT(120) DEF StaysVoted
<1>4. UNCHANGED <<Interrupted, Unready, Unfinished, Active, NobodyBeyond>>  BY <1>3, VotedStep, ZenonT(120)
<1>5. EverybodyStopped'  BY <1>1, <1>2, ZenonT(120) DEF EverybodyStopped, AllStopped, Interrupted
<1>6. CoordinatorFits' /\ ClearingFits' /\ InterruptedFits' /\ WorkFits'
  BY <1>1, <1>4 DEF CoordinatorFits, ClearingFits, InterruptedFits, Interrupted, WorkFits
<1> QED BY <1>3, VotedStep, <1>5, <1>6, ZenonT(120)

(* A participant collects for one of its threads.                          *)
LEMMA CollectKeeps ==
    ASSUME IInv, NEW t \in Threads, NEW w \in Threads, Collect(t, w)
    PROVE  IInv'
<1>1. Typing'
  <2>1. CounterTypes'  BY DEF Collect, Collected, Typing, CounterTypes
  <2>2. FlagTypes'  BY ZenonT(120) DEF Collect, NextWork, Collected, Typing, FlagTypes
  <2>3. ThreadTypes'  BY ZenonT(120) DEF Collect, NextWork, Collected, Typing, ThreadTypes
  <2>4. PlaceTypes'  BY KnownPlaces, ZenonT(120) DEF Collect, Typing, PlaceTypes
  <2> QED BY <2>1, <2>2, <2>3, <2>4, ZenonT(120) DEF Typing
<1>2. MovesWithin(t, "Collect", Working)
  BY ZenonT(120) DEF Collect, MovesWithin, Typing, FlagTypes, ThreadTypes, PlaceTypes
<1> QED BY <1>2, WorkStep, <1>1, ZenonT(120)

(* It has collected for all of them.                                       *)
LEMMA CollectDoneKeeps ==
    ASSUME IInv, NEW t \in Threads, CollectDone(t)
    PROVE  IInv'
<1>1. Typing'
  <2>1. CounterTypes'  BY ZenonT(120) DEF CollectDone, Typing, CounterTypes
  <2>2. FlagTypes'  BY ZenonT(120) DEF CollectDone, Typing, FlagTypes
  <2>3. ThreadTypes'  BY ZenonT(120) DEF CollectDone, Typing, ThreadTypes
  <2>4. PlaceTypes'  BY KnownPlaces, ZenonT(120) DEF CollectDone, Typing, PlaceTypes
  <2> QED BY <2>1, <2>2, <2>3, <2>4, ZenonT(120) DEF Typing
<1>2. MovesWithin(t, "InTrays", Working)
  BY ZenonT(120) DEF CollectDone, MovesWithin, Typing, FlagTypes, ThreadTypes, PlaceTypes
<1> QED BY <1>2, WorkStep, <1>1, ZenonT(120)

(* It empties the in-tray of one of its threads.                           *)
LEMMA ProcessInTrayKeeps ==
    ASSUME IInv, NEW t \in Threads, NEW w \in Threads, ProcessInTray(t, w)
    PROVE  IInv'
<1>1. Typing'
  <2>1. CounterTypes'  BY DEF ProcessInTray, Collected, Typing, CounterTypes
  <2>2. FlagTypes'  BY ZenonT(120) DEF ProcessInTray, NextWork, Collected, Typing, FlagTypes
  <2>3. ThreadTypes'  BY ZenonT(120) DEF ProcessInTray, NextWork, Collected, Typing, ThreadTypes
  <2>4. PlaceTypes'  BY KnownPlaces, ZenonT(120) DEF ProcessInTray, Typing, PlaceTypes
  <2> QED BY <2>1, <2>2, <2>3, <2>4, ZenonT(120) DEF Typing
<1>2. MovesWithin(t, "InTrays", Working)
  BY ZenonT(120) DEF ProcessInTray, MovesWithin, Typing, FlagTypes, ThreadTypes, PlaceTypes
<1> QED BY <1>2, WorkStep, <1>1, ZenonT(120)

(* Another pass over the in-trays, or the finish vote.                     *)
LEMMA InTraysPassKeeps ==
    ASSUME IInv, NEW t \in Threads, InTraysPass(t)
    PROVE  IInv'
<1>1. Typing'
  <2>1. CounterTypes'  BY ZenonT(120) DEF InTraysPass, Typing, CounterTypes
  <2>2. FlagTypes'  BY ZenonT(120) DEF InTraysPass, Typing, FlagTypes
  <2>3. ThreadTypes'  BY ZenonT(120) DEF InTraysPass, Typing, ThreadTypes
  <2>4. PlaceTypes'  BY KnownPlaces, ZenonT(120) DEF InTraysPass, Typing, PlaceTypes
  <2> QED BY <2>1, <2>2, <2>3, <2>4, ZenonT(120) DEF Typing
<1> SUFFICES ProtocolInv'  BY <1>1, ZenonT(120)
<1>2. CASE did_work[t]
  <2>1. MovesWithin(t, "InTrays", Working)
    BY <1>2, ZenonT(120) DEF InTraysPass, MovesWithin, Typing, FlagTypes, ThreadTypes, PlaceTypes
  <2> QED BY <2>1, WorkStep, ZenonT(120)
<1>3. CASE ~did_work[t]
  <2>1. MovesWithin(t, "VoteFinish", Working)
    BY <1>3, ZenonT(120) DEF InTraysPass, MovesWithin, Typing, FlagTypes, ThreadTypes, PlaceTypes
  <2> QED BY <2>1, WorkStep, ZenonT(120)
<1> QED BY <1>2, <1>3, ZenonT(120)

(* A participant votes that it has found no more work.                     *)
LEMMA VoteFinishKeeps ==
    ASSUME Counting, IInv, NEW t \in Threads, VoteFinish(t)
    PROVE  IInv'
<1>1. Typing'
  <2>1. CounterTypes'
    BY DEF VoteFinish, AfterFinish, Broadcast, BroadcastThenSleep, Typing, CounterTypes
  <2>2. FlagTypes'
    BY ZenonT(120) DEF VoteFinish, AfterFinish, Broadcast, BroadcastThenSleep, Typing, FlagTypes
  <2>3. ThreadTypes'
    BY ZenonT(120) DEF VoteFinish, AfterFinish, Broadcast, BroadcastThenSleep, Typing, ThreadTypes
  <2>4. PlaceTypes'
    BY KnownPlaces DEF VoteFinish, AfterFinish, Broadcast, BroadcastThenSleep, Typing, PlaceTypes,
        CondVars, Awake
  <2> QED BY <2>1, <2>2, <2>3, <2>4, ZenonT(120) DEF Typing
<1>2. threads \subseteq Threads  BY ZenonT(120) DEF Typing, ThreadTypes
<1> SUFFICES ProtocolInv'  BY <1>1, ZenonT(120)
<1>3. CASE gc_finish # 1
  <2>1. /\ pc[t] = "VoteFinish" /\ gc_finish' = gc_finish - 1 /\ PcTo(t, "WaitFinish")
        /\ UNCHANGED <<gc_start, gc_ack, gc_intrays_clearing, threads, mutex_threads, panic,
            gc_status, stage, gc_work, bret, cont, target, is_coordinator, todo, num_threads,
            to_signal, signalling>>
    BY <1>3, ZenonT(120) DEF VoteFinish, AfterFinish, Broadcast, BroadcastThenSleep, Typing, FlagTypes,
        ThreadTypes, PlaceTypes
  <2>2. gc_start \in Int /\ gc_finish \in Int /\ gc_ack \in Int /\ num_threads \in Int
    BY <2>1, ZenonT(120) DEF Typing, CounterTypes
  <2>3. \A c \in Threads : pc[c] \notin Opening  BY <2>1, ZenonT(120) DEF OpenerAlone
  <2>4. NobodyBeyond /\ NobodyBeyond'  BY <2>1, <2>3, ZenonT(120) DEF NobodyBeyond
  <2>5. Unfinished \in SUBSET Threads /\ Cardinality(Unfinished) \in Nat /\
        (Cardinality(Unfinished) = 0 <=> Unfinished = {})
    BY <2>1, ZenonT(120) DEF Unfinished, Counting
  <2>6. Unfinished' = Unfinished \ {t} /\ t \in Unfinished  BY <2>1, ZenonT(120) DEF Unfinished
  <2>7. Cardinality(Unfinished') = Cardinality(Unfinished) - 1  BY <2>1, <2>5, <2>6, ZenonT(120) DEF Counting
  <2>8. gc_finish = Cardinality(Unfinished) /\ gc_finish' = Cardinality(Unfinished')
    BY <2>1, <2>4, <2>7, <2>2, ZenonT(120) DEF FinishVotesFit
  <2>9. UNCHANGED <<Interrupted, Unready, Active>>  BY <2>1, ZenonT(120) DEF Interrupted, Unready, Active
  <2>10. StatusFits' /\ ListFits' /\ SpawnFits' /\ OneCoordinator' /\ PanicFits'
    BY <2>1 DEF StatusFits, ListFits, SpawnFits, Spawning, OneCoordinator, PanicFits
  <2>11. OneOpener'  BY <2>1, <1>2, ZenonT(120) DEF OneOpener
  <2>12. OpenerAlone'  BY <2>1, <2>3, ZenonT(120) DEF OpenerAlone
  <2>13. StartVotes'  BY <2>1, <2>9, <2>3, ZenonT(120) DEF StartVotes
  <2>14. FinishVotesFit'  BY <2>1, <2>9, <2>8, <2>4, <2>3, ZenonT(120) DEF FinishVotesFit
  <2>15. AcksFit'  BY <2>1, <2>9, <2>4, ZenonT(120) DEF AcksFit
  <2>16. EverybodySignalled'  BY <2>1, <1>2, ZenonT(120) DEF EverybodySignalled, AllStopped
  <2>17. EverybodyStopped'
    BY <2>1, <1>2, ZenonT(120) DEF EverybodyStopped, AllStopped, Interrupted, OneCoordinator
  <2>18. CoordinatorFits'  BY <2>1, <2>9, <2>6, <2>4, ZenonT(120) DEF CoordinatorFits
  <2>19. ClearingFits'  BY <2>1, <2>9, <2>6, <2>3, ZenonT(120) DEF ClearingFits
  <2>20. InterruptedFits'  BY <2>1, <2>9, <2>4, ZenonT(120) DEF InterruptedFits, Interrupted
  <2>21. WorkFits'  BY <2>1, <2>4, ZenonT(120) DEF WorkFits
  <2> QED BY <2>10, <2>11, <2>12, <2>13, <2>14, <2>15, <2>16, <2>17, <2>18, <2>19, <2>20, <2>21,
      ZenonT(120)
<1>4. CASE gc_finish = 1 /\ is_coordinator[t]
  <2>1. /\ pc[t] = "VoteFinish" /\ gc_finish = 1 /\ gc_finish' = gc_finish - 1
        /\ is_coordinator[t] /\ PcTo(t, "ClearIntrays")
        /\ UNCHANGED <<gc_start, gc_ack, gc_intrays_clearing, threads, mutex_threads, panic,
            gc_status, stage, gc_work, bret, cont, target, is_coordinator, todo, num_threads,
            to_signal, signalling>>
    BY <1>4, ZenonT(120) DEF VoteFinish, AfterFinish, Broadcast, BroadcastThenSleep, Typing, FlagTypes,
        ThreadTypes, PlaceTypes
  <2>2. gc_start \in Int /\ gc_finish \in Int /\ gc_ack \in Int /\ num_threads \in Int
    BY <2>1, ZenonT(120) DEF Typing, CounterTypes
  <2>3. \A c \in Threads : pc[c] \notin Opening  BY <2>1, ZenonT(120) DEF OpenerAlone
  <2>4. NobodyBeyond /\ NobodyBeyond'  BY <2>1, <2>3, ZenonT(120) DEF NobodyBeyond
  <2>5. Unfinished \in SUBSET Threads /\ Cardinality(Unfinished) \in Nat /\
        (Cardinality(Unfinished) = 0 <=> Unfinished = {})
    BY <2>1, ZenonT(120) DEF Unfinished, Counting
  <2>6. Unfinished' = Unfinished \ {t} /\ t \in Unfinished  BY <2>1, ZenonT(120) DEF Unfinished
  <2>7. Cardinality(Unfinished') = Cardinality(Unfinished) - 1  BY <2>1, <2>5, <2>6, ZenonT(120) DEF Counting
  <2>8. gc_finish = Cardinality(Unfinished) /\ gc_finish' = Cardinality(Unfinished')
    BY <2>1, <2>4, <2>7, <2>2, ZenonT(120) DEF FinishVotesFit
  <2>9. Cardinality(Unfinished') = 0  BY <2>1, <2>8
  <2>10. Unfinished' = {}  BY <2>5, <2>6, <2>9, ZenonT(120) DEF Counting
  <2>11. UNCHANGED <<Interrupted, Unready, Active>>  BY <2>1, ZenonT(120) DEF Interrupted, Unready, Active
  <2>12. StatusFits' /\ ListFits' /\ SpawnFits' /\ OneCoordinator' /\ PanicFits'
    BY <2>1 DEF StatusFits, ListFits, SpawnFits, Spawning, OneCoordinator, PanicFits
  <2>13. OneOpener'  BY <2>1, <1>2, ZenonT(120) DEF OneOpener
  <2>14. OpenerAlone'  BY <2>1, <2>3, ZenonT(120) DEF OpenerAlone
  <2>15. StartVotes'  BY <2>1, <2>11, <2>3, ZenonT(120) DEF StartVotes
  <2>16. FinishVotesFit'  BY <2>1, <2>11, <2>8, <2>4, <2>3, ZenonT(120) DEF FinishVotesFit
  <2>17. AcksFit'  BY <2>1, <2>11, <2>4, ZenonT(120) DEF AcksFit
  <2>18. EverybodySignalled'  BY <2>1, <1>2, ZenonT(120) DEF EverybodySignalled, AllStopped
  <2>19. EverybodyStopped'
    BY <2>1, <1>2, ZenonT(120) DEF EverybodyStopped, AllStopped, Interrupted, OneCoordinator
  <2>20. CoordinatorFits'  BY <2>1, <2>11, <2>10, <2>4, ZenonT(120) DEF CoordinatorFits
  <2>21. ClearingFits'  BY <2>1, <2>11, <2>10, <2>3, ZenonT(120) DEF ClearingFits
  <2>22. InterruptedFits'  BY <2>1, <2>11, <2>4, ZenonT(120) DEF InterruptedFits, Interrupted
  <2>23. WorkFits'  BY <2>1, <2>4, ZenonT(120) DEF WorkFits
  <2> QED BY <2>12, <2>13, <2>14, <2>15, <2>16, <2>17, <2>18, <2>19, <2>20, <2>21, <2>22, <2>23,
      ZenonT(120)
<1>5. CASE gc_finish = 1 /\ ~is_coordinator[t]
  <2>1. /\ pc[t] = "VoteFinish" /\ gc_finish = 1 /\ gc_finish' = gc_finish - 1
        /\ ~is_coordinator[t] /\ PcTo(t, "WaitIntrays")
        /\ UNCHANGED <<gc_start, gc_ack, gc_intrays_clearing, threads, mutex_threads, panic,
            gc_status, stage, gc_work, bret, cont, target, is_coordinator, todo, num_threads,
            to_signal, signalling>>
    BY <1>5, ZenonT(120) DEF VoteFinish, AfterFinish, Broadcast, BroadcastThenSleep, Typing, FlagTypes,
        ThreadTypes, PlaceTypes
  <2>2. gc_start \in Int /\ gc_finish \in Int /\ gc_ack \in Int /\ num_threads \in Int
    BY <2>1, ZenonT(120) DEF Typing, CounterTypes
  <2>3. \A c \in Threads : pc[c] \notin Opening  BY <2>1, ZenonT(120) DEF OpenerAlone
  <2>4. NobodyBeyond /\ NobodyBeyond'  BY <2>1, <2>3, ZenonT(120) DEF NobodyBeyond
  <2>5. Unfinished \in SUBSET Threads /\ Cardinality(Unfinished) \in Nat /\
        (Cardinality(Unfinished) = 0 <=> Unfinished = {})
    BY <2>1, ZenonT(120) DEF Unfinished, Counting
  <2>6. Unfinished' = Unfinished \ {t} /\ t \in Unfinished  BY <2>1, ZenonT(120) DEF Unfinished
  <2>7. Cardinality(Unfinished') = Cardinality(Unfinished) - 1  BY <2>1, <2>5, <2>6, ZenonT(120) DEF Counting
  <2>8. gc_finish = Cardinality(Unfinished) /\ gc_finish' = Cardinality(Unfinished')
    BY <2>1, <2>4, <2>7, <2>2, ZenonT(120) DEF FinishVotesFit
  <2>9. Cardinality(Unfinished') = 0  BY <2>1, <2>8
  <2>10. Unfinished' = {}  BY <2>5, <2>6, <2>9, ZenonT(120) DEF Counting
  <2>11. UNCHANGED <<Interrupted, Unready, Active>>  BY <2>1, ZenonT(120) DEF Interrupted, Unready, Active
  <2>12. StatusFits' /\ ListFits' /\ SpawnFits' /\ OneCoordinator' /\ PanicFits'
    BY <2>1 DEF StatusFits, ListFits, SpawnFits, Spawning, OneCoordinator, PanicFits
  <2>13. OneOpener'  BY <2>1, <1>2, ZenonT(120) DEF OneOpener
  <2>14. OpenerAlone'  BY <2>1, <2>3, ZenonT(120) DEF OpenerAlone
  <2>15. StartVotes'  BY <2>1, <2>11, <2>3, ZenonT(120) DEF StartVotes
  <2>16. FinishVotesFit'  BY <2>1, <2>11, <2>8, <2>4, <2>3, ZenonT(120) DEF FinishVotesFit
  <2>17. AcksFit'  BY <2>1, <2>11, <2>4, ZenonT(120) DEF AcksFit
  <2>18. EverybodySignalled'  BY <2>1, <1>2, ZenonT(120) DEF EverybodySignalled, AllStopped
  <2>19. EverybodyStopped'
    BY <2>1, <1>2, ZenonT(120) DEF EverybodyStopped, AllStopped, Interrupted, OneCoordinator
  <2>20. CoordinatorFits'  BY <2>1, <2>11, <2>10, <2>4, ZenonT(120) DEF CoordinatorFits
  <2>21. ClearingFits'  BY <2>1, <2>11, <2>10, <2>3, ZenonT(120) DEF ClearingFits
  <2>22. InterruptedFits'  BY <2>1, <2>11, <2>4, ZenonT(120) DEF InterruptedFits, Interrupted
  <2>23. WorkFits'  BY <2>1, <2>4, ZenonT(120) DEF WorkFits
  <2> QED BY <2>12, <2>13, <2>14, <2>15, <2>16, <2>17, <2>18, <2>19, <2>20, <2>21, <2>22, <2>23,
      ZenonT(120)
<1> QED BY <1>3, <1>4, <1>5, ZenonT(120)

(* The coordinator empties an in-tray, or finds all empty.                 *)
LEMMA ClearIntraysKeeps ==
    ASSUME IInv, NEW t \in Threads, ClearIntrays(t, "ClearIntrays", "Finalize")
    PROVE  IInv'
<1>1. Typing'
  <2>1. CounterTypes'  BY DEF ClearIntrays, Collected, Typing, CounterTypes
  <2>2. FlagTypes'  BY ZenonT(120) DEF ClearIntrays, Collected, Typing, FlagTypes
  <2>3. ThreadTypes'  BY ZenonT(120) DEF ClearIntrays, Collected, Typing, ThreadTypes
  <2>4. PlaceTypes'  BY KnownPlaces, ZenonT(120) DEF ClearIntrays, Typing, PlaceTypes
  <2> QED BY <2>1, <2>2, <2>3, <2>4, ZenonT(120) DEF Typing
<1> SUFFICES ProtocolInv'  BY <1>1, ZenonT(120)
<1>2. CASE UNCHANGED pc
  <2>1. MovesWithin(t, "ClearIntrays", Clearing)
    BY <1>2, ZenonT(120) DEF ClearIntrays, MovesWithin, Typing, FlagTypes, ThreadTypes, PlaceTypes
  <2> QED BY <2>1, ClearStep, ZenonT(120)
<1>3. CASE Goto(t, "Finalize")
  <2>1. MovesWithin(t, "Finalize", Clearing)
    BY <1>3, ZenonT(120) DEF ClearIntrays, MovesWithin, Typing, FlagTypes, ThreadTypes, PlaceTypes
  <2> QED BY <2>1, ClearStep, ZenonT(120)
<1> QED BY <1>2, <1>3, ZenonT(120) DEF ClearIntrays

(* The coordinator empties an in-tray, or finds all empty, the second      *)
(* time.                                                                   *)
LEMMA ClearIntraysAgainKeeps ==
    ASSUME IInv, NEW t \in Threads, ClearIntrays(t, "ClearIntrays2", "IntraysDone")
    PROVE  IInv'
<1>1. Typing'
  <2>1. CounterTypes'  BY DEF ClearIntrays, Collected, Typing, CounterTypes
  <2>2. FlagTypes'  BY ZenonT(120) DEF ClearIntrays, Collected, Typing, FlagTypes
  <2>3. ThreadTypes'  BY ZenonT(120) DEF ClearIntrays, Collected, Typing, ThreadTypes
  <2>4. PlaceTypes'  BY KnownPlaces, ZenonT(120) DEF ClearIntrays, Typing, PlaceTypes
  <2> QED BY <2>1, <2>2, <2>3, <2>4, ZenonT(120) DEF Typing
<1> SUFFICES ProtocolInv'  BY <1>1, ZenonT(120)
<1>2. CASE UNCHANGED pc
  <2>1. MovesWithin(t, "ClearIntrays2", Clearing)
    BY <1>2, ZenonT(120) DEF ClearIntrays, MovesWithin, Typing, FlagTypes, ThreadTypes, PlaceTypes
  <2> QED BY <2>1, ClearStep, ZenonT(120)
<1>3. CASE Goto(t, "IntraysDone")
  <2>1. MovesWithin(t, "IntraysDone", Clearing)
    BY <1>3, ZenonT(120) DEF ClearIntrays, MovesWithin, Typing, FlagTypes, ThreadTypes, PlaceTypes
  <2> QED BY <2>1, ClearStep, ZenonT(120)
<1> QED BY <1>2, <1>3, ZenonT(120) DEF ClearIntrays

(* The coordinator walks the finalize queues.                              *)
LEMMA FinalizeWalkQueuesKeeps ==
    ASSUME IInv, NEW t \in Threads, FinalizeWalkQueues(t)
    PROVE  IInv'
<1>1. Typing'
  <2>1. CounterTypes'  BY DEF FinalizeWalkQueues, Collected, Typing, CounterTypes
  <2>2. FlagTypes'  BY ZenonT(120) DEF FinalizeWalkQueues, AfterFinalize, Collected, Typing, FlagTypes
  <2>3. ThreadTypes'
    BY ZenonT(120) DEF FinalizeWalkQueues, AfterFinalize, Collected, Typing, ThreadTypes
  <2>4. PlaceTypes'  BY KnownPlaces, ZenonT(120) DEF FinalizeWalkQueues, AfterFinalize, Typing, PlaceTypes
  <2> QED BY <2>1, <2>2, <2>3, <2>4, ZenonT(120) DEF Typing
<1>2. MovesWithin(t, "ClearIntrays2", Clearing)
  BY ZenonT(120) DEF FinalizeWalkQueues, AfterFinalize, MovesWithin, Typing, FlagTypes, ThreadTypes,
      PlaceTypes
<1> QED BY <1>2, ClearStep, <1>1, ZenonT(120)

(* The coordinator declares the in-trays empty.                            *)
LEMMA IntraysDoneKeeps ==
    ASSUME IInv, NEW t \in Threads, IntraysDone(t)
    PROVE  IInv'
<1>1. Typing'
  <2>1. CounterTypes'  BY ZenonT(120) DEF IntraysDone, Broadcast, Typing, CounterTypes
  <2>2. FlagTypes'  BY ZenonT(120) DEF IntraysDone, Broadcast, Typing, FlagTypes
  <2>3. ThreadTypes'  BY ZenonT(120) DEF IntraysDone, Broadcast, Typing, ThreadTypes
  <2>4. PlaceTypes'
    BY KnownPlaces, ZenonT(120) DEF IntraysDone, Broadcast, Typing, PlaceTypes, CondVars, Awake
  <2> QED BY <2>1, <2>2, <2>3, <2>4, ZenonT(120) DEF Typing
<1>2. threads \subseteq Threads  BY ZenonT(120) DEF Typing, ThreadTypes
<1>3. /\ pc[t] = "IntraysDone" /\ gc_intrays_clearing' = FALSE /\ PcTo(t, "Reset")
      /\ TodoTo(t, gc_work[t])
      /\ UNCHANGED <<gc_start, gc_finish, gc_ack, threads, mutex_threads, panic, gc_status, stage,
          gc_work, bret, cont, target, is_coordinator, num_threads, to_signal, signalling>>
  BY ZenonT(120) DEF IntraysDone, Broadcast, Typing, FlagTypes, ThreadTypes, PlaceTypes
<1>4. StaysVoted(t, "Reset")  BY <1>3, ZenonT(120) DEF StaysVoted
<1>5. UNCHANGED <<Interrupted, Unready, Unfinished, Active, NobodyBeyond>>  BY <1>4, VotedStep, ZenonT(120)
<1>6. NobodyBeyond  BY <1>3, ZenonT(120) DEF OpenerAlone, NobodyBeyond
<1>7. is_coordinator[t] /\ Unfinished = {} /\ \A c \in Threads : is_coordinator[c] => c = t
  BY <1>3, ZenonT(120) DEF OneCoordinator, CoordinatorFits
<1>8. EverybodyStopped'  BY <1>3, <1>2, <1>7, ZenonT(120) DEF EverybodyStopped, AllStopped, Interrupted
<1>9. CoordinatorFits' /\ InterruptedFits' /\ WorkFits'
  BY <1>3, <1>5 DEF CoordinatorFits, InterruptedFits, Interrupted, WorkFits
<1>10. ClearingFits'  BY <1>3, <1>5, <1>7, <1>6, ZenonT(120) DEF ClearingFits, NobodyBeyond
<1> QED BY <1>4, VotedStep, <1>8, <1>9, <1>10, <1>1, ZenonT(120)

(* A participant waits until all have voted.                               *)
LEMMA WaitFinishKeeps ==
    ASSUME Counting, IInv, NEW t \in Threads, WaitFinish(t)
    PROVE  IInv'
<1>1. Typing'
  <2>1. CounterTypes'  BY ZenonT(120) DEF WaitFinish, AfterFinish, Sleep, Typing, CounterTypes
  <2>2. FlagTypes'  BY ZenonT(120) DEF WaitFinish, AfterFinish, Sleep, Typing, FlagTypes
  <2>3. ThreadTypes'  BY ZenonT(120) DEF WaitFinish, AfterFinish, Sleep, Typing, ThreadTypes
  <2>4. PlaceTypes'
    BY KnownPlaces, ZenonT(120) DEF WaitFinish, AfterFinish, Sleep, Typing, PlaceTypes, CondVars, Awake
  <2> QED BY <2>1, <2>2, <2>3, <2>4, ZenonT(120) DEF Typing
<1>2. threads \subseteq Threads  BY ZenonT(120) DEF Typing, ThreadTypes
<1> SUFFICES ProtocolInv'  BY <1>1, ZenonT(120)
<1>3. CASE gc_finish # 0
  <2>1. Quiet
    BY <1>3, ZenonT(120) DEF WaitFinish, AfterFinish, Sleep, Quiet, Typing, FlagTypes, ThreadTypes, PlaceTypes
  <2> QED BY <2>1, QuietStep, ZenonT(120)
<1>4. CASE gc_finish = 0 /\ is_coordinator[t]
  <2>1. /\ pc[t] = "WaitFinish" /\ gc_finish = 0 /\ is_coordinator[t] /\ PcTo(t, "ClearIntrays")
        /\ UNCHANGED <<gc_start, gc_finish, gc_ack, gc_intrays_clearing, threads, mutex_threads,
            panic, gc_status, stage, gc_work, bret, cont, target, is_coordinator, todo,
            num_threads, to_signal, signalling>>
    BY <1>4, ZenonT(120) DEF WaitFinish, AfterFinish, Sleep, Typing, FlagTypes, ThreadTypes, PlaceTypes
  <2>2. StaysVoted(t, "ClearIntrays")  BY <2>1, ZenonT(120) DEF StaysVoted
  <2>3. UNCHANGED <<Interrupted, Unready, Unfinished, Active, NobodyBeyond>>  BY <2>2, VotedStep, ZenonT(120)
  <2>4. NobodyBeyond  BY <2>1, ZenonT(120) DEF OpenerAlone, NobodyBeyond
  <2>5. Unfinished \in SUBSET Threads /\ Cardinality(Unfinished) \in Nat /\
        (Cardinality(Unfinished) = 0 <=> Unfinished = {})
    BY <2>1, ZenonT(120) DEF Unfinished, Counting
  <2>6. Unfinished = {}  BY <2>1, <2>4, <2>5, ZenonT(120) DEF FinishVotesFit, Counting
  <2>7. EverybodyStopped'
    BY <2>1, <1>2, ZenonT(120) DEF EverybodyStopped, AllStopped, Interrupted, OneCoordinator
  <2>8. InterruptedFits' /\ WorkFits'  BY <2>1, <2>3, ZenonT(120) DEF InterruptedFits, Interrupted, WorkFits
  <2>9. CoordinatorFits'  BY <2>1, <2>3, <2>6, ZenonT(120) DEF CoordinatorFits
  <2>10. ClearingFits'  BY <2>1, <2>3, <2>6, <2>4, ZenonT(120) DEF ClearingFits, NobodyBeyond
  <2> QED BY <2>2, VotedStep, <2>7, <2>8, <2>9, <2>10, ZenonT(120)
<1>5. CASE gc_finish = 0 /\ ~is_coordinator[t]
  <2>1. /\ pc[t] = "WaitFinish" /\ gc_finish = 0 /\ ~is_coordinator[t] /\ PcTo(t, "WaitIntrays")
        /\ UNCHANGED <<gc_start, gc_finish, gc_ack, gc_intrays_clearing, threads, mutex_threads,
            panic, gc_status, stage, gc_work, bret, cont, target, is_coordinator, todo,
            num_threads, to_signal, signalling>>
    BY <1>5, ZenonT(120) DEF WaitFinish, AfterFinish, Sleep, Typing, FlagTypes, ThreadTypes, PlaceTypes
  <2>2. StaysVoted(t, "WaitIntrays")  BY <2>1, ZenonT(120) DEF StaysVoted
  <2>3. UNCHANGED <<Interrupted, Unready, Unfinished, Active, NobodyBeyond>>  BY <2>2, VotedStep, ZenonT(120)
  <2>4. NobodyBeyond  BY <2>1, ZenonT(120) DEF OpenerAlone, NobodyBeyond
  <2>5. Unfinished \in SUBSET Threads /\ Cardinality(Unfinished) \in Nat /\
        (Cardinality(Unfinished) = 0 <=> Unfinished = {})
    BY <2>1, ZenonT(120) DEF Unfinished, Counting
  <2>6. Unfinished = {}  BY <2>1, <2>4, <2>5, ZenonT(120) DEF FinishVotesFit, Counting
  <2>7. EverybodyStopped'
    BY <2>1, <1>2, ZenonT(120) DEF EverybodyStopped, AllStopped, Interrupted, OneCoordinator
  <2>8. InterruptedFits' /\ WorkFits'  BY <2>1, <2>3, ZenonT(120) DEF InterruptedFits, Interrupted, WorkFits
  <2>9. CoordinatorFits'  BY <2>1, <2>3, <2>6, ZenonT(120) DEF CoordinatorFits
  <2>10. ClearingFits'  BY <2>1, <2>3, <2>6, <2>4, ZenonT(120) DEF ClearingFits, NobodyBeyond
  <2> QED BY <2>2, VotedStep, <2>7, <2>8, <2>9, <2>10, ZenonT(120)
<1> QED BY <1>3, <1>4, <1>5, ZenonT(120)

(* A participant waits for the coordinator to clear the in-trays.          *)
LEMMA WaitIntraysKeeps ==
    ASSUME IInv, NEW t \in Threads, WaitIntrays(t)
    PROVE  IInv'
<1>1. Typing'
  <2>1. CounterTypes'  BY ZenonT(120) DEF WaitIntrays, Sleep, Typing, CounterTypes
  <2>2. FlagTypes'  BY ZenonT(120) DEF WaitIntrays, Sleep, Typing, FlagTypes
  <2>3. ThreadTypes'  BY ZenonT(120) DEF WaitIntrays, Sleep, Typing, ThreadTypes
  <2>4. PlaceTypes'  BY KnownPlaces, ZenonT(120) DEF WaitIntrays, Sleep, Typing, PlaceTypes, CondVars, Awake
  <2> QED BY <2>1, <2>2, <2>3, <2>4, ZenonT(120) DEF Typing
<1>2. threads \subseteq Threads  BY ZenonT(120) DEF Typing, ThreadTypes
<1> SUFFICES ProtocolInv'  BY <1>1, ZenonT(120)
<1>3. CASE gc_intrays_clearing
  <2>1. Quiet  BY <1>3, ZenonT(120) DEF WaitIntrays, Sleep, Quiet, Typing, FlagTypes, ThreadTypes, PlaceTypes
  <2> QED BY <2>1, QuietStep, ZenonT(120)
<1>4. CASE ~gc_intrays_clearing
  <2>1. /\ pc[t] = "WaitIntrays" /\ ~gc_intrays_clearing /\ PcTo(t, "Reset")
        /\ TodoTo(t, gc_work[t])
        /\ UNCHANGED <<gc_start, gc_finish, gc_ack, gc_intrays_clearing, threads, mutex_threads,
            panic, gc_status, stage, gc_work, bret, cont, target, is_coordinator, num_threads,
            to_signal, signalling>>
    BY <1>4, ZenonT(120) DEF WaitIntrays, Sleep, Typing, FlagTypes, ThreadTypes, PlaceTypes
  <2>2. StaysVoted(t, "Reset")  BY <2>1, ZenonT(120) DEF StaysVoted
  <2>3. UNCHANGED <<Interrupted, Unready, Unfinished, Active, NobodyBeyond>>  BY <2>2, VotedStep, ZenonT(120)
  <2>4. Unfinished = {}  BY <2>1, ZenonT(120) DEF CoordinatorFits
  <2>5. EverybodyStopped'
    BY <2>1, <1>2, ZenonT(120) DEF EverybodyStopped, AllStopped, Interrupted, ClearingFits
  <2>6. CoordinatorFits' /\ InterruptedFits' /\ WorkFits'
    BY <2>1, <2>3 DEF CoordinatorFits, InterruptedFits, Interrupted, WorkFits
  <2>7. ClearingFits'  BY <2>1, <2>3, <2>4, ZenonT(120) DEF ClearingFits
  <2> QED BY <2>2, VotedStep, <2>5, <2>6, <2>7, ZenonT(120)
<1> QED BY <1>3, <1>4, ZenonT(120)

(* A thread is released, or destroyed.                                     *)
LEMMA ResetKeeps ==
    ASSUME IInv, NEW t \in Threads, NEW w \in Threads, Reset(t, w)
    PROVE  IInv'
<1>1. GcBits(gc_status[w]) = gc_status[w] /\ SuspendBits(gc_status[w]) = NONE
  BY StatusBits, ZenonT(120) DEF Typing, ThreadTypes
<1>2. Typing'
  <2>1. CounterTypes'  BY <1>1, ZenonT(120) DEF Reset, NextWork, Typing, CounterTypes
  <2>2. FlagTypes'  BY <1>1, ZenonT(120) DEF Reset, NextWork, Release, Released, Typing, FlagTypes
  <2>3. ThreadTypes'  BY <1>1 DEF Reset, NextWork, Release, Released, Typing, ThreadTypes, Stages
  <2>4. PlaceTypes'  BY <1>1, KnownPlaces, ZenonT(120) DEF Reset, NextWork, Typing, PlaceTypes
  <2> QED BY <2>1, <2>2, <2>3, <2>4, ZenonT(120) DEF Typing
<1>3. threads \subseteq Threads  BY ZenonT(120) DEF Typing, ThreadTypes
<1> SUFFICES ProtocolInv'  BY <1>2, ZenonT(120)
<1>4. CASE stage[w] = "clearing_nursery"
  <2>1. /\ pc[t] = "Reset" /\ w \in todo[t] /\ stage[w] = "clearing_nursery"
        /\ StageTo(w, "destroyed") /\ TodoTo(t, todo[t] \ {w}) /\ WorkTo(t, gc_work[t] \ {w})
        /\ UNCHANGED <<gc_start, gc_finish, gc_ack, gc_intrays_clearing, threads, mutex_threads,
            panic, gc_status, pc, bret, cont, target, is_coordinator, num_threads, to_signal,
            signalling>>
    BY <1>1, <1>4, ZenonT(120) DEF Reset, NextWork, Typing, FlagTypes, ThreadTypes, PlaceTypes
  <2>2. NobodyBeyond  BY <2>1, ZenonT(120) DEF OpenerAlone, NobodyBeyond
  <2>3. ~gc_intrays_clearing /\ Unfinished = {}  BY <2>1, ZenonT(120) DEF ClearingFits
  <2>4. \A x \in Threads : gc_status[x] = INTERRUPT => pc[x] \notin {"EnterInt", "WaitCount", "BlockCheck"}
    BY <2>1, <2>2, ZenonT(120) DEF InterruptedFits, Interrupted
  <2>5. UNCHANGED <<Interrupted, Unready, Unfinished, Active, NobodyBeyond>>
    BY <2>1, ZenonT(120) DEF Interrupted, Unready, Unfinished, Active, NobodyBeyond
  <2>6. StatusFits' /\ SpawnFits' /\ OneCoordinator' /\ PanicFits'
    BY <2>1 DEF StatusFits, SpawnFits, Spawning, OneCoordinator, PanicFits
  <2>7. ListFits'  BY <2>1, <2>4 DEF ListFits
  <2>8. StartVotes' /\ FinishVotesFit' /\ AcksFit'
    BY <2>1, <2>5, ZenonT(120) DEF StartVotes, FinishVotesFit, AcksFit
  <2>9. OneOpener'  BY <2>1, <1>3, <2>2, ZenonT(120) DEF OneOpener, NobodyBeyond
  <2>10. OpenerAlone'  BY <2>1, <2>2, ZenonT(120) DEF OpenerAlone, NobodyBeyond
  <2>11. EverybodySignalled'  BY <2>1, <1>3, <2>2, ZenonT(120) DEF EverybodySignalled, AllStopped, NobodyBeyond
  <2>12. EverybodyStopped'
    BY <2>1, <1>3, <2>3, ZenonT(120) DEF EverybodyStopped, AllStopped, Interrupted, ClearingFits
  <2>13. CoordinatorFits' /\ ClearingFits'  BY <2>1, <2>5, ZenonT(120) DEF CoordinatorFits, ClearingFits
  <2>14. InterruptedFits'
    BY <2>1, <2>5, <2>2, ZenonT(120) DEF InterruptedFits, Interrupted, ListFits, NobodyBeyond
  <2>15. WorkFits'  BY <2>1, <2>2, ZenonT(120) DEF WorkFits, ListFits, NobodyBeyond
  <2> QED BY <2>6, <2>7, <2>8, <2>9, <2>10, <2>11, <2>12, <2>13, <2>14, <2>15, ZenonT(120)
<1>5. CASE stage[w] # "clearing_nursery"
  <2>1. PICK s :
        /\ pc[t] = "Reset" /\ w \in todo[t] /\ (t \in todo[t] => w = t)
        /\ (s = CASE gc_status[w] = STOLEN -> UNABLE [] gc_status[w] = INTERRUPT -> NONE [] OTHER -> gc_status[w])
        /\ StatusTo(w, s)
        /\ StageTo(w, IF stage[w] = "exited" THEN "clearing_nursery" ELSE stage[w])
        /\ stage[w] # "clearing_nursery" /\ TodoTo(t, todo[t] \ {w})
        /\ UNCHANGED <<gc_start, gc_finish, gc_ack, gc_intrays_clearing, threads, mutex_threads,
            panic, gc_work, pc, bret, cont, target, is_coordinator, num_threads, to_signal,
            signalling>>
    BY <1>1, <1>5 DEF Reset, NextWork, Release, Released, Typing, FlagTypes, ThreadTypes,
        PlaceTypes
  <2>2. NobodyBeyond  BY <2>1, ZenonT(120) DEF OpenerAlone, NobodyBeyond
  <2>3. ~gc_intrays_clearing /\ Unfinished = {}  BY <2>1, ZenonT(120) DEF ClearingFits
  <2>4. \A x \in Threads : gc_status[x] = INTERRUPT => pc[x] \notin {"EnterInt", "WaitCount", "BlockCheck"}
    BY <2>1, <2>2, ZenonT(120) DEF InterruptedFits, Interrupted
  <2>5. UNCHANGED <<Unfinished, Active, NobodyBeyond>>
    BY <2>1, ZenonT(120) DEF Unfinished, Active, NobodyBeyond
  <2>6. OneCoordinator' /\ PanicFits'  BY <2>1, ZenonT(120) DEF OneCoordinator, PanicFits
  <2>7. StatusFits'  BY <2>1, <2>4 DEF StatusFits
  <2>8. ListFits'  BY <2>1, <2>4 DEF ListFits
  <2>9. SpawnFits'  BY <2>1 DEF SpawnFits, Spawning
  <2>10. AcksFit'  BY <2>1, <2>5, ZenonT(120) DEF AcksFit
  <2>11. OneOpener'  BY <2>1, <1>3, <2>2, ZenonT(120) DEF OneOpener, NobodyBeyond
  <2>12. OpenerAlone'  BY <2>1, <2>2, ZenonT(120) DEF OpenerAlone, NobodyBeyond
  <2>13. StartVotes'  BY <2>1, <2>5, <2>2, ZenonT(120) DEF StartVotes, NobodyBeyond
  <2>14. FinishVotesFit'  BY <2>1, <2>5, <2>2, ZenonT(120) DEF FinishVotesFit, NobodyBeyond
  <2>15. EverybodySignalled'  BY <2>1, <1>3, <2>2, ZenonT(120) DEF EverybodySignalled, AllStopped, NobodyBeyond
  <2>16. EverybodyStopped'
    BY <2>1, <1>3, <2>3, ZenonT(120) DEF EverybodyStopped, AllStopped, Interrupted, ClearingFits
  <2>17. CoordinatorFits' /\ ClearingFits'  BY <2>1, <2>5, ZenonT(120) DEF CoordinatorFits, ClearingFits
  <2>18. InterruptedFits'  BY <2>1, <2>5, <2>2 DEF InterruptedFits, Interrupted, NobodyBeyond
  <2>19. WorkFits'  BY <2>1, <2>2, ZenonT(120) DEF WorkFits, NobodyBeyond
  <2> QED BY <2>6, <2>7, <2>8, <2>9, <2>10, <2>11, <2>12, <2>13, <2>14, <2>15, <2>16, <2>17,
      <2>18, <2>19, ZenonT(120)
<1> QED BY <1>4, <1>5, <1>1, ZenonT(120)

(* A participant has released its threads.                                 *)
LEMMA ResetDoneKeeps ==
    ASSUME IInv, NEW t \in Threads, ResetDone(t)
    PROVE  IInv'
<1>1. Typing'
  <2>1. CounterTypes'  BY ZenonT(120) DEF ResetDone, Typing, CounterTypes
  <2>2. FlagTypes'  BY ZenonT(120) DEF ResetDone, Typing, FlagTypes
  <2>3. ThreadTypes'  BY ZenonT(120) DEF ResetDone, Typing, ThreadTypes
  <2>4. PlaceTypes'  BY KnownPlaces, ZenonT(120) DEF ResetDone, Typing, PlaceTypes
  <2> QED BY <2>1, <2>2, <2>3, <2>4, ZenonT(120) DEF Typing
<1>2. threads \subseteq Threads  BY ZenonT(120) DEF Typing, ThreadTypes
<1> SUFFICES ProtocolInv'  BY <1>1, ZenonT(120)
<1>3. CASE is_coordinator[t]
  <2>1. /\ pc[t] = "Reset" /\ todo[t] = {} /\ is_coordinator[t] /\ PcTo(t, "Complete")
        /\ UNCHANGED <<gc_start, gc_finish, gc_ack, gc_intrays_clearing, threads, mutex_threads,
            panic, gc_status, stage, gc_work, bret, cont, target, is_coordinator, todo,
            num_threads, to_signal, signalling>>
    BY <1>3, ZenonT(120) DEF ResetDone, Typing, FlagTypes, ThreadTypes, PlaceTypes
  <2>2. StaysVoted(t, "Complete")  BY <2>1, ZenonT(120) DEF StaysVoted
  <2>3. UNCHANGED <<Interrupted, Unready, Unfinished, Active, NobodyBeyond>>  BY <2>2, VotedStep, ZenonT(120)
  <2>4. EverybodyStopped'  BY <2>1, <1>2, ZenonT(120) DEF EverybodyStopped, AllStopped, Interrupted
  <2>5. CoordinatorFits' /\ ClearingFits' /\ InterruptedFits' /\ WorkFits'
    BY <2>1, <2>3 DEF CoordinatorFits, ClearingFits, InterruptedFits, Interrupted, WorkFits
  <2> QED BY <2>2, VotedStep, <2>4, <2>5, ZenonT(120)
<1>4. CASE ~is_coordinator[t]
  <2>1. /\ pc[t] = "Reset" /\ todo[t] = {} /\ ~is_coordinator[t] /\ PcTo(t, "WaitCompleted")
        /\ UNCHANGED <<gc_start, gc_finish, gc_ack, gc_intrays_clearing, threads, mutex_threads,
            panic, gc_status, stage, gc_work, bret, cont, target, is_coordinator, todo,
            num_threads, to_signal, signalling>>
    BY <1>4, ZenonT(120) DEF ResetDone, Typing, FlagTypes, ThreadTypes, PlaceTypes
  <2>2. StaysVoted(t, "WaitCompleted")  BY <2>1, ZenonT(120) DEF StaysVoted
  <2>3. UNCHANGED <<Interrupted, Unready, Unfinished, Active, NobodyBeyond>>  BY <2>2, VotedStep, ZenonT(120)
  <2>4. EverybodyStopped'  BY <2>1, <1>2, ZenonT(120) DEF EverybodyStopped, AllStopped, Interrupted
  <2>5. CoordinatorFits' /\ ClearingFits' /\ InterruptedFits' /\ WorkFits'
    BY <2>1, <2>3 DEF CoordinatorFits, ClearingFits, InterruptedFits, Interrupted, WorkFits
  <2> QED BY <2>2, VotedStep, <2>4, <2>5, ZenonT(120)
<1> QED BY <1>3, <1>4, ZenonT(120)

(* The coordinator declares the run complete.                              *)
LEMMA CompleteKeeps ==
    ASSUME IInv, NEW t \in Threads, Complete(t)
    PROVE  IInv'
<1>1. Typing'
  <2>1. CounterTypes'  BY ZenonT(120) DEF Complete, Broadcast, Typing, CounterTypes
  <2>2. FlagTypes'  BY ZenonT(120) DEF Complete, Broadcast, Typing, FlagTypes
  <2>3. ThreadTypes'  BY ZenonT(120) DEF Complete, Broadcast, Typing, ThreadTypes
  <2>4. PlaceTypes'  BY KnownPlaces, ZenonT(120) DEF Complete, Broadcast, Typing, PlaceTypes, CondVars, Awake
  <2> QED BY <2>1, <2>2, <2>3, <2>4, ZenonT(120) DEF Typing
<1>2. threads \subseteq Threads  BY ZenonT(120) DEF Typing, ThreadTypes
<1>3. /\ pc[t] \in {"Complete", "WaitCompleted"} /\ PcTo(t, "Ack")
      /\ UNCHANGED <<gc_start, gc_finish, gc_ack, gc_intrays_clearing, threads, mutex_threads,
          panic, gc_status, stage, gc_work, bret, cont, target, is_coordinator, todo, num_threads,
          to_signal, signalling>>
  BY ZenonT(120) DEF Complete, Broadcast, Typing, FlagTypes, ThreadTypes, PlaceTypes
<1>4. StaysVoted(t, "Ack")  BY <1>3, ZenonT(120) DEF StaysVoted
<1>5. UNCHANGED <<Interrupted, Unready, Unfinished, Active, NobodyBeyond>>  BY <1>4, VotedStep, ZenonT(120)
<1>6. EverybodyStopped'  BY <1>3, <1>2, ZenonT(120) DEF EverybodyStopped, AllStopped, Interrupted
<1>7. CoordinatorFits' /\ ClearingFits' /\ InterruptedFits' /\ WorkFits'
  BY <1>3, <1>5 DEF CoordinatorFits, ClearingFits, InterruptedFits, Interrupted, WorkFits
<1> QED BY <1>4, VotedStep, <1>6, <1>7, <1>1, ZenonT(120)

(* A participant waits for that.                                           *)
LEMMA WaitCompletedKeeps ==
    ASSUME IInv, NEW t \in Threads, WaitCompleted(t)
    PROVE  IInv'
<1>1. Typing'
  <2>1. CounterTypes'  BY ZenonT(120) DEF WaitCompleted, Sleep, Typing, CounterTypes
  <2>2. FlagTypes'  BY ZenonT(120) DEF WaitCompleted, Sleep, Typing, FlagTypes
  <2>3. ThreadTypes'  BY ZenonT(120) DEF WaitCompleted, Sleep, Typing, ThreadTypes
  <2>4. PlaceTypes'  BY KnownPlaces, ZenonT(120) DEF WaitCompleted, Sleep, Typing, PlaceTypes, CondVars, Awake
  <2> QED BY <2>1, <2>2, <2>3, <2>4, ZenonT(120) DEF Typing
<1>2. threads \subseteq Threads  BY ZenonT(120) DEF Typing, ThreadTypes
<1> SUFFICES ProtocolInv'  BY <1>1, ZenonT(120)
<1>3. CASE gc_completed
  <2>1. /\ pc[t] \in {"Complete", "WaitCompleted"} /\ PcTo(t, "Ack")
        /\ UNCHANGED <<gc_start, gc_finish, gc_ack, gc_intrays_clearing, threads, mutex_threads,
            panic, gc_status, stage, gc_work, bret, cont, target, is_coordinator, todo,
            num_threads, to_signal, signalling>>
    BY <1>3, ZenonT(120) DEF WaitCompleted, Sleep, Typing, FlagTypes, ThreadTypes, PlaceTypes
  <2>2. StaysVoted(t, "Ack")  BY <2>1, ZenonT(120) DEF StaysVoted
  <2>3. UNCHANGED <<Interrupted, Unready, Unfinished, Active, NobodyBeyond>>  BY <2>2, VotedStep, ZenonT(120)
  <2>4. EverybodyStopped'  BY <2>1, <1>2, ZenonT(120) DEF EverybodyStopped, AllStopped, Interrupted
  <2>5. CoordinatorFits' /\ ClearingFits' /\ InterruptedFits' /\ WorkFits'
    BY <2>1, <2>3 DEF CoordinatorFits, ClearingFits, InterruptedFits, Interrupted, WorkFits
  <2> QED BY <2>2, VotedStep, <2>4, <2>5, ZenonT(120)
<1>4. CASE ~gc_completed
  <2>1. Quiet  BY <1>4, ZenonT(120) DEF WaitCompleted, Sleep, Quiet, Typing, FlagTypes, ThreadTypes, PlaceTypes
  <2> QED BY <2>1, QuietStep, ZenonT(120)
<1> QED BY <1>3, <1>4, ZenonT(120)

(* A participant leaves the run; the last but one clears the count.        *)
LEMMA AckKeeps ==
    ASSUME Counting, IInv, NEW t \in Threads, Ack(t)
    PROVE  IInv'
<1>1. Typing'
  <2>1. CounterTypes'  BY DEF Ack, Return, Typing, CounterTypes
  <2>2. FlagTypes'  BY ZenonT(120) DEF Ack, Return, Typing, FlagTypes
  <2>3. ThreadTypes'  BY ZenonT(120) DEF Ack, Return, Typing, ThreadTypes
  <2>4. PlaceTypes'  BY KnownPlaces DEF Ack, Return, Typing, PlaceTypes
  <2> QED BY <2>1, <2>2, <2>3, <2>4, ZenonT(120) DEF Typing
<1>2. threads \subseteq Threads  BY ZenonT(120) DEF Typing, ThreadTypes
<1> SUFFICES ProtocolInv'  BY <1>1, ZenonT(120)
<1>3. CASE gc_ack = 2
  <2>1. /\ pc[t] = "Ack" /\ gc_ack = 2 /\ gc_ack' = gc_ack - 1 /\ PcTo(t, "ClearAck")
        /\ Dismissed(t) /\ WorkTo(t, {})
        /\ UNCHANGED <<gc_start, gc_finish, gc_intrays_clearing, threads, mutex_threads, panic,
            gc_status, stage, bret, cont, target, todo, num_threads, to_signal, signalling>>
    BY <1>3, ZenonT(120) DEF Ack, Return, Typing, FlagTypes, ThreadTypes, PlaceTypes
  <2>2. gc_start \in Int /\ gc_finish \in Int /\ gc_ack \in Int /\ num_threads \in Int
    BY <2>1, ZenonT(120) DEF Typing, CounterTypes
  <2>3. NobodyBeyond  BY <2>1, ZenonT(120) DEF OpenerAlone, NobodyBeyond
  <2>4. Active \in SUBSET Threads /\ Cardinality(Active) \in Nat /\
        (Cardinality(Active) = 0 <=> Active = {})
    BY <2>1, ZenonT(120) DEF Active, Counting
  <2>5. Active' = Active \ {t} /\ t \in Active  BY <2>1, ZenonT(120) DEF Active
  <2>6. Cardinality(Active') = Cardinality(Active) - 1  BY <2>1, <2>4, <2>5, ZenonT(120) DEF Counting
  <2>7. gc_ack = Cardinality(Active) + 1 /\ \A x \in Threads : pc[x] # "ClearAck"
    BY <2>1, <2>3, <2>5, ZenonT(120) DEF AcksFit
  <2>8. ~gc_intrays_clearing /\ Unfinished = {} /\ gc_status[t] # INTERRUPT
    BY <2>1, <2>3, ZenonT(120) DEF ClearingFits, InterruptedFits, Interrupted
  <2>9. Active' = {} /\ gc_ack' = 1
    <3>1. Cardinality(Active') = 0 /\ gc_ack' = 1  BY <2>1, <2>4, <2>6, <2>7
    <3> QED BY <2>4, <2>5, <3>1, ZenonT(120) DEF Counting
  <2>10. UNCHANGED <<Interrupted, Unready, Unfinished, NobodyBeyond>>
    BY <2>1, ZenonT(120) DEF Interrupted, Unready, Unfinished, NobodyBeyond
  <2>11. StatusFits' /\ ListFits' /\ SpawnFits' /\ PanicFits'
    BY <2>1 DEF StatusFits, ListFits, SpawnFits, Spawning, PanicFits
  <2>12. OneCoordinator'  BY <2>1, <2>7, ZenonT(120) DEF OneCoordinator
  <2>13. OneOpener'  BY <2>1, <1>2 DEF OneOpener
  <2>14. OpenerAlone'  BY <2>1, <2>3 DEF OpenerAlone, NobodyBeyond
  <2>15. StartVotes'  BY <2>1, <2>10, <2>3, ZenonT(120) DEF StartVotes, NobodyBeyond
  <2>16. FinishVotesFit'  BY <2>1, <2>10, <2>3, ZenonT(120) DEF FinishVotesFit, NobodyBeyond
  <2>17. AcksFit'  BY <2>1, <2>10, <2>9, ZenonT(120) DEF AcksFit
  <2>18. EverybodySignalled'  BY <2>1, <1>2, ZenonT(120) DEF EverybodySignalled, AllStopped
  <2>19. EverybodyStopped'
    BY <2>1, <1>2, <2>8, ZenonT(120) DEF EverybodyStopped, AllStopped, Interrupted, ClearingFits
  <2>20. CoordinatorFits'  BY <2>1, <2>10, <2>8, <2>7, ZenonT(120) DEF CoordinatorFits
  <2>21. ClearingFits'  BY <2>1, <2>10, <2>8, ZenonT(120) DEF ClearingFits
  <2>22. InterruptedFits'  BY <2>1, <2>10, <2>3, <2>8, ZenonT(120) DEF InterruptedFits, Interrupted
  <2>23. WorkFits'  BY <2>1, <2>3, <2>8, ZenonT(120) DEF WorkFits
  <2> QED BY <2>11, <2>12, <2>13, <2>14, <2>15, <2>16, <2>17, <2>18, <2>19, <2>20, <2>21, <2>22,
      <2>23, ZenonT(120)
<1>4. CASE gc_ack # 2 /\ bret[t] # "none"
  <2>1. /\ pc[t] = "Ack" /\ gc_ack # 2 /\ gc_ack' = gc_ack - 1 /\ PcTo(t, "Block") /\ Dismissed(t)
        /\ WorkTo(t, {})
        /\ UNCHANGED <<gc_start, gc_finish, gc_intrays_clearing, threads, mutex_threads, panic,
            gc_status, stage, bret, cont, target, todo, num_threads, to_signal, signalling>>
    BY <1>4, ZenonT(120) DEF Ack, Return, Typing, FlagTypes, ThreadTypes, PlaceTypes
  <2>2. gc_start \in Int /\ gc_finish \in Int /\ gc_ack \in Int /\ num_threads \in Int
    BY <2>1, ZenonT(120) DEF Typing, CounterTypes
  <2>3. NobodyBeyond  BY <2>1, ZenonT(120) DEF OpenerAlone, NobodyBeyond
  <2>4. Active \in SUBSET Threads /\ Cardinality(Active) \in Nat /\
        (Cardinality(Active) = 0 <=> Active = {})
    BY <2>1, ZenonT(120) DEF Active, Counting
  <2>5. Active' = Active \ {t} /\ t \in Active  BY <2>1, ZenonT(120) DEF Active
  <2>6. Cardinality(Active') = Cardinality(Active) - 1  BY <2>1, <2>4, <2>5, ZenonT(120) DEF Counting
  <2>7. gc_ack = Cardinality(Active) + 1 /\ \A x \in Threads : pc[x] # "ClearAck"
    BY <2>1, <2>3, <2>5, ZenonT(120) DEF AcksFit
  <2>8. ~gc_intrays_clearing /\ Unfinished = {} /\ gc_status[t] # INTERRUPT
    BY <2>1, <2>3, ZenonT(120) DEF ClearingFits, InterruptedFits, Interrupted
  <2>9. Active' # {} /\ gc_ack' = Cardinality(Active') + 1
    BY <2>1, <2>6, <2>7, <2>2, <2>4 DEF Counting
  <2>10. \A x \in Threads : (Spawning(x)' <=> Spawning(x)) /\ (Spawning(x) => target[x] # t)
    BY <2>1, ZenonT(120) DEF SpawnFits, Spawning
  <2>11. UNCHANGED <<Interrupted, Unready, Unfinished, NobodyBeyond>>
    BY <2>1, ZenonT(120) DEF Interrupted, Unready, Unfinished, NobodyBeyond
  <2>12. StatusFits' /\ ListFits' /\ PanicFits'
    BY <2>1 DEF StatusFits, ListFits, PanicFits
  <2>13. SpawnFits'  BY <2>1, <2>10, ZenonT(120) DEF SpawnFits
  <2>14. OneCoordinator'  BY <2>1, <2>7, ZenonT(120) DEF OneCoordinator
  <2>15. OneOpener'  BY <2>1, <1>2 DEF OneOpener
  <2>16. OpenerAlone'  BY <2>1, <2>3 DEF OpenerAlone, NobodyBeyond
  <2>17. StartVotes'  BY <2>1, <2>11, <2>3, ZenonT(120) DEF StartVotes, NobodyBeyond
  <2>18. FinishVotesFit'  BY <2>1, <2>11, <2>3, ZenonT(120) DEF FinishVotesFit, NobodyBeyond
  <2>19. AcksFit'  BY <2>1, <2>11, <2>9, <2>7, ZenonT(120) DEF AcksFit
  <2>20. EverybodySignalled'  BY <2>1, <1>2 DEF EverybodySignalled, AllStopped
  <2>21. EverybodyStopped'
    BY <2>1, <1>2, <2>8, ZenonT(120) DEF EverybodyStopped, AllStopped, Interrupted, ClearingFits
  <2>22. CoordinatorFits'  BY <2>1, <2>11, <2>8, <2>7, ZenonT(120) DEF CoordinatorFits
  <2>23. ClearingFits'  BY <2>1, <2>11, <2>8, ZenonT(120) DEF ClearingFits
  <2>24. InterruptedFits'  BY <2>1, <2>11, <2>3, <2>8, ZenonT(120) DEF InterruptedFits, Interrupted
  <2>25. WorkFits'  BY <2>1, <2>3, <2>8, ZenonT(120) DEF WorkFits
  <2> QED BY <2>12, <2>13, <2>14, <2>15, <2>16, <2>17, <2>18, <2>19, <2>20, <2>21, <2>22, <2>23,
      <2>24, <2>25, ZenonT(120)
<1>5. CASE gc_ack # 2 /\ bret[t] = "none"
  <2>1. PICK l \in {"Run", "Start", "Spawn", "Alloc"} :
        /\ pc[t] = "Ack" /\ gc_ack # 2 /\ gc_ack' = gc_ack - 1 /\ bret[t] = "none" /\ l = cont[t]
        /\ PcTo(t, l) /\ ContTo(t, "Run") /\ Dismissed(t) /\ WorkTo(t, {})
        /\ UNCHANGED <<gc_start, gc_finish, gc_intrays_clearing, threads, mutex_threads, panic,
            gc_status, stage, bret, target, todo, num_threads, to_signal, signalling>>
    BY <1>5 DEF Ack, Return, Typing, FlagTypes, ThreadTypes, PlaceTypes
  <2>2. gc_start \in Int /\ gc_finish \in Int /\ gc_ack \in Int /\ num_threads \in Int
    BY <2>1, ZenonT(120) DEF Typing, CounterTypes
  <2>3. NobodyBeyond  BY <2>1, ZenonT(120) DEF OpenerAlone, NobodyBeyond
  <2>4. Active \in SUBSET Threads /\ Cardinality(Active) \in Nat /\
        (Cardinality(Active) = 0 <=> Active = {})
    BY <2>1, ZenonT(120) DEF Active, Counting
  <2>5. Active' = Active \ {t} /\ t \in Active  BY <2>1, ZenonT(120) DEF Active
  <2>6. Cardinality(Active') = Cardinality(Active) - 1  BY <2>1, <2>4, <2>5, ZenonT(120) DEF Counting
  <2>7. gc_ack = Cardinality(Active) + 1 /\ \A x \in Threads : pc[x] # "ClearAck"
    BY <2>1, <2>3, <2>5, ZenonT(120) DEF AcksFit
  <2>8. ~gc_intrays_clearing /\ Unfinished = {} /\ gc_status[t] # INTERRUPT
    BY <2>1, <2>3, ZenonT(120) DEF ClearingFits, InterruptedFits, Interrupted
  <2>9. Active' # {} /\ gc_ack' = Cardinality(Active') + 1
    BY <2>1, <2>6, <2>7, <2>2, <2>4 DEF Counting
  <2>10. \A x \in Threads : (Spawning(x)' <=> Spawning(x)) /\ (Spawning(x) => target[x] # t)
    BY <2>1, ZenonT(120) DEF SpawnFits, Spawning
  <2>11. t \in threads /\ stage[t] \notin Ended \cup {"unstarted"}  BY <2>1, ZenonT(120) DEF ListFits
  <2>12. UNCHANGED <<Interrupted, Unready, Unfinished, NobodyBeyond>>
    BY <2>1 DEF Interrupted, Unready, Unfinished, NobodyBeyond
  <2>13. StatusFits' /\ PanicFits'  BY <2>1, ZenonT(120) DEF StatusFits, PanicFits
  <2>14. ListFits'  BY <2>1, <2>11 DEF ListFits
  <2>15. SpawnFits'  BY <2>1, <2>10, ZenonT(120) DEF SpawnFits
  <2>16. OneCoordinator'  BY <2>1, <2>7, ZenonT(120) DEF OneCoordinator
  <2>17. OneOpener'  BY <2>1, <1>2, ZenonT(120) DEF OneOpener
  <2>18. OpenerAlone'  BY <2>1, <2>3 DEF OpenerAlone, NobodyBeyond
  <2>19. StartVotes'  BY <2>1, <2>12, <2>3, ZenonT(120) DEF StartVotes, NobodyBeyond
  <2>20. FinishVotesFit'  BY <2>1, <2>12, <2>3, ZenonT(120) DEF FinishVotesFit, NobodyBeyond
  <2>21. AcksFit'  BY <2>1, <2>12, <2>9, <2>7, ZenonT(120) DEF AcksFit
  <2>22. EverybodySignalled'  BY <2>1, <1>2, ZenonT(120) DEF EverybodySignalled, AllStopped
  <2>23. EverybodyStopped'
    BY <2>1, <1>2, <2>8 DEF EverybodyStopped, AllStopped, Interrupted, ClearingFits
  <2>24. CoordinatorFits'  BY <2>1, <2>12, <2>8, <2>7, ZenonT(120) DEF CoordinatorFits
  <2>25. ClearingFits'  BY <2>1, <2>12, <2>8, ZenonT(120) DEF ClearingFits
  <2>26. InterruptedFits'  BY <2>1, <2>12, <2>3, <2>8, ZenonT(120) DEF InterruptedFits, Interrupted
  <2>27. WorkFits'  BY <2>1, <2>3, <2>8, ZenonT(120) DEF WorkFits
  <2> QED BY <2>13, <2>14, <2>15, <2>16, <2>17, <2>18, <2>19, <2>20, <2>21, <2>22, <2>23, <2>24,
      <2>25, <2>26, <2>27, ZenonT(120)
<1> QED BY <1>3, <1>4, <1>5, ZenonT(120)

(* The count of acknowledgements is cleared.                               *)
LEMMA ClearAckKeeps ==
    ASSUME Counting, IInv, NEW t \in Threads, ClearAck(t)
    PROVE  IInv'
<1>1. Typing'
  <2>1. CounterTypes'  BY DEF ClearAck, Typing, CounterTypes
  <2>2. FlagTypes'  BY ZenonT(120) DEF ClearAck, Typing, FlagTypes
  <2>3. ThreadTypes'  BY ZenonT(120) DEF ClearAck, Typing, ThreadTypes
  <2>4. PlaceTypes'  BY KnownPlaces, ZenonT(120) DEF ClearAck, Typing, PlaceTypes
  <2> QED BY <2>1, <2>2, <2>3, <2>4, ZenonT(120) DEF Typing
<1>2. threads \subseteq Threads  BY ZenonT(120) DEF Typing, ThreadTypes
<1>3. /\ pc[t] = "ClearAck" /\ gc_ack' = 0 /\ PcTo(t, "ClearInGc")
      /\ UNCHANGED <<gc_start, gc_finish, gc_intrays_clearing, threads, mutex_threads, panic,
          gc_status, stage, gc_work, bret, cont, target, is_coordinator, todo, num_threads,
          to_signal, signalling>>
  BY ZenonT(120) DEF ClearAck, Typing, FlagTypes, ThreadTypes, PlaceTypes
<1>4. NobodyBeyond  BY <1>3, ZenonT(120) DEF OpenerAlone, NobodyBeyond
<1>5. Active \in SUBSET Threads /\ Cardinality(Active) \in Nat /\
      (Cardinality(Active) = 0 <=> Active = {})
  BY <1>3, ZenonT(120) DEF Active, Counting
<1>6. Active = {} /\ \A x \in Threads : pc[x] = "ClearAck" => x = t
  BY <1>3, <1>4, ZenonT(120) DEF AcksFit, OneCoordinator
<1>7. UNCHANGED <<Interrupted, Unready, Unfinished, Active, NobodyBeyond>>
  BY <1>3, ZenonT(120) DEF Interrupted, Unready, Unfinished, Active, NobodyBeyond
<1>8. StatusFits' /\ ListFits' /\ SpawnFits' /\ OneCoordinator' /\ PanicFits'
  BY <1>3 DEF StatusFits, ListFits, SpawnFits, Spawning, OneCoordinator, PanicFits
<1>9. OneOpener' /\ OpenerAlone' /\ StartVotes'
  BY <1>3, <1>2, <1>7 DEF OneOpener, OpenerAlone, StartVotes
<1>10. FinishVotesFit'  BY <1>3, <1>7, <1>4, ZenonT(120) DEF FinishVotesFit, NobodyBeyond
<1>11. AcksFit'  BY <1>3, <1>7, <1>6, ZenonT(120) DEF AcksFit
<1>12. EverybodySignalled' /\ EverybodyStopped'
  BY <1>3, <1>2 DEF EverybodySignalled, AllStopped, EverybodyStopped, Interrupted
<1>13. CoordinatorFits' /\ ClearingFits' /\ InterruptedFits' /\ WorkFits'
  BY <1>3, <1>7 DEF CoordinatorFits, ClearingFits, InterruptedFits, Interrupted, WorkFits
<1> QED BY <1>8, <1>9, <1>10, <1>11, <1>12, <1>13, <1>1, ZenonT(120)

(* The end of the run is announced.                                        *)
LEMMA ClearInGcKeeps ==
    ASSUME IInv, NEW t \in Threads, ClearInGc(t)
    PROVE  IInv'
<1>1. Typing'
  <2>1. CounterTypes'  BY ZenonT(120) DEF ClearInGc, Return, TellBlocked, Broadcast, Typing, CounterTypes
  <2>2. FlagTypes'  BY ZenonT(120) DEF ClearInGc, Return, TellBlocked, Broadcast, Typing, FlagTypes
  <2>3. ThreadTypes'  BY ZenonT(120) DEF ClearInGc, Return, TellBlocked, Broadcast, Typing, ThreadTypes
  <2>4. PlaceTypes'
    BY KnownPlaces DEF ClearInGc, Return, TellBlocked, Broadcast, Typing, PlaceTypes, CondVars,
        Awake
  <2> QED BY <2>1, <2>2, <2>3, <2>4, ZenonT(120) DEF Typing
<1>2. threads \subseteq Threads  BY ZenonT(120) DEF Typing, ThreadTypes
<1> SUFFICES ProtocolInv'  BY <1>1, ZenonT(120)
<1>3. CASE bret[t] # "none"
  <2>1. /\ pc[t] = "ClearInGc" /\ PcTo(t, "Block")
        /\ UNCHANGED <<gc_start, gc_finish, gc_ack, gc_intrays_clearing, threads, mutex_threads,
            panic, gc_status, stage, gc_work, bret, cont, target, is_coordinator, todo,
            num_threads, to_signal, signalling>>
    BY <1>3, ZenonT(120) DEF ClearInGc, Return, TellBlocked, Broadcast, Typing, FlagTypes, ThreadTypes,
        PlaceTypes
  <2>2. StaysOutside  BY <2>1, ZenonT(120) DEF StaysOutside, Outside
  <2>3. \A x \in Threads : (Spawning(x)' <=> Spawning(x)) /\ (Spawning(x) => target[x] # t)
    BY <2>1, ZenonT(120) DEF SpawnFits, Spawning
  <2>4. StatusFits' /\ ListFits'  BY <2>1 DEF StatusFits, ListFits
  <2>5. SpawnFits'  BY <2>1, <2>3, ZenonT(120) DEF SpawnFits
  <2>6. WorkFits'  BY <2>1, ZenonT(120) DEF WorkFits
  <2> QED BY <2>2, OutsideStep, <2>4, <2>5, <2>6, ZenonT(120)
<1>4. CASE bret[t] = "none"
  <2>1. PICK l \in {"Run", "Start", "Spawn", "Alloc"} :
        /\ pc[t] = "ClearInGc" /\ bret[t] = "none" /\ l = cont[t] /\ PcTo(t, l)
        /\ ContTo(t, "Run")
        /\ UNCHANGED <<gc_start, gc_finish, gc_ack, gc_intrays_clearing, threads, mutex_threads,
            panic, gc_status, stage, gc_work, bret, target, is_coordinator, todo, num_threads,
            to_signal, signalling>>
    BY <1>4 DEF ClearInGc, Return, TellBlocked, Broadcast, Typing, FlagTypes, ThreadTypes,
        PlaceTypes
  <2>2. StaysOutside  BY <2>1, ZenonT(120) DEF StaysOutside, Outside
  <2>3. \A x \in Threads : (Spawning(x)' <=> Spawning(x)) /\ (Spawning(x) => target[x] # t)
    BY <2>1, ZenonT(120) DEF SpawnFits, Spawning
  <2>4. t \in threads /\ stage[t] \notin Ended \cup {"unstarted"}  BY <2>1, ZenonT(120) DEF ListFits
  <2>5. StatusFits'  BY <2>1, ZenonT(120) DEF StatusFits
  <2>6. ListFits'  BY <2>1, <2>4, SMT DEF ListFits
  <2>7. SpawnFits'  BY <2>1, <2>3, ZenonT(120) DEF SpawnFits
  <2>8. WorkFits'  BY <2>1, ZenonT(120) DEF WorkFits
  <2> QED BY <2>2, OutsideStep, <2>5, <2>6, <2>7, <2>8, ZenonT(120)
<1> QED BY <1>3, <1>4, ZenonT(120)
=============================================================================
