--------------------------- MODULE GcMutatorProofs ---------------------------
(***************************************************************************)
(* Every step of a thread outside a collection preserves the inductive     *)
(* invariant of GcInv: one lemma per action of GcMutator.                  *)
(*                                                                         *)
(* A proof first says what the action does to the variables of the         *)
(* invariant, then goes through the conjuncts of the invariant: those the  *)
(* action cannot disturb together, the others one by one.                  *)
(***************************************************************************)
EXTENDS GcMutator, GcInv

(* The time a leaf may take, on a busy machine too.                        *)
USE SMTT(120)

USE DEF NONE, INTERRUPT, UNABLE, STOLEN, PcTo, SpawnTo, StatusTo, StageTo, BretTo, ContTo,
        TargetTo, WorkTo, TodoTo, Appointed, Dismissed, IInv, ProtocolInv,
        AtRest, Joining, Opening, Beyond, Signalled, Working, Clearing, Voted, Finishing,
        Mutating, Ended, Running, At, Goto, SetStatus,
        voteVars, flagVars, listVars, workVars, retVars, signalVars, gcVars

(* A thread that is marked blocked moves on, still blocked.                *)
LEMMA RestStep ==
    ASSUME IInv, NEW t \in Threads, NEW l, MovesWithin(t, l, AtRest \ {"Gone"}) /\ UNCHANGED todo
    PROVE  ProtocolInv'
<1>1. /\ {pc[t], l} \subseteq AtRest \ {"Gone"} /\ PcTo(t, l)
      /\ UNCHANGED <<gc_start, gc_finish, gc_ack, gc_intrays_clearing, threads, mutex_threads,
          panic, gc_status, stage, gc_work, bret, cont, target, is_coordinator, todo, num_threads,
          to_signal, signalling>>
  BY ZenonT(120) DEF MovesWithin
<1>2. threads \subseteq Threads  BY ZenonT(120) DEF Typing, ThreadTypes
<1>3. StaysOutside  BY <1>1, ZenonT(120) DEF StaysOutside, Outside
<1>4. StatusFits'  BY <1>1, ZenonT(120) DEF StatusFits
<1>5. ListFits'  BY <1>1 DEF ListFits
<1>6. SpawnFits'  BY <1>1 DEF SpawnFits, Spawning
<1>7. WorkFits'  BY <1>1, ZenonT(120) DEF WorkFits
<1> QED BY <1>3, OutsideStep, <1>4, <1>5, <1>6, <1>7, ZenonT(120)

(* An allocation does not fit: nothing is decided yet.                     *)
LEMMA AllocateKeeps ==
    ASSUME IInv, NEW t \in Threads, Allocate(t)
    PROVE  IInv'
<1>1. Typing'
  <2>1. CounterTypes'  BY DEF Allocate, Typing, CounterTypes
  <2>2. FlagTypes'  BY ZenonT(120) DEF Allocate, Typing, FlagTypes
  <2>3. ThreadTypes'  BY ZenonT(120) DEF Allocate, Typing, ThreadTypes
  <2>4. PlaceTypes'  BY KnownPlaces, ZenonT(120) DEF Allocate, Typing, PlaceTypes
  <2> QED BY <2>1, <2>2, <2>3, <2>4, ZenonT(120) DEF Typing
<1>2. threads \subseteq Threads  BY ZenonT(120) DEF Typing, ThreadTypes
<1>3. /\ pc[t] = "Run" /\ PcTo(t, "Alloc")
      /\ UNCHANGED <<gc_start, gc_finish, gc_ack, gc_intrays_clearing, threads, mutex_threads,
          panic, gc_status, stage, gc_work, bret, cont, target, is_coordinator, todo, num_threads,
          to_signal, signalling>>
  BY ZenonT(120) DEF Allocate, Typing, FlagTypes, ThreadTypes, PlaceTypes
<1>4. StaysOutside  BY <1>3, ZenonT(120) DEF StaysOutside, Outside
<1>5. StatusFits' /\ ListFits' /\ SpawnFits'
  BY <1>3 DEF StatusFits, ListFits, SpawnFits, Spawning
<1>6. WorkFits'  BY <1>3, ZenonT(120) DEF WorkFits
<1> QED BY <1>4, OutsideStep, <1>5, <1>6, <1>1, ZenonT(120)

(* A thread that finds its status changed goes to join the run.            *)
LEMMA SyncPointKeeps ==
    ASSUME IInv, NEW t \in Threads, SyncPoint(t)
    PROVE  IInv'
<1>1. Typing'
  <2>1. CounterTypes'  BY ZenonT(120) DEF SyncPoint, Typing, CounterTypes
  <2>2. FlagTypes'  BY ZenonT(120) DEF SyncPoint, Typing, FlagTypes
  <2>3. ThreadTypes'  BY ZenonT(120) DEF SyncPoint, Typing, ThreadTypes
  <2>4. PlaceTypes'  BY KnownPlaces, ZenonT(120) DEF SyncPoint, Typing, PlaceTypes
  <2> QED BY <2>1, <2>2, <2>3, <2>4, ZenonT(120) DEF Typing
<1>2. threads \subseteq Threads  BY ZenonT(120) DEF Typing, ThreadTypes
<1>3. /\ pc[t] \in {"Run", "Poll"} /\ gc_status[t] # NONE /\ PcTo(t, "EnterInt")
      /\ UNCHANGED <<gc_start, gc_finish, gc_ack, gc_intrays_clearing, threads, mutex_threads,
          panic, gc_status, stage, gc_work, bret, cont, target, is_coordinator, todo, num_threads,
          to_signal, signalling>>
  BY ZenonT(120) DEF SyncPoint, Typing, FlagTypes, ThreadTypes, PlaceTypes
<1>4. StaysOutside  BY <1>3, ZenonT(120) DEF StaysOutside, Outside
<1>5. gc_start # 0  BY <1>3, InterruptedForRun, ZenonT(120) DEF StatusFits
<1>6. StatusFits' /\ ListFits' /\ SpawnFits'
  BY <1>3 DEF StatusFits, ListFits, SpawnFits, Spawning
<1>7. WorkFits'  BY <1>3, <1>5, ZenonT(120) DEF WorkFits
<1> QED BY <1>4, OutsideStep, <1>6, <1>7, <1>1, ZenonT(120)

(* A blocking operation starts.                                            *)
LEMMA BeginBlockingOpKeeps ==
    ASSUME IInv, NEW t \in Threads, BeginBlockingOp(t)
    PROVE  IInv'
<1>1. Typing'
  <2>1. CounterTypes'  BY ZenonT(120) DEF BeginBlockingOp, Typing, CounterTypes
  <2>2. FlagTypes'  BY ZenonT(120) DEF BeginBlockingOp, Typing, FlagTypes
  <2>3. ThreadTypes'  BY ZenonT(120) DEF BeginBlockingOp, Typing, ThreadTypes
  <2>4. PlaceTypes'  BY KnownPlaces, ZenonT(120) DEF BeginBlockingOp, Typing, PlaceTypes
  <2> QED BY <2>1, <2>2, <2>3, <2>4, ZenonT(120) DEF Typing
<1>2. threads \subseteq Threads  BY ZenonT(120) DEF Typing, ThreadTypes
<1>3. /\ pc[t] = "Run" /\ PcTo(t, "Block") /\ BretTo(t, "Blocked")
      /\ UNCHANGED <<gc_start, gc_finish, gc_ack, gc_intrays_clearing, threads, mutex_threads,
          panic, gc_status, stage, gc_work, cont, target, is_coordinator, todo, num_threads,
          to_signal, signalling>>
  BY ZenonT(120) DEF BeginBlockingOp, Typing, FlagTypes, ThreadTypes, PlaceTypes
<1>4. StaysOutside  BY <1>3, ZenonT(120) DEF StaysOutside, Outside
<1>5. StatusFits' /\ ListFits' /\ SpawnFits'
  BY <1>3 DEF StatusFits, ListFits, SpawnFits, Spawning
<1>6. WorkFits'  BY <1>3, ZenonT(120) DEF WorkFits
<1> QED BY <1>4, OutsideStep, <1>5, <1>6, <1>1, ZenonT(120)

(* A blocking operation is over: the thread is still marked blocked.       *)
LEMMA EndBlockingOpKeeps ==
    ASSUME IInv, NEW t \in Threads, EndBlockingOp(t)
    PROVE  IInv'
<1>1. Typing'
  <2>1. CounterTypes'  BY ZenonT(120) DEF EndBlockingOp, Typing, CounterTypes
  <2>2. FlagTypes'  BY ZenonT(120) DEF EndBlockingOp, Typing, FlagTypes
  <2>3. ThreadTypes'  BY ZenonT(120) DEF EndBlockingOp, Typing, ThreadTypes
  <2>4. PlaceTypes'  BY KnownPlaces, ZenonT(120) DEF EndBlockingOp, Typing, PlaceTypes
  <2> QED BY <2>1, <2>2, <2>3, <2>4, ZenonT(120) DEF Typing
<1>2. MovesWithin(t, "Unblock", AtRest \ {"Gone"}) /\ UNCHANGED todo
  BY ZenonT(120) DEF EndBlockingOp, MovesWithin, Typing, FlagTypes, ThreadTypes, PlaceTypes
<1> QED BY <1>2, RestStep, <1>1, ZenonT(120)

(* A child's context is created, marked blocked and not yet listed.        *)
LEMMA SpawnKeeps ==
    ASSUME IInv, NEW t \in Threads, NEW u \in Threads, Spawn(t, u)
    PROVE  IInv'
<1>1. Typing'
  <2>1. CounterTypes'  BY ZenonT(120) DEF Spawn, Typing, CounterTypes
  <2>2. FlagTypes'  BY ZenonT(120) DEF Spawn, Typing, FlagTypes
  <2>3. ThreadTypes'  BY ZenonT(120) DEF Spawn, Typing, ThreadTypes
  <2>4. PlaceTypes'  BY KnownPlaces, ZenonT(120) DEF Spawn, Typing, PlaceTypes
  <2> QED BY <2>1, <2>2, <2>3, <2>4, ZenonT(120) DEF Typing
<1>2. threads \subseteq Threads  BY ZenonT(120) DEF Typing, ThreadTypes
<1>3. /\ pc[t] = "Run" /\ stage[u] = "unstarted" /\ gc_status[u] = NONE /\ PcTo(t, "Spawn")
      /\ StatusTo(u, UNABLE) /\ TargetTo(t, u)
      /\ UNCHANGED <<gc_start, gc_finish, gc_ack, gc_intrays_clearing, threads, mutex_threads,
          panic, stage, gc_work, bret, cont, is_coordinator, todo, num_threads, to_signal,
          signalling>>
  BY ZenonT(120) DEF Spawn, Typing, FlagTypes, ThreadTypes, PlaceTypes
<1>4. StaysOutside  BY <1>3, ZenonT(120) DEF StaysOutside, Outside, ListFits
<1>5. pc[u] = "Unborn" /\ u \notin threads  BY <1>3, ZenonT(120) DEF ListFits
<1>6. ListFits'  BY <1>3 DEF ListFits
<1>7. StatusFits'  BY <1>3, <1>5 DEF StatusFits
<1>8. SpawnFits'  BY <1>3, <1>5 DEF SpawnFits, Spawning
<1>9. WorkFits'  BY <1>3, <1>5, ZenonT(120) DEF WorkFits
<1> QED BY <1>4, OutsideStep, <1>6, <1>7, <1>8, <1>9, <1>1, ZenonT(120)

(* The child is listed, or its parent joins a run first.                   *)
LEMMA SpawnInsertKeeps ==
    ASSUME IInv, NEW t \in Threads, SpawnInsert(t)
    PROVE  IInv'
<1>1. Typing'
  <2>1. CounterTypes'  BY ZenonT(120) DEF SpawnInsert, Typing, CounterTypes
  <2>2. FlagTypes'  BY ZenonT(120) DEF SpawnInsert, Typing, FlagTypes
  <2>3. ThreadTypes'  BY DEF SpawnInsert, SpawnFits, Spawning, Typing, ThreadTypes, Stages
  <2>4. PlaceTypes'  BY KnownPlaces DEF SpawnInsert, Typing, PlaceTypes, SpawnFits, Spawning
  <2> QED BY <2>1, <2>2, <2>3, <2>4, ZenonT(120) DEF Typing
<1>2. threads \subseteq Threads  BY ZenonT(120) DEF Typing, ThreadTypes
<1> SUFFICES ProtocolInv'  BY <1>1, ZenonT(120)
<1>3. CASE gc_status[t] = NONE
  <2>1. PICK u \in Threads :
        /\ pc[t] = "Spawn" /\ gc_status[t] = NONE /\ mutex_threads = NoThread /\ u = target[t]
        /\ threads' = threads \cup {u} /\ StageTo(u, "starting") /\ SpawnTo(t, u)
        /\ ContTo(u, "Start") /\ TargetTo(t, NoThread)
        /\ UNCHANGED <<gc_start, gc_finish, gc_ack, gc_intrays_clearing, mutex_threads, panic,
            gc_status, gc_work, bret, is_coordinator, todo, num_threads, to_signal, signalling>>
    BY <1>3 DEF SpawnInsert, SpawnFits, Spawning, Typing, FlagTypes, ThreadTypes, PlaceTypes
  <2>2. pc[u] = "Unborn" /\ gc_status[u] = UNABLE  BY <2>1, ZenonT(120) DEF SpawnFits, Spawning
  <2>3. t \in threads /\ stage[t] \notin Ended /\ u \notin threads  BY <2>1, <2>2, ZenonT(120) DEF ListFits
  <2>4. UNCHANGED <<Interrupted, Unready, Unfinished, Active, NobodyBeyond>>
    BY <2>1, <2>2 DEF Interrupted, Unready, Unfinished, Active, NobodyBeyond
  <2>5. OneCoordinator' /\ PanicFits'  BY <2>1 DEF OneCoordinator, PanicFits
  <2>6. StatusFits'  BY <2>1, <2>2, <2>3 DEF StatusFits
  <2>7. ListFits'  BY <2>1, <2>2, <2>3 DEF ListFits
  <2>8. SpawnFits'  BY <2>1, <2>2, <2>3 DEF SpawnFits, Spawning
  <2>9. OneOpener'  BY <2>1, <1>2, <2>2, <2>3 DEF OneOpener
  <2>10. OpenerAlone'  BY <2>1, <2>2, <2>3 DEF OpenerAlone
  <2>11. StartVotes'  BY <2>1, <2>4, <2>2, <2>3, ZenonT(120) DEF StartVotes
  <2>12. FinishVotesFit'  BY <2>1, <2>4, <2>2, <2>3 DEF FinishVotesFit
  <2>13. AcksFit'  BY <2>1, <2>4, <2>2, <2>3 DEF AcksFit
  <2>14. EverybodySignalled'
    BY <2>1, <1>2, <2>2, <2>3, ThreadsAssumption DEF EverybodySignalled, AllStopped, OneOpener
  <2>15. EverybodyStopped'
    BY <2>1, <1>2, <2>2, <2>3 DEF EverybodyStopped, AllStopped, Interrupted
  <2>16. CoordinatorFits'  BY <2>1, <2>4, <2>2, <2>3 DEF CoordinatorFits
  <2>17. ClearingFits'  BY <2>1, <2>4, <2>2, <2>3, ZenonT(120) DEF ClearingFits
  <2>18. InterruptedFits'  BY <2>1, <2>4, <2>2, <2>3, ZenonT(120) DEF InterruptedFits, Interrupted
  <2>19. WorkFits'  BY <2>1, <2>2, <2>3, ZenonT(120) DEF WorkFits
  <2> QED BY <2>5, <2>6, <2>7, <2>8, <2>9, <2>10, <2>11, <2>12, <2>13, <2>14, <2>15, <2>16, <2>17,
      <2>18, <2>19, ZenonT(120)
<1>4. CASE gc_status[t] # NONE
  <2>1. /\ pc[t] = "Spawn" /\ gc_status[t] # NONE /\ PcTo(t, "EnterInt") /\ ContTo(t, "Spawn")
        /\ UNCHANGED <<gc_start, gc_finish, gc_ack, gc_intrays_clearing, threads, mutex_threads,
            panic, gc_status, stage, gc_work, bret, target, is_coordinator, todo, num_threads,
            to_signal, signalling>>
    BY <1>4, ZenonT(120) DEF SpawnInsert, Typing, FlagTypes, ThreadTypes, PlaceTypes
  <2>2. StaysOutside  BY <2>1, ZenonT(120) DEF StaysOutside, Outside
  <2>3. gc_start # 0  BY <2>1, InterruptedForRun, ZenonT(120) DEF StatusFits
  <2>4. StatusFits' /\ ListFits' /\ SpawnFits'
    BY <2>1 DEF StatusFits, ListFits, SpawnFits, Spawning
  <2>5. WorkFits'  BY <2>1, <2>3, ZenonT(120) DEF WorkFits
  <2> QED BY <2>2, OutsideStep, <2>4, <2>5, ZenonT(120)
<1> QED BY <1>3, <1>4, ZenonT(120)

(* A new thread starts to run.                                             *)
LEMMA StartThreadKeeps ==
    ASSUME IInv, NEW t \in Threads, StartThread(t)
    PROVE  IInv'
<1>1. Typing'
  <2>1. CounterTypes'  BY ZenonT(120) DEF StartThread, Typing, CounterTypes
  <2>2. FlagTypes'  BY ZenonT(120) DEF StartThread, Typing, FlagTypes
  <2>3. ThreadTypes'  BY ZenonT(120) DEF StartThread, Typing, ThreadTypes, Stages
  <2>4. PlaceTypes'  BY KnownPlaces, ZenonT(120) DEF StartThread, Typing, PlaceTypes
  <2> QED BY <2>1, <2>2, <2>3, <2>4, ZenonT(120) DEF Typing
<1>2. threads \subseteq Threads  BY ZenonT(120) DEF Typing, ThreadTypes
<1>3. PICK l \in {"Run", "Poll"} :
      /\ pc[t] = "Start" /\ PcTo(t, l) /\ StageTo(t, "started")
      /\ UNCHANGED <<gc_start, gc_finish, gc_ack, gc_intrays_clearing, threads, mutex_threads,
          panic, gc_status, gc_work, bret, cont, target, is_coordinator, todo, num_threads,
          to_signal, signalling>>
  BY ZenonT(120) DEF StartThread, Typing, FlagTypes, ThreadTypes, PlaceTypes
<1>4. StaysOutside  BY <1>3, ZenonT(120) DEF StaysOutside, Outside, ListFits
<1>5. StatusFits' /\ ListFits' /\ SpawnFits'
  BY <1>3 DEF StatusFits, ListFits, SpawnFits, Spawning
<1>6. WorkFits'  BY <1>3, ZenonT(120) DEF WorkFits
<1> QED BY <1>4, OutsideStep, <1>5, <1>6, <1>1, ZenonT(120)

(* A thread's code has returned.                                           *)
LEMMA ExitThreadKeeps ==
    ASSUME IInv, NEW t \in Threads, ExitThread(t)
    PROVE  IInv'
<1>1. Typing'
  <2>1. CounterTypes'  BY ZenonT(120) DEF ExitThread, Typing, CounterTypes
  <2>2. FlagTypes'  BY ZenonT(120) DEF ExitThread, Typing, FlagTypes
  <2>3. ThreadTypes'  BY ZenonT(120) DEF ExitThread, Typing, ThreadTypes, Stages
  <2>4. PlaceTypes'  BY KnownPlaces, ZenonT(120) DEF ExitThread, Typing, PlaceTypes
  <2> QED BY <2>1, <2>2, <2>3, <2>4, ZenonT(120) DEF Typing
<1>2. threads \subseteq Threads  BY ZenonT(120) DEF Typing, ThreadTypes
<1>3. /\ pc[t] = "Run" /\ PcTo(t, "Block") /\ StageTo(t, "exited") /\ BretTo(t, "Gone")
      /\ UNCHANGED <<gc_start, gc_finish, gc_ack, gc_intrays_clearing, threads, mutex_threads,
          panic, gc_status, gc_work, cont, target, is_coordinator, todo, num_threads, to_signal,
          signalling>>
  BY ZenonT(120) DEF ExitThread, Typing, FlagTypes, ThreadTypes, PlaceTypes
<1>4. StaysOutside  BY <1>3, ZenonT(120) DEF StaysOutside, Outside, ListFits
<1>5. StatusFits' /\ ListFits' /\ SpawnFits'
  BY <1>3 DEF StatusFits, ListFits, SpawnFits, Spawning
<1>6. WorkFits'  BY <1>3, ZenonT(120) DEF WorkFits
<1> QED BY <1>4, OutsideStep, <1>5, <1>6, <1>1, ZenonT(120)

(* The main thread wants to join another.                                  *)
LEMMA JoinKeeps ==
    ASSUME IInv, NEW t \in Threads, NEW u \in Threads, Join(t, u)
    PROVE  IInv'
<1>1. Typing'
  <2>1. CounterTypes'  BY DEF Join, Typing, CounterTypes
  <2>2. FlagTypes'  BY ZenonT(120) DEF Join, Typing, FlagTypes
  <2>3. ThreadTypes'  BY ZenonT(120) DEF Join, Typing, ThreadTypes
  <2>4. PlaceTypes'  BY KnownPlaces, ZenonT(120) DEF Join, Typing, PlaceTypes
  <2> QED BY <2>1, <2>2, <2>3, <2>4, ZenonT(120) DEF Typing
<1>2. threads \subseteq Threads  BY ZenonT(120) DEF Typing, ThreadTypes
<1>3. /\ pc[t] = "Run" /\ PcTo(t, "Block") /\ BretTo(t, "JoinCheck") /\ ContTo(t, "Alloc")
      /\ TargetTo(t, u)
      /\ UNCHANGED <<gc_start, gc_finish, gc_ack, gc_intrays_clearing, threads, mutex_threads,
          panic, gc_status, stage, gc_work, is_coordinator, todo, num_threads, to_signal,
          signalling>>
  BY ZenonT(120) DEF Join, Typing, FlagTypes, ThreadTypes, PlaceTypes
<1>4. StaysOutside  BY <1>3, ZenonT(120) DEF StaysOutside, Outside
<1>5. StatusFits' /\ ListFits' /\ SpawnFits'
  BY <1>3 DEF StatusFits, ListFits, SpawnFits, Spawning
<1>6. WorkFits'  BY <1>3, ZenonT(120) DEF WorkFits
<1> QED BY <1>4, OutsideStep, <1>5, <1>6, <1>1, ZenonT(120)

(* The thread to join has ended or has to be waited for.                   *)
LEMMA JoinCheckKeeps ==
    ASSUME IInv, NEW t \in Threads, JoinCheck(t)
    PROVE  IInv'
<1>1. Typing'
  <2>1. CounterTypes'  BY ZenonT(120) DEF JoinCheck, Typing, CounterTypes
  <2>2. FlagTypes'  BY ZenonT(120) DEF JoinCheck, Typing, FlagTypes
  <2>3. ThreadTypes'  BY ZenonT(120) DEF JoinCheck, Typing, ThreadTypes
  <2>4. PlaceTypes'  BY KnownPlaces, ZenonT(120) DEF JoinCheck, Typing, PlaceTypes
  <2> QED BY <2>1, <2>2, <2>3, <2>4, ZenonT(120) DEF Typing
<1> SUFFICES ProtocolInv'  BY <1>1, ZenonT(120)
<1>2. CASE stage[target[t]] \in Ended
  <2>1. MovesWithin(t, "Unblock", AtRest \ {"Gone"}) /\ UNCHANGED todo
    BY <1>2, ZenonT(120) DEF JoinCheck, MovesWithin, Typing, FlagTypes, ThreadTypes, PlaceTypes
  <2> QED BY <2>1, RestStep, ZenonT(120)
<1>3. CASE stage[target[t]] \notin Ended
  <2>1. MovesWithin(t, "ThreadJoin", AtRest \ {"Gone"}) /\ UNCHANGED todo
    BY <1>3, ZenonT(120) DEF JoinCheck, MovesWithin, Typing, FlagTypes, ThreadTypes, PlaceTypes
  <2> QED BY <2>1, RestStep, ZenonT(120)
<1> QED BY <1>2, <1>3, ZenonT(120)

(* uv_thread_join returns.                                                 *)
LEMMA ThreadJoinKeeps ==
    ASSUME IInv, NEW t \in Threads, ThreadJoin(t)
    PROVE  IInv'
<1>1. Typing'
  <2>1. CounterTypes'  BY ZenonT(120) DEF ThreadJoin, Typing, CounterTypes
  <2>2. FlagTypes'  BY ZenonT(120) DEF ThreadJoin, Typing, FlagTypes
  <2>3. ThreadTypes'  BY ZenonT(120) DEF ThreadJoin, Typing, ThreadTypes
  <2>4. PlaceTypes'  BY KnownPlaces, ZenonT(120) DEF ThreadJoin, Typing, PlaceTypes
  <2> QED BY <2>1, <2>2, <2>3, <2>4, ZenonT(120) DEF Typing
<1>2. MovesWithin(t, "Unblock", AtRest \ {"Gone"}) /\ UNCHANGED todo
  BY ZenonT(120) DEF ThreadJoin, MovesWithin, Typing, FlagTypes, ThreadTypes, PlaceTypes
<1> QED BY <1>2, RestStep, <1>1, ZenonT(120)

(* The event loop thread goes back into uv_run.                            *)
LEMMA LoopPollKeeps ==
    ASSUME IInv, NEW t \in Threads, LoopPoll(t)
    PROVE  IInv'
<1>1. Typing'
  <2>1. CounterTypes'  BY ZenonT(120) DEF LoopPoll, Typing, CounterTypes
  <2>2. FlagTypes'  BY ZenonT(120) DEF LoopPoll, Typing, FlagTypes
  <2>3. ThreadTypes'  BY ZenonT(120) DEF LoopPoll, Typing, ThreadTypes
  <2>4. PlaceTypes'  BY KnownPlaces, ZenonT(120) DEF LoopPoll, Typing, PlaceTypes
  <2> QED BY <2>1, <2>2, <2>3, <2>4, ZenonT(120) DEF Typing
<1>2. threads \subseteq Threads  BY ZenonT(120) DEF Typing, ThreadTypes
<1>3. /\ pc[t] \in {"Run", "Poll"} /\ PcTo(t, "Poll")
      /\ UNCHANGED <<gc_start, gc_finish, gc_ack, gc_intrays_clearing, threads, mutex_threads,
          panic, gc_status, stage, gc_work, bret, cont, target, is_coordinator, todo, num_threads,
          to_signal, signalling>>
  BY ZenonT(120) DEF LoopPoll, Typing, FlagTypes, ThreadTypes, PlaceTypes
<1>4. StaysOutside  BY <1>3, ZenonT(120) DEF StaysOutside, Outside
<1>5. StatusFits' /\ ListFits' /\ SpawnFits'
  BY <1>3 DEF StatusFits, ListFits, SpawnFits, Spawning
<1>6. WorkFits'  BY <1>3, ZenonT(120) DEF WorkFits
<1> QED BY <1>4, OutsideStep, <1>5, <1>6, <1>1, ZenonT(120)

(* The event loop thread is woken.                                         *)
LEMMA AsyncHandlerKeeps ==
    ASSUME IInv, NEW t \in Threads, AsyncHandler(t)
    PROVE  IInv'
<1>1. Typing'
  <2>1. CounterTypes'  BY ZenonT(120) DEF AsyncHandler, Typing, CounterTypes
  <2>2. FlagTypes'  BY ZenonT(120) DEF AsyncHandler, Typing, FlagTypes
  <2>3. ThreadTypes'  BY ZenonT(120) DEF AsyncHandler, Typing, ThreadTypes
  <2>4. PlaceTypes'  BY KnownPlaces, ZenonT(120) DEF AsyncHandler, Typing, PlaceTypes
  <2> QED BY <2>1, <2>2, <2>3, <2>4, ZenonT(120) DEF Typing
<1>2. threads \subseteq Threads  BY ZenonT(120) DEF Typing, ThreadTypes
<1> SUFFICES ProtocolInv'  BY <1>1, ZenonT(120)
<1>3. CASE gc_status[t] # NONE
  <2>1. /\ pc[t] \in {"Run", "Poll"} /\ gc_status[t] # NONE /\ PcTo(t, "EnterInt")
        /\ UNCHANGED <<gc_start, gc_finish, gc_ack, gc_intrays_clearing, threads, mutex_threads,
            panic, gc_status, stage, gc_work, bret, cont, target, is_coordinator, todo,
            num_threads, to_signal, signalling>>
    BY <1>3, ZenonT(120) DEF AsyncHandler, Typing, FlagTypes, ThreadTypes, PlaceTypes
  <2>2. StaysOutside  BY <2>1, ZenonT(120) DEF StaysOutside, Outside
  <2>3. gc_start # 0  BY <2>1, InterruptedForRun, ZenonT(120) DEF StatusFits
  <2>4. StatusFits' /\ ListFits' /\ SpawnFits'
    BY <2>1 DEF StatusFits, ListFits, SpawnFits, Spawning
  <2>5. WorkFits'  BY <2>1, <2>3, ZenonT(120) DEF WorkFits
  <2> QED BY <2>2, OutsideStep, <2>4, <2>5, ZenonT(120)
<1>4. CASE gc_status[t] = NONE
  <2>1. /\ pc[t] \in {"Run", "Poll"} /\ PcTo(t, "Run")
        /\ UNCHANGED <<gc_start, gc_finish, gc_ack, gc_intrays_clearing, threads, mutex_threads,
            panic, gc_status, stage, gc_work, bret, cont, target, is_coordinator, todo,
            num_threads, to_signal, signalling>>
    BY <1>4, ZenonT(120) DEF AsyncHandler, Typing, FlagTypes, ThreadTypes, PlaceTypes
  <2>2. StaysOutside  BY <2>1, ZenonT(120) DEF StaysOutside, Outside
  <2>3. StatusFits' /\ ListFits' /\ SpawnFits'
    BY <2>1 DEF StatusFits, ListFits, SpawnFits, Spawning
  <2>4. WorkFits'  BY <2>1, ZenonT(120) DEF WorkFits
  <2> QED BY <2>2, OutsideStep, <2>3, <2>4, ZenonT(120)
<1> QED BY <1>3, <1>4, ZenonT(120)

(* Work is queued for the event loop.                                      *)
LEMMA QueueWorkKeeps ==
    ASSUME IInv, NEW t \in Threads, QueueWork(t)
    PROVE  IInv'
<1>1. Typing'
  <2>1. CounterTypes'  BY ZenonT(120) DEF QueueWork, Typing, CounterTypes
  <2>2. FlagTypes'  BY ZenonT(120) DEF QueueWork, Typing, FlagTypes
  <2>3. ThreadTypes'  BY ZenonT(120) DEF QueueWork, Typing, ThreadTypes
  <2>4. PlaceTypes'  BY KnownPlaces, ZenonT(120) DEF QueueWork, Typing, PlaceTypes
  <2> QED BY <2>1, <2>2, <2>3, <2>4, ZenonT(120) DEF Typing
<1>2. Quiet  BY ZenonT(120) DEF QueueWork, Quiet, Typing, FlagTypes, ThreadTypes, PlaceTypes
<1> QED BY <1>2, QuietStep, <1>1, ZenonT(120)

(* The status is exchanged for UNABLE, or a run is under way.              *)
LEMMA BlockKeeps ==
    ASSUME IInv, NEW t \in Threads, Block(t)
    PROVE  IInv'
<1>1. Typing'
  <2>1. CounterTypes'  BY ZenonT(120) DEF Block, Typing, CounterTypes
  <2>2. FlagTypes'  BY ZenonT(120) DEF Block, Typing, FlagTypes
  <2>3. ThreadTypes'  BY ZenonT(120) DEF Block, Typing, ThreadTypes
  <2>4. PlaceTypes'  BY KnownPlaces DEF Block, Typing, PlaceTypes
  <2> QED BY <2>1, <2>2, <2>3, <2>4, ZenonT(120) DEF Typing
<1>2. threads \subseteq Threads  BY ZenonT(120) DEF Typing, ThreadTypes
<1> SUFFICES ProtocolInv'  BY <1>1, ZenonT(120)
<1>3. CASE gc_status[t] = NONE
  <2>1. /\ pc[t] = "Block" /\ gc_status[t] = NONE /\ bret[t] \in {"Blocked", "JoinCheck", "Gone"}
        /\ PcTo(t, bret[t]) /\ BretTo(t, "none") /\ StatusTo(t, UNABLE)
        /\ UNCHANGED <<gc_start, gc_finish, gc_ack, gc_intrays_clearing, threads, mutex_threads,
            panic, stage, gc_work, cont, target, is_coordinator, todo, num_threads, to_signal,
            signalling>>
    BY <1>3 DEF Block, Typing, FlagTypes, ThreadTypes, PlaceTypes
  <2>2. StaysOutside  BY <2>1, ZenonT(120) DEF StaysOutside, Outside
  <2>3. StatusFits'  BY <2>1 DEF StatusFits
  <2>4. ListFits'  BY <2>1 DEF ListFits
  <2>5. SpawnFits'  BY <2>1 DEF SpawnFits, Spawning
  <2>6. WorkFits'  BY <2>1, ZenonT(120) DEF WorkFits
  <2> QED BY <2>2, OutsideStep, <2>3, <2>4, <2>5, <2>6, ZenonT(120)
<1>4. CASE gc_status[t] # NONE
  <2>1. /\ pc[t] = "Block" /\ gc_status[t] # NONE /\ PcTo(t, "BlockCheck")
        /\ UNCHANGED <<gc_start, gc_finish, gc_ack, gc_intrays_clearing, threads, mutex_threads,
            panic, gc_status, stage, gc_work, bret, cont, target, is_coordinator, todo,
            num_threads, to_signal, signalling>>
    BY <1>4, ZenonT(120) DEF Block, Typing, FlagTypes, ThreadTypes, PlaceTypes
  <2>2. StaysOutside  BY <2>1, ZenonT(120) DEF StaysOutside, Outside
  <2>3. ListFits' /\ SpawnFits'  BY <2>1 DEF ListFits, SpawnFits, Spawning
  <2>4. StatusFits'  BY <2>1, ZenonT(120) DEF StatusFits
  <2>5. WorkFits'  BY <2>1, ZenonT(120) DEF WorkFits
  <2> QED BY <2>2, OutsideStep, <2>3, <2>4, <2>5, ZenonT(120)
<1> QED BY <1>3, <1>4, ZenonT(120)

(* A thread that could not block was interrupted: it joins the run, and no *)
(* panic.                                                                  *)
LEMMA BlockCheckKeeps ==
    ASSUME IInv, NEW t \in Threads, BlockCheck(t)
    PROVE  IInv'
<1>1. gc_status[t] = INTERRUPT  BY ZenonT(120) DEF BlockCheck, StatusFits
<1>2. Typing'
  <2>1. CounterTypes'  BY <1>1, ZenonT(120) DEF BlockCheck, SUSPEND_REQUEST, Typing, CounterTypes
  <2>2. FlagTypes'  BY <1>1, ZenonT(120) DEF BlockCheck, SUSPEND_REQUEST, Typing, FlagTypes
  <2>3. ThreadTypes'  BY <1>1 DEF BlockCheck, SUSPEND_REQUEST, Typing, ThreadTypes, Panics
  <2>4. PlaceTypes'  BY <1>1, KnownPlaces DEF BlockCheck, SUSPEND_REQUEST, Typing, PlaceTypes
  <2> QED BY <2>1, <2>2, <2>3, <2>4, ZenonT(120) DEF Typing
<1>3. threads \subseteq Threads  BY ZenonT(120) DEF Typing, ThreadTypes
<1>4. /\ pc[t] = "BlockCheck" /\ PcTo(t, "EnterInt")
      /\ UNCHANGED <<gc_start, gc_finish, gc_ack, gc_intrays_clearing, threads, mutex_threads,
          panic, gc_status, stage, gc_work, bret, cont, target, is_coordinator, todo, num_threads,
          to_signal, signalling>>
  BY <1>1 DEF BlockCheck, SUSPEND_REQUEST, Typing, FlagTypes, ThreadTypes, PlaceTypes
<1>5. StaysOutside  BY <1>4, ZenonT(120) DEF StaysOutside, Outside
<1>6. gc_start # 0  BY <1>4, InterruptedForRun, ZenonT(120) DEF StatusFits
<1>7. StatusFits' /\ SpawnFits'  BY <1>4 DEF StatusFits, SpawnFits, Spawning
<1>8. ListFits'  BY <1>4 DEF ListFits, StatusFits
<1>9. WorkFits'  BY <1>4, <1>6, ZenonT(120) DEF WorkFits
<1> QED BY <1>5, OutsideStep, <1>7, <1>8, <1>9, <1>2, ZenonT(120)

(* The status is exchanged for NONE, unless the thread's work is stolen.   *)
LEMMA UnblockKeeps ==
    ASSUME IInv, NEW t \in Threads, Unblock(t)
    PROVE  IInv'
<1>1. Typing'
  <2>1. CounterTypes'  BY ZenonT(120) DEF Unblock, Return, Typing, CounterTypes
  <2>2. FlagTypes'  BY ZenonT(120) DEF Unblock, Return, Typing, FlagTypes
  <2>3. ThreadTypes'  BY ZenonT(120) DEF Unblock, Return, Typing, ThreadTypes
  <2>4. PlaceTypes'  BY KnownPlaces DEF Unblock, Return, Typing, PlaceTypes
  <2> QED BY <2>1, <2>2, <2>3, <2>4, ZenonT(120) DEF Typing
<1>2. threads \subseteq Threads  BY ZenonT(120) DEF Typing, ThreadTypes
<1> SUFFICES ProtocolInv'  BY <1>1, ZenonT(120)
<1>3. CASE gc_status[t] = UNABLE /\ bret[t] = "none"
  <2>1. PICK l \in {"Run", "Start", "Spawn", "Alloc"} :
        /\ pc[t] = "Unblock" /\ gc_status[t] = UNABLE /\ l = cont[t] /\ PcTo(t, l)
        /\ StatusTo(t, NONE) /\ ContTo(t, "Run")
        /\ UNCHANGED <<gc_start, gc_finish, gc_ack, gc_intrays_clearing, threads, mutex_threads,
            panic, stage, gc_work, bret, target, is_coordinator, todo, num_threads, to_signal,
            signalling>>
    BY <1>3 DEF Unblock, Return, Typing, FlagTypes, ThreadTypes, PlaceTypes
  <2>2. StaysOutside  BY <2>1, ZenonT(120) DEF StaysOutside, Outside
  <2>3. t \in threads /\ stage[t] \notin Ended \cup {"unstarted"}  BY <2>1, ZenonT(120) DEF ListFits
  <2>4. \A x \in Threads : (Spawning(x)' <=> Spawning(x)) /\ (Spawning(x) => target[x] # t)
    BY <2>1, ZenonT(120) DEF SpawnFits, Spawning
  <2>5. StatusFits'  BY <2>1, ZenonT(120) DEF StatusFits
  <2>6. ListFits'  BY <2>1, <2>3 DEF ListFits
  <2>7. SpawnFits'  BY <2>1, <2>4, ZenonT(120) DEF SpawnFits
  <2>8. WorkFits'  BY <2>1, ZenonT(120) DEF WorkFits
  <2> QED BY <2>2, OutsideStep, <2>5, <2>6, <2>7, <2>8, ZenonT(120)
<1>4. CASE gc_status[t] = UNABLE /\ bret[t] # "none"
  <2>1. /\ pc[t] = "Unblock" /\ gc_status[t] = UNABLE /\ PcTo(t, "Block") /\ StatusTo(t, NONE)
        /\ UNCHANGED <<gc_start, gc_finish, gc_ack, gc_intrays_clearing, threads, mutex_threads,
            panic, stage, gc_work, bret, cont, target, is_coordinator, todo, num_threads,
            to_signal, signalling>>
    BY <1>4, ZenonT(120) DEF Unblock, Return, Typing, FlagTypes, ThreadTypes, PlaceTypes
  <2>2. StaysOutside  BY <2>1, ZenonT(120) DEF StaysOutside, Outside
  <2>3. \A x \in Threads : (Spawning(x)' <=> Spawning(x)) /\ (Spawning(x) => target[x] # t)
    BY <2>1, ZenonT(120) DEF SpawnFits, Spawning
  <2>4. StatusFits' /\ ListFits'  BY <2>1 DEF StatusFits, ListFits
  <2>5. SpawnFits'  BY <2>1, <2>3 DEF SpawnFits
  <2>6. WorkFits'  BY <2>1, ZenonT(120) DEF WorkFits
  <2> QED BY <2>2, OutsideStep, <2>4, <2>5, <2>6, ZenonT(120)
<1>5. CASE gc_status[t] # UNABLE
  <2>1. MovesWithin(t, "UnblockCheck", AtRest \ {"Gone"}) /\ UNCHANGED todo
    BY <1>5, ZenonT(120) DEF Unblock, Return, MovesWithin, Typing, FlagTypes, ThreadTypes, PlaceTypes
  <2> QED BY <2>1, RestStep, ZenonT(120)
<1> QED BY <1>3, <1>4, <1>5, ZenonT(120)

(* A thread whose work is stolen waits for the end of the run.             *)
LEMMA UnblockCheckKeeps ==
    ASSUME IInv, NEW t \in Threads, UnblockCheck(t)
    PROVE  IInv'
<1>1. Typing'
  <2>1. CounterTypes'  BY ZenonT(120) DEF UnblockCheck, Sleep, Typing, CounterTypes
  <2>2. FlagTypes'  BY ZenonT(120) DEF UnblockCheck, Sleep, Typing, FlagTypes
  <2>3. ThreadTypes'  BY ZenonT(120) DEF UnblockCheck, Sleep, Typing, ThreadTypes
  <2>4. PlaceTypes'  BY KnownPlaces, ZenonT(120) DEF UnblockCheck, Sleep, Typing, PlaceTypes, CondVars, Awake
  <2> QED BY <2>1, <2>2, <2>3, <2>4, ZenonT(120) DEF Typing
<1> SUFFICES ProtocolInv'  BY <1>1, ZenonT(120)
<1>2. CASE in_gc
  <2>1. MovesWithin(t, "Unblock", AtRest \ {"Gone"}) /\ UNCHANGED todo
    BY <1>2, ZenonT(120) DEF UnblockCheck, Sleep, MovesWithin, Typing, FlagTypes, ThreadTypes, PlaceTypes
  <2> QED BY <2>1, RestStep, ZenonT(120)
<1>3. CASE ~in_gc
  <2>1. MovesWithin(t, "UnblockSuspend", AtRest \ {"Gone"}) /\ UNCHANGED todo
    BY <1>3, ZenonT(120) DEF UnblockCheck, Sleep, MovesWithin, Typing, FlagTypes, ThreadTypes, PlaceTypes
  <2> QED BY <2>1, RestStep, ZenonT(120)
<1> QED BY <1>2, <1>3, ZenonT(120)

(* No suspension is requested: the thread tries to unblock again.          *)
LEMMA UnblockSuspendKeeps ==
    ASSUME IInv, NEW t \in Threads, UnblockSuspend(t)
    PROVE  IInv'
<1>1. gc_status[t] # NONE /\ SuspendBits(gc_status[t]) = NONE
  BY StatusBits DEF UnblockSuspend, StatusFits
<1>2. /\ pc[t] = "UnblockSuspend" /\ Goto(t, "Unblock")
      /\ UNCHANGED <<gcVars, listVars, retVars, gc_status, wakeup, panic, sleeping, allocs>>
  BY <1>1 DEF UnblockSuspend, UnblockedAlready, SUSPEND_REQUEST
<1>3. Typing'
  <2>1. CounterTypes'  BY <1>1, <1>2, ZenonT(120) DEF Typing, CounterTypes
  <2>2. FlagTypes'  BY <1>1, <1>2, ZenonT(120) DEF Typing, FlagTypes
  <2>3. ThreadTypes'  BY <1>1, <1>2, ZenonT(120) DEF Typing, ThreadTypes
  <2>4. PlaceTypes'  BY <1>1, <1>2, KnownPlaces, ZenonT(120) DEF Typing, PlaceTypes
  <2> QED BY <2>1, <2>2, <2>3, <2>4, ZenonT(120) DEF Typing
<1>4. MovesWithin(t, "Unblock", AtRest \ {"Gone"}) /\ UNCHANGED todo
  BY <1>1, <1>2, ZenonT(120) DEF MovesWithin, Typing, FlagTypes, ThreadTypes, PlaceTypes
<1> QED BY <1>4, RestStep, <1>3, ZenonT(120)
=============================================================================
