-------------------------------- MODULE GcInv --------------------------------
(***************************************************************************)
(* The inductive invariant behind the stop-the-world protocol.  It ties    *)
(* the three vote counters to the threads that still have to vote, and the *)
(* status of every thread to where it is, phase by phase of a run.  The    *)
(* proofs that the steps of GcMutator, GcOpening and GcRun preserve it are *)
(* in modules of their own; what they share is here.                       *)
(***************************************************************************)
EXTENDS GcState, TLAPS

(* The time a leaf may take, on a busy machine too.                        *)
USE SMTT(120)

(* The types, without the debugger: the suspend bits stay clear.           *)
CounterTypes ==
    /\ gc_start \in Int /\ gc_finish \in Int /\ gc_ack \in Int /\ num_threads \in Int
    /\ allocs \in Nat /\ passes \in Nat

FlagTypes ==
    /\ gc_intrays_clearing \in BOOLEAN /\ gc_completed \in BOOLEAN /\ in_gc \in BOOLEAN
    /\ wakeup \in BOOLEAN /\ is_coordinator \in [Threads -> BOOLEAN]
    /\ did_work \in [Threads -> BOOLEAN] /\ gc_in_tray \in [Threads -> BOOLEAN]

ThreadTypes ==
    /\ threads \in SUBSET Threads /\ mutex_threads \in Threads \cup {NoThread}
    /\ to_signal \in SUBSET Threads /\ signalling \in Threads \cup {NoThread}
    /\ gc_status \in [Threads -> {NONE, INTERRUPT, UNABLE, STOLEN}]
    /\ stage \in [Threads -> Stages]
    /\ gc_work \in [Threads -> SUBSET Threads] /\ todo \in [Threads -> SUBSET Threads]
    /\ had_suspend_request = NONE /\ panic \in Panics

Places == Labels \ {"UnblockRequested", "TellWait", "TellCheck"}
PlaceTypes ==
    /\ pc \in [Threads -> Places]
    /\ sleeping \in [Threads -> CondVars \cup {Awake}]
    /\ bret \in [Threads -> {"none", "Blocked", "JoinCheck", "Gone"}]
    /\ cont \in [Threads -> {"Run", "Start", "Spawn", "Alloc"}]
    /\ nested = [t \in Threads |-> 0] /\ target \in [Threads -> Threads \cup {NoThread}]
    /\ \A t \in Threads : pc[t] \in {"Block", "BlockCheck"} => bret[t] # "none"

Typing == CounterTypes /\ FlagTypes /\ ThreadTypes /\ PlaceTypes

(* Where a thread is marked blocked, has yet to vote for the finish, has   *)
(* voted but not acknowledged; and the phases of a coordinator that is     *)
(* alone (Beyond) and that has signalled every thread (Signalled).         *)
AtRest    == {"Blocked", "JoinCheck", "ThreadJoin", "Unblock", "UnblockCheck",
              "UnblockSuspend", "Gone"}
Working   == {"Collect", "InTrays", "VoteFinish"}
Clearing  == {"ClearIntrays", "Finalize", "ClearIntrays2", "IntraysDone"}
Voted     == Clearing \cup Finishing
Beyond    == Opening \ {"AckSpin"}
Signalled == {"AddVotes", "WakeLoop", "WaitReady", "StoreVotes", "SignalStart"}

Interrupted == {t \in Threads : gc_status[t] = INTERRUPT}
Unready     == {t \in Threads : gc_status[t] = INTERRUPT /\ pc[t] # "WaitStart"}
Unfinished  == {t \in Threads : pc[t] \in Working \cup {"WaitStart"}}
Active      == {t \in Threads : pc[t] \in Working \cup Voted \cup {"WaitStart"}}
NobodyBeyond == \A c \in Threads : pc[c] \notin Beyond

(* The status word and the list of threads agree with where a thread is.   *)
StatusFits ==
    \A t \in Threads :
        /\ pc[t] \in AtRest => gc_status[t] \in {UNABLE, STOLEN}
        /\ pc[t] = "Unborn" => gc_status[t] \in {NONE, UNABLE}
        /\ pc[t] \notin AtRest \cup {"Unborn"} => gc_status[t] \in {NONE, INTERRUPT}
        /\ pc[t] = "BlockCheck" => gc_status[t] = INTERRUPT

ListFits ==
    \A t \in Threads :
        /\ t \in threads <=> pc[t] # "Unborn"
        /\ stage[t] = "unstarted" <=> pc[t] = "Unborn"
        /\ stage[t] \in Ended =>
              \/ pc[t] = "Gone"
              \/ /\ bret[t] = "Gone"
                 /\ pc[t] \in {"Block", "BlockCheck", "ClearAck", "ClearInGc"} \cup Joining
                                 \cup Working \cup Voted
        /\ stage[t] \in Ended /\ pc[t] \in {"EnterInt", "WaitCount"} =>
              gc_status[t] = INTERRUPT
        /\ gc_status[t] = INTERRUPT => stage[t] \in {"starting", "started", "exited"}

(* A thread that is being spawned has one parent, which knows it.          *)
Spawning(t) == pc[t] = "Spawn" \/ cont[t] = "Spawn"
SpawnFits ==
    /\ \A t \in Threads : pc[t] \in Mutating \cup {"Poll"} => cont[t] = "Run"
    /\ \A t \in Threads : Spawning(t) =>
          /\ target[t] \in Threads /\ pc[target[t]] = "Unborn"
          /\ gc_status[target[t]] = UNABLE
    /\ \A t, u \in Threads : Spawning(t) /\ Spawning(u) /\ target[t] = target[u] => t = u

(* One thread opens a run; it alone holds mutex_threads, while it signals. *)
OneOpener ==
    /\ \A c, d \in Threads : pc[c] \in Opening /\ pc[d] \in Opening => c = d
    /\ gc_start = 0 <=> \A c \in Threads : pc[c] \notin Opening
    /\ \A c \in Threads : mutex_threads = c <=> pc[c] \in {"Signal", "SignalOne"}
    /\ \A c \in Threads : pc[c] = "SignalOne" =>
          /\ signalling \in threads \ {c}
          /\ stage[signalling] \in {"starting", "started", "exited"}

(* The start votes, and what the coordinator has counted so far.           *)
StartVotes ==
    \A c \in Threads :
        /\ pc[c] \in Opening \ {"WakeLoop", "WaitReady"} => gc_start = 1
        /\ pc[c] \in Signalled \ {"AddVotes"} => gc_start = 1 + Cardinality(Unready)
        /\ pc[c] \in Beyond => num_threads = Cardinality(Interrupted)

(* Who may be where while a run is being opened.                           *)
OpenerAlone ==
    \A c \in Threads :
        /\ pc[c] \in Opening \ (Signalled \ {"AddVotes"}) =>
              \A t \in Threads : pc[t] # "WaitStart"
        /\ pc[c] \in Opening => \A t \in Threads : pc[t] \notin Working
        /\ pc[c] \in Beyond =>
              /\ gc_status[c] = NONE
              /\ \A t \in Threads :
                    /\ pc[t] \notin Voted \cup {"ClearAck"}
                    /\ pc[t] = "WaitStart" => gc_status[t] = INTERRUPT

(* Once signalled, every listed thread takes part, is stolen or has ended. *)
AllStopped(c) ==
    \A t \in threads \ {c} : gc_status[t] \in {INTERRUPT, STOLEN} \/ stage[t] \in Ended
EverybodySignalled ==
    \A c \in Threads :
        /\ pc[c] \in {"Signal", "SignalOne"} =>
              \A t \in threads \ (to_signal \cup {c}) :
                  \/ gc_status[t] \in {INTERRUPT, STOLEN} \/ stage[t] \in Ended
                  \/ pc[c] = "SignalOne" /\ t = signalling
        /\ pc[c] \in Signalled => AllStopped(c)
EverybodyStopped ==
    \A c \in Threads :
        is_coordinator[c] /\ pc[c] \in Working \cup Clearing \cup {"WaitFinish"} =>
            /\ AllStopped(c)
            /\ \A t \in Interrupted \ {c} :
                  pc[t] \in Working \cup {"WaitStart", "WaitFinish", "WaitIntrays"}

(* The finish votes and the acknowledgements count who is missing.         *)
FinishVotesFit ==
    /\ NobodyBeyond => gc_finish = Cardinality(Unfinished)
    /\ \A c \in Threads :
          /\ pc[c] \in Beyond \ {"SignalStart"} => gc_finish = 0 /\ gc_ack = 0
          /\ pc[c] = "SignalStart" => gc_finish = num_threads + 1 /\ gc_ack = num_threads + 2

AcksFit ==
    NobodyBeyond =>
        \/ Active # {} /\ gc_ack = Cardinality(Active) + 1 /\ \A t \in Threads : pc[t] # "ClearAck"
        \/ Active = {} /\ gc_ack = 0 /\ \A t \in Threads : pc[t] # "ClearAck"
        \/ Active = {} /\ gc_ack = 1 /\ \E t \in Threads : pc[t] = "ClearAck"

(* The coordinator of a run.                                               *)
OneCoordinator ==
    \A c, d \in Threads :
        /\ is_coordinator[c] /\ is_coordinator[d] => c = d
        /\ pc[c] = "ClearAck" /\ pc[d] = "ClearAck" => c = d

CoordinatorFits ==
    /\ \A c \in Threads :
          /\ is_coordinator[c] => pc[c] \in (Working \cup Voted) \ {"WaitIntrays", "WaitCompleted"}
          /\ pc[c] \in Clearing \cup {"Complete"} => is_coordinator[c]
          /\ pc[c] \in Clearing => Unfinished = {}
          /\ pc[c] = "WaitIntrays" => Unfinished = {}
    /\ NobodyBeyond /\ Unfinished # {} =>
          \E c \in Threads : is_coordinator[c] /\ pc[c] \in Working \cup {"WaitFinish"}

(* In-trays are being cleared until nobody moves objects any more.         *)
ClearingFits ==
    \A c \in Threads :
        /\ is_coordinator[c] /\ pc[c] \in Working \cup Clearing \cup {"WaitFinish"} =>
              gc_intrays_clearing
        /\ pc[c] \in Beyond => gc_intrays_clearing
        /\ pc[c] \in {"Reset", "Complete", "WaitCompleted", "Ack"} =>
              ~gc_intrays_clearing /\ Unfinished = {}

(* Outside the opening of a run only its participants are interrupted, and *)
(* none of them once it has reset itself.                                  *)
InterruptedFits ==
    /\ NobodyBeyond =>
          \A t \in Interrupted :
              pc[t] \in Working \cup Clearing \cup {"WaitStart", "WaitFinish", "WaitIntrays", "Reset"}
    /\ \A t \in Threads : pc[t] = "Reset" /\ gc_status[t] = INTERRUPT => t \in todo[t]

(* A participant works for itself, and joins only a run that is opening.   *)
WorkFits ==
    \A t \in Threads :
        /\ pc[t] \in Working \cup Clearing \cup Beyond
                        \cup {"WaitCount", "WaitStart", "WaitFinish", "WaitIntrays"} =>
              t \in gc_work[t]
        /\ pc[t] \in {"EnterInt", "WaitCount"} => gc_start # 0

(* The panics on vote counts and thread statuses are unreachable.          *)
PanicFits == panic \in {"none", "freed_context"}

ProtocolInv ==
    /\ StatusFits /\ ListFits /\ SpawnFits /\ OneOpener /\ OpenerAlone /\ StartVotes
    /\ EverybodySignalled /\ EverybodyStopped /\ FinishVotesFit /\ AcksFit
    /\ OneCoordinator /\ CoordinatorFits /\ ClearingFits /\ InterruptedFits
    /\ WorkFits /\ PanicFits

IInv == Typing /\ ProtocolInv
-----------------------------------------------------------------------------
(* What the counting arguments use of Cardinality.                         *)
Counting ==
    \A S \in SUBSET Threads :
        /\ Cardinality(S) \in Nat /\ (Cardinality(S) = 0 <=> S = {})
        /\ \A x \in S : Cardinality(S \ {x}) = Cardinality(S) - 1
        /\ \A x \in Threads \ S : Cardinality(S \cup {x}) = Cardinality(S) + 1

(* The effect of a step on one variable of one thread.                     *)
PcTo(t, l)     == \A x \in Threads : pc'[x] = IF x = t THEN l ELSE pc[x]
SpawnTo(t, u)  ==
    \A x \in Threads : pc'[x] = IF x = t THEN "Run" ELSE IF x = u THEN "Unblock" ELSE pc[x]
StatusTo(t, s) == \A x \in Threads : gc_status'[x] = IF x = t THEN s ELSE gc_status[x]
StageTo(t, s)  == \A x \in Threads : stage'[x] = IF x = t THEN s ELSE stage[x]
BretTo(t, l)   == \A x \in Threads : bret'[x] = IF x = t THEN l ELSE bret[x]
ContTo(t, l)   == \A x \in Threads : cont'[x] = IF x = t THEN l ELSE cont[x]
TargetTo(t, u) == \A x \in Threads : target'[x] = IF x = t THEN u ELSE target[x]
WorkTo(t, w)   == \A x \in Threads : gc_work'[x] = IF x = t THEN w ELSE gc_work[x]
TodoTo(t, w)   == \A x \in Threads : todo'[x] = IF x = t THEN w ELSE todo[x]
Appointed(t)   == \A x \in Threads : is_coordinator'[x] <=> x = t \/ is_coordinator[x]
Dismissed(t)   == \A x \in Threads : is_coordinator'[x] <=> x # t /\ is_coordinator[x]

(* A thread moves from one place of a phase to another, or stays there.    *)
MovesWithin(t, l, phase) ==
    /\ {pc[t], l} \subseteq phase /\ PcTo(t, l)
    /\ \A x \in Threads : pc[x] = "Reset" => todo'[x] = todo[x]
    /\ UNCHANGED <<gc_start, gc_finish, gc_ack, gc_intrays_clearing, threads, mutex_threads,
                   panic, gc_status, stage, gc_work, bret, cont, target, is_coordinator,
                   num_threads, to_signal, signalling>>

(* Threads move only outside a run, and change only between running and    *)
(* blocked; only the threads at these places are concerned.                *)
Outside == AtRest \cup {"Run", "Start", "Spawn", "Alloc", "Poll", "Block", "BlockCheck", "EnterInt",
                        "WaitCount", "ClearInGc", "Unborn"}
StaysOutside ==
    /\ \A x \in Threads :
          /\ pc'[x] # pc[x] => {pc[x], pc'[x]} \subseteq Outside
          /\ gc_status'[x] # gc_status[x] =>
                pc[x] \in Outside /\ {gc_status[x], gc_status'[x]} \subseteq {NONE, UNABLE}
          /\ stage[x] \in {"starting", "started", "exited"} =>
                stage'[x] \in {"starting", "started", "exited"}
          /\ stage[x] \in Ended => stage'[x] \in Ended
    /\ UNCHANGED <<gc_start, gc_finish, gc_ack, gc_intrays_clearing, threads, mutex_threads,
                   panic, is_coordinator, todo, num_threads, to_signal, signalling>>

(* A participant that has voted to finish moves on, still in the run.      *)
StaysVoted(t, l) ==
    /\ {pc[t], l} \subseteq Voted /\ PcTo(t, l)
    /\ UNCHANGED <<gc_start, gc_finish, gc_ack, threads, mutex_threads, panic, gc_status, stage,
                   gc_work, bret, cont, target, is_coordinator, num_threads, to_signal,
                   signalling>>

(* The coordinator goes on with opening the run.                           *)
StaysBeyond(t, l) ==
    /\ {pc[t], l} \subseteq Beyond /\ PcTo(t, l) /\ gc_start' # 0
    /\ \A x \in Threads : gc_work[x] \subseteq gc_work'[x]
    /\ UNCHANGED <<gc_finish, gc_ack, gc_intrays_clearing, threads, panic, gc_status, stage,
                   bret, cont, target, is_coordinator, todo, num_threads>>

(* Nothing that the invariant depends on changes.                          *)
Quiet ==
    /\ panic' \in {panic, "freed_context"}
    /\ UNCHANGED <<gc_start, gc_finish, gc_ack, gc_intrays_clearing, threads, mutex_threads,
                   pc, gc_status, stage, gc_work, bret, cont, target, is_coordinator, todo,
                   num_threads, to_signal, signalling>>

USE DEF NONE, INTERRUPT, UNABLE, STOLEN, PcTo, SpawnTo, StatusTo, StageTo, BretTo, ContTo,
        TargetTo, WorkTo, TodoTo, Appointed, Dismissed, IInv, ProtocolInv,
        AtRest, Joining, Opening, Beyond, Signalled, Working, Clearing, Voted, Finishing,
        Mutating, Ended, Running, At, Goto, SetStatus,
        voteVars, flagVars, listVars, workVars, retVars, signalVars, gcVars

(* Without the debugger the suspend bits of a status are clear.            *)
LEMMA StatusBits ==
    \A s \in {NONE, INTERRUPT, UNABLE, STOLEN} : GcBits(s) = s /\ SuspendBits(s) = NONE
BY DEF GcBits, SuspendBits

(* Every label of the model but those of the suspend loop is a place.      *)
LEMMA KnownPlaces ==
    /\ "Ack" \in Places /\ "AckSpin" \in Places /\ "AddVotes" \in Places
    /\ "Alloc" \in Places /\ "Block" \in Places /\ "BlockCheck" \in Places
    /\ "Blocked" \in Places /\ "ClearAck" \in Places /\ "ClearInGc" \in Places
    /\ "ClearIntrays" \in Places /\ "ClearIntrays2" \in Places
    /\ "Collect" \in Places /\ "Complete" \in Places /\ "EnterInt" \in Places
    /\ "Finalize" \in Places /\ "Gone" \in Places /\ "InTrays" \in Places
    /\ "IntraysDone" \in Places /\ "JoinCheck" \in Places
    /\ "LockThreads" \in Places /\ "Poll" \in Places /\ "Reset" \in Places
    /\ "Run" \in Places /\ "Signal" \in Places /\ "SignalOne" \in Places
    /\ "SignalStart" \in Places /\ "Spawn" \in Places /\ "Start" \in Places
    /\ "StoreVotes" \in Places /\ "ThreadJoin" \in Places
    /\ "Unblock" \in Places /\ "UnblockCheck" \in Places
    /\ "UnblockSuspend" \in Places /\ "Unborn" \in Places
    /\ "VoteFinish" \in Places /\ "WaitCompleted" \in Places
    /\ "WaitCount" \in Places /\ "WaitFinish" \in Places
    /\ "WaitIntrays" \in Places /\ "WaitReady" \in Places
    /\ "WaitStart" \in Places /\ "WakeLoop" \in Places
BY DEF Places, Labels, Collecting, Blocking

(* A thread that is interrupted before it takes part in a run is wanted    *)
(* for a run that is being opened.                                         *)
LEMMA InterruptedForRun ==
    ASSUME IInv, NEW t \in Threads, gc_status[t] = INTERRUPT,
           pc[t] \in Mutating \cup {"Poll", "Block", "BlockCheck"}
    PROVE  gc_start # 0
BY DEF InterruptedFits, Interrupted, NobodyBeyond, OneOpener

(* The initial state satisfies the invariant: one thread runs, nothing is  *)
(* counted.                                                                *)
LEMMA InitInv == ASSUME Counting, Init PROVE IInv
<1>1. Typing
  <2>1. CounterTypes  BY DEF Init, CounterTypes
  <2>2. FlagTypes  BY ZenonT(120) DEF Init, FlagTypes
  <2>3. ThreadTypes  BY ThreadsAssumption DEF Init, ThreadTypes, Stages, Panics
  <2>4. PlaceTypes  BY KnownPlaces DEF Init, PlaceTypes, CondVars, Awake
  <2> QED BY <2>1, <2>2, <2>3, <2>4 DEF Typing
<1>2. Interrupted = {} /\ Unready = {} /\ Unfinished = {} /\ Active = {} /\ NobodyBeyond
  BY DEF Init, Interrupted, Unready, Unfinished, Active, NobodyBeyond
<1>3. Cardinality({}) = 0  BY DEF Counting
<1>4. StatusFits /\ ListFits /\ SpawnFits /\ OneCoordinator /\ PanicFits
  BY ThreadsAssumption DEF Init, StatusFits, ListFits, SpawnFits, Spawning, OneCoordinator,
     PanicFits
<1>5. OneOpener /\ OpenerAlone /\ StartVotes /\ FinishVotesFit /\ AcksFit
  BY <1>2, <1>3, ThreadsAssumption
     DEF Init, OneOpener, OpenerAlone, StartVotes, FinishVotesFit, AcksFit
<1>6. EverybodySignalled /\ EverybodyStopped
  BY DEF Init, EverybodySignalled, EverybodyStopped
<1>7. CoordinatorFits /\ ClearingFits /\ InterruptedFits /\ WorkFits
  BY <1>2 DEF Init, CoordinatorFits, ClearingFits, InterruptedFits, WorkFits
<1> QED BY <1>1, <1>4, <1>5, <1>6, <1>7

(* What the protocol promises about a run does not depend on what threads  *)
(* outside it do.                                                          *)
LEMMA OutsideStep ==
    ASSUME IInv, StaysOutside
    PROVE  /\ OneOpener' /\ OpenerAlone' /\ StartVotes' /\ EverybodySignalled'
           /\ EverybodyStopped' /\ FinishVotesFit' /\ AcksFit' /\ OneCoordinator'
           /\ CoordinatorFits' /\ ClearingFits' /\ InterruptedFits' /\ PanicFits'
<1>1. threads \subseteq Threads  BY DEF Typing, ThreadTypes
<1>2. UNCHANGED <<Interrupted, Unready, Unfinished, Active, NobodyBeyond>>
  BY DEF StaysOutside, Outside, Interrupted, Unready, Unfinished, Active, NobodyBeyond
<1>3. OneOpener' /\ OpenerAlone'
  BY <1>1 DEF StaysOutside, Outside, OneOpener, OpenerAlone
<1>4. StartVotes' /\ FinishVotesFit' /\ AcksFit' /\ OneCoordinator' /\ PanicFits'
  BY <1>2 DEF StaysOutside, Outside, StartVotes, FinishVotesFit, AcksFit, OneCoordinator, PanicFits
<1>5. EverybodySignalled' /\ EverybodyStopped'
  BY <1>1, <1>2 DEF StaysOutside, Outside, EverybodySignalled, AllStopped, EverybodyStopped, Interrupted
<1>6. CoordinatorFits' /\ ClearingFits' /\ InterruptedFits'
  BY <1>2 DEF StaysOutside, Outside, CoordinatorFits, ClearingFits, InterruptedFits, Interrupted
<1> QED BY <1>3, <1>4, <1>5, <1>6

(* Votes, statuses and the list do not depend on where in the finish of a  *)
(* run its participants are.                                               *)
LEMMA VotedStep ==
    ASSUME IInv, NEW t \in Threads, NEW l, StaysVoted(t, l)
    PROVE  /\ UNCHANGED <<Interrupted, Unready, Unfinished, Active, NobodyBeyond>>
           /\ StatusFits' /\ ListFits' /\ SpawnFits' /\ OneOpener' /\ OpenerAlone' /\ StartVotes'
           /\ EverybodySignalled' /\ FinishVotesFit' /\ AcksFit' /\ OneCoordinator' /\ PanicFits'
<1>1. threads \subseteq Threads  BY DEF Typing, ThreadTypes
<1>2. UNCHANGED <<Interrupted, Unready, Unfinished, Active, NobodyBeyond>>
  BY DEF StaysVoted, Interrupted, Unready, Unfinished, Active, NobodyBeyond
<1>3. StatusFits' /\ ListFits' /\ SpawnFits' /\ OneCoordinator' /\ PanicFits'
  BY DEF StaysVoted, StatusFits, ListFits, SpawnFits, Spawning, OneCoordinator, PanicFits
<1>4. OneOpener' /\ OpenerAlone' /\ EverybodySignalled'
  BY <1>1 DEF StaysVoted, OneOpener, OpenerAlone, EverybodySignalled, AllStopped
<1>5. StartVotes' /\ FinishVotesFit' /\ AcksFit'
  BY <1>2 DEF StaysVoted, StartVotes, FinishVotesFit, AcksFit
<1> QED BY <1>2, <1>3, <1>4, <1>5

(* What is said of mutators and participants does not depend on how far    *)
(* the opening of a run is.                                                *)
LEMMA BeyondStep ==
    ASSUME IInv, NEW t \in Threads, NEW l, StaysBeyond(t, l)
    PROVE  /\ UNCHANGED <<Interrupted, Unready, Unfinished, Active, NobodyBeyond>>
           /\ StatusFits' /\ ListFits' /\ SpawnFits' /\ EverybodyStopped' /\ AcksFit'
           /\ OneCoordinator' /\ CoordinatorFits' /\ ClearingFits' /\ InterruptedFits'
           /\ WorkFits' /\ PanicFits'
<1>1. threads \subseteq Threads  BY DEF Typing, ThreadTypes
<1>2. UNCHANGED <<Interrupted, Unready, Unfinished, Active, NobodyBeyond>>
  BY DEF StaysBeyond, Interrupted, Unready, Unfinished, Active, NobodyBeyond
<1>3. StatusFits' /\ ListFits' /\ PanicFits' /\ WorkFits'
  BY DEF StaysBeyond, StatusFits, ListFits, PanicFits, WorkFits
<1>6. SpawnFits' /\ OneCoordinator'
  BY DEF StaysBeyond, SpawnFits, Spawning, OneCoordinator
<1>4. EverybodyStopped' /\ AcksFit'
  BY <1>1, <1>2 DEF StaysBeyond, EverybodyStopped, AllStopped, Interrupted, AcksFit
<1>5. CoordinatorFits' /\ ClearingFits' /\ InterruptedFits'
  BY <1>2 DEF StaysBeyond, CoordinatorFits, ClearingFits, InterruptedFits, Interrupted
<1> QED BY <1>2, <1>3, <1>4, <1>5, <1>6

(* Nothing the protocol depends on changes.                                *)
LEMMA QuietStep ==
    ASSUME IInv, NEW t \in Threads, Quiet
    PROVE  ProtocolInv'
<1>1. /\ panic' \in {panic, "freed_context"}
      /\ UNCHANGED <<gc_start, gc_finish, gc_ack, gc_intrays_clearing, threads, mutex_threads,
          gc_status, stage, gc_work, pc, bret, cont, target, is_coordinator, todo, num_threads,
          to_signal, signalling>>
  BY DEF Quiet
<1>2. threads \subseteq Threads  BY ZenonT(120) DEF Typing, ThreadTypes
<1>3. UNCHANGED <<Interrupted, Unready, Unfinished, Active, NobodyBeyond>>
  BY <1>1 DEF Interrupted, Unready, Unfinished, Active, NobodyBeyond
<1>4. StatusFits' /\ ListFits' /\ SpawnFits' /\ OneCoordinator' /\ PanicFits'
  BY <1>1 DEF StatusFits, ListFits, SpawnFits, Spawning, OneCoordinator, PanicFits
<1>5. OneOpener' /\ OpenerAlone' /\ StartVotes' /\ FinishVotesFit' /\ AcksFit'
  BY <1>1, <1>2, <1>3 DEF OneOpener, OpenerAlone, StartVotes, FinishVotesFit, AcksFit
<1>6. EverybodySignalled' /\ EverybodyStopped'
  BY <1>1, <1>2 DEF EverybodySignalled, AllStopped, EverybodyStopped, Interrupted
<1>7. CoordinatorFits' /\ ClearingFits' /\ InterruptedFits' /\ WorkFits'
  BY <1>1, <1>3 DEF CoordinatorFits, ClearingFits, InterruptedFits, Interrupted, WorkFits
<1> QED BY <1>4, <1>5, <1>6, <1>7, ZenonT(120)

=============================================================================
