-------------------------- MODULE SpeshWorkerProofs --------------------------
(***************************************************************************)
(* Proofs about SpeshWorker, for any number of threads, any quota, any     *)
(* size of a log and any number of forks.                                  *)
(***************************************************************************)
EXTENDS SpeshWorker, TLAPS

(* The time a leaf may take, on a busy machine too.                        *)
USE SMTT(120)

Logs == [bumped : BOOLEAN, used : Nat, sent : BOOLEAN]

(* Where a thread is when it is not sending its log.                       *)
Outside == {"run", "bump", "exited", "join", "start", "profile"}
Places == Outside \cup {"send", "blocked", "count", "create", "null", "create_bumped"}

Typing ==
    /\ spesh_log \in [Threads -> Logs \cup {Null}]
    /\ spesh_log_quota \in [Threads -> Int]
    /\ pc \in [Threads -> Places] /\ ret \in [Threads -> {"run", "bump"}]
    /\ live \subseteq Threads
    /\ \A t \in Threads \ live : pc[t] = "exited"

Unsent(t) == spesh_log[t] # Null /\ ~spesh_log[t].sent

(* What a thread has of log and quota on its way through send_log.  At     *)
(* "null" the worker may have put a log in place already.                  *)
LogFits ==
    \A t \in live :
        /\ pc[t] \in Outside =>
              spesh_log[t] = Null \/ (Unsent(t) /\ spesh_log_quota[t] > 0)
        /\ pc[t] = "send" => Unsent(t) /\ spesh_log_quota[t] > 0
        /\ pc[t] \in {"blocked", "count"} =>
              spesh_log[t] # Null /\ spesh_log[t].sent /\ spesh_log_quota[t] > 0
        /\ pc[t] \in {"create", "create_bumped"} => spesh_log_quota[t] > 0
        /\ pc[t] = "null" => spesh_log_quota[t] >= 0 /\ (Unsent(t) => spesh_log_quota[t] > 0)

(* The worker puts a log in place only for a thread that has none, or is   *)
(* about to give up the one it has sent.                                   *)
RestoreFits ==
    wpc = "create" /\ sl.thread \in live =>
        /\ spesh_log_quota[sl.thread] > 0
        /\ \/ pc[sl.thread] = "null"
           \/ pc[sl.thread] \in Outside /\ spesh_log[sl.thread] = Null

LogInv == Typing /\ LogFits /\ RestoreFits

(* One thread at a time forks, and holds the mutex meanwhile.              *)
ForkInv ==
    /\ pc \in [Threads -> Places] /\ mutex_event_loop \in Threads \cup {NoThread}
    /\ ret \in [Threads -> {"run", "bump"}]
    /\ \A t \in Threads : pc[t] \in {"join", "start"} => mutex_event_loop = t
    /\ \A t \in Threads : pc[t] = "start" => spesh_thread = Null
    /\ (\A t \in Threads : pc[t] # "start") => spesh_thread = "started"

(* The flag the profiler looks at is set while the worker works.           *)
WorkInv == wpc \in {"work", "return", "create", "signal", "finish"} => spesh_working

-----------------------------------------------------------------------------
USE DEF Logs, Outside, Places

(* Every thread starts with a log and with quota for it.                   *)
LEMMA LogInit == Init => LogInv
BY SpeshAssumption, NullAssumption
   DEF Init, LogInv, Typing, LogFits, RestoreFits, Unsent, Fresh, Quota

(* Writing entries, and asking for an extra log.                           *)
LEMMA LoggingKeeps ==
    ASSUME LogInv, NEW t \in Threads,
           LogEntry(t) \/ NewCompunit(t) \/ Bump(t) \/ CreateBumped(t)
    PROVE  LogInv'
<1>1. CASE LogEntry(t)
  BY <1>1, SpeshAssumption, NullAssumption
     DEF LogEntry, Step, OnlyLog, workerVars, Full, LogInv, Typing, LogFits, RestoreFits, Unsent
<1>2. CASE NewCompunit(t)
  BY <1>2, SpeshAssumption, NullAssumption
     DEF NewCompunit, Step, OnlyLog, workerVars, QuiteFull, LogInv, Typing, LogFits, RestoreFits, Unsent
<1>3. CASE Bump(t)
  BY <1>3, SpeshAssumption, NullAssumption
     DEF Bump, Step, workerVars, LogInv, Typing, LogFits, RestoreFits, Unsent
<1>4. CASE CreateBumped(t)
  BY <1>4, SpeshAssumption, NullAssumption
     DEF CreateBumped, Step, workerVars, Fresh, LogInv, Typing, LogFits, RestoreFits, Unsent
<1> QED BY <1>1, <1>2, <1>3, <1>4

(* The steps of send_log.                                                  *)
LEMMA SendingKeeps ==
    ASSUME LogInv, NEW t \in Threads,
           Push(t) \/ Unblock(t) \/ CountDown(t) \/ CreateNext(t) \/ RunOut(t)
    PROVE  LogInv'
<1>1. CASE Push(t)
  <2>1. t \in live /\ spesh_log[t] \in Logs
    BY <1>1 DEF Push, Step, LogInv, Typing, LogFits, Unsent
  <2> DEFINE log == [spesh_log[t] EXCEPT !.sent = TRUE]
  <2>2. log \in Logs /\ log.sent
    BY <2>1, ZenonT(120)
  <2>3. /\ spesh_log' = [spesh_log EXCEPT ![t] = log]
        /\ pc[t] = "send" /\ pc' = [pc EXCEPT ![t] = IF spesh_blocking THEN "blocked" ELSE "count"]
        /\ UNCHANGED <<spesh_log_quota, num_compunit_extra_logs, completed, ret, refused, live,
                       spesh_blocking, profiling, mutex_event_loop, forks, workerVars>>
    BY <1>1 DEF Push, Step
  <2> HIDE DEF log
  <2> QED
    BY <2>1, <2>2, <2>3, SpeshAssumption, NullAssumption
       DEF workerVars, LogInv, Typing, LogFits, RestoreFits, Unsent
<1>2. CASE Unblock(t)
  BY <1>2, SpeshAssumption, NullAssumption
     DEF Unblock, Step, workerVars, LogInv, Typing, LogFits, RestoreFits, Unsent
<1>3. CASE CountDown(t)
  BY <1>3, SpeshAssumption, NullAssumption
     DEF CountDown, Step, workerVars, More, LogInv, Typing, LogFits, RestoreFits, Unsent
<1>4. CASE CreateNext(t)
  BY <1>4, SpeshAssumption, NullAssumption
     DEF CreateNext, Step, OnlyLog, workerVars, Fresh, LogInv, Typing, LogFits, RestoreFits, Unsent
<1>5. CASE RunOut(t)
  BY <1>5, SpeshAssumption, NullAssumption
     DEF RunOut, Step, OnlyLog, workerVars, LogGone, LogInv, Typing, LogFits, RestoreFits, Unsent
<1> QED BY <1>1, <1>2, <1>3, <1>4, <1>5

(* The end of a thread, fork and the profiler.                             *)
LEMMA OtherCallsKeep ==
    ASSUME LogInv, NEW t \in Threads,
           Exit(t) \/ Destroy(t) \/ WorkerStop(t) \/ WorkerJoin(t) \/ WorkerStart(t) \/ ProfilerWait(t) \/ ProfilerSwitch(t)
    PROVE  LogInv'
<1>1. CASE Exit(t)
  BY <1>1, SpeshAssumption, NullAssumption
     DEF Exit, Step, OnlyLog, workerVars, LogInv, Typing, LogFits, RestoreFits, Unsent
<1>2. CASE Destroy(t)
  BY <1>2, SpeshAssumption, NullAssumption
     DEF Destroy, Step, workerVars, LogInv, Typing, LogFits, RestoreFits, Unsent
<1>3. CASE WorkerStop(t)
  BY <1>3, SpeshAssumption, NullAssumption
     DEF WorkerStop, Step, OnlyFork, LogInv, Typing, LogFits, RestoreFits, Unsent
<1>4. CASE WorkerJoin(t)
  BY <1>4, SpeshAssumption, NullAssumption
     DEF WorkerJoin, Step, OnlyFork, LogInv, Typing, LogFits, RestoreFits, Unsent
<1>5. CASE WorkerStart(t)
  BY <1>5, SpeshAssumption, NullAssumption
     DEF WorkerStart, Step, OnlyFork, LogInv, Typing, LogFits, RestoreFits, Unsent
<1>6. CASE ProfilerWait(t)
  BY <1>6, SpeshAssumption, NullAssumption
     DEF ProfilerWait, Step, OnlyLog, workerVars, LogInv, Typing, LogFits, RestoreFits, Unsent
<1>7. CASE ProfilerSwitch(t)
  BY <1>7, SpeshAssumption, NullAssumption
     DEF ProfilerSwitch, Step, workerVars, LogInv, Typing, LogFits, RestoreFits, Unsent
<1> QED BY <1>1, <1>2, <1>3, <1>4, <1>5, <1>6, <1>7

(* The worker.                                                             *)
LEMMA WorkerKeeps == ASSUME LogInv, Worker PROVE LogInv'
<1>1. CASE Shift
  BY <1>1, NullAssumption DEF Shift, WStep, OnlyWorker, LogInv, Typing, LogFits, RestoreFits, Unsent
<1>2. CASE StartWork
  BY <1>2, NullAssumption DEF StartWork, WStep, OnlyWorker, LogInv, Typing, LogFits, RestoreFits, Unsent
<1>3. CASE Work
  BY <1>3, NullAssumption DEF Work, WStep, OnlyWorker, LogInv, Typing, LogFits, RestoreFits, Unsent
<1>4. CASE ReturnQuota
  BY <1>4, NullAssumption DEF ReturnQuota, WStep, GivesBack, Restores, LogInv, Typing, LogFits, RestoreFits, Unsent
<1>5. CASE RestoreLog
  BY <1>5, NullAssumption, ZenonT(120) DEF RestoreLog, WStep, Fresh, LogInv, Typing, LogFits, RestoreFits, Unsent
<1>6. CASE SignalSender
  BY <1>6, NullAssumption DEF SignalSender, WStep, LogInv, Typing, LogFits, RestoreFits, Unsent
<1>7. CASE FinishWork
  BY <1>7, NullAssumption DEF FinishWork, WStep, OnlyWorker, LogInv, Typing, LogFits, RestoreFits, Unsent
<1> QED BY <1>1, <1>2, <1>3, <1>4, <1>5, <1>6, <1>7 DEF Worker

LEMMA LogStep == LogInv /\ [Next]_vars => LogInv'
<1> SUFFICES ASSUME LogInv, [Next]_vars PROVE LogInv'
  OBVIOUS
<1>1. CASE Worker
  BY <1>1, WorkerKeeps
<1>2. ASSUME NEW t \in Threads, Inner(t) \/ Call(t) PROVE LogInv'
  BY <1>2, LoggingKeeps, SendingKeeps, OtherCallsKeep DEF Inner, Call
<1>3. CASE UNCHANGED vars
  BY <1>3 DEF vars, threadVars, workerVars, LogInv, Typing, LogFits, RestoreFits, Unsent
<1> QED BY <1>1, <1>2, <1>3 DEF Next

(* The log of a thread, its quota and where the thread is in send_log fit  *)
(* together after any steps of threads and worker.                         *)
THEOREM LogInvariance == Spec => []LogInv
BY LogInit, LogStep, PTL DEF Spec

(* Whatever the worker and the thread do to the quota at the same time, a  *)
(* thread that writes to a log has quota for sending it (send_log).        *)
THEOREM QuotaCoversLogAlways == Spec => []QuotaCoversLog
<1>1. LogInv => QuotaCoversLog
  BY DEF LogInv, Typing, LogFits, Unsent, QuotaCoversLog
<1> QED BY <1>1, LogInvariance, PTL

(* A thread never writes to a log that the worker reads and frees.         *)
THEOREM SentLogNotWrittenAlways == Spec => []SentLogNotWritten
<1>1. LogInv => SentLogNotWritten
  BY DEF LogInv, Typing, LogFits, Unsent, SentLogNotWritten
<1> QED BY <1>1, LogInvariance, PTL

-----------------------------------------------------------------------------
LEMMA ForkInit == Init => ForkInv
BY SpeshAssumption, NullAssumption DEF Init, ForkInv

(* A thread that forks.                                                    *)
LEMMA ForkingKeeps ==
    ASSUME ForkInv, NEW t \in Threads, WorkerStop(t) \/ WorkerJoin(t) \/ WorkerStart(t)
    PROVE  ForkInv'
<1>1. CASE WorkerStop(t)
  BY <1>1, SpeshAssumption DEF WorkerStop, Step, ForkLocks, OnlyFork, ForkInv
<1>2. CASE WorkerJoin(t)
  BY <1>2, SpeshAssumption DEF WorkerJoin, Step, OnlyFork, ForkInv
<1>3. CASE WorkerStart(t)
  BY <1>3, SpeshAssumption DEF WorkerStart, Step, OnlyFork, ForkInv
<1> QED BY <1>1, <1>2, <1>3

(* A thread that does anything else stays away from the worker.            *)
LEMMA OthersKeepFork ==
    ASSUME ForkInv, NEW t \in Threads, NEW from \in Places \ {"join", "start"},
           NEW to \in Places \ {"join", "start"}, Step(t, from, to),
           ret' \in [Threads -> {"run", "bump"}], UNCHANGED <<mutex_event_loop, spesh_thread>>
    PROVE  ForkInv'
BY SpeshAssumption, ZenonT(120) DEF Step, ForkInv

LEMMA ForkStep == ForkInv /\ [Next]_vars => ForkInv'
<1> SUFFICES ASSUME ForkInv, [Next]_vars PROVE ForkInv'
  OBVIOUS
<1>1. CASE Worker
  BY <1>1, ZenonT(120) DEF Worker, Shift, StartWork, Work, ReturnQuota, RestoreLog, SignalSender, FinishWork,
     OnlyWorker, ForkInv
<1>2. ASSUME NEW t \in Threads, WorkerStop(t) \/ WorkerJoin(t) \/ WorkerStart(t) PROVE ForkInv'
  BY <1>2, ForkingKeeps
<1>3. ASSUME NEW t \in Threads, LogEntry(t) \/ NewCompunit(t) \/ Exit(t) \/ ProfilerWait(t)
      PROVE  ForkInv'
  BY <1>3, OthersKeepFork DEF LogEntry, NewCompunit, Exit, ProfilerWait, OnlyLog, workerVars, ForkInv
<1>4. ASSUME NEW t \in Threads, Bump(t) \/ CreateBumped(t) \/ ProfilerSwitch(t)
      PROVE  ForkInv'
  BY <1>4, OthersKeepFork, ZenonT(120) DEF Bump, CreateBumped, ProfilerSwitch, workerVars, ForkInv
<1>5. ASSUME NEW t \in Threads, Push(t) \/ Unblock(t) \/ CountDown(t) PROVE ForkInv'
  BY <1>5, OthersKeepFork, ZenonT(120) DEF Push, Unblock, CountDown, workerVars, ForkInv
<1>6. ASSUME NEW t \in Threads, CreateNext(t) \/ RunOut(t) PROVE ForkInv'
  BY <1>6, OthersKeepFork, ZenonT(120) DEF CreateNext, RunOut, OnlyLog, workerVars, ForkInv
<1>7. ASSUME NEW t \in Threads, Destroy(t) PROVE ForkInv'
  BY <1>7 DEF Destroy, workerVars, ForkInv
<1>8. CASE UNCHANGED vars
  BY <1>8 DEF vars, threadVars, workerVars, ForkInv
<1> QED
  BY <1>1, <1>2, <1>3, <1>4, <1>5, <1>6, <1>7, <1>8 DEF Next, Inner, Call

(* However many threads fork, one of them at a time stops the worker, and  *)
(* starts it only once it has been joined (MVM_spesh_worker_start).        *)
THEOREM WorkerAssertionsAlways == Spec => []WorkerAssertions
<1>1. ForkInv => WorkerAssertions
  BY NullAssumption, SpeshAssumption DEF ForkInv, WorkerAssertions
<1> QED BY <1>1, ForkInit, ForkStep, PTL DEF Spec

-----------------------------------------------------------------------------
LEMMA WorkStep == WorkInv /\ [Next]_vars => WorkInv'
<1> SUFFICES ASSUME WorkInv, [Next]_vars PROVE WorkInv'
  OBVIOUS
<1>1. CASE Worker
  BY <1>1, ZenonT(120) DEF Worker, WStep, Shift, StartWork, Working, Work, ReturnQuota, RestoreLog,
     SignalSender, FinishWork, WorkInv
<1>2. ASSUME NEW t \in Threads, Inner(t) PROVE WorkInv'
  BY <1>2, ZenonT(120) DEF Inner, Bump, CreateBumped, Push, Unblock, CountDown, CreateNext, RunOut,
     WorkerJoin, WorkerStart, OnlyLog, OnlyFork, workerVars, WorkInv
<1>3. ASSUME NEW t \in Threads, Call(t) PROVE WorkInv'
  BY <1>3, ZenonT(120) DEF Call, LogEntry, NewCompunit, Exit, Destroy, WorkerStop, ProfilerWait,
     ProfilerSwitch, OnlyLog, OnlyFork, workerVars, WorkInv
<1>4. CASE UNCHANGED vars
  BY <1>4 DEF vars, workerVars, WorkInv
<1> QED BY <1>1, <1>2, <1>3, <1>4 DEF Next

(* Profiling is switched between two logs only: spesh_working covers all of*)
(* the worker's work on a log (MVM_profile_instrumented_start).            *)
THEOREM ProfilerBetweenLogsAlways == Spec => ProfilerBetweenLogs
<1>1. Init => WorkInv
  BY DEF Init, WorkInv
<1>2. ASSUME WorkInv, [Next]_vars, profiling' # profiling
      PROVE  wpc \notin {"work", "return", "create", "signal", "finish"}
  <2>1. PICK t \in Threads : ProfilerSwitch(t)
    BY <1>2, ZenonT(120) DEF Next, Worker, Shift, StartWork, Work, ReturnQuota, RestoreLog, SignalSender,
       FinishWork, OnlyWorker, Inner, Bump, CreateBumped, Push, Unblock, CountDown, CreateNext,
       RunOut, WorkerJoin, WorkerStart, OnlyLog, OnlyFork, Call, LogEntry, NewCompunit, Exit,
       Destroy, WorkerStop, ProfilerWait, vars
  <2> QED BY <1>2, <2>1 DEF ProfilerSwitch, WorkInv
<1>3. WorkInv /\ [Next]_vars =>
         [profiling' # profiling =>
             wpc \notin {"work", "return", "create", "signal", "finish"}]_vars
  BY <1>2
<1> QED BY <1>1, <1>3, WorkStep, PTL DEF Spec, ProfilerBetweenLogs
=============================================================================
