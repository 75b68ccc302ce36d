----------------------------- MODULE SpeshWorker -----------------------------
(***************************************************************************)
(* Specialization logs and the specialization worker (spesh/log.c,         *)
(* spesh/worker.c).  Every thread writes what it sees into its log and     *)
(* sends a full one to the worker's queue; a quota of logs limits how much *)
(* work a thread may have outstanding.  The thread counts the quota down   *)
(* and the worker counts it up, and whichever takes it across zero decides *)
(* whether the thread goes on with a new log or with none.                 *)
(*                                                                         *)
(* fork() stops the worker and starts it again, the profiler waits for a   *)
(* moment in which it does not work, and the collector destroys the        *)
(* context of a thread that has exited.  The queue is the abstract one of  *)
(* BlockingQueue, which ConcBlockingQueue implements.                      *)
(***************************************************************************)
EXTENDS Integers, Sequences, FiniteSets

CONSTANTS
    Threads,
    Main,           \* the main thread
    Exiting,        \* the threads that may exit
    Loading,        \* the threads that enter new compilation units
    Profiling,      \* the threads that start and end the profiler
    NoThread, Null, \* nobody, and a NULL pointer
    MVM_SPESH_LOG_QUOTA_MAIN_THREAD, MVM_SPESH_LOG_QUOTA,
    Limit,          \* entries of a log
    MaxExtra,       \* the 5 of MVM_spesh_log_new_compunit
    MaxForks,       \* bound: calls of fork
    MaxRefused      \* bound: how often a thread's request for an extra log is refused

ASSUME SpeshAssumption ==
    /\ Main \in Threads /\ NoThread \notin Threads
    /\ Exiting \subseteq Threads \ {Main}
    /\ MVM_SPESH_LOG_QUOTA_MAIN_THREAD \in Nat \ {0} /\ MVM_SPESH_LOG_QUOTA \in Nat \ {0}
    /\ Limit \in Nat \ {0}
    /\ MaxExtra \in Nat /\ MaxRefused \in Nat /\ MaxForks \in Nat

(* A NULL pointer is neither a log nor a thread.                           *)
ASSUME NullAssumption ==
    Null \notin [bumped : BOOLEAN, used : Nat, sent : BOOLEAN] /\ Null # "started"

VARIABLES
    spesh_log, spesh_log_quota, num_compunit_extra_logs,    \* MVMThreadContext
    completed,                  \* of the log a thread waits for
    pc, ret,                    \* where a thread is, and where send_log returns to
    refused,                    \* history: calls of new_compunit that left a thread without log
    live,                       \* the threads whose context is not destroyed
    spesh_queue, spesh_working, spesh_thread, spesh_blocking, profiling,    \* MVMInstance
    mutex_event_loop, forks,    \* who forks, and how much of MaxForks is used
    wpc, sl                     \* the worker's place, and the log it works on

threadVars == <<spesh_log, spesh_log_quota, num_compunit_extra_logs, completed, refused, pc, ret,
                live>>
workerVars == <<spesh_working, spesh_thread, wpc, sl>>
vars == <<threadVars, workerVars, spesh_queue, spesh_blocking, profiling, mutex_event_loop, forks>>

(* MVM_spesh_log_create.  A log that was sent is in the worker's hands.    *)
Fresh(bumped) == [bumped |-> bumped, used |-> 0, sent |-> FALSE]

Quota(t) == IF t = Main THEN MVM_SPESH_LOG_QUOTA_MAIN_THREAD ELSE MVM_SPESH_LOG_QUOTA

Stop == [thread |-> NoThread, bumped |-> FALSE]     \* VMNull

Init ==
    /\ spesh_log = [t \in Threads |-> Fresh(FALSE)]
    /\ spesh_log_quota = [t \in Threads |-> Quota(t)]
    /\ num_compunit_extra_logs = [t \in Threads |-> 0]
    /\ completed = [t \in Threads |-> FALSE]
    /\ pc = [t \in Threads |-> "run"] /\ ret = [t \in Threads |-> "run"]
    /\ refused = [t \in Threads |-> 0]
    /\ live = Threads
    /\ spesh_queue = <<>> /\ spesh_working = FALSE /\ spesh_thread = "started"
    /\ spesh_blocking \in BOOLEAN /\ profiling = FALSE
    /\ mutex_event_loop = NoThread /\ forks = 0
    /\ wpc = "shift" /\ sl = Stop

Step(t, from, to) == pc[t] = from /\ pc' = [pc EXCEPT ![t] = to]

OnlyLog == UNCHANGED <<spesh_log_quota, num_compunit_extra_logs, completed, live, refused, workerVars,
                       spesh_queue, spesh_blocking, profiling, mutex_event_loop, forks>>

-----------------------------------------------------------------------------
(* commit_entry: a log that is full is sent.                               *)
Full(t) == spesh_log[t].used + 1 = Limit

(* MVM_spesh_log_entry and the other log functions write one entry each,   *)
(* if there is a log.                                                      *)
LogEntry(t) ==
    /\ spesh_log[t] # Null
    /\ Step(t, "run", IF Full(t) THEN "send" ELSE "run")
    /\ spesh_log' = [spesh_log EXCEPT ![t].used = @ + 1]
    /\ UNCHANGED ret /\ OnlyLog

MayBump(n) == n < MaxExtra

QuiteFull(t) == spesh_log[t] # Null /\ spesh_log[t].used > Limit \div 4

NewCompunit(t) ==
    /\ t \in Loading /\ refused[t] < MaxRefused
    /\ MayBump(num_compunit_extra_logs[t])
    /\ Step(t, "run", IF QuiteFull(t) THEN "send" ELSE "bump")
    /\ ret' = [ret EXCEPT ![t] = IF QuiteFull(t) THEN "bump" ELSE "run"]
    /\ UNCHANGED spesh_log /\ OnlyLog

Bump(t) ==
    /\ IF spesh_log[t] = Null
       THEN /\ spesh_log_quota' = [spesh_log_quota EXCEPT ![t] = @ + 1]
            /\ Step(t, "bump", IF spesh_log_quota[t] = 0 THEN "create_bumped" ELSE "run")
            /\ refused' = [refused EXCEPT ![t] = IF spesh_log_quota[t] = 0 THEN @ ELSE @ + 1]
       ELSE Step(t, "bump", "run") /\ UNCHANGED <<spesh_log_quota, refused>>
    /\ UNCHANGED <<spesh_log, num_compunit_extra_logs, completed, ret, live, workerVars,
                   spesh_queue, spesh_blocking, profiling, mutex_event_loop, forks>>

CreateBumped(t) ==
    /\ Step(t, "create_bumped", "run")
    /\ spesh_log' = [spesh_log EXCEPT ![t] = Fresh(TRUE)]
    /\ num_compunit_extra_logs' = [num_compunit_extra_logs EXCEPT ![t] = @ + 1]
    /\ UNCHANGED <<spesh_log_quota, completed, ret, live, refused, workerVars, spesh_queue,
                   spesh_blocking, profiling, mutex_event_loop, forks>>

-----------------------------------------------------------------------------
(* send_log.                                                               *)
Push(t) ==
    /\ Step(t, "send", IF spesh_blocking THEN "blocked" ELSE "count")
    /\ spesh_queue' = Append(spesh_queue, [thread |-> t, bumped |-> spesh_log[t].bumped])
    /\ spesh_log' = [spesh_log EXCEPT ![t].sent = TRUE]
    /\ UNCHANGED <<spesh_log_quota, num_compunit_extra_logs, completed, ret, live, refused, workerVars,
                   spesh_blocking, profiling, mutex_event_loop, forks>>

Unblock(t) ==
    /\ Step(t, "blocked", "count") /\ completed[t]
    /\ completed' = [completed EXCEPT ![t] = FALSE]
    /\ UNCHANGED <<spesh_log, spesh_log_quota, num_compunit_extra_logs, ret, live, refused, workerVars,
                   spesh_queue, spesh_blocking, profiling, mutex_event_loop, forks>>

(* Mutant: the last log of the quota is taken for one more.                *)
MoreAtLast(old) == old > 0
More(old) == old > 1

CountDown(t) ==
    /\ Step(t, "count", IF More(spesh_log_quota[t]) THEN "create" ELSE "null")
    /\ spesh_log_quota' = [spesh_log_quota EXCEPT ![t] = @ - 1]
    /\ UNCHANGED <<spesh_log, num_compunit_extra_logs, completed, ret, live, refused, workerVars,
                   spesh_queue, spesh_blocking, profiling, mutex_event_loop, forks>>

CreateNext(t) ==
    /\ Step(t, "create", ret[t])
    /\ spesh_log' = [spesh_log EXCEPT ![t] = Fresh(FALSE)]
    /\ ret' = [ret EXCEPT ![t] = "run"] /\ OnlyLog

LogGone(t) == Null

RunOut(t) ==
    /\ Step(t, "null", ret[t])
    /\ spesh_log' = [spesh_log EXCEPT ![t] = LogGone(t)]
    /\ ret' = [ret EXCEPT ![t] = "run"] /\ OnlyLog

-----------------------------------------------------------------------------
(* A thread ends, and a later collection destroys its context: the worker  *)
(* is then at a point where it may be stopped, which it is all the time    *)
(* but between its look at the context and the change of the quota.        *)
Exit(t) == t \in Exiting /\ Step(t, "run", "exited") /\ UNCHANGED <<spesh_log, ret>> /\ OnlyLog

Destroy(t) ==
    /\ pc[t] = "exited" /\ t \in live
    /\ live' = live \ {t}
    /\ spesh_log' = [spesh_log EXCEPT ![t] = Null]
    /\ spesh_log_quota' = [spesh_log_quota EXCEPT ![t] = 0]
    /\ num_compunit_extra_logs' = [num_compunit_extra_logs EXCEPT ![t] = 0]
    /\ UNCHANGED <<completed, pc, ret, refused, workerVars,
                   spesh_queue, spesh_blocking, profiling, mutex_event_loop, forks>>

-----------------------------------------------------------------------------
(* The worker's loop.                                                      *)
WStep(from, to) == wpc = from /\ wpc' = to

OnlyWorker == UNCHANGED <<spesh_log, spesh_log_quota, num_compunit_extra_logs, completed, pc, ret,
                          live, refused, spesh_thread, spesh_blocking, profiling, mutex_event_loop, forks>>

Shift ==
    /\ WStep("shift", "start") /\ spesh_queue # <<>>
    /\ sl' = Head(spesh_queue) /\ spesh_queue' = Tail(spesh_queue)
    /\ UNCHANGED spesh_working /\ OnlyWorker

(* Mutant: the worker starts without telling the profiler.                 *)
WorkUnseen == FALSE
Working == TRUE

StartWork ==
    /\ WStep("start", IF sl = Stop THEN "stopped" ELSE "work")
    /\ spesh_working' = Working
    /\ UNCHANGED <<sl, spesh_queue>> /\ OnlyWorker

(* Statistics are updated, a plan made and carried out.                    *)
Work ==
    /\ WStep("work", "return")
    /\ UNCHANGED <<sl, spesh_queue, spesh_working>> /\ OnlyWorker

(* Mutant: bumped logs give quota back, which was not taken for them.      *)
GivesBackAlways(log) == TRUE
GivesBack(log) == ~log.bumped

Restores(old) == old = 0

ReturnQuota ==
    LET t == sl.thread IN
    /\ IF t \in live /\ GivesBack(sl)
       THEN /\ spesh_log_quota' = [spesh_log_quota EXCEPT ![t] = @ + 1]
            /\ WStep("return", IF Restores(spesh_log_quota[t]) THEN "create" ELSE "signal")
       ELSE WStep("return", "signal") /\ UNCHANGED spesh_log_quota
    /\ num_compunit_extra_logs' =
           [num_compunit_extra_logs EXCEPT ![t] = IF t \in live /\ sl.bumped THEN @ - 1 ELSE @]
    /\ UNCHANGED <<spesh_log, completed, pc, ret, live, refused, spesh_working, spesh_thread, sl,
                   spesh_queue, spesh_blocking, profiling, mutex_event_loop, forks>>

(* "logging restored after quota had run out".  A store to a context that  *)
(* was destroyed in the meantime changes nothing that is modelled.         *)
RestoreLog ==
    /\ WStep("create", "signal")
    /\ spesh_log' = [spesh_log EXCEPT ![sl.thread] =
                        IF sl.thread \in live THEN Fresh(FALSE) ELSE @]
    /\ UNCHANGED <<spesh_log_quota, num_compunit_extra_logs, completed, pc, ret, live, refused,
                   spesh_working, spesh_thread, sl, spesh_queue, spesh_blocking, profiling,
                   mutex_event_loop, forks>>

(* Mutant: the thread that waits is not told.                              *)
NoSignal(t) == completed
Signalled(t) == [completed EXCEPT ![t] = spesh_blocking]

SignalSender ==
    /\ WStep("signal", "finish")
    /\ completed' = Signalled(sl.thread)
    /\ UNCHANGED <<spesh_log, spesh_log_quota, num_compunit_extra_logs, pc, ret, live, refused,
                   spesh_working, spesh_thread, sl, spesh_queue, spesh_blocking, profiling,
                   mutex_event_loop, forks>>

Rests == FALSE

FinishWork ==
    /\ WStep("finish", "shift")
    /\ spesh_working' = Rests /\ sl' = Stop
    /\ UNCHANGED spesh_queue /\ OnlyWorker

Worker ==
    \/ Shift \/ StartWork \/ Work \/ ReturnQuota \/ RestoreLog \/ SignalSender \/ FinishWork

-----------------------------------------------------------------------------
(* MVM_proc_fork: the worker is stopped, joined and started again.         *)
OnlyFork == UNCHANGED <<spesh_log, spesh_log_quota, num_compunit_extra_logs, completed, ret, live,
                        refused, spesh_working, sl, spesh_blocking, profiling>>

(* Mutant: fork without the lock.                                          *)
ForkUnlocked(t) == TRUE
ForkLocks(t) == mutex_event_loop = NoThread

(* Mutant: the worker is joined without having been told to stop.          *)
NotTold(q) == q
StopFirst(q) == <<Stop>> \o q

WorkerStop(t) ==
    /\ Step(t, "run", "join") /\ ForkLocks(t)
    /\ forks < MaxForks /\ forks' = forks + 1
    /\ mutex_event_loop' = t
    /\ spesh_queue' = StopFirst(spesh_queue)
    /\ UNCHANGED <<spesh_thread, wpc>> /\ OnlyFork

WorkerJoin(t) ==
    /\ Step(t, "join", "start") /\ wpc = "stopped"
    /\ spesh_thread' = Null
    /\ UNCHANGED <<mutex_event_loop, forks, spesh_queue, wpc>> /\ OnlyFork

WorkerStart(t) ==
    /\ Step(t, "start", "run")
    /\ spesh_thread' = "started" /\ wpc' = "shift"
    /\ mutex_event_loop' = NoThread
    /\ UNCHANGED <<forks, spesh_queue>> /\ OnlyFork

(* MVM_profile_instrumented_start and _end.                                *)
ProfilerWait(t) ==
    /\ t \in Profiling /\ Step(t, "run", "profile") /\ UNCHANGED <<spesh_log, ret>> /\ OnlyLog

ProfilerSwitch(t) ==
    /\ Step(t, "profile", "run") /\ ~spesh_working
    /\ profiling' = ~profiling
    /\ UNCHANGED <<spesh_log, spesh_log_quota, num_compunit_extra_logs, completed, ret, live,
                   refused, workerVars, spesh_queue, spesh_blocking, mutex_event_loop, forks>>

-----------------------------------------------------------------------------
Inner(t) ==
    \/ Bump(t) \/ CreateBumped(t) \/ Push(t) \/ Unblock(t) \/ CountDown(t) \/ CreateNext(t)
    \/ RunOut(t) \/ WorkerJoin(t) \/ WorkerStart(t)

Call(t) ==
    \/ LogEntry(t) \/ NewCompunit(t) \/ Exit(t) \/ Destroy(t) \/ WorkerStop(t)
    \/ ProfilerWait(t) \/ ProfilerSwitch(t)

Next == Worker \/ \E t \in Threads : Inner(t) \/ Call(t)

Spec == Init /\ [][Next]_vars

(* Every thread is scheduled, and one that waits for the worker's pauses   *)
(* gets the mutex in one of them if they keep coming.                      *)
FairSpec ==
    /\ Spec /\ WF_vars(Worker)
    /\ \A t \in Threads : WF_vars(Inner(t)) /\ SF_vars(ProfilerSwitch(t))

-----------------------------------------------------------------------------
(* The logs of thread t that the worker has yet to give quota back for.    *)
Owed(t) ==
    Cardinality({i \in DOMAIN spesh_queue : spesh_queue[i] = [thread |-> t, bumped |-> FALSE]})
    + IF sl = [thread |-> t, bumped |-> FALSE] /\ wpc \in {"start", "work", "return"}
      THEN 1 ELSE 0

(* A thread that has a log may send it: the quota covers the log it writes *)
(* to, so counting it down never takes it below zero.                      *)
QuotaCoversLog ==
    \A t \in live :
        /\ spesh_log[t] # Null /\ ~spesh_log[t].sent => spesh_log_quota[t] > 0
        /\ pc[t] \in {"blocked", "count", "create_bumped"} => spesh_log_quota[t] > 0

(* What a thread writes to is not in the worker's hands, which frees the   *)
(* entries of a log when it is done.                                       *)
SentLogNotWritten ==
    \A t \in live :
        pc[t] \in {"run", "bump"} => spesh_log[t] = Null \/ ~spesh_log[t].sent

(* Quota is neither lost nor made up: between calls, what is left and what *)
(* is owed add up to what the thread was given at its start, with what     *)
(* new_compunit added for the extra log in use and for refused requests.   *)
QuotaAccounted ==
    \A t \in live :
        pc[t] = "run" =>
            spesh_log_quota[t] + Owed(t) =
                Quota(t) + refused[t] + IF spesh_log[t] # Null /\ spesh_log[t].bumped THEN 1 ELSE 0

(* MVM_spesh_worker_start: "There must not be a running thread now", and   *)
(* MVM_spesh_worker_join finds one.                                        *)
WorkerAssertions ==
    \A t \in Threads :
        /\ pc[t] = "start" => spesh_thread = Null
        /\ pc[t] = "join" => spesh_thread # Null

(* Profiling is switched on or off only between two logs, so that the      *)
(* specializer does not trip over instrumented bytecode.                   *)
ProfilerBetweenLogs ==
    [][profiling' # profiling =>
          wpc \notin {"work", "return", "create", "signal", "finish"}]_vars

(* In blocking mode a thread that has sent a log goes on once the worker   *)
(* is through with it, also when the worker is stopped and started between. *)
SenderGoesOn == \A t \in Threads : pc[t] = "blocked" ~> pc[t] # "blocked"

(* A fork comes through.                                                   *)
ForkReturns == \A t \in Threads : pc[t] = "join" ~> pc[t] = "run"
=============================================================================
