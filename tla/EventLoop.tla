------------------------------ MODULE EventLoop ------------------------------
(***************************************************************************)
(* The event loop (io/eventloop.c) and the threads that use it.  A thread  *)
(* starts the loop if need be, pushes a task, a permit or a cancellation   *)
(* to one of three queues and wakes the loop thread, which empties the     *)
(* queues one after the other and otherwise runs the callbacks of libuv.   *)
(* fork() (io/procops.c) stops the loop thread and starts a new one on the *)
(* same loop.                                                              *)
(*                                                                         *)
(* The queues are those of BlockingQueue.  A wake-up sent twice before the *)
(* loop thread sees it counts once; uv_run looks at the stop flag between  *)
(* two rounds and clears it when it returns.                               *)
(***************************************************************************)
EXTENDS SpawnTask

CONSTANTS
    Users, Nobody,      \* the threads that use the loop, and none of them
    Callers, Forkers,   \* those that call its operations, and those that fork
    PermitSizes,        \* the numbers of permits granted
    MaxCalls,           \* bound: scenario -> permits and cancellations of each task
    MaxForks            \* bound: scenario -> calls of fork

ASSUME LoopAssumption ==
    /\ Nobody \notin Users /\ Callers \subseteq Users /\ Forkers \subseteq Users
    /\ PermitSizes \subseteq Int
    /\ MaxCalls \in [Scenarios -> Nat] /\ MaxForks \in [Scenarios -> Nat]

VARIABLES
    event_loop, event_loop_thread,      \* MVMInstance: are they there?
    mutex_event_loop,
    loop_threads,                       \* history: loop threads created and not joined
    todo_queue, permit_queue, cancel_queue,
    wakeup, stop_flag,                  \* of the libuv loop
    lpc,                                \* where the loop thread is
    upc, op,                            \* where a thread is, and in which call
    created, calls, forks               \* what was done so far

queueVars == <<todo_queue, permit_queue, cancel_queue>>
instanceVars == <<event_loop, event_loop_thread, mutex_event_loop, loop_threads>>
userVars == <<upc, op, created, calls, forks>>
vars == <<taskVars, spawnVars, queueVars, instanceVars, userVars, wakeup, stop_flag, lpc>>

NoOp == [what |-> "none", task |-> VMNull, channel |-> 0, permits |-> 0]

Init ==
    /\ TaskInit /\ SpawnInit
    /\ event_loop = FALSE /\ event_loop_thread = FALSE /\ mutex_event_loop = Nobody
    /\ todo_queue = <<>> /\ permit_queue = <<>> /\ cancel_queue = <<>>
    /\ wakeup = FALSE /\ stop_flag = FALSE /\ lpc = "none" /\ loop_threads = 0
    /\ upc = [u \in Users |-> "idle"] /\ op = [u \in Users |-> NoOp]
    /\ created = {} /\ calls = [t \in Tasks |-> 0] /\ forks = 0

Step(u, from, to) == upc[u] = from /\ upc' = [upc EXCEPT ![u] = to]
Begins(u, o) == Step(u, "idle", "start") /\ op' = [op EXCEPT ![u] = o]
Ends(u, from) == Step(u, from, "idle") /\ op' = [op EXCEPT ![u] = NoOp]

-----------------------------------------------------------------------------
(* The calls.  A task's handle is returned once the task is queued.        *)
Known(t) == t \in created /\ \A u \in Users : ~(op[u].what = "queue" /\ op[u].task = t)

queue_work(u, t) ==
    /\ kind[t] # "unused"
    /\ t \notin created /\ created' = created \cup {t}
    /\ Begins(u, [NoOp EXCEPT !.what = "queue", !.task = t])
    /\ UNCHANGED <<taskVars, spawnVars, queueVars, instanceVars, calls, forks, wakeup, stop_flag,
                   lpc>>

Calls(t) == Known(t) /\ calls[t] < MaxCalls[kind] /\ calls' = [calls EXCEPT ![t] = @ + 1]

eventloop_permit(u, t, c, n) ==
    /\ Spawns(t) /\ Calls(t)
    /\ Begins(u, [what |-> "permit", task |-> t, channel |-> c, permits |-> n])
    /\ UNCHANGED <<taskVars, spawnVars, queueVars, instanceVars, created, forks,
                   wakeup, stop_flag, lpc>>

eventloop_cancel_work(u, t, tell) ==
    /\ Calls(t) /\ (tell => ~Spawns(t))     \* MVM_proc_kill_async asks for no notification
    /\ notify' = [notify EXCEPT ![t] = @ \/ tell]
    /\ Begins(u, [NoOp EXCEPT !.what = "cancel", !.task = t])
    /\ UNCHANGED <<kind, state, work_idx, handle, event_loop_active, event_loop_free_indices,
                   notified, cancelled, late, panic, spawnVars, queueVars, instanceVars, created,
                   forks, wakeup, stop_flag, lpc>>

(* MVM_io_eventloop_start.                                                 *)
AfterStart(u) == IF op[u].what = "fork" THEN "done" ELSE "push"

StartCheck(u) ==
    /\ Step(u, "start", IF event_loop_thread THEN AfterStart(u) ELSE "lock")
    /\ UNCHANGED <<taskVars, spawnVars, queueVars, instanceVars, op, created, calls, forks,
                   wakeup, stop_flag, lpc>>

StartLock(u) ==
    /\ Step(u, "lock", "thread")
    /\ mutex_event_loop = Nobody /\ mutex_event_loop' = u
    /\ event_loop' = TRUE
    /\ UNCHANGED <<taskVars, spawnVars, queueVars, event_loop_thread, loop_threads, op, created,
                   calls, forks, wakeup, stop_flag, lpc>>

(* Mutant: the winner is not looked for under the mutex.                   *)
LostRaceNever == FALSE
LostRace == event_loop_thread

CreateThread(u) ==
    /\ Step(u, "thread", AfterStart(u))
    /\ event_loop_thread' = TRUE
    /\ lpc' = IF LostRace THEN lpc ELSE "starting"
    /\ loop_threads' = IF LostRace THEN loop_threads ELSE loop_threads + 1
    /\ mutex_event_loop' = Nobody
    /\ UNCHANGED <<taskVars, spawnVars, queueVars, event_loop, op, created, calls, forks,
                   wakeup, stop_flag>>

PushWork(u) ==
    /\ Step(u, "push", "send")
    /\ \/ op[u].what = "queue" /\ todo_queue' = Append(todo_queue, op[u].task)
          /\ UNCHANGED <<permit_queue, cancel_queue>>
       \/ op[u].what = "permit" /\ permit_queue' = Append(permit_queue, op[u])
          /\ UNCHANGED <<todo_queue, cancel_queue>>
       \/ op[u].what = "cancel" /\ cancel_queue' = Append(cancel_queue, op[u].task)
          /\ UNCHANGED <<todo_queue, permit_queue>>
    /\ UNCHANGED <<taskVars, spawnVars, instanceVars, op, created, calls, forks,
                   wakeup, stop_flag, lpc>>

SendWakeup(u) ==
    /\ Ends(u, "send")
    /\ wakeup' = TRUE
    /\ UNCHANGED <<taskVars, spawnVars, queueVars, instanceVars, created, calls,
                   forks, stop_flag, lpc>>

-----------------------------------------------------------------------------
(* MVM_proc_fork, as far as the event loop goes; that other threads run    *)
(* makes it fail only after it has stopped the loop.                       *)
ForkLock(u) ==
    /\ Step(u, "idle", "stop")
    /\ forks < MaxForks[kind] /\ forks' = forks + 1
    /\ mutex_event_loop = Nobody /\ mutex_event_loop' = u
    /\ op' = [op EXCEPT ![u] = [NoOp EXCEPT !.what = "fork"]]
    /\ UNCHANGED <<taskVars, spawnVars, queueVars, event_loop, event_loop_thread, loop_threads,
                   created, calls, wakeup, stop_flag, lpc>>

(* MVM_io_eventloop_stop: uv_stop, then uv_async_send.                     *)
LoopStop(u) ==
    /\ Step(u, "stop", IF event_loop_thread THEN "wake" ELSE "join")
    /\ stop_flag' = (stop_flag \/ event_loop_thread)
    /\ UNCHANGED <<taskVars, spawnVars, queueVars, instanceVars, op, created, calls,
                   forks, wakeup, lpc>>

(* Mutant: the loop thread is not woken.                                   *)
StopWakesNot == wakeup
StopWakes == TRUE

LoopStopWake(u) ==
    /\ Step(u, "wake", "join")
    /\ wakeup' = StopWakes
    /\ UNCHANGED <<taskVars, spawnVars, queueVars, instanceVars, op, created, calls,
                   forks, stop_flag, lpc>>

LoopJoin(u) ==
    /\ Step(u, "join", "unlock")
    /\ lpc \in {"none", "exited"} /\ lpc' = "none"
    /\ event_loop_thread' = FALSE
    /\ loop_threads' = IF event_loop_thread THEN loop_threads - 1 ELSE loop_threads
    /\ UNCHANGED <<taskVars, spawnVars, queueVars, event_loop, mutex_event_loop, op, created,
                   calls, forks, wakeup, stop_flag>>

(* Mutant: the loop is left to whoever needs it next.                      *)
RestartsNever == FALSE
Restarts == event_loop

ForkUnlock(u) ==
    /\ Step(u, "unlock", IF Restarts THEN "start" ELSE "done")
    /\ mutex_event_loop' = Nobody
    /\ UNCHANGED <<taskVars, spawnVars, queueVars, event_loop, event_loop_thread, loop_threads, op,
                   created, calls, forks, wakeup, stop_flag, lpc>>

ForkDone(u) ==
    /\ Ends(u, "done")
    /\ UNCHANGED <<taskVars, spawnVars, queueVars, instanceVars, created, calls, forks, wakeup,
                   stop_flag, lpc>>

-----------------------------------------------------------------------------
(* The loop thread: enter_loop and uv_run.                                 *)
EnterLoop ==
    /\ lpc = "starting" /\ lpc' = "check"
    /\ UNCHANGED <<taskVars, spawnVars, queueVars, instanceVars, userVars, wakeup, stop_flag>>

CheckStop ==
    /\ lpc = "check"
    /\ lpc' = IF stop_flag THEN "exited" ELSE "waiting"
    /\ stop_flag' = FALSE
    /\ UNCHANGED <<taskVars, spawnVars, queueVars, instanceVars, userVars, wakeup>>

Wake ==
    /\ lpc = "waiting" /\ lpc' = "setup"
    /\ wakeup /\ wakeup' = FALSE
    /\ UNCHANGED <<taskVars, spawnVars, queueVars, instanceVars, userVars, stop_flag>>

(* async_handler: setup_work, permit_work, cancel_work.                    *)
(* Mutant: a task is set up whatever happened to it before.                *)
IsNewAlways(t) == TRUE
IsNew(t) == state[t] = "NEW"

setup_work ==
    /\ lpc = "setup"
    /\ IF todo_queue = <<>>
       THEN lpc' = "permit" /\ UNCHANGED <<taskVars, spawnVars, todo_queue>>
       ELSE LET t == Head(todo_queue) IN
            /\ todo_queue' = Tail(todo_queue)
            /\ IF IsNew(t)
               THEN /\ IF Spawns(t) THEN spawn_setup(t) ELSE setup(t) /\ UNCHANGED spawnVars
                    /\ state' = [state EXCEPT ![t] = "SETUP"]
                    /\ UNCHANGED <<kind, notify, cancelled>>
               ELSE UNCHANGED <<taskVars, spawnVars>>
            /\ UNCHANGED lpc
    /\ UNCHANGED <<permit_queue, cancel_queue, instanceVars, userVars, wakeup, stop_flag>>

permit_work ==
    /\ lpc = "permit"
    /\ IF permit_queue = <<>>
       THEN lpc' = "cancel" /\ UNCHANGED <<spawnVars, permit_queue>>
       ELSE LET o == Head(permit_queue) IN
            /\ permit_queue' = Tail(permit_queue)
            /\ spawn_permit(o.task, o.channel, o.permits)
            /\ UNCHANGED <<using, lpc>>
    /\ UNCHANGED <<taskVars, todo_queue, cancel_queue, instanceVars, userVars, wakeup, stop_flag>>

(* Cancelling a process sends it a signal, which may or may not end it.    *)
cancel_work ==
    /\ lpc = "cancel"
    /\ IF cancel_queue = <<>>
       THEN lpc' = "check" /\ UNCHANGED <<taskVars, cancel_queue>>
       ELSE LET t == Head(cancel_queue) IN
            /\ cancel_queue' = Tail(cancel_queue)
            /\ IF state[t] = "SETUP" /\ ~Spawns(t)
               THEN cancel(t)
               ELSE KeepActive /\ UNCHANGED <<handle, notified, late, panic>>
            /\ state' = [state EXCEPT ![t] = "CANCELLED"]
            /\ cancelled' = cancelled \cup {t}
            /\ UNCHANGED <<kind, notify, lpc>>
    /\ UNCHANGED <<spawnVars, todo_queue, permit_queue, instanceVars, userVars, wakeup, stop_flag>>

(* A round of uv_run that runs a callback.                                 *)
Callback(A) ==
    /\ lpc = "waiting" /\ lpc' = "check" /\ A
    /\ UNCHANGED <<queueVars, instanceVars, userVars, wakeup, stop_flag>>

TimerFires(t) == Callback(timer_cb(t) /\ UNCHANGED spawnVars)
EventComes(t) == Callback(event_cb(t) /\ UNCHANGED spawnVars)
HandleCloses(t) == Callback(close_cb(t) /\ UNCHANGED spawnVars)
ProcessExits(t) == Callback(async_spawn_on_exit(t))
DataComes(t, c) == Callback(async_read(t, c))
StreamEnds(t, c) == Callback(async_read_end(t, c))

-----------------------------------------------------------------------------
ChannelsOf(t) == IF kind[t] = "merge" THEN {0} ELSE Channels

Call(u) ==
    \/ \E t \in Tasks : queue_work(u, t)
    \/ \E t \in Tasks, n \in PermitSizes : \E c \in ChannelsOf(t) : eventloop_permit(u, t, c, n)
    \/ \E t \in Tasks, tell \in BOOLEAN : eventloop_cancel_work(u, t, tell)

UserStep(u) ==
    \/ StartCheck(u) \/ StartLock(u) \/ CreateThread(u)
    \/ PushWork(u) \/ SendWakeup(u)
    \/ LoopStop(u) \/ LoopStopWake(u) \/ LoopJoin(u) \/ ForkUnlock(u) \/ ForkDone(u)

LoopStep == EnterLoop \/ CheckStop \/ setup_work \/ permit_work \/ cancel_work

Next ==
    \/ \E u \in Callers : Call(u)
    \/ \E u \in Forkers : ForkLock(u)
    \/ \E u \in Users : UserStep(u)
    \/ LoopStep \/ Wake
    \/ \E t \in Tasks : TimerFires(t) \/ EventComes(t) \/ HandleCloses(t) \/ ProcessExits(t)
    \/ \E t \in Tasks, c \in Channels : DataComes(t, c) \/ StreamEnds(t, c)

Spec == Init /\ [][Next]_vars

(* Threads run, and a round of uv_run serves everything that is ready: the *)
(* wake-up and the closed handles too, however often callbacks come.       *)
FairSpec ==
    /\ Spec
    /\ \A u \in Users : WF_vars(UserStep(u))
    /\ WF_vars(LoopStep) /\ SF_vars(Wake)
    /\ \A t \in Tasks : SF_vars(HandleCloses(t))

-----------------------------------------------------------------------------
Free == {event_loop_free_indices[i] : i \in DOMAIN event_loop_free_indices}
InList(t) == state[t] # "NEW" /\ handle[t] # "none" /\ work_idx[t] >= 0

(* The list of active work is intact: the index in a task's data leads to  *)
(* that task, and the free indices are, once each, the slots that hold no  *)
(* task (add_active_work, remove_active_work).                             *)
ActiveListRight ==
    /\ \A t \in Tasks : InList(t) => /\ Valid(work_idx[t])
                                     /\ event_loop_active[work_idx[t] + 1] = t
    /\ Free = {i \in 0 .. Len(event_loop_active) - 1 : event_loop_active[i + 1] = VMNull}
    /\ Cardinality(Free) = Len(event_loop_free_indices)

(* No callback and no cancellation uses an index that leads to no task:    *)
(* get_active_work and remove_active_work never panic, also not when a     *)
(* cancellation comes after a timer has fired or after a fork.             *)
NoPanic == ~panic

(* A timer, a signal handler, a file watcher or a listening socket emits   *)
(* no event once its cancellation was processed (cancel_work), also when   *)
(* that was before the loop thread got to set the task up (setup_work).    *)
NoEventAfterCancel == \A t \in late : Spawns(t)

Open(t, c) == pipe[t][c] \notin {"none", "unopened", "closed"}

(* A pipe that is read for itself is read exactly as long as there are     *)
(* permits for it: "Update permit count, stop reading if we run out."      *)
(* (async_read, and spawn_permit).  This is not so of pipes that are       *)
(* merged: their permits run out together, but async_read stops only the   *)
(* pipe it was called for.                                                 *)
ReadersFollowPermits ==
    \A t \in Tasks, c \in Channels : kind[t] = "spawn" /\ Open(t, c) =>
        (pipe[t][c] = "reading" <=> permit[t][PermitOf(t, c)] # 0)

(* There is one loop thread at a time, whoever finds none and starts one   *)
(* and whenever fork stops it: none is created while another one has not   *)
(* been joined (MVM_io_eventloop_start, MVM_io_eventloop_join).            *)
OneLoopThread == loop_threads = IF event_loop_thread THEN 1 ELSE 0

(* A task that was handed over is taken up: the loop thread sets it up or  *)
(* drops it as cancelled, also when the task was pushed while fork had     *)
(* stopped the loop.                                                       *)
TaskTakenUp == \A t \in Tasks : t \in created ~> state[t] # "NEW"

(* fork gets the loop thread to stop, whatever it is doing, and returns.   *)
ForkReturns == \A u \in Users : upc[u] = "join" ~> upc[u] = "idle"

CancelPending(t) ==
    /\ kind[t] = "listen" /\ handle[t] = "started"
    /\ notify[t] /\ \E i \in DOMAIN cancel_queue : cancel_queue[i] = t

(* Whoever cancels a listening socket and asks for a notification gets one *)
(* (on_listen_cancelled), when the socket has closed and not before, and   *)
(* only one although it was cancelled twice.                               *)
CancelNotified ==
    /\ \A t \in Tasks : CancelPending(t) ~> notified[t] = 1
    /\ [](\A t \in Tasks : kind[t] = "listen" /\ notified[t] > 0
                              => notified[t] = 1 /\ handle[t] = "closed")
=============================================================================
