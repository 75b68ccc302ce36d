------------------------------- MODULE GcState -------------------------------
(***************************************************************************)
(* The state of MoarVM's stop-the-world garbage collector and of the       *)
(* threads around it, and the elementary steps on it.  Source:             *)
(* src/gc/orchestrate.c, src/core/threadcontext.h, src/core/instance.h.    *)
(*                                                                         *)
(* One action of the modules that extend this one is one step of one       *)
(* thread between two accesses to shared state.  A critical section under  *)
(* mutex_gc_orchestrate is one step: each touches one counter or flag, and *)
(* every other access to it that is not under the mutex is a single atomic *)
(* operation.  uv_cond_wait is two steps: falling asleep (sleeping[t]      *)
(* names the condition variable) and, once awake, testing the predicate    *)
(* again.                                                                  *)
(***************************************************************************)
EXTENDS Integers, FiniteSets

CONSTANTS
    Threads,        \* the thread contexts (MVMThreadContext) of the instance
    Main,           \* the thread that exists at startup
    EventLoop,      \* the async I/O thread, or NoThread when there is none
    NoThread,       \* the null pointer to a thread
    Exiting,        \* bound: the threads whose code may return
    MaxAlloc,       \* bound: calls of MVM_gc_enter_from_allocator
    MaxPass         \* bound: batches of work put into another thread's in-tray

ASSUME ThreadsAssumption ==
    /\ IsFiniteSet(Threads)
    /\ Main \in Threads
    /\ NoThread \notin Threads
    /\ EventLoop \in (Threads \cup {NoThread}) \ {Main}
    /\ Exiting \subseteq Threads \ {Main, EventLoop}

ASSUME BoundsAssumption == MaxAlloc \in Nat /\ MaxPass \in Nat

VARIABLES
    (* MVMInstance *)
    gc_start, gc_finish, gc_ack,            \* vote counters
    gc_intrays_clearing, gc_completed, in_gc,
    threads,                                \* the running threads list
    mutex_threads,                          \* its holder, or NoThread
    wakeup,                                 \* uv_async_t of the event loop is pending
    panic,                                  \* the MVM_panic that ended the process
    (* MVMThreadContext and MVMThread *)
    gc_status, stage, gc_work, gc_in_tray,
    (* where each thread is *)
    pc, sleeping, bret, cont, nested, target, is_coordinator, todo, did_work,
    (* locals of the coordinator that is starting a run *)
    num_threads, to_signal, signalling, had_suspend_request,
    (* how much of the bounds is used *)
    allocs, passes

voteVars   == <<gc_start, gc_finish, gc_ack>>
flagVars   == <<gc_intrays_clearing, gc_completed, in_gc>>
listVars   == <<threads, mutex_threads, stage>>
workVars   == <<gc_work, gc_in_tray, todo, did_work, passes>>
retVars    == <<bret, cont, nested, target>>
signalVars == <<num_threads, to_signal, signalling, had_suspend_request>>
gcVars     == <<voteVars, flagVars, workVars, signalVars, is_coordinator>>
vars == <<voteVars, flagVars, listVars, workVars, retVars, signalVars, gc_status,
          wakeup, panic, pc, sleeping, is_coordinator, allocs>>

-----------------------------------------------------------------------------
(* gc_status is two bits of GC status and two bits of suspend state.       *)
NONE            == 0
INTERRUPT       == 1
UNABLE          == 2
STOLEN          == 3
SUSPEND_REQUEST == 4
SUSPENDED       == 12

GcBits(s)      == s % 4
SuspendBits(s) == s - (s % 4)

Stages == {"unstarted", "starting", "started", "exited", "clearing_nursery", "destroyed"}
Ended  == {"exited", "clearing_nursery", "destroyed"}

CondVars == {"cond_gc_start", "cond_gc_finish", "cond_gc_intrays_clearing",
             "cond_gc_completed", "cond_blocked_can_continue", "tell_threads"}
Awake == "awake"

Panics == {"none", "status_blocking", "status_signalling", "finish_votes",
           "start_votes", "freed_context"}

(* Code points.  Opening: from winning the election to signalling the      *)
(* start.  Collecting: objects are moved and marked.  Finishing: dead      *)
(* objects are freed and threads released.                                 *)
Opening    == {"AckSpin", "LockThreads", "Signal", "SignalOne", "AddVotes", "WakeLoop",
               "WaitReady", "StoreVotes", "SignalStart"}
Joining    == {"EnterInt", "WaitCount", "WaitStart"}
Collecting == {"Collect", "InTrays", "VoteFinish", "ClearIntrays", "Finalize",
               "ClearIntrays2", "IntraysDone"}
Finishing  == {"WaitFinish", "WaitIntrays", "Reset", "Complete", "WaitCompleted", "Ack"}
Mutating   == {"Run", "Start", "Spawn"}
Blocking   == {"Block", "BlockCheck", "Blocked", "JoinCheck", "ThreadJoin", "Poll", "Unblock",
               "UnblockCheck", "UnblockSuspend", "UnblockRequested", "TellWait", "TellCheck"}
Labels == Opening \cup Joining \cup Collecting \cup Finishing \cup Mutating \cup Blocking
              \cup {"Alloc", "ClearAck", "ClearInGc", "Unborn", "Gone"}

Running(t) == panic = "none" /\ sleeping[t] = Awake
At(t, label)  == Running(t) /\ pc[t] = label
Goto(t, label) == pc' = [pc EXCEPT ![t] = label]
Sleep(t, cv)   == sleeping' = [sleeping EXCEPT ![t] = cv]
Broadcast(cv)  == sleeping' = [u \in Threads |-> IF sleeping[u] = cv THEN Awake ELSE sleeping[u]]
BroadcastThenSleep(cv, t) ==
    sleeping' = [u \in Threads |-> IF u = t THEN cv
                                   ELSE IF sleeping[u] = cv THEN Awake ELSE sleeping[u]]
SetStatus(t, s) == gc_status' = [gc_status EXCEPT ![t] = s]

(* Return from MVM_gc_enter_from_* or MVM_gc_mark_thread_unblocked to the  *)
(* caller: the loop of mark_thread_blocked, the loop of an outer           *)
(* mark_thread_unblocked, or the code that called them.                    *)
Return(t) ==
    IF bret[t] # "none" THEN Goto(t, "Block") /\ UNCHANGED <<nested, cont>>
    ELSE IF nested[t] > 0 THEN /\ Goto(t, "Unblock")
                               /\ nested' = [nested EXCEPT ![t] = @ - 1]
                               /\ UNCHANGED cont
    ELSE /\ Goto(t, cont[t])
         /\ cont' = [cont EXCEPT ![t] = "Run"]
         /\ UNCHANGED nested

Init ==
    /\ gc_start = 0 /\ gc_finish = 0 /\ gc_ack = 0
    /\ gc_intrays_clearing = FALSE /\ gc_completed = FALSE /\ in_gc = FALSE
    /\ threads = {Main} /\ mutex_threads = NoThread
    /\ wakeup = FALSE /\ panic = "none"
    /\ gc_status = [t \in Threads |-> NONE]
    /\ stage = [t \in Threads |-> IF t = Main THEN "started" ELSE "unstarted"]
    /\ gc_work = [t \in Threads |-> {}] /\ gc_in_tray = [t \in Threads |-> FALSE]
    /\ pc = [t \in Threads |-> IF t = Main THEN "Run" ELSE "Unborn"]
    /\ sleeping = [t \in Threads |-> Awake]
    /\ bret = [t \in Threads |-> "none"] /\ cont = [t \in Threads |-> "Run"]
    /\ nested = [t \in Threads |-> 0] /\ target = [t \in Threads |-> NoThread]
    /\ is_coordinator = [t \in Threads |-> FALSE]
    /\ todo = [t \in Threads |-> {}] /\ did_work = [t \in Threads |-> FALSE]
    /\ num_threads = 0 /\ to_signal = {} /\ signalling = NoThread
    /\ had_suspend_request = NONE
    /\ allocs = 0 /\ passes = 0
=============================================================================
