------------------------------- MODULE GcDebug -------------------------------
(***************************************************************************)
(* The debug server next to the collector: its thread suspends and resumes *)
(* the others through the suspend bits of gc_status, the same word the     *)
(* stop-the-world protocol uses, and a thread that hits a breakpoint       *)
(* suspends itself.  Source: src/debug/debugserver.c.                      *)
(*                                                                         *)
(* The debug server's thread is one of Threads.  It does each request      *)
(* inside a blocking operation (mark_thread_blocked ... unblocked), so a   *)
(* request is a BeginBlockingOp, steps at "Blocked", and an EndBlockingOp. *)
(***************************************************************************)
EXTENDS GcOrchestrate

CONSTANTS
    Debugger,       \* the thread of the debug server
    MaxRequest      \* bound: suspend and resume requests, and breakpoints hit

ASSUME DebuggerAssumption ==
    /\ Debugger \in Threads \ ({Main, EventLoop} \cup Exiting)
    /\ MaxRequest \in Nat

VARIABLES
    request,        \* the command being carried out, or "none"
    requested,      \* the thread it is about (to_do)
    requests        \* how much of MaxRequest is used

debugVars == <<request, requested, requests>>

DebugInit ==
    /\ Init
    /\ request = "none" /\ requested = NoThread /\ requests = 0

(* find_thread_by_id: any listed thread but the debug server's own.        *)
Eligible(u) == u \in threads \ {Debugger} /\ stage[u] # "destroyed"

(* Request r about the thread u enters its blocking operation.             *)
Begin(r, u) ==
    /\ requests < MaxRequest /\ requests' = requests + 1
    /\ Eligible(u) /\ mutex_threads = NoThread
    /\ BeginBlockingOp(Debugger)
    /\ request' = r /\ requested' = u

SuspendOne(u) == Begin("suspend", u)

(* A thread that is not suspended and not asked to is refused at once.     *)
ResumeOne(u) ==
    /\ \/ gc_status[u] = UNABLE + SUSPENDED
       \/ SuspendBits(gc_status[u]) = SUSPEND_REQUEST
    /\ Begin("resume", u)

AtRequest(r) == At(Debugger, "Blocked") /\ request = r

(* The command is done: the reply is sent and the blocking operation ends. *)
Reply ==
    /\ request' = "done" /\ requested' = NoThread
    /\ UNCHANGED requests

EndRequest ==
    /\ request = "done" /\ EndBlockingOp(Debugger)
    /\ request' = "none"
    /\ UNCHANGED <<requested, requests>>

(* Between requests the debug server waits for a message, marked blocked.  *)
AwaitMessage ==
    /\ request = "none" /\ (BeginBlockingOp(Debugger) \/ EndBlockingOp(Debugger))
    /\ UNCHANGED debugVars

(* Mutant: the thread is marked suspended although it still runs.          *)
SuspendingAtOnce(s) == IF s = NONE THEN INTERRUPT + SUSPENDED ELSE s

(* The status a suspend request leaves: none of the compare-and-swaps      *)
(* applies to the other statuses, and the loop spins.                      *)
Suspending(s) ==
    CASE s = NONE                            -> INTERRUPT + SUSPEND_REQUEST
      [] s = UNABLE                          -> UNABLE + SUSPEND_REQUEST
      [] SuspendBits(s) = SUSPEND_REQUEST    -> s

CanSuspend(s) == s \in {NONE, UNABLE} \/ SuspendBits(s) = SUSPEND_REQUEST

RequestThreadSuspends ==
    /\ AtRequest("suspend") /\ CanSuspend(gc_status[requested])
    /\ SetStatus(requested, Suspending(gc_status[requested]))
    /\ Reply
    /\ UNCHANGED <<gcVars, listVars, retVars, wakeup, panic, pc, sleeping, allocs>>

(* A suspended thread is set to blocked and told; a request it has not     *)
(* seen yet is taken back.                                                 *)
Resuming(s) ==
    CASE s = UNABLE + SUSPENDED              -> UNABLE
      [] s = UNABLE + SUSPEND_REQUEST        -> UNABLE
      [] s = INTERRUPT + SUSPEND_REQUEST     -> NONE

CanResume(s) ==
    s \in {UNABLE + SUSPENDED, UNABLE + SUSPEND_REQUEST, INTERRUPT + SUSPEND_REQUEST}

RequestThreadResumes ==
    /\ AtRequest("resume") /\ CanResume(gc_status[requested])
    /\ SetStatus(requested, Resuming(gc_status[requested]))
    /\ IF gc_status[requested] = UNABLE + SUSPENDED
       THEN request' = "tell" /\ UNCHANGED <<requested, requests>>
       ELSE Reply
    /\ UNCHANGED <<gcVars, listVars, retVars, wakeup, panic, pc, sleeping, allocs>>

(* uv_cond_broadcast of tell_threads, under the mutex_cond.                *)
TellThreads ==
    /\ AtRequest("tell")
    /\ Broadcast("tell_threads")
    /\ Reply
    /\ UNCHANGED <<gcVars, listVars, retVars, gc_status, wakeup, panic, pc, allocs>>

(* The thread to resume has its work stolen: wait for the collection.      *)
ResumeWaits ==
    /\ AtRequest("resume") /\ GcBits(gc_status[requested]) = STOLEN /\ in_gc
    /\ Sleep(Debugger, "cond_blocked_can_continue")
    /\ UNCHANGED <<gcVars, listVars, retVars, gc_status, wakeup, panic, pc, allocs, debugVars>>

DebugStep ==
    \/ RequestThreadSuspends \/ RequestThreadResumes \/ TellThreads \/ ResumeWaits
    \/ EndRequest

(* stop_point_hit, on a thread that is not interrupted; one that is joins  *)
(* the collection or suspends first (SyncPoint).                           *)
StopPointHit(t) ==
    /\ requests < MaxRequest /\ requests' = requests + 1
    /\ At(t, "Run") /\ t # Debugger /\ gc_status[t] = NONE
    /\ SetStatus(t, INTERRUPT + SUSPEND_REQUEST)
    /\ Goto(t, "EnterInt")
    /\ UNCHANGED <<gcVars, listVars, retVars, wakeup, panic, sleeping, allocs,
                   request, requested>>

DebugNext ==
    \/ \E u \in Threads : SuspendOne(u) \/ ResumeOne(u)
    \/ DebugStep \/ AwaitMessage
    \/ \E t \in Threads : StopPointHit(t)
    \/ /\ \/ \E t \in Threads : t # Debugger /\ Choose(t)
          \/ \E t \in Threads : Step(t) \/ SpuriousWakeup(t) \/ UseFreedContext(t)
          \/ Halted
       /\ UNCHANGED debugVars

allVars == <<vars, debugVars>>
DebugSpec == DebugInit /\ [][DebugNext]_allVars

-----------------------------------------------------------------------------
(* A thread whose status says suspended is in the suspend loop of          *)
(* MVM_gc_enter_from_interrupt, or blocked: it runs no user code and takes *)
(* no part in a collection.                                                *)
SuspendedNotRunning ==
    \A t \in Threads :
        SuspendBits(gc_status[t]) = SUSPENDED => pc[t] \in Blocking \cup {"Gone"}

(* A thread whose work is stolen stays blocked until it is given back.     *)
StolenStaysBlocked ==
    \A t \in Threads : GcBits(gc_status[t]) = STOLEN => pc[t] \in Blocking \cup {"Gone"}
=============================================================================
