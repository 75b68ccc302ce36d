------------------------------ MODULE GcOpening ------------------------------
(***************************************************************************)
(* How a collection starts: a thread wins the election, interrupts the     *)
(* threads that run and steals the work of those that are blocked, and all *)
(* of them agree to begin.  Source: MVM_gc_enter_from_allocator,           *)
(* MVM_gc_enter_from_interrupt, signal_all and signal_one_thread of        *)
(* src/gc/orchestrate.c.                                                   *)
(***************************************************************************)
EXTENDS GcState

(* MVM_gc_enter_from_interrupt.                                            *)

EnterFromInterrupt(t) ==
    /\ At(t, "EnterInt")
    /\ IF SuspendBits(gc_status[t]) = SUSPEND_REQUEST
       THEN /\ bret' = [bret EXCEPT ![t] = "TellWait"]
            /\ Goto(t, "Block")
            /\ UNCHANGED <<gc_work, nested, cont>>
       ELSE IF gc_status[t] = UNABLE + SUSPENDED
       THEN Return(t) /\ UNCHANGED <<gc_work, bret>>
       ELSE /\ gc_work' = [gc_work EXCEPT ![t] = {t}]
            /\ Goto(t, "WaitCount")
            /\ UNCHANGED <<bret, nested, cont>>
    /\ UNCHANGED <<voteVars, flagVars, listVars, gc_in_tray, todo, did_work, passes, target,
                   signalVars, gc_status, wakeup, panic, sleeping, is_coordinator, allocs>>

(* Suspended for the debugger: uv_cond_wait on tell_threads, then a look   *)
(* at the suspend state.                                                   *)
TellWait(t) ==
    /\ At(t, "TellWait")
    /\ Sleep(t, "tell_threads")
    /\ Goto(t, "TellCheck")
    /\ UNCHANGED <<gcVars, listVars, retVars, gc_status, wakeup, panic, allocs>>

TellCheck(t) ==
    /\ At(t, "TellCheck")
    /\ Goto(t, IF SuspendBits(gc_status[t]) = NONE THEN "Unblock" ELSE "TellWait")
    /\ UNCHANGED <<gcVars, listVars, retVars, gc_status, wakeup, panic, sleeping, allocs>>

(* Vote to start, once the coordinator has counted the participants.       *)
VoteStart(t) ==
    /\ At(t, "WaitCount")
    /\ IF gc_start < 2
       THEN Sleep(t, "cond_gc_start") /\ UNCHANGED <<gc_start, pc>>
       ELSE /\ gc_start' = gc_start - 1
            /\ Broadcast("cond_gc_start")
            /\ Goto(t, "WaitStart")
    /\ UNCHANGED <<gc_finish, gc_ack, flagVars, listVars, workVars, retVars, signalVars,
                   gc_status, wakeup, panic, is_coordinator, allocs>>

WaitStart(t) ==
    /\ At(t, "WaitStart")
    /\ IF gc_start # 0
       THEN Sleep(t, "cond_gc_start") /\ UNCHANGED <<todo, pc>>
       ELSE /\ todo' = [todo EXCEPT ![t] = gc_work[t]]
            /\ Goto(t, "Collect")
            /\ UNCHANGED sleeping
    /\ UNCHANGED <<voteVars, flagVars, listVars, gc_work, gc_in_tray, did_work, passes, retVars,
                   signalVars, gc_status, wakeup, panic, is_coordinator, allocs>>

-----------------------------------------------------------------------------
(* MVM_gc_enter_from_allocator.                                            *)

Elect(t) ==
    /\ At(t, "Alloc")
    /\ IF gc_start = 0
       THEN gc_start' = 1 /\ Goto(t, "AckSpin")
       ELSE Goto(t, "EnterInt") /\ UNCHANGED gc_start
    /\ UNCHANGED <<gc_finish, gc_ack, flagVars, listVars, workVars, retVars, signalVars,
                   gc_status, wakeup, panic, sleeping, is_coordinator, allocs>>

(* The spin on gc_ack ends.  Mutant: it is missing.                        *)
NoAckWait == TRUE
Acknowledged == gc_ack = 0

(* The previous run is acknowledged by all: set up the new one.            *)
BeginRun(t) ==
    /\ At(t, "AckSpin") /\ Acknowledged
    /\ gc_work' = [gc_work EXCEPT ![t] = {t}]
    /\ gc_intrays_clearing' = TRUE /\ gc_completed' = FALSE
    /\ num_threads' = 0
    /\ Goto(t, "LockThreads")
    /\ UNCHANGED <<voteVars, in_gc, listVars, gc_in_tray, todo, did_work, passes, retVars,
                   to_signal, signalling, had_suspend_request, gc_status, wakeup, panic,
                   sleeping, is_coordinator, allocs>>

LockThreads(t) ==
    /\ At(t, "LockThreads") /\ mutex_threads = NoThread
    /\ mutex_threads' = t
    /\ in_gc' = TRUE
    /\ to_signal' = threads
    /\ Goto(t, "Signal")
    /\ UNCHANGED <<voteVars, gc_intrays_clearing, gc_completed, threads, stage, workVars, retVars,
                   num_threads, signalling, had_suspend_request, gc_status, wakeup, panic,
                   sleeping, is_coordinator, allocs>>

(* Mutant: an exited thread is not queued for its last collections.        *)
TakesOverNone(u) == FALSE
TakesOver(u) == stage[u] \in {"exited", "clearing_nursery"}

(* One turn of signal_all's loop: by the stage of the thread u, signal it, *)
(* take over its last collections, or skip it.                             *)
Signal(t, u) ==
    /\ At(t, "Signal") /\ u \in to_signal
    /\ to_signal' = to_signal \ {u}
    /\ \/ /\ stage[u] \in {"starting", "started"} /\ u # t
          /\ signalling' = u /\ had_suspend_request' = NONE
          /\ Goto(t, "SignalOne")
          /\ UNCHANGED gc_work
       \/ /\ TakesOver(u)
          /\ gc_work' = [gc_work EXCEPT ![t] = @ \cup {u}]
          /\ UNCHANGED <<signalling, had_suspend_request, pc>>
       \/ /\ ~TakesOver(u) /\ (stage[u] \in Ended \/ u = t)
          /\ UNCHANGED <<gc_work, signalling, had_suspend_request, pc>>
    /\ UNCHANGED <<voteVars, flagVars, listVars, gc_in_tray, todo, did_work, passes, retVars,
                   num_threads, gc_status, wakeup, panic, sleeping, is_coordinator, allocs>>

(* Mutant: a blocked thread is taken over but not marked stolen.           *)
NotStolen(s) == s
Stolen(s) == STOLEN + SuspendBits(s)

(* signal_one_thread.  The load of a suspended status is a step of its     *)
(* own, because had_suspend_request outlives the turn of the loop; where   *)
(* no disjunct is enabled the loop spins.                                  *)
SignalOne(t) ==
    /\ At(t, "SignalOne")
    /\ LET u == signalling
           s == gc_status[u]
           Done == signalling' = NoThread /\ had_suspend_request' = NONE /\ Goto(t, "Signal")
       IN \/ /\ s = NONE
             /\ SetStatus(u, INTERRUPT)
             /\ num_threads' = num_threads + 1
             /\ Done
             /\ UNCHANGED <<gc_work, panic>>
          \/ /\ GcBits(s) = UNABLE /\ SuspendBits(s) \notin {NONE, had_suspend_request}
             /\ had_suspend_request' = SuspendBits(s)
             /\ UNCHANGED <<gc_status, num_threads, signalling, pc, gc_work, panic>>
          \/ /\ s = UNABLE + had_suspend_request
             /\ SetStatus(u, Stolen(s))
             /\ gc_work' = [gc_work EXCEPT ![t] = @ \cup {u}]
             /\ Done
             /\ UNCHANGED <<num_threads, panic>>
          \/ /\ s \in {INTERRUPT, INTERRUPT + SUSPEND_REQUEST} \/ GcBits(s) = STOLEN
             /\ Done
             /\ UNCHANGED <<gc_status, num_threads, gc_work, panic>>
          \/ /\ s \in {NONE + SUSPEND_REQUEST, NONE + SUSPENDED, INTERRUPT + SUSPENDED}
             /\ panic' = "status_signalling"
             /\ UNCHANGED <<gc_status, num_threads, signalling, had_suspend_request, pc, gc_work>>
    /\ UNCHANGED <<voteVars, flagVars, listVars, gc_in_tray, todo, did_work, passes, retVars,
                   to_signal, wakeup, sleeping, is_coordinator, allocs>>

SignalDone(t) ==
    /\ At(t, "Signal") /\ to_signal = {}
    /\ mutex_threads' = NoThread
    /\ Goto(t, "AddVotes")
    /\ UNCHANGED <<gcVars, threads, stage, retVars, gc_status, wakeup, panic, sleeping, allocs>>

AddVotes(t) ==
    /\ At(t, "AddVotes")
    /\ gc_start' = gc_start + num_threads
    /\ Broadcast("cond_gc_start")
    /\ Goto(t, "WakeLoop")
    /\ UNCHANGED <<gc_finish, gc_ack, flagVars, listVars, workVars, retVars, signalVars,
                   gc_status, wakeup, panic, is_coordinator, allocs>>

(* Mutant: the event loop thread is not woken.                             *)
NoAsyncSend == wakeup
AsyncSend == EventLoop \in threads

(* uv_async_send, when there is an event loop.                             *)
WakeLoop(t) ==
    /\ At(t, "WakeLoop")
    /\ wakeup' = AsyncSend
    /\ Goto(t, "WaitReady")
    /\ UNCHANGED <<gcVars, listVars, retVars, gc_status, panic, sleeping, allocs>>

(* Mutant: the coordinator does not wait for the others to vote.           *)
NobodyWaited == TRUE
AllVoted == gc_start <= 1

WaitReady(t) ==
    /\ At(t, "WaitReady")
    /\ IF AllVoted
       THEN Goto(t, "StoreVotes") /\ UNCHANGED sleeping
       ELSE Sleep(t, "cond_gc_start") /\ UNCHANGED pc
    /\ UNCHANGED <<gcVars, listVars, retVars, gc_status, wakeup, panic, allocs>>

FinishVotes == num_threads + 1

StoreVotes(t) ==
    /\ At(t, "StoreVotes")
    /\ IF gc_finish # 0
       THEN panic' = "finish_votes" /\ UNCHANGED <<gc_finish, gc_ack, pc>>
       ELSE /\ gc_finish' = FinishVotes
            /\ gc_ack' = num_threads + 2
            /\ Goto(t, "SignalStart")
            /\ UNCHANGED panic
    /\ UNCHANGED <<gc_start, flagVars, listVars, workVars, retVars, signalVars, gc_status,
                   wakeup, sleeping, is_coordinator, allocs>>

(* The coordinator's own start vote; it then enters run_gc.                *)
SignalStart(t) ==
    /\ At(t, "SignalStart")
    /\ gc_start' = gc_start - 1
    /\ IF gc_start # 1
       THEN panic' = "start_votes" /\ UNCHANGED <<pc, sleeping, todo, is_coordinator, num_threads>>
       ELSE /\ Broadcast("cond_gc_start")
            /\ todo' = [todo EXCEPT ![t] = gc_work[t]]
            /\ is_coordinator' = [is_coordinator EXCEPT ![t] = TRUE]
            /\ num_threads' = 0
            /\ Goto(t, "Collect")
            /\ UNCHANGED panic
    /\ UNCHANGED <<gc_finish, gc_ack, flagVars, listVars, gc_work, gc_in_tray, did_work, passes,
                   retVars, to_signal, signalling, had_suspend_request, gc_status, wakeup, allocs>>
=============================================================================
