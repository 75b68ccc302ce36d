------------------------------ MODULE GcMutator ------------------------------
(***************************************************************************)
(* What a thread does outside a collection: it allocates, starts and joins *)
(* other threads, exits, and marks itself blocked and unblocked around     *)
(* whatever may wait.  Source: src/core/threads.c, src/io/eventloop.c, and *)
(* MVM_gc_mark_thread_blocked and MVM_gc_mark_thread_unblocked of          *)
(* src/gc/orchestrate.c.                                                   *)
(***************************************************************************)
EXTENDS GcState

(* The mutator: what the code a thread runs may do next.                   *)

(* An allocation does not fit in the nursery.                              *)
Allocate(t) ==
    /\ At(t, "Run") /\ allocs < MaxAlloc
    /\ allocs' = allocs + 1
    /\ Goto(t, "Alloc")
    /\ UNCHANGED <<gcVars, listVars, retVars, gc_status, wakeup, panic, sleeping>>

(* GC_SYNC_POINT, and the same test at the head of an allocation.          *)
SyncPoint(t) ==
    /\ At(t, "Run") /\ gc_status[t] # NONE
    /\ Goto(t, "EnterInt")
    /\ UNCHANGED <<gcVars, listVars, retVars, gc_status, wakeup, panic, sleeping, allocs>>

(* A blocking operation: mark_thread_blocked, wait, mark_thread_unblocked. *)
BeginBlockingOp(t) ==
    /\ At(t, "Run")
    /\ bret' = [bret EXCEPT ![t] = "Blocked"]
    /\ Goto(t, "Block")
    /\ UNCHANGED <<gcVars, listVars, cont, nested, target, gc_status, wakeup, panic,
                   sleeping, allocs>>

EndBlockingOp(t) ==
    /\ At(t, "Blocked")
    /\ Goto(t, "Unblock")
    /\ UNCHANGED <<gcVars, listVars, retVars, gc_status, wakeup, panic, sleeping, allocs>>

(* MVM_thread_new, and MVM_thread_run up to its retry loop: the child's    *)
(* context is marked blocked before it is in the threads list.             *)
Spawn(t, u) ==
    /\ At(t, "Run") /\ stage[u] = "unstarted" /\ gc_status[u] = NONE
    /\ SetStatus(u, UNABLE)
    /\ target' = [target EXCEPT ![t] = u]
    /\ Goto(t, "Spawn")
    /\ UNCHANGED <<gcVars, listVars, bret, cont, nested, wakeup, panic, sleeping, allocs>>

(* One turn of the retry loop of MVM_thread_run, uv_thread_create included. *)
SpawnInsert(t) ==
    /\ At(t, "Spawn") /\ mutex_threads = NoThread
    /\ IF gc_status[t] = NONE
       THEN LET u == target[t] IN
            /\ threads' = threads \cup {u}
            /\ stage' = [stage EXCEPT ![u] = "starting"]
            /\ pc' = [pc EXCEPT ![u] = "Unblock", ![t] = "Run"]
            /\ cont' = [cont EXCEPT ![u] = "Start"]
            /\ target' = [target EXCEPT ![t] = NoThread]
       ELSE /\ Goto(t, "EnterInt")
            /\ cont' = [cont EXCEPT ![t] = "Spawn"]
            /\ UNCHANGED <<threads, stage, target>>
    /\ UNCHANGED <<gcVars, mutex_threads, bret, nested, gc_status, wakeup, panic,
                   sleeping, allocs>>

(* start_thread once it is unblocked; the event loop thread enters uv_run.  *)
StartThread(t) ==
    /\ At(t, "Start")
    /\ stage' = [stage EXCEPT ![t] = "started"]
    /\ Goto(t, IF t = EventLoop THEN "Poll" ELSE "Run")
    /\ UNCHANGED <<gcVars, threads, mutex_threads, retVars, gc_status, wakeup, panic,
                   sleeping, allocs>>

(* start_thread after the interpreter returned.                            *)
ExitThread(t) ==
    /\ At(t, "Run") /\ t \in Exiting
    /\ stage' = [stage EXCEPT ![t] = "exited"]
    /\ bret' = [bret EXCEPT ![t] = "Gone"]
    /\ Goto(t, "Block")
    /\ UNCHANGED <<gcVars, threads, mutex_threads, cont, nested, target, gc_status,
                   wakeup, panic, sleeping, allocs>>

(* try_join: blocks, waits for the thread if it has not ended, unblocks,   *)
(* and then calls MVM_gc_enter_from_allocator.                             *)
Join(t, u) ==
    /\ At(t, "Run") /\ t = Main /\ stage[u] # "unstarted" /\ u \in Exiting
    /\ allocs < MaxAlloc
    /\ allocs' = allocs + 1
    /\ bret' = [bret EXCEPT ![t] = "JoinCheck"]
    /\ cont' = [cont EXCEPT ![t] = "Alloc"]
    /\ target' = [target EXCEPT ![t] = u]
    /\ Goto(t, "Block")
    /\ UNCHANGED <<gcVars, listVars, nested, gc_status, wakeup, panic, sleeping>>

JoinCheck(t) ==
    /\ At(t, "JoinCheck")
    /\ Goto(t, IF stage[target[t]] \in Ended THEN "Unblock" ELSE "ThreadJoin")
    /\ UNCHANGED <<gcVars, listVars, retVars, gc_status, wakeup, panic, sleeping, allocs>>

ThreadJoin(t) ==
    /\ At(t, "ThreadJoin") /\ pc[target[t]] = "Gone"
    /\ Goto(t, "Unblock")
    /\ UNCHANGED <<gcVars, listVars, retVars, gc_status, wakeup, panic, sleeping, allocs>>

(* The event loop thread returns into uv_run, where it waits without being *)
(* marked blocked; uv_async_send makes it run async_handler, which begins  *)
(* with GC_SYNC_POINT.                                                     *)
LoopPoll(t) ==
    /\ At(t, "Run") /\ t = EventLoop
    /\ Goto(t, "Poll")
    /\ UNCHANGED <<gcVars, listVars, retVars, gc_status, wakeup, panic, sleeping, allocs>>

AsyncHandler(t) ==
    /\ At(t, "Poll") /\ wakeup
    /\ wakeup' = FALSE
    /\ Goto(t, IF gc_status[t] # NONE THEN "EnterInt" ELSE "Run")
    /\ UNCHANGED <<gcVars, listVars, retVars, gc_status, panic, sleeping, allocs>>

(* A thread queues work for the event loop and wakes it.                   *)
QueueWork(t) ==
    /\ At(t, "Run") /\ EventLoop \in threads /\ ~wakeup
    /\ wakeup' = TRUE
    /\ UNCHANGED <<gcVars, listVars, retVars, gc_status, panic, pc, sleeping, allocs>>

-----------------------------------------------------------------------------
(* MVM_gc_mark_thread_blocked and MVM_gc_mark_thread_unblocked.            *)

Block(t) ==
    /\ At(t, "Block")
    /\ IF gc_status[t] = NONE
       THEN /\ SetStatus(t, UNABLE)
            /\ Goto(t, bret[t])
            /\ bret' = [bret EXCEPT ![t] = "none"]
       ELSE /\ Goto(t, "BlockCheck")
            /\ UNCHANGED <<gc_status, bret>>
    /\ UNCHANGED <<gcVars, listVars, cont, nested, target, wakeup, panic, sleeping,
                   allocs>>

BlockCheck(t) ==
    /\ At(t, "BlockCheck")
    /\ \/ /\ gc_status[t] = INTERRUPT + SUSPEND_REQUEST
          /\ SetStatus(t, UNABLE + SUSPENDED)
          /\ Goto(t, bret[t])
          /\ bret' = [bret EXCEPT ![t] = "none"]
          /\ UNCHANGED panic
       \/ /\ gc_status[t] = INTERRUPT
          /\ Goto(t, "EnterInt")
          /\ UNCHANGED <<gc_status, bret, panic>>
       \/ /\ gc_status[t] \notin {INTERRUPT, INTERRUPT + SUSPEND_REQUEST}
          /\ panic' = "status_blocking"
          /\ UNCHANGED <<gc_status, bret, pc>>
    /\ UNCHANGED <<gcVars, listVars, cont, nested, target, wakeup, sleeping, allocs>>

Unblock(t) ==
    /\ At(t, "Unblock")
    /\ IF gc_status[t] = UNABLE
       THEN SetStatus(t, NONE) /\ Return(t)
       ELSE Goto(t, "UnblockCheck") /\ UNCHANGED <<gc_status, nested, cont>>
    /\ UNCHANGED <<gcVars, listVars, bret, target, wakeup, panic, sleeping, allocs>>

(* Under mutex_gc_orchestrate: wait for the run to end if there is one.    *)
UnblockCheck(t) ==
    /\ At(t, "UnblockCheck")
    /\ IF in_gc
       THEN Sleep(t, "cond_blocked_can_continue") /\ Goto(t, "Unblock")
       ELSE Goto(t, "UnblockSuspend") /\ UNCHANGED sleeping
    /\ UNCHANGED <<gcVars, listVars, retVars, gc_status, wakeup, panic, allocs>>

(* Mutant: any status but UNABLE ends the loop.                            *)
UnblockedUnlessUnable(s) == s # UNABLE
UnblockedAlready(s) == s = NONE

UnblockSuspend(t) ==
    /\ At(t, "UnblockSuspend")
    /\ IF SuspendBits(gc_status[t]) = SUSPEND_REQUEST
       THEN Goto(t, "UnblockRequested") /\ UNCHANGED <<nested, cont>>
       ELSE IF UnblockedAlready(gc_status[t])
       THEN Return(t)
       ELSE Goto(t, "Unblock") /\ UNCHANGED <<nested, cont>>
    /\ UNCHANGED <<gcVars, listVars, bret, target, gc_status, wakeup, panic, sleeping,
                   allocs>>

(* The inner loop: spins until one of its two compare-and-swaps succeeds.  *)
UnblockRequested(t) ==
    /\ At(t, "UnblockRequested")
    /\ \/ /\ gc_status[t] = UNABLE + SUSPEND_REQUEST
          /\ SetStatus(t, INTERRUPT + SUSPEND_REQUEST)
          /\ nested' = [nested EXCEPT ![t] = @ + 1]
          /\ Goto(t, "EnterInt")
          /\ UNCHANGED cont
       \/ gc_status[t] = UNABLE /\ SetStatus(t, NONE) /\ Return(t)
    /\ UNCHANGED <<gcVars, listVars, bret, target, wakeup, panic, sleeping, allocs>>
=============================================================================
