-------------------------------- MODULE GcRun --------------------------------
(***************************************************************************)
(* A collection and its end: participants collect for the threads they     *)
(* work for, drain the in-trays, vote to finish, sweep, release the        *)
(* threads and acknowledge.  Source: run_gc, finish_gc and clear_intrays   *)
(* of src/gc/orchestrate.c, and how src/gc/collect.c passes work between   *)
(* threads.                                                                *)
(***************************************************************************)
EXTENDS GcState

(* Work found for an object of another live thread goes into its in-tray.  *)
PassTargets(w) == {u \in threads \ {w} : stage[u] # "destroyed"}

(* MVM_gc_collect on behalf of w empties the in-tray of w and may put work *)
(* into one other in-tray.                                                 *)
Collected(w) ==
    \/ gc_in_tray' = [gc_in_tray EXCEPT ![w] = FALSE] /\ UNCHANGED passes
    \/ \E u \in PassTargets(w) :
          /\ passes < MaxPass
          /\ passes' = passes + 1
          /\ gc_in_tray' = [gc_in_tray EXCEPT ![w] = FALSE, ![u] = TRUE]

(* gc_work[0] is the thread itself; the order of the rest does not matter. *)
NextWork(t, w) == w \in todo[t] /\ (t \in todo[t] => w = t)

Collect(t, w) ==
    /\ At(t, "Collect") /\ NextWork(t, w)
    /\ todo' = [todo EXCEPT ![t] = @ \ {w}]
    /\ Collected(w)
    /\ UNCHANGED <<voteVars, flagVars, listVars, gc_work, did_work, retVars, signalVars,
                   gc_status, wakeup, panic, pc, sleeping, is_coordinator, allocs>>

CollectDone(t) ==
    /\ At(t, "Collect") /\ todo[t] = {}
    /\ todo' = [todo EXCEPT ![t] = gc_work[t]]
    /\ did_work' = [did_work EXCEPT ![t] = FALSE]
    /\ Goto(t, "InTrays")
    /\ UNCHANGED <<voteVars, flagVars, listVars, gc_work, gc_in_tray, passes, retVars, signalVars,
                   gc_status, wakeup, panic, sleeping, is_coordinator, allocs>>

(* process_in_tray for one of the threads this one works for.              *)
ProcessInTray(t, w) ==
    /\ At(t, "InTrays") /\ NextWork(t, w)
    /\ todo' = [todo EXCEPT ![t] = @ \ {w}]
    /\ IF gc_in_tray[w]
       THEN did_work' = [did_work EXCEPT ![t] = TRUE] /\ Collected(w)
       ELSE UNCHANGED <<did_work, gc_in_tray, passes>>
    /\ UNCHANGED <<voteVars, flagVars, listVars, gc_work, retVars, signalVars, gc_status,
                   wakeup, panic, pc, sleeping, is_coordinator, allocs>>

(* End of a pass over the in-trays: another one if this one found work.    *)
InTraysPass(t) ==
    /\ At(t, "InTrays") /\ todo[t] = {}
    /\ IF did_work[t]
       THEN /\ todo' = [todo EXCEPT ![t] = gc_work[t]]
            /\ did_work' = [did_work EXCEPT ![t] = FALSE]
            /\ UNCHANGED pc
       ELSE Goto(t, "VoteFinish") /\ UNCHANGED <<todo, did_work>>
    /\ UNCHANGED <<voteVars, flagVars, listVars, gc_work, gc_in_tray, passes, retVars, signalVars,
                   gc_status, wakeup, panic, sleeping, is_coordinator, allocs>>

AfterFinish(t) == Goto(t, IF is_coordinator[t] THEN "ClearIntrays" ELSE "WaitIntrays")

VoteFinish(t) ==
    /\ At(t, "VoteFinish")
    /\ gc_finish' = gc_finish - 1
    /\ IF gc_finish # 1
       THEN BroadcastThenSleep("cond_gc_finish", t) /\ Goto(t, "WaitFinish")
       ELSE Broadcast("cond_gc_finish") /\ AfterFinish(t)
    /\ UNCHANGED <<gc_start, gc_ack, flagVars, listVars, workVars, retVars, signalVars, gc_status,
                   wakeup, panic, is_coordinator, allocs>>

WaitFinish(t) ==
    /\ At(t, "WaitFinish")
    /\ IF gc_finish # 0
       THEN Sleep(t, "cond_gc_finish") /\ UNCHANGED pc
       ELSE AfterFinish(t) /\ UNCHANGED sleeping
    /\ UNCHANGED <<gcVars, listVars, retVars, gc_status, wakeup, panic, allocs>>

(* clear_intrays: all others have voted, so only the coordinator passes    *)
(* work now, and it goes on until every in-tray is empty.                  *)
ClearIntrays(t, label, next) ==
    /\ At(t, label)
    /\ \/ /\ \E w \in threads : gc_in_tray[w] /\ stage[w] # "destroyed" /\ Collected(w)
          /\ UNCHANGED pc
       \/ /\ \A w \in threads : stage[w] # "destroyed" => ~gc_in_tray[w]
          /\ Goto(t, next)
          /\ UNCHANGED <<gc_in_tray, passes>>
    /\ UNCHANGED <<voteVars, flagVars, listVars, gc_work, todo, did_work, retVars, signalVars,
                   gc_status, wakeup, panic, sleeping, is_coordinator, allocs>>

(* Mutant: the second clear_intrays is missing.                            *)
AfterFinalizeDone == "IntraysDone"
AfterFinalize == "ClearIntrays2"

(* MVM_finalize_walk_queues marks what is kept for finalization, for every *)
(* thread, and may pass work again.                                        *)
FinalizeWalkQueues(t) ==
    /\ At(t, "Finalize")
    /\ \E w \in threads : stage[w] # "destroyed" /\ Collected(w)
    /\ Goto(t, AfterFinalize)
    /\ UNCHANGED <<voteVars, flagVars, listVars, gc_work, todo, did_work, retVars, signalVars,
                   gc_status, wakeup, panic, sleeping, is_coordinator, allocs>>

IntraysDone(t) ==
    /\ At(t, "IntraysDone")
    /\ gc_intrays_clearing' = FALSE
    /\ Broadcast("cond_gc_intrays_clearing")
    /\ todo' = [todo EXCEPT ![t] = gc_work[t]]
    /\ Goto(t, "Reset")
    /\ UNCHANGED <<voteVars, gc_completed, in_gc, listVars, gc_work, gc_in_tray, did_work, passes,
                   retVars, signalVars, gc_status, wakeup, panic, is_coordinator, allocs>>

WaitIntrays(t) ==
    /\ At(t, "WaitIntrays")
    /\ IF gc_intrays_clearing
       THEN Sleep(t, "cond_gc_intrays_clearing") /\ UNCHANGED <<pc, todo>>
       ELSE /\ todo' = [todo EXCEPT ![t] = gc_work[t]]
            /\ Goto(t, "Reset")
            /\ UNCHANGED sleeping
    /\ UNCHANGED <<voteVars, flagVars, listVars, gc_work, gc_in_tray, did_work, passes, retVars,
                   signalVars, gc_status, wakeup, panic, is_coordinator, allocs>>

(* Mutant: a participant's INTERRUPT is not cleared.                       *)
ReleasedStolenOnly(s) == IF GcBits(s) = STOLEN THEN UNABLE + SuspendBits(s) ELSE s

Released(s) == CASE GcBits(s) = STOLEN    -> UNABLE + SuspendBits(s)
                 [] GcBits(s) = INTERRUPT -> NONE + SuspendBits(s)
                 [] OTHER                 -> s

(* Mutant: all threads are let go before the first is swept.               *)
ReleaseAll(t, w) ==
    gc_status' = [u \in Threads |-> IF u \in todo[t] THEN Released(gc_status[u])
                                   ELSE gc_status[u]]
Release(t, w) == SetStatus(w, Released(gc_status[w]))

(* Sweep for the thread w and let it go, or destroy it if this was the     *)
(* last of its two collections after it exited.                            *)
Reset(t, w) ==
    /\ At(t, "Reset") /\ NextWork(t, w)
    /\ todo' = [todo EXCEPT ![t] = @ \ {w}]
    /\ IF stage[w] = "clearing_nursery"
       THEN /\ stage' = [stage EXCEPT ![w] = "destroyed"]
            /\ gc_work' = [gc_work EXCEPT ![t] = @ \ {w}]
            /\ UNCHANGED gc_status
       ELSE /\ stage' = [stage EXCEPT ![w] = IF @ = "exited" THEN "clearing_nursery" ELSE @]
            /\ Release(t, w)
            /\ UNCHANGED gc_work
    /\ UNCHANGED <<voteVars, flagVars, threads, mutex_threads, gc_in_tray, did_work, passes,
                   retVars, signalVars, wakeup, panic, pc, sleeping, is_coordinator, allocs>>

ResetDone(t) ==
    /\ At(t, "Reset") /\ todo[t] = {}
    /\ Goto(t, IF is_coordinator[t] THEN "Complete" ELSE "WaitCompleted")
    /\ UNCHANGED <<gcVars, listVars, retVars, gc_status, wakeup, panic, sleeping, allocs>>

Complete(t) ==
    /\ At(t, "Complete")
    /\ gc_completed' = TRUE
    /\ Broadcast("cond_gc_completed")
    /\ Goto(t, "Ack")
    /\ UNCHANGED <<voteVars, gc_intrays_clearing, in_gc, listVars, workVars, retVars, signalVars,
                   gc_status, wakeup, panic, is_coordinator, allocs>>

WaitCompleted(t) ==
    /\ At(t, "WaitCompleted")
    /\ IF ~gc_completed
       THEN Sleep(t, "cond_gc_completed") /\ UNCHANGED pc
       ELSE Goto(t, "Ack") /\ UNCHANGED sleeping
    /\ UNCHANGED <<gcVars, listVars, retVars, gc_status, wakeup, panic, allocs>>

(* Acknowledge; the last to do so clears gc_ack and in_gc.  gc_work is     *)
(* emptied here rather than on the next entry: nothing reads it between.   *)
Ack(t) ==
    /\ At(t, "Ack")
    /\ gc_ack' = gc_ack - 1
    /\ gc_work' = [gc_work EXCEPT ![t] = {}]
    /\ is_coordinator' = [is_coordinator EXCEPT ![t] = FALSE]
    /\ IF gc_ack = 2 THEN Goto(t, "ClearAck") /\ UNCHANGED <<nested, cont>> ELSE Return(t)
    /\ UNCHANGED <<gc_start, gc_finish, flagVars, listVars, gc_in_tray, todo, did_work, passes,
                   bret, target, signalVars, gc_status, wakeup, panic, sleeping, allocs>>

ClearAck(t) ==
    /\ At(t, "ClearAck")
    /\ gc_ack' = 0
    /\ Goto(t, "ClearInGc")
    /\ UNCHANGED <<gc_start, gc_finish, flagVars, listVars, workVars, retVars, signalVars,
                   gc_status, wakeup, panic, sleeping, is_coordinator, allocs>>

(* Mutant: the threads waiting for the end of the run are not told.        *)
TellNobody == UNCHANGED sleeping
TellBlocked == Broadcast("cond_blocked_can_continue")

ClearInGc(t) ==
    /\ At(t, "ClearInGc")
    /\ in_gc' = FALSE
    /\ TellBlocked
    /\ Return(t)
    /\ UNCHANGED <<voteVars, gc_intrays_clearing, gc_completed, listVars, workVars, bret, target,
                   signalVars, gc_status, wakeup, panic, is_coordinator, allocs>>
=============================================================================
