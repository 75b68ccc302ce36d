------------------------------ MODULE AsyncTask ------------------------------
(***************************************************************************)
(* The tasks of the event loop thread: the list of active work             *)
(* (io/eventloop.c) and what setting up, cancelling and firing does for    *)
(* timers (io/timers.c), signal handlers (io/signals.c), file watchers     *)
(* (io/filewatchers.c) and listening sockets (io/asyncsocket.c).           *)
(*                                                                         *)
(* A task's data holds the index of its active work and a libuv handle; a  *)
(* callback reaches its task through that index only.  libuv calls back a  *)
(* handle that was started, never one that was stopped or closed, and      *)
(* calls the close callback of a handle once.                              *)
(***************************************************************************)
EXTENDS Integers, Sequences, FiniteSets

CONSTANTS
    Tasks,
    Scenarios,      \* the kinds the tasks may have: a set of functions on Tasks
    VMNull

Kinds == {"once", "repeat", "signal", "watch", "listen", "spawn", "merge", "unused"}
Channels == {1, 2}          \* stdout and stderr of a process

ASSUME TaskAssumption ==
    /\ Scenarios \subseteq [Tasks -> Kinds]
    /\ VMNull \notin Tasks

VARIABLES
    kind,           \* task -> the operations table it was created with
    state,          \* task -> MVM_ASYNC_TASK_STATE_*
    work_idx,       \* task -> index into event_loop_active, -1 after the work was removed
    handle,         \* task -> state of its libuv handle
    event_loop_active, event_loop_free_indices,
    notify,         \* task -> a cancellation notification was asked for
    notified,       \* task -> how many were sent
    cancelled,      \* history: the tasks whose cancellation was processed
    late,           \* history: the tasks that emitted an event after that
    panic           \* MVM_panic was called

taskVars == <<kind, state, work_idx, handle, event_loop_active, event_loop_free_indices,
              notify, notified, cancelled, late, panic>>

TaskInit ==
    /\ kind \in Scenarios
    /\ state = [t \in Tasks |-> "NEW"]
    /\ work_idx = [t \in Tasks |-> 0]
    /\ handle = [t \in Tasks |-> "none"]
    /\ event_loop_active = <<>> /\ event_loop_free_indices = <<>>
    /\ notify = [t \in Tasks |-> FALSE] /\ notified = [t \in Tasks |-> 0]
    /\ cancelled = {} /\ late = {}
    /\ panic = FALSE

-----------------------------------------------------------------------------
(* The list of active work, indexed from 0.                                *)
Valid(i) == i >= 0 /\ i < Len(event_loop_active)

(* Mutant: the length is taken for the index although an index is free.    *)
NextIndexAppends == Len(event_loop_active)
NextIndex ==
    IF event_loop_free_indices # <<>>
    THEN event_loop_free_indices[Len(event_loop_free_indices)]
    ELSE Len(event_loop_active)

add_active_work(t) ==
    /\ work_idx' = [work_idx EXCEPT ![t] = NextIndex]
    /\ event_loop_active' =
         IF Valid(NextIndex) THEN [event_loop_active EXCEPT ![NextIndex + 1] = t]
                             ELSE Append(event_loop_active, t)
    /\ event_loop_free_indices' =
         SubSeq(event_loop_free_indices, 1, Len(event_loop_free_indices) - 1)

(* Does get_active_work return a task for this index?                      *)
get_active_work(i) == Valid(i) /\ event_loop_active[i + 1] # VMNull

(* Mutant: the index is left in the task's data.                           *)
ClearedKept(i) == i
Cleared(i) == -1

remove_active_work(t) ==
    IF Valid(work_idx[t])
    THEN /\ work_idx' = [work_idx EXCEPT ![t] = Cleared(@)]
         /\ event_loop_active' = [event_loop_active EXCEPT ![work_idx[t] + 1] = VMNull]
         /\ event_loop_free_indices' = Append(event_loop_free_indices, work_idx[t])
    ELSE UNCHANGED <<work_idx, event_loop_active, event_loop_free_indices>>

KeepActive == UNCHANGED <<work_idx, event_loop_active, event_loop_free_indices>>

HandleTo(t, s) == handle' = [handle EXCEPT ![t] = s]

(* A callback of t ends in a panic when its index leads to no task.        *)
Lookup(t) == panic' = (panic \/ ~get_active_work(work_idx[t]))

(* An event is pushed to the queue of the task.                            *)
Emits(t) == late' = IF t \in cancelled THEN late \cup {t} ELSE late

send_cancellation_notification(t) ==
    notified' = [notified EXCEPT ![t] = IF notify[t] THEN @ + 1 ELSE @]

-----------------------------------------------------------------------------
(* add_active_work followed by remove_active_work.                         *)
add_and_remove(t) ==
    /\ work_idx' = [work_idx EXCEPT ![t] = Cleared(NextIndex)]
    /\ IF event_loop_free_indices # <<>>
       THEN UNCHANGED <<event_loop_active, event_loop_free_indices>>
       ELSE /\ event_loop_active' = Append(event_loop_active, VMNull)
            /\ event_loop_free_indices' = <<NextIndex>>

(* The setup operations.  Starting a file watcher or a listening socket    *)
(* may fail; the listening socket then gives its index back.               *)
SetupStarts(t) == add_active_work(t) /\ HandleTo(t, "started")

SetupFails(t) ==
    \/ kind[t] = "watch"  /\ add_active_work(t) /\ HandleTo(t, "stopped")
    \/ kind[t] = "listen" /\ add_and_remove(t)  /\ HandleTo(t, "closed")

setup(t) ==
    /\ SetupStarts(t) \/ SetupFails(t)
    /\ UNCHANGED <<notified, late, panic>>

(* The cancel operations.                                                  *)
(* Mutant: a timer that has fired is cancelled as well.                    *)
TimerPendingAlways(t) == TRUE
TimerPending(t) == work_idx[t] >= 0

cancel_timer(t) ==
    IF TimerPending(t)
    THEN HandleTo(t, "closed") /\ send_cancellation_notification(t) /\ Lookup(t)
         /\ remove_active_work(t)
    ELSE UNCHANGED <<handle, notified, panic>> /\ KeepActive

(* A handle that closes takes the active work away in its close callback.  *)
cancel_by_closing(t) ==
    /\ handle' = [handle EXCEPT ![t] = IF @ = "started" THEN "closing" ELSE @]
    /\ UNCHANGED <<notified, panic>> /\ KeepActive

cancel_watch(t) ==
    /\ HandleTo(t, "stopped")
    /\ UNCHANGED <<notified, panic>> /\ KeepActive

cancel(t) ==
    /\ CASE kind[t] \in {"once", "repeat"}   -> cancel_timer(t)
         [] kind[t] \in {"signal", "listen"} -> cancel_by_closing(t)
         [] kind[t] = "watch"                -> cancel_watch(t)
    /\ UNCHANGED late

-----------------------------------------------------------------------------
(* The callbacks.                                                          *)
timer_cb(t) ==
    /\ kind[t] \in {"once", "repeat"} /\ handle[t] = "started"
    /\ Lookup(t) /\ Emits(t)
    /\ IF kind[t] = "once" THEN HandleTo(t, "closed") /\ remove_active_work(t)
                           ELSE UNCHANGED handle /\ KeepActive
    /\ UNCHANGED <<kind, state, notify, notified, cancelled>>

(* signal_cb, on_changed and on_connection.                                *)
event_cb(t) ==
    /\ kind[t] \in {"signal", "watch", "listen"} /\ handle[t] = "started"
    /\ Lookup(t) /\ Emits(t)
    /\ KeepActive
    /\ UNCHANGED <<kind, state, handle, notify, notified, cancelled>>

(* Mutant: on_listen_cancelled forgets the notification.                   *)
NotifiesNever(t) == FALSE
Notifies(t) == kind[t] = "listen"

(* free_on_close_cb of a signal handler and on_listen_cancelled.           *)
close_cb(t) ==
    /\ handle[t] = "closing"
    /\ HandleTo(t, "closed")
    /\ IF Notifies(t) THEN send_cancellation_notification(t) /\ Lookup(t)
                      ELSE UNCHANGED notified /\ panic' = (panic \/ ~Valid(work_idx[t]))
    /\ remove_active_work(t)
    /\ UNCHANGED <<kind, state, notify, cancelled, late>>
=============================================================================
