---------------------------- MODULE HolderField -----------------------------
(***************************************************************************)
(* What holder_id of a reentrant mutex promises to a thread that reads it  *)
(* without the mutex, to find out whether it has the lock: between any     *)
(* two holders, whether one unlocks or waits, there is a time with none.   *)
(***************************************************************************)
CONSTANTS Threads, NoThread

VARIABLE holder

Nobody == holder = NoThread

(* By lock, or at the end of a wait.                                       *)
Enters == Nobody /\ holder' \in Threads

(* By the last unlock, or at the start of a wait.                          *)
Departs == holder \in Threads /\ Nobody'

Spec == Nobody /\ [][Enters \/ Departs]_holder
=============================================================================
