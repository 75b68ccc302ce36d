------------------------------ MODULE MCGcHeap ------------------------------
(***************************************************************************)
(* Instances of GcHeap for TLC: a main thread, a thread that may end, three*)
(* objects of which one is old and global, and pages of two cells.         *)
(***************************************************************************)
EXTENDS GcHeap
=============================================================================
