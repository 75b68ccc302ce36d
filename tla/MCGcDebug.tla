------------------------------ MODULE MCGcDebug ------------------------------
(***************************************************************************)
(* Instances of GcDebug: two mutators and the thread of the debug server,  *)
(* one collection, and one or two requests or breakpoints.                 *)
(***************************************************************************)
EXTENDS GcDebug
=============================================================================
