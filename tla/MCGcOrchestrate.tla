--------------------------- MODULE MCGcOrchestrate ---------------------------
(* Small instances of GcOrchestrate for TLC.                               *)
EXTENDS GcOrchestrate
=============================================================================
