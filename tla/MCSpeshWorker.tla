---------------------------- MODULE MCSpeshWorker ----------------------------
(* A small instance of SpeshWorker for TLC.                                *)
EXTENDS SpeshWorker
=============================================================================
