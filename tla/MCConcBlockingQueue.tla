------------------------- MODULE MCConcBlockingQueue -------------------------
(* A small instance of ConcBlockingQueue for TLC.                          *)
EXTENDS ConcBlockingQueue
=============================================================================
