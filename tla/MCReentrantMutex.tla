--------------------------- MODULE MCReentrantMutex ---------------------------
(* A small instance of ReentrantMutex for TLC.                             *)
EXTENDS ReentrantMutex
=============================================================================
