---------------------------- MODULE MCSemaphore ----------------------------
(* The semaphore on a small set of threads, for TLC. *)
EXTENDS Semaphore, TLC
=============================================================================
