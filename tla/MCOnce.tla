------------------------------- MODULE MCOnce ------------------------------
(* pthread_once on a small set of threads, for TLC. *)
EXTENDS Once, TLC
=============================================================================
