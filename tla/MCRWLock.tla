------------------------------ MODULE MCRWLock ------------------------------
(* The read-write lock on a small set of threads, for TLC. *)
EXTENDS RWLock, TLC
=============================================================================
