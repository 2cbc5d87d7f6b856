------------------------------ MODULE MCMutex ------------------------------
(* The mutex on a small set of threads, for TLC. *)
EXTENDS Mutex, TLC
=============================================================================
