----------------------------- MODULE MCSpinLock -----------------------------
(* The spin lock on a small set of threads, for TLC. *)
EXTENDS SpinLock, TLC
=============================================================================
