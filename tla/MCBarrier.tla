----------------------------- MODULE MCBarrier -----------------------------
(* The barrier on a small set of threads, for TLC. *)
EXTENDS Barrier, TLC
=============================================================================
