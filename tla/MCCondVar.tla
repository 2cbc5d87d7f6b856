----------------------------- MODULE MCCondVar -----------------------------
(* The condition variable on a small set of threads, for TLC. *)
EXTENDS CondVar, TLC

Symmetry == Permutations(Threads)
=============================================================================
