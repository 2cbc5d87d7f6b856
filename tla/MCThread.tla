------------------------------ MODULE MCThread ------------------------------
(* Threads and clients on small sets, for TLC. *)
EXTENDS Thread, TLC
=============================================================================
