------------------------------ MODULE MCTimer ------------------------------
(* timer.c with two CPUs and the loader, and a clock that wraps. *)
EXTENDS Timer
=============================================================================
