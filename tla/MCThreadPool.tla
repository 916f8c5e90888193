---------------------------- MODULE MCThreadPool ----------------------------
(* Model values for ThreadPool. *)
EXTENDS ThreadPool

CONSTANTS a, b, c, d   \* tasks
CONSTANTS p, q            \* threads that destroy the pool
=============================================================================
