------------------------- MODULE MCEventLoopThread -------------------------
(* Model values for EventLoopThread, with the loop that it extends. *)
EXTENDS EventLoopThread

CONSTANTS t1, t2, t3, f1, f2, f3
=============================================================================
