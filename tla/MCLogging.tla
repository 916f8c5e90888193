----------------------------- MODULE MCLogging -----------------------------
(* Messages and their lengths for Logging: buffers of size 4 hold three    *)
(* short messages, one long message, or one of each.                       *)
EXTENDS Logging

CONSTANTS s1, s2, l1, l2, l3

MCLength == [m \in Messages |-> IF m \in {s1, s2} THEN 1 ELSE 2]
=============================================================================
