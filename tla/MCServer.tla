------------------------------ MODULE MCServer ------------------------------
(* Model values for Server. *)
EXTENDS Server

CONSTANTS c1, c2, c3
=============================================================================
