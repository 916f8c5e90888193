---------------------------- MODULE MCConnection ----------------------------
(* Model values and symmetry for Connection. *)
EXTENDS Connection, TLC

CONSTANTS c1, c2

MCConns == {c1, c2}
Symmetry == Permutations(MCConns)
=============================================================================
