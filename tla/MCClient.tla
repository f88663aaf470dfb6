------------------------------ MODULE MCClient ------------------------------
(* The processes of Client for TLC: the first runs tunnels, the other commands. *)
EXTENDS Client

CONSTANTS p1, p2
=============================================================================
