------------------------------ MODULE MCIPCServer -------------------------------
(* Model values and symmetry for checking IPCServer. *)
EXTENDS IPCServer

CONSTANTS c1, c2, m1, bad

Symmetry == Permutations(Clients)
=============================================================================
