------------------------------ MODULE MCCrimes ------------------------------
(* An instance of Crimes for TLC: two characters, each of which is victim,   *)
(* killer and target in turn.                                                *)
EXTENDS Crimes

Symmetry == Permutations(Chars)
=============================================================================
