--------------------------- MODULE MCAccountLogin ---------------------------
(* TLC instances of AccountLogin. *)
EXTENDS AccountLoginInv, TLC

CONSTANTS s1, s2, c1, c2, c3, a1, a2

SymmetryClients == Permutations({c1, c2, c3})
SymmetryPair    == Permutations({c1, c2}) \union Permutations({s1, s2})
SymmetryAll     == SymmetryClients \union Permutations({s1, s2})
=============================================================================
