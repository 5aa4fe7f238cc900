------------------------------ MODULE MCHouses ------------------------------
(* Instances of Houses for TLC: two characters, their houses, two slots.     *)
EXTENDS Houses

MCSlots == 1 .. 2
MCData  == 0 .. 1

Symmetry == Permutations(Names)
=============================================================================
