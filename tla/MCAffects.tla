------------------------------- MODULE MCAffects -------------------------------
(* Instances of Affects for TLC: one player and two things to wear. *)
EXTENDS Affects, TLC

MCLong == [i \in Ids \ Auras |-> IF i \in Blessings THEN 2 ELSE 1]

SymmetryThings == Permutations(Things)
=============================================================================
