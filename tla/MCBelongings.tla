---------------------------- MODULE MCBelongings ----------------------------
(* Instances of Belongings for TLC: a player with some gold and one without, *)
(* a sack that closes, a pack to wear, and a chest that goes when emptied.   *)
EXTENDS Belongings, TLC

CONSTANTS a, b, thing, sack, pack, pile, chest

MCChars == {a, b}
MCPurse == (a :> 4) @@ (b :> 1)
MCCost  == [o \in Things \union Bags |-> 2]
=============================================================================
