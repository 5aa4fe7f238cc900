--------------------------- MODULE MCDungeonQueue ---------------------------
(* TLC instances of DungeonQueue: two players, alone or in a group. *)
EXTENDS DungeonQueue

CONSTANTS p1, p2
MCPlayers == {p1, p2}
=============================================================================
