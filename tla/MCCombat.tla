------------------------------ MODULE MCCombat ------------------------------
(* Instances of Combat for TLC: two players in a party, a third one to fight *)
(* against, and a monster that jumps players, is hunted or is summoned.     *)
EXTENDS Combat, TLC

CONSTANTS p, q, r, m

MCPlayers == {p, q, r}
MCNpcs    == {m}
MCLeader  == (p :> p) @@ (q :> p) @@ (r :> None) @@ (m :> None)
=============================================================================
