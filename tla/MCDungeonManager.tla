-------------------------- MODULE MCDungeonManager --------------------------
(* The dungeon manager with sessions and players as symmetric model values. *)
EXTENDS DungeonManager, TLC

ConnectionSymmetry == Permutations(Sessions) \cup Permutations(Players)
=============================================================================
