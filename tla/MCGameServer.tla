---------------------------- MODULE MCGameServer ----------------------------
(* The game server with sessions and players as symmetric model values. *)
EXTENDS GameServer, TLC

ServerSymmetry == Permutations(Sessions) \cup Permutations(Players)
=============================================================================
