------------------------ MODULE MCDungeonUdpSession -------------------------
(* One dungeon's UDP endpoint, with symmetric sessions, tokens and addresses. *)
EXTENDS DungeonUdpSession, TLC

UdpSymmetry == Permutations(Sessions) \cup Permutations(Tokens) \cup Permutations(Addresses)
=============================================================================
