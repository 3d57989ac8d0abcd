----------------------------- MODULE ServerIds ------------------------------
(***************************************************************************)
(* The identifiers the game server's managers share.  In the code they are *)
(* 64-bit counters that start at 1 and are never reused (include/          *)
(* SessionId.h, PartyManager.h, DungeonManager.h); 0 means "none".         *)
(***************************************************************************)
EXTENDS Integers

CONSTANTS
    Sessions,      \* TCP connections: the ids SessionManager hands out
    Players,       \* characters: the ids the database hands out
    None,          \* the id 0, an absent map entry, an empty std::optional
    MaxParties,    \* bound on the parties created
    MaxDungeons    \* bound on the dungeons created

PartyIds   == 1..MaxParties
DungeonIds == 1..MaxDungeons

ASSUME IdAssumption ==
    /\ MaxParties \in Nat
    /\ MaxDungeons \in Nat
    /\ None \notin Sessions
    /\ None \notin Players
    /\ None \notin Int
=============================================================================
