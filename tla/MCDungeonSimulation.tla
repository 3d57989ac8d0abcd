------------------------ MODULE MCDungeonSimulation -------------------------
(* Two seats, one of which is taken over by a second connection, in small  *)
(* dungeons: what the server should accept and what it should refuse.      *)
EXTENDS DungeonSimulation

CONSTANTS s1, s2, s3, p1, p2

MCOwner == [s \in {s1, s2, s3} |-> IF s = s2 THEN p2 ELSE p1]

Damage == [type |-> "Damage", target |-> "Enemy", stat |-> "None", value |-> 8, duration |-> 0]

Skill(id, mana, cooldown, startup, active, recovery) ==
    [id |-> id, mana |-> mana, cooldown |-> cooldown, startup |-> startup, active |-> active,
     recovery |-> recovery, effects |-> <<Damage, Damage>>]

File(items) == [readable |-> TRUE, version |-> 1, items |-> items]

Spawn(id, wave) == [id |-> id, enemy |-> 1, at |-> 1, wave |-> wave]

Portal(target) == [id |-> 1, area |-> {2}, target |-> target, to |-> 1, clear |-> TRUE]

Rock == [id |-> 1, area |-> {3}, destructible |-> TRUE, maxHp |-> 1]

Room(id, portals, spawns) ==
    [id |-> id, inside |-> {1, 2, 3}, playerSpawn |-> 1, portals |-> portals,
     obstacles |-> <<Rock>>, spawns |-> spawns]

Dungeon(rooms_) == [id |-> 1, recommended |-> 1, maxParty |-> 2, rooms |-> rooms_]

Directory(skill, rooms_) ==
    [channels |-> File(<<[id |-> 1, maxPlayers |-> 2]>>),
     skills |-> File(<<skill>>),
     enemies |-> File(<<[id |-> 1, maxHp |-> 60]>>),
     dungeons |-> <<File(<<Dungeon(rooms_)>>)>>]

Slow == Skill(1, 1, 0, 1, 1, 1)
Fast == Skill(1, 1, 2, 0, 2, 0)

\* Two waves and then an empty room, with a skill that needs a tick to start.
Forest == Directory(Slow, <<Room(1, <<Portal(2)>>, <<Spawn(1, 1), Spawn(2, 3)>>), Room(2, <<>>, <<>>)>>)

\* An enemy in each of two rooms, with a skill that strikes at once.
Cave == Directory(Fast, <<Room(1, <<Portal(2)>>, <<Spawn(1, 1)>>), Room(2, <<>>, <<Spawn(1, 2)>>)>>)

\* Not to be accepted: wave 0, an unknown enemy, a portal to nowhere, versions that differ.
WaveZero == Directory(Slow, <<Room(1, <<Portal(2)>>, <<Spawn(1, 0)>>), Room(2, <<>>, <<>>)>>)
Unknown  == Directory(Slow, <<Room(1, <<>>, <<[Spawn(1, 1) EXCEPT !.enemy = 2]>>)>>)
Nowhere  == Directory(Slow, <<Room(1, <<Portal(3)>>, <<>>)>>)
Mixed    == [Forest EXCEPT !.skills.version = 2]

MCContents == {Forest, Cave, WaveZero, Unknown, Nowhere, Mixed}
=============================================================================
