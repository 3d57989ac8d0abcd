------------------------------ MODULE GameData ------------------------------
(***************************************************************************)
(* The game content and what the server accepts of it when it starts       *)
(* (src/GameDataLoader.cpp and the catalogs it fills).  A file is a record *)
(* with its content version, whether every field it needs is present and   *)
(* of the right type (RequireValue, RequireChild, RequireArray), and its   *)
(* items.  Names, and the extents of rooms, boxes and hit boxes (that they *)
(* are finite and positive, like the move speed) are left out.  Positions  *)
(* of a room are abstract spots: the room contains some of them, and an    *)
(* area, an obstacle or a portal, is a set of spots.                       *)
(*                                                                         *)
(*   content  = [channels, skills, enemies : file, dungeons : Seq(file)]   *)
(*   file     = [readable, version, items]                                 *)
(*   channel  = [id, maxPlayers]                                           *)
(*   skill    = [id, mana, cooldown, startup, active, recovery, effects]   *)
(*   effect   = [type, target, stat, value, duration]                      *)
(*   enemy    = [id, maxHp]                                                *)
(*   dungeon  = [id, recommended, maxParty, rooms]   (the one item)        *)
(*   room     = [id, inside, playerSpawn, portals, obstacles, spawns]      *)
(*   portal   = [id, area, target, to, clear]                              *)
(*   obstacle = [id, area, destructible, maxHp]                            *)
(*   spawn    = [id, enemy, at, wave]                                      *)
(***************************************************************************)
EXTENDS Integers, Sequences, SequencesExt

CONSTANT MaxPartyMembers   \* MAX_PARTY_MEMBERS

ASSUME PartySizeAssumption == MaxPartyMembers \in Nat \ {0}

\* Every field that is read is there, a number or one of the words that are known.
Readable(file) == file.readable

\* An array of a file, read into a vector.
IsList(list) == list \in Seq(ToSet(list))

Items(file) == ToSet(file.items)

\* The identifiers of a list: none is zero, and none comes twice.
ValidIds(list) == \A i \in DOMAIN list : /\ list[i].id # 0
                                         /\ \A j \in 1..(i - 1) : list[j].id # list[i].id

-----------------------------------------------------------------------------
(* The tests of the catalogs.                                              *)

\* ChannelManager::AddChannel
ValidChannels(list) == ValidIds(list) /\ \A i \in DOMAIN list : list[i].maxPlayers # 0

\* IsValidTarget and IsValidEffect
ValidEffect(effect) ==
    /\ effect.value > 0
    /\ \/ effect.type \in {"Damage", "Debuff"} /\ effect.target = "Enemy"
       \/ effect.type \in {"Heal", "Buff"} /\ effect.target \in {"Self", "Party"}
    /\ IF effect.type \in {"Buff", "Debuff"}
       THEN effect.stat # "None" /\ effect.duration > 0
       ELSE effect.stat = "None" /\ effect.duration = 0

\* SkillCatalog::AddSkill
ValidSkills(list) ==
    /\ ValidIds(list)
    /\ \A i \in DOMAIN list :
          /\ list[i].active # 0
          /\ list[i].effects # <<>>
          /\ \A effect \in ToSet(list[i].effects) : ValidEffect(effect)

\* EnemyCatalog::AddEnemy
ValidEnemies(list) == ValidIds(list) /\ \A i \in DOMAIN list : list[i].maxHp # 0

\* EnemyCatalog::GetEnemy has a value.
KnownEnemy(enemies, id) == \E enemy \in Items(enemies) : enemy.id = id

RoomIds(rooms) == {rooms[i].id : i \in DOMAIN rooms}

RoomWith(rooms, id) == rooms[CHOOSE i \in DOMAIN rooms : rooms[i].id = id]

ValidPortals(room, rooms) ==
    /\ ValidIds(room.portals)
    /\ \A portal \in ToSet(room.portals) :
          /\ portal.area \subseteq room.inside
          /\ portal.target \in RoomIds(rooms)
          /\ portal.to \in RoomWith(rooms, portal.target).inside

ValidObstacles(room) ==
    /\ ValidIds(room.obstacles)
    /\ \A obstacle \in ToSet(room.obstacles) :
          /\ obstacle.area \subseteq room.inside
          /\ obstacle.destructible <=> obstacle.maxHp # 0

\* Mutant of ValidSpawns: a spawn may name wave 0.
ValidSpawnsAnyWave(room, enemies) ==
    /\ ValidIds(room.spawns)
    /\ \A spawn \in ToSet(room.spawns) :
          /\ KnownEnemy(enemies, spawn.enemy)
          /\ spawn.at \in room.inside

ValidSpawns(room, enemies) ==
    /\ ValidIds(room.spawns)
    /\ \A spawn \in ToSet(room.spawns) :
          /\ KnownEnemy(enemies, spawn.enemy)
          /\ spawn.at \in room.inside
          /\ spawn.wave # 0

\* DungeonCatalog::AddDungeon
ValidDungeon(dungeon, enemies) ==
    /\ dungeon.id # 0
    /\ dungeon.rooms # <<>>
    /\ dungeon.recommended \in 1..dungeon.maxParty
    /\ dungeon.maxParty <= MaxPartyMembers
    /\ ValidIds(dungeon.rooms)
    /\ \A room \in ToSet(dungeon.rooms) :
          /\ room.playerSpawn \in room.inside
          /\ ValidPortals(room, dungeon.rooms)
          /\ ValidObstacles(room)
          /\ ValidSpawns(room, enemies)

-----------------------------------------------------------------------------
(* GameDataLoader                                                          *)

LoadChannels(file) == Readable(file) /\ file.items # <<>> /\ ValidChannels(file.items)

LoadSkills(file) == Readable(file) /\ file.items # <<>> /\ ValidSkills(file.items)

LoadEnemies(file) == Readable(file) /\ file.items # <<>> /\ ValidEnemies(file.items)

\* Every room and every enemy that a dungeon names exists.
ValidateDungeonReferences(dungeon, enemies) ==
    \A room \in ToSet(dungeon.rooms) :
        /\ \A portal \in ToSet(room.portals) : portal.target \in RoomIds(dungeon.rooms)
        /\ \A spawn \in ToSet(room.spawns) : KnownEnemy(enemies, spawn.enemy)

\* LoadDungeon; a file has one dungeon.
LoadDungeon(file, enemies) ==
    /\ Readable(file)
    /\ ValidateDungeonReferences(file.items[1], enemies)
    /\ ValidDungeon(file.items[1], enemies)

\* ReadContentVersion and AcceptContentVersion, over all the files.
AcceptContentVersion(files) ==
    \A file \in files : file.version # 0 /\ \A other \in files : other.version = file.version

\* Load: the content is accepted, or the server does not start.
Load(content) ==
    /\ AcceptContentVersion({content.channels, content.skills, content.enemies}
                            \cup ToSet(content.dungeons))
    /\ LoadChannels(content.channels)
    /\ LoadSkills(content.skills)
    /\ LoadEnemies(content.enemies)
    /\ content.dungeons # <<>>
    /\ \A i \in DOMAIN content.dungeons :
          /\ LoadDungeon(content.dungeons[i], content.enemies)
          /\ \A j \in 1..(i - 1) :
                content.dungeons[j].items[1].id # content.dungeons[i].items[1].id
=============================================================================
