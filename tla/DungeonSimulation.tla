------------------------- MODULE DungeonSimulation --------------------------
(***************************************************************************)
(* What happens inside one running dungeon: the part of HandleTick that    *)
(* moves players, resolves skills, starts waves and finishes the dungeon   *)
(* (src/DungeonMovementProcessor.cpp, src/DungeonCombatProcessor.cpp,      *)
(* src/DungeonPlayerState.cpp, src/RoomState.cpp and the room part of      *)
(* src/DungeonInstance.cpp), on any content the server accepts (GameData). *)
(*                                                                         *)
(* Only the tick touches rooms and player states; sessions come and go     *)
(* under it.  A player state belongs to a seat and survives a reconnect,   *)
(* while inputs and pending hits are kept by session: every lookup of a    *)
(* session's player is a step of its own.                                  *)
(*                                                                         *)
(* Geometry is abstract: a move leads to any spot, and the hit box of a    *)
(* skill covers any of the enemies in the room.  Players are never hurt    *)
(* and obstacles never hit: nothing in the server calls ApplyDamage or     *)
(* ApplyObstacleDamage.                                                    *)
(***************************************************************************)
EXTENDS GameData, FiniteSets, FiniteSetsExt

CONSTANTS
    Contents,     \* the data directories the server may be started with
    Players,      \* the DungeonPlayerState objects, one for each seat
    Sessions,     \* TCP sessions
    Owner,        \* the player each session logs in as
    FirstSeats,   \* the session that holds each seat when the dungeon is created
    Spots,        \* positions, of every room
    MaxMp,        \* maxMp_
    BaseAttack,   \* DUNGEON_PLAYER_BASE_ATTACK
    Scale,        \* an effect's value is a number of parts, Scale parts to 1.0
    MaxWave,      \* the largest wave number (a std::uint32_t)
    None          \* absent value

\* The steps of the tick that are not about one session.
TickSteps == {"idle", "move", "advance", "resolve", "attack", "resolveAgain", "finish"}

ASSUME SimulationAssumption ==
    /\ Owner \in [Sessions -> Players]
    /\ FirstSeats \subseteq Sessions
    /\ \A p \in Players : \E s \in FirstSeats : Owner[s] = p
    /\ \A s, t \in FirstSeats : Owner[s] = Owner[t] => s = t
    /\ MaxMp \in Nat
    /\ BaseAttack \in Nat /\ Scale \in Nat \ {0}
    /\ MaxWave \in Nat
    /\ None \notin Sessions \cup Players
    /\ Sessions \cap TickSteps = {}

\* The damage of a skill, in the units of maxHp: its damage effects added up, times
\* the base attack, rounded half up and at least 1; 0 if it has none.
DamageOf(skill) ==
    LET damages == {i \in DOMAIN skill.effects :
                       skill.effects[i].type = "Damage" /\ skill.effects[i].target = "Enemy"}
        multiplier == MapThenSumSet(LAMBDA i : skill.effects[i].value, damages)
    IN  IF multiplier <= 0 THEN 0
        ELSE Max({1, (2 * BaseAttack * multiplier + Scale) \div (2 * Scale)})

\* The rooms of a dungeon, as far as their types go.
IsRooms(list) ==
    /\ IsList(list)
    /\ \A j \in DOMAIN list :
          /\ IsList(list[j].portals)
          /\ IsList(list[j].spawns)
          /\ \A i \in DOMAIN list[j].spawns : list[j].spawns[i].wave \in 0..MaxWave

\* The types that the loader reads numbers and lists into.
ASSUME ContentAssumption ==
    \A c \in Contents :
        /\ \A enemy \in Items(c.enemies) : enemy.maxHp \in Nat
        /\ \A skill \in Items(c.skills) : DamageOf(skill) \in Nat
        /\ IsList(c.dungeons)
        /\ \A i \in DOMAIN c.dungeons : IsRooms(c.dungeons[i].items[1].rooms)

VARIABLES
    content,    \* the data directory
    state,      \* "Loading", "Refused", then the DungeonState, and "Released"
    seats,      \* players_: the player state of each session
    away,       \* the sessions in disconnectedSince_
    fresh,      \* sessions that may still take a seat
    moved,      \* a reconnect that may be rolled back: the two sessions
    player,     \* the player states
    rooms,      \* rooms_
    pending,    \* pendingHits_: the skill of each session's hit, 0 for none
    tickAt,     \* where the tick is
    todo,       \* the sessions its present loop has still to visit
    struck,     \* auxiliary: how often each player's last skill has struck
    kept        \* auxiliary: whether the seat stayed with its session since that skill began

seatVars == <<seats, away, fresh, moved>>
simVars  == <<content, state, seatVars, player, rooms, pending, tickAt, todo, struck, kept>>

-----------------------------------------------------------------------------
(* The content in use.                                                     *)

Template == content.dungeons[1].items[1]

RoomTemplate(r) == RoomWith(Template.rooms, r)

FirstRoom == Template.rooms[1].id

FinalRoom == Last(Template.rooms).id

SkillIds == {skill.id : skill \in Items(content.skills)}

GetSkill(k) == CHOOSE skill \in Items(content.skills) : skill.id = k

MaxHp(enemy) == (CHOOSE e \in Items(content.enemies) : e.id = enemy).maxHp

-----------------------------------------------------------------------------
(* RoomState                                                               *)

\* An enemy that has not been spawned yet.
Unborn == -1

RoomState(template) ==
    [wave |-> 0, hp |-> [i \in DOMAIN template.spawns |-> Unborn]]

LastWave(r) == Max({0} \cup {spawn.wave : spawn \in ToSet(RoomTemplate(r).spawns)})

HasLivingEnemy(r) == \E i \in DOMAIN rooms[r].hp : rooms[r].hp[i] > 0

\* StartNextWave: the room after it.
StartNextWave(r) ==
    LET spawns == RoomTemplate(r).spawns
        later  == {w \in {spawn.wave : spawn \in ToSet(spawns)} : w > rooms[r].wave}
    IN  IF HasLivingEnemy(r) \/ later = {} THEN rooms[r]
        ELSE [wave |-> Min(later),
              hp |-> [i \in DOMAIN spawns |->
                         IF spawns[i].wave = Min(later) THEN MaxHp(spawns[i].enemy)
                         ELSE rooms[r].hp[i]]]

IsCleared(r) == rooms[r].wave = LastWave(r) /\ ~HasLivingEnemy(r)

\* CheckPosition returns Valid; obstacles are never destroyed.
CheckPosition(r, spot) ==
    /\ spot \in RoomTemplate(r).inside
    /\ \A obstacle \in ToSet(RoomTemplate(r).obstacles) : spot \notin obstacle.area

\* ApplyEnemyDamage, to each of the enemies in hit.
ApplyEnemyDamage(room, hit, damage) ==
    [room EXCEPT !.hp = [i \in DOMAIN @ |->
        IF i \in hit THEN (IF damage >= @[i] THEN 0 ELSE @[i] - damage) ELSE @[i]]]

-----------------------------------------------------------------------------
(* DungeonPlayerState                                                      *)

NewPlayer ==
    [room |-> FirstRoom, at |-> Template.rooms[1].playerSpawn, mp |-> MaxMp,
     cooldowns |-> [k \in SkillIds |-> 0], skill |-> 0, phase |-> "Idle", left |-> 0]

\* BeginSkill returns Success.
CanBeginSkill(p, k) ==
    /\ GetSkill(k).active # 0
    /\ player[p].cooldowns[k] = 0
    /\ player[p].phase = "Idle"
    /\ player[p].mp >= GetSkill(k).mana

BeginSkill(p, k) ==
    LET skill == GetSkill(k) IN
    [player[p] EXCEPT !.mp = @ - skill.mana,
                      !.cooldowns[k] = skill.cooldown,
                      !.skill = k,
                      !.phase = IF skill.startup > 0 THEN "Startup" ELSE "Active",
                      !.left = IF skill.startup > 0 THEN skill.startup ELSE skill.active]

\* AdvanceCombatTick
AdvanceCombatTick(p) ==
    LET skill == GetSkill(player[p].skill)
        cool  == [player[p] EXCEPT !.cooldowns = [k \in SkillIds |-> Max({0, @[k] - 1})]]
    IN  IF cool.phase = "Idle" THEN cool
        ELSE IF cool.left > 1 THEN [cool EXCEPT !.left = @ - 1]
        ELSE IF cool.phase = "Startup"
             THEN [cool EXCEPT !.phase = "Active", !.left = skill.active]
        ELSE IF cool.phase = "Active" /\ skill.recovery > 0
             THEN [cool EXCEPT !.phase = "Recovery", !.left = skill.recovery]
        ELSE [cool EXCEPT !.skill = 0, !.phase = "Idle", !.left = 0]

CalculateDamage(k) == DamageOf(GetSkill(k))

-----------------------------------------------------------------------------
(* Starting up.                                                            *)

SimInit ==
    /\ content \in Contents
    /\ state = "Loading"
    /\ seats = [s \in Sessions |-> IF s \in FirstSeats THEN Owner[s] ELSE None]
    /\ away = {}
    /\ fresh = Sessions \ FirstSeats
    /\ moved = None
    /\ player = <<>>
    /\ rooms = <<>>
    /\ pending = [s \in Sessions |-> 0]
    /\ tickAt = "idle"
    /\ todo = {}
    /\ struck = [p \in Players |-> 0]
    /\ kept = [p \in Players |-> FALSE]

\* LoadGameData, and the constructor of DungeonInstance.
CreateDungeon ==
    /\ state = "Loading"
    /\ IF Load(content)
       THEN /\ state' = "Waiting"
            /\ player' = [p \in Players |-> NewPlayer]
            /\ rooms' = [r \in RoomIds(Template.rooms) |-> RoomState(RoomTemplate(r))]
       ELSE state' = "Refused" /\ UNCHANGED <<player, rooms>>
    /\ UNCHANGED <<content, seatVars, pending, tickAt, todo, struck, kept>>

\* Start
Start ==
    /\ state = "Waiting" /\ tickAt = "idle"
    /\ state' = "Running"
    /\ rooms' = [rooms EXCEPT ![FirstRoom] = StartNextWave(FirstRoom)]
    /\ UNCHANGED <<content, seatVars, player, pending, tickAt, todo, struck, kept>>

-----------------------------------------------------------------------------
(* The tick of the running dungeon.                                        *)

Goto(step, sessions) == tickAt' = step /\ todo' = sessions

Seated == {s \in Sessions : seats[s] # None}

\* The sweep removes the participants whose grace has expired, any of those away;
\* then the movement processor begins.  (Its loop visits the sessions that have sent
\* a movement; in the model all, since a rejected movement is like none.)
TickBegin ==
    /\ tickAt = "idle" /\ state = "Running"
    /\ \E gone \in SUBSET away :
          /\ seats' = [s \in Sessions |-> IF s \in gone THEN None ELSE seats[s]]
          /\ away' = away \ gone
          /\ IF Seated = gone THEN state' = "Released" /\ Goto("idle", {})
             ELSE UNCHANGED state /\ Goto("move", Sessions)
    /\ UNCHANGED <<content, fresh, moved, player, rooms, pending, struck, kept>>

\* MoveTo: a rejected move changes nothing.
MoveTo(s) ==
    /\ tickAt = "move" /\ s \in todo
    /\ \/ /\ \E spot \in Spots :
                /\ seats[s] # None /\ CheckPosition(player[seats[s]].room, spot)
                /\ player' = [player EXCEPT ![seats[s]].at = spot]
          /\ tickAt' = s
       \/ UNCHANGED <<player, tickAt>>
    /\ todo' = todo \ {s}
    /\ UNCHANGED <<content, state, seatVars, rooms, pending, struck, kept>>

\* The portals of the player's room whose area the player stands in.
PortalsAt(p) ==
    LET portals == RoomTemplate(player[p].room).portals IN
    {i \in DOMAIN portals : player[p].at \in portals[i].area}

\* The first of them.
PortalAt(p) == RoomTemplate(player[p].room).portals[Min(PortalsAt(p))]

\* TryUsePortal finds a portal that it may use.
MayUsePortal(p) ==
    /\ PortalsAt(p) # {}
    /\ PortalAt(p).clear => IsCleared(player[p].room)
    /\ CheckPosition(PortalAt(p).target, PortalAt(p).to)

\* TryUsePortal, of the session that has just moved: a second lookup.
TryUsePortal(s) ==
    /\ tickAt = s
    /\ IF seats[s] # None /\ MayUsePortal(seats[s])
       THEN LET portal == PortalAt(seats[s]) IN
            /\ player' = [player EXCEPT ![seats[s]].room = portal.target,
                                        ![seats[s]].at = portal.to]
            /\ rooms' = [rooms EXCEPT ![portal.target] = StartNextWave(portal.target)]
       ELSE UNCHANGED <<player, rooms>>
    /\ tickAt' = "move"
    /\ UNCHANGED <<content, state, seatVars, pending, todo, struck, kept>>

\* DungeonCombatProcessor::Process reads the participants.
BeginCombat ==
    /\ tickAt = "move" /\ todo = {}
    /\ Goto("advance", Seated)
    /\ UNCHANGED <<content, state, seatVars, player, rooms, pending, struck, kept>>

Advance(s) ==
    /\ tickAt = "advance" /\ s \in todo
    /\ player' = IF seats[s] = None THEN player
                 ELSE [player EXCEPT ![seats[s]] = AdvanceCombatTick(seats[s])]
    /\ todo' = todo \ {s}
    /\ UNCHANGED <<content, state, seatVars, rooms, pending, tickAt, struck, kept>>

\* The sessions that ResolvePendingHits visits.
Hitters == {s \in Sessions : pending[s] # 0}

BeginResolve ==
    /\ todo = {}
    /\ \/ tickAt = "advance" /\ Goto("resolve", Hitters)
       \/ tickAt = "attack" /\ Goto("resolveAgain", Hitters)
    /\ UNCHANGED <<content, state, seatVars, player, rooms, pending, struck, kept>>

\* Mutant of ClearHit: a hit that struck stays pending.
KeepHit(s) == pending' = pending

\* hits.erase
ClearHit(s) == pending' = [pending EXCEPT ![s] = 0]

\* The pending hit of the session s has a player whose action it belongs to.
HitApplies(s) == seats[s] # None /\ player[seats[s]].skill = pending[s]

\* One round of ResolvePendingHits: the hit is dropped, waits, or strikes.
ResolvePendingHit(s) ==
    /\ tickAt \in {"resolve", "resolveAgain"} /\ s \in todo
    /\ todo' = todo \ {s}
    /\ IF ~HitApplies(s)
       THEN pending' = [pending EXCEPT ![s] = 0] /\ UNCHANGED <<rooms, struck>>
       ELSE IF player[seats[s]].phase # "Active" THEN UNCHANGED <<pending, rooms, struck>>
       ELSE LET p == seats[s]
                r == player[p].room
            IN  /\ \E hit \in SUBSET {i \in DOMAIN rooms[r].hp : rooms[r].hp[i] > 0} :
                      rooms' = [rooms EXCEPT ![r] =
                                   ApplyEnemyDamage(@, hit, CalculateDamage(pending[s]))]
                /\ struck' = [struck EXCEPT ![p] = @ + 1]
                /\ ClearHit(s)
    /\ UNCHANGED <<content, state, seatVars, player, tickAt, kept>>

BeginAttacks ==
    /\ tickAt = "resolve" /\ todo = {}
    /\ Goto("attack", {})
    /\ UNCHANGED <<content, state, seatVars, player, rooms, pending, struck, kept>>

\* An attack of the session s is popped, and accepted.  (A rejected one changes nothing.)
Attack(s, k) ==
    /\ tickAt = "attack"
    /\ seats[s] # None /\ CanBeginSkill(seats[s], k)
    /\ player' = [player EXCEPT ![seats[s]] = BeginSkill(seats[s], k)]
    /\ pending' = [pending EXCEPT ![s] = k]
    /\ struck' = [struck EXCEPT ![seats[s]] = 0]
    /\ kept' = [kept EXCEPT ![seats[s]] = TRUE]
    /\ UNCHANGED <<content, state, seatVars, rooms, tickAt, todo>>

\* AdvanceRoomWaves: in the rooms where somebody connected is.
AdvanceRoomWaves ==
    /\ tickAt = "resolveAgain" /\ todo = {}
    /\ LET occupied == {player[seats[s]].room : s \in Seated \ away} IN
       rooms' = [r \in DOMAIN rooms |-> IF r \in occupied THEN StartNextWave(r) ELSE rooms[r]]
    /\ Goto("finish", {})
    /\ UNCHANGED <<content, state, seatVars, player, pending, struck, kept>>

\* Mutant of CanFinish: players that are away are not waited for.
CanFinishWithoutAway ==
    /\ \A s \in Seated \ away : player[seats[s]].room = FinalRoom
    /\ \A r \in DOMAIN rooms : IsCleared(r)

\* TryFinishIfCleared returns true: everybody is in the last room, those away
\* included, and every room is cleared.
CanFinish ==
    /\ Seated # {}
    /\ \A s \in Seated : player[seats[s]].room = FinalRoom
    /\ \A r \in DOMAIN rooms : IsCleared(r)

TryFinishIfCleared ==
    /\ tickAt = "finish"
    /\ state' = IF CanFinish THEN "Finished" ELSE state
    /\ Goto("idle", {})
    /\ UNCHANGED <<content, seatVars, player, rooms, pending, struck, kept>>

-----------------------------------------------------------------------------
(* The sessions (the rules are DungeonManager's).                          *)

\* DisconnectParticipant.  (The handler of a reconnect runs on its session's strand.)
Disconnect(s) ==
    /\ state \in {"Waiting", "Running", "Finished"}
    /\ seats[s] # None
    /\ s \notin away
    /\ ~(moved # None /\ moved.new = s)
    /\ away' = away \cup {s}
    /\ UNCHANGED <<content, state, seats, fresh, moved, player, rooms, pending, tickAt, todo,
                   struck, kept>>

Reseat(from, to) ==
    /\ seats' = [seats EXCEPT ![from] = None, ![to] = seats[from]]
    /\ kept' = [kept EXCEPT ![seats[from]] = FALSE]

\* ReconnectParticipant
Reconnect(old, new) ==
    /\ state \in {"Waiting", "Running"}
    /\ old \in away /\ new \in fresh /\ Owner[old] = Owner[new] /\ moved = None
    /\ Reseat(old, new)
    /\ away' = away \ {old}
    /\ fresh' = fresh \ {new}
    /\ moved' = [old |-> old, new |-> new]
    /\ UNCHANGED <<content, state, player, rooms, pending, tickAt, todo, struck>>

\* The token was rotated, and the handler of the reconnect is done.
ReconnectDone ==
    /\ moved # None
    /\ moved' = None
    /\ UNCHANGED <<content, state, seats, away, fresh, player, rooms, pending, tickAt, todo,
                   struck, kept>>

\* RollbackParticipantReconnect: the new session may try again.
Rollback ==
    /\ moved # None
    /\ Reseat(moved.new, moved.old)
    /\ away' = away \cup {moved.old}
    /\ fresh' = fresh \cup {moved.new}
    /\ moved' = None
    /\ UNCHANGED <<content, state, player, rooms, pending, tickAt, todo, struck>>

-----------------------------------------------------------------------------
TickStep ==
    \/ TickBegin
    \/ \E s \in Sessions : MoveTo(s) \/ TryUsePortal(s)
    \/ BeginCombat
    \/ \E s \in Sessions : Advance(s) \/ ResolvePendingHit(s)
    \/ BeginResolve
    \/ BeginAttacks
    \/ \E s \in Sessions, k \in SkillIds : Attack(s, k)
    \/ AdvanceRoomWaves
    \/ TryFinishIfCleared

SimNext ==
    \/ CreateDungeon
    \/ Start
    \/ TickStep
    \/ \E s \in Sessions : Disconnect(s)
    \/ \E old, new \in Sessions : Reconnect(old, new)
    \/ ReconnectDone
    \/ Rollback

SimSpec == SimInit /\ [][SimNext]_simVars
-----------------------------------------------------------------------------
\* Every enemy of the room has been spawned and is dead.
AllDead(r) == \A i \in DOMAIN rooms[r].hp : rooms[r].hp[i] = 0

\* The rooms form a chain whose portals all require the room to be cleared.
IsChain ==
    \A i \in DOMAIN Template.rooms :
        \A portal \in ToSet(Template.rooms[i].portals) :
            portal.clear /\ i < Len(Template.rooms) /\ portal.target = Template.rooms[i + 1].id

\* In a chain of rooms nobody gets past an enemy: whatever waves the rooms have and
\* whoever fights, leaves and returns, all the enemies of the rooms behind a player
\* were spawned and are dead.
NoEnemyLeftBehind ==
    state \in {"Running", "Finished"} /\ IsChain =>
        \A s \in Seated : \A i, j \in DOMAIN Template.rooms :
            player[seats[s]].room = Template.rooms[j].id /\ i < j => AllDead(Template.rooms[i].id)

\* A finished dungeon is complete: no enemy of any wave of any room is left, and
\* every player, also one whose connection was lost on the way, reached the last room.
FinishedIsComplete ==
    state = "Finished" =>
        /\ \A r \in DOMAIN rooms : AllDead(r)
        /\ \A s \in Seated : player[seats[s]].room = FinalRoom

\* A skill strikes once: never twice, and between ticks a player that is past the
\* start of its action has struck, unless its seat changed session on the way.
SkillStrikesOnce ==
    \A p \in Players :
        /\ struck[p] <= 1
        /\ tickAt = "idle" /\ kept[p] /\ player[p].phase \in {"Active", "Recovery"}
              => struck[p] = 1
=============================================================================
