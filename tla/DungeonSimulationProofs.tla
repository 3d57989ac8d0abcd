----------------------- MODULE DungeonSimulationProofs ----------------------
(***************************************************************************)
(* Proofs about what happens inside a running dungeon, for any number of   *)
(* players and sessions and any content of the right types: a skill        *)
(* strikes once whatever the connections do between the phases of a tick,  *)
(* a finished dungeon is complete, and in a chain of rooms nobody gets     *)
(* past an enemy.                                                          *)
(***************************************************************************)
EXTENDS DungeonSimulation, WellFoundedInduction, TLAPS

(* Least and greatest elements.                                            *)

\* Every set of natural numbers that is not empty has a least element: Min, of which
\* StartNextWave takes the next wave and TryUsePortal the first portal.
LEMMA MinExists ==
    ASSUME NEW S, S \subseteq Nat, S # {}
    PROVE  Min(S) \in S /\ \A x \in S : Min(S) <= x
<1> DEFINE Less == {pair \in Nat \X Nat : pair[1] < pair[2]}
<1>1. IsWellFoundedOn(Less, Nat)
  BY NatLessThanWellFounded DEF OpToRel
<1>2. \A x, y \in Nat : x < y => <<x, y>> \in Less
  OBVIOUS
<1> HIDE DEF Less
<1>3. PICK m \in S : \A y \in S : ~(<<y, m>> \in Less)
  BY <1>1, WFMin, Zenon
<1>4. ASSUME NEW y \in S PROVE m <= y
  <2>1. y \in Nat /\ m \in Nat
    OBVIOUS
  <2>2. ~(y < m)
    BY <1>2, <1>3, <2>1
  <2> QED  BY <2>1, <2>2
<1> QED  BY <1>4 DEF Min

\* A set of natural numbers with a bound has a greatest one, if it has any: lastWave_.
LEMMA MaxExists ==
    ASSUME NEW S, NEW n \in Nat, S \subseteq 0..n, S # {}
    PROVE  Max(S) \in S /\ \A x \in S : x <= Max(S)
<1> DEFINE B == {b \in Nat : \A x \in S : x <= b}
<1>1. B \subseteq Nat /\ B # {}
  <2>1. n \in B
    OBVIOUS
  <2> QED  BY <2>1
<1>2. Min(B) \in B /\ \A b \in B : Min(B) <= b
  BY <1>1, MinExists
<1> HIDE DEF B
<1>3. Min(B) \in S
  <2>1. Min(B) \in Nat /\ \A x \in S : x <= Min(B)
    BY <1>2 DEF B
  <2>2. ASSUME Min(B) \notin S PROVE FALSE
    <3>1. \A x \in S : x \in Nat
      OBVIOUS
    <3>2. PICK x : x \in S
      OBVIOUS
    <3>3. Min(B) - 1 \in Nat /\ \A y \in S : y <= Min(B) - 1
      BY <2>1, <2>2, <3>1, <3>2
    <3>4. Min(B) - 1 \in B
      BY <3>3 DEF B
    <3> QED  BY <1>2, <2>1, <3>4
  <2> QED  BY <2>2
<1>4. \A x \in S : x <= Min(B)
  BY <1>2 DEF B
<1> QED  BY <1>3, <1>4 DEF Max

-----------------------------------------------------------------------------
(* The content of a dungeon that was created.                              *)

Created == state \notin {"Loading", "Refused"}

\* The content is one that Load accepts.
Loaded == content \in Contents /\ Load(content)

\* A dungeon is created from content that Load has accepted.
Accepted == content \in Contents /\ (Created => Loaded)

\* The rooms of the template, with different identifiers and the waves of their spawns.
LEMMA TemplateRooms ==
    ASSUME Loaded
    PROVE  /\ Template.rooms \in Seq(ToSet(Template.rooms)) /\ Template.rooms # <<>>
           /\ \A i, j \in DOMAIN Template.rooms :
                 Template.rooms[i].id = Template.rooms[j].id => i = j
           /\ \A i \in DOMAIN Template.rooms :
                 /\ Template.rooms[i].portals \in Seq(ToSet(Template.rooms[i].portals))
                 /\ Template.rooms[i].spawns \in Seq(ToSet(Template.rooms[i].spawns))
                 /\ \A k \in DOMAIN Template.rooms[i].portals :
                       Template.rooms[i].portals[k].target \in RoomIds(Template.rooms)
                 /\ \A k \in DOMAIN Template.rooms[i].spawns :
                       /\ Template.rooms[i].spawns[k].wave \in 1..MaxWave
                       /\ MaxHp(Template.rooms[i].spawns[k].enemy) \in Nat \ {0}
<1>1. content \in Contents /\ Load(content)
  BY DEF Loaded
<1>2. IsList(content.dungeons) /\ content.dungeons # <<>>
  BY <1>1, ContentAssumption DEF Load
<1>3. 1 \in DOMAIN content.dungeons
  BY <1>2 DEF IsList
<1>4. /\ IsRooms(Template.rooms) /\ LoadEnemies(content.enemies)
      /\ ValidDungeon(Template, content.enemies)
  BY <1>1, <1>3, ContentAssumption DEF Load, LoadDungeon, Template
<1>5. Template.rooms \in Seq(ToSet(Template.rooms)) /\ Template.rooms # <<>>
  BY <1>4 DEF IsRooms, IsList, ValidDungeon
<1>6. ASSUME NEW i \in DOMAIN Template.rooms, NEW j \in DOMAIN Template.rooms,
             Template.rooms[i].id = Template.rooms[j].id
      PROVE  i = j
  <2>1. i \in Nat \ {0} /\ j \in Nat \ {0}
    BY <1>5
  <2>2. ValidIds(Template.rooms)
    BY <1>4 DEF ValidDungeon
  <2> QED  BY <2>1, <2>2, <1>6 DEF ValidIds
<1>7. ASSUME NEW i \in DOMAIN Template.rooms
      PROVE  /\ Template.rooms[i].portals \in Seq(ToSet(Template.rooms[i].portals))
             /\ Template.rooms[i].spawns \in Seq(ToSet(Template.rooms[i].spawns))
             /\ \A k \in DOMAIN Template.rooms[i].spawns : Template.rooms[i].spawns[k].wave \in 0..MaxWave
  BY <1>4 DEF IsRooms, IsList
<1>8. ASSUME NEW i \in DOMAIN Template.rooms
      PROVE  /\ ValidPortals(Template.rooms[i], Template.rooms)
             /\ ValidSpawns(Template.rooms[i], content.enemies)
  BY <1>4 DEF ValidDungeon, ToSet
<1>9. ASSUME NEW i \in DOMAIN Template.rooms, NEW k \in DOMAIN Template.rooms[i].portals
      PROVE  Template.rooms[i].portals[k].target \in RoomIds(Template.rooms)
  BY <1>8 DEF ValidPortals, ToSet
<1>10. ASSUME NEW i \in DOMAIN Template.rooms, NEW k \in DOMAIN Template.rooms[i].spawns
       PROVE  /\ Template.rooms[i].spawns[k].wave \in 1..MaxWave
              /\ MaxHp(Template.rooms[i].spawns[k].enemy) \in Nat \ {0}
  <2> DEFINE spawn == Template.rooms[i].spawns[k]
  <2>1. KnownEnemy(content.enemies, spawn.enemy) /\ spawn.wave # 0
    BY <1>8 DEF ValidSpawns, ToSet
  <2>2. spawn.wave \in 1..MaxWave
    BY <1>7, <2>1, SimulationAssumption
  <2>3. \A enemy \in Items(content.enemies) : enemy.maxHp \in Nat \ {0}
    BY <1>1, <1>4, ContentAssumption DEF LoadEnemies, ValidEnemies, Items, ToSet
  <2> HIDE DEF spawn
  <2>4. MaxHp(spawn.enemy) \in Nat \ {0}
    BY <2>1, <2>3 DEF KnownEnemy, MaxHp
  <2> QED  BY <2>2, <2>4 DEF spawn
<1> QED  BY <1>5, <1>6, <1>7, <1>9, <1>10

\* A room identifier of the template names one of its rooms.
LEMMA RoomOfTemplate ==
    ASSUME Loaded
    PROVE  /\ \A i \in DOMAIN Template.rooms : RoomTemplate(Template.rooms[i].id) = Template.rooms[i]
           /\ \A r \in RoomIds(Template.rooms) :
                 \E i \in DOMAIN Template.rooms : r = Template.rooms[i].id
           /\ FirstRoom \in RoomIds(Template.rooms) /\ FinalRoom \in RoomIds(Template.rooms)
<1>1. \A i, j \in DOMAIN Template.rooms : Template.rooms[i].id = Template.rooms[j].id => i = j
  BY TemplateRooms
<1>2. ASSUME NEW i \in DOMAIN Template.rooms
      PROVE  RoomTemplate(Template.rooms[i].id) = Template.rooms[i]
  BY <1>1 DEF RoomTemplate, RoomWith
<1>3. Template.rooms \in Seq(ToSet(Template.rooms)) /\ Template.rooms # <<>>
  BY TemplateRooms
<1>4. 1 \in DOMAIN Template.rooms /\ Len(Template.rooms) \in DOMAIN Template.rooms
  BY <1>3
<1>5. FirstRoom \in RoomIds(Template.rooms) /\ FinalRoom \in RoomIds(Template.rooms)
  BY <1>4 DEF FirstRoom, FinalRoom, RoomIds, Last
<1> QED  BY <1>2, <1>5 DEF RoomIds

\* No skill has the identifier that stands for none, and damages are numbers.
LEMMA SkillFacts ==
    ASSUME Loaded
    PROVE  0 \notin SkillIds /\ \A k \in SkillIds : CalculateDamage(k) \in Nat
<1>1. content \in Contents /\ Load(content)
  BY DEF Loaded
<1>2. ValidIds(content.skills.items)
  BY <1>1 DEF Load, LoadSkills, ValidSkills
<1>3. 0 \notin SkillIds
  BY <1>2 DEF ValidIds, SkillIds, Items, ToSet
<1>4. \A k \in SkillIds : GetSkill(k) \in Items(content.skills)
  BY DEF SkillIds, GetSkill
<1>5. \A k \in SkillIds : CalculateDamage(k) \in Nat
  BY <1>1, <1>4, ContentAssumption DEF CalculateDamage
<1> QED  BY <1>3, <1>5

-----------------------------------------------------------------------------
(* The invariant.                                                          *)

Fields == {"room", "at", "mp", "cooldowns", "skill", "phase", "left"}

\* What the proofs need of the types of the variables.
TypesOK ==
    /\ seats \in [Sessions -> Players \cup {None}]
    /\ away \subseteq Sessions /\ fresh \subseteq Sessions
    /\ moved \in [old : Sessions, new : Sessions] \cup {None}
    /\ pending \in [Sessions -> SkillIds \cup {0}]
    /\ tickAt \in TickSteps \cup Sessions
    /\ todo \subseteq Sessions
    /\ struck \in [Players -> {0, 1}]
    /\ kept \in [Players -> BOOLEAN]

\* Only a running dungeon is ticked, and nothing has happened in one that is not created.
Place ==
    /\ tickAt # "idle" => state = "Running"
    /\ ~Created => moved = None /\ \A p \in Players : kept[p] = FALSE

\* A seat is held by one session, of its player.  A session that may take a seat has
\* none, and a reconnect that may be rolled back holds the seat that the old session gave up.
SeatsOK ==
    /\ \A s \in Sessions : seats[s] # None => seats[s] = Owner[s]
    /\ \A s, t \in Sessions : seats[s] # None /\ seats[s] = seats[t] => s = t
    /\ \A s \in Sessions : (s \in away => seats[s] # None) /\ (s \in fresh => seats[s] = None)
    /\ moved # None =>
          /\ seats[moved.new] # None /\ seats[moved.old] = None
          /\ Owner[moved.old] = Owner[moved.new]
          /\ moved.new \notin away /\ moved.old \notin fresh

PlayersOK ==
    Created =>
        /\ DOMAIN player = Players
        /\ \A p \in Players :
              /\ DOMAIN player[p] = Fields
              /\ player[p].room \in RoomIds(Template.rooms)
              /\ player[p].skill \in SkillIds \cup {0}
              /\ player[p].phase \in {"Idle", "Startup", "Active", "Recovery"}
              /\ player[p].phase = "Idle" <=> player[p].skill = 0

\* One session of a player at most has a hit pending, and that hit has not struck.  The
\* resolve phase leaves a hit pending only if its player is in the middle of an action:
\* no attack is accepted while an earlier hit, of whatever session, is still there.
HitsOK ==
    /\ \A s, t \in Sessions : pending[s] # 0 /\ pending[t] # 0 /\ Owner[s] = Owner[t] => s = t
    /\ \A s \in Sessions : pending[s] # 0 => struck[Owner[s]] = 0
    /\ \A s \in Sessions :
          pending[s] # 0 /\ (tickAt = "attack" \/ (tickAt = "resolve" /\ s \notin todo))
              => player[Owner[s]].phase # "Idle"

\* The hit of an action that has not struck is pending with the session on the seat; once
\* the action is active, the present loop will still visit that session.
Visited(s) ==
    /\ tickAt \in {"advance", "resolve", "attack", "resolveAgain"}
    /\ tickAt = "advance" => s \notin todo
    /\ tickAt \in {"resolve", "resolveAgain"} => s \in todo

DueOK ==
    \A p \in Players : kept[p] /\ struck[p] = 0 =>
        /\ player[p].phase # "Recovery"
        /\ player[p].phase \in {"Startup", "Active"} =>
              \A s \in Sessions : seats[s] = p => pending[s] = player[p].skill
        /\ player[p].phase = "Active" => \E s \in Sessions : seats[s] = p /\ Visited(s)

\* A room and the spawns of its template: an enemy is unborn exactly when its wave has
\* not started.
RoomOK(room, spawns) ==
    /\ DOMAIN room = {"wave", "hp"}
    /\ room.wave \in Nat
    /\ DOMAIN room.hp = DOMAIN spawns
    /\ \A i \in DOMAIN spawns :
          /\ room.hp[i] \in Int /\ room.hp[i] >= Unborn
          /\ room.hp[i] = Unborn <=> spawns[i].wave > room.wave

RoomsOK ==
    Created =>
        /\ DOMAIN rooms = RoomIds(Template.rooms)
        /\ \A r \in RoomIds(Template.rooms) : RoomOK(rooms[r], RoomTemplate(r).spawns)

\* NoEnemyLeftBehind, also for a player whose seat is gone.
ChainOK ==
    Created /\ IsChain =>
        \A p \in Players : \A i, j \in DOMAIN Template.rooms :
            player[p].room = Template.rooms[j].id /\ i < j => AllDead(Template.rooms[i].id)

SimInv ==
    /\ Accepted /\ TypesOK /\ Place /\ SeatsOK /\ PlayersOK /\ HitsOK /\ DueOK
    /\ RoomsOK /\ ChainOK /\ FinishedIsComplete

-----------------------------------------------------------------------------
(* What the operations of a room do.                                       *)

\* Once its last wave has started, a room without a living enemy has none to come.
LEMMA ClearedIsDead ==
    ASSUME Loaded, Created, RoomsOK, NEW r \in RoomIds(Template.rooms), IsCleared(r)
    PROVE  AllDead(r)
<1> PICK j \in DOMAIN Template.rooms : r = Template.rooms[j].id
  BY RoomOfTemplate
<1> DEFINE spawns == Template.rooms[j].spawns
           waves  == {0} \cup {spawn.wave : spawn \in ToSet(spawns)}
<1>1. RoomTemplate(r).spawns = spawns
  BY RoomOfTemplate
<1>2. RoomOK(rooms[r], spawns)
  BY <1>1 DEF RoomsOK
<1>3. \A i \in DOMAIN spawns : spawns[i].wave \in 1..MaxWave
  BY TemplateRooms
<1>4. waves \subseteq 0..MaxWave /\ waves # {}
  BY <1>3, SimulationAssumption DEF ToSet
<1>5. \A w \in waves : w <= Max(waves)
  BY <1>4, MaxExists, SimulationAssumption
<1>6. LastWave(r) = Max(waves)
  BY <1>1 DEF LastWave
<1>7. \A i \in DOMAIN spawns : spawns[i].wave \in waves
  BY DEF ToSet
<1> HIDE DEF spawns, waves
<1>8. ASSUME NEW i \in DOMAIN spawns PROVE rooms[r].hp[i] = 0
  <2>1. spawns[i].wave <= rooms[r].wave /\ spawns[i].wave \in Nat
    BY <1>3, <1>5, <1>6, <1>7, SimulationAssumption DEF IsCleared
  <2>2. rooms[r].hp[i] # Unborn
    BY <1>2, <2>1 DEF RoomOK
  <2>3. ~(rooms[r].hp[i] > 0)
    BY <1>2 DEF IsCleared, HasLivingEnemy, RoomOK
  <2> QED  BY <1>2, <2>2, <2>3 DEF RoomOK, Unborn
<1> QED  BY <1>2, <1>8 DEF AllDead, RoomOK

\* StartNextWave keeps a room in order, and does nothing in one where all are dead.
LEMMA StartNextWaveOK ==
    ASSUME Loaded, Created, RoomsOK, NEW r \in RoomIds(Template.rooms)
    PROVE  /\ RoomOK(StartNextWave(r), RoomTemplate(r).spawns)
           /\ AllDead(r) => StartNextWave(r) = rooms[r]
<1> PICK j \in DOMAIN Template.rooms : r = Template.rooms[j].id
  BY RoomOfTemplate
<1> DEFINE spawns == Template.rooms[j].spawns
           later  == {w \in {spawn.wave : spawn \in ToSet(spawns)} : w > rooms[r].wave}
<1>1. RoomTemplate(r).spawns = spawns
  BY RoomOfTemplate
<1>2. RoomOK(rooms[r], spawns)
  BY <1>1 DEF RoomsOK
<1>3. \A i \in DOMAIN spawns : spawns[i].wave \in Nat /\ MaxHp(spawns[i].enemy) \in Nat \ {0}
  BY TemplateRooms, SimulationAssumption
<1>4. StartNextWave(r) = IF HasLivingEnemy(r) \/ later = {} THEN rooms[r]
                         ELSE [wave |-> Min(later),
                               hp |-> [i \in DOMAIN spawns |->
                                          IF spawns[i].wave = Min(later) THEN MaxHp(spawns[i].enemy)
                                          ELSE rooms[r].hp[i]]]
  BY <1>1 DEF StartNextWave
<1>5. /\ later \subseteq Nat
      /\ \A w \in later : w > rooms[r].wave
      /\ \A i \in DOMAIN spawns : spawns[i].wave > rooms[r].wave => spawns[i].wave \in later
  BY <1>3 DEF ToSet
<1>6. ASSUME AllDead(r) PROVE later = {}
  <2>1. \A i \in DOMAIN spawns : ~(spawns[i].wave > rooms[r].wave)
    BY <1>2, <1>6 DEF AllDead, RoomOK, Unborn
  <2> QED  BY <2>1 DEF ToSet
<1> HIDE DEF spawns, later
<1>7. CASE HasLivingEnemy(r) \/ later = {}
  BY <1>1, <1>2, <1>4, <1>7
<1>8. CASE ~HasLivingEnemy(r) /\ later # {}
  <2>1. Min(later) \in later /\ \A w \in later : Min(later) <= w
    BY <1>5, <1>8, MinExists
  <2> DEFINE new == StartNextWave(r)
  <2>2. new = [wave |-> Min(later), hp |-> [i \in DOMAIN spawns |->
                  IF spawns[i].wave = Min(later) THEN MaxHp(spawns[i].enemy) ELSE rooms[r].hp[i]]]
    BY <1>4, <1>8
  <2> HIDE DEF new
  <2>3. DOMAIN new = {"wave", "hp"} /\ new.wave = Min(later) /\ DOMAIN new.hp = DOMAIN spawns
    BY <2>2
  <2>4. Min(later) \in Nat /\ Min(later) > rooms[r].wave /\ rooms[r].wave \in Nat
    BY <1>2, <1>5, <2>1 DEF RoomOK
  <2>5. ASSUME NEW i \in DOMAIN spawns
        PROVE  /\ new.hp[i] \in Int /\ new.hp[i] >= Unborn
               /\ new.hp[i] = Unborn <=> spawns[i].wave > new.wave
    <3>1. CASE spawns[i].wave = Min(later)
      BY <1>3, <2>2, <2>3, <2>4, <3>1 DEF Unborn
    <3>2. CASE spawns[i].wave # Min(later)
      <4>1. new.hp[i] = rooms[r].hp[i]
        BY <2>2, <3>2
      <4>2. spawns[i].wave > rooms[r].wave <=> spawns[i].wave > Min(later)
        BY <1>3, <1>5, <2>1, <2>4, <3>2
      <4> QED  BY <1>2, <2>3, <4>1, <4>2 DEF RoomOK
    <3> QED  BY <3>1, <3>2
  <2>6. RoomOK(new, spawns)
    BY <2>3, <2>4, <2>5 DEF RoomOK
  <2>7. ~AllDead(r)
    BY <1>6, <1>8
  <2> QED  BY <1>1, <2>6, <2>7 DEF new
<1> QED  BY <1>7, <1>8

\* ApplyEnemyDamage neither revives nor creates an enemy.
LEMMA DamageOK ==
    ASSUME Loaded, Created, RoomsOK, NEW r \in RoomIds(Template.rooms), NEW damage \in Nat,
           NEW hit \in SUBSET {i \in DOMAIN rooms[r].hp : rooms[r].hp[i] > 0}
    PROVE  /\ RoomOK(ApplyEnemyDamage(rooms[r], hit, damage), RoomTemplate(r).spawns)
           /\ \A i \in DOMAIN rooms[r].hp : rooms[r].hp[i] = 0 =>
                 ApplyEnemyDamage(rooms[r], hit, damage).hp[i] = 0
           /\ DOMAIN ApplyEnemyDamage(rooms[r], hit, damage).hp = DOMAIN rooms[r].hp
<1> DEFINE spawns == RoomTemplate(r).spawns
           new    == ApplyEnemyDamage(rooms[r], hit, damage)
<1>1. RoomOK(rooms[r], spawns)
  BY DEF RoomsOK
<1>2. /\ DOMAIN new = {"wave", "hp"} /\ new.wave = rooms[r].wave
      /\ new.hp = [i \in DOMAIN rooms[r].hp |->
                     IF i \in hit THEN (IF damage >= rooms[r].hp[i] THEN 0 ELSE rooms[r].hp[i] - damage)
                     ELSE rooms[r].hp[i]]
  BY <1>1 DEF RoomOK, ApplyEnemyDamage
<1> HIDE DEF new, spawns
<1>3. ASSUME NEW i \in DOMAIN rooms[r].hp
      PROVE  /\ new.hp[i] \in Int /\ new.hp[i] >= Unborn
             /\ new.hp[i] = Unborn <=> rooms[r].hp[i] = Unborn
             /\ rooms[r].hp[i] = 0 => new.hp[i] = 0
  BY <1>1, <1>2 DEF RoomOK, Unborn
<1>4. DOMAIN new.hp = DOMAIN rooms[r].hp /\ DOMAIN rooms[r].hp = DOMAIN spawns
  BY <1>1, <1>2 DEF RoomOK
<1>5. RoomOK(new, spawns)
  BY <1>1, <1>2, <1>3, <1>4 DEF RoomOK
<1> QED  BY <1>3, <1>4, <1>5 DEF new, spawns

-----------------------------------------------------------------------------
(* What the parts of the invariant depend on.                              *)

\* The content of a dungeon never changes.
LEMMA SameContent ==
    ASSUME content' = content
    PROVE  /\ Template' = Template /\ SkillIds' = SkillIds /\ FinalRoom' = FinalRoom
           /\ IsChain' = IsChain
           /\ \A r : RoomTemplate(r)' = RoomTemplate(r)
<1>1. Template' = Template /\ SkillIds' = SkillIds
  BY DEF Template, SkillIds
<1> QED  BY <1>1 DEF FinalRoom, IsChain, RoomTemplate

\* A dungeon that was created keeps the content that Load accepted.
LEMMA KeptAccepted ==
    ASSUME Accepted, content' = content, Created' => Created
    PROVE  Accepted'
  BY DEF Accepted, Loaded

\* Place speaks of the place of the tick, the state and the seats.
LEMMA KeptPlace ==
    ASSUME Place, UNCHANGED <<tickAt, state, moved, kept>>
    PROVE  Place'
  BY DEF Place, Created

\* SeatsOK speaks of the seats and of those who may take one.
LEMMA KeptSeats ==
    ASSUME SeatsOK, UNCHANGED seatVars
    PROVE  SeatsOK'
  BY DEF SeatsOK, seatVars

\* PlayersOK speaks of the players of a created dungeon.
LEMMA KeptPlayers ==
    ASSUME PlayersOK, UNCHANGED <<content, player>>, Created' => Created
    PROVE  PlayersOK'
<1>1. Template' = Template /\ SkillIds' = SkillIds
  BY SameContent
<1> QED  BY <1>1 DEF PlayersOK

\* HitsOK speaks of the hits, the players and the place of the tick.
LEMMA KeptHits ==
    ASSUME HitsOK, UNCHANGED <<pending, struck, player, tickAt, todo>>
    PROVE  HitsOK'
  BY DEF HitsOK

\* DueOK speaks of the same, of the seats and of who kept them.
LEMMA KeptDue ==
    ASSUME DueOK, UNCHANGED <<kept, struck, player, tickAt, todo, seats, pending>>
    PROVE  DueOK'
<1>1. \A s \in Sessions : Visited(s)' = Visited(s)
  BY DEF Visited
<1> QED  BY <1>1 DEF DueOK

\* RoomsOK speaks of the rooms of a created dungeon.
LEMMA KeptRooms ==
    ASSUME RoomsOK, UNCHANGED <<content, rooms>>, Created' => Created
    PROVE  RoomsOK'
<1>1. Template' = Template /\ \A r : RoomTemplate(r)' = RoomTemplate(r)
  BY SameContent
<1> QED  BY <1>1 DEF RoomsOK

\* A player that stays in its room leaves no enemy behind if no dead one comes back.
LEMMA KeptChain ==
    ASSUME ChainOK, PlayersOK, content' = content, Created' => Created,
           \A p \in Players : player'[p].room = player[p].room,
           \A r \in RoomIds(Template.rooms) : AllDead(r) => AllDead(r)'
    PROVE  ChainOK'
<1>1. Template' = Template /\ IsChain' = IsChain
  BY SameContent
<1>2. \A i \in DOMAIN Template.rooms : Template.rooms[i].id \in RoomIds(Template.rooms)
  BY DEF RoomIds
<1> QED  BY <1>1, <1>2 DEF ChainOK

\* Rooms that are unchanged stay as dead as they were.
LEMMA KeptDead ==
    ASSUME rooms' = rooms
    PROVE  \A r : AllDead(r) => AllDead(r)'
  BY DEF AllDead

\* FinishedIsComplete speaks of the rooms, the seats and the players.
LEMMA KeptFinished ==
    ASSUME FinishedIsComplete, UNCHANGED <<content, state, seats, player, rooms>>
    PROVE  FinishedIsComplete'
<1>1. FinalRoom' = FinalRoom
  BY SameContent
<1> QED  BY <1>1 DEF FinishedIsComplete, Seated, AllDead

\* FinishedIsComplete says nothing of a dungeon that is not finished.
LEMMA NotFinished ==
    ASSUME state' # "Finished"
    PROVE  FinishedIsComplete'
  BY DEF FinishedIsComplete

\* A step that changes the state of one player keeps the others.
LEMMA OnePlayer ==
    ASSUME PlayersOK, Created, content' = content, NEW p \in Players, NEW new,
           player' = [player EXCEPT ![p] = new],
           DOMAIN new = Fields, new.room \in RoomIds(Template.rooms),
           new.skill \in SkillIds \cup {0},
           new.phase \in {"Idle", "Startup", "Active", "Recovery"},
           new.phase = "Idle" <=> new.skill = 0
    PROVE  PlayersOK' /\ player'[p] = new /\ \A q \in Players \ {p} : player'[q] = player[q]
<1>1. Template' = Template /\ SkillIds' = SkillIds
  BY SameContent
<1>2. DOMAIN player = Players
  BY DEF PlayersOK
<1>3. /\ DOMAIN player' = Players /\ player'[p] = new
      /\ \A q \in Players \ {p} : player'[q] = player[q]
  BY <1>2
<1>4. ASSUME NEW q \in Players
      PROVE  /\ DOMAIN player'[q] = Fields
             /\ player'[q].room \in RoomIds(Template.rooms)
             /\ player'[q].skill \in SkillIds \cup {0}
             /\ player'[q].phase \in {"Idle", "Startup", "Active", "Recovery"}
             /\ player'[q].phase = "Idle" <=> player'[q].skill = 0
  <2>1. CASE q = p
    BY <1>3, <2>1
  <2>2. CASE q # p
    BY <1>3, <2>2 DEF PlayersOK
  <2> QED  BY <2>1, <2>2
<1>5. PlayersOK'
  BY <1>1, <1>3, <1>4 DEF PlayersOK
<1> QED  BY <1>3, <1>5

\* A step that puts one room in order keeps the others.
LEMMA OneRoom ==
    ASSUME RoomsOK, Created, content' = content, NEW r \in RoomIds(Template.rooms), NEW new,
           rooms' = [rooms EXCEPT ![r] = new],
           RoomOK(new, RoomTemplate(r).spawns),
           AllDead(r) => \A i \in DOMAIN new.hp : new.hp[i] = 0
    PROVE  RoomsOK' /\ \A q \in RoomIds(Template.rooms) : AllDead(q) => AllDead(q)'
<1>1. Template' = Template /\ \A q : RoomTemplate(q)' = RoomTemplate(q)
  BY SameContent
<1>2. DOMAIN rooms = RoomIds(Template.rooms)
  BY DEF RoomsOK
<1>3. /\ DOMAIN rooms' = RoomIds(Template.rooms) /\ rooms'[r] = new
      /\ \A q \in RoomIds(Template.rooms) \ {r} : rooms'[q] = rooms[q]
  BY <1>2
<1>4. ASSUME NEW q \in RoomIds(Template.rooms)
      PROVE  RoomOK(rooms'[q], RoomTemplate(q).spawns)
  <2>1. CASE q = r
    BY <1>3, <2>1
  <2>2. CASE q # r
    BY <1>3, <2>2 DEF RoomsOK
  <2> QED  BY <2>1, <2>2
<1>5. RoomsOK'
  BY <1>1, <1>3, <1>4 DEF RoomsOK
<1>6. ASSUME NEW q \in RoomIds(Template.rooms), AllDead(q) PROVE AllDead(q)'
  <2>1. CASE q = r
    BY <1>3, <1>6, <2>1 DEF AllDead
  <2>2. CASE q # r
    BY <1>3, <1>6, <2>2 DEF AllDead
  <2> QED  BY <2>1, <2>2
<1> QED  BY <1>5, <1>6

-----------------------------------------------------------------------------
(* The sessions.                                                           *)

\* A step of the sessions changes nothing of the rooms, the players and their hits.
SessionStep ==
    /\ UNCHANGED <<content, state, player, rooms, pending, tickAt, todo, struck>>
    /\ Created

\* What is left to show of such a step.
LEMMA SessionKeeps ==
    ASSUME SimInv, SessionStep
    PROVE  /\ Accepted' /\ PlayersOK' /\ HitsOK' /\ RoomsOK' /\ ChainOK'
           /\ Place'
<1>1. Accepted'
  BY KeptAccepted DEF SimInv, SessionStep
<1>2. PlayersOK'
  BY KeptPlayers DEF SimInv, SessionStep
<1>3. HitsOK'
  BY KeptHits DEF SimInv, SessionStep
<1>4. RoomsOK'
  BY KeptRooms DEF SimInv, SessionStep
<1>5. ChainOK'
  BY KeptChain, KeptDead DEF SimInv, SessionStep
<1>6. Place'
  BY DEF SimInv, SessionStep, Place, Created
<1> QED  BY <1>1, <1>2, <1>3, <1>4, <1>5, <1>6

\* A seat that changes session is still the seat of one session, of its player, and what
\* is due of the others does not change.
LEMMA ReseatKeeps ==
    ASSUME SimInv, SessionStep, NEW from \in Sessions, NEW to \in Sessions,
           seats[from] # None, seats[to] = None, Owner[from] = Owner[to], Reseat(from, to)
    PROVE  /\ seats' \in [Sessions -> Players \cup {None}] /\ kept' \in [Players -> BOOLEAN]
           /\ \A s \in Sessions : seats'[s] # None => seats'[s] = Owner[s]
           /\ \A s, t \in Sessions : seats'[s] # None /\ seats'[s] = seats'[t] => s = t
           /\ seats'[from] = None /\ seats'[to] # None
           /\ \A s \in Sessions \ {from, to} : seats'[s] = seats[s]
           /\ DueOK' /\ FinishedIsComplete'
<1>1. /\ seats \in [Sessions -> Players \cup {None}] /\ kept \in [Players -> BOOLEAN]
      /\ None \notin Players /\ Owner \in [Sessions -> Players]
  BY SimulationAssumption DEF SimInv, TypesOK
<1>2. from # to
  OBVIOUS
<1>3. /\ seats'[from] = None /\ seats'[to] = seats[from]
      /\ \A s \in Sessions \ {from, to} : seats'[s] = seats[s]
  BY <1>1, <1>2 DEF Reseat
<1>4. seats[from] \in Players
  BY <1>1
<1>5. seats' \in [Sessions -> Players \cup {None}] /\ kept' \in [Players -> BOOLEAN]
  BY <1>1 DEF Reseat
<1>6. \A s \in Sessions : seats'[s] # None => seats'[s] = Owner[s]
  BY <1>3 DEF SimInv, SeatsOK
<1>7. ASSUME NEW s \in Sessions, NEW t \in Sessions, seats'[s] # None, seats'[s] = seats'[t]
      PROVE  s = t
  BY <1>3, <1>7 DEF SimInv, SeatsOK
<1>8. kept'[seats[from]] = FALSE /\ \A p \in Players \ {seats[from]} : kept'[p] = kept[p]
  BY <1>1, <1>4 DEF Reseat
<1>9. \A s \in Sessions : Visited(s)' = Visited(s)
  BY DEF SessionStep, Visited
<1>10. ASSUME NEW p \in Players, NEW s \in Sessions, p # seats[from]
       PROVE  seats'[s] = p <=> seats[s] = p
  BY <1>1, <1>3, <1>10
<1>11. DueOK'
  <2> SUFFICES ASSUME NEW p \in Players, kept'[p], struck'[p] = 0
               PROVE  /\ player'[p].phase # "Recovery"
                      /\ player'[p].phase \in {"Startup", "Active"} =>
                            \A s \in Sessions : seats'[s] = p => pending'[s] = player'[p].skill
                      /\ player'[p].phase = "Active" =>
                            \E s \in Sessions : seats'[s] = p /\ Visited(s)'
    BY DEF DueOK
  <2>1. p # seats[from] /\ kept[p] /\ struck[p] = 0
    BY <1>8 DEF SessionStep
  <2>2. /\ player[p].phase # "Recovery"
        /\ player[p].phase \in {"Startup", "Active"} =>
              \A s \in Sessions : seats[s] = p => pending[s] = player[p].skill
        /\ player[p].phase = "Active" => \E s \in Sessions : seats[s] = p /\ Visited(s)
    BY <2>1 DEF SimInv, DueOK
  <2> QED  BY <1>9, <1>10, <2>1, <2>2 DEF SessionStep
<1>12. FinishedIsComplete'
  <2>1. FinalRoom' = FinalRoom
    BY SameContent DEF SessionStep
  <2> SUFFICES ASSUME state = "Finished"
               PROVE  /\ \A r \in DOMAIN rooms' : AllDead(r)'
                      /\ \A s \in Seated' : player'[seats'[s]].room = FinalRoom'
    BY DEF FinishedIsComplete, SessionStep
  <2>2. \A r \in DOMAIN rooms' : AllDead(r)'
    BY KeptDead DEF SimInv, FinishedIsComplete, SessionStep
  <2>3. \A s \in Sessions : seats[s] # None => player[seats[s]].room = FinalRoom
    BY DEF SimInv, FinishedIsComplete, Seated
  <2>4. \A s \in Sessions : seats'[s] # None => player[seats'[s]].room = FinalRoom
    BY <1>3, <2>3
  <2> QED  BY <2>1, <2>2, <2>4 DEF Seated, SessionStep
<1> QED  BY <1>3, <1>5, <1>6, <1>7, <1>11, <1>12

\* DisconnectParticipant keeps the invariant.
LEMMA DisconnectKeeps ==
    ASSUME SimInv, NEW s \in Sessions, Disconnect(s)
    PROVE  SimInv'
<1>1. SessionStep
  BY DEF Disconnect, SessionStep, Created
<1>2. Accepted' /\ PlayersOK' /\ HitsOK' /\ RoomsOK' /\ ChainOK' /\ Place'
  BY <1>1, SessionKeeps
<1>3. TypesOK'
  <2>1. SkillIds' = SkillIds
    BY <1>1, SameContent DEF SessionStep
  <2> QED  BY <2>1 DEF SimInv, TypesOK, Disconnect
<1>4. SeatsOK'
  BY DEF SimInv, SeatsOK, Disconnect
<1>5. DueOK' /\ FinishedIsComplete'
  BY KeptDue, KeptFinished DEF SimInv, Disconnect
<1> QED  BY <1>2, <1>3, <1>4, <1>5 DEF SimInv

\* ReconnectParticipant keeps the invariant.
LEMMA ReconnectKeeps ==
    ASSUME SimInv, NEW old \in Sessions, NEW new \in Sessions, Reconnect(old, new)
    PROVE  SimInv'
<1>1. SessionStep
  BY DEF Reconnect, SessionStep, Created
<1>2. Accepted' /\ PlayersOK' /\ HitsOK' /\ RoomsOK' /\ ChainOK' /\ Place'
  BY <1>1, SessionKeeps
<1>3. seats[old] # None /\ seats[new] = None /\ Owner[old] = Owner[new] /\ Reseat(old, new)
  BY DEF SimInv, SeatsOK, Reconnect
<1>4. /\ seats' \in [Sessions -> Players \cup {None}] /\ kept' \in [Players -> BOOLEAN]
      /\ \A s \in Sessions : seats'[s] # None => seats'[s] = Owner[s]
      /\ \A s, t \in Sessions : seats'[s] # None /\ seats'[s] = seats'[t] => s = t
      /\ seats'[old] = None /\ seats'[new] # None
      /\ \A s \in Sessions \ {old, new} : seats'[s] = seats[s]
      /\ DueOK' /\ FinishedIsComplete'
  BY <1>1, <1>3, ReseatKeeps
<1>5. TypesOK'
  <2>1. SkillIds' = SkillIds
    BY <1>1, SameContent DEF SessionStep
  <2> QED  BY <1>4, <2>1 DEF SimInv, TypesOK, Reconnect
<1>6. SeatsOK'
  <2>1. moved'.old = old /\ moved'.new = new
    BY DEF Reconnect
  <2>2. ASSUME NEW s \in Sessions
        PROVE  (s \in away' => seats'[s] # None) /\ (s \in fresh' => seats'[s] = None)
    BY <1>4 DEF SimInv, SeatsOK, Reconnect
  <2>3. new \notin away' /\ old \notin fresh'
    BY <1>3 DEF SimInv, SeatsOK, Reconnect
  <2> QED  BY <1>3, <1>4, <2>1, <2>2, <2>3 DEF SeatsOK
<1> QED  BY <1>2, <1>4, <1>5, <1>6 DEF SimInv

\* The end of a reconnect keeps the invariant.
LEMMA ReconnectDoneKeeps ==
    ASSUME SimInv, ReconnectDone
    PROVE  SimInv'
<1>1. TypesOK'
  <2>1. SkillIds' = SkillIds
    BY SameContent DEF ReconnectDone
  <2> QED  BY <2>1 DEF SimInv, TypesOK, ReconnectDone
<1>2. SeatsOK'
  BY DEF SimInv, SeatsOK, ReconnectDone
<1>3. DueOK' /\ FinishedIsComplete' /\ HitsOK'
  BY KeptDue, KeptFinished, KeptHits DEF SimInv, ReconnectDone
<1>4. Created' = Created /\ Place'
  BY DEF SimInv, Created, Place, ReconnectDone
<1>5. Accepted' /\ PlayersOK' /\ RoomsOK'
  BY <1>4, KeptAccepted, KeptPlayers, KeptRooms DEF SimInv, ReconnectDone
<1>6. ChainOK'
  BY <1>4, KeptChain, KeptDead DEF SimInv, ReconnectDone
<1> QED  BY <1>1, <1>2, <1>3, <1>4, <1>5, <1>6 DEF SimInv

\* RollbackParticipantReconnect keeps the invariant.
LEMMA RollbackKeeps ==
    ASSUME SimInv, Rollback
    PROVE  SimInv'
<1>1. SessionStep
  BY DEF SimInv, Place, Rollback, SessionStep
<1>2. Accepted' /\ PlayersOK' /\ HitsOK' /\ RoomsOK' /\ ChainOK' /\ Place'
  BY <1>1, SessionKeeps
<1> DEFINE old == moved.old
           new == moved.new
<1>3. old \in Sessions /\ new \in Sessions
  BY DEF SimInv, TypesOK, Rollback
<1>4. /\ seats[new] # None /\ seats[old] = None /\ Owner[new] = Owner[old] /\ Reseat(new, old)
      /\ new \notin away /\ old \notin fresh
      /\ away' = away \cup {old} /\ fresh' = fresh \cup {new} /\ moved' = None
  BY DEF SimInv, SeatsOK, Rollback
<1> HIDE DEF old, new
<1>5. /\ seats' \in [Sessions -> Players \cup {None}] /\ kept' \in [Players -> BOOLEAN]
      /\ \A s \in Sessions : seats'[s] # None => seats'[s] = Owner[s]
      /\ \A s, t \in Sessions : seats'[s] # None /\ seats'[s] = seats'[t] => s = t
      /\ seats'[new] = None /\ seats'[old] # None
      /\ \A s \in Sessions \ {new, old} : seats'[s] = seats[s]
      /\ DueOK' /\ FinishedIsComplete'
  BY <1>1, <1>3, <1>4, ReseatKeeps
<1>6. TypesOK'
  <2>1. SkillIds' = SkillIds
    BY <1>1, SameContent DEF SessionStep
  <2> QED  BY <1>3, <1>4, <1>5, <2>1 DEF SimInv, TypesOK, Rollback
<1>7. SeatsOK'
  <2>1. ASSUME NEW s \in Sessions
        PROVE  (s \in away' => seats'[s] # None) /\ (s \in fresh' => seats'[s] = None)
    BY <1>4, <1>5 DEF SimInv, SeatsOK
  <2> QED  BY <1>4, <1>5, <2>1 DEF SeatsOK
<1> QED  BY <1>2, <1>5, <1>6, <1>7 DEF SimInv

-----------------------------------------------------------------------------
(* Starting up.                                                            *)

\* A new room has no enemy yet, and all its waves are to come.
LEMMA NewRoom ==
    ASSUME Loaded, NEW r \in RoomIds(Template.rooms)
    PROVE  RoomOK(RoomState(RoomTemplate(r)), RoomTemplate(r).spawns)
<1> PICK j \in DOMAIN Template.rooms : r = Template.rooms[j].id
  BY RoomOfTemplate
<1> DEFINE spawns == Template.rooms[j].spawns
           new    == RoomState(RoomTemplate(r))
<1>1. RoomTemplate(r) = Template.rooms[j]
  BY RoomOfTemplate
<1>2. new = [wave |-> 0, hp |-> [i \in DOMAIN spawns |-> Unborn]]
  BY <1>1 DEF RoomState
<1>3. \A i \in DOMAIN spawns : spawns[i].wave \in 1..MaxWave
  BY TemplateRooms
<1> HIDE DEF spawns, new
<1>4. RoomOK(new, spawns)
  BY <1>2, <1>3, SimulationAssumption DEF RoomOK, Unborn
<1> QED  BY <1>1, <1>4 DEF new, spawns

\* Loading the content and creating the dungeon keeps the invariant.
LEMMA CreateDungeonKeeps ==
    ASSUME SimInv, CreateDungeon
    PROVE  SimInv'
<1>1. content' = content /\ content \in Contents /\ tickAt = "idle" /\ tickAt' = "idle"
  BY DEF SimInv, Accepted, Place, CreateDungeon
<1>2. ~Created /\ moved = None /\ \A p \in Players : kept[p] = FALSE
  BY DEF SimInv, Place, Created, CreateDungeon
<1>3. SkillIds' = SkillIds /\ Template' = Template /\ \A r : RoomTemplate(r)' = RoomTemplate(r)
  BY <1>1, SameContent
<1>4. TypesOK' /\ SeatsOK'
  <2>1. TypesOK'
    BY <1>3 DEF SimInv, TypesOK, CreateDungeon, seatVars
  <2> QED  BY <2>1, KeptSeats DEF SimInv, CreateDungeon
<1>5. Place' /\ DueOK'
  BY <1>1, <1>2 DEF Place, DueOK, CreateDungeon, seatVars
<1>6. HitsOK'
  BY <1>1 DEF SimInv, HitsOK, CreateDungeon
<1>7. FinishedIsComplete'
  BY NotFinished DEF CreateDungeon
<1>8. CASE ~Load(content)
  <2>1. ~Created'
    BY <1>8 DEF CreateDungeon, Created
  <2> QED  BY <1>1, <1>4, <1>5, <1>6, <1>7, <2>1
           DEF SimInv, Accepted, PlayersOK, RoomsOK, ChainOK
<1>9. CASE Load(content)
  <2>1. Loaded /\ Loaded'
    BY <1>1, <1>9 DEF Loaded
  <2>2. /\ player' = [p \in Players |-> NewPlayer]
        /\ rooms' = [r \in RoomIds(Template.rooms) |-> RoomState(RoomTemplate(r))]
    BY <1>9 DEF CreateDungeon
  <2>3. /\ DOMAIN NewPlayer = Fields /\ NewPlayer.room = FirstRoom
        /\ NewPlayer.skill = 0 /\ NewPlayer.phase = "Idle"
    BY DEF NewPlayer, Fields
  <2>4. FirstRoom \in RoomIds(Template.rooms)
    BY <2>1, RoomOfTemplate
  <2>5. PlayersOK'
    BY <1>3, <2>2, <2>3, <2>4 DEF PlayersOK
  <2>6. \A r \in RoomIds(Template.rooms) : RoomOK(RoomState(RoomTemplate(r)), RoomTemplate(r).spawns)
    BY <2>1, NewRoom
  <2>7. RoomsOK'
    BY <1>3, <2>2, <2>6 DEF RoomsOK
  <2>8. ChainOK'
    <3>1. ASSUME NEW p \in Players, NEW i \in DOMAIN Template.rooms, NEW j \in DOMAIN Template.rooms,
                 player'[p].room = Template.rooms[j].id, i < j
          PROVE  FALSE
      <4>1. 1 \in DOMAIN Template.rooms /\ i \in Nat \ {0} /\ j \in Nat \ {0}
        BY <2>1, TemplateRooms
      <4>2. Template.rooms[1].id = Template.rooms[j].id
        BY <2>2, <2>3, <3>1 DEF FirstRoom
      <4>3. j = 1
        BY <2>1, <4>1, <4>2, TemplateRooms
      <4> QED  BY <3>1, <4>1, <4>3
    <3> QED  BY <1>3, <3>1 DEF ChainOK
  <2>9. Accepted'
    BY <2>1, <1>1 DEF Accepted
  <2> QED  BY <1>4, <1>5, <1>6, <1>7, <2>5, <2>7, <2>8, <2>9 DEF SimInv
<1> QED  BY <1>8, <1>9

\* The first wave of the first room keeps the invariant.
LEMMA StartKeeps ==
    ASSUME SimInv, Start
    PROVE  SimInv'
<1>1. Created /\ Created' /\ content' = content
  BY DEF Start, Created
<1>2. Loaded
  BY <1>1 DEF SimInv, Accepted
<1>3. FirstRoom \in RoomIds(Template.rooms)
  BY <1>2, RoomOfTemplate
<1>4. SkillIds' = SkillIds
  BY <1>1, SameContent
<1>5. TypesOK' /\ SeatsOK' /\ Accepted' /\ Place'
  <2>1. TypesOK'
    BY <1>4 DEF SimInv, TypesOK, Start, seatVars
  <2>2. SeatsOK'
    BY KeptSeats DEF SimInv, Start
  <2> QED  BY <1>1, <2>1, <2>2, KeptAccepted DEF SimInv, Place, Start
<1>6. HitsOK' /\ DueOK' /\ PlayersOK'
  BY <1>1, KeptHits, KeptDue, KeptPlayers DEF SimInv, Start, seatVars
<1>7. /\ RoomOK(StartNextWave(FirstRoom), RoomTemplate(FirstRoom).spawns)
      /\ AllDead(FirstRoom) => StartNextWave(FirstRoom) = rooms[FirstRoom]
  BY <1>1, <1>2, <1>3, StartNextWaveOK DEF SimInv
<1>8. AllDead(FirstRoom) => \A i \in DOMAIN StartNextWave(FirstRoom).hp : StartNextWave(FirstRoom).hp[i] = 0
  BY <1>7 DEF AllDead
<1>9. RoomsOK' /\ \A q \in RoomIds(Template.rooms) : AllDead(q) => AllDead(q)'
  BY <1>1, <1>3, <1>7, <1>8, OneRoom DEF SimInv, Start
<1>10. ChainOK'
  BY <1>1, <1>9, KeptChain DEF SimInv, Start
<1>11. FinishedIsComplete'
  BY NotFinished DEF Start
<1> QED  BY <1>5, <1>6, <1>9, <1>10, <1>11 DEF SimInv

-----------------------------------------------------------------------------
(* The tick: the sweep, and movement.                                      *)

\* While the tick is at work the dungeon is running.
LEMMA TickIsRunning ==
    ASSUME SimInv, tickAt # "idle"
    PROVE  state = "Running" /\ Created /\ Loaded
  BY DEF SimInv, Place, Accepted, Created

\* Between the loops of the combat processor no kept action that is active has a hit to strike.
LEMMA NothingDue ==
    ASSUME SimInv, \A s \in Sessions : ~Visited(s),
           NEW p \in Players, kept[p], struck[p] = 0
    PROVE  player[p].phase # "Recovery" /\ player[p].phase # "Active"
  BY DEF SimInv, DueOK

\* So DueOK holds after a step that leaves players and hits alone.
LEMMA NothingDueKept ==
    ASSUME SimInv, \A s \in Sessions : ~Visited(s), UNCHANGED <<kept, struck, player, pending>>,
           \A s \in Sessions : seats'[s] = seats[s] \/ seats'[s] = None
    PROVE  DueOK'
<1> SUFFICES ASSUME NEW p \in Players, kept[p], struck[p] = 0
             PROVE  /\ player[p].phase # "Recovery"
                    /\ player[p].phase \in {"Startup", "Active"} =>
                          \A s \in Sessions : seats'[s] = p => pending[s] = player[p].skill
                    /\ player[p].phase = "Active" => \E s \in Sessions : seats'[s] = p /\ Visited(s)'
  BY DEF DueOK
<1>1. player[p].phase # "Recovery" /\ player[p].phase # "Active"
  BY NothingDue
<1>2. ASSUME NEW s \in Sessions, seats'[s] = p PROVE seats[s] = p
  BY <1>2, SimulationAssumption
<1> QED  BY <1>1, <1>2 DEF SimInv, DueOK

\* The sweep at the begin of a tick keeps the invariant.
LEMMA TickBeginKeeps ==
    ASSUME SimInv, TickBegin
    PROVE  SimInv'
<1>1. /\ Created /\ Created' /\ content' = content /\ tickAt = "idle"
      /\ tickAt' \in {"idle", "move"} /\ todo' \in {{}, Sessions}
      /\ state' # "Finished" /\ (tickAt' # "idle" => state' = "Running")
  BY DEF TickBegin, Goto, Created
<1>2. PICK gone \in SUBSET away :
          /\ seats' = [s \in Sessions |-> IF s \in gone THEN None ELSE seats[s]]
          /\ away' = away \ gone
  BY DEF TickBegin
<1>3. SkillIds' = SkillIds
  BY <1>1, SameContent
<1>4. TypesOK'
  BY <1>1, <1>2, <1>3 DEF SimInv, TypesOK, TickBegin, TickSteps
<1>5. SeatsOK'
  <2>1. moved' = moved /\ fresh' = fresh /\ moved \in [old : Sessions, new : Sessions] \cup {None}
    BY DEF SimInv, TypesOK, TickBegin
  <2>2. \A s \in Sessions : seats'[s] = IF s \in gone THEN None ELSE seats[s]
    BY <1>2
  <2>3. moved # None => moved.new \in Sessions /\ moved.old \in Sessions /\ moved.new \notin gone
    BY <2>1 DEF SimInv, SeatsOK
  <2>4. moved # None => seats'[moved.new] # None /\ seats'[moved.old] = None
    BY <2>2, <2>3 DEF SimInv, SeatsOK
  <2>5. \A s, t \in Sessions : seats'[s] # None /\ seats'[s] = seats'[t] => s = t
    BY <2>2 DEF SimInv, SeatsOK
  <2>6. \A s \in Sessions : (s \in away' => seats'[s] # None) /\ (s \in fresh' => seats'[s] = None)
    BY <1>2, <2>1, <2>2 DEF SimInv, SeatsOK
  <2> QED  BY <1>2, <2>1, <2>2, <2>4, <2>5, <2>6 DEF SimInv, SeatsOK
<1>6. Accepted' /\ PlayersOK' /\ RoomsOK'
  BY <1>1, KeptAccepted, KeptPlayers, KeptRooms DEF SimInv, TickBegin
<1>7. ChainOK'
  BY <1>1, KeptChain, KeptDead DEF SimInv, TickBegin
<1>8. HitsOK'
  BY <1>1 DEF SimInv, HitsOK, TickBegin
<1>9. DueOK'
  <2>1. \A s \in Sessions : ~Visited(s)
    BY <1>1 DEF Visited
  <2> QED  BY <1>2, <2>1, NothingDueKept DEF TickBegin
<1>10. Place' /\ FinishedIsComplete'
  BY <1>1, NotFinished DEF Place
<1> QED  BY <1>4, <1>5, <1>6, <1>7, <1>8, <1>9, <1>10 DEF SimInv

\* MoveTo keeps the invariant.
LEMMA MoveToKeeps ==
    ASSUME SimInv, NEW s \in Sessions, MoveTo(s)
    PROVE  SimInv'
<1>1. /\ state = "Running" /\ Created /\ Created' /\ state' = state /\ content' = content
      /\ tickAt = "move" /\ tickAt' \in {"move", s} /\ todo' \subseteq todo
  BY TickIsRunning DEF MoveTo, Created
<1>2. s \notin TickSteps /\ SkillIds' = SkillIds
  BY <1>1, SameContent, SimulationAssumption
<1>3. TypesOK' /\ SeatsOK' /\ Accepted' /\ Place' /\ RoomsOK'
  <2>1. TypesOK'
    BY <1>1, <1>2 DEF SimInv, TypesOK, MoveTo, seatVars
  <2>2. SeatsOK'
    BY KeptSeats DEF SimInv, MoveTo
  <2>3. Place'
    BY <1>1 DEF SimInv, Place, MoveTo
  <2> QED  BY <1>1, <2>1, <2>2, <2>3, KeptAccepted, KeptRooms DEF SimInv, MoveTo
<1>4. /\ PlayersOK'
      /\ \A p \in Players : /\ player'[p].room = player[p].room
                            /\ player'[p].skill = player[p].skill
                            /\ player'[p].phase = player[p].phase
  <2>1. CASE player' = player
    BY <1>1, <2>1, KeptPlayers DEF SimInv
  <2>2. CASE /\ seats[s] # None
             /\ \E spot \in Spots : player' = [player EXCEPT ![seats[s]].at = spot]
    <3> PICK spot \in Spots : player' = [player EXCEPT ![seats[s]].at = spot]
      BY <2>2
    <3> DEFINE p   == seats[s]
               new == [player[p] EXCEPT !.at = spot]
    <3>1. p \in Players
      BY <2>2 DEF SimInv, TypesOK
    <3>2. DOMAIN player[p] = Fields /\ DOMAIN player = Players
      BY <1>1, <3>1 DEF SimInv, PlayersOK
    <3>3. player' = [player EXCEPT ![p] = new]
      BY <2>2, <3>2
    <3>4. /\ DOMAIN new = Fields /\ new.room = player[p].room
          /\ new.skill = player[p].skill /\ new.phase = player[p].phase
      BY <3>2 DEF Fields
    <3> HIDE DEF p, new
    <3>5. /\ new.room \in RoomIds(Template.rooms) /\ new.skill \in SkillIds \cup {0}
          /\ new.phase \in {"Idle", "Startup", "Active", "Recovery"}
          /\ new.phase = "Idle" <=> new.skill = 0
      BY <1>1, <3>1, <3>4 DEF SimInv, PlayersOK
    <3>6. PlayersOK' /\ player'[p] = new /\ \A q \in Players \ {p} : player'[q] = player[q]
      BY <1>1, <3>1, <3>3, <3>4, <3>5, OnePlayer DEF SimInv
    <3> QED  BY <3>4, <3>6
  <2> QED  BY <2>1, <2>2 DEF MoveTo
<1>5. ChainOK'
  BY <1>1, <1>4, KeptChain, KeptDead DEF SimInv, MoveTo
<1>6. HitsOK'
  BY <1>1, <1>2 DEF SimInv, HitsOK, MoveTo, TickSteps
<1>7. DueOK'
  <2>1. \A t \in Sessions : ~Visited(t)
    BY <1>1 DEF Visited
  <2> SUFFICES ASSUME NEW p \in Players, kept[p], struck[p] = 0
               PROVE  /\ player'[p].phase # "Recovery" /\ player'[p].phase # "Active"
                      /\ player'[p].phase = "Startup" =>
                            \A t \in Sessions : seats[t] = p => pending[t] = player'[p].skill
    BY DEF DueOK, MoveTo, seatVars
  <2>2. player[p].phase # "Recovery" /\ player[p].phase # "Active"
    BY <2>1, NothingDue
  <2> QED  BY <1>4, <2>2 DEF SimInv, DueOK
<1>8. FinishedIsComplete'
  BY <1>1, NotFinished
<1> QED  BY <1>3, <1>4, <1>5, <1>6, <1>7, <1>8 DEF SimInv

\* The portal that TryUsePortal finds is one of the player's room, and leads to a room.
LEMMA PortalFacts ==
    ASSUME Loaded, NEW p \in Players, player[p].room \in RoomIds(Template.rooms), PortalsAt(p) # {}
    PROVE  /\ PortalAt(p).target \in RoomIds(Template.rooms)
           /\ \E j \in DOMAIN Template.rooms :
                 /\ player[p].room = Template.rooms[j].id
                 /\ PortalAt(p) \in ToSet(Template.rooms[j].portals)
<1> PICK j \in DOMAIN Template.rooms : player[p].room = Template.rooms[j].id
  BY RoomOfTemplate
<1> DEFINE portals == Template.rooms[j].portals
<1>1. RoomTemplate(player[p].room).portals = portals
  BY RoomOfTemplate
<1>2. portals \in Seq(ToSet(portals))
  BY TemplateRooms
<1>3. PortalsAt(p) \subseteq DOMAIN portals /\ DOMAIN portals \subseteq Nat
  BY <1>1, <1>2 DEF PortalsAt
<1>4. Min(PortalsAt(p)) \in DOMAIN portals
  BY <1>3, MinExists
<1>5. PortalAt(p) = portals[Min(PortalsAt(p))]
  BY <1>1 DEF PortalAt
<1>6. PortalAt(p).target \in RoomIds(Template.rooms)
  BY <1>4, <1>5, TemplateRooms
<1>7. PortalAt(p) \in ToSet(portals)
  BY <1>4, <1>5 DEF ToSet
<1> QED  BY <1>6, <1>7

\* The use of a portal, by the player p.
LEMMA UsePortalKeeps ==
    ASSUME SimInv, Created, NEW p \in Players, MayUsePortal(p), content' = content, state' = state,
           player' = [player EXCEPT ![p].room = PortalAt(p).target, ![p].at = PortalAt(p).to],
           rooms' = [rooms EXCEPT ![PortalAt(p).target] = StartNextWave(PortalAt(p).target)]
    PROVE  /\ PlayersOK' /\ RoomsOK' /\ ChainOK'
           /\ \A q \in Players : /\ player'[q].skill = player[q].skill
                                 /\ player'[q].phase = player[q].phase
<1> DEFINE portal == PortalAt(p)
           new    == [player[p] EXCEPT !.room = portal.target, !.at = portal.to]
<1>1. Loaded
  BY DEF SimInv, Accepted
<1>2. player[p].room \in RoomIds(Template.rooms) /\ PortalsAt(p) # {}
  BY DEF SimInv, PlayersOK, MayUsePortal
<1>3. portal.target \in RoomIds(Template.rooms)
  BY <1>1, <1>2, PortalFacts
<1>4. PICK j \in DOMAIN Template.rooms :
          player[p].room = Template.rooms[j].id /\ portal \in ToSet(Template.rooms[j].portals)
  BY <1>1, <1>2, PortalFacts
<1>5. /\ DOMAIN player = Players /\ DOMAIN player[p] = Fields
      /\ player[p].skill \in SkillIds \cup {0}
      /\ player[p].phase \in {"Idle", "Startup", "Active", "Recovery"}
      /\ player[p].phase = "Idle" <=> player[p].skill = 0
  BY DEF SimInv, PlayersOK
<1>6. player' = [player EXCEPT ![p] = new]
  BY <1>5
<1>7. /\ DOMAIN new = Fields /\ new.room = portal.target
      /\ new.skill = player[p].skill /\ new.phase = player[p].phase
  BY <1>5 DEF Fields
<1>8. portal.clear => IsCleared(player[p].room)
  BY DEF MayUsePortal
<1>9. rooms' = [rooms EXCEPT ![portal.target] = StartNextWave(portal.target)]
  OBVIOUS
<1> HIDE DEF portal, new
<1>10. PlayersOK' /\ player'[p] = new /\ \A q \in Players \ {p} : player'[q] = player[q]
  BY <1>3, <1>5, <1>6, <1>7, OnePlayer DEF SimInv
<1>11. /\ RoomOK(StartNextWave(portal.target), RoomTemplate(portal.target).spawns)
       /\ AllDead(portal.target) => StartNextWave(portal.target) = rooms[portal.target]
  BY <1>1, <1>3, StartNextWaveOK DEF SimInv
<1>12. AllDead(portal.target) =>
           \A i \in DOMAIN StartNextWave(portal.target).hp : StartNextWave(portal.target).hp[i] = 0
  BY <1>11 DEF AllDead
<1>13. RoomsOK' /\ \A q \in RoomIds(Template.rooms) : AllDead(q) => AllDead(q)'
  BY <1>3, <1>9, <1>11, <1>12, OneRoom DEF SimInv
<1>14. ChainOK'
  <2>1. Template' = Template /\ IsChain' = IsChain
    BY SameContent
  <2>2. \A i \in DOMAIN Template.rooms : Template.rooms[i].id \in RoomIds(Template.rooms)
    BY DEF RoomIds
  <2> SUFFICES ASSUME IsChain, NEW q \in Players,
                      NEW i \in DOMAIN Template.rooms, NEW k \in DOMAIN Template.rooms,
                      player'[q].room = Template.rooms[k].id, i < k
               PROVE  AllDead(Template.rooms[i].id)
    BY <1>13, <2>1, <2>2 DEF ChainOK
  <2>3. CASE q # p
    <3>1. player[q].room = Template.rooms[k].id
      BY <1>10, <2>3
    <3> QED  BY <3>1 DEF SimInv, ChainOK
  <2>4. CASE q = p
    <3>1. /\ Template.rooms \in Seq(ToSet(Template.rooms))
          /\ portal.clear /\ j < Len(Template.rooms) /\ portal.target = Template.rooms[j + 1].id
      BY <1>1, <1>4, TemplateRooms DEF IsChain
    <3>2. j + 1 \in DOMAIN Template.rooms /\ j \in Nat /\ i \in Nat /\ k \in Nat
      BY <3>1
    <3>3. Template.rooms[k].id = Template.rooms[j + 1].id
      BY <1>7, <1>10, <2>4, <3>1
    <3>4. k = j + 1
      BY <1>1, <3>2, <3>3, TemplateRooms
    <3>5. CASE i = j
      BY <1>1, <1>2, <1>4, <1>8, <3>1, <3>5, ClearedIsDead DEF SimInv
    <3>6. CASE i # j
      <4>1. i < j
        BY <3>2, <3>4, <3>6
      <4> QED  BY <1>4, <4>1 DEF SimInv, ChainOK
    <3> QED  BY <3>5, <3>6
  <2> QED  BY <2>3, <2>4
<1> QED  BY <1>7, <1>10, <1>13, <1>14

\* TryUsePortal keeps the invariant.
LEMMA TryUsePortalKeeps ==
    ASSUME SimInv, NEW s \in Sessions, TryUsePortal(s)
    PROVE  SimInv'
<1>1. s \notin TickSteps
  BY SimulationAssumption
<1>2. tickAt = s /\ tickAt # "idle" /\ tickAt' = "move"
  BY <1>1 DEF TryUsePortal, TickSteps
<1>3. /\ state = "Running" /\ Created /\ Created' /\ state' = state /\ content' = content
  BY <1>2, TickIsRunning DEF TryUsePortal, Created
<1>4. SkillIds' = SkillIds
  BY <1>3, SameContent
<1>5. TypesOK' /\ SeatsOK' /\ Accepted' /\ Place'
  <2>1. TypesOK'
    BY <1>2, <1>4 DEF SimInv, TypesOK, TickSteps, TryUsePortal, seatVars
  <2>2. SeatsOK'
    BY KeptSeats DEF SimInv, TryUsePortal
  <2>3. Place'
    BY <1>3 DEF SimInv, Place, TryUsePortal
  <2> QED  BY <1>3, <2>1, <2>2, <2>3, KeptAccepted DEF SimInv
<1>6. /\ PlayersOK' /\ RoomsOK' /\ ChainOK'
      /\ \A q \in Players : player'[q].skill = player[q].skill /\ player'[q].phase = player[q].phase
  <2>1. CASE UNCHANGED <<player, rooms>>
    BY <1>3, <2>1, KeptPlayers, KeptRooms, KeptChain, KeptDead DEF SimInv
  <2>2. CASE seats[s] # None /\ MayUsePortal(seats[s])
    <3>1. seats[s] \in Players
      BY <2>2 DEF SimInv, TypesOK
    <3>2. /\ player' = [player EXCEPT ![seats[s]].room = PortalAt(seats[s]).target,
                                      ![seats[s]].at = PortalAt(seats[s]).to]
          /\ rooms' = [rooms EXCEPT ![PortalAt(seats[s]).target] =
                                        StartNextWave(PortalAt(seats[s]).target)]
      BY <2>2 DEF TryUsePortal
    <3> QED  BY <1>3, <2>2, <3>1, <3>2, UsePortalKeeps
  <2> QED  BY <2>1, <2>2 DEF TryUsePortal
<1>7. HitsOK'
  BY <1>2 DEF SimInv, HitsOK, TryUsePortal
<1>8. DueOK'
  <2>1. \A t \in Sessions : ~Visited(t)
    BY <1>1, <1>2 DEF Visited, TickSteps
  <2> SUFFICES ASSUME NEW p \in Players, kept[p], struck[p] = 0
               PROVE  /\ player'[p].phase # "Recovery" /\ player'[p].phase # "Active"
                      /\ player'[p].phase = "Startup" =>
                            \A t \in Sessions : seats[t] = p => pending[t] = player'[p].skill
    BY DEF DueOK, TryUsePortal, seatVars
  <2>2. player[p].phase # "Recovery" /\ player[p].phase # "Active"
    BY <2>1, NothingDue
  <2> QED  BY <1>6, <2>2 DEF SimInv, DueOK
<1>9. FinishedIsComplete'
  BY <1>3, NotFinished
<1> QED  BY <1>5, <1>6, <1>7, <1>8, <1>9 DEF SimInv

-----------------------------------------------------------------------------
(* The tick: combat.                                                       *)

\* A step of the combat processor leaves content, state and seats alone.
CombatStep ==
    /\ UNCHANGED <<content, state, seatVars>>
    /\ tickAt # "idle"

\* What such a step keeps by that.
LEMMA CombatKeeps ==
    ASSUME SimInv, CombatStep
    PROVE  /\ state = "Running" /\ Created /\ Created' /\ Loaded /\ content' = content
           /\ Accepted' /\ SeatsOK' /\ Place' /\ FinishedIsComplete'
<1>1. state = "Running" /\ Created /\ Created' /\ Loaded /\ content' = content
  BY TickIsRunning DEF CombatStep, Created
<1>2. Accepted' /\ SeatsOK'
  BY <1>1, KeptAccepted, KeptSeats DEF SimInv, CombatStep
<1>3. Place'
  BY <1>1 DEF Place, CombatStep
<1>4. FinishedIsComplete'
  BY <1>1, NotFinished DEF CombatStep
<1> QED  BY <1>1, <1>2, <1>3, <1>4

\* The begin of a loop changes only the place of the tick.
LEMMA LoopBegins ==
    ASSUME SimInv, CombatStep, UNCHANGED <<player, rooms, pending, struck, kept>>,
           tickAt' \in TickSteps, todo' \subseteq Sessions, HitsOK', DueOK'
    PROVE  SimInv'
<1>1. /\ Created /\ Created' /\ content' = content
      /\ Accepted' /\ SeatsOK' /\ Place' /\ FinishedIsComplete'
  BY CombatKeeps
<1>2. PlayersOK' /\ RoomsOK'
  BY <1>1, KeptPlayers, KeptRooms DEF SimInv
<1>3. ChainOK'
  BY <1>1, KeptChain, KeptDead DEF SimInv
<1>4. SkillIds' = SkillIds
  BY <1>1, SameContent
<1>5. TypesOK'
  BY <1>4 DEF SimInv, TypesOK, CombatStep, seatVars
<1> QED  BY <1>1, <1>2, <1>3, <1>5 DEF SimInv

\* DungeonCombatProcessor::Process begins, and keeps the invariant.
LEMMA BeginCombatKeeps ==
    ASSUME SimInv, BeginCombat
    PROVE  SimInv'
<1>1. /\ CombatStep /\ UNCHANGED <<player, rooms, pending, struck, kept>>
      /\ tickAt = "move" /\ tickAt' = "advance" /\ todo' = Seated
  BY DEF BeginCombat, CombatStep, Goto
<1>2. HitsOK'
  BY <1>1 DEF SimInv, HitsOK
<1>3. DueOK'
  <2>1. \A s \in Sessions : ~Visited(s)
    BY <1>1 DEF Visited
  <2> QED  BY <1>1, <2>1, NothingDueKept DEF CombatStep, seatVars
<1> QED  BY <1>1, <1>2, <1>3, LoopBegins DEF TickSteps, Seated

\* ResolvePendingHits begins: every action that has become active has its hit in the loop.
LEMMA BeginResolveKeeps ==
    ASSUME SimInv, BeginResolve
    PROVE  SimInv'
<1>1. /\ CombatStep /\ UNCHANGED <<player, rooms, pending, struck, kept>>
      /\ tickAt' \in {"resolve", "resolveAgain"} /\ todo' = Hitters
  BY DEF BeginResolve, CombatStep, Goto
<1>2. HitsOK'
  BY <1>1 DEF SimInv, HitsOK, Hitters
<1>3. Created /\ seats' = seats
  BY <1>1, CombatKeeps DEF CombatStep, seatVars
<1>4. DueOK'
  <2> SUFFICES ASSUME NEW p \in Players, kept[p], struck[p] = 0, player[p].phase = "Active",
                      NEW s \in Sessions, seats[s] = p
               PROVE  Visited(s)'
    BY <1>1, <1>3 DEF SimInv, DueOK
  <2>1. pending[s] = player[p].skill
    BY DEF SimInv, DueOK
  <2>2. player[p].skill # 0
    BY <1>3 DEF SimInv, PlayersOK
  <2> QED  BY <1>1, <2>1, <2>2 DEF Visited, Hitters
<1> QED  BY <1>1, <1>2, <1>4, LoopBegins DEF TickSteps, Hitters

\* The attacks begin when the loop has left no hit with a player that is idle.
LEMMA BeginAttacksKeeps ==
    ASSUME SimInv, BeginAttacks
    PROVE  SimInv'
<1>1. /\ CombatStep /\ UNCHANGED <<player, rooms, pending, struck, kept>>
      /\ tickAt = "resolve" /\ todo = {} /\ tickAt' = "attack" /\ todo' = {}
  BY DEF BeginAttacks, CombatStep, Goto
<1>2. HitsOK'
  BY <1>1 DEF SimInv, HitsOK
<1>3. DueOK'
  <2>1. \A s \in Sessions : ~Visited(s)
    BY <1>1 DEF Visited
  <2> QED  BY <1>1, <2>1, NothingDueKept DEF CombatStep, seatVars
<1> QED  BY <1>1, <1>2, <1>3, LoopBegins DEF TickSteps

\* What AdvanceCombatTick does to the action of a player.
LEMMA AdvanceFacts ==
    ASSUME PlayersOK, Created, NEW p \in Players
    PROVE  /\ DOMAIN AdvanceCombatTick(p) = Fields
           /\ AdvanceCombatTick(p).room = player[p].room
           /\ \/ /\ AdvanceCombatTick(p).phase = player[p].phase
                 /\ AdvanceCombatTick(p).skill = player[p].skill
              \/ /\ player[p].phase = "Startup" /\ AdvanceCombatTick(p).phase = "Active"
                 /\ AdvanceCombatTick(p).skill = player[p].skill
              \/ /\ player[p].phase = "Active" /\ AdvanceCombatTick(p).phase = "Recovery"
                 /\ AdvanceCombatTick(p).skill = player[p].skill
              \/ /\ player[p].phase \in {"Active", "Recovery"}
                 /\ AdvanceCombatTick(p).phase = "Idle" /\ AdvanceCombatTick(p).skill = 0
<1>1. DOMAIN player[p] = Fields /\ player[p].phase \in {"Idle", "Startup", "Active", "Recovery"}
  BY DEF PlayersOK
<1> DEFINE cool == [player[p] EXCEPT !.cooldowns = [k \in SkillIds |-> Max({0, @[k] - 1})]]
           skill == GetSkill(player[p].skill)
           new == AdvanceCombatTick(p)
<1>2. /\ DOMAIN cool = Fields /\ cool.room = player[p].room
      /\ cool.phase = player[p].phase /\ cool.skill = player[p].skill
  BY <1>1 DEF Fields
<1>3. new = IF cool.phase = "Idle" THEN cool
            ELSE IF cool.left > 1 THEN [cool EXCEPT !.left = cool.left - 1]
            ELSE IF cool.phase = "Startup"
                 THEN [cool EXCEPT !.phase = "Active", !.left = skill.active]
            ELSE IF cool.phase = "Active" /\ skill.recovery > 0
                 THEN [cool EXCEPT !.phase = "Recovery", !.left = skill.recovery]
            ELSE [cool EXCEPT !.skill = 0, !.phase = "Idle", !.left = 0]
  BY DEF AdvanceCombatTick
<1> HIDE DEF cool, skill, new
<1>4. CASE new = cool \/ new = [cool EXCEPT !.left = cool.left - 1]
  BY <1>2, <1>4 DEF Fields, new
<1>5. CASE cool.phase = "Startup" /\ new = [cool EXCEPT !.phase = "Active", !.left = skill.active]
  BY <1>2, <1>5 DEF Fields, new
<1>6. CASE cool.phase = "Active" /\ new = [cool EXCEPT !.phase = "Recovery", !.left = skill.recovery]
  BY <1>2, <1>6 DEF Fields, new
<1>7. CASE /\ cool.phase \in {"Active", "Recovery"}
           /\ new = [cool EXCEPT !.skill = 0, !.phase = "Idle", !.left = 0]
  BY <1>2, <1>7 DEF Fields, new
<1> QED  BY <1>1, <1>2, <1>3, <1>4, <1>5, <1>6, <1>7

\* The action of the session's player advances: one that becomes active has its hit pending.
LEMMA AdvanceKeeps ==
    ASSUME SimInv, NEW s \in Sessions, Advance(s)
    PROVE  SimInv'
<1>1. /\ CombatStep /\ UNCHANGED <<rooms, pending, struck, kept, tickAt, seats>>
      /\ tickAt = "advance" /\ s \in todo /\ todo' = todo \ {s}
  BY DEF Advance, CombatStep, seatVars
<1>2. /\ Created /\ Created' /\ content' = content
      /\ Accepted' /\ SeatsOK' /\ Place' /\ FinishedIsComplete'
  BY <1>1, CombatKeeps
<1>3. RoomsOK'
  BY <1>1, <1>2, KeptRooms DEF SimInv
<1>4. SkillIds' = SkillIds
  BY <1>2, SameContent
<1>5. TypesOK'
  BY <1>1, <1>4 DEF SimInv, TypesOK, CombatStep, seatVars
<1>6. HitsOK'
  BY <1>1 DEF SimInv, HitsOK
<1>7. \A t \in Sessions : t # s /\ Visited(t) => Visited(t)'
  BY <1>1 DEF Visited
<1>9. Visited(s)' /\ ~Visited(s)
  BY <1>1 DEF Visited
<1>10. CASE seats[s] = None
  <2>1. player' = player
    BY <1>10 DEF Advance
  <2>2. PlayersOK'
    BY <1>2, <2>1, KeptPlayers DEF SimInv
  <2>3. ChainOK'
    BY <1>1, <1>2, <2>1, KeptChain, KeptDead DEF SimInv
  <2>4. DueOK'
    BY <1>1, <1>7, <1>9, <2>1 DEF SimInv, DueOK
  <2> QED  BY <1>2, <1>3, <1>5, <1>6, <2>2, <2>3, <2>4 DEF SimInv
<1>11. CASE seats[s] # None
  <2> DEFINE p   == seats[s]
             new == AdvanceCombatTick(p)
  <2>1. p \in Players
    BY <1>11 DEF SimInv, TypesOK
  <2>2. player' = [player EXCEPT ![p] = new]
    BY <1>11 DEF Advance
  <2>3. DOMAIN new = Fields /\ new.room = player[p].room
    BY <1>2, <2>1, AdvanceFacts DEF SimInv
  <2>4. \/ new.phase = player[p].phase /\ new.skill = player[p].skill
        \/ player[p].phase = "Startup" /\ new.phase = "Active" /\ new.skill = player[p].skill
        \/ player[p].phase = "Active" /\ new.phase = "Recovery" /\ new.skill = player[p].skill
        \/ player[p].phase \in {"Active", "Recovery"} /\ new.phase = "Idle" /\ new.skill = 0
    BY <1>2, <2>1, AdvanceFacts DEF SimInv
  <2>5. seats[s] = p
    OBVIOUS
  <2> HIDE DEF p, new
  <2>6. /\ player[p].room \in RoomIds(Template.rooms) /\ player[p].skill \in SkillIds \cup {0}
        /\ player[p].phase \in {"Idle", "Startup", "Active", "Recovery"}
        /\ player[p].phase = "Idle" <=> player[p].skill = 0
    BY <1>2, <2>1 DEF SimInv, PlayersOK
  <2>7. /\ new.skill \in SkillIds \cup {0}
        /\ new.phase \in {"Idle", "Startup", "Active", "Recovery"}
        /\ new.phase = "Idle" <=> new.skill = 0
    BY <2>4, <2>6
  <2>8. PlayersOK' /\ player'[p] = new /\ \A q \in Players \ {p} : player'[q] = player[q]
    BY <1>2, <2>1, <2>2, <2>3, <2>6, <2>7, OnePlayer DEF SimInv
  <2>9. \A q \in Players : player'[q].room = player[q].room
    BY <2>3, <2>8
  <2>10. ChainOK'
    BY <1>1, <1>2, <2>9, KeptChain, KeptDead DEF SimInv
  <2>11. DueOK'
    <3> SUFFICES ASSUME NEW q \in Players, kept[q], struck[q] = 0
                 PROVE  /\ player'[q].phase # "Recovery"
                        /\ player'[q].phase \in {"Startup", "Active"} =>
                              \A t \in Sessions : seats[t] = q => pending[t] = player'[q].skill
                        /\ player'[q].phase = "Active" =>
                              \E t \in Sessions : seats[t] = q /\ Visited(t)'
      BY <1>1 DEF DueOK
    <3>1. /\ player[q].phase # "Recovery"
          /\ player[q].phase \in {"Startup", "Active"} =>
                \A t \in Sessions : seats[t] = q => pending[t] = player[q].skill
          /\ player[q].phase = "Active" => \E t \in Sessions : seats[t] = q /\ Visited(t)
      BY DEF SimInv, DueOK
    <3>2. CASE q # p
      BY <1>7, <1>9, <2>8, <3>1, <3>2
    <3>3. CASE q = p
      <4>1. ASSUME NEW t \in Sessions, seats[t] = p PROVE t = s
        BY <1>11, <2>5, <4>1 DEF SimInv, SeatsOK
      <4>2. player[p].phase # "Active"
        BY <1>9, <3>1, <3>3, <4>1
      <4>3. \/ new.phase = player[p].phase /\ new.skill = player[p].skill
            \/ player[p].phase = "Startup" /\ new.phase = "Active" /\ new.skill = player[p].skill
        BY <2>4, <3>1, <3>3, <4>2
      <4> QED  BY <1>9, <2>5, <2>8, <3>1, <3>3, <4>2, <4>3
    <3> QED  BY <3>2, <3>3
  <2> QED  BY <1>2, <1>3, <1>5, <1>6, <2>8, <2>10, <2>11 DEF SimInv
<1> QED  BY <1>10, <1>11

\* What the loop over the pending hits has behind it, it need not visit again.
LEMMA VisitedLater ==
    ASSUME NEW s \in Sessions, tickAt \in {"resolve", "resolveAgain"}, tickAt' = tickAt,
           todo' = todo \ {s}
    PROVE  \A t \in Sessions : t # s /\ Visited(t) => Visited(t)'
  BY DEF Visited

\* The hit of a session whose player is in no such action is dropped.
LEMMA HitDropped ==
    ASSUME SimInv, Created, NEW s \in Sessions, tickAt \in {"resolve", "resolveAgain"},
           UNCHANGED <<player, seats, tickAt, kept, struck>>, todo' = todo \ {s},
           ~HitApplies(s), pending' = [pending EXCEPT ![s] = 0]
    PROVE  HitsOK' /\ DueOK'
<1>1. /\ pending \in [Sessions -> SkillIds \cup {0}] /\ seats \in [Sessions -> Players \cup {None}]
      /\ None \notin Players
  BY SimulationAssumption DEF SimInv, TypesOK
<1>2. pending'[s] = 0 /\ \A t \in Sessions \ {s} : pending'[t] = pending[t]
  BY <1>1
<1>3. HitsOK'
  BY <1>2 DEF SimInv, HitsOK
<1>4. \A t \in Sessions : t # s /\ Visited(t) => Visited(t)'
  BY VisitedLater
<1>5. DueOK'
  <2> SUFFICES ASSUME NEW p \in Players, kept'[p], struck'[p] = 0
               PROVE  /\ player'[p].phase # "Recovery"
                      /\ player'[p].phase \in {"Startup", "Active"} =>
                            \A t \in Sessions : seats'[t] = p => pending'[t] = player'[p].skill
                      /\ player'[p].phase = "Active" =>
                            \E t \in Sessions : seats'[t] = p /\ Visited(t)'
    BY Zenon DEF DueOK
  <2>1. /\ player[p].phase # "Recovery"
        /\ player[p].phase \in {"Startup", "Active"} =>
              \A t \in Sessions : seats[t] = p => pending[t] = player[p].skill
        /\ player[p].phase = "Active" => \E t \in Sessions : seats[t] = p /\ Visited(t)
    BY DEF SimInv, DueOK
  <2>2. CASE seats[s] = p
    <3>1. player[p].phase \notin {"Startup", "Active"}
      BY <1>1, <2>1, <2>2 DEF HitApplies
    <3> QED  BY <2>1, <3>1
  <2>3. CASE seats[s] # p
    BY <1>2, <1>4, <2>1, <2>3
  <2> QED  BY <2>2, <2>3
<1> QED  BY <1>3, <1>5

\* The hit of an action that is not active waits: its player is in the middle of it.
LEMMA HitWaits ==
    ASSUME SimInv, Created, NEW s \in Sessions, tickAt \in {"resolve", "resolveAgain"},
           UNCHANGED <<player, seats, tickAt, kept, struck, pending>>, todo' = todo \ {s},
           HitApplies(s), player[seats[s]].phase # "Active"
    PROVE  HitsOK' /\ DueOK'
<1>1. seats[s] \in Players /\ seats[s] = Owner[s] /\ seats[s] # None
  BY DEF SimInv, TypesOK, SeatsOK, HitApplies
<1>2. pending[s] # 0 => player[Owner[s]].phase # "Idle"
  BY <1>1 DEF SimInv, PlayersOK, HitApplies
<1>3. HitsOK'
  BY <1>2 DEF SimInv, HitsOK
<1>4. \A t \in Sessions : t # s /\ Visited(t) => Visited(t)'
  BY VisitedLater
<1>5. DueOK'
  <2> SUFFICES ASSUME NEW p \in Players, kept[p], struck[p] = 0, player[p].phase = "Active"
               PROVE  \E t \in Sessions : seats[t] = p /\ Visited(t)'
    BY DEF SimInv, DueOK
  <2>1. PICK t \in Sessions : seats[t] = p /\ Visited(t)
    BY DEF SimInv, DueOK
  <2>2. t # s
    BY <2>1
  <2> QED  BY <1>4, <2>1, <2>2
<1> QED  BY <1>3, <1>5

\* A hit that strikes is that of the present action, which has not struck.
LEMMA FirstStrike ==
    ASSUME SimInv, Created, NEW s \in Sessions,
           HitApplies(s), player[seats[s]].phase = "Active"
    PROVE  /\ seats[s] \in Players /\ seats[s] = Owner[s] /\ seats[s] # None
           /\ pending[s] # 0 /\ pending[s] \in SkillIds
           /\ struck \in [Players -> {0, 1}] /\ struck[seats[s]] = 0
<1>1. seats[s] \in Players /\ seats[s] = Owner[s] /\ seats[s] # None
  BY DEF SimInv, TypesOK, SeatsOK, HitApplies
<1>2. pending[s] # 0 /\ pending[s] \in SkillIds
  BY <1>1 DEF SimInv, TypesOK, PlayersOK, HitApplies
<1>3. struck \in [Players -> {0, 1}] /\ struck[seats[s]] = 0
  BY <1>1, <1>2 DEF SimInv, TypesOK, HitsOK
<1> QED  BY <1>1, <1>2, <1>3

\* It strikes once, and is erased.
LEMMA HitStrikes ==
    ASSUME SimInv, Created, NEW s \in Sessions, tickAt \in {"resolve", "resolveAgain"},
           UNCHANGED <<player, seats, tickAt, kept>>, todo' = todo \ {s},
           HitApplies(s), player[seats[s]].phase = "Active",
           struck' = [struck EXCEPT ![seats[s]] = 1], pending' = [pending EXCEPT ![s] = 0]
    PROVE  HitsOK' /\ DueOK' /\ struck' \in [Players -> {0, 1}]
<1>1. seats[s] \in Players /\ seats[s] = Owner[s] /\ seats[s] # None
  BY FirstStrike
<1>2. pending[s] # 0
  BY FirstStrike
<1>3. struck \in [Players -> {0, 1}]
  BY FirstStrike
<1> DEFINE p == seats[s]
<1>4. pending \in [Sessions -> SkillIds \cup {0}] /\ Owner \in [Sessions -> Players]
  BY SimulationAssumption DEF SimInv, TypesOK
<1>5. pending'[s] = 0 /\ \A t \in Sessions \ {s} : pending'[t] = pending[t]
  BY <1>4
<1>6. /\ struck' \in [Players -> {0, 1}] /\ struck'[p] = 1
      /\ \A q \in Players \ {p} : struck'[q] = struck[q]
  BY <1>1, <1>3
<1>7. seats[s] = p /\ \A q \in Players : struck'[q] = 0 => q # p /\ struck[q] = 0
  BY <1>1, <1>6
<1> HIDE DEF p
<1>8. HitsOK'
  <2>1. \A t \in Sessions : pending'[t] # 0 => t # s /\ pending[t] # 0
    BY <1>5
  <2>2. \A t, u \in Sessions :
            pending'[t] # 0 /\ pending'[u] # 0 /\ Owner[t] = Owner[u] => t = u
    BY <2>1 DEF SimInv, HitsOK
  <2>3. ASSUME NEW t \in Sessions, pending'[t] # 0 PROVE struck'[Owner[t]] = 0
    <3>1. Owner[t] # p
      BY <1>1, <1>2, <1>7, <2>1, <2>3 DEF SimInv, HitsOK
    <3>2. Owner[t] \in Players
      BY <1>4
    <3> QED  BY <1>6, <2>1, <2>3, <3>1, <3>2 DEF SimInv, HitsOK
  <2>4. ASSUME NEW t \in Sessions, pending'[t] # 0,
               tickAt' = "attack" \/ (tickAt' = "resolve" /\ t \notin todo')
        PROVE  player'[Owner[t]].phase # "Idle"
    BY <2>1, <2>4 DEF SimInv, HitsOK
  <2> QED  BY <2>2, <2>3, <2>4 DEF HitsOK
<1>9. \A t \in Sessions : t # s /\ Visited(t) => Visited(t)'
  BY VisitedLater
<1>10. DueOK'
  <2> SUFFICES ASSUME NEW q \in Players, kept[q], struck'[q] = 0
               PROVE  /\ player[q].phase # "Recovery"
                      /\ player[q].phase \in {"Startup", "Active"} =>
                            \A t \in Sessions : seats[t] = q => pending'[t] = player[q].skill
                      /\ player[q].phase = "Active" => \E t \in Sessions : seats[t] = q /\ Visited(t)'
    BY DEF DueOK
  <2>1. q # p /\ struck[q] = 0
    BY <1>7, Zenon
  <2>2. /\ player[q].phase # "Recovery"
        /\ player[q].phase \in {"Startup", "Active"} =>
              \A t \in Sessions : seats[t] = q => pending[t] = player[q].skill
        /\ player[q].phase = "Active" => \E t \in Sessions : seats[t] = q /\ Visited(t)
    BY <2>1 DEF SimInv, DueOK
  <2> QED  BY <1>5, <1>7, <1>9, <2>1, <2>2
<1> QED  BY <1>6, <1>8, <1>10

\* One round of ResolvePendingHits keeps the invariant.
LEMMA ResolvePendingHitKeeps ==
    ASSUME SimInv, NEW s \in Sessions, ResolvePendingHit(s)
    PROVE  SimInv'
<1>1. /\ CombatStep /\ UNCHANGED <<player, seats, tickAt, kept>>
      /\ tickAt \in {"resolve", "resolveAgain"} /\ todo' = todo \ {s}
  BY DEF ResolvePendingHit, CombatStep, seatVars
<1>2. /\ Created /\ Created' /\ Loaded /\ content' = content
      /\ Accepted' /\ SeatsOK' /\ Place' /\ FinishedIsComplete'
  BY <1>1, CombatKeeps
<1>3. PlayersOK' /\ SkillIds' = SkillIds
  BY <1>1, <1>2, KeptPlayers, SameContent DEF SimInv
<1>4. HitsOK' /\ DueOK' /\ struck' \in [Players -> {0, 1}] /\ pending' \in [Sessions -> SkillIds \cup {0}]
  <2>1. struck \in [Players -> {0, 1}] /\ pending \in [Sessions -> SkillIds \cup {0}]
    BY DEF SimInv, TypesOK
  <2>2. CASE ~HitApplies(s)
    <3>1. pending' = [pending EXCEPT ![s] = 0] /\ struck' = struck
      BY <2>2 DEF ResolvePendingHit
    <3>2. HitsOK' /\ DueOK'
      BY <1>1, <1>2, <2>2, <3>1, HitDropped
    <3> QED  BY <2>1, <3>1, <3>2
  <2>3. CASE HitApplies(s) /\ player[seats[s]].phase # "Active"
    <3>1. pending' = pending /\ struck' = struck
      BY <2>3 DEF ResolvePendingHit
    <3>2. HitsOK' /\ DueOK'
      BY <1>1, <1>2, <2>3, <3>1, HitWaits
    <3> QED  BY <2>1, <3>1, <3>2
  <2>4. CASE HitApplies(s) /\ player[seats[s]].phase = "Active"
    <3>1. struck' = [struck EXCEPT ![seats[s]] = 1] /\ pending' = [pending EXCEPT ![s] = 0]
      <4>1. struck[seats[s]] = 0
        BY <1>2, <2>4, FirstStrike
      <4>2. struck' = [struck EXCEPT ![seats[s]] = struck[seats[s]] + 1]
        BY <2>4 DEF ResolvePendingHit
      <4>3. struck[seats[s]] + 1 = 1
        BY <4>1
      <4>4. pending' = [pending EXCEPT ![s] = 0]
        BY <2>4 DEF ResolvePendingHit, ClearHit
      <4> QED  BY <4>2, <4>3, <4>4
    <3>2. HitsOK' /\ DueOK' /\ struck' \in [Players -> {0, 1}]
      BY <1>1, <1>2, <2>4, <3>1, HitStrikes
    <3>3. pending' \in [Sessions -> SkillIds \cup {0}]
      BY <2>1, <3>1
    <3> QED  BY <3>2, <3>3
  <2> QED  BY <2>2, <2>3, <2>4
<1>5. TypesOK'
  BY <1>1, <1>3, <1>4 DEF SimInv, TypesOK, CombatStep, seatVars
<1>6. RoomsOK' /\ \A r \in RoomIds(Template.rooms) : AllDead(r) => AllDead(r)'
  <2>1. CASE rooms' = rooms
    BY <1>2, <2>1, KeptRooms, KeptDead DEF SimInv
  <2>2. CASE rooms' # rooms
    <3> DEFINE r      == player[seats[s]].room
               damage == CalculateDamage(pending[s])
    <3>1. HitApplies(s) /\ player[seats[s]].phase = "Active"
      BY <2>2 DEF ResolvePendingHit
    <3>2. PICK hit \in SUBSET {i \in DOMAIN rooms[r].hp : rooms[r].hp[i] > 0} :
              rooms' = [rooms EXCEPT ![r] = ApplyEnemyDamage(rooms[r], hit, damage)]
      BY <3>1 DEF ResolvePendingHit
    <3>3. pending[s] \in SkillIds
      BY <1>2, <3>1, FirstStrike
    <3>4. damage \in Nat
      BY <1>2, <3>3, SkillFacts
    <3>5. r \in RoomIds(Template.rooms)
      BY <1>2, <3>1 DEF SimInv, TypesOK, PlayersOK, HitApplies
    <3> HIDE DEF r, damage
    <3> DEFINE new == ApplyEnemyDamage(rooms[r], hit, damage)
    <3>6. /\ RoomOK(new, RoomTemplate(r).spawns) /\ DOMAIN new.hp = DOMAIN rooms[r].hp
          /\ \A i \in DOMAIN rooms[r].hp : rooms[r].hp[i] = 0 => new.hp[i] = 0
      BY <1>2, <3>4, <3>5, DamageOK DEF SimInv
    <3>7. rooms' = [rooms EXCEPT ![r] = new]
      BY <3>2
    <3> HIDE DEF new
    <3>8. AllDead(r) => \A i \in DOMAIN new.hp : new.hp[i] = 0
      BY <3>6 DEF AllDead
    <3> QED  BY <1>2, <3>5, <3>6, <3>7, <3>8, OneRoom DEF SimInv
  <2> QED  BY <2>1, <2>2
<1>7. ChainOK'
  BY <1>1, <1>2, <1>6, KeptChain DEF SimInv
<1> QED  BY <1>2, <1>3, <1>4, <1>5, <1>6, <1>7 DEF SimInv

\* What BeginSkill does to the action of a player.
LEMMA BeginSkillFacts ==
    ASSUME PlayersOK, Created, NEW p \in Players, NEW k \in SkillIds
    PROVE  /\ DOMAIN BeginSkill(p, k) = Fields
           /\ BeginSkill(p, k).room = player[p].room /\ BeginSkill(p, k).skill = k
           /\ BeginSkill(p, k).phase \in {"Startup", "Active"}
<1>1. DOMAIN player[p] = Fields
  BY DEF PlayersOK
<1> QED  BY <1>1 DEF BeginSkill, Fields

\* An attack is accepted of a player that is idle, so no session has a hit of its left.
LEMMA AttackKeeps ==
    ASSUME SimInv, NEW s \in Sessions, NEW k \in SkillIds, Attack(s, k)
    PROVE  SimInv'
<1>1. /\ CombatStep /\ UNCHANGED <<rooms, seats, tickAt, todo>> /\ tickAt = "attack"
      /\ seats[s] # None /\ player[seats[s]].phase = "Idle"
      /\ player' = [player EXCEPT ![seats[s]] = BeginSkill(seats[s], k)]
      /\ pending' = [pending EXCEPT ![s] = k]
      /\ struck' = [struck EXCEPT ![seats[s]] = 0]
      /\ kept' = [kept EXCEPT ![seats[s]] = TRUE]
  BY DEF Attack, CombatStep, seatVars, CanBeginSkill
<1>2. /\ Created /\ Created' /\ Loaded /\ content' = content
      /\ Accepted' /\ SeatsOK' /\ Place' /\ FinishedIsComplete'
  BY <1>1, CombatKeeps
<1> DEFINE p   == seats[s]
           new == BeginSkill(p, k)
<1>3. p \in Players /\ p = Owner[s]
  BY <1>1 DEF SimInv, TypesOK, SeatsOK
<1>4. /\ DOMAIN new = Fields /\ new.room = player[p].room /\ new.skill = k
      /\ new.phase \in {"Startup", "Active"}
  BY <1>2, <1>3, BeginSkillFacts DEF SimInv
<1>5. k # 0
  BY <1>2, SkillFacts
<1>6. /\ pending \in [Sessions -> SkillIds \cup {0}] /\ struck \in [Players -> {0, 1}]
      /\ kept \in [Players -> BOOLEAN] /\ Owner \in [Sessions -> Players]
  BY SimulationAssumption DEF SimInv, TypesOK
<1>7. /\ pending'[s] = k /\ \A t \in Sessions \ {s} : pending'[t] = pending[t]
      /\ struck'[p] = 0 /\ \A q \in Players \ {p} : struck'[q] = struck[q]
      /\ kept'[p] = TRUE /\ \A q \in Players \ {p} : kept'[q] = kept[q]
  BY <1>1, <1>3, <1>6
<1>8. seats[s] = p /\ player[p].phase = "Idle" /\ player' = [player EXCEPT ![p] = new]
  BY <1>1
<1>9. TypesOK'
  <2>1. SkillIds' = SkillIds
    BY <1>2, SameContent
  <2>2. /\ pending' \in [Sessions -> SkillIds \cup {0}] /\ struck' \in [Players -> {0, 1}]
        /\ kept' \in [Players -> BOOLEAN]
    BY <1>1, <1>3, <1>6
  <2> QED  BY <1>1, <2>1, <2>2 DEF SimInv, TypesOK, CombatStep, seatVars
<1> HIDE DEF p, new
<1>10. player[p].room \in RoomIds(Template.rooms)
  BY <1>2, <1>3 DEF SimInv, PlayersOK
<1>11. PlayersOK' /\ player'[p] = new /\ \A q \in Players \ {p} : player'[q] = player[q]
  BY <1>2, <1>3, <1>4, <1>5, <1>8, <1>10, OnePlayer DEF SimInv
<1>12. RoomsOK' /\ ChainOK'
  <2>1. \A q \in Players : player'[q].room = player[q].room
    BY <1>4, <1>11
  <2> QED  BY <1>1, <1>2, <2>1, KeptRooms, KeptChain, KeptDead DEF SimInv
<1>13. \A t \in Sessions : Owner[t] = p => pending[t] = 0
  BY <1>1, <1>8 DEF SimInv, HitsOK
<1>14. HitsOK'
  <2>1. \A t, u \in Sessions :
            pending'[t] # 0 /\ pending'[u] # 0 /\ Owner[t] = Owner[u] => t = u
    BY <1>3, <1>7, <1>13 DEF SimInv, HitsOK
  <2>2. ASSUME NEW t \in Sessions, pending'[t] # 0 PROVE struck'[Owner[t]] = 0
    <3>1. Owner[t] \in Players
      BY <1>6
    <3>2. CASE Owner[t] = p
      BY <1>7, <3>2
    <3>3. CASE Owner[t] # p
      BY <1>3, <1>7, <2>2, <3>1, <3>3 DEF SimInv, HitsOK
    <3> QED  BY <3>2, <3>3
  <2>3. ASSUME NEW t \in Sessions, pending'[t] # 0 PROVE player'[Owner[t]].phase # "Idle"
    <3>1. Owner[t] \in Players
      BY <1>6
    <3>2. CASE Owner[t] = p
      BY <1>4, <1>11, <3>2
    <3>3. CASE Owner[t] # p
      BY <1>1, <1>3, <1>7, <1>11, <2>3, <3>1, <3>3 DEF SimInv, HitsOK
    <3> QED  BY <3>2, <3>3
  <2> QED  BY <2>1, <2>2, <2>3 DEF HitsOK
<1>15. DueOK'
  <2>1. \A t \in Sessions : Visited(t) /\ Visited(t)'
    BY <1>1 DEF Visited
  <2> SUFFICES ASSUME NEW q \in Players, kept'[q], struck'[q] = 0
               PROVE  /\ player'[q].phase # "Recovery"
                      /\ player'[q].phase \in {"Startup", "Active"} =>
                            \A t \in Sessions : seats[t] = q => pending'[t] = player'[q].skill
                      /\ player'[q].phase = "Active" => \E t \in Sessions : seats[t] = q
    BY <1>1, <2>1 DEF DueOK
  <2>2. CASE q = p
    <3>1. ASSUME NEW t \in Sessions, seats[t] = p PROVE t = s
      BY <1>1, <1>8, <3>1 DEF SimInv, SeatsOK
    <3> QED  BY <1>4, <1>7, <1>8, <1>11, <2>2, <3>1
  <2>3. CASE q # p
    <3>1. kept[q] /\ struck[q] = 0 /\ player'[q] = player[q]
      BY <1>7, <1>11, <2>3
    <3>2. /\ player[q].phase # "Recovery"
          /\ player[q].phase \in {"Startup", "Active"} =>
                \A t \in Sessions : seats[t] = q => pending[t] = player[q].skill
          /\ player[q].phase = "Active" => \E t \in Sessions : seats[t] = q
      BY <3>1 DEF SimInv, DueOK
    <3> QED  BY <1>7, <1>8, <2>3, <3>1, <3>2
  <2> QED  BY <2>2, <2>3
<1> QED  BY <1>2, <1>9, <1>11, <1>12, <1>14, <1>15 DEF SimInv

\* AdvanceRoomWaves keeps the invariant.
LEMMA AdvanceRoomWavesKeeps ==
    ASSUME SimInv, AdvanceRoomWaves
    PROVE  SimInv'
<1>1. /\ CombatStep /\ UNCHANGED <<player, seats, pending, struck, kept>>
      /\ tickAt = "resolveAgain" /\ todo = {} /\ tickAt' = "finish" /\ todo' = {}
  BY DEF AdvanceRoomWaves, CombatStep, Goto, seatVars
<1>2. /\ Created /\ Created' /\ Loaded /\ content' = content
      /\ Accepted' /\ SeatsOK' /\ Place' /\ FinishedIsComplete'
  BY <1>1, CombatKeeps
<1>3. Template' = Template /\ SkillIds' = SkillIds /\ \A r : RoomTemplate(r)' = RoomTemplate(r)
  BY <1>2, SameContent
<1>4. TypesOK'
  BY <1>1, <1>3 DEF SimInv, TypesOK, TickSteps, CombatStep, seatVars
<1>5. PlayersOK'
  BY <1>1, <1>2, KeptPlayers DEF SimInv
<1>6. HitsOK'
  BY <1>1 DEF SimInv, HitsOK
<1>7. DueOK'
  <2>1. \A s \in Sessions : ~Visited(s)
    BY <1>1 DEF Visited
  <2> QED  BY <1>1, <2>1, NothingDueKept
<1>8. /\ DOMAIN rooms = RoomIds(Template.rooms) /\ DOMAIN rooms' = RoomIds(Template.rooms)
      /\ \A r \in RoomIds(Template.rooms) : rooms'[r] = rooms[r] \/ rooms'[r] = StartNextWave(r)
  BY <1>2 DEF SimInv, RoomsOK, AdvanceRoomWaves
<1>9. ASSUME NEW r \in RoomIds(Template.rooms)
      PROVE  RoomOK(rooms'[r], RoomTemplate(r).spawns) /\ (AllDead(r) => AllDead(r)')
  <2>1. CASE rooms'[r] = rooms[r]
    BY <1>2, <2>1 DEF SimInv, RoomsOK, AllDead
  <2>2. CASE rooms'[r] = StartNextWave(r)
    <3>1. /\ RoomOK(StartNextWave(r), RoomTemplate(r).spawns)
          /\ AllDead(r) => StartNextWave(r) = rooms[r]
      BY <1>2, StartNextWaveOK DEF SimInv
    <3> QED  BY <2>2, <3>1 DEF AllDead
  <2> QED  BY <1>8, <2>1, <2>2
<1>10. RoomsOK'
  BY <1>3, <1>8, <1>9 DEF RoomsOK
<1>11. ChainOK'
  BY <1>1, <1>2, <1>9, KeptChain DEF SimInv
<1> QED  BY <1>2, <1>4, <1>5, <1>6, <1>7, <1>10, <1>11 DEF SimInv

\* TryFinishIfCleared keeps the invariant: a room that is cleared has no enemy to come.
LEMMA TryFinishKeeps ==
    ASSUME SimInv, TryFinishIfCleared
    PROVE  SimInv'
<1>1. /\ UNCHANGED <<content, seatVars, seats, player, rooms, pending, struck, kept, moved>>
      /\ tickAt = "finish" /\ tickAt' = "idle" /\ todo' = {}
      /\ state' = IF CanFinish THEN "Finished" ELSE state
  BY DEF TryFinishIfCleared, Goto, seatVars
<1>2. state = "Running" /\ Created /\ Loaded
  BY <1>1, TickIsRunning
<1>3. Created'
  BY <1>1, <1>2 DEF Created
<1>4. Accepted' /\ PlayersOK' /\ RoomsOK' /\ SeatsOK'
  BY <1>1, <1>2, KeptAccepted, KeptPlayers, KeptRooms, KeptSeats DEF SimInv
<1>5. ChainOK'
  BY <1>1, <1>2, KeptChain, KeptDead DEF SimInv
<1>6. TypesOK' /\ Place' /\ HitsOK'
  <2>1. SkillIds' = SkillIds
    BY <1>1, SameContent
  <2>2. TypesOK'
    BY <1>1, <2>1 DEF SimInv, TypesOK, TickSteps, seatVars
  <2> QED  BY <1>1, <1>3, <2>2 DEF SimInv, Place, HitsOK
<1>7. DueOK'
  <2>1. \A s \in Sessions : ~Visited(s)
    BY <1>1 DEF Visited
  <2> QED  BY <1>1, <2>1, NothingDueKept
<1>8. FinishedIsComplete'
  <2>1. CASE ~CanFinish
    BY <1>1, <1>2, <2>1, NotFinished
  <2>2. CASE CanFinish
    <3>1. ASSUME NEW r \in DOMAIN rooms PROVE AllDead(r)
      BY <1>2, <2>2, ClearedIsDead DEF SimInv, RoomsOK, CanFinish
    <3>2. FinalRoom' = FinalRoom /\ Seated' = Seated
      BY <1>1, SameContent DEF Seated
    <3> QED  BY <1>1, <2>2, <3>1, <3>2, KeptDead DEF FinishedIsComplete, CanFinish
  <2> QED  BY <2>1, <2>2
<1> QED  BY <1>4, <1>5, <1>6, <1>7, <1>8 DEF SimInv

-----------------------------------------------------------------------------
(* The theorems.                                                           *)

\* The invariant holds before the content is loaded.
LEMMA SimInitially ==
    ASSUME SimInit
    PROVE  SimInv
<1>1. ~Created /\ content \in Contents /\ tickAt = "idle"
  BY DEF SimInit, Created
<1>2. Accepted /\ PlayersOK /\ RoomsOK /\ ChainOK /\ FinishedIsComplete
  BY <1>1 DEF Accepted, PlayersOK, RoomsOK, ChainOK, FinishedIsComplete, Created
<1>3. TypesOK
  BY SimulationAssumption DEF SimInit, TypesOK, TickSteps
<1>4. Place /\ DueOK
  BY <1>1 DEF SimInit, Place, DueOK
<1>5. HitsOK
  BY DEF SimInit, HitsOK
<1>6. SeatsOK
  BY SimulationAssumption DEF SimInit, SeatsOK
<1> QED  BY <1>2, <1>3, <1>4, <1>5, <1>6 DEF SimInv

\* Nothing but the variables counts.
LEMMA SimStutters ==
    ASSUME SimInv, UNCHANGED simVars
    PROVE  SimInv'
<1>1. /\ UNCHANGED <<content, state, seats, away, fresh, moved, player, rooms, pending, tickAt,
                     todo, struck, kept>>
      /\ UNCHANGED seatVars
  BY DEF simVars, seatVars
<1>2. Created' = Created /\ SkillIds' = SkillIds
  BY <1>1, SameContent DEF Created
<1>3. TypesOK'
  BY <1>1, <1>2 DEF SimInv, TypesOK
<1>4. Accepted' /\ PlayersOK' /\ RoomsOK'
  BY <1>1, <1>2, KeptAccepted, KeptPlayers, KeptRooms DEF SimInv
<1>5. Place' /\ SeatsOK' /\ HitsOK' /\ DueOK' /\ FinishedIsComplete'
  BY <1>1, KeptPlace, KeptSeats, KeptHits, KeptDue, KeptFinished DEF SimInv
<1>6. ChainOK'
  BY <1>1, <1>2, KeptChain, KeptDead DEF SimInv
<1> QED  BY <1>3, <1>4, <1>5, <1>6 DEF SimInv

\* Every step keeps the invariant.
LEMMA SimStep ==
    ASSUME SimInv, [SimNext]_simVars
    PROVE  SimInv'
<1>1. CASE CreateDungeon
  BY <1>1, CreateDungeonKeeps
<1>2. CASE Start
  BY <1>2, StartKeeps
<1>3. CASE TickBegin
  BY <1>3, TickBeginKeeps
<1>4. ASSUME NEW s \in Sessions, MoveTo(s) \/ TryUsePortal(s) PROVE SimInv'
  BY <1>4, MoveToKeeps, TryUsePortalKeeps
<1>5. CASE BeginCombat
  BY <1>5, BeginCombatKeeps
<1>6. ASSUME NEW s \in Sessions, Advance(s) \/ ResolvePendingHit(s) PROVE SimInv'
  BY <1>6, AdvanceKeeps, ResolvePendingHitKeeps
<1>7. CASE BeginResolve
  BY <1>7, BeginResolveKeeps
<1>8. CASE BeginAttacks
  BY <1>8, BeginAttacksKeeps
<1>9. ASSUME NEW s \in Sessions, NEW k \in SkillIds, Attack(s, k) PROVE SimInv'
  BY <1>9, AttackKeeps
<1>10. CASE AdvanceRoomWaves
  BY <1>10, AdvanceRoomWavesKeeps
<1>11. CASE TryFinishIfCleared
  BY <1>11, TryFinishKeeps
<1>12. ASSUME NEW s \in Sessions, Disconnect(s) PROVE SimInv'
  BY <1>12, DisconnectKeeps
<1>13. ASSUME NEW old \in Sessions, NEW new \in Sessions, Reconnect(old, new) PROVE SimInv'
  BY <1>13, ReconnectKeeps
<1>14. CASE ReconnectDone
  BY <1>14, ReconnectDoneKeeps
<1>15. CASE Rollback
  BY <1>15, RollbackKeeps
<1>16. CASE UNCHANGED simVars
  BY <1>16, SimStutters
<1>17. CASE TickStep
  BY <1>3, <1>4, <1>5, <1>6, <1>7, <1>8, <1>9, <1>10, <1>11, <1>17 DEF TickStep
<1> QED  BY <1>1, <1>2, <1>12, <1>13, <1>14, <1>15, <1>16, <1>17 DEF SimNext

\* The invariant holds in every state.
LEMMA SimInvariant == SimSpec => []SimInv
<1>1. SimInit => SimInv
  BY SimInitially
<1>2. SimInv /\ [SimNext]_simVars => SimInv'
  BY SimStep
<1> QED  BY <1>1, <1>2, PTL DEF SimSpec

\* A skill strikes once (ResolvePendingHits): never twice, and between ticks a player past
\* the start of its action has struck, whatever sessions come, go and are rolled back.
THEOREM SimulationStrikesOnce == SimSpec => []SkillStrikesOnce
<1>1. SimInv => SkillStrikesOnce
  <2> SUFFICES ASSUME SimInv, NEW p \in Players
               PROVE  /\ struck[p] <= 1
                      /\ tickAt = "idle" /\ kept[p] /\ player[p].phase \in {"Active", "Recovery"}
                            => struck[p] = 1
    BY DEF SkillStrikesOnce
  <2>1. struck[p] \in {0, 1}
    BY DEF SimInv, TypesOK
  <2>2. ASSUME tickAt = "idle", kept[p], struck[p] = 0
        PROVE  player[p].phase \notin {"Active", "Recovery"}
    <3>1. \A s \in Sessions : ~Visited(s)
      BY <2>2 DEF Visited
    <3> QED  BY <2>2, <3>1, NothingDue
  <2> QED  BY <2>1, <2>2
<1> QED  BY <1>1, SimInvariant, PTL

\* A finished dungeon is complete (TryFinishIfCleared): every enemy of every wave of every
\* room was spawned and is dead, and every player that is left reached the last room.
THEOREM SimulationFinishes == SimSpec => []FinishedIsComplete
<1>1. SimInv => FinishedIsComplete
  BY DEF SimInv
<1> QED  BY <1>1, SimInvariant, PTL

\* In a chain of rooms nobody gets past an enemy (TryUsePortal).
THEOREM SimulationLeavesNoEnemy == SimSpec => []NoEnemyLeftBehind
<1>1. SimInv => NoEnemyLeftBehind
  <2> SUFFICES ASSUME SimInv, state \in {"Running", "Finished"}, IsChain, NEW s \in Seated,
                      NEW i \in DOMAIN Template.rooms, NEW j \in DOMAIN Template.rooms,
                      player[seats[s]].room = Template.rooms[j].id, i < j
               PROVE  AllDead(Template.rooms[i].id)
    BY DEF NoEnemyLeftBehind
  <2>1. seats[s] \in Players
    BY DEF SimInv, TypesOK, Seated
  <2> QED  BY <2>1 DEF SimInv, ChainOK, Created
<1> QED  BY <1>1, SimInvariant, PTL
=============================================================================
