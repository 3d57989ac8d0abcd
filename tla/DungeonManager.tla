--------------------------- MODULE DungeonManager ---------------------------
(***************************************************************************)
(* The dungeons and the player identities of the game server               *)
(* (src/DungeonManager.cpp) with the participant bookkeeping of each       *)
(* dungeon (src/DungeonInstance.cpp).  Every operation holds the manager's *)
(* mutex from its first check to its last write, so each is one action; an *)
(* operation with several outcomes is one action per outcome.              *)
(*                                                                         *)
(* Time.  The code stores time points and compares now - since with a      *)
(* limit.  The model stores the age of each time point, counted in units   *)
(* and saturating at the limit it is compared with, so that                *)
(* now - since >= limit is age = limit; Elapse lets one unit pass.  A      *)
(* login reads the clock before it locks: less than a unit goes by between *)
(* the two, so a seat marked in that unit may seem to be marked later than *)
(* now, and is then not resumed.                                           *)
(*                                                                         *)
(* The contents of a dungeon (rooms, enemies, player states) are left out: *)
(* the only step they decide here, clearing the last room, is taken        *)
(* nondeterministically by TryFinishIfCleared.                             *)
(***************************************************************************)
EXTENDS ServerIds

CONSTANTS
    ReconnectGrace,        \* DEFAULT_RECONNECT_GRACE, in units of time
    MaxDungeonLifetime     \* DEFAULT_MAX_DUNGEON_LIFETIME, in units of time

ASSUME DungeonTimeAssumption ==
    /\ ReconnectGrace \in Nat \ {0}
    /\ MaxDungeonLifetime \in Nat \ {0}

VARIABLES
    \* DungeonInstance, one entry per dungeon id
    dungeonState,          \* state_; "Absent" when dungeons_ has no such id
    dungeonParty,          \* partyId_
    dungeonAge,            \* now - createdAt_
    participants,          \* participants_ (a set: its order is only presentation)
    players,               \* the keys of players_
    participantPlayerIds,  \* participantPlayerIds_: session -> player
    playerSessions,        \* playerSessions_: player -> session
    disconnectedSince,     \* now - disconnectedSince_[session]
    \* DungeonManager
    partyDungeons,         \* partyDungeons_
    authenticatedPlayers,  \* authenticatedPlayers_: session -> player
    activePlayerSessions,  \* activePlayerSessions_: player -> session
    nextDungeonId,         \* nextDungeonId_
    dungeonsStopping,      \* stopping_
    \* TcpSession
    connection,            \* "New" until it registers (authenticationRegistered_),
                           \* then "Open", "Closed" once it is being removed
    \* DungeonLifecycleService::RegisterPlayerSession
    reconnecting           \* its local "registration" while the outcome is Reconnected

instanceVars == <<dungeonState, dungeonParty, dungeonAge, participants, players,
                  participantPlayerIds, playerSessions, disconnectedSince>>
identityVars == <<authenticatedPlayers, activePlayerSessions>>
dungeonVars  == <<instanceVars, partyDungeons, identityVars, nextDungeonId,
                  dungeonsStopping, connection, reconnecting>>

States == {"Absent", "Waiting", "Running", "Finished"}

\* registration.dungeonId, playerId, replacedSessionId and disconnectedAt
Reconnect == [dungeon : DungeonIds, player : Players, old : Sessions, age : 0..ReconnectGrace]

Live(d) == dungeonState[d] # "Absent"

NoPlayers  == [s \in Sessions |-> None]
NoSessions == [p \in Players |-> None]

DungeonTypeOK ==
    /\ dungeonState \in [DungeonIds -> States]
    /\ dungeonParty \in [DungeonIds -> PartyIds \cup {None}]
    /\ dungeonAge \in [DungeonIds -> 0..MaxDungeonLifetime]
    /\ participants \in [DungeonIds -> SUBSET Sessions]
    /\ players \in [DungeonIds -> SUBSET Sessions]
    /\ participantPlayerIds \in [DungeonIds -> [Sessions -> Players \cup {None}]]
    /\ playerSessions \in [DungeonIds -> [Players -> Sessions \cup {None}]]
    /\ disconnectedSince \in [DungeonIds -> [Sessions -> (0..ReconnectGrace) \cup {None}]]
    /\ partyDungeons \in [PartyIds -> DungeonIds \cup {None}]
    /\ authenticatedPlayers \in [Sessions -> Players \cup {None}]
    /\ activePlayerSessions \in [Players -> Sessions \cup {None}]
    /\ nextDungeonId \in 1..(MaxDungeons + 1)
    /\ dungeonsStopping \in BOOLEAN
    /\ connection \in [Sessions -> {"New", "Open", "Closed"}]
    /\ reconnecting \in [Sessions -> Reconnect \cup {None}]

DungeonInit ==
    /\ dungeonState = [d \in DungeonIds |-> "Absent"]
    /\ dungeonParty = [d \in DungeonIds |-> None]
    /\ dungeonAge = [d \in DungeonIds |-> 0]
    /\ participants = [d \in DungeonIds |-> {}]
    /\ players = [d \in DungeonIds |-> {}]
    /\ participantPlayerIds = [d \in DungeonIds |-> NoPlayers]
    /\ playerSessions = [d \in DungeonIds |-> NoSessions]
    /\ disconnectedSince = [d \in DungeonIds |-> NoPlayers]
    /\ partyDungeons = [p \in PartyIds |-> None]
    /\ authenticatedPlayers = NoPlayers
    /\ activePlayerSessions = NoSessions
    /\ nextDungeonId = 1
    /\ dungeonsStopping = FALSE
    /\ connection = [s \in Sessions |-> "New"]
    /\ reconnecting = [s \in Sessions |-> None]

-----------------------------------------------------------------------------
\* Erasing the dungeons D from dungeons_ (which destroys their instances) and
\* their parties' partyDungeons_ entries, and the sessions gone[d] from every
\* other dungeon d.
Remove(D, gone) ==
    /\ dungeonState' = [d \in DungeonIds |-> IF d \in D THEN "Absent" ELSE dungeonState[d]]
    /\ dungeonParty' = [d \in DungeonIds |-> IF d \in D THEN None ELSE dungeonParty[d]]
    /\ dungeonAge' = [d \in DungeonIds |-> IF d \in D THEN 0 ELSE dungeonAge[d]]
    /\ participants' = [d \in DungeonIds |-> IF d \in D THEN {} ELSE participants[d] \ gone[d]]
    /\ players' = [d \in DungeonIds |-> IF d \in D THEN {} ELSE players[d] \ gone[d]]
    /\ participantPlayerIds' = [d \in DungeonIds |-> [s \in Sessions |->
           IF d \in D \/ s \in gone[d] THEN None ELSE participantPlayerIds[d][s]]]
    /\ playerSessions' = [d \in DungeonIds |-> [p \in Players |->
           IF d \in D \/ \E s \in gone[d] : participantPlayerIds[d][s] = p
           THEN None ELSE playerSessions[d][p]]]
    /\ disconnectedSince' = [d \in DungeonIds |-> [s \in Sessions |->
           IF d \in D \/ s \in gone[d] THEN None ELSE disconnectedSince[d][s]]]
    /\ partyDungeons' = [q \in PartyIds |->
           IF \E d \in D : dungeonParty[d] = q THEN None ELSE partyDungeons[q]]

Nobody == [d \in DungeonIds |-> {}]

PartyIsFree(party) == partyDungeons[party] = None

\* CreateDungeon, from its second lock on: members is the roster read from the
\* PartyManager before it (PartyNotFound and DungeonTemplateNotFound were decided
\* there).  Every member whose player is known is bound to that player.
CreateDungeon(party, members) ==
    /\ ~dungeonsStopping
    /\ PartyIsFree(party)
    /\ nextDungeonId <= MaxDungeons
    /\ LET d == nextDungeonId IN
         /\ dungeonState' = [dungeonState EXCEPT ![d] = "Waiting"]
         /\ dungeonParty' = [dungeonParty EXCEPT ![d] = party]
         /\ dungeonAge' = [dungeonAge EXCEPT ![d] = 0]
         /\ participants' = [participants EXCEPT ![d] = members]
         /\ players' = [players EXCEPT ![d] = members]
         /\ participantPlayerIds' = [participantPlayerIds EXCEPT ![d] =
                [s \in Sessions |-> IF s \in members THEN authenticatedPlayers[s] ELSE None]]
         /\ playerSessions' = [playerSessions EXCEPT ![d] =
                [p \in Players |-> IF \E s \in members : authenticatedPlayers[s] = p
                                   THEN CHOOSE s \in members : authenticatedPlayers[s] = p
                                   ELSE None]]
         /\ disconnectedSince' = [disconnectedSince EXCEPT ![d] = NoPlayers]
         /\ partyDungeons' = [partyDungeons EXCEPT ![party] = d]
    /\ nextDungeonId' = nextDungeonId + 1
    /\ UNCHANGED <<identityVars, dungeonsStopping, connection, reconnecting>>

-----------------------------------------------------------------------------
(* RegisterPlayerSession(s, p): four outcomes.                             *)

\* Mutant of CanRegister: the player's active connection is not looked up.
CanRegisterTwice(s, p) ==
    /\ ~dungeonsStopping
    /\ authenticatedPlayers[s] \in {None, p}

\* The two identity maps leave room for s as the connection of p.
CanRegister(s, p) ==
    /\ ~dungeonsStopping
    /\ authenticatedPlayers[s] \in {None, p}
    /\ activePlayerSessions[p] \in {None, s}

\* The dungeons with a seat of s: the loop takes the first in hash order.
SeatsOf(s) == {d \in DungeonIds : Live(d) /\ s \in players[d]}

\* BindParticipantPlayer succeeds.
CanBind(d, s, p) ==
    IF participantPlayerIds[d][s] # None
    THEN participantPlayerIds[d][s] = p
    ELSE playerSessions[d][p] \in {None, s}

\* Mutant of CanReconnect: a seat may be resumed after the grace, until it is swept.
CanReconnectLate(d, s, p) ==
    /\ dungeonState[d] \in {"Waiting", "Running"}
    /\ s \notin players[d]
    /\ playerSessions[d][p] # None
    /\ disconnectedSince[d][playerSessions[d][p]] # None

\* ReconnectParticipant succeeds: the player's seat is marked disconnected, within
\* the grace, and s has no seat of its own.
CanReconnect(d, s, p) ==
    /\ dungeonState[d] \in {"Waiting", "Running"}
    /\ s \notin players[d]
    /\ playerSessions[d][p] # None
    /\ disconnectedSince[d][playerSessions[d][p]] \notin {None, ReconnectGrace}

\* InvalidIdentity: another player or another live connection holds the identity,
\* or a seat of s belongs to another player.
RegisterRefused(s, p) ==
    /\ connection[s] = "New"
    /\ connection' = [connection EXCEPT ![s] = "Open"]
    /\ UNCHANGED <<instanceVars, partyDungeons, nextDungeonId, dungeonsStopping, reconnecting>>
    /\ \/ ~CanRegister(s, p) /\ UNCHANGED identityVars
       \/ /\ CanRegister(s, p)
          /\ \E d \in SeatsOf(s) : ~CanBind(d, s, p)
          /\ authenticatedPlayers' = [authenticatedPlayers EXCEPT ![s] = None]
          /\ activePlayerSessions' = [activePlayerSessions EXCEPT ![p] = None]

\* Registered, into the seat that s already has in d.
RegisterSeated(s, p, d) ==
    /\ connection[s] = "New"
    /\ connection' = [connection EXCEPT ![s] = "Open"]
    /\ CanRegister(s, p)
    /\ d \in SeatsOf(s)
    /\ CanBind(d, s, p)
    /\ authenticatedPlayers' = [authenticatedPlayers EXCEPT ![s] = p]
    /\ activePlayerSessions' = [activePlayerSessions EXCEPT ![p] = s]
    /\ participantPlayerIds' = [participantPlayerIds EXCEPT ![d] = [@ EXCEPT ![s] = p]]
    /\ playerSessions' = [playerSessions EXCEPT ![d] = [@ EXCEPT ![p] = s]]
    /\ UNCHANGED <<dungeonState, dungeonParty, dungeonAge, participants, players,
                   disconnectedSince, partyDungeons, nextDungeonId, dungeonsStopping,
                   reconnecting>>

\* Reconnected: the seat of p in d passes from its old session to s.
RegisterReconnected(s, p, d) ==
    /\ connection[s] = "New"
    /\ connection' = [connection EXCEPT ![s] = "Open"]
    /\ CanRegister(s, p)
    /\ SeatsOf(s) = {}
    /\ CanReconnect(d, s, p)
    /\ LET old == playerSessions[d][p] IN
         /\ authenticatedPlayers' = [authenticatedPlayers EXCEPT ![s] = p, ![old] = None]
         /\ activePlayerSessions' = [activePlayerSessions EXCEPT ![p] = s]
         /\ participants' = [participants EXCEPT ![d] = (@ \ {old}) \cup {s}]
         /\ players' = [players EXCEPT ![d] = (@ \ {old}) \cup {s}]
         /\ participantPlayerIds' = [participantPlayerIds EXCEPT ![d] =
                [@ EXCEPT ![old] = None, ![s] = p]]
         /\ playerSessions' = [playerSessions EXCEPT ![d] = [@ EXCEPT ![p] = s]]
         /\ disconnectedSince' = [disconnectedSince EXCEPT ![d] = [@ EXCEPT ![old] = None]]
         /\ reconnecting' = [reconnecting EXCEPT ![s] =
                [dungeon |-> d, player |-> p, old |-> old, age |-> disconnectedSince[d][old]]]
    /\ UNCHANGED <<dungeonState, dungeonParty, dungeonAge, partyDungeons, nextDungeonId,
                   dungeonsStopping>>

\* now, read before the lock, may precede the mark of the seat of p in d.
MayPrecedeMark(d, p) == disconnectedSince[d][playerSessions[d][p]] = 0

\* Registered, with no seat to take or to resume.
RegisterPlain(s, p) ==
    /\ connection[s] = "New"
    /\ connection' = [connection EXCEPT ![s] = "Open"]
    /\ CanRegister(s, p)
    /\ SeatsOf(s) = {}
    /\ \A d \in DungeonIds : CanReconnect(d, s, p) => MayPrecedeMark(d, p)
    /\ authenticatedPlayers' = [authenticatedPlayers EXCEPT ![s] = p]
    /\ activePlayerSessions' = [activePlayerSessions EXCEPT ![p] = s]
    /\ UNCHANGED <<instanceVars, partyDungeons, nextDungeonId, dungeonsStopping, reconnecting>>

-----------------------------------------------------------------------------
\* The UDP token was rotated: RegisterPlayerSession returns.
ReconnectCompleted(s) ==
    /\ reconnecting[s] # None
    /\ reconnecting' = [reconnecting EXCEPT ![s] = None]
    /\ UNCHANGED <<instanceVars, partyDungeons, identityVars, nextDungeonId, connection, dungeonsStopping>>

\* try_emplace of a time point into disconnectedSince_: an entry that is there stays.
TryEmplace(entry, age) == IF entry = None THEN age ELSE entry

\* RollbackParticipantReconnect succeeds: the seat is still held by s.
CanRollback(s) ==
    LET r == reconnecting[s] IN
    /\ Live(r.dungeon)
    /\ playerSessions[r.dungeon][r.player] = s
    /\ s \in players[r.dungeon]
    /\ r.old \notin players[r.dungeon]

\* RollbackPlayerReconnect: the seat goes back to the old session, still
\* disconnected since the same time point, and s loses its identity.
RollbackPlayerReconnect(s) ==
    /\ reconnecting[s] # None
    /\ CanRollback(s)
    /\ LET r == reconnecting[s]
           d == r.dungeon
       IN  /\ participants' = [participants EXCEPT ![d] = (@ \ {s}) \cup {r.old}]
           /\ players' = [players EXCEPT ![d] = (@ \ {s}) \cup {r.old}]
           /\ participantPlayerIds' = [participantPlayerIds EXCEPT ![d] =
                  [@ EXCEPT ![s] = None, ![r.old] = r.player]]
           /\ playerSessions' = [playerSessions EXCEPT ![d] = [@ EXCEPT ![r.player] = r.old]]
           /\ disconnectedSince' = [disconnectedSince EXCEPT ![d] =
                  [@ EXCEPT ![r.old] = TryEmplace(disconnectedSince[d][r.old], r.age)]]
           /\ authenticatedPlayers' = [authenticatedPlayers EXCEPT ![s] = None]
           /\ activePlayerSessions' = [activePlayerSessions EXCEPT ![r.player] =
                  IF @ = s THEN None ELSE @]
    /\ reconnecting' = [reconnecting EXCEPT ![s] = None]
    /\ UNCHANGED <<dungeonState, dungeonParty, dungeonAge, partyDungeons, nextDungeonId, connection,
                   dungeonsStopping>>

\* RollbackPlayerReconnect returns false; the caller disconnects s instead.
RollbackRefused(s) ==
    /\ reconnecting[s] # None
    /\ ~CanRollback(s)
    /\ reconnecting' = [reconnecting EXCEPT ![s] = None]
    /\ UNCHANGED <<instanceVars, partyDungeons, identityVars, nextDungeonId, connection, dungeonsStopping>>

\* The first half of DisconnectPlayerSession: s stops being anybody's connection.
ForgetIdentity(s) ==
    /\ connection' = [connection EXCEPT ![s] = "Closed"]
    /\ authenticatedPlayers' = [authenticatedPlayers EXCEPT ![s] = None]
    /\ activePlayerSessions' = [p \in Players |->
           IF p = authenticatedPlayers[s] /\ activePlayerSessions[p] = s
           THEN None ELSE activePlayerSessions[p]]

\* DisconnectPlayerSession returns d: the seat of s in d is marked.  The loop stops
\* at the first dungeon with such a seat; a mark that is already there stays.
DisconnectSeated(s, d) ==
    /\ d \in SeatsOf(s)
    /\ ForgetIdentity(s)
    /\ disconnectedSince' = [disconnectedSince EXCEPT ![d] =
           [@ EXCEPT ![s] = TryEmplace(disconnectedSince[d][s], 0)]]
    /\ UNCHANGED <<dungeonState, dungeonParty, dungeonAge, participants, players,
                   participantPlayerIds, playerSessions, partyDungeons, nextDungeonId,
                   dungeonsStopping, reconnecting>>

\* DisconnectPlayerSession returns nullopt.
DisconnectUnseated(s) ==
    /\ SeatsOf(s) = {}
    /\ ForgetIdentity(s)
    /\ UNCHANGED <<instanceVars, partyDungeons, nextDungeonId, dungeonsStopping, reconnecting>>

-----------------------------------------------------------------------------
\* Mutant of LifetimeExpired: there is no maximal lifetime.
LifetimeUnlimited(d) == FALSE

LifetimeExpired(d) == Live(d) /\ dungeonAge[d] = MaxDungeonLifetime

\* The sessions the sweep removes from d: all of them at the end of the dungeon's
\* lifetime, otherwise those disconnected for the whole grace.
SweptFrom(d) ==
    IF LifetimeExpired(d)
    THEN participants[d]
    ELSE {s \in Sessions : disconnectedSince[d][s] = ReconnectGrace}

\* Mutant of SweptDungeons: an emptied dungeon is kept until its lifetime ends.
SweptDungeonsByLifetime == {d \in DungeonIds : LifetimeExpired(d)}

\* The dungeons the sweep erases.
SweptDungeons ==
    {d \in DungeonIds : Live(d) /\ (LifetimeExpired(d) \/ participants[d] \subseteq SweptFrom(d))}

\* SweepAbandonedParticipants
SweepAbandonedParticipants ==
    /\ Remove(SweptDungeons, [d \in DungeonIds |-> SweptFrom(d)])
    /\ UNCHANGED <<identityVars, nextDungeonId, connection, dungeonsStopping, reconnecting>>

CanStart(d) == dungeonState[d] = "Waiting"

\* StartDungeon; returns false, changing nothing, unless d is waiting.
StartDungeon(d) ==
    /\ CanStart(d)
    /\ dungeonState' = [dungeonState EXCEPT ![d] = "Running"]
    /\ UNCHANGED <<dungeonParty, dungeonAge, participants, players, participantPlayerIds,
                   playerSessions, disconnectedSince, partyDungeons, identityVars,
                   nextDungeonId, connection, dungeonsStopping, reconnecting>>

\* DungeonInstance::TryFinishIfCleared, when the rooms are cleared and every player
\* is in the last one; without players it returns false.
TryFinishIfCleared(d) ==
    /\ dungeonState[d] = "Running"
    /\ players[d] # {}
    /\ dungeonState' = [dungeonState EXCEPT ![d] = "Finished"]
    /\ UNCHANGED <<dungeonParty, dungeonAge, participants, players, participantPlayerIds,
                   playerSessions, disconnectedSince, partyDungeons, identityVars,
                   nextDungeonId, connection, dungeonsStopping, reconnecting>>

\* CancelDungeon; returns false, changing nothing, unless d is waiting.
CancelDungeon(d) ==
    /\ dungeonState[d] = "Waiting"
    /\ Remove({d}, Nobody)
    /\ UNCHANGED <<identityVars, nextDungeonId, connection, dungeonsStopping, reconnecting>>

\* FinishDungeon; a running dungeon is finished and erased in the same step.
FinishDungeon(d) ==
    /\ dungeonState[d] \in {"Running", "Finished"}
    /\ Remove({d}, Nobody)
    /\ UNCHANGED <<identityVars, nextDungeonId, connection, dungeonsStopping, reconnecting>>

\* DungeonManager::Stop
StopDungeons ==
    /\ ~dungeonsStopping
    /\ dungeonsStopping' = TRUE
    /\ Remove(DungeonIds, Nobody)
    /\ authenticatedPlayers' = NoPlayers
    /\ activePlayerSessions' = NoSessions
    /\ UNCHANGED <<nextDungeonId, connection, reconnecting>>

\* A time point one unit older, as far as its limit can tell.
Older(age, limit) == IF age = None \/ age = limit THEN age ELSE age + 1

\* One unit of time passes.
ElapseDungeons ==
    /\ dungeonAge' = [d \in DungeonIds |->
           IF Live(d) THEN Older(dungeonAge[d], MaxDungeonLifetime) ELSE 0]
    /\ disconnectedSince' = [d \in DungeonIds |-> [s \in Sessions |->
           Older(disconnectedSince[d][s], ReconnectGrace)]]
    /\ reconnecting' = [s \in Sessions |->
           IF reconnecting[s] = None THEN None
           ELSE [dungeon |-> reconnecting[s].dungeon, player |-> reconnecting[s].player,
                 old |-> reconnecting[s].old, age |-> Older(reconnecting[s].age, ReconnectGrace)]]
    /\ UNCHANGED <<dungeonState, dungeonParty, participants, players, participantPlayerIds,
                   playerSessions, partyDungeons, identityVars, nextDungeonId, connection, dungeonsStopping>>

\* The TCP strand of s runs its handlers one after the other: nothing else of s runs
\* until its reconnect has completed or been undone.
StrandIdle(s) == reconnecting[s] = None

\* A session's own operations.
SessionStep(s) ==
    \/ /\ StrandIdle(s)
       /\ \/ \E p \in Players :
                \/ RegisterRefused(s, p)
                \/ RegisterPlain(s, p)
                \/ \E d \in DungeonIds : RegisterSeated(s, p, d) \/ RegisterReconnected(s, p, d)
          \/ \E d \in DungeonIds : DisconnectSeated(s, d)
          \/ DisconnectUnseated(s)
    \/ ReconnectCompleted(s)
    \/ RollbackPlayerReconnect(s)
    \/ RollbackRefused(s)

\* The operations of the dungeon tick.
DungeonStep(d) ==
    \/ StartDungeon(d)
    \/ TryFinishIfCleared(d)
    \/ CancelDungeon(d)
    \/ FinishDungeon(d)

\* The environment is as free as it can be: any party may ask for a dungeon with
\* any roster, as the roster was read under another lock.
DungeonNext ==
    \/ \E party \in PartyIds, members \in (SUBSET Sessions) \ {{}} : CreateDungeon(party, members)
    \/ \E s \in Sessions : SessionStep(s)
    \/ \E d \in DungeonIds : DungeonStep(d)
    \/ SweepAbandonedParticipants
    \/ StopDungeons
    \/ ElapseDungeons

DungeonSpec == DungeonInit /\ [][DungeonNext]_dungeonVars
-----------------------------------------------------------------------------
\* A session speaks for a player exactly when that player's active connection is
\* that session: authenticatedPlayers_ and activePlayerSessions_ are inverse, so
\* one character is never played over two connections at once.
IdentityBijection ==
    \A s \in Sessions, p \in Players :
        authenticatedPlayers[s] = p <=> activePlayerSessions[p] = s

\* Inside a dungeon the session-to-player and player-to-session maps are inverse:
\* a reconnect looks a seat up in one of them and moves it in both.
SeatBijection ==
    \A d \in DungeonIds, s \in Sessions, p \in Players :
        participantPlayerIds[d][s] = p <=> playerSessions[d][p] = s

\* The roster vector, the player map, the identities and the disconnect marks of a
\* dungeon never drift apart, and a dungeon that exists has somebody in it.
SeatsConsistent ==
    \A d \in DungeonIds :
        /\ participants[d] = players[d]
        /\ Live(d) <=> players[d] # {}
        /\ \A s \in Sessions : participantPlayerIds[d][s] # None => s \in players[d]
        /\ \A s \in Sessions : disconnectedSince[d][s] # None => s \in players[d]

\* partyDungeons_ names exactly the live dungeons: FindDungeonByParty dereferences
\* its entry with dungeons_.at, which throws on a stale one.
PartyDungeonsConsistent ==
    /\ \A q \in PartyIds, d \in DungeonIds :
           partyDungeons[q] = d <=> Live(d) /\ dungeonParty[d] = q
    /\ \A d \in DungeonIds : Live(d) => dungeonParty[d] # None

\* While a reconnect awaits its UDP token the new session holds the seat, unmarked:
\* otherwise its rollback would leave a mark without a seat behind.
ReconnectHoldsSeat ==
    \A s \in Sessions : reconnecting[s] # None =>
        LET r == reconnecting[s] IN
        Live(r.dungeon) => /\ s \in players[r.dungeon]
                           /\ disconnectedSince[r.dungeon][s] = None

\* One character is played over one connection and sits on one seat of a dungeon,
\* after any sequence of logins, disconnects, reconnects and rollbacks.
SeatsExclusive == IdentityBijection /\ SeatBijection

\* The four maps of every dungeon and the two of the manager are kept in step, also
\* while a reconnect is half done.
SeatBookkeeping == SeatsConsistent /\ PartyDungeonsConsistent /\ ReconnectHoldsSeat

\* A player's seat moves to another session only while the holder is marked
\* disconnected within the grace, or back to the session it was taken from:
\* nobody loses a seat to another connection while connected.
SeatMovesOnlyAfterDisconnect ==
    [][\A d \in DungeonIds, p \in Players :
          LET from == playerSessions[d][p]
              to   == playerSessions'[d][p]
          IN  from # None /\ to # None /\ from # to =>
                 \/ disconnectedSince[d][from] \notin {None, ReconnectGrace}
                 \/ reconnecting[from] # None /\ reconnecting[from].old = to]_dungeonVars

\* A dungeon only moves forward: waiting, running, finished, erased; an erased
\* dungeon never comes back and its id is not used again.
DungeonStateMonotonic ==
    [][\A d \in DungeonIds :
          <<dungeonState[d], dungeonState'[d]>> \in
              {<<x, x>> : x \in States} \cup {<<x, "Absent">> : x \in States}
              \cup {<<"Waiting", "Running">>, <<"Running", "Finished">>}
          \/ (dungeonState[d] = "Absent" /\ dungeonState'[d] = "Waiting"
              /\ d = nextDungeonId /\ nextDungeonId' = d + 1)]_dungeonVars
=============================================================================
