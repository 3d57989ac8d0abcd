-------------------------- MODULE GameServerProofs --------------------------
(***************************************************************************)
(* Proofs about the game server, for any number of sessions, players,      *)
(* parties and dungeons and any time limits: every step of a handler or of *)
(* the tick is a step of the managers' own specifications, and the UDP     *)
(* sessions, their tokens and the tick's tables agree with the dungeons    *)
(* whenever no handler is under way.  In between they do not agree: the    *)
(* inductive invariant says, for every position of every strand and of the *)
(* tick, which of them are apart and who is about to put them right.       *)
(***************************************************************************)
EXTENDS GameServer, ManagerProofs

\* A strand that is entering a dungeon, and one that serves an authenticated client.
EnterSteps == {"roster", "allocate", "token", "cancel", "release"}
InUse      == {"idle", "create", "info"} \cup EnterSteps

\* The session has been taken out of the dungeon manager for good.
Leaving == {"closeUdp", "closeParty", "gone"}

\* The types of the strands' own variables.
StrandTypeOK ==
    /\ at \in [Sessions -> AtRest \cup Handler]
    /\ dungeonOf \in [Sessions -> DungeonIds \cup {None}]
    /\ rosterOf \in [Sessions -> SUBSET Sessions]
    /\ told \in SUBSET (DungeonIds \X Sessions)

\* The types of the tick's own variables.
TickTypeOK ==
    /\ tickAt \in TickAt
    /\ tickRemoved \in SUBSET (DungeonIds \X Sessions)
    /\ tickTodo \in SUBSET DungeonIds
    /\ tickDungeon \in DungeonIds \cup {None}
    /\ tickWaiting \in SUBSET DungeonIds
    /\ waitingSince \in [DungeonIds -> (0..ReadyTimeout) \cup {None}]
    /\ finishedSince \in [DungeonIds -> (0..FinishedBroadcast) \cup {None}]

\* What the position of a strand says about its session.
Positions ==
    \A s \in Sessions :
        /\ at[s] = "new" <=> connection[s] = "New"
        /\ at[s] \in InUse \cup {"rotate", "rollback"} => connection[s] = "Open"
        /\ at[s] \in Leaving => connection[s] = "Closed"
        /\ reconnecting[s] # None => at[s] \in {"rotate", "rollback"}
        /\ at[s] \in EnterSteps \cup {"info", "closeUdp"} => dungeonOf[s] # None
        /\ dungeonOf[s] # None => dungeonOf[s] < nextDungeonId

\* Two strands never enter the same dungeon.
EntersAlone ==
    \A s, t \in Sessions :
        at[s] \in EnterSteps /\ at[t] \in EnterSteps /\ dungeonOf[s] = dungeonOf[t] => s = t

\* What a party or a roster about to be used may hold: sessions that have logged in.
Admitted(s) ==
    \/ at[s] \in Leaving
    \/ /\ at[s] \in InUse \cup {"close"}
       /\ connection[s] = "Open"
       /\ authenticatedPlayers[s] # None

\* Parties hold sessions that have logged in, and so does a roster that was read and is
\* about to become a dungeon, unless they have left since.
Rosters ==
    /\ \A s \in Sessions :
          /\ joinedParties[s] # None => Admitted(s)
          /\ at[s] \in InUse \cup {"rotate", "rollback"} => authenticatedPlayers[s] # None
          /\ at[s] = "create" => joinedParties[s] # None /\ s \in rosterOf[s]
    /\ \A s, t \in Sessions :
          /\ at[t] = "create" /\ s \in rosterOf[t] => Admitted(s)
          /\ s \in rosterOf[t] => connection[s] # "New"

\* Nothing anywhere is about a dungeon that has not been created.
KnownDungeons ==
    /\ \A d \in DungeonIds :
          /\ d \in udpAllocated => d < nextDungeonId
          /\ d \in tickTodo => d < nextDungeonId
          /\ waitingSince[d] # None => d < nextDungeonId
    /\ tickDungeon # None => tickDungeon < nextDungeonId
    /\ \A d \in DungeonIds, s \in Sessions :
          <<d, s>> \in told \cup tickRemoved => d < nextDungeonId

\* Nobody is seated or holds a token before connecting.
KnownSessions ==
    \A d \in DungeonIds, s \in Sessions :
        s \in players[d] \cup udpTokens[d] => connection[s] # "New"

\* The tick is in its loop over the waiting dungeons.
InWaitingLoop == tickAt \in {"waiting", "auth", "start", "cancel", "cancelRelease"}

\* What the position of the tick says about the dungeons it is about to deal with.
TickPosition ==
    /\ tickAt \in {"auth", "start", "cancel", "cancelRelease", "finishRelease"} => tickDungeon # None
    /\ InWaitingLoop => tickDungeon \notin tickTodo
    /\ InWaitingLoop => \A d \in tickTodo : dungeonState[d] \in {"Waiting", "Absent"}
    /\ tickAt \in {"auth", "start", "cancel"} => dungeonState[tickDungeon] \in {"Waiting", "Absent"}
    /\ tickAt = "start" /\ Live(tickDungeon) => tickDungeon \in udpAllocated
    /\ tickAt \in {"cancelRelease", "finishRelease"} => ~Live(tickDungeon)
    /\ tickAt = "remove" => \A d \in tickTodo : ~Live(d)

\* waitingSince_ is about dungeons that wait or are gone, finishedSince_ about finished ones
\* and those the tick is about to remove.
TickTimes ==
    \A d \in DungeonIds :
        /\ waitingSince[d] # None => dungeonState[d] \in {"Waiting", "Absent"}
        /\ dungeonState[d] = "Finished" => finishedSince[d] # None
        /\ finishedSince[d] # None =>
              dungeonState[d] = "Finished" \/ (tickAt = "remove" /\ d \in tickTodo)

\* Outside the loop over the waiting dungeons waitingSince_ is about those of the last list.
TimesListed ==
    ~InWaitingLoop => \A d \in DungeonIds : waitingSince[d] # None => d \in tickWaiting

\* A strand or the tick has erased d and is about to release its UDP session.
Releasing(d) ==
    \/ \E s \in Sessions : at[s] = "release" /\ dungeonOf[s] = d
    \/ tickAt \in {"cancelRelease", "finishRelease"} /\ tickDungeon = d
    \/ tickAt = "remove" /\ d \in tickTodo

\* A dungeon and its UDP session exist together, but for the steps between the creation
\* of one and of the other.
UdpFollows ==
    /\ \A d \in DungeonIds :
          /\ d \in udpAllocated /\ ~Live(d) => Releasing(d)
          /\ Live(d) /\ d \notin udpAllocated =>
                \E s \in Sessions : at[s] \in {"roster", "allocate", "cancel"} /\ dungeonOf[s] = d
          /\ dungeonState[d] \in {"Running", "Finished"} => d \in udpAllocated
    /\ \A s \in Sessions : at[s] = "release" => ~Live(dungeonOf[s])

\* Nothing can have timed out in d yet.
Young(d) ==
    /\ dungeonState[d] = "Waiting"
    /\ d \notin udpAllocated
    /\ dungeonAge[d] = 0
    /\ waitingSince[d] \in {None, 0}
    /\ ~(tickAt = "cancel" /\ tickDungeon = d)
    /\ \A s \in Sessions :
          /\ disconnectedSince[d][s] \in {None, 0}
          /\ reconnecting[s] # None /\ reconnecting[s].dungeon = d => reconnecting[s].age = 0

\* A dungeon that waits for its UDP session is young: no tick and no sweep touches it.
NewDungeonYoung == \A s \in Sessions : at[s] \in {"roster", "allocate"} => Young(dungeonOf[s])

\* A seat is marked, or was taken over, only when its connection is closed.
Departed ==
    /\ \A d \in DungeonIds, s \in Sessions : disconnectedSince[d][s] # None => connection[s] = "Closed"
    /\ \A s \in Sessions : reconnecting[s] # None => connection[reconnecting[s].old] = "Closed"

\* The session a reconnect took the seat of has none in that dungeon, no second reconnect
\* took it, and the sweep has not removed it.
OldSeats ==
    /\ \A s \in Sessions : reconnecting[s] # None /\ Live(reconnecting[s].dungeon) =>
          reconnecting[s].old \notin players[reconnecting[s].dungeon]
    /\ \A s, t \in Sessions :
          reconnecting[s] # None /\ reconnecting[t] # None /\ Live(reconnecting[s].dungeon)
          /\ reconnecting[s].dungeon = reconnecting[t].dungeon
          /\ reconnecting[s].old = reconnecting[t].old => s = t
    /\ \A d \in DungeonIds, s \in Sessions : <<d, s>> \in tickRemoved /\ Live(d) =>
          /\ connection[s] = "Closed"
          /\ s \notin players[d]
          /\ \A t \in Sessions : reconnecting[t] # None /\ reconnecting[t].dungeon = d
                                 => reconnecting[t].old # s

\* A client in use has a token exactly where it has a seat; the roster about to be
\* allocated is that of the dungeon.
TokenFollowsSeat ==
    \A s \in Sessions :
        /\ at[s] \in InUse => \A d \in DungeonIds :
              d \in udpAllocated /\ Live(d) => (s \in udpTokens[d] <=> s \in players[d])
        /\ at[s] \in InUse => \A t \in Sessions :
              at[t] = "allocate" => (s \in rosterOf[t] <=> s \in players[dungeonOf[t]])

\* A session under reconnect is in no other dungeon.
ReconnectOneSeat ==
    \A s \in Sessions : reconnecting[s] # None =>
        /\ \A d \in DungeonIds : d # reconnecting[s].dungeon =>
              s \notin players[d] /\ s \notin udpTokens[d]
        /\ \A t \in Sessions : at[t] = "allocate" /\ dungeonOf[t] # reconnecting[s].dungeon
              => s \notin rosterOf[t]

\* Only tokens that clients were told come back.
HelloWasTold ==
    \A d \in DungeonIds, s \in Sessions : s \in udpEndpoints[d] => <<d, s>> \in told

\* The owner of the seat left after the roster was read and before the dungeon was created.
Vanished(d, s) == Live(d) /\ s \in players[d] /\ participantPlayerIds[d][s] = None

\* Such a seat is nobody's for ever, its token is known to nobody, and its dungeon waits.
VanishedSeats ==
    \A d \in DungeonIds, s \in Sessions : Vanished(d, s) =>
        /\ at[s] \in Leaving
        /\ disconnectedSince[d][s] = None
        /\ <<d, s>> \notin told
        /\ dungeonState[d] = "Waiting"
        /\ ~(tickAt = "start" /\ tickDungeon = d)
        /\ d \in udpAllocated => s \in udpTokens[d]
        /\ \A t \in Sessions : at[t] = "allocate" /\ dungeonOf[t] = d => s \in rosterOf[t]

\* The inductive invariant, beside those of the managers.
ServerInv ==
    /\ UdpTypeOK /\ StrandTypeOK /\ TickTypeOK /\ Positions /\ EntersAlone /\ Rosters
    /\ KnownDungeons /\ KnownSessions /\ TickPosition /\ TickTimes /\ TimesListed
    /\ UdpFollows /\ NewDungeonYoung /\ Departed /\ OldSeats /\ EndpointsHoldTokens
    /\ TokenFollowsSeat /\ ReconnectOneSeat /\ HelloWasTold /\ VanishedSeats

-----------------------------------------------------------------------------
(* Each part of the invariant depends on some variables only.              *)

\* What the assumptions on the constants say.
LEMMA ServerFacts ==
    /\ None \notin Sessions /\ None \notin Players
    /\ None \notin DungeonIds /\ None \notin PartyIds
    /\ None # 0 /\ None \notin 0..ReconnectGrace
    /\ None \notin 0..ReadyTimeout /\ None \notin 0..FinishedBroadcast
    /\ ReconnectGrace \in Nat \ {0} /\ MaxDungeonLifetime \in Nat \ {0}
    /\ ReadyTimeout \in Nat \ {0} /\ FinishedBroadcast \in Nat \ {0}
    /\ MaxDungeons \in Nat /\ DungeonIds = 1..MaxDungeons
BY IdAssumption, DungeonTimeAssumption, TickTimeAssumption DEF DungeonIds, PartyIds

\* The dungeon manager's erasure of a single dungeon.
Erased(d) ==
    /\ dungeonState' = [dungeonState EXCEPT ![d] = "Absent"]
    /\ dungeonAge' = [dungeonAge EXCEPT ![d] = 0]
    /\ players' = [players EXCEPT ![d] = {}]
    /\ participantPlayerIds' = [participantPlayerIds EXCEPT ![d] = [t \in Sessions |-> None]]
    /\ disconnectedSince' = [disconnectedSince EXCEPT ![d] = [t \in Sessions |-> None]]

\* Remove, of one dungeon, erases it and nothing else.
LEMMA RemoveErases ==
    ASSUME DungeonInv, NEW d \in DungeonIds, Remove({d}, Nobody)
    PROVE  Erased(d)
<1> USE DEF DungeonInv, DungeonTypeOK
<1>1. /\ dungeonState' = [dungeonState EXCEPT ![d] = "Absent"]
      /\ dungeonAge' = [dungeonAge EXCEPT ![d] = 0]
  BY DEF Remove
<1>2. players' = [players EXCEPT ![d] = {}]
  BY DEF Remove, Nobody
<1>3. participantPlayerIds' = [participantPlayerIds EXCEPT ![d] = [t \in Sessions |-> None]]
  BY DEF Remove, Nobody
<1>4. disconnectedSince' = [disconnectedSince EXCEPT ![d] = [t \in Sessions |-> None]]
  BY DEF Remove, Nobody
<1> QED  BY <1>1, <1>2, <1>3, <1>4 DEF Erased

\* A strand that is not about to allocate or to release keeps no dungeon without, and
\* no UDP session with, its counterpart.
LEMMA StrandMovesOn ==
    ASSUME UdpFollows, StrandTypeOK, NEW s \in Sessions, NEW step,
           at[s] \notin {"roster", "allocate", "cancel", "release"}, step # "release",
           at' = [at EXCEPT ![s] = step],
           \A t \in Sessions : t # s => dungeonOf'[t] = dungeonOf[t],
           UNCHANGED <<udpAllocated, dungeonState, tickAt, tickDungeon, tickTodo>>
    PROVE  UdpFollows'
<1>1. \A d \in DungeonIds : Releasing(d) => Releasing(d)'
  BY DEF Releasing, StrandTypeOK
<1>2. \A d \in DungeonIds : Live(d)' <=> Live(d)
  BY DEF Live
<1>3. ASSUME NEW d \in DungeonIds,
             \E t \in Sessions : at[t] \in {"roster", "allocate", "cancel"} /\ dungeonOf[t] = d
      PROVE  \E t \in Sessions : at'[t] \in {"roster", "allocate", "cancel"} /\ dungeonOf'[t] = d
  BY <1>3 DEF StrandTypeOK
<1>4. \A t \in Sessions : at'[t] = "release" => ~Live(dungeonOf[t])'
  BY DEF UdpFollows, StrandTypeOK, Live
<1> QED  BY <1>1, <1>2, <1>3, <1>4 DEF UdpFollows

\* What a pending reconnect refers to.
LEMMA ReconnectTypes ==
    ASSUME DungeonInv
    PROVE  \A t \in Sessions : reconnecting[t] # None =>
              /\ reconnecting[t].dungeon \in DungeonIds /\ reconnecting[t].old \in Sessions
              /\ reconnecting[t].dungeon < nextDungeonId
              /\ Live(reconnecting[t].dungeon) => t \in players[reconnecting[t].dungeon]
BY DEF DungeonInv, DungeonTypeOK, Reconnect, ReconnectHoldsSeat, ReconnectFromTheDead

\* A seat is held in a dungeon that was created.
LEMMA SeatsAreOld ==
    ASSUME DungeonInv, NEW d \in DungeonIds, players[d] # {} \/ Live(d)
    PROVE  d < nextDungeonId
<1>1. Live(d)
  BY DEF DungeonInv, SeatsConsistent
<1>2. nextDungeonId \in Nat /\ d \in Nat
  BY ServerFacts DEF DungeonInv, DungeonTypeOK
<1> QED  BY <1>1, <1>2 DEF DungeonInv, FutureDungeonsAbsent

\* Closing a connection disturbs nobody's old seat.
LEMMA ClosingKeepsOldSeats ==
    ASSUME OldSeats, \A t \in Sessions : connection[t] = "Closed" => connection'[t] = "Closed",
           UNCHANGED <<reconnecting, dungeonState, players, tickRemoved>>
    PROVE  OldSeats'
BY DEF OldSeats, Live

\* A time point that grows older stays a time point within its limit.
LEMMA OlderStays ==
    ASSUME NEW limit \in Nat \ {0}, NEW age \in (0..limit) \cup {None}, None \notin 0..limit
    PROVE  /\ Older(age, limit) \in (0..limit) \cup {None}
           /\ Older(age, limit) # None <=> age # None
BY DEF Older

\* UdpTypeOK depends on these variables only.
LEMMA KeptUdpTypeOK ==
    ASSUME UdpTypeOK, UNCHANGED <<udpAllocated, udpTokens, udpEndpoints>>
    PROVE  UdpTypeOK'
BY DEF UdpTypeOK

\* StrandTypeOK depends on these variables only.
LEMMA KeptStrandTypeOK ==
    ASSUME StrandTypeOK, UNCHANGED <<at, dungeonOf, rosterOf, told>>
    PROVE  StrandTypeOK'
BY DEF StrandTypeOK

\* TickTypeOK depends on these variables only.
LEMMA KeptTickTypeOK ==
    ASSUME TickTypeOK, UNCHANGED <<tickAt, tickRemoved, tickTodo, tickDungeon,
        tickWaiting, waitingSince, finishedSince>>
    PROVE  TickTypeOK'
BY DEF TickTypeOK

\* Positions depends on these variables only.
LEMMA KeptPositions ==
    ASSUME Positions, UNCHANGED <<at, connection, reconnecting, dungeonOf,
        nextDungeonId>>
    PROVE  Positions'
BY DEF Positions

\* EntersAlone depends on these variables only.
LEMMA KeptEntersAlone ==
    ASSUME EntersAlone, UNCHANGED <<at, dungeonOf>>
    PROVE  EntersAlone'
BY DEF EntersAlone

\* Rosters depends on these variables only.
LEMMA KeptRosters ==
    ASSUME Rosters, UNCHANGED <<joinedParties, at, connection, authenticatedPlayers,
        rosterOf>>
    PROVE  Rosters'
BY DEF Rosters, Admitted

\* KnownDungeons depends on these variables only.
LEMMA KeptKnownDungeons ==
    ASSUME KnownDungeons, UNCHANGED <<udpAllocated, tickTodo, waitingSince,
        tickDungeon, told, tickRemoved, nextDungeonId>>
    PROVE  KnownDungeons'
BY DEF KnownDungeons

\* KnownSessions depends on these variables only.
LEMMA KeptKnownSessions ==
    ASSUME KnownSessions, UNCHANGED <<players, udpTokens, connection>>
    PROVE  KnownSessions'
BY DEF KnownSessions

\* TickPosition depends on these variables only.
LEMMA KeptTickPosition ==
    ASSUME TickPosition, UNCHANGED <<tickAt, tickDungeon, tickTodo, dungeonState,
        udpAllocated>>
    PROVE  TickPosition'
BY DEF TickPosition, InWaitingLoop, Live

\* TickTimes depends on these variables only.
LEMMA KeptTickTimes ==
    ASSUME TickTimes, UNCHANGED <<waitingSince, finishedSince, dungeonState, tickAt,
        tickTodo>>
    PROVE  TickTimes'
BY DEF TickTimes

\* TimesListed depends on these variables only.
LEMMA KeptTimesListed ==
    ASSUME TimesListed, UNCHANGED <<tickAt, tickWaiting, waitingSince>>
    PROVE  TimesListed'
BY DEF TimesListed, InWaitingLoop

\* UdpFollows depends on these variables only.
LEMMA KeptUdpFollows ==
    ASSUME UdpFollows, UNCHANGED <<udpAllocated, dungeonState, at, dungeonOf, tickAt,
        tickDungeon, tickTodo>>
    PROVE  UdpFollows'
BY DEF UdpFollows, Releasing, Live

\* NewDungeonYoung depends on these variables only.
LEMMA KeptNewDungeonYoung ==
    ASSUME NewDungeonYoung, UNCHANGED <<at, dungeonOf, dungeonState, udpAllocated,
        dungeonAge, waitingSince, tickAt, tickDungeon, disconnectedSince, reconnecting>>
    PROVE  NewDungeonYoung'
BY DEF NewDungeonYoung, Young

\* Departed depends on these variables only.
LEMMA KeptDeparted ==
    ASSUME Departed, UNCHANGED <<disconnectedSince, connection, reconnecting>>
    PROVE  Departed'
BY DEF Departed

\* OldSeats depends on these variables only.
LEMMA KeptOldSeats ==
    ASSUME OldSeats, UNCHANGED <<reconnecting, dungeonState, players, tickRemoved,
        connection>>
    PROVE  OldSeats'
BY DEF OldSeats, Live

\* EndpointsHoldTokens depends on these variables only.
LEMMA KeptEndpointsHoldTokens ==
    ASSUME EndpointsHoldTokens, UNCHANGED <<udpAllocated, udpTokens, udpEndpoints>>
    PROVE  EndpointsHoldTokens'
BY DEF EndpointsHoldTokens

\* TokenFollowsSeat depends on these variables only.
LEMMA KeptTokenFollowsSeat ==
    ASSUME TokenFollowsSeat, UNCHANGED <<at, udpAllocated, dungeonState, udpTokens,
        players, rosterOf, dungeonOf>>
    PROVE  TokenFollowsSeat'
BY DEF TokenFollowsSeat, Live

\* ReconnectOneSeat depends on these variables only.
LEMMA KeptReconnectOneSeat ==
    ASSUME ReconnectOneSeat, UNCHANGED <<reconnecting, players, udpTokens, at,
        dungeonOf, rosterOf>>
    PROVE  ReconnectOneSeat'
BY DEF ReconnectOneSeat

\* HelloWasTold depends on these variables only.
LEMMA KeptHelloWasTold ==
    ASSUME HelloWasTold, UNCHANGED <<udpEndpoints, told>>
    PROVE  HelloWasTold'
BY DEF HelloWasTold

\* VanishedSeats depends on these variables only.
LEMMA KeptVanishedSeats ==
    ASSUME VanishedSeats, UNCHANGED <<dungeonState, players, participantPlayerIds, at,
        disconnectedSince, told, tickAt, tickDungeon, udpAllocated, udpTokens,
        dungeonOf, rosterOf>>
    PROVE  VanishedSeats'
BY DEF VanishedSeats, Vanished, Live

-----------------------------------------------------------------------------
(* One lemma per outcome of every step.                                    *)

\* A refused login: the session was nobody and is in no party, seat or token.
LEMMA LoginRefusedPreserves ==
    ASSUME ServerInv, DungeonInv, PartyInv, DungeonInv', NEW s \in Sessions,
           NEW p \in Players, RegisterRefused(s, p), Step(s, "new", "close"),
           UNCHANGED <<partyVars, udpVars, told, tickVars>>
    PROVE  ServerInv'
<1> USE DEF ServerInv
<1>1. /\ at[s] = "new" /\ at' = [at EXCEPT ![s] = "close"]
      /\ connection' = [connection EXCEPT ![s] = "Open"]
      /\ \A t \in Sessions : t # s => authenticatedPlayers'[t] = authenticatedPlayers[t]
  BY DEF RegisterRefused, Step, Goto, identityVars, DungeonInv, DungeonTypeOK
<1>2. UNCHANGED <<joinedParties, dungeonState, dungeonAge, players,
        participantPlayerIds, disconnectedSince, nextDungeonId, reconnecting,
        udpAllocated, udpTokens, udpEndpoints, dungeonOf, rosterOf, told, tickAt,
        tickRemoved, tickTodo, tickDungeon, tickWaiting, waitingSince, finishedSince>>
  BY DEF RegisterRefused, Step, Goto, identityVars, DungeonInv, DungeonTypeOK,
      partyVars, udpVars, tickVars, sessionVars, dungeonVars, instanceVars,
      identityVars
<1>t. /\ authenticatedPlayers \in [Sessions -> Players \cup {None}]
      /\ connection \in [Sessions -> {"New", "Open", "Closed"}]
  BY DEF DungeonInv, DungeonTypeOK
<1>3. UdpTypeOK' /\ TickTypeOK' /\ KnownDungeons' /\ TickPosition' /\ TickTimes'
      /\ TimesListed' /\ EndpointsHoldTokens' /\ HelloWasTold'
  BY <1>2, KeptUdpTypeOK, KeptTickTypeOK, KeptKnownDungeons, KeptTickPosition,
     KeptTickTimes, KeptTimesListed, KeptEndpointsHoldTokens, KeptHelloWasTold
<1>4. StrandTypeOK'
  BY <1>1, <1>2, ServerFacts DEF StrandTypeOK, AtRest, Handler
<1>5. Positions'
  BY <1>1, <1>2, ServerFacts, <1>t DEF Positions, InUse, Leaving, EnterSteps, StrandTypeOK
<1>6. EntersAlone'
  BY <1>1, <1>2, ServerFacts DEF EntersAlone, EnterSteps, StrandTypeOK
<1>7. Rosters'
  BY <1>1, <1>2, ServerFacts, <1>t DEF Rosters, Admitted, InUse, Leaving, EnterSteps, StrandTypeOK
<1>8. KnownSessions'
  BY <1>1, <1>2, ServerFacts, <1>t DEF KnownSessions
<1>9. UdpFollows'
  BY <1>1, <1>2, StrandMovesOn DEF StrandTypeOK
<1>10. NewDungeonYoung'
  BY <1>1, <1>2, ServerFacts DEF NewDungeonYoung, Young, StrandTypeOK
<1>11. Departed'
  BY <1>1, <1>2, ServerFacts, <1>t DEF Departed, Positions
<1>12. OldSeats'
  BY <1>1, <1>2, ServerFacts, <1>t DEF OldSeats, Live, Positions
<1>13. TokenFollowsSeat'
  BY <1>1, <1>2, ServerFacts DEF TokenFollowsSeat, InUse, EnterSteps, Live, StrandTypeOK
<1>14. ReconnectOneSeat'
  BY <1>1, <1>2, ServerFacts DEF ReconnectOneSeat, StrandTypeOK
<1>15. VanishedSeats'
  BY <1>1, <1>2, ServerFacts DEF VanishedSeats, Vanished, Leaving, Live, StrandTypeOK
<1> QED  BY <1>3, <1>4, <1>5, <1>6, <1>7, <1>8, <1>9, <1>10, <1>11, <1>12, <1>13,
            <1>14, <1>15

\* A login without a seat to resume.
LEMMA LoginPlainPreserves ==
    ASSUME ServerInv, DungeonInv, PartyInv, DungeonInv', NEW s \in Sessions,
           NEW p \in Players, RegisterPlain(s, p), Step(s, "new", "idle"),
           UNCHANGED <<partyVars, udpVars, told, tickVars>>
    PROVE  ServerInv'
<1> USE DEF ServerInv
<1>1. /\ at[s] = "new" /\ at' = [at EXCEPT ![s] = "idle"]
      /\ connection' = [connection EXCEPT ![s] = "Open"]
      /\ authenticatedPlayers' = [authenticatedPlayers EXCEPT ![s] = p]
  BY DEF RegisterPlain, Step, Goto
<1>2. UNCHANGED <<joinedParties, dungeonState, dungeonAge, players,
        participantPlayerIds, disconnectedSince, nextDungeonId, reconnecting,
        udpAllocated, udpTokens, udpEndpoints, dungeonOf, rosterOf, told, tickAt,
        tickRemoved, tickTodo, tickDungeon, tickWaiting, waitingSince, finishedSince>>
  BY DEF RegisterPlain, Step, Goto, partyVars, udpVars, tickVars, sessionVars,
      dungeonVars, instanceVars, identityVars
<1>t. /\ authenticatedPlayers \in [Sessions -> Players \cup {None}]
      /\ connection \in [Sessions -> {"New", "Open", "Closed"}]
  BY DEF DungeonInv, DungeonTypeOK
<1>3. UdpTypeOK' /\ TickTypeOK' /\ KnownDungeons' /\ TickPosition' /\ TickTimes'
      /\ TimesListed' /\ EndpointsHoldTokens' /\ HelloWasTold'
  BY <1>2, KeptUdpTypeOK, KeptTickTypeOK, KeptKnownDungeons, KeptTickPosition,
     KeptTickTimes, KeptTimesListed, KeptEndpointsHoldTokens, KeptHelloWasTold
<1>4. StrandTypeOK'
  BY <1>1, <1>2, ServerFacts DEF StrandTypeOK, AtRest, Handler
<1>5. Positions'
  BY <1>1, <1>2, ServerFacts, <1>t DEF Positions, InUse, Leaving, EnterSteps, StrandTypeOK
<1>6. EntersAlone'
  BY <1>1, <1>2, ServerFacts DEF EntersAlone, EnterSteps, StrandTypeOK
<1>7. Rosters'
  BY <1>1, <1>2, ServerFacts, <1>t DEF Rosters, Admitted, InUse, Leaving, EnterSteps, StrandTypeOK
<1>8. KnownSessions'
  BY <1>1, <1>2, ServerFacts, <1>t DEF KnownSessions
<1>9. UdpFollows'
  BY <1>1, <1>2, StrandMovesOn DEF StrandTypeOK
<1>10. NewDungeonYoung'
  BY <1>1, <1>2, ServerFacts DEF NewDungeonYoung, Young, StrandTypeOK
<1>11. Departed'
  BY <1>1, <1>2, ServerFacts, <1>t DEF Departed, Positions
<1>12. OldSeats'
  BY <1>1, <1>2, ServerFacts, <1>t DEF OldSeats, Live, Positions
<1>13. TokenFollowsSeat'
  BY <1>1, <1>2, ServerFacts DEF TokenFollowsSeat, InUse, EnterSteps, Live, KnownSessions, Rosters,
      Positions, StrandTypeOK
<1>14. ReconnectOneSeat'
  BY <1>1, <1>2, ServerFacts DEF ReconnectOneSeat, StrandTypeOK
<1>15. VanishedSeats'
  BY <1>1, <1>2, ServerFacts DEF VanishedSeats, Vanished, Leaving, Live, StrandTypeOK
<1> QED  BY <1>3, <1>4, <1>5, <1>6, <1>7, <1>8, <1>9, <1>10, <1>11, <1>12, <1>13,
            <1>14, <1>15

\* A login that takes the seat of its player over: the seat leaves a session that is
\* gone, and the session that gets it is in no other dungeon.
LEMMA LoginReconnectedPreserves ==
    ASSUME ServerInv, DungeonInv, PartyInv, DungeonInv', NEW s \in Sessions,
           NEW p \in Players, NEW d \in DungeonIds, RegisterReconnected(s, p, d),
           Step(s, "new", "rotate"), UNCHANGED <<partyVars, udpVars, told, tickVars>>
    PROVE  ServerInv'
<1> USE DEF ServerInv
<1> PICK old \in Sessions : old = playerSessions[d][p]
  BY DEF RegisterReconnected, CanReconnect, DungeonInv, DungeonTypeOK
<1> DEFINE r == [dungeon |-> d, player |-> p, old |-> old, age |-> disconnectedSince[d][old]]
<1>a. /\ Live(d) /\ dungeonState[d] \in {"Waiting", "Running"}
      /\ disconnectedSince[d][old] # None /\ s \notin players[d]
  BY DEF RegisterReconnected, CanReconnect, Live
<1>b. old \in players[d] /\ old # s
  BY <1>a DEF DungeonInv, SeatsConsistent
<1>c. connection[s] = "New" /\ reconnecting[s] = None /\ connection[old] = "Closed"
  BY <1>a DEF Step, Positions, Departed
<1>0. /\ Live(d) /\ old \in players[d] /\ old # s /\ disconnectedSince[d][old] # None
      /\ connection[s] = "New" /\ reconnecting[s] = None /\ connection[old] = "Closed"
      /\ s \notin players[d]
  BY <1>a, <1>b, <1>c
<1>1. /\ at[s] = "new" /\ at' = [at EXCEPT ![s] = "rotate"]
      /\ connection' = [connection EXCEPT ![s] = "Open"]
      /\ authenticatedPlayers' = [authenticatedPlayers EXCEPT ![s] = p, ![old] = None]
      /\ players' = [players EXCEPT ![d] = (players[d] \ {old}) \cup {s}]
      /\ participantPlayerIds' = [participantPlayerIds EXCEPT ![d] =
                                  [participantPlayerIds[d] EXCEPT ![old] = None, ![s] = p]]
      /\ disconnectedSince' = [disconnectedSince EXCEPT ![d] = [disconnectedSince[d] EXCEPT ![old] = None]]
      /\ reconnecting' = [reconnecting EXCEPT ![s] = r]
      /\ r.dungeon = d /\ r.player = p /\ r.old = old /\ r.age = disconnectedSince[d][old]
  BY DEF RegisterReconnected, Step, Goto
<1>2. UNCHANGED <<joinedParties, dungeonState, dungeonAge, nextDungeonId, udpAllocated,
        udpTokens, udpEndpoints, dungeonOf, rosterOf, told, tickAt, tickRemoved,
        tickTodo, tickDungeon, tickWaiting, waitingSince, finishedSince>>
  BY DEF RegisterReconnected, Step, Goto, partyVars, udpVars, tickVars, sessionVars,
      dungeonVars, instanceVars, identityVars
<1>t. /\ players \in [DungeonIds -> SUBSET Sessions]
      /\ participantPlayerIds \in [DungeonIds -> [Sessions -> Players \cup {None}]]
      /\ disconnectedSince \in [DungeonIds -> [Sessions -> (0..ReconnectGrace) \cup {None}]]
      /\ authenticatedPlayers \in [Sessions -> Players \cup {None}]
      /\ connection \in [Sessions -> {"New", "Open", "Closed"}]
      /\ reconnecting \in [Sessions -> Reconnect \cup {None}]
  BY DEF DungeonInv, DungeonTypeOK
<1>3. UdpTypeOK' /\ TickTypeOK' /\ KnownDungeons' /\ TickPosition' /\ TickTimes'
      /\ TimesListed' /\ EndpointsHoldTokens' /\ HelloWasTold'
  BY <1>2, KeptUdpTypeOK, KeptTickTypeOK, KeptKnownDungeons, KeptTickPosition,
     KeptTickTimes, KeptTimesListed, KeptEndpointsHoldTokens, KeptHelloWasTold
<1>4. StrandTypeOK'
  BY <1>0, <1>1, <1>2, ServerFacts DEF StrandTypeOK, AtRest, Handler
<1>5. Positions'
  BY <1>0, <1>1, <1>2, ServerFacts, <1>t DEF Positions, InUse, Leaving, EnterSteps, StrandTypeOK
<1>6. EntersAlone'
  BY <1>0, <1>1, <1>2, ServerFacts DEF EntersAlone, EnterSteps, StrandTypeOK
<1>7. Rosters'
  BY <1>0, <1>1, <1>2, ServerFacts, <1>t DEF Rosters, Admitted, InUse, Leaving, EnterSteps, Positions,
      StrandTypeOK
<1>8. KnownSessions'
  BY <1>0, <1>1, <1>2, ServerFacts, <1>t DEF KnownSessions
<1>9. UdpFollows'
  BY <1>1, <1>2, StrandMovesOn DEF StrandTypeOK
<1>10. NewDungeonYoung'
  BY <1>0, <1>1, <1>2, ServerFacts, <1>t DEF NewDungeonYoung, Young, Positions, EntersAlone, StrandTypeOK
<1>11. Departed'
  BY <1>0, <1>1, <1>2, ServerFacts, <1>t DEF Departed
<1>12. OldSeats'
  <2>1. ASSUME NEW t \in Sessions, reconnecting'[t] # None, Live(reconnecting'[t].dungeon)
        PROVE  reconnecting'[t].old \notin players'[reconnecting'[t].dungeon]
    <3>1. CASE t = s
      BY <3>1, <1>0, <1>1, <1>t
    <3>2. CASE t # s
      <4>1. reconnecting'[t] = reconnecting[t]
        BY <3>2, <1>1, <1>t
      <4>2. reconnecting[t].old # s
        BY <4>1, <2>1, <1>0 DEF Departed
      <4>3. reconnecting[t].old \notin players[reconnecting[t].dungeon]
        BY <4>1, <2>1 DEF OldSeats
      <4> QED  BY <4>1, <4>2, <4>3, <2>1, ReconnectTypes, <1>1, <1>t
    <3> QED  BY <3>1, <3>2
  <2>2. ASSUME NEW t \in Sessions, t # s, reconnecting[t] # None, reconnecting[t].dungeon = d
        PROVE  reconnecting[t].old # old
    BY <2>2, <1>0 DEF OldSeats
  <2>3. \A t \in Sessions : reconnecting'[t] = IF t = s THEN r ELSE reconnecting[t]
    BY <1>1, <1>t
  <2>4. ASSUME NEW t \in Sessions, NEW u \in Sessions, reconnecting'[t] # None,
               reconnecting'[u] # None, Live(reconnecting'[t].dungeon),
               reconnecting'[t].dungeon = reconnecting'[u].dungeon,
               reconnecting'[t].old = reconnecting'[u].old
        PROVE  t = u
    <3>1. CASE t = s
      BY <3>1, <2>2, <2>3, <2>4, <1>1
    <3>2. CASE u = s
      BY <3>2, <2>2, <2>3, <2>4, <1>1
    <3>3. CASE t # s /\ u # s
      BY <3>3, <2>3, <2>4 DEF OldSeats
    <3> QED  BY <3>1, <3>2, <3>3
  <2>5. ASSUME NEW e \in DungeonIds, NEW x \in Sessions, <<e, x>> \in tickRemoved, Live(e)
        PROVE  /\ connection'[x] = "Closed" /\ x \notin players'[e]
               /\ \A t \in Sessions : reconnecting'[t] # None /\ reconnecting'[t].dungeon = e
                                       => reconnecting'[t].old # x
    <3>1. /\ connection[x] = "Closed" /\ x \notin players[e]
          /\ \A t \in Sessions : reconnecting[t] # None /\ reconnecting[t].dungeon = e
                                       => reconnecting[t].old # x
      BY <2>5 DEF OldSeats
    <3>2. connection'[x] = "Closed" /\ x \notin players'[e]
      BY <3>1, <1>0, <1>1, <1>t
    <3>3. e = d => old # x
      BY <3>1, <1>0
    <3> QED  BY <3>1, <3>2, <3>3, <2>3, <1>1
  <2> QED  BY <2>1, <2>4, <2>5, <1>2 DEF OldSeats, Live
<1>13. TokenFollowsSeat'
  BY <1>0, <1>1, <1>2, ServerFacts, <1>t DEF TokenFollowsSeat, InUse, EnterSteps, Live, Positions, StrandTypeOK
<1>14. ReconnectOneSeat'
  <2>1. \A x \in Sessions : reconnecting'[x] = IF x = s THEN r ELSE reconnecting[x]
    BY <1>1, <1>t
  <2>2. \A e \in DungeonIds, x \in Sessions : x # s /\ x \in players'[e] => x \in players[e]
    BY <1>1, <1>t
  <2>3. \A e \in DungeonIds : e # d => s \notin players'[e] /\ s \notin udpTokens[e]
    BY <1>0, <1>1, <1>t DEF KnownSessions
  <2>4. \A t \in Sessions : (at'[t] = "allocate" => at[t] = "allocate") /\ s \notin rosterOf[t]
    BY <1>0, <1>1 DEF Rosters, StrandTypeOK
  <2>5. ASSUME NEW x \in Sessions, reconnecting'[x] # None
        PROVE  /\ \A e \in DungeonIds : e # reconnecting'[x].dungeon =>
                     x \notin players'[e] /\ x \notin udpTokens[e]
               /\ \A t \in Sessions :
                     at'[t] = "allocate" /\ dungeonOf[t] # reconnecting'[x].dungeon
                         => x \notin rosterOf[t]
    <3>1. CASE x = s
      BY <2>1, <2>3, <2>4, <3>1, <1>1
    <3>2. CASE x # s
      BY <2>1, <2>2, <2>4, <2>5, <3>2 DEF ReconnectOneSeat
    <3> QED  BY <3>1, <3>2
  <2> QED  BY <2>5, <1>2 DEF ReconnectOneSeat
<1>15. VanishedSeats'
  BY <1>0, <1>1, <1>2, ServerFacts, <1>t DEF VanishedSeats, Vanished, Leaving, Live, Positions, StrandTypeOK
<1> QED  BY <1>3, <1>4, <1>5, <1>6, <1>7, <1>8, <1>9, <1>10, <1>11, <1>12, <1>13,
            <1>14, <1>15

\* The token follows the seat that the reconnect moved.
LEMMA RotateDonePreserves ==
    ASSUME ServerInv, DungeonInv, PartyInv, DungeonInv', NEW s \in Sessions,
           UdpReplaceParticipant(reconnecting[s].dungeon, reconnecting[s].old, s),
           ReconnectCompleted(s), Step(s, "rotate", "idle"),
           UNCHANGED <<partyVars, told, tickVars>>
    PROVE  ServerInv'
<1> USE DEF ServerInv
<1> PICK r \in Reconnect : r = reconnecting[s] /\ r # None
  BY DEF ReconnectCompleted, DungeonInv, DungeonTypeOK
<1>1. /\ at[s] = "rotate" /\ at' = [at EXCEPT ![s] = "idle"]
      /\ r.dungeon \in DungeonIds /\ r.old \in Sessions /\ r.player \in Players
      /\ r.dungeon \in udpAllocated /\ r.old \in udpTokens[r.dungeon]
      /\ udpTokens' = [udpTokens EXCEPT ![r.dungeon] = (udpTokens[r.dungeon] \ {r.old}) \cup {s}]
      /\ udpEndpoints' = [udpEndpoints EXCEPT ![r.dungeon] = udpEndpoints[r.dungeon] \ {r.old}]
      /\ reconnecting' = [reconnecting EXCEPT ![s] = None]
  BY DEF UdpReplaceParticipant, UdpCanReplace, ReconnectCompleted, Step, Goto, Reconnect
<1>2. UNCHANGED <<joinedParties, dungeonState, dungeonAge, players,
        participantPlayerIds, disconnectedSince, authenticatedPlayers, nextDungeonId,
        connection, udpAllocated, dungeonOf, rosterOf, told, tickAt, tickRemoved,
        tickTodo, tickDungeon, tickWaiting, waitingSince, finishedSince>>
  BY DEF UdpReplaceParticipant, UdpCanReplace, ReconnectCompleted, Step, Goto,
      Reconnect, partyVars, udpVars, tickVars, sessionVars, dungeonVars,
      instanceVars, identityVars
<1>t. /\ reconnecting \in [Sessions -> Reconnect \cup {None}]
  BY DEF DungeonInv, DungeonTypeOK
<1>3. TickTypeOK' /\ KnownDungeons' /\ TickPosition' /\ TickTimes' /\ TimesListed'
  BY <1>2, KeptTickTypeOK, KeptKnownDungeons, KeptTickPosition, KeptTickTimes,
     KeptTimesListed
<1>4. UdpTypeOK'
  BY <1>1, <1>2, ServerFacts DEF UdpTypeOK
<1>5. StrandTypeOK'
  BY <1>1, <1>2, ServerFacts DEF StrandTypeOK, AtRest, Handler
<1>6. Positions'
  BY <1>1, <1>2, ServerFacts, <1>t DEF Positions, InUse, Leaving, EnterSteps, StrandTypeOK
<1>7. EntersAlone'
  BY <1>1, <1>2, ServerFacts DEF EntersAlone, EnterSteps, StrandTypeOK
<1>8. Rosters'
  BY <1>1, <1>2, ServerFacts DEF Rosters, Admitted, InUse, Leaving, EnterSteps, Positions,
      StrandTypeOK
<1>9. KnownSessions'
  BY <1>1, <1>2, ServerFacts DEF KnownSessions, Positions, UdpTypeOK
<1>10. UdpFollows'
  BY <1>1, <1>2, StrandMovesOn DEF StrandTypeOK
<1>11. NewDungeonYoung'
  BY <1>1, <1>2, ServerFacts, <1>t DEF NewDungeonYoung, Young, StrandTypeOK
<1>12. Departed'
  BY <1>1, <1>2, ServerFacts, <1>t DEF Departed
<1>13. OldSeats'
  BY <1>1, <1>2, ServerFacts, <1>t DEF OldSeats, Live
<1>14. EndpointsHoldTokens'
  BY <1>1, <1>2, ServerFacts DEF EndpointsHoldTokens, UdpTypeOK
<1>15. TokenFollowsSeat'
  <2>1. /\ Live(r.dungeon) => s \in players[r.dungeon]
        /\ connection[r.old] = "Closed"
    BY ReconnectTypes DEF Departed
  <2>2. \A x \in Sessions : x # s /\ at'[x] \in InUse => at[x] \in InUse /\ x # r.old
    BY <1>1, <2>1 DEF Positions, StrandTypeOK
  <2>3. ASSUME NEW x \in Sessions, at'[x] \in InUse, NEW e \in DungeonIds, e \in udpAllocated, Live(e)
        PROVE  x \in udpTokens'[e] <=> x \in players[e]
    <3>1. CASE x = s /\ e = r.dungeon
      BY <3>1, <2>1, <2>3, <1>1 DEF UdpTypeOK
    <3>2. CASE x = s /\ e # r.dungeon
      BY <3>2, <2>3, <1>1 DEF UdpTypeOK, ReconnectOneSeat
    <3>3. CASE x # s
      BY <3>3, <2>2, <2>3, <1>1 DEF UdpTypeOK, TokenFollowsSeat
    <3> QED  BY <3>1, <3>2, <3>3
  <2>4. ASSUME NEW x \in Sessions, at'[x] \in InUse, NEW t \in Sessions, at'[t] = "allocate"
        PROVE  x \in rosterOf[t] <=> x \in players[dungeonOf[t]]
    <3>1. /\ t # s /\ at[t] = "allocate"
          /\ dungeonOf[t] \in DungeonIds /\ dungeonOf[t] # r.dungeon
      BY <2>4, <1>1 DEF StrandTypeOK, Positions, EnterSteps, NewDungeonYoung, Young
    <3>2. CASE x = s
      BY <3>1, <3>2 DEF ReconnectOneSeat
    <3>3. CASE x # s
      BY <3>1, <3>3, <2>2, <2>4 DEF TokenFollowsSeat
    <3> QED  BY <3>2, <3>3
  <2> QED  BY <2>3, <2>4, <1>2 DEF TokenFollowsSeat, Live
<1>16. ReconnectOneSeat'
  BY <1>1, <1>2, ServerFacts, <1>t DEF ReconnectOneSeat, Positions, StrandTypeOK, UdpTypeOK
<1>17. HelloWasTold'
  BY <1>1, <1>2, ServerFacts DEF HelloWasTold, UdpTypeOK
<1>18. VanishedSeats'
  BY <1>1, <1>2, ServerFacts DEF VanishedSeats, Vanished, Leaving, Live, OldSeats, StrandTypeOK,
      UdpTypeOK
<1> QED  BY <1>3, <1>4, <1>5, <1>6, <1>7, <1>8, <1>9, <1>10, <1>11, <1>12, <1>13,
            <1>14, <1>15, <1>16, <1>17, <1>18

\* There is no token to rotate: the reconnect will be undone.
LEMMA RotateFailsPreserves ==
    ASSUME ServerInv, DungeonInv, PartyInv, DungeonInv', NEW s \in Sessions,
           at[s] = "rotate", UNCHANGED <<udpVars, dungeonVars>>,
           Step(s, "rotate", "rollback"), UNCHANGED <<partyVars, told, tickVars>>
    PROVE  ServerInv'
<1> USE DEF ServerInv
<1>1. /\ at[s] = "rotate" /\ at' = [at EXCEPT ![s] = "rollback"]
  BY DEF Step, Goto
<1>2. UNCHANGED <<joinedParties, dungeonState, dungeonAge, players,
        participantPlayerIds, disconnectedSince, authenticatedPlayers, nextDungeonId,
        connection, reconnecting, udpAllocated, udpTokens, udpEndpoints, dungeonOf,
        rosterOf, told, tickAt, tickRemoved, tickTodo, tickDungeon, tickWaiting,
        waitingSince, finishedSince>>
  BY DEF Step, Goto, partyVars, udpVars, tickVars, sessionVars, dungeonVars,
      instanceVars, identityVars
<1>3. UdpTypeOK' /\ TickTypeOK' /\ KnownDungeons' /\ KnownSessions' /\ TickPosition'
      /\ TickTimes' /\ TimesListed' /\ Departed' /\ OldSeats'
      /\ EndpointsHoldTokens' /\ HelloWasTold'
  BY <1>2, KeptUdpTypeOK, KeptTickTypeOK, KeptKnownDungeons, KeptKnownSessions,
     KeptTickPosition, KeptTickTimes, KeptTimesListed, KeptDeparted,
     KeptOldSeats, KeptEndpointsHoldTokens, KeptHelloWasTold
<1>4. StrandTypeOK'
  BY <1>1, <1>2, ServerFacts DEF StrandTypeOK, AtRest, Handler
<1>5. Positions'
  BY <1>1, <1>2, ServerFacts DEF Positions, InUse, Leaving, EnterSteps, StrandTypeOK
<1>6. EntersAlone'
  BY <1>1, <1>2, ServerFacts DEF EntersAlone, EnterSteps, StrandTypeOK
<1>7. Rosters'
  BY <1>1, <1>2, ServerFacts DEF Rosters, Admitted, InUse, Leaving, EnterSteps, StrandTypeOK
<1>8. UdpFollows'
  BY <1>1, <1>2, StrandMovesOn DEF StrandTypeOK
<1>9. NewDungeonYoung'
  BY <1>1, <1>2, ServerFacts DEF NewDungeonYoung, Young, StrandTypeOK
<1>10. TokenFollowsSeat'
  BY <1>1, <1>2, ServerFacts DEF TokenFollowsSeat, InUse, EnterSteps, Live, StrandTypeOK
<1>11. ReconnectOneSeat'
  BY <1>1, <1>2, ServerFacts DEF ReconnectOneSeat, StrandTypeOK
<1>12. VanishedSeats'
  BY <1>1, <1>2, ServerFacts DEF VanishedSeats, Vanished, Leaving, Live, StrandTypeOK
<1> QED  BY <1>3, <1>4, <1>5, <1>6, <1>7, <1>8, <1>9, <1>10, <1>11, <1>12

\* The seat goes back to the session it was taken from, with its mark.
LEMMA RollbackDonePreserves ==
    ASSUME ServerInv, DungeonInv, PartyInv, DungeonInv', NEW s \in Sessions,
           RollbackPlayerReconnect(s), Step(s, "rollback", "close"),
           UNCHANGED <<partyVars, udpVars, told, tickVars>>
    PROVE  ServerInv'
<1> USE DEF ServerInv
<1> PICK r \in Reconnect : r = reconnecting[s] /\ r # None
  BY DEF RollbackPlayerReconnect, DungeonInv, DungeonTypeOK
<1>1. /\ at[s] = "rollback" /\ at' = [at EXCEPT ![s] = "close"]
      /\ r.dungeon \in DungeonIds /\ r.old \in Sessions /\ r.player \in Players
      /\ r.age \in 0..ReconnectGrace
      /\ Live(r.dungeon) /\ r.old # s
      /\ authenticatedPlayers' = [authenticatedPlayers EXCEPT ![s] = None]
      /\ players' = [players EXCEPT ![r.dungeon] = (players[r.dungeon] \ {s}) \cup {r.old}]
      /\ participantPlayerIds' = [participantPlayerIds EXCEPT ![r.dungeon] =
                                  [participantPlayerIds[r.dungeon] EXCEPT ![s] = None, ![r.old] = r.player]]
      /\ disconnectedSince' = [disconnectedSince EXCEPT ![r.dungeon] =
                               [disconnectedSince[r.dungeon] EXCEPT ![r.old] =
                                   TryEmplace(disconnectedSince[r.dungeon][r.old], r.age)]]
      /\ reconnecting' = [reconnecting EXCEPT ![s] = None]
  BY DEF RollbackPlayerReconnect, CanRollback, Step, Goto, Reconnect
<1>2. UNCHANGED <<joinedParties, dungeonState, dungeonAge, nextDungeonId, connection,
        udpAllocated, udpTokens, udpEndpoints, dungeonOf, rosterOf, told, tickAt,
        tickRemoved, tickTodo, tickDungeon, tickWaiting, waitingSince, finishedSince>>
  BY DEF RollbackPlayerReconnect, CanRollback, Step, Goto, Reconnect, partyVars,
      udpVars, tickVars, sessionVars, dungeonVars, instanceVars, identityVars
<1>t. /\ players \in [DungeonIds -> SUBSET Sessions]
      /\ participantPlayerIds \in [DungeonIds -> [Sessions -> Players \cup {None}]]
      /\ disconnectedSince \in [DungeonIds -> [Sessions -> (0..ReconnectGrace) \cup {None}]]
      /\ authenticatedPlayers \in [Sessions -> Players \cup {None}]
      /\ reconnecting \in [Sessions -> Reconnect \cup {None}]
  BY DEF DungeonInv, DungeonTypeOK
<1>3. UdpTypeOK' /\ TickTypeOK' /\ KnownDungeons' /\ TickPosition' /\ TickTimes'
      /\ TimesListed' /\ EndpointsHoldTokens' /\ HelloWasTold'
  BY <1>2, KeptUdpTypeOK, KeptTickTypeOK, KeptKnownDungeons, KeptTickPosition,
     KeptTickTimes, KeptTimesListed, KeptEndpointsHoldTokens, KeptHelloWasTold
<1>4. StrandTypeOK'
  BY <1>1, <1>2, ServerFacts DEF StrandTypeOK, AtRest, Handler
<1>5. Positions'
  BY <1>1, <1>2, ServerFacts, <1>t DEF Positions, InUse, Leaving, EnterSteps, StrandTypeOK
<1>6. EntersAlone'
  BY <1>1, <1>2, ServerFacts DEF EntersAlone, EnterSteps, StrandTypeOK
<1>7. Rosters'
  BY <1>1, <1>2, ServerFacts, <1>t DEF Rosters, Admitted, InUse, Leaving, EnterSteps, Positions,
      StrandTypeOK
<1>8. KnownSessions'
  BY <1>1, <1>2, ServerFacts, <1>t DEF KnownSessions, Departed
<1>9. UdpFollows'
  BY <1>1, <1>2, StrandMovesOn DEF StrandTypeOK
<1>10. NewDungeonYoung'
  BY <1>1, <1>2, ServerFacts, <1>t DEF NewDungeonYoung, Young, TryEmplace, StrandTypeOK
<1>11. Departed'
  BY <1>1, <1>2, ServerFacts, <1>t DEF Departed, TryEmplace
<1>12. OldSeats'
  BY <1>1, <1>2, ServerFacts, <1>t DEF OldSeats, Live
<1>13. TokenFollowsSeat'
  <2>1. connection[r.old] = "Closed"
    BY <1>1 DEF Departed
  <2>2. \A x \in Sessions : at'[x] \in InUse => at[x] \in InUse /\ x # s /\ x # r.old
    BY <1>1, <2>1 DEF StrandTypeOK, Positions, InUse, EnterSteps
  <2>3. \A x \in Sessions, e \in DungeonIds : x # s /\ x # r.old =>
          (x \in players'[e] <=> x \in players[e])
    BY <1>1, <1>t
  <2>4. \A t \in Sessions : at'[t] = "allocate" => at[t] = "allocate" /\ dungeonOf[t] \in DungeonIds
    BY <1>1 DEF StrandTypeOK, Positions, EnterSteps
  <2> QED  BY <2>2, <2>3, <2>4, <1>2 DEF TokenFollowsSeat, Live
<1>14. ReconnectOneSeat'
  <2>1. \A x \in Sessions : reconnecting'[x] # None => x # s /\ reconnecting'[x] = reconnecting[x]
    BY <1>1, <1>t
  <2>2. connection[r.old] = "Closed"
    BY <1>1 DEF Departed
  <2>3. \A x \in Sessions : reconnecting[x] # None => x # r.old
    BY <2>2 DEF Positions
  <2>4. \A e \in DungeonIds, x \in Sessions : x # r.old /\ x \in players'[e] => x \in players[e]
    BY <1>1, <1>t
  <2>5. \A t \in Sessions : at'[t] = "allocate" => at[t] = "allocate"
    BY <1>1 DEF StrandTypeOK
  <2> QED  BY <2>1, <2>3, <2>4, <2>5, <1>2 DEF ReconnectOneSeat
<1>15. VanishedSeats'
  BY <1>1, <1>2, ServerFacts, <1>t DEF VanishedSeats, Vanished, Leaving, Live, TryEmplace, Positions,
      Departed, StrandTypeOK
<1> QED  BY <1>3, <1>4, <1>5, <1>6, <1>7, <1>8, <1>9, <1>10, <1>11, <1>12, <1>13,
            <1>14, <1>15

\* The rollback is refused: the session is disconnected instead.
LEMMA RollbackFailsPreserves ==
    ASSUME ServerInv, DungeonInv, PartyInv, DungeonInv', NEW s \in Sessions,
           RollbackRefused(s), Step(s, "rollback", "drop"),
           UNCHANGED <<partyVars, udpVars, told, tickVars>>
    PROVE  ServerInv'
<1> USE DEF ServerInv
<1>1. /\ at[s] = "rollback" /\ at' = [at EXCEPT ![s] = "drop"]
      /\ reconnecting' = [reconnecting EXCEPT ![s] = None]
  BY DEF RollbackRefused, Step, Goto
<1>2. UNCHANGED <<joinedParties, dungeonState, dungeonAge, players,
        participantPlayerIds, disconnectedSince, authenticatedPlayers, nextDungeonId,
        connection, udpAllocated, udpTokens, udpEndpoints, dungeonOf, rosterOf, told,
        tickAt, tickRemoved, tickTodo, tickDungeon, tickWaiting, waitingSince,
        finishedSince>>
  BY DEF RollbackRefused, Step, Goto, partyVars, udpVars, tickVars, sessionVars,
      dungeonVars, instanceVars, identityVars
<1>t. /\ reconnecting \in [Sessions -> Reconnect \cup {None}]
  BY DEF DungeonInv, DungeonTypeOK
<1>3. UdpTypeOK' /\ TickTypeOK' /\ KnownDungeons' /\ KnownSessions' /\ TickPosition'
      /\ TickTimes' /\ TimesListed' /\ EndpointsHoldTokens' /\ HelloWasTold'
  BY <1>2, KeptUdpTypeOK, KeptTickTypeOK, KeptKnownDungeons, KeptKnownSessions,
     KeptTickPosition, KeptTickTimes, KeptTimesListed, KeptEndpointsHoldTokens,
     KeptHelloWasTold
<1>4. StrandTypeOK'
  BY <1>1, <1>2, ServerFacts DEF StrandTypeOK, AtRest, Handler
<1>5. Positions'
  BY <1>1, <1>2, ServerFacts, <1>t DEF Positions, InUse, Leaving, EnterSteps, StrandTypeOK
<1>6. EntersAlone'
  BY <1>1, <1>2, ServerFacts DEF EntersAlone, EnterSteps, StrandTypeOK
<1>7. Rosters'
  BY <1>1, <1>2, ServerFacts DEF Rosters, Admitted, InUse, Leaving, EnterSteps, StrandTypeOK
<1>8. UdpFollows'
  BY <1>1, <1>2, StrandMovesOn DEF StrandTypeOK
<1>9. NewDungeonYoung'
  BY <1>1, <1>2, ServerFacts, <1>t DEF NewDungeonYoung, Young, StrandTypeOK
<1>10. Departed'
  BY <1>1, <1>2, ServerFacts, <1>t DEF Departed
<1>11. OldSeats'
  BY <1>1, <1>2, ServerFacts, <1>t DEF OldSeats, Live
<1>12. TokenFollowsSeat'
  BY <1>1, <1>2, ServerFacts DEF TokenFollowsSeat, InUse, EnterSteps, Live, StrandTypeOK
<1>13. ReconnectOneSeat'
  BY <1>1, <1>2, ServerFacts, <1>t DEF ReconnectOneSeat, StrandTypeOK
<1>14. VanishedSeats'
  BY <1>1, <1>2, ServerFacts DEF VanishedSeats, Vanished, Leaving, Live, StrandTypeOK
<1> QED  BY <1>3, <1>4, <1>5, <1>6, <1>7, <1>8, <1>9, <1>10, <1>11, <1>12, <1>13, <1>14

\* The session whose rollback failed is disconnected from the seat it holds.
LEMMA DropSeatedPreserves ==
    ASSUME ServerInv, DungeonInv, PartyInv, DungeonInv', NEW s \in Sessions,
           NEW d \in DungeonIds, DisconnectSeated(s, d), Step(s, "drop", "close"),
           UNCHANGED <<partyVars, udpVars, told, tickVars>>
    PROVE  ServerInv'
<1> USE DEF ServerInv
<1>1. /\ at[s] = "drop" /\ at' = [at EXCEPT ![s] = "close"]
      /\ connection' = [connection EXCEPT ![s] = "Closed"]
      /\ authenticatedPlayers' = [authenticatedPlayers EXCEPT ![s] = None]
      /\ disconnectedSince' = [disconnectedSince EXCEPT ![d] = [disconnectedSince[d] EXCEPT ![s] =
                                 TryEmplace(disconnectedSince[d][s], 0)]]
  BY DEF DisconnectSeated, ForgetIdentity, Step, Goto
<1>2. UNCHANGED <<joinedParties, dungeonState, dungeonAge, players,
        participantPlayerIds, nextDungeonId, reconnecting, udpAllocated, udpTokens,
        udpEndpoints, dungeonOf, rosterOf, told, tickAt, tickRemoved, tickTodo,
        tickDungeon, tickWaiting, waitingSince, finishedSince>>
  BY DEF DisconnectSeated, ForgetIdentity, Step, Goto, partyVars, udpVars, tickVars,
      sessionVars, dungeonVars, instanceVars, identityVars
<1>t. /\ disconnectedSince \in [DungeonIds -> [Sessions -> (0..ReconnectGrace) \cup {None}]]
      /\ authenticatedPlayers \in [Sessions -> Players \cup {None}]
      /\ connection \in [Sessions -> {"New", "Open", "Closed"}]
  BY DEF DungeonInv, DungeonTypeOK
<1>3. UdpTypeOK' /\ TickTypeOK' /\ KnownDungeons' /\ TickPosition' /\ TickTimes'
      /\ TimesListed' /\ EndpointsHoldTokens' /\ HelloWasTold'
  BY <1>2, KeptUdpTypeOK, KeptTickTypeOK, KeptKnownDungeons, KeptTickPosition,
     KeptTickTimes, KeptTimesListed, KeptEndpointsHoldTokens, KeptHelloWasTold
<1>4. StrandTypeOK'
  BY <1>1, <1>2, ServerFacts DEF StrandTypeOK, AtRest, Handler
<1>5. Positions'
  BY <1>1, <1>2, ServerFacts, <1>t DEF Positions, InUse, Leaving, EnterSteps, StrandTypeOK
<1>6. EntersAlone'
  BY <1>1, <1>2, ServerFacts DEF EntersAlone, EnterSteps, StrandTypeOK
<1>7. Rosters'
  BY <1>1, <1>2, ServerFacts, <1>t DEF Rosters, Admitted, InUse, Leaving, EnterSteps, StrandTypeOK
<1>8. KnownSessions'
  BY <1>1, <1>2, ServerFacts, <1>t DEF KnownSessions
<1>9. UdpFollows'
  BY <1>1, <1>2, StrandMovesOn DEF StrandTypeOK
<1>10. NewDungeonYoung'
  BY <1>1, <1>2, ServerFacts, <1>t DEF NewDungeonYoung, Young, TryEmplace, StrandTypeOK
<1>11. Departed'
  BY <1>1, <1>2, ServerFacts, <1>t DEF Departed, TryEmplace
<1>12. OldSeats'
  BY <1>1, <1>2, <1>t, ClosingKeepsOldSeats
<1>13. TokenFollowsSeat'
  BY <1>1, <1>2, ServerFacts DEF TokenFollowsSeat, InUse, EnterSteps, Live, StrandTypeOK
<1>14. ReconnectOneSeat'
  BY <1>1, <1>2, ServerFacts DEF ReconnectOneSeat, StrandTypeOK
<1>15. VanishedSeats'
  <2>1. at[s] \notin Leaving /\ \A t \in Sessions : t # s => at'[t] = at[t]
    BY <1>1 DEF StrandTypeOK, Leaving
  <2>2. \A e \in DungeonIds, t \in Sessions :
            t # s => disconnectedSince'[e][t] = disconnectedSince[e][t]
    BY <1>1, <1>t
  <2>3. ASSUME NEW e \in DungeonIds, NEW x \in Sessions, Vanished(e, x)'
        PROVE  Vanished(e, x) /\ x # s
    <3>1. Vanished(e, x)
      BY <2>3, <1>2 DEF Vanished, Live
    <3> QED  BY <2>1, <3>1 DEF VanishedSeats
  <2>4. \A t \in Sessions : at'[t] = "allocate" => at[t] = "allocate" /\ dungeonOf'[t] = dungeonOf[t]
    BY <1>1, <1>2 DEF StrandTypeOK
  <2> QED  BY <2>1, <2>2, <2>3, <2>4, <1>2 DEF VanishedSeats
<1> QED  BY <1>3, <1>4, <1>5, <1>6, <1>7, <1>8, <1>9, <1>10, <1>11, <1>12, <1>13,
            <1>14, <1>15

\* It may have lost the seat in the meantime.
LEMMA DropUnseatedPreserves ==
    ASSUME ServerInv, DungeonInv, PartyInv, DungeonInv', NEW s \in Sessions,
           DisconnectUnseated(s), Step(s, "drop", "close"),
           UNCHANGED <<partyVars, udpVars, told, tickVars>>
    PROVE  ServerInv'
<1> USE DEF ServerInv
<1>1. /\ at[s] = "drop" /\ at' = [at EXCEPT ![s] = "close"]
      /\ connection' = [connection EXCEPT ![s] = "Closed"]
      /\ authenticatedPlayers' = [authenticatedPlayers EXCEPT ![s] = None]
  BY DEF DisconnectUnseated, ForgetIdentity, Step, Goto
<1>2. UNCHANGED <<joinedParties, dungeonState, dungeonAge, players,
        participantPlayerIds, disconnectedSince, nextDungeonId, reconnecting,
        udpAllocated, udpTokens, udpEndpoints, dungeonOf, rosterOf, told, tickAt,
        tickRemoved, tickTodo, tickDungeon, tickWaiting, waitingSince, finishedSince>>
  BY DEF DisconnectUnseated, ForgetIdentity, Step, Goto, partyVars, udpVars, tickVars,
      sessionVars, dungeonVars, instanceVars, identityVars
<1>t. /\ authenticatedPlayers \in [Sessions -> Players \cup {None}]
      /\ connection \in [Sessions -> {"New", "Open", "Closed"}]
  BY DEF DungeonInv, DungeonTypeOK
<1>3. UdpTypeOK' /\ TickTypeOK' /\ KnownDungeons' /\ TickPosition' /\ TickTimes'
      /\ TimesListed' /\ EndpointsHoldTokens' /\ HelloWasTold'
  BY <1>2, KeptUdpTypeOK, KeptTickTypeOK, KeptKnownDungeons, KeptTickPosition,
     KeptTickTimes, KeptTimesListed, KeptEndpointsHoldTokens, KeptHelloWasTold
<1>4. StrandTypeOK'
  BY <1>1, <1>2, ServerFacts DEF StrandTypeOK, AtRest, Handler
<1>5. Positions'
  BY <1>1, <1>2, ServerFacts, <1>t DEF Positions, InUse, Leaving, EnterSteps, StrandTypeOK
<1>6. EntersAlone'
  BY <1>1, <1>2, ServerFacts DEF EntersAlone, EnterSteps, StrandTypeOK
<1>7. Rosters'
  BY <1>1, <1>2, ServerFacts, <1>t DEF Rosters, Admitted, InUse, Leaving, EnterSteps, StrandTypeOK
<1>8. KnownSessions'
  BY <1>1, <1>2, ServerFacts, <1>t DEF KnownSessions
<1>9. UdpFollows'
  BY <1>1, <1>2, StrandMovesOn DEF StrandTypeOK
<1>10. NewDungeonYoung'
  BY <1>1, <1>2, ServerFacts DEF NewDungeonYoung, Young, StrandTypeOK
<1>11. Departed'
  BY <1>1, <1>2, ServerFacts, <1>t DEF Departed
<1>12. OldSeats'
  BY <1>1, <1>2, ServerFacts, <1>t DEF OldSeats, Live
<1>13. TokenFollowsSeat'
  BY <1>1, <1>2, ServerFacts DEF TokenFollowsSeat, InUse, EnterSteps, Live, StrandTypeOK
<1>14. ReconnectOneSeat'
  BY <1>1, <1>2, ServerFacts DEF ReconnectOneSeat, StrandTypeOK
<1>15. VanishedSeats'
  BY <1>1, <1>2, ServerFacts DEF VanishedSeats, Vanished, Leaving, Live, StrandTypeOK
<1> QED  BY <1>3, <1>4, <1>5, <1>6, <1>7, <1>8, <1>9, <1>10, <1>11, <1>12, <1>13,
            <1>14, <1>15

\* A party request touches the parties only; who joins has logged in.
LEMMA PartyRequestPreserves ==
    ASSUME ServerInv, DungeonInv, PartyInv, DungeonInv', NEW s \in Sessions,
           PartyRequest(s)
    PROVE  ServerInv'
<1> USE DEF ServerInv
<1>1. /\ at[s] = "idle"
      /\ \A t \in Sessions : t # s => joinedParties'[t] = joinedParties[t]
  BY DEF PartyRequest, CreateParty, JoinParty, LeaveParty, PartyInv, PartyTypeOK,
      partyVars
<1>2. UNCHANGED <<dungeonState, dungeonAge, players, participantPlayerIds,
        disconnectedSince, authenticatedPlayers, nextDungeonId, connection,
        reconnecting, udpAllocated, udpTokens, udpEndpoints, at, dungeonOf, rosterOf,
        told, tickAt, tickRemoved, tickTodo, tickDungeon, tickWaiting, waitingSince,
        finishedSince>>
  BY DEF PartyRequest, CreateParty, JoinParty, LeaveParty, PartyInv, PartyTypeOK,
      partyVars, partyVars, udpVars, tickVars, sessionVars, dungeonVars,
      instanceVars, identityVars
<1>3. UdpTypeOK' /\ StrandTypeOK' /\ TickTypeOK' /\ Positions' /\ EntersAlone'
      /\ KnownDungeons' /\ KnownSessions' /\ TickPosition' /\ TickTimes'
      /\ TimesListed' /\ UdpFollows' /\ NewDungeonYoung' /\ Departed' /\ OldSeats'
      /\ EndpointsHoldTokens' /\ TokenFollowsSeat' /\ ReconnectOneSeat'
      /\ HelloWasTold' /\ VanishedSeats'
  BY <1>2, KeptUdpTypeOK, KeptStrandTypeOK, KeptTickTypeOK, KeptPositions,
     KeptEntersAlone, KeptKnownDungeons, KeptKnownSessions, KeptTickPosition,
     KeptTickTimes, KeptTimesListed, KeptUdpFollows, KeptNewDungeonYoung,
     KeptDeparted, KeptOldSeats, KeptEndpointsHoldTokens, KeptTokenFollowsSeat,
     KeptReconnectOneSeat, KeptHelloWasTold, KeptVanishedSeats
<1>4. Rosters'
  BY <1>1, <1>2, ServerFacts DEF Rosters, Admitted, InUse, Leaving, EnterSteps, Positions, PartyInv,
      PartyTypeOK
<1> QED  BY <1>3, <1>4

\* The leader reads the members of its party.
LEMMA EnterReadPreserves ==
    ASSUME ServerInv, DungeonInv, PartyInv, DungeonInv', NEW s \in Sessions,
           EnterRead(s)
    PROVE  ServerInv'
<1> USE DEF ServerInv
<1>1. /\ at[s] = "idle" /\ at' = [at EXCEPT ![s] = "create"]
      /\ joinedParties[s] \in PartyIds
      /\ rosterOf' = [rosterOf EXCEPT ![s] = {t \in Sessions : joinedParties[t] = joinedParties[s]}]
  BY DEF EnterRead, Goto, PartyInv, PartyTypeOK, MembershipConsistent
<1>2. UNCHANGED <<joinedParties, dungeonState, dungeonAge, players,
        participantPlayerIds, disconnectedSince, authenticatedPlayers, nextDungeonId,
        connection, reconnecting, udpAllocated, udpTokens, udpEndpoints, dungeonOf,
        told, tickAt, tickRemoved, tickTodo, tickDungeon, tickWaiting, waitingSince,
        finishedSince>>
  BY DEF EnterRead, Goto, PartyInv, PartyTypeOK, MembershipConsistent, partyVars,
      udpVars, tickVars, sessionVars, dungeonVars, instanceVars, identityVars
<1>3. UdpTypeOK' /\ TickTypeOK' /\ KnownDungeons' /\ KnownSessions' /\ TickPosition'
      /\ TickTimes' /\ TimesListed' /\ Departed' /\ OldSeats'
      /\ EndpointsHoldTokens' /\ HelloWasTold'
  BY <1>2, KeptUdpTypeOK, KeptTickTypeOK, KeptKnownDungeons, KeptKnownSessions,
     KeptTickPosition, KeptTickTimes, KeptTimesListed, KeptDeparted,
     KeptOldSeats, KeptEndpointsHoldTokens, KeptHelloWasTold
<1>4. StrandTypeOK'
  BY <1>1, <1>2, ServerFacts DEF StrandTypeOK, AtRest, Handler
<1>5. Positions'
  BY <1>1, <1>2, ServerFacts DEF Positions, InUse, Leaving, EnterSteps, StrandTypeOK
<1>6. EntersAlone'
  BY <1>1, <1>2, ServerFacts DEF EntersAlone, EnterSteps, StrandTypeOK
<1>7. Rosters'
  BY <1>1, <1>2, ServerFacts DEF Rosters, Admitted, InUse, Leaving, EnterSteps, Positions,
      StrandTypeOK
<1>8. UdpFollows'
  BY <1>1, <1>2, StrandMovesOn DEF StrandTypeOK
<1>9. NewDungeonYoung'
  BY <1>1, <1>2, ServerFacts DEF NewDungeonYoung, Young, StrandTypeOK
<1>10. TokenFollowsSeat'
  BY <1>1, <1>2, ServerFacts DEF TokenFollowsSeat, InUse, EnterSteps, Live, StrandTypeOK
<1>11. ReconnectOneSeat'
  BY <1>1, <1>2, ServerFacts DEF ReconnectOneSeat, StrandTypeOK
<1>12. VanishedSeats'
  BY <1>1, <1>2, ServerFacts DEF VanishedSeats, Vanished, Leaving, Live, StrandTypeOK
<1> QED  BY <1>3, <1>4, <1>5, <1>6, <1>7, <1>8, <1>9, <1>10, <1>11, <1>12

\* CreateDungeon: the id is fresh, so nothing anywhere is about it yet.
LEMMA CreateDonePreserves ==
    ASSUME ServerInv, DungeonInv, PartyInv, DungeonInv', NEW s \in Sessions,
           CreateDungeon(joinedParties[s], rosterOf[s]), at[s] = "create",
           Goto(s, "roster"), dungeonOf' = [dungeonOf EXCEPT ![s] = nextDungeonId],
           rosterOf' = [rosterOf EXCEPT ![s] = {}],
           UNCHANGED <<partyVars, udpVars, told, tickVars>>
    PROVE  ServerInv'
<1> USE DEF ServerInv
<1> PICK n \in DungeonIds : n = nextDungeonId
  BY ServerFacts DEF CreateDungeon, DungeonInv, DungeonTypeOK
<1>a. n \in Nat /\ \A e \in DungeonIds : e \in Nat
  BY ServerFacts
<1>0. /\ n \notin udpAllocated /\ n \notin tickTodo /\ tickDungeon # n
      /\ waitingSince[n] = None
      /\ \A x \in Sessions : <<n, x>> \notin told /\ <<n, x>> \notin tickRemoved
      /\ \A t \in Sessions : dungeonOf[t] # n
  BY <1>a, ServerFacts DEF KnownDungeons, Positions
<1>1. /\ at[s] = "create" /\ at' = [at EXCEPT ![s] = "roster"]
      /\ n = nextDungeonId /\ nextDungeonId' = n + 1 /\ ~Live(n) /\ players[n] = {}
      /\ dungeonOf' = [dungeonOf EXCEPT ![s] = n]
      /\ rosterOf' = [rosterOf EXCEPT ![s] = {}]
      /\ dungeonState' = [dungeonState EXCEPT ![n] = "Waiting"]
      /\ dungeonAge' = [dungeonAge EXCEPT ![n] = 0]
      /\ players' = [players EXCEPT ![n] = rosterOf[s]]
      /\ participantPlayerIds' = [participantPlayerIds EXCEPT ![n] =
               [t \in Sessions |-> IF t \in rosterOf[s] THEN authenticatedPlayers[t] ELSE None]]
      /\ disconnectedSince' = [disconnectedSince EXCEPT ![n] = [t \in Sessions |-> None]]
  BY ServerFacts DEF CreateDungeon, Goto, NoPlayers, DungeonInv, FutureDungeonsAbsent,
      SeatsConsistent, DungeonTypeOK
<1>2. UNCHANGED <<joinedParties, authenticatedPlayers, connection, reconnecting,
        udpAllocated, udpTokens, udpEndpoints, told, tickAt, tickRemoved, tickTodo,
        tickDungeon, tickWaiting, waitingSince, finishedSince>>
  BY DEF CreateDungeon, Goto, NoPlayers, DungeonInv, FutureDungeonsAbsent,
      SeatsConsistent, DungeonTypeOK, partyVars, udpVars, tickVars,
      sessionVars, dungeonVars, instanceVars, identityVars
<1>t. /\ dungeonState \in [DungeonIds -> States]
      /\ dungeonAge \in [DungeonIds -> 0..MaxDungeonLifetime]
      /\ players \in [DungeonIds -> SUBSET Sessions]
      /\ participantPlayerIds \in [DungeonIds -> [Sessions -> Players \cup {None}]]
      /\ disconnectedSince \in [DungeonIds -> [Sessions -> (0..ReconnectGrace) \cup {None}]]
      /\ nextDungeonId \in 1..(MaxDungeons + 1)
  BY DEF DungeonInv, DungeonTypeOK
<1>3. UdpTypeOK' /\ TickTypeOK' /\ TimesListed' /\ EndpointsHoldTokens'
      /\ HelloWasTold'
  BY <1>2, KeptUdpTypeOK, KeptTickTypeOK, KeptTimesListed, KeptEndpointsHoldTokens,
     KeptHelloWasTold
<1>4. StrandTypeOK'
  BY <1>0, <1>1, <1>2, ServerFacts DEF StrandTypeOK, AtRest, Handler
<1>5. Positions'
  BY <1>0, <1>1, <1>2, ServerFacts, <1>t DEF Positions, InUse, Leaving, EnterSteps, StrandTypeOK
<1>6. EntersAlone'
  BY <1>0, <1>1, <1>2, ServerFacts DEF EntersAlone, EnterSteps, Positions, StrandTypeOK
<1>7. Rosters'
  BY <1>0, <1>1, <1>2, ServerFacts DEF Rosters, Admitted, InUse, Leaving, EnterSteps, StrandTypeOK
<1>8. KnownDungeons'
  <2>1. tickDungeon \in DungeonIds \cup {None}
    BY DEF TickTypeOK
  <2>2. \A e \in DungeonIds : e < nextDungeonId => e < nextDungeonId'
    BY <1>1, <1>a
  <2> QED  BY <2>1, <2>2, <1>2 DEF KnownDungeons
<1>9. KnownSessions'
  BY <1>0, <1>1, <1>2, ServerFacts, <1>t DEF KnownSessions, Rosters
<1>10. TickPosition'
  BY <1>0, <1>1, <1>2, ServerFacts, <1>t DEF TickPosition, InWaitingLoop, Live, KnownDungeons
<1>11. TickTimes'
  <2>1. dungeonState[n] = "Absent" /\ finishedSince[n] = None
    BY <1>0, <1>1 DEF Live, TickTimes
  <2> QED  BY <2>1, <1>0, <1>1, <1>2, <1>t DEF TickTimes
<1>12. UdpFollows'
  <2>1. \A t \in Sessions : t # s => at'[t] = at[t] /\ dungeonOf'[t] = dungeonOf[t]
    BY <1>1 DEF StrandTypeOK
  <2>2. \A e \in DungeonIds : Releasing(e) => Releasing(e)'
    BY <2>1, <1>1, <1>2 DEF Releasing
  <2>3. \A e \in DungeonIds : e # n => dungeonState'[e] = dungeonState[e]
    BY <1>1, <1>t
  <2>4. at'[s] = "roster" /\ dungeonOf'[s] = n /\ dungeonState'[n] = "Waiting"
    BY <1>1, <1>t DEF StrandTypeOK
  <2>5. ASSUME NEW e \in DungeonIds, Live(e)', e \notin udpAllocated
        PROVE  \E t \in Sessions : at'[t] \in {"roster", "allocate", "cancel"} /\ dungeonOf'[t] = e
    <3>1. CASE e = n
      BY <3>1, <2>4
    <3>2. CASE e # n
      <4> PICK t \in Sessions : at[t] \in {"roster", "allocate", "cancel"} /\ dungeonOf[t] = e
        BY <3>2, <2>3, <2>5 DEF UdpFollows, Live
      <4> QED  BY <2>1, <1>1
    <3> QED  BY <3>1, <3>2
  <2>6. ASSUME NEW e \in DungeonIds
        PROVE  /\ e \in udpAllocated /\ ~Live(e)' => Releasing(e)'
               /\ dungeonState'[e] \in {"Running", "Finished"} => e \in udpAllocated
    <3>1. CASE e = n
      BY <3>1, <2>4, <1>0
    <3>2. CASE e # n
      BY <3>2, <2>2, <2>3 DEF UdpFollows, Live
    <3> QED  BY <3>1, <3>2
  <2>7. ASSUME NEW t \in Sessions, at'[t] = "release"
        PROVE  ~Live(dungeonOf[t])'
    <3>1. t # s /\ at[t] = "release" /\ dungeonOf[t] \in DungeonIds /\ dungeonOf[t] # n
      BY <2>1, <2>4, <2>7, <1>0 DEF Positions, EnterSteps, StrandTypeOK
    <3> QED  BY <3>1, <2>1, <2>3 DEF UdpFollows, Live
  <2> QED  BY <2>5, <2>6, <2>7, <1>2 DEF UdpFollows
<1>13. NewDungeonYoung'
  BY <1>0, <1>1, <1>2, ServerFacts, <1>t DEF NewDungeonYoung, Young, KnownDungeons, DungeonInv,
      ReconnectFromTheDead, Positions, StrandTypeOK
<1>14. Departed'
  <2>1. \A e \in DungeonIds, x \in Sessions : disconnectedSince'[e][x] # None => disconnectedSince[e][x] # None
    BY <1>1, <1>t
  <2> QED  BY <2>1, <1>2 DEF Departed
<1>15. OldSeats'
  <2>1. \A e \in DungeonIds : e # n => players'[e] = players[e] /\ dungeonState'[e] = dungeonState[e]
    BY <1>1, <1>t
  <2>2. \A t \in Sessions : reconnecting[t] # None =>
            reconnecting[t].dungeon # n /\ reconnecting[t].dungeon \in DungeonIds
    <3>1. \A t \in Sessions : reconnecting[t] # None => reconnecting[t].dungeon < n
      BY <1>1 DEF DungeonInv, ReconnectFromTheDead
    <3> QED  BY <1>a, <3>1, ReconnectTypes
  <2>3. ASSUME NEW t \in Sessions, reconnecting[t] # None, Live(reconnecting[t].dungeon)'
        PROVE  /\ Live(reconnecting[t].dungeon)
               /\ reconnecting[t].old \notin players'[reconnecting[t].dungeon]
    <3>1. Live(reconnecting[t].dungeon)
      BY <2>1, <2>2, <2>3, <1>2 DEF Live
    <3> QED  BY <2>1, <2>2, <2>3, <3>1 DEF OldSeats
  <2>4. ASSUME NEW e \in DungeonIds, NEW x \in Sessions, <<e, x>> \in tickRemoved
        PROVE  e # n /\ players'[e] = players[e] /\ (Live(e)' => Live(e))
    BY <2>1, <2>4, <1>0 DEF Live
  <2>5. \A t, u \in Sessions :
            reconnecting[t] # None /\ reconnecting[u] # None /\ Live(reconnecting[t].dungeon)'
            /\ reconnecting[t].dungeon = reconnecting[u].dungeon
            /\ reconnecting[t].old = reconnecting[u].old => t = u
    BY <2>3 DEF OldSeats
  <2>6. \A e \in DungeonIds, x \in Sessions : <<e, x>> \in tickRemoved /\ Live(e)' =>
            /\ connection[x] = "Closed" /\ x \notin players'[e]
            /\ \A t \in Sessions : reconnecting[t] # None /\ reconnecting[t].dungeon = e
                                    => reconnecting[t].old # x
    BY <2>4 DEF OldSeats
  <2> QED  BY <2>3, <2>5, <2>6, <1>2 DEF OldSeats, Live
<1>16. TokenFollowsSeat'
  <2>1. at'[s] = "roster" /\ \A t \in Sessions : t # s => at'[t] = at[t]
    BY <1>1 DEF StrandTypeOK
  <2>2. \A e \in DungeonIds : e # n => players'[e] = players[e] /\ dungeonState'[e] = dungeonState[e]
    BY <1>1, <1>t
  <2>3. \A t \in Sessions : t # s => dungeonOf'[t] = dungeonOf[t] /\ rosterOf'[t] = rosterOf[t]
    BY <1>1 DEF StrandTypeOK
  <2>4. ASSUME NEW x \in Sessions, at'[x] \in InUse, NEW e \in DungeonIds, e \in udpAllocated, Live(e)'
        PROVE  x \in udpTokens[e] <=> x \in players'[e]
    <3>1. at[x] \in InUse /\ e # n
      BY <2>1, <2>4, <1>0, <1>1 DEF InUse
    <3>2. Live(e) /\ players'[e] = players[e]
      BY <2>2, <2>4, <3>1 DEF Live
    <3> QED  BY <2>4, <3>1, <3>2 DEF TokenFollowsSeat
  <2>5. ASSUME NEW x \in Sessions, at'[x] \in InUse, NEW t \in Sessions, at'[t] = "allocate"
        PROVE  x \in rosterOf'[t] <=> x \in players'[dungeonOf'[t]]
    <3>1. at[x] \in InUse
      BY <2>1, <2>5, <1>1 DEF InUse
    <3>2. t # s /\ at[t] = "allocate"
      BY <2>1, <2>5
    <3>3. dungeonOf[t] \in DungeonIds /\ dungeonOf[t] # n
      BY <1>0, <3>2 DEF Positions, EnterSteps, StrandTypeOK
    <3>4. x \in rosterOf[t] <=> x \in players[dungeonOf[t]]
      BY <3>1, <3>2 DEF TokenFollowsSeat
    <3> QED  BY <2>2, <2>3, <3>2, <3>3, <3>4
  <2> QED  BY <2>4, <2>5, <1>2 DEF TokenFollowsSeat
<1>17. ReconnectOneSeat'
  <2>1. \A t \in Sessions : t # s => at'[t] = at[t] /\ dungeonOf'[t] = dungeonOf[t] /\ rosterOf'[t] = rosterOf[t]
    BY <1>1 DEF StrandTypeOK
  <2>2. at'[s] = "roster"
    BY <1>1 DEF StrandTypeOK
  <2>3. ASSUME NEW x \in Sessions, reconnecting[x] # None
        PROVE  x \notin rosterOf[s]
    BY <2>3, <1>1 DEF Rosters, Admitted, InUse, Leaving, EnterSteps, Positions
  <2>4. ASSUME NEW x \in Sessions, reconnecting[x] # None, NEW e \in DungeonIds, e # reconnecting[x].dungeon
        PROVE  x \notin players'[e] /\ x \notin udpTokens[e]
    BY <2>3, <2>4, <1>1, <1>t DEF ReconnectOneSeat
  <2>5. ASSUME NEW x \in Sessions, reconnecting[x] # None, NEW t \in Sessions, at'[t] = "allocate",
               dungeonOf'[t] # reconnecting[x].dungeon
        PROVE  x \notin rosterOf'[t]
    BY <2>1, <2>2, <2>5 DEF ReconnectOneSeat
  <2> QED  BY <2>4, <2>5, <1>2 DEF ReconnectOneSeat
<1>18. VanishedSeats'
  <2>1. \A t \in Sessions : t # s => at'[t] = at[t] /\ dungeonOf'[t] = dungeonOf[t] /\ rosterOf'[t] = rosterOf[t]
    BY <1>1 DEF StrandTypeOK
  <2>2. at'[s] = "roster"
    BY <1>1 DEF StrandTypeOK
  <2>3. ASSUME NEW x \in Sessions, Vanished(n, x)'
        PROVE  /\ at'[x] \in Leaving /\ disconnectedSince'[n][x] = None /\ dungeonState'[n] = "Waiting"
               /\ \A t \in Sessions : at'[t] = "allocate" => dungeonOf'[t] # n
    <3>1. x \in rosterOf[s] /\ authenticatedPlayers[x] = None
      BY <2>3, <1>1, <1>t DEF Vanished
    <3>2. at[x] \in Leaving
      BY <3>1, <1>1 DEF Rosters, Admitted
    <3>3. x # s
      BY <3>2, <1>1 DEF Leaving
    <3>4. disconnectedSince'[n][x] = None /\ dungeonState'[n] = "Waiting"
      BY <1>1, <1>t
    <3>5. \A t \in Sessions : at'[t] = "allocate" => dungeonOf'[t] # n
      BY <1>0, <2>1, <2>2
    <3> QED  BY <3>2, <3>3, <3>4, <3>5, <2>1
  <2>4. ASSUME NEW e \in DungeonIds, e # n
        PROVE  /\ dungeonState'[e] = dungeonState[e] /\ players'[e] = players[e]
               /\ participantPlayerIds'[e] = participantPlayerIds[e] /\ disconnectedSince'[e] = disconnectedSince[e]
    BY <2>4, <1>1, <1>t
  <2>5. ASSUME NEW e \in DungeonIds, e # n, NEW x \in Sessions, Vanished(e, x)'
        PROVE  Vanished(e, x) /\ at'[x] \in Leaving
    <3>1. Vanished(e, x)
      BY <2>4, <2>5 DEF Vanished, Live
    <3>2. at[x] \in Leaving
      BY <3>1 DEF VanishedSeats
    <3> QED  BY <3>1, <3>2, <2>1, <1>1 DEF Leaving
  <2> QED  BY <2>1, <2>2, <2>3, <2>4, <2>5, <1>0, <1>2 DEF VanishedSeats
<1> QED  BY <1>3, <1>4, <1>5, <1>6, <1>7, <1>8, <1>9, <1>10, <1>11, <1>12, <1>13,
            <1>14, <1>15, <1>16, <1>17, <1>18

\* A party that has a dungeon, or the bound on dungeons.
LEMMA CreateRefusedPreserves ==
    ASSUME ServerInv, DungeonInv, PartyInv, DungeonInv', NEW s \in Sessions,
           Return(s, "create"), UNCHANGED dungeonVars,
           UNCHANGED <<partyVars, udpVars, told, tickVars>>
    PROVE  ServerInv'
<1> USE DEF ServerInv
<1>1. /\ at[s] = "create" /\ at' = [at EXCEPT ![s] = "idle"]
      /\ dungeonOf' = [dungeonOf EXCEPT ![s] = None]
      /\ rosterOf' = [rosterOf EXCEPT ![s] = {}]
  BY DEF Return, Goto
<1>2. UNCHANGED <<joinedParties, dungeonState, dungeonAge, players,
        participantPlayerIds, disconnectedSince, authenticatedPlayers, nextDungeonId,
        connection, reconnecting, udpAllocated, udpTokens, udpEndpoints, told, tickAt,
        tickRemoved, tickTodo, tickDungeon, tickWaiting, waitingSince, finishedSince>>
  BY DEF Return, Goto, partyVars, udpVars, tickVars, sessionVars, dungeonVars,
      instanceVars, identityVars
<1>3. UdpTypeOK' /\ TickTypeOK' /\ KnownDungeons' /\ KnownSessions' /\ TickPosition'
      /\ TickTimes' /\ TimesListed' /\ Departed' /\ OldSeats'
      /\ EndpointsHoldTokens' /\ HelloWasTold'
  BY <1>2, KeptUdpTypeOK, KeptTickTypeOK, KeptKnownDungeons, KeptKnownSessions,
     KeptTickPosition, KeptTickTimes, KeptTimesListed, KeptDeparted,
     KeptOldSeats, KeptEndpointsHoldTokens, KeptHelloWasTold
<1>4. StrandTypeOK'
  BY <1>1, <1>2, ServerFacts DEF StrandTypeOK, AtRest, Handler
<1>5. Positions'
  BY <1>1, <1>2, ServerFacts DEF Positions, InUse, Leaving, EnterSteps, StrandTypeOK
<1>6. EntersAlone'
  BY <1>1, <1>2, ServerFacts DEF EntersAlone, EnterSteps, StrandTypeOK
<1>7. Rosters'
  BY <1>1, <1>2, ServerFacts DEF Rosters, Admitted, InUse, Leaving, EnterSteps, StrandTypeOK
<1>8. UdpFollows'
  BY <1>1, <1>2, ServerFacts DEF UdpFollows, Releasing, Live, StrandTypeOK
<1>9. NewDungeonYoung'
  BY <1>1, <1>2, ServerFacts DEF NewDungeonYoung, Young, StrandTypeOK
<1>10. TokenFollowsSeat'
  BY <1>1, <1>2, ServerFacts DEF TokenFollowsSeat, InUse, EnterSteps, Live, StrandTypeOK
<1>11. ReconnectOneSeat'
  BY <1>1, <1>2, ServerFacts DEF ReconnectOneSeat, StrandTypeOK
<1>12. VanishedSeats'
  BY <1>1, <1>2, ServerFacts DEF VanishedSeats, Vanished, Leaving, Live, StrandTypeOK
<1> QED  BY <1>3, <1>4, <1>5, <1>6, <1>7, <1>8, <1>9, <1>10, <1>11, <1>12

\* The roster of the UDP session is read from the new dungeon.
LEMMA EnterParticipantsPreserves ==
    ASSUME ServerInv, DungeonInv, PartyInv, DungeonInv', NEW s \in Sessions,
           EnterParticipants(s)
    PROVE  ServerInv'
<1> USE DEF ServerInv
<1>1. /\ at[s] = "roster" /\ at' = [at EXCEPT ![s] = "allocate"]
      /\ dungeonOf[s] \in DungeonIds
      /\ rosterOf' = [rosterOf EXCEPT ![s] = players[dungeonOf[s]]]
  BY DEF EnterParticipants, Goto, Positions, EnterSteps, StrandTypeOK, DungeonInv,
      SeatsConsistent
<1>2. UNCHANGED <<joinedParties, dungeonState, dungeonAge, players,
        participantPlayerIds, disconnectedSince, authenticatedPlayers, nextDungeonId,
        connection, reconnecting, udpAllocated, udpTokens, udpEndpoints, dungeonOf,
        told, tickAt, tickRemoved, tickTodo, tickDungeon, tickWaiting, waitingSince,
        finishedSince>>
  BY DEF EnterParticipants, Goto, Positions, EnterSteps, StrandTypeOK, DungeonInv,
      SeatsConsistent, partyVars, udpVars, tickVars, sessionVars, dungeonVars,
      instanceVars, identityVars
<1>3. UdpTypeOK' /\ TickTypeOK' /\ KnownDungeons' /\ KnownSessions' /\ TickPosition'
      /\ TickTimes' /\ TimesListed' /\ Departed' /\ OldSeats'
      /\ EndpointsHoldTokens' /\ HelloWasTold'
  BY <1>2, KeptUdpTypeOK, KeptTickTypeOK, KeptKnownDungeons, KeptKnownSessions,
     KeptTickPosition, KeptTickTimes, KeptTimesListed, KeptDeparted,
     KeptOldSeats, KeptEndpointsHoldTokens, KeptHelloWasTold
<1>4. StrandTypeOK'
  BY <1>1, <1>2, ServerFacts DEF StrandTypeOK, AtRest, Handler, DungeonInv, DungeonTypeOK
<1>5. Positions'
  BY <1>1, <1>2, ServerFacts DEF Positions, InUse, Leaving, EnterSteps, StrandTypeOK
<1>6. EntersAlone'
  BY <1>1, <1>2, ServerFacts DEF EntersAlone, EnterSteps, StrandTypeOK
<1>7. Rosters'
  BY <1>1, <1>2, ServerFacts DEF Rosters, Admitted, InUse, Leaving, EnterSteps, KnownSessions,
      StrandTypeOK
<1>8. UdpFollows'
  BY <1>1, <1>2, ServerFacts DEF UdpFollows, Releasing, Live, StrandTypeOK
<1>9. NewDungeonYoung'
  BY <1>1, <1>2, ServerFacts DEF NewDungeonYoung, Young, StrandTypeOK
<1>10. TokenFollowsSeat'
  BY <1>1, <1>2, ServerFacts DEF TokenFollowsSeat, InUse, EnterSteps, Live, StrandTypeOK
<1>11. ReconnectOneSeat'
  BY <1>1, <1>2, ServerFacts DEF ReconnectOneSeat, StrandTypeOK
<1>12. VanishedSeats'
  BY <1>1, <1>2, ServerFacts DEF VanishedSeats, Vanished, Leaving, Live, StrandTypeOK
<1> QED  BY <1>3, <1>4, <1>5, <1>6, <1>7, <1>8, <1>9, <1>10, <1>11, <1>12

\* Allocate gives a token to everybody on the roster.
LEMMA AllocateDonePreserves ==
    ASSUME ServerInv, DungeonInv, PartyInv, DungeonInv', NEW s \in Sessions,
           at[s] = "allocate", UdpAllocate(dungeonOf[s], rosterOf[s]),
           Step(s, "allocate", "token"),
           UNCHANGED <<partyVars, dungeonVars, told, tickVars>>
    PROVE  ServerInv'
<1> USE DEF ServerInv
<1> PICK d \in DungeonIds : d = dungeonOf[s]
  BY DEF Step, Positions, EnterSteps, StrandTypeOK
<1>1. /\ at[s] = "allocate" /\ at' = [at EXCEPT ![s] = "token"]
      /\ d \in DungeonIds /\ d = dungeonOf[s]
      /\ d \notin udpAllocated /\ udpAllocated' = udpAllocated \cup {d}
      /\ udpTokens' = [udpTokens EXCEPT ![d] = rosterOf[s]]
      /\ udpEndpoints' = [udpEndpoints EXCEPT ![d] = {}]
      /\ dungeonState[d] = "Waiting"
  BY DEF UdpAllocate, Step, Goto, NewDungeonYoung, Young
<1>2. UNCHANGED <<joinedParties, dungeonState, dungeonAge, players,
        participantPlayerIds, disconnectedSince, authenticatedPlayers, nextDungeonId,
        connection, reconnecting, dungeonOf, rosterOf, told, tickAt, tickRemoved,
        tickTodo, tickDungeon, tickWaiting, waitingSince, finishedSince>>
  BY DEF UdpAllocate, Step, Goto, NewDungeonYoung, Young, partyVars, udpVars, tickVars,
      sessionVars, dungeonVars, instanceVars, identityVars
<1>3. TickTypeOK' /\ TickTimes' /\ TimesListed' /\ Departed' /\ OldSeats'
  BY <1>2, KeptTickTypeOK, KeptTickTimes, KeptTimesListed, KeptDeparted, KeptOldSeats
<1>4. UdpTypeOK'
  BY <1>1, <1>2, ServerFacts DEF UdpTypeOK, StrandTypeOK
<1>5. StrandTypeOK'
  BY <1>1, <1>2, ServerFacts DEF StrandTypeOK, AtRest, Handler
<1>6. Positions'
  BY <1>1, <1>2, ServerFacts DEF Positions, InUse, Leaving, EnterSteps, StrandTypeOK
<1>7. EntersAlone'
  BY <1>1, <1>2, ServerFacts DEF EntersAlone, EnterSteps, StrandTypeOK
<1>8. Rosters'
  BY <1>1, <1>2, ServerFacts DEF Rosters, Admitted, InUse, Leaving, EnterSteps, StrandTypeOK
<1>9. KnownDungeons'
  BY <1>1, <1>2, ServerFacts DEF KnownDungeons, Positions
<1>10. KnownSessions'
  BY <1>1, <1>2, ServerFacts DEF KnownSessions, Rosters, UdpTypeOK
<1>11. TickPosition'
  BY <1>1, <1>2, ServerFacts DEF TickPosition, InWaitingLoop, Live
<1>12. UdpFollows'
  BY <1>1, <1>2, ServerFacts DEF UdpFollows, Releasing, Live, StrandTypeOK
<1>13. NewDungeonYoung'
  BY <1>1, <1>2, ServerFacts DEF NewDungeonYoung, Young, EntersAlone, EnterSteps, StrandTypeOK
<1>14. EndpointsHoldTokens'
  BY <1>1, <1>2, ServerFacts DEF EndpointsHoldTokens, UdpTypeOK
<1>15. TokenFollowsSeat'
  BY <1>1, <1>2, ServerFacts DEF TokenFollowsSeat, InUse, EnterSteps, Live, EntersAlone, StrandTypeOK,
      UdpTypeOK
<1>16. ReconnectOneSeat'
  BY <1>1, <1>2, ServerFacts DEF ReconnectOneSeat, StrandTypeOK, UdpTypeOK
<1>17. HelloWasTold'
  BY <1>1, <1>2, ServerFacts DEF HelloWasTold, UdpTypeOK
<1>18. VanishedSeats'
  BY <1>1, <1>2, ServerFacts DEF VanishedSeats, Vanished, Leaving, Live, EntersAlone, EnterSteps,
      StrandTypeOK, UdpTypeOK
<1> QED  BY <1>3, <1>4, <1>5, <1>6, <1>7, <1>8, <1>9, <1>10, <1>11, <1>12, <1>13,
            <1>14, <1>15, <1>16, <1>17, <1>18

\* No socket: the dungeon will be cancelled.
LEMMA AllocateFailsPreserves ==
    ASSUME ServerInv, DungeonInv, PartyInv, DungeonInv', NEW s \in Sessions,
           at[s] = "allocate", UdpAllocateFails, Step(s, "allocate", "cancel"),
           UNCHANGED <<partyVars, dungeonVars, told, tickVars>>
    PROVE  ServerInv'
<1> USE DEF ServerInv
<1>1. /\ at[s] = "allocate" /\ at' = [at EXCEPT ![s] = "cancel"]
  BY DEF UdpAllocateFails, Step, Goto
<1>2. UNCHANGED <<joinedParties, dungeonState, dungeonAge, players,
        participantPlayerIds, disconnectedSince, authenticatedPlayers, nextDungeonId,
        connection, reconnecting, udpAllocated, udpTokens, udpEndpoints, dungeonOf,
        rosterOf, told, tickAt, tickRemoved, tickTodo, tickDungeon, tickWaiting,
        waitingSince, finishedSince>>
  BY DEF UdpAllocateFails, Step, Goto, partyVars, udpVars, tickVars, sessionVars,
      dungeonVars, instanceVars, identityVars
<1>3. UdpTypeOK' /\ TickTypeOK' /\ KnownDungeons' /\ KnownSessions' /\ TickPosition'
      /\ TickTimes' /\ TimesListed' /\ Departed' /\ OldSeats'
      /\ EndpointsHoldTokens' /\ HelloWasTold'
  BY <1>2, KeptUdpTypeOK, KeptTickTypeOK, KeptKnownDungeons, KeptKnownSessions,
     KeptTickPosition, KeptTickTimes, KeptTimesListed, KeptDeparted,
     KeptOldSeats, KeptEndpointsHoldTokens, KeptHelloWasTold
<1>4. StrandTypeOK'
  BY <1>1, <1>2, ServerFacts DEF StrandTypeOK, AtRest, Handler
<1>5. Positions'
  BY <1>1, <1>2, ServerFacts DEF Positions, InUse, Leaving, EnterSteps, StrandTypeOK
<1>6. EntersAlone'
  BY <1>1, <1>2, ServerFacts DEF EntersAlone, EnterSteps, StrandTypeOK
<1>7. Rosters'
  BY <1>1, <1>2, ServerFacts DEF Rosters, Admitted, InUse, Leaving, EnterSteps, StrandTypeOK
<1>8. UdpFollows'
  BY <1>1, <1>2, ServerFacts DEF UdpFollows, Releasing, Live, StrandTypeOK
<1>9. NewDungeonYoung'
  BY <1>1, <1>2, ServerFacts DEF NewDungeonYoung, Young, StrandTypeOK
<1>10. TokenFollowsSeat'
  BY <1>1, <1>2, ServerFacts DEF TokenFollowsSeat, InUse, EnterSteps, Live, StrandTypeOK
<1>11. ReconnectOneSeat'
  BY <1>1, <1>2, ServerFacts DEF ReconnectOneSeat, StrandTypeOK
<1>12. VanishedSeats'
  BY <1>1, <1>2, ServerFacts DEF VanishedSeats, Vanished, Leaving, Live, StrandTypeOK
<1> QED  BY <1>3, <1>4, <1>5, <1>6, <1>7, <1>8, <1>9, <1>10, <1>11, <1>12

\* The leader is told its token.
LEMMA TokenFoundPreserves ==
    ASSUME ServerInv, DungeonInv, PartyInv, DungeonInv', NEW s \in Sessions,
           Return(s, "token"), s \in udpTokens[dungeonOf[s]],
           told' = told \cup {<<dungeonOf[s], s>>},
           UNCHANGED <<partyVars, dungeonVars, udpVars, tickVars>>
    PROVE  ServerInv'
<1> USE DEF ServerInv
<1>1. /\ at[s] = "token" /\ at' = [at EXCEPT ![s] = "idle"]
      /\ dungeonOf[s] \in DungeonIds /\ dungeonOf[s] < nextDungeonId /\ s \in udpTokens[dungeonOf[s]]
      /\ told' = told \cup {<<dungeonOf[s], s>>}
      /\ dungeonOf' = [dungeonOf EXCEPT ![s] = None]
      /\ rosterOf' = [rosterOf EXCEPT ![s] = {}]
  BY DEF Return, Goto, Positions, EnterSteps, StrandTypeOK
<1>2. UNCHANGED <<joinedParties, dungeonState, dungeonAge, players,
        participantPlayerIds, disconnectedSince, authenticatedPlayers, nextDungeonId,
        connection, reconnecting, udpAllocated, udpTokens, udpEndpoints, tickAt,
        tickRemoved, tickTodo, tickDungeon, tickWaiting, waitingSince, finishedSince>>
  BY DEF Return, Goto, Positions, EnterSteps, StrandTypeOK, partyVars, udpVars,
      tickVars, sessionVars, dungeonVars, instanceVars, identityVars
<1>3. UdpTypeOK' /\ TickTypeOK' /\ KnownSessions' /\ TickPosition' /\ TickTimes'
      /\ TimesListed' /\ Departed' /\ OldSeats' /\ EndpointsHoldTokens'
  BY <1>2, KeptUdpTypeOK, KeptTickTypeOK, KeptKnownSessions, KeptTickPosition,
     KeptTickTimes, KeptTimesListed, KeptDeparted, KeptOldSeats,
     KeptEndpointsHoldTokens
<1>4. StrandTypeOK'
  BY <1>1, <1>2, ServerFacts DEF StrandTypeOK, AtRest, Handler
<1>5. Positions'
  BY <1>1, <1>2, ServerFacts DEF Positions, InUse, Leaving, EnterSteps, StrandTypeOK
<1>6. EntersAlone'
  BY <1>1, <1>2, ServerFacts DEF EntersAlone, EnterSteps, StrandTypeOK
<1>7. Rosters'
  BY <1>1, <1>2, ServerFacts DEF Rosters, Admitted, InUse, Leaving, EnterSteps, StrandTypeOK
<1>8. KnownDungeons'
  BY <1>1, <1>2, ServerFacts DEF KnownDungeons
<1>9. UdpFollows'
  BY <1>1, <1>2, ServerFacts DEF UdpFollows, Releasing, Live, StrandTypeOK
<1>10. NewDungeonYoung'
  BY <1>1, <1>2, ServerFacts DEF NewDungeonYoung, Young, StrandTypeOK
<1>11. TokenFollowsSeat'
  BY <1>1, <1>2, ServerFacts DEF TokenFollowsSeat, InUse, EnterSteps, Live, StrandTypeOK
<1>12. ReconnectOneSeat'
  BY <1>1, <1>2, ServerFacts DEF ReconnectOneSeat, StrandTypeOK
<1>13. HelloWasTold'
  BY <1>1, <1>2, ServerFacts DEF HelloWasTold
<1>14. VanishedSeats'
  BY <1>1, <1>2, ServerFacts DEF VanishedSeats, Vanished, Leaving, Live, StrandTypeOK
<1> QED  BY <1>3, <1>4, <1>5, <1>6, <1>7, <1>8, <1>9, <1>10, <1>11, <1>12, <1>13, <1>14

\* The leader has no token: the dungeon will be cancelled.
LEMMA TokenMissingPreserves ==
    ASSUME ServerInv, DungeonInv, PartyInv, DungeonInv', NEW s \in Sessions,
           Step(s, "token", "cancel"),
           UNCHANGED <<partyVars, dungeonVars, udpVars, told, tickVars>>
    PROVE  ServerInv'
<1> USE DEF ServerInv
<1>1. /\ at[s] = "token" /\ at' = [at EXCEPT ![s] = "cancel"]
  BY DEF Step, Goto
<1>2. UNCHANGED <<joinedParties, dungeonState, dungeonAge, players,
        participantPlayerIds, disconnectedSince, authenticatedPlayers, nextDungeonId,
        connection, reconnecting, udpAllocated, udpTokens, udpEndpoints, dungeonOf,
        rosterOf, told, tickAt, tickRemoved, tickTodo, tickDungeon, tickWaiting,
        waitingSince, finishedSince>>
  BY DEF Step, Goto, partyVars, udpVars, tickVars, sessionVars, dungeonVars,
      instanceVars, identityVars
<1>3. UdpTypeOK' /\ TickTypeOK' /\ KnownDungeons' /\ KnownSessions' /\ TickPosition'
      /\ TickTimes' /\ TimesListed' /\ Departed' /\ OldSeats'
      /\ EndpointsHoldTokens' /\ HelloWasTold'
  BY <1>2, KeptUdpTypeOK, KeptTickTypeOK, KeptKnownDungeons, KeptKnownSessions,
     KeptTickPosition, KeptTickTimes, KeptTimesListed, KeptDeparted,
     KeptOldSeats, KeptEndpointsHoldTokens, KeptHelloWasTold
<1>4. StrandTypeOK'
  BY <1>1, <1>2, ServerFacts DEF StrandTypeOK, AtRest, Handler
<1>5. Positions'
  BY <1>1, <1>2, ServerFacts DEF Positions, InUse, Leaving, EnterSteps, StrandTypeOK
<1>6. EntersAlone'
  BY <1>1, <1>2, ServerFacts DEF EntersAlone, EnterSteps, StrandTypeOK
<1>7. Rosters'
  BY <1>1, <1>2, ServerFacts DEF Rosters, Admitted, InUse, Leaving, EnterSteps, StrandTypeOK
<1>8. UdpFollows'
  BY <1>1, <1>2, ServerFacts DEF UdpFollows, Releasing, Live, StrandTypeOK
<1>9. NewDungeonYoung'
  BY <1>1, <1>2, ServerFacts DEF NewDungeonYoung, Young, StrandTypeOK
<1>10. TokenFollowsSeat'
  BY <1>1, <1>2, ServerFacts DEF TokenFollowsSeat, InUse, EnterSteps, Live, StrandTypeOK
<1>11. ReconnectOneSeat'
  BY <1>1, <1>2, ServerFacts DEF ReconnectOneSeat, StrandTypeOK
<1>12. VanishedSeats'
  BY <1>1, <1>2, ServerFacts DEF VanishedSeats, Vanished, Leaving, Live, StrandTypeOK
<1> QED  BY <1>3, <1>4, <1>5, <1>6, <1>7, <1>8, <1>9, <1>10, <1>11, <1>12

\* The dungeon that nobody could connect to is erased.
LEMMA CancelDonePreserves ==
    ASSUME ServerInv, DungeonInv, PartyInv, DungeonInv', NEW s \in Sessions,
           CancelDungeon(dungeonOf[s]), Step(s, "cancel", "release"),
           UNCHANGED <<partyVars, udpVars, told, tickVars>>
    PROVE  ServerInv'
<1> USE DEF ServerInv
<1> PICK d \in DungeonIds : d = dungeonOf[s]
  BY DEF Step, Positions, EnterSteps, StrandTypeOK
<1>1. /\ at[s] = "cancel" /\ at' = [at EXCEPT ![s] = "release"]
      /\ d = dungeonOf[s] /\ d < nextDungeonId /\ dungeonState[d] = "Waiting"
      /\ dungeonState' = [dungeonState EXCEPT ![d] = "Absent"]
      /\ dungeonAge' = [dungeonAge EXCEPT ![d] = 0]
      /\ players' = [players EXCEPT ![d] = {}]
      /\ participantPlayerIds' = [participantPlayerIds EXCEPT ![d] = [t \in Sessions |-> None]]
      /\ disconnectedSince' = [disconnectedSince EXCEPT ![d] = [t \in Sessions |-> None]]
  BY RemoveErases, ServerFacts DEF Step, Goto, CancelDungeon, Erased, Positions
<1>2. UNCHANGED <<joinedParties, authenticatedPlayers, nextDungeonId, connection,
        reconnecting, udpAllocated, udpTokens, udpEndpoints, dungeonOf, rosterOf, told,
        tickAt, tickRemoved, tickTodo, tickDungeon, tickWaiting, waitingSince,
        finishedSince>>
  BY DEF Step, Goto, CancelDungeon, Erased, Positions, partyVars, udpVars, tickVars,
      sessionVars, dungeonVars, instanceVars, identityVars
<1>t. /\ dungeonState \in [DungeonIds -> States]
      /\ dungeonAge \in [DungeonIds -> 0..MaxDungeonLifetime]
      /\ players \in [DungeonIds -> SUBSET Sessions]
      /\ participantPlayerIds \in [DungeonIds -> [Sessions -> Players \cup {None}]]
      /\ disconnectedSince \in [DungeonIds -> [Sessions -> (0..ReconnectGrace) \cup {None}]]
  BY DEF DungeonInv, DungeonTypeOK
<1>3. UdpTypeOK' /\ TickTypeOK' /\ KnownDungeons' /\ TimesListed'
      /\ EndpointsHoldTokens' /\ HelloWasTold'
  BY <1>2, KeptUdpTypeOK, KeptTickTypeOK, KeptKnownDungeons, KeptTimesListed,
     KeptEndpointsHoldTokens, KeptHelloWasTold
<1>4. StrandTypeOK'
  BY <1>1, <1>2, ServerFacts DEF StrandTypeOK, AtRest, Handler
<1>5. Positions'
  BY <1>1, <1>2, ServerFacts DEF Positions, InUse, Leaving, EnterSteps, StrandTypeOK
<1>6. EntersAlone'
  BY <1>1, <1>2, ServerFacts DEF EntersAlone, EnterSteps, StrandTypeOK
<1>7. Rosters'
  BY <1>1, <1>2, ServerFacts DEF Rosters, Admitted, InUse, Leaving, EnterSteps, StrandTypeOK
<1>8. KnownSessions'
  BY <1>1, <1>2, ServerFacts, <1>t DEF KnownSessions
<1>9. TickPosition'
  BY <1>1, <1>2, ServerFacts, <1>t DEF TickPosition, InWaitingLoop, Live
<1>10. TickTimes'
  BY <1>1, <1>2, ServerFacts, <1>t DEF TickTimes
<1>11. UdpFollows'
  BY <1>1, <1>2, ServerFacts, <1>t DEF UdpFollows, Releasing, Live, StrandTypeOK
<1>12. NewDungeonYoung'
  BY <1>1, <1>2, ServerFacts, <1>t DEF NewDungeonYoung, Young, EntersAlone, EnterSteps, StrandTypeOK
<1>13. Departed'
  BY <1>1, <1>2, ServerFacts, <1>t DEF Departed
<1>14. OldSeats'
  BY <1>1, <1>2, ServerFacts, <1>t DEF OldSeats, Live
<1>15. TokenFollowsSeat'
  BY <1>1, <1>2, ServerFacts, <1>t DEF TokenFollowsSeat, InUse, EnterSteps, Live, EntersAlone, Positions,
      StrandTypeOK
<1>16. ReconnectOneSeat'
  BY <1>1, <1>2, ServerFacts, <1>t DEF ReconnectOneSeat, StrandTypeOK
<1>17. VanishedSeats'
  BY <1>1, <1>2, ServerFacts, <1>t DEF VanishedSeats, Vanished, Leaving, Live, StrandTypeOK
<1> QED  BY <1>3, <1>4, <1>5, <1>6, <1>7, <1>8, <1>9, <1>10, <1>11, <1>12, <1>13,
            <1>14, <1>15, <1>16, <1>17

\* The dungeon is gone already: the handler throws and the session is closed.
LEMMA CancelFailsPreserves ==
    ASSUME ServerInv, DungeonInv, PartyInv, DungeonInv', NEW s \in Sessions,
           Step(s, "cancel", "close"), dungeonState[dungeonOf[s]] # "Waiting",
           UNCHANGED dungeonVars, UNCHANGED <<partyVars, udpVars, told, tickVars>>
    PROVE  ServerInv'
<1> USE DEF ServerInv
<1>1. /\ at[s] = "cancel" /\ at' = [at EXCEPT ![s] = "close"]
      /\ dungeonOf[s] \in DungeonIds /\ dungeonState[dungeonOf[s]] # "Waiting"
  BY DEF Step, Goto, Positions, EnterSteps, StrandTypeOK
<1>2. UNCHANGED <<joinedParties, dungeonState, dungeonAge, players,
        participantPlayerIds, disconnectedSince, authenticatedPlayers, nextDungeonId,
        connection, reconnecting, udpAllocated, udpTokens, udpEndpoints, dungeonOf,
        rosterOf, told, tickAt, tickRemoved, tickTodo, tickDungeon, tickWaiting,
        waitingSince, finishedSince>>
  BY DEF Step, Goto, Positions, EnterSteps, StrandTypeOK, partyVars, udpVars, tickVars,
      sessionVars, dungeonVars, instanceVars, identityVars
<1>3. UdpTypeOK' /\ TickTypeOK' /\ KnownDungeons' /\ KnownSessions' /\ TickPosition'
      /\ TickTimes' /\ TimesListed' /\ Departed' /\ OldSeats'
      /\ EndpointsHoldTokens' /\ HelloWasTold'
  BY <1>2, KeptUdpTypeOK, KeptTickTypeOK, KeptKnownDungeons, KeptKnownSessions,
     KeptTickPosition, KeptTickTimes, KeptTimesListed, KeptDeparted,
     KeptOldSeats, KeptEndpointsHoldTokens, KeptHelloWasTold
<1>4. StrandTypeOK'
  BY <1>1, <1>2, ServerFacts DEF StrandTypeOK, AtRest, Handler
<1>5. Positions'
  BY <1>1, <1>2, ServerFacts DEF Positions, InUse, Leaving, EnterSteps, StrandTypeOK
<1>6. EntersAlone'
  BY <1>1, <1>2, ServerFacts DEF EntersAlone, EnterSteps, StrandTypeOK
<1>7. Rosters'
  BY <1>1, <1>2, ServerFacts DEF Rosters, Admitted, InUse, Leaving, EnterSteps, Positions,
      StrandTypeOK
<1>8. UdpFollows'
  BY <1>1, <1>2, ServerFacts DEF UdpFollows, Releasing, Live, DungeonInv, DungeonTypeOK, States,
      StrandTypeOK
<1>9. NewDungeonYoung'
  BY <1>1, <1>2, ServerFacts DEF NewDungeonYoung, Young, StrandTypeOK
<1>10. TokenFollowsSeat'
  BY <1>1, <1>2, ServerFacts DEF TokenFollowsSeat, InUse, EnterSteps, Live, StrandTypeOK
<1>11. ReconnectOneSeat'
  BY <1>1, <1>2, ServerFacts DEF ReconnectOneSeat, StrandTypeOK
<1>12. VanishedSeats'
  BY <1>1, <1>2, ServerFacts DEF VanishedSeats, Vanished, Leaving, Live, StrandTypeOK
<1> QED  BY <1>3, <1>4, <1>5, <1>6, <1>7, <1>8, <1>9, <1>10, <1>11, <1>12

\* The UDP session of the cancelled dungeon is released.
LEMMA EnterReleasePreserves ==
    ASSUME ServerInv, DungeonInv, PartyInv, DungeonInv', NEW s \in Sessions,
           EnterRelease(s)
    PROVE  ServerInv'
<1> USE DEF ServerInv
<1> PICK d \in DungeonIds : d = dungeonOf[s]
  BY DEF EnterRelease, Return, Positions, EnterSteps, StrandTypeOK
<1>1. /\ at[s] = "release" /\ at' = [at EXCEPT ![s] = "idle"]
      /\ d = dungeonOf[s] /\ ~Live(d)
      /\ dungeonOf' = [dungeonOf EXCEPT ![s] = None]
      /\ rosterOf' = [rosterOf EXCEPT ![s] = {}]
      /\ udpAllocated' = udpAllocated \ {d}
      /\ udpTokens' = [udpTokens EXCEPT ![d] = {}]
      /\ udpEndpoints' = [udpEndpoints EXCEPT ![d] = {}]
  BY DEF EnterRelease, Return, Goto, UdpRelease, UdpFollows
<1>2. UNCHANGED <<joinedParties, dungeonState, dungeonAge, players,
        participantPlayerIds, disconnectedSince, authenticatedPlayers, nextDungeonId,
        connection, reconnecting, told, tickAt, tickRemoved, tickTodo, tickDungeon,
        tickWaiting, waitingSince, finishedSince>>
  BY DEF EnterRelease, Return, Goto, UdpRelease, UdpFollows, partyVars, udpVars,
      tickVars, sessionVars, dungeonVars, instanceVars, identityVars
<1>3. TickTypeOK' /\ TickTimes' /\ TimesListed' /\ Departed' /\ OldSeats'
  BY <1>2, KeptTickTypeOK, KeptTickTimes, KeptTimesListed, KeptDeparted, KeptOldSeats
<1>4. UdpTypeOK'
  BY <1>1, <1>2, ServerFacts DEF UdpTypeOK
<1>5. StrandTypeOK'
  BY <1>1, <1>2, ServerFacts DEF StrandTypeOK, AtRest, Handler
<1>6. Positions'
  BY <1>1, <1>2, ServerFacts DEF Positions, InUse, Leaving, EnterSteps, StrandTypeOK
<1>7. EntersAlone'
  BY <1>1, <1>2, ServerFacts DEF EntersAlone, EnterSteps, StrandTypeOK
<1>8. Rosters'
  BY <1>1, <1>2, ServerFacts DEF Rosters, Admitted, InUse, Leaving, EnterSteps, StrandTypeOK
<1>9. KnownDungeons'
  BY <1>1, <1>2, ServerFacts DEF KnownDungeons
<1>10. KnownSessions'
  BY <1>1, <1>2, ServerFacts DEF KnownSessions, UdpTypeOK
<1>11. TickPosition'
  BY <1>1, <1>2, ServerFacts DEF TickPosition, InWaitingLoop, Live
<1>12. UdpFollows'
  BY <1>1, <1>2, ServerFacts DEF UdpFollows, Releasing, Live, StrandTypeOK
<1>13. NewDungeonYoung'
  BY <1>1, <1>2, ServerFacts DEF NewDungeonYoung, Young, StrandTypeOK
<1>14. EndpointsHoldTokens'
  BY <1>1, <1>2, ServerFacts DEF EndpointsHoldTokens, UdpTypeOK
<1>15. TokenFollowsSeat'
  BY <1>1, <1>2, ServerFacts DEF TokenFollowsSeat, InUse, EnterSteps, Live, StrandTypeOK, UdpTypeOK
<1>16. ReconnectOneSeat'
  BY <1>1, <1>2, ServerFacts DEF ReconnectOneSeat, StrandTypeOK, UdpTypeOK
<1>17. HelloWasTold'
  BY <1>1, <1>2, ServerFacts DEF HelloWasTold, UdpTypeOK
<1>18. VanishedSeats'
  BY <1>1, <1>2, ServerFacts DEF VanishedSeats, Vanished, Leaving, Live, StrandTypeOK, UdpTypeOK
<1> QED  BY <1>3, <1>4, <1>5, <1>6, <1>7, <1>8, <1>9, <1>10, <1>11, <1>12, <1>13,
            <1>14, <1>15, <1>16, <1>17, <1>18

\* The dungeon a client asks about.
LEMMA InfoFindPreserves ==
    ASSUME ServerInv, DungeonInv, PartyInv, DungeonInv', NEW s \in Sessions,
           InfoFind(s)
    PROVE  ServerInv'
<1> USE DEF ServerInv
<1> PICK d \in DungeonIds : s \in participants[d] /\ dungeonOf' = [dungeonOf EXCEPT ![s] = d]
  BY ServerFacts DEF InfoFind, InfoDungeons, SeatsOf, PartyIsFree, DungeonInv, DungeonTypeOK,
         PartyInv, PartyTypeOK
<1>1. /\ at[s] = "idle" /\ at' = [at EXCEPT ![s] = "info"]
      /\ d \in DungeonIds /\ d < nextDungeonId
      /\ dungeonOf' = [dungeonOf EXCEPT ![s] = d]
  BY SeatsAreOld DEF InfoFind, Goto, DungeonInv, SeatsConsistent
<1>2. UNCHANGED <<joinedParties, dungeonState, dungeonAge, players,
        participantPlayerIds, disconnectedSince, authenticatedPlayers, nextDungeonId,
        connection, reconnecting, udpAllocated, udpTokens, udpEndpoints, rosterOf,
        told, tickAt, tickRemoved, tickTodo, tickDungeon, tickWaiting, waitingSince,
        finishedSince>>
  BY DEF InfoFind, Goto, DungeonInv, SeatsConsistent, partyVars, udpVars, tickVars,
      sessionVars, dungeonVars, instanceVars, identityVars
<1>3. UdpTypeOK' /\ TickTypeOK' /\ KnownDungeons' /\ KnownSessions' /\ TickPosition'
      /\ TickTimes' /\ TimesListed' /\ Departed' /\ OldSeats'
      /\ EndpointsHoldTokens' /\ HelloWasTold'
  BY <1>2, KeptUdpTypeOK, KeptTickTypeOK, KeptKnownDungeons, KeptKnownSessions,
     KeptTickPosition, KeptTickTimes, KeptTimesListed, KeptDeparted,
     KeptOldSeats, KeptEndpointsHoldTokens, KeptHelloWasTold
<1>4. StrandTypeOK'
  BY <1>1, <1>2, ServerFacts DEF StrandTypeOK, AtRest, Handler
<1>5. Positions'
  BY <1>1, <1>2, ServerFacts DEF Positions, InUse, Leaving, EnterSteps, StrandTypeOK
<1>6. EntersAlone'
  BY <1>1, <1>2, ServerFacts DEF EntersAlone, EnterSteps, StrandTypeOK
<1>7. Rosters'
  BY <1>1, <1>2, ServerFacts DEF Rosters, Admitted, InUse, Leaving, EnterSteps, StrandTypeOK
<1>8. UdpFollows'
  BY <1>1, <1>2, StrandMovesOn DEF StrandTypeOK
<1>9. NewDungeonYoung'
  BY <1>1, <1>2, ServerFacts DEF NewDungeonYoung, Young, StrandTypeOK
<1>10. TokenFollowsSeat'
  BY <1>1, <1>2, ServerFacts DEF TokenFollowsSeat, InUse, EnterSteps, Live, StrandTypeOK
<1>11. ReconnectOneSeat'
  BY <1>1, <1>2, ServerFacts DEF ReconnectOneSeat, StrandTypeOK
<1>12. VanishedSeats'
  BY <1>1, <1>2, ServerFacts DEF VanishedSeats, Vanished, Leaving, Live, StrandTypeOK
<1> QED  BY <1>3, <1>4, <1>5, <1>6, <1>7, <1>8, <1>9, <1>10, <1>11, <1>12

\* The client is told its token, if it has one.
LEMMA InfoTokenPreserves ==
    ASSUME ServerInv, DungeonInv, PartyInv, DungeonInv', NEW s \in Sessions,
           InfoToken(s)
    PROVE  ServerInv'
<1> USE DEF ServerInv
<1>1. /\ at[s] = "info" /\ at' = [at EXCEPT ![s] = "idle"]
      /\ dungeonOf[s] \in DungeonIds /\ dungeonOf[s] < nextDungeonId
      /\ told' = told \cup {<<dungeonOf[s], s>>} \/ told' = told
      /\ dungeonOf' = [dungeonOf EXCEPT ![s] = None]
      /\ rosterOf' = [rosterOf EXCEPT ![s] = {}]
  BY DEF InfoToken, Return, Goto, Positions, StrandTypeOK
<1>2. UNCHANGED <<joinedParties, dungeonState, dungeonAge, players,
        participantPlayerIds, disconnectedSince, authenticatedPlayers, nextDungeonId,
        connection, reconnecting, udpAllocated, udpTokens, udpEndpoints, tickAt,
        tickRemoved, tickTodo, tickDungeon, tickWaiting, waitingSince, finishedSince>>
  BY DEF InfoToken, Return, Goto, Positions, StrandTypeOK, partyVars, udpVars, tickVars,
      sessionVars, dungeonVars, instanceVars, identityVars
<1>3. UdpTypeOK' /\ TickTypeOK' /\ KnownSessions' /\ TickPosition' /\ TickTimes'
      /\ TimesListed' /\ Departed' /\ OldSeats' /\ EndpointsHoldTokens'
  BY <1>2, KeptUdpTypeOK, KeptTickTypeOK, KeptKnownSessions, KeptTickPosition,
     KeptTickTimes, KeptTimesListed, KeptDeparted, KeptOldSeats,
     KeptEndpointsHoldTokens
<1>4. StrandTypeOK'
  BY <1>1, <1>2, ServerFacts DEF StrandTypeOK, AtRest, Handler
<1>5. Positions'
  BY <1>1, <1>2, ServerFacts DEF Positions, InUse, Leaving, EnterSteps, StrandTypeOK
<1>6. EntersAlone'
  BY <1>1, <1>2, ServerFacts DEF EntersAlone, EnterSteps, StrandTypeOK
<1>7. Rosters'
  BY <1>1, <1>2, ServerFacts DEF Rosters, Admitted, InUse, Leaving, EnterSteps, StrandTypeOK
<1>8. KnownDungeons'
  BY <1>1, <1>2, ServerFacts DEF KnownDungeons
<1>9. UdpFollows'
  BY <1>1, <1>2, StrandMovesOn DEF StrandTypeOK
<1>10. NewDungeonYoung'
  BY <1>1, <1>2, ServerFacts DEF NewDungeonYoung, Young, StrandTypeOK
<1>11. TokenFollowsSeat'
  BY <1>1, <1>2, ServerFacts DEF TokenFollowsSeat, InUse, EnterSteps, Live, StrandTypeOK
<1>12. ReconnectOneSeat'
  BY <1>1, <1>2, ServerFacts DEF ReconnectOneSeat, StrandTypeOK
<1>13. HelloWasTold'
  BY <1>1, <1>2, ServerFacts DEF HelloWasTold
<1>14. VanishedSeats'
  BY <1>1, <1>2, ServerFacts DEF VanishedSeats, Vanished, Leaving, Live, StrandTypeOK
<1> QED  BY <1>3, <1>4, <1>5, <1>6, <1>7, <1>8, <1>9, <1>10, <1>11, <1>12, <1>13, <1>14

\* A Hello with a token the client was told, however late.
LEMMA HelloPreserves ==
    ASSUME ServerInv, DungeonInv, PartyInv, DungeonInv', NEW s \in Sessions,
           NEW d \in DungeonIds, Hello(d, s)
    PROVE  ServerInv'
<1> USE DEF ServerInv
<1>1. /\ <<d, s>> \in told /\ s \in udpTokens[d]
      /\ udpEndpoints' = [udpEndpoints EXCEPT ![d] = udpEndpoints[d] \cup {s}]
  BY DEF Hello, UdpHello
<1>2. UNCHANGED <<joinedParties, dungeonState, dungeonAge, players,
        participantPlayerIds, disconnectedSince, authenticatedPlayers, nextDungeonId,
        connection, reconnecting, udpAllocated, udpTokens, at, dungeonOf, rosterOf,
        told, tickAt, tickRemoved, tickTodo, tickDungeon, tickWaiting, waitingSince,
        finishedSince>>
  BY DEF Hello, UdpHello, partyVars, udpVars, tickVars, sessionVars, dungeonVars,
      instanceVars, identityVars
<1>3. StrandTypeOK' /\ TickTypeOK' /\ Positions' /\ EntersAlone' /\ Rosters'
      /\ KnownDungeons' /\ KnownSessions' /\ TickPosition' /\ TickTimes'
      /\ TimesListed' /\ UdpFollows' /\ NewDungeonYoung' /\ Departed' /\ OldSeats'
      /\ TokenFollowsSeat' /\ ReconnectOneSeat' /\ VanishedSeats'
  BY <1>2, KeptStrandTypeOK, KeptTickTypeOK, KeptPositions, KeptEntersAlone, KeptRosters,
     KeptKnownDungeons, KeptKnownSessions, KeptTickPosition, KeptTickTimes,
     KeptTimesListed, KeptUdpFollows, KeptNewDungeonYoung, KeptDeparted,
     KeptOldSeats, KeptTokenFollowsSeat, KeptReconnectOneSeat,
     KeptVanishedSeats
<1>4. UdpTypeOK'
  BY <1>1, <1>2, ServerFacts DEF UdpTypeOK
<1>5. EndpointsHoldTokens'
  BY <1>1, <1>2, ServerFacts DEF EndpointsHoldTokens, UdpTypeOK
<1>6. HelloWasTold'
  BY <1>1, <1>2, ServerFacts DEF HelloWasTold, UdpTypeOK
<1> QED  BY <1>3, <1>4, <1>5, <1>6

\* The session leaves: its seat is marked, and it is nobody any more.
LEMMA CloseSeatedPreserves ==
    ASSUME ServerInv, DungeonInv, PartyInv, DungeonInv', NEW s \in Sessions,
           NEW d \in DungeonIds, at[s] \in {"new", "idle", "close"},
           DisconnectSeated(s, d), dungeonOf' = [dungeonOf EXCEPT ![s] = d],
           Goto(s, "closeUdp"),
           UNCHANGED <<partyVars, udpVars, rosterOf, told, tickVars>>
    PROVE  ServerInv'
<1> USE DEF ServerInv
<1>1. /\ at[s] \in {"new", "idle", "close"} /\ at' = [at EXCEPT ![s] = "closeUdp"]
      /\ dungeonOf' = [dungeonOf EXCEPT ![s] = d] /\ d < nextDungeonId
      /\ connection' = [connection EXCEPT ![s] = "Closed"]
      /\ authenticatedPlayers' = [authenticatedPlayers EXCEPT ![s] = None]
      /\ disconnectedSince' = [disconnectedSince EXCEPT ![d] = [disconnectedSince[d] EXCEPT ![s] =
                                 TryEmplace(disconnectedSince[d][s], 0)]]
  BY ServerFacts DEF DisconnectSeated, SeatsOf, ForgetIdentity, Goto, DungeonInv,
      FutureDungeonsAbsent, DungeonTypeOK
<1>2. UNCHANGED <<joinedParties, dungeonState, dungeonAge, players,
        participantPlayerIds, nextDungeonId, reconnecting, udpAllocated, udpTokens,
        udpEndpoints, rosterOf, told, tickAt, tickRemoved, tickTodo, tickDungeon,
        tickWaiting, waitingSince, finishedSince>>
  BY DEF DisconnectSeated, SeatsOf, ForgetIdentity, Goto, DungeonInv,
      FutureDungeonsAbsent, DungeonTypeOK, partyVars, udpVars, tickVars,
      sessionVars, dungeonVars, instanceVars, identityVars
<1>t. /\ disconnectedSince \in [DungeonIds -> [Sessions -> (0..ReconnectGrace) \cup {None}]]
      /\ authenticatedPlayers \in [Sessions -> Players \cup {None}]
      /\ connection \in [Sessions -> {"New", "Open", "Closed"}]
  BY DEF DungeonInv, DungeonTypeOK
<1>3. UdpTypeOK' /\ TickTypeOK' /\ KnownDungeons' /\ TickPosition' /\ TickTimes'
      /\ TimesListed' /\ EndpointsHoldTokens' /\ HelloWasTold'
  BY <1>2, KeptUdpTypeOK, KeptTickTypeOK, KeptKnownDungeons, KeptTickPosition,
     KeptTickTimes, KeptTimesListed, KeptEndpointsHoldTokens, KeptHelloWasTold
<1>4. StrandTypeOK'
  BY <1>1, <1>2, ServerFacts DEF StrandTypeOK, AtRest, Handler
<1>5. Positions'
  BY <1>1, <1>2, ServerFacts, <1>t DEF Positions, InUse, Leaving, EnterSteps, StrandTypeOK
<1>6. EntersAlone'
  BY <1>1, <1>2, ServerFacts DEF EntersAlone, EnterSteps, StrandTypeOK
<1>7. Rosters'
  BY <1>1, <1>2, ServerFacts, <1>t DEF Rosters, Admitted, InUse, Leaving, EnterSteps, StrandTypeOK
<1>8. KnownSessions'
  BY <1>1, <1>2, ServerFacts, <1>t DEF KnownSessions
<1>9. UdpFollows'
  BY <1>1, <1>2, StrandMovesOn DEF StrandTypeOK
<1>10. NewDungeonYoung'
  BY <1>1, <1>2, ServerFacts, <1>t DEF NewDungeonYoung, Young, TryEmplace, StrandTypeOK
<1>11. Departed'
  <2>1. /\ \A t \in Sessions : connection[t] = "Closed" => connection'[t] = "Closed"
        /\ connection'[s] = "Closed"
    BY <1>1, <1>t
  <2>2. ASSUME NEW e \in DungeonIds, NEW t \in Sessions, t # s
        PROVE  disconnectedSince'[e][t] = disconnectedSince[e][t]
    BY <2>2, <1>1, <1>t
  <2> QED  BY <1>2, <2>1, <2>2, ReconnectTypes DEF Departed
<1>12. OldSeats'
  BY <1>1, <1>2, <1>t, ClosingKeepsOldSeats
<1>13. TokenFollowsSeat'
  BY <1>1, <1>2, ServerFacts DEF TokenFollowsSeat, InUse, EnterSteps, Live, StrandTypeOK
<1>14. ReconnectOneSeat'
  BY <1>1, <1>2, ServerFacts DEF ReconnectOneSeat, StrandTypeOK
<1>15. VanishedSeats'
  <2>1. at[s] \notin Leaving /\ \A t \in Sessions : t # s => at'[t] = at[t]
    BY <1>1 DEF StrandTypeOK, Leaving
  <2>2. \A e \in DungeonIds, t \in Sessions :
            t # s => disconnectedSince'[e][t] = disconnectedSince[e][t]
    BY <1>1, <1>t
  <2>3. ASSUME NEW e \in DungeonIds, NEW x \in Sessions, Vanished(e, x)'
        PROVE  Vanished(e, x) /\ x # s
    <3>1. Vanished(e, x)
      BY <2>3, <1>2 DEF Vanished, Live
    <3> QED  BY <2>1, <3>1 DEF VanishedSeats
  <2>4. \A t \in Sessions : at'[t] = "allocate" => at[t] = "allocate" /\ dungeonOf'[t] = dungeonOf[t]
    BY <1>1, <1>2 DEF StrandTypeOK
  <2> QED  BY <2>1, <2>2, <2>3, <2>4, <1>2 DEF VanishedSeats
<1> QED  BY <1>3, <1>4, <1>5, <1>6, <1>7, <1>8, <1>9, <1>10, <1>11, <1>12, <1>13,
            <1>14, <1>15

\* The session leaves without a seat.
LEMMA CloseUnseatedPreserves ==
    ASSUME ServerInv, DungeonInv, PartyInv, DungeonInv', NEW s \in Sessions,
           at[s] \in {"new", "idle", "close"}, DisconnectUnseated(s),
           UNCHANGED dungeonOf, Goto(s, "closeParty"),
           UNCHANGED <<partyVars, udpVars, rosterOf, told, tickVars>>
    PROVE  ServerInv'
<1> USE DEF ServerInv
<1>1. /\ at[s] \in {"new", "idle", "close"} /\ at' = [at EXCEPT ![s] = "closeParty"]
      /\ connection' = [connection EXCEPT ![s] = "Closed"]
      /\ authenticatedPlayers' = [authenticatedPlayers EXCEPT ![s] = None]
  BY DEF DisconnectUnseated, ForgetIdentity, Goto
<1>2. UNCHANGED <<joinedParties, dungeonState, dungeonAge, players,
        participantPlayerIds, disconnectedSince, nextDungeonId, reconnecting,
        udpAllocated, udpTokens, udpEndpoints, dungeonOf, rosterOf, told, tickAt,
        tickRemoved, tickTodo, tickDungeon, tickWaiting, waitingSince, finishedSince>>
  BY DEF DisconnectUnseated, ForgetIdentity, Goto, partyVars, udpVars, tickVars,
      sessionVars, dungeonVars, instanceVars, identityVars
<1>t. /\ authenticatedPlayers \in [Sessions -> Players \cup {None}]
      /\ connection \in [Sessions -> {"New", "Open", "Closed"}]
  BY DEF DungeonInv, DungeonTypeOK
<1>3. UdpTypeOK' /\ TickTypeOK' /\ KnownDungeons' /\ TickPosition' /\ TickTimes'
      /\ TimesListed' /\ EndpointsHoldTokens' /\ HelloWasTold'
  BY <1>2, KeptUdpTypeOK, KeptTickTypeOK, KeptKnownDungeons, KeptTickPosition,
     KeptTickTimes, KeptTimesListed, KeptEndpointsHoldTokens, KeptHelloWasTold
<1>4. StrandTypeOK'
  BY <1>1, <1>2, ServerFacts DEF StrandTypeOK, AtRest, Handler
<1>5. Positions'
  BY <1>1, <1>2, ServerFacts, <1>t DEF Positions, InUse, Leaving, EnterSteps, StrandTypeOK
<1>6. EntersAlone'
  BY <1>1, <1>2, ServerFacts DEF EntersAlone, EnterSteps, StrandTypeOK
<1>7. Rosters'
  BY <1>1, <1>2, ServerFacts, <1>t DEF Rosters, Admitted, InUse, Leaving, EnterSteps, StrandTypeOK
<1>8. KnownSessions'
  BY <1>1, <1>2, ServerFacts, <1>t DEF KnownSessions
<1>9. UdpFollows'
  BY <1>1, <1>2, StrandMovesOn DEF StrandTypeOK
<1>10. NewDungeonYoung'
  BY <1>1, <1>2, ServerFacts DEF NewDungeonYoung, Young, StrandTypeOK
<1>11. Departed'
  BY <1>1, <1>2, ServerFacts, <1>t DEF Departed
<1>12. OldSeats'
  BY <1>1, <1>2, ServerFacts, <1>t DEF OldSeats, Live
<1>13. TokenFollowsSeat'
  BY <1>1, <1>2, ServerFacts DEF TokenFollowsSeat, InUse, EnterSteps, Live, StrandTypeOK
<1>14. ReconnectOneSeat'
  BY <1>1, <1>2, ServerFacts DEF ReconnectOneSeat, StrandTypeOK
<1>15. VanishedSeats'
  BY <1>1, <1>2, ServerFacts DEF VanishedSeats, Vanished, Leaving, Live, StrandTypeOK
<1> QED  BY <1>3, <1>4, <1>5, <1>6, <1>7, <1>8, <1>9, <1>10, <1>11, <1>12, <1>13,
            <1>14, <1>15

\* Its endpoint goes, its token stays.
LEMMA CloseUdpPreserves ==
    ASSUME ServerInv, DungeonInv, PartyInv, DungeonInv', NEW s \in Sessions,
           CloseUdp(s)
    PROVE  ServerInv'
<1> USE DEF ServerInv
<1> PICK d \in DungeonIds : d = dungeonOf[s]
  BY DEF CloseUdp, Step, Positions, StrandTypeOK
<1>1. /\ at[s] = "closeUdp" /\ at' = [at EXCEPT ![s] = "closeParty"]
      /\ d = dungeonOf[s]
      /\ udpEndpoints' = [udpEndpoints EXCEPT ![d] = udpEndpoints[d] \ {s}]
  BY DEF CloseUdp, Step, Goto, UdpDisconnectParticipant
<1>2. UNCHANGED <<joinedParties, dungeonState, dungeonAge, players,
        participantPlayerIds, disconnectedSince, authenticatedPlayers, nextDungeonId,
        connection, reconnecting, udpAllocated, udpTokens, dungeonOf, rosterOf, told,
        tickAt, tickRemoved, tickTodo, tickDungeon, tickWaiting, waitingSince,
        finishedSince>>
  BY DEF CloseUdp, Step, Goto, UdpDisconnectParticipant, partyVars, udpVars, tickVars,
      sessionVars, dungeonVars, instanceVars, identityVars
<1>3. TickTypeOK' /\ KnownDungeons' /\ KnownSessions' /\ TickPosition' /\ TickTimes'
      /\ TimesListed' /\ Departed' /\ OldSeats'
  BY <1>2, KeptTickTypeOK, KeptKnownDungeons, KeptKnownSessions, KeptTickPosition,
     KeptTickTimes, KeptTimesListed, KeptDeparted, KeptOldSeats
<1>4. UdpTypeOK'
  BY <1>1, <1>2, ServerFacts DEF UdpTypeOK
<1>5. StrandTypeOK'
  BY <1>1, <1>2, ServerFacts DEF StrandTypeOK, AtRest, Handler
<1>6. Positions'
  BY <1>1, <1>2, ServerFacts DEF Positions, InUse, Leaving, EnterSteps, StrandTypeOK
<1>7. EntersAlone'
  BY <1>1, <1>2, ServerFacts DEF EntersAlone, EnterSteps, StrandTypeOK
<1>8. Rosters'
  BY <1>1, <1>2, ServerFacts DEF Rosters, Admitted, InUse, Leaving, EnterSteps, StrandTypeOK
<1>9. UdpFollows'
  BY <1>1, <1>2, ServerFacts DEF UdpFollows, Releasing, Live, StrandTypeOK
<1>10. NewDungeonYoung'
  BY <1>1, <1>2, ServerFacts DEF NewDungeonYoung, Young, StrandTypeOK
<1>11. EndpointsHoldTokens'
  BY <1>1, <1>2, ServerFacts DEF EndpointsHoldTokens, UdpTypeOK
<1>12. TokenFollowsSeat'
  BY <1>1, <1>2, ServerFacts DEF TokenFollowsSeat, InUse, EnterSteps, Live, StrandTypeOK
<1>13. ReconnectOneSeat'
  BY <1>1, <1>2, ServerFacts DEF ReconnectOneSeat, StrandTypeOK
<1>14. HelloWasTold'
  BY <1>1, <1>2, ServerFacts DEF HelloWasTold, UdpTypeOK
<1>15. VanishedSeats'
  BY <1>1, <1>2, ServerFacts DEF VanishedSeats, Vanished, Leaving, Live, StrandTypeOK
<1> QED  BY <1>3, <1>4, <1>5, <1>6, <1>7, <1>8, <1>9, <1>10, <1>11, <1>12, <1>13,
            <1>14, <1>15

\* It leaves its party and is gone.
LEMMA ClosePartyPreserves ==
    ASSUME ServerInv, DungeonInv, PartyInv, DungeonInv', NEW s \in Sessions,
           CloseParty(s)
    PROVE  ServerInv'
<1> USE DEF ServerInv
<1>1. /\ at[s] = "closeParty" /\ at' = [at EXCEPT ![s] = "gone"]
      /\ dungeonOf' = [dungeonOf EXCEPT ![s] = None]
      /\ rosterOf' = [rosterOf EXCEPT ![s] = {}]
      /\ joinedParties'[s] = None /\ \A t \in Sessions : t # s => joinedParties'[t] = joinedParties[t]
  BY DEF CloseParty, Goto, LeaveParty, PartyInv, PartyTypeOK, partyVars
<1>2. UNCHANGED <<dungeonState, dungeonAge, players, participantPlayerIds,
        disconnectedSince, authenticatedPlayers, nextDungeonId, connection,
        reconnecting, udpAllocated, udpTokens, udpEndpoints, told, tickAt, tickRemoved,
        tickTodo, tickDungeon, tickWaiting, waitingSince, finishedSince>>
  BY DEF CloseParty, Goto, LeaveParty, PartyInv, PartyTypeOK, partyVars, partyVars,
      udpVars, tickVars, sessionVars, dungeonVars, instanceVars, identityVars
<1>3. UdpTypeOK' /\ TickTypeOK' /\ KnownDungeons' /\ KnownSessions' /\ TickPosition'
      /\ TickTimes' /\ TimesListed' /\ Departed' /\ OldSeats'
      /\ EndpointsHoldTokens' /\ HelloWasTold'
  BY <1>2, KeptUdpTypeOK, KeptTickTypeOK, KeptKnownDungeons, KeptKnownSessions,
     KeptTickPosition, KeptTickTimes, KeptTimesListed, KeptDeparted,
     KeptOldSeats, KeptEndpointsHoldTokens, KeptHelloWasTold
<1>4. StrandTypeOK'
  BY <1>1, <1>2, ServerFacts DEF StrandTypeOK, AtRest, Handler
<1>5. Positions'
  BY <1>1, <1>2, ServerFacts DEF Positions, InUse, Leaving, EnterSteps, StrandTypeOK
<1>6. EntersAlone'
  BY <1>1, <1>2, ServerFacts DEF EntersAlone, EnterSteps, StrandTypeOK
<1>7. Rosters'
  BY <1>1, <1>2, ServerFacts DEF Rosters, Admitted, InUse, Leaving, EnterSteps, StrandTypeOK,
      PartyInv, PartyTypeOK
<1>8. UdpFollows'
  BY <1>1, <1>2, StrandMovesOn DEF StrandTypeOK
<1>9. NewDungeonYoung'
  BY <1>1, <1>2, ServerFacts DEF NewDungeonYoung, Young, StrandTypeOK
<1>10. TokenFollowsSeat'
  BY <1>1, <1>2, ServerFacts DEF TokenFollowsSeat, InUse, EnterSteps, Live, StrandTypeOK
<1>11. ReconnectOneSeat'
  BY <1>1, <1>2, ServerFacts DEF ReconnectOneSeat, StrandTypeOK
<1>12. VanishedSeats'
  BY <1>1, <1>2, ServerFacts DEF VanishedSeats, Vanished, Leaving, Live, StrandTypeOK
<1> QED  BY <1>3, <1>4, <1>5, <1>6, <1>7, <1>8, <1>9, <1>10, <1>11, <1>12

\* The sweep: every seat it removes is marked, hence of a closed connection, or its
\* dungeon goes as a whole; a dungeon that is being entered is too young for it.
LEMMA TickSweepPreserves ==
    ASSUME ServerInv, DungeonInv, PartyInv, DungeonInv', TickSweep
    PROVE  ServerInv'
<1> USE DEF ServerInv
<1> DEFINE D == SweptDungeons
<1>a. ASSUME NEW d \in DungeonIds, Young(d)
      PROVE  SweptFrom(d) = {} /\ d \notin D
  <2>1. ~LifetimeExpired(d)
    BY <1>a, ServerFacts DEF Young, LifetimeExpired
  <2>2. SweptFrom(d) = {}
    BY <1>a, <2>1, ServerFacts DEF Young, SweptFrom
  <2>3. participants[d] # {}
    BY <1>a DEF Young, Live, DungeonInv, SeatsConsistent
  <2> QED  BY <2>1, <2>2, <2>3 DEF SweptDungeons
<1>b. ASSUME NEW d \in DungeonIds, d \notin D, NEW x \in SweptFrom(d)
      PROVE  x \in players[d] /\ x \in Sessions /\ connection[x] = "Closed"
  <2>1. ~LifetimeExpired(d)
    BY <1>b DEF LifetimeExpired, SweptDungeons
  <2>2. x \in Sessions /\ disconnectedSince[d][x] # None
    BY <1>b, <2>1, ServerFacts DEF SweptFrom
  <2> QED  BY <2>2 DEF Departed, DungeonInv, SeatsConsistent
<1>c. \A d \in D : d \in DungeonIds /\ Live(d)
  BY DEF SweptDungeons
<1>1. /\ tickAt = "rest" /\ tickAt' = "remove" /\ tickDungeon' = None
      /\ tickTodo' = D /\ D \subseteq DungeonIds
      /\ tickRemoved' = {r \in DungeonIds \X Sessions : Live(r[1]) /\ r[2] \in SweptFrom(r[1])}
      /\ dungeonState' = [d \in DungeonIds |-> IF d \in D THEN "Absent" ELSE dungeonState[d]]
      /\ dungeonAge' = [d \in DungeonIds |-> IF d \in D THEN 0 ELSE dungeonAge[d]]
      /\ players' = [d \in DungeonIds |-> IF d \in D THEN {} ELSE players[d] \ SweptFrom(d)]
      /\ participantPlayerIds' = [d \in DungeonIds |-> [x \in Sessions |->
             IF d \in D \/ x \in SweptFrom(d) THEN None ELSE participantPlayerIds[d][x]]]
      /\ disconnectedSince' = [d \in DungeonIds |-> [x \in Sessions |->
             IF d \in D \/ x \in SweptFrom(d) THEN None ELSE disconnectedSince[d][x]]]
  BY <1>c DEF TickSweep, TickGoto, SweepAbandonedParticipants, Remove
<1>2. UNCHANGED <<joinedParties, authenticatedPlayers, nextDungeonId, connection,
        reconnecting, udpAllocated, udpTokens, udpEndpoints, at, dungeonOf, rosterOf,
        told, tickWaiting, waitingSince, finishedSince>>
  BY DEF TickSweep, TickGoto, SweepAbandonedParticipants, Remove, partyVars, udpVars,
      tickVars, sessionVars, dungeonVars, instanceVars, identityVars
<1>t. /\ dungeonState \in [DungeonIds -> States]
      /\ dungeonAge \in [DungeonIds -> 0..MaxDungeonLifetime]
      /\ players \in [DungeonIds -> SUBSET Sessions]
      /\ participantPlayerIds \in [DungeonIds -> [Sessions -> Players \cup {None}]]
      /\ disconnectedSince \in [DungeonIds -> [Sessions -> (0..ReconnectGrace) \cup {None}]]
  BY DEF DungeonInv, DungeonTypeOK
<1>3. UdpTypeOK' /\ StrandTypeOK' /\ Positions' /\ EntersAlone' /\ Rosters'
      /\ EndpointsHoldTokens' /\ HelloWasTold'
  BY <1>2, KeptUdpTypeOK, KeptStrandTypeOK, KeptPositions, KeptEntersAlone, KeptRosters,
     KeptEndpointsHoldTokens, KeptHelloWasTold
<1>4. TickTypeOK'
  BY <1>1, <1>2 DEF TickTypeOK, TickAt
<1>5. KnownDungeons'
  <2>1. \A d \in D : d < nextDungeonId
    BY <1>c, SeatsAreOld
  <2>2. ASSUME NEW d \in DungeonIds, NEW x \in Sessions, <<d, x>> \in tickRemoved'
        PROVE  d < nextDungeonId
    BY <2>2, <1>1, SeatsAreOld
  <2> QED  BY <2>1, <2>2, <1>1, <1>2 DEF KnownDungeons
<1>6. KnownSessions'
  BY <1>1, <1>2 DEF KnownSessions
<1>7. TickPosition'
  BY <1>1, <1>2 DEF TickPosition, InWaitingLoop, Live
<1>8. TickTimes'
  BY <1>1, <1>2 DEF TickTimes
<1>9. TimesListed'
  BY <1>1, <1>2, ServerFacts DEF TimesListed, InWaitingLoop
<1>10. UdpFollows'
  <2>1. \A d \in DungeonIds : Live(d)' <=> Live(d) /\ d \notin D
    BY <1>1 DEF Live
  <2>2. \A d \in DungeonIds : Releasing(d) \/ d \in D => Releasing(d)'
    BY <1>1, <1>2 DEF Releasing
  <2>3. \A d \in DungeonIds : dungeonState'[d] \in {"Running", "Finished"} => dungeonState[d] \in {"Running", "Finished"}
    BY <1>1
  <2>4. ASSUME NEW t \in Sessions, at[t] = "release"
        PROVE  ~Live(dungeonOf[t])'
    <3>1. dungeonOf[t] \in DungeonIds
      BY <2>4 DEF Positions, EnterSteps, StrandTypeOK
    <3> QED  BY <3>1, <2>1, <2>4, <1>2 DEF UdpFollows
  <2> QED  BY <2>1, <2>2, <2>3, <2>4, <1>2 DEF UdpFollows
<1>11. NewDungeonYoung'
  <2>1. ASSUME NEW d \in DungeonIds, Young(d)
        PROVE  Young(d)'
    <3>1. SweptFrom(d) = {} /\ d \notin D
      BY <2>1, <1>a
    <3>2. /\ dungeonState'[d] = dungeonState[d] /\ dungeonAge'[d] = dungeonAge[d]
          /\ \A x \in Sessions : disconnectedSince'[d][x] = disconnectedSince[d][x]
      BY <3>1, <1>1
    <3> QED  BY <3>2, <2>1, <1>1, <1>2 DEF Young
  <2>2. \A t \in Sessions : at[t] \in {"roster", "allocate"} => dungeonOf[t] \in DungeonIds
    BY DEF Positions, EnterSteps, StrandTypeOK
  <2> QED  BY <2>1, <2>2, <1>2 DEF NewDungeonYoung
<1>12. Departed'
  <2>1. \A d \in DungeonIds, x \in Sessions : disconnectedSince'[d][x] # None => disconnectedSince[d][x] # None
    BY <1>1
  <2> QED  BY <2>1, <1>2 DEF Departed
<1>13. OldSeats'
  <2>1. \A d \in DungeonIds : (Live(d)' => Live(d) /\ d \notin D) /\ players'[d] \subseteq players[d]
    BY <1>1 DEF Live
  <2>2. ASSUME NEW t \in Sessions, reconnecting[t] # None, Live(reconnecting[t].dungeon)'
        PROVE  Live(reconnecting[t].dungeon) /\ reconnecting[t].old \notin players'[reconnecting[t].dungeon]
    BY <2>1, <2>2, ReconnectTypes, <1>2 DEF OldSeats
  <2>3. ASSUME NEW d \in DungeonIds, NEW x \in Sessions, <<d, x>> \in tickRemoved', Live(d)'
        PROVE  /\ connection[x] = "Closed" /\ x \notin players'[d]
               /\ \A t \in Sessions : reconnecting[t] # None /\ reconnecting[t].dungeon = d
                                       => reconnecting[t].old # x
    <3>1. d \notin D /\ Live(d) /\ x \in SweptFrom(d)
      BY <2>1, <2>3, <1>1
    <3>2. x \in players[d] /\ connection[x] = "Closed"
      BY <3>1, <1>b
    <3>3. x \notin players'[d]
      BY <3>1, <1>1
    <3> QED  BY <3>1, <3>2, <3>3 DEF OldSeats
  <2>4. \A s, t \in Sessions :
          reconnecting[s] # None /\ reconnecting[t] # None /\ Live(reconnecting[s].dungeon)'
          /\ reconnecting[s].dungeon = reconnecting[t].dungeon
          /\ reconnecting[s].old = reconnecting[t].old => s = t
    BY <2>2 DEF OldSeats
  <2> QED  BY <2>2, <2>3, <2>4, <1>2 DEF OldSeats, Live
<1>14. TokenFollowsSeat'
  <2>1. ASSUME NEW x \in Sessions, at[x] \in InUse, NEW d \in DungeonIds, d \notin D
        PROVE  x \in players'[d] <=> x \in players[d]
    <3>1. x \notin SweptFrom(d)
      BY <2>1, <1>b DEF Positions
    <3> QED  BY <2>1, <3>1, <1>1
  <2>2. ASSUME NEW t \in Sessions, at[t] = "allocate"
        PROVE  dungeonOf[t] \in DungeonIds /\ dungeonOf[t] \notin D
    BY <2>2, <1>a DEF Positions, EnterSteps, StrandTypeOK, NewDungeonYoung
  <2>3. \A d \in DungeonIds : Live(d)' => Live(d) /\ d \notin D
    BY <1>1 DEF Live
  <2> QED  BY <2>1, <2>2, <2>3, <1>2 DEF TokenFollowsSeat
<1>15. ReconnectOneSeat'
  <2>1. \A d \in DungeonIds : players'[d] \subseteq players[d]
    BY <1>1
  <2> QED  BY <2>1, <1>2 DEF ReconnectOneSeat
<1>16. VanishedSeats'
  <2>1. ASSUME NEW d \in DungeonIds, NEW x \in Sessions, Vanished(d, x)'
        PROVE  /\ Vanished(d, x) /\ dungeonState'[d] = dungeonState[d]
               /\ disconnectedSince'[d][x] = disconnectedSince[d][x]
    <3>1. d \notin D /\ x \in players[d] /\ x \notin SweptFrom(d)
      BY <2>1, <1>1 DEF Vanished, Live
    <3> QED  BY <3>1, <2>1, <1>1 DEF Vanished, Live
  <2> QED  BY <2>1, <1>1, <1>2 DEF VanishedSeats
<1> QED  BY <1>3, <1>4, <1>5, <1>6, <1>7, <1>8, <1>9, <1>10, <1>11, <1>12, <1>13,
            <1>14, <1>15, <1>16

\* The token of a seat that was swept goes; its owner is not connected.
LEMMA TickRemovePreserves ==
    ASSUME ServerInv, DungeonInv, PartyInv, DungeonInv', TickRemove
    PROVE  ServerInv'
<1> USE DEF ServerInv
<1> PICK d \in DungeonIds, x \in Sessions :
          /\ <<d, x>> \in tickRemoved /\ UdpRemoveParticipant(d, x)
          /\ tickRemoved' = tickRemoved \ {<<d, x>>}
  <2> PICK r \in tickRemoved : UdpRemoveParticipant(r[1], r[2]) /\ tickRemoved' = tickRemoved \ {r}
    BY DEF TickRemove
  <2> r[1] \in DungeonIds /\ r[2] \in Sessions /\ r = <<r[1], r[2]>>
    BY DEF TickTypeOK
  <2> QED  OBVIOUS
<1>1. /\ tickAt = "remove"
      /\ tickRemoved' = tickRemoved \ {<<d, x>>}
      /\ udpTokens' = [udpTokens EXCEPT ![d] = udpTokens[d] \ {x}]
      /\ udpEndpoints' = [udpEndpoints EXCEPT ![d] = udpEndpoints[d] \ {x}]
      /\ Live(d) => connection[x] = "Closed" /\ x \notin players[d]
  BY DEF TickRemove, UdpRemoveParticipant, OldSeats
<1>2. UNCHANGED <<joinedParties, dungeonState, dungeonAge, players,
        participantPlayerIds, disconnectedSince, authenticatedPlayers, nextDungeonId,
        connection, reconnecting, udpAllocated, at, dungeonOf, rosterOf, told, tickAt,
        tickTodo, tickDungeon, tickWaiting, waitingSince, finishedSince>>
  BY DEF TickRemove, UdpRemoveParticipant, OldSeats, partyVars, udpVars, tickVars,
      sessionVars, dungeonVars, instanceVars, identityVars
<1>3. StrandTypeOK' /\ Positions' /\ EntersAlone' /\ Rosters' /\ TickPosition'
      /\ TickTimes' /\ TimesListed' /\ UdpFollows' /\ NewDungeonYoung' /\ Departed'
  BY <1>2, KeptStrandTypeOK, KeptPositions, KeptEntersAlone, KeptRosters,
     KeptTickPosition, KeptTickTimes, KeptTimesListed, KeptUdpFollows,
     KeptNewDungeonYoung, KeptDeparted
<1>4. UdpTypeOK'
  BY <1>1, <1>2, ServerFacts DEF UdpTypeOK
<1>5. TickTypeOK'
  BY <1>1, <1>2, ServerFacts DEF TickTypeOK, TickAt
<1>6. KnownDungeons'
  BY <1>1, <1>2, ServerFacts DEF KnownDungeons
<1>7. KnownSessions'
  BY <1>1, <1>2, ServerFacts DEF KnownSessions, UdpTypeOK
<1>8. OldSeats'
  BY <1>1, <1>2, ServerFacts DEF OldSeats, Live
<1>9. EndpointsHoldTokens'
  BY <1>1, <1>2, ServerFacts DEF EndpointsHoldTokens, UdpTypeOK
<1>10. TokenFollowsSeat'
  BY <1>1, <1>2, ServerFacts DEF TokenFollowsSeat, InUse, EnterSteps, Live, Positions, UdpTypeOK
<1>11. ReconnectOneSeat'
  BY <1>1, <1>2, ServerFacts DEF ReconnectOneSeat, UdpTypeOK
<1>12. HelloWasTold'
  BY <1>1, <1>2, ServerFacts DEF HelloWasTold, UdpTypeOK
<1>13. VanishedSeats'
  BY <1>1, <1>2, ServerFacts DEF VanishedSeats, Vanished, Leaving, Live, UdpTypeOK
<1> QED  BY <1>3, <1>4, <1>5, <1>6, <1>7, <1>8, <1>9, <1>10, <1>11, <1>12, <1>13

\* A dungeon that was swept loses its UDP session and its times.
LEMMA TickReleasePreserves ==
    ASSUME ServerInv, DungeonInv, PartyInv, DungeonInv', TickRelease
    PROVE  ServerInv'
<1> USE DEF ServerInv
<1> PICK d \in DungeonIds : /\ d \in tickTodo /\ UdpRelease(d) /\ tickTodo' = tickTodo \ {d}
                              /\ waitingSince' = WithoutTime(waitingSince, d)
                              /\ finishedSince' = WithoutTime(finishedSince, d)
  BY DEF TickRelease, TickTypeOK
<1>1. /\ tickAt = "remove" /\ tickTodo' = tickTodo \ {d} /\ ~Live(d)
      /\ udpAllocated' = udpAllocated \ {d}
      /\ udpTokens' = [udpTokens EXCEPT ![d] = {}]
      /\ udpEndpoints' = [udpEndpoints EXCEPT ![d] = {}]
      /\ waitingSince' = [waitingSince EXCEPT ![d] = None]
      /\ finishedSince' = [finishedSince EXCEPT ![d] = None]
  BY DEF TickRelease, UdpRelease, WithoutTime, TickPosition
<1>2. UNCHANGED <<joinedParties, dungeonState, dungeonAge, players,
        participantPlayerIds, disconnectedSince, authenticatedPlayers, nextDungeonId,
        connection, reconnecting, at, dungeonOf, rosterOf, told, tickAt, tickRemoved,
        tickDungeon, tickWaiting>>
  BY DEF TickRelease, UdpRelease, WithoutTime, TickPosition, partyVars, udpVars,
      tickVars, sessionVars, dungeonVars, instanceVars, identityVars
<1>3. StrandTypeOK' /\ Positions' /\ EntersAlone' /\ Rosters' /\ Departed' /\ OldSeats'
  BY <1>2, KeptStrandTypeOK, KeptPositions, KeptEntersAlone, KeptRosters, KeptDeparted,
     KeptOldSeats
<1>4. UdpTypeOK'
  BY <1>1, <1>2, ServerFacts DEF UdpTypeOK
<1>5. TickTypeOK'
  BY <1>1, <1>2, ServerFacts DEF TickTypeOK, TickAt
<1>6. KnownDungeons'
  BY <1>1, <1>2, ServerFacts DEF KnownDungeons, TickTypeOK
<1>7. KnownSessions'
  BY <1>1, <1>2, ServerFacts DEF KnownSessions, UdpTypeOK
<1>8. TickPosition'
  BY <1>1, <1>2, ServerFacts DEF TickPosition, InWaitingLoop, Live, TickTypeOK
<1>9. TickTimes'
  BY <1>1, <1>2, ServerFacts DEF TickTimes, Live, TickTypeOK
<1>10. TimesListed'
  BY <1>1, <1>2, ServerFacts DEF TimesListed, InWaitingLoop, TickTypeOK
<1>11. UdpFollows'
  BY <1>1, <1>2, ServerFacts DEF UdpFollows, Releasing, Live
<1>12. NewDungeonYoung'
  BY <1>1, <1>2, ServerFacts DEF NewDungeonYoung, Young, TickTypeOK
<1>13. EndpointsHoldTokens'
  BY <1>1, <1>2, ServerFacts DEF EndpointsHoldTokens, UdpTypeOK
<1>14. TokenFollowsSeat'
  BY <1>1, <1>2, ServerFacts DEF TokenFollowsSeat, InUse, EnterSteps, Live, UdpTypeOK
<1>15. ReconnectOneSeat'
  BY <1>1, <1>2, ServerFacts DEF ReconnectOneSeat, UdpTypeOK
<1>16. HelloWasTold'
  BY <1>1, <1>2, ServerFacts DEF HelloWasTold, UdpTypeOK
<1>17. VanishedSeats'
  BY <1>1, <1>2, ServerFacts DEF VanishedSeats, Vanished, Leaving, Live, UdpTypeOK
<1> QED  BY <1>3, <1>4, <1>5, <1>6, <1>7, <1>8, <1>9, <1>10, <1>11, <1>12, <1>13,
            <1>14, <1>15, <1>16, <1>17

\* The list of waiting dungeons.
LEMMA TickListWaitingPreserves ==
    ASSUME ServerInv, DungeonInv, PartyInv, DungeonInv', TickListWaiting
    PROVE  ServerInv'
<1> USE DEF ServerInv
<1>1. /\ tickAt = "remove" /\ tickAt' = "waiting" /\ tickDungeon' = None
      /\ tickTodo = {} /\ tickTodo' = {d \in DungeonIds : dungeonState[d] = "Waiting"}
      /\ tickWaiting' \in SUBSET DungeonIds
  BY DEF TickListWaiting, TickGoto, InState
<1>2. UNCHANGED <<joinedParties, dungeonState, dungeonAge, players,
        participantPlayerIds, disconnectedSince, authenticatedPlayers, nextDungeonId,
        connection, reconnecting, udpAllocated, udpTokens, udpEndpoints, at, dungeonOf,
        rosterOf, told, tickRemoved, waitingSince, finishedSince>>
  BY DEF TickListWaiting, TickGoto, InState, partyVars, udpVars, tickVars, sessionVars,
      dungeonVars, instanceVars, identityVars
<1>3. UdpTypeOK' /\ StrandTypeOK' /\ Positions' /\ EntersAlone' /\ Rosters'
      /\ KnownSessions' /\ Departed' /\ OldSeats' /\ EndpointsHoldTokens'
      /\ TokenFollowsSeat' /\ ReconnectOneSeat' /\ HelloWasTold'
  BY <1>2, KeptUdpTypeOK, KeptStrandTypeOK, KeptPositions, KeptEntersAlone, KeptRosters,
     KeptKnownSessions, KeptDeparted, KeptOldSeats, KeptEndpointsHoldTokens,
     KeptTokenFollowsSeat, KeptReconnectOneSeat, KeptHelloWasTold
<1>4. TickTypeOK'
  BY <1>1, <1>2, ServerFacts DEF TickTypeOK, TickAt
<1>5. KnownDungeons'
  <2>1. \A d \in tickTodo' : d \in DungeonIds /\ d < nextDungeonId
    BY <1>1, SeatsAreOld DEF Live
  <2> QED  BY <2>1, <1>1, <1>2 DEF KnownDungeons
<1>6. TickPosition'
  BY <1>1, <1>2, ServerFacts DEF TickPosition, InWaitingLoop, Live, TickTypeOK
<1>7. TickTimes'
  BY <1>1, <1>2, ServerFacts DEF TickTimes
<1>8. TimesListed'
  BY <1>1, <1>2, ServerFacts DEF TimesListed, InWaitingLoop
<1>9. UdpFollows'
  BY <1>1, <1>2, ServerFacts DEF UdpFollows, Releasing, Live
<1>10. NewDungeonYoung'
  BY <1>1, <1>2, ServerFacts DEF NewDungeonYoung, Young, Positions, EnterSteps, StrandTypeOK
<1>11. VanishedSeats'
  BY <1>1, <1>2, ServerFacts DEF VanishedSeats, Vanished, Leaving, Live
<1> QED  BY <1>3, <1>4, <1>5, <1>6, <1>7, <1>8, <1>9, <1>10, <1>11

\* A waiting dungeon with a disconnected participant is left alone.
LEMMA CheckLeavesPreserves ==
    ASSUME ServerInv, DungeonInv, PartyInv, DungeonInv', tickAt = "waiting",
           NEW d \in tickTodo, tickTodo' = tickTodo \ {d},
           waitingSince' = WithoutTime(waitingSince, d),
           UNCHANGED <<tickAt, tickDungeon>>,
           UNCHANGED <<partyVars, dungeonVars, udpVars, sessionVars, tickRemoved, tickWaiting, finishedSince>>
    PROVE  ServerInv'
<1> USE DEF ServerInv
<1>1. /\ d \in DungeonIds /\ tickTodo' = tickTodo \ {d}
      /\ waitingSince' = [waitingSince EXCEPT ![d] = None]
  BY DEF WithoutTime, TickTypeOK
<1>2. UNCHANGED <<joinedParties, dungeonState, dungeonAge, players,
        participantPlayerIds, disconnectedSince, authenticatedPlayers, nextDungeonId,
        connection, reconnecting, udpAllocated, udpTokens, udpEndpoints, at, dungeonOf,
        rosterOf, told, tickAt, tickRemoved, tickDungeon, tickWaiting, finishedSince>>
  BY DEF WithoutTime, TickTypeOK, partyVars, udpVars, tickVars, sessionVars,
      dungeonVars, instanceVars, identityVars
<1>3. UdpTypeOK' /\ StrandTypeOK' /\ Positions' /\ EntersAlone' /\ Rosters'
      /\ KnownSessions' /\ Departed' /\ OldSeats' /\ EndpointsHoldTokens'
      /\ TokenFollowsSeat' /\ ReconnectOneSeat' /\ HelloWasTold' /\ VanishedSeats'
  BY <1>2, KeptUdpTypeOK, KeptStrandTypeOK, KeptPositions, KeptEntersAlone, KeptRosters,
     KeptKnownSessions, KeptDeparted, KeptOldSeats, KeptEndpointsHoldTokens,
     KeptTokenFollowsSeat, KeptReconnectOneSeat, KeptHelloWasTold,
     KeptVanishedSeats
<1>4. TickTypeOK'
  BY <1>1, <1>2, ServerFacts DEF TickTypeOK, TickAt
<1>5. KnownDungeons'
  BY <1>1, <1>2, ServerFacts DEF KnownDungeons, TickTypeOK
<1>6. TickPosition'
  BY <1>1, <1>2, ServerFacts DEF TickPosition, InWaitingLoop, Live, TickTypeOK
<1>7. TickTimes'
  BY <1>1, <1>2, ServerFacts DEF TickTimes, TickTypeOK
<1>8. TimesListed'
  BY <1>1, <1>2, ServerFacts DEF TimesListed, InWaitingLoop, TickTypeOK
<1>9. UdpFollows'
  BY <1>1, <1>2, ServerFacts DEF UdpFollows, Releasing, Live
<1>10. NewDungeonYoung'
  BY <1>1, <1>2, ServerFacts DEF NewDungeonYoung, Young, TickTypeOK
<1> QED  BY <1>3, <1>4, <1>5, <1>6, <1>7, <1>8, <1>9, <1>10

\* The other waiting dungeons are looked at.
LEMMA CheckGoesPreserves ==
    ASSUME ServerInv, DungeonInv, PartyInv, DungeonInv', tickAt = "waiting",
           NEW d \in tickTodo, tickTodo' = tickTodo \ {d}, TickGoto("auth", d),
           UNCHANGED waitingSince,
           UNCHANGED <<partyVars, dungeonVars, udpVars, sessionVars, tickRemoved, tickWaiting, finishedSince>>
    PROVE  ServerInv'
<1> USE DEF ServerInv
<1>1. /\ d \in DungeonIds /\ d < nextDungeonId /\ tickTodo' = tickTodo \ {d}
      /\ tickAt = "waiting" /\ tickAt' = "auth" /\ tickDungeon' = d
      /\ dungeonState[d] \in {"Waiting", "Absent"}
  BY DEF TickGoto, TickTypeOK, KnownDungeons, TickPosition, InWaitingLoop
<1>2. UNCHANGED <<joinedParties, dungeonState, dungeonAge, players,
        participantPlayerIds, disconnectedSince, authenticatedPlayers, nextDungeonId,
        connection, reconnecting, udpAllocated, udpTokens, udpEndpoints, at, dungeonOf,
        rosterOf, told, tickRemoved, tickWaiting, waitingSince, finishedSince>>
  BY DEF TickGoto, TickTypeOK, KnownDungeons, TickPosition, InWaitingLoop, partyVars,
      udpVars, tickVars, sessionVars, dungeonVars, instanceVars, identityVars
<1>3. UdpTypeOK' /\ StrandTypeOK' /\ Positions' /\ EntersAlone' /\ Rosters'
      /\ KnownSessions' /\ Departed' /\ OldSeats' /\ EndpointsHoldTokens'
      /\ TokenFollowsSeat' /\ ReconnectOneSeat' /\ HelloWasTold'
  BY <1>2, KeptUdpTypeOK, KeptStrandTypeOK, KeptPositions, KeptEntersAlone, KeptRosters,
     KeptKnownSessions, KeptDeparted, KeptOldSeats, KeptEndpointsHoldTokens,
     KeptTokenFollowsSeat, KeptReconnectOneSeat, KeptHelloWasTold
<1>4. TickTypeOK'
  BY <1>1, <1>2, ServerFacts DEF TickTypeOK, TickAt
<1>5. KnownDungeons'
  BY <1>1, <1>2, ServerFacts DEF KnownDungeons
<1>6. TickPosition'
  BY <1>1, <1>2, ServerFacts DEF TickPosition, InWaitingLoop, Live, TickTypeOK
<1>7. TickTimes'
  BY <1>1, <1>2, ServerFacts DEF TickTimes
<1>8. TimesListed'
  BY <1>1, <1>2, ServerFacts DEF TimesListed, InWaitingLoop
<1>9. UdpFollows'
  BY <1>1, <1>2, ServerFacts DEF UdpFollows, Releasing, Live
<1>10. NewDungeonYoung'
  BY <1>1, <1>2, ServerFacts DEF NewDungeonYoung, Young
<1>11. VanishedSeats'
  BY <1>1, <1>2, ServerFacts DEF VanishedSeats, Vanished, Leaving, Live
<1> QED  BY <1>3, <1>4, <1>5, <1>6, <1>7, <1>8, <1>9, <1>10, <1>11

\* Everybody who holds a token has authenticated: nobody has vanished from this dungeon.
LEMMA AuthStartsPreserves ==
    ASSUME ServerInv, DungeonInv, PartyInv, DungeonInv', tickAt = "auth",
           UdpAllAuthenticated(tickDungeon), TickGoto("start", tickDungeon),
           UNCHANGED waitingSince,
           UNCHANGED <<partyVars, dungeonVars, udpVars, sessionVars, tickRemoved, tickTodo, tickWaiting, finishedSince>>
    PROVE  ServerInv'
<1> USE DEF ServerInv
<1> PICK d \in DungeonIds : d = tickDungeon
  BY ServerFacts DEF TickPosition, TickTypeOK
<1>1. /\ tickAt = "auth" /\ tickAt' = "start" /\ tickDungeon' = d
      /\ d = tickDungeon /\ d \in udpAllocated /\ udpEndpoints[d] = udpTokens[d]
  BY DEF TickGoto, UdpAllAuthenticated
<1>2. UNCHANGED <<joinedParties, dungeonState, dungeonAge, players,
        participantPlayerIds, disconnectedSince, authenticatedPlayers, nextDungeonId,
        connection, reconnecting, udpAllocated, udpTokens, udpEndpoints, at, dungeonOf,
        rosterOf, told, tickRemoved, tickTodo, tickWaiting, waitingSince, finishedSince>>
  BY DEF TickGoto, UdpAllAuthenticated, partyVars, udpVars, tickVars, sessionVars,
      dungeonVars, instanceVars, identityVars
<1>3. UdpTypeOK' /\ StrandTypeOK' /\ Positions' /\ EntersAlone' /\ Rosters'
      /\ KnownSessions' /\ Departed' /\ OldSeats' /\ EndpointsHoldTokens'
      /\ TokenFollowsSeat' /\ ReconnectOneSeat' /\ HelloWasTold'
  BY <1>2, KeptUdpTypeOK, KeptStrandTypeOK, KeptPositions, KeptEntersAlone, KeptRosters,
     KeptKnownSessions, KeptDeparted, KeptOldSeats, KeptEndpointsHoldTokens,
     KeptTokenFollowsSeat, KeptReconnectOneSeat, KeptHelloWasTold
<1>4. TickTypeOK'
  BY <1>1, <1>2, ServerFacts DEF TickTypeOK, TickAt
<1>5. KnownDungeons'
  BY <1>1, <1>2, ServerFacts DEF KnownDungeons
<1>6. TickPosition'
  BY <1>1, <1>2, ServerFacts DEF TickPosition, InWaitingLoop, Live, TickTypeOK
<1>7. TickTimes'
  BY <1>1, <1>2, ServerFacts DEF TickTimes
<1>8. TimesListed'
  BY <1>1, <1>2, ServerFacts DEF TimesListed, InWaitingLoop
<1>9. UdpFollows'
  BY <1>1, <1>2, ServerFacts DEF UdpFollows, Releasing, Live
<1>10. NewDungeonYoung'
  BY <1>1, <1>2, ServerFacts DEF NewDungeonYoung, Young
<1>11. VanishedSeats'
  BY <1>1, <1>2, ServerFacts DEF VanishedSeats, Vanished, Leaving, Live, HelloWasTold
<1> QED  BY <1>3, <1>4, <1>5, <1>6, <1>7, <1>8, <1>9, <1>10, <1>11

\* The ready timeout runs on.
LEMMA AuthWaitsPreserves ==
    ASSUME ServerInv, DungeonInv, PartyInv, DungeonInv', tickAt = "auth",
           waitingSince' = [waitingSince EXCEPT ![tickDungeon] = IF @ = None THEN 0 ELSE @],
           TickGoto("waiting", None),
           UNCHANGED <<partyVars, dungeonVars, udpVars, sessionVars, tickRemoved, tickTodo, tickWaiting, finishedSince>>
    PROVE  ServerInv'
<1> USE DEF ServerInv
<1> PICK d \in DungeonIds : d = tickDungeon
  BY ServerFacts DEF TickPosition, TickTypeOK
<1>1. /\ tickAt = "auth" /\ tickAt' = "waiting" /\ tickDungeon' = None
      /\ d = tickDungeon /\ d < nextDungeonId /\ dungeonState[d] \in {"Waiting", "Absent"}
      /\ waitingSince' = [waitingSince EXCEPT ![d] = IF waitingSince[d] = None THEN 0 ELSE waitingSince[d]]
  BY ServerFacts DEF TickGoto, KnownDungeons, TickPosition
<1>2. UNCHANGED <<joinedParties, dungeonState, dungeonAge, players,
        participantPlayerIds, disconnectedSince, authenticatedPlayers, nextDungeonId,
        connection, reconnecting, udpAllocated, udpTokens, udpEndpoints, at, dungeonOf,
        rosterOf, told, tickRemoved, tickTodo, tickWaiting, finishedSince>>
  BY DEF TickGoto, KnownDungeons, TickPosition, partyVars, udpVars, tickVars,
      sessionVars, dungeonVars, instanceVars, identityVars
<1>3. UdpTypeOK' /\ StrandTypeOK' /\ Positions' /\ EntersAlone' /\ Rosters'
      /\ KnownSessions' /\ Departed' /\ OldSeats' /\ EndpointsHoldTokens'
      /\ TokenFollowsSeat' /\ ReconnectOneSeat' /\ HelloWasTold'
  BY <1>2, KeptUdpTypeOK, KeptStrandTypeOK, KeptPositions, KeptEntersAlone, KeptRosters,
     KeptKnownSessions, KeptDeparted, KeptOldSeats, KeptEndpointsHoldTokens,
     KeptTokenFollowsSeat, KeptReconnectOneSeat, KeptHelloWasTold
<1>4. TickTypeOK'
  BY <1>1, <1>2, ServerFacts DEF TickTypeOK, TickAt
<1>5. KnownDungeons'
  BY <1>1, <1>2, ServerFacts DEF KnownDungeons, TickTypeOK
<1>6. TickPosition'
  BY <1>1, <1>2, ServerFacts DEF TickPosition, InWaitingLoop, Live, TickTypeOK
<1>7. TickTimes'
  BY <1>1, <1>2, ServerFacts DEF TickTimes, TickTypeOK
<1>8. TimesListed'
  BY <1>1, <1>2, ServerFacts DEF TimesListed, InWaitingLoop, TickTypeOK
<1>9. UdpFollows'
  BY <1>1, <1>2, ServerFacts DEF UdpFollows, Releasing, Live
<1>10. NewDungeonYoung'
  BY <1>1, <1>2, ServerFacts DEF NewDungeonYoung, Young, TickTypeOK
<1>11. VanishedSeats'
  BY <1>1, <1>2, ServerFacts DEF VanishedSeats, Vanished, Leaving, Live
<1> QED  BY <1>3, <1>4, <1>5, <1>6, <1>7, <1>8, <1>9, <1>10, <1>11

\* The ready timeout has run out: the dungeon is not one that is being entered.
LEMMA AuthCancelsPreserves ==
    ASSUME ServerInv, DungeonInv, PartyInv, DungeonInv', tickAt = "auth",
           waitingSince[tickDungeon] = ReadyTimeout, TickGoto("cancel", tickDungeon),
           UNCHANGED waitingSince,
           UNCHANGED <<partyVars, dungeonVars, udpVars, sessionVars, tickRemoved, tickTodo, tickWaiting, finishedSince>>
    PROVE  ServerInv'
<1> USE DEF ServerInv
<1> PICK d \in DungeonIds : d = tickDungeon
  BY ServerFacts DEF TickPosition, TickTypeOK
<1>1. /\ tickAt = "auth" /\ tickAt' = "cancel" /\ tickDungeon' = d
      /\ d = tickDungeon /\ waitingSince[d] \notin {None, 0}
  BY ServerFacts DEF TickGoto
<1>2. UNCHANGED <<joinedParties, dungeonState, dungeonAge, players,
        participantPlayerIds, disconnectedSince, authenticatedPlayers, nextDungeonId,
        connection, reconnecting, udpAllocated, udpTokens, udpEndpoints, at, dungeonOf,
        rosterOf, told, tickRemoved, tickTodo, tickWaiting, waitingSince, finishedSince>>
  BY DEF TickGoto, partyVars, udpVars, tickVars, sessionVars, dungeonVars, instanceVars,
      identityVars
<1>3. UdpTypeOK' /\ StrandTypeOK' /\ Positions' /\ EntersAlone' /\ Rosters'
      /\ KnownSessions' /\ Departed' /\ OldSeats' /\ EndpointsHoldTokens'
      /\ TokenFollowsSeat' /\ ReconnectOneSeat' /\ HelloWasTold'
  BY <1>2, KeptUdpTypeOK, KeptStrandTypeOK, KeptPositions, KeptEntersAlone, KeptRosters,
     KeptKnownSessions, KeptDeparted, KeptOldSeats, KeptEndpointsHoldTokens,
     KeptTokenFollowsSeat, KeptReconnectOneSeat, KeptHelloWasTold
<1>4. TickTypeOK'
  BY <1>1, <1>2, ServerFacts DEF TickTypeOK, TickAt
<1>5. KnownDungeons'
  BY <1>1, <1>2, ServerFacts DEF KnownDungeons
<1>6. TickPosition'
  BY <1>1, <1>2, ServerFacts DEF TickPosition, InWaitingLoop, Live, TickTypeOK
<1>7. TickTimes'
  BY <1>1, <1>2, ServerFacts DEF TickTimes
<1>8. TimesListed'
  BY <1>1, <1>2, ServerFacts DEF TimesListed, InWaitingLoop
<1>9. UdpFollows'
  BY <1>1, <1>2, ServerFacts DEF UdpFollows, Releasing, Live
<1>10. NewDungeonYoung'
  BY <1>1, <1>2, ServerFacts DEF NewDungeonYoung, Young
<1>11. VanishedSeats'
  BY <1>1, <1>2, ServerFacts DEF VanishedSeats, Vanished, Leaving, Live
<1> QED  BY <1>3, <1>4, <1>5, <1>6, <1>7, <1>8, <1>9, <1>10, <1>11

\* The dungeon starts, with a UDP session and with nobody vanished.
LEMMA StartDonePreserves ==
    ASSUME ServerInv, DungeonInv, PartyInv, DungeonInv', tickAt = "start",
           StartDungeon(tickDungeon),
           waitingSince' = WithoutTime(waitingSince, tickDungeon),
           TickGoto("waiting", None),
           UNCHANGED <<partyVars, udpVars, sessionVars, tickRemoved, tickTodo, tickWaiting, finishedSince>>
    PROVE  ServerInv'
<1> USE DEF ServerInv
<1> PICK d \in DungeonIds : d = tickDungeon
  BY ServerFacts DEF TickPosition, TickTypeOK
<1>1. /\ tickAt = "start" /\ tickAt' = "waiting" /\ tickDungeon' = None
      /\ d = tickDungeon /\ dungeonState[d] = "Waiting" /\ d \in udpAllocated /\ d \notin tickTodo
      /\ dungeonState' = [dungeonState EXCEPT ![d] = "Running"]
      /\ waitingSince' = [waitingSince EXCEPT ![d] = None]
  BY DEF TickGoto, StartDungeon, CanStart, WithoutTime, TickPosition, InWaitingLoop,
      Live
<1>2. UNCHANGED <<joinedParties, dungeonAge, players, participantPlayerIds,
        disconnectedSince, authenticatedPlayers, nextDungeonId, connection,
        reconnecting, udpAllocated, udpTokens, udpEndpoints, at, dungeonOf, rosterOf,
        told, tickRemoved, tickTodo, tickWaiting, finishedSince>>
  BY DEF TickGoto, StartDungeon, CanStart, WithoutTime, TickPosition, InWaitingLoop,
      Live, partyVars, udpVars, tickVars, sessionVars, dungeonVars,
      instanceVars, identityVars
<1>t. /\ dungeonState \in [DungeonIds -> States]
  BY DEF DungeonInv, DungeonTypeOK
<1>3. UdpTypeOK' /\ StrandTypeOK' /\ Positions' /\ EntersAlone' /\ Rosters'
      /\ KnownSessions' /\ Departed' /\ EndpointsHoldTokens' /\ ReconnectOneSeat'
      /\ HelloWasTold'
  BY <1>2, KeptUdpTypeOK, KeptStrandTypeOK, KeptPositions, KeptEntersAlone, KeptRosters,
     KeptKnownSessions, KeptDeparted, KeptEndpointsHoldTokens,
     KeptReconnectOneSeat, KeptHelloWasTold
<1>4. TickTypeOK'
  BY <1>1, <1>2, ServerFacts DEF TickTypeOK, TickAt
<1>5. KnownDungeons'
  BY <1>1, <1>2, ServerFacts DEF KnownDungeons, TickTypeOK
<1>6. TickPosition'
  BY <1>1, <1>2, ServerFacts, <1>t DEF TickPosition, InWaitingLoop, Live, TickTypeOK
<1>7. TickTimes'
  BY <1>1, <1>2, ServerFacts, <1>t DEF TickTimes, TickTypeOK
<1>8. TimesListed'
  BY <1>1, <1>2, ServerFacts DEF TimesListed, InWaitingLoop, TickTypeOK
<1>9. UdpFollows'
  BY <1>1, <1>2, ServerFacts, <1>t DEF UdpFollows, Releasing, Live
<1>10. NewDungeonYoung'
  BY <1>1, <1>2, ServerFacts, <1>t DEF NewDungeonYoung, Young, TickTypeOK
<1>11. OldSeats'
  BY <1>1, <1>2, ServerFacts, <1>t DEF OldSeats, Live
<1>12. TokenFollowsSeat'
  BY <1>1, <1>2, ServerFacts, <1>t DEF TokenFollowsSeat, InUse, EnterSteps, Live
<1>13. VanishedSeats'
  BY <1>1, <1>2, ServerFacts, <1>t DEF VanishedSeats, Vanished, Leaving, Live
<1> QED  BY <1>3, <1>4, <1>5, <1>6, <1>7, <1>8, <1>9, <1>10, <1>11, <1>12, <1>13

\* The dungeon is gone: StartDungeon returns false.
LEMMA StartRefusedPreserves ==
    ASSUME ServerInv, DungeonInv, PartyInv, DungeonInv', tickAt = "start",
           UNCHANGED dungeonVars,
           waitingSince' = WithoutTime(waitingSince, tickDungeon),
           TickGoto("waiting", None),
           UNCHANGED <<partyVars, udpVars, sessionVars, tickRemoved, tickTodo, tickWaiting, finishedSince>>
    PROVE  ServerInv'
<1> USE DEF ServerInv
<1> PICK d \in DungeonIds : d = tickDungeon
  BY ServerFacts DEF TickPosition, TickTypeOK
<1>1. /\ tickAt = "start" /\ tickAt' = "waiting" /\ tickDungeon' = None
      /\ waitingSince' = [waitingSince EXCEPT ![d] = None]
  BY DEF TickGoto, WithoutTime
<1>2. UNCHANGED <<joinedParties, dungeonState, dungeonAge, players,
        participantPlayerIds, disconnectedSince, authenticatedPlayers, nextDungeonId,
        connection, reconnecting, udpAllocated, udpTokens, udpEndpoints, at, dungeonOf,
        rosterOf, told, tickRemoved, tickTodo, tickWaiting, finishedSince>>
  BY DEF TickGoto, WithoutTime, partyVars, udpVars, tickVars, sessionVars, dungeonVars,
      instanceVars, identityVars
<1>3. UdpTypeOK' /\ StrandTypeOK' /\ Positions' /\ EntersAlone' /\ Rosters'
      /\ KnownSessions' /\ Departed' /\ OldSeats' /\ EndpointsHoldTokens'
      /\ TokenFollowsSeat' /\ ReconnectOneSeat' /\ HelloWasTold'
  BY <1>2, KeptUdpTypeOK, KeptStrandTypeOK, KeptPositions, KeptEntersAlone, KeptRosters,
     KeptKnownSessions, KeptDeparted, KeptOldSeats, KeptEndpointsHoldTokens,
     KeptTokenFollowsSeat, KeptReconnectOneSeat, KeptHelloWasTold
<1>4. TickTypeOK'
  BY <1>1, <1>2, ServerFacts DEF TickTypeOK, TickAt
<1>5. KnownDungeons'
  BY <1>1, <1>2, ServerFacts DEF KnownDungeons, TickTypeOK
<1>6. TickPosition'
  BY <1>1, <1>2, ServerFacts DEF TickPosition, InWaitingLoop, Live, TickTypeOK
<1>7. TickTimes'
  BY <1>1, <1>2, ServerFacts DEF TickTimes, TickTypeOK
<1>8. TimesListed'
  BY <1>1, <1>2, ServerFacts DEF TimesListed, InWaitingLoop, TickTypeOK
<1>9. UdpFollows'
  BY <1>1, <1>2, ServerFacts DEF UdpFollows, Releasing, Live
<1>10. NewDungeonYoung'
  BY <1>1, <1>2, ServerFacts DEF NewDungeonYoung, Young, TickTypeOK
<1>11. VanishedSeats'
  BY <1>1, <1>2, ServerFacts DEF VanishedSeats, Vanished, Leaving, Live
<1> QED  BY <1>3, <1>4, <1>5, <1>6, <1>7, <1>8, <1>9, <1>10, <1>11

\* The ready timeout erases the dungeon, which will be released next.
LEMMA CancelErasesPreserves ==
    ASSUME ServerInv, DungeonInv, PartyInv, DungeonInv', tickAt = "cancel",
           CancelDungeon(tickDungeon), TickGoto("cancelRelease", tickDungeon),
           waitingSince' = WithoutTime(waitingSince, tickDungeon),
           UNCHANGED <<partyVars, udpVars, sessionVars, tickRemoved, tickTodo, tickWaiting, finishedSince>>
    PROVE  ServerInv'
<1> USE DEF ServerInv
<1> PICK d \in DungeonIds : d = tickDungeon
  BY ServerFacts DEF TickPosition, TickTypeOK
<1>1. /\ tickAt = "cancel" /\ tickAt' = "cancelRelease" /\ tickDungeon' = d
      /\ d = tickDungeon /\ dungeonState[d] = "Waiting"
      /\ waitingSince' = [waitingSince EXCEPT ![d] = None]
      /\ dungeonState' = [dungeonState EXCEPT ![d] = "Absent"]
      /\ dungeonAge' = [dungeonAge EXCEPT ![d] = 0]
      /\ players' = [players EXCEPT ![d] = {}]
      /\ participantPlayerIds' = [participantPlayerIds EXCEPT ![d] = [t \in Sessions |-> None]]
      /\ disconnectedSince' = [disconnectedSince EXCEPT ![d] = [t \in Sessions |-> None]]
  BY RemoveErases DEF TickGoto, WithoutTime, CancelDungeon, Erased
<1>2. UNCHANGED <<joinedParties, authenticatedPlayers, nextDungeonId, connection,
        reconnecting, udpAllocated, udpTokens, udpEndpoints, at, dungeonOf, rosterOf,
        told, tickRemoved, tickTodo, tickWaiting, finishedSince>>
  BY DEF TickGoto, WithoutTime, CancelDungeon, Erased, partyVars, udpVars, tickVars,
      sessionVars, dungeonVars, instanceVars, identityVars
<1>t. /\ dungeonState \in [DungeonIds -> States]
      /\ dungeonAge \in [DungeonIds -> 0..MaxDungeonLifetime]
      /\ players \in [DungeonIds -> SUBSET Sessions]
      /\ participantPlayerIds \in [DungeonIds -> [Sessions -> Players \cup {None}]]
      /\ disconnectedSince \in [DungeonIds -> [Sessions -> (0..ReconnectGrace) \cup {None}]]
  BY DEF DungeonInv, DungeonTypeOK
<1>3. UdpTypeOK' /\ StrandTypeOK' /\ Positions' /\ EntersAlone' /\ Rosters'
      /\ EndpointsHoldTokens' /\ HelloWasTold'
  BY <1>2, KeptUdpTypeOK, KeptStrandTypeOK, KeptPositions, KeptEntersAlone, KeptRosters,
     KeptEndpointsHoldTokens, KeptHelloWasTold
<1>4. TickTypeOK'
  BY <1>1, <1>2, ServerFacts DEF TickTypeOK, TickAt
<1>5. KnownDungeons'
  BY <1>1, <1>2, ServerFacts DEF KnownDungeons, TickTypeOK
<1>6. KnownSessions'
  BY <1>1, <1>2, ServerFacts, <1>t DEF KnownSessions
<1>7. TickPosition'
  BY <1>1, <1>2, ServerFacts, <1>t DEF TickPosition, InWaitingLoop, Live, TickTypeOK
<1>8. TickTimes'
  BY <1>1, <1>2, ServerFacts, <1>t DEF TickTimes, TickTypeOK
<1>9. TimesListed'
  BY <1>1, <1>2, ServerFacts DEF TimesListed, InWaitingLoop, TickTypeOK
<1>10. UdpFollows'
  BY <1>1, <1>2, ServerFacts, <1>t DEF UdpFollows, Releasing, Live, Positions, EnterSteps
<1>11. NewDungeonYoung'
  BY <1>1, <1>2, ServerFacts, <1>t DEF NewDungeonYoung, Young, TickTypeOK
<1>12. Departed'
  BY <1>1, <1>2, ServerFacts, <1>t DEF Departed
<1>13. OldSeats'
  BY <1>1, <1>2, ServerFacts, <1>t DEF OldSeats, Live
<1>14. TokenFollowsSeat'
  BY <1>1, <1>2, ServerFacts, <1>t DEF TokenFollowsSeat, InUse, EnterSteps, Live, NewDungeonYoung, Young
<1>15. ReconnectOneSeat'
  BY <1>1, <1>2, ServerFacts, <1>t DEF ReconnectOneSeat
<1>16. VanishedSeats'
  BY <1>1, <1>2, ServerFacts, <1>t DEF VanishedSeats, Vanished, Leaving, Live
<1> QED  BY <1>3, <1>4, <1>5, <1>6, <1>7, <1>8, <1>9, <1>10, <1>11, <1>12, <1>13,
            <1>14, <1>15, <1>16

\* The dungeon is gone or has been started meanwhile.
LEMMA CancelRefusedPreserves ==
    ASSUME ServerInv, DungeonInv, PartyInv, DungeonInv', tickAt = "cancel",
           UNCHANGED dungeonVars, TickGoto("waiting", None),
           waitingSince' = WithoutTime(waitingSince, tickDungeon),
           UNCHANGED <<partyVars, udpVars, sessionVars, tickRemoved, tickTodo, tickWaiting, finishedSince>>
    PROVE  ServerInv'
<1> USE DEF ServerInv
<1> PICK d \in DungeonIds : d = tickDungeon
  BY ServerFacts DEF TickPosition, TickTypeOK
<1>1. /\ tickAt = "cancel" /\ tickAt' = "waiting" /\ tickDungeon' = None
      /\ waitingSince' = [waitingSince EXCEPT ![d] = None]
  BY DEF TickGoto, WithoutTime
<1>2. UNCHANGED <<joinedParties, dungeonState, dungeonAge, players,
        participantPlayerIds, disconnectedSince, authenticatedPlayers, nextDungeonId,
        connection, reconnecting, udpAllocated, udpTokens, udpEndpoints, at, dungeonOf,
        rosterOf, told, tickRemoved, tickTodo, tickWaiting, finishedSince>>
  BY DEF TickGoto, WithoutTime, partyVars, udpVars, tickVars, sessionVars, dungeonVars,
      instanceVars, identityVars
<1>3. UdpTypeOK' /\ StrandTypeOK' /\ Positions' /\ EntersAlone' /\ Rosters'
      /\ KnownSessions' /\ Departed' /\ OldSeats' /\ EndpointsHoldTokens'
      /\ TokenFollowsSeat' /\ ReconnectOneSeat' /\ HelloWasTold'
  BY <1>2, KeptUdpTypeOK, KeptStrandTypeOK, KeptPositions, KeptEntersAlone, KeptRosters,
     KeptKnownSessions, KeptDeparted, KeptOldSeats, KeptEndpointsHoldTokens,
     KeptTokenFollowsSeat, KeptReconnectOneSeat, KeptHelloWasTold
<1>4. TickTypeOK'
  BY <1>1, <1>2, ServerFacts DEF TickTypeOK, TickAt
<1>5. KnownDungeons'
  BY <1>1, <1>2, ServerFacts DEF KnownDungeons, TickTypeOK
<1>6. TickPosition'
  BY <1>1, <1>2, ServerFacts DEF TickPosition, InWaitingLoop, Live, TickTypeOK
<1>7. TickTimes'
  BY <1>1, <1>2, ServerFacts DEF TickTimes, TickTypeOK
<1>8. TimesListed'
  BY <1>1, <1>2, ServerFacts DEF TimesListed, InWaitingLoop, TickTypeOK
<1>9. UdpFollows'
  BY <1>1, <1>2, ServerFacts DEF UdpFollows, Releasing, Live
<1>10. NewDungeonYoung'
  BY <1>1, <1>2, ServerFacts DEF NewDungeonYoung, Young, TickTypeOK
<1>11. VanishedSeats'
  BY <1>1, <1>2, ServerFacts DEF VanishedSeats, Vanished, Leaving, Live
<1> QED  BY <1>3, <1>4, <1>5, <1>6, <1>7, <1>8, <1>9, <1>10, <1>11

\* The UDP session of the cancelled dungeon is released.
LEMMA TickCancelReleasePreserves ==
    ASSUME ServerInv, DungeonInv, PartyInv, DungeonInv', TickCancelRelease
    PROVE  ServerInv'
<1> USE DEF ServerInv
<1> PICK d \in DungeonIds : d = tickDungeon
  BY ServerFacts DEF TickCancelRelease, TickPosition, TickTypeOK
<1>1. /\ tickAt = "cancelRelease" /\ tickAt' = "waiting" /\ tickDungeon' = None
      /\ d = tickDungeon /\ ~Live(d)
      /\ udpAllocated' = udpAllocated \ {d}
      /\ udpTokens' = [udpTokens EXCEPT ![d] = {}]
      /\ udpEndpoints' = [udpEndpoints EXCEPT ![d] = {}]
  BY DEF TickCancelRelease, TickGoto, UdpRelease, TickPosition
<1>2. UNCHANGED <<joinedParties, dungeonState, dungeonAge, players,
        participantPlayerIds, disconnectedSince, authenticatedPlayers, nextDungeonId,
        connection, reconnecting, at, dungeonOf, rosterOf, told, tickRemoved, tickTodo,
        tickWaiting, waitingSince, finishedSince>>
  BY DEF TickCancelRelease, TickGoto, UdpRelease, TickPosition, partyVars, udpVars,
      tickVars, sessionVars, dungeonVars, instanceVars, identityVars
<1>3. StrandTypeOK' /\ Positions' /\ EntersAlone' /\ Rosters' /\ Departed' /\ OldSeats'
  BY <1>2, KeptStrandTypeOK, KeptPositions, KeptEntersAlone, KeptRosters, KeptDeparted,
     KeptOldSeats
<1>4. UdpTypeOK'
  BY <1>1, <1>2, ServerFacts DEF UdpTypeOK
<1>5. TickTypeOK'
  BY <1>1, <1>2, ServerFacts DEF TickTypeOK, TickAt
<1>6. KnownDungeons'
  BY <1>1, <1>2, ServerFacts DEF KnownDungeons
<1>7. KnownSessions'
  BY <1>1, <1>2, ServerFacts DEF KnownSessions, UdpTypeOK
<1>8. TickPosition'
  BY <1>1, <1>2, ServerFacts DEF TickPosition, InWaitingLoop, Live, TickTypeOK
<1>9. TickTimes'
  BY <1>1, <1>2, ServerFacts DEF TickTimes
<1>10. TimesListed'
  BY <1>1, <1>2, ServerFacts DEF TimesListed, InWaitingLoop
<1>11. UdpFollows'
  BY <1>1, <1>2, ServerFacts DEF UdpFollows, Releasing, Live
<1>12. NewDungeonYoung'
  BY <1>1, <1>2, ServerFacts DEF NewDungeonYoung, Young
<1>13. EndpointsHoldTokens'
  BY <1>1, <1>2, ServerFacts DEF EndpointsHoldTokens, UdpTypeOK
<1>14. TokenFollowsSeat'
  BY <1>1, <1>2, ServerFacts DEF TokenFollowsSeat, InUse, EnterSteps, Live, UdpTypeOK
<1>15. ReconnectOneSeat'
  BY <1>1, <1>2, ServerFacts DEF ReconnectOneSeat, UdpTypeOK
<1>16. HelloWasTold'
  BY <1>1, <1>2, ServerFacts DEF HelloWasTold, UdpTypeOK
<1>17. VanishedSeats'
  BY <1>1, <1>2, ServerFacts DEF VanishedSeats, Vanished, Leaving, Live, UdpTypeOK
<1> QED  BY <1>3, <1>4, <1>5, <1>6, <1>7, <1>8, <1>9, <1>10, <1>11, <1>12, <1>13,
            <1>14, <1>15, <1>16, <1>17

\* The UDP session of the finished dungeon is released.
LEMMA TickFinishReleasePreserves ==
    ASSUME ServerInv, DungeonInv, PartyInv, DungeonInv', TickFinishRelease
    PROVE  ServerInv'
<1> USE DEF ServerInv
<1> PICK d \in DungeonIds : d = tickDungeon
  BY ServerFacts DEF TickFinishRelease, TickPosition, TickTypeOK
<1>1. /\ tickAt = "finishRelease" /\ tickAt' = "finished" /\ tickDungeon' = None
      /\ d = tickDungeon /\ ~Live(d)
      /\ udpAllocated' = udpAllocated \ {d}
      /\ udpTokens' = [udpTokens EXCEPT ![d] = {}]
      /\ udpEndpoints' = [udpEndpoints EXCEPT ![d] = {}]
  BY DEF TickFinishRelease, TickGoto, UdpRelease, TickPosition
<1>2. UNCHANGED <<joinedParties, dungeonState, dungeonAge, players,
        participantPlayerIds, disconnectedSince, authenticatedPlayers, nextDungeonId,
        connection, reconnecting, at, dungeonOf, rosterOf, told, tickRemoved, tickTodo,
        tickWaiting, waitingSince, finishedSince>>
  BY DEF TickFinishRelease, TickGoto, UdpRelease, TickPosition, partyVars, udpVars,
      tickVars, sessionVars, dungeonVars, instanceVars, identityVars
<1>3. StrandTypeOK' /\ Positions' /\ EntersAlone' /\ Rosters' /\ Departed' /\ OldSeats'
  BY <1>2, KeptStrandTypeOK, KeptPositions, KeptEntersAlone, KeptRosters, KeptDeparted,
     KeptOldSeats
<1>4. UdpTypeOK'
  BY <1>1, <1>2, ServerFacts DEF UdpTypeOK
<1>5. TickTypeOK'
  BY <1>1, <1>2, ServerFacts DEF TickTypeOK, TickAt
<1>6. KnownDungeons'
  BY <1>1, <1>2, ServerFacts DEF KnownDungeons
<1>7. KnownSessions'
  BY <1>1, <1>2, ServerFacts DEF KnownSessions, UdpTypeOK
<1>8. TickPosition'
  BY <1>1, <1>2, ServerFacts DEF TickPosition, InWaitingLoop, Live, TickTypeOK
<1>9. TickTimes'
  BY <1>1, <1>2, ServerFacts DEF TickTimes
<1>10. TimesListed'
  BY <1>1, <1>2, ServerFacts DEF TimesListed, InWaitingLoop
<1>11. UdpFollows'
  BY <1>1, <1>2, ServerFacts DEF UdpFollows, Releasing, Live
<1>12. NewDungeonYoung'
  BY <1>1, <1>2, ServerFacts DEF NewDungeonYoung, Young
<1>13. EndpointsHoldTokens'
  BY <1>1, <1>2, ServerFacts DEF EndpointsHoldTokens, UdpTypeOK
<1>14. TokenFollowsSeat'
  BY <1>1, <1>2, ServerFacts DEF TokenFollowsSeat, InUse, EnterSteps, Live, UdpTypeOK
<1>15. ReconnectOneSeat'
  BY <1>1, <1>2, ServerFacts DEF ReconnectOneSeat, UdpTypeOK
<1>16. HelloWasTold'
  BY <1>1, <1>2, ServerFacts DEF HelloWasTold, UdpTypeOK
<1>17. VanishedSeats'
  BY <1>1, <1>2, ServerFacts DEF VanishedSeats, Vanished, Leaving, Live, UdpTypeOK
<1> QED  BY <1>3, <1>4, <1>5, <1>6, <1>7, <1>8, <1>9, <1>10, <1>11, <1>12, <1>13,
            <1>14, <1>15, <1>16, <1>17

\* The list of running dungeons; the times of dungeons that were not listed are forgotten.
LEMMA TickListRunningPreserves ==
    ASSUME ServerInv, DungeonInv, PartyInv, DungeonInv', TickListRunning
    PROVE  ServerInv'
<1> USE DEF ServerInv
<1>1. /\ tickAt = "waiting" /\ tickAt' = "running" /\ tickDungeon' = None
      /\ tickTodo = {} /\ tickTodo' = {d \in DungeonIds : dungeonState[d] = "Running"}
      /\ waitingSince' = [d \in DungeonIds |->
             IF d \in tickWaiting THEN waitingSince[d] ELSE None]
  BY DEF TickListRunning, TickGoto, InState
<1>2. UNCHANGED <<joinedParties, dungeonState, dungeonAge, players,
        participantPlayerIds, disconnectedSince, authenticatedPlayers, nextDungeonId,
        connection, reconnecting, udpAllocated, udpTokens, udpEndpoints, at, dungeonOf,
        rosterOf, told, tickRemoved, tickWaiting, finishedSince>>
  BY DEF TickListRunning, TickGoto, InState, partyVars, udpVars, tickVars, sessionVars,
      dungeonVars, instanceVars, identityVars
<1>3. UdpTypeOK' /\ StrandTypeOK' /\ Positions' /\ EntersAlone' /\ Rosters'
      /\ KnownSessions' /\ Departed' /\ OldSeats' /\ EndpointsHoldTokens'
      /\ TokenFollowsSeat' /\ ReconnectOneSeat' /\ HelloWasTold'
  BY <1>2, KeptUdpTypeOK, KeptStrandTypeOK, KeptPositions, KeptEntersAlone, KeptRosters,
     KeptKnownSessions, KeptDeparted, KeptOldSeats, KeptEndpointsHoldTokens,
     KeptTokenFollowsSeat, KeptReconnectOneSeat, KeptHelloWasTold
<1>4. TickTypeOK'
  BY <1>1, <1>2, ServerFacts DEF TickTypeOK, TickAt
<1>5. KnownDungeons'
  <2>1. \A d \in tickTodo' : d \in DungeonIds /\ d < nextDungeonId
    BY <1>1, SeatsAreOld DEF Live
  <2> QED  BY <2>1, <1>1, <1>2 DEF KnownDungeons
<1>6. TickPosition'
  BY <1>1, <1>2, ServerFacts DEF TickPosition, InWaitingLoop, Live, TickTypeOK
<1>7. TickTimes'
  BY <1>1, <1>2, ServerFacts DEF TickTimes, TickTypeOK
<1>8. TimesListed'
  BY <1>1, <1>2, ServerFacts DEF TimesListed, InWaitingLoop, TickTypeOK
<1>9. UdpFollows'
  BY <1>1, <1>2, ServerFacts DEF UdpFollows, Releasing, Live
<1>10. NewDungeonYoung'
  BY <1>1, <1>2, ServerFacts DEF NewDungeonYoung, Young, Positions, EnterSteps, StrandTypeOK,
      TickTypeOK
<1>11. VanishedSeats'
  BY <1>1, <1>2, ServerFacts DEF VanishedSeats, Vanished, Leaving, Live
<1> QED  BY <1>3, <1>4, <1>5, <1>6, <1>7, <1>8, <1>9, <1>10, <1>11

\* The list of finished dungeons.
LEMMA TickListFinishedPreserves ==
    ASSUME ServerInv, DungeonInv, PartyInv, DungeonInv', TickListFinished
    PROVE  ServerInv'
<1> USE DEF ServerInv
<1>1. /\ tickAt = "running" /\ tickAt' = "finished" /\ tickDungeon' = None
      /\ tickTodo = {} /\ tickTodo' = {d \in DungeonIds : dungeonState[d] = "Finished"}
  BY DEF TickListFinished, TickGoto, InState
<1>2. UNCHANGED <<joinedParties, dungeonState, dungeonAge, players,
        participantPlayerIds, disconnectedSince, authenticatedPlayers, nextDungeonId,
        connection, reconnecting, udpAllocated, udpTokens, udpEndpoints, at, dungeonOf,
        rosterOf, told, tickRemoved, tickWaiting, waitingSince, finishedSince>>
  BY DEF TickListFinished, TickGoto, InState, partyVars, udpVars, tickVars, sessionVars,
      dungeonVars, instanceVars, identityVars
<1>3. UdpTypeOK' /\ StrandTypeOK' /\ Positions' /\ EntersAlone' /\ Rosters'
      /\ KnownSessions' /\ Departed' /\ OldSeats' /\ EndpointsHoldTokens'
      /\ TokenFollowsSeat' /\ ReconnectOneSeat' /\ HelloWasTold'
  BY <1>2, KeptUdpTypeOK, KeptStrandTypeOK, KeptPositions, KeptEntersAlone, KeptRosters,
     KeptKnownSessions, KeptDeparted, KeptOldSeats, KeptEndpointsHoldTokens,
     KeptTokenFollowsSeat, KeptReconnectOneSeat, KeptHelloWasTold
<1>4. TickTypeOK'
  BY <1>1, <1>2, ServerFacts DEF TickTypeOK, TickAt
<1>5. KnownDungeons'
  <2>1. \A d \in tickTodo' : d \in DungeonIds /\ d < nextDungeonId
    BY <1>1, SeatsAreOld DEF Live
  <2> QED  BY <2>1, <1>1, <1>2 DEF KnownDungeons
<1>6. TickPosition'
  BY <1>1, <1>2, ServerFacts DEF TickPosition, InWaitingLoop, Live, TickTypeOK
<1>7. TickTimes'
  BY <1>1, <1>2, ServerFacts DEF TickTimes
<1>8. TimesListed'
  BY <1>1, <1>2, ServerFacts DEF TimesListed, InWaitingLoop
<1>9. UdpFollows'
  BY <1>1, <1>2, ServerFacts DEF UdpFollows, Releasing, Live
<1>10. NewDungeonYoung'
  BY <1>1, <1>2, ServerFacts DEF NewDungeonYoung, Young, Positions, EnterSteps, StrandTypeOK
<1>11. VanishedSeats'
  BY <1>1, <1>2, ServerFacts DEF VanishedSeats, Vanished, Leaving, Live
<1> QED  BY <1>3, <1>4, <1>5, <1>6, <1>7, <1>8, <1>9, <1>10, <1>11

\* A running dungeon loses its idle endpoints.
LEMMA RunAdvancesPreserves ==
    ASSUME ServerInv, DungeonInv, PartyInv, DungeonInv', tickAt = "running",
           NEW d \in tickTodo, tickTodo' = tickTodo \ {d}, NEW idle,
           UdpRemoveInactive(d, idle),
           UNCHANGED <<partyVars, sessionVars, tickAt, tickRemoved, tickDungeon, tickWaiting, waitingSince>>,
           UNCHANGED <<dungeonVars, finishedSince>>
    PROVE  ServerInv'
<1> USE DEF ServerInv
<1>1. /\ d \in DungeonIds /\ tickAt = "running" /\ tickTodo' = tickTodo \ {d}
      /\ udpEndpoints' = [udpEndpoints EXCEPT ![d] = udpEndpoints[d] \ idle]
  BY DEF UdpRemoveInactive, TickTypeOK
<1>2. UNCHANGED <<joinedParties, dungeonState, dungeonAge, players,
        participantPlayerIds, disconnectedSince, authenticatedPlayers, nextDungeonId,
        connection, reconnecting, udpAllocated, udpTokens, at, dungeonOf, rosterOf,
        told, tickAt, tickRemoved, tickDungeon, tickWaiting, waitingSince,
        finishedSince>>
  BY DEF UdpRemoveInactive, TickTypeOK, partyVars, udpVars, tickVars, sessionVars,
      dungeonVars, instanceVars, identityVars
<1>3. StrandTypeOK' /\ Positions' /\ EntersAlone' /\ Rosters' /\ KnownSessions'
      /\ TimesListed' /\ NewDungeonYoung' /\ Departed' /\ OldSeats'
      /\ TokenFollowsSeat' /\ ReconnectOneSeat' /\ VanishedSeats'
  BY <1>2, KeptStrandTypeOK, KeptPositions, KeptEntersAlone, KeptRosters,
     KeptKnownSessions, KeptTimesListed, KeptNewDungeonYoung, KeptDeparted,
     KeptOldSeats, KeptTokenFollowsSeat, KeptReconnectOneSeat,
     KeptVanishedSeats
<1>4. UdpTypeOK'
  BY <1>1, <1>2, ServerFacts DEF UdpTypeOK
<1>5. TickTypeOK'
  BY <1>1, <1>2, ServerFacts DEF TickTypeOK, TickAt
<1>6. KnownDungeons'
  BY <1>1, <1>2, ServerFacts DEF KnownDungeons
<1>7. TickPosition'
  BY <1>1, <1>2, ServerFacts DEF TickPosition, InWaitingLoop, Live, TickTypeOK
<1>8. TickTimes'
  BY <1>1, <1>2, ServerFacts DEF TickTimes
<1>9. UdpFollows'
  BY <1>1, <1>2, ServerFacts DEF UdpFollows, Releasing, Live
<1>10. EndpointsHoldTokens'
  BY <1>1, <1>2, ServerFacts DEF EndpointsHoldTokens, UdpTypeOK
<1>11. HelloWasTold'
  BY <1>1, <1>2, ServerFacts DEF HelloWasTold, UdpTypeOK
<1> QED  BY <1>3, <1>4, <1>5, <1>6, <1>7, <1>8, <1>9, <1>10, <1>11

\* It is finished, and its broadcast begins.
LEMMA RunFinishesPreserves ==
    ASSUME ServerInv, DungeonInv, PartyInv, DungeonInv', tickAt = "running",
           NEW d \in tickTodo, tickTodo' = tickTodo \ {d}, NEW idle,
           UdpRemoveInactive(d, idle),
           UNCHANGED <<partyVars, sessionVars, tickAt, tickRemoved, tickDungeon, tickWaiting, waitingSince>>,
           TryFinishIfCleared(d), finishedSince' = [finishedSince EXCEPT ![d] = 0]
    PROVE  ServerInv'
<1> USE DEF ServerInv
<1>1. /\ d \in DungeonIds /\ tickAt = "running" /\ tickTodo' = tickTodo \ {d}
      /\ udpEndpoints' = [udpEndpoints EXCEPT ![d] = udpEndpoints[d] \ idle]
      /\ dungeonState[d] = "Running" /\ dungeonState' = [dungeonState EXCEPT ![d] = "Finished"]
      /\ finishedSince' = [finishedSince EXCEPT ![d] = 0]
  BY DEF UdpRemoveInactive, TryFinishIfCleared, TickTypeOK
<1>2. UNCHANGED <<joinedParties, dungeonAge, players, participantPlayerIds,
        disconnectedSince, authenticatedPlayers, nextDungeonId, connection,
        reconnecting, udpAllocated, udpTokens, at, dungeonOf, rosterOf, told, tickAt,
        tickRemoved, tickDungeon, tickWaiting, waitingSince>>
  BY DEF UdpRemoveInactive, TryFinishIfCleared, TickTypeOK, partyVars, udpVars,
      tickVars, sessionVars, dungeonVars, instanceVars, identityVars
<1>t. /\ dungeonState \in [DungeonIds -> States]
  BY DEF DungeonInv, DungeonTypeOK
<1>3. StrandTypeOK' /\ Positions' /\ EntersAlone' /\ Rosters' /\ KnownSessions'
      /\ TimesListed' /\ Departed' /\ ReconnectOneSeat'
  BY <1>2, KeptStrandTypeOK, KeptPositions, KeptEntersAlone, KeptRosters,
     KeptKnownSessions, KeptTimesListed, KeptDeparted, KeptReconnectOneSeat
<1>4. UdpTypeOK'
  BY <1>1, <1>2, ServerFacts DEF UdpTypeOK
<1>5. TickTypeOK'
  BY <1>1, <1>2, ServerFacts DEF TickTypeOK, TickAt
<1>6. KnownDungeons'
  BY <1>1, <1>2, ServerFacts DEF KnownDungeons
<1>7. TickPosition'
  BY <1>1, <1>2, ServerFacts, <1>t DEF TickPosition, InWaitingLoop, Live, TickTypeOK
<1>8. TickTimes'
  BY <1>1, <1>2, ServerFacts, <1>t DEF TickTimes, TickTypeOK
<1>9. UdpFollows'
  BY <1>1, <1>2, ServerFacts, <1>t DEF UdpFollows, Releasing, Live
<1>10. NewDungeonYoung'
  BY <1>1, <1>2, ServerFacts, <1>t DEF NewDungeonYoung, Young
<1>11. OldSeats'
  BY <1>1, <1>2, ServerFacts, <1>t DEF OldSeats, Live
<1>12. EndpointsHoldTokens'
  BY <1>1, <1>2, ServerFacts DEF EndpointsHoldTokens, UdpTypeOK
<1>13. TokenFollowsSeat'
  BY <1>1, <1>2, ServerFacts, <1>t DEF TokenFollowsSeat, InUse, EnterSteps, Live
<1>14. HelloWasTold'
  BY <1>1, <1>2, ServerFacts DEF HelloWasTold, UdpTypeOK
<1>15. VanishedSeats'
  BY <1>1, <1>2, ServerFacts, <1>t DEF VanishedSeats, Vanished, Leaving, Live
<1> QED  BY <1>3, <1>4, <1>5, <1>6, <1>7, <1>8, <1>9, <1>10, <1>11, <1>12, <1>13,
            <1>14, <1>15

\* The broadcast is over: the dungeon is erased and will be released next.
LEMMA FinishedErasesPreserves ==
    ASSUME ServerInv, DungeonInv, PartyInv, DungeonInv', tickAt = "finished",
           NEW d \in tickTodo, tickTodo' = tickTodo \ {d},
           UNCHANGED <<partyVars, udpVars, sessionVars, tickRemoved, tickWaiting, waitingSince>>,
           FinishDungeon(d), finishedSince' = WithoutTime(finishedSince, d),
           TickGoto("finishRelease", d)
    PROVE  ServerInv'
<1> USE DEF ServerInv
<1> d \in DungeonIds
  BY DEF TickTypeOK
<1>1. /\ d \in DungeonIds /\ d < nextDungeonId /\ tickTodo' = tickTodo \ {d}
      /\ tickAt = "finished" /\ tickAt' = "finishRelease" /\ tickDungeon' = d
      /\ dungeonState[d] \in {"Running", "Finished"}
      /\ finishedSince' = [finishedSince EXCEPT ![d] = None]
      /\ dungeonState' = [dungeonState EXCEPT ![d] = "Absent"]
      /\ dungeonAge' = [dungeonAge EXCEPT ![d] = 0]
      /\ players' = [players EXCEPT ![d] = {}]
      /\ participantPlayerIds' = [participantPlayerIds EXCEPT ![d] = [t \in Sessions |-> None]]
      /\ disconnectedSince' = [disconnectedSince EXCEPT ![d] = [t \in Sessions |-> None]]
  BY RemoveErases DEF TickGoto, WithoutTime, FinishDungeon, Erased, KnownDungeons, TickTypeOK
<1>2. UNCHANGED <<joinedParties, authenticatedPlayers, nextDungeonId, connection,
        reconnecting, udpAllocated, udpTokens, udpEndpoints, at, dungeonOf, rosterOf,
        told, tickRemoved, tickWaiting, waitingSince>>
  BY DEF TickGoto, WithoutTime, FinishDungeon, Erased, KnownDungeons, TickTypeOK,
      partyVars, udpVars, tickVars, sessionVars, dungeonVars, instanceVars,
      identityVars
<1>t. /\ dungeonState \in [DungeonIds -> States]
      /\ dungeonAge \in [DungeonIds -> 0..MaxDungeonLifetime]
      /\ players \in [DungeonIds -> SUBSET Sessions]
      /\ participantPlayerIds \in [DungeonIds -> [Sessions -> Players \cup {None}]]
      /\ disconnectedSince \in [DungeonIds -> [Sessions -> (0..ReconnectGrace) \cup {None}]]
  BY DEF DungeonInv, DungeonTypeOK
<1>3. UdpTypeOK' /\ StrandTypeOK' /\ Positions' /\ EntersAlone' /\ Rosters'
      /\ EndpointsHoldTokens' /\ HelloWasTold'
  BY <1>2, KeptUdpTypeOK, KeptStrandTypeOK, KeptPositions, KeptEntersAlone, KeptRosters,
     KeptEndpointsHoldTokens, KeptHelloWasTold
<1>4. TickTypeOK'
  BY <1>1, <1>2, ServerFacts DEF TickTypeOK, TickAt
<1>5. KnownDungeons'
  BY <1>1, <1>2, ServerFacts DEF KnownDungeons
<1>6. KnownSessions'
  BY <1>1, <1>2, ServerFacts, <1>t DEF KnownSessions
<1>7. TickPosition'
  BY <1>1, <1>2, ServerFacts, <1>t DEF TickPosition, InWaitingLoop, Live, TickTypeOK
<1>8. TickTimes'
  BY <1>1, <1>2, ServerFacts, <1>t DEF TickTimes, TickTypeOK
<1>9. TimesListed'
  BY <1>1, <1>2, ServerFacts DEF TimesListed, InWaitingLoop
<1>10. UdpFollows'
  BY <1>1, <1>2, ServerFacts, <1>t DEF UdpFollows, Releasing, Live, Positions, EnterSteps
<1>11. NewDungeonYoung'
  BY <1>1, <1>2, ServerFacts, <1>t DEF NewDungeonYoung, Young
<1>12. Departed'
  BY <1>1, <1>2, ServerFacts, <1>t DEF Departed
<1>13. OldSeats'
  BY <1>1, <1>2, ServerFacts, <1>t DEF OldSeats, Live
<1>14. TokenFollowsSeat'
  BY <1>1, <1>2, ServerFacts, <1>t DEF TokenFollowsSeat, InUse, EnterSteps, Live, NewDungeonYoung, Young
<1>15. ReconnectOneSeat'
  BY <1>1, <1>2, ServerFacts, <1>t DEF ReconnectOneSeat
<1>16. VanishedSeats'
  BY <1>1, <1>2, ServerFacts, <1>t DEF VanishedSeats, Vanished, Leaving, Live
<1> QED  BY <1>3, <1>4, <1>5, <1>6, <1>7, <1>8, <1>9, <1>10, <1>11, <1>12, <1>13,
            <1>14, <1>15, <1>16

\* The broadcast goes on.
LEMMA FinishedKeepsPreserves ==
    ASSUME ServerInv, DungeonInv, PartyInv, DungeonInv', tickAt = "finished",
           NEW d \in tickTodo, tickTodo' = tickTodo \ {d},
           UNCHANGED <<partyVars, udpVars, sessionVars, tickRemoved, tickWaiting, waitingSince>>,
           UNCHANGED <<dungeonVars, finishedSince, tickAt, tickDungeon>>
    PROVE  ServerInv'
<1> USE DEF ServerInv
<1>1. /\ tickAt = "finished" /\ tickTodo' = tickTodo \ {d}
  BY DEF TickTypeOK
<1>2. UNCHANGED <<joinedParties, dungeonState, dungeonAge, players,
        participantPlayerIds, disconnectedSince, authenticatedPlayers, nextDungeonId,
        connection, reconnecting, udpAllocated, udpTokens, udpEndpoints, at, dungeonOf,
        rosterOf, told, tickAt, tickRemoved, tickDungeon, tickWaiting, waitingSince,
        finishedSince>>
  BY DEF TickTypeOK, partyVars, udpVars, tickVars, sessionVars, dungeonVars,
      instanceVars, identityVars
<1>3. UdpTypeOK' /\ StrandTypeOK' /\ Positions' /\ EntersAlone' /\ Rosters'
      /\ KnownSessions' /\ TimesListed' /\ NewDungeonYoung' /\ Departed'
      /\ OldSeats' /\ EndpointsHoldTokens' /\ TokenFollowsSeat' /\ ReconnectOneSeat'
      /\ HelloWasTold' /\ VanishedSeats'
  BY <1>2, KeptUdpTypeOK, KeptStrandTypeOK, KeptPositions, KeptEntersAlone, KeptRosters,
     KeptKnownSessions, KeptTimesListed, KeptNewDungeonYoung, KeptDeparted,
     KeptOldSeats, KeptEndpointsHoldTokens, KeptTokenFollowsSeat,
     KeptReconnectOneSeat, KeptHelloWasTold, KeptVanishedSeats
<1>4. TickTypeOK'
  BY <1>1, <1>2, ServerFacts DEF TickTypeOK, TickAt
<1>5. KnownDungeons'
  BY <1>1, <1>2, ServerFacts DEF KnownDungeons
<1>6. TickPosition'
  BY <1>1, <1>2, ServerFacts DEF TickPosition, InWaitingLoop, Live, TickTypeOK
<1>7. TickTimes'
  BY <1>1, <1>2, ServerFacts DEF TickTimes
<1>8. UdpFollows'
  BY <1>1, <1>2, ServerFacts DEF UdpFollows, Releasing, Live
<1> QED  BY <1>3, <1>4, <1>5, <1>6, <1>7, <1>8

\* The tick is over; nothing was left for it to release.
LEMMA TickEndPreserves ==
    ASSUME ServerInv, DungeonInv, PartyInv, DungeonInv', TickEnd
    PROVE  ServerInv'
<1> USE DEF ServerInv
<1>1. /\ tickAt = "finished" /\ tickAt' = "rest" /\ tickDungeon' = None
      /\ tickTodo = {}
  BY DEF TickEnd, TickGoto
<1>2. UNCHANGED <<joinedParties, dungeonState, dungeonAge, players,
        participantPlayerIds, disconnectedSince, authenticatedPlayers, nextDungeonId,
        connection, reconnecting, udpAllocated, udpTokens, udpEndpoints, at, dungeonOf,
        rosterOf, told, tickRemoved, tickTodo, tickWaiting, waitingSince, finishedSince>>
  BY DEF TickEnd, TickGoto, partyVars, udpVars, tickVars, sessionVars, dungeonVars,
      instanceVars, identityVars
<1>3. UdpTypeOK' /\ StrandTypeOK' /\ Positions' /\ EntersAlone' /\ Rosters'
      /\ KnownSessions' /\ Departed' /\ OldSeats' /\ EndpointsHoldTokens'
      /\ TokenFollowsSeat' /\ ReconnectOneSeat' /\ HelloWasTold'
  BY <1>2, KeptUdpTypeOK, KeptStrandTypeOK, KeptPositions, KeptEntersAlone, KeptRosters,
     KeptKnownSessions, KeptDeparted, KeptOldSeats, KeptEndpointsHoldTokens,
     KeptTokenFollowsSeat, KeptReconnectOneSeat, KeptHelloWasTold
<1>4. TickTypeOK'
  BY <1>1, <1>2, ServerFacts DEF TickTypeOK, TickAt
<1>5. KnownDungeons'
  BY <1>1, <1>2, ServerFacts DEF KnownDungeons
<1>6. TickPosition'
  BY <1>1, <1>2, ServerFacts DEF TickPosition, InWaitingLoop, Live, TickTypeOK
<1>7. TickTimes'
  BY <1>1, <1>2, ServerFacts DEF TickTimes
<1>8. TimesListed'
  BY <1>1, <1>2, ServerFacts DEF TimesListed, InWaitingLoop
<1>9. UdpFollows'
  BY <1>1, <1>2, ServerFacts DEF UdpFollows, Releasing, Live
<1>10. NewDungeonYoung'
  BY <1>1, <1>2, ServerFacts DEF NewDungeonYoung, Young
<1>11. VanishedSeats'
  BY <1>1, <1>2, ServerFacts DEF VanishedSeats, Vanished, Leaving, Live
<1> QED  BY <1>3, <1>4, <1>5, <1>6, <1>7, <1>8, <1>9, <1>10, <1>11

\* A unit of time: no dungeon is between its creation and its allocation.
LEMMA ElapsePreserves ==
    ASSUME ServerInv, DungeonInv, PartyInv, DungeonInv', Elapse
    PROVE  ServerInv'
<1> USE DEF ServerInv
<1>b. \A d \in DungeonIds, x \in Sessions : disconnectedSince'[d][x] # None <=> disconnectedSince[d][x] # None
  <2>1. ASSUME NEW d \in DungeonIds, NEW x \in Sessions
        PROVE  /\ disconnectedSince[d][x] \in (0..ReconnectGrace) \cup {None}
               /\ disconnectedSince'[d][x] = Older(disconnectedSince[d][x], ReconnectGrace)
    BY DEF Elapse, ElapseDungeons, DungeonInv, DungeonTypeOK
  <2>2. ReconnectGrace \in Nat \ {0} /\ None \notin 0..ReconnectGrace
    BY ServerFacts
  <2> QED  BY <2>1, <2>2, OlderStays
<1>c. /\ \A t \in Sessions : reconnecting'[t] # None => reconnecting[t] # None
      /\ \A t \in Sessions : reconnecting[t] # None =>
             reconnecting'[t].dungeon = reconnecting[t].dungeon /\ reconnecting'[t].old = reconnecting[t].old
  <2>1. ASSUME NEW t \in Sessions, reconnecting[t] = None
        PROVE  reconnecting'[t] = None
    BY <2>1 DEF Elapse, ElapseDungeons
  <2>2. ASSUME NEW t \in Sessions, reconnecting[t] # None
        PROVE  /\ reconnecting'[t].dungeon = reconnecting[t].dungeon
               /\ reconnecting'[t].old = reconnecting[t].old
    BY <2>2 DEF Elapse, ElapseDungeons
  <2> QED  BY <2>1, <2>2
<1>d. ASSUME NEW d \in DungeonIds
      PROVE  /\ waitingSince'[d] \in (0..ReadyTimeout) \cup {None}
             /\ waitingSince'[d] # None <=> waitingSince[d] # None
             /\ finishedSince'[d] \in (0..FinishedBroadcast) \cup {None}
             /\ finishedSince'[d] # None <=> finishedSince[d] # None
  <2>1. /\ waitingSince'[d] = Older(waitingSince[d], ReadyTimeout)
        /\ waitingSince[d] \in (0..ReadyTimeout) \cup {None}
    BY DEF Elapse, TickTypeOK
  <2>2. ReadyTimeout \in Nat \ {0} /\ None \notin 0..ReadyTimeout
    BY ServerFacts
  <2>3. /\ waitingSince'[d] \in (0..ReadyTimeout) \cup {None}
        /\ waitingSince'[d] # None <=> waitingSince[d] # None
    <3>1. /\ Older(waitingSince[d], ReadyTimeout) \in (0..ReadyTimeout) \cup {None}
          /\ Older(waitingSince[d], ReadyTimeout) # None <=> waitingSince[d] # None
      BY <2>1, <2>2, OlderStays
    <3> QED  BY <2>1, <3>1, Zenon
  <2>4. /\ finishedSince'[d] = Older(finishedSince[d], FinishedBroadcast)
        /\ finishedSince[d] \in (0..FinishedBroadcast) \cup {None}
    BY DEF Elapse, TickTypeOK
  <2>5. FinishedBroadcast \in Nat \ {0} /\ None \notin 0..FinishedBroadcast
    BY ServerFacts
  <2>6. /\ finishedSince'[d] \in (0..FinishedBroadcast) \cup {None}
        /\ finishedSince'[d] # None <=> finishedSince[d] # None
    <3>1. /\ Older(finishedSince[d], FinishedBroadcast) \in (0..FinishedBroadcast) \cup {None}
          /\ Older(finishedSince[d], FinishedBroadcast) # None <=> finishedSince[d] # None
      BY <2>4, <2>5, OlderStays
    <3> QED  BY <2>4, <3>1, Zenon
  <2> QED  BY <2>3, <2>6
<1>e. /\ waitingSince' \in [DungeonIds -> (0..ReadyTimeout) \cup {None}]
      /\ finishedSince' \in [DungeonIds -> (0..FinishedBroadcast) \cup {None}]
  BY <1>d DEF Elapse
<1>1. /\ tickAt = "rest" /\ \A t \in Sessions : at[t] \notin {"roster", "allocate"}
      /\ dungeonAge' = [d \in DungeonIds |->
             IF Live(d) THEN Older(dungeonAge[d], MaxDungeonLifetime) ELSE 0]
      /\ \A d \in DungeonIds, x \in Sessions : disconnectedSince'[d][x] # None <=> disconnectedSince[d][x] # None
      /\ \A t \in Sessions : reconnecting'[t] # None => reconnecting[t] # None
      /\ \A t \in Sessions : reconnecting[t] # None =>
             reconnecting'[t].dungeon = reconnecting[t].dungeon /\ reconnecting'[t].old = reconnecting[t].old
      /\ waitingSince' \in [DungeonIds -> (0..ReadyTimeout) \cup {None}]
      /\ finishedSince' \in [DungeonIds -> (0..FinishedBroadcast) \cup {None}]
      /\ \A d \in DungeonIds : waitingSince'[d] # None <=> waitingSince[d] # None
      /\ \A d \in DungeonIds : finishedSince'[d] # None <=> finishedSince[d] # None
  BY <1>b, <1>c, <1>d, <1>e DEF Elapse, ElapseDungeons, MayStall
<1>2. UNCHANGED <<joinedParties, dungeonState, players, participantPlayerIds,
        authenticatedPlayers, nextDungeonId, connection, udpAllocated, udpTokens,
        udpEndpoints, at, dungeonOf, rosterOf, told, tickAt, tickRemoved, tickTodo,
        tickDungeon, tickWaiting>>
  BY DEF Elapse, ElapseDungeons, MayStall, partyVars, udpVars, tickVars, sessionVars,
      dungeonVars, instanceVars, identityVars
<1>t. /\ dungeonAge \in [DungeonIds -> 0..MaxDungeonLifetime]
      /\ disconnectedSince \in [DungeonIds -> [Sessions -> (0..ReconnectGrace) \cup {None}]]
      /\ reconnecting \in [Sessions -> Reconnect \cup {None}]
  BY DEF DungeonInv, DungeonTypeOK
<1>3. UdpTypeOK' /\ StrandTypeOK' /\ EntersAlone' /\ Rosters' /\ KnownSessions'
      /\ TickPosition' /\ UdpFollows' /\ EndpointsHoldTokens' /\ TokenFollowsSeat'
      /\ HelloWasTold'
  BY <1>2, KeptUdpTypeOK, KeptStrandTypeOK, KeptEntersAlone, KeptRosters,
     KeptKnownSessions, KeptTickPosition, KeptUdpFollows,
     KeptEndpointsHoldTokens, KeptTokenFollowsSeat, KeptHelloWasTold
<1>4. TickTypeOK'
  BY <1>1, <1>2, ServerFacts DEF TickTypeOK, TickAt
<1>5. Positions'
  BY <1>1, <1>2, ServerFacts, <1>t DEF Positions, InUse, Leaving, EnterSteps
<1>6. KnownDungeons'
  BY <1>1, <1>2, ServerFacts DEF KnownDungeons, TickTypeOK
<1>7. TickTimes'
  BY <1>1, <1>2, ServerFacts DEF TickTimes, TickTypeOK
<1>8. TimesListed'
  BY <1>1, <1>2, ServerFacts DEF TimesListed, InWaitingLoop, TickTypeOK
<1>9. NewDungeonYoung'
  BY <1>1, <1>2 DEF NewDungeonYoung
<1>10. Departed'
  BY <1>1, <1>2, ServerFacts, <1>t DEF Departed
<1>11. OldSeats'
  <2>1. \A t \in Sessions : reconnecting'[t] # None =>
               /\ reconnecting[t] # None
               /\ reconnecting'[t].dungeon = reconnecting[t].dungeon
               /\ reconnecting'[t].old = reconnecting[t].old
    BY <1>1
  <2>2. \A t \in Sessions : reconnecting'[t] # None /\ Live(reconnecting'[t].dungeon) =>
          reconnecting'[t].old \notin players[reconnecting'[t].dungeon]
    BY <2>1 DEF OldSeats
  <2>3. \A t, u \in Sessions :
          reconnecting'[t] # None /\ reconnecting'[u] # None /\ Live(reconnecting'[t].dungeon)
          /\ reconnecting'[t].dungeon = reconnecting'[u].dungeon
          /\ reconnecting'[t].old = reconnecting'[u].old => t = u
    BY <2>1 DEF OldSeats
  <2>4. \A d \in DungeonIds, x \in Sessions : <<d, x>> \in tickRemoved /\ Live(d) =>
          /\ connection[x] = "Closed" /\ x \notin players[d]
          /\ \A t \in Sessions : reconnecting'[t] # None /\ reconnecting'[t].dungeon = d
                                  => reconnecting'[t].old # x
    BY <2>1 DEF OldSeats
  <2> QED  BY <2>2, <2>3, <2>4, <1>2 DEF OldSeats, Live
<1>12. ReconnectOneSeat'
  BY <1>1, <1>2, ServerFacts, <1>t DEF ReconnectOneSeat
<1>13. VanishedSeats'
  BY <1>1, <1>2, ServerFacts, <1>t DEF VanishedSeats, Vanished, Leaving, Live
<1> QED  BY <1>3, <1>4, <1>5, <1>6, <1>7, <1>8, <1>9, <1>10, <1>11, <1>12, <1>13

-----------------------------------------------------------------------------
(* Every step of the server is a step of each manager.                     *)

\* A handler's step is, for the dungeon manager, an operation of that session (a
\* session under reconnect does nothing else) or one on its dungeon; for the party
\* manager a party operation.  The roster of CreateDungeon holds its leader.
LEMMA HandlersImplementManagers ==
    ASSUME ServerInv, DungeonInv, PartyInv, NEW s \in Sessions, HandlerStep(s) \/ ClientStep(s)
    PROVE  [DungeonNext]_dungeonVars /\ [PartyNext]_partyVars
<1> USE DEF ServerInv
<1>1. SessionStep(s) => DungeonNext
  BY DEF DungeonNext
<1>2. \A d \in DungeonIds : DungeonStep(d) => DungeonNext
  BY DEF DungeonNext
<1>3. at[s] \notin {"rotate", "rollback"} => StrandIdle(s)
  BY DEF Positions, StrandIdle
<1>4. ASSUME NEW p \in Players, Login(s, p)
      PROVE  [DungeonNext]_dungeonVars /\ UNCHANGED partyVars
  BY <1>1, <1>3, <1>4 DEF Login, Step, SessionStep
<1>5. CASE RotateToken(s)
  BY <1>1, <1>5 DEF RotateToken, SessionStep
<1>6. CASE UndoReconnect(s)
  BY <1>1, <1>6 DEF UndoReconnect, SessionStep
<1>7. CASE DropReconnect(s)
  BY <1>1, <1>3, <1>7 DEF DropReconnect, Step, SessionStep
<1>8. CASE PartyRequest(s)
  BY <1>8 DEF PartyRequest, PartyNext
<1>9. CASE EnterRead(s) \/ EnterParticipants(s) \/ EnterAllocate(s) \/ EnterToken(s)
           \/ EnterRelease(s) \/ InfoFind(s) \/ InfoToken(s) \/ CloseUdp(s)
  BY <1>9 DEF EnterRead, EnterParticipants, EnterAllocate, EnterToken, EnterRelease, InfoFind,
     InfoToken, CloseUdp
<1>10. CASE EnterCreate(s)
  <2>1. at[s] = "create" /\ UNCHANGED partyVars
    BY <1>10 DEF EnterCreate
  <2>2. joinedParties[s] \in PartyIds /\ rosterOf[s] \in (SUBSET Sessions) \ {{}}
    BY <2>1 DEF Rosters, PartyInv, PartyTypeOK, StrandTypeOK
  <2>3. CASE CreateDungeon(joinedParties[s], rosterOf[s])
    BY <2>1, <2>2, <2>3 DEF DungeonNext
  <2>4. CASE UNCHANGED dungeonVars
    BY <2>1, <2>4
  <2> QED  BY <1>10, <2>3, <2>4 DEF EnterCreate
<1>11. CASE EnterCancel(s)
  <2>1. dungeonOf[s] \in DungeonIds
    BY <1>11 DEF EnterCancel, Positions, EnterSteps, StrandTypeOK
  <2> QED  BY <1>2, <1>11, <2>1 DEF EnterCancel, DungeonStep
<1>12. CASE Close(s)
  BY <1>1, <1>3, <1>12 DEF Close, SessionStep
<1>13. CASE CloseParty(s)
  BY <1>13 DEF CloseParty, PartyNext
<1>14. ASSUME NEW d \in DungeonIds, Hello(d, s)
       PROVE  UNCHANGED <<dungeonVars, partyVars>>
  BY <1>14 DEF Hello
<1>15. CASE HandlerStep(s)
  BY <1>5, <1>6, <1>7, <1>9, <1>10, <1>11, <1>12, <1>13, <1>15 DEF HandlerStep
<1>16. CASE ClientStep(s)
  BY <1>4, <1>8, <1>9, <1>12, <1>14, <1>16 DEF ClientStep
<1> QED  BY <1>15, <1>16

\* The tick's steps are operations on dungeons, or none of the managers'.
LEMMA TickImplementsManagers ==
    ASSUME ServerInv, DungeonInv, PartyInv, Tick \/ Elapse
    PROVE  [DungeonNext]_dungeonVars /\ [PartyNext]_partyVars
<1> USE DEF ServerInv
<1>1. UNCHANGED partyVars
  BY DEF Tick, Elapse, TickSweep, TickRemove, TickRelease, TickListWaiting, TickCheck, TickAuth,
     TickStart, TickCancel, TickCancelRelease, TickListRunning, TickRun, TickListFinished,
     TickFinished, TickFinishRelease, TickEnd
<1>2. \A d \in DungeonIds : DungeonStep(d) => DungeonNext
  BY DEF DungeonNext
<1>3. CASE TickSweep \/ Elapse
  BY <1>3 DEF TickSweep, Elapse, DungeonNext
<1>4. CASE TickRemove \/ TickRelease \/ TickListWaiting \/ TickCheck \/ TickAuth \/ TickCancelRelease
           \/ TickListRunning \/ TickListFinished \/ TickFinishRelease \/ TickEnd
  BY <1>4 DEF TickRemove, TickRelease, TickListWaiting, TickCheck, TickAuth, TickCancelRelease,
     TickListRunning, TickListFinished, TickFinishRelease, TickEnd
<1>5. CASE TickStart
  <2>1. tickDungeon \in DungeonIds
    BY <1>5 DEF TickStart, TickPosition, TickTypeOK
  <2> QED  BY <1>2, <1>5, <2>1 DEF TickStart, DungeonStep
<1>6. CASE TickCancel
  <2>1. tickDungeon \in DungeonIds
    BY <1>6 DEF TickCancel, TickPosition, TickTypeOK
  <2> QED  BY <1>2, <1>6, <2>1 DEF TickCancel, DungeonStep
<1>7. CASE TickRun
  BY <1>2, <1>7 DEF TickRun, DungeonStep, TickTypeOK
<1>8. CASE TickFinished
  BY <1>2, <1>8 DEF TickFinished, DungeonStep, TickTypeOK
<1> QED  BY <1>1, <1>3, <1>4, <1>5, <1>6, <1>7, <1>8 DEF Tick

\* Every step of the server is a step, or a stutter, of each manager.
LEMMA ServerImplementsStep ==
    ASSUME ServerInv, DungeonInv, PartyInv, [ServerNext]_serverVars
    PROVE  [DungeonNext]_dungeonVars /\ [PartyNext]_partyVars
<1>1. CASE UNCHANGED serverVars
  BY <1>1 DEF serverVars
<1>2. CASE ServerNext
  BY <1>2, HandlersImplementManagers, TickImplementsManagers DEF ServerNext
<1> QED  BY <1>1, <1>2

-----------------------------------------------------------------------------
(* The invariant is inductive.                                             *)

\* A server that has just started: nothing anywhere.
LEMMA ServerInitially == ServerInit => ServerInv
<1> SUFFICES ASSUME ServerInit PROVE ServerInv
  OBVIOUS
<1>1. /\ UdpInit /\ dungeonState = [d \in DungeonIds |-> "Absent"]
      /\ players = [d \in DungeonIds |-> {}]
      /\ disconnectedSince = [d \in DungeonIds |-> [s \in Sessions |-> None]]
      /\ connection = [s \in Sessions |-> "New"] /\ reconnecting = [s \in Sessions |-> None]
      /\ joinedParties = [s \in Sessions |-> None]
  BY DEF ServerInit, DungeonInit, PartyInit, NoPlayers
<1>2. UdpTypeOK
  BY <1>1 DEF UdpTypeOK, UdpInit
<1>3. StrandTypeOK /\ TickTypeOK
  BY DEF ServerInit, StrandTypeOK, TickTypeOK, AtRest, TickAt
<1>4. Positions /\ EntersAlone
  BY <1>1 DEF ServerInit, Positions, EntersAlone, InUse, EnterSteps, Leaving
<1>5. Rosters
  BY <1>1 DEF ServerInit, Rosters, InUse, EnterSteps
<1>6. KnownDungeons /\ KnownSessions
  BY <1>1 DEF ServerInit, UdpInit, KnownDungeons, KnownSessions
<1>7. TickPosition /\ TickTimes /\ TimesListed
  BY <1>1 DEF ServerInit, TickPosition, TickTimes, TimesListed, InWaitingLoop
<1>8. UdpFollows
  BY <1>1 DEF ServerInit, UdpInit, UdpFollows, Live
<1>9. NewDungeonYoung /\ Departed /\ OldSeats
  BY <1>1 DEF ServerInit, NewDungeonYoung, Departed, OldSeats
<1>10. EndpointsHoldTokens /\ TokenFollowsSeat /\ ReconnectOneSeat /\ HelloWasTold
  BY <1>1 DEF ServerInit, UdpInit, EndpointsHoldTokens, TokenFollowsSeat, ReconnectOneSeat,
     HelloWasTold, Live
<1>11. VanishedSeats
  BY <1>1 DEF VanishedSeats, Vanished
<1> QED  BY <1>2, <1>3, <1>4, <1>5, <1>6, <1>7, <1>8, <1>9, <1>10, <1>11 DEF ServerInv

\* A strand's step, split into its outcomes.
LEMMA HandlersPreserve ==
    ASSUME ServerInv, DungeonInv, PartyInv, DungeonInv', NEW s \in Sessions,
           HandlerStep(s) \/ ClientStep(s)
    PROVE  ServerInv'
<1>1. ASSUME NEW p \in Players, Login(s, p) PROVE ServerInv'
  BY <1>1, LoginRefusedPreserves, LoginPlainPreserves, LoginReconnectedPreserves DEF Login
<1>2. CASE RotateToken(s)
  BY <1>2, RotateDonePreserves, RotateFailsPreserves DEF RotateToken
<1>3. CASE UndoReconnect(s)
  BY <1>3, RollbackDonePreserves, RollbackFailsPreserves DEF UndoReconnect
<1>4. CASE DropReconnect(s)
  BY <1>4, DropSeatedPreserves, DropUnseatedPreserves DEF DropReconnect
<1>5. CASE PartyRequest(s) \/ EnterRead(s) \/ EnterParticipants(s) \/ EnterRelease(s)
           \/ InfoFind(s) \/ InfoToken(s) \/ CloseUdp(s) \/ CloseParty(s)
  BY <1>5, PartyRequestPreserves, EnterReadPreserves, EnterParticipantsPreserves,
     EnterReleasePreserves, InfoFindPreserves, InfoTokenPreserves, CloseUdpPreserves,
     ClosePartyPreserves
<1>6. CASE EnterCreate(s)
  BY <1>6, CreateDonePreserves, CreateRefusedPreserves DEF EnterCreate
<1>7. CASE EnterAllocate(s)
  BY <1>7, AllocateDonePreserves, AllocateFailsPreserves DEF EnterAllocate
<1>8. CASE EnterToken(s)
  BY <1>8, TokenFoundPreserves, TokenMissingPreserves DEF EnterToken
<1>9. CASE EnterCancel(s)
  BY <1>9, CancelDonePreserves, CancelFailsPreserves DEF EnterCancel
<1>10. CASE Close(s)
  BY <1>10, CloseSeatedPreserves, CloseUnseatedPreserves DEF Close
<1>11. ASSUME NEW d \in DungeonIds, Hello(d, s) PROVE ServerInv'
  BY <1>11, HelloPreserves
<1>12. CASE HandlerStep(s)
  BY <1>2, <1>3, <1>4, <1>5, <1>6, <1>7, <1>8, <1>9, <1>10, <1>12 DEF HandlerStep
<1>13. CASE ClientStep(s)
  BY <1>1, <1>5, <1>10, <1>11, <1>13 DEF ClientStep
<1> QED  BY <1>12, <1>13

\* A step of the tick, split into its outcomes.
LEMMA TickPreserves ==
    ASSUME ServerInv, DungeonInv, PartyInv, DungeonInv', Tick
    PROVE  ServerInv'
<1>1. CASE TickSweep \/ TickRemove \/ TickRelease \/ TickListWaiting \/ TickCancelRelease
           \/ TickListRunning \/ TickListFinished \/ TickFinishRelease \/ TickEnd
  BY <1>1, TickSweepPreserves, TickRemovePreserves, TickReleasePreserves, TickListWaitingPreserves,
     TickCancelReleasePreserves, TickListRunningPreserves, TickListFinishedPreserves,
     TickFinishReleasePreserves, TickEndPreserves
<1>2. CASE TickCheck
  BY <1>2, CheckLeavesPreserves, CheckGoesPreserves DEF TickCheck
<1>3. CASE TickAuth
  BY <1>3, AuthStartsPreserves, AuthWaitsPreserves, AuthCancelsPreserves DEF TickAuth
<1>4. CASE TickStart
  BY <1>4, StartDonePreserves, StartRefusedPreserves DEF TickStart
<1>5. CASE TickCancel
  BY <1>5, CancelErasesPreserves, CancelRefusedPreserves DEF TickCancel
<1>6. CASE TickRun
  BY <1>6, RunAdvancesPreserves, RunFinishesPreserves DEF TickRun
<1>7. CASE TickFinished
  BY <1>7, FinishedErasesPreserves, FinishedKeepsPreserves DEF TickFinished
<1> QED  BY <1>1, <1>2, <1>3, <1>4, <1>5, <1>6, <1>7 DEF Tick

\* Nothing moves, nothing is disturbed.
LEMMA StutterPreserves ==
    ASSUME ServerInv, UNCHANGED serverVars
    PROVE  ServerInv'
<1>1. UNCHANGED <<joinedParties, dungeonState, dungeonAge, players,
        participantPlayerIds, disconnectedSince, authenticatedPlayers, nextDungeonId,
        connection, reconnecting, udpAllocated, udpTokens, udpEndpoints, at, dungeonOf,
        rosterOf, told, tickAt, tickRemoved, tickTodo, tickDungeon, tickWaiting,
        waitingSince, finishedSince>>
  BY DEF serverVars, partyVars, dungeonVars, instanceVars, identityVars, udpVars, sessionVars, tickVars
<1> QED  BY <1>1, KeptUdpTypeOK, KeptStrandTypeOK, KeptTickTypeOK, KeptPositions,
     KeptEntersAlone, KeptRosters, KeptKnownDungeons, KeptKnownSessions,
     KeptTickPosition, KeptTickTimes, KeptTimesListed, KeptUdpFollows, KeptNewDungeonYoung,
     KeptDeparted, KeptOldSeats, KeptEndpointsHoldTokens, KeptTokenFollowsSeat,
     KeptReconnectOneSeat, KeptHelloWasTold, KeptVanishedSeats DEF ServerInv

\* The three invariants are inductive together.
LEMMA ServerInductive ==
    ServerInv /\ DungeonInv /\ PartyInv /\ [ServerNext]_serverVars
        => (ServerInv /\ DungeonInv /\ PartyInv)'
<1> SUFFICES ASSUME ServerInv, DungeonInv, PartyInv, [ServerNext]_serverVars
             PROVE  (ServerInv /\ DungeonInv /\ PartyInv)'
  OBVIOUS
<1>1. DungeonInv' /\ PartyInv'
  BY ServerImplementsStep, DungeonInductive, PartyStep
<1>2. CASE UNCHANGED serverVars
  BY <1>1, <1>2, StutterPreserves
<1>3. CASE ServerNext
  BY <1>1, <1>3, HandlersPreserve, TickPreserves, ElapsePreserves DEF ServerNext
<1> QED  BY <1>2, <1>3

\* The three invariants hold in every state of the server.
LEMMA ServerInvariant == ServerSpec => [](ServerInv /\ DungeonInv /\ PartyInv)
<1>1. ServerInit => ServerInv /\ DungeonInv /\ PartyInv
  BY ServerInitially, DungeonInitially, PartyInitially DEF ServerInit
<1> QED  BY <1>1, ServerInductive, PTL DEF ServerSpec

-----------------------------------------------------------------------------
\* For any values of the constants: seen through the managers' state, every behaviour
\* of handlers and tick is a behaviour of DungeonManager's and of PartyManager's own
\* specification, so every theorem about a manager alone holds in the server.
THEOREM ServerImplementsManagers == ServerSpec => ImplementsManagers
<1>1. ServerInit => DungeonInit /\ PartyInit
  BY DEF ServerInit
<1>2. ServerInv /\ DungeonInv /\ PartyInv /\ [ServerNext]_serverVars
          => [DungeonNext]_dungeonVars /\ [PartyNext]_partyVars
  BY ServerImplementsStep
<1> QED  BY <1>1, <1>2, ServerInvariant, PTL DEF ServerSpec, ImplementsManagers, DungeonSpec, PartySpec

\* What the managers guarantee on their own they guarantee in the server, between any two
\* of the locks its handlers take: seats, identities and marks agree, a seat is not taken
\* from a connected session, the party maps agree and leadership is stable.
THEOREM ServerKeepsManagers ==
    ServerSpec => /\ [](SeatsExclusive /\ SeatBookkeeping /\ PartiesConsistent)
                  /\ SeatMovesOnlyAfterDisconnect /\ DungeonStateMonotonic /\ LeadershipStable
<1>1. ServerSpec => DungeonSpec /\ PartySpec
  BY ServerImplementsManagers DEF ImplementsManagers
<1>2. DungeonSpec => [](SeatsExclusive /\ SeatBookkeeping)
  BY DungeonIdentities, DungeonSeats, PTL
<1>3. PartySpec => []PartiesConsistent
  BY PartyCorrect, PTL
<1> QED  BY <1>1, <1>2, <1>3, DungeonSeatMoves, DungeonForward, PartyLeadershipStable, PTL

\* For any values of the constants: every variable of the server keeps its type, and
\* tokens follow seats and endpoints tokens, although the dungeon manager and the UDP
\* manager move them under different locks: with no handler and no tick under way, a
\* connected client holds a token exactly of the dungeons it sits in.
THEOREM ServerTokens == ServerSpec => [](ServerTypeOK /\ TokensMatchSeats)
<1>1. ASSUME ServerInv, DungeonInv, PartyInv PROVE ServerTypeOK
  BY <1>1 DEF ServerInv, DungeonInv, PartyInv, StrandTypeOK, TickTypeOK, ServerTypeOK
<1>2. ASSUME ServerInv, DungeonInv, PartyInv PROVE ConnectedSeatHasToken
  <2> USE <1>2 DEF ServerInv
  <2> SUFFICES ASSUME Quiet, NEW d \in DungeonIds, NEW s \in Sessions, at[s] = "idle"
               PROVE  s \in udpTokens[d] <=> s \in players[d]
    BY DEF ConnectedSeatHasToken
  <2>1. Live(d) <=> d \in udpAllocated
    BY DEF Quiet, AtRest, UdpFollows, Releasing
  <2>2. CASE Live(d)
    BY <2>1, <2>2 DEF TokenFollowsSeat, InUse
  <2>3. CASE ~Live(d)
    BY <2>1, <2>3 DEF EndpointsHoldTokens, DungeonInv, SeatsConsistent
  <2> QED  BY <2>2, <2>3
<1>3. ServerInv => EndpointsHoldTokens
  BY DEF ServerInv
<1> QED  BY <1>1, <1>2, <1>3, ServerInvariant, PTL DEF TokensMatchSeats

\* For any values of the constants: with no handler and no tick under way, exactly the
\* live dungeons have a UDP session: no interleaving of entering, failing to allocate,
\* sweeping, cancelling and finishing leaks a socket or strands a dungeon without one.
THEOREM ServerUdpSessions == ServerSpec => []UdpSessionPerDungeon
<1>1. ASSUME ServerInv PROVE UdpSessionPerDungeon
  BY <1>1 DEF ServerInv, UdpSessionPerDungeon, Quiet, AtRest, UdpFollows, Releasing, UdpTypeOK
<1> QED  BY <1>1, ServerInvariant, PTL

\* For any values of the constants: no dungeon is started with a seat that belongs to
\* nobody, although the roster is read under one lock, the dungeon created under a
\* second and its members may leave in between: such a seat's token reaches no client,
\* so AllParticipantsAuthenticated stays false until the ready timeout.
THEOREM ServerSeatsAccountedFor == ServerSpec => []RunningSeatsAccountedFor
<1>1. ASSUME ServerInv, DungeonInv PROVE RunningSeatsAccountedFor
  <2>1. \A d \in DungeonIds : players[d] \subseteq Sessions
    BY <1>1 DEF DungeonInv, DungeonTypeOK
  <2>2. \A d \in DungeonIds : \A s \in Sessions :
          s \in players[d] /\ dungeonState[d] \in {"Running", "Finished"} => participantPlayerIds[d][s] # None
    BY <1>1 DEF ServerInv, VanishedSeats, Vanished, Live
  <2> QED  BY <2>1, <2>2 DEF RunningSeatsAccountedFor
<1> QED  BY <1>1, ServerInvariant, PTL

\* For any values of the constants: between ticks waitingSince_ is only about dungeons
\* that wait or that were listed as waiting by the last tick and are gone since, so no
\* entry outlives its dungeon by a whole tick, and finishedSince_ is about exactly the
\* finished ones.
THEOREM ServerTimesFresh == ServerSpec => []TickTimesFresh
<1>1. ASSUME ServerInv PROVE TickTimesFresh
  BY <1>1 DEF ServerInv, TickTimesFresh, Quiet, TickTimes, TimesListed, InWaitingLoop
<1> QED  BY <1>1, ServerInvariant, PTL
=============================================================================
