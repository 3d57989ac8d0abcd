----------------------------- MODULE GameServer -----------------------------
(***************************************************************************)
(* The game server: TCP sessions whose handlers (src/PacketDispatcher.cpp, *)
(* src/TcpSession.cpp, src/SessionManager.cpp, src/DungeonLifecycleService *)
(* .cpp) and the dungeon tick (src/DungeonTickService.cpp) call the party, *)
(* dungeon and UDP managers, each of which locks for itself.  A handler is *)
(* therefore several steps, one per critical section, and between two of   *)
(* them any other thread may run.                                          *)
(*                                                                         *)
(* at[s] is where the strand of session s is: at rest ("new" before login, *)
(* "idle", "gone") or inside a handler, before the named step.             *)
(*                                                                         *)
(* Two reads are merged into one step where nothing can change the answer  *)
(* in between: a session's party entry is written by its own strand only,  *)
(* and its leadership is stable (LeadershipStable), so the three reads at  *)
(* the start of EnterDungeon are the last of them.                         *)
(*                                                                         *)
(* Time.  A handler may stall for any time at any step but two: between    *)
(* creating a dungeon and allocating its UDP session no unit of time       *)
(* passes (an assumption: these are two consecutive calls, and the         *)
(* shortest limit in their way, the ready timeout, is 10 s).  A tick reads *)
(* the clock once, at its start.                                           *)
(***************************************************************************)
EXTENDS PartyManager, DungeonManager, DungeonUdpManager

CONSTANTS
    ReadyTimeout,        \* readyTimeout_, in units of time
    FinishedBroadcast    \* FINISHED_BROADCAST_DURATION, in units of time

ASSUME TickTimeAssumption ==
    /\ ReadyTimeout \in Nat \ {0}
    /\ FinishedBroadcast \in Nat \ {0}

VARIABLES
    at,             \* where the strand of each session is
    dungeonOf,      \* the handler's local dungeon id
    rosterOf,       \* the handler's local participant list
    told,           \* the tokens clients have received, as pairs (dungeon, session)
    tickAt,         \* where HandleTick is
    tickRemoved,    \* the rest of abandonmentSweep.removedParticipants
    tickTodo,       \* the rest of the list the current loop of HandleTick runs over
    tickDungeon,    \* dungeonId in the current iteration
    tickWaiting,    \* waitingDungeonSet, kept until the next tick makes its own
    waitingSince,   \* now - waitingSince_[d]
    finishedSince   \* now - finishedSince_[d]

sessionVars == <<at, dungeonOf, rosterOf, told>>
tickVars    == <<tickAt, tickRemoved, tickTodo, tickDungeon, tickWaiting,
                 waitingSince, finishedSince>>
serverVars  == <<partyVars, dungeonVars, udpVars, sessionVars, tickVars>>

AtRest  == {"new", "idle", "gone"}
Handler == {"rotate", "rollback", "drop", "create", "roster", "allocate", "token",
            "cancel", "release", "info", "close", "closeUdp", "closeParty"}
TickAt  == {"rest", "remove", "waiting", "auth", "start", "cancel", "cancelRelease",
            "running", "finished", "finishRelease"}

ServerTypeOK ==
    /\ PartyTypeOK /\ DungeonTypeOK /\ UdpTypeOK
    /\ at \in [Sessions -> AtRest \cup Handler]
    /\ dungeonOf \in [Sessions -> DungeonIds \cup {None}]
    /\ rosterOf \in [Sessions -> SUBSET Sessions]
    /\ told \in SUBSET (DungeonIds \X Sessions)
    /\ tickAt \in TickAt
    /\ tickRemoved \in SUBSET (DungeonIds \X Sessions)
    /\ tickTodo \in SUBSET DungeonIds
    /\ tickDungeon \in DungeonIds \cup {None}
    /\ tickWaiting \in SUBSET DungeonIds
    /\ waitingSince \in [DungeonIds -> (0..ReadyTimeout) \cup {None}]
    /\ finishedSince \in [DungeonIds -> (0..FinishedBroadcast) \cup {None}]

ServerInit ==
    /\ PartyInit /\ DungeonInit /\ UdpInit
    /\ at = [s \in Sessions |-> "new"]
    /\ dungeonOf = [s \in Sessions |-> None]
    /\ rosterOf = [s \in Sessions |-> {}]
    /\ told = {}
    /\ tickAt = "rest"
    /\ tickRemoved = {}
    /\ tickTodo = {}
    /\ tickDungeon = None
    /\ tickWaiting = {}
    /\ waitingSince = [d \in DungeonIds |-> None]
    /\ finishedSince = [d \in DungeonIds |-> None]

-----------------------------------------------------------------------------
(* The strand of a session.                                                *)

Goto(s, step) == at' = [at EXCEPT ![s] = step]

\* The strand moves from one step to the next, keeping its locals.
Step(s, from, to) ==
    /\ at[s] = from
    /\ Goto(s, to)
    /\ UNCHANGED <<dungeonOf, rosterOf>>

\* The handler ends.
Return(s, from) ==
    /\ at[s] = from
    /\ Goto(s, "idle")
    /\ dungeonOf' = [dungeonOf EXCEPT ![s] = None]
    /\ rosterOf' = [rosterOf EXCEPT ![s] = {}]

\* HandleResponse of the login: RegisterAuthenticatedPlayer, up to the end of
\* DungeonManager::RegisterPlayerSession.  A new session has no seat to be bound to.
Login(s, p) ==
    /\ \/ RegisterRefused(s, p) /\ Step(s, "new", "close")
       \/ RegisterPlain(s, p) /\ Step(s, "new", "idle")
       \/ \E d \in DungeonIds : RegisterReconnected(s, p, d) /\ Step(s, "new", "rotate")
    /\ UNCHANGED <<partyVars, udpVars, told, tickVars>>

\* Mutant of RotateToken: the failure to rotate the token is ignored.
RotateTokenIgnoresFailure(s) ==
    LET r == reconnecting[s] IN
    /\ Step(s, "rotate", "idle")
    /\ IF UdpCanReplace(r.dungeon, r.old, s)
       THEN UdpReplaceParticipant(r.dungeon, r.old, s)
       ELSE UNCHANGED udpVars
    /\ ReconnectCompleted(s)
    /\ UNCHANGED <<partyVars, told, tickVars>>

\* ReplaceParticipant gives the seat a new token, or returns nullopt.
RotateToken(s) ==
    LET r == reconnecting[s] IN
    /\ at[s] = "rotate"
    /\ \/ UdpReplaceParticipant(r.dungeon, r.old, s) /\ ReconnectCompleted(s)
          /\ Step(s, "rotate", "idle")
       \/ ~UdpCanReplace(r.dungeon, r.old, s) /\ UNCHANGED <<udpVars, dungeonVars>>
          /\ Step(s, "rotate", "rollback")
    /\ UNCHANGED <<partyVars, told, tickVars>>

\* No token: RollbackPlayerReconnect, and the session is closed.
UndoReconnect(s) ==
    /\ \/ RollbackPlayerReconnect(s) /\ Step(s, "rollback", "close")
       \/ RollbackRefused(s) /\ Step(s, "rollback", "drop")
    /\ UNCHANGED <<partyVars, udpVars, told, tickVars>>

\* The rollback failed: DungeonManager::DisconnectPlayerSession, whatever it returns.
DropReconnect(s) ==
    /\ Step(s, "drop", "close")
    /\ DisconnectUnseated(s) \/ \E d \in DungeonIds : DisconnectSeated(s, d)
    /\ UNCHANGED <<partyVars, udpVars, told, tickVars>>

\* A party request of an authenticated session.
PartyRequest(s) ==
    /\ at[s] = "idle"
    /\ \/ CreateParty(s)
       \/ \E p \in PartyIds : JoinParty(p, s)
       \/ joinedParties[s] # None /\ LeaveParty(s)
    /\ UNCHANGED <<dungeonVars, udpVars, sessionVars, tickVars>>

-----------------------------------------------------------------------------
(* HandleEnterDungeonRequest.                                              *)

\* The party and its members, read by its leader.
EnterRead(s) ==
    /\ at[s] = "idle"
    /\ joinedParties[s] # None
    /\ parties[joinedParties[s]].leader = s
    /\ Goto(s, "create")
    /\ rosterOf' = [rosterOf EXCEPT ![s] = MembersOf(joinedParties[s])]
    /\ UNCHANGED <<partyVars, dungeonVars, udpVars, dungeonOf, told, tickVars>>

\* CreateDungeon with the members read before; a party that already has a dungeon
\* is refused (and so is one beyond the bound on dungeons).
EnterCreate(s) ==
    /\ at[s] = "create"
    /\ \/ /\ CreateDungeon(joinedParties[s], rosterOf[s])
          /\ Goto(s, "roster")
          /\ dungeonOf' = [dungeonOf EXCEPT ![s] = nextDungeonId]
          /\ rosterOf' = [rosterOf EXCEPT ![s] = {}]
       \/ /\ ~PartyIsFree(joinedParties[s]) \/ nextDungeonId > MaxDungeons
          /\ Return(s, "create")
          /\ UNCHANGED dungeonVars
    /\ UNCHANGED <<partyVars, udpVars, told, tickVars>>

\* creation.dungeon->Participants()
EnterParticipants(s) ==
    /\ at[s] = "roster"
    /\ Goto(s, "allocate")
    /\ rosterOf' = [rosterOf EXCEPT ![s] = participants[dungeonOf[s]]]
    /\ UNCHANGED <<partyVars, dungeonVars, udpVars, dungeonOf, told, tickVars>>

\* Allocate, which may fail to open its socket.
EnterAllocate(s) ==
    /\ at[s] = "allocate"
    /\ \/ UdpAllocate(dungeonOf[s], rosterOf[s]) /\ Step(s, "allocate", "token")
       \/ UdpAllocateFails /\ Step(s, "allocate", "cancel")
    /\ UNCHANGED <<partyVars, dungeonVars, told, tickVars>>

\* FindToken: the answer goes to the client, or the dungeon is cancelled.
EnterToken(s) ==
    /\ at[s] = "token"
    /\ IF s \in udpTokens[dungeonOf[s]]
       THEN /\ Return(s, "token")
            /\ told' = told \cup {<<dungeonOf[s], s>>}
       ELSE Step(s, "token", "cancel") /\ UNCHANGED told
    /\ UNCHANGED <<partyVars, dungeonVars, udpVars, tickVars>>

\* CancelWaitingDungeon; the handler throws when the dungeon is not waiting.
EnterCancel(s) ==
    /\ at[s] = "cancel"
    /\ IF dungeonState[dungeonOf[s]] = "Waiting"
       THEN CancelDungeon(dungeonOf[s]) /\ Step(s, "cancel", "release")
       ELSE Step(s, "cancel", "close") /\ UNCHANGED dungeonVars
    /\ UNCHANGED <<partyVars, udpVars, told, tickVars>>

EnterRelease(s) ==
    /\ Return(s, "release")
    /\ UdpRelease(dungeonOf[s])
    /\ UNCHANGED <<partyVars, dungeonVars, told, tickVars>>

-----------------------------------------------------------------------------
\* The dungeons HandleDungeonConnectionInfoRequest may settle on: the one of the
\* party, and without one any dungeon that has a seat of s.
InfoDungeons(s) ==
    IF joinedParties[s] # None /\ ~PartyIsFree(joinedParties[s])
    THEN {partyDungeons[joinedParties[s]]}
    ELSE SeatsOf(s)

\* HandleDungeonConnectionInfoRequest, up to HasParticipant.
InfoFind(s) ==
    /\ at[s] = "idle"
    /\ \E d \in InfoDungeons(s) :
          /\ s \in participants[d]
          /\ dungeonOf' = [dungeonOf EXCEPT ![s] = d]
    /\ Goto(s, "info")
    /\ UNCHANGED <<partyVars, dungeonVars, udpVars, rosterOf, told, tickVars>>

\* Its FindToken: Success with the token, or UdpNotReady.
InfoToken(s) ==
    /\ Return(s, "info")
    /\ told' = IF s \in udpTokens[dungeonOf[s]] THEN told \cup {<<dungeonOf[s], s>>} ELSE told
    /\ UNCHANGED <<partyVars, dungeonVars, udpVars, tickVars>>

\* The client authenticates over UDP with a token it was told.  The datagram may
\* arrive at any later time, and more than once.
Hello(d, s) ==
    /\ <<d, s>> \in told
    /\ UdpHello(d, s)
    /\ UNCHANGED <<partyVars, dungeonVars, sessionVars, tickVars>>

-----------------------------------------------------------------------------
(* CloseOnStrand: after a failed step, or, between two handlers, on an     *)
(* error, a timeout or the client's departure.  RemoveSession.             *)

\* Mutant of Close: the removal is not serialised with the session's handlers.
CloseUnserialised(s) ==
    /\ at[s] \in {"new", "idle", "rotate", "close"}
    /\ \/ /\ \E d \in DungeonIds : /\ DisconnectSeated(s, d)
                                   /\ dungeonOf' = [dungeonOf EXCEPT ![s] = d]
          /\ Goto(s, "closeUdp")
       \/ DisconnectUnseated(s) /\ Goto(s, "closeParty") /\ UNCHANGED dungeonOf
    /\ UNCHANGED <<partyVars, udpVars, rosterOf, told, tickVars>>

\* DungeonManager::DisconnectPlayerSession
Close(s) ==
    /\ at[s] \in {"new", "idle", "close"}
    /\ \/ /\ \E d \in DungeonIds : /\ DisconnectSeated(s, d)
                                   /\ dungeonOf' = [dungeonOf EXCEPT ![s] = d]
          /\ Goto(s, "closeUdp")
       \/ DisconnectUnseated(s) /\ Goto(s, "closeParty") /\ UNCHANGED dungeonOf
    /\ UNCHANGED <<partyVars, udpVars, rosterOf, told, tickVars>>

\* DungeonUdpManager::DisconnectParticipant
CloseUdp(s) ==
    /\ Step(s, "closeUdp", "closeParty")
    /\ UdpDisconnectParticipant(dungeonOf[s], s)
    /\ UNCHANGED <<partyVars, dungeonVars, told, tickVars>>

\* LeaveParty (LeaveChannel, before it, concerns another manager).
CloseParty(s) ==
    /\ at[s] = "closeParty"
    /\ Goto(s, "gone")
    /\ dungeonOf' = [dungeonOf EXCEPT ![s] = None]
    /\ rosterOf' = [rosterOf EXCEPT ![s] = {}]
    /\ LeaveParty(s)
    /\ UNCHANGED <<dungeonVars, udpVars, told, tickVars>>

\* The steps of a handler that has begun.
HandlerStep(s) ==
    \/ RotateToken(s) \/ UndoReconnect(s) \/ DropReconnect(s)
    \/ EnterCreate(s) \/ EnterParticipants(s) \/ EnterAllocate(s) \/ EnterToken(s)
    \/ EnterCancel(s) \/ EnterRelease(s) \/ InfoToken(s)
    \/ at[s] \notin AtRest /\ Close(s)
    \/ CloseUdp(s) \/ CloseParty(s)

\* What a client may do at any time.
ClientStep(s) ==
    \/ \E p \in Players : Login(s, p)
    \/ PartyRequest(s)
    \/ EnterRead(s)
    \/ InfoFind(s)
    \/ at[s] \in AtRest /\ Close(s)
    \/ \E d \in DungeonIds : Hello(d, s)

-----------------------------------------------------------------------------
(* HandleTick, on a thread of its own.                                     *)

TickGoto(step, d) == tickAt' = step /\ tickDungeon' = d

WithoutTime(since, d) == [since EXCEPT ![d] = None]

\* DungeonManager::SweepAbandonedParticipants; the sweep returns who was removed and
\* which dungeons are gone.  tickTodo holds the latter.
TickSweep ==
    /\ tickAt = "rest"
    /\ SweepAbandonedParticipants
    /\ tickRemoved' = {r \in DungeonIds \X Sessions : Live(r[1]) /\ r[2] \in SweptFrom(r[1])}
    /\ tickTodo' = SweptDungeons
    /\ TickGoto("remove", None)
    /\ UNCHANGED <<partyVars, udpVars, sessionVars, tickWaiting, waitingSince, finishedSince>>

\* RemoveParticipant for each participant removed.
TickRemove ==
    /\ tickAt = "remove"
    /\ \E r \in tickRemoved :
          /\ UdpRemoveParticipant(r[1], r[2])
          /\ tickRemoved' = tickRemoved \ {r}
    /\ UNCHANGED <<partyVars, dungeonVars, sessionVars, tickAt, tickTodo, tickDungeon,
                   tickWaiting,
                   waitingSince, finishedSince>>

\* Mutant of TickRelease: the UDP session of a swept dungeon is not released.
TickReleaseForgotten ==
    /\ tickAt = "remove"
    /\ tickRemoved = {}
    /\ \E d \in tickTodo :
          /\ tickTodo' = tickTodo \ {d}
          /\ waitingSince' = WithoutTime(waitingSince, d)
          /\ finishedSince' = WithoutTime(finishedSince, d)
    /\ UNCHANGED <<partyVars, dungeonVars, udpVars, sessionVars, tickAt, tickRemoved, tickDungeon,
                   tickWaiting>>

\* Release for each dungeon erased, and the tick's own entries about it.
TickRelease ==
    /\ tickAt = "remove"
    /\ tickRemoved = {}
    /\ \E d \in tickTodo :
          /\ UdpRelease(d)
          /\ tickTodo' = tickTodo \ {d}
          /\ waitingSince' = WithoutTime(waitingSince, d)
          /\ finishedSince' = WithoutTime(finishedSince, d)
    /\ UNCHANGED <<partyVars, dungeonVars, sessionVars, tickAt, tickRemoved, tickDungeon,
                   tickWaiting>>

InState(state) == {d \in DungeonIds : dungeonState[d] = state}

\* WaitingDungeonIds
TickListWaiting ==
    /\ tickAt = "remove"
    /\ tickRemoved = {} /\ tickTodo = {}
    /\ tickTodo' = InState("Waiting")
    /\ tickWaiting' = InState("Waiting")
    /\ TickGoto("waiting", None)
    /\ UNCHANGED <<partyVars, dungeonVars, udpVars, sessionVars, tickRemoved,
                   waitingSince, finishedSince>>

HasDisconnectedParticipants(d) == \E s \in Sessions : disconnectedSince[d][s] # None

\* The next waiting dungeon: one with a disconnected participant is left alone and
\* its ready timeout starts anew.  A dungeon cancelled since has no participants.
TickCheck ==
    /\ tickAt = "waiting"
    /\ \E d \in tickTodo :
          /\ tickTodo' = tickTodo \ {d}
          /\ \/ /\ HasDisconnectedParticipants(d)
                /\ waitingSince' = WithoutTime(waitingSince, d)
                /\ UNCHANGED <<tickAt, tickDungeon>>
             \/ /\ ~HasDisconnectedParticipants(d)
                /\ TickGoto("auth", d)
                /\ UNCHANGED waitingSince
    /\ UNCHANGED <<partyVars, dungeonVars, udpVars, sessionVars, tickRemoved,
                   tickWaiting, finishedSince>>

\* AllParticipantsAuthenticated; otherwise the ready timeout runs.
TickAuth ==
    /\ tickAt = "auth"
    /\ LET d == tickDungeon IN
       \/ /\ UdpAllAuthenticated(d)
          /\ TickGoto("start", d)
          /\ UNCHANGED waitingSince
       \/ /\ ~UdpAllAuthenticated(d)
          /\ waitingSince[d] # ReadyTimeout
          /\ waitingSince' = [waitingSince EXCEPT ![d] = IF @ = None THEN 0 ELSE @]
          /\ TickGoto("waiting", None)
       \/ /\ ~UdpAllAuthenticated(d)
          /\ waitingSince[d] = ReadyTimeout
          /\ TickGoto("cancel", d)
          /\ UNCHANGED waitingSince
    /\ UNCHANGED <<partyVars, dungeonVars, udpVars, sessionVars, tickRemoved, tickTodo,
                   tickWaiting, finishedSince>>

\* StartDungeon, whatever it returns (RefreshAllActivity only touches idle timers).
TickStart ==
    /\ tickAt = "start"
    /\ IF CanStart(tickDungeon) THEN StartDungeon(tickDungeon) ELSE UNCHANGED dungeonVars
    /\ waitingSince' = WithoutTime(waitingSince, tickDungeon)
    /\ TickGoto("waiting", None)
    /\ UNCHANGED <<partyVars, udpVars, sessionVars, tickRemoved, tickTodo,
                   tickWaiting, finishedSince>>

\* The ready timeout: CancelWaitingDungeon.
TickCancel ==
    /\ tickAt = "cancel"
    /\ IF dungeonState[tickDungeon] = "Waiting"
       THEN CancelDungeon(tickDungeon) /\ TickGoto("cancelRelease", tickDungeon)
       ELSE UNCHANGED dungeonVars /\ TickGoto("waiting", None)
    /\ waitingSince' = WithoutTime(waitingSince, tickDungeon)
    /\ UNCHANGED <<partyVars, udpVars, sessionVars, tickRemoved, tickTodo,
                   tickWaiting, finishedSince>>

TickCancelRelease ==
    /\ tickAt = "cancelRelease"
    /\ UdpRelease(tickDungeon)
    /\ TickGoto("waiting", None)
    /\ UNCHANGED <<partyVars, dungeonVars, sessionVars, tickRemoved, tickTodo, tickWaiting,
                   waitingSince, finishedSince>>

\* Mutant of TickListRunning: waitingSince_ is not gone through.
TickListRunningUnpruned ==
    /\ tickAt = "waiting" /\ tickTodo = {}
    /\ tickTodo' = InState("Running")
    /\ TickGoto("running", None)
    /\ UNCHANGED <<partyVars, dungeonVars, udpVars, sessionVars, tickRemoved, tickWaiting,
                   waitingSince, finishedSince>>

\* After the waiting dungeons: the times of those that were not among them are
\* erased, then RunningDungeonIds.
TickListRunning ==
    /\ tickAt = "waiting" /\ tickTodo = {}
    /\ waitingSince' = [d \in DungeonIds |-> IF d \in tickWaiting THEN waitingSince[d] ELSE None]
    /\ tickTodo' = InState("Running")
    /\ TickGoto("running", None)
    /\ UNCHANGED <<partyVars, dungeonVars, udpVars, sessionVars, tickRemoved, tickWaiting,
                   finishedSince>>

\* A running dungeon: endpoints found idle are dropped, the simulation advances and
\* may clear the last room.
TickRun ==
    /\ tickAt = "running"
    /\ \E d \in tickTodo :
          /\ tickTodo' = tickTodo \ {d}
          /\ \E idle \in SUBSET udpEndpoints[d] : UdpRemoveInactive(d, idle)
          /\ \/ UNCHANGED <<dungeonVars, finishedSince>>
             \/ /\ TryFinishIfCleared(d)
                /\ finishedSince' = [finishedSince EXCEPT ![d] = 0]
    /\ UNCHANGED <<partyVars, sessionVars, tickAt, tickRemoved, tickDungeon,
                   tickWaiting, waitingSince>>

\* FinishedDungeonIds
TickListFinished ==
    /\ tickAt = "running" /\ tickTodo = {}
    /\ tickTodo' = InState("Finished")
    /\ TickGoto("finished", None)
    /\ UNCHANGED <<partyVars, dungeonVars, udpVars, sessionVars, tickRemoved, tickWaiting,
                   waitingSince, finishedSince>>

\* A finished dungeon is broadcast for a while, then FinishDungeon erases it.
TickFinished ==
    /\ tickAt = "finished"
    /\ \E d \in tickTodo :
          /\ tickTodo' = tickTodo \ {d}
          /\ \/ /\ finishedSince[d] = FinishedBroadcast
                /\ FinishDungeon(d)
                /\ finishedSince' = WithoutTime(finishedSince, d)
                /\ TickGoto("finishRelease", d)
             \/ /\ finishedSince[d] # FinishedBroadcast
                /\ UNCHANGED <<dungeonVars, finishedSince, tickAt, tickDungeon>>
    /\ UNCHANGED <<partyVars, udpVars, sessionVars, tickRemoved, tickWaiting, waitingSince>>

TickFinishRelease ==
    /\ tickAt = "finishRelease"
    /\ UdpRelease(tickDungeon)
    /\ TickGoto("finished", None)
    /\ UNCHANGED <<partyVars, dungeonVars, sessionVars, tickRemoved, tickTodo, tickWaiting,
                   waitingSince, finishedSince>>

\* ScheduleNextTick
TickEnd ==
    /\ tickAt = "finished" /\ tickTodo = {}
    /\ TickGoto("rest", None)
    /\ UNCHANGED <<partyVars, dungeonVars, udpVars, sessionVars, tickRemoved, tickTodo,
                   tickWaiting,
                   waitingSince, finishedSince>>

Tick ==
    \/ TickSweep \/ TickRemove \/ TickRelease
    \/ TickListWaiting \/ TickCheck \/ TickAuth \/ TickStart \/ TickCancel \/ TickCancelRelease
    \/ TickListRunning \/ TickRun
    \/ TickListFinished \/ TickFinished \/ TickFinishRelease \/ TickEnd

\* The steps a strand may be stalled at while time passes.
MayStall(s) == at[s] \notin {"roster", "allocate"}

\* One unit of time passes.
Elapse ==
    /\ tickAt = "rest"
    /\ \A s \in Sessions : MayStall(s)
    /\ ElapseDungeons
    /\ waitingSince' = [d \in DungeonIds |-> Older(waitingSince[d], ReadyTimeout)]
    /\ finishedSince' = [d \in DungeonIds |-> Older(finishedSince[d], FinishedBroadcast)]
    /\ UNCHANGED <<partyVars, udpVars, sessionVars, tickAt, tickRemoved, tickTodo, tickDungeon,
                   tickWaiting>>

ServerNext ==
    \/ \E s \in Sessions : HandlerStep(s) \/ ClientStep(s)
    \/ Tick
    \/ Elapse

ServerSpec == ServerInit /\ [][ServerNext]_serverVars

\* The strands and the tick run on threads that are scheduled, and time passes even
\* if handlers keep starting; clients need not do anything.
ServerFairness ==
    /\ \A s \in Sessions : WF_serverVars(HandlerStep(s))
    /\ WF_serverVars(Tick)
    /\ SF_serverVars(Elapse)

FairServerSpec == ServerSpec /\ ServerFairness
-----------------------------------------------------------------------------
Quiet == tickAt = "rest" /\ \A s \in Sessions : at[s] \in AtRest

\* An authenticated UDP endpoint belongs to a session that holds a token, and a
\* dungeon without a UDP session has neither: AllParticipantsAuthenticated compares
\* only the sizes of the two maps.
EndpointsHoldTokens ==
    \A d \in DungeonIds :
        /\ udpEndpoints[d] \subseteq udpTokens[d]
        /\ d \notin udpAllocated => udpTokens[d] = {}

\* Between handlers, a live dungeon has its UDP session and no other dungeon has
\* one: no interleaving of entering, reconnecting, sweeping and cancelling leaks a
\* socket or leaves players waiting in a dungeon that nobody can connect to.
UdpSessionPerDungeon ==
    Quiet => udpAllocated = {d \in DungeonIds : Live(d)}

\* Between handlers, a connected client holds a token of a dungeon exactly when it
\* has a seat there, although seats (dungeon manager) and tokens (UDP manager) are
\* moved under different locks.
ConnectedSeatHasToken ==
    Quiet => \A d \in DungeonIds, s \in Sessions :
        at[s] = "idle" => (s \in udpTokens[d] <=> s \in players[d])

\* Tokens follow seats, and endpoints tokens, through every interleaving of entering,
\* reconnecting, rolling back, sweeping and late Hellos.
TokensMatchSeats == EndpointsHoldTokens /\ ConnectedSeatHasToken

\* Everyone in a running dungeon is bound to a player: a seat whose owner vanished
\* after the leader read the roster and before the dungeon was created from it is
\* never simulated.  (It need not be connected: a session that sits in two dungeons
\* is marked in one of them only when it leaves.)
RunningSeatsAccountedFor ==
    \A d \in DungeonIds : \A s \in players[d] :
        dungeonState[d] \in {"Running", "Finished"} => participantPlayerIds[d][s] # None

\* The times the tick keeps do not pile up and are never of an earlier state: a ready
\* timeout runs for a dungeon that waits, or that was among the waiting ones of the
\* last tick and has been cancelled since, so that none outlives its dungeon by a whole
\* tick; and a finished dungeon, no other, has its time of finishing.
TickTimesFresh ==
    Quiet => \A d \in DungeonIds :
        /\ waitingSince[d] # None => /\ d \in tickWaiting
                                     /\ dungeonState[d] \in {"Waiting", "Absent"}
        /\ finishedSince[d] # None <=> dungeonState[d] = "Finished"

\* Every dungeon ends, whatever its players do: it is cancelled, finished, abandoned
\* or reaches its maximal lifetime.
DungeonsEnd == \A d \in DungeonIds : Live(d) ~> ~Live(d)

\* Every UDP session, with its socket, is released.
UdpReleased == \A d \in DungeonIds : d \in udpAllocated ~> d \notin udpAllocated

\* Nothing is held forever, whatever clients do or stop doing.
EverythingEnds == DungeonsEnd /\ UdpReleased

\* Seen through the managers' state, every step of a handler or of the tick is a step
\* that the manager's own specification allows, so its theorems hold in the server.
ImplementsManagers == DungeonSpec /\ PartySpec

\* README.md, connection sequence: the dungeon starts once every participant has
\* authenticated.  So StartDungeon finds every seat with an endpoint.
StartsAuthenticated ==
    [][\A d \in DungeonIds :
          dungeonState[d] = "Waiting" /\ dungeonState'[d] = "Running"
              => players[d] \subseteq udpEndpoints[d]]_serverVars
=============================================================================
