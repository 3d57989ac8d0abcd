-------------------------- MODULE ServerLifecycle ---------------------------
(***************************************************************************)
(* Starting and stopping the game server (src/ServerApplication.cpp) with  *)
(* the parts that Run starts and StopOnIoContext stops one after another,  *)
(* while the threads of the io_context go on serving: the acceptor         *)
(* (src/TcpServer.cpp), the tick timer (src/DungeonTickService.cpp), the   *)
(* sessions (src/SessionManager.cpp) and their channels                    *)
(* (src/ChannelManager.cpp), the dungeons and their UDP sockets.           *)
(*                                                                         *)
(* Run returns when the io_context has nothing left to wait for, so        *)
(* whatever is missed by the shutdown, or starts after it has passed, keeps *)
(* the server from ending.  A step of StopOnIoContext is one action; each  *)
(* takes the mutex of the part it stops.  A dungeon is named after the     *)
(* session that creates it.                                                *)
(***************************************************************************)
EXTENDS TickClock

CONSTANTS
    Sessions,       \* connections that may be accepted
    Leaders,        \* the ones that lead a party and may create a dungeon
    Channels,       \* channelManager_'s channels
    MaxPlayers,     \* maxPlayers of each channel
    None            \* absent value

ASSUME LifecycleAssumption ==
    /\ Leaders \subseteq Sessions /\ MaxPlayers \in Nat \ {0} /\ None \notin Channels
    /\ Sessions \cap {"none", "waiting", "ready", "aborted"} = {}

VARIABLES
    mainAt,              \* where the thread in Run is
    stopAt,              \* where a thread in Stop is
    runStarted,          \* runStarted_
    stopRequested,       \* stopRequested_
    shutdownStarted,     \* shutdownStarted_
    shutdownAt,          \* where StopOnIoContext is
    stopPosted,          \* a StopOnIoContext waits for lifecycleStrand_
    signal,              \* async_wait of shutdownSignals_
    accepting,           \* async_accept and its handler
    acceptor,            \* acceptor_ is open, TcpServer's stopped_, its close is queued
    tick,                \* running_, the timer and its handler, the cancel is queued
    session,             \* where each TcpSession is
    startQueued,         \* sessions whose Start waits for their strand
    stopQueued,          \* sessions whose Stop waits for their strand
    listed,              \* the keys of sessions_ of the SessionManager
    stopping,            \* the managers whose stopping_ is set
    channelOf,           \* joinedChannels_
    currentPlayers,      \* currentPlayers of each channel
    dungeons,            \* dungeons_ of the DungeonManager
    sockets              \* sessions_ of the DungeonUdpManager

runVars     == <<mainAt, stopAt, runStarted, stopRequested, shutdownStarted, shutdownAt,
                 stopPosted, signal>>
sessionVars == <<session, startQueued, stopQueued, listed>>
channelVars == <<channelOf, currentPlayers>>
dungeonVars == <<dungeons, sockets>>
vars == <<runVars, accepting, acceptor, tick, sessionVars, stopping, channelVars,
          dungeonVars>>

LifecycleTypeOK ==
    /\ mainAt \in {"new", "check", "signals", "tick", "listen", "shutdown", "run", "drain", "returned"}
    /\ stopAt \in {"idle", "load", "done"}
    /\ runStarted \in BOOLEAN /\ stopRequested \in BOOLEAN /\ shutdownStarted \in BOOLEAN
    /\ shutdownAt \in {"none", "tcp", "tick", "dungeons", "udp", "sessions", "done"}
    /\ stopPosted \in BOOLEAN
    /\ signal \in {"none", "waiting", "ready", "aborted"}
    /\ accepting \in {"none", "waiting", "ready", "aborted"} \cup Sessions
    /\ acceptor \in [open : BOOLEAN, stopped : BOOLEAN, closeQueued : BOOLEAN]
    /\ tick \in [running : BOOLEAN, cancelQueued : BOOLEAN,
                 at : {"none", "starting", "waiting", "ready", "aborted", "handling"}]
    /\ session \in [Sessions -> {"none", "created", "open", "allocating", "leaving", "erasing", "closed"}]
    /\ startQueued \in SUBSET Sessions /\ stopQueued \in SUBSET Sessions
    /\ listed \in SUBSET Sessions
    /\ stopping \in SUBSET {"dungeons", "udp", "sessions"}
    /\ channelOf \in [Sessions -> Channels \cup {None}]
    /\ currentPlayers \in [Channels -> Nat]
    /\ dungeons \in SUBSET Sessions /\ sockets \in SUBSET Sessions

LifecycleInit ==
    /\ mainAt = "new" /\ stopAt = "idle"
    /\ runStarted = FALSE /\ stopRequested = FALSE /\ shutdownStarted = FALSE
    /\ shutdownAt = "none" /\ stopPosted = FALSE /\ signal = "none"
    /\ accepting = "none"
    /\ acceptor = [open |-> FALSE, stopped |-> FALSE, closeQueued |-> FALSE]
    /\ tick = [running |-> FALSE, cancelQueued |-> FALSE, at |-> "none"]
    /\ session = [s \in Sessions |-> "none"]
    /\ startQueued = {} /\ stopQueued = {} /\ listed = {}
    /\ stopping = {}
    /\ channelOf = [s \in Sessions |-> None]
    /\ currentPlayers = [c \in Channels |-> 0]
    /\ dungeons = {} /\ sockets = {}

-----------------------------------------------------------------------------
(* Run, up to the threads of the io_context.                               *)

Main(from, to) == mainAt = from /\ mainAt' = to

restOfRun == <<stopAt, runStarted, stopRequested, shutdownStarted, shutdownAt, stopPosted, signal>>
parts     == <<accepting, acceptor, tick, sessionVars, stopping, channelVars, dungeonVars>>

\* runStarted_ is set,
RunStarts ==
    /\ Main("new", "check")
    /\ runStarted' = TRUE
    /\ UNCHANGED <<stopAt, stopRequested, shutdownStarted, shutdownAt, stopPosted, signal, parts>>

\* Mutant of RunChecks: a Stop that came first is not noticed.
RunChecksNothing ==
    /\ Main("check", "signals")
    /\ UNCHANGED <<restOfRun, parts>>

\* and only then stopRequested_ is looked at.
RunChecks ==
    /\ Main("check", IF stopRequested THEN "drain" ELSE "signals")
    /\ UNCHANGED <<restOfRun, parts>>

WaitForShutdownSignal ==
    /\ Main("signals", "tick")
    /\ signal' = "waiting"
    /\ UNCHANGED <<stopAt, runStarted, stopRequested, shutdownStarted, shutdownAt, stopPosted, parts>>

\* DungeonTickService::Start; its handler waits for the io_context to run.
StartTicks ==
    /\ Main("tick", "listen")
    /\ tick' = [tick EXCEPT !.running = TRUE, !.at = "starting"]
    /\ UNCHANGED <<restOfRun, accepting, acceptor, sessionVars, stopping, channelVars,
                   dungeonVars>>

\* TcpServer::Start.
StartListening ==
    /\ Main("listen", "run")
    /\ acceptor' = [acceptor EXCEPT !.open = TRUE]
    /\ accepting' = "waiting"
    /\ UNCHANGED <<restOfRun, tick, sessionVars, stopping, channelVars, dungeonVars>>

\* The port cannot be had: TcpServer stops itself, and Run calls StopOnIoContext and
\* then runs the io_context to get rid of what was started.
ListeningFails ==
    /\ Main("listen", "shutdown")
    /\ acceptor' = [acceptor EXCEPT !.stopped = TRUE, !.closeQueued = TRUE]
    /\ stopRequested' = TRUE
    /\ shutdownStarted' = TRUE
    /\ signal' = "aborted"
    /\ shutdownAt' = "tcp"
    /\ UNCHANGED <<stopAt, runStarted, stopPosted, accepting, tick, sessionVars, stopping,
                   channelVars, dungeonVars>>

\* What the io_context still waits for or has to run.
Work ==
    \/ signal # "none" \/ stopPosted \/ shutdownAt \notin {"none", "done"}
    \/ accepting # "none" \/ acceptor.closeQueued
    \/ tick.at # "none" \/ tick.cancelQueued
    \/ startQueued # {} \/ stopQueued # {}
    \/ \E s \in Sessions : session[s] \in {"open", "allocating", "leaving", "erasing"}
    \/ sockets # {}

\* The threads of the io_context run out of work and are joined,
JoinThreads ==
    /\ ~Work
    /\ Main("run", "drain")
    /\ UNCHANGED <<restOfRun, parts>>

\* and the DatabaseExecutor is drained (see DatabaseExecutor).
RunReturns ==
    /\ Main("drain", "returned")
    /\ UNCHANGED <<restOfRun, parts>>

-----------------------------------------------------------------------------
(* Requests to stop.                                                       *)

\* Stop, from any thread: stopRequested_ is exchanged,
RequestStop ==
    /\ stopAt = "idle"
    /\ stopRequested' = TRUE
    /\ stopAt' = IF stopRequested THEN "done" ELSE "load"
    /\ UNCHANGED <<mainAt, runStarted, shutdownStarted, shutdownAt, stopPosted, signal, parts>>

\* and unless Run has yet to see it StopOnIoContext is posted.
PostStop ==
    /\ stopAt = "load"
    /\ stopAt' = "done"
    /\ stopPosted' = (stopPosted \/ runStarted)
    /\ UNCHANGED <<mainAt, runStarted, stopRequested, shutdownStarted, shutdownAt, signal, parts>>

\* SIGINT or SIGTERM.
Signal ==
    /\ signal = "waiting" /\ mainAt = "run"
    /\ signal' = "ready"
    /\ UNCHANGED <<mainAt, stopAt, runStarted, stopRequested, shutdownStarted, shutdownAt,
                   stopPosted, parts>>

\* An exception leaves the handler of a tick and ends the thread that ran it.
TickThrows ==
    /\ mainAt = "run" /\ tick.at = "handling"
    /\ tick' = [tick EXCEPT !.at = "none"]
    /\ stopRequested' = TRUE
    /\ stopPosted' = TRUE
    /\ UNCHANGED <<mainAt, stopAt, runStarted, shutdownStarted, shutdownAt, signal,
                   accepting, acceptor, sessionVars, stopping, channelVars, dungeonVars>>

-----------------------------------------------------------------------------
(* StopOnIoContext, on lifecycleStrand_.                                   *)

\* Its beginning: only the first call goes on, and cancels the signals.
BeginShutdown ==
    /\ shutdownStarted' = TRUE
    /\ shutdownAt' = IF shutdownStarted THEN shutdownAt ELSE "tcp"

Cancelled(wait) == IF wait = "waiting" THEN "aborted" ELSE wait

PostedStop ==
    /\ mainAt = "run" /\ stopPosted /\ shutdownAt \in {"none", "done"}
    /\ stopPosted' = FALSE
    /\ BeginShutdown
    /\ signal' = Cancelled(signal)
    /\ UNCHANGED <<mainAt, stopAt, runStarted, stopRequested, parts>>

SignalHandler ==
    /\ mainAt = "run" /\ signal \in {"ready", "aborted"} /\ shutdownAt \in {"none", "done"}
    /\ signal' = "none"
    /\ IF signal = "ready"
       THEN stopRequested' = TRUE /\ BeginShutdown
       ELSE UNCHANGED <<stopRequested, shutdownStarted, shutdownAt>>
    /\ UNCHANGED <<mainAt, stopAt, runStarted, stopPosted, parts>>

Shutdown(from, to) ==
    /\ shutdownAt = from /\ shutdownAt' = to
    /\ mainAt' = IF to = "done" THEN "run" ELSE mainAt
    /\ UNCHANGED <<stopAt, runStarted, stopRequested, shutdownStarted, stopPosted, signal,
                   accepting, channelVars, session, startQueued, listed>>

StopAccepting ==
    /\ Shutdown("tcp", "tick")
    /\ acceptor' = [acceptor EXCEPT !.stopped = TRUE, !.closeQueued = @ \/ ~acceptor.stopped]
    /\ UNCHANGED <<tick, stopQueued, stopping, dungeonVars>>

StopTicks ==
    /\ Shutdown("tick", "dungeons")
    /\ tick' = [tick EXCEPT !.running = FALSE, !.cancelQueued = @ \/ tick.running]
    /\ UNCHANGED <<acceptor, stopQueued, stopping, dungeonVars>>

StopDungeons ==
    /\ Shutdown("dungeons", "udp")
    /\ stopping' = stopping \cup {"dungeons"}
    /\ dungeons' = {}
    /\ UNCHANGED <<acceptor, tick, stopQueued, sockets>>

StopUdp ==
    /\ Shutdown("udp", "sessions")
    /\ stopping' = stopping \cup {"udp"}
    /\ sockets' = {}
    /\ UNCHANGED <<acceptor, tick, stopQueued, dungeons>>

\* SessionManager::Stop
StopSessions ==
    /\ Shutdown("sessions", "done")
    /\ stopping' = stopping \cup {"sessions"}
    /\ stopQueued' = stopQueued \cup listed
    /\ UNCHANGED <<acceptor, tick, dungeonVars>>

-----------------------------------------------------------------------------
(* TcpServer, on its strand.                                               *)

restOfAccept == <<runVars, tick, stopping, channelVars, dungeonVars>>

\* A client connects.
Connect ==
    /\ mainAt = "run" /\ accepting = "waiting"
    /\ accepting' = "ready"
    /\ UNCHANGED <<restOfAccept, acceptor, sessionVars>>

AcceptAgain == accepting' = IF acceptor.open THEN "waiting" ELSE "none"

\* StartSession under the mutex: refused when the manager is stopping.
StartSession(s) ==
    IF "sessions" \in stopping
    THEN AcceptAgain /\ UNCHANGED <<session, listed>>
    ELSE /\ session' = [session EXCEPT ![s] = "created"]
         /\ listed' = listed \cup {s}
         /\ accepting' = s

\* The handler of async_accept.  Its error is no reason to stop accepting.
AcceptHandler ==
    /\ \/ /\ accepting = "ready"
          /\ \E s \in Sessions : session[s] = "none" /\ StartSession(s)
       \/ accepting \in {"ready", "aborted"} /\ AcceptAgain /\ UNCHANGED <<session, listed>>
    /\ UNCHANGED <<restOfAccept, acceptor, startQueued, stopQueued>>

\* Its end: the session is started outside the mutex.
StartAccepted ==
    /\ accepting \in Sessions
    /\ startQueued' = startQueued \cup {accepting}
    /\ AcceptAgain
    /\ UNCHANGED <<restOfAccept, acceptor, session, stopQueued, listed>>

CloseAcceptor ==
    /\ mainAt = "run" /\ acceptor.closeQueued /\ accepting \notin Sessions
    /\ acceptor' = [acceptor EXCEPT !.open = FALSE, !.closeQueued = FALSE]
    /\ accepting' = Cancelled(accepting)
    /\ UNCHANGED <<restOfAccept, sessionVars>>

-----------------------------------------------------------------------------
(* DungeonTickService, on its strand.                                      *)

restOfTick == <<runVars, accepting, acceptor, sessionVars, stopping, channelVars>>

\* ScheduleNextTick
Schedule == tick' = [tick EXCEPT !.at = IF tick.running THEN "waiting" ELSE "none"]

\* The handler that Start dispatched.
TickStarts ==
    /\ mainAt = "run" /\ tick.at = "starting"
    /\ Schedule
    /\ UNCHANGED <<restOfTick, dungeonVars>>

TimerExpires ==
    /\ mainAt = "run" /\ tick.at = "waiting"
    /\ tick' = [tick EXCEPT !.at = "ready"]
    /\ UNCHANGED <<restOfTick, dungeonVars>>

CancelTimer ==
    /\ mainAt = "run" /\ tick.cancelQueued /\ tick.at # "handling"
    /\ tick' = [tick EXCEPT !.cancelQueued = FALSE, !.at = Cancelled(@)]
    /\ UNCHANGED <<restOfTick, dungeonVars>>

\* HandleTick: a tick that comes after the stop does nothing.
HandleTick ==
    /\ tick.at \in {"ready", "aborted"}
    /\ tick' = [tick EXCEPT !.at = IF tick.running /\ @ = "ready" THEN "handling" ELSE "none"]
    /\ UNCHANGED <<restOfTick, dungeonVars>>

\* An error of the timer stops the service.
TimerFails ==
    /\ tick.at = "ready" /\ tick.running
    /\ tick' = [running |-> FALSE, cancelQueued |-> TRUE, at |-> "none"]
    /\ UNCHANGED <<restOfTick, dungeonVars>>

\* The tick ends dungeons (see GameServer).
TickEndsDungeon(s) ==
    /\ tick.at = "handling"
    /\ s \in dungeons
    /\ dungeons' = dungeons \ {s}
    /\ sockets' = sockets \ {s}
    /\ UNCHANGED <<restOfTick, tick>>

\* The end of HandleTick; TickClock has the new deadline.
EndTick ==
    /\ tick.at = "handling"
    /\ Schedule
    /\ UNCHANGED <<restOfTick, dungeonVars>>

-----------------------------------------------------------------------------
(* TcpSession, on its strand (see TcpSession for the rest of it).          *)

restOfSession == <<runVars, accepting, acceptor, tick, stopping>>

SessionGoes(s, to) == session' = [session EXCEPT ![s] = to]

\* Start: nothing happens to a session that is closed already.
SessionStarts(s) ==
    /\ mainAt = "run" /\ s \in startQueued
    /\ startQueued' = startQueued \ {s}
    /\ SessionGoes(s, IF session[s] = "created" THEN "open" ELSE session[s])
    /\ UNCHANGED <<restOfSession, stopQueued, listed, channelVars, dungeonVars>>

\* CloseOnStrand: RemoveSession follows.
CloseOnStrand(s) == SessionGoes(s, IF session[s] \in {"created", "open"} THEN "leaving" ELSE session[s])

SessionStops(s) ==
    /\ mainAt = "run" /\ s \in stopQueued /\ session[s] \notin {"allocating", "leaving", "erasing"}
    /\ stopQueued' = stopQueued \ {s}
    /\ CloseOnStrand(s)
    /\ UNCHANGED <<restOfSession, startQueued, listed, channelVars, dungeonVars>>

\* The client goes, a timeout or an error closes the session.
SessionCloses(s) ==
    /\ session[s] = "open"
    /\ CloseOnStrand(s)
    /\ UNCHANGED <<restOfSession, startQueued, stopQueued, listed, channelVars, dungeonVars>>

\* JoinChannel: one channel at a time and none that is full.
JoinChannel(s, c) ==
    /\ session[s] = "open"
    /\ channelOf[s] = None
    /\ currentPlayers[c] < MaxPlayers
    /\ channelOf' = [channelOf EXCEPT ![s] = c]
    /\ currentPlayers' = [currentPlayers EXCEPT ![c] = @ + 1]
    /\ UNCHANGED <<restOfSession, sessionVars, dungeonVars>>

\* Mutant of LeaveChannel: the entry goes, the count stays.
LeaveChannelUncounted(s) ==
    /\ session[s] = "leaving"
    /\ SessionGoes(s, "erasing")
    /\ channelOf' = [channelOf EXCEPT ![s] = None]
    /\ UNCHANGED currentPlayers
    /\ UNCHANGED <<restOfSession, startQueued, stopQueued, listed, dungeonVars>>

\* RemoveSession leaves the channel,
LeaveChannel(s) ==
    /\ session[s] = "leaving"
    /\ SessionGoes(s, "erasing")
    /\ channelOf' = [channelOf EXCEPT ![s] = None]
    /\ currentPlayers' = [c \in Channels |-> IF channelOf[s] = c /\ currentPlayers[c] > 0
                                             THEN currentPlayers[c] - 1 ELSE currentPlayers[c]]
    /\ UNCHANGED <<restOfSession, startQueued, stopQueued, listed, dungeonVars>>

\* and erases the session.
EraseSession(s) ==
    /\ session[s] = "erasing"
    /\ SessionGoes(s, "closed")
    /\ listed' = listed \ {s}
    /\ UNCHANGED <<restOfSession, startQueued, stopQueued, channelVars, dungeonVars>>

\* Mutant of CreateDungeon: stopping_ is not looked at.
CreateDungeonAlways(s) ==
    /\ s \in Leaders /\ session[s] = "open" /\ s \notin dungeons \cup sockets
    /\ dungeons' = dungeons \cup {s}
    /\ SessionGoes(s, "allocating")
    /\ UNCHANGED <<restOfSession, startQueued, stopQueued, listed, channelVars, sockets>>

\* HandleCreateDungeonRequest: CreateDungeon, refused when the manager is stopping,
CreateDungeon(s) ==
    /\ s \in Leaders /\ session[s] = "open" /\ s \notin dungeons \cup sockets
    /\ "dungeons" \notin stopping
    /\ dungeons' = dungeons \cup {s}
    /\ SessionGoes(s, "allocating")
    /\ UNCHANGED <<restOfSession, startQueued, stopQueued, listed, channelVars, sockets>>

\* Allocate is refused when the manager is stopping.
MayAllocate == "udp" \notin stopping

\* and Allocate, which may fail besides; then the dungeon is erased.
AllocateSocket(s) ==
    /\ session[s] = "allocating"
    /\ SessionGoes(s, "open")
    /\ \/ MayAllocate /\ sockets' = sockets \cup {s} /\ UNCHANGED dungeons
       \/ dungeons' = dungeons \ {s} /\ UNCHANGED sockets
    /\ UNCHANGED <<restOfSession, startQueued, stopQueued, listed, channelVars>>

-----------------------------------------------------------------------------
RunStep ==
    \/ RunChecks \/ WaitForShutdownSignal \/ StartTicks
    \/ StartListening \/ ListeningFails \/ JoinThreads \/ RunReturns

ShutdownStep == StopAccepting \/ StopTicks \/ StopDungeons \/ StopUdp \/ StopSessions

ControlStep == RunStep \/ PostStop \/ PostedStop \/ SignalHandler \/ ShutdownStep

AcceptStep == AcceptHandler \/ StartAccepted

TickStep == TickStarts \/ CancelTimer \/ HandleTick \/ EndTick

SessionStep(s) == SessionStarts(s) \/ LeaveChannel(s) \/ EraseSession(s) \/ AllocateSocket(s)

LifecycleNext ==
    \/ RunStarts \/ ControlStep
    \/ RequestStop \/ Signal \/ TickThrows
    \/ Connect \/ AcceptStep \/ CloseAcceptor
    \/ TickStep \/ TimerExpires \/ TimerFails
    \/ \E s \in Sessions :
          \/ SessionStep(s) \/ SessionStops(s) \/ SessionCloses(s)
          \/ CreateDungeon(s) \/ TickEndsDungeon(s)
          \/ \E c \in Channels : JoinChannel(s, c)

LifecycleSpec == LifecycleInit /\ [][LifecycleNext]_vars

\* The threads run, and the io_context runs what is queued: the starting and stopping
\* itself, the acceptor's strand, the tick's and each session's.  Nothing is assumed
\* of the clients, the timer, or of anybody asking the server to stop.
FairLifecycleSpec ==
    /\ LifecycleSpec
    /\ WF_vars(ControlStep)
    /\ WF_vars(AcceptStep)
    /\ WF_vars(CloseAcceptor)
    /\ WF_vars(TickStep)
    /\ \A s \in Sessions : WF_vars(SessionStep(s) \/ SessionStops(s))
-----------------------------------------------------------------------------
\* A server that runs and is asked to stop, by Stop or a signal and at whatever
\* moment, stops: Run returns.
StopReturns == (stopRequested /\ runStarted) ~> mainAt = "returned"

\* When Run has returned nothing is left in the managers.
ShutdownComplete ==
    mainAt = "returned" =>
        /\ listed = {} /\ dungeons = {} /\ sockets = {}
        /\ \A c \in Channels : currentPlayers[c] = 0

\* When the timer is set for the next tick, whatever the time and the last deadline
\* are, the deadlines that have passed are accounted for (see TickClock).
TicksCaughtUp == tick.at = "waiting" => TicksAccounted

\* A channel counts the sessions that are in it, never more than it holds, and each
\* of them is one that the SessionManager still knows.
ChannelsExact ==
    \A c \in Channels :
        LET members == {s \in Sessions : channelOf[s] = c}
        IN  /\ currentPlayers[c] = Cardinality(members)
            /\ currentPlayers[c] <= MaxPlayers
            /\ members \subseteq listed
=============================================================================
