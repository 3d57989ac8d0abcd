# A TLA+ model of the DNF mock game server

The repository is an online action game: a TLS authentication server, a game
server with a TCP lobby and per-dungeon UDP simulation, and a Godot client. This
directory holds TLA+ modules that model both servers, TLC configurations that
check them on small instances, and proofs checked by TLAPS. `PROJECT.json` lists
components, runs, hazards and, for every definition, the source lines it models.

## The system

Four I/O threads of the game server run one Boost.Asio context. Every TCP session
has a strand, so the handlers of one session never overlap, while handlers of
different sessions do. The dungeon tick runs on a strand of its own, each dungeon's
UDP endpoint on another. They meet in three managers, each with its own mutex:

| part | state | operations | called by |
| --- | --- | --- | --- |
| `PartyManager` | parties (leader, members), party of each session | create, join, leave, queries | lobby requests, removal of a session, `CreateDungeon` |
| `DungeonManager` + `DungeonInstance` | dungeons with roster, players, seat identities, disconnect marks, state; identity maps; party-to-dungeon map | create, register, rollback, disconnect, sweep, start, cancel, finish, stop | login, entering, removal of a session, tick |
| `DungeonUdpManager` + `DungeonUdpSession` | per dungeon: socket, tokens, endpoints, activity, input queues, snapshot to send | allocate, rotate, disconnect, remove, release; Hello, heartbeat, movement, attack; snapshots | entering, login, removal, tick, the network |

`DungeonLifecycleService` joins the last two: it calls the dungeon manager, then the
UDP manager, with no lock over both. `PacketDispatcher` handles requests,
`SessionManager` and `TcpSession` own the connections, and `DungeonTickService`
advances all dungeons 30 times a second. A login leaves the I/O threads: it is a task
of `DatabaseExecutor`, a pool with a bounded queue, whose result is posted back.

| part | state | operations | called by |
| --- | --- | --- | --- |
| `TcpSession` + `SessionDeadline` | request in progress, write queue, closed flag; generation of each of three timers | start, read, dispatch, respond, write, time out, stop | the socket, timers, login completions, `SessionManager` |
| `DatabaseExecutor` | queue depth, running tasks, lifecycle flags | post, begin and end a task, drain and stop | logins, the end of `Run`, destructors |
| `PlayerLoginService` + ticket store | the rows of `auth_tickets`, the database connection's mutex | issue, log in, consume, complete | login requests, the authentication server |

The authentication server is a second process on the same database: TLS sessions with
a handshake, three requests that are tasks of an executor of their own, and a limiter in
front of the password checks. A third, the administration tool, creates accounts and
characters.

| part | state | operations | called by |
| --- | --- | --- | --- |
| `AuthTlsSession` | as `TcpSession`, and a handshake with a deadline | start, handshake, read, dispatch, respond, write, time out | the socket, timers, completions of the services |
| `AuthPacketDispatcher` + services | account of each session, login in progress | log in, list characters, select one | sessions; tasks on the workers |
| `LoginAttemptLimiter` | attempts of each address and account in a sliding window, running password checks | acquire, release | logins; the destruction of their tasks |
| `SqliteCharacterProvisioner`, repositories | rows of accounts, players, owners and tickets | create account, create character, queries | administration tool, tasks |

Inside a dungeon, and around the whole:

| part | state | operations | called by |
| --- | --- | --- | --- |
| `RoomState`, `DungeonPlayerState`, processors | waves and enemies of each room; room, position, mana, cooldowns and skill phase of each player; hits that are still due | move, use a portal, begin and advance a skill, strike, start a wave, finish | the tick |
| `GameDataLoader` + catalogs | channels, skills, enemies, dungeon templates | load, look up | the start of the server |
| `ChannelManager` | channel of each session, players in each channel | join, leave | lobby requests, removal of a session |
| `ServerApplication`, `TcpServer` | run, stop and shutdown flags, the acceptor | run, stop, signal, the parts' stops in order | main, signals, failures |

What is hard here:

* one logical step (enter a dungeon, reconnect, leave, start) is several critical
  sections of different managers, and anything may run in between;
* TCP sessions vanish at any time, a new session of the same player resumes the seat
  within a grace, and a token rotation that fails must be undone;
* the tick checks, then acts, under separate locks;
* datagrams are lost, repeated, delayed and reordered, and sequence numbers wrap;
* the tick, the strand and `Stop` share the snapshot slot of a UDP session;
* a login's answer, a timer callback, the completion of a read or write and a stop reach
  a session's strand in any order, also after the session was closed;
* two connections may present one ticket, and several threads may stop the executor;
* an admitted login holds a permit through a queue that may be full, a query that may
  fail and an answer that may be handled before the task is gone;
* a hit is kept by session until its skill has started up, while the seat may change hands;
* a stop may come before, during or after the start, and reaches the parts one by one while
  the other threads go on accepting, joining and creating;
* everything has a deadline (reconnect grace 30 s, ready timeout 10 s, UDP idle 5 s,
  lifetime 2 h) and every dungeon must end and give its socket back.

What makes each part correct:

* parties: both maps agree, a leader is a member, leadership changes only when the
  leader goes;
* dungeons: one connection per character, one seat per character, roster, players,
  marks and party entries agree, a seat never leaves a connected session, states only
  move forward;
* server: a live dungeon has a UDP session and a dead one has none, a connected client
  with a seat has its token, nobody is simulated who belongs to no player, every dungeon
  ends;
* UDP endpoint: within a registration inputs are applied once, in order and only for
  authenticated participants; snapshots get newer, none is stuck and `Stop` leaves nothing behind;
* connections: a closed one is registered nowhere and released at once, an open one always
  has something under way and a deadline for it, a ticket admits one login, every login is
  answered, and a drained executor has no task left;
* authentication: permits are counted exactly, the limits hold in every window, a ticket
  is issued to the owner of a character only, every character has an owner, and no request
  is lost;
* simulation: no enemy is left behind, a finished dungeon is complete, a skill strikes once;
* lifecycle: a server that is asked to stop returns, and leaves nothing registered.

## Modules

| module | models | rests on |
| --- | --- | --- |
| `ServerIds` | the identifiers the managers share | |
| `PartyManager` | `src/PartyManager.cpp` | `ServerIds` |
| `DungeonManager` | `src/DungeonManager.cpp`, the participants of `src/DungeonInstance.cpp` | `ServerIds` |
| `DungeonUdpManager` | `src/DungeonUdpManager.cpp` as its callers see it | `ServerIds` |
| `GameServer` | `PacketDispatcher`, `SessionManager`, `TcpSession`, `DungeonLifecycleService`, `DungeonTickService` | the three managers (EXTENDS) |
| `DungeonUdpSession` | tokens, endpoints and inputs of `src/DungeonUdpSession.cpp`; the numbering of `client/scripts/DungeonUdpService.cs` | implements `DungeonUdpManager` for one dungeon (INSTANCE) |
| `SnapshotPump` | `SendSnapshot`, the pump and `Stop` of `src/DungeonUdpSession.cpp` | |
| `GameData` | `src/GameDataLoader.cpp` and the tests of the catalogs and of `ChannelManager` | |
| `DungeonSimulation` | `src/DungeonMovementProcessor.cpp`, `src/DungeonCombatProcessor.cpp`, `src/DungeonPlayerState.cpp`, `src/RoomState.cpp`, the rooms of `src/DungeonInstance.cpp` | `GameData` (EXTENDS) |
| `TcpSession` | `src/TcpSession.cpp`, `include/SessionDeadline.h` | |
| `AuthTlsSession` | `src/AuthTlsSession.cpp` | `TcpSession` (EXTENDS) |
| `DatabaseExecutor` | `src/DatabaseExecutor.cpp` | |
| `PlayerLogin` | `src/PlayerLoginService.cpp`, `src/SqliteAuthTicketStore.cpp`, the login of `src/PacketDispatcher.cpp`, the end of `ServerApplication::Run` | `DatabaseExecutor` (EXTENDS) |
| `LoginAttemptLimiter` | `src/LoginAttemptLimiter.cpp` | |
| `AuthServer` | `src/AuthPacketDispatcher.cpp`, its three services, the tables, the administration tool, `src/AuthServerApplication.cpp` | `DatabaseExecutor`, `LoginAttemptLimiter` (EXTENDS) |
| `TickClock` | `AdvanceDeadline` of `src/DungeonTickService.cpp` | |
| `ServerLifecycle` | `src/ServerApplication.cpp`, `src/TcpServer.cpp`, `src/ChannelManager.cpp`, `Start` and `Stop` of the parts | `TickClock` (EXTENDS) |
| `ManagerProofs` | the theorems about parties and dungeons, each manager alone | `PartyManager`, `DungeonManager`, TLAPS |
| `GameServerProofs` | the theorems about the managers together, under handlers and tick | `GameServer`, `ManagerProofs` |
| `DungeonUdpSessionProofs`, `DungeonSimulationProofs`, `AuthServerProofs` | the theorems about the module of that name | their modules, TLAPS |
| `SessionsProofs` | the theorems about both kinds of TCP sessions, and about the snapshot pump | `AuthTlsSession`, `SnapshotPump`, TLAPS |
| `PlayerLoginProofs` | the theorems about the executor, and about logins on it | `PlayerLogin`, TLAPS |
| `ServerLifecycleProofs` | the theorems about `AdvanceDeadline` and the lifecycle | `ServerLifecycle`, TLAPS |
| `MC*` | model values, symmetry and test contents for TLC | |

### Correspondence with the code

*Managers.* An operation of `PartyManager` and `DungeonManager` holds its mutex from
the first check to the last write, so it is one action; its early returns are its
guards, and an operation with several outcomes (`RegisterPlayerSession`,
`RollbackPlayerReconnect`, `DisconnectPlayerSession`) is one action per outcome. The
value `None` is the id 0, an absent entry or an empty `optional`. Hash-map iteration
order is a nondeterministic choice. `CreateDungeon` of the module starts at the
second lock of the C++ function, because the roster is read before it, under
`PartyManager`'s mutex; `GameServer` makes that read a step of its own.

*Server.* `at[s]` is the position of a session's strand inside its handler, between
two critical sections, and `dungeonOf`, `rosterOf` are the handler's locals; `tickAt`,
`tickTodo`, ... are those of `HandleTick`. Each manager call is one step, so every
interleaving of calls is explored. Reads are merged only where nothing can change the
answer: a session's party entry is written by its own strand, and leadership is
stable, which `LeadershipStable` establishes. The loops of the tick take their list
in any order. The first list of waiting dungeons (`tickWaiting`) is also what the loop at
lines 237-248 prunes `waitingSince_` with, before the running ones are listed. `told` remembers which tokens clients have been sent, so that a Hello
can arrive at any later time, any number of times.

*Time.* The code compares `now - since` with a limit. The model stores ages that
saturate at the limit, and `Elapse` lets one unit pass; ages make the state space
finite without bounding the number of units. `RegisterPlayerSession` takes a time that was
read before the lock, so it may precede a mark of the same unit; the code then refuses the
reconnect, and so may the model (`MayPrecedeMark`). A tick reads the clock once and does not
span a unit. Handlers may stall for any time at every step except between
`CreateDungeon` and `Allocate`: a stall of 10 s between these two calls would let the
ready timeout erase the dungeon first and leave its UDP session unowned. The model
excludes it (`MayStall`) and the hazard list says so.

*UDP.* In `DungeonUdpManager` a token is the pair (dungeon, session); in
`DungeonUdpSession` tokens are values, inputs carry their true number beside the
32-bit one, and the wire number skips 0 as the client does. Movements and attacks run
through identical code, so the run uses one kind. The network may drop, repeat and
reorder within `Window`. `AddressIsOwn` is an assumption: a client socket speaks for
one session.

*Snapshot pump.* Snapshots are numbered in the order in which the tick offers them.
The steps are the critical sections of `snapshotMutex_` and `stateMutex_`, the two
looks at `stopped_`, the post to the strand and the completion of each send.

*TCP session.* A function of the strand is a function on the record `session` and a
handler is an action, because the strand runs handlers to their end. What completes
elsewhere (socket, timers, login) only changes what waits for the strand.
`SessionDeadline` compares a 64-bit generation; the model keeps, of the callbacks that
wait for the strand, whether their generation has been superseded ("stale"), which is all
the comparison tells apart, and, to say what that must mean, whether their timer has been
started again since ("current" or "earlier"). The removal of the session, a sequence of steps in `GameServer`,
is one step here. The byte arithmetic of the write queue is modulo `SizeModulus`, as
`std::size_t` is. A packet is malformed, a login or another request by choice; the
dispatcher's answers differ only in size.

*Executor and login.* `TryPost` and the two critical sections of `DrainAndStop` are
actions; `stopAt` is the position of each calling thread. A login is a task: its clock
reading, its lock, `SELECT`, `DELETE` with `COMMIT` and the player lookup are separate
steps, and each statement may fail. A ticket's contents are left out; a row is absent,
valid or expired. A malformed ticket is turned away like an unknown one. The I/O threads
end when every session is closed and no completion is queued, which executor tasks do not
prevent; their completions are then never run.

*TLS session.* It is built from the functions of `TcpSession` on the same record, and one
specification runs a connection of either server. Its differences are the handshake, that
nobody stops it, and that every request is answered by a completion. The handler at the
end of a handshake starts the authentication timer before anyone looks at `closed_`
(`src/AuthTlsSession.cpp:93`): a session closed just before it keeps that timer until it
expires. `ClosedIsReleased` exempts that one timer: it cannot delay the end of the
process, because the authentication server stops its `io_context`, while the game server
waits for everything to end.

*Authentication server.* A request is a task. A login takes the limiter's lock and then
the executor's, and reads the clock before the first, so these are three steps; the other
two requests take one lock. Each query of a task takes the connection's mutex, so it is a
step, and may fail. The permit belongs to the task object: it is given back when the task
is destroyed, which is after its completion was posted, or at once when the post is
refused. At most `IoThreads` handlers are in progress; the thread that drains the executor
is one of them. Passwords match by choice. A character's creation is one transaction of
another process: other processes see nothing of it until `COMMIT`.

*Limiter.* A history is a sequence of times, pruned from its front only, as in the code.
`admitted` is auxiliary and remembers every admission.

*Simulation.* The unit is a loop body of the tick: every lookup of a session's player is a
step, so that a disconnect, a reconnect or its rollback can come between any two. Positions
are spots and areas are sets of spots; a move leads to any spot of the room, and a skill
covers any enemies of its room. Player states belong to seats and inputs and hits to
sessions, as in the code. `struck` and `kept` are auxiliary. The content is chosen among
several data directories (an effect's value is a whole number of parts of 1.0, so that the
rounding of `CalculateDamage` can be written out), and `CreateDungeon` is possible only with one that `Load`
accepts, so that the simulation's properties depend on what the loader refuses. In
`DungeonManager` all of it is one nondeterministic step, `TryFinishIfCleared`.

*Lifecycle.* `mainAt`, `stopAt` and `shutdownAt` are positions in `Run`, `Stop` and
`StopOnIoContext`; the handlers of the acceptor, the timer and the signal have a state of
their own (waiting, ready, aborted, running). `Run` returns when none of them, no session,
no socket and no posted handler is left (`Work`). A dungeon is named after the session that
creates it, and what happens to it otherwise is in the other modules.

## Runs

| run | instance | shows |
| --- | --- | --- |
| `dungeon_seats` | 4 sessions, 2 players, 1 dungeon, grace 2, lifetime 3 | identity and seat maps, marks and pending reconnects stay consistent; no seat is taken from a connected session |
| `server` | 3 sessions, 2 players, 1 party, 1 dungeon, all limits 1, lifetime 2 | agreement of the managers at rest under every interleaving of handlers and tick; the tick's times outlive no dungeon by a whole tick |
| `server_liveness` | 2 sessions, 1 player, 1 dungeon | every dungeon ends and every UDP session is released |
| `server_refines` | 2 sessions, 1 player, 2 parties, 2 dungeons, all limits 1 | `GameServer` implements `DungeonSpec` and `PartySpec` when dungeons come and go in every order and a session sits in two; the party maps agree and leadership is stable |
| `udp_session` | 2 sessions, tokens, addresses; numbers modulo 8, window 3, 10 inputs, queue 2 | within a registration inputs are accepted exactly when newer, across the wrap, and only such are queued; the endpoint implements `DungeonUdpManager` |
| `snapshot_pump` | 2 endpoints, 5 snapshots | one pump, no lost wakeup, newest wins, `Stop` drains, no snapshot waits forever |
| `sessions` | either server, 4 packets, queue of 2 messages and 3 bytes, responses of 1, 2 and 4 bytes, sizes modulo 8 | a late answer registers nobody, a late timer closes nothing begun after it, an open session is never abandoned, a closed one is released |
| `player_login` | 3 logins of 2 sessions, 1 ticket, 2 workers, queue of 1, 2 threads that stop the executor | one login per ticket, every login answered or its session closed; nobody returns from `DrainAndStop` too early, everybody returns |
| `auth_server` | 3 requests of 2 sessions from 2 addresses, 2 accounts, 1 character, 2 I/O threads, 1 worker, queue of 1, 1 password check, 1 attempt per address and account, 1 tracked account | permits exact, limits kept, tickets for owners, no request lost through the shutdown |
| `simulation` | 2 seats, 3 sessions, 6 data directories of which 2 are accepted | no enemy left behind, finished means complete, one strike for a skill |
| `lifecycle` | 2 sessions, 1 channel for 1 player, 1 dungeon; deadlines up to 14 with interval 2 | the server stops whenever it is asked, nothing is left, channels count exactly, stalls are accounted for |
| `start_race` | 2 sessions, 2 players | a documented promise that the code does not keep (below) |

*Bounds.* Three sessions of two players are two party members and a connection that
resumes one of them; a fourth session (in `dungeon_seats`) lets both seats be resumed. Two
dungeons suffice for everything that relates a dungeon to another one, because dungeons
interact only through sessions and parties. A limit of one unit already separates
"before", "at" and "after" its expiry; the lifetime is two so that a dungeon can also end
for another reason first. In `udp_session` the counter wraps after seven numbers and ten
are sent, with reordering up to the largest window the comparison is meant to tolerate. In
`sessions` two responses fill the queue by number and by bytes, one exceeds the limit
alone, and sizes wrap just above it; four packets allow a login that fails, one that
succeeds and two requests behind a blocked write. Three logins with one ticket are a rival
and a retry; a second thread stops the executor while the first joins the workers. In
`auth_server` every limit is one or two, so that each is met by two requests: an address
and an account over their limit, a table that is full, a check in progress, a full queue.
Time runs to 1, one window, which lets attempts expire. In `simulation` one directory has
two waves and a skill that has to start up, the other an enemy in each of two rooms and a
skill that strikes at once; the four others each break one rule of the loader. One session
resumes a seat, and may be rolled back. In `lifecycle` a second session finds the channel
full and may be accepted while the first is stopped; the deadlines are tried with stalls of
up to seven intervals against a limit of two. Sets of sessions, players, tokens, addresses
and accounts are symmetric in `dungeon_seats`, `server`, `server_refines`, `udp_session`
and `auth_server`; the runs with liveness use no symmetry. Parties larger than two, which
no run of the server reaches, are covered by the proof: `PartyCorrect` holds for every
capacity. `server` has one dungeon, and `server_refines` two but one player; what they check
together is proved for every number of both. `MaxWave` bounds the wave numbers of the test
contents, as their type does in the code.

*Fairness.* `server_liveness` assumes that a handler that has begun and the tick continue
(they run on threads that are scheduled and no step waits for another process), and that
time passes infinitely often (strong fairness of `Elapse`, since a handler in the two
steps of `MayStall` may disable it for a moment). Clients owe nothing: they may fall
silent at any point. `snapshot_pump` assumes that the strand runs and that a send
completes, with or without an error. `sessions` assumes only that what is queued for
the strand runs, in order, so each kind of handler has weak fairness; of the client, the
timers and the database nothing is assumed. `player_login` assumes that the workers, the
I/O threads and the threads inside `DrainAndStop` are scheduled and that tasks end (SQLite
calls with a busy timeout). `lifecycle` assumes that the threads run and that each strand
runs what is queued for it, never that a timer expires or a client does anything.
`CHECK_DEADLOCK FALSE` where the system really stops: a closed connection, a stopped
server, a finished dungeon.

*Disagreements with the documentation.*

* `start_race`: README.md lines 112 and 311 say that a dungeon starts when every
  participant has authenticated. `HandleTick` asks three questions under three locks; a
  session that closes between them is started without an endpoint. It is marked
  disconnected, so the grace and the sweep still apply to it.

A second race of the same kind has no run of its own: the comment at
`src/DungeonTickService.cpp:210` says that the ready timeout makes no progress during the
reconnect grace, but a participant that disconnects after the check of line 208, in the
tick in which the timeout is due, loses its dungeon although its grace has just begun.

README.md:188 says that old and repeated movement and attack inputs are refused. They are
within one registration of an endpoint, and `InputsOnceInOrder` says no more. When the
endpoint is removed, because the TCP session is gone or the client was idle, its sequences
are erased and its token is kept (`src/DungeonUdpSession.cpp:331-337`); a repeated Hello then
registers it again, and a repeated datagram of the time before is accepted as new
(lines 546-553).

README.md also lists as missing what the code has and the models contain: a bound on the
database queue and its backpressure (lines 177 and 357; `DatabaseExecutor`), a login rate
limit (line 192; `LoginAttemptLimiter`), reconnecting (355), game content outside
the C++ code (358; `GameData`) and the complete graceful shutdown of the game server (359;
`ServerLifecycle`).

*Remarks.* What the models brought to light and no document contradicts:

* the limiter reads the clock before its lock, so a window may hold one attempt more for
  every other I/O thread; `AttemptsBounded` states that slack, and TLC violates the
  statement without it;
* a session may hold seats in two dungeons, and its end marks only one of them; the other
  stays, neither connected nor marked, until the lifetime of that dungeon is over.
  `RunningSeatsAccountedFor` therefore says that a simulated seat belongs to a player, not
  that this player is connected or marked;
* the hits a dungeon still has due when it ends are never erased from `pendingHits_`;
* players are never hurt and obstacles never hit: nothing in the server calls
  `ApplyDamage` or `ApplyObstacleDamage`, and `PlayerSkillBook` and the MySQL repository
  are used by no server.

## Proofs

All theorems are for every value of the constants, from the `ASSUME`s of the modules, which
TLC evaluates in the runs of these modules:

* `IdAssumption`: `None` is not a session, a player or a number, and bounds are natural
  numbers; `PartyAssumption`, `DungeonTimeAssumption`, `SnapshotAssumption`,
  `TickAssumption`: capacities, limits and intervals are positive;
* `ExecutorAssumption`: workers and queue limit are positive, as the constructor checks, and
  the tasks are finitely many; `LoginAssumption`, `AuthAssumption`: a request belongs to a
  session, a session to an address, and `None` is none of the values it stands beside;
* `LimiterOptionsValid`: what `LoginAttemptLimiterOptions::IsValid` checks;
* `TcpAssumption`: the limits are positive and every size fits into `std::size_t`. Sums of
  sizes need not;
* `UdpSessionAssumption`: the network reorders by less than half the range of the numbers.
  This is what the serial-number comparison is made for; it cannot work beyond it;
* `LifecycleAssumption`: the names of sessions are not those of the acceptor's states;
* `TickTimeAssumption`: the tick's limits are positive and `None` is not a time;
* `SimulationAssumption`: a session logs in as one player, and each seat is first held by one
  session of its player; `ContentAssumption`: the types the loader reads into, that is, lists
  are sequences, health and wave numbers unsigned, and damages add up to a natural number.
  Nothing is assumed of what the values are: that is for `Load` to accept or refuse.

| theorem | states |
| --- | --- |
| `PartyCorrect` | types, `PartiesConsistent`, the capacity |
| `PartyLeadershipStable` | `LeadershipStable` |
| `DungeonIdentities` | types, `SeatsExclusive` |
| `DungeonSeats` | `SeatBookkeeping` |
| `DungeonSeatMoves` | `SeatMovesOnlyAfterDisconnect` |
| `DungeonForward` | `DungeonStateMonotonic` |
| `ServerImplementsManagers` | `ImplementsManagers`: `GameServer` refines `DungeonSpec` and `PartySpec` |
| `ServerKeepsManagers` | the properties of both managers, in the server |
| `ServerTokens` | types, `TokensMatchSeats` |
| `ServerUdpSessions` | `UdpSessionPerDungeon` |
| `ServerSeatsAccountedFor` | `RunningSeatsAccountedFor` |
| `ServerTimesFresh` | `TickTimesFresh` |
| `RuntimeStateIsClean` | `RuntimeStateClean` |
| `InputsAppliedOnce` | `InputsOnceInOrder`, within a registration, for every width of the counter |
| `EndpointImplementsManager` | `ImplementsManager`: the endpoint refines `DungeonUdpManager` |
| `SnapshotPumped` | `OnePumpForPending` |
| `SnapshotStopDrains` | `StopDrains` |
| `SnapshotsNewer` | `PendingIsNewer` |
| `SessionsForgotten` | `ClosedIsForgotten`, for both servers |
| `SessionsWatched` | `NeverAbandoned` |
| `WritesAccounted` | `WriteQueueAccounted` |
| `LateTimeouts` | `LateTimeoutHarmless` |
| `ExecutorDrains` | `QueueDepthExact`, `DrainLosesNothing` |
| `LoginDrains` | `DrainLosesNothing` of the executor under the logins |
| `TicketAdmitsOneLogin` | `TicketUsedOnce` |
| `PermitsNeverLeak` | `PermitsExact` |
| `AttemptsStayBounded` | `AttemptsBounded` |
| `TicketsAreTheOwners` | `TicketsForOwners` |
| `CharactersHaveOwners` | `EveryCharacterOwned` |
| `RequestsAnswered` | `NoRequestLost` |
| `StallsAreBounded` | what `AdvanceDeadline` counts and leaves, for every stall |
| `TicksNeverLost` | `TicksCaughtUp` |
| `ChannelCounts` | `ChannelsExact` |
| `NothingIsLeft` | `ShutdownComplete` |
| `SimulationStrikesOnce` | `SkillStrikesOnce` |
| `SimulationFinishes` | `FinishedIsComplete` |
| `SimulationLeavesNoEnemy` | `NoEnemyLeftBehind` |

*Parties.* The invariant is inductive once it says that party ids not handed out yet have
no party. The work is in `Erase`: the members after a departure are the members
before without the one who left, still without repetition.

*Dungeons.* The properties need four more conjuncts. `FutureDungeonsAbsent`: ids not
handed out yet are absent and empty, so `CreateDungeon` overwrites nothing.
`NewIsUnknown`: a session that has not registered is nobody's connection.
`SeatMatchesIdentity`: a seated session that speaks for a player speaks for the player of
its seat; without it, a session could register as one player and be bound to a seat as
another. `ReconnectFromTheDead`: the session a pending reconnect took the seat from is
closed, so a rollback cannot collide with it. There is one lemma per action and one step
per conjunct the action can disturb.

*Server.* The properties speak of moments when no handler and no tick is under way; in
between, the managers disagree. The invariant (`ServerInv`) says for every position of a
strand and of the tick what is apart and who will put it right. `UdpFollows`: a dead dungeon
with a UDP session has someone at the step that releases it (`Releasing`), and a live one
without has a strand between its creation and its allocation. That strand alone is entering
the dungeon (`EntersAlone`), and nothing has timed out in it yet (`NewDungeonYoung`), which is
where `MayStall` is used: otherwise the ready timeout could erase the dungeon before it is
allocated. `TokenFollowsSeat`: a client in use has a token exactly where it has a seat, and a
token may be behind its seat only while a reconnect is about to rotate it or to be undone.
This needs that a reconnect concerns one seat (`ReconnectOneSeat`), that the seat it took was
a closed session's and is nobody else's (`Departed`, `OldSeats`), and that the sweep never
reports a session a reconnect may still go back to. `VanishedSeats`: a seat without a player
waits for a Hello that cannot come, because its session was closed before its token was told
(`HelloWasTold`, `Rosters`), so the dungeon is not started; it ends by the ready timeout.
`TimesListed`: outside the loop over the waiting dungeons, `waitingSince_` holds dungeons of
the tick's own list only, because the pruning loop has removed the others.
With these, every step of a handler and of the tick is one step of each manager at most
(`ServerImplementsStep`), and the managers' invariants need not be proved again: the proof of
a step assumes and re-establishes them with their own lemmas. There is one lemma per action;
a part of the invariant that depends on nothing the action changes follows from one lemma per
part.

*Simulation.* A hit is kept by session and the action that caused it by seat. `HitsOK`: of all
the sessions of a player one at most has a hit pending, it has not struck, and when the tick
takes attacks a player with a pending hit is not idle; so an attack never replaces a hit that
is due and never adds a second. `DueOK`: a hit that has not struck is with the session on the
seat, and once its action is active the loop in progress has still to visit that session
(`Visited`), so the tick cannot end before it strikes. It speaks of players whose seat did not
change hands during the action (`kept`); for the others only "at most once" holds, because the
hit of a session that is gone is dropped. `RoomOK`: an enemy is unborn exactly when its wave
has not started; so a room whose last wave has started and in which nobody lives is free of
enemies for good (`ClearedIsDead`). The loader's refusal of a wave 0 matters here: a spawn with
that number would never be born. `ChainOK` is `NoEnemyLeftBehind` for all players, also those without a
seat, because a reconnect may give it back. `MinExists` and `MaxExists` are what is needed of
the first portal, the next and the last wave.

*Snapshot pump.* `FlagMeansPump` says that, until the session is stopped, the scheduled
flag is true exactly when a pump runs or is about to be posted, and never both;
`OfferedIsNewest` orders the four places a snapshot can be in; `StopIsFlagged` ties
`stopped_` to the progress of `Stop`.

*Executor.* `DrainLosesNothing` speaks of callers that have returned; it is inductive
together with `DrainedWhenPast`, which says the same of a caller that has joined the
workers and not yet returned, and of everyone once `joined` is set, and with the fact that
a caller inside `DrainAndStop` has found or made `acceptingTasks` false: a task posted
between join and return would break it.

*Tick deadlines.* The division is characterised by its two bounds (`DivBounds`,
`DivUnique`), so subtracting whole intervals lowers the quotient by as many (`DivShift`);
the theorem is then a case distinction on whether more are overdue than may be caught up.
`TicksNeverLost` shows that the deadlines counted one by one are an interval of numbers
whose length is that quotient.

*UDP endpoint.* Three facts about the model's operators carry the proof. The remainder of a
number just outside the range is the number shifted by the range (`SmallRemainder`), so two
inputs closer than half the range are told apart by their wrapped numbers
(`NewerOnTheWire`): this is the proof of `IsNewerSequence` for every width. `OthersStay`:
`std::remove_if` keeps what it keeps, in order; it rests on the fact that a finite set of
numbers has exactly one ascending enumeration, an induction that is written as the search
for a least counterexample (`LeastNumber`). The invariant adds to the properties that the
recorded number is that of the last input accepted (`SequencesRecorded`), that the client is
ahead of it by less than half the range (`InputsBehind`), and that nothing waits that is
newer than what was accepted (`PendingAccepted`), without which an input accepted next could
be older than one that waits. The half of `InputsOnceInOrder` about steps follows: an input
enters a queue only in `HandleInput`, where the comparison is exact (`InputQueuesNewer`), and
only the removal of an endpoint lowers what was accepted (`RemovalQueuesNothing`). For the refinement every action is matched with the action of
`DungeonUdpManager` it performs, or with none (`ManagerSteps`).

*Sessions.* A handler is a composition of functions on the session's record, so the lemmas
say what each function needs and leaves: `Loose` holds even in the middle of a handler and is
enough to close the session, `Steady` holds between two functions, `Good` between two
handlers. `Timed` is the strengthening that matters: while a session is open, a deadline runs
not only whenever it should (`NeverAbandoned`) but only then, which is what makes a late
callback harmless. `FreshDeadline` adds that no callback of a timer that was started again
passes for current: every `Start` and every `Cancel` supersedes what waits. `Accounted` carries the partial sums of the write queue, so that the first
message is known to be part of the total when it is subtracted.

*Logins.* Every step of a login is at most one step of the executor, so the executor's
invariant carries over. `TicketUsedOnce` speaks of logins that have succeeded; inductive is
that a login which has deleted a row, answered or not, has an exclusive claim to its ticket
(`ConsumedOnce`). It needs that the connection's mutex separates a `SELECT` and its `DELETE`
from every other (`ConnectionExclusive`) and that the row a `SELECT` has found is still there
(`RowsIssued`).

*Authentication server.* `Placed` says for every position of a request what is known of it:
where it is in the executor, that the login in a handler has a login id, that a task about to
issue a ticket still asks for the owner. The last holds because the administration tool's
transaction is about a character without an owner (`ProvisioningIsNew`) and an account once
set stays. `PermitsExact` is inductive together with it: the permit of a request that is
neither about to be posted nor in the executor has been returned. `AttemptsBounded` is the
hardest: for a window that ends at t, either nothing of it has been dropped from the history,
and then the limit of the history bounds it; or a thread with a later time has dropped
something, and then only the threads that have read a time up to t and still wait for the
mutex can add to it (`WindowBounded`), and these are at most `IoThreads - 1`, because the
thread that dropped it is not one of them. `WindowStep` shows that for one key, `WindowsAdmit`
for all.

*Lifecycle.* `ShutdownComplete` speaks of the last state only. The invariant says that the
managers have something only while the `io_context` runs (`QuietUnlessRun`), that `Run` leaves
it only behind a complete shutdown (`ShutdownOrder`), and that a session which exists is
listed and, until it is started, is work that keeps the `io_context` running
(`SessionsListed`, `CreatedStarts`).

*Only model-checked:* liveness, which TLAPS does not reason about here: `EverythingEnds`,
`SnapshotTaken`, `ClosedIsReleased`, `LoginAnswered`, `DrainReturns` and `StopReturns`. The
violated property of `start_race` is refuted by TLC. Every other property that a run checks
is a theorem.

## Not modelled

* *Wire formats* (FlatBuffers codecs and protocols) and *TCP framing*: sequential
  conversions without interleavings; a packet that cannot be read closes its session, which
  is modelled.
* *Content requests, `PlayerSkillBook`, MySQL storage*: read-only, or used by no server.
* *Hashing, validation, metrics*: library calls, pure checks and counters.
* *Opening and migrating the database* (`src/SqliteDatabase.cpp`): SQLite's own locking
  decides it.
* *Geometry*: facing, hit boxes, movement speed. Floating-point arithmetic is outside TLC,
  and no property here depends on where exactly something is.
* *Client*: of its networking only the numbering of inputs. Its presentation is drawing and
  input polling.

## Plan

All parts of both servers that keep state are modelled, and every safety property of theirs
that is checked is proved. What is left is the *client*: Hello, retries, snapshot tracker and
mailbox against `DungeonUdpSession` over a lossy network.
