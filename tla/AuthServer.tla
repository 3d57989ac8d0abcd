----------------------------- MODULE AuthServer -----------------------------
(***************************************************************************)
(* The authentication server: the requests of its TLS sessions             *)
(* (src/AuthPacketDispatcher.cpp), the three services behind them          *)
(* (src/AccountAuthenticationService.cpp, src/CharacterListService.cpp,    *)
(* src/CharacterSelectionService.cpp), the limiter, the executor, the      *)
(* tables they use and the administration tool that fills them from        *)
(* another process, and the shutdown of src/AuthServerApplication.cpp.     *)
(*                                                                         *)
(* A task of the executor is one request; SessionOf says whose.  The       *)
(* handlers run on IoThreads threads.  A login is the only request that    *)
(* takes two locks in turn, so only a login can be overtaken in the middle *)
(* of its handler; the others are one action.  A session is reduced to     *)
(* closed_, requestInProgress_ and its account (TcpSession has the rest).  *)
(***************************************************************************)
EXTENDS DatabaseExecutor, LoginAttemptLimiter

CONSTANTS
    Sessions,     \* TLS sessions
    SessionOf,    \* the session of each request
    KindsOf,      \* bound on what each request may be
    AddressOf,    \* the client address of each session
    Registered,   \* the accounts created before the server starts
    Players,      \* characters that may be created
    IoThreads,    \* AUTH_IO_THREAD_COUNT
    None          \* absent value

ASSUME AuthAssumption ==
    /\ SessionOf \in [Tasks -> Sessions]
    /\ KindsOf \in [Tasks -> SUBSET {"login", "list", "select"}]
    /\ AddressOf \in [Sessions -> Addresses]
    /\ Registered \subseteq LoginIds
    /\ IoThreads \in Nat \ {0}
    /\ Stoppers = {"signal"}
    /\ None \notin LoginIds \cup Players

VARIABLES
    request,             \* the state of each request
    requestInProgress,   \* requestInProgress_ of each session
    closed,              \* closed_ of each session
    account,             \* accountId_ of each session's AuthServerSessionState
    ioRunning,           \* the io_context has not been stopped
    accounts,            \* the rows of accounts
    players,             \* the rows of players
    ownerOf,             \* the rows of account_players: the account of each player
    tickets,             \* the account and player of each row of auth_tickets
    admin                \* the transaction of the administration tool

sessionVars == <<requestInProgress, closed, account, ioRunning>>
storageVars == <<accounts, players, ownerOf, tickets>>
authVars    == <<executorVars, limiterVars, request, sessionVars, storageVars, admin>>

OnIoThread == {"admit", "post"}
OnWorker   == {"queued", "ids", "profiles", "issue"}

Request == [at : {"new", "complete", "respond", "done"} \cup OnIoThread \cup OnWorker,
            kind : {"login", "list", "select", None},
            login : LoginIds \cup {None},        \* the login id of a login
            now : 0..MaxTime,                    \* the clock that TryAcquire has read
            player : Players \cup {None},        \* the player of a selection
            found : SUBSET Players,              \* the player ids still to be looked up
            success : BOOLEAN]                   \* whether the status is Success

AuthTypeOK ==
    /\ ExecutorTypeOK
    /\ concurrentPasswordJobs \in 0..MaxConcurrentPasswordJobs
    /\ request \in [Tasks -> Request]
    /\ requestInProgress \in [Sessions -> BOOLEAN]
    /\ closed \in [Sessions -> BOOLEAN]
    /\ account \in [Sessions -> LoginIds \cup {None}]
    /\ ioRunning \in BOOLEAN
    /\ accounts \in SUBSET LoginIds
    /\ players \in SUBSET Players
    /\ ownerOf \in [Players -> LoginIds \cup {None}]
    /\ tickets \in SUBSET (LoginIds \X Players)
    /\ admin \in [at : {"idle", "open"},
                  account : LoginIds \cup {None}, player : Players \cup {None}]

NoRequest == [at |-> "new", kind |-> None, login |-> None, now |-> 0,
              player |-> None, found |-> {}, success |-> FALSE]

Idle == [at |-> "idle", account |-> None, player |-> None]

AuthInit ==
    /\ ExecutorInit
    /\ LimiterInit
    /\ request = [r \in Tasks |-> NoRequest]
    /\ requestInProgress = [s \in Sessions |-> FALSE]
    /\ closed = [s \in Sessions |-> FALSE]
    /\ account = [s \in Sessions |-> None]
    /\ ioRunning = TRUE
    /\ accounts = Registered
    /\ players = {}
    /\ ownerOf = [p \in Players |-> None]
    /\ tickets = {}
    /\ admin = Idle

-----------------------------------------------------------------------------
(* The threads of the io_context.                                          *)

\* A thread blocked in DrainAndStop, or inside a handler, runs no other.
IoThreadFree ==
    Cardinality({r \in Tasks : request[r].at \in OnIoThread})
        + (IF stopAt["signal"] \in {"waiting", "joining", "notify"} THEN 1 ELSE 0) < IoThreads

Update(r, next) == request' = [request EXCEPT ![r] = next]

\* Post the completion.  Of its status only Success makes a difference to the server.
Finished(r, status) == [request[r] EXCEPT !.at = "complete", !.success = status = "Success"]

\* Mutant of PostTask: a refused task gets no completion.
PostTaskUnanswered(r, next) ==
    \/ /\ TryPost(r)
       /\ Update(r, [next EXCEPT !.at = "queued"])
    \/ /\ ~CanPost
       /\ Update(r, [next EXCEPT !.at = "done"])
       /\ UNCHANGED executorVars

\* TryPost, and the completion posted in its place when it returns false.
PostTask(r, next) ==
    \/ /\ TryPost(r)
       /\ Update(r, [next EXCEPT !.at = "queued"])
    \/ /\ ~CanPost
       /\ Update(r, [next EXCEPT !.at = "complete"])
       /\ UNCHANGED executorVars

\* DispatchNextPacket takes a packet of an open session without a request in
\* progress and hands it to DispatchAsync.
Accepts(r, kind) ==
    LET s == SessionOf[r] IN
    /\ kind \in KindsOf[r]
    /\ ioRunning /\ IoThreadFree
    /\ request[r].at = "new" /\ ~closed[s] /\ ~requestInProgress[s]
    /\ requestInProgress' = [requestInProgress EXCEPT ![s] = TRUE]
    /\ UNCHANGED <<limiterVars, closed, account, ioRunning, storageVars, admin>>

\* HandleLoginRequestAsync and Authenticate, up to the lock of TryAcquire.  Input
\* that cannot be right is refused without asking the limiter.
LoginRequest(r) ==
    /\ account[SessionOf[r]] = None
    /\ Accepts(r, "login")
    /\ \/ \E l \in LoginIds :
             Update(r, [request[r] EXCEPT !.at = "admit", !.kind = "login",
                                          !.login = l, !.now = clock])
       \/ Update(r, [Finished(r, "InvalidCredentials") EXCEPT !.kind = "login"])
    /\ UNCHANGED executorVars

\* HandleCharacterListRequestAsync, with LoadCharacters.
CharacterListRequest(r) ==
    /\ Accepts(r, "list")
    /\ IF account[SessionOf[r]] = None
       THEN /\ Update(r, [request[r] EXCEPT !.at = "respond", !.kind = "list"])
            /\ UNCHANGED executorVars
       ELSE PostTask(r, [request[r] EXCEPT !.kind = "list"])

\* HandleCharacterSelectionRequestAsync, with SelectCharacter.  Player 0 is refused
\* at once.
CharacterSelectionRequest(r) ==
    /\ Accepts(r, "select")
    /\ IF account[SessionOf[r]] = None
       THEN /\ Update(r, [request[r] EXCEPT !.at = "respond", !.kind = "select"])
            /\ UNCHANGED executorVars
       ELSE \/ \E p \in Players :
                  PostTask(r, [request[r] EXCEPT !.kind = "select", !.player = p])
            \/ /\ Update(r, [Finished(r, "InvalidSelection") EXCEPT !.kind = "select"])
               /\ UNCHANGED executorVars

\* TryAcquire: without a permit the login is completed at once.
AdmitLogin(r) ==
    LET q == request[r]
        ip == AddressOf[SessionOf[r]]
        status == Admission(ip, q.login, q.now).status
    IN  /\ q.at = "admit"
        /\ TryAcquire(ip, q.login, q.now)
        /\ Update(r, IF status = "Accepted" THEN [q EXCEPT !.at = "post"]
                     ELSE Finished(r, status))
        /\ UNCHANGED <<executorVars, sessionVars, storageVars, admin>>

\* Mutant of KeepPermit: a task that is refused takes its permit with it.
KeepPermitAlways == UNCHANGED limiterVars

\* A refused task is destroyed, and its permit with it; an accepted one keeps it.
KeepPermit == IF CanPost THEN UNCHANGED limiterVars ELSE ReleasePermit

\* The TryPost of Authenticate.
PostLogin(r) ==
    /\ request[r].at = "post"
    /\ PostTask(r, request[r])
    /\ KeepPermit
    /\ UNCHANGED <<sessionVars, storageVars, admin>>

\* The completion handlers of the dispatcher: a successful login marks the session
\* authenticated, unless it already is.
Complete(r) ==
    LET q == request[r]
        s == SessionOf[r]
        login == q.kind = "login" /\ q.success
    IN  /\ ioRunning /\ IoThreadFree
        /\ q.at = "complete"
        /\ account' = IF login /\ account[s] = None
                      THEN [account EXCEPT ![s] = q.login] ELSE account
        /\ Update(r, [q EXCEPT !.at = "respond"])
        /\ UNCHANGED <<executorVars, limiterVars, requestInProgress, closed, ioRunning,
                       storageVars, admin>>

\* HandleResponse on the session's strand.
HandleResponse(r) ==
    LET s == SessionOf[r] IN
    /\ ioRunning /\ IoThreadFree
    /\ request[r].at = "respond"
    /\ Update(r, [NoRequest EXCEPT !.at = "done", !.kind = request[r].kind])
    /\ requestInProgress' = IF closed[s] THEN requestInProgress
                            ELSE [requestInProgress EXCEPT ![s] = FALSE]
    /\ UNCHANGED <<executorVars, limiterVars, closed, account, ioRunning, storageVars, admin>>

\* A timeout, an error of the socket, a bad packet or a login on an authenticated
\* session closes it.
CloseSession(s) ==
    /\ ioRunning /\ ~closed[s]
    /\ closed' = [closed EXCEPT ![s] = TRUE]
    /\ UNCHANGED <<executorVars, limiterVars, request, requestInProgress, account, ioRunning,
                   storageVars, admin>>

-----------------------------------------------------------------------------
(* The tasks, on the executor's workers.                                   *)

Running(r, kind, at) ==
    /\ r \in running /\ request[r].kind = kind /\ request[r].at = at
    /\ UNCHANGED <<executorVars, limiterVars, sessionVars, admin>>

\* The task of Authenticate: FindAccountByLoginId and Verify.
Verify(r) ==
    /\ Running(r, "login", "queued")
    /\ \E matches \in BOOLEAN :
          Update(r, Finished(r, IF matches /\ request[r].login \in accounts
                                THEN "Success" ELSE "InvalidCredentials"))
    /\ UNCHANGED storageVars

\* The task of LoadCharacters takes the connection's mutex for each of its queries:
\* FindAccount,
FindAccount(r) ==
    /\ Running(r, "list", "queued")
    /\ Update(r, IF account[SessionOf[r]] \in accounts
                 THEN [request[r] EXCEPT !.at = "ids"] ELSE Finished(r, "AccountNotFound"))
    /\ UNCHANGED storageVars

\* FindPlayerIds,
FindPlayerIds(r) ==
    /\ Running(r, "list", "ids")
    /\ Update(r, [request[r] EXCEPT !.at = "profiles",
                                    !.found = {p \in Players : ownerOf[p] = account[SessionOf[r]]}])
    /\ UNCHANGED storageVars

\* and FindPlayer for every id; one that is not found fails the request.
FindPlayer(r) ==
    LET q == request[r] IN
    /\ Running(r, "list", "profiles")
    /\ \/ /\ q.found = {}
          /\ Update(r, Finished(r, "Success"))
       \/ \E p \in q.found :
             Update(r, IF p \in players THEN [q EXCEPT !.found = @ \ {p}]
                       ELSE Finished(r, "ServiceError"))
    /\ UNCHANGED storageVars

\* Mutant of Owns: whoever has logged in may select any character.
OwnsAny(a, p) == ownerOf[p] # None

\* OwnsPlayer
Owns(a, p) == ownerOf[p] = a

\* The task of SelectCharacter: Issue asks for the owner,
OwnsPlayer(r) ==
    /\ Running(r, "select", "queued")
    /\ Update(r, IF Owns(account[SessionOf[r]], request[r].player)
                 THEN [request[r] EXCEPT !.at = "issue"] ELSE Finished(r, "InvalidSelection"))
    /\ UNCHANGED storageVars

\* and stores a fresh ticket; another writer has to be done first.
IssueTicket(r) ==
    /\ Running(r, "select", "issue")
    /\ admin.at = "idle"
    /\ tickets' = tickets \cup {<<account[SessionOf[r]], request[r].player>>}
    /\ Update(r, Finished(r, "Success"))
    /\ UNCHANGED <<accounts, players, ownerOf>>

\* A query fails, or the database stays locked: the task catches the exception.
TaskFails(r) ==
    /\ \E kind \in {"login", "list", "select"}, at \in OnWorker : Running(r, kind, at)
    /\ Update(r, Finished(r, "ServiceError"))
    /\ UNCHANGED storageVars

TaskStep(r) ==
    \/ Verify(r)
    \/ FindAccount(r) \/ FindPlayerIds(r) \/ FindPlayer(r)
    \/ OwnsPlayer(r) \/ IssueTicket(r)
    \/ TaskFails(r)

\* A worker takes a task.
BeginRequest(r) ==
    /\ BeginTask(r)
    /\ UNCHANGED <<limiterVars, request, sessionVars, storageVars, admin>>

\* The task is destroyed after it has posted its completion, which may have been
\* handled by then: only now a login gives its permit back.
EndRequest(r) ==
    /\ request[r].at \notin OnWorker
    /\ EndTask(r)
    /\ IF request[r].kind = "login" THEN ReleasePermit ELSE UNCHANGED limiterVars
    /\ UNCHANGED <<request, sessionVars, storageVars, admin>>

-----------------------------------------------------------------------------
(* The administration tool (src/admin_main.cpp), one command after another. *)

\* CreateAccount; login_id is unique.
CreateAccount(l) ==
    /\ admin.at = "idle"
    /\ accounts' = accounts \cup {l}
    /\ UNCHANGED <<executorVars, limiterVars, request, sessionVars, players, ownerOf, tickets, admin>>

\* Mutant of BeginProvisioning: the row of players commits by itself.
BeginProvisioningCommitted(l, p) ==
    /\ admin.at = "idle"
    /\ l \in accounts /\ p \notin players
    /\ admin' = [at |-> "open", account |-> l, player |-> p]
    /\ players' = players \cup {p}
    /\ UNCHANGED <<executorVars, limiterVars, request, sessionVars, accounts, ownerOf, tickets>>

\* CreateOwnedPlayer up to COMMIT: BEGIN IMMEDIATE, the look at the account and the
\* rows of players, whose name must be new, and of account_players.  Nobody else
\* sees them yet.
BeginProvisioning(l, p) ==
    /\ admin.at = "idle"
    /\ l \in accounts /\ p \notin players
    /\ admin' = [at |-> "open", account |-> l, player |-> p]
    /\ UNCHANGED <<executorVars, limiterVars, request, sessionVars, storageVars>>

\* COMMIT
CommitProvisioning ==
    /\ admin.at = "open"
    /\ players' = players \cup {admin.player}
    /\ ownerOf' = [ownerOf EXCEPT ![admin.player] = admin.account]
    /\ admin' = Idle
    /\ UNCHANGED <<executorVars, limiterVars, request, sessionVars, accounts, tickets>>

\* An early return, an exception or the end of the process before COMMIT: the
\* transaction is rolled back.
AbortProvisioning ==
    /\ admin.at # "idle"
    /\ admin' = Idle
    /\ UNCHANGED <<executorVars, limiterVars, request, sessionVars, storageVars>>

AdminStep ==
    \/ \E l \in LoginIds : CreateAccount(l)
    \/ \E l \in LoginIds, p \in Players : BeginProvisioning(l, p)
    \/ CommitProvisioning \/ AbortProvisioning

-----------------------------------------------------------------------------
(* Shutdown                                                                *)

\* StopOnIoContext, once: the acceptor is closed and the thread enters DrainAndStop.
StopOnIoContext ==
    /\ ioRunning /\ IoThreadFree
    /\ DrainAndStop("signal")
    /\ UNCHANGED <<limiterVars, request, sessionVars, storageVars, admin>>

\* ioContext_.stop(), when DrainAndStop has returned.  (The one that ~DatabaseExecutor
\* calls later finds joined_ set.)
StopIoContext ==
    /\ ioRunning
    /\ stopAt["signal"] = "returned"
    /\ ioRunning' = FALSE
    /\ UNCHANGED <<executorVars, limiterVars, request, requestInProgress, closed, account,
                   storageVars, admin>>

ContinueDrain(x) ==
    /\ DrainStep(x)
    /\ UNCHANGED <<limiterVars, request, sessionVars, storageVars, admin>>

PassTime == Tick /\ UNCHANGED <<executorVars, request, sessionVars, storageVars, admin>>

IoStep(r) ==
    AdmitLogin(r) \/ PostLogin(r) \/ Complete(r) \/ HandleResponse(r)

WorkStep == \E r \in Tasks : BeginRequest(r) \/ TaskStep(r) \/ EndRequest(r)

AuthNext ==
    \/ \E r \in Tasks :
          \/ LoginRequest(r) \/ CharacterListRequest(r) \/ CharacterSelectionRequest(r)
          \/ IoStep(r)
    \/ \E s \in Sessions : CloseSession(s)
    \/ WorkStep
    \/ AdminStep
    \/ StopOnIoContext \/ StopIoContext
    \/ \E x \in Stoppers : ContinueDrain(x)
    \/ PassTime

AuthSpec == AuthInit /\ [][AuthNext]_authVars

-----------------------------------------------------------------------------
\* Password checks are counted exactly: from the admission until the task is
\* destroyed, whether it was refused, queued, running, or its answer already given.
\* A count that leaked would in the end refuse every login.
PermitsExact ==
    /\ concurrentPasswordJobs =
           Cardinality({r \in Tasks : /\ request[r].kind = "login"
                                      /\ request[r].at = "post" \/ r \in queued \cup running})
    /\ concurrentPasswordJobs <= MaxConcurrentPasswordJobs

\* How many of the attempts that P holds of were admitted in the window that ends at t.
AttemptsWithin(t, P(_)) ==
    Cardinality({i \in DOMAIN admitted : /\ P(admitted[i])
                                         /\ t - AttemptWindow < admitted[i].at
                                         /\ admitted[i].at <= t})

\* In no window does an address or an account get more attempts than it may, except
\* one for each other thread: a thread that read the clock and then waited for the
\* mutex may find that a later one has already dropped what was still in its window.
AttemptsBounded ==
    \A t \in 0..MaxTime :
        /\ \A k \in Addresses :
              AttemptsWithin(t, LAMBDA x : x.ip = k) <= MaxAttemptsPerIp + (IoThreads - 1)
        /\ \A k \in LoginIds :
              AttemptsWithin(t, LAMBDA x : x.account = k) <= MaxAttemptsPerAccount + (IoThreads - 1)

\* A ticket is only ever issued for a character to the account that owns it, and
\* only after a session has proved to be that account.
TicketsForOwners ==
    \A k \in tickets : /\ ownerOf[k[2]] = k[1]
                       /\ \E s \in Sessions : account[s] = k[1]

\* Whatever moment the administration tool ends at, no character is left without an
\* owner: its name would be taken and nobody could play it.  And no owned character
\* is missing, so that a listing cannot fail for one.
EveryCharacterOwned == \A p \in Players : p \in players <=> ownerOf[p] # None

\* An open session waits for exactly one request, and that request is somewhere: in
\* a handler, in the executor or posted to the io_context.  A request that was lost
\* would leave the session waiting forever, as it reads nothing meanwhile.
NoRequestLost ==
    \A s \in Sessions :
        LET pending == {r \in Tasks : SessionOf[r] = s /\ request[r].at \notin {"new", "done"}}
        IN  /\ ~closed[s] => Cardinality(pending) = (IF requestInProgress[s] THEN 1 ELSE 0)
            /\ \A r \in pending : request[r].at \in OnWorker => r \in queued \cup running
=============================================================================
